----------------------------- MODULE NodeDaemon -----------------------------
(***************************************************************************)
(* A node on its machine (cli/src/commands.rs, config.rs and api.rs):      *)
(* processes that initialise the node or run its daemon, the config.json   *)
(* they share, and the API server with its clients.                        *)
(*                                                                         *)
(* Every command is a process of its own, cut at its system calls; any of  *)
(* them may fail, and the process may be killed at any of them.  The       *)
(* service manager is external: vaultkeeperd.service says                  *)
(* Restart=on-failure, so it starts the daemon again after an error or a   *)
(* SIGKILL, and not after a SIGTERM (systemctl stop) or exit status 0.  So *)
(* are the clients, who may connect, send one request or nothing, and hang *)
(* up whenever they like.  What the daemon opens before it listens (P2P    *)
(* node, ledger, account, shard store) has modules of its own.             *)
(***************************************************************************)
EXTENDS Naturals, Sequences

CONSTANTS
    Proc,               \* processes on the machine
    Service,            \* the one that systemd runs
    Manual,             \* those in which the daemon may be started by hand
    Client,             \* clients of the API
    MaxInits,           \* bound: runs of cmd_init
    MaxKills,           \* bound: processes killed or told to stop
    MaxFaults           \* bound: system calls that fail

ASSUME DaemonAssumption ==
    /\ Service \in Proc /\ Manual \subseteq Proc \ {Service} /\ Client # {}
    /\ MaxInits \in Nat /\ MaxKills \in Nat /\ MaxFaults \in Nat

VARIABLES
    config,             \* blocks of config.json
    pc,                 \* what each process is about to do
    inits,              \* identities generated so far
    identity,           \* the NodeConfig that a process is about to save
    stream,             \* the connection the server has accepted last
    backlog,            \* connections that wait to be accepted
    client,             \* what each client has done on its connection
    wanted,             \* external: the operator has started the service
    exit,               \* external: how systemd saw the service end last
    kills, faults,      \* history: processes killed, system calls that failed
    disturbed           \* history: a save was cut off, or met another one

fileVars == <<config, inits, disturbed>>
apiVars == <<stream, backlog, client>>
outerVars == <<wanted, kills, faults>>
daemonVars == <<config, pc, inits, identity, stream, backlog, client,
                wanted, exit, kills, faults, disturbed>>

NoFile == <<0>>

\* The text of a configuration: public_key is written as a list of decimal
\* numbers, so the texts of two identities differ in length.
Text(id) == [k \in 1..((id % 2) + 1) |-> id]
Readable == \E id \in 1..inits : config = Text(id)

Listening(p) == pc[p] \in {"accept", "read", "write"}

DaemonInit ==
    /\ config = NoFile
    /\ pc = [p \in Proc |-> "none"]
    /\ inits = 0
    /\ identity = [p \in Proc |-> 0]
    /\ stream = CHOOSE c \in Client : TRUE
    /\ backlog = <<>>
    /\ client = [c \in Client |-> "away"]
    /\ wanted = FALSE /\ exit = "success"
    /\ kills = 0 /\ faults = 0
    /\ disturbed = FALSE

\* A process is gone, and its connections with it.
Ended(p, how) ==
    /\ pc' = [pc EXCEPT ![p] = "none"]
    /\ identity' = [identity EXCEPT ![p] = 0]
    /\ exit' = IF p = Service THEN how ELSE exit
    /\ \/ /\ Listening(p)
          /\ backlog' = <<>>
          /\ client' = [c \in Client |-> "away"]
          /\ UNCHANGED stream
       \/ ~Listening(p) /\ UNCHANGED apiVars

\* A system call fails and `?` hands the error to main: exit status 1.
Fails(p) ==
    /\ faults < MaxFaults
    /\ faults' = faults + 1
    /\ Ended(p, "failure")
    /\ UNCHANGED <<wanted, kills>>

-----------------------------------------------------------------------------
(* cmd_init and NodeConfig *)

\* Mistake: the file is opened without being truncated.
cmd_init_keeps(p) ==
    /\ p # Service /\ pc[p] = "none" /\ inits < MaxInits
    /\ inits' = inits + 1
    /\ identity' = [identity EXCEPT ![p] = inits']
    /\ pc' = [pc EXCEPT ![p] = "save"]
    /\ disturbed' = (disturbed \/ \E q \in Proc : pc[q] = "save")
    /\ UNCHANGED <<config, apiVars, outerVars, exit>>

\* NodeConfig::generate makes a new identity, also where there is one; save
\* opens and truncates the file.
cmd_init(p) ==
    /\ p # Service /\ pc[p] = "none" /\ inits < MaxInits
    /\ inits' = inits + 1
    /\ identity' = [identity EXCEPT ![p] = inits']
    /\ config' = <<>>
    /\ pc' = [pc EXCEPT ![p] = "save"]
    /\ disturbed' = (disturbed \/ \E q \in Proc : pc[q] = "save")
    /\ UNCHANGED <<apiVars, outerVars, exit>>

\* A file that is longer by now keeps its end.
save(p) ==
    LET text == Text(identity[p]) IN
    /\ pc[p] = "save"
    /\ config' = text \o SubSeq(config, Len(text) + 1, Len(config))
    /\ pc' = [pc EXCEPT ![p] = "none"]
    /\ identity' = [identity EXCEPT ![p] = 0]
    /\ UNCHANGED <<inits, disturbed, apiVars, outerVars, exit>>

\* The disk is full: the file stays truncated.
save_error(p) ==
    /\ pc[p] = "save"
    /\ Fails(p)
    /\ disturbed' = TRUE
    /\ UNCHANGED <<config, inits>>

-----------------------------------------------------------------------------
(* cmd_start and run_api_server *)

\* NodeConfig::load; without a config that can be read the command fails.  What
\* it says is not used.
cmd_start(p) ==
    /\ pc[p] = "none"
    /\ \/ /\ Readable
          /\ pc' = [pc EXCEPT ![p] = "open"]
          /\ UNCHANGED <<identity, exit, apiVars>>
       \/ ~Readable /\ Ended(p, "failure")
    /\ UNCHANGED <<fileVars, kills, faults>>

\* P2pNode::new, LedgerStore::open and ShardStore::new; any of them may fail.
open(p) ==
    /\ pc[p] = "open"
    /\ pc' = [pc EXCEPT ![p] = "bind"]
    /\ UNCHANGED <<fileVars, identity, apiVars, outerVars, exit>>
open_error(p) ==
    /\ pc[p] = "open"
    /\ Fails(p)
    /\ UNCHANGED fileVars

\* The address may be in use: the command fails.
bind(p) ==
    /\ pc[p] = "bind"
    /\ \/ (\E q \in Proc : Listening(q)) /\ Ended(p, "failure")
       \/ /\ ~\E q \in Proc : Listening(q)
          /\ pc' = [pc EXCEPT ![p] = "accept"]
          /\ UNCHANGED <<apiVars, identity, exit>>
    /\ UNCHANGED <<fileVars, outerVars>>

accept(p) ==
    /\ pc[p] = "accept" /\ backlog # <<>>
    /\ stream' = Head(backlog)
    /\ backlog' = Tail(backlog)
    /\ pc' = [pc EXCEPT ![p] = "read"]
    /\ UNCHANGED <<fileVars, identity, client, outerVars, exit>>

\* Mistake: the loop is written while let Ok(..) = listener.accept(), so that an
\* error ends it and the command succeeds.
accept_while_ok(p) ==
    /\ pc[p] = "accept" /\ faults < MaxFaults
    /\ faults' = faults + 1
    /\ Ended(p, "success")
    /\ UNCHANGED <<fileVars, wanted, kills>>

\* No descriptors left, say: the error ends the server.
accept_error(p) ==
    /\ pc[p] = "accept"
    /\ Fails(p)
    /\ UNCHANGED fileVars

\* Mistakes: a failed read ends the server; it is tried again for ever.
read_propagates(p) ==
    /\ pc[p] = "read"
    /\ \/ /\ client[stream] \in {"sent", "left"}
          /\ pc' = [pc EXCEPT ![p] = "write"]
          /\ UNCHANGED <<apiVars, identity, exit>>
       \/ /\ client[stream] \in {"hung up", "left"}
          /\ Ended(p, "failure")
    /\ UNCHANGED <<fileVars, outerVars>>
read_retries(p) ==
    /\ pc[p] = "read"
    /\ client[stream] \in {"sent", "left"}
    /\ pc' = [pc EXCEPT ![p] = "write"]
    /\ UNCHANGED <<fileVars, identity, apiVars, outerVars, exit>>

\* Waits for a client that sends nothing.  Ok(0) and Err go on with the next
\* connection; of a client that left after its request either may be seen.
read(p) ==
    /\ pc[p] = "read"
    /\ \/ /\ client[stream] \in {"sent", "left"}
          /\ pc' = [pc EXCEPT ![p] = "write"]
          /\ UNCHANGED client
       \/ /\ client[stream] \in {"hung up", "left"}
          /\ pc' = [pc EXCEPT ![p] = "accept"]
          /\ client' = [client EXCEPT ![stream] = "away"]
    /\ UNCHANGED <<fileVars, identity, stream, backlog, outerVars, exit>>

\* handle_request, write_all and shutdown.  With a client that left, either of
\* the two may fail, and the error ends the server.
write_all(p) ==
    /\ pc[p] = "write"
    /\ \/ /\ pc' = [pc EXCEPT ![p] = "accept"]
          /\ client' = [client EXCEPT ![stream] = "away"]
          /\ UNCHANGED <<stream, backlog, identity, exit>>
       \/ /\ client[stream] = "left"
          /\ Ended(p, "failure")
    /\ UNCHANGED <<fileVars, outerVars>>

-----------------------------------------------------------------------------
(* Signals and the service manager *)

\* SIGKILL, the OOM killer, a panic.
Kill(p) ==
    /\ pc[p] # "none" /\ kills < MaxKills
    /\ kills' = kills + 1
    /\ disturbed' = (disturbed \/ pc[p] = "save")
    /\ Ended(p, "failure")
    /\ UNCHANGED <<config, inits, wanted, faults>>

\* systemctl stop, while the service runs or waits for its restart.  The default
\* action of SIGTERM ends the daemon, which systemd takes for a success.
Stop ==
    /\ wanted /\ kills < MaxKills
    /\ wanted' = FALSE
    /\ kills' = kills + 1
    /\ Ended(Service, "success")
    /\ UNCHANGED <<fileVars, faults>>

\* systemctl start; and Restart=on-failure, 5 s later.
Start == ~wanted /\ wanted' = TRUE /\ cmd_start(Service)
Restart == wanted /\ exit = "failure" /\ cmd_start(Service) /\ UNCHANGED wanted

-----------------------------------------------------------------------------
(* Clients *)

connect(c) ==
    /\ client[c] = "away"
    /\ \E p \in Proc : Listening(p)
    /\ client' = [client EXCEPT ![c] = "idle"]
    /\ backlog' = Append(backlog, c)
    /\ UNCHANGED <<fileVars, pc, identity, stream, outerVars, exit>>

\* A request is sent; the connection is closed with nothing sent, or after it.
Act(c, from, to) ==
    /\ client[c] = from
    /\ client' = [client EXCEPT ![c] = to]
    /\ UNCHANGED <<fileVars, pc, identity, stream, backlog, outerVars, exit>>
send(c) == Act(c, "idle", "sent")
hang_up(c) == Act(c, "idle", "hung up")
leave(c) == Act(c, "sent", "left")

Server(p) == open(p) \/ bind(p) \/ accept(p) \/ read(p) \/ write_all(p)

\* What a process does unasked, and what happens to it.
Run(p) ==
    \/ cmd_init(p) \/ save(p) \/ Server(p)
    \/ save_error(p) \/ open_error(p) \/ accept_error(p) \/ Kill(p)
    \/ p \in Manual /\ cmd_start(p) /\ UNCHANGED wanted

DaemonNext ==
    \/ \E p \in Proc : Run(p)
    \/ Start \/ Restart \/ Stop
    \/ \E c \in Client : connect(c) \/ send(c) \/ hang_up(c) \/ leave(c)

\* Processes that are not killed run on, and a service that failed is started
\* again; no client and no operator has to do anything, and nothing has to fail.
DaemonFairness ==
    /\ \A p \in Proc : WF_daemonVars(save(p)) /\ WF_daemonVars(Server(p))
    /\ WF_daemonVars(Restart)

DaemonSafety == DaemonInit /\ [][DaemonNext]_daemonVars
DaemonSpec == DaemonSafety /\ DaemonFairness

-----------------------------------------------------------------------------
(* Properties *)

States == {"none", "save", "open", "bind", "accept", "read", "write"}

\* The type invariant.
DaemonTypeOK ==
    /\ config \in Seq(0..inits)
    /\ pc \in [Proc -> States]
    /\ inits \in 0..MaxInits
    /\ identity \in [Proc -> 0..inits]
    /\ stream \in Client
    /\ backlog \in Seq(Client)
    /\ client \in [Client -> {"away", "idle", "sent", "hung up", "left"}]
    /\ wanted \in BOOLEAN /\ exit \in {"success", "failure"}
    /\ kills \in 0..MaxKills /\ faults \in 0..MaxFaults
    /\ disturbed \in BOOLEAN

\* The node can be started whenever it was initialised: a config.json that is
\* empty or torn is being written right now, or a save was killed, failed or ran
\* at the same time as another one.
ConfigUsable ==
    config = NoFile \/ Readable \/ disturbed \/ \E p \in Proc : pc[p] = "save"

\* Nobody waits behind anybody but an idle client: a client that has sent its
\* request is answered, gives up or loses the server, unless the server waits
\* for a client that sends nothing.
WaitingEnds ==
    \A c \in Client : client[c] = "sent" ~>
        \/ client[c] # "sent"
        \/ \E p \in Proc : pc[p] = "read" /\ client[stream] = "idle"

\* A client that hangs up without a request, or waits for its answer, does no
\* harm: a server ends only by a signal, when accept fails, or when it answers a
\* client that left after its request.
EndsOnlyByLeaver ==
    [][\A p \in Proc : Listening(p) /\ ~Listening(p)' =>
          \/ kills' # kills
          \/ pc[p] = "accept" /\ faults' # faults
          \/ pc[p] = "write" /\ client[stream] = "left"]_daemonVars

\* The node comes back: if from some time on its configuration can be read and
\* nobody stops the service, somebody listens again and again, whatever failed,
\* was killed or was answered to a client that left.
ComesBack == <>[](Readable /\ wanted) => []<>(\E p \in Proc : Listening(p))
=============================================================================
