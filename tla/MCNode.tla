------------------------------- MODULE MCNode -------------------------------
(* A node for TLC: its view of its peers and of their shards               *)
(* (part = "recovery") or its processes (part = "daemon"), which share no    *)
(* state here.  The fairness is that of RecoverySpec and DaemonSpec, each  *)
(* for its part.                                                           *)
EXTENDS Recovery, NodeDaemon

VARIABLE part

nodeVars == <<recoveryVars, daemonVars, part>>

Recovering == part = "recovery"
Serving == part = "daemon"

NodeFairness ==
    /\ WF_vars(Recovering /\ tick) /\ WF_vars(Recovering /\ Elapse)
    /\ \A p \in Peer : /\ WF_vars(Recovering /\ create_heartbeat(p))
                       /\ WF_vars(Recovering /\ Drained(p))
                       /\ SF_vars(Recovering /\ Deliver(p))
    /\ \A p \in Holder : WF_recoveryVars(Recovering /\ HandOver(p))
    /\ \A p \in Proc : /\ WF_daemonVars(Serving /\ save(p))
                       /\ WF_daemonVars(Serving /\ Server(p))
    /\ WF_daemonVars(Serving /\ Restart)

NodeInit == RecoveryInit /\ DaemonInit /\ part \in {"recovery", "daemon"}

NodeNext ==
    \/ Recovering /\ RecoveryNext /\ UNCHANGED <<daemonVars, part>>
    \/ Serving /\ DaemonNext /\ UNCHANGED <<recoveryVars, part>>

NodeSpec == NodeInit /\ [][NodeNext]_nodeVars /\ NodeFairness

\* RunningPeersRevive, where the node looks at its peers at all: a peer that
\* never crashes is seen Alive again and again by tick and process_heartbeat.
PeersRevive == Recovering => RunningPeersRevive
=============================================================================
