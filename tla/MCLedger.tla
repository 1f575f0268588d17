------------------------------ MODULE MCLedger ------------------------------
(* The ledger for TLC: the store of one node (part = "store") or the       *)
(* synchronisation of several (part = "sync"), which share no state here.   *)
(* Nodes are interchangeable, and so are threads.                          *)
EXTENDS LedgerStore, LedgerSync

VARIABLE part

LedgerInit == Init /\ SyncInit /\ part \in {"store", "sync"}

LedgerNext ==
    \/ part = "store" /\ Next /\ UNCHANGED <<syncVars, part>>
    \/ part = "sync" /\ SyncNext /\ UNCHANGED <<vars, part>>

LedgerSpec == LedgerInit /\ [][LedgerNext]_<<vars, syncVars, part>>

Symmetry == Permutations(Node) \cup Permutations(Thread)
=============================================================================
