------------------------------- MODULE MCData -------------------------------
(* What data goes through, for TLC: the chunk pipeline, the Merkle trees of *)
(* the proofs of storage, the files of a shard and the messages of a node. *)
(* They share no state here, so a run is about one of them (part).         *)
(*                                                                         *)
(* Shards are of two blocks, so that torn, mixed and sparse files are told *)
(* apart from whole ones; one of two chunks is a pair of hashes.           *)
EXTENDS ShardStore, MerkleTree, ChunkPipeline, Gossip

CONSTANTS blockA, blockB, chunkA

ShardBlock == {blockA, blockB}
ShardData == {<<blockA, blockA>>, <<blockB, blockB>>}
TreeChunk == {chunkA, <<Hash(chunkA), Hash(chunkA)>>}

VARIABLE part

\* What TLC tells states apart by: the state of the part.  The blocks of a file
\* that has no name and that nobody has open are gone (OpenTruncate empties an
\* inode before it gives it a name, so nothing ever looks at them again).
View ==
    <<part,
      CASE part = "shards" ->
             <<dirent, pc, data, buf, fd, result, history,
               [f \in File |-> [i \in ({dirent[f]} \cup Open(f)) \ {NoInode} |->
                   content[f][i]]]>>
        [] part = "trees" -> treeVars
        [] part = "pipeline" -> pipeVars
        [] part = "gossip" -> gossipVars>>

DataInit ==
    /\ StoreInit /\ TreeInit /\ PipeInit /\ GossipInit
    /\ part \in {"shards", "trees", "pipeline", "gossip"}
    /\ part # "gossip" => max_size = Max(Limits)

DataNext ==
    \/ part = "shards" /\ StoreNext /\ UNCHANGED <<treeVars, pipeVars, gossipVars, part>>
    \/ part = "trees" /\ TreeNext /\ UNCHANGED <<storeVars, pipeVars, gossipVars, part>>
    \/ part = "pipeline" /\ PipeNext /\ UNCHANGED <<storeVars, treeVars, gossipVars, part>>
    \/ part = "gossip" /\ GossipNext /\ UNCHANGED <<storeVars, treeVars, pipeVars, part>>

DataSpec == DataInit /\ [][DataNext]_<<storeVars, treeVars, pipeVars, gossipVars, part>>
=============================================================================
