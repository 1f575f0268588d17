----------------------------- MODULE MerkleTree -----------------------------
(***************************************************************************)
(* Merkle trees and proofs of storage (core/src/merkle.rs, and the checks  *)
(* of p2p/src/challenge.rs): a tree grows chunk by chunk, a challenge asks *)
(* for some of its leaves, a proof is made for one, carried over a network *)
(* that may damage it, and verified.                                       *)
(*                                                                         *)
(* Hashes are symbolic: the BLAKE3 hash of x is <<x>>, so that two hashes  *)
(* are equal only when the same thing was hashed.  The code puts no prefix *)
(* before what it hashes: two hashes one after the other are a chunk like  *)
(* any other, so Chunk may contain pairs of hashes.  Hex encoding and the  *)
(* length checks of its decoding leave a hash what it is.                  *)
(***************************************************************************)
EXTENDS Naturals, Sequences, SequencesExt

CONSTANTS
    Chunk,          \* chunk contents
    MaxLeaves,      \* bound: leaves of a tree
    MaxChallenges,  \* bound: num_challenges of a challenge
    MaxDamage       \* bound: changes to one proof on its way

ASSUME BoundsAssumption == MaxLeaves \in Nat /\ MaxChallenges \in Nat /\ MaxDamage \in Nat

VARIABLES
    leaves,         \* MerkleTree::leaves; layers and root follow from it
    leaf_indices,   \* StorageChallenge::leaf_indices of the last challenge
    proof,          \* the MerkleProof at hand
    truth,          \* history: the proof as MerkleTree::proof made it
    damage          \* history: changes to the proof since

treeVars == <<leaves, leaf_indices, proof, truth, damage>>

NoProof == [none |-> TRUE]      \* None

Hash(x) == <<x>>
HashPair(left, right) == Hash(<<left, right>>)

\* Nobody has a chunk that is its own hash, twice.
ASSUME NoFixedPoint == \A c \in Chunk : c # <<Hash(c), Hash(c)>>

-----------------------------------------------------------------------------
(* MerkleTree::from_hashes *)

\* Mistake: the last hash of an odd layer is moved up as it is.
NextLayer_promote(s) ==
    [i \in 1..((Len(s) + 1) \div 2) |->
        IF 2 * i <= Len(s) THEN HashPair(s[2 * i - 1], s[2 * i]) ELSE s[2 * i - 1]]

\* One round of the loop: neighbours are paired, an odd last one with itself.
NextLayer(s) ==
    [i \in 1..((Len(s) + 1) \div 2) |->
        HashPair(s[2 * i - 1], IF 2 * i <= Len(s) THEN s[2 * i] ELSE s[2 * i - 1])]

\* The layers, leaves first; the loop ends with the layer of length one.
Layers(s) ==
    LET layer[k \in 0..Len(s)] == IF k = 0 THEN s ELSE NextLayer(layer[k - 1])
        height == CHOOSE k \in 0..Len(s) :
                    Len(layer[k]) = 1 /\ \A j \in 0..(k - 1) : Len(layer[j]) > 1
    IN IF s = <<>> THEN <<>> ELSE [k \in 1..(height + 1) |-> layer[k - 1]]

Root(s) == IF s = <<>> THEN Hash(<<>>) ELSE Last(Layers(s))[1]

-----------------------------------------------------------------------------
(* MerkleTree::proof and verify_proof *)

\* Mistake: the sides are swapped.
ProofNode_swapped(layer, idx) ==
    LET sibling == IF idx % 2 = 0 THEN idx + 1 ELSE idx - 1 IN
    [hash |-> IF sibling < Len(layer) THEN layer[sibling + 1] ELSE layer[idx + 1],
     is_right |-> idx % 2 = 1]

\* The hash next to position idx (from zero) of a layer, and its side.
ProofNode(layer, idx) ==
    LET sibling == IF idx % 2 = 0 THEN idx + 1 ELSE idx - 1 IN
    [hash |-> IF sibling < Len(layer) THEN layer[sibling + 1] ELSE layer[idx + 1],
     is_right |-> idx % 2 = 0]

\* One node for each layer of the tree, the layer of the root included.
Proof(s, index) ==
    LET idx[k \in 1..Len(Layers(s))] == IF k = 1 THEN index ELSE idx[k - 1] \div 2
    IN IF index >= Len(s) THEN NoProof
       ELSE [leaf_index |-> index,
             leaf_hash |-> s[index + 1],
             siblings |-> [k \in 1..Len(Layers(s)) |-> ProofNode(Layers(s)[k], idx[k])],
             root |-> Root(s)]

\* Mistake: the sibling is hashed twice, and not what is below.
Up_sibling_twice(hash, node) == HashPair(node.hash, node.hash)

\* One round of the loop of verify_proof.
Up(hash, node) == IF node.is_right THEN HashPair(hash, node.hash)
                                   ELSE HashPair(node.hash, hash)

\* The hash after each round, from the leaf's.
climb(p) ==
    LET current[k \in 0..Len(p.siblings)] ==
            IF k = 0 THEN p.leaf_hash ELSE Up(current[k - 1], p.siblings[k])
    IN current

\* The root compared with is the one the proof names.
verify_proof(p) == climb(p)[Len(p.siblings)] = p.root

-----------------------------------------------------------------------------
(* Operations *)

TreeInit ==
    /\ leaves = <<>>
    /\ leaf_indices = <<>>
    /\ proof = NoProof
    /\ truth = NoProof
    /\ damage = 0

\* The proof at hand belongs to an earlier challenge.
Discard == proof' = NoProof /\ truth' = NoProof /\ damage' = 0

\* from_chunks over one chunk more.
from_chunks(chunk) ==
    /\ Len(leaves) < MaxLeaves
    /\ leaves' = Append(leaves, Hash(chunk))
    /\ leaf_indices' = <<>>
    /\ Discard

\* choose_multiple draws distinct indices, in any order, as many as there are
\* if more are asked for; an empty tree is asked for leaf 0.
generate_challenge(n) ==
    /\ leaf_indices' \in
         IF leaves = <<>> THEN {<<0>>}
         ELSE LET k == IF n < Len(leaves) THEN n ELSE Len(leaves) IN
              {s \in [1..k -> 0..(Len(leaves) - 1)] : IsInjective(s)}
    /\ Discard
    /\ UNCHANGED leaves

\* The host answers with the proof of a leaf it was asked for.
prove(index) ==
    /\ index \in Range(leaf_indices)
    /\ proof' = Proof(leaves, index)
    /\ truth' = proof'
    /\ damage' = 0
    /\ leaf_indices' = <<>>
    /\ UNCHANGED leaves

\* Every hash, side and node of a proof comes from the network: any of them may
\* be another one, a node may be missing, and one too many be there.
Damage ==
    /\ proof # NoProof
    /\ damage < MaxDamage
    /\ damage' = damage + 1
    /\ \/ \E c \in Chunk : proof' = [proof EXCEPT !.leaf_hash = Hash(c)]
       \/ \E c \in Chunk : proof' = [proof EXCEPT !.root = Hash(c)]
       \/ \E k \in DOMAIN proof.siblings :
            \/ \E c \in Chunk : proof' = [proof EXCEPT !.siblings[k].hash = Hash(c)]
            \/ proof' = [proof EXCEPT !.siblings[k].is_right = ~ @]
            \/ proof' = [proof EXCEPT !.siblings = RemoveAt(@, k)]
       \/ \E c \in Chunk, right \in BOOLEAN, k \in 1..(Len(proof.siblings) + 1) :
            proof' = [proof EXCEPT !.siblings =
                        InsertAt(@, k, [hash |-> Hash(c), is_right |-> right])]
    /\ UNCHANGED <<leaves, leaf_indices, truth>>

TreeNext ==
    \/ \E c \in Chunk : from_chunks(c)
    \/ \E n \in 1..MaxChallenges : generate_challenge(n)
    \/ \E index \in 0..MaxLeaves : prove(index)
    \/ Damage

TreeSpec == TreeInit /\ [][TreeNext]_treeVars

-----------------------------------------------------------------------------
(* Properties *)

Pow2[h \in Nat] == IF h = 0 THEN 1 ELSE 2 * Pow2[h - 1]

\* The root, top down: there are n / 2^h nodes, rounded up, at height h of the
\* tree over n leaves, and node i (from zero) has the nodes 2i and 2i + 1 below
\* it, the first one twice where the second one does not exist.
Width(n, h) == (n + Pow2[h] - 1) \div Pow2[h]
Reference(s) ==
    LET H == CHOOSE h \in 0..Len(s) :
               Width(Len(s), h) = 1 /\ \A g \in 0..(h - 1) : Width(Len(s), g) > 1
        node[p \in UNION {{h} \X (0..(Width(Len(s), h) - 1)) : h \in 0..H}] ==
            IF p[1] = 0 THEN s[p[2] + 1]
            ELSE HashPair(node[<<p[1] - 1, 2 * p[2]>>],
                          node[<<p[1] - 1, IF 2 * p[2] + 1 < Width(Len(s), p[1] - 1)
                                           THEN 2 * p[2] + 1 ELSE 2 * p[2]>>])
    IN IF s = <<>> THEN Hash(<<>>) ELSE node[<<H, 0>>]

\* The layers built bottom up by from_hashes end in the root of the tree
\* defined top down, for every number of leaves, odd layers included.
RootIsReference == Root(leaves) = Reference(leaves)

Nodes(s) == UNION {Range(Layers(s)[k]) : k \in DOMAIN Layers(s)}

\* Damage is detected: a proof that verify_proof accepts and that names the root
\* of the tree, no matter what happened to it on the way, is about a hash of that
\* tree, or its path passes through a leaf: then the chunk of this leaf is two
\* hashes, which nothing tells from a node of the tree.  (That the root is the
\* right one is for the caller to see to: verify_proof takes it from the proof.)
VerifiedIsInTree ==
    proof # NoProof /\ proof.root = Root(leaves) /\ verify_proof(proof) =>
        \/ proof.leaf_hash \in Nodes(leaves)
        \/ \E k \in 1..Len(proof.siblings) : climb(proof)[k] \in Range(leaves)

\* An honest host can answer a challenge: every leaf asked for exists, none is
\* asked for twice, and the path made by proof() up to the layer below the root
\* leads verify_proof to the root: what is wrong with a whole proof is only its
\* last node.
PathBelowRootVerifies ==
    leaves # <<>> =>
        /\ IsInjective(leaf_indices)
        /\ \A i \in Range(leaf_indices) :
             LET p == Proof(leaves, i)
             IN p # NoProof /\ verify_proof([p EXCEPT !.siblings = Front(@)])

\* merkle.rs, test_even_leaf_count, test_odd_leaf_count, test_proof_all_leaves:
\* the proof that the tree makes for any of its leaves verifies.
ProofVerifies == truth # NoProof => verify_proof(truth)
=============================================================================
