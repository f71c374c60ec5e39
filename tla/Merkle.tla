------------------------------- MODULE Merkle -------------------------------
(***************************************************************************)
(* The Merkle trees of frychain-core: merkle.rs, over the transactions of  *)
(* a block (block.rs).  A tree is one vector of nodes, level after level,  *)
(* and a proof is found by offsets into it and checked by halving indexes. *)
(* The hash of a pair is the pair: hashes do not collide.                  *)
(***************************************************************************)
EXTENDS Naturals, Sequences

CONSTANTS
  Leaf,       \* hashes of transactions
  ZeroHash,   \* Hash256::zero(), which pads the leaves
  MaxLeaves   \* bound: leaves of a tree

ASSUME MerkleAssumption == MaxLeaves \in Nat

VARIABLE tree   \* a MerkleTree: its nodes and the number of its leaves

-----------------------------------------------------------------------------

HashPair(left, right) == <<left, right>>

\* Levels above the leaves, once their number is padded to a power of two
Depth(n) == CHOOSE k \in 0..n : 2 ^ k >= n /\ \A j \in 0..n : 2 ^ j >= n => k <= j
PaddedSize(n) == 2 ^ Depth(n)

\* The leaves of a tree, padded
Padded(leaves) == [i \in 1..PaddedSize(Len(leaves)) |-> IF i <= Len(leaves) THEN leaves[i] ELSE ZeroHash]

NextLevel(level) == [i \in 1..(Len(level) \div 2) |-> HashPair(level[2 * i - 1], level[2 * i])]

\* current_level and all_nodes, after each level that from_hashes builds
Built(leaves) ==
  LET b[k \in 0..Depth(Len(leaves))] ==
        IF k = 0 THEN [level |-> Padded(leaves), nodes |-> Padded(leaves)]
        ELSE [level |-> NextLevel(b[k - 1].level),
              nodes |-> b[k - 1].nodes \o NextLevel(b[k - 1].level)]
  IN  b

FromHashes(leaves) ==
  [nodes |-> Built(leaves)[Depth(Len(leaves))].nodes, count |-> Len(leaves)]

Root(t) == t.nodes[Len(t.nodes)]

\* Mutant of LevelStart: the padding is forgotten
LevelStartUnpadded(n, k) == n * 2 - (n * 2) \div 2 ^ k

\* Where the k-th level begins in the nodes of a tree of n leaves
LevelStart(n, k) == PaddedSize(n) * 2 - (PaddedSize(n) * 2) \div 2 ^ k

\* get_proof: the sibling at each level; there is none for the padding
GetProof(t, index) ==
  LET Sibling(i) == IF i % 2 = 0 THEN i + 1 ELSE i - 1
      At(i)      == IF i < Len(t.nodes) THEN t.nodes[i + 1] ELSE ZeroHash
  IN  [index  |-> index,
       leaf   |-> t.nodes[index + 1],
       hashes |-> [k \in 1..Depth(t.count) |->
                     At(LevelStart(t.count, k - 1) + Sibling(index \div 2 ^ (k - 1)))],
       root   |-> Root(t)]

\* verify: the hash after each level, from the leaf up, on the side the index tells
HashedUp(p) ==
  LET hash[k \in 0..Len(p.hashes)] ==
        IF k = 0 THEN p.leaf
        ELSE IF (p.index \div 2 ^ (k - 1)) % 2 = 0 THEN HashPair(hash[k - 1], p.hashes[k])
        ELSE HashPair(p.hashes[k], hash[k - 1])
  IN  hash

Verify(p) == HashedUp(p)[Len(p.hashes)] = p.root

-----------------------------------------------------------------------------

MerkleInit == tree = FromHashes(<<>>)

\* The tree over the transactions of some block
BuildTree == \E n \in 0..MaxLeaves : \E leaves \in [1..n -> Leaf] : tree' = FromHashes(leaves)

MerkleSpec == MerkleInit /\ [][BuildTree]_tree

-----------------------------------------------------------------------------

\* The proof of every leaf verifies, and with its siblings no other hash
\* verifies at any position: the offsets of get_proof, the halved indexes of
\* verify and the padding agree, also where the leaves are no power of two.
ProofsHold ==
  \A i \in 0..(tree.count - 1) :
    LET p == GetProof(tree, i)
    IN  /\ Verify(p)
        /\ \A j \in 0..(PaddedSize(tree.count) - 1), h \in Leaf :
             Verify([p EXCEPT !.index = j, !.leaf = h]) => tree.nodes[j + 1] = h

=============================================================================
