------------------------------- MODULE Merkle -------------------------------
(***************************************************************************)
(* The block Merkle tree (merkle/): the compact tree in memory, the file    *)
(* of all hashes behind it, the proofs made from that file and the          *)
(* verifiers, and the leaf paths of the cross chain states.  A hash is a    *)
(* term, so that two different inputs never have the same hash.             *)
(*                                                                          *)
(* The state store appends a leaf per block.  The hashes go to the file at  *)
(* once, the tree itself (its size and the hashes of its full subtrees) is  *)
(* committed with the block's batch: after a crash the file may hold more,  *)
(* or half of, what the committed tree knows of.                            *)
(***************************************************************************)
EXTENDS Integers, SequencesExt

CONSTANTS
    MaxLeaves,   \* bound: leaves in the tree
    MaxCrashes   \* bound: restarts, which also number the leaves appended after each

ASSUME MerkleBounds == MaxLeaves \in Nat /\ MaxCrashes \in Nat

VARIABLES
    tree,      \* CompactMerkleTree: treeSize and hashes
    hashStore, \* is the tree's file of hashes there, or nil
    file,      \* the hashes in the file
    offset,    \* the file's write position
    committed, \* the tree in the state store's database
    leaves,    \* every leaf of the tree in memory: the list the tree stands for
    crashes

merkleVars == <<tree, hashStore, file, offset, committed, leaves, crashes>>

-----------------------------------------------------------------------------
(* Hashes and bits                                                           *)

EmptyHash == <<"zero">>        \* EMPTY_HASH, what GetHash answers on an error
hash_empty == <<"empty">>
hash_leaf(data) == <<"leaf", data>>
hash_children(l, r) == <<"children", l, r>>

\* hashes[0] . (hashes[1] . (... . hashes[l-1]))
hash_fold(hashes) == FoldRight(hash_children, Front(hashes), Last(hashes))

\* The 1 bits of n, 0-based.
bitsOf(n) == {b \in 0..30 : 2^b <= n /\ (n \div 2^b) % 2 = 1}
countBit(n) == Cardinality(bitsOf(n))
highBit(n) == IF n = 0 THEN 0 ELSE 1 + Max(bitsOf(n))

\* The largest power of two below n.
splitOf(n) == 2^(highBit(n - 1) - 1)

-----------------------------------------------------------------------------
(* The reference: the tree hash of a list of leaf hashes (RFC 6962).         *)
RECURSIVE MTH(_)
MTH(d) ==
    CASE Len(d) = 0 -> hash_empty
      [] Len(d) = 1 -> d[1]
      [] OTHER -> LET k == CHOOSE k \in {2^i : i \in 0..10} : k < Len(d) /\ Len(d) <= 2 * k
                  IN  hash_children(MTH(SubSeq(d, 1, k)), MTH(SubSeq(d, k + 1, Len(d))))

-----------------------------------------------------------------------------
(* The hasher                                                                *)

\* Root and full-subtree hashes of leaves l_idx .. r_idx - 1.
RECURSIVE hash_full(_, _, _)
hash_full(ls, l_idx, r_idx) ==
    LET width == r_idx - l_idx
    IN  CASE width = 0 -> [root |-> hash_empty, hashes |-> <<>>]
          [] width = 1 -> [root |-> ls[l_idx + 1], hashes |-> <<ls[l_idx + 1]>>]
          [] OTHER -> LET split == splitOf(width)
                          l     == hash_full(ls, l_idx, l_idx + split)
                          r     == hash_full(ls, l_idx + split, r_idx)
                          root  == hash_children(l.root, r.root)
                      IN  [root |-> root, hashes |-> IF split * 2 = width THEN <<root>> ELSE l.hashes \o r.hashes]

HashFullTreeWithLeafHash(ls) == hash_full(ls, 0, Len(ls)).root

\* ceil(log2(n))
depth(n) == CHOOSE d \in 0..30 : n <= 2^d /\ (d = 0 \/ 2^(d - 1) < n)

\* levels[d + 1] are the leaves, levels[1] is the root; an odd last node moves up as it is.
nextLevel(level) ==
    [k \in 1..((Len(level) + 1) \div 2) |->
        IF 2 * k <= Len(level) THEN hash_children(level[2 * k - 1], level[2 * k]) ELSE level[2 * k - 1]]
MerkleHashes(preLeaves, d) ==
    LET up[i \in 0..d] == IF i = d THEN preLeaves ELSE nextLevel(up[i + 1])
    IN  [i \in 1..(d + 1) |-> up[i - 1]]

\* 0-based; -1 where the leaf is not there.
getIndex(leaf, hashes) == IF leaf \in Range(hashes) THEN SelectInSeq(hashes, LAMBDA h : h = leaf) - 1 ELSE -1

\* The value and the siblings on the way up, with their sides.
MerkleLeafPath(data, hashes) ==
    LET d     == depth(Len(hashes))
        level == MerkleHashes(hashes, d)
        walk[i \in 0..d] ==      \* from level i up to the root
            [index \in 0..(Len(level[i + 1]) - 1) |->
                IF i = 0 THEN <<>>
                ELSE LET up == walk[i - 1][index \div 2]
                     IN  IF index = Len(level[i + 1]) - 1 /\ Len(level[i + 1]) % 2 # 0 THEN up
                         ELSE IF index % 2 # 0 THEN << <<"LEFT", level[i + 1][index]>> >> \o up
                         ELSE << <<"RIGHT", level[i + 1][index + 2]>> >> \o up]
    IN  [value |-> data, path |-> walk[d][getIndex(hash_leaf(data), hashes)]]

\* Folds as many entries as 32-byte hashes fit into the rest of the path, where an entry
\* has 33 bytes: from 32 entries on, it reads past the end and fails.
MerkleProve(p, root) ==
    /\ (33 * Len(p.path)) \div 32 <= Len(p.path)
    /\ root = FoldLeft(LAMBDA h, e : IF e[1] = "LEFT" THEN hash_children(e[2], h) ELSE hash_children(h, e[2]),
                       hash_leaf(p.value), p.path)

-----------------------------------------------------------------------------
(* The file of hashes                                                        *)

\* Sizes of the full subtrees of a tree of n leaves, and the 1-based places of their
\* roots: every subtree's nodes are stored together, its root last.
getSubTreeSize(n) == LET bs == SetToSortSeq(bitsOf(n), >) IN [i \in DOMAIN bs |-> 2^(bs[i] + 1) - 1]
getSubTreePos(n) == [i \in DOMAIN getSubTreeSize(n) |-> FoldLeft(+, 0, SubSeq(getSubTreeSize(n), 1, i))]
getStoredHashNum(n) == FoldLeft(+, 0, getSubTreeSize(n))

\* 0-based; a read past the end fails.
GetHash(f, pos) == IF pos \in 0..(Len(f) - 1) THEN f[pos + 1] ELSE EmptyHash

\* What a write of hs at `at` leaves in the file.
Written(f, at, hs) == SubSeq(f, 1, at) \o hs \o SubSeq(f, at + Len(hs) + 1, Len(f))

\* Mutant: writing goes on at the file's end.
NewFileHashStoreAtEnd(f, tree_size) == [ok |-> Len(f) >= getStoredHashNum(tree_size), offset |-> Len(f)]

\* Opening: refused where the file is too short for the tree, else writing goes on behind
\* the tree's own hashes.
NewFileHashStore(f, tree_size) ==
    [ok |-> Len(f) >= getStoredHashNum(tree_size), offset |-> getStoredHashNum(tree_size)]

-----------------------------------------------------------------------------
(* The compact tree                                                          *)

NewTree(size, hashes) == [treeSize |-> size, hashes |-> hashes]

Root(t) == IF t.hashes = <<>> THEN hash_empty ELSE hash_fold(t.hashes)

\* The leaf and every subtree it completes, lowest first.
RECURSIVE completedBy(_, _, _)
completedBy(s, hashes, leaf) ==
    IF s % 2 = 0 THEN <<leaf>>
    ELSE <<leaf>> \o completedBy(s \div 2, Front(hashes), hash_children(Last(hashes), leaf))

AppendHash(t, leaf) ==
    LET stored == completedBy(t.treeSize, t.hashes, leaf)
    IN  [tree |-> NewTree(t.treeSize + 1,
                          SubSeq(t.hashes, 1, Len(t.hashes) - (Len(stored) - 1)) \o <<Last(stored)>>),
         stored |-> stored]

GetRootWithNewLeaf(t, leaf) == hash_fold(Append(t.hashes, leaf))
GetRootWithNewLeaves(t, ls) == Root(FoldLeft(LAMBDA u, l : AppendHash(u, l).tree, t, ls))

merkleRoot(f, n) == hash_fold([i \in DOMAIN getSubTreePos(n) |-> GetHash(f, getSubTreePos(n)[i] - 1)])

\* The root of the leaves k .. n - 1 of a subtree whose nodes start at `off`.
rootk2n(f, off, k, n) ==
    hash_fold([i \in DOMAIN getSubTreePos(n - k) |-> GetHash(f, getSubTreePos(n - k)[i] + off + k * 2 - 2)])

RECURSIVE subproof(_, _, _, _, _)
subproof(f, m, n, b, off) ==
    IF m < n
    THEN LET k == splitOf(n)
         IN  IF m <= k THEN Append(subproof(f, m, k, b, off), rootk2n(f, off, k, n))
             ELSE Append(subproof(f, m - k, n - k, FALSE, off + k * 2 - 1), GetHash(f, off + k * 2 - 2))
    ELSE IF b THEN <<>> ELSE <<GetHash(f, getSubTreePos(n)[1] + off - 1)>>

\* m, n: sizes of the older and the newer tree.
ConsistencyProof(f, m, n) == subproof(f, m, n, TRUE, 0)

RECURSIVE auditPath(_, _, _, _)
auditPath(f, m, n, off) ==
    IF n = 1 THEN <<>>
    ELSE LET k == splitOf(n)
         IN  IF m < k THEN Append(auditPath(f, m, k, off), rootk2n(f, off, k, n))
             ELSE Append(auditPath(f, m - k, n - k, off + k * 2 - 1), GetHash(f, off + k * 2 - 2))

\* m: 0-based leaf, n: size of the tree it is proved to be in.
InclusionProof(f, m, n) == auditPath(f, m, n, 0)

-----------------------------------------------------------------------------
(* The verifier                                                              *)

Wrong == <<"wrong">>     \* an error

RECURSIVE fromAuditPath(_, _, _, _)
fromAuditPath(hash, node, last, path) ==
    CASE last = 0 -> IF path = <<>> THEN hash ELSE Wrong
      [] last > 0 /\ path = <<>> -> Wrong
      [] last > 0 /\ path # <<>> /\ node % 2 = 1 ->
            fromAuditPath(hash_children(path[1], hash), node \div 2, last \div 2, Tail(path))
      [] last > 0 /\ path # <<>> /\ node % 2 = 0 /\ node < last ->
            fromAuditPath(hash_children(hash, path[1]), node \div 2, last \div 2, Tail(path))
      [] OTHER -> fromAuditPath(hash, node \div 2, last \div 2, path)

calculate_root_hash_from_audit_path(leaf, index, path, size) == fromAuditPath(leaf, index, size - 1, path)

VerifyLeafHashInclusion(leaf, index, proof, root, size) ==
    index < size /\ calculate_root_hash_from_audit_path(leaf, index, proof, size) = root

\* The hashes of the older and the newer tree, computed along the path of the older one's
\* last full node; Wrong where the proof's length does not fit.
RECURSIVE bothRoots(_, _, _, _, _)
bothRoots(old, new, node, last, path) ==
    CASE node = 0 /\ last = 0 -> IF path = <<>> THEN <<old, new>> ELSE <<Wrong, Wrong>>
      [] node % 2 = 0 /\ node = last /\ last # 0 -> bothRoots(old, new, node \div 2, last \div 2, path)
      [] (node % 2 = 1 \/ node < last) /\ path = <<>> -> <<Wrong, Wrong>>
      [] node % 2 = 1 /\ path # <<>> ->
            bothRoots(hash_children(path[1], old), hash_children(path[1], new), node \div 2, last \div 2, Tail(path))
      [] OTHER -> bothRoots(old, hash_children(new, path[1]), node \div 2, last \div 2, Tail(path))

RECURSIVE rightChildren(_)
rightChildren(node) == IF node % 2 = 0 THEN 0 ELSE 1 + rightChildren(node \div 2)

VerifyConsistency(old_size, new_size, old_root, new_root, proof) ==
    /\ old_size <= new_size
    /\ \/ old_root = new_root
       \/ old_size = 0
       \/ LET up   == 2^rightChildren(old_size - 1)
              node == (old_size - 1) \div up
              last == (new_size - 1) \div up
          IN  /\ proof # <<>>
              /\ <<old_root, new_root>> =
                    IF node # 0 THEN bothRoots(proof[1], proof[1], node, last, Tail(proof))
                    ELSE bothRoots(old_root, old_root, node, last, proof)

-----------------------------------------------------------------------------
(* The state store                                                           *)

MerkleInit ==
    /\ tree = NewTree(0, <<>>) /\ committed = tree
    /\ hashStore = TRUE /\ file = <<>> /\ offset = 0
    /\ leaves = <<>> /\ crashes = 0

newLeaf == hash_leaf(<<Len(leaves), crashes>>)

\* AddBlockMerkleTreeRoot: the hashes are written and synced, the new tree is put into the
\* batch that the block's commit writes.
AddBlockMerkleTreeRoot ==
    /\ tree = committed /\ Len(leaves) < MaxLeaves
    /\ LET a == AppendHash(tree, newLeaf)
       IN  /\ tree' = a.tree
           /\ file' = IF hashStore THEN Written(file, offset, a.stored) ELSE file
           /\ offset' = IF hashStore THEN offset + Len(a.stored) ELSE offset
    /\ leaves' = Append(leaves, newLeaf)
    /\ UNCHANGED <<hashStore, committed, crashes>>

Commit ==
    /\ committed # tree /\ committed' = tree
    /\ UNCHANGED <<tree, hashStore, file, offset, leaves, crashes>>

\* A restart with the file f: before the commit or after it.  The tree is read back by
\* the state store's init, the leaves not committed are gone.
Restart(f) ==
    /\ crashes < MaxCrashes /\ crashes' = crashes + 1
    /\ LET opened == NewFileHashStore(f, committed.treeSize)
       IN  /\ file' = f
           /\ hashStore' = opened.ok
           /\ offset' = IF opened.ok THEN opened.offset ELSE 0
    /\ tree' = NewTree(committed.treeSize, committed.hashes)
    /\ leaves' = SubSeq(leaves, 1, committed.treeSize)
    /\ UNCHANGED committed

RestartAnyTime == Restart(file)

\* The crash comes in the middle of a write: only the first hashes are in the file.
RestartTorn ==
    /\ tree = committed /\ hashStore /\ Len(leaves) < MaxLeaves
    /\ LET stored == AppendHash(tree, newLeaf).stored
       IN  \E n \in 1..(Len(stored) - 1) : Restart(Written(file, offset, SubSeq(stored, 1, n)))

\* The file is gone, or cannot be opened.
RestartWithoutFile == file # <<>> /\ Restart(<<>>)

MerkleNext == AddBlockMerkleTreeRoot \/ Commit \/ RestartAnyTime \/ RestartTorn \/ RestartWithoutFile

-----------------------------------------------------------------------------
MerkleTypeOK ==
    /\ tree.treeSize = Len(leaves) /\ Len(tree.hashes) = countBit(tree.treeSize)
    /\ committed.treeSize \in {tree.treeSize, tree.treeSize - 1}
    /\ offset \in 0..Len(file) /\ hashStore \in BOOLEAN

\* The roots that the tree computes from the hashes it keeps are the tree hash of the
\* leaves appended so far, with new leaves (GetRootWithNewLeaf(s), used for the next
\* blocks' roots) or without; and as long as the file is there, whatever crashes left in
\* it, the proofs read from it (InclusionProof, ConsistencyProof) are accepted for the
\* leaf, the place and the trees that they are for, and for no other leaf or place.  The
\* hashers of a whole list (HashFullTreeWithLeafHash, MerkleLeafPath with MerkleProve)
\* agree with the same tree.
ProofsVerify == leaves # <<>> =>
    LET size    == Len(leaves)
        root    == [n \in 0..size |-> MTH(SubSeq(leaves, 1, n))]
        next    == <<newLeaf, hash_leaf("second")>>
    IN  /\ Root(tree) = root[size]
        /\ GetRootWithNewLeaves(tree, next) = MTH(leaves \o next)
        /\ GetRootWithNewLeaf(tree, newLeaf) = MTH(Append(leaves, newLeaf))
        /\ HashFullTreeWithLeafHash(leaves) = root[size]
        /\ \A i \in 1..size : MerkleProve(MerkleLeafPath(leaves[i][2], leaves), root[size])
        /\ hashStore => \A n \in 1..size :
              /\ merkleRoot(file, n) = root[n]
              /\ \A m \in 0..(n - 1) :
                    LET proof == InclusionProof(file, m, n)
                    IN  \A i \in 0..(n - 1), j \in 1..size :
                           VerifyLeafHashInclusion(leaves[j], i, proof, root[n], n) <=> (i = m /\ j = m + 1)
              /\ \A m \in 1..n : VerifyConsistency(m, n, root[m], root[n], ConsistencyProof(file, m, n))
=============================================================================
