------------------------------- MODULE Merkle -------------------------------
(***************************************************************************)
(* The Merkle commitment of a settlement batch                             *)
(* (internal/settlement/merkle.go).  sha256 is modelled as the free        *)
(* constructor of its input: two hashes are equal when their inputs are.   *)
(* A request id is a number, so that ids can be sorted; an item is         *)
(* [sp, rids]; indices are 0-based, as in the code.                        *)
(***************************************************************************)
EXTENDS Naturals, Sequences, FiniteSets

ReceiptLeaf(rid, sp) == [leaf |-> <<rid, sp, "record">>]
DebtLeaf(rid, sp)    == [leaf |-> <<rid, sp, "debt">>]
hashPair(a, b)       == [left |-> a, right |-> b]
ZeroHash             == [leaf |-> << >>]

\* A finite set of numbers in ascending order.
Sorted(S) ==
    [k \in 1 .. Cardinality(S) |->
        CHOOSE x \in S : Cardinality({y \in S : y <= x}) = k]

\* The request ids of a batch in the order of its leaves: sorted, each once,
\* also when a request was split over two items.
LeafRids(items) == Sorted(UNION {items[i].rids : i \in DOMAIN items})

\* The leaf binds the provider of the first item that has the request.
batchLeaves(items, recorded) ==
    LET rids == LeafRids(items)
        first(rid) == CHOOSE i \in DOMAIN items :
                         /\ rid \in items[i].rids
                         /\ \A j \in 1 .. i - 1 : rid \notin items[j].rids
    IN  [k \in DOMAIN rids |->
           LET sp == items[first(rids[k])].sp
           IN  IF rids[k] \in recorded THEN ReceiptLeaf(rids[k], sp)
               ELSE DebtLeaf(rids[k], sp)]

\* One level up; the last node of an odd level is paired with itself.
Parents(level) ==
    [i \in 1 .. ((Len(level) + 1) \div 2) |->
        hashPair(level[2 * i - 1],
                 level[IF 2 * i > Len(level) THEN 2 * i - 1 ELSE 2 * i])]

\* The loop of MerkleRoot and MerkleProofFor: the level and the index after k
\* rounds, of which there are as many as it takes to reach a single node.
Climb(leaves, idx) ==
    LET at[k \in 0 .. Len(leaves)] ==
          IF k = 0 THEN [level |-> leaves, idx |-> idx]
          ELSE LET c == at[k - 1]
               IN  [level |-> Parents(c.level), idx |-> c.idx \div 2]
    IN  at

Rounds(leaves) ==
    CHOOSE k \in 0 .. Len(leaves) :
        /\ Len(Climb(leaves, 0)[k].level) <= 1
        /\ \A j \in 0 .. k - 1 : Len(Climb(leaves, 0)[j].level) > 1

MerkleRoot(leaves) ==
    IF leaves = << >> THEN ZeroHash ELSE Climb(leaves, 0)[Rounds(leaves)].level[1]

\* idx ^ 1, or idx itself when it has no neighbour.
Sibling(level, idx) ==
    LET s == IF idx % 2 = 0 THEN idx + 1 ELSE idx - 1
    IN  IF s >= Len(level) THEN idx ELSE s

\* The sibling in round k.
SiblingAt(leaves, idx, k) ==
    LET c == Climb(leaves, idx)[k - 1]
    IN  c.level[Sibling(c.level, c.idx) + 1]

\* A node without a neighbour contributes nothing to the path.
ProofSkippingOdd(leaves, idx) ==
    LET paired == {k \in 1 .. Rounds(leaves) :
                     LET c == Climb(leaves, idx)[k - 1]
                     IN  Sibling(c.level, c.idx) # c.idx}
    IN  [n \in DOMAIN Sorted(paired) |-> SiblingAt(leaves, idx, Sorted(paired)[n])]

MerkleProofFor(leaves, idx) ==
    [k \in 1 .. Rounds(leaves) |-> SiblingAt(leaves, idx, k)]

\* The loop of VerifyMerkleProof: the hash and the index after k siblings.
Fold(leaf, idx, proof) ==
    LET at[k \in 0 .. Len(proof)] ==
          IF k = 0 THEN [hash |-> leaf, idx |-> idx]
          ELSE LET c == at[k - 1]
               IN  [hash |-> IF c.idx % 2 = 0 THEN hashPair(c.hash, proof[k])
                             ELSE hashPair(proof[k], c.hash),
                    idx |-> c.idx \div 2]
    IN  at

VerifyMerkleProof(leaf, idx, proof, root) ==
    Fold(leaf, idx, proof)[Len(proof)].hash = root

CombinedDetailsHash(legacy, root) == [left |-> legacy, right |-> root]
=============================================================================
