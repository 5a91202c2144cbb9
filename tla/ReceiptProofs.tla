---------------------------- MODULE ReceiptProofs ----------------------------
(***************************************************************************)
(* Proofs about the Merkle commitment (Merkle) and the receipt index        *)
(* (ReceiptIndex), for trees of any size and any number of batches, crashes *)
(* and failed writes.                                                       *)
(***************************************************************************)
EXTENDS ReceiptIndex, FiniteSetTheorems, SequenceTheorems, WellFoundedInduction,
        NaturalsInduction, TLAPS

-----------------------------------------------------------------------------
(* Numbers and sequences *)

LEMMA LeastElement ==
    ASSUME NEW T \in SUBSET Nat, T # {}
    PROVE  \E x \in T : \A y \in T : x <= y
<1>1. \E x \in T : \A y \in T : ~(<<y, x>> \in OpToRel(<, Nat))
  BY NatLessThanWellFounded, WFMin
<1>2. PICK x \in T : \A y \in T : ~(<<y, x>> \in OpToRel(<, Nat))
  BY <1>1
<1>3. \A y \in T : ~(y < x)
  BY <1>2 DEF OpToRel
<1> QED BY <1>3

\* Induction up to n, for the set of numbers that have a property.
LEMMA UpToN ==
    ASSUME NEW n \in Nat, NEW S, 0 \in S, \A k \in 1 .. n : k - 1 \in S => k \in S
    PROVE  0 .. n \subseteq S
<1> DEFINE T == (0 .. n) \ S
<1>1. SUFFICES ASSUME T # {} PROVE FALSE
  OBVIOUS
<1>2. T \in SUBSET Nat
  OBVIOUS
<1>3. PICK x \in T : \A y \in T : x <= y
  BY <1>1, <1>2, LeastElement
<1>4. x \in 1 .. n /\ x \notin S
  <2>1. x \in 0 .. n /\ x \notin S
    BY DEF T
  <2>2. x # 0
    BY <2>1
  <2> QED BY <2>1, <2>2
<1>5. x - 1 \in 0 .. n
  BY <1>4
<1>6. x - 1 \notin T
  BY <1>3, <1>4
<1>7. x - 1 \in S
  BY <1>5, <1>6 DEF T
<1> QED BY <1>4, <1>7

\* The greatest of some numbers up to n.
LEMMA MaxIn ==
    ASSUME NEW n \in Nat, NEW S \in SUBSET (1 .. n), S # {}
    PROVE  Max(S) \in S /\ \A y \in S : y <= Max(S)
<1> DEFINE T == {n - x : x \in S}
<1>1. T \in SUBSET Nat /\ T # {}
  OBVIOUS
<1>2. PICK t \in T : \A u \in T : t <= u
  BY <1>1, LeastElement
<1>3. PICK x \in S : t = n - x
  OBVIOUS
<1>4. \A y \in S : n - x <= n - y
  BY <1>2, <1>3
<1>5. \A y \in S : x >= y
  BY <1>4
<1>6. \E z \in S : \A y \in S : z >= y
  BY <1>5
<1> DEFINE m == CHOOSE z \in S : \A y \in S : z >= y
<1>7. m \in S /\ \A y \in S : m >= y
  BY <1>6
<1>8. Max(S) = m
  BY DEF Max
<1> HIDE DEF m
<1> QED BY <1>7, <1>8

LEMMA LatestIn ==
    ASSUME NEW n \in Nat, NEW S \in SUBSET (1 .. n)
    PROVE  /\ S = {} => Latest(S) = 0
           /\ S # {} => Latest(S) \in S
BY MaxIn DEF Latest

LEMMA SeqLen ==
    ASSUME NEW n \in Nat, NEW s, s = [i \in 1 .. n |-> s[i]]
    PROVE  Len(s) = n
<1> DEFINE S == {s[i] : i \in 1 .. n}
<1>1. s \in [1 .. n -> S]
  OBVIOUS
<1>2. s \in Seq(S)
  BY <1>1
<1>3. Len(s) \in Nat /\ 1 .. n = 1 .. Len(s)
  BY <1>1, <1>2, LenProperties
<1> QED BY <1>3

-----------------------------------------------------------------------------
(* The tree *)

\* A recursive function is what its definition says: its beginning can be
\* continued by one round as often as one likes.
ClimbsTo(at, leaves, idx, n) ==
    at = [k \in 0 .. n |->
            IF k = 0 THEN [level |-> leaves, idx |-> idx]
            ELSE LET c == at[k - 1]
                 IN  [level |-> Parents(c.level), idx |-> c.idx \div 2]]

LEMMA ClimbExists ==
    ASSUME NEW leaves, NEW idx, NEW n \in Nat
    PROVE  \E at : ClimbsTo(at, leaves, idx, n)
<1> DEFINE S == {k \in 0 .. n : \E at : ClimbsTo(at, leaves, idx, k)}
<1>1. 0 \in S
  <2> DEFINE at == [k \in 0 .. 0 |-> [level |-> leaves, idx |-> idx]]
  <2>1. ClimbsTo(at, leaves, idx, 0)
    BY DEF ClimbsTo
  <2> QED BY <2>1
<1>2. ASSUME NEW k \in 1 .. n, k - 1 \in S PROVE k \in S
  <2>1. PICK f : ClimbsTo(f, leaves, idx, k - 1)
    BY <1>2
  <2> DEFINE c  == f[k - 1]
             at == [j \in 0 .. k |->
                      IF j = k THEN [level |-> Parents(c.level), idx |-> c.idx \div 2] ELSE f[j]]
  <2>2. \A j \in 0 .. k - 1 : at[j] = f[j]
    OBVIOUS
  <2>3. f[0] = [level |-> leaves, idx |-> idx]
    BY <2>1 DEF ClimbsTo
  <2>4. \A j \in 1 .. k - 1 : f[j] = [level |-> Parents(f[j - 1].level), idx |-> f[j - 1].idx \div 2]
    BY <2>1 DEF ClimbsTo
  <2>5. at[0] = [level |-> leaves, idx |-> idx]
    BY <2>2, <2>3
  <2>6. ASSUME NEW j \in 1 .. k
        PROVE  at[j] = [level |-> Parents(at[j - 1].level), idx |-> at[j - 1].idx \div 2]
    <3>1. CASE j = k
      <4>1. at[j - 1] = c
        BY <3>1, <2>2
      <4>2. at[j] = [level |-> Parents(c.level), idx |-> c.idx \div 2]
        BY <3>1
      <4> QED BY <4>1, <4>2
    <3>2. CASE j # k
      <4>1. j \in 1 .. k - 1 /\ j - 1 \in 0 .. k - 1
        BY <3>2
      <4>2. at[j] = f[j] /\ at[j - 1] = f[j - 1]
        BY <4>1, <2>2
      <4> HIDE DEF at
      <4> QED BY <4>1, <4>2, <2>4
    <3> QED BY <3>1, <3>2
  <2>7. at = [j \in 0 .. k |-> at[j]]
    OBVIOUS
  <2> HIDE DEF at
  <2>8. \A j \in 0 .. k : at[j] = IF j = 0 THEN [level |-> leaves, idx |-> idx]
                                 ELSE [level |-> Parents(at[j - 1].level), idx |-> at[j - 1].idx \div 2]
    BY <2>5, <2>6
  <2>9. ClimbsTo(at, leaves, idx, k)
    BY ONLY <2>7, <2>8 DEF ClimbsTo
  <2> QED BY <2>9
<1>3. 0 .. n \subseteq S
  <2> HIDE DEF S
  <2> QED BY <1>1, <1>2, UpToN
<1> QED BY <1>3

LEMMA ClimbIs ==
    ASSUME NEW leaves, NEW idx, Len(leaves) \in Nat
    PROVE  ClimbsTo(Climb(leaves, idx), leaves, idx, Len(leaves))
<1>1. \E at : ClimbsTo(at, leaves, idx, Len(leaves))
  BY ClimbExists
<1>2. Climb(leaves, idx) = CHOOSE at : ClimbsTo(at, leaves, idx, Len(leaves))
  BY DEF Climb, ClimbsTo
<1> QED BY <1>1, <1>2

LEMMA ClimbStart ==
    ASSUME NEW leaves, NEW idx, Len(leaves) \in Nat
    PROVE  Climb(leaves, idx)[0].level = leaves /\ Climb(leaves, idx)[0].idx = idx
<1> DEFINE at == Climb(leaves, idx)
<1>1. ClimbsTo(at, leaves, idx, Len(leaves))
  BY ClimbIs
<1> HIDE DEF at
<1>2. at[0] = [level |-> leaves, idx |-> idx]
  BY <1>1 DEF ClimbsTo
<1> QED BY <1>2 DEF at

LEMMA ClimbStep ==
    ASSUME NEW leaves, NEW idx, Len(leaves) \in Nat, NEW k \in 1 .. Len(leaves)
    PROVE  /\ Climb(leaves, idx)[k].level = Parents(Climb(leaves, idx)[k - 1].level)
           /\ Climb(leaves, idx)[k].idx = Climb(leaves, idx)[k - 1].idx \div 2
<1> DEFINE at == Climb(leaves, idx)
<1>1. ClimbsTo(at, leaves, idx, Len(leaves))
  BY ClimbIs
<1> HIDE DEF at
<1>2. at[k] = [level |-> Parents(at[k - 1].level), idx |-> at[k - 1].idx \div 2]
  BY <1>1 DEF ClimbsTo
<1> QED BY <1>2 DEF at

Level(leaves, k) == Climb(leaves, 0)[k].level

LEMMA LevelOfAll ==
    ASSUME NEW leaves, NEW idx, Len(leaves) \in Nat, NEW n \in 0 .. Len(leaves)
    PROVE  Climb(leaves, idx)[n].level = Level(leaves, n)
<1> DEFINE N == Len(leaves)
           S == {k \in 0 .. N : Climb(leaves, idx)[k].level = Level(leaves, k)}
<1>1. 0 \in S
  BY ClimbStart DEF Level
<1>2. ASSUME NEW k \in 1 .. N, k - 1 \in S PROVE k \in S
  <2>1. Climb(leaves, idx)[k].level = Parents(Climb(leaves, idx)[k - 1].level)
    BY ClimbStep
  <2>2. Level(leaves, k) = Parents(Level(leaves, k - 1))
    BY ClimbStep DEF Level
  <2>3. Climb(leaves, idx)[k - 1].level = Level(leaves, k - 1)
    BY <1>2
  <2> QED BY <2>1, <2>2, <2>3
<1> HIDE DEF S
<1>3. 0 .. N \subseteq S
  BY <1>1, <1>2, UpToN
<1> QED BY <1>3 DEF S

LEMMA LevelStart ==
    ASSUME NEW leaves, Len(leaves) \in Nat
    PROVE  Level(leaves, 0) = leaves
BY ClimbStart DEF Level

LEMMA LevelStep ==
    ASSUME NEW leaves, Len(leaves) \in Nat, NEW k \in 1 .. Len(leaves)
    PROVE  Level(leaves, k) = Parents(Level(leaves, k - 1))
BY ClimbStep DEF Level

LEMMA ParentsLen ==
    ASSUME NEW level, Len(level) \in Nat
    PROVE  /\ Len(Parents(level)) = (Len(level) + 1) \div 2
           /\ DOMAIN Parents(level) = 1 .. Len(Parents(level))
<1> DEFINE n == (Len(level) + 1) \div 2
<1>1. n \in Nat
  OBVIOUS
<1>2. Parents(level) = [i \in 1 .. n |-> Parents(level)[i]] /\ DOMAIN Parents(level) = 1 .. n
  BY DEF Parents
<1> HIDE DEF n
<1>3. Len(Parents(level)) = n
  BY <1>1, <1>2, SeqLen
<1> QED BY <1>2, <1>3 DEF n

\* A level is about half as long as the one below it, and never empty.
LEMMA LevelSizes ==
    ASSUME NEW leaves, Len(leaves) \in Nat \ {0}, NEW n \in 0 .. Len(leaves)
    PROVE  /\ Len(Level(leaves, n)) \in Nat \ {0}
           /\ Len(Level(leaves, n)) = 1 \/ Len(Level(leaves, n)) + n <= Len(leaves)
<1> DEFINE N    == Len(leaves)
           L(k) == Len(Level(leaves, k))
           S    == {k \in 0 .. N : L(k) \in Nat \ {0} /\ (L(k) = 1 \/ L(k) + k <= N)}
<1>1. 0 \in S
  BY LevelStart
<1>2. ASSUME NEW k \in 1 .. N, k - 1 \in S PROVE k \in S
  <2>1. L(k - 1) \in Nat \ {0} /\ (L(k - 1) = 1 \/ L(k - 1) + (k - 1) <= N)
    BY <1>2
  <2>2. L(k) = (L(k - 1) + 1) \div 2
    BY <2>1, LevelStep, ParentsLen
  <2> HIDE DEF L
  <2>3. L(k) \in Nat \ {0} /\ (L(k) = 1 \/ L(k) + k <= N)
    BY <2>1, <2>2
  <2> QED BY <2>3
<1>3. 0 .. N \subseteq S
  <2> HIDE DEF S
  <2> QED BY <1>1, <1>2, UpToN
<1> QED BY <1>3

LEMMA RoundsReachTop ==
    ASSUME NEW leaves, Len(leaves) \in Nat \ {0}
    PROVE  /\ Rounds(leaves) \in 0 .. Len(leaves)
           /\ Len(Level(leaves, Rounds(leaves))) = 1
           /\ \A j \in 0 .. Rounds(leaves) - 1 : Len(Level(leaves, j)) > 1
<1> DEFINE N == Len(leaves)
           S == {k \in 0 .. N : Len(Level(leaves, k)) <= 1}
           Top(k) == /\ Len(Level(leaves, k)) <= 1
                     /\ \A j \in 0 .. k - 1 : Len(Level(leaves, j)) > 1
<1>1. N \in S
  <2>1. N \in 0 .. N
    OBVIOUS
  <2>2. Len(Level(leaves, N)) \in Nat \ {0}
    BY <2>1, LevelSizes
  <2>3. Len(Level(leaves, N)) = 1 \/ Len(Level(leaves, N)) + N <= N
    BY <2>1, LevelSizes
  <2> DEFINE m == Len(Level(leaves, N))
  <2>4. m <= 1
    <3>1. m \in Nat \ {0} /\ (m = 1 \/ m + N <= N) /\ N \in Nat
      BY <2>2, <2>3
    <3> HIDE DEF m, N
    <3> QED BY <3>1
  <2> QED BY <2>1, <2>4
<1>2. PICK k \in S : \A j \in S : k <= j
  <2>1. S \in SUBSET Nat /\ S # {}
    BY <1>1
  <2> HIDE DEF S
  <2> QED BY <2>1, LeastElement
<1>3. k \in 0 .. N /\ Top(k)
  <2>1. ASSUME NEW j \in 0 .. k - 1 PROVE Len(Level(leaves, j)) > 1
    <3>1. j \in 0 .. N /\ j \notin S
      BY <1>2
    <3> QED BY <3>1, LevelSizes
  <2> QED BY <2>1, <1>2
<1>4. Rounds(leaves) = CHOOSE i \in 0 .. N : Top(i)
  BY DEF Rounds, Level
<1>5. Rounds(leaves) \in 0 .. N /\ Top(Rounds(leaves))
  <2> HIDE DEF Top
  <2> QED BY <1>3, <1>4
<1>6. Len(Level(leaves, Rounds(leaves))) \in Nat \ {0}
  BY <1>5, LevelSizes
<1> DEFINE R == Rounds(leaves)
           m == Len(Level(leaves, R))
<1>7. m = 1
  <2>1. m <= 1 /\ m \in Nat \ {0}
    BY <1>5, <1>6
  <2> HIDE DEF m
  <2> QED BY <2>1
<1>8. \A j \in 0 .. R - 1 : Len(Level(leaves, j)) > 1
  BY <1>5
<1> QED BY <1>5, <1>7, <1>8

\* The leaf's ancestor is always in the level.
LEMMA IndexInLevel ==
    ASSUME NEW leaves, Len(leaves) \in Nat \ {0}, NEW idx \in 0 .. Len(leaves) - 1,
           NEW n \in 0 .. Len(leaves)
    PROVE  /\ Climb(leaves, idx)[n].idx \in Nat
           /\ Climb(leaves, idx)[n].idx < Len(Level(leaves, n))
<1> DEFINE N    == Len(leaves)
           i(k) == Climb(leaves, idx)[k].idx
           S    == {k \in 0 .. N : i(k) \in Nat /\ i(k) < Len(Level(leaves, k))}
<1>1. 0 \in S
  BY ClimbStart, LevelStart
<1>2. ASSUME NEW k \in 1 .. N, k - 1 \in S PROVE k \in S
  <2>1. i(k - 1) \in Nat /\ i(k - 1) < Len(Level(leaves, k - 1))
    BY <1>2
  <2>2. i(k) = i(k - 1) \div 2
    BY ClimbStep
  <2>3. Len(Level(leaves, k - 1)) \in Nat
    BY LevelSizes
  <2>4. Len(Level(leaves, k)) = (Len(Level(leaves, k - 1)) + 1) \div 2
    BY <2>3, LevelStep, ParentsLen
  <2> HIDE DEF i
  <2>5. i(k) \in Nat /\ i(k) < Len(Level(leaves, k))
    BY <2>1, <2>2, <2>3, <2>4
  <2> QED BY <2>5
<1>3. 0 .. N \subseteq S
  <2> HIDE DEF S
  <2> QED BY <1>1, <1>2, UpToN
<1> QED BY <1>3

-----------------------------------------------------------------------------
(* Proofs in the tree *)

\* One round.
Folded(c, sibling) ==
    [hash |-> IF c.idx % 2 = 0 THEN hashPair(c.hash, sibling) ELSE hashPair(sibling, c.hash),
     idx |-> c.idx \div 2]

FoldsTo(at, leaf, idx, proof, n) ==
    at = [k \in 0 .. n |-> IF k = 0 THEN [hash |-> leaf, idx |-> idx]
                           ELSE Folded(at[k - 1], proof[k])]

LEMMA FoldExists ==
    ASSUME NEW leaf, NEW idx, NEW proof, NEW n \in Nat
    PROVE  \E at : FoldsTo(at, leaf, idx, proof, n)
<1> DEFINE S == {k \in 0 .. n : \E at : FoldsTo(at, leaf, idx, proof, k)}
<1>1. 0 \in S
  <2> DEFINE at == [k \in 0 .. 0 |-> [hash |-> leaf, idx |-> idx]]
  <2>1. FoldsTo(at, leaf, idx, proof, 0)
    BY DEF FoldsTo
  <2> QED BY <2>1
<1>2. ASSUME NEW k \in 1 .. n, k - 1 \in S PROVE k \in S
  <2>1. PICK f : FoldsTo(f, leaf, idx, proof, k - 1)
    BY <1>2
  <2> DEFINE c  == f[k - 1]
             at == [j \in 0 .. k |-> IF j = k THEN Folded(c, proof[k]) ELSE f[j]]
  <2>2. \A j \in 0 .. k - 1 : at[j] = f[j]
    OBVIOUS
  <2>3. f[0] = [hash |-> leaf, idx |-> idx]
    BY <2>1 DEF FoldsTo
  <2>4. \A j \in 1 .. k - 1 : f[j] = Folded(f[j - 1], proof[j])
    BY <2>1 DEF FoldsTo
  <2>5. at[0] = [hash |-> leaf, idx |-> idx]
    BY <2>2, <2>3
  <2>6. ASSUME NEW j \in 1 .. k PROVE at[j] = Folded(at[j - 1], proof[j])
    <3>1. CASE j = k
      <4>1. at[j - 1] = c
        BY <3>1, <2>2
      <4>2. at[j] = Folded(c, proof[j])
        BY <3>1
      <4> QED BY <4>1, <4>2
    <3>2. CASE j # k
      <4>1. j \in 1 .. k - 1 /\ j - 1 \in 0 .. k - 1
        BY <3>2
      <4>2. at[j] = f[j] /\ at[j - 1] = f[j - 1]
        BY <4>1, <2>2
      <4> HIDE DEF at
      <4> QED BY <4>1, <4>2, <2>4
    <3> QED BY <3>1, <3>2
  <2>7. at = [j \in 0 .. k |-> at[j]]
    OBVIOUS
  <2> HIDE DEF at
  <2>8. \A j \in 0 .. k : at[j] = IF j = 0 THEN [hash |-> leaf, idx |-> idx]
                                 ELSE Folded(at[j - 1], proof[j])
    BY <2>5, <2>6
  <2>9. FoldsTo(at, leaf, idx, proof, k)
    BY ONLY <2>7, <2>8 DEF FoldsTo
  <2> QED BY <2>9
<1>3. 0 .. n \subseteq S
  <2> HIDE DEF S
  <2> QED BY <1>1, <1>2, UpToN
<1> QED BY <1>3

LEMMA FoldIs ==
    ASSUME NEW leaf, NEW idx, NEW proof, Len(proof) \in Nat
    PROVE  FoldsTo(Fold(leaf, idx, proof), leaf, idx, proof, Len(proof))
<1>1. \E at : FoldsTo(at, leaf, idx, proof, Len(proof))
  BY FoldExists
<1>2. Fold(leaf, idx, proof) = CHOOSE at : FoldsTo(at, leaf, idx, proof, Len(proof))
  BY DEF Fold, FoldsTo, Folded
<1> QED BY <1>1, <1>2

LEMMA FoldStart ==
    ASSUME NEW leaf, NEW idx, NEW proof, Len(proof) \in Nat
    PROVE  Fold(leaf, idx, proof)[0].hash = leaf /\ Fold(leaf, idx, proof)[0].idx = idx
<1> DEFINE at == Fold(leaf, idx, proof)
<1>1. FoldsTo(at, leaf, idx, proof, Len(proof))
  BY FoldIs
<1> HIDE DEF at
<1>2. at[0] = [hash |-> leaf, idx |-> idx]
  BY <1>1 DEF FoldsTo
<1> QED BY <1>2 DEF at

LEMMA FoldStep ==
    ASSUME NEW leaf, NEW idx, NEW proof, Len(proof) \in Nat, NEW k \in 1 .. Len(proof)
    PROVE  /\ Fold(leaf, idx, proof)[k].idx = Fold(leaf, idx, proof)[k - 1].idx \div 2
           /\ Fold(leaf, idx, proof)[k].hash =
                IF Fold(leaf, idx, proof)[k - 1].idx % 2 = 0
                THEN hashPair(Fold(leaf, idx, proof)[k - 1].hash, proof[k])
                ELSE hashPair(proof[k], Fold(leaf, idx, proof)[k - 1].hash)
<1> DEFINE at == Fold(leaf, idx, proof)
<1>1. FoldsTo(at, leaf, idx, proof, Len(proof))
  BY FoldIs
<1> HIDE DEF at
<1>2. at[k] = Folded(at[k - 1], proof[k])
  BY <1>1 DEF FoldsTo
<1> QED BY <1>2 DEF at, Folded

\* A node and its sibling make the node above it.
LEMMA PairMakesParent ==
    ASSUME NEW level, Len(level) \in Nat, NEW i \in Nat, i < Len(level)
    PROVE  Parents(level)[(i \div 2) + 1] =
              IF i % 2 = 0 THEN hashPair(level[i + 1], level[Sibling(level, i) + 1])
              ELSE hashPair(level[Sibling(level, i) + 1], level[i + 1])
<1> DEFINE p == (i \div 2) + 1
<1>1. p \in 1 .. ((Len(level) + 1) \div 2)
  OBVIOUS
<1>2. Parents(level)[p] = hashPair(level[2 * p - 1],
                                   level[IF 2 * p > Len(level) THEN 2 * p - 1 ELSE 2 * p])
  BY <1>1 DEF Parents
<1>3. CASE i % 2 = 0
  <2>1. 2 * p - 1 = i + 1 /\ 2 * p = i + 2
    BY <1>3
  <2>2. Sibling(level, i) + 1 = IF 2 * p > Len(level) THEN 2 * p - 1 ELSE 2 * p
    BY <1>3, <2>1 DEF Sibling
  <2> HIDE DEF p
  <2>3. Parents(level)[p] = hashPair(level[i + 1], level[Sibling(level, i) + 1])
    BY <1>2, <2>1, <2>2
  <2> QED BY <1>3, <2>3 DEF p
<1>4. CASE i % 2 # 0
  <2>1. 2 * p - 1 = i /\ 2 * p = i + 1
    BY <1>4
  <2>2. Sibling(level, i) + 1 = i
    BY <1>4 DEF Sibling
  <2>3. ~(2 * p > Len(level))
    BY <2>1
  <2> HIDE DEF p
  <2>4. Parents(level)[p] = hashPair(level[Sibling(level, i) + 1], level[i + 1])
    BY <1>2, <2>1, <2>2, <2>3
  <2> QED BY <1>4, <2>4 DEF p
<1> QED BY <1>3, <1>4

LEMMA ProofSiblings ==
    ASSUME NEW leaves, Len(leaves) \in Nat \ {0}, NEW idx
    PROVE  /\ Len(MerkleProofFor(leaves, idx)) = Rounds(leaves)
           /\ \A k \in 1 .. Rounds(leaves) :
                 MerkleProofFor(leaves, idx)[k] = SiblingAt(leaves, idx, k)
<1> DEFINE p == MerkleProofFor(leaves, idx)
           R == Rounds(leaves)
<1>1. R \in Nat
  BY RoundsReachTop
<1>2. p = [k \in 1 .. R |-> p[k]] /\ \A k \in 1 .. R : p[k] = SiblingAt(leaves, idx, k)
  BY DEF MerkleProofFor
<1> HIDE DEF p, R
<1>3. Len(p) = R
  BY <1>1, <1>2, SeqLen
<1> QED BY <1>2, <1>3 DEF p, R

\* After k rounds the hash is the leaf's ancestor in the k-th level.
LEMMA FoldFollowsClimb ==
    ASSUME NEW leaves, Len(leaves) \in Nat \ {0}, NEW idx \in 0 .. Len(leaves) - 1,
           NEW n \in 0 .. Rounds(leaves)
    PROVE  LET c == Fold(leaves[idx + 1], idx, MerkleProofFor(leaves, idx))[n]
           IN  /\ c.idx = Climb(leaves, idx)[n].idx
               /\ c.hash = Level(leaves, n)[c.idx + 1]
<1> DEFINE R    == Rounds(leaves)
           p    == MerkleProofFor(leaves, idx)
           f(k) == Fold(leaves[idx + 1], idx, p)[k]
           i(k) == Climb(leaves, idx)[k].idx
           S    == {k \in 0 .. R : f(k).idx = i(k) /\ f(k).hash = Level(leaves, k)[i(k) + 1]}
<1>1. R \in 0 .. Len(leaves) /\ Len(leaves) \in Nat /\ Len(p) = R
  BY RoundsReachTop, ProofSiblings
<1>2. 0 \in S
  <2>1. f(0).hash = leaves[idx + 1] /\ f(0).idx = idx
    BY <1>1, FoldStart
  <2>2. i(0) = idx /\ Level(leaves, 0) = leaves
    BY <1>1, ClimbStart, LevelStart
  <2>3. 0 \in 0 .. R
    BY <1>1
  <2> HIDE DEF f, i, R
  <2> QED BY <2>1, <2>2, <2>3
<1>3. ASSUME NEW k \in 1 .. R, k - 1 \in S PROVE k \in S
  <2> DEFINE level == Level(leaves, k - 1)
  <2>1. k \in 1 .. Len(leaves) /\ k - 1 \in 0 .. Len(leaves) /\ k \in 1 .. Len(p)
    BY <1>1
  <2>2. f(k - 1).idx = i(k - 1) /\ f(k - 1).hash = level[i(k - 1) + 1]
    BY <1>3
  <2>3. i(k - 1) \in Nat /\ i(k - 1) < Len(level) /\ Len(level) \in Nat
    BY <2>1, IndexInLevel, LevelSizes
  <2>4. i(k) = i(k - 1) \div 2 /\ Level(leaves, k) = Parents(level)
    BY <2>1, <1>1, ClimbStep, LevelStep
  <2>5. p[k] = level[Sibling(level, i(k - 1)) + 1]
    <3>1. p[k] = SiblingAt(leaves, idx, k)
      BY ProofSiblings
    <3>2. Climb(leaves, idx)[k - 1].level = level
      BY <2>1, <1>1, LevelOfAll
    <3> QED BY <3>1, <3>2 DEF SiblingAt
  <2>6. f(k).idx = f(k - 1).idx \div 2
    BY <2>1, <1>1, FoldStep
  <2>7. f(k).hash = IF f(k - 1).idx % 2 = 0 THEN hashPair(f(k - 1).hash, p[k])
                    ELSE hashPair(p[k], f(k - 1).hash)
    BY <2>1, <1>1, FoldStep
  <2>8. Parents(level)[(i(k - 1) \div 2) + 1] =
           IF i(k - 1) % 2 = 0 THEN hashPair(level[i(k - 1) + 1], p[k])
           ELSE hashPair(p[k], level[i(k - 1) + 1])
    BY <2>3, <2>5, PairMakesParent
  <2>9. f(k).idx = i(k)
    BY <2>2, <2>4, <2>6
  <2>10. f(k).hash = Level(leaves, k)[i(k) + 1]
    <3> HIDE DEF f, i, p, level
    <3> QED BY <2>2, <2>4, <2>7, <2>8
  <2> HIDE DEF f, i, p, level, R
  <2> QED BY <2>9, <2>10
<1>4. 0 .. R \subseteq S
  <2> HIDE DEF S
  <2>1. R \in Nat
    BY <1>1
  <2> QED BY <1>2, <1>3, <2>1, UpToN
<1> QED BY <1>4

\* MerkleProofFor and VerifyMerkleProof agree (merkle.go): the path of a leaf,
\* folded from that leaf, gives the root of the batch, also where a level has an
\* odd number of nodes, for any number of leaves.
THEOREM PathLeadsToRoot ==
    ASSUME NEW leaves, Len(leaves) \in Nat \ {0}, NEW idx \in 0 .. Len(leaves) - 1
    PROVE  VerifyMerkleProof(leaves[idx + 1], idx, MerkleProofFor(leaves, idx), MerkleRoot(leaves))
<1> DEFINE R == Rounds(leaves)
           p == MerkleProofFor(leaves, idx)
           c == Fold(leaves[idx + 1], idx, p)[R]
<1>1. R \in 0 .. Len(leaves) /\ Len(leaves) \in Nat /\ Len(p) = R /\ R \in 0 .. R
  BY RoundsReachTop, ProofSiblings
<1>2. c.idx = Climb(leaves, idx)[R].idx /\ c.hash = Level(leaves, R)[c.idx + 1]
  BY <1>1, FoldFollowsClimb
<1>3. Climb(leaves, idx)[R].idx = 0
  <2>1. Len(Level(leaves, R)) = 1
    BY RoundsReachTop
  <2>2. Climb(leaves, idx)[R].idx \in Nat /\ Climb(leaves, idx)[R].idx < Len(Level(leaves, R))
    BY <1>1, IndexInLevel
  <2> QED BY <2>1, <2>2
<1>4. leaves # << >>
  OBVIOUS
<1>5. MerkleRoot(leaves) = Level(leaves, R)[1]
  BY <1>4 DEF MerkleRoot, Level
<1>6. c.hash = MerkleRoot(leaves)
  BY <1>2, <1>3, <1>5
<1> QED BY <1>1, <1>6 DEF VerifyMerkleProof

\* A path verifies for one leaf only: with a hash that is free of collisions, two
\* leaves that fold to the same root along the same path are the same
\* (merkle.go: VerifyMerkleProof).
THEOREM PathHasOneLeaf ==
    ASSUME NEW x, NEW y, NEW idx, NEW proof, Len(proof) \in Nat, NEW root,
           VerifyMerkleProof(x, idx, proof, root), VerifyMerkleProof(y, idx, proof, root)
    PROVE  x = y
<1> DEFINE n    == Len(proof)
           f(k) == Fold(x, idx, proof)[k]
           g(k) == Fold(y, idx, proof)[k]
           S    == {k \in 0 .. n : f(k).idx = g(k).idx /\ (f(k).hash = g(k).hash => x = y)}
<1>1. 0 \in S
  <2>1. f(0).hash = x /\ f(0).idx = idx /\ g(0).hash = y /\ g(0).idx = idx
    BY FoldStart
  <2>2. 0 \in 0 .. n
    OBVIOUS
  <2> HIDE DEF f, g, n
  <2> QED BY <2>1, <2>2
<1>2. ASSUME NEW k \in 1 .. n, k - 1 \in S PROVE k \in S
  <2>1. f(k - 1).idx = g(k - 1).idx /\ (f(k - 1).hash = g(k - 1).hash => x = y)
    BY <1>2
  <2>2. f(k).idx = f(k - 1).idx \div 2 /\ g(k).idx = g(k - 1).idx \div 2
    BY FoldStep
  <2>3. f(k).hash = IF f(k - 1).idx % 2 = 0 THEN hashPair(f(k - 1).hash, proof[k])
                    ELSE hashPair(proof[k], f(k - 1).hash)
    BY FoldStep
  <2>4. g(k).hash = IF g(k - 1).idx % 2 = 0 THEN hashPair(g(k - 1).hash, proof[k])
                    ELSE hashPair(proof[k], g(k - 1).hash)
    BY FoldStep
  <2> HIDE DEF f, g
  <2>5. f(k).hash = g(k).hash => f(k - 1).hash = g(k - 1).hash
    <3>1. \A a, b, c, d : hashPair(a, b) = hashPair(c, d) => a = c /\ b = d
      BY DEF hashPair
    <3> QED BY <2>1, <2>3, <2>4, <3>1
  <2> QED BY <2>1, <2>2, <2>5
<1>3. n \in Nat /\ n \in 0 .. n
  OBVIOUS
<1>4. 0 .. n \subseteq S
  <2> HIDE DEF S, n
  <2> QED BY <1>1, <1>2, <1>3, UpToN
<1>5. f(n).hash = root /\ g(n).hash = root
  BY DEF VerifyMerkleProof
<1> QED BY <1>3, <1>4, <1>5

-----------------------------------------------------------------------------
(* The inductive invariant of the index *)

Offsets     == [Rids -> Nat]
IndexLines  == [off : Int, rids : SUBSET Rids, recs : Offsets, msize : Nat, rsize : Nat]

StoreType ==
    /\ store \in Seq(Rids \cup {0}) /\ ledger \in Seq(DOMAIN Batches \cup {0})
    /\ sidecar \in Seq(IndexLines)
    /\ merkleIdx \in Offsets /\ recordIdx \in Offsets /\ recLocs \in Offsets
    /\ built \in [m : Offsets, r : Offsets, lines : Seq(IndexLines)]
    /\ todo \in Seq(Rids) /\ logged \subseteq Rids
    /\ warm \in BOOLEAN /\ gap \in BOOLEAN /\ torn \in BOOLEAN
    /\ wpc \in {"none", "ledger", "marker"} /\ pc \in {"idle", "records", "index"}
    /\ done \in Nat /\ done <= Len(Batches)
    /\ pc # "idle" => Batch \in DOMAIN Batches
    /\ wpc # "none" => ~warm

\* A map from requests to lines of the record store is right where it says anything.
Locates(recs, s) == \A r \in Rids : recs[r] > 0 => recs[r] \in DOMAIN s /\ s[recs[r]] = r

LineOK(line) == line.rids # {} => line.off > 0

LinesOK(lines, s) == \A k \in DOMAIN lines : Locates(lines[k].recs, s) /\ LineOK(lines[k])

\* The lines say where batches are, within the first n lines of the ledger.
Within(lines, n) == \A k \in DOMAIN lines : lines[k].off <= n

RecordsOK ==
    /\ Locates(recordIdx, store) /\ Locates(recLocs, store) /\ Locates(built.r, store)
    /\ LinesOK(sidecar, store) /\ LinesOK(built.lines, store)

\* The sidecar never claims more than there is.
SizesOK ==
    sidecar # << >> =>
        /\ sidecar[Len(sidecar)].msize <= Len(ledger)
        /\ sidecar[Len(sidecar)].rsize <= Len(store)

\* The batch that is in the ledger and on its way into the index.
Entering == IF pc = "index" THEN {Len(ledger)} ELSE {}

Entered == {i \in DOMAIN ledger \ Entering : ledger[i] > 0}

\* Each request of a batch in the ledger has a line in the sidecar.
HasLine(lines, r) == \E k \in DOMAIN lines : r \in lines[k].rids

\* A sidecar that lacks one has a line that does not parse, or does not account
\* for all of the ledger.
Covered ==
    /\ \A i \in DOMAIN ledger : ledger[i] # 0
    /\ ~torn /\ ~gap => \A i \in Entered : \A r \in RidSet[ledger[i]] : HasLine(sidecar, r)
    /\ ~torn /\ gap => /\ ledger # << >>
                       /\ sidecar # << >> => sidecar[Len(sidecar)].msize < Len(ledger)
    /\ warm => \A i \in Entered : \A r \in RidSet[ledger[i]] : merkleIdx[r] # 0
    /\ wpc = "marker" =>
          \A i \in Entered : \A r \in RidSet[ledger[i]] :
              built.m[r] # 0 /\ HasLine(built.lines, r)

AllLedgered == \A b \in 1 .. done : RidSeq[b] # << >> => Ledgered(b)

LinesFromLedger == built.lines # << >> => ledger # << >>

EnteringIsBatch == pc = "index" => ledger # << >> /\ ledger[Len(ledger)] = Batch

IndexInv ==
    /\ StoreType
    /\ RecordsOK
    /\ SizesOK
    /\ EnteringIsBatch
    /\ LinesFromLedger
    /\ IndexIsWhole => Covered
    /\ slips = {} => AllLedgered

-----------------------------------------------------------------------------
(* Facts about the batches and the files *)

LEMMA SortedIs ==
    ASSUME NEW S \in SUBSET Nat, IsFiniteSet(S)
    PROVE  /\ Cardinality(S) \in Nat /\ DOMAIN Sorted(S) = 1 .. Cardinality(S)
           /\ \A k \in DOMAIN Sorted(S) : Sorted(S)[k] \in S
           /\ \A x \in S : \E k \in DOMAIN Sorted(S) : Sorted(S)[k] = x
<1> DEFINE n       == Cardinality(S)
           Below(x) == {y \in S : y <= x}
           rank    == [x \in S |-> Cardinality(Below(x))]
<1>1. n \in Nat /\ IsFiniteSet(1 .. n) /\ Cardinality(1 .. n) = n
  BY FS_CardinalityType, FS_Interval
<1>2. ASSUME NEW x \in S
      PROVE  IsFiniteSet(Below(x)) /\ rank[x] \in Nat /\ rank[x] <= n
  <2>1. Below(x) \in SUBSET S
    OBVIOUS
  <2>2. IsFiniteSet(Below(x)) /\ Cardinality(Below(x)) <= n
    BY <2>1, FS_Subset
  <2>3. Cardinality(Below(x)) \in Nat
    BY <2>2, FS_CardinalityType
  <2> QED BY <2>2, <2>3
<1>3. ASSUME NEW x \in S PROVE rank[x] >= 1
  <2>1. {x} \in SUBSET Below(x)
    OBVIOUS
  <2>2. Cardinality({x}) <= Cardinality(Below(x)) /\ Cardinality({x}) = 1
    BY <1>2, <2>1, FS_Subset, FS_Singleton
  <2> QED BY <1>2, <2>2
<1>4. ASSUME NEW x \in S, NEW y \in S, x < y PROVE rank[x] # rank[y]
  <2>1. x \in Nat /\ y \in Nat /\ \A z \in S : z \in Nat
    OBVIOUS
  <2>2. \A z \in S : z <= x => z <= y
    BY <1>4, <2>1
  <2>3. Below(x) \in SUBSET Below(y)
    BY <2>2
  <2>4. y \in Below(y) /\ y \notin Below(x)
    BY <1>4, <2>1
  <2>5. Below(x) # Below(y)
    BY <2>4
  <2>6. IsFiniteSet(Below(y))
    BY <1>2
  <2> HIDE DEF Below
  <2>7. Cardinality(Below(x)) # Cardinality(Below(y))
    BY <2>3, <2>5, <2>6, FS_Subset
  <2> QED BY <2>7
<1>5. \A x, y \in S : rank[x] = rank[y] => x = y
  BY <1>4
<1>6. rank \in Injection(S, 1 .. n)
  <2>1. \A x \in S : rank[x] \in 1 .. n
    BY <1>1, <1>2, <1>3
  <2>2. rank \in [S -> 1 .. n]
    BY <2>1
  <2> HIDE DEF rank
  <2> QED BY <1>5, <2>2 DEF Injection, IsInjective
<1>7. rank \in Surjection(S, 1 .. n)
  <2> HIDE DEF rank
  <2> QED BY <1>1, <1>6, FS_Injection
<1>8. \A k \in 1 .. n : \E x \in S : rank[x] = k
  <2> HIDE DEF rank
  <2> QED BY <1>7 DEF Surjection
<1>9. DOMAIN Sorted(S) = 1 .. n
  BY DEF Sorted
<1>10. ASSUME NEW k \in 1 .. n PROVE Sorted(S)[k] \in S /\ rank[Sorted(S)[k]] = k
  <2>1. Sorted(S)[k] = CHOOSE x \in S : Cardinality({y \in S : y <= x}) = k
    BY DEF Sorted
  <2>2. \E x \in S : Cardinality({y \in S : y <= x}) = k
    BY <1>8
  <2>3. Sorted(S)[k] \in S /\ Cardinality({y \in S : y <= Sorted(S)[k]}) = k
    BY <2>1, <2>2
  <2> QED BY <2>3
<1> HIDE DEF rank, n
<1>11. ASSUME NEW x \in S PROVE \E k \in 1 .. n : Sorted(S)[k] = x
  <2>1. rank[x] \in 1 .. n
    BY <1>6 DEF Injection
  <2>2. Sorted(S)[rank[x]] \in S /\ rank[Sorted(S)[rank[x]]] = rank[x]
    BY <1>10, <2>1
  <2> QED BY <1>5, <2>1, <2>2
<1> QED BY <1>1, <1>9, <1>10, <1>11 DEF n

LEMMA BatchRids ==
    ASSUME NEW b \in DOMAIN Batches
    PROVE  /\ RidSeq[b] \in Seq(Rids)
           /\ RidSet[b] = {RidSeq[b][i] : i \in 1 .. Len(RidSeq[b])}
           /\ RidSet[b] \subseteq Rids
<1> DEFINE rids == UNION {Batches[b].items[i].rids : i \in DOMAIN Batches[b].items}
           s    == RidSeq[b]
<1>1. s = Sorted(rids)
  BY DEF RidSeq, LeafRids
<1>2. IsFiniteSet(rids) /\ rids \in SUBSET Nat
  BY ReceiptIndexAssumption
<1> HIDE DEF rids
<1>3. Cardinality(rids) \in Nat /\ DOMAIN s = 1 .. Cardinality(rids)
  BY <1>1, <1>2, SortedIs
<1>4. s = [k \in 1 .. Cardinality(rids) |-> s[k]]
  BY <1>1 DEF Sorted
<1>5. RidSet[b] = {s[i] : i \in DOMAIN s}
  BY DEF RidSet, ToSet
<1>6. RidSet[b] \subseteq Rids
  BY DEF Rids
<1> HIDE DEF s
<1>7. Len(s) = Cardinality(rids)
  BY <1>3, <1>4, SeqLen
<1>8. \A k \in 1 .. Len(s) : s[k] \in Rids
  BY <1>3, <1>5, <1>6, <1>7
<1>9. s \in Seq(Rids)
  BY <1>3, <1>4, <1>7, <1>8
<1> QED BY <1>3, <1>5, <1>6, <1>7, <1>9 DEF s

LEMMA AppendDomain ==
    ASSUME NEW S, NEW s \in Seq(S), NEW e \in S
    PROVE  /\ Append(s, e) \in Seq(S) /\ Len(Append(s, e)) = Len(s) + 1
           /\ DOMAIN Append(s, e) = 1 .. Len(s) + 1 /\ DOMAIN s = 1 .. Len(s)
           /\ Len(s) \in Nat
           /\ \A i \in DOMAIN s : Append(s, e)[i] = s[i]
           /\ Append(s, e)[Len(s) + 1] = e
BY AppendProperties, LenProperties

LEMMA LocatesGrows ==
    ASSUME NEW S, NEW s \in Seq(S), NEW e \in S, NEW recs, Locates(recs, s)
    PROVE  Locates(recs, Append(s, e))
<1> SUFFICES ASSUME NEW r \in Rids, recs[r] > 0
             PROVE  recs[r] \in DOMAIN Append(s, e) /\ Append(s, e)[recs[r]] = r
  BY DEF Locates
<1>1. recs[r] \in DOMAIN s /\ s[recs[r]] = r
  BY DEF Locates
<1> QED BY <1>1, AppendDomain

LEMMA LinesGrow ==
    ASSUME NEW S, NEW s \in Seq(S), NEW e \in S, NEW ls, LinesOK(ls, s)
    PROVE  LinesOK(ls, Append(s, e))
<1> SUFFICES ASSUME NEW k \in DOMAIN ls PROVE Locates(ls[k].recs, Append(s, e)) /\ LineOK(ls[k])
  BY DEF LinesOK
<1>1. Locates(ls[k].recs, s) /\ LineOK(ls[k])
  BY DEF LinesOK
<1> QED BY <1>1, LocatesGrows

\* One more line.
LEMMA LineAdded ==
    ASSUME NEW ls \in Seq(IndexLines), NEW line \in IndexLines, NEW s,
           LinesOK(ls, s), Locates(line.recs, s), LineOK(line)
    PROVE  LinesOK(Append(ls, line), s)
<1> SUFFICES ASSUME NEW k \in DOMAIN Append(ls, line)
             PROVE  Locates(Append(ls, line)[k].recs, s) /\ LineOK(Append(ls, line)[k])
  BY DEF LinesOK
<1>1. DOMAIN Append(ls, line) = 1 .. Len(ls) + 1 /\ DOMAIN ls = 1 .. Len(ls) /\ Len(ls) \in Nat
  BY AppendDomain
<1>2. CASE k \in DOMAIN ls
  <2>1. Append(ls, line)[k] = ls[k]
    BY <1>2, AppendDomain
  <2>2. Locates(ls[k].recs, s) /\ LineOK(ls[k])
    BY <1>2 DEF LinesOK
  <2> QED BY <2>1, <2>2
<1>3. CASE k = Len(ls) + 1
  <2>1. Append(ls, line)[k] = line
    BY <1>3, AppendDomain
  <2> QED BY <2>1
<1> QED BY <1>1, <1>2, <1>3

LEMMA LineStays ==
    ASSUME NEW ls \in Seq(IndexLines), NEW line \in IndexLines, NEW r
    PROVE  /\ HasLine(ls, r) => HasLine(Append(ls, line), r)
           /\ r \in line.rids => HasLine(Append(ls, line), r)
<1>1. DOMAIN Append(ls, line) = 1 .. Len(ls) + 1 /\ DOMAIN ls = 1 .. Len(ls) /\ Len(ls) \in Nat
  BY AppendDomain
<1>2. ASSUME NEW k \in DOMAIN ls, r \in ls[k].rids PROVE HasLine(Append(ls, line), r)
  <2>1. Append(ls, line)[k] = ls[k]
    BY AppendDomain
  <2>2. k \in DOMAIN Append(ls, line)
    BY <1>1
  <2> QED BY <1>2, <2>1, <2>2 DEF HasLine
<1>3. ASSUME r \in line.rids PROVE HasLine(Append(ls, line), r)
  <2>1. Append(ls, line)[Len(ls) + 1] = line
    BY AppendDomain
  <2>2. Len(ls) + 1 \in DOMAIN Append(ls, line)
    BY <1>1
  <2> QED BY <1>3, <2>1, <2>2 DEF HasLine
<1> QED BY <1>2, <1>3 DEF HasLine

LEMMA StoreScan ==
    ASSUME store \in Seq(Rids \cup {0})
    PROVE  ScannedStore \in Offsets /\ Locates(ScannedStore, store)
<1>1. Len(store) \in Nat /\ DOMAIN store = 1 .. Len(store)
  BY LenProperties
<1>2. ASSUME NEW r \in Rids
      PROVE  /\ ScannedStore[r] \in Nat
             /\ ScannedStore[r] > 0 => ScannedStore[r] \in DOMAIN store /\ store[ScannedStore[r]] = r
  <2> DEFINE T == {i \in DOMAIN store : Whole(store, i) /\ store[i] = r}
  <2>1. ScannedStore[r] = Latest(T)
    BY DEF ScannedStore
  <2>2. T \in SUBSET (1 .. Len(store))
    BY <1>1
  <2>3. Latest(T) = 0 \/ Latest(T) \in T
    <3> HIDE DEF T
    <3> QED BY <1>1, <2>2, LatestIn
  <2> QED BY <1>1, <2>1, <2>3
<1>3. ScannedStore = [r \in Rids |-> ScannedStore[r]]
  BY DEF ScannedStore
<1> HIDE DEF ScannedStore
<1> QED BY <1>2, <1>3 DEF Offsets, Locates

LEMMA LedgerScan ==
    ASSUME ledger \in Seq(DOMAIN Batches \cup {0}), NEW r \in Rids
    PROVE  /\ ScannedLedger[r] \in Nat
           /\ ScannedLedger[r] > 0 =>
                 ScannedLedger[r] \in DOMAIN ledger /\ ledger[ScannedLedger[r]] > 0
                 /\ r \in RidSet[ledger[ScannedLedger[r]]]
           /\ \A i \in DOMAIN ledger :
                 Whole(ledger, i) /\ r \in RidSet[ledger[i]] => ScannedLedger[r] > 0
<1> DEFINE T == {i \in DOMAIN ledger : Whole(ledger, i) /\ r \in RidSet[ledger[i]]}
<1>1. Len(ledger) \in Nat /\ DOMAIN ledger = 1 .. Len(ledger)
  BY LenProperties
<1>2. ScannedLedger[r] = Latest(T)
  BY DEF ScannedLedger
<1>3. T \in SUBSET (1 .. Len(ledger))
  BY <1>1
<1>4. (T = {} => Latest(T) = 0) /\ (T # {} => Latest(T) \in T)
  <2> HIDE DEF T
  <2> QED BY <1>1, <1>3, LatestIn
<1>5. \A i \in T : i \in Nat /\ i > 0 /\ i \in DOMAIN ledger /\ ledger[i] > 0 /\ r \in RidSet[ledger[i]]
  BY <1>1 DEF Whole
<1>6. \A i \in DOMAIN ledger : Whole(ledger, i) /\ r \in RidSet[ledger[i]] => T # {}
  OBVIOUS
<1> HIDE DEF T
<1> QED BY <1>2, <1>4, <1>5, <1>6

LEMMA LedgerScanType ==
    ASSUME ledger \in Seq(DOMAIN Batches \cup {0})
    PROVE  ScannedLedger \in Offsets
<1>1. ScannedLedger = [r \in Rids |-> ScannedLedger[r]]
  BY DEF ScannedLedger
<1> QED BY <1>1, LedgerScan DEF Offsets

LEMMA LineType ==
    ASSUME sidecar \in Seq(IndexLines), NEW i \in DOMAIN sidecar
    PROVE  /\ sidecar[i] \in IndexLines /\ sidecar[i].off \in Int
           /\ sidecar[i].rids \in SUBSET Rids /\ sidecar[i].recs \in [Rids -> Nat]
           /\ sidecar[i].msize \in Nat /\ sidecar[i].rsize \in Nat
<1>1. DOMAIN sidecar = 1 .. Len(sidecar)
  BY LenProperties
<1>2. sidecar[i] \in IndexLines
  BY <1>1, ElementOfSeq
<1> QED BY <1>2 DEF IndexLines, Offsets

\* A replay finds every request that has a line, and its record or none.
LEMMA ReplayFinds ==
    ASSUME sidecar \in Seq(IndexLines), LinesOK(sidecar, store), NEW r \in Rids
    PROVE  /\ Replayed.m[r] \in Nat
           /\ HasLine(sidecar, r) => Replayed.m[r] # 0
           /\ Replayed.r[r] \in Nat
           /\ Replayed.r[r] > 0 => Replayed.r[r] \in DOMAIN store /\ store[Replayed.r[r]] = r
<1> DEFINE T == {i \in DOMAIN sidecar : r \in sidecar[i].rids}
           U == {i \in DOMAIN sidecar : sidecar[i].recs[r] > 0}
<1>1. Len(sidecar) \in Nat /\ DOMAIN sidecar = 1 .. Len(sidecar)
  BY LenProperties
<1>2. Replayed.m[r] = IF Latest(T) = 0 THEN 0 ELSE sidecar[Latest(T)].off
  BY DEF Replayed
<1>3. Replayed.r[r] = IF Latest(U) = 0 THEN 0 ELSE sidecar[Latest(U)].recs[r]
  BY DEF Replayed
<1>4. T \in SUBSET (1 .. Len(sidecar)) /\ U \in SUBSET (1 .. Len(sidecar))
  BY <1>1
<1>5. (T = {} => Latest(T) = 0) /\ (T # {} => Latest(T) \in T)
  <2> HIDE DEF T, U
  <2> QED BY <1>1, <1>4, LatestIn
<1>6. (U = {} => Latest(U) = 0) /\ (U # {} => Latest(U) \in U)
  <2> HIDE DEF T, U
  <2> QED BY <1>1, <1>4, LatestIn
<1>7. ASSUME NEW i \in T PROVE i > 0 /\ sidecar[i].off \in Nat /\ sidecar[i].off # 0
  <2>1. i \in DOMAIN sidecar /\ r \in sidecar[i].rids /\ i > 0
    BY <1>1
  <2>2. sidecar[i].off > 0
    BY <2>1 DEF LinesOK, LineOK
  <2> QED BY <2>1, <2>2, LineType
<1>8. ASSUME NEW i \in U
      PROVE  /\ sidecar[i].recs[r] \in Nat
             /\ sidecar[i].recs[r] \in DOMAIN store /\ store[sidecar[i].recs[r]] = r
  <2>1. i \in DOMAIN sidecar /\ sidecar[i].recs[r] > 0
    OBVIOUS
  <2>2. Locates(sidecar[i].recs, store)
    BY <2>1 DEF LinesOK
  <2>3. sidecar[i].recs \in [Rids -> Nat]
    BY <2>1, LineType
  <2> QED BY <2>1, <2>2, <2>3 DEF Locates
<1>9. HasLine(sidecar, r) => T # {}
  BY DEF HasLine
<1> HIDE DEF T, U
<1>10. Replayed.m[r] \in Nat /\ (HasLine(sidecar, r) => Replayed.m[r] # 0)
  BY <1>2, <1>5, <1>7, <1>9
<1>11. /\ Replayed.r[r] \in Nat
       /\ Replayed.r[r] > 0 => Replayed.r[r] \in DOMAIN store /\ store[Replayed.r[r]] = r
  BY <1>3, <1>6, <1>8
<1> QED BY <1>10, <1>11

LEMMA ReplayType ==
    ASSUME sidecar \in Seq(IndexLines), LinesOK(sidecar, store)
    PROVE  Replayed.m \in Offsets /\ Replayed.r \in Offsets /\ Locates(Replayed.r, store)
<1>1. Replayed.m = [r \in Rids |-> Replayed.m[r]] /\ Replayed.r = [r \in Rids |-> Replayed.r[r]]
  BY DEF Replayed
<1>2. \A r \in Rids : Replayed.m[r] \in Nat /\ Replayed.r[r] \in Nat
  BY ReplayFinds
<1>3. \A r \in Rids : Replayed.r[r] > 0 => Replayed.r[r] \in DOMAIN store /\ store[Replayed.r[r]] = r
  BY ReplayFinds
<1> HIDE DEF Replayed
<1> QED BY <1>1, <1>2, <1>3 DEF Offsets, Locates

\* A rebuild makes a line for every batch that can be read.
LEMMA RebuiltOK ==
    ASSUME ledger \in Seq(DOMAIN Batches \cup {0}), NEW recs \in Offsets, Locates(recs, store)
    PROVE  /\ RebuiltLines(recs) \in Seq(IndexLines)
           /\ LinesOK(RebuiltLines(recs), store) /\ Within(RebuiltLines(recs), Len(ledger))
           /\ \A i \in DOMAIN ledger : \A r \in Rids :
                 Whole(ledger, i) /\ r \in RidSet[ledger[i]] => HasLine(RebuiltLines(recs), r)
           /\ \A k \in DOMAIN RebuiltLines(recs) : RebuiltLines(recs)[k].msize = 0
           /\ RebuiltLines(recs) # << >> => ledger # << >>
<1> DEFINE W    == {i \in DOMAIN ledger : Whole(ledger, i)}
           at   == Sorted(W)
           n    == Cardinality(W)
           lines == RebuiltLines(recs)
           own(i) == [r \in Rids |-> IF r \in RidSet[ledger[i]] THEN recs[r] ELSE 0]
<1>1. Len(ledger) \in Nat /\ DOMAIN ledger = 1 .. Len(ledger)
  BY LenProperties
<1>2. W \in SUBSET Nat /\ IsFiniteSet(W)
  <2>1. W \in SUBSET (1 .. Len(ledger))
    BY <1>1
  <2>2. IsFiniteSet(1 .. Len(ledger))
    BY <1>1, FS_Interval
  <2> HIDE DEF W
  <2>3. IsFiniteSet(W)
    BY <2>1, <2>2, FS_Subset
  <2>4. W \in SUBSET Nat
    BY <1>1, <2>1
  <2> QED BY <2>3, <2>4
<1>3. n \in Nat /\ DOMAIN at = 1 .. n /\ \A k \in 1 .. n : at[k] \in W
  <2> HIDE DEF W
  <2> QED BY <1>2, SortedIs
<1>4. \A x \in W : \E k \in 1 .. n : at[k] = x
  <2> HIDE DEF W
  <2> QED BY <1>2, SortedIs
<1>5. lines = [k \in 1 .. n |-> Line(at[k], RidSet[ledger[at[k]]], own(at[k]), 0, 0)]
  BY <1>3 DEF RebuiltLines
<1>6. ASSUME NEW i \in W
      PROVE  /\ i \in Nat /\ i > 0 /\ i \in DOMAIN ledger
             /\ ledger[i] \in DOMAIN Batches /\ RidSet[ledger[i]] \in SUBSET Rids
  <2>1. i \in DOMAIN ledger /\ ledger[i] > 0
    BY DEF Whole
  <2>2. ledger[i] \in DOMAIN Batches \cup {0}
    BY <1>1, <2>1, ElementOfSeq
  <2>3. ledger[i] \in DOMAIN Batches
    BY <2>1, <2>2
  <2> QED BY <1>1, <2>1, <2>3, BatchRids
<1>7. ASSUME NEW i \in W
      PROVE  /\ own(i) \in Offsets
             /\ Locates(own(i), store)
  BY <1>6 DEF Offsets, Locates
<1> HIDE DEF W, at, n, own, lines
<1>8. ASSUME NEW k \in 1 .. n
      PROVE  /\ lines[k].rids = RidSet[ledger[at[k]]] /\ lines[k].recs = own(at[k])
             /\ lines[k].off = at[k] /\ lines[k].msize = 0
             /\ lines[k] \in IndexLines
  <2>1. lines[k] = Line(at[k], RidSet[ledger[at[k]]], own(at[k]), 0, 0)
    BY <1>5
  <2>2. at[k] \in Int /\ RidSet[ledger[at[k]]] \in SUBSET Rids /\ own(at[k]) \in Offsets
    BY <1>3, <1>6, <1>7
  <2> QED BY <2>1, <2>2 DEF Line, IndexLines
<1>9. DOMAIN lines = 1 .. n /\ lines = [k \in 1 .. n |-> lines[k]]
  BY <1>5
<1>10. lines \in Seq(IndexLines)
  BY <1>3, <1>8, <1>9
<1>11. LinesOK(lines, store)
  <2> SUFFICES ASSUME NEW k \in 1 .. n PROVE Locates(lines[k].recs, store) /\ LineOK(lines[k])
    BY <1>9 DEF LinesOK
  <2>1. at[k] \in W
    BY <1>3
  <2>2. lines[k].recs = own(at[k]) /\ lines[k].off = at[k]
    BY <1>8
  <2>3. Locates(own(at[k]), store) /\ at[k] > 0
    BY <2>1, <1>6, <1>7
  <2> QED BY <2>2, <2>3 DEF LineOK
<1>12. ASSUME NEW i \in DOMAIN ledger, NEW r \in Rids, Whole(ledger, i), r \in RidSet[ledger[i]]
       PROVE  HasLine(lines, r)
  <2>1. i \in W
    BY <1>12 DEF W
  <2>2. PICK k \in 1 .. n : at[k] = i
    BY <1>4, <2>1
  <2> QED BY <1>8, <1>9, <1>12, <2>2 DEF HasLine
<1>13. Within(lines, Len(ledger))
  <2> SUFFICES ASSUME NEW k \in 1 .. n PROVE lines[k].off <= Len(ledger)
    BY <1>9 DEF Within
  <2>1. at[k] \in 1 .. Len(ledger)
    BY <1>1, <1>3, <1>6
  <2>2. lines[k].off = at[k]
    BY <1>8
  <2> QED BY <1>1, <2>1, <2>2
<1>14. \A k \in DOMAIN lines : lines[k].msize = 0
  BY <1>8, <1>9
<1>15. lines # << >> => ledger # << >>
  <2>1. lines # << >> => 1 \in DOMAIN lines
    BY <1>10, LenProperties, EmptySeq
  <2>2. 1 \in DOMAIN lines => at[1] \in W
    BY <1>3, <1>9
  <2>3. ledger = << >> => DOMAIN ledger = {}
    BY <1>1, EmptySeq
  <2> QED BY <2>1, <2>2, <2>3 DEF W
<1> QED BY <1>10, <1>11, <1>12, <1>13, <1>14, <1>15 DEF lines

-----------------------------------------------------------------------------
(* Every step preserves the invariant *)

LEMMA NothingFound ==
    /\ Absent \in Offsets /\ \A s : Locates(Absent, s)
    /\ NoBuild \in [m : Offsets, r : Offsets, lines : Seq(IndexLines)]
    /\ NoBuild.r = Absent /\ NoBuild.m = Absent /\ NoBuild.lines = << >>
    /\ \A s : LinesOK(<< >>, s)
<1>1. Absent \in Offsets /\ \A s : Locates(Absent, s)
  BY DEF Absent, Offsets, Locates
<1>2. << >> \in Seq(IndexLines) /\ \A s : LinesOK(<< >>, s)
  BY DEF LinesOK
<1> QED BY <1>1, <1>2 DEF NoBuild

\* A step that leaves the files and the indexes alone.
LEMMA CoveredStays ==
    ASSUME Covered, UNCHANGED <<ledger, sidecar, torn, gap, warm, merkleIdx, wpc, built>>,
           Entered' \subseteq Entered
    PROVE  Covered'
BY DEF Covered

LEMMA InitIndexInv == Init => IndexInv
<1> SUFFICES ASSUME Init PROVE IndexInv
  OBVIOUS
<1> USE NothingFound, ReceiptIndexAssumption DEF Init
<1>1. StoreType
  <2>1. << >> \in Seq(Rids \cup {0}) /\ << >> \in Seq(DOMAIN Batches \cup {0})
        /\ << >> \in Seq(IndexLines) /\ << >> \in Seq(Rids)
    BY EmptySeq
  <2>2. merkleIdx \in Offsets /\ recordIdx \in Offsets /\ recLocs \in Offsets
    OBVIOUS
  <2>3. built \in [m : Offsets, r : Offsets, lines : Seq(IndexLines)]
    OBVIOUS
  <2>4. done \in Nat /\ done <= Len(Batches)
    OBVIOUS
  <2>5. /\ store \in Seq(Rids \cup {0}) /\ ledger \in Seq(DOMAIN Batches \cup {0})
        /\ sidecar \in Seq(IndexLines) /\ todo \in Seq(Rids) /\ logged \subseteq Rids
    BY ONLY Init, <2>1 DEF Init
  <2>6. /\ warm \in BOOLEAN /\ gap \in BOOLEAN /\ torn \in BOOLEAN /\ pc = "idle" /\ wpc = "none"
        /\ wpc \in {"none", "ledger", "marker"} /\ pc \in {"idle", "records", "index"}
    BY ONLY Init DEF Init
  <2> QED BY ONLY <2>2, <2>3, <2>4, <2>5, <2>6 DEF StoreType
<1>2. RecordsOK
  BY DEF RecordsOK
<1>3. SizesOK /\ EnteringIsBatch /\ LinesFromLedger /\ AllLedgered
  BY DEF SizesOK, EnteringIsBatch, LinesFromLedger, AllLedgered
<1>4. Covered
  BY DEF Covered, Entered, Entering
<1> QED BY <1>1, <1>2, <1>3, <1>4 DEF IndexInv

LEMMA AppendBeginStep ==
    ASSUME IndexInv, AppendBegin PROVE IndexInv'
<1> USE DEF IndexInv
<1>1. StoreType'
  <2>1. Batch \in DOMAIN Batches /\ DOMAIN Batches = 1 .. Len(Batches) /\ Len(Batches) \in Nat
    BY ReceiptIndexAssumption DEF AppendBegin
  <2>2. RidSeq[Batch] \in Seq(Rids)
    BY <2>1, BatchRids
  <2>3. todo' \in Seq(Rids) /\ pc' \in {"idle", "records"}
    BY <2>2 DEF AppendBegin, StoreType
  <2>4. done' \in Nat /\ done' <= Len(Batches) /\ (pc' # "idle" => Batch' \in DOMAIN Batches)
    BY <2>1 DEF AppendBegin, StoreType, Batch
  <2> QED BY <2>3, <2>4 DEF AppendBegin, StoreType, data, index
<1>2. RecordsOK'
  BY DEF AppendBegin, RecordsOK, data, index
<1>3. SizesOK' /\ EnteringIsBatch' /\ LinesFromLedger'
  BY DEF AppendBegin, SizesOK, EnteringIsBatch, LinesFromLedger, data, index
<1>4. ASSUME IndexIsWhole' PROVE Covered'
  BY <1>4, CoveredStays DEF AppendBegin, data, index, IndexIsWhole, Covered, Entered, Entering
<1>5. ASSUME slips' = {} PROVE AllLedgered'
  <2>1. AllLedgered /\ ledger' = ledger
    BY <1>5 DEF AppendBegin, data
  <2>2. done \in Nat
    BY DEF StoreType
  <2>3. ASSUME NEW b \in 1 .. done', RidSeq[b] # << >> PROVE Ledgered(b)
    <3>1. b \in 1 .. done => Ledgered(b)
      BY <2>1, <2>3 DEF AllLedgered
    <3>2. b \notin 1 .. done => b = Batch /\ done' = done + 1
      BY <2>2 DEF AppendBegin, Batch
    <3>3. done' = done + 1 => ledgerHasHash(Batch) \/ RidSeq[Batch] = << >>
      BY <2>2 DEF AppendBegin
    <3> QED BY <2>3, <3>1, <3>2, <3>3 DEF ledgerHasHash, Ledgered
  <2> QED BY <2>1, <2>3 DEF AllLedgered, Ledgered
<1> QED BY <1>1, <1>2, <1>3, <1>4, <1>5

LEMMA SkipProcessedStep ==
    ASSUME IndexInv, SkipProcessed PROVE IndexInv'
<1> USE DEF IndexInv
<1>1. /\ pc = "idle" /\ Batch \in DOMAIN Batches /\ done' = done + 1
      /\ "unledgered" \in slips' /\ slips \subseteq slips'
      /\ UNCHANGED <<data, index, pc, todo, recLocs, logged, gap>>
  BY DEF SkipProcessed
<1>2. done' \in Nat /\ done' <= Len(Batches)
  BY <1>1, ReceiptIndexAssumption DEF StoreType, Batch
<1>3. StoreType'
  BY <1>1, <1>2 DEF StoreType, data, index
<1>4. RecordsOK' /\ SizesOK' /\ EnteringIsBatch' /\ LinesFromLedger'
  BY <1>1 DEF RecordsOK, SizesOK, EnteringIsBatch, LinesFromLedger, data, index
<1>5. Covered => Covered'
  BY <1>1 DEF Covered, Entered, Entering, data, index
<1>6. IndexIsWhole' => IndexIsWhole
  BY <1>1 DEF IndexIsWhole
<1> QED BY <1>1, <1>3, <1>4, <1>5, <1>6

LEMMA AppendRecordStep ==
    ASSUME IndexInv, AppendRecord PROVE IndexInv'
<1> USE DEF IndexInv
<1> DEFINE rid == Head(todo)
<1>1. rid \in Rids /\ Tail(todo) \in Seq(Rids)
  BY HeadTailProperties DEF AppendRecord, StoreType
<1>2. store \in Seq(Rids \cup {0}) /\ Len(store) \in Nat
  BY LenProperties DEF StoreType
<1>3. \/ store' = store /\ recLocs' = recLocs
      \/ store' = Append(store, rid) /\ recLocs' = [recLocs EXCEPT ![rid] = Len(store) + 1]
      \/ store' = Append(store, 0) /\ recLocs' = recLocs
  BY DEF AppendRecord
<1> HIDE DEF rid
<1>4. ASSUME NEW recs, Locates(recs, store) PROVE Locates(recs, store')
  BY <1>1, <1>2, <1>3, <1>4, LocatesGrows
<1>5. ASSUME NEW ls, LinesOK(ls, store) PROVE LinesOK(ls, store')
  BY <1>1, <1>2, <1>3, <1>5, LinesGrow
<1>6. store' \in Seq(Rids \cup {0}) /\ Len(store) <= Len(store')
  <2>1. ASSUME NEW e \in Rids \cup {0}, store' = Append(store, e)
        PROVE  store' \in Seq(Rids \cup {0}) /\ Len(store') = Len(store) + 1
    BY <1>2, <2>1, AppendDomain
  <2>2. CASE store' = store
    BY <1>2, <2>2
  <2>3. CASE store' # store
    <3>1. store' \in Seq(Rids \cup {0}) /\ Len(store') = Len(store) + 1
      BY <1>1, <1>3, <2>1, <2>3
    <3> QED BY <1>2, <3>1
  <2> QED BY <2>2, <2>3
<1>7. recLocs' \in Offsets
  <2>1. recLocs \in [Rids -> Nat] /\ Len(store) + 1 \in Nat
    BY <1>2 DEF StoreType, Offsets
  <2> QED BY <1>1, <1>3, <2>1 DEF Offsets
<1>8. Locates(recLocs', store')
  <2>1. Locates(recLocs, store')
    BY <1>4 DEF RecordsOK
  <2>2. CASE store' = Append(store, rid) /\ recLocs' = [recLocs EXCEPT ![rid] = Len(store) + 1]
    <3>1. Len(store) + 1 \in DOMAIN store' /\ store'[Len(store) + 1] = rid
      BY <1>1, <1>2, <2>2, AppendDomain
    <3>2. recLocs \in [Rids -> Nat]
      BY DEF StoreType, Offsets
    <3>3. \A r \in Rids : recLocs'[r] = IF r = rid THEN Len(store) + 1 ELSE recLocs[r]
      BY <1>1, <2>2, <3>2
    <3> QED BY <2>1, <3>1, <3>3 DEF Locates
  <2> QED BY <1>3, <2>1, <2>2
<1>9. StoreType'
  BY <1>1, <1>6, <1>7 DEF StoreType, AppendRecord, index, Batch
<1>10. RecordsOK'
  BY <1>4, <1>5, <1>8 DEF RecordsOK, AppendRecord, index
<1>11. SizesOK'
  <2>1. sidecar # << >> => Len(sidecar) \in DOMAIN sidecar
    BY LenProperties, EmptySeq DEF StoreType
  <2>2. sidecar # << >> => sidecar[Len(sidecar)].rsize \in Nat
    BY <2>1, LineType DEF StoreType
  <2>3. Len(store') \in Nat
    BY <1>6, LenProperties
  <2> QED BY <1>2, <1>6, <2>2, <2>3 DEF SizesOK, AppendRecord
<1>12. EnteringIsBatch'
  BY DEF EnteringIsBatch, AppendRecord, Batch
<1>13. ASSUME IndexIsWhole' PROVE Covered'
  BY <1>13, CoveredStays DEF AppendRecord, Covered, Entered, Entering, IndexIsWhole, index
<1>14. LinesFromLedger' /\ (slips' = {} => AllLedgered')
  BY DEF AppendRecord, LinesFromLedger, AllLedgered, Ledgered, index
<1> QED BY <1>9, <1>10, <1>11, <1>12, <1>13, <1>14

LEMMA AppendLedgerStep ==
    ASSUME IndexInv, AppendLedger PROVE IndexInv'
<1> USE DEF IndexInv
<1>1. /\ pc = "records" /\ pc' = "index" /\ ledger' = Append(ledger, Batch)
      /\ UNCHANGED <<store, sidecar, torn, index, todo, recLocs, done, logged, slips, gap, faults>>
  BY DEF AppendLedger
<1>2. Batch \in DOMAIN Batches /\ ledger \in Seq(DOMAIN Batches \cup {0}) /\ Batch # 0
  BY <1>1 DEF StoreType, Batch
<1>3. /\ ledger' \in Seq(DOMAIN Batches \cup {0}) /\ Len(ledger') = Len(ledger) + 1
      /\ DOMAIN ledger' = 1 .. Len(ledger) + 1 /\ DOMAIN ledger = 1 .. Len(ledger)
      /\ Len(ledger) \in Nat
      /\ \A i \in DOMAIN ledger : ledger'[i] = ledger[i]
      /\ ledger'[Len(ledger) + 1] = Batch
  BY <1>1, <1>2, AppendDomain
<1>4. Batch' = Batch
  BY <1>1 DEF Batch
<1>5. StoreType'
  BY <1>1, <1>2, <1>3, <1>4 DEF StoreType, index
<1>6. RecordsOK'
  BY <1>1 DEF RecordsOK, index
<1>7. sidecar # << >> =>
          sidecar[Len(sidecar)].msize \in Nat /\ sidecar[Len(sidecar)].msize <= Len(ledger)
  <2>1. sidecar # << >> => Len(sidecar) \in DOMAIN sidecar
    BY LenProperties, EmptySeq DEF StoreType
  <2> QED BY <2>1, LineType DEF StoreType, SizesOK
<1>8. SizesOK'
  BY <1>1, <1>3, <1>7 DEF SizesOK
<1>9. ledger' # << >>
  BY <1>1, <1>2, AppendProperties
<1>10. EnteringIsBatch'
  BY <1>3, <1>4, <1>9 DEF EnteringIsBatch
<1>11. ASSUME IndexIsWhole' PROVE Covered'
  <2>1. Covered
    BY <1>1, <1>11 DEF IndexIsWhole
  <2>2. Entered' = {i \in DOMAIN ledger : ledger[i] > 0}
    <3>1. Entered' = {i \in DOMAIN ledger' \ {Len(ledger')} : ledger'[i] > 0}
      BY <1>1 DEF Entered, Entering
    <3>2. DOMAIN ledger' \ {Len(ledger')} = DOMAIN ledger
      BY <1>3
    <3> QED BY <1>3, <3>1, <3>2
  <2>3. Entered = {i \in DOMAIN ledger : ledger[i] > 0}
    BY <1>1 DEF Entered, Entering
  <2>4. Entered' = Entered /\ \A i \in Entered : ledger'[i] = ledger[i]
    BY <1>3, <2>2, <2>3
  <2>5. \A i \in DOMAIN ledger' : ledger'[i] # 0
    <3>1. \A i \in DOMAIN ledger : ledger[i] # 0
      BY <2>1 DEF Covered
    <3> QED BY <1>2, <1>3, <3>1
  <2>7. gap' => (sidecar' # << >> => sidecar'[Len(sidecar')].msize < Len(ledger'))
    BY <1>1, <1>3, <1>7
  <2>8. warm' = warm /\ wpc' = wpc /\ built' = built /\ merkleIdx' = merkleIdx
        /\ sidecar' = sidecar /\ torn' = torn /\ gap' = gap
    BY <1>1 DEF index
  <2>9. /\ ~torn /\ ~gap =>
              \A i \in Entered : \A r \in RidSet[ledger[i]] : HasLine(sidecar, r)
        /\ warm => \A i \in Entered : \A r \in RidSet[ledger[i]] : merkleIdx[r] # 0
        /\ wpc = "marker" =>
              \A i \in Entered : \A r \in RidSet[ledger[i]] :
                  built.m[r] # 0 /\ HasLine(built.lines, r)
    BY <2>1 DEF Covered
  <2> QED BY <1>9, <2>4, <2>5, <2>7, <2>8, <2>9 DEF Covered
<1>12. ASSUME slips' = {} PROVE AllLedgered'
  <2>1. \A b \in 1 .. done : RidSeq[b] # << >> => \E i \in DOMAIN ledger : ledger[i] = b
    BY <1>1, <1>12 DEF AllLedgered, Ledgered
  <2>2. \A i \in DOMAIN ledger : i \in DOMAIN ledger' /\ ledger'[i] = ledger[i]
    BY <1>3
  <2> QED BY <1>1, <2>1, <2>2 DEF AllLedgered, Ledgered
<1>13. LinesFromLedger'
  BY <1>9 DEF LinesFromLedger
<1> QED BY <1>5, <1>6, <1>8, <1>10, <1>11, <1>12, <1>13

LEMMA AppendLedgerFailsStep ==
    ASSUME IndexInv, AppendLedgerFails PROVE IndexInv'
<1> USE DEF IndexInv
<1>1. /\ pc = "records" /\ pc' = "idle" /\ done' = done + 1 /\ recLocs' = Absent
      /\ \/ ledger' = ledger
         \/ ledger' = Append(ledger, 0) /\ ~IndexIsWhole'
      /\ slips' # {} /\ slips \subseteq slips'
      /\ UNCHANGED <<store, sidecar, torn, index, todo, logged, gap>>
  <2>1. \/ ledger' = ledger /\ slips' = slips \cup {"unledgered"}
        \/ ledger' = Append(ledger, 0) /\ slips' = slips \cup {"ledger"}
    BY DEF AppendLedgerFails
  <2>2. ("ledger" \in slips' => ~IndexIsWhole') /\ (slips \subseteq slips' /\ slips' # {})
    BY <2>1 DEF IndexIsWhole
  <2> QED BY <2>1, <2>2 DEF AppendLedgerFails, Return
<1>2. ledger \in Seq(DOMAIN Batches \cup {0}) /\ Len(ledger) \in Nat
  BY LenProperties DEF StoreType
<1>3. ledger' \in Seq(DOMAIN Batches \cup {0}) /\ Len(ledger) <= Len(ledger') /\ Len(ledger') \in Nat
  <2>1. CASE ledger' = ledger
    BY <1>2, <2>1
  <2>2. CASE ledger' = Append(ledger, 0)
    <3>1. ledger' \in Seq(DOMAIN Batches \cup {0}) /\ Len(ledger') = Len(ledger) + 1
      BY <1>2, <2>2, AppendDomain
    <3> QED BY <1>2, <3>1
  <2> QED BY <1>1, <2>1, <2>2
<1>4. StoreType'
  <2>1. done' \in Nat /\ done' <= Len(Batches)
    BY <1>1, ReceiptIndexAssumption DEF StoreType, Batch
  <2> QED BY <1>1, <1>3, <2>1, NothingFound DEF StoreType, index
<1>5. RecordsOK'
  BY <1>1, NothingFound DEF RecordsOK, index
<1>6. SizesOK'
  <2>1. sidecar # << >> => Len(sidecar) \in DOMAIN sidecar
    BY LenProperties, EmptySeq DEF StoreType
  <2>2. sidecar # << >> => sidecar[Len(sidecar)].msize \in Nat
    BY <2>1, LineType DEF StoreType
  <2> QED BY <1>1, <1>2, <1>3, <2>2 DEF SizesOK
<1>7. LinesFromLedger'
  <2>1. ledger' = << >> => ledger = << >>
    BY <1>1, <1>2, AppendProperties
  <2> QED BY <1>1, <2>1 DEF LinesFromLedger, index
<1>8. ASSUME IndexIsWhole' PROVE Covered'
  <2>1. Covered /\ ledger' = ledger
    BY <1>1, <1>8 DEF IndexIsWhole
  <2>2. Entered' = Entered
    BY <1>1, <2>1 DEF Entered, Entering
  <2> QED BY <1>1, <2>1, <2>2, CoveredStays DEF index
<1> QED BY <1>1, <1>4, <1>5, <1>6, <1>7, <1>8 DEF EnteringIsBatch

LEMMA RotateLogStep ==
    ASSUME IndexInv, RotateLog PROVE IndexInv'
<1> USE DEF IndexInv
<1>1. logged' = {} /\ UNCHANGED <<data, index, append, gap, faults>> /\ slips \subseteq slips'
  BY DEF RotateLog
<1>2. StoreType'
  BY <1>1 DEF StoreType, Batch, data, index, append
<1>3. RecordsOK' /\ SizesOK' /\ EnteringIsBatch' /\ LinesFromLedger'
  BY <1>1 DEF RecordsOK, SizesOK, EnteringIsBatch, LinesFromLedger, Batch, data, index, append
<1>4. (Covered => Covered') /\ (AllLedgered => AllLedgered')
  BY <1>1 DEF Covered, AllLedgered, Ledgered, Entered, Entering, data, index, append
<1>5. (IndexIsWhole' => IndexIsWhole) /\ (slips' = {} => slips = {})
  BY <1>1 DEF IndexIsWhole
<1> QED BY <1>2, <1>3, <1>4, <1>5

\* The line of the batch, the record offsets in it, and the index it goes into.
LEMMA LineOfBatch ==
    ASSUME IndexInv, pc = "index", NEW line,
           line = Line(Len(ledger), RidSet[Batch], recLocs, Len(ledger), Len(store))
    PROVE  /\ line \in IndexLines /\ line.rids = RidSet[Batch] /\ line.recs = recLocs
           /\ line.msize = Len(ledger) /\ line.rsize = Len(store)
           /\ LineOK(line) /\ Locates(line.recs, store)
           /\ Len(ledger) \in Nat /\ Len(ledger) > 0 /\ RidSet[Batch] \in SUBSET Rids
<1> USE DEF IndexInv
<1>1. Len(ledger) \in Nat /\ Len(store) \in Nat /\ (ledger # << >> => Len(ledger) > 0)
  BY LenProperties, EmptySeq DEF StoreType
<1>2. Len(ledger) > 0
  BY <1>1 DEF EnteringIsBatch
<1>3. RidSet[Batch] \in SUBSET Rids
  BY BatchRids DEF StoreType
<1>4. recLocs \in Offsets /\ Locates(recLocs, store)
  BY DEF StoreType, RecordsOK
<1>5. /\ line \in IndexLines /\ line.rids = RidSet[Batch] /\ line.recs = recLocs
      /\ line.msize = Len(ledger) /\ line.rsize = Len(store) /\ line.off = Len(ledger)
  BY ONLY <1>1, <1>3, <1>4, line = Line(Len(ledger), RidSet[Batch], recLocs, Len(ledger), Len(store))
  DEF Line, IndexLines
<1> QED BY <1>1, <1>2, <1>3, <1>4, <1>5 DEF LineOK

LEMMA IndexedType ==
    ASSUME NEW idx \in Offsets, NEW rids \in SUBSET Rids, NEW off \in Nat, off > 0
    PROVE  /\ Indexed(idx, rids, off) \in Offsets
           /\ \A r \in Rids : r \in rids \/ idx[r] # 0 => Indexed(idx, rids, off)[r] # 0
BY DEF Indexed, Offsets

LEMMA LocatedType ==
    ASSUME NEW idx \in Offsets, NEW locs \in Offsets, NEW s,
           Locates(idx, s), Locates(locs, s)
    PROVE  Located(idx, locs) \in Offsets /\ Locates(Located(idx, locs), s)
BY DEF Located, Offsets, Locates

LEMMA AppendIndexStep ==
    ASSUME IndexInv, AppendIndex PROVE IndexInv'
<1> USE DEF IndexInv
<1> DEFINE line == Line(Len(ledger), RidSet[Batch], recLocs, Len(ledger), Len(store))
<1>1. /\ pc = "index" /\ wpc = "none"
      /\ merkleIdx' = IF warm THEN Indexed(merkleIdx, RidSet[Batch], Len(ledger)) ELSE merkleIdx
      /\ recordIdx' = IF warm THEN Located(recordIdx, recLocs) ELSE recordIdx
      /\ pc' = "idle" /\ done' = done + 1 /\ recLocs' = Absent
      /\ UNCHANGED <<store, ledger, warm, wpc, built, todo, logged>>
  BY DEF AppendIndex, Return
<1>2. \/ /\ sidecar' = Append(sidecar, line) /\ torn' = torn /\ gap' = gap
         /\ gap /\ ~torn => "late" \in slips'
      \/ sidecar' = sidecar /\ torn' = TRUE /\ gap' = gap
      \/ /\ sidecar' = sidecar /\ torn' = torn /\ gap' = TRUE
         /\ Ahead => "marker" \in slips'
  BY DEF AppendIndex, Slip
<1>3. /\ line \in IndexLines /\ line.rids = RidSet[Batch] /\ line.recs = recLocs
      /\ line.msize = Len(ledger) /\ line.rsize = Len(store)
      /\ LineOK(line) /\ Locates(line.recs, store)
      /\ Len(ledger) \in Nat /\ Len(ledger) > 0 /\ RidSet[Batch] \in SUBSET Rids
  BY <1>1, LineOfBatch
<1> HIDE DEF line
<1>4. sidecar \in Seq(IndexLines) /\ LinesOK(sidecar, store) /\ Len(store) \in Nat
  BY LenProperties DEF StoreType, RecordsOK
<1>5. merkleIdx' \in Offsets /\ recordIdx' \in Offsets /\ Locates(recordIdx', store)
  <2>1. /\ merkleIdx \in Offsets /\ recordIdx \in Offsets /\ recLocs \in Offsets
        /\ Locates(recordIdx, store) /\ Locates(recLocs, store)
    BY DEF StoreType, RecordsOK
  <2> QED BY <1>1, <1>3, <2>1, IndexedType, LocatedType
<1>6. sidecar' \in Seq(IndexLines) /\ LinesOK(sidecar', store)
  <2>1. Append(sidecar, line) \in Seq(IndexLines)
    BY <1>3, <1>4, AppendProperties
  <2>2. Locates(line.recs, store)
    BY <1>3
  <2>3. LinesOK(Append(sidecar, line), store)
    BY <1>3, <1>4, <2>2, LineAdded
  <2> QED BY <1>2, <1>4, <2>1, <2>3
<1>7. StoreType'
  <2>1. done' \in Nat /\ done' <= Len(Batches)
    BY <1>1, ReceiptIndexAssumption DEF StoreType, Batch
  <2>2. torn' \in BOOLEAN /\ gap' \in BOOLEAN
    BY <1>2 DEF StoreType
  <2> QED BY <1>1, <1>5, <1>6, <2>1, <2>2, NothingFound DEF StoreType
<1>8. RecordsOK'
  BY <1>1, <1>5, <1>6, NothingFound DEF RecordsOK
<1>9. SizesOK'
  <2>1. CASE sidecar' = Append(sidecar, line)
    <3>1. sidecar'[Len(sidecar')] = line
      BY <1>3, <1>4, <2>1, AppendDomain
    <3> QED BY <1>1, <1>3, <1>4, <3>1 DEF SizesOK
  <2>2. CASE sidecar' = sidecar
    BY <1>1, <2>2 DEF SizesOK
  <2> QED BY <1>2, <2>1, <2>2
<1>10. EnteringIsBatch' /\ LinesFromLedger'
  BY <1>1 DEF EnteringIsBatch, LinesFromLedger
<1>11. ASSUME IndexIsWhole' PROVE Covered'
  <2>1. /\ Covered
        /\ \/ sidecar' = Append(sidecar, line) /\ torn' = torn /\ gap' = gap /\ (torn \/ ~gap)
           \/ sidecar' = sidecar /\ torn' = TRUE /\ gap' = gap
           \/ sidecar' = sidecar /\ torn' = torn /\ gap' = TRUE /\ ~Ahead
    <3>1. Covered /\ "late" \notin slips' /\ "marker" \notin slips'
      <4>1. slips \subseteq slips'
        BY DEF AppendIndex
      <4> QED BY <1>11, <4>1 DEF IndexIsWhole
    <3>2. torn \in BOOLEAN /\ gap \in BOOLEAN
      BY DEF StoreType
    <3> QED BY ONLY <1>2, <3>1, <3>2
  <2>2. DOMAIN ledger = 1 .. Len(ledger) /\ ledger[Len(ledger)] = Batch /\ done \in Nat
    BY <1>1, LenProperties DEF EnteringIsBatch, StoreType
  <2>3. Entered = {i \in DOMAIN ledger \ {Len(ledger)} : ledger[i] > 0}
    BY <1>1 DEF Entered, Entering
  <2>4. Entered' = {i \in DOMAIN ledger : ledger[i] > 0}
    BY <1>1 DEF Entered, Entering
  <2>5. ASSUME NEW i \in Entered'
        PROVE  \/ i \in Entered
               \/ RidSet[ledger[i]] = line.rids
    BY <1>3, <2>2, <2>3, <2>4
  <2>6. \A i \in Entered' : RidSet[ledger[i]] \in SUBSET Rids
    <3>1. \A i \in Entered' : ledger[i] \in DOMAIN Batches
      <4>1. \A i \in Entered' : i \in DOMAIN ledger /\ ledger[i] # 0
        BY <2>4
      <4>2. \A i \in DOMAIN ledger : ledger[i] \in DOMAIN Batches \cup {0}
        BY <2>2, ElementOfSeq DEF StoreType
      <4> QED BY <4>1, <4>2
    <3> QED BY <3>1, BatchRids
  <2>7. ASSUME ~torn', ~gap' PROVE \A i \in Entered' : \A r \in RidSet[ledger[i]] : HasLine(sidecar', r)
    <3>1. sidecar' = Append(sidecar, line) /\ ~torn /\ ~gap
      BY <2>1, <2>7
    <3>2. \A i \in Entered : \A r \in RidSet[ledger[i]] : HasLine(sidecar, r)
      BY <2>1, <3>1 DEF Covered
    <3>3. \A r : HasLine(sidecar, r) \/ r \in line.rids => HasLine(sidecar', r)
      BY <1>3, <1>4, <3>1, LineStays
    <3> QED BY <2>5, <3>2, <3>3
  <2>8. warm => \A i \in Entered' : \A r \in RidSet[ledger[i]] : merkleIdx'[r] # 0
    <3> SUFFICES ASSUME warm, NEW i \in Entered', NEW r \in RidSet[ledger[i]]
                 PROVE  merkleIdx'[r] # 0
      OBVIOUS
    <3>1. r \in Rids
      BY <2>6
    <3>2. r \in RidSet[Batch] \/ merkleIdx[r] # 0
      BY <1>3, <2>1, <2>5 DEF Covered
    <3>3. merkleIdx \in Offsets /\ merkleIdx' = Indexed(merkleIdx, RidSet[Batch], Len(ledger))
      BY <1>1 DEF StoreType
    <3> QED BY <1>3, <3>1, <3>2, <3>3, IndexedType
  <2>9. ASSUME ~torn', gap'
        PROVE  sidecar' # << >> => sidecar'[Len(sidecar')].msize < Len(ledger)
    <3>1. sidecar' = sidecar /\ ~torn /\ ~Ahead
      <4>1. CASE torn' = torn /\ gap' = gap /\ (torn \/ ~gap)
        BY ONLY <2>9, <4>1
      <4>2. CASE torn' = TRUE
        BY ONLY <2>9, <4>2
      <4>3. CASE sidecar' = sidecar /\ torn' = torn /\ ~Ahead
        BY ONLY <2>9, <4>3
      <4> QED BY ONLY <2>1, <4>1, <4>2, <4>3
    <3>2. sidecar # << >> =>
              sidecar[Len(sidecar)].msize \in Nat /\ sidecar[Len(sidecar)].msize <= Len(ledger)
      <4>1. sidecar # << >> => Len(sidecar) \in DOMAIN sidecar
        BY LenProperties, EmptySeq DEF StoreType
      <4> QED BY <4>1, LineType DEF StoreType, SizesOK
    <3> QED BY <1>3, <3>1, <3>2 DEF Ahead, Last
  <2>10. \A i \in DOMAIN ledger : ledger[i] # 0
    BY <2>1 DEF Covered
  <2>11. ledger # << >>
    BY <1>1 DEF EnteringIsBatch
  <2> QED BY <1>1, <2>7, <2>8, <2>9, <2>10, <2>11 DEF Covered
<1>12. ASSUME slips' = {} PROVE AllLedgered'
  <2>1. \A b \in 1 .. done : RidSeq[b] # << >> => Ledgered(b)
    <3>1. slips \subseteq slips'
      BY DEF AppendIndex
    <3> QED BY <1>12, <3>1 DEF AllLedgered
  <2>2. DOMAIN ledger = 1 .. Len(ledger) /\ done \in Nat
    BY LenProperties DEF StoreType
  <2>3. Ledgered(done + 1)
    BY <1>1, <1>3, <2>2 DEF Ledgered, EnteringIsBatch, Batch
  <2>4. \A b \in 1 .. done' : b \in 1 .. done \/ b = done + 1
    BY <1>1, <2>2
  <2> QED BY <1>1, <2>1, <2>3, <2>4 DEF AllLedgered, Ledgered
<1> QED BY <1>7, <1>8, <1>9, <1>10, <1>11, <1>12

LEMMA CrashStep ==
    ASSUME IndexInv, Crash PROVE IndexInv'
<1> USE DEF IndexInv
<1>1. /\ warm' = FALSE /\ wpc' = "none" /\ built' = NoBuild
      /\ merkleIdx' = Absent /\ recordIdx' = Absent
      /\ pc' = "idle" /\ todo' = << >> /\ recLocs' = Absent
      /\ done' = IF pc = "idle" THEN done ELSE done + 1
      /\ gap' = (gap \/ pc = "index")
      /\ slips \subseteq slips' /\ (pc = "records" => "unledgered" \in slips')
      /\ pc = "index" /\ Ahead => "marker" \in slips'
      /\ UNCHANGED <<store, ledger, sidecar, torn, logged>>
  BY DEF Crash, Slip, data
<1>2. StoreType'
  <2>1. << >> \in Seq(Rids)
    BY EmptySeq
  <2>2. gap' \in BOOLEAN /\ warm' \in BOOLEAN /\ wpc' \in {"none", "ledger", "marker"}
        /\ pc' \in {"idle", "records", "index"}
    BY <1>1
  <2>3. done' \in Nat /\ done' <= Len(Batches)
    <3>1. pc # "idle" => done + 1 \in 1 .. Len(Batches) /\ Len(Batches) \in Nat
      BY ReceiptIndexAssumption DEF StoreType, Batch
    <3> QED BY <1>1, <3>1 DEF StoreType
  <2> QED BY <1>1, <2>1, <2>2, <2>3, NothingFound DEF StoreType
<1>3. RecordsOK'
  BY <1>1, NothingFound DEF RecordsOK
<1>4. SizesOK' /\ EnteringIsBatch' /\ LinesFromLedger'
  BY <1>1, NothingFound DEF SizesOK, EnteringIsBatch, LinesFromLedger
<1>5. ASSUME IndexIsWhole' PROVE Covered'
  <2>1. Covered /\ ~(pc = "index" /\ Ahead)
    BY <1>1, <1>5 DEF IndexIsWhole
  <2>2. ~gap' => Entered' = Entered
    BY <1>1 DEF Entered, Entering
  <2>3. ASSUME gap', ~torn
        PROVE  ledger # << >> /\ (sidecar # << >> => sidecar[Len(sidecar)].msize < Len(ledger))
    <3>1. sidecar # << >> =>
              sidecar[Len(sidecar)].msize \in Nat /\ sidecar[Len(sidecar)].msize <= Len(ledger)
      <4>1. sidecar # << >> => Len(sidecar) \in DOMAIN sidecar
        BY LenProperties, EmptySeq DEF StoreType
      <4> QED BY <4>1, LineType DEF StoreType, SizesOK
    <3>2. Len(ledger) \in Nat
      BY LenProperties DEF StoreType
    <3>3. CASE gap
      BY <2>1, <2>3, <3>3 DEF Covered
    <3>4. CASE pc = "index"
      <4>1. ledger # << >>
        BY <3>4 DEF EnteringIsBatch
      <4> QED BY <2>1, <2>3, <3>1, <3>2, <3>4, <4>1 DEF Ahead, Last
    <3> QED BY <1>1, <2>3, <3>3, <3>4
  <2>4. \A i \in DOMAIN ledger : ledger[i] # 0
    BY <2>1 DEF Covered
  <2>5. ~torn /\ ~gap' => \A i \in Entered' : \A r \in RidSet[ledger[i]] : HasLine(sidecar, r)
    BY <1>1, <2>1, <2>2 DEF Covered
  <2> QED BY <1>1, <2>3, <2>4, <2>5 DEF Covered
<1>6. ASSUME slips' = {} PROVE AllLedgered'
  <2>1. AllLedgered /\ pc # "records"
    BY <1>1, <1>6
  <2>2. DOMAIN ledger = 1 .. Len(ledger) /\ Len(ledger) \in Nat /\ done \in Nat
        /\ (ledger # << >> => Len(ledger) > 0)
    BY LenProperties, EmptySeq DEF StoreType
  <2>3. CASE pc = "idle"
    BY <1>1, <2>1, <2>3 DEF AllLedgered, Ledgered
  <2>4. CASE pc = "index"
    <3>1. Ledgered(done + 1)
      BY <2>2, <2>4 DEF Ledgered, EnteringIsBatch, Batch
    <3>2. \A b \in 1 .. done' : b \in 1 .. done \/ b = done + 1
      BY <1>1, <2>2, <2>4
    <3> QED BY <1>1, <2>1, <3>1, <3>2 DEF AllLedgered, Ledgered
  <2> QED BY <2>1, <2>3, <2>4 DEF StoreType
<1> QED BY <1>2, <1>3, <1>4, <1>5, <1>6

\* An index that is complete, with records that are right or missing, is in use.
LEMMA WarmedInv ==
    ASSUME IndexInv, NEW m \in Offsets, NEW r \in Offsets, Locates(r, store),
           Warmed(m, r), UNCHANGED <<store, ledger, append, logged>>,
           sidecar' \in Seq(IndexLines), LinesOK(sidecar', store), SizesOK',
           gap' \in BOOLEAN, torn' \in BOOLEAN, slips \subseteq slips',
           IndexIsWhole' =>
              /\ Covered
              /\ \A i \in Entered : \A q \in RidSet[ledger[i]] : m[q] # 0
              /\ ~torn' /\ gap' =>
                    /\ ledger # << >>
                    /\ sidecar' # << >> => sidecar'[Len(sidecar')].msize < Len(ledger)
              /\ ~torn' /\ ~gap' =>
                    \A i \in Entered : \A q \in RidSet[ledger[i]] : HasLine(sidecar', q)
    PROVE  IndexInv'
<1> USE DEF IndexInv
<1>1. /\ warm' = TRUE /\ wpc' = "none" /\ built' = NoBuild
      /\ merkleIdx' = m /\ recordIdx' = r
      /\ UNCHANGED <<store, ledger, pc, todo, recLocs, done, logged>>
  BY DEF Warmed, append
<1>2. warm' \in BOOLEAN /\ wpc' \in {"none", "ledger", "marker"}
  BY <1>1
<1>3. StoreType'
  BY <1>1, <1>2, NothingFound DEF StoreType, Batch
<1>4. RecordsOK'
  BY <1>1, NothingFound DEF RecordsOK
<1>5. EnteringIsBatch' /\ LinesFromLedger'
  BY <1>1, NothingFound DEF EnteringIsBatch, LinesFromLedger, Batch
<1>6. Entered' = Entered
  BY <1>1 DEF Entered, Entering
<1>7. ASSUME IndexIsWhole' PROVE Covered'
  <2>1. \A i \in DOMAIN ledger : ledger[i] # 0
    BY <1>7 DEF Covered
  <2> QED BY <1>1, <1>6, <1>7, <2>1 DEF Covered
<1>8. slips' = {} => AllLedgered'
  BY <1>1 DEF AllLedgered, Ledgered
<1> QED BY <1>3, <1>4, <1>5, <1>7, <1>8

\* What is in the ledger is for requests of batches.
LEMMA EnteredRids ==
    ASSUME StoreType, NEW i \in Entered
    PROVE  i \in DOMAIN ledger /\ ledger[i] \in DOMAIN Batches /\ ledger[i] > 0
           /\ RidSet[ledger[i]] \in SUBSET Rids
<1>1. DOMAIN ledger = 1 .. Len(ledger) /\ i \in DOMAIN ledger /\ ledger[i] > 0
  BY LenProperties DEF StoreType, Entered
<1>2. ledger[i] \in DOMAIN Batches \cup {0}
  BY <1>1, ElementOfSeq DEF StoreType
<1>3. ledger[i] \in DOMAIN Batches
  BY <1>1, <1>2
<1> QED BY <1>1, <1>3, BatchRids

\* Without a slip, every line of the ledger is whole.
LEMMA LedgerIsWhole ==
    ASSUME IndexInv, Covered, NEW i \in DOMAIN ledger
    PROVE  Whole(ledger, i)
<1>1. /\ ledger \in Seq(DOMAIN Batches \cup {0}) /\ DOMAIN ledger = 1 .. Len(ledger)
      /\ Len(ledger) \in Nat
  BY LenProperties DEF IndexInv, StoreType
<1>2. \A j \in DOMAIN ledger : ledger[j] \in DOMAIN Batches \cup {0} /\ ledger[j] # 0
  BY <1>1, ElementOfSeq DEF Covered
<1>3. \A j \in DOMAIN ledger : ledger[j] > 0
  BY <1>2, ReceiptIndexAssumption
<1>4. i = 1 \/ i - 1 \in DOMAIN ledger
  BY <1>1
<1> QED BY <1>3, <1>4 DEF Whole

\* A trusted sidecar has a line for everything in the ledger.
LEMMA TrustedIsComplete ==
    ASSUME IndexInv, Covered, SidecarTrusted
    PROVE  /\ ~torn /\ ~gap
           /\ \A i \in Entered : \A q \in RidSet[ledger[i]] :
                 HasLine(sidecar, q) /\ Replayed.m[q] # 0
<1> USE DEF IndexInv
<1>1. ~torn /\ ~gap
  <2>1. ~torn /\ (sidecar = << >> => ledger = << >>)
    BY DEF SidecarTrusted
  <2>2. sidecar # << >> => sidecar[Len(sidecar)].msize = Len(ledger)
    BY DEF SidecarTrusted, Last
  <2>3. Len(ledger) \in Nat
    BY LenProperties DEF StoreType
  <2> QED BY <2>1, <2>2, <2>3 DEF Covered
<1>2. ASSUME NEW i \in Entered, NEW q \in RidSet[ledger[i]]
      PROVE  HasLine(sidecar, q) /\ Replayed.m[q] # 0
  <2>1. HasLine(sidecar, q)
    BY <1>1 DEF Covered
  <2>2. q \in Rids
    BY EnteredRids
  <2> QED BY <2>1, <2>2, ReplayFinds DEF StoreType, RecordsOK
<1> QED BY <1>1, <1>2

LEMMA WarmReplayStep ==
    ASSUME IndexInv, WarmReplay PROVE IndexInv'
<1>1. /\ SidecarTrusted /\ Warmed(Replayed.m, Replayed.r)
      /\ UNCHANGED <<data, append, logged, slips, gap, faults>>
  BY DEF WarmReplay
<1>2. StoreType /\ RecordsOK /\ SizesOK /\ (IndexIsWhole => Covered)
  BY DEF IndexInv
<1>3. Replayed.m \in Offsets /\ Replayed.r \in Offsets /\ Locates(Replayed.r, store)
  BY <1>2, ReplayType DEF StoreType, RecordsOK
<1>4. sidecar' \in Seq(IndexLines) /\ LinesOK(sidecar', store) /\ SizesOK' /\ gap' \in BOOLEAN
      /\ torn' \in BOOLEAN
  BY <1>1, <1>2 DEF StoreType, RecordsOK, SizesOK, data
<1>5. IndexIsWhole' =>
         /\ Covered /\ ~gap'
         /\ \A i \in Entered : \A q \in RidSet[ledger[i]] :
               Replayed.m[q] # 0 /\ HasLine(sidecar', q)
  BY <1>1, <1>2, TrustedIsComplete DEF data, IndexIsWhole
<1>6. UNCHANGED <<store, ledger, append, logged, slips>>
  BY <1>1 DEF data
<1> HIDE DEF Replayed
<1> QED BY <1>1, <1>3, <1>4, <1>5, <1>6, WarmedInv

LEMMA WarmStoreStep ==
    ASSUME IndexInv, WarmStore PROVE IndexInv'
<1> USE DEF IndexInv
<1>1. /\ ~warm /\ wpc' = "ledger" /\ built' = [NoBuild EXCEPT !.r = ScannedStore]
      /\ UNCHANGED <<data, warm, merkleIdx, recordIdx, append, logged, slips, gap, faults>>
  BY DEF WarmStore
<1>2. ScannedStore \in Offsets /\ Locates(ScannedStore, store)
  BY StoreScan DEF StoreType
<1>3. /\ built' \in [m : Offsets, r : Offsets, lines : Seq(IndexLines)]
      /\ built'.r = ScannedStore /\ built'.lines = << >>
  BY <1>1, <1>2, NothingFound
<1>4. wpc' \in {"none", "ledger", "marker"}
  BY <1>1
<1>5. StoreType'
  BY <1>1, <1>3, <1>4 DEF StoreType, Batch, data, append
<1>6. RecordsOK'
  BY <1>1, <1>2, <1>3, NothingFound DEF RecordsOK, data, append
<1>7. SizesOK' /\ EnteringIsBatch' /\ LinesFromLedger'
  BY <1>1, <1>3 DEF SizesOK, EnteringIsBatch, LinesFromLedger, Batch, data, append
<1>8. Covered => Covered'
  BY <1>1 DEF Covered, Entered, Entering, data, append
<1>9. AllLedgered => AllLedgered'
  BY <1>1 DEF AllLedgered, Ledgered, data, append
<1> QED BY <1>1, <1>5, <1>6, <1>7, <1>8, <1>9 DEF IndexIsWhole

LEMMA WarmLedgerStep ==
    ASSUME IndexInv, WarmLedger PROVE IndexInv'
<1> USE DEF IndexInv
<1>1. /\ wpc = "ledger" /\ wpc' = "marker"
      /\ built' = [built EXCEPT !.m = ScannedLedger, !.lines = RebuiltLines(built.r)]
      /\ UNCHANGED <<data, warm, merkleIdx, recordIdx, append, logged, slips, gap, faults>>
  BY DEF WarmLedger
<1>2. built.r \in Offsets /\ Locates(built.r, store) /\ ledger \in Seq(DOMAIN Batches \cup {0})
  BY DEF StoreType, RecordsOK
<1>3. /\ RebuiltLines(built.r) \in Seq(IndexLines)
      /\ LinesOK(RebuiltLines(built.r), store)
      /\ \A i \in DOMAIN ledger : \A r \in Rids :
            Whole(ledger, i) /\ r \in RidSet[ledger[i]] => HasLine(RebuiltLines(built.r), r)
  BY <1>2, RebuiltOK
<1>4. ScannedLedger \in Offsets
  BY <1>2, LedgerScanType
<1>5. /\ built' \in [m : Offsets, r : Offsets, lines : Seq(IndexLines)]
      /\ built'.r = built.r /\ built'.lines = RebuiltLines(built.r) /\ built'.m = ScannedLedger
  BY <1>1, <1>3, <1>4 DEF StoreType
<1>6. wpc' \in {"none", "ledger", "marker"}
  BY <1>1
<1>7. StoreType'
  BY <1>1, <1>5, <1>6 DEF StoreType, Batch, data, append
<1>8. RecordsOK'
  BY <1>1, <1>3, <1>5 DEF RecordsOK, data, append
<1>9. SizesOK' /\ EnteringIsBatch' /\ LinesFromLedger'
  <2>1. RebuiltLines(built.r) # << >> => ledger # << >>
    BY <1>2, RebuiltOK
  <2> QED BY <1>1, <1>5, <2>1 DEF SizesOK, EnteringIsBatch, LinesFromLedger, Batch, data, append
<1>10. ASSUME IndexIsWhole' PROVE Covered'
  <2>1. Covered
    BY <1>1, <1>10 DEF IndexIsWhole
  <2>2. Entered' = Entered /\ ledger' = ledger /\ sidecar' = sidecar /\ torn' = torn
    BY <1>1 DEF Entered, Entering, data, append
  <2>3. ASSUME NEW i \in Entered, NEW r \in RidSet[ledger[i]]
        PROVE  ScannedLedger[r] # 0 /\ HasLine(RebuiltLines(built.r), r)
    <3>1. i \in DOMAIN ledger /\ r \in Rids
      BY EnteredRids
    <3>2. Whole(ledger, i)
      BY <2>1, <3>1, LedgerIsWhole
    <3>3. ScannedLedger[r] > 0
      BY <1>2, <3>1, <3>2, LedgerScan
    <3> QED BY <1>3, <3>1, <3>2, <3>3
  <2>4. \A i \in Entered' : \A r \in RidSet[ledger'[i]] :
            built'.m[r] # 0 /\ HasLine(built'.lines, r)
    BY <1>5, <2>2, <2>3
  <2>5. gap' = gap /\ warm' = warm /\ merkleIdx' = merkleIdx
    BY <1>1 DEF append
  <2> QED BY <2>1, <2>2, <2>4, <2>5 DEF Covered
<1>11. slips' = {} => AllLedgered'
  BY <1>1 DEF AllLedgered, Ledgered, data, append
<1> QED BY <1>7, <1>8, <1>9, <1>10, <1>11

LEMMA WithinAdded ==
    ASSUME NEW ls \in Seq(IndexLines), NEW line \in IndexLines, NEW n \in Nat,
           Within(ls, n), line.off <= n
    PROVE  Within(Append(ls, line), n)
<1> SUFFICES ASSUME NEW k \in DOMAIN Append(ls, line) PROVE Append(ls, line)[k].off <= n
  BY DEF Within
<1>1. DOMAIN Append(ls, line) = 1 .. Len(ls) + 1 /\ DOMAIN ls = 1 .. Len(ls) /\ Len(ls) \in Nat
  BY AppendDomain
<1>2. CASE k \in DOMAIN ls
  <2>1. Append(ls, line)[k] = ls[k]
    BY <1>2, AppendDomain
  <2> QED BY <1>2, <2>1 DEF Within
<1>3. CASE k = Len(ls) + 1
  <2>1. Append(ls, line)[k] = line
    BY <1>3, AppendDomain
  <2> QED BY <2>1
<1> QED BY <1>1, <1>2, <1>3

\* The new sidecar, whatever of it was written.
LEMMA RewrittenOK ==
    ASSUME StoreType, RecordsOK, NEW lost \in SUBSET DOMAIN built.lines, NEW marker \in BOOLEAN
    PROVE  /\ Rewritten(lost, marker) \in Seq(IndexLines)
           /\ Rewritten(lost, marker) # << >>
           /\ LinesOK(Rewritten(lost, marker), store)
           /\ (Within(built.lines, Len(ledger)) => Within(Rewritten(lost, marker), Len(ledger)))
           /\ Rewritten(lost, marker)[Len(Rewritten(lost, marker))] =
                 IF marker THEN Marker ELSE Missing
           /\ lost = {} => \A q : HasLine(built.lines, q) => HasLine(Rewritten(lost, marker), q)
<1> DEFINE lines == [k \in DOMAIN built.lines |-> IF k \in lost THEN Missing ELSE built.lines[k]]
           last  == IF marker THEN Marker ELSE Missing
           n     == Len(built.lines)
<1>1. /\ built.lines \in Seq(IndexLines) /\ LinesOK(built.lines, store)
      /\ n \in Nat /\ DOMAIN built.lines = 1 .. n
      /\ Len(ledger) \in Nat /\ Len(store) \in Nat
  BY LenProperties DEF StoreType, RecordsOK
<1>2. /\ Marker \in IndexLines /\ Marker.rids = {} /\ Marker.recs = Absent /\ Marker.off = -1
      /\ Missing \in IndexLines /\ Missing.rids = {} /\ Missing.recs = Absent /\ Missing.off = 0
  BY <1>1, NothingFound DEF Marker, Missing, Line, IndexLines
<1>3. /\ last \in IndexLines /\ last.rids = {} /\ last.recs = Absent /\ last.off <= Len(ledger)
  BY <1>1, <1>2
<1>4. ASSUME NEW k \in 1 .. n
      PROVE  /\ lines[k] \in IndexLines
             /\ Locates(lines[k].recs, store) /\ LineOK(lines[k])
             /\ lines[k] = Missing \/ lines[k] = built.lines[k]
             /\ lost = {} => lines[k] = built.lines[k]
  <2>1. lines[k] = IF k \in lost THEN Missing ELSE built.lines[k]
    BY <1>1
  <2>2. built.lines[k] \in IndexLines
    BY <1>1, ElementOfSeq
  <2>3. Locates(built.lines[k].recs, store) /\ LineOK(built.lines[k])
    BY <1>1 DEF LinesOK
  <2>4. Locates(Missing.recs, store) /\ LineOK(Missing)
    BY <1>2, NothingFound DEF LineOK
  <2> HIDE DEF lines
  <2> QED BY <1>2, <2>1, <2>2, <2>3, <2>4
<1>5. DOMAIN lines = 1 .. n /\ lines = [k \in 1 .. n |-> lines[k]]
  BY <1>1
<1>6. Rewritten(lost, marker) = Append(lines, last)
  BY DEF Rewritten
<1> HIDE DEF lines, last, n
<1>7. lines \in Seq(IndexLines) /\ Len(lines) = n
  <2>1. lines \in Seq(IndexLines)
    BY <1>1, <1>4, <1>5
  <2>2. Len(lines) = n
    BY <1>1, <1>5, SeqLen
  <2> QED BY <2>1, <2>2
<1>8. LinesOK(lines, store)
  BY <1>4, <1>5 DEF LinesOK
<1>9. Append(lines, last) \in Seq(IndexLines) /\ Append(lines, last) # << >>
  BY <1>3, <1>7, AppendProperties
<1>10. LinesOK(Append(lines, last), store)
  <2>1. Locates(last.recs, store) /\ LineOK(last)
    BY <1>3, NothingFound DEF LineOK
  <2> QED BY <1>3, <1>7, <1>8, <2>1, LineAdded
<1>11. Append(lines, last)[Len(Append(lines, last))] = last
  BY <1>3, <1>7, AppendDomain
<1>12. ASSUME Within(built.lines, Len(ledger)) PROVE Within(Append(lines, last), Len(ledger))
  <2>1. ASSUME NEW k \in 1 .. n PROVE lines[k].off <= Len(ledger)
    <3>1. built.lines[k].off <= Len(ledger)
      BY <1>1, <1>12 DEF Within
    <3>2. Missing.off <= Len(ledger)
      BY <1>1, <1>2
    <3> QED BY <1>4, <3>1, <3>2
  <2>2. Within(lines, Len(ledger))
    BY <1>5, <2>1 DEF Within
  <2> QED BY <1>1, <1>3, <1>7, <2>2, WithinAdded
<1>13. ASSUME lost = {}, NEW q, HasLine(built.lines, q) PROVE HasLine(Append(lines, last), q)
  <2>1. HasLine(lines, q)
    BY <1>1, <1>4, <1>5, <1>13 DEF HasLine
  <2> QED BY <1>3, <1>7, <2>1, LineStays
<1> QED BY <1>6, <1>9, <1>10, <1>11, <1>12, <1>13 DEF last

LEMMA WarmMarkerStep ==
    ASSUME IndexInv, WarmMarker PROVE IndexInv'
<1>1. /\ wpc = "marker" /\ Warmed(built.m, built.r)
      /\ UNCHANGED <<store, ledger, append, logged>>
  BY DEF WarmMarker
<1>2. /\ StoreType /\ RecordsOK /\ SizesOK /\ LinesFromLedger
      /\ IndexIsWhole => Covered
  BY DEF IndexInv
<1>3. built.m \in Offsets /\ built.r \in Offsets /\ Locates(built.r, store)
  BY <1>2 DEF StoreType, RecordsOK
<1>4. ASSUME IndexIsWhole', slips \subseteq slips'
      PROVE  /\ Covered
             /\ \A i \in Entered : \A q \in RidSet[ledger[i]] : built.m[q] # 0
             /\ \A i \in Entered : \A q \in RidSet[ledger[i]] : HasLine(built.lines, q)
  <2>1. Covered
    BY <1>2, <1>4 DEF IndexIsWhole
  <2> QED BY <1>1, <2>1 DEF Covered
<1>5. CASE UNCHANGED <<sidecar, torn, gap, slips>>
  <2>1. /\ sidecar' \in Seq(IndexLines) /\ LinesOK(sidecar', store) /\ SizesOK'
        /\ gap' \in BOOLEAN /\ torn' \in BOOLEAN
    BY <1>1, <1>2, <1>5 DEF StoreType, RecordsOK, SizesOK
  <2>2. ASSUME IndexIsWhole'
        PROVE  /\ ~torn' /\ gap' =>
                    /\ ledger # << >>
                    /\ sidecar' # << >> => sidecar'[Len(sidecar')].msize < Len(ledger)
               /\ ~torn' /\ ~gap' =>
                    \A i \in Entered : \A q \in RidSet[ledger[i]] : HasLine(sidecar', q)
    BY <1>4, <1>5, <2>2 DEF Covered
  <2> QED BY <1>1, <1>3, <1>4, <1>5, <2>1, <2>2, WarmedInv
<1>6. ASSUME NEW lost \in SUBSET DOMAIN built.lines, NEW marker \in BOOLEAN,
             sidecar' = Rewritten(lost, marker), torn' \in BOOLEAN, gap' = (lost # {}),
             slips \subseteq slips', lost # {} /\ marker /\ ~torn' => ~IndexIsWhole'
      PROVE  IndexInv'
  <2>1. Len(ledger) \in Nat /\ Len(store) \in Nat /\ (ledger # << >> => Len(ledger) > 0)
    BY <1>2, LenProperties, EmptySeq DEF StoreType
  <2>2. /\ sidecar' \in Seq(IndexLines) /\ LinesOK(sidecar', store)
        /\ sidecar'[Len(sidecar')] = IF marker THEN Marker ELSE Missing
        /\ gap' \in BOOLEAN
    BY <1>2, <1>6, RewrittenOK
  <2>3. /\ Marker.msize = Len(ledger) /\ Marker.rsize = Len(store)
        /\ Missing.msize = 0 /\ Missing.rsize = 0
    BY DEF Marker, Missing, Line
  <2>4. SizesOK'
    BY <1>1, <2>1, <2>2, <2>3 DEF SizesOK
  <2>5. ASSUME IndexIsWhole', ~torn', gap'
        PROVE  ledger # << >> /\ sidecar'[Len(sidecar')].msize < Len(ledger)
    <3>1. ~marker /\ lost # {}
      BY <1>6, <2>5
    <3>2. built.lines # << >>
      BY <3>1, EmptySeq
    <3> QED BY <1>2, <2>1, <2>2, <2>3, <3>1, <3>2 DEF LinesFromLedger
  <2>6. ASSUME IndexIsWhole', ~torn', ~gap'
        PROVE  \A i \in Entered : \A q \in RidSet[ledger[i]] : HasLine(sidecar', q)
    <3>1. \A q : HasLine(built.lines, q) => HasLine(sidecar', q)
      BY <1>2, <1>6, <2>6, RewrittenOK
    <3> QED BY <1>4, <1>6, <2>6, <3>1
  <2> QED BY <1>1, <1>3, <1>4, <1>6, <2>2, <2>4, <2>5, <2>6, WarmedInv
<1>7. CASE \E lost \in SUBSET DOMAIN built.lines, marker \in BOOLEAN :
              /\ sidecar' = Rewritten(lost, marker) /\ torn' \in BOOLEAN /\ gap' = (lost # {})
              /\ slips' = slips \cup Slip("rebuilt", lost # {} /\ marker /\ ~torn')
  BY <1>6, <1>7 DEF Slip, IndexIsWhole
<1>8. CASE sidecar' = Rewritten({}, TRUE) /\ torn' = FALSE /\ gap' = FALSE /\ slips' = slips
  BY <1>6, <1>8
<1> QED BY <1>5, <1>7, <1>8 DEF WarmMarker

LEMMA IndexInvStep == IndexInv /\ [Next]_vars => IndexInv'
<1> SUFFICES ASSUME IndexInv, [Next]_vars PROVE IndexInv'
  OBVIOUS
<1>1. CASE UNCHANGED vars
  BY <1>1 DEF vars, data, index, append, IndexInv, StoreType, RecordsOK, SizesOK,
       EnteringIsBatch, LinesFromLedger, Covered, AllLedgered, Ledgered, IndexIsWhole,
       Entered, Entering, Batch
<1>2. CASE Next
  BY <1>2, AppendBeginStep, SkipProcessedStep, AppendRecordStep, AppendLedgerStep, AppendLedgerFailsStep,
     AppendIndexStep, WarmReplayStep, WarmStoreStep, WarmLedgerStep,
     WarmMarkerStep, RotateLogStep, CrashStep DEF Next
<1> QED BY <1>1, <1>2

\* The settler and the warm-up keep the index, the sidecar and the two files
\* together (settler.go:1264-1319, merkle_store.go:95-292).
THEOREM IndexInvHolds == Spec => []IndexInv
BY InitIndexInv, IndexInvStep, PTL DEF Spec

-----------------------------------------------------------------------------
(* What the index answers *)

\* The index a query would use is right about the records, and complete.
LEMMA IndexNowOK ==
    ASSUME IndexInv, NEW r \in Rids
    PROVE  /\ IndexNow.m[r] \in Nat
           /\ IndexNow.r[r] > 0 => IndexNow.r[r] \in DOMAIN store /\ store[IndexNow.r[r]] = r
<1> USE DEF IndexInv
<1>1. /\ merkleIdx[r] \in Nat /\ built.m[r] \in Nat
      /\ recordIdx[r] > 0 => recordIdx[r] \in DOMAIN store /\ store[recordIdx[r]] = r
      /\ built.r[r] > 0 => built.r[r] \in DOMAIN store /\ store[built.r[r]] = r
  BY DEF StoreType, RecordsOK, Offsets, Locates
<1>2. ScannedLedger[r] \in Nat
  BY LedgerScan DEF StoreType
<1>3. ScannedStore[r] > 0 => ScannedStore[r] \in DOMAIN store /\ store[ScannedStore[r]] = r
  BY StoreScan DEF StoreType, Locates
<1>4. /\ Replayed.m[r] \in Nat
      /\ Replayed.r[r] > 0 => Replayed.r[r] \in DOMAIN store /\ store[Replayed.r[r]] = r
  BY ReplayFinds DEF StoreType, RecordsOK
<1> HIDE DEF IndexInv, Replayed, ScannedLedger, ScannedStore, SidecarTrusted
<1>5. IndexNow.m[r] \in Nat
  BY ONLY <1>1, <1>2, <1>4 DEF IndexNow
<1>6. IndexNow.r[r] > 0 => IndexNow.r[r] \in DOMAIN store /\ store[IndexNow.r[r]] = r
  BY ONLY <1>1, <1>3, <1>4 DEF IndexNow
<1> QED BY <1>5, <1>6

\* Where a batch is said to be, there is a batch with that request.
LEMMA FoundIsThere ==
    ASSUME IndexInv, NEW r \in Rids, findMerkleBatch(r) > 0
    PROVE  /\ findMerkleBatch(r) \in DOMAIN ledger
           /\ ledger[findMerkleBatch(r)] \in DOMAIN Batches
           /\ r \in RidSet[ledger[findMerkleBatch(r)]]
<1> DEFINE off == findMerkleBatch(r)
<1>1. ledger \in Seq(DOMAIN Batches \cup {0}) /\ DOMAIN ledger = 1 .. Len(ledger)
  BY LenProperties DEF IndexInv, StoreType
<1>2. off \in DOMAIN ledger /\ ledger[off] > 0 /\ r \in RidSet[ledger[off]]
  BY <1>1, LedgerScan DEF findMerkleBatch, readMerkleBatchAt
<1> HIDE DEF off
<1>3. ledger[off] \in DOMAIN Batches \cup {0}
  BY <1>1, <1>2, ElementOfSeq
<1>4. ledger[off] \in DOMAIN Batches
  BY <1>2, <1>3
<1> QED BY <1>2, <1>4 DEF off

\* What has entered is found.
LEMMA EnteredIsFound ==
    ASSUME IndexInv, Covered, NEW i \in Entered, NEW r \in RidSet[ledger[i]]
    PROVE  findMerkleBatch(r) \in Nat /\ findMerkleBatch(r) > 0
<1>1. i \in DOMAIN ledger /\ r \in Rids
  BY EnteredRids DEF IndexInv
<1>2. ScannedLedger[r] \in Nat /\ ScannedLedger[r] > 0
  BY <1>1, LedgerIsWhole, LedgerScan DEF IndexInv, StoreType
<1>3. IndexNow.m[r] \in Nat
  BY <1>1, IndexNowOK
<1>4. IndexNow.m[r] # 0
  <2>1. warm => merkleIdx[r] # 0
    BY DEF Covered
  <2>2. wpc = "marker" => built.m[r] # 0
    BY DEF Covered
  <2>3. SidecarTrusted => Replayed.m[r] # 0
    BY TrustedIsComplete
  <2> HIDE DEF Replayed, ScannedLedger, SidecarTrusted
  <2> QED BY ONLY <1>2, <2>1, <2>2, <2>3 DEF IndexNow
<1> QED BY <1>2, <1>3, <1>4 DEF findMerkleBatch

LEMMA LedgeredHasEntered ==
    ASSUME IndexInv, NEW b \in 1 .. done, Ledgered(b)
    PROVE  \E i \in Entered : ledger[i] = b
<1>1. b > 0 /\ b # Batch
  BY DEF IndexInv, StoreType, Batch
<1>2. PICK i \in DOMAIN ledger : ledger[i] = b
  BY DEF Ledgered
<1>3. i \notin Entering
  BY <1>1, <1>2 DEF Entering, IndexInv, EnteringIsBatch
<1> QED BY <1>1, <1>2, <1>3 DEF Entered

LEMMA AppendedIsLedgered ==
    ASSUME StoreType, AllLedgered, NEW b \in 1 .. done, NEW r \in RidSet[b]
    PROVE  Ledgered(b)
<1>1. b \in DOMAIN Batches
  BY ReceiptIndexAssumption DEF StoreType
<1>2. RidSet[b] = {RidSeq[b][k] : k \in 1 .. Len(RidSeq[b])}
  BY <1>1, BatchRids
<1>3. RidSeq[b] = << >> => 1 .. Len(RidSeq[b]) = {}
  BY EmptySeq
<1> QED BY <1>2, <1>3 DEF AllLedgered

\* A request whose batch is in the ledger is found, whatever was rebuilt, replayed
\* or lost since: findMerkleBatch over the index that is warm, or that the query
\* would wait for (settler.go:1326-1355, merkle_store.go:140-264).  The ledger has
\* every confirmed batch, unless one was found processed or cut short on its way.
THEOREM AppendedIsFound == Spec => []SettledIsFound
<1>1. ASSUME IndexInv PROVE SettledIsFound
  <2> SUFFICES ASSUME IndexIsWhole, NEW b \in 1 .. done, slips = {} \/ Ledgered(b),
                      NEW r \in RidSet[b]
               PROVE  Answer(r) = "settled"
    BY DEF SettledIsFound, Found
  <2>1. Covered
    BY <1>1 DEF IndexInv
  <2>2. Ledgered(b)
    BY <1>1, AppendedIsLedgered DEF IndexInv
  <2>3. PICK i \in Entered : ledger[i] = b
    BY <1>1, <2>2, LedgeredHasEntered
  <2>4. findMerkleBatch(r) > 0
    BY <1>1, <2>1, <2>3, EnteredIsFound
  <2> QED BY <2>4 DEF Answer
<1> QED BY <1>1, IndexInvHolds, PTL

\* The leaves of a batch, one per request.
LEMMA LeavesOfBatch ==
    ASSUME NEW b \in DOMAIN Batches, NEW r \in RidSet[b]
    PROVE  /\ Len(Leaves[b]) \in Nat \ {0} /\ DOMAIN Leaves[b] = 1 .. Len(Leaves[b])
           /\ \E i \in DOMAIN Leaves[b] : RidSeq[b][i] = r
           /\ \A i \in DOMAIN Leaves[b] : Leaves[b][i].leaf[1] = RidSeq[b][i]
<1> DEFINE s == RidSeq[b]
           l == Leaves[b]
<1>1. s \in Seq(Rids) /\ RidSet[b] = {s[i] : i \in 1 .. Len(s)}
  BY BatchRids
<1>2. Len(s) \in Nat /\ DOMAIN s = 1 .. Len(s)
  BY <1>1, LenProperties
<1>3. /\ DOMAIN l = DOMAIN s /\ l = [i \in DOMAIN s |-> l[i]]
      /\ \A i \in DOMAIN s : l[i].leaf[1] = s[i]
  BY DEF Leaves, RidSeq, batchLeaves, ReceiptLeaf, DebtLeaf
<1> HIDE DEF s, l
<1>4. Len(l) = Len(s)
  BY <1>2, <1>3, SeqLen
<1>5. Len(s) # 0
  BY <1>1
<1> QED BY <1>1, <1>2, <1>3, <1>4, <1>5 DEF s, l

\* BuildReceiptProof and handleReceiptProof (merkle.go:171-253, settlement_api.go:198-258): the
\* path of every answer leads from the leaf of that request, and from no other
\* leaf of its batch, to the root in the hash the contract has, and the record
\* beside it is that request's - also when slips have left the index incomplete.
THEOREM ProofsAlwaysVerify == Spec => []ProofsVerify
<1>1. ASSUME IndexInv PROVE ProofsVerify
  <2> SUFFICES ASSUME NEW r \in Rids, Answer(r) = "settled"
               PROVE  LET p == BuildReceiptProof(r)
                      IN  /\ p.leaf.leaf[1] = r
                          /\ VerifyMerkleProof(p.leaf, p.index, p.proof, p.root)
                          /\ CombinedDetailsHash(Legacy(p.batch), p.root) = DetailsHash(p.batch)
                          /\ \A other \in ToSet(Leaves[p.batch]) \ {p.leaf} :
                                ~VerifyMerkleProof(other, p.index, p.proof, p.root)
                          /\ p.record \in {0, r}
    BY DEF ProofsVerify
  <2> DEFINE p   == BuildReceiptProof(r)
             b   == ledger[findMerkleBatch(r)]
             l   == Leaves[b]
             idx == CHOOSE i \in DOMAIN l : RidSeq[b][i] = r
  <2>1. findMerkleBatch(r) > 0
    BY DEF Answer
  <2>2. b \in DOMAIN Batches /\ r \in RidSet[b]
    BY <1>1, <2>1, FoundIsThere
  <2>3. /\ p.batch = b /\ p.leaf = l[idx] /\ p.index = idx - 1
        /\ p.proof = Proofs[b][idx] /\ p.root = Roots[b]
        /\ p.record = IF IndexNow.r[r] \in DOMAIN store THEN store[IndexNow.r[r]] ELSE 0
    BY DEF BuildReceiptProof
  <2>4. Roots[b] = MerkleRoot(l)
    BY <2>2 DEF Roots
  <2>5. \A i \in DOMAIN l : Proofs[b][i] = MerkleProofFor(l, i - 1)
    BY <2>2 DEF Proofs
  <2> HIDE DEF p, b
  <2>6. /\ Len(l) \in Nat \ {0} /\ DOMAIN l = 1 .. Len(l)
        /\ \E i \in DOMAIN l : RidSeq[b][i] = r
        /\ \A i \in DOMAIN l : l[i].leaf[1] = RidSeq[b][i]
    BY <2>2, LeavesOfBatch
  <2> HIDE DEF l
  <2>7. idx \in DOMAIN l /\ RidSeq[b][idx] = r
    BY <2>6
  <2> HIDE DEF idx
  <2>8. p.leaf.leaf[1] = r
    BY <2>3, <2>6, <2>7
  <2>9. p.index \in 0 .. Len(l) - 1 /\ p.index + 1 = idx
    BY <2>3, <2>6, <2>7
  <2>10. p.proof = MerkleProofFor(l, p.index)
    BY <2>3, <2>5, <2>7
  <2>11. VerifyMerkleProof(p.leaf, p.index, p.proof, p.root)
    <3>1. VerifyMerkleProof(l[p.index + 1], p.index, MerkleProofFor(l, p.index), MerkleRoot(l))
      BY <2>6, <2>9, PathLeadsToRoot
    <3> QED BY <2>3, <2>4, <2>9, <2>10, <3>1
  <2>12. Len(p.proof) \in Nat
    <3>1. Len(MerkleProofFor(l, p.index)) = Rounds(l) /\ Rounds(l) \in Nat
      BY <2>6, ProofSiblings, RoundsReachTop
    <3> QED BY <2>10, <3>1
  <2>13. \A other : VerifyMerkleProof(other, p.index, p.proof, p.root) => other = p.leaf
    BY <2>11, <2>12, PathHasOneLeaf
  <2>14. CombinedDetailsHash(Legacy(p.batch), p.root) = DetailsHash(p.batch)
    BY <2>3 DEF DetailsHash
  <2>15. p.record \in {0, r}
    <3>1. IndexNow.r[r] > 0 => IndexNow.r[r] \in DOMAIN store /\ store[IndexNow.r[r]] = r
      BY <1>1, IndexNowOK
    <3>2. IndexNow.r[r] \in DOMAIN store => IndexNow.r[r] > 0
      BY <1>1, LenProperties DEF IndexInv, StoreType
    <3> QED BY <2>3, <3>1, <3>2
  <2> QED BY <2>8, <2>11, <2>13, <2>14, <2>15 DEF p
<1> QED BY <1>1, IndexInvHolds, PTL

\* Reading the files into the indexes changes no answer.
LEMMA WarmingKeepsAnswers ==
    ASSUME IndexInv, NEW r \in Rids,
           WarmReplay \/ WarmStore \/ WarmLedger \/ WarmMarker \/ UNCHANGED <<data, index>>
    PROVE  findMerkleBatch(r)' = findMerkleBatch(r)
<1>1. ledger' = ledger
  BY DEF WarmReplay, WarmStore, WarmLedger, WarmMarker, data
<1>2. ScannedLedger' = ScannedLedger
  BY <1>1 DEF ScannedLedger, Whole
<1>3. ~(warm /\ wpc # "none") /\ built \in [m : Offsets, r : Offsets, lines : Seq(IndexLines)]
  BY DEF IndexInv, StoreType
<1>4. IndexNow'.m = IndexNow.m
  <2>1. CASE WarmReplay
    <3>1. ~warm /\ wpc = "none" /\ SidecarTrusted /\ warm' /\ merkleIdx' = Replayed.m
      BY <2>1 DEF WarmReplay, Warmed
    <3> HIDE DEF Replayed, SidecarTrusted
    <3> QED BY ONLY <3>1 DEF IndexNow
  <2>2. CASE WarmStore
    <3>1. ~warm /\ wpc = "none" /\ ~SidecarTrusted /\ ~warm' /\ wpc' = "ledger"
      BY <2>2 DEF WarmStore
    <3> HIDE DEF ScannedLedger, SidecarTrusted
    <3> QED BY ONLY <1>2, <3>1 DEF IndexNow
  <2>3. CASE WarmLedger
    <3>1. ~warm /\ wpc = "ledger" /\ ~warm' /\ wpc' = "marker" /\ built'.m = ScannedLedger
      BY <1>3, <2>3 DEF WarmLedger
    <3> HIDE DEF ScannedLedger
    <3> QED BY ONLY <3>1 DEF IndexNow
  <2>4. CASE WarmMarker
    <3>1. ~warm /\ wpc = "marker" /\ warm' /\ merkleIdx' = built.m
      BY <1>3, <2>4 DEF WarmMarker, Warmed
    <3> QED BY ONLY <3>1 DEF IndexNow
  <2>5. CASE UNCHANGED <<data, index>>
    BY <2>5 DEF data, index, IndexNow, Replayed, ScannedLedger, ScannedStore, SidecarTrusted, Whole
  <2> QED BY <2>1, <2>2, <2>3, <2>4, <2>5
<1> HIDE DEF IndexNow, ScannedLedger
<1> QED BY ONLY <1>1, <1>2, <1>4 DEF findMerkleBatch, readMerkleBatchAt

\* Any other step leaves what is in the ledger there, and entered.
LEMMA LedgerStays ==
    ASSUME IndexInv, NEW off \in DOMAIN ledger, ledger[off] > 0,
           \/ AppendBegin \/ SkipProcessed \/ AppendRecord
           \/ AppendLedger \/ AppendLedgerFails \/ AppendIndex \/ Crash
    PROVE  off \in Entered' /\ ledger'[off] = ledger[off]
<1>1. /\ ledger \in Seq(DOMAIN Batches \cup {0}) /\ DOMAIN ledger = 1 .. Len(ledger)
      /\ Len(ledger) \in Nat
  BY LenProperties DEF IndexInv, StoreType
<1>2. CASE ledger' = ledger /\ pc' # "index"
  BY <1>2 DEF Entered, Entering
<1>3. CASE AppendLedger
  <2>1. ledger' = Append(ledger, Batch) /\ Batch \in DOMAIN Batches \cup {0} /\ pc' = "index"
    BY <1>3 DEF AppendLedger, IndexInv, StoreType
  <2>2. off \in DOMAIN ledger' /\ ledger'[off] = ledger[off] /\ off # Len(ledger')
    BY <1>1, <2>1, AppendDomain
  <2> QED BY <2>1, <2>2 DEF Entered, Entering
<1>4. CASE AppendLedgerFails
  <2>1. (ledger' = ledger \/ ledger' = Append(ledger, 0)) /\ pc' = "idle"
    BY <1>4 DEF AppendLedgerFails, Return
  <2>2. off \in DOMAIN ledger' /\ ledger'[off] = ledger[off]
    BY <1>1, <2>1, AppendDomain
  <2> QED BY <2>1, <2>2 DEF Entered, Entering
<1>5. AppendBegin \/ SkipProcessed \/ AppendRecord \/ AppendIndex \/ Crash =>
          ledger' = ledger /\ pc' # "index"
  BY DEF AppendBegin, SkipProcessed, AppendRecord, AppendIndex, Return, Crash, data
<1> QED BY <1>2, <1>3, <1>4, <1>5

EnteredFound ==
    IndexIsWhole => \A i \in Entered : \A r \in RidSet[ledger[i]] : findMerkleBatch(r) > 0

\* A settled receipt stays settled and a pending one known, over every step of
\* the settler, the warm-up and the log, and over restarts, as long as the index is
\* whole (settlement_api.go:198-258, receipt_status.go, merkle_store.go:140-264).
THEOREM AnswersNeverWorse == Spec => AnswersOnlyImprove
<1>1. ASSUME IndexInv PROVE EnteredFound
  BY <1>1, EnteredIsFound DEF EnteredFound, IndexInv
<1>2. ASSUME IndexInv, EnteredFound', [Next]_vars
      PROVE  [IndexIsWhole' => \A r \in Rids : Rank(Answer(r)') >= Rank(Answer(r))]_vars
  <2> SUFFICES ASSUME IndexIsWhole', NEW r \in Rids
               PROVE  Rank(Answer(r)') >= Rank(Answer(r))
    OBVIOUS
  <2>1. findMerkleBatch(r) > 0 => findMerkleBatch(r)' > 0
    <3> SUFFICES ASSUME findMerkleBatch(r) > 0 PROVE findMerkleBatch(r)' > 0
      OBVIOUS
    <3> DEFINE off == findMerkleBatch(r)
    <3>1. off \in DOMAIN ledger /\ ledger[off] \in DOMAIN Batches /\ r \in RidSet[ledger[off]]
      BY <1>2, FoundIsThere
    <3>2. ledger[off] > 0
      BY <3>1, ReceiptIndexAssumption
    <3>3. CASE WarmReplay \/ WarmStore \/ WarmLedger \/ WarmMarker \/ UNCHANGED <<data, index>>
      BY <1>2, <3>3, WarmingKeepsAnswers
    <3> HIDE DEF off
    <3>4. CASE \/ AppendBegin \/ SkipProcessed \/ AppendRecord
               \/ AppendLedger \/ AppendLedgerFails \/ AppendIndex \/ Crash
      <4>1. off \in Entered' /\ ledger'[off] = ledger[off]
        BY <1>2, <3>1, <3>2, <3>4, LedgerStays
      <4> QED BY <1>2, <3>1, <4>1 DEF EnteredFound
    <3>5. RotateLog \/ UNCHANGED vars => UNCHANGED <<data, index>>
      BY DEF RotateLog, vars
    <3> QED BY <1>2, <3>3, <3>4, <3>5 DEF Next
  <2>2. r \in logged => r \in logged' \/ findMerkleBatch(r) > 0
    <3>1. CASE RotateLog
      <4>1. findMerkleBatch(r) # 0
        BY <3>1 DEF RotateLog, Slip, IndexIsWhole
      <4>2. ScannedLedger[r] \in Nat /\ DOMAIN ledger = 1 .. Len(ledger)
        BY <1>2, LedgerScan, LenProperties DEF IndexInv, StoreType
      <4> HIDE DEF ScannedLedger, IndexNow
      <4> QED BY <4>1, <4>2 DEF findMerkleBatch, readMerkleBatchAt
    <3>2. ~RotateLog => logged' = logged
      BY <1>2 DEF Next, vars, AppendBegin, SkipProcessed, AppendRecord, AppendLedger,
         AppendLedgerFails, AppendIndex, WarmReplay, WarmStore, WarmLedger, WarmMarker, Crash
    <3> QED BY <3>1, <3>2
  <2>3. Rank("unknown") = 0 /\ Rank("pending") = 1 /\ Rank("settled") = 2
    BY DEF Rank
  <2>4. Answer(r) = IF findMerkleBatch(r) > 0 THEN "settled"
                    ELSE IF r \in logged THEN "pending" ELSE "unknown"
    BY DEF Answer
  <2>5. Answer(r)' = IF findMerkleBatch(r)' > 0 THEN "settled"
                     ELSE IF r \in logged' THEN "pending" ELSE "unknown"
    BY DEF Answer
  <2> QED BY <2>1, <2>2, <2>3, <2>4, <2>5
<1> QED BY <1>1, <1>2, IndexInvHolds, PTL DEF Spec, AnswersOnlyImprove

-----------------------------------------------------------------------------
(* Types, and offsets within the files *)

SlipNames == {"unledgered", "ledger", "late", "marker", "rebuilt", "rotated"}

InLedger ==
    /\ \A r \in Rids : merkleIdx[r] <= Len(ledger) /\ built.m[r] <= Len(ledger)
    /\ Within(sidecar, Len(ledger)) /\ Within(built.lines, Len(ledger))

Bounded == slips \subseteq SlipNames /\ faults \in 0 .. MaxFaults /\ InLedger

LEMMA WithinMore ==
    ASSUME NEW ls \in Seq(IndexLines), NEW n \in Nat, NEW m \in Nat, n <= m, Within(ls, n)
    PROVE  Within(ls, m)
<1> SUFFICES ASSUME NEW k \in DOMAIN ls PROVE ls[k].off <= m
  BY DEF Within
<1>1. k \in 1 .. Len(ls)
  BY LenProperties
<1>2. ls[k] \in IndexLines
  BY <1>1, ElementOfSeq
<1>3. ls[k].off \in Int /\ ls[k].off <= n
  BY <1>2 DEF IndexLines, Within
<1> QED BY <1>3

LEMMA ReplayWithin ==
    ASSUME StoreType, Within(sidecar, Len(ledger)), NEW r \in Rids
    PROVE  Replayed.m[r] <= Len(ledger)
<1> DEFINE T == {i \in DOMAIN sidecar : r \in sidecar[i].rids}
<1>1. Len(sidecar) \in Nat /\ DOMAIN sidecar = 1 .. Len(sidecar) /\ Len(ledger) \in Nat
  BY LenProperties DEF StoreType
<1>2. Replayed.m[r] = IF Latest(T) = 0 THEN 0 ELSE sidecar[Latest(T)].off
  BY DEF Replayed
<1>3. T \in SUBSET (1 .. Len(sidecar))
  BY <1>1
<1>4. (T = {} => Latest(T) = 0) /\ (T # {} => Latest(T) \in T)
  <2> HIDE DEF T
  <2> QED BY <1>1, <1>3, LatestIn
<1>5. \A i \in T : sidecar[i].off <= Len(ledger)
  BY DEF Within
<1> HIDE DEF T
<1> QED BY <1>1, <1>2, <1>4, <1>5

\* The ledger only grows.
LEMMA InLedgerGrows ==
    ASSUME StoreType, InLedger, NEW n \in Nat, Len(ledger) <= n
    PROVE  /\ \A r \in Rids : merkleIdx[r] <= n /\ built.m[r] <= n
           /\ Within(sidecar, n) /\ Within(built.lines, n)
<1>1. Len(ledger) \in Nat /\ sidecar \in Seq(IndexLines) /\ built.lines \in Seq(IndexLines)
  BY LenProperties DEF StoreType
<1>2. \A r \in Rids : merkleIdx[r] \in Nat /\ built.m[r] \in Nat
  BY DEF StoreType, Offsets
<1>3. \A r \in Rids : merkleIdx[r] <= n /\ built.m[r] <= n
  BY <1>1, <1>2 DEF InLedger
<1> QED BY <1>1, <1>3, WithinMore DEF InLedger

LEMMA InLedgerStep ==
    ASSUME IndexInv, InLedger, Next PROVE InLedger'
<1>1. /\ StoreType /\ Len(ledger) \in Nat /\ sidecar \in Seq(IndexLines)
      /\ built.lines \in Seq(IndexLines) /\ ledger \in Seq(DOMAIN Batches \cup {0})
      /\ DOMAIN ledger = 1 .. Len(ledger)
  BY LenProperties DEF IndexInv, StoreType
<1>2. \A r \in Rids : Absent[r] = 0
  BY DEF Absent
<1>3. NoBuild.m = Absent /\ NoBuild.lines = << >> /\ \A n : Within(<< >>, n)
  BY NothingFound DEF Within
<1>4. CASE AppendBegin \/ SkipProcessed \/ AppendRecord \/ RotateLog
  BY <1>4 DEF InLedger, AppendBegin, SkipProcessed, AppendRecord, RotateLog, data, index
<1>5. CASE AppendLedger \/ AppendLedgerFails
  <2>1. UNCHANGED <<sidecar, merkleIdx, built>>
    BY <1>5 DEF AppendLedger, AppendLedgerFails, index
  <2>2. \/ ledger' = ledger
        \/ \E e \in DOMAIN Batches \cup {0} : ledger' = Append(ledger, e)
    BY <1>1, <1>5 DEF AppendLedger, AppendLedgerFails, StoreType
  <2>3. Len(ledger') \in Nat /\ Len(ledger) <= Len(ledger')
    <3>1. ASSUME NEW e \in DOMAIN Batches \cup {0}, ledger' = Append(ledger, e)
          PROVE  Len(ledger') = Len(ledger) + 1
      BY <1>1, <3>1, AppendDomain
    <3> QED BY <1>1, <2>2, <3>1
  <2> QED BY <1>1, <2>1, <2>3, InLedgerGrows DEF InLedger
<1>6. CASE AppendIndex
  <2> DEFINE line == Line(Len(ledger), RidSet[Batch], recLocs, Len(ledger), Len(store))
  <2>1. /\ pc = "index" /\ UNCHANGED <<ledger, built>>
        /\ merkleIdx' = IF warm THEN Indexed(merkleIdx, RidSet[Batch], Len(ledger)) ELSE merkleIdx
        /\ sidecar' = Append(sidecar, line) \/ sidecar' = sidecar
    BY <1>6 DEF AppendIndex
  <2>2. line \in IndexLines /\ line.off <= Len(ledger)
    <3>1. line \in IndexLines
      BY <2>1, LineOfBatch
    <3>2. line.off = Len(ledger)
      BY DEF Line
    <3> QED BY <1>1, <3>1, <3>2
  <2> HIDE DEF line
  <2>3. Within(sidecar', Len(ledger))
    BY <1>1, <2>1, <2>2, WithinAdded DEF InLedger
  <2>4. \A r \in Rids : merkleIdx'[r] <= Len(ledger)
    BY <1>1, <2>1 DEF InLedger, Indexed
  <2> QED BY <2>1, <2>3, <2>4 DEF InLedger
<1>7. CASE WarmReplay
  <2>1. merkleIdx' = Replayed.m /\ built' = NoBuild /\ UNCHANGED <<ledger, sidecar>>
    BY <1>7 DEF WarmReplay, Warmed, data
  <2>2. \A r \in Rids : Replayed.m[r] <= Len(ledger)
    BY <1>1, ReplayWithin DEF InLedger
  <2> HIDE DEF Replayed
  <2> QED BY <1>1, <1>2, <1>3, <2>1, <2>2 DEF InLedger
<1>8. CASE WarmStore
  <2>1. /\ UNCHANGED <<ledger, sidecar, merkleIdx>>
        /\ built'.m = NoBuild.m /\ built'.lines = NoBuild.lines
    BY <1>8 DEF WarmStore, data, NoBuild
  <2> QED BY <1>1, <1>2, <1>3, <2>1 DEF InLedger
<1>9. CASE WarmLedger
  <2>1. /\ UNCHANGED <<ledger, sidecar, merkleIdx>>
        /\ built'.m = ScannedLedger /\ built'.lines = RebuiltLines(built.r)
    BY <1>1, <1>9 DEF WarmLedger, data, StoreType
  <2>2. \A r \in Rids : ScannedLedger[r] <= Len(ledger)
    BY <1>1, LedgerScan
  <2>3. Within(RebuiltLines(built.r), Len(ledger))
    BY <1>1, RebuiltOK DEF IndexInv, StoreType, RecordsOK
  <2> HIDE DEF ScannedLedger, RebuiltLines
  <2> QED BY <2>1, <2>2, <2>3 DEF InLedger
<1>10. CASE WarmMarker
  <2>1. /\ ledger' = ledger /\ merkleIdx' = built.m /\ built' = NoBuild
        /\ \/ sidecar' = sidecar
           \/ \E lost \in SUBSET DOMAIN built.lines, marker \in BOOLEAN :
                  sidecar' = Rewritten(lost, marker)
    BY <1>10 DEF WarmMarker, Warmed
  <2>2. Within(sidecar', Len(ledger))
    BY <1>1, <2>1, RewrittenOK DEF InLedger, IndexInv
  <2> QED BY <1>1, <1>2, <1>3, <2>1, <2>2 DEF InLedger
<1>11. CASE Crash
  <2>1. UNCHANGED <<ledger, sidecar>> /\ merkleIdx' = Absent /\ built' = NoBuild
    BY <1>11 DEF Crash, data
  <2> QED BY <1>1, <1>2, <1>3, <2>1 DEF InLedger
<1> QED BY <1>4, <1>5, <1>6, <1>7, <1>8, <1>9, <1>10, <1>11 DEF Next

LEMMA BoundedInit == Init => Bounded
<1> SUFFICES ASSUME Init PROVE Bounded
  OBVIOUS
<1>1. InLedger
  <2>1. Len(ledger) = 0
    BY DEF Init
  <2>2. \A r \in Rids : merkleIdx[r] = 0 /\ built.m[r] = 0
    BY NothingFound DEF Init, Absent
  <2>3. sidecar = << >> /\ built.lines = << >>
    BY NothingFound DEF Init
  <2> QED BY <2>1, <2>2, <2>3 DEF InLedger, Within
<1> QED BY <1>1, ReceiptIndexAssumption DEF Bounded, Init

LEMMA BoundedStep == IndexInv /\ Bounded /\ [Next]_vars => Bounded'
<1> SUFFICES ASSUME IndexInv, Bounded, [Next]_vars PROVE Bounded'
  OBVIOUS
<1>1. CASE UNCHANGED vars
  BY <1>1 DEF vars, data, index, Bounded, InLedger
<1>2. CASE Next
  <2>1. InLedger'
    BY <1>2, InLedgerStep DEF Bounded
  <2>2. faults' = faults \/ (faults < MaxFaults /\ faults' = faults + 1)
    BY <1>2 DEF Next, AppendBegin, SkipProcessed, AppendRecord, AppendLedger,
       AppendLedgerFails, AppendIndex, WarmReplay, WarmStore, WarmLedger, WarmMarker, RotateLog, Crash, Fault
  <2>3. slips' = slips \/ \E n \in SlipNames : slips' = slips \cup {n}
    BY <1>2 DEF Next, AppendBegin, SkipProcessed, AppendRecord, AppendLedger,
       AppendLedgerFails, AppendIndex, WarmReplay, WarmStore, WarmLedger, WarmMarker, RotateLog, Crash, Slip, SlipNames
  <2> QED BY <2>1, <2>2, <2>3, ReceiptIndexAssumption DEF Bounded
<1> QED BY <1>1, <1>2

\* The variables keep their types, and no index points past the end of its file,
\* at which a read of the line (settler.go:1357-1381) would find nothing.
THEOREM ReceiptsTypeCorrect == Spec => []TypeOK
<1>1. ASSUME IndexInv, Bounded PROVE TypeOK
  <2>1. StoreType /\ RecordsOK
    BY <1>1 DEF IndexInv
  <2>2. Len(ledger) \in Nat /\ Len(store) \in Nat /\ DOMAIN store = 1 .. Len(store)
    BY <2>1, LenProperties DEF StoreType
  <2>3. ASSUME NEW r \in Rids
        PROVE  merkleIdx[r] \in 0 .. Len(ledger) /\ recordIdx[r] \in 0 .. Len(store)
    <3>1. merkleIdx[r] \in Nat /\ recordIdx[r] \in Nat
      BY <2>1 DEF StoreType, Offsets
    <3>2. merkleIdx[r] <= Len(ledger)
      BY <1>1 DEF Bounded, InLedger
    <3>3. recordIdx[r] > 0 => recordIdx[r] \in 1 .. Len(store)
      BY <2>1, <2>2 DEF RecordsOK, Locates
    <3> QED BY <2>2, <3>1, <3>2, <3>3
  <2>4. done \in 0 .. Len(Batches)
    BY <2>1, ReceiptIndexAssumption DEF StoreType
  <2>5. slips \subseteq SlipNames /\ faults \in 0 .. MaxFaults
    BY <1>1 DEF Bounded
  <2> QED BY <2>1, <2>3, <2>4, <2>5 DEF TypeOK, StoreType, SlipNames
<1> QED BY <1>1, IndexInvHolds, BoundedInit, BoundedStep, PTL DEF Spec
=============================================================================
