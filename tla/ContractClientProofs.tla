------------------------ MODULE ContractClientProofs ------------------------
(***************************************************************************)
(* What the contract client may rely on, for every number of batches and   *)
(* endpoints and every confirmation depth: a batch confirmed as final      *)
(* stays on the chain, and the nonces of the pool have no gap.             *)
(***************************************************************************)
EXTENDS ContractClient, FiniteSetTheorems, SequenceTheorems, NaturalsInduction,
        WellFoundedInduction, TLAPS

\* The parts of the inductive invariant.
Shape == blocks \in Seq(Txs \cup {NoTx}) /\ IsFiniteSet(pool) /\ fee \in Nat

\* What resumePending has in hand: the batch it works on, its transaction
\* and, between transactor and Transact, the nonce it recorded.
InHand ==
    /\ pc # "check" => Current # 0
    /\ pc \in {"send", "mined", "final", "head", "reorged"} => tx \in Txs /\ tx.batch = Current
    /\ pc = "send" => tx.nonce = lastNonce
    /\ pc \in {"final", "head"} => streak < MaxNotFoundStreak

\* Reorganisations reach no deeper than the confirmation depth.
Shallow == Len(blocks) <= top /\ top - Confirmations <= Len(blocks)

\* The receipt that was fetched is still on the chain when the head arrives.
ReceiptHolds ==
    "between" \notin slips /\ pc = "head" => seen \in 1 .. Len(blocks) /\ blocks[seen] = tx

\* A batch is called final when no reorganisation reaches it any more.
OutOfReach ==
    "between" \notin slips =>
      \A b \in DOMAIN confirmed : confirmed[b] = "final" =>
        \E i \in 1 .. Len(blocks) : blocks[i].batch = b /\ i <= top - Confirmations

\* The transactions of the chain have the nonces 0, 1, 2, ... in this order.
Numbered ==
    \A i \in 1 .. Len(blocks) : blocks[i] # NoTx => blocks[i].nonce = AccountNonce(i - 1)
Dense ==
    \A n \in 0 .. AccountNonce(Len(blocks)) - 1 :
       \E i \in 1 .. Len(blocks) : blocks[i] # NoTx /\ blocks[i].nonce = n

\* Nothing is missing between the account's nonce and x.
NoGapBelow(x) == \A n \in AccountNonce(Len(blocks)) .. x - 1 : \E o \in pool : o.nonce = n

\* The tracked nonce, which the next submission may use, has none below it.
TrackedReachable == "evicted" \notin slips => NoGapBelow(lastNonce)

IInv ==
    /\ TypeOK /\ Shape /\ InHand
    /\ Shallow /\ ReceiptHolds /\ OutOfReach
    /\ Numbered /\ Dense /\ TrackedReachable /\ NoNonceGap

-----------------------------------------------------------------------------
(***************************************************************************)
(* Least elements, and the number of our transactions in a prefix.         *)
(***************************************************************************)
LEMMA LeastExists ==
    ASSUME NEW T \in SUBSET Nat, T # {}
    PROVE  \E x \in T : \A y \in T : x <= y
<1>1. \E x \in T : \A y \in T : ~(<<y, x>> \in OpToRel(<, Nat))
  BY NatLessThanWellFounded, WFMin
<1>2. PICK x \in T : \A y \in T : ~(<<y, x>> \in OpToRel(<, Nat))
  BY <1>1
<1>3. \A y \in T : ~(y < x)
  BY <1>2 DEF OpToRel
<1> QED BY <1>3

\* AccountNonce, for any chain.
Paid(chain, v) == Cardinality({i \in 1 .. v : chain[i] # NoTx})

LEMMA PaidFinite ==
    ASSUME NEW c, NEW v \in Nat
    PROVE  IsFiniteSet({i \in 1 .. v : c[i] # NoTx}) /\ Paid(c, v) \in Nat
<1>1. IsFiniteSet(1 .. v)
  BY FS_Interval
<1>2. {i \in 1 .. v : c[i] # NoTx} \in SUBSET (1 .. v)
  OBVIOUS
<1>3. IsFiniteSet({i \in 1 .. v : c[i] # NoTx})
  BY <1>1, <1>2, FS_Subset, Zenon
<1> QED BY <1>3, FS_CardinalityType DEF Paid

LEMMA PaidMonotone ==
    ASSUME NEW c, NEW u \in Nat, NEW v \in Nat, u <= v
    PROVE  Paid(c, u) <= Paid(c, v)
<1>1. {i \in 1 .. u : c[i] # NoTx} \in SUBSET {i \in 1 .. v : c[i] # NoTx}
  OBVIOUS
<1>2. IsFiniteSet({i \in 1 .. v : c[i] # NoTx})
  BY PaidFinite
<1> QED BY <1>1, <1>2, FS_Subset, Zenon DEF Paid

LEMMA PaidStep ==
    ASSUME NEW c, NEW v \in Nat
    PROVE  Paid(c, v + 1) = IF c[v + 1] # NoTx THEN Paid(c, v) + 1 ELSE Paid(c, v)
<1> DEFINE S == {i \in 1 .. v : c[i] # NoTx}
<1>1. IsFiniteSet(S) /\ v + 1 \notin S
  <2>1. IsFiniteSet(S)
    BY PaidFinite, Zenon
  <2>2. v + 1 \notin S
    OBVIOUS
  <2> QED BY <2>1, <2>2
<1>2. CASE c[v + 1] # NoTx
  <2>1. {i \in 1 .. v + 1 : c[i] # NoTx} = S \cup {v + 1}
    BY <1>2
  <2> HIDE DEF S
  <2>2. Cardinality(S \cup {v + 1}) = Cardinality(S) + 1
    BY <1>1, FS_AddElement
  <2> QED BY <1>2, <2>1, <2>2 DEF Paid, S
<1>3. CASE c[v + 1] = NoTx
  <2>1. {i \in 1 .. v + 1 : c[i] # NoTx} = S
    BY <1>3
  <2> QED BY <1>3, <2>1 DEF Paid
<1> QED BY <1>2, <1>3

LEMMA PaidSame ==
    ASSUME NEW c, NEW d, NEW v \in Nat, \A i \in 1 .. v : c[i] = d[i]
    PROVE  \A u \in 0 .. v : Paid(c, u) = Paid(d, u)
<1> SUFFICES ASSUME NEW u \in 0 .. v PROVE Paid(c, u) = Paid(d, u)
  OBVIOUS
<1>1. {i \in 1 .. u : c[i] # NoTx} = {i \in 1 .. u : d[i] # NoTx}
  OBVIOUS
<1> QED BY <1>1 DEF Paid

LEMMA PaidIsNonce == \A v : AccountNonce(v) = Paid(blocks, v)
BY DEF AccountNonce, Paid

LEMMA ViewRange ==
    ASSUME Shape, NEW v \in Views
    PROVE  v \in 0 .. Len(blocks) /\ Len(blocks) \in Nat
<1>1. blocks \in Seq(Txs \cup {NoTx})
  BY DEF Shape
<1>2. Len(blocks) \in Nat /\ (blocks # << >> => Len(blocks) > 0)
  BY <1>1
<1> QED BY <1>2 DEF Views

LEMMA CurrentBatch ==
    ASSUME confirmed \in [1 .. NumBatches -> {"no", "final", "effect"}], Current # 0
    PROVE  Current \in 1 .. NumBatches /\ confirmed[Current] = "no"
<1> DEFINE T == {b \in 1 .. NumBatches : confirmed[b] = "no"}
<1>1. T # {} /\ T \in SUBSET Nat
  <2>1. \E b \in DOMAIN confirmed : confirmed[b] = "no"
    BY Zenon DEF Current
  <2> QED BY <2>1
<1>2. PICK x \in T : \A y \in T : x <= y
  BY <1>1, LeastExists
<1>3. x \in DOMAIN confirmed /\ confirmed[x] = "no" /\ \A c \in 1 .. x - 1 : confirmed[c] # "no"
  <2>1. x \in 1 .. NumBatches /\ confirmed[x] = "no" /\ NumBatches \in Nat
    BY <1>2, ContractAssumption DEF ContractAssumption
  <2>2. ASSUME NEW c \in 1 .. x - 1 PROVE confirmed[c] # "no"
    <3>1. c \in 1 .. NumBatches /\ ~(x <= c)
      BY <2>1
    <3> QED BY <1>2, <3>1
  <2> QED BY <2>1, <2>2
<1>4. Current = CHOOSE b \in DOMAIN confirmed :
            confirmed[b] = "no" /\ \A c \in 1 .. b - 1 : confirmed[c] # "no"
  BY Zenon DEF Current
<1>5. Current \in DOMAIN confirmed /\ confirmed[Current] = "no"
  BY <1>3, <1>4, Zenon
<1> QED BY <1>5

LEMMA TxFields ==
    /\ NoTx \notin Txs /\ NoTx.batch = 0 /\ NoTx.nonce = -1
    /\ \A t \in Txs : t.nonce \in Nat /\ t.batch \in 1 .. NumBatches /\ t.price \in Nat
BY DEF Txs, NoTx, Nothing

\* What a transaction in a block or in the pool looks like.
LEMMA ChainFields ==
    ASSUME TypeOK, Shape
    PROVE  /\ Len(blocks) \in Nat /\ DOMAIN blocks = 1 .. Len(blocks)
           /\ \A i \in 1 .. Len(blocks) : blocks[i] \in Txs \cup {NoTx}
           /\ pool \subseteq Txs
<1>1. blocks \in Seq(Txs \cup {NoTx})
  BY DEF Shape
<1>2. pool \subseteq Txs
  BY DEF TypeOK
<1> QED BY <1>1, <1>2

LEMMA InitInv == Init => IInv
<1> SUFFICES ASSUME Init PROVE IInv
  OBVIOUS
<1> USE ContractAssumption DEF ContractAssumption
<1>1. blocks = << >> /\ Len(blocks) = 0 /\ pool = {} /\ ToSet(blocks) = {}
  BY DEF Init, ToSet
<1>2. up \in [Endpoints -> BOOLEAN] /\ counts \in BOOLEAN
  BY DEF Init
<1>3. /\ active \in Endpoints /\ lastNonce = Nothing /\ lastGasPrice = 0 /\ pc = "check"
      /\ tx = NoTx /\ waitOn = Nothing /\ streak = 0 /\ slips = {} /\ top = 0 /\ fee = BaseFee
      /\ confirmed = [b \in 1 .. NumBatches |-> "no"]
  BY DEF Init, Endpoints
<1>4. TypeOK
  BY <1>1, <1>2, <1>3 DEF TypeOK
<1>5. Shape
  BY <1>1, <1>3, FS_EmptySet DEF Shape
<1>6. InHand /\ Shallow /\ ReceiptHolds /\ OutOfReach
  BY <1>1, <1>3 DEF InHand, Shallow, ReceiptHolds, OutOfReach
<1>7. AccountNonce(0) = 0
  <2>1. {i \in 1 .. 0 : blocks[i] # NoTx} = {}
    OBVIOUS
  <2> QED BY <2>1, FS_EmptySet DEF AccountNonce
<1>8. Numbered /\ Dense /\ TrackedReachable /\ NoNonceGap
  BY <1>1, <1>3, <1>7 DEF Numbered, Dense, TrackedReachable, NoNonceGap, NoGapBelow, Nothing
<1> QED BY <1>4, <1>5, <1>6, <1>8 DEF IInv

\* The type invariant, by who owns the state.
ChainOK == (ToSet(blocks) \ {NoTx}) \cup pool \subseteq Txs /\ top \in Nat
NodesOK == up \in [Endpoints -> BOOLEAN] /\ counts \in BOOLEAN /\ active \in Endpoints
TrackedOK == lastNonce \in Nat \cup {Nothing} /\ lastGasPrice \in Nat
WaitOK ==
    /\ tx \in Txs \cup {NoTx} /\ waitOn \in Endpoints \cup {Nothing}
    /\ streak \in 0 .. MaxNotFoundStreak
PcOK == pc \in {"check", "nonce", "send", "mined", "final", "head", "reorged"}
BatchesOK == confirmed \in [1 .. NumBatches -> {"no", "final", "effect"}]
SlipsOK == slips \subseteq {"reorg", "between", "effect", "evicted"}

LEMMA TypeParts ==
    TypeOK => ChainOK /\ NodesOK /\ TrackedOK /\ WaitOK /\ PcOK /\ BatchesOK /\ SlipsOK
BY DEF TypeOK, ChainOK, NodesOK, TrackedOK, WaitOK, PcOK, BatchesOK, SlipsOK

LEMMA TypeNextParts ==
    ASSUME ChainOK', NodesOK', TrackedOK', WaitOK', PcOK', BatchesOK', SlipsOK'
    PROVE  TypeOK'
BY DEF TypeOK, ChainOK, NodesOK, TrackedOK, WaitOK, PcOK, BatchesOK, SlipsOK

-----------------------------------------------------------------------------
(***************************************************************************)
(* Steps of the client, which leave the chain alone.                       *)
(***************************************************************************)
\* What a step of resumePending that sends nothing has to show.
LEMMA ClientStep ==
    ASSUME IInv, UNCHANGED <<chainVars, slips>>,
           NodesOK', TrackedOK', WaitOK', PcOK', BatchesOK', InHand',
           ReceiptHolds', OutOfReach', TrackedReachable'
    PROVE  IInv'
<1>0. UNCHANGED <<blocks, pool, fee, top, slips>>
  BY DEF chainVars
<1>1. ChainOK' /\ SlipsOK'
  BY <1>0, TypeParts DEF IInv, ChainOK, SlipsOK
<1>2. TypeOK'
  BY <1>1, TypeNextParts
<1>3. Shape' /\ Shallow' /\ Numbered' /\ Dense'
  BY <1>0 DEF IInv, Shape, Shallow, Numbered, Dense, AccountNonce
<1>4. NoNonceGap'
  BY <1>0 DEF IInv, NoNonceGap, AccountNonce
<1> QED BY <1>2, <1>3, <1>4 DEF IInv

\* What is true of the tracked nonce stays true while it is tracked.
LEMMA SameTracked ==
    ASSUME IInv, UNCHANGED <<chainVars, tracked, slips>>
    PROVE  TrackedReachable' /\ TrackedOK'
<1>1. UNCHANGED <<blocks, pool, lastNonce, lastGasPrice, slips>>
  BY DEF chainVars, tracked
<1>2. TrackedOK'
  BY <1>1, TypeParts DEF IInv, TrackedOK
<1>3. TrackedReachable'
  BY <1>1 DEF IInv, TrackedReachable, NoGapBelow, AccountNonce
<1> QED BY <1>2, <1>3

LEMMA SameConfirmed ==
    ASSUME IInv, UNCHANGED <<chainVars, confirmed, slips>>
    PROVE  OutOfReach' /\ BatchesOK' /\ Current' = Current
<1>1. UNCHANGED <<blocks, top, confirmed, slips>>
  BY DEF chainVars
<1>2. BatchesOK'
  BY <1>1, TypeParts DEF IInv, BatchesOK
<1>3. OutOfReach' /\ Current' = Current
  BY <1>1 DEF IInv, OutOfReach, Current
<1> QED BY <1>2, <1>3

LEMMA SameNodes ==
    ASSUME IInv, UNCHANGED nodes
    PROVE  NodesOK'
BY TypeParts DEF IInv, nodes, NodesOK

\* The cycle goes back to its first step: nothing is in hand.
LEMMA BackToCheck ==
    ASSUME IInv, pc' = "check"
    PROVE  InHand' /\ ReceiptHolds' /\ PcOK'
BY DEF InHand, ReceiptHolds, PcOK

LEMMA FailureNext ==
    ASSUME IInv, CallFails \/ WaitTimesOut \/ FinalityTimesOut
    PROVE  IInv'
<1>1. UNCHANGED <<chainVars, nodes, tracked, wait, confirmed, slips>> /\ pc' = "check"
  BY DEF CallFails, WaitTimesOut, FinalityTimesOut
<1>2. NodesOK' /\ TrackedOK' /\ TrackedReachable' /\ BatchesOK' /\ OutOfReach'
  BY <1>1, SameNodes, SameTracked, SameConfirmed
<1>3. WaitOK'
  BY <1>1, TypeParts DEF IInv, wait, WaitOK
<1>4. InHand' /\ ReceiptHolds' /\ PcOK'
  BY <1>1, BackToCheck
<1> QED BY <1>1, <1>2, <1>3, <1>4, ClientStep

\* A batch is confirmed: at the depth that no reorganisation reaches, or
\* because the contract says so.
LEMMA ConfirmNext ==
    ASSUME IInv, NEW how \in {"final", "effect"}, Confirm(how),
           UNCHANGED <<chainVars, nodes, tracked, slips>>,
           how = "final" /\ "between" \notin slips =>
             \E i \in 1 .. Len(blocks) : blocks[i].batch = Current /\ i <= top - Confirmations
    PROVE  IInv'
<1>0. confirmed \in [1 .. NumBatches -> {"no", "final", "effect"}]
  BY DEF IInv, TypeOK
<1>1. /\ confirmed' = [confirmed EXCEPT ![Current] = how] /\ pc' = "check"
      /\ tx' = NoTx /\ waitOn' = Nothing /\ streak' = 0
      /\ UNCHANGED <<blocks, top, slips>>
  BY DEF Confirm, chainVars
<1>2. NodesOK' /\ TrackedOK' /\ TrackedReachable'
  BY SameNodes, SameTracked
<1>3. InHand' /\ ReceiptHolds' /\ PcOK'
  BY <1>1, BackToCheck
<1>4. WaitOK'
  BY <1>1, ContractAssumption DEF WaitOK, ContractAssumption
<1>5. BatchesOK'
  BY <1>0, <1>1 DEF BatchesOK
<1>6. OutOfReach'
  <2> SUFFICES ASSUME "between" \notin slips, NEW b \in DOMAIN confirmed', confirmed'[b] = "final"
               PROVE  \E i \in 1 .. Len(blocks) : blocks[i].batch = b /\ i <= top - Confirmations
    BY <1>1 DEF OutOfReach
  <2>1. CASE b = Current
    BY <1>0, <1>1, <2>1
  <2>2. CASE b # Current
    BY <1>0, <1>1, <2>2 DEF IInv, OutOfReach
  <2> QED BY <2>1, <2>2
<1> QED BY <1>2, <1>3, <1>4, <1>5, <1>6, ClientStep

LEMMA CheckNext ==
    ASSUME IInv, Check \/ Reorged
    PROVE  IInv'
<1>1. UNCHANGED <<chainVars, nodes, tracked, slips>>
  BY DEF Check, Reorged
<1>2. CASE Confirm("effect")
  BY <1>1, <1>2, ConfirmNext
<1>3. CASE UNCHANGED <<wait, confirmed>> /\ (pc' = "check" \/ (pc' = "nonce" /\ Current # 0))
  <2>1. NodesOK' /\ TrackedOK' /\ TrackedReachable' /\ BatchesOK' /\ OutOfReach' /\ Current' = Current
    BY <1>1, <1>3, SameNodes, SameTracked, SameConfirmed
  <2>2. WaitOK'
    BY <1>3, TypeParts DEF IInv, wait, WaitOK
  <2>3. InHand' /\ ReceiptHolds' /\ PcOK'
    BY <1>3, <2>1 DEF InHand, ReceiptHolds, PcOK
  <2> QED BY <1>1, <2>1, <2>2, <2>3, ClientStep
<1>4. Confirm("effect") \/ (UNCHANGED <<wait, confirmed>> /\ (pc' = "check" \/ (pc' = "nonce" /\ Current # 0)))
  <2>1. CASE Check
    BY <2>1, Zenon DEF Check
  <2>2. CASE Reorged
    BY <2>2, Zenon DEF Reorged
  <2> QED BY <2>1, <2>2
<1> QED BY <1>2, <1>3, <1>4

\* The nonce a node answers with: at least the account's in its view, and every
\* nonce between them is in the pool.
LEMMA PendingNonce ==
    ASSUME IInv, NEW v \in Views
    PROVE  /\ PendingNonceAt(v) \in Nat
           /\ NoGapBelow(PendingNonceAt(v))
<1> DEFINE used == IF counts THEN {t.nonce : t \in pool} ELSE {}
           n0 == AccountNonce(v)
           T == {n \in n0 .. n0 + Cardinality(used) : n \notin used}
<1>0. v \in Nat /\ v <= Len(blocks) /\ Len(blocks) \in Nat
  BY ViewRange DEF IInv
<1>1. n0 \in Nat /\ n0 <= AccountNonce(Len(blocks)) /\ AccountNonce(Len(blocks)) \in Nat
  BY <1>0, PaidFinite, PaidMonotone, PaidIsNonce
<1>2. IsFiniteSet(used) /\ Cardinality(used) \in Nat
  <2>1. IsFiniteSet(pool)
    BY DEF IInv, Shape
  <2>2. IsFiniteSet({t.nonce : t \in pool})
    <3> DEFINE f == [t \in pool |-> t.nonce]
    <3>1. f \in Surjection(pool, {t.nonce : t \in pool})
      BY DEF Surjection
    <3> QED BY <2>1, <3>1, FS_Surjection, Zenon
  <2>3. IsFiniteSet(used)
    BY <2>2, FS_EmptySet
  <2> HIDE DEF used
  <2> QED BY <2>3, FS_CardinalityType
<1> HIDE DEF n0
<1>3. T # {}
  <2> SUFFICES ASSUME T = {} PROVE FALSE
    OBVIOUS
  <2> DEFINE R == n0 .. n0 + Cardinality(used)
  <2>1. R \in SUBSET used
    OBVIOUS
  <2>2. IsFiniteSet(R) /\ Cardinality(R) = Cardinality(used) + 1
    <3> HIDE DEF used
    <3>1. IsFiniteSet(n0 .. n0 + Cardinality(used))
      BY <1>1, <1>2, FS_Interval
    <3>2. Cardinality(n0 .. n0 + Cardinality(used)) = n0 + Cardinality(used) - n0 + 1
      BY <1>1, <1>2, FS_Interval
    <3> QED BY <1>1, <1>2, <3>1, <3>2
  <2> HIDE DEF used, R
  <2>3. Cardinality(R) <= Cardinality(used)
    BY <1>2, <2>1, FS_Subset, Zenon
  <2> QED BY <1>2, <2>2, <2>3
<1>4. T \in SUBSET Nat
  BY <1>1, <1>2
<1>5. PICK x \in T : \A y \in T : x <= y
  BY <1>3, <1>4, LeastExists
<1>6. /\ x \in n0 .. n0 + Cardinality(used) /\ x \notin used
      /\ \A m \in n0 .. x - 1 : m \in used
  <2> HIDE DEF used
  <2>1. x \in n0 .. n0 + Cardinality(used) /\ x \notin used
    OBVIOUS
  <2>2. ASSUME NEW m \in n0 .. x - 1, m \notin used PROVE FALSE
    <3>1. m \in n0 .. n0 + Cardinality(used) /\ ~(x <= m)
      BY <1>1, <1>2, <2>1
    <3> QED BY <1>5, <2>2, <3>1
  <2> QED BY <2>1, <2>2
<1> DEFINE p == PendingNonceAt(v)
<1>7. p = CHOOSE n \in n0 .. n0 + Cardinality(used) :
            n \notin used /\ \A m \in n0 .. n - 1 : m \in used
  BY Zenon DEF PendingNonceAt, n0
<1>8. /\ p \in n0 .. n0 + Cardinality(used)
      /\ \A m \in n0 .. p - 1 : m \in used
  <2> HIDE DEF used, p
  <2> QED BY <1>6, <1>7, Zenon
<1>9. p \in Nat
  <2> HIDE DEF used, p
  <2> QED BY <1>1, <1>2, <1>8
<1>10. ASSUME NEW m \in AccountNonce(Len(blocks)) .. p - 1
       PROVE  \E o \in pool : o.nonce = m
  <2>1. m \in n0 .. p - 1
    <3> HIDE DEF used, p
    <3> QED BY <1>1, <1>9
  <2>2. m \in used
    BY <1>8, <2>1
  <2> QED BY <2>2
<1> QED BY <1>9, <1>10 DEF NoGapBelow

LEMMA TransactorNext ==
    ASSUME IInv, Transactor
    PROVE  IInv'
<1>1. /\ UNCHANGED <<chainVars, nodes, waitOn, seen, streak, confirmed, slips>>
      /\ pc = "nonce" /\ pc' = "send"
  BY DEF Transactor
<1>2. PICK v \in Views :
        LET d == decideNonceGas(PendingNonceAt(v), fee)
        IN  /\ lastNonce' = d.nonce /\ lastGasPrice' = d.price
            /\ tx' = [nonce |-> d.nonce, batch |-> Current, price |-> d.price]
  BY Zenon DEF Transactor
<1> DEFINE p == PendingNonceAt(v)
           d == decideNonceGas(p, fee)
<1>3. p \in Nat /\ NoGapBelow(p)
  BY PendingNonce
<1> HIDE DEF p
<1>4. lastNonce \in Nat \cup {Nothing} /\ lastGasPrice \in Nat /\ fee \in Nat /\ MaxPrice \in Nat
  BY ContractAssumption DEF ContractAssumption, IInv, TypeOK, Shape
<1>5. \A q \in Nat : bumpGasPrice(q, 25) \in Nat /\ bumpGasPrice(q, 13) \in Nat
  BY <1>4 DEF bumpGasPrice
<1>6. d.nonce \in Nat /\ d.price \in Nat /\ (d.nonce = p \/ d.nonce = lastNonce)
  BY <1>3, <1>4, <1>5 DEF decideNonceGas, Nothing
<1>7. lastNonce' = d.nonce /\ lastGasPrice' = d.price
      /\ tx' = [nonce |-> d.nonce, batch |-> Current, price |-> d.price]
  BY <1>2 DEF p
<1> HIDE DEF d
<1>8. Current \in 1 .. NumBatches
  BY <1>1, CurrentBatch DEF IInv, TypeOK, InHand
<1>9. BatchesOK' /\ OutOfReach' /\ Current' = Current /\ NodesOK'
  BY <1>1, SameConfirmed, SameNodes
<1>10. tx' \in Txs /\ tx'.batch = Current /\ tx'.nonce = lastNonce'
  BY <1>6, <1>7, <1>8 DEF Txs
<1>11. TrackedOK' /\ WaitOK'
  <2>1. WaitOK
    BY TypeParts DEF IInv
  <2> QED BY <1>1, <1>6, <1>7, <1>10, <2>1 DEF TrackedOK, WaitOK
<1>12. InHand' /\ ReceiptHolds' /\ PcOK'
  BY <1>1, <1>8, <1>9, <1>10 DEF InHand, ReceiptHolds, PcOK
<1>13. TrackedReachable'
  <2>1. UNCHANGED <<blocks, pool, slips>>
    BY <1>1 DEF chainVars
  <2>2. "evicted" \notin slips => NoGapBelow(d.nonce)
    BY <1>3, <1>6 DEF IInv, TrackedReachable
  <2> QED BY <1>7, <2>1, <2>2 DEF TrackedReachable, NoGapBelow, AccountNonce
<1> QED BY <1>1, <1>9, <1>11, <1>12, <1>13, ClientStep

\* Transact: what is sent has no gap below it, and it replaces only a
\* transaction with its own nonce.
LEMMA SendNext ==
    ASSUME IInv, Send
    PROVE  IInv'
<1>1. /\ UNCHANGED <<blocks, fee, top, nodes, tracked, tx, seen, streak, confirmed, slips>>
      /\ pc = "send"
  BY DEF Send
<1>2. CASE pc' = "check" /\ UNCHANGED <<pool, waitOn>>
  <2>1. UNCHANGED chainVars
    BY <1>1, <1>2 DEF chainVars
  <2>2. NodesOK' /\ TrackedOK' /\ TrackedReachable' /\ BatchesOK' /\ OutOfReach'
    BY <1>1, <2>1, SameNodes, SameTracked, SameConfirmed
  <2>3. WaitOK'
    BY <1>1, <1>2, TypeParts DEF IInv, WaitOK
  <2>4. InHand' /\ ReceiptHolds' /\ PcOK'
    BY <1>2, BackToCheck
  <2> QED BY <1>1, <2>1, <2>2, <2>3, <2>4, ClientStep
<1>3. CASE /\ pool' = {o \in pool : o.nonce # tx.nonce} \cup {tx}
           /\ pc' = "mined" /\ waitOn' = active
  <2>1. tx \in Txs /\ tx.batch = Current /\ tx.nonce = lastNonce /\ Current # 0
    BY <1>1 DEF IInv, InHand
  <2>2. UNCHANGED <<lastNonce, lastGasPrice, up, counts, active>>
    BY <1>1 DEF tracked, nodes
  <2>3. TypeOK'
    <3>1. ChainOK /\ WaitOK /\ NodesOK /\ TrackedOK /\ BatchesOK /\ SlipsOK
      BY TypeParts DEF IInv
    <3>2. ChainOK'
      BY <1>1, <1>3, <2>1, <3>1 DEF ChainOK
    <3>3. WaitOK' /\ PcOK'
      BY <1>1, <1>3, <3>1 DEF WaitOK, PcOK, NodesOK
    <3>4. NodesOK' /\ TrackedOK' /\ BatchesOK' /\ SlipsOK'
      BY <1>1, <2>2, <3>1 DEF NodesOK, TrackedOK, BatchesOK, SlipsOK
    <3> QED BY <3>2, <3>3, <3>4, TypeNextParts
  <2>4. Shape'
    <3>1. IsFiniteSet(pool) /\ {o \in pool : o.nonce # tx.nonce} \in SUBSET pool
      BY DEF IInv, Shape
    <3>2. IsFiniteSet({o \in pool : o.nonce # tx.nonce})
      BY <3>1, FS_Subset, Zenon
    <3>3. IsFiniteSet(pool')
      BY <1>3, <3>2, FS_AddElement, Zenon
    <3> QED BY <1>1, <3>3 DEF IInv, Shape
  <2>5. InHand' /\ ReceiptHolds'
    <3>1. Current' = Current
      BY <1>1 DEF Current
    <3> QED BY <1>1, <1>3, <2>1, <3>1 DEF InHand, ReceiptHolds
  <2>6. Shallow' /\ OutOfReach' /\ Numbered' /\ Dense'
    BY <1>1 DEF IInv, Shallow, OutOfReach, Numbered, Dense, AccountNonce
  <2>7. \A n : (\E o \in pool : o.nonce = n) => \E o \in pool' : o.nonce = n
    BY <1>3
  <2>8. AccountNonce(Len(blocks))' = AccountNonce(Len(blocks))
    BY <1>1 DEF AccountNonce
  <2>9. TrackedReachable'
    BY <1>1, <2>2, <2>7, <2>8 DEF IInv, TrackedReachable, NoGapBelow
  <2>10. NoNonceGap'
    <3> SUFFICES ASSUME "evicted" \notin slips, NEW t \in pool',
                        NEW n \in AccountNonce(Len(blocks)) .. t.nonce - 1
                 PROVE  \E o \in pool' : o.nonce = n
      BY <1>1, <2>8 DEF NoNonceGap
    <3>1. CASE t \in pool
      BY <3>1, <2>7 DEF IInv, NoNonceGap
    <3>2. CASE t = tx
      BY <3>2, <2>1, <2>7 DEF IInv, TrackedReachable, NoGapBelow
    <3> QED BY <1>3, <3>1, <3>2
  <2> QED BY <2>3, <2>4, <2>5, <2>6, <2>9, <2>10 DEF IInv
<1>4. \/ (pc' = "check" /\ UNCHANGED <<pool, waitOn>>)
      \/ /\ pool' = {o \in pool : o.nonce # tx.nonce} \cup {tx}
         /\ pc' = "mined" /\ waitOn' = active
  BY Zenon DEF Send
<1> QED BY <1>2, <1>3, <1>4

\* No nonce is tracked: nothing can be missing below it.
LEMMA Untracked ==
    ASSUME IInv, UNCHANGED <<chainVars, slips>>, lastNonce' = Nothing, lastGasPrice' = 0
    PROVE  TrackedReachable' /\ TrackedOK'
<1>1. AccountNonce(Len(blocks)) \in Nat
  BY PaidIsNonce, PaidFinite, ChainFields DEF IInv
<1>2. AccountNonce(Len(blocks))' = AccountNonce(Len(blocks))
  BY DEF AccountNonce, chainVars
<1> QED BY <1>1, <1>2 DEF TrackedReachable, NoGapBelow, TrackedOK, Nothing

LEMMA MinedNext ==
    ASSUME IInv, Mined
    PROVE  IInv'
<1>1. /\ UNCHANGED <<chainVars, nodes, tx, waitOn, seen, confirmed, slips>>
      /\ lastNonce' = Nothing /\ lastGasPrice' = 0 /\ streak' = 0 /\ pc = "mined"
  BY DEF Mined
<1>2. pc' \in {"final", "check"}
  BY Zenon DEF Mined
<1>3. NodesOK' /\ TrackedOK' /\ TrackedReachable' /\ BatchesOK' /\ OutOfReach' /\ Current' = Current
  BY <1>1, SameNodes, Untracked, SameConfirmed
<1>4. WaitOK'
  BY <1>1, TypeParts, ContractAssumption DEF IInv, WaitOK, ContractAssumption
<1>5. InHand' /\ ReceiptHolds' /\ PcOK'
  BY <1>1, <1>2, <1>3, ContractAssumption DEF IInv, InHand, ReceiptHolds, PcOK, ContractAssumption
<1> QED BY <1>1, <1>3, <1>4, <1>5, ClientStep

\* What TransactionReceipt answers.
LEMMA ReceiptBlock ==
    ASSUME IInv, NEW v \in Views, BlockOf(tx, v) # Nothing
    PROVE  BlockOf(tx, v) \in 1 .. Len(blocks) /\ blocks[BlockOf(tx, v)] = tx
<1>1. v \in 0 .. Len(blocks) /\ Len(blocks) \in Nat
  BY ViewRange DEF IInv
<1>2. BlockOf(tx, v) \in 1 .. v /\ blocks[BlockOf(tx, v)] = tx
  BY Zenon DEF BlockOf
<1> QED BY <1>1, <1>2

LEMMA PollReceiptNext ==
    ASSUME IInv, PollReceipt
    PROVE  IInv'
<1>1. /\ UNCHANGED <<chainVars, nodes, tracked, tx, waitOn, confirmed, slips>>
      /\ pc = "final"
  BY DEF PollReceipt
<1>2. PICK v \in Views :
        IF BlockOf(tx, v) # Nothing
        THEN pc' = "head" /\ seen' = BlockOf(tx, v) /\ UNCHANGED streak
        ELSE /\ streak' = streak + 1 /\ UNCHANGED seen
             /\ pc' = IF DurablyAbsent(streak + 1) THEN "reorged" ELSE "final"
  BY Zenon DEF PollReceipt
<1>3. /\ NodesOK' /\ TrackedOK' /\ TrackedReachable' /\ BatchesOK' /\ OutOfReach'
      /\ Current' = Current
  BY <1>1, SameNodes, SameTracked, SameConfirmed
<1>4. WaitOK /\ streak < MaxNotFoundStreak /\ MaxNotFoundStreak \in Nat
  BY <1>1, TypeParts, ContractAssumption DEF IInv, InHand, ContractAssumption
<1>5. CASE BlockOf(tx, v) # Nothing
  <2>1. pc' = "head" /\ seen' = BlockOf(tx, v) /\ UNCHANGED streak
    BY <1>2, <1>5
  <2>2. seen' \in 1 .. Len(blocks) /\ blocks[seen'] = tx
    BY <1>5, <2>1, ReceiptBlock
  <2>3. WaitOK' /\ PcOK' /\ InHand'
    BY <1>1, <1>3, <1>4, <2>1 DEF IInv, WaitOK, PcOK, InHand
  <2>4. ReceiptHolds'
    BY <1>1, <2>2 DEF ReceiptHolds, chainVars
  <2> QED BY <1>1, <1>3, <2>3, <2>4, ClientStep
<1>6. CASE BlockOf(tx, v) = Nothing
  <2>1. streak' = streak + 1 /\ pc' = IF streak + 1 >= MaxNotFoundStreak THEN "reorged" ELSE "final"
    BY <1>2, <1>6 DEF DurablyAbsent
  <2>2. WaitOK'
    BY <1>1, <1>4, <2>1 DEF WaitOK
  <2>3. PcOK' /\ InHand' /\ ReceiptHolds'
    <3>1. streak \in Nat
      BY <1>4 DEF WaitOK
    <3> QED BY <1>1, <1>3, <1>4, <2>1, <3>1 DEF IInv, PcOK, InHand, ReceiptHolds
  <2> QED BY <1>1, <1>3, <2>2, <2>3, ClientStep
<1> QED BY <1>5, <1>6

\* The head buries the receipt: in every view of the chain the receipt is out
\* of the reach of reorganisations.
LEMMA PollHeadNext ==
    ASSUME IInv, PollHead
    PROVE  IInv'
<1>1. UNCHANGED <<chainVars, nodes, tracked, slips>> /\ pc = "head"
  BY DEF PollHead
<1>2. PICK v \in Views :
        IF Buried(v, seen) THEN Confirm("final")
        ELSE /\ pc' = "final" /\ streak' = 0
             /\ UNCHANGED <<tx, waitOn, seen, confirmed>>
  BY Zenon DEF PollHead
<1>3. CASE Buried(v, seen)
  <2>1. v \in 0 .. Len(blocks) /\ Len(blocks) \in Nat
    BY ViewRange DEF IInv
  <2>2. top \in Nat /\ Len(blocks) <= top /\ Confirmations \in Nat
    BY ContractAssumption DEF ContractAssumption, IInv, TypeOK, Shallow
  <2>3. "between" \notin slips =>
          \E i \in 1 .. Len(blocks) : blocks[i].batch = Current /\ i <= top - Confirmations
    <3> SUFFICES ASSUME "between" \notin slips
                 PROVE  \E i \in 1 .. Len(blocks) : blocks[i].batch = Current /\ i <= top - Confirmations
      OBVIOUS
    <3>1. seen \in 1 .. Len(blocks) /\ blocks[seen] = tx /\ tx.batch = Current
      BY <1>1 DEF IInv, ReceiptHolds, InHand
    <3>2. seen <= top - Confirmations
      BY <1>3, <2>1, <2>2, <3>1 DEF Buried
    <3> QED BY <3>1, <3>2
  <2> QED BY <1>1, <1>2, <1>3, <2>3, ConfirmNext
<1>4. CASE ~Buried(v, seen)
  <2>1. pc' = "final" /\ streak' = 0 /\ UNCHANGED <<tx, waitOn, seen, confirmed>>
    BY <1>2, <1>4
  <2>2. /\ NodesOK' /\ TrackedOK' /\ TrackedReachable' /\ BatchesOK' /\ OutOfReach'
        /\ Current' = Current
    BY <1>1, <2>1, SameNodes, SameTracked, SameConfirmed
  <2>3. WaitOK'
    BY <2>1, TypeParts, ContractAssumption DEF IInv, WaitOK, ContractAssumption
  <2>4. InHand' /\ ReceiptHolds' /\ PcOK'
    BY <1>1, <2>1, <2>2, ContractAssumption DEF IInv, InHand, ReceiptHolds, PcOK, ContractAssumption
  <2> QED BY <1>1, <2>2, <2>3, <2>4, ClientStep
<1> QED BY <1>3, <1>4

LEMMA PollFailsNext ==
    ASSUME IInv, PollFails
    PROVE  IInv'
<1>1. /\ UNCHANGED <<chainVars, nodes, tracked, wait, confirmed, slips>>
      /\ pc = "head" /\ pc' = "final"
  BY DEF PollFails
<1>2. /\ NodesOK' /\ TrackedOK' /\ TrackedReachable' /\ BatchesOK' /\ OutOfReach'
      /\ Current' = Current
  BY <1>1, SameNodes, SameTracked, SameConfirmed
<1>3. WaitOK'
  BY <1>1, TypeParts DEF IInv, wait, WaitOK
<1>4. InHand' /\ ReceiptHolds' /\ PcOK'
  BY <1>1, <1>2 DEF IInv, InHand, ReceiptHolds, PcOK, wait
<1> QED BY <1>1, <1>2, <1>3, <1>4, ClientStep

-----------------------------------------------------------------------------
(***************************************************************************)
(* The endpoints, and a restart.                                           *)
(***************************************************************************)
LEMMA FirstHealthyIsEndpoint ==
    ASSUME NEW start \in Nat, dialFirstHealthy(start) # Nothing
    PROVE  dialFirstHealthy(start) \in Endpoints
<1> DEFINE idx(i) == (start + i) % NumEndpoints
           at == {i \in Endpoints : up[idx(i)]}
<1>0. NumEndpoints \in Nat \ {0}
  BY ContractAssumption DEF ContractAssumption
<1>1. at # {} /\ at \in SUBSET Nat
  <2>1. at # {}
    BY Zenon DEF dialFirstHealthy
  <2>2. at \in SUBSET Nat
    BY <1>0 DEF Endpoints
  <2> QED BY <2>1, <2>2
<1> DEFINE c == CHOOSE i \in at : \A j \in at : i <= j
<1>2. c \in at
  <2> HIDE DEF at
  <2>1. \E x \in at : \A y \in at : x <= y
    BY <1>1, LeastExists
  <2> QED BY <2>1, Zenon
<1>3. dialFirstHealthy(start) = idx(c)
  BY <1>1, Zenon DEF dialFirstHealthy
<1>4. c \in Nat
  BY <1>1, <1>2
<1> HIDE DEF c
<1> QED BY <1>0, <1>3, <1>4 DEF Endpoints

\* Steps of the endpoints: the chain and the cycle's own state stay.
LEMMA EndpointStep ==
    ASSUME IInv, UNCHANGED <<chainVars, tracked, pc, tx, seen, streak, confirmed, slips>>,
           NodesOK', waitOn' \in {waitOn, Nothing}
    PROVE  IInv'
<1>1. TrackedOK' /\ TrackedReachable' /\ BatchesOK' /\ OutOfReach' /\ Current' = Current
  BY SameTracked, SameConfirmed
<1>2. WaitOK' /\ PcOK'
  BY TypeParts DEF IInv, WaitOK, PcOK
<1>3. InHand'
  <2>1. lastNonce' = lastNonce
    BY DEF tracked
  <2> QED BY <1>1, <2>1 DEF IInv, InHand
<1>4. ReceiptHolds'
  BY DEF IInv, ReceiptHolds, chainVars
<1> QED BY <1>1, <1>2, <1>3, <1>4, ClientStep

LEMMA EndpointNext ==
    ASSUME IInv, Rotate \/ Recover \/ \E e \in Endpoints : Down(e)
    PROVE  IInv'
<1>0. up \in [Endpoints -> BOOLEAN] /\ counts \in BOOLEAN /\ active \in Endpoints
  BY DEF IInv, TypeOK
<1>1. CASE Rotate
  <2>1. active + 1 \in Nat
    BY <1>0, ContractAssumption DEF Endpoints, ContractAssumption
  <2>2. active' \in Endpoints
    BY <1>1, <2>1, FirstHealthyIsEndpoint DEF Rotate
  <2>3. /\ UNCHANGED <<chainVars, tracked, pc, tx, seen, streak, confirmed, slips, up, counts>>
        /\ waitOn' = Nothing
    BY <1>1 DEF Rotate
  <2>4. NodesOK'
    BY <1>0, <2>2, <2>3 DEF NodesOK
  <2> QED BY <2>3, <2>4, EndpointStep
<1>2. CASE Recover \/ \E e \in Endpoints : Down(e)
  <2>1. UNCHANGED <<chainVars, tracked, pc, wait, confirmed, slips, counts, active>>
    BY <1>2 DEF Recover, Down
  <2>2. PICK e \in Endpoints, x \in BOOLEAN : up' = [up EXCEPT ![e] = x]
    BY <1>2 DEF Recover, Down
  <2>3. NodesOK'
    BY <1>0, <2>1, <2>2 DEF NodesOK
  <2> QED BY <2>1, <2>3, EndpointStep DEF wait
<1> QED BY <1>1, <1>2

LEMMA CrashNext ==
    ASSUME IInv, Crash
    PROVE  IInv'
<1>1. /\ UNCHANGED <<chainVars, up, counts, confirmed, slips>>
      /\ dialFirstHealthy(0) # Nothing /\ active' = dialFirstHealthy(0)
      /\ pc' = "check" /\ tx' = NoTx /\ waitOn' = Nothing /\ streak' = 0
      /\ lastNonce' = Nothing /\ lastGasPrice' = 0
  BY DEF Crash
<1>2. NodesOK' /\ TrackedOK' /\ TrackedReachable' /\ BatchesOK' /\ OutOfReach'
  <2>1. active' \in Endpoints
    BY <1>1, FirstHealthyIsEndpoint
  <2>2. NodesOK'
    BY <1>1, <2>1, TypeParts DEF IInv, NodesOK
  <2> QED BY <1>1, <2>2, Untracked, SameConfirmed
<1>3. WaitOK'
  BY <1>1, ContractAssumption DEF WaitOK, ContractAssumption
<1>4. InHand' /\ ReceiptHolds' /\ PcOK'
  BY <1>1, BackToCheck
<1> QED BY <1>1, <1>2, <1>3, <1>4, ClientStep

-----------------------------------------------------------------------------
(***************************************************************************)
(* The chain.                                                              *)
(***************************************************************************)
\* What a step of the chain has to show.
LEMMA ChainStep ==
    ASSUME IInv, UNCHANGED client, ChainOK', SlipsOK', Shape', Shallow', ReceiptHolds',
           OutOfReach', Numbered', Dense', TrackedReachable', NoNonceGap'
    PROVE  IInv'
<1>1. UNCHANGED <<up, counts, active, lastNonce, lastGasPrice, pc, tx, waitOn, seen, streak, confirmed>>
  BY DEF client, nodes, tracked, wait
<1>2. NodesOK' /\ TrackedOK' /\ WaitOK' /\ PcOK' /\ BatchesOK'
  BY <1>1, TypeParts DEF IInv, NodesOK, TrackedOK, WaitOK, PcOK, BatchesOK
<1>3. TypeOK'
  BY <1>2, TypeNextParts
<1>4. InHand'
  BY <1>1 DEF IInv, InHand, Current
<1> QED BY <1>3, <1>4 DEF IInv

\* A chain that only keeps some first blocks keeps what was true of them.
LEMMA PrefixNonces ==
    ASSUME NEW k \in Nat, \A i \in 1 .. k : blocks'[i] = blocks[i]
    PROVE  \A u \in 0 .. k : AccountNonce(u)' = AccountNonce(u) /\ AccountNonce(u) \in Nat
<1> SUFFICES ASSUME NEW u \in 0 .. k
             PROVE  AccountNonce(u)' = AccountNonce(u) /\ AccountNonce(u) \in Nat
  OBVIOUS
<1>1. Paid(blocks', u) = Paid(blocks, u)
  BY PaidSame
<1>2. AccountNonce(u)' = Paid(blocks', u) /\ AccountNonce(u) = Paid(blocks, u)
  BY DEF AccountNonce, Paid
<1>3. u \in Nat
  OBVIOUS
<1>4. Paid(blocks, u) \in Nat
  BY <1>3, PaidFinite
<1> QED BY <1>1, <1>2, <1>4

\* A new block on top of the others.
LEMMA Longer ==
    ASSUME IInv, NEW t \in Txs \cup {NoTx}, blocks' = Append(blocks, t), Grown,
           t # NoTx => t.nonce = AccountNonce(Len(blocks))
    PROVE  /\ blocks' \in Seq(Txs \cup {NoTx}) /\ ToSet(blocks') \ {NoTx} \subseteq Txs
           /\ Len(blocks') = Len(blocks) + 1 /\ Len(blocks) \in Nat
           /\ \A i \in 1 .. Len(blocks) : blocks'[i] = blocks[i]
           /\ top' \in Nat /\ top' >= top /\ Shallow'
           /\ AccountNonce(Len(blocks)) \in Nat
           /\ AccountNonce(Len(blocks))' =
                IF t # NoTx THEN AccountNonce(Len(blocks)) + 1 ELSE AccountNonce(Len(blocks))
           /\ Numbered' /\ Dense'
<1> DEFINE L == Len(blocks)
<1>1. blocks \in Seq(Txs \cup {NoTx}) /\ top \in Nat /\ Shallow /\ Confirmations \in Nat
  BY ContractAssumption DEF IInv, Shape, TypeOK, ContractAssumption
<1>2. /\ blocks' \in Seq(Txs \cup {NoTx}) /\ Len(blocks') = L + 1 /\ L \in Nat
      /\ \A i \in 1 .. L : blocks'[i] = blocks[i]
      /\ blocks'[L + 1] = t
  BY <1>1
<1>3. ToSet(blocks') \ {NoTx} \subseteq Txs
  <2>1. \A i \in DOMAIN blocks' : blocks'[i] \in Txs \cup {NoTx}
    BY <1>2
  <2> QED BY <2>1 DEF ToSet
<1>4. top' \in Nat /\ top' >= top /\ Shallow'
  BY <1>1, <1>2 DEF Grown, Shallow
<1>5. \A u \in 0 .. L : AccountNonce(u)' = AccountNonce(u) /\ AccountNonce(u) \in Nat
  BY <1>2, PrefixNonces
<1>6. Paid(blocks', L + 1) = IF t # NoTx THEN Paid(blocks', L) + 1 ELSE Paid(blocks', L)
  BY <1>2, PaidStep
<1>7. Paid(blocks', L) = AccountNonce(L) /\ AccountNonce(L) \in Nat
  <2>1. L \in 0 .. L
    BY <1>2
  <2>2. Paid(blocks', L) = Paid(blocks, L)
    BY <1>2, <2>1, PaidSame
  <2> QED BY <1>5, <2>1, <2>2, PaidIsNonce
<1>8. AccountNonce(Len(blocks))' = Paid(blocks', L + 1)
  BY <1>2 DEF AccountNonce, Paid
<1>9. AccountNonce(Len(blocks))' = IF t # NoTx THEN AccountNonce(L) + 1 ELSE AccountNonce(L)
  BY <1>6, <1>7, <1>8
<1>10. Numbered'
  <2> SUFFICES ASSUME NEW i \in 1 .. Len(blocks'), blocks'[i] # NoTx
               PROVE  blocks'[i].nonce = AccountNonce(i - 1)'
    BY DEF Numbered
  <2>1. i - 1 \in 0 .. L
    BY <1>2
  <2>2. AccountNonce(i - 1)' = AccountNonce(i - 1)
    BY <1>5, <2>1
  <2>3. CASE i \in 1 .. L
    BY <1>2, <2>2, <2>3 DEF IInv, Numbered
  <2>4. CASE i = L + 1
    <3>1. i - 1 = L
      BY <1>2, <2>4
    <3> QED BY <1>2, <2>2, <2>4, <3>1
  <2> QED BY <1>2, <2>3, <2>4
<1>11. Dense'
  <2> SUFFICES ASSUME NEW n \in 0 .. AccountNonce(Len(blocks))' - 1
               PROVE  \E i \in 1 .. Len(blocks') : blocks'[i] # NoTx /\ blocks'[i].nonce = n
    BY DEF Dense
  <2>1. CASE n \in 0 .. AccountNonce(L) - 1
    <3>1. PICK i \in 1 .. L : blocks[i] # NoTx /\ blocks[i].nonce = n
      BY <2>1 DEF IInv, Dense
    <3> QED BY <1>2, <3>1
  <2>2. CASE n = AccountNonce(L) /\ t # NoTx
    BY <1>2, <2>2
  <2> QED BY <1>7, <1>9, <2>1, <2>2
<1> QED BY <1>2, <1>3, <1>4, <1>7, <1>9, <1>10, <1>11

\* What was on the chain is on the longer one.
LEMMA LongerKeeps ==
    ASSUME IInv, UNCHANGED <<client, slips>>, Len(blocks) \in Nat, Len(blocks') = Len(blocks) + 1,
           \A i \in 1 .. Len(blocks) : blocks'[i] = blocks[i],
           top' \in Nat, top' >= top
    PROVE  ReceiptHolds' /\ OutOfReach'
<1>0. UNCHANGED <<pc, tx, seen, confirmed>>
  BY DEF client, wait
<1>1. ReceiptHolds'
  BY <1>0 DEF IInv, ReceiptHolds
<1>2. OutOfReach'
  <2> SUFFICES ASSUME "between" \notin slips, NEW b \in DOMAIN confirmed, confirmed[b] = "final"
               PROVE  \E i \in 1 .. Len(blocks') : blocks'[i].batch = b /\ i <= top' - Confirmations
    BY <1>0 DEF OutOfReach
  <2>1. PICK i \in 1 .. Len(blocks) : blocks[i].batch = b /\ i <= top - Confirmations
    BY DEF IInv, OutOfReach
  <2>2. top \in Nat /\ Confirmations \in Nat
    BY ContractAssumption DEF ContractAssumption, IInv, TypeOK
  <2>3. i \in 1 .. Len(blocks') /\ blocks'[i] = blocks[i]
    OBVIOUS
  <2>4. i <= top' - Confirmations
    <3>1. i \in Int /\ top' \in Int /\ top' >= top
      OBVIOUS
    <3>2. i <= top - Confirmations
      BY <2>1
    <3>3. \A x, y, z, c \in Int : x <= y - c /\ z >= y => x <= z - c
      OBVIOUS
    <3>4. top \in Int /\ Confirmations \in Int
      BY <2>2
    <3> QED BY <3>1, <3>2, <3>3, <3>4, Zenon
  <2> QED BY <2>1, <2>3, <2>4
<1> QED BY <1>1, <1>2

LEMMA MineNext ==
    ASSUME IInv, Mine
    PROVE  IInv'
<1>1. PICK t \in pool :
         /\ t.nonce = AccountNonce(Len(blocks))
         /\ blocks' = Append(blocks, t)
         /\ pool' = {o \in pool : o.nonce > t.nonce}
  BY DEF Mine
<1>2. Grown /\ UNCHANGED <<client, fee, slips>>
  BY DEF Mine
<1>3. t \in Txs /\ pool \subseteq Txs /\ t # NoTx
  BY TxFields DEF IInv, TypeOK
<1>4. /\ blocks' \in Seq(Txs \cup {NoTx}) /\ ToSet(blocks') \ {NoTx} \subseteq Txs
      /\ Len(blocks') = Len(blocks) + 1 /\ Len(blocks) \in Nat
      /\ \A i \in 1 .. Len(blocks) : blocks'[i] = blocks[i]
      /\ top' \in Nat /\ top' >= top /\ Shallow'
      /\ AccountNonce(Len(blocks)) \in Nat
      /\ AccountNonce(Len(blocks))' = AccountNonce(Len(blocks)) + 1
      /\ Numbered' /\ Dense'
  BY <1>1, <1>2, <1>3, Longer
<1>5. ReceiptHolds' /\ OutOfReach'
  BY <1>2, <1>4, LongerKeeps
<1>6. ChainOK' /\ SlipsOK'
  BY <1>1, <1>2, <1>3, <1>4 DEF ChainOK, SlipsOK, IInv, TypeOK
<1>7. Shape'
  <2>1. IsFiniteSet(pool) /\ pool' \in SUBSET pool
    BY <1>1 DEF IInv, Shape
  <2>2. IsFiniteSet(pool')
    BY <2>1, FS_Subset, Zenon
  <2> QED BY <1>2, <1>4, <2>2 DEF IInv, Shape
<1>8. ASSUME NEW x \in Int, NoGapBelow(x),
             NEW n \in AccountNonce(Len(blocks)) + 1 .. x - 1
      PROVE  \E o \in pool' : o.nonce = n
  <2>1. n \in AccountNonce(Len(blocks)) .. x - 1
    BY <1>4
  <2>2. PICK o \in pool : o.nonce = n
    BY <1>8, <2>1 DEF NoGapBelow
  <2>3. o.nonce > t.nonce
    BY <1>1, <1>4, <2>2
  <2> QED BY <1>1, <2>2, <2>3
<1>9. TrackedReachable'
  <2>1. lastNonce' = lastNonce /\ lastNonce \in Int
    BY <1>2 DEF client, tracked, IInv, TypeOK, Nothing
  <2> QED BY <1>2, <1>4, <1>8, <2>1 DEF TrackedReachable, NoGapBelow, IInv
<1>10. NoNonceGap'
  <2> SUFFICES ASSUME "evicted" \notin slips, NEW u \in pool',
                      NEW n \in AccountNonce(Len(blocks)) + 1 .. u.nonce - 1
               PROVE  \E o \in pool' : o.nonce = n
    BY <1>2, <1>4 DEF NoNonceGap
  <2>1. u \in pool /\ u.nonce \in Int
    BY <1>1, <1>3, TxFields
  <2>2. NoGapBelow(u.nonce)
    BY <2>1 DEF IInv, NoNonceGap, NoGapBelow
  <2> QED BY <1>8, <2>1, <2>2
<1> QED BY <1>2, <1>4, <1>5, <1>6, <1>7, <1>9, <1>10, ChainStep

LEMMA EmptyBlockNext ==
    ASSUME IInv, EmptyBlock
    PROVE  IInv'
<1>1. blocks' = Append(blocks, NoTx) /\ Grown /\ UNCHANGED <<client, pool, fee, slips>>
  BY DEF EmptyBlock
<1>4. /\ blocks' \in Seq(Txs \cup {NoTx}) /\ ToSet(blocks') \ {NoTx} \subseteq Txs
      /\ Len(blocks') = Len(blocks) + 1 /\ Len(blocks) \in Nat
      /\ \A i \in 1 .. Len(blocks) : blocks'[i] = blocks[i]
      /\ top' \in Nat /\ top' >= top /\ Shallow'
      /\ AccountNonce(Len(blocks))' = AccountNonce(Len(blocks))
      /\ Numbered' /\ Dense'
  BY <1>1, Longer
<1>5. ReceiptHolds' /\ OutOfReach'
  BY <1>1, <1>4, LongerKeeps
<1>6. ChainOK' /\ SlipsOK' /\ Shape'
  BY <1>1, <1>4 DEF ChainOK, SlipsOK, IInv, TypeOK, Shape
<1>7. TrackedReachable' /\ NoNonceGap'
  BY <1>1, <1>4 DEF IInv, TrackedReachable, NoGapBelow, NoNonceGap, client, tracked
<1> QED BY <1>1, <1>4, <1>5, <1>6, <1>7, ChainStep

\* The last blocks are replaced.  Every nonce they had used is in the pool
\* afterwards, and none that the blocks before them had.
LEMMA ReorgNext ==
    ASSUME IInv, Reorg
    PROVE  IInv'
<1>1. PICK n \in 1 .. Confirmations :
         LET kept == Len(blocks) - n
             lost == {blocks[i] : i \in (kept + 1) .. Len(blocks)} \ {NoTx}
         IN  /\ kept >= 0 /\ kept >= top - Confirmations
             /\ blocks' = SubSeq(blocks, 1, kept)
             /\ pool' = pool \cup {t \in lost : ~\E o \in pool : o.nonce = t.nonce}
             /\ slips' = slips \cup {"reorg"}
                  \cup (IF pc = "head" /\ kept < seen THEN {"between"} ELSE {})
                  \cup (IF \E t \in lost : confirmed[t.batch] # "no" THEN {"effect"} ELSE {})
  BY Zenon DEF Reorg
<1> DEFINE L == Len(blocks)
           kept == L - n
           lost == {blocks[i] : i \in (kept + 1) .. L} \ {NoTx}
           added == {t \in lost : ~\E o \in pool : o.nonce = t.nonce}
<1>2. UNCHANGED <<client, fee, top>>
  BY DEF Reorg
<1>3. UNCHANGED <<lastNonce, pc, tx, seen, confirmed>>
  BY <1>2 DEF client, tracked, wait
<1>4. /\ L \in Nat /\ blocks \in Seq(Txs \cup {NoTx}) /\ pool \subseteq Txs /\ IsFiniteSet(pool)
      /\ \A i \in 1 .. L : blocks[i] \in Txs \cup {NoTx}
  BY ChainFields DEF IInv, Shape
<1>5. /\ kept \in 0 .. L /\ kept >= top - Confirmations
      /\ blocks' = SubSeq(blocks, 1, kept) /\ pool' = pool \cup added
  BY <1>1, <1>4
<1>6. /\ slips \subseteq slips' /\ slips' \subseteq slips \cup {"reorg", "between", "effect"}
      /\ ("between" \notin slips' => ~(pc = "head" /\ kept < seen))
  BY <1>1
<1>7. \A t \in lost : t \in Txs /\ \E i \in (kept + 1) .. L : t = blocks[i]
  BY <1>4, <1>5
<1> HIDE DEF lost
<1>8. added \subseteq lost /\ \A t \in lost : \E o \in pool \cup added : o.nonce = t.nonce
  OBVIOUS
<1> HIDE DEF added
<1>9. /\ blocks' \in Seq(Txs \cup {NoTx}) /\ Len(blocks') = kept
      /\ \A i \in 1 .. kept : blocks'[i] = blocks[i]
  <2>1. kept \in Nat /\ kept <= L
    BY <1>4, <1>5
  <2> HIDE DEF kept
  <2> QED BY <1>4, <1>5, <2>1, SubSeqProperties
<1>10. kept \in Nat /\ kept <= L
  BY <1>4, <1>5
<1>11. IsFiniteSet(added)
  <2>1. IsFiniteSet(1 .. L)
    BY <1>4, FS_Interval
  <2>2. IsFiniteSet({blocks[i] : i \in 1 .. L})
    <3> DEFINE f == [i \in 1 .. L |-> blocks[i]]
    <3>1. f \in Surjection(1 .. L, {blocks[i] : i \in 1 .. L})
      BY DEF Surjection
    <3> HIDE DEF f, L
    <3> QED BY <2>1, <3>1, FS_Surjection, Zenon
  <2>3. added \in SUBSET {blocks[i] : i \in 1 .. L}
    <3> SUFFICES ASSUME NEW t \in added PROVE \E i \in 1 .. L : t = blocks[i]
      OBVIOUS
    <3>1. PICK i \in (kept + 1) .. L : t = blocks[i]
      BY <1>7, <1>8
    <3>2. i \in 1 .. L
      BY <1>10
    <3> QED BY <3>1, <3>2
  <2> QED BY <2>2, <2>3, FS_Subset, Zenon
<1> HIDE DEF kept
<1>12. ChainOK' /\ SlipsOK' /\ Shape'
  <2>1. \A i \in DOMAIN blocks' : blocks'[i] \in Txs \cup {NoTx}
    BY <1>9
  <2>2. pool' \subseteq Txs
    BY <1>4, <1>5, <1>7, <1>8
  <2>3. ChainOK'
    BY <1>2, <2>1, <2>2 DEF ChainOK, ToSet, IInv, TypeOK
  <2>4. SlipsOK'
    BY <1>6 DEF SlipsOK, IInv, TypeOK
  <2>5. IsFiniteSet(pool')
    BY <1>4, <1>5, <1>11, FS_Union, Zenon
  <2> QED BY <1>2, <1>9, <2>3, <2>4, <2>5 DEF Shape, IInv
<1>13. Shallow'
  BY <1>2, <1>4, <1>5, <1>9, <1>10, ContractAssumption DEF IInv, Shallow, TypeOK, ContractAssumption
<1>14. ReceiptHolds'
  <2> SUFFICES ASSUME "between" \notin slips', pc = "head"
               PROVE  seen \in 1 .. Len(blocks') /\ blocks'[seen] = tx
    BY <1>3 DEF ReceiptHolds
  <2>1. seen \in 1 .. L /\ blocks[seen] = tx /\ ~(kept < seen)
    BY <1>6 DEF IInv, ReceiptHolds
  <2>2. seen \in 1 .. kept
    BY <1>4, <1>10, <2>1
  <2> QED BY <1>9, <2>1, <2>2
<1>15. OutOfReach'
  <2> SUFFICES ASSUME "between" \notin slips', NEW b \in DOMAIN confirmed, confirmed[b] = "final"
               PROVE  \E i \in 1 .. Len(blocks') : blocks'[i].batch = b /\ i <= top - Confirmations
    BY <1>2, <1>3 DEF OutOfReach
  <2>1. PICK i \in 1 .. L : blocks[i].batch = b /\ i <= top - Confirmations
    BY <1>6 DEF IInv, OutOfReach
  <2>2. i \in 1 .. kept
    BY <1>4, <1>5, <1>10, <2>1, ContractAssumption DEF IInv, TypeOK, ContractAssumption
  <2> QED BY <1>9, <2>1, <2>2
<1>16. \A u \in 0 .. kept : AccountNonce(u)' = AccountNonce(u) /\ AccountNonce(u) \in Nat
  BY <1>9, <1>10, PrefixNonces
<1>17. AccountNonce(Len(blocks))' = AccountNonce(kept)
  <2>1. kept \in 0 .. kept
    BY <1>10
  <2>2. AccountNonce(Len(blocks))' = Paid(blocks', kept)
    BY <1>9 DEF AccountNonce, Paid
  <2>3. Paid(blocks', kept) = Paid(blocks, kept)
    BY <1>9, <1>10, <2>1, PaidSame
  <2> QED BY <2>2, <2>3, PaidIsNonce
<1>18. \A i \in 1 .. L : blocks[i] # NoTx => blocks[i].nonce = AccountNonce(i - 1)
  BY DEF IInv, Numbered
<1>19. \A v \in Nat : AccountNonce(v) \in Nat
  BY PaidIsNonce, PaidFinite
<1>20. \A u, v \in Nat : u <= v => AccountNonce(u) <= AccountNonce(v)
  BY PaidIsNonce, PaidMonotone
<1>21. Numbered'
  <2> SUFFICES ASSUME NEW i \in 1 .. kept, blocks'[i] # NoTx
               PROVE  blocks'[i].nonce = AccountNonce(i - 1)'
    BY <1>9 DEF Numbered
  <2>1. i - 1 \in 0 .. kept /\ i \in 1 .. L
    BY <1>4, <1>10
  <2>2. AccountNonce(i - 1)' = AccountNonce(i - 1)
    BY <1>16, <2>1
  <2> QED BY <1>9, <1>18, <2>1, <2>2
<1>22. Dense'
  <2> SUFFICES ASSUME NEW m \in 0 .. AccountNonce(kept) - 1
               PROVE  \E i \in 1 .. kept : blocks'[i] # NoTx /\ blocks'[i].nonce = m
    BY <1>9, <1>17 DEF Dense
  <2>1. m \in 0 .. AccountNonce(L) - 1
    BY <1>4, <1>10, <1>19, <1>20
  <2>2. PICK i \in 1 .. L : blocks[i] # NoTx /\ blocks[i].nonce = m
    BY <2>1 DEF IInv, Dense
  <2>3. i <= kept
    <3> SUFFICES ASSUME i > kept PROVE FALSE
      BY <1>4, <1>10
    <3>1. i - 1 \in Nat /\ kept <= i - 1
      BY <1>4, <1>10
    <3>2. AccountNonce(kept) <= AccountNonce(i - 1)
      BY <1>10, <1>20, <3>1
    <3>3. AccountNonce(i - 1) = m
      BY <1>18, <2>2
    <3> QED BY <1>10, <1>19, <3>2, <3>3
  <2>4. i \in 1 .. kept
    BY <1>4, <1>10, <2>3
  <2> QED BY <1>9, <2>2, <2>4
<1>23. ASSUME NEW m \in AccountNonce(kept) .. AccountNonce(L) - 1
       PROVE  \E o \in pool' : o.nonce = m
  <2>1. m \in 0 .. AccountNonce(L) - 1
    BY <1>4, <1>10, <1>19
  <2>2. PICK i \in 1 .. L : blocks[i] # NoTx /\ blocks[i].nonce = m
    BY <2>1 DEF IInv, Dense
  <2>3. i > kept
    <3> SUFFICES ASSUME i <= kept PROVE FALSE
      BY <1>4, <1>10
    <3>1. i - 1 \in Nat /\ i \in Nat /\ i = (i - 1) + 1
      BY <1>4
    <3>2. AccountNonce(i - 1) = m
      BY <1>18, <2>2
    <3>3. Paid(blocks, (i - 1) + 1) = Paid(blocks, i - 1) + 1
      BY <2>2, <3>1, PaidStep
    <3>4. AccountNonce(i) = AccountNonce(i - 1) + 1
      BY <3>1, <3>3, PaidIsNonce
    <3>5. AccountNonce(i) <= AccountNonce(kept)
      BY <1>10, <1>20, <3>1
    <3> QED BY <1>10, <1>19, <3>1, <3>2, <3>4, <3>5
  <2>4. i \in (kept + 1) .. L
    BY <1>4, <1>10, <2>3
  <2>5. blocks[i] \in lost
    BY <2>2, <2>4 DEF lost, kept
  <2> QED BY <1>5, <1>8, <2>2, <2>5
<1>24. ASSUME NEW x \in Int, NoGapBelow(x), NEW m \in AccountNonce(kept) .. x - 1
       PROVE  \E o \in pool' : o.nonce = m
  <2>1. CASE m \in AccountNonce(kept) .. AccountNonce(L) - 1
    BY <1>23, <2>1
  <2>2. CASE m \in AccountNonce(L) .. x - 1
    BY <1>5, <1>24, <2>2 DEF NoGapBelow
  <2> QED BY <1>4, <1>10, <1>19, <2>1, <2>2
<1>25. "evicted" \notin slips' => "evicted" \notin slips
  BY <1>6
<1>26. TrackedReachable'
  <2>1. lastNonce \in Int
    BY DEF IInv, TypeOK, Nothing
  <2> QED BY <1>3, <1>17, <1>24, <1>25, <2>1 DEF IInv, TrackedReachable, NoGapBelow
<1>27. NoNonceGap'
  <2> SUFFICES ASSUME "evicted" \notin slips, NEW t \in pool',
                      NEW m \in AccountNonce(kept) .. t.nonce - 1
               PROVE  \E o \in pool' : o.nonce = m
    BY <1>17, <1>25 DEF NoNonceGap
  <2>1. CASE t \in pool
    <3>1. t.nonce \in Int
      BY <1>4, <2>1, TxFields
    <3>2. NoGapBelow(t.nonce)
      BY <2>1 DEF IInv, NoNonceGap, NoGapBelow
    <3> QED BY <1>24, <3>1, <3>2
  <2>2. CASE t \in lost
    <3>1. PICK i \in (kept + 1) .. L : t = blocks[i]
      BY <1>7, <2>2
    <3>2. t \in Txs /\ t # NoTx /\ i \in 1 .. L
      BY <1>7, <1>10, <2>2, TxFields
    <3>3. t.nonce = AccountNonce(i - 1)
      BY <1>18, <3>1, <3>2
    <3>4. i - 1 \in Nat /\ i - 1 <= L
      BY <1>4, <3>2
    <3>5. AccountNonce(i - 1) <= AccountNonce(L)
      BY <1>4, <1>20, <3>4
    <3>6. m \in AccountNonce(kept) .. AccountNonce(L) - 1
      BY <1>4, <1>10, <1>19, <3>3, <3>4, <3>5
    <3> QED BY <1>23, <3>6
  <2> QED BY <1>5, <1>8, <2>1, <2>2
<1> QED BY <1>2, <1>12, <1>13, <1>14, <1>15, <1>21, <1>22, <1>26, <1>27, ChainStep

\* A node forgets a transaction, or the fee rises.
LEMMA PoolNext ==
    ASSUME IInv, Evict \/ FeeRises
    PROVE  IInv'
<1>1. UNCHANGED <<client, blocks, top>>
  BY DEF Evict, FeeRises
<1>2. UNCHANGED <<pc, tx, seen, confirmed, lastNonce>>
  BY <1>1 DEF client, tracked, wait
<1>3. Shallow' /\ Numbered' /\ Dense'
  BY <1>1 DEF IInv, Shallow, Numbered, Dense, AccountNonce
<1>4. CASE Evict
  <2>1. PICK t \in pool : pool' = pool \ {t}
    BY <1>4 DEF Evict
  <2>2. slips' = slips \cup {"evicted"} /\ UNCHANGED fee
    BY <1>4 DEF Evict
  <2>3. ChainOK' /\ SlipsOK'
    BY <1>1, <2>1, <2>2 DEF ChainOK, SlipsOK, IInv, TypeOK
  <2>4. Shape'
    <3>1. IsFiniteSet(pool) /\ pool' \in SUBSET pool
      BY <2>1 DEF IInv, Shape
    <3>2. IsFiniteSet(pool')
      BY <3>1, FS_Subset, Zenon
    <3> QED BY <1>1, <2>2, <3>2 DEF IInv, Shape
  <2>5. ReceiptHolds' /\ OutOfReach'
    BY <1>1, <1>2, <2>2 DEF IInv, ReceiptHolds, OutOfReach
  <2>6. TrackedReachable' /\ NoNonceGap'
    BY <2>2 DEF TrackedReachable, NoNonceGap
  <2> QED BY <1>1, <1>3, <2>3, <2>4, <2>5, <2>6, ChainStep
<1>5. CASE FeeRises
  <2>1. UNCHANGED <<pool, slips>> /\ fee' = HighFee
    BY <1>5 DEF FeeRises
  <2>2. ChainOK' /\ SlipsOK' /\ Shape'
    BY <1>1, <2>1, ContractAssumption DEF ChainOK, SlipsOK, Shape, IInv, TypeOK, ContractAssumption
  <2>3. ReceiptHolds' /\ OutOfReach'
    BY <1>1, <1>2, <2>1 DEF IInv, ReceiptHolds, OutOfReach
  <2>4. TrackedReachable' /\ NoNonceGap'
    BY <1>1, <1>2, <2>1 DEF IInv, TrackedReachable, NoGapBelow, NoNonceGap, AccountNonce
  <2> QED BY <1>1, <1>3, <2>2, <2>3, <2>4, ChainStep
<1> QED BY <1>4, <1>5

-----------------------------------------------------------------------------
LEMMA NextInv == IInv /\ [Next]_vars => IInv'
<1> SUFFICES ASSUME IInv, [Next]_vars PROVE IInv'
  OBVIOUS
<1>1. CASE Next
  BY <1>1, CheckNext, FailureNext, TransactorNext, SendNext, MinedNext, PollReceiptNext, PollHeadNext,
     PollFailsNext, EndpointNext, CrashNext, MineNext, EmptyBlockNext, ReorgNext, PoolNext
  DEF Next, Cycle
<1>2. CASE UNCHANGED vars
  <2>1. UNCHANGED <<chainVars, tracked, pc, tx, seen, streak, confirmed, slips, nodes, waitOn>>
    BY <1>2 DEF vars, wait
  <2>2. NodesOK'
    BY <2>1, SameNodes
  <2> QED BY <2>1, <2>2, EndpointStep
<1> QED BY <1>1, <1>2

LEMMA Inductive == Spec => []IInv
<1>1. Init => IInv
  BY InitInv
<1>2. IInv /\ [Next]_vars => IInv'
  BY NextInv
<1> QED BY <1>1, <1>2, PTL DEF Spec

\* The state of contract.go and of resumePending keeps its types: the price and
\* the nonce that transactor records, the active endpoint, the streak of polls.
THEOREM TypeCorrect == Spec => []TypeOK
<1>1. IInv => TypeOK
  BY DEF IInv
<1> QED BY <1>1, Inductive, PTL

\* What waitForFinality (contract.go) calls final stays on the chain, for every
\* confirmation depth: nodes may lag, receipts move and reorganisations of that
\* depth happen at any time.
THEOREM FinalBatchesStay == Spec => []FinalStays
<1>1. IInv => FinalStays
  <2> SUFFICES ASSUME IInv, "between" \notin slips, NEW b \in DOMAIN confirmed, confirmed[b] = "final"
               PROVE  Processed(b, Len(blocks))
    BY DEF FinalStays
  <2> QED BY DEF IInv, OutOfReach, Processed
<1> QED BY <1>1, Inductive, PTL

\* decideNonceGas and transactor (contract.go) never leave a hole in the nonces,
\* over restarts, replacements, reorganisations and nodes that lag.
THEOREM NoncesHaveNoGap == Spec => []NoNonceGap
<1>1. IInv => NoNonceGap
  BY DEF IInv
<1> QED BY <1>1, Inductive, PTL
=============================================================================
