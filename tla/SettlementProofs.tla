-------------------------- MODULE SettlementProofs --------------------------
(* Theorems about Settlement, for every set of wallets, SPs, workers and      *)
(* requests, every bound and every choice of faults.                          *)
EXTENDS SettlementInvariant, FiniteSetTheorems, NaturalsInduction,
        WellFoundedInduction, TLAPS

-----------------------------------------------------------------------------
(* Sums and sets of lines.                                                   *)

\* The units that SumOver counts form a finite set.
LEMMA UnitsFinite ==
    ASSUME NEW S, IsFiniteSet(S), NEW f, \A x \in S : f[x] \in Nat
    PROVE  IsFiniteSet(UNION {{x} \X (1 .. f[x]) : x \in S})
<1> DEFINE G == [x \in S |-> {x} \X (1 .. f[x])]
           T == {{x} \X (1 .. f[x]) : x \in S}
<1>1. G \in Surjection(S, T)
  BY DEF Surjection
<1>2. IsFiniteSet(T)
  BY <1>1, FS_Surjection
<1>3. \A U \in T : IsFiniteSet(U)
  <2>1. SUFFICES ASSUME NEW x \in S PROVE IsFiniteSet({x} \X (1 .. f[x]))
    OBVIOUS
  <2>2. IsFiniteSet({x})
    BY FS_Singleton
  <2>3. IsFiniteSet(1 .. f[x])
    <3>1. f[x] \in Int /\ 1 \in Int
      OBVIOUS
    <3> HIDE DEF G, T
    <3> QED BY <3>1, FS_Interval
  <2> QED BY <2>2, <2>3, FS_Product
<1> QED BY <1>2, <1>3, FS_UNION

\* A sum of naturals over a finite set is a natural.
LEMMA SumOverType ==
    ASSUME NEW S, IsFiniteSet(S), NEW f, \A x \in S : f[x] \in Nat
    PROVE  SumOver(f, S) \in Nat
BY UnitsFinite, FS_CardinalityType DEF SumOver

LEMMA KeysFinite == IsFiniteSet(Keys) /\ \A S \in SUBSET Keys : IsFiniteSet(S)
BY SettlementAssumption, FS_Product, FS_Subset DEF Keys

\* The request set is finite, so every finite set of lines costs a natural.
LEMMA UsageType ==
    ASSUME NEW L, IsFiniteSet(L), NEW k
    PROVE  /\ IsFiniteSet({u \in L \X (1 .. MaxCost) :
                              KeyOf(u[1][1]) = k /\ u[2] <= CostOf[u[1][1]]})
           /\ Usage(L, k) \in Nat
<1>a. MaxCost \in Int /\ 1 \in Int
  BY SettlementAssumption
<1>b. IsFiniteSet(1 .. MaxCost)
  BY <1>a, FS_Interval
<1>1. IsFiniteSet(L \X (1 .. MaxCost))
  BY <1>b, FS_Product
<1> DEFINE C == {u \in L \X (1 .. MaxCost) : KeyOf(u[1][1]) = k /\ u[2] <= CostOf[u[1][1]]}
<1>2. C \in SUBSET (L \X (1 .. MaxCost))
  OBVIOUS
<1> HIDE DEF C
<1>3. IsFiniteSet(C)
  BY <1>1, <1>2, FS_Subset
<1>4. Cardinality(C) \in Nat
  BY <1>3, FS_CardinalityType
<1> QED BY <1>3, <1>4 DEF Usage, C

LEMMA OnceFinite == \A S \in SUBSET Requests : IsFiniteSet(Once(S))
<1>1. SUFFICES ASSUME NEW S \in SUBSET Requests PROVE IsFiniteSet(S \X {0})
  BY DEF Once
<1>2. IsFiniteSet(S) /\ IsFiniteSet({0})
  BY SettlementAssumption, FS_Subset, FS_Singleton
<1> QED BY <1>2, FS_Product

-----------------------------------------------------------------------------
(* Type correctness.                                                         *)

\* A line read from the log, and everything a cycle works on, is a line; the
\* input is finite.
LEMMA InputType ==
    ASSUME TypeOK
    PROVE  Input \subseteq Lines /\ IsFiniteSet(Input)
<1>1. \A r \in Requests : FreshLine(r) \in Lines
  <2>1. SUFFICES ASSUME NEW r \in Requests
                 PROVE  Cardinality({l \in dl : l[1] = r}) \in Nat
    BY DEF FreshLine, Lines
  <2>2. {l \in dl : l[1] = r} \in SUBSET dl /\ IsFiniteSet(dl)
    BY DEF TypeOK
  <2>3. IsFiniteSet({l \in dl : l[1] = r})
    BY <2>2, FS_Subset
  <2> QED BY <2>3, FS_CardinalityType
<1> DEFINE D == log \ cursor
           T == {FreshLine(r) : r \in D}
           G == [r \in D |-> FreshLine(r)]
<1>2. D \in SUBSET Requests
  BY DEF TypeOK
<1>3. IsFiniteSet(D)
  BY <1>2, SettlementAssumption, FS_Subset
<1>4. G \in Surjection(D, T)
  BY DEF Surjection
<1>5. IsFiniteSet(T)
  BY <1>3, <1>4, FS_Surjection
<1>6. IsFiniteSet(dl \cup T)
  <2> HIDE DEF T
  <2> QED BY <1>5, FS_Union DEF TypeOK
<1>7. T \subseteq Lines
  BY <1>1, <1>2
<1> QED BY <1>6, <1>7 DEF Input, TypeOK

LEMMA OwedType ==
    ASSUME TypeOK, NEW U, NEW k \in Keys
    PROVE  Owed(U, k) \in Nat /\ OwedRids(U, k) \in SUBSET Requests
<1>1. Resolved(U) \in SUBSET Input
  BY DEF Resolved
<1>2. Usage(Resolved(U), k) \in Nat
  BY <1>1, InputType, FS_Subset, UsageType
<1>3. debts[k] \in Debt
  BY DEF TypeOK
<1>4. \A l \in Resolved(U) : l[1] \in Requests
  BY <1>1, InputType DEF Lines
<1> QED BY <1>2, <1>3, <1>4 DEF Owed, OwedRids, Debt

LEMMA AllocatedType ==
    ASSUME TypeOK, NEW U, NEW seen \in Balances, NEW k \in Keys
    PROVE  Allocated(U, seen, k) \in Nat /\ Allocated(U, seen, k) <= Owed(U, k)
<1> DEFINE E == {j \in KeysOf(k[1]) : Before(j, k)}
           f == [j \in E |-> Owed(U, j)]
<1>1. E \in SUBSET Keys
  BY DEF KeysOf
<1>2. IsFiniteSet(E)
  BY <1>1, KeysFinite
<1>3. \A j \in E : f[j] \in Nat
  BY <1>1, OwedType
<1>4. SumOver(f, E) \in Nat
  <2> HIDE DEF E, f
  <2> QED BY <1>2, <1>3, SumOverType
<1>5. seen[k[1]] \in Nat
  <2>1. k[1] \in Wallets
    BY DEF Keys
  <2>2. seen \in [Wallets -> 0 .. MaxBalance]
    BY DEF Balances
  <2> QED BY <2>1, <2>2
<1>6. Owed(U, k) \in Nat
  BY OwedType
<1>7. Allocated(U, seen, k) = AtMost(Owed(U, k), Floor(seen[k[1]] - SumOver(f, E)))
  BY DEF Allocated
<1> HIDE DEF E, f
<1> QED BY <1>4, <1>5, <1>6, <1>7 DEF AtMost, Floor

LEMMA NewPlanType ==
    ASSUME TypeOK, NEW U, NEW seen \in Balances
    PROVE  NewPlan(U, seen) \in Plan
<1> DEFINE pay == [k \in Keys |-> Allocated(U, seen, k)]
           settled == [w \in Wallets |-> SumOver(pay, KeysOf(w))]
           debt == [k \in Keys |->
                      IF pay[k] < Owed(U, k)
                      THEN [usd |-> Owed(U, k) - pay[k], rids |-> OwedRids(U, k)]
                      ELSE NoDebt]
<1>1. pay \in [Keys -> Nat]
  BY AllocatedType
<1>2. settled \in [Wallets -> Nat]
  <2>1. \A w \in Wallets : IsFiniteSet(KeysOf(w)) /\ \A k \in KeysOf(w) : pay[k] \in Nat
    BY <1>1, KeysFinite DEF KeysOf
  <2> HIDE DEF pay
  <2> QED BY <2>1, SumOverType
<1>3. debt \in [Keys -> Debt]
  <2>1. \A k \in Keys : /\ pay[k] \in Nat
                         /\ Owed(U, k) \in Nat
                         /\ OwedRids(U, k) \in SUBSET Requests
    BY <1>1, OwedType
  <2> HIDE DEF pay
  <2> QED BY <2>1 DEF Debt, NoDebt
<1>4. [k \in Keys |-> OwedRids(U, k)] \in [Keys -> SUBSET Requests]
  BY OwedType
<1>5. {l[1] : l \in Input} \in SUBSET Requests
  BY InputType DEF Lines
<1>6. cycle + 1 \in Nat /\ log \in SUBSET Requests
  BY DEF TypeOK
<1>7. NewPlan(U, seen) =
        [id |-> cycle + 1, cursor |-> log, pay |-> pay,
         rids |-> [k \in Keys |-> OwedRids(U, k)], recs |-> {l[1] : l \in Input},
         settled |-> settled, debts |-> debt, done |-> 0]
  BY DEF NewPlan
<1> HIDE DEF pay, settled, debt
<1> QED BY <1>1, <1>2, <1>3, <1>4, <1>5, <1>6, <1>7 DEF Plan

LEMMA NoWALType == NoWAL \in Plan
BY DEF NoWAL, Plan, Debt, NoDebt

LEMMA DetailsHashType ==
    ASSUME NEW p \in Plan, NEW b
    PROVE  DetailsHash(p, b) \in Hashes
<1>1. p.pay \in [Keys -> Nat] /\ p.rids \in [Keys -> SUBSET Requests]
  BY DEF Plan
<1>2. BatchKeys(p, b) \subseteq Keys
  BY DEF BatchKeys, Items
<1>3. UNION {p.rids[k] : k \in BatchKeys(p, b)} \subseteq Requests
  BY <1>1, <1>2
<1> HIDE DEF BatchKeys
<1>4. [k \in Keys |-> IF k \in BatchKeys(p, b) THEN p.pay[k] ELSE 0] \in [Keys -> Nat]
  BY <1>1
<1> QED BY <1>3, <1>4 DEF DetailsHash, Hashes

LEMMA ReversedType ==
    ASSUME NEW p \in Plan, NEW F \in SUBSET Keys
    PROVE  /\ Reversed(p, F) \in Plan
           /\ LessFailed(p, F) \in [Wallets -> Nat]
           /\ PlusFailed(p, F) \in [Keys -> Debt]
<1>1. LessFailed(p, F) \in [Wallets -> Nat]
  <2>1. SUFFICES ASSUME NEW w \in Wallets
                 PROVE  Floor(p.settled[w] - SumOver(p.pay, F \cap KeysOf(w))) \in Nat
    BY DEF LessFailed
  <2>2. IsFiniteSet(F \cap KeysOf(w))
    BY KeysFinite
  <2>3. \A k \in F \cap KeysOf(w) : p.pay[k] \in Nat
    BY DEF Plan
  <2>4. SumOver(p.pay, F \cap KeysOf(w)) \in Nat
    BY <2>2, <2>3, SumOverType
  <2>5. p.settled[w] \in Nat
    BY DEF Plan
  <2> QED BY <2>4, <2>5 DEF Floor
<1>2. PlusFailed(p, F) \in [Keys -> Debt]
  BY DEF PlusFailed, Plan, Debt
<1> QED BY <1>1, <1>2 DEF Reversed, Plan

LEMMA TypeStep ==
    ASSUME TypeOK, [Next]_vars
    PROVE  TypeOK'
<1> USE NoWALType
<1>0. IsFiniteSet({})
  BY FS_EmptySet
<1> USE DEF TypeOK, Others, files, memory, chain, ghosts, Goto, WriteFails, Pcs, Origins, Slips
<1>1. CASE Boot
  BY <1>1 DEF Boot
<1>2. CASE SettleBegin
  BY <1>2 DEF SettleBegin
<1>3. CASE NothingPending
  BY <1>3 DEF NothingPending, Returned
<1>4. CASE Dedup
  <2>1. wal' \in Plan
    BY <1>4 DEF Dedup, Current, Plan
  <2>2. slips' \subseteq Slips
    BY <1>4 DEF Dedup
  <2> QED BY <1>4, <2>1, <2>2 DEF Dedup
<1>5. CASE Submit
  <2>1. DetailsHash(wal, Current(wal)) \in Hashes /\ wal.id \in Nat
    BY DetailsHashType DEF Plan
  <2> QED BY <1>5, <2>1 DEF Submit, Txs
<1>6. CASE Receipt
  BY <1>6 DEF Receipt, On, Entries
<1>7. CASE Final
  BY <1>7 DEF Final, On, Entries
<1>8. CASE Vanished
  BY <1>8 DEF Vanished
<1>9. CASE Confirm
  <2>1. Reversed(wal, receipt) \in Plan /\ Current(wal) \in Nat
    BY ReversedType DEF Current, Plan
  <2>2. wal' \in Plan
    BY <1>9, <2>1 DEF Confirm, Plan
  <2> QED BY <1>9, <2>2 DEF Confirm
<1>10. CASE Ledger
  <2>1. DetailsHash(wal, Latest(wal)) \in Hashes
    BY DetailsHashType
  <2>2. faults' \in Nat
    BY <1>10 DEF Ledger
  <2>3. slips' \subseteq Slips
    BY <1>10 DEF Ledger
  <2>4. ledger' \subseteq Hashes
    BY <1>10, <2>1 DEF Ledger
  <2> QED BY <1>10, <2>2, <2>3, <2>4 DEF Ledger
<1>11. CASE Commit
  <2>1. wal.cursor \in SUBSET Requests /\ wal.settled \in [Wallets -> Nat]
    BY DEF Plan
  <2>2. pending' \in [Wallets -> Nat]
    BY <1>11, <2>1 DEF Commit, Floor
  <2> QED BY <1>11, <2>1, <2>2 DEF Commit
<1>12. CASE AddSettledTotal
  <2>1. SumOver(wal.settled, Wallets) \in Nat
    BY SettlementAssumption, SumOverType DEF Plan
  <2>2. Added(total, wal) \in [usd : Nat, last : Nat]
    BY <2>1 DEF Added, Plan
  <2>3. faults' \in Nat
    BY <1>12 DEF AddSettledTotal
  <2>4. slips' \subseteq Slips
    BY <1>12 DEF AddSettledTotal
  <2>5. total' \in [usd : Nat, last : Nat]
    BY <1>12, <2>2 DEF AddSettledTotal
  <2> QED BY <1>12, <2>3, <2>4, <2>5 DEF AddSettledTotal
<1>13. CASE SaveDebts
  <2>1. faults' \in Nat
    BY <1>13 DEF SaveDebts
  <2>2. slips' \subseteq Slips
    BY <1>13 DEF SaveDebts
  <2>3. debts' \in [Keys -> Debt]
    BY <1>13 DEF SaveDebts, Plan
  <2> QED BY <1>13, <2>1, <2>2, <2>3 DEF SaveDebts
<1>14. CASE RemoveWAL
  BY <1>14 DEF RemoveWAL, Returned
<1>15. CASE Abort
  BY <1>0, <1>15 DEF Abort, Failed
<1>16. CASE Restore
  <2>1. \A k \in Keys : Unsettled(k) \in Nat
    <3>1. SUFFICES ASSUME NEW k \in Keys PROVE Unsettled(k) \in Nat
      OBVIOUS
    <3>2. IsFiniteSet(Once(log \ cursor))
      BY OnceFinite
    <3>3. Usage(dl, k) \in Nat /\ Usage(Once(log \ cursor), k) \in Nat
      BY <3>2, UsageType
    <3> QED BY <3>3 DEF Unsettled, Debt
  <2>2. \A k \in Keys : debts[k].usd + Usage(dl, k) \in Nat
    <3>1. SUFFICES ASSUME NEW k \in Keys PROVE debts[k].usd + Usage(dl, k) \in Nat
      OBVIOUS
    <3>2. Usage(dl, k) \in Nat
      BY UsageType
    <3> QED BY <3>2 DEF Debt
  <2> DEFINE u == [k \in Keys |-> Unsettled(k)]
             v == [k \in Keys |-> debts[k].usd + Usage(dl, k)]
  <2>3. \A w \in Wallets : /\ IsFiniteSet(KeysOf(w))
                          /\ \A k \in KeysOf(w) : u[k] \in Nat /\ v[k] \in Nat
    BY <2>1, <2>2, KeysFinite DEF KeysOf
  <2>4. \/ /\ pending' = [w \in Wallets |-> pending[w] + SumOver(u, KeysOf(w))]
           /\ faults' = faults /\ slips' \subseteq Slips
        \/ /\ pending' = [w \in Wallets |-> pending[w] + SumOver(v, KeysOf(w))]
           /\ faults' = faults + 1 /\ slips' \subseteq Slips
    BY <1>16 DEF Restore
  <2>5. pending' \in [Wallets -> Nat] /\ faults' \in Nat /\ slips' \subseteq Slips
    <3> HIDE DEF u, v
    <3>1. CASE pending' = [w \in Wallets |-> pending[w] + SumOver(u, KeysOf(w))]
      BY <2>3, <2>4, <3>1, SumOverType
    <3>2. CASE pending' = [w \in Wallets |-> pending[w] + SumOver(v, KeysOf(w))]
      BY <2>3, <2>4, <3>2, SumOverType
    <3> QED BY <2>4, <3>1, <3>2
  <2> HIDE DEF u, v
  <2> QED BY <1>16, <2>5 DEF Restore
<1>17. CASE Skip
  BY <1>17 DEF Skip
<1>18. CASE Aggregate
  <2>1. PICK U \in SUBSET MayUnmap, seen \in Balances :
          /\ plan' = NewPlan(U, seen)
          /\ \/ dl' = Unresolved(U) /\ UNCHANGED <<slips, faults>>
             \/ /\ WriteFails
                /\ slips' = IF dl = Unresolved(U) THEN slips
                            ELSE slips \cup {"deadLetterNotSaved"}
                /\ UNCHANGED dl
    BY <1>18 DEF Aggregate
  <2>2. plan' \in Plan
    BY <2>1, NewPlanType
  <2>3. Unresolved(U) \subseteq Input
    BY DEF Unresolved
  <2>4. dl' \subseteq Lines /\ IsFiniteSet(dl')
    BY <2>1, <2>3, InputType, FS_Subset
  <2>5. slips' \subseteq Slips
    BY <2>1
  <2>6. faults' \in Nat
    BY <2>1
  <2> QED BY <1>18, <2>2, <2>4, <2>5, <2>6 DEF Aggregate
<1>19. CASE WritePending
  BY <1>0, <1>19 DEF WritePending
<1>20. CASE \E t \in mempool : Mine(t)
  <2>1. PICK t \in mempool : Mine(t)
    BY <1>20
  <2>2. t.hash \in Hashes /\ t.id \in Nat
    BY DEF Txs
  <2>3. t.hash.pay \in [Keys -> Nat]
    BY <2>2 DEF Hashes
  <2>4. paid' \in [Keys -> Int]
    BY <2>1, <2>3 DEF Mine
  <2>5. Items(t.hash) \subseteq Keys
    BY DEF Items
  <2>6. processed' \subseteq Entries
    <3>1. CASE On(t.hash) # {}
      BY <2>1, <3>1 DEF Mine
    <3>2. CASE On(t.hash) = {}
      <4>1. PICK F \in SUBSET Items(t.hash) : processed' = processed \cup
              {[hash |-> t.hash, id |-> t.id, failed |-> F, deep |-> FALSE]}
        BY <2>1, <3>2 DEF Mine
      <4>2. F \in SUBSET Keys
        BY <2>5
      <4>3. [hash |-> t.hash, id |-> t.id, failed |-> F, deep |-> FALSE] \in Entries
        BY <2>2, <4>2 DEF Entries
      <4> QED BY <4>1, <4>3
    <3> QED BY <3>1, <3>2
  <2> QED BY <2>1, <2>4, <2>6 DEF Mine
<1>21. CASE \E t \in mempool : Drop(t)
  BY <1>21 DEF Drop
<1>22. CASE \E e \in processed : Bury(e)
  <2>1. PICK e \in processed : Bury(e)
    BY <1>22
  <2>2. [e EXCEPT !.deep = TRUE] \in Entries
    BY DEF Entries
  <2> QED BY <2>1, <2>2 DEF Bury
<1>23. CASE \E e \in processed : Reorg(e)
  <2>1. PICK e \in processed : Reorg(e)
    BY <1>23
  <2>2. e.hash \in Hashes /\ e.id \in Nat /\ e.hash.pay \in [Keys -> Nat]
    BY DEF Hashes, Entries
  <2>3. paid' \in [Keys -> Int]
    BY <2>1, <2>2 DEF Reorg
  <2> QED BY <2>1, <2>2, <2>3 DEF Reorg, Txs
<1>24. CASE \E r \in Requests : Serve(r)
  <2>1. PICK r \in Requests : Serve(r)
    BY <1>24
  <2>2. WalletOf[r] \in Wallets /\ CostOf[r] \in Nat
    BY SettlementAssumption
  <2> QED BY <2>1, <2>2 DEF Serve
<1>25. CASE Crash
  BY <1>0, <1>25 DEF Crash
<1>26. CASE UNCHANGED vars
  BY <1>26 DEF vars
<1> QED
  BY <1>1, <1>2, <1>3, <1>4, <1>5, <1>6, <1>7, <1>8, <1>9, <1>10, <1>11, <1>12, <1>13,
     <1>14, <1>15, <1>16, <1>17, <1>18, <1>19, <1>20, <1>21, <1>22, <1>23, <1>24, <1>25,
     <1>26 DEF Next, Settler, Environment

\* Every variable keeps the type of the file, field or chain state it stands for,
\* through every interleaving of the settler, the chain and faults.
THEOREM TypeCorrect == Spec => []TypeOK
<1>1. Init => TypeOK
  BY NoWALType, FS_EmptySet
     DEF Init, TypeOK, NoDebt, Debt, Pcs, Origins, Slips
<1>2. TypeOK /\ [Next]_vars => TypeOK'
  BY TypeStep
<1> QED BY <1>1, <1>2, PTL DEF Spec

-----------------------------------------------------------------------------
(* The accounts.                                                             *)

\* What two separate sets of lines cost together.
LEMMA UsageSplit ==
    ASSUME NEW A, IsFiniteSet(A), NEW B, IsFiniteSet(B), A \cap B = {}, NEW k
    PROVE  Usage(A \cup B, k) = Usage(A, k) + Usage(B, k)
<1> DEFINE C(L) == {u \in L \X (1 .. MaxCost) :
                        KeyOf(u[1][1]) = k /\ u[2] <= CostOf[u[1][1]]}
<1>1. IsFiniteSet(C(A)) /\ IsFiniteSet(C(B))
  BY UsageType
<1>2. C(A \cup B) = C(A) \cup C(B) /\ C(A) \cap C(B) = {}
  OBVIOUS
<1>3. Cardinality(C(A)) \in Nat /\ Cardinality(C(B)) \in Nat
  <2> HIDE DEF C
  <2> QED BY <1>1, FS_CardinalityType
<1>4. Cardinality(C(A) \cup C(B)) = Cardinality(C(A)) + Cardinality(C(B)) - Cardinality(C(A) \cap C(B))
  <2> HIDE DEF C
  <2> QED BY <1>1, FS_Union
<1>5. Cardinality(C(A) \cap C(B)) = 0
  BY <1>2, FS_EmptySet
<1>6. Cardinality(C(A \cup B)) = Cardinality(C(A) \cup C(B))
  BY <1>2
<1>7. Cardinality(C(A \cup B)) = Cardinality(C(A)) + Cardinality(C(B))
  <2> HIDE DEF C
  <2> QED BY <1>3, <1>4, <1>5, <1>6
<1> QED BY <1>7 DEF Usage

\* More lines cost no less.
LEMMA UsageMonotone ==
    ASSUME NEW B, IsFiniteSet(B), NEW A \in SUBSET B, NEW k
    PROVE  Usage(A, k) <= Usage(B, k)
<1>1. IsFiniteSet(A) /\ IsFiniteSet(B \ A)
  BY FS_Subset
<1>2. Usage(A \cup (B \ A), k) = Usage(A, k) + Usage(B \ A, k)
  BY <1>1, UsageSplit
<1>3. Usage(A \cup (B \ A), k) = Usage(B, k)
  <2>1. A \cup (B \ A) = B
    OBVIOUS
  <2> QED BY <2>1
<1>4. Usage(A, k) \in Nat /\ Usage(B \ A, k) \in Nat
  BY <1>1, UsageType
<1> QED BY <1>2, <1>3, <1>4

\* Batch numbers are integers, and batch b of p pays exactly the items of p with
\* that number.
LEMMA BatchItems ==
    ASSUME NEW p \in Plan
    PROVE  /\ \A k \in Keys : BatchNo(p, k) \in Nat /\ BatchNo(p, k) > 0
           /\ \A b, k : k \in Items(DetailsHash(p, b))
                          <=> k \in Items(p) /\ BatchNo(p, k) = b
           /\ \A b : \A k \in Items(DetailsHash(p, b)) :
                 DetailsHash(p, b).pay[k] = p.pay[k]
<1>1. \A k \in Keys : BatchNo(p, k) \in Nat /\ BatchNo(p, k) > 0
  <2>1. SUFFICES ASSUME NEW k \in Keys PROVE BatchNo(p, k) \in Nat /\ BatchNo(p, k) > 0
    OBVIOUS
  <2> DEFINE n == Cardinality({j \in Items(p) : Before(j, k)})
  <2>2. n \in Nat
    <3>1. {j \in Items(p) : Before(j, k)} \in SUBSET Keys
      BY DEF Items
    <3> QED BY <3>1, KeysFinite, FS_CardinalityType
  <2>3. MaxBatchSize \in Nat \ {0}
    BY SettlementAssumption
  <2>4. BatchNo(p, k) = n \div MaxBatchSize + 1
    BY DEF BatchNo
  <2> HIDE DEF n
  <2>5. n \div MaxBatchSize \in Nat
    BY <2>2, <2>3
  <2> QED BY <2>4, <2>5
<1>2. ASSUME NEW b, NEW k
      PROVE  /\ k \in Items(DetailsHash(p, b)) <=> k \in Items(p) /\ BatchNo(p, k) = b
             /\ k \in Items(DetailsHash(p, b)) => DetailsHash(p, b).pay[k] = p.pay[k]
  BY DEF Items, DetailsHash, BatchKeys, Plan
<1> QED BY <1>1, <1>2

\* Confirming a batch changes neither the items nor the hashes of a plan.
LEMMA SameBatches ==
    ASSUME NEW p, NEW q, p.pay = q.pay, p.rids = q.rids, p.recs = q.recs
    PROVE  /\ Items(p) = Items(q)
           /\ \A k : BatchNo(p, k) = BatchNo(q, k)
           /\ BatchNos(p) = BatchNos(q)
           /\ \A b : DetailsHash(p, b) = DetailsHash(q, b)
<1>1. Items(p) = Items(q)
  BY DEF Items
<1>2. \A k : BatchNo(p, k) = BatchNo(q, k)
  BY <1>1 DEF BatchNo
<1>3. BatchNos(p) = BatchNos(q)
  BY <1>1, <1>2 DEF BatchNos
<1>4. \A b : BatchKeys(p, b) = BatchKeys(q, b)
  BY <1>1, <1>2 DEF BatchKeys
<1>5. ASSUME NEW b PROVE DetailsHash(p, b) = DetailsHash(q, b)
  <2>1. BatchKeys(p, b) = BatchKeys(q, b)
    BY <1>4
  <2> HIDE DEF BatchKeys
  <2> QED BY <2>1 DEF DetailsHash
<1> QED BY <1>1, <1>2, <1>3, <1>5

\* When no batch is left, no item of the plan has a number above done.
LEMMA NothingLeft ==
    ASSUME NEW p, Unconfirmed(p) = {}, NEW k \in Items(p)
    PROVE  ~(BatchNo(p, k) > p.done)
BY DEF Unconfirmed, BatchNos

\* There is nothing to do for a WAL that is not there.
LEMMA NoWALHasNoBatch == Items(NoWAL) = {} /\ Unconfirmed(NoWAL) = {}
<1>1. Items(NoWAL) = {}
  BY DEF Items, NoWAL
<1>2. BatchNos(NoWAL) = {}
  BY <1>1 DEF BatchNos
<1> QED BY <1>1, <1>2 DEF Unconfirmed

\* No step takes a slip back.
LEMMA SlipsGrow ==
    ASSUME [Next]_vars
    PROVE  slips \subseteq slips'
<1> USE DEF ghosts, WriteFails
<1>1. CASE Settler
  <2>1. CASE Boot \/ SettleBegin \/ NothingPending \/ Submit \/ Receipt \/ Final \/ Vanished
             \/ Ledger \/ Commit \/ Skip \/ WritePending
    BY <2>1 DEF Boot, SettleBegin, NothingPending, Submit, Receipt, Final, Vanished,
                Ledger, Commit, Skip, WritePending
  <2>2. CASE Dedup
    BY <2>2 DEF Dedup
  <2>3. CASE Confirm \/ AddSettledTotal \/ SaveDebts \/ RemoveWAL
    BY <2>3 DEF Confirm, AddSettledTotal, SaveDebts, RemoveWAL
  <2>4. CASE Abort \/ Restore
    BY <2>4 DEF Abort, Restore
  <2>5. CASE Aggregate
    BY <2>5 DEF Aggregate
  <2> QED BY <1>1, <2>1, <2>2, <2>3, <2>4, <2>5 DEF Settler
<1>2. CASE Environment
  BY <1>2 DEF Environment, Mine, Drop, Bury, Reorg, Serve, Crash
<1>3. CASE UNCHANGED vars
  BY <1>3 DEF vars
<1> QED BY <1>1, <1>2, <1>3 DEF Next

\* A step that leaves the WAL and the chain alone and moves nothing between the
\* accounts keeps the invariant.
LEMMA Frame ==
    ASSUME Accounted, TypeOK', CursorsOK', ControlOK',
           UNCHANGED <<wal, cycle, paid, processed, mempool>>,
           slips \subseteq slips',
           Passed' = Passed,
           \A k \in Keys : Carried(k)' = Carried(k),
           Sound' => DeadLetters' = DeadLetters,
           pc' = "planned" => pc = "planned" /\ UNCHANGED <<plan, dl>>
    PROVE  Accounted'
<1>1. Sound' => Sound
  BY DEF Sound
<1>2. ChainOK'
  BY DEF Accounted, ChainOK
<1>3. FinalOK'
  BY <1>1 DEF Accounted, FinalOK, InProgress
<1>4. MempoolOK'
  BY <1>1 DEF Accounted, MempoolOK, InProgress
<1>5. DeadLettersOK'
  BY <1>1 DEF Accounted, DeadLettersOK
<1>6. \A k \in Keys : Due(k)' = Due(k)
  BY DEF Due, Landed
<1>7. AccountsOK'
  <2>1. SUFFICES ASSUME Sound', NEW k \in Keys
                 PROVE  /\ paid'[k] + Due(k)' + Carried(k)' + Usage(DeadLetters', k)
                             = Usage(Once(Passed'), k)
                        /\ pc' = "planned" =>
                             paid'[k] + plan'.pay[k] + plan'.debts[k].usd + Usage(dl', k)
                                 = Usage(Once(plan'.cursor), k)
    BY DEF AccountsOK
  <2>2. Sound
    BY <1>1, <2>1
  <2> QED BY <2>1, <2>2, <1>6 DEF Accounted, AccountsOK
<1> QED BY <1>2, <1>3, <1>4, <1>5, <1>7 DEF Accounted

\* The steps of the settler goroutine that only move it on, read, or write a file
\* outside the accounts.
LEMMA QuietSteps ==
    ASSUME Accounted, [Next]_vars,
           \/ Boot \/ SettleBegin \/ NothingPending \/ Receipt \/ Final
           \/ Vanished \/ Ledger \/ AddSettledTotal \/ Restore \/ Skip
    PROVE  Accounted'
<1> USE DEF Others, ghosts, Goto, WriteFails
<1>1. UNCHANGED <<log, cursor, dl, debts, wal, cycle, plan, paid, processed, mempool, dlWas>>
  BY DEF Boot, SettleBegin, NothingPending, Receipt, Final, Vanished, Ledger,
         AddSettledTotal, Restore, Skip
<1>2. pc # "planned" /\ pc' # "planned"
  BY DEF Boot, SettleBegin, NothingPending, Receipt, Final, Vanished, Ledger,
         AddSettledTotal, Restore, Skip, Returned
<1>3. pc' \in {"total", "debts", "remove", "peek"} =>
        \/ pc \in {"total", "debts", "remove", "peek"} /\ pc' = "debts" /\ pc = "total"
        \/ wal = NoWAL /\ pc' = "peek"
  BY DEF Boot, SettleBegin, NothingPending, Receipt, Final, Vanished, Ledger,
         AddSettledTotal, Restore, Skip, Returned
<1>a. pc' \in {"receipt", "finality", "confirm", "ledger"} => pc \in {"receipt", "finality"}
  BY DEF Boot, SettleBegin, NothingPending, Receipt, Final, Vanished, Ledger,
         AddSettledTotal, Restore, Skip, Returned
<1>4. slips \subseteq slips' /\ TypeOK'
  BY SlipsGrow, TypeStep DEF Accounted
<1>5. ControlOK'
  BY <1>1, <1>2, <1>3, <1>a, <1>4 DEF Accounted, ControlOK, Sound
<1>6. CursorsOK'
  BY <1>1 DEF Accounted, CursorsOK
<1>7. Passed' = Passed /\ DeadLetters' = DeadLetters /\ \A k \in Keys : Carried(k)' = Carried(k)
  BY <1>1, <1>2 DEF Passed, DeadLetters, Carried
<1> QED BY <1>1, <1>2, <1>4, <1>5, <1>6, <1>7, Frame

\* The cursor is committed, the debts are saved, or deleting the WAL fails.
LEMMA CommitSteps ==
    ASSUME Accounted, [Next]_vars, Commit \/ SaveDebts \/ (RemoveWAL /\ wal' = wal)
    PROVE  Accounted'
<1> USE DEF Others, ghosts, Goto, WriteFails
<1>1. UNCHANGED <<log, dl, wal, cycle, plan, paid, processed, mempool, dlWas>>
  BY DEF Commit, SaveDebts, RemoveWAL
<1>2. pc # "planned" /\ pc' # "planned" /\ wal # NoWAL
  BY DEF Commit, SaveDebts, RemoveWAL, Returned, Accounted, ControlOK
<1>3. slips \subseteq slips' /\ TypeOK'
  BY SlipsGrow, TypeStep DEF Accounted
<1>4. Unconfirmed(wal) = {} /\ cursor' = wal.cursor
  BY DEF Commit, SaveDebts, RemoveWAL, Accounted, ControlOK
<1>5. pc' \in {"remove", "peek"} /\ Sound' => debts' = wal.debts
  BY <1>3 DEF Commit, SaveDebts, RemoveWAL, Accounted, ControlOK, Sound, BooksSlips
<1>6. ControlOK'
  BY <1>1, <1>2, <1>4, <1>5 DEF Accounted, ControlOK
<1>7. CursorsOK'
  BY <1>1, <1>4 DEF Accounted, CursorsOK
<1>8. Passed' = Passed /\ DeadLetters' = DeadLetters /\ \A k \in Keys : Carried(k)' = Carried(k)
  BY <1>1, <1>2 DEF Passed, DeadLetters, Carried
<1> QED BY <1>1, <1>2, <1>3, <1>6, <1>7, <1>8, Frame

\* The cycle is given up or the process dies: what a planned cycle did to the
\* dead-letter file is not undone, which is harmless only if it did nothing.
LEMMA StopSteps ==
    ASSUME Accounted, [Next]_vars, Abort \/ Crash
    PROVE  Accounted'
<1> USE DEF Others, ghosts, Goto
<1>1. UNCHANGED <<log, cursor, dl, debts, wal, cycle, paid, processed, mempool>>
  BY DEF Abort, Crash
<1>2. pc' \in {"restore", "idle", "down"} /\ plan' = NoWAL
  BY DEF Abort, Crash, Failed
<1>3. slips \subseteq slips' /\ TypeOK'
  BY SlipsGrow, TypeStep DEF Accounted
<1>4. ControlOK'
  BY <1>1, <1>2 DEF Accounted, ControlOK, NoWAL
<1>5. CursorsOK'
  BY <1>1, <1>2 DEF Accounted, CursorsOK, NoWAL
<1>6. Sound' => DeadLetters' = DeadLetters
  BY <1>1, <1>2 DEF Abort, Crash, DeadLetters, Sound, BooksSlips
<1>7. Passed' = Passed /\ \A k \in Keys : Carried(k)' = Carried(k)
  BY <1>1 DEF Passed, Carried
<1> QED BY <1>1, <1>2, <1>3, <1>4, <1>5, <1>6, <1>7, Frame

\* A request is served.
LEMMA ServeStep ==
    ASSUME Accounted, [Next]_vars, NEW r \in Requests, Serve(r)
    PROVE  Accounted'
<1>1. UNCHANGED <<cursor, dl, debts, wal, cycle, plan, paid, processed, mempool, dlWas, pc>>
  BY DEF Serve, chain
<1>2. slips \subseteq slips' /\ TypeOK'
  BY SlipsGrow, TypeStep DEF Accounted
<1>3. ControlOK'
  BY <1>1, <1>2 DEF Accounted, ControlOK, Sound
<1>4. CursorsOK'
  BY <1>1 DEF Serve, Accounted, CursorsOK
<1>5. Passed' = Passed /\ DeadLetters' = DeadLetters /\ \A k \in Keys : Carried(k)' = Carried(k)
  BY <1>1 DEF Passed, DeadLetters, Carried
<1> QED BY <1>1, <1>2, <1>3, <1>4, <1>5, Frame

\* Once every batch is confirmed nothing that pays is in progress.
LEMMA NothingInProgress ==
    ASSUME TypeOK, Unconfirmed(wal) = {}, NEW x, InProgress(x)
    PROVE  Items(x.hash) = {}
<1>1. wal \in Plan
  BY DEF TypeOK
<1>2. SUFFICES ASSUME NEW k \in Items(x.hash) PROVE FALSE
  OBVIOUS
<1>3. k \in Items(wal) /\ BatchNo(wal, k) = Current(wal)
  BY <1>1, <1>2, BatchItems DEF InProgress
<1>4. ~(BatchNo(wal, k) > wal.done)
  BY <1>3, NothingLeft
<1> QED BY <1>1, <1>3, <1>4 DEF Current, Plan

\* Only the chain moves: what does not depend on it stays as it is.
LEMMA ChainFrame ==
    ASSUME Accounted, UNCHANGED <<log, cursor, dl, debts, wal, cycle, plan, dlWas, pc, slips>>
    PROVE  /\ CursorsOK' /\ ControlOK' /\ DeadLettersOK'
           /\ Sound' = Sound /\ Passed' = Passed /\ DeadLetters' = DeadLetters
           /\ \A k \in Keys : Carried(k)' = Carried(k)
<1>1. Sound' = Sound /\ Passed' = Passed /\ DeadLetters' = DeadLetters
  BY DEF Sound, Passed, DeadLetters
<1>2. \A k \in Keys : Carried(k)' = Carried(k)
  BY DEF Carried
<1>3. CursorsOK' /\ DeadLettersOK'
  BY <1>1 DEF Accounted, CursorsOK, DeadLettersOK
<1>4. ControlOK'
  BY <1>1 DEF Accounted, ControlOK
<1> QED BY <1>1, <1>2, <1>3, <1>4

\* The accounts still add up when what was paid and what is due change by the same
\* amount.
LEMMA AccountsFrame ==
    ASSUME Accounted, UNCHANGED <<log, cursor, dl, debts, wal, cycle, plan, dlWas, pc, slips>>,
           Sound => \A k \in Keys : paid'[k] + Due(k)' = paid[k] + Due(k),
           pc = "planned" /\ Sound => \A k \in Keys : paid'[k] = paid[k],
           \A k \in Keys : Due(k) \in Int /\ Due(k)' \in Int /\ Carried(k) \in Int
                           /\ Usage(DeadLetters, k) \in Int /\ paid'[k] \in Int
    PROVE  AccountsOK'
<1>1. SUFFICES ASSUME Sound', NEW k \in Keys
               PROVE  /\ paid'[k] + Due(k)' + Carried(k)' + Usage(DeadLetters', k)
                           = Usage(Once(Passed'), k)
                      /\ pc' = "planned" =>
                           paid'[k] + plan'.pay[k] + plan'.debts[k].usd + Usage(dl', k)
                               = Usage(Once(plan'.cursor), k)
  BY DEF AccountsOK
<1>2. Sound /\ Passed' = Passed /\ DeadLetters' = DeadLetters /\ Carried(k)' = Carried(k)
  BY <1>1, ChainFrame
<1>3. paid[k] + Due(k) + Carried(k) + Usage(DeadLetters, k) = Usage(Once(Passed), k)
  BY <1>2 DEF Accounted, AccountsOK
<1>4. paid[k] \in Int
  BY DEF Accounted, TypeOK
<1>5. paid'[k] + Due(k)' + Carried(k) + Usage(DeadLetters, k) = Usage(Once(Passed), k)
  BY <1>2, <1>3, <1>4
<1>6. pc' = "planned" =>
         paid'[k] + plan'.pay[k] + plan'.debts[k].usd + Usage(dl', k)
             = Usage(Once(plan'.cursor), k)
  BY <1>2 DEF Accounted, AccountsOK
<1> QED BY <1>2, <1>5, <1>6

LEMMA AmountTypes ==
    ASSUME TypeOK
    PROVE  \A k \in Keys : /\ Due(k) \in Nat /\ Carried(k) \in Nat
                           /\ Usage(DeadLetters, k) \in Nat
<1>1. SUFFICES ASSUME NEW k \in Keys
               PROVE  Due(k) \in Nat /\ Carried(k) \in Nat /\ Usage(DeadLetters, k) \in Nat
  OBVIOUS
<1>2. Due(k) \in Nat
  BY DEF TypeOK, Due, Plan
<1>3. Carried(k) \in Nat
  BY DEF TypeOK, Carried, Plan, Debt
<1>4. IsFiniteSet(DeadLetters)
  BY DEF TypeOK, DeadLetters
<1> QED BY <1>2, <1>3, <1>4, UsageType

\* A transaction is dropped.
LEMMA DropStep ==
    ASSUME Accounted, [Next]_vars, NEW t \in mempool, Drop(t)
    PROVE  Accounted'
<1> USE DEF files, memory, ghosts
<1>1. UNCHANGED <<log, cursor, dl, debts, wal, cycle, plan, dlWas, pc, slips, paid, processed>>
      /\ mempool' \subseteq mempool
  BY DEF Drop
<1>2. TypeOK'
  BY TypeStep DEF Accounted
<1>3. \A k \in Keys : Due(k)' = Due(k)
  BY <1>1 DEF Due, Landed
<1>4. AccountsOK'
  BY <1>1, <1>2, <1>3, AmountTypes, AccountsFrame DEF Accounted, TypeOK
<1>5. ChainOK'
  BY <1>1 DEF Accounted, ChainOK
<1>6. FinalOK' /\ MempoolOK'
  BY <1>1, ChainFrame DEF Accounted, FinalOK, MempoolOK, InProgress
<1> QED BY <1>1, <1>2, <1>4, <1>5, <1>6, ChainFrame DEF Accounted

\* A batch is submitted: its transaction is the batch in progress.
LEMMA SubmitStep ==
    ASSUME Accounted, [Next]_vars, Submit
    PROVE  Accounted'
<1> USE DEF Others, ghosts
<1>1. UNCHANGED <<log, cursor, dl, debts, wal, cycle, plan, dlWas, slips, paid, processed>>
      /\ pc = "resume" /\ pc' = "receipt"
      /\ mempool' = mempool \cup {[hash |-> DetailsHash(wal, Current(wal)), id |-> wal.id]}
  BY DEF Submit
<1>2. TypeOK' /\ Sound' = Sound
  BY <1>1, TypeStep DEF Accounted, Sound
<1>3. wal # NoWAL
  BY NoWALHasNoBatch DEF Submit
<1>4. CursorsOK' /\ ControlOK'
  BY <1>1, <1>2, <1>3 DEF Accounted, CursorsOK, ControlOK
<1>5. ChainOK'
  BY <1>1 DEF Accounted, ChainOK, ControlOK
<1>6. FinalOK'
  BY <1>1, <1>2 DEF Accounted, FinalOK, InProgress
<1>7. MempoolOK'
  BY <1>1, <1>2, <1>3 DEF Accounted, MempoolOK, InProgress
<1>8. DeadLetters' = DeadLetters /\ Passed' = Passed
  BY <1>1 DEF DeadLetters, Passed
<1>9. \A k \in Keys : Due(k)' = Due(k) /\ Carried(k)' = Carried(k)
  BY <1>1 DEF Due, Landed, Carried
<1>10. DeadLettersOK' /\ AccountsOK'
  BY <1>1, <1>2, <1>8, <1>9 DEF Accounted, DeadLettersOK, AccountsOK
<1> QED BY <1>2, <1>4, <1>5, <1>6, <1>7, <1>10 DEF Accounted

\* A block is buried.
LEMMA BuryStep ==
    ASSUME Accounted, [Next]_vars, NEW e \in processed, Bury(e)
    PROVE  Accounted'
<1> USE DEF files, memory, ghosts
<1>1. UNCHANGED <<log, cursor, dl, debts, wal, cycle, plan, dlWas, pc, slips, paid, mempool>>
  BY DEF Bury
<1>2. TypeOK'
  BY TypeStep DEF Accounted
<1>3. PICK n : /\ processed' = (processed \ {e}) \cup {n}
               /\ n.hash = e.hash /\ n.id = e.id /\ n.failed = e.failed /\ n.deep
  <2>1. e \in Entries
    BY DEF Accounted, TypeOK
  <2> DEFINE m == [e EXCEPT !.deep = TRUE]
  <2>2. m.hash = e.hash /\ m.id = e.id /\ m.failed = e.failed /\ m.deep
    BY <2>1 DEF Entries
  <2>3. processed' = (processed \ {e}) \cup {m}
    BY DEF Bury
  <2> HIDE DEF m
  <2> QED BY <2>2, <2>3
<1>4. \A k \in Keys : Landed(k)' = Landed(k)
  BY <1>1, <1>3 DEF Landed
<1>5. \A k \in Keys : Due(k)' = Due(k)
  BY <1>1, <1>4 DEF Due
<1>6. AccountsOK'
  BY <1>1, <1>2, <1>5, AmountTypes, AccountsFrame DEF Accounted, TypeOK
<1>7. ChainOK'
  BY <1>1, <1>3 DEF Accounted, ChainOK
<1>8. FinalOK'
  BY <1>1, <1>3, ChainFrame DEF Accounted, FinalOK, InProgress
<1>9. MempoolOK'
  BY <1>1, <1>3, ChainFrame DEF Accounted, MempoolOK, InProgress
<1> QED BY <1>1, <1>2, <1>6, <1>7, <1>8, <1>9, ChainFrame DEF Accounted

\* A block is reorganised away: with sound accounts it pays nothing or holds the
\* batch in progress, whose items become due again.
LEMMA ReorgStep ==
    ASSUME Accounted, [Next]_vars, NEW e \in processed, Reorg(e)
    PROVE  Accounted'
<1> USE DEF files, memory
<1>1. /\ UNCHANGED <<log, cursor, dl, debts, wal, cycle, plan, dlWas, pc, slips>>
      /\ ~e.deep
      /\ processed' = processed \ {e}
      /\ mempool' = mempool \cup {[hash |-> e.hash, id |-> e.id]}
      /\ paid' = [k \in Keys |-> IF k \in Items(e.hash) \ e.failed
                                 THEN paid[k] - e.hash.pay[k] ELSE paid[k]]
  BY DEF Reorg
<1>2. TypeOK' /\ TypeOK
  BY TypeStep DEF Accounted
<1>3. Sound => Items(e.hash) = {} \/ InProgress(e)
  BY <1>1 DEF Accounted, FinalOK
<1>4. Sound => \A k \in Keys : paid'[k] + Due(k)' = paid[k] + Due(k)
  <2>1. SUFFICES ASSUME Sound, NEW k \in Keys
                 PROVE  paid'[k] + Due(k)' = paid[k] + Due(k)
    OBVIOUS
  <2>2. wal \in Plan /\ BatchNo(wal, k) \in Nat /\ wal.pay[k] \in Nat /\ paid[k] \in Int
    BY <1>2, BatchItems DEF TypeOK, Plan
  <2>3. CASE k \notin Items(e.hash)
    <3>1. e.hash # DetailsHash(wal, BatchNo(wal, k)) \/ k \notin Items(wal)
      BY <2>2, <2>3, BatchItems
    <3>2. k \in Items(wal) => (Landed(k)' <=> Landed(k))
      BY <1>1, <3>1 DEF Landed
    <3>3. Due(k)' = Due(k)
      BY <1>1, <3>2 DEF Due
    <3> QED BY <1>1, <2>3, <3>3
  <2>4. CASE k \in Items(e.hash)
    <3>1. InProgress(e) /\ e.hash = DetailsHash(wal, Current(wal)) /\ e.id = wal.id
      BY <1>3, <2>1, <2>4 DEF InProgress
    <3>2. k \in Items(wal) /\ BatchNo(wal, k) = Current(wal) /\ e.hash.pay[k] = wal.pay[k]
      BY <2>2, <2>4, <3>1, BatchItems
    <3>3. BatchNo(wal, k) > wal.done
      BY <1>2, <3>2 DEF Current, TypeOK, Plan
    <3>4. \A f \in processed : f.hash = e.hash => f = e
      BY DEF Accounted, ChainOK
    <3>5. ~Landed(k)' /\ (Landed(k) <=> k \notin e.failed)
      BY <1>1, <3>1, <3>2, <3>4 DEF Landed
    <3>6. Due(k)' = wal.pay[k] /\ Due(k) = (IF k \in e.failed THEN wal.pay[k] ELSE 0)
      BY <1>1, <3>2, <3>3, <3>5 DEF Due
    <3>7. paid'[k] = IF k \in e.failed THEN paid[k] ELSE paid[k] - wal.pay[k]
      BY <1>1, <2>4, <3>2
    <3> QED BY <2>2, <3>6, <3>7
  <2> QED BY <2>3, <2>4
<1>5. pc = "planned" /\ Sound => \A k \in Keys : paid'[k] = paid[k]
  <2>1. SUFFICES ASSUME pc = "planned", Sound PROVE Items(e.hash) = {}
    BY <1>1, <1>2 DEF TypeOK
  <2>2. wal # NoWAL => Unconfirmed(wal) = {}
    BY <2>1 DEF Accounted, ControlOK
  <2> QED BY <1>2, <1>3, <2>1, <2>2, NothingInProgress DEF InProgress
<1>6. AccountsOK'
  <2>1. \A k \in Keys : Due(k)' \in Int /\ paid'[k] \in Int
    BY <1>1, <1>2 DEF Due, TypeOK, Plan
  <2>2. \A k \in Keys : Due(k) \in Int /\ Carried(k) \in Int /\ Usage(DeadLetters, k) \in Int
    BY <1>2, AmountTypes
  <2> QED BY <1>1, <1>4, <1>5, <2>1, <2>2, AccountsFrame
<1>7. ChainOK'
  BY <1>1 DEF Accounted, ChainOK
<1>8. FinalOK'
  BY <1>1, ChainFrame DEF Accounted, FinalOK, InProgress
<1>9. MempoolOK'
  <2>1. SUFFICES ASSUME Sound', NEW t \in mempool'
                 PROVE  (\/ Items(t.hash) = {}
                         \/ \E f \in processed : f.hash = t.hash /\ f.deep
                         \/ InProgress(t))'
    BY DEF MempoolOK
  <2>2. Sound
    BY <1>1, <2>1 DEF Sound
  <2>3. CASE t \in mempool
    BY <1>1, <2>2, <2>3 DEF Accounted, MempoolOK, InProgress
  <2>4. CASE t = [hash |-> e.hash, id |-> e.id]
    BY <1>1, <1>3, <2>2, <2>4 DEF InProgress
  <2> QED BY <1>1, <2>1, <2>3, <2>4
<1> QED BY <1>1, <1>2, <1>6, <1>7, <1>8, <1>9, ChainFrame DEF Accounted

\* A transaction is mined: with sound accounts it is reverted, pays nothing, or is
\* the batch in progress, whose items are no longer due.
LEMMA MineStep ==
    ASSUME Accounted, [Next]_vars, NEW t \in mempool, Mine(t)
    PROVE  Accounted'
<1> USE DEF files, memory, ghosts
<1>1. /\ UNCHANGED <<log, cursor, dl, debts, wal, cycle, plan, dlWas, pc, slips>>
      /\ mempool' = mempool \ {t}
  BY DEF Mine
<1>2. TypeOK' /\ TypeOK
  BY TypeStep DEF Accounted
<1>3. CASE On(t.hash) # {}
  <2>1. UNCHANGED <<paid, processed>>
    BY <1>3 DEF Mine
  <2>2. \A k \in Keys : Due(k)' = Due(k)
    BY <1>1, <2>1 DEF Due, Landed
  <2>3. AccountsOK'
    BY <1>1, <1>2, <2>1, <2>2, AmountTypes, AccountsFrame DEF TypeOK
  <2>4. ChainOK' /\ FinalOK' /\ MempoolOK'
    BY <1>1, <2>1, ChainFrame DEF Accounted, ChainOK, FinalOK, MempoolOK, InProgress
  <2> QED BY <1>1, <1>2, <2>3, <2>4, ChainFrame DEF Accounted
<1>4. CASE On(t.hash) = {}
  <2>1. PICK F \in SUBSET Items(t.hash) :
          /\ paid' = [k \in Keys |-> IF k \in Items(t.hash) \ F
                                    THEN paid[k] + t.hash.pay[k] ELSE paid[k]]
          /\ processed' = processed \cup
               {[hash |-> t.hash, id |-> t.id, failed |-> F, deep |-> FALSE]}
    BY <1>4 DEF Mine
  <2> DEFINE n == [hash |-> t.hash, id |-> t.id, failed |-> F, deep |-> FALSE]
  <2>2. n.hash = t.hash /\ n.id = t.id /\ n.failed = F /\ processed' = processed \cup {n}
    BY <2>1
  <2> HIDE DEF n
  <2>3. \A e \in processed : e.hash # t.hash
    BY <1>4 DEF On
  <2>4. Sound => Items(t.hash) = {} \/ InProgress(t)
    BY <2>3 DEF Accounted, MempoolOK
  <2>5. Sound => \A k \in Keys : paid'[k] + Due(k)' = paid[k] + Due(k)
    <3>1. SUFFICES ASSUME Sound, NEW k \in Keys
                   PROVE  paid'[k] + Due(k)' = paid[k] + Due(k)
      OBVIOUS
    <3>2. wal \in Plan /\ BatchNo(wal, k) \in Nat /\ wal.pay[k] \in Nat /\ paid[k] \in Int
      BY <1>2, BatchItems DEF TypeOK, Plan
    <3>3. CASE k \notin Items(t.hash)
      <4>1. t.hash # DetailsHash(wal, BatchNo(wal, k)) \/ k \notin Items(wal)
        BY <3>2, <3>3, BatchItems
      <4>2. k \in Items(wal) => (Landed(k)' <=> Landed(k))
        BY <1>1, <2>2, <4>1 DEF Landed
      <4>3. Due(k)' = Due(k)
        BY <1>1, <4>2 DEF Due
      <4> QED BY <2>1, <3>3, <4>3
    <3>4. CASE k \in Items(t.hash)
      <4>1. t.hash = DetailsHash(wal, Current(wal)) /\ t.id = wal.id
        BY <2>4, <3>1, <3>4 DEF InProgress
      <4>2. k \in Items(wal) /\ BatchNo(wal, k) = Current(wal) /\ t.hash.pay[k] = wal.pay[k]
        BY <3>2, <3>4, <4>1, BatchItems
      <4>3. BatchNo(wal, k) > wal.done
        BY <1>2, <4>2 DEF Current, TypeOK, Plan
      <4>4. ~Landed(k) /\ (Landed(k)' <=> k \notin F)
        BY <1>1, <2>2, <2>3, <4>1, <4>2 DEF Landed
      <4>5. Due(k) = wal.pay[k] /\ Due(k)' = (IF k \in F THEN wal.pay[k] ELSE 0)
        BY <1>1, <4>2, <4>3, <4>4 DEF Due
      <4>6. paid'[k] = IF k \in F THEN paid[k] ELSE paid[k] + wal.pay[k]
        BY <2>1, <3>4, <4>2
      <4> QED BY <3>2, <4>5, <4>6
    <3> QED BY <3>3, <3>4
  <2>6. pc = "planned" /\ Sound => \A k \in Keys : paid'[k] = paid[k]
    <3>1. SUFFICES ASSUME pc = "planned", Sound PROVE Items(t.hash) = {}
      BY <1>2, <2>1 DEF TypeOK
    <3>2. wal # NoWAL => Unconfirmed(wal) = {}
      BY <3>1 DEF Accounted, ControlOK
    <3> QED BY <1>2, <2>4, <3>1, <3>2, NothingInProgress DEF InProgress
  <2>7. AccountsOK'
    <3>1. \A k \in Keys : Due(k)' \in Int /\ paid'[k] \in Int
      BY <1>1, <1>2 DEF Due, TypeOK, Plan
    <3>2. \A k \in Keys : Due(k) \in Int /\ Carried(k) \in Int /\ Usage(DeadLetters, k) \in Int
      BY <1>2, AmountTypes
    <3> QED BY <1>1, <2>5, <2>6, <3>1, <3>2, AccountsFrame
  <2>8. ChainOK'
    BY <1>1, <2>2, <2>3 DEF Accounted, ChainOK
  <2>9. FinalOK'
    BY <1>1, <2>2, <2>4, ChainFrame DEF Accounted, FinalOK, InProgress
  <2>10. MempoolOK'
    BY <1>1, <2>2, ChainFrame DEF Accounted, MempoolOK, InProgress
  <2> QED BY <1>1, <1>2, <2>7, <2>8, <2>9, <2>10, ChainFrame DEF Accounted
<1> QED BY <1>3, <1>4

\* The batch in progress is confirmed with the outcome that stands on the chain:
\* its paid items are no longer under way, its skipped items are debts.
LEMMA ConfirmFrame ==
    ASSUME Accounted, TypeOK', ControlOK',
           UNCHANGED <<log, cursor, dl, cycle, plan, paid, processed, mempool, dlWas>>,
           pc # "planned", pc' # "planned", slips \subseteq slips', wal # NoWAL,
           wal'.id = wal.id, wal'.cursor = wal.cursor, wal'.pay = wal.pay,
           wal'.rids = wal.rids, wal'.recs = wal.recs, wal'.done = Current(wal),
           Sound' => \E e \in On(DetailsHash(wal, Current(wal))) :
                        /\ e.id = wal.id /\ e.deep
                        /\ \A k \in Keys : wal'.debts[k].usd =
                              wal.debts[k].usd + (IF k \in e.failed THEN wal.pay[k] ELSE 0)
    PROVE  Accounted'
<1>1. TypeOK /\ wal \in Plan /\ wal' \in Plan
  BY DEF Accounted, TypeOK
<1>2. wal' # NoWAL
  BY <1>1 DEF Current, NoWAL, Plan
<1>3. /\ Items(wal') = Items(wal)
      /\ \A k : BatchNo(wal', k) = BatchNo(wal, k)
      /\ \A b : DetailsHash(wal', b) = DetailsHash(wal, b)
  BY SameBatches
<1>4. CursorsOK' /\ ChainOK'
  BY DEF Accounted, CursorsOK, ChainOK
<1>5. SUFFICES ASSUME Sound' PROVE FinalOK' /\ MempoolOK' /\ DeadLettersOK' /\ AccountsOK'
  BY <1>4 DEF Accounted, FinalOK, MempoolOK, DeadLettersOK, AccountsOK
<1>6. Sound
  BY <1>5 DEF Sound
<1>7. PICK e \in processed :
        /\ e.hash = DetailsHash(wal, Current(wal)) /\ e.id = wal.id /\ e.deep
        /\ \A k \in Keys : wal'.debts[k].usd =
              wal.debts[k].usd + (IF k \in e.failed THEN wal.pay[k] ELSE 0)
  BY <1>5 DEF On
<1>8. \A f \in processed : f.hash = e.hash => f = e
  BY DEF Accounted, ChainOK
<1>9. FinalOK'
  BY <1>6, <1>7, <1>8 DEF Accounted, FinalOK, InProgress
<1>10. MempoolOK'
  BY <1>6, <1>7 DEF Accounted, MempoolOK, InProgress
<1>11. Passed' = Passed /\ DeadLetters' = DeadLetters
  BY <1>2 DEF Passed, DeadLetters
<1>12. DeadLettersOK'
  BY <1>6, <1>11 DEF Accounted, DeadLettersOK
<1>13. AccountsOK'
  <2>1. SUFFICES ASSUME NEW k \in Keys
                 PROVE  paid[k] + Due(k)' + Carried(k)' + Usage(DeadLetters, k)
                          = Usage(Once(Passed), k)
    BY <1>11 DEF AccountsOK
  <2>2. paid[k] + Due(k) + Carried(k) + Usage(DeadLetters, k) = Usage(Once(Passed), k)
    BY <1>6 DEF Accounted, AccountsOK
  <2>3. /\ paid[k] \in Int /\ wal.pay[k] \in Nat /\ wal.debts[k].usd \in Nat /\ wal.done \in Nat
        /\ Usage(DeadLetters, k) \in Nat /\ BatchNo(wal, k) \in Nat
    BY <1>1, AmountTypes, BatchItems DEF TypeOK, Plan, Debt
  <2>4. Carried(k) = wal.debts[k].usd /\ Carried(k)' = wal'.debts[k].usd
    BY <1>2 DEF Carried
  <2>5. e.failed \subseteq Items(e.hash)
    BY DEF Accounted, ChainOK
  <2>6. Landed(k)' <=> Landed(k)
    BY <1>3 DEF Landed
  <2>7. CASE k \in Items(wal) /\ BatchNo(wal, k) = Current(wal)
    <3>1. Landed(k) <=> k \notin e.failed
      BY <1>7, <1>8, <2>7 DEF Landed
    <3>2. Due(k) = IF k \in e.failed THEN wal.pay[k] ELSE 0
      BY <2>3, <2>7, <3>1 DEF Due, Current
    <3>3. Due(k)' = 0
      BY <1>3, <2>3, <2>7 DEF Due, Current
    <3> QED BY <1>7, <2>2, <2>3, <2>4, <3>2, <3>3
  <2>8. CASE ~(k \in Items(wal) /\ BatchNo(wal, k) = Current(wal))
    <3>1. k \notin e.failed
      BY <1>1, <1>7, <2>5, <2>8, BatchItems
    <3>2. Due(k)' = Due(k)
      BY <1>3, <2>3, <2>6, <2>8 DEF Due, Current
    <3> QED BY <1>7, <2>2, <2>3, <2>4, <3>1, <3>2
  <2> QED BY <2>7, <2>8
<1> QED BY <1>9, <1>10, <1>12, <1>13

\* IsProcessedBatch: sound only if it is this plan's batch, buried and without
\* skipped items.
LEMMA DedupStep ==
    ASSUME Accounted, [Next]_vars, Dedup
    PROVE  Accounted'
<1> USE DEF Others
<1>1. /\ UNCHANGED <<log, cursor, dl, debts, cycle, plan, paid, processed, mempool, dlWas>>
      /\ pc = "resume" /\ pc' = "resume" /\ wal' = [wal EXCEPT !.done = Current(wal)]
  BY DEF Dedup
<1>2. slips \subseteq slips' /\ TypeOK' /\ wal \in Plan
  BY SlipsGrow, TypeStep DEF Accounted, TypeOK
<1>3. wal # NoWAL
  BY NoWALHasNoBatch DEF Dedup
<1>4. /\ wal'.id = wal.id /\ wal'.cursor = wal.cursor /\ wal'.pay = wal.pay
      /\ wal'.rids = wal.rids /\ wal'.recs = wal.recs /\ wal'.debts = wal.debts
      /\ wal'.done = Current(wal)
  BY <1>1, <1>2 DEF Plan
<1>5. ControlOK'
  BY <1>1, <1>4 DEF Accounted, ControlOK
<1>6. Sound' => \E e \in On(DetailsHash(wal, Current(wal))) :
                  /\ e.id = wal.id /\ e.deep
                  /\ \A k \in Keys : wal'.debts[k].usd =
                        wal.debts[k].usd + (IF k \in e.failed THEN wal.pay[k] ELSE 0)
  <2>1. SUFFICES ASSUME Sound'
                 PROVE  \E e \in On(DetailsHash(wal, Current(wal))) :
                          e.id = wal.id /\ e.deep /\ e.failed = {}
    BY <1>2, <1>4 DEF Plan, Debt
  <2> QED BY <2>1 DEF Dedup, Sound, BooksSlips
<1> QED BY <1>1, <1>2, <1>3, <1>4, <1>5, <1>6, ConfirmFrame

\* The batch is confirmed with its receipt: sound only if the receipt is that of a
\* buried block.
LEMMA ConfirmStep ==
    ASSUME Accounted, [Next]_vars, Confirm
    PROVE  Accounted'
<1> USE DEF Others
<1>1. /\ UNCHANGED <<log, cursor, dl, debts, cycle, plan, paid, processed, mempool, dlWas>>
      /\ pc = "confirm" /\ pc' = "ledger"
      /\ wal' = [Reversed(wal, receipt) EXCEPT !.done = Current(wal)]
  BY DEF Confirm
<1>2. slips \subseteq slips' /\ TypeOK' /\ wal \in Plan /\ receipt \in SUBSET Keys
  BY SlipsGrow, TypeStep DEF Accounted, TypeOK
<1>3. wal # NoWAL
  BY <1>1 DEF Accounted, ControlOK
<1>4. /\ wal'.id = wal.id /\ wal'.cursor = wal.cursor /\ wal'.pay = wal.pay
      /\ wal'.rids = wal.rids /\ wal'.recs = wal.recs
      /\ wal'.debts = PlusFailed(wal, receipt) /\ wal'.done = Current(wal)
  BY <1>1, <1>2 DEF Plan, Reversed
<1>5. ControlOK'
  <2>1. wal' # NoWAL
    BY <1>2, <1>4 DEF Current, NoWAL, Plan
  <2> QED BY <1>1, <1>4, <2>1 DEF Accounted, ControlOK
<1>6. Sound' => \E e \in On(DetailsHash(wal, Current(wal))) :
                  /\ e.id = wal.id /\ e.deep
                  /\ \A k \in Keys : wal'.debts[k].usd =
                        wal.debts[k].usd + (IF k \in e.failed THEN wal.pay[k] ELSE 0)
  <2>1. SUFFICES ASSUME Sound'
                 PROVE  \E e \in On(DetailsHash(wal, Current(wal))) :
                          e.id = wal.id /\ e.deep /\ e.failed = receipt
    BY <1>2, <1>4 DEF Plan, Debt, PlusFailed
  <2> QED BY <2>1 DEF Confirm, Sound, BooksSlips
<1> QED BY <1>1, <1>2, <1>3, <1>4, <1>5, <1>6, ConfirmFrame

\* When every batch is confirmed nothing of the WAL is due.
LEMMA NothingDue ==
    ASSUME TypeOK, Unconfirmed(wal) = {}, NEW k \in Keys
    PROVE  Due(k) = 0
BY NothingLeft DEF Due

\* The WAL is deleted: its cursor and its debts are in their files.
LEMMA RemoveStep ==
    ASSUME Accounted, [Next]_vars, RemoveWAL, wal' = NoWAL
    PROVE  Accounted'
<1> USE DEF Others, Goto, WriteFails
<1>1. /\ UNCHANGED <<log, cursor, dl, debts, cycle, plan, paid, processed, mempool, dlWas>>
      /\ pc = "remove" /\ pc' \in {"restore", "peek", "idle"}
  BY DEF RemoveWAL, Returned
<1>2. slips \subseteq slips' /\ TypeOK' /\ TypeOK
  BY SlipsGrow, TypeStep DEF Accounted
<1>3. wal # NoWAL /\ Unconfirmed(wal) = {} /\ cursor = wal.cursor
  BY <1>1 DEF Accounted, ControlOK
<1>4. CursorsOK' /\ ChainOK'
  BY <1>1 DEF Accounted, CursorsOK, ChainOK, NoWAL
<1>5. ControlOK'
  BY <1>1, <1>2 DEF Accounted, ControlOK, NoWAL, TypeOK
<1>6. SUFFICES ASSUME Sound' PROVE FinalOK' /\ MempoolOK' /\ DeadLettersOK' /\ AccountsOK'
  BY <1>2, <1>4, <1>5 DEF Accounted, FinalOK, MempoolOK, DeadLettersOK, AccountsOK
<1>7. Sound /\ debts = wal.debts
  BY <1>1, <1>2, <1>3, <1>6 DEF Sound, Accounted, ControlOK
<1>8. \A x : InProgress(x) => Items(x.hash) = {}
  BY <1>2, <1>3, NothingInProgress
<1>9. FinalOK' /\ MempoolOK'
  BY <1>1, <1>7, <1>8 DEF Accounted, FinalOK, MempoolOK
<1>10. Passed' = Passed /\ DeadLetters' = DeadLetters /\ \A k \in Keys : Carried(k)' = Carried(k)
  BY <1>1, <1>3, <1>7 DEF Passed, DeadLetters, Carried
<1>11. \A k \in Keys : Due(k) = 0 /\ Due(k)' = 0
  BY <1>2, <1>3, NothingDue, NoWALHasNoBatch DEF Due
<1>12. DeadLettersOK' /\ AccountsOK'
  BY <1>1, <1>7, <1>10, <1>11 DEF Accounted, DeadLettersOK, AccountsOK
<1> QED BY <1>9, <1>12

\* The plan becomes the WAL: nothing of it is on the chain yet.
LEMMA WritePendingStep ==
    ASSUME Accounted, [Next]_vars, WritePending
    PROVE  Accounted'
<1> USE DEF Others
<1>1. /\ UNCHANGED <<log, cursor, dl, debts, cycle, paid, processed, mempool, slips>>
      /\ pc = "planned" /\ pc' = "resume" /\ wal' = plan /\ plan' = NoWAL
  BY DEF WritePending
<1>2. TypeOK' /\ TypeOK /\ plan \in Plan
  BY TypeStep DEF Accounted, TypeOK
<1>3. plan # NoWAL /\ plan.id = cycle /\ plan.done = 0
  BY <1>1 DEF Accounted, ControlOK
<1>4. CursorsOK' /\ ChainOK'
  BY <1>1 DEF Accounted, CursorsOK, ChainOK, NoWAL
<1>5. ControlOK'
  BY <1>1, <1>2, <1>3 DEF ControlOK, NoWAL, TypeOK
<1>6. SUFFICES ASSUME Sound' PROVE FinalOK' /\ MempoolOK' /\ DeadLettersOK' /\ AccountsOK'
  BY <1>2, <1>4, <1>5 DEF Accounted, FinalOK, MempoolOK, DeadLettersOK, AccountsOK
<1>7. Sound
  BY <1>1, <1>6 DEF Sound
<1>8. \A x : InProgress(x) => Items(x.hash) = {}
  BY <1>1, <1>2, NothingInProgress DEF Accounted, ControlOK, InProgress
<1>9. FinalOK' /\ MempoolOK'
  BY <1>1, <1>7, <1>8 DEF Accounted, FinalOK, MempoolOK
<1>10. Passed' = plan.cursor /\ DeadLetters' = dl /\ \A k \in Keys : Carried(k)' = plan.debts[k].usd
  BY <1>1, <1>3 DEF Passed, DeadLetters, Carried
<1>11. ASSUME NEW k \in Keys PROVE Due(k)' = plan.pay[k]
  <2>1. plan.pay[k] \in Nat /\ BatchNo(plan, k) > 0
    BY <1>2, BatchItems DEF Plan
  <2>2. \A e \in processed : e.id # plan.id
    BY <1>1, <1>2, <1>3 DEF Accounted, ChainOK, TypeOK, Entries
  <2>3. ~Landed(k)'
    BY <1>1, <2>2 DEF Landed
  <2> QED BY <1>1, <1>3, <2>1, <2>3 DEF Due, Items
<1>12. DeadLettersOK' /\ AccountsOK'
  BY <1>1, <1>7, <1>10, <1>11 DEF Accounted, DeadLettersOK, AccountsOK
<1> QED BY <1>9, <1>12

\* When no dead letter is an unread record, a cycle works on the dead letters and on
\* one line for each unread record.
LEMMA InputSplit ==
    ASSUME TypeOK, dl \subseteq Once(cursor)
    PROVE  /\ Input = dl \cup Once(log \ cursor)
           /\ dl \cap Once(log \ cursor) = {}
<1>1. \A r \in log \ cursor : FreshLine(r) = <<r, 0>>
  <2>1. SUFFICES ASSUME NEW r \in log \ cursor PROVE FreshLine(r) = <<r, 0>>
    OBVIOUS
  <2>2. {l \in dl : l[1] = r} = {}
    BY <2>1 DEF Once
  <2> QED BY <2>2, FS_EmptySet DEF FreshLine
<1>2. {FreshLine(r) : r \in log \ cursor} = {<<r, 0>> : r \in log \ cursor}
  BY <1>1
<1>3. {<<r, 0>> : r \in log \ cursor} = Once(log \ cursor)
  BY DEF Once
<1>4. dl \cap Once(log \ cursor) = {}
  BY DEF Once
<1> QED BY <1>2, <1>3, <1>4 DEF Input

\* The plan divides what a pair owes into its item and its remaining debt.
LEMMA PlanDivides ==
    ASSUME TypeOK, NEW U, NEW seen \in Balances, NEW k \in Keys
    PROVE  /\ NewPlan(U, seen).pay[k] + NewPlan(U, seen).debts[k].usd = Owed(U, k)
           /\ NewPlan(U, seen).pay[k] \in Nat /\ NewPlan(U, seen).debts[k].usd \in Nat
<1>1. /\ Allocated(U, seen, k) \in Nat /\ Owed(U, k) \in Nat
      /\ Allocated(U, seen, k) <= Owed(U, k)
  BY AllocatedType, OwedType
<1>2. NewPlan(U, seen).pay[k] = Allocated(U, seen, k)
  BY DEF NewPlan
<1>3. NewPlan(U, seen).debts[k].usd =
        IF Allocated(U, seen, k) < Owed(U, k) THEN Owed(U, k) - Allocated(U, seen, k) ELSE 0
  BY DEF NewPlan, NoDebt
<1> QED BY <1>1, <1>2, <1>3

\* A cycle is planned: the usage since the cursor joins the accounts of the plan.
LEMMA AggregateStep ==
    ASSUME Accounted, [Next]_vars, Aggregate
    PROVE  Accounted'
<1> USE DEF Others
<1>1. /\ UNCHANGED <<log, cursor, debts, wal, paid, processed, mempool>>
      /\ pc = "peek" /\ pc' = "planned" /\ cycle' = cycle + 1 /\ dlWas' = dl
  BY DEF Aggregate
<1>2. PICK U \in SUBSET MayUnmap, seen \in Balances :
        /\ plan' = NewPlan(U, seen)
        /\ dl' = Unresolved(U) \/ (dl' = dl /\ slips' =
              IF dl = Unresolved(U) THEN slips ELSE slips \cup {"deadLetterNotSaved"})
  BY DEF Aggregate
<1>3. TypeOK' /\ TypeOK /\ slips \subseteq slips'
  BY TypeStep, SlipsGrow DEF Accounted
<1>4. /\ plan'.id = cycle + 1 /\ plan'.cursor = log /\ plan'.done = 0
  BY <1>2 DEF NewPlan
<1>5. wal # NoWAL => Unconfirmed(wal) = {} /\ cursor = wal.cursor
  BY <1>1 DEF Accounted, ControlOK
<1>6. CursorsOK'
  BY <1>1, <1>4 DEF Accounted, CursorsOK
<1>7. ChainOK'
  BY <1>1, <1>3 DEF Accounted, ChainOK, TypeOK, Entries, Txs
<1>8. Sound' => Sound
  BY <1>3 DEF Sound
<1>9. ControlOK'
  <2>1. plan' # NoWAL
    BY <1>3, <1>4 DEF NoWAL, TypeOK
  <2> QED BY <1>1, <1>3, <1>4, <1>5, <1>8, <2>1 DEF Accounted, ControlOK, TypeOK, Plan
<1>10. SUFFICES ASSUME Sound' PROVE FinalOK' /\ MempoolOK' /\ DeadLettersOK' /\ AccountsOK'
  BY <1>3, <1>6, <1>7, <1>9 DEF Accounted, FinalOK, MempoolOK, DeadLettersOK, AccountsOK
<1>11. Sound /\ (wal # NoWAL => debts = wal.debts) /\ dl' = Unresolved(U)
  BY <1>1, <1>2, <1>8, <1>10 DEF Accounted, ControlOK, Sound, BooksSlips
<1>12. FinalOK' /\ MempoolOK'
  BY <1>1, <1>11 DEF Accounted, FinalOK, MempoolOK, InProgress
<1>13. Passed = cursor /\ Passed' = Passed /\ DeadLetters = dl /\ DeadLetters' = dl
  BY <1>1, <1>5 DEF Passed, DeadLetters
<1>14. dl \subseteq Once(cursor)
  BY <1>11, <1>13 DEF Accounted, DeadLettersOK
<1>15. Input = dl \cup Once(log \ cursor) /\ dl \cap Once(log \ cursor) = {}
  BY <1>3, <1>14, InputSplit
<1>16. cursor \subseteq log
  BY DEF Accounted, CursorsOK
<1>17. DeadLettersOK'
  <2>1. Unresolved(U) \subseteq Once(log)
    BY <1>14, <1>15, <1>16 DEF Unresolved, Once
  <2> QED BY <1>4, <1>11, <1>13, <1>14, <2>1 DEF DeadLettersOK
<1>18. AccountsOK'
  <2>1. ASSUME NEW k \in Keys
        PROVE  /\ Due(k)' = Due(k) /\ Due(k) = 0
               /\ Carried(k)' = Carried(k) /\ Carried(k) = debts[k].usd
    <3>1. Due(k) = 0
      BY <1>3, <1>5, NothingDue, NoWALHasNoBatch DEF Due
    <3>2. Due(k)' = Due(k)
      BY <1>1 DEF Due, Landed
    <3> QED BY <1>1, <1>11, <3>1, <3>2 DEF Carried
  <2>2. ASSUME NEW k \in Keys
        PROVE  paid[k] + plan'.pay[k] + plan'.debts[k].usd + Usage(Unresolved(U), k)
                   = Usage(Once(log), k)
    <3>1. paid[k] + debts[k].usd + Usage(dl, k) = Usage(Once(cursor), k)
      <4>1. paid[k] + Due(k) + Carried(k) + Usage(dl, k) = Usage(Once(cursor), k)
        BY <1>11, <1>13 DEF Accounted, AccountsOK
      <4>2. paid[k] \in Int
        BY <1>3 DEF TypeOK
      <4> QED BY <2>1, <4>1, <4>2
    <3>2. plan'.pay[k] + plan'.debts[k].usd = debts[k].usd + Usage(Resolved(U), k)
      BY <1>2, <1>3, PlanDivides DEF Owed
    <3>3. IsFiniteSet(Input) /\ IsFiniteSet(dl) /\ IsFiniteSet(Resolved(U)) /\ IsFiniteSet(Unresolved(U))
      BY <1>3, InputType, FS_Subset DEF TypeOK, Resolved, Unresolved
    <3>4. IsFiniteSet(Once(log \ cursor)) /\ IsFiniteSet(Once(cursor))
      BY <1>3, OnceFinite DEF TypeOK
    <3>5. Usage(Input, k) = Usage(Resolved(U), k) + Usage(Unresolved(U), k)
      <4>1. Resolved(U) \cup Unresolved(U) = Input /\ Resolved(U) \cap Unresolved(U) = {}
        BY DEF Resolved, Unresolved
      <4>2. Usage(Resolved(U) \cup Unresolved(U), k) = Usage(Resolved(U), k) + Usage(Unresolved(U), k)
        BY <3>3, <4>1, UsageSplit
      <4> QED BY <4>1, <4>2
    <3>6. Usage(Input, k) = Usage(dl, k) + Usage(Once(log \ cursor), k)
      <4>1. dl \cap Once(log \ cursor) = {} /\ IsFiniteSet(dl) /\ IsFiniteSet(Once(log \ cursor))
        BY <1>15, <3>3, <3>4
      <4>2. Usage(dl \cup Once(log \ cursor), k) = Usage(dl, k) + Usage(Once(log \ cursor), k)
        BY <4>1, UsageSplit
      <4> QED BY <1>15, <4>2
    <3>7. Usage(Once(log), k) = Usage(Once(cursor), k) + Usage(Once(log \ cursor), k)
      <4>1. Once(cursor) \cup Once(log \ cursor) = Once(log)
        BY <1>16 DEF Once
      <4>2. Once(cursor) \cap Once(log \ cursor) = {}
        BY DEF Once
      <4>3. Usage(Once(cursor) \cup Once(log \ cursor), k) = Usage(Once(cursor), k) + Usage(Once(log \ cursor), k)
        BY <3>4, <4>2, UsageSplit
      <4> QED BY <4>1, <4>3
    <3>8. /\ paid[k] \in Int /\ debts[k].usd \in Nat
          /\ plan'.pay[k] \in Nat /\ plan'.debts[k].usd \in Nat
      BY <1>2, <1>3, PlanDivides DEF TypeOK, Debt
    <3>9. /\ Usage(dl, k) \in Nat /\ Usage(Resolved(U), k) \in Nat
          /\ Usage(Unresolved(U), k) \in Nat /\ Usage(Once(cursor), k) \in Nat
          /\ Usage(Once(log \ cursor), k) \in Nat
      BY <3>3, <3>4, UsageType
    <3>10. /\ paid[k] + plan'.pay[k] + plan'.debts[k].usd + Usage(Unresolved(U), k)
                 = paid[k] + debts[k].usd + Usage(Resolved(U), k) + Usage(Unresolved(U), k)
      BY <3>2, <3>8, <3>9
    <3>11. Usage(Resolved(U), k) + Usage(Unresolved(U), k) = Usage(dl, k) + Usage(Once(log \ cursor), k)
      BY <3>5, <3>6
    <3> QED BY <3>1, <3>7, <3>8, <3>9, <3>10, <3>11
  <2>3. \A k \in Keys : paid[k] + Due(k) + Carried(k) + Usage(dl, k) = Usage(Once(Passed), k)
    BY <1>11, <1>13 DEF Accounted, AccountsOK
  <2> QED BY <1>1, <1>4, <1>11, <1>13, <2>1, <2>2, <2>3 DEF AccountsOK
<1> QED BY <1>12, <1>17, <1>18

\* Every step keeps the accounts: one case for each action.
LEMMA AccountedStep ==
    ASSUME Accounted, [Next]_vars
    PROVE  Accounted'
<1>1. CASE UNCHANGED vars
  <2>1. UNCHANGED <<log, cursor, dl, debts, wal, total, ledger, cycle, pc, origin, plan,
                    receipt, pending, paid, processed, mempool, dlWas, slips, faults>>
    BY <1>1 DEF vars, files, memory, chain, ghosts
  <2>2. TypeOK' /\ CursorsOK' /\ ControlOK'
    BY <2>1, TypeStep DEF Accounted, CursorsOK, ControlOK, Sound
  <2>3. /\ Passed' = Passed /\ DeadLetters' = DeadLetters
        /\ \A k \in Keys : Carried(k)' = Carried(k)
    BY <2>1 DEF Passed, DeadLetters, Carried
  <2>4. ChainOK' /\ FinalOK' /\ MempoolOK' /\ DeadLettersOK'
    BY <2>1, <2>3 DEF Accounted, ChainOK, FinalOK, MempoolOK, DeadLettersOK, InProgress, Sound
  <2>5. \A k \in Keys : Due(k)' = Due(k)
    BY <2>1 DEF Due, Landed
  <2>6. AccountsOK'
    BY <2>1, <2>3, <2>5 DEF Accounted, AccountsOK, Sound
  <2> QED BY <2>2, <2>4, <2>6 DEF Accounted
<1>2. CASE Settler
  <2>1. CASE \/ Boot \/ SettleBegin \/ NothingPending \/ Receipt \/ Final
             \/ Vanished \/ Ledger \/ AddSettledTotal \/ Restore \/ Skip
    BY <2>1, QuietSteps
  <2>2. CASE Dedup \/ Confirm
    BY <2>2, DedupStep, ConfirmStep
  <2>3. CASE Submit \/ Abort
    BY <2>3, SubmitStep, StopSteps
  <2>4. CASE Commit \/ SaveDebts
    BY <2>4, CommitSteps
  <2>5. CASE RemoveWAL
    <3>1. wal' = wal \/ wal' = NoWAL
      BY <2>5 DEF RemoveWAL
    <3> QED BY <2>5, <3>1, CommitSteps, RemoveStep
  <2>6. CASE Aggregate \/ WritePending
    BY <2>6, AggregateStep, WritePendingStep
  <2> QED BY <1>2, <2>1, <2>2, <2>3, <2>4, <2>5, <2>6 DEF Settler
<1>3. CASE Environment
  <2>1. CASE \E t \in mempool : Mine(t) \/ Drop(t)
    BY <2>1, MineStep, DropStep
  <2>2. CASE \E e \in processed : Bury(e) \/ Reorg(e)
    BY <2>2, BuryStep, ReorgStep
  <2>3. CASE \E r \in Requests : Serve(r)
    BY <2>3, ServeStep
  <2>4. CASE Crash
    BY <2>4, StopSteps
  <2> QED BY <1>3, <2>1, <2>2, <2>3, <2>4 DEF Environment
<1> QED BY <1>1, <1>2, <1>3 DEF Next

\* Nothing was used, so nothing costs anything.
LEMMA NoUsage == \A k : Usage(Once({}), k) = 0 /\ Usage({}, k) = 0
<1>1. SUFFICES ASSUME NEW k PROVE Usage({}, k) = 0
  <2>1. Once({}) = {}
    BY DEF Once
  <2> QED BY <2>1
<1>2. {u \in {} \X (1 .. MaxCost) : KeyOf(u[1][1]) = k /\ u[2] <= CostOf[u[1][1]]} = {}
  OBVIOUS
<1> QED BY <1>2, FS_EmptySet DEF Usage

\* The gateway starts with empty books.
LEMMA AccountedInit == Init => Accounted
<1> SUFFICES ASSUME Init PROVE Accounted
  OBVIOUS
<1>1. TypeOK
  BY NoWALType, FS_EmptySet DEF Init, TypeOK, NoDebt, Debt, Pcs, Origins, Slips
<1>2. CursorsOK /\ ChainOK /\ ControlOK
  BY DEF Init, CursorsOK, ChainOK, ControlOK, NoWAL
<1>3. FinalOK /\ MempoolOK /\ DeadLettersOK
  BY DEF Init, FinalOK, MempoolOK, DeadLettersOK, DeadLetters
<1>4. ASSUME NEW k \in Keys
      PROVE  paid[k] + Due(k) + Carried(k) + Usage(DeadLetters, k) = Usage(Once(Passed), k)
  <2>1. Due(k) = 0
    BY NoWALHasNoBatch DEF Init, Due
  <2>2. paid[k] = 0 /\ Carried(k) = 0 /\ DeadLetters = {} /\ Passed = {}
    BY DEF Init, Carried, DeadLetters, Passed, NoDebt
  <2> QED BY <2>1, <2>2, NoUsage
<1>5. AccountsOK
  BY <1>4 DEF AccountsOK, Init
<1> QED BY <1>1, <1>2, <1>3, <1>5 DEF Accounted

\* At every moment each unit of usage that a pair has been charged with is in exactly
\* one place (the chain, the batch under way, the debts, the dead letters), for any
\* number of wallets, providers, requests, cycles and faults.
THEOREM AccountedInvariant == Spec => []Accounted
<1>1. Init => Accounted
  BY AccountedInit
<1>2. Accounted /\ [Next]_vars => Accounted'
  BY AccountedStep
<1> QED BY <1>1, <1>2, PTL DEF Spec

\* Between settlements every pair's usage up to the cursor is paid, carried or parked,
\* once: what the WAL, the dedup check and the order of resumePending's writes are for.
THEOREM BooksBalanceAlways == Spec => []BooksBalance
<1>1. Accounted => BooksBalance
  <2> SUFFICES ASSUME Accounted, wal = NoWAL, pc # "planned", slips \cap BooksSlips = {}
               PROVE  Balanced
    BY DEF BooksBalance
  <2>1. TypeOK /\ Sound /\ AccountsOK
    BY DEF Accounted, Sound
  <2>2. SUFFICES ASSUME NEW k \in Keys
                 PROVE  paid[k] + debts[k].usd + Usage(dl, k) = Usage(Once(cursor), k)
    BY DEF Balanced
  <2>3. Due(k) = 0 /\ Carried(k) = debts[k].usd /\ Passed = cursor /\ DeadLetters = dl
    BY NoWALHasNoBatch DEF Due, Carried, Passed, DeadLetters
  <2>4. paid[k] + Due(k) + Carried(k) + Usage(DeadLetters, k) = Usage(Once(Passed), k)
    BY <2>1 DEF AccountsOK
  <2>5. paid[k] \in Int
    BY <2>1 DEF TypeOK
  <2> QED BY <2>3, <2>4, <2>5
<1> QED BY <1>1, AccountedInvariant, PTL

\* No pair ever pays for more than was served to it, in the middle of a settlement and
\* through replays, timeouts, crashes and reorganisations too.
THEOREM NoOverchargeAlways == Spec => []NoOvercharge
<1>1. Accounted => NoOvercharge
  <2> SUFFICES ASSUME Accounted, slips \cap BooksSlips = {}, NEW k \in Keys
               PROVE  paid[k] <= Usage(Once(log), k)
    BY DEF NoOvercharge, Undercharged
  <2>1. TypeOK /\ Sound /\ AccountsOK /\ CursorsOK
    BY DEF Accounted, Sound
  <2>2. Due(k) \in Nat /\ Carried(k) \in Nat /\ Usage(DeadLetters, k) \in Nat
    BY <2>1, AmountTypes
  <2>3. Passed \subseteq log
    BY <2>1 DEF CursorsOK, Passed
  <2>4. IsFiniteSet(Once(log)) /\ Once(Passed) \subseteq Once(log)
    BY <2>1, <2>3, OnceFinite DEF TypeOK, Once
  <2>5. Usage(Once(Passed), k) <= Usage(Once(log), k)
    BY <2>4, UsageMonotone
  <2>6. Usage(Once(log), k) \in Nat
    BY <2>4, UsageType
  <2>7. paid[k] + Due(k) + Carried(k) + Usage(DeadLetters, k) = Usage(Once(Passed), k)
    BY <2>1 DEF AccountsOK
  <2>8. paid[k] \in Int
    BY <2>1 DEF TypeOK
  <2> QED BY <2>2, <2>5, <2>6, <2>7, <2>8
<1> QED BY <1>1, AccountedInvariant, PTL


\* A batch that is confirmed stays on the chain: the rule by which resumePending sets
\* Confirmed, kept by everything the chain can still do.
LEMMA StandingStep ==
    ASSUME Accounted, Standing, [Next]_vars
    PROVE  Standing'
<1> USE DEF Others
<1>1. TypeOK /\ TypeOK' /\ slips \subseteq slips'
  BY TypeStep, SlipsGrow DEF Accounted
<1>2. wal \in Plan /\ plan \in Plan
  BY <1>1 DEF TypeOK
<1> SUFFICES ASSUME "shallowFinal" \notin slips', NEW b \in BatchNos(wal)', b <= wal'.done
             PROVE  \E e \in processed' : e.hash = DetailsHash(wal', b) /\ e.deep
  BY DEF Standing, On
<1>3. \A c \in BatchNos(wal) :
        c <= wal.done => \E e \in processed : e.hash = DetailsHash(wal, c) /\ e.deep
  BY <1>1 DEF Standing, On
<1>4. CASE UNCHANGED wal /\ \A e \in processed : e.deep => e \in processed'
  BY <1>3, <1>4
<1>5. CASE /\ UNCHANGED processed /\ wal.pay = wal'.pay /\ wal.rids = wal'.rids
           /\ wal.recs = wal'.recs /\ wal'.done = Current(wal)
           /\ \E e \in processed : e.hash = DetailsHash(wal, Current(wal)) /\ e.deep
  <2>1. BatchNos(wal) = BatchNos(wal') /\ \A c : DetailsHash(wal, c) = DetailsHash(wal', c)
    BY <1>5, SameBatches
  <2>2. b \in BatchNos(wal)
    BY <2>1
  <2>3. b \in Nat
    BY <1>2, <2>2, BatchItems DEF BatchNos, Items
  <2>4. b <= wal.done \/ b = Current(wal)
    BY <1>2, <1>5, <2>3 DEF Current, Plan
  <2> QED BY <1>3, <1>5, <2>1, <2>2, <2>4
<1>6. CASE wal'.done = 0 /\ wal' \in Plan
  <2>1. b \in Nat /\ b > 0
    BY <1>6, BatchItems DEF BatchNos, Items
  <2> QED BY <1>6, <2>1
<1>7. CASE Dedup
  <2>1. PICK e \in processed : /\ e.hash = DetailsHash(wal, Current(wal))
                               /\ e.deep \/ "shallowFinal" \in slips'
    BY <1>7 DEF Dedup, On
  <2>2. UNCHANGED processed /\ wal' = [wal EXCEPT !.done = Current(wal)]
    BY <1>7 DEF Dedup
  <2> QED BY <1>2, <1>5, <2>1, <2>2 DEF Plan
<1>8. CASE Confirm
  <2>1. PICK e \in processed : e.hash = DetailsHash(wal, Current(wal)) /\ e.deep
    BY <1>8 DEF Confirm, On
  <2>2. UNCHANGED processed /\ wal' = [Reversed(wal, receipt) EXCEPT !.done = Current(wal)]
    BY <1>8 DEF Confirm
  <2> QED BY <1>2, <1>5, <2>1, <2>2 DEF Plan, Reversed
<1>9. CASE \/ Boot \/ SettleBegin \/ NothingPending \/ Submit \/ Receipt \/ Final
           \/ Vanished \/ Ledger \/ Commit \/ AddSettledTotal \/ SaveDebts
           \/ Abort \/ Restore \/ Skip \/ Aggregate \/ Crash
  <2>1. UNCHANGED <<wal, processed>>
    BY <1>9 DEF Boot, SettleBegin, NothingPending, Submit, Receipt, Final, Vanished, Ledger,
                Commit, AddSettledTotal, SaveDebts, Abort, Restore, Skip, Aggregate, Crash
  <2> QED BY <1>4, <2>1
<1>10. CASE RemoveWAL
  <2>1. UNCHANGED processed /\ (wal' = wal \/ wal' = NoWAL)
    BY <1>10 DEF RemoveWAL
  <2>2. NoWAL.done = 0
    BY DEF NoWAL
  <2> QED BY <1>4, <1>6, <2>1, <2>2, NoWALType
<1>11. CASE WritePending
  <2>1. wal' = plan /\ plan.done = 0
    BY <1>11 DEF WritePending, Accounted, ControlOK
  <2> QED BY <1>2, <1>6, <2>1
<1>12. CASE Environment /\ ~Crash
  <2>1. UNCHANGED wal /\ \A e \in processed : e.deep => e \in processed'
    BY <1>12 DEF Environment, Mine, Drop, Bury, Reorg, Serve, files, chain
  <2> QED BY <1>4, <2>1
<1>13. CASE UNCHANGED vars
  BY <1>4, <1>13 DEF vars, files, chain
<1> QED BY <1>7, <1>8, <1>9, <1>10, <1>11, <1>12, <1>13 DEF Next, Settler, Environment

\* CommitCursor comes after the chain: when the cursor moves, every batch of the plan is
\* executed, for plans of any number of batches.
THEOREM CursorAfterChainAlways == Spec => CursorAfterChain
<1>1. Init => Standing
  <2>1. BatchNos(NoWAL) = {}
    BY NoWALHasNoBatch DEF BatchNos
  <2> QED BY <2>1 DEF Init, Standing
<1>2. Accounted /\ Standing /\ [Next]_vars => Standing'
  BY StandingStep
<1>3. Accounted /\ Standing /\ [Next]_vars =>
        [cursor' # cursor /\ slips \cap {"shallowFinal"} = {} =>
           \A b \in BatchNos(wal) : On(DetailsHash(wal, b)) # {}]_vars
  <2> SUFFICES ASSUME Accounted, Standing, Next, cursor' # cursor, "shallowFinal" \notin slips,
                      NEW b \in BatchNos(wal)
               PROVE  On(DetailsHash(wal, b)) # {}
    BY DEF vars, files
  <2>1. Unconfirmed(wal) = {}
    BY DEF Next, Settler, Environment, Boot, SettleBegin, NothingPending, Dedup, Submit,
           Receipt, Final, Vanished, Confirm, Ledger, Commit, AddSettledTotal, SaveDebts,
           RemoveWAL, Abort, Restore, Skip, Aggregate, WritePending, Mine, Drop, Bury,
           Reorg, Serve, Crash, files
  <2>2. wal \in Plan
    BY DEF Accounted, TypeOK
  <2>3. b \in Nat
    BY <2>2, BatchItems DEF BatchNos, Items
  <2>4. b <= wal.done
    BY <2>1, <2>2, <2>3 DEF Unconfirmed, Plan
  <2> QED BY <2>4 DEF Standing
<1> QED BY <1>1, <1>2, <1>3, AccountedInvariant, PTL DEF Spec, CursorAfterChain


-----------------------------------------------------------------------------
(* The batches of a plan are numbered without a gap.                         *)

LEMMA Least ==
    ASSUME NEW T \in SUBSET Nat, T # {}
    PROVE  \E x \in T : \A y \in T : x <= y
<1>1. PICK x \in T : \A y \in T : ~(<<y, x>> \in OpToRel(<, Nat))
  BY NatLessThanWellFounded, WFMin
<1>2. \A y \in T : ~(y < x)
  BY <1>1 DEF OpToRel
<1> QED BY <1>2

\* The position of k among the items of p, counted from 0.
Rank(p, k) == Cardinality({j \in Items(p) : Before(j, k)})

LEMMA RankType ==
    ASSUME NEW p, NEW k
    PROVE  IsFiniteSet({j \in Items(p) : Before(j, k)}) /\ Rank(p, k) \in Nat
<1>1. {j \in Items(p) : Before(j, k)} \in SUBSET Keys
  BY DEF Items
<1> QED BY <1>1, KeysFinite, FS_CardinalityType DEF Rank

\* The order of the items is total and transitive.
LEMMA Order ==
    ASSUME NEW i \in Keys, NEW j \in Keys, NEW k \in Keys
    PROVE  /\ ~Before(i, i)
           /\ i # j => Before(i, j) \/ Before(j, i)
           /\ Before(i, j) /\ Before(j, k) => Before(i, k)
<1>1. \A x \in Keys : x[1] \in Nat /\ x[2] \in Nat
  BY SettlementAssumption DEF Keys
<1>2. i[1] = j[1] /\ i[2] = j[2] => i = j
  BY DEF Keys
<1>3. /\ i[1] \in Nat /\ i[2] \in Nat /\ j[1] \in Nat
      /\ j[2] \in Nat /\ k[1] \in Nat /\ k[2] \in Nat
  BY <1>1
<1> QED BY <1>2, <1>3 DEF Before

\* Ranks follow the order.
LEMMA RankGrows ==
    ASSUME NEW p, NEW j \in Items(p), NEW k \in Keys, Before(j, k)
    PROVE  Rank(p, j) < Rank(p, k)
<1> DEFINE A == {i \in Items(p) : Before(i, j)}
           B == {i \in Items(p) : Before(i, k)}
<1>1. A \subseteq B /\ j \in B /\ j \notin A
  BY Order DEF Items
<1>2. IsFiniteSet(B) /\ Rank(p, j) = Cardinality(A) /\ Rank(p, k) = Cardinality(B)
  BY RankType DEF Rank
<1> HIDE DEF A, B
<1>3. A \in SUBSET B /\ A # B
  BY <1>1
<1>4. Cardinality(A) <= Cardinality(B) /\ (Cardinality(A) = Cardinality(B) => A = B)
  BY <1>2, <1>3, FS_Subset
<1>5. Cardinality(A) \in Nat /\ Cardinality(B) \in Nat
  BY <1>2, <1>3, FS_Subset, FS_CardinalityType
<1> QED BY <1>2, <1>3, <1>4, <1>5

\* An item that is not the first comes right after another one.
LEMMA RankStep ==
    ASSUME NEW p, NEW k \in Keys, Rank(p, k) > 0
    PROVE  \E j \in Items(p) : Before(j, k) /\ Rank(p, k) = Rank(p, j) + 1
<1> DEFINE B == {i \in Items(p) : Before(i, k)}
           T == {Rank(p, k) - Rank(p, i) : i \in B}
<1>1. IsFiniteSet(B) /\ Rank(p, k) = Cardinality(B) /\ Rank(p, k) \in Nat
  BY RankType DEF Rank
<1>2. B # {}
  BY <1>1, FS_EmptySet
<1>3. \A i \in B : i \in Items(p) /\ i \in Keys /\ Before(i, k) /\ Rank(p, i) \in Nat /\ Rank(p, i) < Rank(p, k)
  BY RankGrows, RankType DEF Items
<1>4. T \in SUBSET Nat /\ T # {}
  <2>1. \A i \in B : Rank(p, k) - Rank(p, i) \in Nat
    BY <1>1, <1>3
  <2> QED BY <1>2, <2>1
<1>5. PICK x \in T : \A y \in T : x <= y
  BY <1>4, Least
<1>6. PICK j \in B : x = Rank(p, k) - Rank(p, j)
  BY <1>5
<1>7. \A i \in B : Rank(p, i) <= Rank(p, j)
  <2>1. SUFFICES ASSUME NEW i \in B PROVE Rank(p, i) <= Rank(p, j)
    OBVIOUS
  <2>2. Rank(p, k) - Rank(p, j) <= Rank(p, k) - Rank(p, i)
    BY <1>5, <1>6
  <2> QED BY <1>1, <1>3, <2>2
<1> DEFINE A == {i \in Items(p) : Before(i, j)}
<1>8. B = A \cup {j}
  <2>1. \A i \in A : i \in B
    BY <1>3, Order DEF Items
  <2>2. ASSUME NEW i \in B, i # j PROVE i \in A
    <3>1. Before(i, j) \/ Before(j, i)
      BY <1>3, <2>2, Order
    <3>2. Before(j, i) => Rank(p, j) < Rank(p, i)
      BY <1>3, RankGrows
    <3>3. ~Before(j, i)
      BY <1>3, <1>7, <3>2
    <3> QED BY <1>3, <3>1, <3>3
  <2> QED BY <2>1, <2>2
<1>9. j \notin A /\ IsFiniteSet(A) /\ Rank(p, j) = Cardinality(A)
  BY <1>3, Order, RankType DEF Rank
<1> HIDE DEF A, B
<1>10. Cardinality(A \cup {j}) = Cardinality(A) + 1
  BY <1>9, FS_AddElement
<1> QED BY <1>1, <1>3, <1>8, <1>9, <1>10

\* splitBatches leaves no batch out: as long as some batch is unconfirmed, the next
\* one exists.
LEMMA NoBatchMissing ==
    ASSUME NEW p \in Plan, Unconfirmed(p) # {}
    PROVE  Current(p) \in BatchNos(p)
<1> DEFINE M == MaxBatchSize
           d == p.done
<1>1. M \in Nat /\ M > 0 /\ d \in Nat
  BY SettlementAssumption DEF Plan
<1>2. \A k \in Keys : BatchNo(p, k) = Rank(p, k) \div M + 1 /\ Rank(p, k) \in Nat
  BY RankType DEF BatchNo, Rank
<1>3. PICK k0 \in Items(p) : BatchNo(p, k0) > d
  BY DEF Unconfirmed, BatchNos
<1>4. d * M \in Nat
  BY <1>1
<1> DEFINE T == {Rank(p, k) : k \in {i \in Items(p) : Rank(p, i) >= d * M}}
<1>5. Rank(p, k0) >= d * M
  <2>1. Rank(p, k0) \div M >= d /\ Rank(p, k0) \in Nat
    BY <1>1, <1>2, <1>3 DEF Items
  <2> DEFINE q == Rank(p, k0) \div M
             n == Rank(p, k0)
  <2>2. q \in Int /\ n \in Nat /\ q >= d
    BY <1>1, <2>1
  <2>3. M * q <= n
    BY <1>1, <2>1
  <2> HIDE DEF q, n, M, d
  <2>4. d * M <= M * q
    BY <1>1, <2>2
  <2> QED BY <1>1, <1>4, <2>2, <2>3, <2>4 DEF n
<1>6. T \in SUBSET Nat /\ T # {}
  BY <1>2, <1>3, <1>5 DEF Items
<1>7. PICK x \in T : \A y \in T : x <= y
  BY <1>6, Least
<1>8. PICK k \in Items(p) : Rank(p, k) >= d * M /\ x = Rank(p, k)
  BY <1>7
<1>9. Rank(p, k) = d * M
  <2>1. SUFFICES ASSUME Rank(p, k) > d * M PROVE FALSE
    BY <1>2, <1>4, <1>8 DEF Items
  <2>2. PICK j \in Items(p) : Before(j, k) /\ Rank(p, k) = Rank(p, j) + 1
    BY <1>2, <1>4, <2>1, RankStep DEF Items
  <2>3. Rank(p, j) >= d * M /\ Rank(p, j) \in Nat
    BY <1>2, <1>4, <2>1, <2>2 DEF Items
  <2>4. Rank(p, k) <= Rank(p, j)
    BY <1>7, <1>8, <2>3
  <2> QED BY <1>2, <2>2, <2>3, <2>4
<1>10. (d * M) \div M = d
  <2> HIDE DEF d, M
  <2> QED BY <1>1
<1>11. BatchNo(p, k) = d + 1
  BY <1>2, <1>9, <1>10 DEF Items
<1> QED BY <1>8, <1>11 DEF Current, BatchNos
-----------------------------------------------------------------------------
(* Every executed batch reaches the ledgers.                                 *)

\* Once every batch of the WAL is confirmed, none is in progress.
LEMMA NoneInProgress ==
    ASSUME Accounted, BatchesFilled, Unconfirmed(wal) = {}
    PROVE  \A x \in processed \cup mempool : ~InProgress(x)
BY NothingInProgress DEF Accounted, BatchesFilled

\* No empty batch gets onto the chain or into the mempool.
LEMMA BatchesFilledStep ==
    ASSUME Accounted, BatchesFilled, [Next]_vars
    PROVE  BatchesFilled'
<1>1. wal \in Plan
  BY DEF Accounted, TypeOK
<1>2. CASE \A y \in processed' \cup mempool' : \E x \in processed \cup mempool : y.hash = x.hash
  BY <1>2 DEF BatchesFilled
<1>3. CASE UNCHANGED <<processed, mempool>>
  BY <1>2, <1>3
<1>4. CASE Settler
  <2>1. CASE Submit
    <3> DEFINE h == DetailsHash(wal, Current(wal))
    <3>1. PICK k \in Items(wal) : BatchNo(wal, k) = Current(wal)
      BY <1>1, <2>1, NoBatchMissing DEF Submit, BatchNos
    <3>2. Items(h) # {}
      BY <1>1, <3>1, BatchItems
    <3>3. processed' = processed /\ mempool' = mempool \cup {[hash |-> h, id |-> wal.id]}
      BY <2>1 DEF Submit, Others
    <3> HIDE DEF h
    <3>4. \A y \in mempool' : y \in mempool \/ y.hash = h
      BY <3>3
    <3> QED BY <3>2, <3>3, <3>4 DEF BatchesFilled
  <2>2. CASE Settler /\ ~Submit
    BY <1>3, <2>2 DEF Settler, Boot, SettleBegin, NothingPending, Dedup, Receipt, Final,
       Vanished, Confirm, Ledger, Commit, AddSettledTotal, SaveDebts, RemoveWAL, Abort,
       Restore, Skip, Aggregate, WritePending, Others
  <2> QED BY <1>4, <2>1, <2>2
<1>5. CASE Environment
  <2>1. ASSUME NEW t \in mempool, Mine(t) PROVE BatchesFilled'
    <3>1. mempool' \subseteq mempool
      BY <2>1 DEF Mine
    <3>2. \A y \in processed' : y \in processed \/ y.hash = t.hash
      BY <2>1 DEF Mine
    <3> QED BY <1>2, <2>1, <3>1, <3>2
  <2>2. ASSUME NEW t \in mempool, Drop(t) PROVE BatchesFilled'
    BY <1>2, <2>2 DEF Drop
  <2>3. ASSUME NEW e \in processed, Bury(e) PROVE BatchesFilled'
    <3>1. e \in Entries
      BY DEF Accounted, TypeOK
    <3>2. [e EXCEPT !.deep = TRUE].hash = e.hash
      BY <3>1 DEF Entries
    <3> QED BY <1>2, <2>3, <3>2 DEF Bury
  <2>4. ASSUME NEW e \in processed, Reorg(e) PROVE BatchesFilled'
    <3>1. \A y \in mempool' : y \in mempool \/ y.hash = e.hash
      BY <2>4 DEF Reorg
    <3>2. processed' \subseteq processed
      BY <2>4 DEF Reorg
    <3> QED BY <1>2, <2>4, <3>1, <3>2
  <2>5. CASE (\E r \in Requests : Serve(r)) \/ Crash
    BY <1>3, <2>5 DEF Serve, Crash, chain, Others
  <2> QED BY <1>5, <2>1, <2>2, <2>3, <2>4, <2>5 DEF Environment
<1>6. CASE UNCHANGED vars
  BY <1>3, <1>6 DEF vars, chain
<1> QED BY <1>4, <1>5, <1>6 DEF Next

\* A batch is confirmed: it stands on the chain for good, and is in the ledgers or
\* about to be written to them.
LEMMA LedgerConfirms ==
    ASSUME Accounted, LedgerInv, TypeOK', Recorded, UNCHANGED <<processed, mempool, ledger>>,
           pc # "ledger",
           wal # NoWAL, wal' # NoWAL, wal'.id = wal.id, wal'.pay = wal.pay,
           wal'.rids = wal.rids, wal'.recs = wal.recs, wal'.done = Current(wal),
           NEW e \in processed, e.hash = DetailsHash(wal, Current(wal)), e.id = wal.id, e.deep,
           e.hash \in ledger \/ pc' = "ledger"
    PROVE  SettledStays' /\ SubmittedOnce' /\ LedgeredOrOpen'
<1>1. \A b : DetailsHash(wal', b) = DetailsHash(wal, b)
  BY SameBatches
<1>2. Latest(wal') = Current(wal)
  BY DEF Latest
<1>3. \A f \in processed : InProgress(f) => f = e
  BY DEF Accounted, ChainOK, InProgress
<1>4. SettledStays'
  BY <1>3 DEF LedgerInv, SettledStays
<1>5. SubmittedOnce'
  BY DEF LedgerInv, SubmittedOnce, InProgress
<1>6. LedgeredOrOpen'
  <2> SUFFICES ASSUME NEW f \in processed, f.hash \notin ledger
               PROVE  pc' = "ledger" /\ f.id = wal'.id /\ f.hash = DetailsHash(wal', Latest(wal'))
    BY DEF LedgeredOrOpen
  <2>1. f = e
    BY <1>3 DEF LedgerInv, LedgeredOrOpen
  <2> QED BY <1>1, <1>2, <2>1
<1> QED BY <1>4, <1>5, <1>6

LEMMA LedgerStep ==
    ASSUME Accounted, LedgerInv, [Next]_vars
    PROVE  LedgerInv'
<1> USE DEF Others
<1>1. TypeOK' /\ slips \subseteq slips' /\ BatchesFilled' /\ wal \in Plan
  BY TypeStep, SlipsGrow, BatchesFilledStep DEF Accounted, LedgerInv, TypeOK
<1> SUFFICES ASSUME Recorded' PROVE SettledStays' /\ SubmittedOnce' /\ LedgeredOrOpen'
  BY <1>1 DEF LedgerInv, SettledStays, SubmittedOnce, LedgeredOrOpen
<1>2. Recorded
  BY <1>1 DEF Recorded
<1>3. /\ \A e \in processed : e.deep \/ InProgress(e)
      /\ \A t \in mempool : InProgress(t) \/ \E e \in processed : e.hash = t.hash /\ e.deep
      /\ \A e \in processed :
            \/ e.hash \in ledger
            \/ InProgress(e)
            \/ pc = "ledger" /\ e.id = wal.id /\ e.hash = DetailsHash(wal, Latest(wal))
  BY <1>2 DEF LedgerInv, SettledStays, SubmittedOnce, LedgeredOrOpen
<1>4. \A e, f \in processed : e.hash = f.hash => e = f
  BY DEF Accounted, ChainOK
<1>5. CASE UNCHANGED <<wal, processed, mempool, ledger>> /\ (pc # "ledger" \/ pc' = "ledger")
  <2>1. \A x : InProgress(x)' <=> InProgress(x)
    BY <1>5 DEF InProgress
  <2> QED BY <1>3, <1>5, <2>1 DEF SettledStays, SubmittedOnce, LedgeredOrOpen
<1>6. CASE \/ Boot \/ SettleBegin \/ NothingPending \/ Receipt \/ Final \/ Vanished
           \/ Commit \/ AddSettledTotal \/ SaveDebts \/ Abort \/ Restore \/ Skip \/ Aggregate
  BY <1>5, <1>6 DEF Boot, SettleBegin, NothingPending, Receipt, Final, Vanished, Commit,
     AddSettledTotal, SaveDebts, Abort, Restore, Skip, Aggregate
<1>7. CASE Submit
  <2> DEFINE t == [hash |-> DetailsHash(wal, Current(wal)), id |-> wal.id]
  <2>1. /\ UNCHANGED <<wal, processed, ledger>> /\ pc = "resume" /\ mempool' = mempool \cup {t}
    BY <1>7 DEF Submit
  <2>2. wal # NoWAL
    BY <1>7, NoWALHasNoBatch DEF Submit
  <2>3. \A x : InProgress(x)' <=> InProgress(x)
    BY <2>1 DEF InProgress
  <2>4. InProgress(t)
    BY <2>2 DEF InProgress
  <2> HIDE DEF t
  <2> QED BY <1>3, <2>1, <2>3, <2>4 DEF SettledStays, SubmittedOnce, LedgeredOrOpen
<1>8. CASE Ledger
  <2>1. /\ UNCHANGED <<wal, processed, mempool>> /\ ledger \subseteq ledger'
        /\ DetailsHash(wal, Latest(wal)) \in ledger'
    BY <1>8 DEF Ledger, Recorded
  <2>2. \A x : InProgress(x)' <=> InProgress(x)
    BY <2>1 DEF InProgress
  <2> QED BY <1>3, <2>1, <2>2 DEF SettledStays, SubmittedOnce, LedgeredOrOpen
<1>9. CASE Dedup
  <2>1. PICK e \in processed :
          /\ e.hash = DetailsHash(wal, Current(wal))
          /\ e.id = wal.id \/ "hashCollision" \in slips'
          /\ e.deep \/ "shallowFinal" \in slips'
          /\ e.hash \in ledger \/ "notLedgered" \in slips'
    BY <1>9 DEF Dedup, On
  <2>2. e.id = wal.id /\ e.deep /\ e.hash \in ledger
    BY <2>1 DEF Recorded
  <2>3. /\ UNCHANGED <<processed, mempool, ledger>> /\ pc # "ledger"
        /\ wal' = [wal EXCEPT !.done = Current(wal)]
    BY <1>9 DEF Dedup
  <2>4. wal # NoWAL
    BY <1>9, NoWALHasNoBatch DEF Dedup
  <2>5. /\ wal'.id = wal.id /\ wal'.pay = wal.pay /\ wal'.rids = wal.rids
        /\ wal'.recs = wal.recs /\ wal'.done = Current(wal)
    BY <1>1, <2>3 DEF Plan
  <2>6. wal' # NoWAL
    BY <1>1, <2>5 DEF Current, NoWAL, Plan
  <2> QED BY <1>1, <1>2, <2>1, <2>2, <2>3, <2>4, <2>5, <2>6, LedgerConfirms
<1>10. CASE Confirm
  <2>1. PICK e \in processed :
          e.hash = DetailsHash(wal, Current(wal)) /\ e.id = wal.id /\ e.deep
    BY <1>10 DEF Confirm, On, Recorded
  <2>2. /\ UNCHANGED <<processed, mempool, ledger>> /\ pc = "confirm" /\ pc' = "ledger"
        /\ wal' = [Reversed(wal, receipt) EXCEPT !.done = Current(wal)]
    BY <1>10 DEF Confirm
  <2>3. wal # NoWAL
    BY <2>2 DEF Accounted, ControlOK
  <2>4. /\ wal'.id = wal.id /\ wal'.pay = wal.pay /\ wal'.rids = wal.rids
        /\ wal'.recs = wal.recs /\ wal'.done = Current(wal)
    BY <1>1, <2>2 DEF Plan, Reversed
  <2>5. wal' # NoWAL
    BY <1>1, <2>4 DEF Current, NoWAL, Plan
  <2> QED BY <1>1, <1>2, <2>1, <2>2, <2>3, <2>4, <2>5, LedgerConfirms
<1>11. CASE RemoveWAL \/ WritePending
  <2>1. pc # "ledger" /\ (wal # NoWAL => Unconfirmed(wal) = {}) /\ UNCHANGED <<processed, mempool, ledger>>
    BY <1>11 DEF RemoveWAL, WritePending, Accounted, ControlOK
  <2>2. \A x \in processed \cup mempool : ~InProgress(x)
    BY <2>1, NoneInProgress DEF LedgerInv, InProgress
  <2> QED BY <1>3, <2>1, <2>2 DEF SettledStays, SubmittedOnce, LedgeredOrOpen
<1>12. CASE Environment
  <2>0. SUFFICES ASSUME UNCHANGED <<wal, ledger, pc>>, \A x : InProgress(x)' <=> InProgress(x)
                 PROVE  SettledStays' /\ SubmittedOnce' /\ LedgeredOrOpen'
    <3>1. CASE Crash
      <4>1. UNCHANGED <<wal, processed, mempool, ledger>> /\ pc # "ledger"
        BY <3>1 DEF Crash, Recorded
      <4> QED BY <1>5, <4>1
    <3>2. CASE Environment /\ ~Crash
      <4>1. UNCHANGED <<wal, ledger, pc>>
        BY <3>2 DEF Environment, Mine, Drop, Bury, Reorg, Serve, files, memory
      <4>2. \A x : InProgress(x)' <=> InProgress(x)
        BY <4>1 DEF InProgress
      <4> QED BY <2>0, <4>1, <4>2
    <3> QED BY <1>12, <3>1, <3>2
  <2>1. ASSUME NEW t \in mempool, Mine(t) PROVE SettledStays' /\ SubmittedOnce' /\ LedgeredOrOpen'
    <3>1. mempool' \subseteq mempool /\ processed \subseteq processed'
      BY <2>1 DEF Mine
    <3>2. \A e \in processed' : e \in processed \/ InProgress(e)
      <4> SUFFICES ASSUME NEW e \in processed', e \notin processed PROVE InProgress(e)
        OBVIOUS
      <4>1. e.hash = t.hash /\ e.id = t.id /\ On(t.hash) = {}
        BY <2>1 DEF Mine
      <4>2. InProgress(t)
        BY <1>3, <4>1 DEF On
      <4> QED BY <4>1, <4>2 DEF InProgress
    <3> QED BY <1>3, <2>0, <3>1, <3>2 DEF SettledStays, SubmittedOnce, LedgeredOrOpen
  <2>2. ASSUME NEW t \in mempool, Drop(t) PROVE SettledStays' /\ SubmittedOnce' /\ LedgeredOrOpen'
    BY <1>3, <2>0, <2>2 DEF Drop, SettledStays, SubmittedOnce, LedgeredOrOpen
  <2>3. ASSUME NEW e \in processed, Bury(e) PROVE SettledStays' /\ SubmittedOnce' /\ LedgeredOrOpen'
    <3> DEFINE d == [e EXCEPT !.deep = TRUE]
    <3>1. processed' = (processed \ {e}) \cup {d} /\ mempool' = mempool
      BY <2>3 DEF Bury
    <3>2. d.hash = e.hash /\ d.id = e.id /\ d.deep
      BY DEF Accounted, TypeOK, Entries
    <3>3. InProgress(d) <=> InProgress(e)
      BY <3>2 DEF InProgress
    <3> HIDE DEF d
    <3> QED BY <1>3, <2>0, <3>1, <3>2, <3>3 DEF SettledStays, SubmittedOnce, LedgeredOrOpen
  <2>4. ASSUME NEW e \in processed, Reorg(e) PROVE SettledStays' /\ SubmittedOnce' /\ LedgeredOrOpen'
    <3> DEFINE t == [hash |-> e.hash, id |-> e.id]
    <3>1. processed' = processed \ {e} /\ mempool' = mempool \cup {t} /\ ~e.deep
      BY <2>4 DEF Reorg
    <3>2. InProgress(t)
      BY <1>3, <3>1 DEF InProgress
    <3> HIDE DEF t
    <3> QED BY <1>3, <2>0, <3>1, <3>2 DEF SettledStays, SubmittedOnce, LedgeredOrOpen
  <2>5. CASE (\E r \in Requests : Serve(r)) \/ Crash
    BY <1>5, <2>0, <2>5 DEF Serve, Crash, chain
  <2> QED BY <1>12, <2>1, <2>2, <2>3, <2>4, <2>5 DEF Environment
<1>13. CASE UNCHANGED vars
  BY <1>5, <1>13 DEF vars, files, memory, chain
<1> QED BY <1>6, <1>7, <1>8, <1>9, <1>10, <1>11, <1>12, <1>13 DEF Next, Settler

\* For any number of batches, cycles and faults: a batch that the contract executed is
\* in the ledgers that receipts are served from (appendItemsLedger, appendMerkleLedger),
\* unless it belongs to the settlement under way.
THEOREM EveryBatchLedgeredAlways == Spec => []EveryBatchLedgered
<1>1. Init => LedgerInv
  BY DEF Init, LedgerInv, BatchesFilled, SettledStays, SubmittedOnce, LedgeredOrOpen
<1>2. Accounted /\ LedgerInv /\ [Next]_vars => LedgerInv'
  BY LedgerStep
<1>3. LedgerInv => EveryBatchLedgered
  BY DEF LedgerInv, LedgeredOrOpen, EveryBatchLedgered, Recorded, InProgress
<1> QED BY <1>1, <1>2, <1>3, AccountedInvariant, PTL DEF Spec
-----------------------------------------------------------------------------
(* Sums.                                                                     *)

\* The set of units that SumOver counts.
UnitsOf(f, S) == UNION {{x} \X (1 .. f[x]) : x \in S}

LEMMA SumIsUnits ==
    ASSUME NEW S, NEW f
    PROVE  SumOver(f, S) = Cardinality(UnitsOf(f, S))
BY DEF SumOver, UnitsOf

LEMMA UnitsMember ==
    ASSUME NEW S, NEW f, NEW u
    PROVE  u \in UnitsOf(f, S) <=> \E x \in S : \E i \in 1 .. f[x] : u = <<x, i>>
BY DEF UnitsOf

LEMMA UnitsFields ==
    ASSUME NEW S, NEW f
    PROVE  /\ \A u \in UnitsOf(f, S) :
                 u[1] \in S /\ u[2] \in 1 .. f[u[1]] /\ u = <<u[1], u[2]>>
           /\ \A x \in S : \A i \in 1 .. f[x] : <<x, i>> \in UnitsOf(f, S)
<1>1. ASSUME NEW u \in UnitsOf(f, S)
      PROVE  u[1] \in S /\ u[2] \in 1 .. f[u[1]] /\ u = <<u[1], u[2]>>
  <2>1. PICK x \in S : \E j \in 1 .. f[x] : u = <<x, j>>
    BY UnitsMember
  <2>2. PICK j \in 1 .. f[x] : u = <<x, j>>
    BY <2>1
  <2>3. u[1] = x /\ u[2] = j
    BY <2>2
  <2> QED BY <2>2, <2>3
<1>2. ASSUME NEW x \in S, NEW i \in 1 .. f[x] PROVE <<x, i>> \in UnitsOf(f, S)
  BY UnitsMember
<1> QED BY <1>1, <1>2

\* Sums of the same summands are the same, those of zeros are zero, and zeros do not
\* count.
LEMMA SumSame ==
    ASSUME NEW S, NEW f, NEW g, \A x \in S : f[x] = g[x]
    PROVE  SumOver(f, S) = SumOver(g, S)
<1>1. {{x} \X (1 .. f[x]) : x \in S} = {{x} \X (1 .. g[x]) : x \in S}
  OBVIOUS
<1> QED BY <1>1 DEF SumOver

LEMMA SumRestrict ==
    ASSUME NEW S, NEW T \in SUBSET S, NEW f, NEW g,
           \A x \in T : f[x] = g[x], \A x \in S \ T : f[x] = 0
    PROVE  SumOver(f, S) = SumOver(g, T)
<1>1. 1 .. 0 = {}
  OBVIOUS
<1>2. \A u : u \in UnitsOf(f, S) <=> u \in UnitsOf(g, T)
  <2> SUFFICES ASSUME NEW u
               PROVE  (\E x \in S : \E i \in 1 .. f[x] : u = <<x, i>>)
                          <=> (\E x \in T : \E i \in 1 .. g[x] : u = <<x, i>>)
    BY UnitsMember
  <2> QED BY <1>1
<1>3. UnitsOf(f, S) = UnitsOf(g, T)
  BY <1>2
<1> QED BY <1>3, SumIsUnits

LEMMA SumZero ==
    ASSUME NEW S, NEW f, \A x \in S : f[x] = 0
    PROVE  SumOver(f, S) = 0
<1>1. SumOver(f, S) = SumOver(f, {})
  BY SumRestrict
<1>2. UnitsOf(f, {}) = {}
  BY DEF UnitsOf
<1> QED BY <1>1, <1>2, SumIsUnits, FS_EmptySet

\* A sum of sums.
LEMMA SumAdds ==
    ASSUME NEW S, IsFiniteSet(S), NEW f, NEW g, NEW h,
           \A x \in S : g[x] \in Nat /\ h[x] \in Nat /\ f[x] = g[x] + h[x]
    PROVE  SumOver(f, S) = SumOver(g, S) + SumOver(h, S)
<1> DEFINE F == UnitsOf(f, S)
           G == UnitsOf(g, S)
           H == UnitsOf(h, S)
           D == F \ G
           b == [u \in H |-> <<u[1], g[u[1]] + u[2]>>]
<1>0. \A x \in S : f[x] \in Nat
  OBVIOUS
<1>1. IsFiniteSet(F) /\ IsFiniteSet(G) /\ IsFiniteSet(H)
  BY <1>0, UnitsFinite DEF UnitsOf
<1>2. G \subseteq F
  <2> SUFFICES ASSUME NEW x \in S, NEW i \in 1 .. g[x] PROVE i \in 1 .. f[x]
    BY UnitsMember
  <2>1. g[x] \in Nat /\ h[x] \in Nat /\ f[x] = g[x] + h[x]
    OBVIOUS
  <2> QED BY <2>1
<1>3. \A u \in D : \E x \in S : \E i \in 1 .. h[x] : u = <<x, g[x] + i>>
  <2> SUFFICES ASSUME NEW u \in D PROVE \E x \in S : \E i \in 1 .. h[x] : u = <<x, g[x] + i>>
    OBVIOUS
  <2>0. PICK x \in S : \E i \in 1 .. f[x] : u = <<x, i>>
    BY UnitsMember
  <2>1. PICK j \in 1 .. f[x] : u = <<x, j>>
    BY <2>0
  <2>2. j \notin 1 .. g[x]
    BY <2>1, UnitsMember
  <2>3. g[x] \in Nat /\ h[x] \in Nat /\ f[x] = g[x] + h[x]
    OBVIOUS
  <2>4. j - g[x] \in 1 .. h[x] /\ j = g[x] + (j - g[x])
    BY <2>2, <2>3
  <2> QED BY <2>1, <2>4
<1>4. \A x \in S : \A i \in 1 .. h[x] : <<x, g[x] + i>> \in D
  <2> SUFFICES ASSUME NEW x \in S, NEW i \in 1 .. h[x] PROVE <<x, g[x] + i>> \in D
    OBVIOUS
  <2>1. g[x] \in Nat /\ h[x] \in Nat /\ f[x] = g[x] + h[x]
    OBVIOUS
  <2>2. g[x] + i \in 1 .. f[x] /\ g[x] + i \notin 1 .. g[x]
    BY <2>1
  <2>3. <<x, g[x] + i>> \in F
    BY <2>2, UnitsMember
  <2>4. <<x, g[x] + i>> \notin G
    <3>1. SUFFICES ASSUME NEW y \in S, NEW j \in 1 .. g[y], <<x, g[x] + i>> = <<y, j>> PROVE FALSE
      BY UnitsMember
    <3>2. x = y /\ g[x] + i = j
      BY <3>1
    <3> QED BY <2>2, <3>2
  <2> QED BY <2>3, <2>4
<1>5. \A u \in H : u[1] \in S /\ u[2] \in 1 .. h[u[1]] /\ u = <<u[1], u[2]>>
  BY UnitsFields
<1>6. \A x \in S : \A i \in 1 .. h[x] : <<x, i>> \in H
  BY UnitsFields
<1> HIDE DEF F, G, H, D
<1>7. b \in [H -> D]
  <2>1. \A u \in H : <<u[1], g[u[1]] + u[2]>> \in D
    BY <1>4, <1>5
  <2> QED BY <2>1
<1>8. \A u, v \in H : b[u] = b[v] => u = v
  <2> SUFFICES ASSUME NEW u \in H, NEW v \in H, b[u] = b[v] PROVE u = v
    OBVIOUS
  <2>1. b[u] = <<u[1], g[u[1]] + u[2]>> /\ b[v] = <<v[1], g[v[1]] + v[2]>>
    OBVIOUS
  <2>2. u[1] = v[1] /\ g[u[1]] + u[2] = g[v[1]] + v[2]
    BY <2>1
  <2>3. g[u[1]] \in Nat /\ u[2] \in Int /\ v[2] \in Int
    BY <1>5
  <2>4. u[2] = v[2]
    BY <2>2, <2>3
  <2>5. u = <<u[1], u[2]>> /\ v = <<v[1], v[2]>>
    BY <1>5
  <2> QED BY <2>2, <2>4, <2>5
<1>9. \A d \in D : \E u \in H : b[u] = d
  <2> SUFFICES ASSUME NEW d \in D PROVE \E u \in H : b[u] = d
    OBVIOUS
  <2>0. PICK x \in S : \E j \in 1 .. h[x] : d = <<x, g[x] + j>>
    BY <1>3
  <2>1. PICK i \in 1 .. h[x] : d = <<x, g[x] + i>>
    BY <2>0
  <2>2. <<x, i>> \in H
    BY <1>6
  <2> QED BY <2>1, <2>2
<1> HIDE DEF b
<1>10. ExistsBijection(H, D)
  <2>1. b \in Bijection(H, D)
    BY <1>7, <1>8, <1>9 DEF Bijection, Injection, Surjection, IsInjective
  <2> QED BY <2>1 DEF ExistsBijection
<1>11. Cardinality(D) = Cardinality(H)
  BY <1>1, <1>10, FS_Bijection
<1>12. F \cap G = G
  BY <1>2
<1>13. Cardinality(D) = Cardinality(F) - Cardinality(G)
  <2>1. Cardinality(F \ G) = Cardinality(F) - Cardinality(F \cap G)
    BY <1>1, FS_Difference
  <2> QED BY <1>12, <2>1 DEF D
<1>14. Cardinality(F) \in Nat /\ Cardinality(G) \in Nat /\ Cardinality(H) \in Nat
  BY <1>1, FS_CardinalityType
<1>15. /\ SumOver(f, S) = Cardinality(F) /\ SumOver(g, S) = Cardinality(G)
       /\ SumOver(h, S) = Cardinality(H)
  BY SumIsUnits DEF F, G, H
<1>16. Cardinality(F) = Cardinality(G) + Cardinality(H)
  BY <1>11, <1>13, <1>14
<1> QED BY <1>15, <1>16

LEMMA SumPlus ==
    ASSUME NEW S, IsFiniteSet(S), NEW f, NEW g, NEW h,
           \A x \in S : g[x] \in Nat /\ h[x] \in Nat /\ f[x] = g[x] + h[x]
    PROVE  /\ SumOver(g, S) \in Nat /\ SumOver(h, S) \in Nat
           /\ SumOver(f, S) = SumOver(g, S) + SumOver(h, S)
<1>1. SumOver(f, S) = SumOver(g, S) + SumOver(h, S)
  BY SumAdds
<1>2. SumOver(g, S) \in Nat /\ SumOver(h, S) \in Nat
  BY SumOverType
<1> QED BY <1>1, <1>2

\* The sum over all wallets of the sums over a wallet's pairs.
LEMMA SumByWallet ==
    ASSUME NEW f, \A k \in Keys : f[k] \in Nat,
           NEW s, \A w \in Wallets : s[w] = SumOver(f, KeysOf(w))
    PROVE  SumOver(s, Wallets) = SumOver(f, Keys)
<1> DEFINE U(w) == UnitsOf(f, KeysOf(w))
           B == [w \in Wallets |-> CHOOSE g : g \in Bijection(1 .. s[w], U(w))]
           A == UnitsOf(s, Wallets)
           V == UnitsOf(f, Keys)
           b == [u \in A |-> B[u[1]][u[2]]]
<1>1. \A w \in Wallets : KeysOf(w) \in SUBSET Keys /\ IsFiniteSet(KeysOf(w))
  BY KeysFinite DEF KeysOf
<1>2. \A w \in Wallets : IsFiniteSet(U(w)) /\ s[w] = Cardinality(U(w))
  <2> SUFFICES ASSUME NEW w \in Wallets PROVE IsFiniteSet(U(w)) /\ s[w] = Cardinality(U(w))
    OBVIOUS
  <2>1. IsFiniteSet(KeysOf(w)) /\ \A k \in KeysOf(w) : f[k] \in Nat
    BY <1>1
  <2>2. IsFiniteSet(U(w))
    BY <2>1, UnitsFinite DEF UnitsOf
  <2> QED BY <2>2, SumIsUnits
<1>3. \A w \in Wallets : s[w] \in Nat /\ B[w] \in Bijection(1 .. s[w], U(w))
  <2> SUFFICES ASSUME NEW w \in Wallets PROVE s[w] \in Nat /\ B[w] \in Bijection(1 .. s[w], U(w))
    OBVIOUS
  <2>1. s[w] \in Nat /\ ExistsBijection(1 .. s[w], U(w))
    BY <1>2, FS_CardinalityType
  <2>2. \E g : g \in Bijection(1 .. s[w], U(w))
    BY <2>1 DEF ExistsBijection
  <2> QED BY <2>1, <2>2
<1>4. \A k \in Keys : k[1] \in Wallets /\ k \in KeysOf(k[1])
  BY DEF Keys, KeysOf
<1>5. \A u : u \in V <=> \E w \in Wallets : u \in U(w)
  <2> SUFFICES ASSUME NEW u PROVE u \in V <=> \E w \in Wallets : u \in U(w)
    OBVIOUS
  <2>1. u \in V <=> \E k \in Keys : \E i \in 1 .. f[k] : u = <<k, i>>
    BY UnitsMember
  <2>2. \A w \in Wallets : u \in U(w) <=> \E k \in KeysOf(w) : \E i \in 1 .. f[k] : u = <<k, i>>
    BY UnitsMember
  <2> HIDE DEF U, V
  <2> QED BY <1>1, <1>4, <2>1, <2>2
<1>6. \A w \in Wallets : \A u \in U(w) : u[1][1] = w
  <2> SUFFICES ASSUME NEW w \in Wallets, NEW u \in U(w) PROVE u[1][1] = w
    OBVIOUS
  <2>1. PICK k \in KeysOf(w) : \E i \in 1 .. f[k] : u = <<k, i>>
    BY UnitsMember
  <2> QED BY <2>1 DEF KeysOf
<1>7. \A u \in A : u[1] \in Wallets /\ u[2] \in 1 .. s[u[1]] /\ u = <<u[1], u[2]>>
  BY UnitsFields
<1>8. \A w \in Wallets : \A i \in 1 .. s[w] : <<w, i>> \in A
  BY UnitsFields
<1> HIDE DEF A, B, U, V
<1>9. \A w \in Wallets : /\ B[w] \in [1 .. s[w] -> U(w)]
                         /\ \A i, j \in 1 .. s[w] : B[w][i] = B[w][j] => i = j
                         /\ \A v \in U(w) : \E i \in 1 .. s[w] : B[w][i] = v
  <2> SUFFICES ASSUME NEW w \in Wallets
               PROVE  /\ B[w] \in [1 .. s[w] -> U(w)]
                      /\ \A i, j \in 1 .. s[w] : B[w][i] = B[w][j] => i = j
                      /\ \A v \in U(w) : \E i \in 1 .. s[w] : B[w][i] = v
    OBVIOUS
  <2> DEFINE g == B[w]
             I == 1 .. s[w]
  <2>1. g \in Bijection(I, U(w))
    BY <1>3
  <2> HIDE DEF g, I
  <2>2. /\ g \in [I -> U(w)]
        /\ \A i, j \in I : g[i] = g[j] => i = j
        /\ \A v \in U(w) : \E i \in I : g[i] = v
    BY <2>1 DEF Bijection, Injection, Surjection, IsInjective
  <2> QED BY <2>2 DEF g, I
<1>a. \A u \in A : B[u[1]][u[2]] \in U(u[1])
  <2> SUFFICES ASSUME NEW u \in A PROVE B[u[1]][u[2]] \in U(u[1])
    OBVIOUS
  <2> DEFINE w == u[1]
             i == u[2]
             I == 1 .. s[w]
             g == B[w]
  <2>1. g \in [I -> U(w)] /\ i \in I
    BY <1>7, <1>9
  <2> HIDE DEF w, i, I, g
  <2>2. g[i] \in U(w)
    BY <2>1
  <2> QED BY <2>2 DEF w, i, g
<1>10. b \in [A -> V]
  <2>1. \A u \in A : B[u[1]][u[2]] \in V
    BY <1>5, <1>7, <1>a
  <2> QED BY <2>1
<1>11. \A u, v \in A : b[u] = b[v] => u = v
  <2> SUFFICES ASSUME NEW u \in A, NEW v \in A, b[u] = b[v] PROVE u = v
    OBVIOUS
  <2>1. B[u[1]][u[2]] = B[v[1]][v[2]]
    OBVIOUS
  <2>2. B[u[1]][u[2]] \in U(u[1]) /\ B[v[1]][v[2]] \in U(v[1])
    BY <1>a
  <2>3. u[1] = v[1]
    BY <1>6, <1>7, <2>1, <2>2
  <2>4. u[2] = v[2]
    BY <1>7, <1>9, <2>1, <2>3
  <2> QED BY <1>7, <2>3, <2>4
<1>12. \A v \in V : \E u \in A : b[u] = v
  <2> SUFFICES ASSUME NEW v \in V PROVE \E u \in A : b[u] = v
    OBVIOUS
  <2>1. PICK w \in Wallets : v \in U(w)
    BY <1>5
  <2>2. PICK i \in 1 .. s[w] : B[w][i] = v
    BY <1>9, <2>1
  <2>3. <<w, i>> \in A
    BY <1>8
  <2> QED BY <2>2, <2>3
<1> HIDE DEF b
<1>13. ExistsBijection(A, V)
  <2>1. b \in Bijection(A, V)
    BY <1>10, <1>11, <1>12 DEF Bijection, Injection, Surjection, IsInjective
  <2> QED BY <2>1 DEF ExistsBijection
<1>14. IsFiniteSet(A)
  <2>1. IsFiniteSet(Wallets)
    BY SettlementAssumption
  <2>2. IsFiniteSet(UNION {{x} \X (1 .. s[x]) : x \in Wallets})
    BY <1>3, <2>1, UnitsFinite
  <2> QED BY <2>2 DEF UnitsOf, A
<1>15. Cardinality(V) = Cardinality(A)
  BY <1>13, <1>14, FS_Bijection
<1> QED BY <1>15, SumIsUnits DEF A, V
-----------------------------------------------------------------------------
(* The settled total is what the chain moved.                                *)

\* A confirmed batch of the WAL stays on the chain under the id of the plan.
LEMMA ConfirmedStep ==
    ASSUME Accounted, ConfirmedOK, [Next]_vars
    PROVE  ConfirmedOK'
<1> USE DEF Others
<1>1. TypeOK /\ TypeOK' /\ slips \subseteq slips'
  BY TypeStep, SlipsGrow DEF Accounted
<1>2. wal \in Plan /\ plan \in Plan
  BY <1>1 DEF TypeOK
<1> SUFFICES ASSUME Sound', NEW b \in BatchNos(wal)', b <= wal'.done
             PROVE  \E e \in processed' : e.hash = DetailsHash(wal', b) /\ e.deep /\ e.id = wal'.id
  BY DEF ConfirmedOK, On
<1>3. \A c \in BatchNos(wal) : c <= wal.done =>
        \E e \in processed : e.hash = DetailsHash(wal, c) /\ e.deep /\ e.id = wal.id
  BY <1>1 DEF ConfirmedOK, On, Sound
<1>4. CASE UNCHANGED wal /\ \A e \in processed : e.deep => e \in processed'
  BY <1>3, <1>4
<1>5. CASE /\ UNCHANGED processed /\ wal.pay = wal'.pay /\ wal.rids = wal'.rids
           /\ wal.recs = wal'.recs /\ wal'.done = Current(wal) /\ wal'.id = wal.id
           /\ \E e \in processed : e.hash = DetailsHash(wal, Current(wal)) /\ e.deep /\ e.id = wal.id
  <2>1. BatchNos(wal) = BatchNos(wal') /\ \A c : DetailsHash(wal, c) = DetailsHash(wal', c)
    BY <1>5, SameBatches
  <2>2. b \in BatchNos(wal)
    BY <2>1
  <2>3. b \in Nat
    BY <1>2, <2>2, BatchItems DEF BatchNos, Items
  <2>4. b <= wal.done \/ b = Current(wal)
    BY <1>2, <1>5, <2>3 DEF Current, Plan
  <2> QED BY <1>3, <1>5, <2>1, <2>2, <2>4
<1>6. CASE wal'.done = 0 /\ wal' \in Plan
  <2>1. b \in Nat /\ b > 0
    BY <1>6, BatchItems DEF BatchNos, Items
  <2> QED BY <1>6, <2>1
<1>7. CASE Dedup
  <2>1. PICK e \in processed : /\ e.hash = DetailsHash(wal, Current(wal))
                               /\ e.deep \/ "shallowFinal" \in slips'
                               /\ e.id = wal.id \/ "hashCollision" \in slips'
    BY <1>7 DEF Dedup, On
  <2>2. UNCHANGED processed /\ wal' = [wal EXCEPT !.done = Current(wal)]
    BY <1>7 DEF Dedup
  <2>3. e.deep /\ e.id = wal.id
    BY <2>1 DEF Sound, BooksSlips
  <2> QED BY <1>2, <1>5, <2>1, <2>2, <2>3 DEF Plan
<1>8. CASE Confirm
  <2>1. PICK e \in processed : e.hash = DetailsHash(wal, Current(wal)) /\ e.deep /\ e.id = wal.id
    BY <1>8 DEF Confirm, On, Sound, BooksSlips
  <2>2. UNCHANGED processed /\ wal' = [Reversed(wal, receipt) EXCEPT !.done = Current(wal)]
    BY <1>8 DEF Confirm
  <2> QED BY <1>2, <1>5, <2>1, <2>2 DEF Plan, Reversed
<1>9. CASE \/ Boot \/ SettleBegin \/ NothingPending \/ Submit \/ Receipt \/ Final
           \/ Vanished \/ Ledger \/ Commit \/ AddSettledTotal \/ SaveDebts
           \/ Abort \/ Restore \/ Skip \/ Aggregate \/ Crash
  <2>1. UNCHANGED <<wal, processed>>
    BY <1>9 DEF Boot, SettleBegin, NothingPending, Submit, Receipt, Final, Vanished, Ledger,
                Commit, AddSettledTotal, SaveDebts, Abort, Restore, Skip, Aggregate, Crash
  <2> QED BY <1>4, <2>1
<1>10. CASE RemoveWAL
  <2>1. UNCHANGED processed /\ (wal' = wal \/ wal' = NoWAL)
    BY <1>10 DEF RemoveWAL
  <2>2. NoWAL.done = 0
    BY DEF NoWAL
  <2> QED BY <1>4, <1>6, <2>1, <2>2, NoWALType
<1>11. CASE WritePending
  <2>1. wal' = plan /\ plan.done = 0
    BY <1>11 DEF WritePending, Accounted, ControlOK
  <2> QED BY <1>2, <1>6, <2>1
<1>12. CASE Environment /\ ~Crash
  <2>1. UNCHANGED wal /\ \A e \in processed : e.deep => e \in processed'
    BY <1>12 DEF Environment, Mine, Drop, Bury, Reorg, Serve, files, chain
  <2> QED BY <1>4, <2>1
<1>13. CASE UNCHANGED vars
  BY <1>4, <1>13 DEF vars, files, chain
<1> QED BY <1>7, <1>8, <1>9, <1>10, <1>11, <1>12, <1>13 DEF Next, Settler, Environment

\* What is on the chain and can still be reorganised away is covered by what was paid.
LEMMA PaidStep ==
    ASSUME Accounted, PaidOK, [Next]_vars
    PROVE  PaidOK'
<1> USE DEF Others
<1>1. TypeOK /\ TypeOK' /\ slips \subseteq slips'
  BY TypeStep, SlipsGrow DEF Accounted
<1>2. paid \in [Keys -> Int] /\ processed \subseteq Entries /\ mempool \subseteq Txs
  BY <1>1 DEF TypeOK
<1>a. \A h \in Hashes : Items(h) \subseteq Keys /\ \A k \in Keys : h.pay[k] \in Nat
  BY DEF Items, Hashes
<1> SUFFICES ASSUME Sound', NEW k \in Keys
             PROVE  /\ paid'[k] >= 0
                    /\ \A f \in processed' :
                          ~f.deep /\ k \in Items(f.hash) \ f.failed => f.hash.pay[k] <= paid'[k]
  BY DEF PaidOK
<1>3. Sound
  BY <1>1 DEF Sound
<1>4. /\ paid[k] >= 0
      /\ \A f \in processed :
            ~f.deep /\ k \in Items(f.hash) \ f.failed => f.hash.pay[k] <= paid[k]
  BY <1>3 DEF PaidOK
<1>5. CASE UNCHANGED paid /\ \A f \in processed' : f \in processed \/ f.deep
  BY <1>4, <1>5
<1>6. CASE Settler
  <2>1. UNCHANGED <<paid, processed>>
    BY <1>6 DEF Settler, Boot, SettleBegin, NothingPending, Dedup, Submit, Receipt, Final,
       Vanished, Confirm, Ledger, Commit, AddSettledTotal, SaveDebts, RemoveWAL, Abort,
       Restore, Skip, Aggregate, WritePending
  <2> QED BY <1>5, <2>1
<1>7. CASE Environment
  <2>1. ASSUME NEW t \in mempool, Mine(t)
        PROVE  /\ paid'[k] >= 0
               /\ \A f \in processed' :
                     ~f.deep /\ k \in Items(f.hash) \ f.failed => f.hash.pay[k] <= paid'[k]
    <3>1. CASE UNCHANGED <<paid, processed>>
      BY <1>5, <3>1
    <3>2. CASE ~UNCHANGED <<paid, processed>>
      <4>1. PICK F \in SUBSET Items(t.hash) :
              /\ paid' = [j \in Keys |-> IF j \in Items(t.hash) \ F
                                        THEN paid[j] + t.hash.pay[j] ELSE paid[j]]
              /\ processed' = processed \cup
                   {[hash |-> t.hash, id |-> t.id, failed |-> F, deep |-> FALSE]}
        BY <2>1, <3>2 DEF Mine
      <4>2. t.hash \in Hashes
        BY <1>2 DEF Txs
      <4>3. t.hash.pay[k] \in Nat /\ paid[k] \in Int
        BY <1>2, <1>a, <4>2
      <4>4. /\ paid'[k] >= paid[k] /\ paid'[k] \in Int
            /\ k \in Items(t.hash) \ F => t.hash.pay[k] <= paid'[k]
        BY <1>4, <4>1, <4>3
      <4>5. \A f \in processed' : f \in processed \/ (f.hash = t.hash /\ f.failed = F)
        BY <4>1
      <4>6. \A f \in processed : f.hash.pay[k] \in Nat
        BY <1>2, <1>a DEF Entries
      <4> QED BY <1>4, <4>3, <4>4, <4>5, <4>6
    <3> QED BY <3>1, <3>2
  <2>2. ASSUME NEW e \in processed, Reorg(e)
        PROVE  /\ paid'[k] >= 0
               /\ \A f \in processed' :
                     ~f.deep /\ k \in Items(f.hash) \ f.failed => f.hash.pay[k] <= paid'[k]
    <3>1. /\ ~e.deep /\ processed' = processed \ {e}
          /\ paid' = [j \in Keys |-> IF j \in Items(e.hash) \ e.failed
                                    THEN paid[j] - e.hash.pay[j] ELSE paid[j]]
      BY <2>2 DEF Reorg
    <3>2. e.hash.pay[k] \in Nat /\ paid[k] \in Int
      BY <1>2, <1>a DEF Entries
    <3>3. CASE k \in Items(e.hash) \ e.failed
      <4>1. paid'[k] >= 0
        BY <1>4, <3>1, <3>2, <3>3
      <4>2. InProgress(e)
        BY <1>3, <3>1, <3>3 DEF Accounted, FinalOK
      <4>3. ASSUME NEW f \in processed', ~f.deep, k \in Items(f.hash) PROVE FALSE
        <5>1. InProgress(f)
          BY <1>3, <3>1, <4>3 DEF Accounted, FinalOK
        <5>2. f.hash = e.hash
          BY <4>2, <5>1 DEF InProgress
        <5> QED BY <3>1, <5>2 DEF Accounted, ChainOK
      <4> QED BY <4>1, <4>3
    <3>4. CASE ~(k \in Items(e.hash) \ e.failed)
      BY <1>4, <3>1, <3>4
    <3> QED BY <3>3, <3>4
  <2>3. CASE \/ \E t \in mempool : Drop(t)
             \/ \E e \in processed : Bury(e)
             \/ \E r \in Requests : Serve(r)
             \/ Crash
    <3>1. CASE \E e \in processed : Bury(e)
      <4>1. PICK e \in processed : Bury(e)
        BY <3>1
      <4>2. [e EXCEPT !.deep = TRUE].deep
        BY <1>2 DEF Entries
      <4> QED BY <1>5, <4>1, <4>2 DEF Bury
    <3>2. CASE (\E t \in mempool : Drop(t)) \/ (\E r \in Requests : Serve(r)) \/ Crash
      BY <1>5, <3>2 DEF Drop, Serve, Crash, chain
    <3> QED BY <2>3, <3>1, <3>2
  <2> QED BY <1>7, <2>1, <2>2, <2>3 DEF Environment
<1>8. CASE UNCHANGED vars
  BY <1>5, <1>8 DEF vars, chain
<1> QED BY <1>6, <1>7, <1>8 DEF Next

\* What the WAL claims does not change while the WAL does not.
LEMMA ClaimStays ==
    ASSUME Accounted, Accounted', ConfirmedOK, Sound, UNCHANGED wal,
           \A e \in processed : e.deep => e \in processed',
           NEW k \in Keys
    PROVE  Claim(k)' = Claim(k)
<1>1. wal \in Plan /\ BatchNo(wal, k) \in Nat /\ wal.done \in Nat
  BY BatchItems DEF Accounted, TypeOK, Plan
<1>2. CASE k \in Items(wal) /\ BatchNo(wal, k) <= wal.done
  <2>1. PICK e \in processed :
          e.hash = DetailsHash(wal, BatchNo(wal, k)) /\ e.deep /\ e.id = wal.id
    BY <1>2 DEF ConfirmedOK, On, BatchNos
  <2>2. e \in processed'
    BY <2>1
  <2>3. Landed(k) <=> k \notin e.failed
    BY <2>1 DEF Accounted, ChainOK, Landed
  <2>4. Landed(k)' <=> k \notin e.failed
    BY <2>1, <2>2 DEF Accounted, ChainOK, Landed
  <2> QED BY <2>3, <2>4 DEF Claim
<1>3. CASE ~(k \in Items(wal) /\ BatchNo(wal, k) <= wal.done)
  BY <1>1, <1>3 DEF Claim
<1> QED BY <1>2, <1>3

\* A batch is confirmed with outcome e: the WAL claims its skipped items no more.
LEMMA ClaimConfirmed ==
    ASSUME Accounted, UNCHANGED processed, TypeOK',
           wal'.id = wal.id, wal'.pay = wal.pay, wal'.rids = wal.rids, wal'.recs = wal.recs,
           wal'.done = Current(wal),
           NEW e \in processed, e.hash = DetailsHash(wal, Current(wal)), e.id = wal.id,
           NEW k \in Keys
    PROVE  /\ Claim(k) \in Nat /\ Claim(k)' \in Nat /\ wal.pay[k] \in Nat
           /\ Claim(k) = Claim(k)' + (IF k \in e.failed THEN wal.pay[k] ELSE 0)
<1>1. /\ wal \in Plan /\ BatchNo(wal, k) \in Nat /\ wal.done \in Nat /\ wal.pay[k] \in Nat
      /\ Current(wal) = wal.done + 1
  BY BatchItems DEF Accounted, TypeOK, Plan, Current
<1>2. Items(wal') = Items(wal) /\ BatchNo(wal', k) = BatchNo(wal, k)
      /\ \A b : DetailsHash(wal', b) = DetailsHash(wal, b)
  BY SameBatches
<1>3. Landed(k)' <=> Landed(k)
  BY <1>2 DEF Landed
<1>4. k \in e.failed => k \in Items(wal) /\ BatchNo(wal, k) = Current(wal)
  BY <1>1, BatchItems DEF Accounted, ChainOK
<1>5. BatchNo(wal, k) = Current(wal) => (Landed(k) <=> k \notin e.failed)
  BY DEF Accounted, ChainOK, Landed
<1>6. /\ Claim(k) = IF k \in Items(wal) /\ (BatchNo(wal, k) > wal.done \/ Landed(k))
                    THEN wal.pay[k] ELSE 0
      /\ Claim(k)' = IF k \in Items(wal) /\ (BatchNo(wal, k) > Current(wal) \/ Landed(k))
                     THEN wal.pay[k] ELSE 0
  BY <1>2, <1>3 DEF Claim
<1> QED BY <1>1, <1>4, <1>5, <1>6
\* How a batch of the WAL is confirmed, by Dedup or by Confirm: with the outcome e of a
\* buried block, whose skipped items Confirm moves from SettledUSD to RemainingDebts.
LEMMA ConfirmedBatch ==
    ASSUME Accounted, [Next]_vars, Dedup \/ Confirm, Sound'
    PROVE  /\ wal'.id = wal.id /\ wal'.pay = wal.pay /\ wal'.rids = wal.rids
           /\ wal'.recs = wal.recs /\ wal'.done = Current(wal) /\ wal'.cursor = wal.cursor
           /\ wal # NoWAL /\ wal' # NoWAL
           /\ \E e \in processed :
                 /\ e.hash = DetailsHash(wal, Current(wal)) /\ e.id = wal.id
                 /\ \A k \in Keys : wal'.debts[k].usd = wal.debts[k].usd
                                        + (IF k \in e.failed THEN wal.pay[k] ELSE 0)
                 /\ \A w \in Wallets : wal'.settled[w] =
                        Floor(wal.settled[w] - SumOver(wal.pay, e.failed \cap KeysOf(w)))
<1>1. wal \in Plan /\ receipt \in SUBSET Keys
  BY DEF Accounted, TypeOK
<1>2. CASE Dedup
  <2>1. wal' = [wal EXCEPT !.done = Current(wal)]
    BY <1>2 DEF Dedup
  <2>2. /\ wal'.id = wal.id /\ wal'.pay = wal.pay /\ wal'.rids = wal.rids
        /\ wal'.recs = wal.recs /\ wal'.done = Current(wal) /\ wal'.cursor = wal.cursor
        /\ wal'.debts = wal.debts /\ wal'.settled = wal.settled
    BY <1>1, <2>1 DEF Plan
  <2>3. PICK e \in processed :
          /\ e.hash = DetailsHash(wal, Current(wal))
          /\ e.id = wal.id \/ "hashCollision" \in slips'
          /\ e.failed = {} \/ "blindDedup" \in slips'
    BY <1>2 DEF Dedup, On
  <2>4. e.id = wal.id /\ e.failed = {}
    BY <2>3 DEF Sound, BooksSlips
  <2>5. \A k \in Keys : wal'.debts[k].usd = wal.debts[k].usd
                            + (IF k \in e.failed THEN wal.pay[k] ELSE 0)
    BY <1>1, <2>2, <2>4 DEF Plan, Debt
  <2>6. \A w \in Wallets : wal'.settled[w] =
            Floor(wal.settled[w] - SumOver(wal.pay, e.failed \cap KeysOf(w)))
    <3> SUFFICES ASSUME NEW w \in Wallets
                 PROVE  wal'.settled[w] =
                          Floor(wal.settled[w] - SumOver(wal.pay, e.failed \cap KeysOf(w)))
      OBVIOUS
    <3>1. SumOver(wal.pay, {}) = 0
      BY SumZero
    <3>2. e.failed \cap KeysOf(w) = {}
      BY <2>4
    <3>3. wal.settled[w] \in Nat
      BY <1>1 DEF Plan
    <3> QED BY <2>2, <3>1, <3>2, <3>3 DEF Floor
  <2>7. wal # NoWAL
    BY <1>2, NoWALHasNoBatch DEF Dedup
  <2>8. wal' # NoWAL
    BY <1>1, <2>2 DEF Current, NoWAL, Plan
  <2> QED BY <2>2, <2>3, <2>4, <2>5, <2>6, <2>7, <2>8
<1>3. CASE Confirm
  <2>1. pc = "confirm" /\ wal' = [Reversed(wal, receipt) EXCEPT !.done = Current(wal)]
    BY <1>3 DEF Confirm
  <2>2. /\ wal'.id = wal.id /\ wal'.pay = wal.pay /\ wal'.rids = wal.rids
        /\ wal'.recs = wal.recs /\ wal'.done = Current(wal) /\ wal'.cursor = wal.cursor
        /\ wal'.debts = PlusFailed(wal, receipt) /\ wal'.settled = LessFailed(wal, receipt)
    BY <1>1, <2>1 DEF Plan, Reversed
  <2>3. PICK e \in processed :
          e.hash = DetailsHash(wal, Current(wal)) /\ e.id = wal.id /\ e.failed = receipt
    BY <1>3 DEF Confirm, On, Sound, BooksSlips
  <2>4. \A k \in Keys : wal'.debts[k].usd = wal.debts[k].usd
                            + (IF k \in e.failed THEN wal.pay[k] ELSE 0)
    BY <1>1, <2>2, <2>3 DEF Plan, Debt, PlusFailed
  <2>5. \A w \in Wallets : wal'.settled[w] =
            Floor(wal.settled[w] - SumOver(wal.pay, e.failed \cap KeysOf(w)))
    BY <2>2, <2>3 DEF LessFailed
  <2>6. wal # NoWAL
    BY <2>1 DEF Accounted, ControlOK
  <2>7. wal' # NoWAL
    BY <1>1, <2>2 DEF Current, NoWAL, Plan
  <2> QED BY <2>2, <2>3, <2>4, <2>5, <2>6, <2>7
<1> QED BY <1>2, <1>3

\* A new WAL has everything still to collect.
LEMMA FreshWAL ==
    ASSUME Accounted, WritePending, NEW k \in Keys
    PROVE  Due(k)' = plan.pay[k] /\ Claim(k)' = plan.pay[k] /\ plan.pay[k] \in Nat
<1>1. wal' = plan /\ UNCHANGED processed /\ pc = "planned"
  BY DEF WritePending, Others
<1>2. plan \in Plan /\ plan.id = cycle /\ plan.done = 0
  BY <1>1 DEF Accounted, ControlOK, TypeOK
<1>3. plan.pay[k] \in Nat /\ BatchNo(plan, k) > 0
  BY <1>2, BatchItems DEF Plan
<1>4. \A e \in processed : e.id # plan.id
  BY <1>1, <1>2 DEF Accounted, ChainOK, TypeOK, Entries
<1>5. ~Landed(k)'
  BY <1>1, <1>4 DEF Landed
<1> QED BY <1>1, <1>2, <1>3, <1>5 DEF Due, Claim, Items

LEMMA NoWALClaims ==
    /\ \A k \in Keys : NoWAL.pay[k] = 0
    /\ \A w \in Wallets : NoWAL.settled[w] = 0
    /\ \A w \in Wallets : SumOver(NoWAL.pay, KeysOf(w)) = 0
<1>1. /\ \A k \in Keys : NoWAL.pay[k] = 0
      /\ \A w \in Wallets : NoWAL.settled[w] = 0
  BY DEF NoWAL
<1>2. \A w \in Wallets : SumOver(NoWAL.pay, KeysOf(w)) = 0
  BY <1>1, SumZero DEF KeysOf
<1> QED BY <1>1, <1>2

\* SettledUSD follows the claims on each wallet.
LEMMA SettledStep ==
    ASSUME Accounted, ConfirmedOK, SettledOK, [Next]_vars
    PROVE  SettledOK'
<1> USE DEF Others
<1>1. Accounted' /\ TypeOK' /\ slips \subseteq slips'
  BY AccountedStep, SlipsGrow DEF Accounted
<1> SUFFICES ASSUME Sound', NEW w \in Wallets
             PROVE  /\ wal'.settled[w] = SumOver([k \in Keys |-> Claim(k)'], KeysOf(w))
                    /\ plan'.settled[w] = SumOver(plan'.pay, KeysOf(w))
  BY DEF SettledOK, SumOver, KeysOf
<1>2. Sound
  BY <1>1 DEF Sound
<1>3. /\ wal.settled[w] = SumOver([k \in Keys |-> Claim(k)], KeysOf(w))
      /\ plan.settled[w] = SumOver(plan.pay, KeysOf(w))
  BY <1>2 DEF SettledOK
<1>4. CASE UNCHANGED wal /\ \A e \in processed : e.deep => e \in processed'
  <2>1. \A k \in Keys : Claim(k)' = Claim(k)
    BY <1>1, <1>2, <1>4, ClaimStays
  <2>2. wal'.settled[w] = SumOver([k \in Keys |-> Claim(k)'], KeysOf(w))
    BY <1>3, <1>4, <2>1
  <2>3. CASE UNCHANGED plan
    BY <1>3, <2>2, <2>3
  <2>4. CASE plan' = NoWAL
    BY <2>2, <2>4, NoWALClaims
  <2>5. CASE Aggregate
    <3>1. PICK U \in SUBSET MayUnmap, seen \in Balances : plan' = NewPlan(U, seen)
      BY <2>5 DEF Aggregate
    <3>2. plan'.settled[w] = SumOver(plan'.pay, KeysOf(w))
      BY <3>1 DEF NewPlan
    <3> QED BY <2>2, <3>2
  <2>6. UNCHANGED plan \/ plan' = NoWAL \/ Aggregate
    BY DEF Next, Settler, Environment, vars, files, memory, chain, ghosts, Boot, SettleBegin,
       NothingPending, Dedup, Submit, Receipt, Final, Vanished, Confirm, Ledger, Commit,
       AddSettledTotal, SaveDebts, RemoveWAL, Abort, Restore, Skip, WritePending, Mine, Drop,
       Bury, Reorg, Serve, Crash
  <2> QED BY <2>3, <2>4, <2>5, <2>6
<1>5. CASE Dedup \/ Confirm
  <2>1. PICK e \in processed :
          /\ e.hash = DetailsHash(wal, Current(wal)) /\ e.id = wal.id
          /\ \A v \in Wallets : wal'.settled[v] =
                 Floor(wal.settled[v] - SumOver(wal.pay, e.failed \cap KeysOf(v)))
    BY <1>5, ConfirmedBatch
  <2>2. UNCHANGED <<processed, plan>>
    BY <1>5 DEF Dedup, Confirm
  <2> DEFINE c == [k \in Keys |-> Claim(k)]
             d == [k \in Keys |-> Claim(k)']
             s == [k \in Keys |-> IF k \in e.failed THEN wal.pay[k] ELSE 0]
             S == KeysOf(w)
             T == e.failed \cap S
  <2>3. \A k \in Keys : c[k] = d[k] + s[k] /\ d[k] \in Nat /\ s[k] \in Nat
    <3> SUFFICES ASSUME NEW k \in Keys
                 PROVE  /\ Claim(k) = Claim(k)' + (IF k \in e.failed THEN wal.pay[k] ELSE 0)
                        /\ Claim(k)' \in Nat /\ wal.pay[k] \in Nat
      OBVIOUS
    <3> QED BY <1>1, <1>5, <2>1, <2>2, ClaimConfirmed, ConfirmedBatch
  <2>4. S \in SUBSET Keys /\ IsFiniteSet(S)
    BY KeysFinite DEF KeysOf
  <2>5. /\ \A k \in T : s[k] = wal.pay[k]
        /\ \A k \in S \ T : s[k] = 0
    BY <2>4
  <2>6. T \in SUBSET S
    OBVIOUS
  <2> HIDE DEF c, d, s, S, T
  <2>7. /\ SumOver(d, S) \in Nat /\ SumOver(s, S) \in Nat
        /\ SumOver(c, S) = SumOver(d, S) + SumOver(s, S)
    BY <2>3, <2>4, SumPlus
  <2>8. SumOver(s, S) = SumOver(wal.pay, T)
    BY <2>5, <2>6, SumRestrict
  <2>9. wal'.settled[w] = Floor(SumOver(c, S) - SumOver(wal.pay, T))
    BY <1>3, <2>1 DEF c, S, T
  <2>10. wal'.settled[w] = SumOver(d, S)
    BY <2>7, <2>8, <2>9 DEF Floor
  <2> QED BY <1>3, <2>2, <2>10 DEF d, S
<1>6. CASE RemoveWAL /\ wal' = NoWAL
  <2>1. \A k \in Keys : Claim(k)' = 0
    BY <1>6, NoWALHasNoBatch DEF Claim
  <2>2. \A k \in KeysOf(w) : [j \in Keys |-> Claim(j)'][k] = 0
    BY <2>1 DEF KeysOf
  <2>3. SumOver([j \in Keys |-> Claim(j)'], KeysOf(w)) = 0
    BY <2>2, SumZero
  <2>4. UNCHANGED plan
    BY <1>6 DEF RemoveWAL
  <2> QED BY <1>3, <1>6, <2>3, <2>4, NoWALClaims
<1>7. CASE WritePending
  <2>1. wal' = plan /\ plan' = NoWAL
    BY <1>7 DEF WritePending
  <2>2. \A k \in KeysOf(w) : [j \in Keys |-> Claim(j)'][k] = plan.pay[k]
    <3> SUFFICES ASSUME NEW k \in Keys PROVE Claim(k)' = plan.pay[k]
      BY DEF KeysOf
    <3> QED BY <1>7, FreshWAL
  <2>3. SumOver([j \in Keys |-> Claim(j)'], KeysOf(w)) = SumOver(plan.pay, KeysOf(w))
    BY <2>2, SumSame
  <2> QED BY <1>3, <2>1, <2>3, NoWALClaims
<1>8. \/ UNCHANGED wal /\ \A e \in processed : e.deep => e \in processed'
      \/ Dedup \/ Confirm \/ (RemoveWAL /\ wal' = NoWAL) \/ WritePending
  <2>1. CASE Settler
    BY <2>1 DEF Settler, Boot, SettleBegin, NothingPending, Submit, Receipt, Final,
       Vanished, Ledger, Commit, AddSettledTotal, SaveDebts, RemoveWAL, Abort, Restore,
       Skip, Aggregate
  <2>2. CASE Environment
    BY <2>2 DEF Environment, Mine, Drop, Bury, Reorg, Serve, Crash, files, chain
  <2>3. CASE UNCHANGED vars
    BY <2>3 DEF vars, files, chain
  <2> QED BY <2>1, <2>2, <2>3 DEF Next
<1> QED BY <1>4, <1>5, <1>6, <1>7, <1>8
\* addSettledTotal runs when every batch is confirmed, with a stamp no later plan has.
LEMMA StampStep ==
    ASSUME Accounted, StampOK, [Next]_vars
    PROVE  StampOK'
<1> USE DEF Others
<1>1. TypeOK /\ wal \in Plan /\ cycle \in Nat /\ total.last \in Nat
  BY DEF Accounted, TypeOK
<1>2. CASE UNCHANGED <<total, wal, cycle>> /\ (pc' = "planned" => pc = "planned")
  BY <1>2 DEF StampOK
<1>3. CASE \/ Boot \/ SettleBegin \/ NothingPending \/ Submit \/ Receipt \/ Final \/ Vanished
           \/ Ledger \/ Commit \/ SaveDebts \/ Abort \/ Restore \/ Skip
           \/ (RemoveWAL /\ wal' = wal)
  BY <1>2, <1>3 DEF Boot, SettleBegin, NothingPending, Submit, Receipt, Final, Vanished,
     Ledger, Commit, SaveDebts, Abort, Restore, Skip, RemoveWAL, Goto, Returned, Failed
<1>4. CASE AddSettledTotal
  <2>1. UNCHANGED <<wal, cycle>> /\ pc = "total" /\ pc' = "debts"
    BY <1>4 DEF AddSettledTotal
  <2>2. total'.last = total.last \/ total'.last = wal.id
    BY <1>4 DEF AddSettledTotal, Added
  <2>3. Unconfirmed(wal) = {} /\ wal.id <= cycle
    BY <2>1 DEF Accounted, ControlOK
  <2> QED BY <2>1, <2>2, <2>3 DEF StampOK
<1>5. CASE Dedup \/ Confirm
  <2>1. /\ wal'.pay = wal.pay /\ wal'.id = wal.id /\ wal'.done = wal.done + 1
        /\ wal'.rids = wal.rids /\ wal'.recs = wal.recs
    BY <1>1, <1>5 DEF Dedup, Confirm, Reversed, Plan, Current
  <2>2. BatchNos(wal') = BatchNos(wal)
    BY <2>1, SameBatches
  <2>3. \A b \in BatchNos(wal) : b \in Nat
    BY <1>1, BatchItems DEF BatchNos, Items
  <2>4. Unconfirmed(wal) = {} => Unconfirmed(wal') = {}
    BY <1>1, <2>1, <2>2, <2>3 DEF Unconfirmed, Plan
  <2>5. wal # NoWAL
    BY <1>5, NoWALHasNoBatch DEF Dedup, Confirm, Accounted, ControlOK
  <2>6. UNCHANGED <<total, cycle>> /\ pc' # "planned"
    BY <1>5 DEF Dedup, Confirm
  <2> QED BY <2>1, <2>4, <2>5, <2>6 DEF StampOK
<1>6. CASE RemoveWAL /\ wal' = NoWAL
  BY <1>6 DEF RemoveWAL, Goto, Returned, StampOK
<1>7. CASE WritePending
  BY <1>1, <1>7 DEF WritePending, StampOK, Accounted, ControlOK
<1>8. CASE Aggregate
  BY <1>1, <1>8 DEF Aggregate, StampOK
<1>9. CASE Environment
  BY <1>2, <1>9 DEF Environment, Mine, Drop, Bury, Reorg, Serve, Crash, files, memory
<1>10. CASE UNCHANGED vars
  BY <1>2, <1>10 DEF vars, files, memory
<1>11. RemoveWAL => wal' = wal \/ wal' = NoWAL
  BY DEF RemoveWAL
<1> QED BY <1>3, <1>4, <1>5, <1>6, <1>7, <1>8, <1>9, <1>10, <1>11 DEF Next, Settler

\* What was paid and what is still due change only against what is carried.
LEMMA CollectedMoves ==
    ASSUME Accounted, Accounted', Sound, Sound', Passed' = Passed, DeadLetters' = DeadLetters,
           NEW k \in Keys
    PROVE  /\ Collected(k) \in Int /\ Collected(k)' \in Int
           /\ Collected(k)' + Carried(k)' = Collected(k) + Carried(k)
<1>1. /\ Due(k) \in Nat /\ Carried(k) \in Nat /\ Usage(DeadLetters, k) \in Nat
      /\ Due(k)' \in Nat /\ Carried(k)' \in Nat
  <2>1. Due(k) \in Nat /\ Carried(k) \in Nat /\ Usage(DeadLetters, k) \in Nat
    BY AmountTypes DEF Accounted
  <2>2. Due(k)' \in Nat
    BY DEF Accounted, TypeOK, Due, Plan
  <2>3. Carried(k)' \in Nat
    BY DEF Accounted, TypeOK, Carried, Plan, Debt
  <2> QED BY <2>1, <2>2, <2>3
<1>2. paid[k] \in Int /\ paid'[k] \in Int
  BY DEF Accounted, TypeOK
<1>3. paid[k] + Due(k) + Carried(k) + Usage(DeadLetters, k) = Usage(Once(Passed), k)
  BY DEF Accounted, AccountsOK
<1>4. paid'[k] + Due(k)' + Carried(k)' + Usage(DeadLetters, k) = Usage(Once(Passed), k)
  BY DEF Accounted, AccountsOK
<1>5. Collected(k) = paid[k] + Due(k) /\ Collected(k)' = paid'[k] + Due(k)'
  BY DEF Collected
<1> QED BY <1>1, <1>2, <1>3, <1>4, <1>5

LEMMA CollectedType ==
    ASSUME TypeOK, PaidOK, Sound, NEW k \in Keys
    PROVE  Collected(k) \in Nat /\ paid[k] \in Nat /\ Due(k) \in Nat
<1>1. paid[k] \in Int /\ paid[k] >= 0
  BY DEF TypeOK, PaidOK
<1>2. Due(k) \in Nat
  BY AmountTypes
<1> QED BY <1>1, <1>2 DEF Collected

\* A batch is confirmed: its skipped items leave the WAL's share of the total and what
\* the WAL has still to collect.
LEMMA TotalConfirms ==
    ASSUME Accounted, TotalInv, [Next]_vars, Dedup \/ Confirm, SoundTotal'
    PROVE  total'.usd + Unadded' = SumOver([k \in Keys |-> Collected(k)'], Keys)
<1> USE DEF Others
<1>1. Accounted' /\ PaidOK' /\ SettledOK' /\ slips \subseteq slips'
  BY AccountedStep, PaidStep, SettledStep, SlipsGrow DEF TotalInv
<1>2. Sound /\ Sound' /\ SoundTotal
  BY <1>1 DEF Sound, SoundTotal
<1>3. /\ UNCHANGED <<processed, total, dl, cursor, dlWas>> /\ pc # "planned" /\ pc' # "planned"
  BY DEF Dedup, Confirm
<1>4. /\ wal'.id = wal.id /\ wal'.pay = wal.pay /\ wal'.rids = wal.rids /\ wal'.recs = wal.recs
      /\ wal'.done = Current(wal) /\ wal'.cursor = wal.cursor /\ wal # NoWAL /\ wal' # NoWAL
  BY <1>2, ConfirmedBatch
<1>5. PICK e \in processed :
        /\ e.hash = DetailsHash(wal, Current(wal)) /\ e.id = wal.id
        /\ \A k \in Keys : wal'.debts[k].usd = wal.debts[k].usd
                               + (IF k \in e.failed THEN wal.pay[k] ELSE 0)
  BY <1>2, ConfirmedBatch
<1>6. Passed' = Passed /\ DeadLetters' = DeadLetters
  BY <1>3, <1>4 DEF Passed, DeadLetters
<1> DEFINE a == [k \in Keys |-> Collected(k)]
           b == [k \in Keys |-> Collected(k)']
           c == [k \in Keys |-> Claim(k)]
           d == [k \in Keys |-> Claim(k)']
           s == [k \in Keys |-> IF k \in e.failed THEN wal.pay[k] ELSE 0]
<1>7. \A k \in Keys : c[k] = d[k] + s[k] /\ c[k] \in Nat /\ d[k] \in Nat /\ s[k] \in Nat
  <2> SUFFICES ASSUME NEW k \in Keys
               PROVE  /\ Claim(k) = Claim(k)' + (IF k \in e.failed THEN wal.pay[k] ELSE 0)
                      /\ Claim(k) \in Nat /\ Claim(k)' \in Nat /\ wal.pay[k] \in Nat
    OBVIOUS
  <2>1. TypeOK'
    BY <1>1 DEF Accounted
  <2> QED BY <1>3, <1>4, <1>5, <2>1, ClaimConfirmed
<1>8. \A k \in Keys : a[k] = b[k] + s[k] /\ b[k] \in Nat
  <2> SUFFICES ASSUME NEW k \in Keys
               PROVE  /\ Collected(k) = Collected(k)' + (IF k \in e.failed THEN wal.pay[k] ELSE 0)
                      /\ Collected(k)' \in Nat
    OBVIOUS
  <2>1. /\ Collected(k) \in Int /\ Collected(k)' \in Int
        /\ Collected(k)' + Carried(k)' = Collected(k) + Carried(k)
    BY <1>1, <1>2, <1>6, CollectedMoves
  <2>2. /\ wal.debts[k].usd \in Nat /\ wal.pay[k] \in Nat
        /\ Carried(k) = wal.debts[k].usd /\ Carried(k)' = wal'.debts[k].usd
    BY <1>4 DEF Carried, Accounted, TypeOK, Plan, Debt
  <2>3. paid'[k] \in Int /\ paid'[k] >= 0 /\ Due(k)' \in Nat
    BY <1>1, <1>2 DEF PaidOK, Accounted, TypeOK, Due, Plan
  <2>4. Collected(k)' = paid'[k] + Due(k)'
    BY DEF Collected
  <2>5. Collected(k)' \in Nat
    BY <2>3, <2>4
  <2>6. CASE k \in e.failed
    <3>1. Carried(k)' = Carried(k) + wal.pay[k]
      BY <1>5, <2>2, <2>6
    <3> QED BY <2>1, <2>2, <2>5, <2>6, <3>1
  <2>7. CASE k \notin e.failed
    <3>1. Carried(k)' = Carried(k)
      BY <1>5, <2>2, <2>7
    <3> QED BY <2>1, <2>2, <2>5, <2>7, <3>1
  <2> QED BY <2>6, <2>7
<1>9. Unconfirmed(wal) = {} => \A k \in Keys : s[k] = 0
  <2> SUFFICES ASSUME Unconfirmed(wal) = {}, NEW k \in Keys, k \in e.failed PROVE FALSE
    OBVIOUS
  <2>1. wal \in Plan
    BY DEF Accounted, TypeOK
  <2>2. k \in Items(wal) /\ BatchNo(wal, k) = Current(wal)
    BY <1>5, <2>1, BatchItems DEF Accounted, ChainOK
  <2>3. ~(BatchNo(wal, k) > wal.done)
    BY <2>2, NothingLeft
  <2> QED BY <2>1, <2>2, <2>3 DEF Current, Plan
<1>10. /\ \A w \in Wallets : wal.settled[w] = SumOver(c, KeysOf(w))
       /\ \A w \in Wallets : wal'.settled[w] = SumOver(d, KeysOf(w))
  BY <1>1, <1>2 DEF TotalInv, SettledOK, SumOver, KeysOf
<1>11. total.usd + Unadded = SumOver(a, Keys) /\ total.usd \in Nat
  BY <1>2 DEF TotalInv, TotalOK, Accounted, TypeOK
<1> HIDE DEF a, b, c, d, s
<1>f. IsFiniteSet(Keys)
  BY KeysFinite
<1>12. /\ SumOver(b, Keys) \in Nat /\ SumOver(s, Keys) \in Nat
       /\ SumOver(a, Keys) = SumOver(b, Keys) + SumOver(s, Keys)
  <2> DEFINE S == Keys
  <2>1. IsFiniteSet(S) /\ \A k \in S : b[k] \in Nat /\ s[k] \in Nat /\ a[k] = b[k] + s[k]
    BY <1>7, <1>8, <1>f
  <2> HIDE DEF S
  <2>2. /\ SumOver(b, S) \in Nat /\ SumOver(s, S) \in Nat
        /\ SumOver(a, S) = SumOver(b, S) + SumOver(s, S)
    BY <2>1, SumPlus
  <2> QED BY <2>2 DEF S
<1>13. CASE total.last = wal.id
  <2>1. \A k \in Keys : s[k] = 0
    BY <1>4, <1>9, <1>13 DEF TotalInv, StampOK
  <2>2. SumOver(s, Keys) = 0
    BY <2>1, SumZero
  <2>3. Unadded = 0 /\ Unadded' = 0
    BY <1>3, <1>4, <1>13 DEF Unadded
  <2> QED BY <1>3, <1>11, <1>12, <2>2, <2>3 DEF b
<1>14. CASE total.last # wal.id
  <2>1. Unadded = SumOver(wal.settled, Wallets) /\ Unadded' = SumOver(wal'.settled, Wallets)
    BY <1>3, <1>4, <1>14 DEF Unadded, SumOver
  <2>2. SumOver(wal.settled, Wallets) = SumOver(c, Keys)
    BY <1>7, <1>10, SumByWallet
  <2>3. SumOver(wal'.settled, Wallets) = SumOver(d, Keys)
    BY <1>7, <1>10, SumByWallet
  <2>4. SumOver(d, Keys) \in Nat /\ SumOver(c, Keys) = SumOver(d, Keys) + SumOver(s, Keys)
    <3> DEFINE S == Keys
    <3>1. IsFiniteSet(S) /\ \A k \in S : d[k] \in Nat /\ s[k] \in Nat /\ c[k] = d[k] + s[k]
      BY <1>7, <1>f
    <3> HIDE DEF S
    <3>2. /\ SumOver(d, S) \in Nat /\ SumOver(s, S) \in Nat
          /\ SumOver(c, S) = SumOver(d, S) + SumOver(s, S)
      BY <3>1, SumPlus
    <3> QED BY <3>2 DEF S
  <2>5. total.usd + Unadded' = SumOver(b, Keys)
    BY <1>11, <1>12, <2>1, <2>2, <2>3, <2>4
  <2> QED BY <1>3, <2>5 DEF b
<1> QED BY <1>13, <1>14

\* The plan becomes the WAL: what it will collect is what it settles.
LEMMA TotalPlanned ==
    ASSUME Accounted, TotalInv, [Next]_vars, WritePending, SoundTotal'
    PROVE  total'.usd + Unadded' = SumOver([k \in Keys |-> Collected(k)'], Keys)
<1>1. /\ UNCHANGED <<total, paid, slips>> /\ pc = "planned" /\ wal' = plan
  BY DEF WritePending, Others
<1>2. Sound /\ SoundTotal
  BY <1>1 DEF Sound, SoundTotal
<1>3. (wal # NoWAL => Unconfirmed(wal) = {}) /\ plan # NoWAL /\ plan.id = cycle /\ plan \in Plan
  BY <1>1 DEF Accounted, ControlOK, TypeOK
<1>4. Unadded = 0
  BY <1>1, <1>2 DEF TotalInv, TotalOK, Unadded
<1>5. total.last # plan.id
  BY <1>1, <1>3 DEF TotalInv, StampOK, Accounted, TypeOK
<1>6. Unadded' = SumOver(plan.settled, Wallets)
  BY <1>1, <1>3, <1>5 DEF Unadded, SumOver
<1>7. \A k \in Keys : plan.pay[k] \in Nat
  BY <1>3 DEF Plan
<1>8. SumOver(plan.settled, Wallets) = SumOver(plan.pay, Keys)
  BY <1>2, <1>7, SumByWallet DEF TotalInv, SettledOK
<1> DEFINE a == [k \in Keys |-> Collected(k)]
           b == [k \in Keys |-> Collected(k)']
<1>9. \A k \in Keys : b[k] = a[k] + plan.pay[k] /\ a[k] \in Nat
  <2> SUFFICES ASSUME NEW k \in Keys
               PROVE  Collected(k)' = Collected(k) + plan.pay[k] /\ Collected(k) \in Nat
    OBVIOUS
  <2>1. Due(k) = 0
    BY <1>3, NothingDue, NoWALHasNoBatch DEF Accounted, Due
  <2>2. Due(k)' = plan.pay[k]
    BY FreshWAL
  <2>3. paid[k] \in Nat
    BY <1>2, CollectedType DEF Accounted, TotalInv
  <2> QED BY <1>1, <1>7, <2>1, <2>2, <2>3 DEF Collected
<1>10. total.usd + Unadded = SumOver(a, Keys) /\ total.usd \in Nat
  BY <1>2 DEF TotalInv, TotalOK, Accounted, TypeOK
<1> HIDE DEF a, b
<1>11. /\ SumOver(a, Keys) \in Nat /\ SumOver(plan.pay, Keys) \in Nat
       /\ SumOver(b, Keys) = SumOver(a, Keys) + SumOver(plan.pay, Keys)
  BY <1>7, <1>9, KeysFinite, SumPlus
<1>12. total.usd + SumOver(plan.pay, Keys) = SumOver(b, Keys)
  BY <1>4, <1>10, <1>11
<1> QED BY <1>1, <1>6, <1>8, <1>12 DEF b

\* A step that leaves the WAL and what was collected alone.
LEMMA TotalFrame ==
    ASSUME TotalOK, SoundTotal, UNCHANGED <<wal, total>>,
           \A k \in Keys : Collected(k)' = Collected(k)
    PROVE  total'.usd + Unadded' = SumOver([k \in Keys |-> Collected(k)'], Keys)
<1>1. Unadded' = Unadded
  BY DEF Unadded, SumOver
<1>2. [k \in Keys |-> Collected(k)'] = [k \in Keys |-> Collected(k)]
  OBVIOUS
<1>3. total.usd + Unadded = SumOver([k \in Keys |-> Collected(k)], Keys)
  BY DEF TotalOK
<1> QED BY <1>1, <1>2, <1>3

LEMMA TotalStep ==
    ASSUME Accounted, TotalInv, [Next]_vars
    PROVE  TotalOK'
<1> USE DEF Others
<1>1. Accounted' /\ slips \subseteq slips'
  BY AccountedStep, SlipsGrow
<1> SUFFICES ASSUME SoundTotal'
             PROVE  /\ total'.usd + Unadded' = SumOver([k \in Keys |-> Collected(k)'], Keys)
                    /\ pc' \in {"debts", "remove", "peek", "planned"} /\ wal' # NoWAL
                           => total'.last = wal'.id
  BY DEF TotalOK, SumOver
<1>2. Sound /\ Sound' /\ SoundTotal
  BY <1>1 DEF Sound, SoundTotal
<1>3. pc \in {"debts", "remove", "peek", "planned"} /\ wal # NoWAL => total.last = wal.id
  BY <1>2 DEF TotalInv, TotalOK
<1>4. CASE \/ Boot \/ SettleBegin \/ NothingPending \/ Submit \/ Receipt \/ Final \/ Vanished
           \/ Ledger \/ Commit \/ SaveDebts \/ Abort \/ Restore \/ Skip \/ Aggregate
           \/ (RemoveWAL /\ wal' = wal) \/ Crash \/ (\E r \in Requests : Serve(r))
  <2>1. UNCHANGED <<wal, total, paid, processed>>
    BY <1>4 DEF Boot, SettleBegin, NothingPending, Submit, Receipt, Final, Vanished, Ledger,
       Commit, SaveDebts, Abort, Restore, Skip, Aggregate, RemoveWAL, Crash, Serve, chain
  <2>2. \A k \in Keys : Collected(k)' = Collected(k)
    BY <2>1 DEF Collected, Due, Landed
  <2>3. pc' \in {"debts", "remove", "peek", "planned"} /\ wal # NoWAL
            => pc \in {"debts", "remove", "peek", "planned"}
    BY <1>4 DEF Boot, SettleBegin, NothingPending, Submit, Receipt, Final, Vanished, Ledger,
       Commit, SaveDebts, Abort, Restore, Skip, Aggregate, RemoveWAL, Crash, Serve, Goto,
       Returned, Failed
  <2> QED BY <1>2, <1>3, <2>1, <2>2, <2>3, TotalFrame DEF TotalInv
<1>5. CASE AddSettledTotal
  <2>1. UNCHANGED <<wal, paid, processed>> /\ pc = "total" /\ pc' = "debts"
    BY <1>5 DEF AddSettledTotal
  <2>2. wal # NoWAL
    BY <2>1 DEF Accounted, ControlOK
  <2>3. \A k \in Keys : Collected(k)' = Collected(k)
    BY <2>1 DEF Collected, Due, Landed
  <2>4. CASE total.last = wal.id
    <3>1. UNCHANGED total
      BY <1>5, <2>4 DEF AddSettledTotal, Added
    <3> QED BY <1>2, <2>1, <2>3, <2>4, <3>1, TotalFrame DEF TotalInv
  <2>5. CASE total.last # wal.id
    <3>1. total' = [usd |-> total.usd + SumOver(wal.settled, Wallets), last |-> wal.id]
      BY <1>5, <2>5 DEF AddSettledTotal, Added, SoundTotal
    <3>2. Unadded = SumOver(wal.settled, Wallets) /\ Unadded' = 0
      BY <2>1, <2>2, <2>5, <3>1 DEF Unadded
    <3>3. total.usd + Unadded = SumOver([k \in Keys |-> Collected(k)], Keys)
      BY <1>2 DEF TotalInv, TotalOK
    <3>4. [k \in Keys |-> Collected(k)'] = [k \in Keys |-> Collected(k)]
      BY <2>3
    <3>5. SumOver(wal.settled, Wallets) \in Nat /\ total.usd \in Nat
      <4>1. wal.settled \in [Wallets -> Nat] /\ total.usd \in Nat
        BY DEF Accounted, TypeOK, Plan
      <4> QED BY <4>1, SettlementAssumption, SumOverType
    <3>6. total'.usd = total.usd + Unadded /\ total'.last = wal'.id
      BY <2>1, <3>1, <3>2
    <3>7. total'.usd + Unadded' = total.usd + Unadded
      BY <3>2, <3>5, <3>6
    <3> QED BY <3>3, <3>4, <3>6, <3>7
  <2> QED BY <2>4, <2>5
<1>6. CASE Dedup \/ Confirm
  BY <1>6, TotalConfirms DEF Dedup, Confirm
<1>7. CASE RemoveWAL /\ wal' = NoWAL
  <2>1. UNCHANGED <<total, paid>> /\ pc = "remove"
    BY <1>7 DEF RemoveWAL
  <2>2. wal # NoWAL /\ Unconfirmed(wal) = {}
    BY <2>1 DEF Accounted, ControlOK
  <2>3. Unadded = 0 /\ Unadded' = 0
    BY <1>3, <1>7, <2>1, <2>2 DEF Unadded
  <2>4. \A k \in Keys : Due(k) = 0 /\ Due(k)' = 0
    BY <1>7, <2>2, NothingDue, NoWALHasNoBatch DEF Accounted, Due
  <2>5. \A k \in Keys : Collected(k)' = Collected(k)
    BY <2>1, <2>4 DEF Collected
  <2>6. [k \in Keys |-> Collected(k)'] = [k \in Keys |-> Collected(k)]
    BY <2>5
  <2>7. total.usd + Unadded = SumOver([k \in Keys |-> Collected(k)], Keys)
    BY <1>2 DEF TotalInv, TotalOK
  <2> QED BY <1>7, <2>1, <2>3, <2>6, <2>7
<1>8. CASE WritePending
  BY <1>8, TotalPlanned DEF WritePending
<1>9. CASE \/ \E t \in mempool : Mine(t) \/ Drop(t)
           \/ \E e \in processed : Bury(e) \/ Reorg(e)
  <2>1. UNCHANGED <<log, cursor, dl, debts, wal, total, cycle, plan, dlWas, pc, slips>>
    BY <1>9 DEF Mine, Drop, Bury, Reorg, files, memory, ghosts
  <2>2. /\ Passed' = Passed /\ DeadLetters' = DeadLetters
        /\ \A k \in Keys : Carried(k)' = Carried(k)
    BY <2>1, ChainFrame
  <2>3. ASSUME NEW k \in Keys PROVE Collected(k)' = Collected(k)
    <3>1. /\ Collected(k) \in Int /\ Collected(k)' \in Int
          /\ Collected(k)' + Carried(k)' = Collected(k) + Carried(k)
      BY <1>1, <1>2, <2>2, CollectedMoves
    <3>2. Carried(k) \in Nat
      BY AmountTypes DEF Accounted
    <3> QED BY <2>2, <3>1, <3>2
  <2> QED BY <1>2, <1>3, <2>1, <2>3, TotalFrame DEF TotalInv
<1>10. CASE UNCHANGED vars
  <2>1. UNCHANGED <<wal, total, paid, processed, pc>>
    BY <1>10 DEF vars, files, memory, chain
  <2>2. \A k \in Keys : Collected(k)' = Collected(k)
    BY <2>1 DEF Collected, Due, Landed
  <2> QED BY <1>2, <1>3, <2>1, <2>2, TotalFrame DEF TotalInv
<1>11. RemoveWAL => wal' = wal \/ wal' = NoWAL
  BY DEF RemoveWAL
<1> QED BY <1>4, <1>5, <1>6, <1>7, <1>8, <1>9, <1>10, <1>11 DEF Next, Settler, Environment

\* The total starts at nothing, and nothing is on the chain.
LEMMA TotalInit == Init => TotalInv
<1> SUFFICES ASSUME Init PROVE TotalInv
  OBVIOUS
<1>1. /\ wal = NoWAL /\ plan = NoWAL /\ processed = {} /\ pc = "down" /\ cycle = 0
      /\ total.usd = 0 /\ total.last = 0 /\ \A k \in Keys : paid[k] = 0
  BY DEF Init
<1>2. ConfirmedOK
  <2>1. BatchNos(NoWAL) = {}
    BY NoWALHasNoBatch DEF BatchNos
  <2> QED BY <1>1, <2>1 DEF ConfirmedOK
<1>3. PaidOK
  BY <1>1 DEF PaidOK
<1>4. \A k \in Keys : Claim(k) = 0 /\ Due(k) = 0
  BY <1>1, NoWALHasNoBatch DEF Claim, Due
<1>5. SettledOK
  <2>1. \A w \in Wallets : SumOver([k \in Keys |-> Claim(k)], KeysOf(w)) = 0
    <3> SUFFICES ASSUME NEW w \in Wallets PROVE SumOver([k \in Keys |-> Claim(k)], KeysOf(w)) = 0
      OBVIOUS
    <3>1. \A k \in KeysOf(w) : [j \in Keys |-> Claim(j)][k] = 0
      BY <1>4 DEF KeysOf
    <3> QED BY <3>1, SumZero
  <2> QED BY <1>1, <2>1, NoWALClaims DEF SettledOK
<1>6. StampOK
  BY <1>1 DEF StampOK
<1>7. TotalOK
  <2>1. \A k \in Keys : [j \in Keys |-> Collected(j)][k] = 0
    BY <1>1, <1>4 DEF Collected
  <2>2. SumOver([j \in Keys |-> Collected(j)], Keys) = 0
    BY <2>1, SumZero
  <2> QED BY <1>1, <2>2 DEF TotalOK, Unadded
<1> QED BY <1>2, <1>3, <1>5, <1>6, <1>7 DEF TotalInv

LEMMA TotalInvariant == Spec => []TotalInv
<1>1. Accounted /\ TotalInv /\ [Next]_vars => TotalInv'
  BY ConfirmedStep, PaidStep, SettledStep, StampStep, TotalStep DEF TotalInv
<1> QED BY <1>1, TotalInit, AccountedInvariant, PTL DEF Spec

\* The total that reconciliation compares with the chain (addSettledTotal, keyed by
\* CreatedAt) is what the chain moved, for any number of batches, skipped items, replays
\* and crashes.
THEOREM TotalMatchesChainAlways == Spec => []TotalMatchesChain
<1>1. Accounted /\ TotalInv => TotalMatchesChain
  <2> SUFFICES ASSUME Accounted, TotalInv, wal = NoWAL, SoundTotal
               PROVE  total.usd = SumOver(paid, Keys)
    BY DEF TotalMatchesChain, SoundTotal
  <2>1. Unadded = 0
    BY DEF Unadded
  <2>2. \A k \in Keys : [j \in Keys |-> Collected(j)][k] = paid[k]
    <3> SUFFICES ASSUME NEW k \in Keys PROVE Collected(k) = paid[k]
      OBVIOUS
    <3>1. Due(k) = 0 /\ paid[k] \in Int
      BY NoWALHasNoBatch DEF Due, Accounted, TypeOK
    <3> QED BY <3>1 DEF Collected
  <2>3. SumOver([j \in Keys |-> Collected(j)], Keys) = SumOver(paid, Keys)
    BY <2>2, SumSame
  <2>4. total.usd + Unadded = SumOver([j \in Keys |-> Collected(j)], Keys) /\ total.usd \in Nat
    BY DEF TotalInv, TotalOK, Accounted, TypeOK
  <2> QED BY <2>1, <2>3, <2>4
<1> QED BY <1>1, TotalInvariant, AccountedInvariant, PTL

-----------------------------------------------------------------------------
(* What is reserved: PendingExact.                                           *)

\* Who called decides where a call of resumePending returns to.
LEMMA CallersStep ==
    ASSUME CallersOK, [Next]_vars
    PROVE  CallersOK'
<1> USE DEF Others, Goto
<1>1. SoundGate' => SoundGate
  BY SlipsGrow DEF SoundGate
<1>2. CASE NothingPending \/ RemoveWAL
  <2>1. pc' \in {"peek", "planned"} => origin = "settle" /\ origin' = "settle"
    BY <1>2 DEF NothingPending, RemoveWAL, Returned
  <2>2. SoundGate' => wal' = NoWAL
    BY <1>2 DEF NothingPending, RemoveWAL, SoundGate, GateSlips, BooksSlips
  <2>3. pc' # "down" /\ (pc' = "restore" => origin' = "boot") /\ (pc' = "idle" => origin' = "none")
    BY <1>2 DEF NothingPending, RemoveWAL, Returned
  <2> QED BY <2>1, <2>2, <2>3 DEF CallersOK
<1>3. CASE \/ Boot \/ SettleBegin \/ Dedup \/ Submit \/ Receipt \/ Final \/ Vanished \/ Confirm
           \/ Ledger \/ Commit \/ AddSettledTotal \/ SaveDebts \/ WritePending
  <2>1. /\ pc' \notin {"restore", "peek", "planned", "down", "idle"}
    BY <1>3 DEF Boot, SettleBegin, Dedup, Submit, Receipt, Final, Vanished, Confirm, Ledger,
       Commit, AddSettledTotal, SaveDebts, WritePending
  <2> QED BY <2>1 DEF CallersOK
<1>4. CASE Restore \/ Skip \/ Crash
  BY <1>4 DEF Restore, Skip, Crash, CallersOK
<1>5. CASE Abort
  <2>1. pc' \in {"restore", "idle"} /\ (pc' = "restore" => origin' = "boot")
        /\ (pc' = "idle" => origin' = "none")
    BY <1>5 DEF Abort, Failed
  <2> QED BY <2>1 DEF CallersOK
<1>6. CASE Aggregate
  <2>1. UNCHANGED <<wal, origin>> /\ pc = "peek" /\ pc' = "planned"
    BY <1>6 DEF Aggregate
  <2> QED BY <1>1, <2>1 DEF CallersOK
<1>7. CASE UNCHANGED <<pc, origin, wal>>
  BY <1>1, <1>7 DEF CallersOK
<1>8. UNCHANGED vars \/ Environment => Crash \/ UNCHANGED <<pc, origin, wal>>
  BY DEF vars, files, memory, Environment, Mine, Drop, Bury, Reorg, Serve
<1> QED BY <1>2, <1>3, <1>4, <1>5, <1>6, <1>7, <1>8 DEF Next, Settler

\* SoundGate is stronger than Sound, and neither comes back.
LEMMA GateSound ==
    ASSUME [Next]_vars, SoundGate'
    PROVE  SoundGate /\ Sound /\ Sound'
BY SlipsGrow DEF SoundGate, Sound, GateSlips

\* Aggregate draws the plan up from the dead letters and the unread lines.
LEMMA DrawnUpStep ==
    ASSUME Accounted, CallersOK, DrawnUp, [Next]_vars
    PROVE  DrawnUp'
<1> USE DEF Others
<1> SUFFICES ASSUME SoundGate', pc' = "planned"
             PROVE  /\ cursor' \subseteq plan'.cursor
                    /\ Once(plan'.recs) = dlWas' \cup Once(plan'.cursor \ cursor')
                    /\ dl' \subseteq Once(plan'.recs)
  BY DEF DrawnUp, Once
<1>1. SoundGate /\ Sound
  BY GateSound
<1>2. CASE Aggregate
  <2>1. PICK U \in SUBSET MayUnmap, seen \in Balances :
            /\ plan' = NewPlan(U, seen)
            /\ dl' = Unresolved(U) \/ (dl' = dl /\ slips' = IF dl = Unresolved(U) THEN slips
                                         ELSE slips \cup {"deadLetterNotSaved"})
    BY <1>2 DEF Aggregate
  <2>2. dlWas' = dl /\ cursor' = cursor /\ pc = "peek"
    BY <1>2 DEF Aggregate
  <2>3. dl' = Unresolved(U)
    BY <2>1 DEF SoundGate, GateSlips, BooksSlips
  <2>4. dl \subseteq Once(cursor)
    BY <1>1, <2>2 DEF CallersOK, Accounted, DeadLettersOK, DeadLetters, Passed
  <2>5. Input = dl \cup Once(log \ cursor)
    BY <2>4, InputSplit DEF Accounted
  <2>6. plan'.cursor = log /\ plan'.recs = {l[1] : l \in Input}
    BY <2>1 DEF NewPlan
  <2>7. Once(plan'.recs) = Input
    <3>1. \A l \in Input : l = <<l[1], 0>>
      BY <2>4, <2>5 DEF Once
    <3> QED BY <2>6, <3>1 DEF Once
  <2>8. Unresolved(U) \subseteq Input
    BY DEF Unresolved
  <2>9. cursor \subseteq log
    BY DEF Accounted, CursorsOK
  <2> QED BY <2>2, <2>3, <2>5, <2>6, <2>7, <2>8, <2>9
<1>3. CASE ~Aggregate
  <2>1. UNCHANGED <<cursor, plan, dl, dlWas, pc>>
    <3>1. CASE Settler
      BY <1>3, <3>1 DEF Settler, Boot, SettleBegin, NothingPending, Dedup, Submit, Receipt,
         Final, Vanished, Confirm, Ledger, Commit, AddSettledTotal, SaveDebts, RemoveWAL, Abort,
         Restore, Skip, WritePending, Goto, Returned, Failed
    <3>2. CASE Environment \/ UNCHANGED vars
      BY <3>2 DEF vars, files, memory, ghosts, Environment, Mine, Drop, Bury, Reorg, Serve, Crash
    <3> QED BY <3>1, <3>2 DEF Next
  <2> QED BY <1>1, <2>1 DEF DrawnUp
<1> QED BY <1>2, <1>3

\* Lines of disjoint sets of requests add up.
LEMMA OnceSplit ==
    ASSUME NEW A \in SUBSET Requests, NEW B \in SUBSET Requests, A \subseteq B, NEW k
    PROVE  /\ Usage(Once(B), k) = Usage(Once(A), k) + Usage(Once(B \ A), k)
           /\ Usage(Once(A), k) \in Nat /\ Usage(Once(B \ A), k) \in Nat
<1>1. IsFiniteSet(Once(A)) /\ IsFiniteSet(Once(B \ A))
  BY OnceFinite
<1>2. Once(B) = Once(A) \cup Once(B \ A) /\ Once(A) \cap Once(B \ A) = {}
  BY DEF Once
<1>3. Usage(Once(A) \cup Once(B \ A), k) = Usage(Once(A), k) + Usage(Once(B \ A), k)
  BY <1>1, <1>2, UsageSplit
<1>4. Usage(Once(A), k) \in Nat /\ Usage(Once(B \ A), k) \in Nat
  BY <1>1, UsageType
<1> QED BY <1>2, <1>3, <1>4

\* The chain keeps what is buried, so that the claims of an unchanged WAL stay.
LEMMA ClaimKept ==
    ASSUME Accounted, ConfirmedOK, [Next]_vars, Sound, UNCHANGED wal, NEW k \in Keys
    PROVE  Claim(k)' = Claim(k)
<1>1. Accounted'
  BY AccountedStep
<1>2. \A e \in processed : e.deep => e \in processed'
  <2>1. CASE Settler
    BY <2>1 DEF Settler, Others, Boot, SettleBegin, NothingPending, Dedup, Submit, Receipt,
       Final, Vanished, Confirm, Ledger, Commit, AddSettledTotal, SaveDebts, RemoveWAL, Abort,
       Restore, Skip, Aggregate, WritePending
  <2>2. CASE Environment \/ UNCHANGED vars
    BY <2>2 DEF vars, chain, Others, Environment, Mine, Drop, Bury, Reorg, Serve, Crash
  <2> QED BY <2>1, <2>2 DEF Next
<1> QED BY <1>1, <1>2, ClaimStays

LEMMA ClaimType == ASSUME TypeOK, NEW k \in Keys PROVE Claim(k) \in Nat
BY DEF Claim, TypeOK, Plan

\* Confirming a batch moves the skipped items of a pair from the claim to the debts.
LEMMA ClaimMoves ==
    ASSUME Accounted, [Next]_vars, Dedup \/ Confirm, Sound', NEW k \in Keys
    PROVE  /\ Claim(k)' + wal'.debts[k].usd = Claim(k) + wal.debts[k].usd
           /\ Claim(k) \in Nat /\ Claim(k)' \in Nat
           /\ wal'.recs = wal.recs /\ wal'.cursor = wal.cursor /\ wal # NoWAL /\ wal' # NoWAL
<1>1. TypeOK' /\ UNCHANGED processed
  BY AccountedStep DEF Accounted, Dedup, Confirm, Others
<1>2. PICK e \in processed :
          /\ e.hash = DetailsHash(wal, Current(wal)) /\ e.id = wal.id
          /\ wal'.debts[k].usd = wal.debts[k].usd + (IF k \in e.failed THEN wal.pay[k] ELSE 0)
  BY ConfirmedBatch
<1>3. /\ wal'.id = wal.id /\ wal'.pay = wal.pay /\ wal'.rids = wal.rids /\ wal'.recs = wal.recs
      /\ wal'.done = Current(wal) /\ wal'.cursor = wal.cursor /\ wal # NoWAL /\ wal' # NoWAL
  BY ConfirmedBatch
<1>4. /\ Claim(k) \in Nat /\ Claim(k)' \in Nat /\ wal.pay[k] \in Nat
      /\ Claim(k) = Claim(k)' + (IF k \in e.failed THEN wal.pay[k] ELSE 0)
  BY <1>1, <1>2, <1>3, ClaimConfirmed
<1>5. wal.debts[k].usd \in Nat
  BY DEF Accounted, TypeOK, Plan, Debt
<1> QED BY <1>2, <1>3, <1>4, <1>5

\* What the plan in memory settles, carries and parks is what it was drawn up from.
LEMMA PlanDrawn ==
    ASSUME Accounted, DrawnUp, CallersOK, SoundGate, pc = "planned", NEW k \in Keys
    PROVE  /\ debts[k].usd + Usage(dlWas, k) + Usage(Once(plan.cursor \ cursor), k)
                  = plan.pay[k] + plan.debts[k].usd + Usage(dl, k)
           /\ Usage(Once(plan.recs), k) = Usage(dlWas, k) + Usage(Once(plan.cursor \ cursor), k)
           /\ debts[k].usd \in Nat /\ plan.pay[k] \in Nat /\ plan.debts[k].usd \in Nat
           /\ Usage(dl, k) \in Nat /\ Usage(dlWas, k) \in Nat
           /\ Usage(Once(plan.cursor \ cursor), k) \in Nat
<1>1. Sound /\ wal = NoWAL
  BY DEF SoundGate, Sound, GateSlips, CallersOK
<1>2. /\ paid[k] + Due(k) + Carried(k) + Usage(dlWas, k) = Usage(Once(cursor), k)
      /\ paid[k] + plan.pay[k] + plan.debts[k].usd + Usage(dl, k) = Usage(Once(plan.cursor), k)
  BY <1>1 DEF Accounted, AccountsOK, DeadLetters, Passed
<1>3. Due(k) = 0 /\ Carried(k) = debts[k].usd
  BY <1>1, NoWALHasNoBatch DEF Due, Carried
<1>4. /\ debts[k].usd \in Nat /\ plan.pay[k] \in Nat /\ plan.debts[k].usd \in Nat
      /\ paid[k] \in Int /\ cursor \in SUBSET Requests /\ plan.cursor \in SUBSET Requests
      /\ IsFiniteSet(dl) /\ IsFiniteSet(dlWas)
  BY DEF Accounted, TypeOK, Plan, Debt
<1>5. Usage(dl, k) \in Nat /\ Usage(dlWas, k) \in Nat
  BY <1>4, UsageType
<1>6. cursor \subseteq plan.cursor /\ Once(plan.recs) = dlWas \cup Once(plan.cursor \ cursor)
  BY DEF DrawnUp
<1>7. /\ Usage(Once(plan.cursor), k) = Usage(Once(cursor), k) + Usage(Once(plan.cursor \ cursor), k)
      /\ Usage(Once(cursor), k) \in Nat /\ Usage(Once(plan.cursor \ cursor), k) \in Nat
  BY <1>4, <1>6, OnceSplit
<1>8. Usage(Once(plan.recs), k) = Usage(dlWas, k) + Usage(Once(plan.cursor \ cursor), k)
  <2>1. dlWas \subseteq Once(cursor)
    BY <1>1 DEF Accounted, DeadLettersOK, DeadLetters, Passed
  <2>2. dlWas \cap Once(plan.cursor \ cursor) = {}
    BY <2>1 DEF Once
  <2>3. IsFiniteSet(dlWas) /\ IsFiniteSet(Once(plan.cursor \ cursor))
    BY <1>4, OnceFinite
  <2>4. Usage(dlWas \cup Once(plan.cursor \ cursor), k)
            = Usage(dlWas, k) + Usage(Once(plan.cursor \ cursor), k)
    BY <2>2, <2>3, UsageSplit
  <2> QED BY <1>6, <2>4
<1>9. debts[k].usd + Usage(dlWas, k) + Usage(Once(plan.cursor \ cursor), k)
          = plan.pay[k] + plan.debts[k].usd + Usage(dl, k)
  BY <1>2, <1>3, <1>4, <1>5, <1>7
<1> QED BY <1>4, <1>5, <1>7, <1>8, <1>9

LEMMA DrawnFromStep ==
    ASSUME Accounted, ConfirmedOK, CallersOK, DrawnUp, DrawnFrom, [Next]_vars
    PROVE  DrawnFrom'
<1> USE DEF Others
<1> SUFFICES ASSUME SoundGate', wal' # NoWAL, cursor' # wal'.cursor
             PROVE  /\ cursor' \subseteq wal'.cursor
                    /\ wal'.recs \ cursor' = wal'.cursor \ cursor'
                    /\ dl' \subseteq Once(wal'.recs)
                    /\ \A k \in Keys : debts'[k].usd + Usage(Once(wal'.recs), k)
                           = Claim(k)' + wal'.debts[k].usd + Usage(dl', k)
  BY DEF DrawnFrom, Once, Usage
<1>1. SoundGate /\ Sound /\ Sound'
  BY GateSound
<1>2. CASE WritePending
  <2>1. wal' = plan /\ pc = "planned" /\ UNCHANGED <<cursor, dl, debts>>
    BY <1>2 DEF WritePending
  <2>2. /\ cursor \subseteq plan.cursor /\ dl \subseteq Once(plan.recs)
        /\ Once(plan.recs) = dlWas \cup Once(plan.cursor \ cursor)
    BY <1>1, <2>1 DEF DrawnUp
  <2>3. dlWas \subseteq Once(cursor)
    BY <1>1, <2>1 DEF CallersOK, Accounted, DeadLettersOK, DeadLetters, Passed
  <2>4. plan.recs \ cursor = plan.cursor \ cursor
    <3>1. \A S : \A r : <<r, 0>> \in Once(S) <=> r \in S
      BY DEF Once
    <3>2. \A r : r \in plan.recs <=> <<r, 0>> \in dlWas \/ r \in plan.cursor \ cursor
      BY <2>2, <3>1
    <3>3. \A r : <<r, 0>> \in dlWas => r \in cursor
      BY <2>3, <3>1
    <3> QED BY <3>2, <3>3
  <2>5. ASSUME NEW k \in Keys
        PROVE  debts[k].usd + Usage(Once(plan.recs), k)
                   = Claim(k)' + plan.debts[k].usd + Usage(dl, k)
    <3>1. Claim(k)' = plan.pay[k]
      BY <1>2, FreshWAL
    <3> HIDE DEF Claim
    <3> QED BY <1>1, <2>1, <3>1, PlanDrawn
  <2> QED BY <2>1, <2>2, <2>4, <2>5
<1>3. CASE Dedup \/ Confirm
  <2>1. UNCHANGED <<cursor, dl, debts>>
    BY <1>3 DEF Dedup, Confirm
  <2>2. wal'.recs = wal.recs /\ wal'.cursor = wal.cursor /\ wal # NoWAL
    BY <1>1, <1>3, ConfirmedBatch
  <2>3. ASSUME NEW k \in Keys
        PROVE  debts[k].usd + Usage(Once(wal.recs), k)
                   = Claim(k)' + wal'.debts[k].usd + Usage(dl, k)
    <3>1. debts[k].usd + Usage(Once(wal.recs), k) = Claim(k) + wal.debts[k].usd + Usage(dl, k)
      BY <1>1, <2>1, <2>2 DEF DrawnFrom
    <3>2. Claim(k)' + wal'.debts[k].usd = Claim(k) + wal.debts[k].usd
      BY <1>1, <1>3, ClaimMoves
    <3> QED BY <3>1, <3>2
  <2> QED BY <1>1, <2>1, <2>2, <2>3 DEF DrawnFrom
<1>4. CASE UNCHANGED <<wal, cursor, dl, debts>>
  <2>1. \A k \in Keys : Claim(k)' = Claim(k)
    BY <1>1, <1>4, ClaimKept
  <2> QED BY <1>1, <1>4, <2>1 DEF DrawnFrom
<1>5. CASE Commit \/ RemoveWAL \/ SaveDebts \/ Aggregate
  <2>1. Commit => cursor' = wal'.cursor
    BY DEF Commit
  <2>2. ~(RemoveWAL /\ UNCHANGED wal)
    BY DEF RemoveWAL, SoundGate, GateSlips
  <2>3. ~RemoveWAL
    BY <2>2 DEF RemoveWAL
  <2>4. ~SaveDebts
    BY DEF SaveDebts, Accounted, ControlOK
  <2>5. Aggregate => wal' = NoWAL
    BY <1>1 DEF Aggregate, CallersOK
  <2> QED BY <1>5, <2>1, <2>3, <2>4, <2>5
<1>6. \/ WritePending \/ Dedup \/ Confirm \/ UNCHANGED <<wal, cursor, dl, debts>>
      \/ Commit \/ RemoveWAL \/ SaveDebts \/ Aggregate
  <2>1. CASE Settler
    BY <2>1 DEF Settler, Boot, SettleBegin, NothingPending, Submit, Receipt, Final, Vanished,
       Ledger, AddSettledTotal, Abort, Restore, Skip
  <2>2. CASE Environment \/ UNCHANGED vars
    BY <2>2 DEF vars, files, Environment, Mine, Drop, Bury, Reorg, Serve, Crash
  <2> QED BY <2>1, <2>2 DEF Next
<1> QED BY <1>2, <1>3, <1>4, <1>5, <1>6

LEMMA ReserveType ==
    ASSUME Accounted, NEW k \in Keys
    PROVE  /\ Claim(k) \in Nat /\ Claimed(k) \in Nat /\ Carried(k) \in Nat
           /\ Usage(DeadLetters, k) \in Nat /\ Usage(Once(log \ Passed), k) \in Nat
           /\ Reserve(k) \in Nat
<1>1. Claim(k) \in Nat /\ Claimed(k) \in Nat
  BY ClaimType DEF Accounted, Claimed
<1>2. Carried(k) \in Nat /\ Usage(DeadLetters, k) \in Nat
  BY AmountTypes DEF Accounted
<1>3. Usage(Once(log \ Passed), k) \in Nat
  <2>1. log \ Passed \in SUBSET Requests
    BY DEF Accounted, TypeOK
  <2>2. IsFiniteSet(Once(log \ Passed))
    BY <2>1, OnceFinite
  <2> QED BY <2>2, UsageType
<1> QED BY <1>1, <1>2, <1>3 DEF Reserve

\* The steps that leave what is owed where it was.
LEMMA ReserveFrame ==
    ASSUME Accounted, ConfirmedOK, [Next]_vars, Sound,
           UNCHANGED <<log, cursor, wal>>, DeadLetters' = DeadLetters,
           wal = NoWAL => debts' = debts,
           pc' \in {"total", "debts", "remove"} <=> pc \in {"total", "debts", "remove"},
           NEW k \in Keys
    PROVE  Reserve(k)' = Reserve(k)
<1>1. Claimed(k)' = Claimed(k)
  BY ClaimKept DEF Claimed
<1>2. Carried(k)' = Carried(k)
  BY DEF Carried
<1>3. Passed' = Passed
  BY DEF Passed
<1> QED BY <1>1, <1>2, <1>3 DEF Reserve

\* No step of the settler changes what is to be reserved, except that reducePendingSpend
\* releases the WAL's claim.
LEMMA ReserveKept ==
    ASSUME Accounted, ConfirmedOK, CallersOK, DrawnUp, [Next]_vars, SoundGate',
           ~Commit, ~Crash, \A r \in Requests : ~Serve(r), NEW k \in Keys
    PROVE  Reserve(k)' = Reserve(k)
<1> USE DEF Others, Goto
<1>1. SoundGate /\ Sound /\ Sound'
  BY GateSound
<1>2. CASE \/ Boot \/ SettleBegin \/ NothingPending \/ Submit \/ Receipt \/ Final \/ Vanished
           \/ Ledger \/ AddSettledTotal \/ SaveDebts \/ Restore \/ Skip
  <2>1. UNCHANGED <<log, cursor, wal, dl>> /\ pc # "planned" /\ pc' # "planned"
    BY <1>2 DEF Boot, SettleBegin, NothingPending, Submit, Receipt, Final, Vanished,
       Ledger, AddSettledTotal, SaveDebts, Restore, Skip, Returned
  <2>2. wal = NoWAL => debts' = debts
    BY <1>2 DEF Boot, SettleBegin, NothingPending, Submit, Receipt, Final, Vanished,
       Ledger, AddSettledTotal, SaveDebts, Restore, Skip, Accounted, ControlOK
  <2>3. pc' \in {"total", "debts", "remove"} <=> pc \in {"total", "debts", "remove"}
    BY <1>2 DEF Boot, SettleBegin, NothingPending, Submit, Receipt, Final, Vanished,
       Ledger, AddSettledTotal, SaveDebts, Restore, Skip, Returned
  <2>4. DeadLetters' = DeadLetters
    BY <2>1 DEF DeadLetters
  <2> QED BY <1>1, <2>1, <2>2, <2>3, <2>4, ReserveFrame
<1>3. CASE Abort
  <2>1. UNCHANGED <<log, cursor, wal, dl, debts>> /\ pc' \in {"restore", "idle"}
        /\ pc \notin {"total", "debts", "remove"}
    BY <1>3 DEF Abort, Failed
  <2>2. pc = "planned" => dl = dlWas
    BY <1>3 DEF Abort, SoundGate, GateSlips, BooksSlips
  <2>3. DeadLetters' = DeadLetters
    BY <2>1, <2>2 DEF DeadLetters
  <2> QED BY <1>1, <2>1, <2>3, ReserveFrame
<1>4. CASE Aggregate
  <2>1. UNCHANGED <<log, cursor, wal, debts>> /\ pc = "peek" /\ pc' = "planned" /\ dlWas' = dl
    BY <1>4 DEF Aggregate
  <2>2. DeadLetters' = DeadLetters
    BY <2>1 DEF DeadLetters
  <2> QED BY <1>1, <2>1, <2>2, ReserveFrame
<1>5. CASE Dedup \/ Confirm
  <2>1. UNCHANGED <<log, cursor, dl, debts>> /\ pc \in {"resume", "confirm"}
        /\ pc' \in {"resume", "ledger"}
    BY <1>5 DEF Dedup, Confirm
  <2>2. /\ Claim(k)' + wal'.debts[k].usd = Claim(k) + wal.debts[k].usd
        /\ wal'.cursor = wal.cursor /\ wal # NoWAL /\ wal' # NoWAL
    BY <1>1, <1>5, ClaimMoves
  <2>3. Claimed(k)' = Claim(k)' /\ Claimed(k) = Claim(k)
    BY <2>1 DEF Claimed
  <2>4. Carried(k)' = wal'.debts[k].usd /\ Carried(k) = wal.debts[k].usd
    BY <2>2 DEF Carried
  <2>5. Passed' = Passed /\ DeadLetters' = DeadLetters
    BY <2>1, <2>2 DEF Passed, DeadLetters
  <2>6. Claimed(k)' + Carried(k)' = Claimed(k) + Carried(k)
    BY <2>2, <2>3, <2>4
  <2> QED BY <2>1, <2>5, <2>6 DEF Reserve
<1>6. CASE RemoveWAL
  <2>1. /\ UNCHANGED <<log, cursor, dl, debts>> /\ pc = "remove" /\ wal' = NoWAL
        /\ pc' \in {"restore", "peek", "idle"}
    BY <1>6 DEF RemoveWAL, Returned, SoundGate, GateSlips
  <2>2. wal # NoWAL /\ cursor = wal.cursor /\ debts = wal.debts
    BY <1>1, <2>1 DEF Accounted, ControlOK
  <2>3. Claimed(k) = 0 /\ Claimed(k)' = 0
    BY <2>1, NoWALHasNoBatch DEF Claimed, Claim
  <2>4. /\ Carried(k)' = Carried(k) /\ Passed' = Passed /\ DeadLetters' = DeadLetters
    BY <2>1, <2>2 DEF Carried, Passed, DeadLetters
  <2> QED BY <2>1, <2>3, <2>4 DEF Reserve
<1>7. CASE WritePending
  <2>1. /\ UNCHANGED <<log, cursor, dl, debts>> /\ pc = "planned" /\ pc' = "resume"
        /\ wal' = plan
    BY <1>7 DEF WritePending
  <2>2. wal = NoWAL /\ plan # NoWAL
    BY <1>1, <2>1 DEF CallersOK, Accounted, ControlOK
  <2>3. Reserve(k) = debts[k].usd + Usage(dlWas, k) + Usage(Once(log \ cursor), k)
    <3>1. Claimed(k) = 0 /\ Carried(k) = debts[k].usd /\ Passed = cursor /\ DeadLetters = dlWas
      BY <2>1, <2>2, NoWALHasNoBatch DEF Claimed, Claim, Carried, Passed, DeadLetters
    <3>2. debts[k].usd \in Nat
      BY DEF Accounted, TypeOK, Debt
    <3> QED BY <3>1, <3>2 DEF Reserve
  <2>4. Reserve(k)' = plan.pay[k] + plan.debts[k].usd + Usage(dl, k)
                          + Usage(Once(log \ plan.cursor), k)
    <3>1. Claimed(k)' = plan.pay[k]
      BY <1>7, <2>1, FreshWAL DEF Claimed
    <3>2. Carried(k)' = plan.debts[k].usd /\ Passed' = plan.cursor /\ DeadLetters' = dl
      BY <2>1, <2>2 DEF Carried, Passed, DeadLetters
    <3> QED BY <2>1, <3>1, <3>2 DEF Reserve
  <2>5. /\ Usage(Once(log \ cursor), k)
               = Usage(Once(plan.cursor \ cursor), k) + Usage(Once(log \ plan.cursor), k)
        /\ Usage(Once(log \ plan.cursor), k) \in Nat
    <3>1. cursor \subseteq plan.cursor /\ plan.cursor \subseteq log /\ log \subseteq Requests
      BY <1>1, <2>1 DEF DrawnUp, Accounted, CursorsOK, TypeOK
    <3> DEFINE A == plan.cursor \ cursor
               B == log \ cursor
    <3>2. /\ A \in SUBSET Requests /\ B \in SUBSET Requests /\ A \subseteq B
          /\ B \ A = log \ plan.cursor
      BY <3>1
    <3> HIDE DEF A, B
    <3>3. /\ Usage(Once(B), k) = Usage(Once(A), k) + Usage(Once(B \ A), k)
          /\ Usage(Once(B \ A), k) \in Nat
      BY <3>2, OnceSplit
    <3> QED BY <3>2, <3>3 DEF A, B
  <2>6. /\ debts[k].usd + Usage(dlWas, k) + Usage(Once(plan.cursor \ cursor), k)
               = plan.pay[k] + plan.debts[k].usd + Usage(dl, k)
        /\ debts[k].usd \in Nat /\ plan.pay[k] \in Nat /\ plan.debts[k].usd \in Nat
        /\ Usage(dl, k) \in Nat /\ Usage(dlWas, k) \in Nat
        /\ Usage(Once(plan.cursor \ cursor), k) \in Nat
    BY <1>1, <2>1, PlanDrawn
  <2> QED BY <2>3, <2>4, <2>5, <2>6
<1>8. CASE \/ \E t \in mempool : Mine(t) \/ Drop(t)
           \/ \E e \in processed : Bury(e) \/ Reorg(e)
           \/ UNCHANGED vars
  <2>1. UNCHANGED <<log, cursor, wal, dl, dlWas, debts, pc>>
    BY <1>8 DEF vars, Mine, Drop, Bury, Reorg, files, memory, ghosts
  <2>2. DeadLetters' = DeadLetters
    BY <2>1 DEF DeadLetters
  <2> QED BY <1>1, <2>1, <2>2, ReserveFrame
<1> QED BY <1>2, <1>3, <1>4, <1>5, <1>6, <1>7, <1>8 DEF Next, Settler, Environment

\* What one value contributes to a sum, and one line to a pair's usage.
LEMMA Column == \A x : \A n \in Nat : Cardinality({x} \X (1 .. n)) = n
<1> SUFFICES ASSUME NEW x, NEW n \in Nat PROVE Cardinality({x} \X (1 .. n)) = n
  OBVIOUS
<1>1. IsFiniteSet({x}) /\ Cardinality({x}) = 1
  BY FS_Singleton
<1>2. IsFiniteSet(1 .. n) /\ Cardinality(1 .. n) = n
  BY FS_Interval
<1>3. Cardinality({x} \X (1 .. n)) = Cardinality({x}) * Cardinality(1 .. n)
  BY <1>1, <1>2, FS_Product
<1> QED BY <1>1, <1>2, <1>3

LEMMA SumOne ==
    ASSUME NEW x, NEW f, f[x] \in Nat
    PROVE  SumOver(f, {x}) = f[x]
<1>1. UNION {{y} \X (1 .. f[y]) : y \in {x}} = {x} \X (1 .. f[x])
  OBVIOUS
<1> QED BY <1>1, Column DEF SumOver

LEMMA UsageOne ==
    ASSUME NEW r \in Requests, NEW k
    PROVE  Usage(Once({r}), k) = IF k = KeyOf(r) THEN CostOf[r] ELSE 0
<1> DEFINE L == {u \in Once({r}) \X (1 .. MaxCost) :
                    KeyOf(u[1][1]) = k /\ u[2] <= CostOf[u[1][1]]}
<1>1. CostOf[r] \in 1 .. MaxCost /\ MaxCost \in Nat
  BY SettlementAssumption
<1>2. Once({r}) = {<<r, 0>>}
  BY DEF Once
<1>3. CASE k = KeyOf(r)
  <2>1. L = {<<r, 0>>} \X (1 .. CostOf[r])
    BY <1>1, <1>2, <1>3
  <2>2. Cardinality({<<r, 0>>} \X (1 .. CostOf[r])) = CostOf[r]
    <3> DEFINE x == <<r, 0>>
               n == CostOf[r]
    <3>1. n \in Nat
      BY <1>1
    <3> HIDE DEF x, n
    <3>2. Cardinality({x} \X (1 .. n)) = n
      BY <3>1, Column
    <3> QED BY <3>2 DEF x, n
  <2> QED BY <1>3, <2>1, <2>2 DEF Usage
<1>4. CASE k # KeyOf(r)
  <2>1. L = {}
    BY <1>2, <1>4
  <2> QED BY <1>4, <2>1, FS_EmptySet DEF Usage
<1> QED BY <1>3, <1>4

\* A request that is served adds its cost to what is to be reserved for its wallet.
LEMMA ReserveServed ==
    ASSUME Accounted, Accounted', ConfirmedOK, [Next]_vars, Sound, NEW r \in Requests, Serve(r),
           NEW w \in Wallets
    PROVE  SumOver([k \in Keys |-> Reserve(k)'], KeysOf(w))
               = SumOver([k \in Keys |-> Reserve(k)], KeysOf(w))
                 + (IF w = WalletOf[r] THEN CostOf[r] ELSE 0)
<1> DEFINE a == [k \in Keys |-> Reserve(k)]
           b == [k \in Keys |-> Reserve(k)']
           d == [k \in Keys |-> IF k = KeyOf(r) THEN CostOf[r] ELSE 0]
           S == KeysOf(w)
<1>1. /\ UNCHANGED <<cursor, dl, dlWas, debts, wal, pc>>
      /\ log' = log \cup {r} /\ r \notin log
  BY DEF Serve
<1>2. CostOf[r] \in Nat /\ KeyOf(r) \in Keys /\ KeyOf(r)[1] = WalletOf[r]
  BY SettlementAssumption DEF KeyOf, Keys
<1>3. \A k \in Keys : a[k] \in Nat /\ d[k] \in Nat /\ b[k] = a[k] + d[k]
  <2> SUFFICES ASSUME NEW k \in Keys
               PROVE  /\ Reserve(k) \in Nat
                      /\ Reserve(k)' = Reserve(k) + (IF k = KeyOf(r) THEN CostOf[r] ELSE 0)
    BY <1>2
  <2>1. /\ Claimed(k)' = Claimed(k) /\ Carried(k)' = Carried(k)
        /\ DeadLetters' = DeadLetters /\ Passed' = Passed
    BY <1>1, ClaimKept DEF Claimed, Carried, DeadLetters, Passed
  <2>2. Usage(Once(log' \ Passed), k) = Usage(Once(log \ Passed), k) + Usage(Once({r}), k)
    <3> DEFINE A == log \ Passed
               B == log' \ Passed
    <3>1. Passed \subseteq log
      BY DEF Accounted, CursorsOK, Passed
    <3>2. /\ A \in SUBSET Requests /\ B \in SUBSET Requests /\ A \subseteq B
          /\ B \ A = {r}
      BY <1>1, <3>1 DEF Accounted, TypeOK
    <3> HIDE DEF A, B
    <3>3. Usage(Once(B), k) = Usage(Once(A), k) + Usage(Once(B \ A), k)
      BY <3>2, OnceSplit
    <3> QED BY <3>2, <3>3 DEF A, B
  <2>3. /\ Claimed(k) \in Nat /\ Carried(k) \in Nat /\ Usage(DeadLetters, k) \in Nat
        /\ Usage(Once(log \ Passed), k) \in Nat /\ Reserve(k) \in Nat
    BY ReserveType
  <2>4. Usage(Once({r}), k) = IF k = KeyOf(r) THEN CostOf[r] ELSE 0
    BY UsageOne
  <2>5. Reserve(k)' = Claimed(k) + Carried(k) + Usage(DeadLetters, k) + Usage(Once(log' \ Passed), k)
    BY <2>1 DEF Reserve
  <2>6. Reserve(k) = Claimed(k) + Carried(k) + Usage(DeadLetters, k) + Usage(Once(log \ Passed), k)
    BY DEF Reserve
  <2> QED BY <1>2, <2>2, <2>3, <2>4, <2>5, <2>6
<1>4. SumOver(d, S) = IF w = WalletOf[r] THEN CostOf[r] ELSE 0
  <2>1. CASE w = WalletOf[r]
    <3>1. /\ {KeyOf(r)} \in SUBSET S /\ \A k \in S \ {KeyOf(r)} : d[k] = 0
          /\ d[KeyOf(r)] = CostOf[r]
      BY <1>2, <2>1 DEF KeysOf
    <3>2. SumOver(d, S) = SumOver(d, {KeyOf(r)})
      <4> HIDE DEF d, S
      <4> QED BY <3>1, SumRestrict
    <3>3. SumOver(d, {KeyOf(r)}) = CostOf[r]
      <4> HIDE DEF d
      <4> QED BY <1>2, <3>1, SumOne
    <3> QED BY <2>1, <3>2, <3>3
  <2>2. CASE w # WalletOf[r]
    <3>1. \A k \in S : d[k] = 0
      BY <1>2, <2>2 DEF KeysOf
    <3> HIDE DEF d, S
    <3> QED BY <2>2, <3>1, SumZero
  <2> QED BY <2>1, <2>2
<1>5. IsFiniteSet(S) /\ S \subseteq Keys
  BY KeysFinite DEF KeysOf
<1> HIDE DEF a, b, d, S
<1>6. IsFiniteSet(S) /\ \A k \in S : a[k] \in Nat /\ d[k] \in Nat /\ b[k] = a[k] + d[k]
  BY <1>3, <1>5
<1>7. SumOver(b, S) = SumOver(a, S) + SumOver(d, S)
  BY <1>6, SumAdds
<1> QED BY <1>4, <1>7 DEF a, b, S

\* reducePendingSpend releases the WAL's claim on each wallet.
LEMMA ReserveReleased ==
    ASSUME Accounted, Accounted', ConfirmedOK, SettledOK, [Next]_vars, Sound, Commit,
           NEW w \in Wallets
    PROVE  /\ SumOver([k \in Keys |-> Reserve(k)], KeysOf(w))
                  = SumOver([k \in Keys |-> Reserve(k)'], KeysOf(w)) + wal.settled[w]
           /\ SumOver([k \in Keys |-> Reserve(k)'], KeysOf(w)) \in Nat
<1> DEFINE a == [k \in Keys |-> Reserve(k)]
           b == [k \in Keys |-> Reserve(k)']
           c == [k \in Keys |-> Claim(k)]
           S == KeysOf(w)
<1>1. /\ UNCHANGED <<log, dl, debts, wal>> /\ wal # NoWAL /\ pc = "resume" /\ pc' = "total"
  BY DEF Commit, Others
<1>2. \A k \in Keys : b[k] \in Nat /\ c[k] \in Nat /\ a[k] = b[k] + c[k]
  <2> SUFFICES ASSUME NEW k \in Keys
               PROVE  Reserve(k)' \in Nat /\ Claim(k) \in Nat /\ Reserve(k) = Reserve(k)' + Claim(k)
    OBVIOUS
  <2>1. Claimed(k) = Claim(k) /\ Claimed(k)' = 0
    BY <1>1 DEF Claimed
  <2>2. Carried(k)' = Carried(k) /\ Passed' = Passed /\ DeadLetters' = DeadLetters
    BY <1>1 DEF Carried, Passed, DeadLetters
  <2>3. /\ Claim(k) \in Nat /\ Carried(k) \in Nat /\ Usage(DeadLetters, k) \in Nat
        /\ Usage(Once(log \ Passed), k) \in Nat
    BY ReserveType
  <2> QED BY <1>1, <2>1, <2>2, <2>3 DEF Reserve
<1>3. wal.settled[w] = SumOver(c, S)
  BY DEF SettledOK
<1>4. IsFiniteSet(S) /\ S \subseteq Keys
  BY KeysFinite DEF KeysOf
<1> HIDE DEF a, b, c, S
<1>5. IsFiniteSet(S) /\ \A k \in S : b[k] \in Nat /\ c[k] \in Nat /\ a[k] = b[k] + c[k]
  BY <1>2, <1>4
<1>6. SumOver(a, S) = SumOver(b, S) + SumOver(c, S)
  BY <1>5, SumAdds
<1>7. SumOver(b, S) \in Nat
  BY <1>5, SumOverType
<1> QED BY <1>3, <1>6, <1>7 DEF a, b, S

\* restorePendingSpend reads from the files what is to be reserved.
LEMMA ReserveRestored ==
    ASSUME Accounted, DrawnFrom, Restore, SoundGate, SoundGate', NEW k \in Keys
    PROVE  Unsettled(k) = Reserve(k)
<1>1. pc = "restore" /\ ~RestoreMisreads
  BY DEF Restore, SoundGate, GateSlips
<1>2. Claimed(k) = Claim(k) /\ DeadLetters = dl
  BY <1>1 DEF Claimed, DeadLetters
<1>3. /\ debts[k].usd \in Nat /\ wal.debts[k].usd \in Nat /\ IsFiniteSet(dl)
      /\ log \in SUBSET Requests /\ cursor \in SUBSET Requests
      /\ wal.cursor \in SUBSET Requests /\ wal.recs \in SUBSET Requests
  BY DEF Accounted, TypeOK, Plan, Debt
<1>4. Usage(dl, k) \in Nat /\ Claim(k) \in Nat
  BY <1>3, UsageType, ClaimType DEF Accounted
<1>5. CASE wal = NoWAL
  <2>1. Claim(k) = 0 /\ Carried(k) = debts[k].usd /\ Passed = cursor
    BY <1>5, NoWALHasNoBatch DEF Claim, Carried, Passed
  <2> QED BY <1>2, <1>3, <2>1 DEF Reserve, Unsettled
<1>6. CASE wal # NoWAL
  <2>1. /\ cursor # wal.cursor /\ \A l \in dl : l[1] \in cursor
        /\ \A r \in wal.recs \cap cursor : <<r, 0>> \in dl
    BY <1>1, <1>6 DEF RestoreMisreads
  <2>2. /\ cursor \subseteq wal.cursor /\ wal.recs \ cursor = wal.cursor \ cursor
        /\ dl \subseteq Once(wal.recs)
        /\ debts[k].usd + Usage(Once(wal.recs), k) = Claim(k) + wal.debts[k].usd + Usage(dl, k)
    BY <1>6, <2>1 DEF DrawnFrom
  <2>3. dl = Once(wal.recs \cap cursor)
    BY <2>1, <2>2 DEF Once
  <2>4. /\ Usage(Once(wal.recs), k) = Usage(dl, k) + Usage(Once(wal.cursor \ cursor), k)
        /\ Usage(Once(wal.cursor \ cursor), k) \in Nat
    <3> DEFINE A == wal.recs \cap cursor
               B == wal.recs
    <3>1. /\ A \in SUBSET Requests /\ B \in SUBSET Requests /\ A \subseteq B
          /\ B \ A = wal.cursor \ cursor
      BY <1>3, <2>2
    <3> HIDE DEF A, B
    <3>2. /\ Usage(Once(B), k) = Usage(Once(A), k) + Usage(Once(B \ A), k)
          /\ Usage(Once(B \ A), k) \in Nat
      BY <3>1, OnceSplit
    <3> QED BY <2>3, <3>1, <3>2 DEF A, B
  <2>5. /\ Usage(Once(log \ cursor), k)
               = Usage(Once(wal.cursor \ cursor), k) + Usage(Once(log \ wal.cursor), k)
        /\ Usage(Once(log \ wal.cursor), k) \in Nat
    <3> DEFINE A == wal.cursor \ cursor
               B == log \ cursor
    <3>1. wal.cursor \subseteq log
      BY DEF Accounted, CursorsOK
    <3>2. /\ A \in SUBSET Requests /\ B \in SUBSET Requests /\ A \subseteq B
          /\ B \ A = log \ wal.cursor
      BY <1>3, <2>2, <3>1
    <3> HIDE DEF A, B
    <3>3. /\ Usage(Once(B), k) = Usage(Once(A), k) + Usage(Once(B \ A), k)
          /\ Usage(Once(B \ A), k) \in Nat
      BY <3>2, OnceSplit
    <3> QED BY <3>2, <3>3 DEF A, B
  <2>6. Carried(k) = wal.debts[k].usd /\ Passed = wal.cursor
    BY <1>6 DEF Carried, Passed
  <2>7. Reserve(k) = Claim(k) + wal.debts[k].usd + Usage(dl, k) + Usage(Once(log \ wal.cursor), k)
    BY <1>2, <2>6 DEF Reserve
  <2>8. Unsettled(k) = debts[k].usd + Usage(dl, k) + Usage(Once(log \ cursor), k)
    BY DEF Unsettled
  <2>9. debts[k].usd + Usage(Once(wal.cursor \ cursor), k) = Claim(k) + wal.debts[k].usd
    BY <1>3, <1>4, <2>2, <2>4
  <2> QED BY <1>3, <1>4, <2>4, <2>5, <2>7, <2>8, <2>9
<1> QED BY <1>5, <1>6

LEMMA ReservedStep ==
    ASSUME Accounted, ConfirmedOK, SettledOK, GateInv, [Next]_vars
    PROVE  ReservedOK'
<1> USE DEF Others, Goto
<1> SUFFICES ASSUME SoundGate', NEW w \in Wallets
             PROVE  pending'[w] = IF pc' = "down" \/ origin' = "boot" THEN 0
                                  ELSE SumOver([k \in Keys |-> Reserve(k)'], KeysOf(w))
  BY DEF ReservedOK, SumOver
<1>1. SoundGate /\ Sound /\ Sound' /\ Accounted'
  BY GateSound, AccountedStep
<1>2. /\ pending \in [Wallets -> Nat]
      /\ pending[w] = IF pc = "down" \/ origin = "boot" THEN 0
                      ELSE SumOver([k \in Keys |-> Reserve(k)], KeysOf(w))
  BY <1>1 DEF Accounted, TypeOK, GateInv, ReservedOK
<1>3. CallersOK /\ DrawnUp /\ DrawnFrom
  BY DEF GateInv
<1>4. CASE Crash
  BY <1>4 DEF Crash
<1>5. ASSUME NEW r \in Requests, Serve(r)
      PROVE  pending'[w] = IF pc' = "down" \/ origin' = "boot" THEN 0
                           ELSE SumOver([k \in Keys |-> Reserve(k)'], KeysOf(w))
  <2>1. UNCHANGED <<pc, origin>> /\ pc # "down" /\ origin # "boot"
    BY <1>5 DEF Serve, SoundGate, GateSlips
  <2>2. pending'[w] = pending[w] + (IF w = WalletOf[r] THEN CostOf[r] ELSE 0)
    <3>1. pending' = [pending EXCEPT ![WalletOf[r]] = @ + CostOf[r]]
      BY <1>5 DEF Serve
    <3> QED BY <1>2, <3>1, SettlementAssumption
  <2>3. SumOver([k \in Keys |-> Reserve(k)'], KeysOf(w))
            = SumOver([k \in Keys |-> Reserve(k)], KeysOf(w))
              + (IF w = WalletOf[r] THEN CostOf[r] ELSE 0)
    BY <1>1, <1>5, ReserveServed
  <2> QED BY <1>2, <2>1, <2>2, <2>3
<1>6. CASE Commit
  <2>1. /\ pending'[w] = Floor(pending[w] - wal.settled[w]) /\ pc = "resume" /\ pc' = "total"
        /\ origin' = origin
    BY <1>6 DEF Commit
  <2>2. wal.settled[w] \in Nat
    BY DEF Accounted, TypeOK, Plan
  <2>3. CASE origin = "boot"
    BY <1>2, <2>1, <2>2, <2>3 DEF Floor
  <2>4. CASE origin # "boot"
    <3>1. /\ SumOver([k \in Keys |-> Reserve(k)], KeysOf(w))
                 = SumOver([k \in Keys |-> Reserve(k)'], KeysOf(w)) + wal.settled[w]
          /\ SumOver([k \in Keys |-> Reserve(k)'], KeysOf(w)) \in Nat
      BY <1>1, <1>6, ReserveReleased
    <3> DEFINE new == SumOver([k \in Keys |-> Reserve(k)'], KeysOf(w))
    <3>2. pending[w] = new + wal.settled[w] /\ new \in Nat
      BY <1>2, <2>1, <2>4, <3>1
    <3> HIDE DEF new
    <3>3. pending'[w] = new
      BY <2>1, <2>2, <3>2 DEF Floor
    <3> QED BY <2>1, <2>4, <3>3 DEF new
  <2> QED BY <2>3, <2>4
<1>7. CASE ~Commit /\ ~Crash /\ \A r \in Requests : ~Serve(r)
  <2>1. \A k \in Keys : Reserve(k)' = Reserve(k)
    BY <1>1, <1>3, <1>7, ReserveKept
  <2>2. [k \in Keys |-> Reserve(k)'] = [k \in Keys |-> Reserve(k)]
    BY <2>1
  <2>3. CASE Restore
    <3>0. "notRestored" \notin slips'
      BY <1>1 DEF SoundGate, GateSlips
    <3>1. /\ pending'[w] = pending[w] + SumOver([k \in Keys |-> Unsettled(k)], KeysOf(w))
          /\ pc = "restore" /\ pc' = "idle" /\ origin' = "none"
      BY <2>3, <3>0 DEF Restore
    <3>2. pending[w] = 0
      BY <1>2, <1>3, <3>1 DEF CallersOK
    <3>3. [k \in Keys |-> Unsettled(k)] = [k \in Keys |-> Reserve(k)']
      BY <1>1, <1>3, <2>1, <2>3, ReserveRestored
    <3>4. SumOver([k \in Keys |-> Reserve(k)'], KeysOf(w)) \in Nat
      <4>1. \A k \in KeysOf(w) : [j \in Keys |-> Reserve(j)'][k] \in Nat
        BY <2>1, ReserveType DEF KeysOf
      <4>2. IsFiniteSet(KeysOf(w))
        BY KeysFinite DEF KeysOf
      <4> QED BY <4>1, <4>2, SumOverType
    <3> QED BY <3>1, <3>2, <3>3, <3>4
  <2>4. CASE ~Restore
    <3>1. /\ pending' = pending
          /\ pc' = "down" \/ origin' = "boot" <=> pc = "down" \/ origin = "boot"
      <4>1. CASE Settler
        BY <1>3, <1>7, <2>4, <4>1 DEF CallersOK, Settler, Boot, SettleBegin, NothingPending,
           Dedup, Submit, Receipt, Final, Vanished, Confirm, Ledger, AddSettledTotal, SaveDebts,
           RemoveWAL, Abort, Skip, Aggregate, WritePending, Returned, Failed
      <4>2. CASE Environment \/ UNCHANGED vars
        BY <1>7, <4>2 DEF vars, memory, Environment, Mine, Drop, Bury, Reorg
      <4> QED BY <4>1, <4>2 DEF Next
    <3> QED BY <1>2, <2>2, <3>1
  <2> QED BY <2>3, <2>4
<1> QED BY <1>4, <1>5, <1>6, <1>7

\* For any number of cycles, crashes and failed calls: whenever the settler waits for its
\* ticker, what BalanceCache reserves for a wallet is the plan in the WAL, the carried
\* debts, the dead letters and the unread lines of its pairs (reducePendingSpend,
\* restorePendingSpend), neither more, which would lock users out, nor less, which would
\* let them overspend.
THEOREM PendingExactAlways == Spec => []PendingExact
<1>1. Init => GateInv
  <2> SUFFICES ASSUME Init PROVE GateInv
    OBVIOUS
  <2>1. /\ pc = "down" /\ origin = "none" /\ wal = NoWAL /\ \A w \in Wallets : pending[w] = 0
    BY DEF Init
  <2> QED BY <2>1 DEF GateInv, CallersOK, DrawnUp, DrawnFrom, ReservedOK
<1>2. Accounted /\ TotalInv /\ GateInv /\ [Next]_vars => GateInv'
  BY CallersStep, DrawnUpStep, DrawnFromStep, ReservedStep DEF GateInv, TotalInv
<1>3. Accounted /\ TotalInv /\ GateInv => PendingExact
  <2> SUFFICES ASSUME Accounted, TotalInv, GateInv, pc = "idle", SoundGate, NEW w \in Wallets
               PROVE  pending[w] = (IF wal # NoWAL THEN wal.settled[w] ELSE 0)
                                   + SumOver([k \in Keys |-> Outstanding(k)], KeysOf(w))
    BY DEF PendingExact, SoundGate
  <2> DEFINE a == [k \in Keys |-> Reserve(k)]
             b == [k \in Keys |-> Outstanding(k)]
             c == [k \in Keys |-> Claim(k)]
             S == KeysOf(w)
  <2>1. Sound /\ origin # "boot"
    BY DEF SoundGate, Sound, GateSlips, GateInv, CallersOK
  <2>2. pending[w] = SumOver(a, S)
    BY <2>1 DEF GateInv, ReservedOK
  <2>3. wal.settled[w] = SumOver(c, S) /\ NoWAL.settled[w] = 0
    BY <2>1, NoWALClaims DEF TotalInv, SettledOK
  <2>4. \A k \in Keys : c[k] \in Nat /\ b[k] \in Nat /\ a[k] = c[k] + b[k]
    <3> SUFFICES ASSUME NEW k \in Keys
                 PROVE  /\ Claim(k) \in Nat /\ Outstanding(k) \in Nat
                        /\ Reserve(k) = Claim(k) + Outstanding(k)
      OBVIOUS
    <3>1. /\ Claim(k) \in Nat /\ Carried(k) \in Nat /\ Usage(DeadLetters, k) \in Nat
          /\ Usage(Once(log \ Passed), k) \in Nat
      BY ReserveType
    <3>2. Claimed(k) = Claim(k) /\ DeadLetters = dl
      BY DEF Claimed, DeadLetters
    <3>3. Outstanding(k) = Carried(k) + Usage(DeadLetters, k) + Usage(Once(log \ Passed), k)
      BY <3>2 DEF Outstanding, Carried, Passed
    <3> QED BY <3>1, <3>2, <3>3 DEF Reserve
  <2>5. IsFiniteSet(S) /\ S \subseteq Keys
    BY KeysFinite DEF KeysOf
  <2> HIDE DEF a, b, c, S
  <2>6. IsFiniteSet(S) /\ \A k \in S : c[k] \in Nat /\ b[k] \in Nat /\ a[k] = c[k] + b[k]
    BY <2>4, <2>5
  <2>7. SumOver(a, S) = SumOver(c, S) + SumOver(b, S)
    BY <2>6, SumAdds
  <2>8. pending[w] = (IF wal # NoWAL THEN wal.settled[w] ELSE 0) + SumOver(b, S)
    BY <2>2, <2>3, <2>7
  <2> QED BY <2>8 DEF b, S
<1> QED BY <1>1, <1>2, <1>3, TotalInvariant, AccountedInvariant, PTL DEF Spec
=============================================================================
