----------------------------- MODULE Settlement -----------------------------
(***************************************************************************)
(* The settlement engine (internal/settlement/settler.go): every settlement *)
(* interval the Settler turns the billable lines of the request log into a  *)
(* plan, freezes the plan in a write-ahead file (the WAL), submits the      *)
(* plan's batches to the contract, waits for their receipts and for         *)
(* finality, and then commits the log cursor, the settled total and the     *)
(* debt ledger and deletes the WAL.  Each file the engine writes is one     *)
(* variable and each write is one action, so that a crash may fall between  *)
(* any two of them.                                                         *)
(*                                                                          *)
(* Data.  Money is counted in units; there is one token, and a request      *)
(* costs CostOf[r] units.  The request log is the set of requests written   *)
(* so far and the cursor is the set of requests it has passed (module       *)
(* docs: how the byte cursor follows the rotated files is another           *)
(* component).  A batch hash is the content the code hashes, so two batches *)
(* have the same hash exactly when the code would give them the same one.   *)
(***************************************************************************)
EXTENDS Integers, FiniteSets

CONSTANTS
    Wallets,            \* user wallets; naturals, their order is the sort order
    SPs,                \* storage providers' payout addresses, likewise
    Workers,            \* inference workers
    Requests,           \* request ids that can be served
    WalletOf, WorkerOf, CostOf,   \* the fields of a request's log record
    SPOf,               \* worker -> payout address (when the mapping is known)
    MayUnmap,           \* workers whose SP mapping can be missing
    MaxBatchSize,       \* cfg.MaxBatchSize
    AwaitFinality,      \* cfg.ConfirmationDepth > 0
    MaxCost,            \* bound on CostOf
    MaxBalance,         \* bound on a wallet's balance in the contract
    MaxCycles,          \* bound on the number of plans
    MaxFaults,          \* bound on crashes, failed reads and writes, reorgs
    FaultKinds          \* which of them may happen

Keys  == Wallets \X SPs                 \* aggregationKey
Lines == Requests \X Nat                \* dead-letter lines: request, copy
Debt  == [usd : Nat, rids : SUBSET Requests]
NoDebt == [usd |-> 0, rids |-> {}]

ASSUME SettlementAssumption ==
    /\ Wallets \subseteq Nat /\ IsFiniteSet(Wallets)
    /\ SPs \subseteq Nat /\ IsFiniteSet(SPs)
    /\ IsFiniteSet(Requests)
    /\ WalletOf \in [Requests -> Wallets]
    /\ WorkerOf \in [Requests -> Workers]
    /\ MaxCost \in Nat
    /\ CostOf \in [Requests -> 1 .. MaxCost]
    /\ SPOf \in [Workers -> SPs]
    /\ MayUnmap \subseteq Workers
    /\ MaxBatchSize \in Nat \ {0}
    /\ AwaitFinality \in BOOLEAN
    /\ MaxBalance \in Nat /\ MaxCycles \in Nat /\ MaxFaults \in Nat
    /\ FaultKinds \subseteq {"crash", "read", "write", "reorg"}

VARIABLES
    \* files of the gateway (they survive a crash)
    log,          \* request log: the requests written so far
    cursor,       \* cursor file: the requests already passed
    dl,           \* settlement-deadletter.jsonl
    debts,        \* settlement-debt.json
    wal,          \* settlement-pending.json, NoWAL when there is none
    total,        \* settled-total file: [usd, last]
    ledger,       \* hashes in settlement-items.jsonl / merkle-batches.jsonl
    cycle,        \* the clock that stamps CreatedAt: number of plans made
    \* memory of the gateway process
    pc,           \* where the settler goroutine is
    origin,       \* which call of resumePending is running
    plan,         \* the plan between writeDeadLetter and writePending
    receipt,      \* the receipt at hand: the keys the contract skipped
    pending,      \* BalanceCache.pendingSpend
    \* the chain (external)
    paid,         \* what each wallet has paid each SP
    processed,    \* executed batches
    mempool,      \* submitted and not yet mined
    \* history
    dlWas,        \* dl before the cycle in progress rewrote it
    slips,        \* steps taken so far that the accounts do not survive
    faults        \* faults spent

files  == <<log, cursor, dl, debts, wal, total, ledger, cycle>>
memory == <<pc, origin, plan, receipt, pending>>
chain  == <<paid, processed, mempool>>
ghosts == <<dlWas, slips, faults>>
vars   == <<files, memory, chain, ghosts>>

-----------------------------------------------------------------------------
(* Sums.  They are written as cardinalities of sets of units, so that the    *)
(* library's theorems about finite sets apply to them.                       *)

\* The sum of f over S.
SumOver(f, S) == Cardinality(UNION {{x} \X (1 .. f[x]) : x \in S})

\* aggregationKey of a record: its wallet and the payout address of its worker.
KeyOf(r) == <<WalletOf[r], SPOf[WorkerOf[r]]>>

\* What the lines in L cost the pair k (recordCostUSD, summed by the caller).
Usage(L, k) ==
    Cardinality({u \in L \X (1 .. MaxCost) :
                    /\ KeyOf(u[1][1]) = k
                    /\ u[2] <= CostOf[u[1][1]]})

\* The lines of requests that are each written once.
Once(S) == S \X {0}

\* The keys of wallet w, and those that the code's sort puts before k.
KeysOf(w)    == {k \in Keys : k[1] = w}
Before(j, k) == j[1] < k[1] \/ (j[1] = k[1] /\ j[2] < k[2])

AtMost(a, b) == IF a < b THEN a ELSE b
NoFloor(a)   == a
Floor(a)     == IF a < 0 THEN 0 ELSE a

-----------------------------------------------------------------------------
(* The plan: pendingSettlement.  Here and below, an operator whose name says   *)
(* what it forgets (NoFloor, NotReversed, ...) is a defective variant of the   *)
(* one after it: nothing uses it but the mutants of PROJECT.json.              *)

Plan == [id      : Nat,                        \* CreatedAt
         cursor  : SUBSET Requests,            \* CursorToCommit
         pay     : [Keys -> Nat],              \* items: AmountUSD, 0 = no item
         rids    : [Keys -> SUBSET Requests],  \* items: RequestIDs
         recs    : SUBSET Requests,            \* leaves that embed their record
         settled : [Wallets -> Nat],           \* SettledUSD
         debts   : [Keys -> Debt],             \* RemainingDebts
         done    : Nat]                        \* how many batches are Confirmed

NoWAL == [id |-> 0, cursor |-> {}, pay |-> [k \in Keys |-> 0],
          rids |-> [k \in Keys |-> {}], recs |-> {},
          settled |-> [w \in Wallets |-> 0],
          debts |-> [k \in Keys |-> NoDebt], done |-> 0]

\* The items of a plan, or of a batch.
Items(p) == {k \in Keys : p.pay[k] > 0}

\* splitBatches: the sorted items in chunks of MaxBatchSize.
BatchNo(p, k)    == Cardinality({j \in Items(p) : Before(j, k)}) \div MaxBatchSize + 1
BatchNos(p)      == {BatchNo(p, k) : k \in Items(p)}
BatchKeys(p, b)  == {k \in Items(p) : BatchNo(p, k) = b}

\* CombinedDetailsHash(BatchHash, MerkleRoot): the amounts, the set of request
\* ids, and which leaves are receipt leaves rather than debt leaves.
DetailsHash(p, b) ==
    LET ids == UNION {p.rids[k] : k \in BatchKeys(p, b)} IN
    [pay  |-> [k \in Keys |-> IF k \in BatchKeys(p, b) THEN p.pay[k] ELSE 0],
     rids |-> ids,
     recs |-> ids \cap p.recs]

\* The batches are confirmed in order: those that are left, the one to do next and
\* the one confirmed last.
UnconfirmedButLast(p) == {b \in BatchNos(p) : b > p.done /\ b = 1}
Unconfirmed(p)   == {b \in BatchNos(p) : b > p.done}
Current(p)       == p.done + 1
LatestOffByOne(p) == p.done + 1
Latest(p)        == p.done

\* The line a record of the log yields when it is read while the dead-letter
\* file may already hold copies of it.
FreshLine(r) == <<r, Cardinality({l \in dl : l[1] = r})>>

\* records = deadLettered ++ Peek(), and those whose worker is in U, the workers
\* without an SP mapping.
InputIgnoringCursor == dl \cup {FreshLine(r) : r \in log}
Input         == dl \cup {FreshLine(r) : r \in log \ cursor}
Unresolved(U) == {l \in Input : WorkerOf[l[1]] \in U}
ResolvedDropsDeadLetters(U) == (Input \ dl) \ Unresolved(U)
Resolved(U)   == Input \ Unresolved(U)

\* What a pair owes in this cycle, and for which requests: its new lines and its
\* carried debt.
Owed(U, k)     == debts[k].usd + Usage(Resolved(U), k)
OwedRids(U, k) == debts[k].rids \cup {l[1] : l \in {x \in Resolved(U) : KeyOf(x[1]) = k}}

\* allocate over the wallet's keys in order, against the one balance seen[w].
Allocated(U, seen, k) ==
    LET earlier == {j \in KeysOf(k[1]) : Before(j, k)}
        left    == Floor(seen[k[1]] - SumOver([j \in earlier |-> Owed(U, j)], earlier))
    IN  AtMost(Owed(U, k), left)

\* AggregateWithDebts and buildPending.
NewPlan(U, seen) ==
    LET pay == [k \in Keys |-> Allocated(U, seen, k)] IN
    [id      |-> cycle + 1,
     cursor  |-> log,
     pay     |-> pay,
     rids    |-> [k \in Keys |-> OwedRids(U, k)],
     recs    |-> {l[1] : l \in Input},
     settled |-> [w \in Wallets |-> SumOver(pay, KeysOf(w))],
     debts   |-> [k \in Keys |->
                    IF pay[k] < Owed(U, k)
                    THEN [usd |-> Owed(U, k) - pay[k], rids |-> OwedRids(U, k)]
                    ELSE NoDebt],
     done    |-> 0]

\* reverseFailedItems: the skipped items leave SettledUSD and join RemainingDebts.
LessFailed(p, failed) ==
    [w \in Wallets |-> Floor(p.settled[w] - SumOver(p.pay, failed \cap KeysOf(w)))]
PlusFailed(p, failed) ==
    [k \in Keys |-> IF k \in failed
                    THEN [usd  |-> p.debts[k].usd + p.pay[k],
                          rids |-> p.debts[k].rids \cup p.rids[k]]
                    ELSE p.debts[k]]
NotReversed(p, failed)  == p
ReversedDebts(p, failed) == [p EXCEPT !.debts = PlusFailed(p, failed)]
Reversed(p, failed) ==
    [p EXCEPT !.settled = LessFailed(p, failed), !.debts = PlusFailed(p, failed)]

-----------------------------------------------------------------------------
(* The chain: modelled from the calls of contract.go and its event decoding. *)

\* processedBatches: the executed batch with hash h, if there is one.
On(h) == {e \in processed : e.hash = h}

\* Balances a wallet may hold.  Users deposit and claim refunds between any two
\* steps, so what the balance cache last read and what the contract finds when
\* it executes a batch are two independent values.
Balances == [Wallets -> 0 .. MaxBalance]

\* F are the items the contract skips when the wallets hold held: those whose
\* wallet has too little left once the items before them are paid.
Skipped(h, held, F) ==
    \A k \in Items(h) :
        LET ahead == {j \in Items(h) \ F : j[1] = k[1] /\ Before(j, k)}
        IN  k \in F <=> h.pay[k] > held[k[1]] - SumOver(h.pay, ahead)

\* executeBatch: a processed hash reverts, everything else runs item by item.
Mine(t) ==
    /\ t \in mempool
    /\ mempool' = mempool \ {t}
    /\ \/ /\ On(t.hash) # {}
          /\ UNCHANGED <<paid, processed>>
       \/ /\ On(t.hash) = {}
          /\ \E held \in Balances, F \in SUBSET Items(t.hash) :
                /\ Skipped(t.hash, held, F)
                /\ paid' = [k \in Keys |-> IF k \in Items(t.hash) \ F
                                          THEN paid[k] + t.hash.pay[k] ELSE paid[k]]
                /\ processed' = processed \cup
                     {[hash |-> t.hash, id |-> t.id, failed |-> F, deep |-> FALSE]}
    /\ UNCHANGED <<files, memory, ghosts>>

\* A stuck transaction leaves the mempool without being mined.
Drop(t) ==
    /\ t \in mempool
    /\ mempool' = mempool \ {t}
    /\ UNCHANGED <<files, memory, ghosts, paid, processed>>

\* The block of e is buried under confirmation_depth blocks.
Bury(e) ==
    /\ e \in processed /\ ~e.deep
    /\ processed' = (processed \ {e}) \cup {[e EXCEPT !.deep = TRUE]}
    /\ UNCHANGED <<files, memory, ghosts, paid, mempool>>

\* A reorganisation takes the block of e away; its transaction is pending again.
Reorg(e) ==
    /\ e \in processed /\ ~e.deep
    /\ "reorg" \in FaultKinds /\ faults < MaxFaults
    /\ faults' = faults + 1
    /\ processed' = processed \ {e}
    /\ mempool' = mempool \cup {[hash |-> e.hash, id |-> e.id]}
    /\ paid' = [k \in Keys |-> IF k \in Items(e.hash) \ e.failed
                              THEN paid[k] - e.hash.pay[k] ELSE paid[k]]
    /\ UNCHANGED <<files, memory, dlWas, slips>>

-----------------------------------------------------------------------------
(* The rest of the gateway process, as far as the settler depends on it.     *)

\* A request is served: its record is logged and its cost stays reserved.
Serve(r) ==
    /\ pc # "down" /\ r \notin log
    /\ log' = log \cup {r}
    /\ pending' = [pending EXCEPT ![WalletOf[r]] = @ + CostOf[r]]
    /\ slips' = IF origin = "boot" THEN slips \cup {"servedBeforeRestore"} ELSE slips
    /\ UNCHANGED <<cursor, dl, debts, wal, total, ledger, cycle, pc, origin, plan,
                   receipt, chain, dlWas, faults>>

-----------------------------------------------------------------------------
(* Settle and resumePending.                                                 *)

\* Where a call of resumePending returns to, without and with an error: Start
\* goes on to restorePendingSpend either way, Settle goes on only after success.
ReturnedEarly == IF origin = "boot" THEN "restore" ELSE "idle"
Returned == CASE origin = "boot" -> "restore" [] origin = "settle" -> "peek" [] OTHER -> "idle"
Failed   == IF origin = "boot" THEN "restore" ELSE "idle"
Goto(p)  == pc' = p /\ origin' = (IF p = "idle" THEN "none" ELSE origin)

\* What the settler goroutine leaves alone unless an action says otherwise.
Others == <<log, paid, processed>>

\* A file write that the code only logs when it fails.
WriteFails == "write" \in FaultKinds /\ faults < MaxFaults /\ faults' = faults + 1

\* The process starts: Start locks the settler and calls resumePending.
Boot ==
    /\ pc = "down"
    /\ pc' = "resume" /\ origin' = "boot"
    /\ UNCHANGED <<Others, cursor, dl, debts, wal, total, ledger, cycle, plan,
                   receipt, pending, mempool, ghosts>>

SettleBeginNoResume ==
    /\ pc = "idle"
    /\ pc' = "peek" /\ origin' = "settle"
    /\ UNCHANGED <<Others, cursor, dl, debts, wal, total, ledger, cycle, plan,
                   receipt, pending, mempool, ghosts>>

\* The ticker or TriggerNow: Settle first finishes an interrupted settlement.
SettleBegin ==
    /\ pc = "idle"
    /\ pc' = "resume" /\ origin' = "settle"
    /\ UNCHANGED <<Others, cursor, dl, debts, wal, total, ledger, cycle, plan,
                   receipt, pending, mempool, ghosts>>

\* resumePending finds no WAL.
NothingPending ==
    /\ pc = "resume" /\ wal = NoWAL
    /\ Goto(Returned)
    /\ UNCHANGED <<Others, cursor, dl, debts, wal, total, ledger, cycle, plan,
                   receipt, pending, mempool, ghosts>>

\* IsProcessedBatch answers true: the batch is confirmed as it stands in the WAL.
Dedup ==
    /\ pc = "resume" /\ Unconfirmed(wal) # {}
    /\ \E e \in On(DetailsHash(wal, Current(wal))) :
          slips' = slips
            \cup (IF e.id = wal.id THEN {} ELSE {"hashCollision"})
            \cup (IF e.failed = {} THEN {} ELSE {"blindDedup"})
            \cup (IF e.deep THEN {} ELSE {"shallowFinal"})
            \cup (IF e.hash \in ledger THEN {} ELSE {"notLedgered"})
    /\ wal' = [wal EXCEPT !.done = Current(wal)]
    /\ UNCHANGED <<Others, cursor, dl, debts, total, ledger, cycle, pc, origin, plan,
                   receipt, pending, mempool, dlWas, faults>>

\* SubmitSettlement: IsProcessedBatch was false or could not be read.
Submit ==
    /\ pc = "resume" /\ Unconfirmed(wal) # {}
    /\ mempool' = mempool \cup {[hash |-> DetailsHash(wal, Current(wal)), id |-> wal.id]}
    /\ pc' = "receipt"
    /\ UNCHANGED <<Others, cursor, dl, debts, wal, total, ledger, cycle, origin, plan,
                   receipt, pending, ghosts>>

\* WaitForReceipt returns the receipt of this plan's batch.
Receipt ==
    /\ pc = "receipt"
    /\ \E e \in On(DetailsHash(wal, Current(wal))) :
          e.id = wal.id /\ receipt' = e.failed
    /\ pc' = IF AwaitFinality THEN "finality" ELSE "confirm"
    /\ UNCHANGED <<Others, cursor, dl, debts, wal, total, ledger, cycle, origin, plan,
                   pending, mempool, ghosts>>

\* WaitForFinality: buried deep enough, and the receipt is read again.
Final ==
    /\ pc = "finality"
    /\ \E e \in On(DetailsHash(wal, Current(wal))) :
          e.id = wal.id /\ e.deep /\ receipt' = e.failed
    /\ pc' = "confirm"
    /\ UNCHANGED <<Others, cursor, dl, debts, wal, total, ledger, cycle, origin, plan,
                   pending, mempool, ghosts>>

\* WaitForFinality reports ErrReorged but IsProcessedBatch answers true: the
\* batch is taken as final, with the receipt read before.
Vanished ==
    /\ pc = "finality"
    /\ On(DetailsHash(wal, Current(wal))) # {}
    /\ pc' = "confirm"
    /\ UNCHANGED <<Others, cursor, dl, debts, wal, total, ledger, cycle, origin, plan,
                   receipt, pending, mempool, ghosts>>

\* reverseFailedItems, Confirmed = true, and the WAL is rewritten.
Confirm ==
    /\ pc = "confirm"
    /\ wal' = [Reversed(wal, receipt) EXCEPT !.done = Current(wal)]
    /\ slips' = IF \E e \in On(DetailsHash(wal, Current(wal))) :
                      e.id = wal.id /\ e.deep /\ e.failed = receipt
                THEN slips ELSE slips \cup {"shallowFinal"}
    /\ receipt' = {}
    /\ pc' = "ledger"
    /\ UNCHANGED <<Others, cursor, dl, debts, total, ledger, cycle, origin, plan,
                   pending, mempool, dlWas, faults>>

\* logSettlement, appendItemsLedger and appendMerkleLedger for the batch just
\* confirmed; a repeated hash is not written twice, a failure is logged.
Ledger ==
    /\ pc = "ledger"
    /\ pc' = "resume"
    /\ \/ ledger' = ledger \cup {DetailsHash(wal, Latest(wal))} /\ UNCHANGED <<slips, faults>>
       \/ /\ WriteFails
          /\ slips' = IF DetailsHash(wal, Latest(wal)) \in ledger THEN slips
                      ELSE slips \cup {"notLedgered"}
          /\ UNCHANGED ledger
    /\ UNCHANGED <<Others, cursor, dl, debts, wal, total, cycle, origin, plan,
                   receipt, pending, mempool, dlWas>>

\* Every batch is confirmed: CommitCursor, then reducePendingSpend.
Commit ==
    /\ pc = "resume" /\ wal # NoWAL /\ Unconfirmed(wal) = {}
    /\ cursor' = wal.cursor
    /\ pending' = [w \in Wallets |-> Floor(pending[w] - wal.settled[w])]
    /\ pc' = "total"
    /\ UNCHANGED <<Others, dl, debts, wal, total, ledger, cycle, origin, plan,
                   receipt, mempool, ghosts>>

\* addSettledTotal: once per WAL, keyed by CreatedAt.
AddedAlways(t, p) == [usd |-> t.usd + SumOver(p.settled, Wallets), last |-> p.id]
Added(t, p) ==
    IF t.last = p.id THEN t
    ELSE [usd |-> t.usd + SumOver(p.settled, Wallets), last |-> p.id]

AddSettledTotal ==
    /\ pc = "total"
    /\ pc' = "debts"
    /\ \/ total' = Added(total, wal) /\ UNCHANGED <<slips, faults>>
       \/ /\ WriteFails
          /\ slips' = IF total.last = wal.id THEN slips ELSE slips \cup {"totalNotSaved"}
          /\ UNCHANGED total
    /\ UNCHANGED <<Others, cursor, dl, debts, wal, ledger, cycle, origin, plan,
                   receipt, pending, mempool, dlWas>>

\* saveDebts: a failure is logged and the settlement goes on.
SaveDebts ==
    /\ pc = "debts"
    /\ pc' = "remove"
    /\ \/ debts' = wal.debts /\ UNCHANGED <<slips, faults>>
       \/ /\ WriteFails
          /\ slips' = IF debts = wal.debts THEN slips ELSE slips \cup {"debtsNotSaved"}
          /\ UNCHANGED debts
    /\ UNCHANGED <<Others, cursor, dl, wal, total, ledger, cycle, origin, plan,
                   receipt, pending, mempool, dlWas>>

\* The WAL is deleted (a failure is logged), ForceRefresh, return.
RemoveWAL ==
    /\ pc = "remove"
    /\ \/ wal' = NoWAL /\ UNCHANGED <<slips, faults>>
       \/ /\ WriteFails
          /\ slips' = slips \cup {"walNotRemoved"}
          /\ UNCHANGED wal
    /\ Goto(Returned)
    /\ UNCHANGED <<Others, cursor, dl, debts, total, ledger, cycle, plan,
                   receipt, pending, mempool, dlWas>>

\* An error return of resumePending or of Settle: an RPC call failed or timed
\* out, the transaction reverted, or the WAL or the cursor could not be written.
Abort ==
    /\ \/ pc = "resume" /\ wal # NoWAL
       \/ pc \in {"receipt", "finality", "confirm", "planned"}
    /\ Goto(Failed)
    /\ receipt' = {} /\ plan' = NoWAL /\ dlWas' = {}
    /\ slips' = IF pc = "planned" /\ dl # dlWas THEN slips \cup {"tornDeadLetter"} ELSE slips
    /\ UNCHANGED <<Others, cursor, dl, debts, wal, total, ledger, cycle,
                   pending, mempool, faults>>

\* The files do not add up to what is owed when an unfinished WAL has already
\* moved the cursor or resolved dead letters, or left new lines both in the log
\* and in the dead-letter file.
RestoreMisreads ==
    /\ wal # NoWAL
    /\ \/ cursor = wal.cursor
       \/ \E l \in dl : l[1] \notin cursor
       \/ \E r \in wal.recs \cap cursor : <<r, 0>> \notin dl

\* The carried debt, the dead letters and the unread lines of a pair.
UnsettledNoDebts(k) == Usage(dl, k) + Usage(Once(log \ cursor), k)
UnsettledNoDeadLetters(k) == debts[k].usd + Usage(Once(log \ cursor), k)
Unsettled(k) == debts[k].usd + Usage(dl, k) + Usage(Once(log \ cursor), k)

\* restorePendingSpend, after which the settler waits for its ticker.  When the
\* scan of the log fails, the unread lines stay out of the reserve.
Restore ==
    /\ pc = "restore"
    /\ \/ /\ pending' = [w \in Wallets |->
               pending[w] + SumOver([k \in Keys |-> Unsettled(k)], KeysOf(w))]
          /\ slips' = IF RestoreMisreads THEN slips \cup {"restoreOverWAL"} ELSE slips
          /\ UNCHANGED faults
       \/ /\ "read" \in FaultKinds /\ faults < MaxFaults /\ faults' = faults + 1
          /\ pending' = [w \in Wallets |->
               pending[w] + SumOver([k \in Keys |-> debts[k].usd + Usage(dl, k)], KeysOf(w))]
          /\ slips' = slips \cup {"notRestored"}
    /\ Goto("idle")
    /\ UNCHANGED <<Others, cursor, dl, debts, wal, total, ledger, cycle, plan,
                   receipt, mempool, dlWas>>

\* The cycle ends here: the scan failed, there is nothing to settle, or the FIL
\* price is stale (which it may be in any cycle).
Skip ==
    /\ pc = "peek"
    /\ Goto("idle")
    /\ UNCHANGED <<Others, cursor, dl, debts, wal, total, ledger, cycle, plan,
                   receipt, pending, mempool, ghosts>>

\* Peek, AggregateWithDebts, and the dead-letter file is replaced.
Aggregate ==
    /\ pc = "peek"
    /\ log # cursor \/ dl # {} \/ \E k \in Keys : debts[k].usd > 0
    /\ cycle < MaxCycles
    /\ cycle' = cycle + 1
    /\ dlWas' = dl
    /\ \E U \in SUBSET MayUnmap, seen \in Balances :
          /\ plan' = NewPlan(U, seen)
          /\ \/ dl' = Unresolved(U) /\ UNCHANGED <<slips, faults>>
             \/ /\ WriteFails
                /\ slips' = IF dl = Unresolved(U) THEN slips
                            ELSE slips \cup {"deadLetterNotSaved"}
                /\ UNCHANGED dl
    /\ pc' = "planned"
    /\ UNCHANGED <<Others, cursor, debts, wal, total, ledger, origin,
                   receipt, pending, mempool>>

\* writePending: the plan becomes the WAL, and resumePending executes it.
WritePending ==
    /\ pc = "planned"
    /\ wal' = plan
    /\ plan' = NoWAL /\ dlWas' = {}
    /\ pc' = "resume" /\ origin' = "exec"
    /\ UNCHANGED <<Others, cursor, dl, debts, total, ledger, cycle,
                   receipt, pending, mempool, slips, faults>>

\* The process dies; its memory is lost and its files stay.
Crash ==
    /\ pc # "down"
    /\ "crash" \in FaultKinds /\ faults < MaxFaults
    /\ faults' = faults + 1
    /\ pc' = "down" /\ origin' = "none"
    /\ plan' = NoWAL /\ receipt' = {} /\ dlWas' = {}
    /\ pending' = [w \in Wallets |-> 0]
    /\ slips' = slips
         \cup (IF pc = "planned" /\ dl # dlWas THEN {"tornDeadLetter"} ELSE {})
         \cup (IF pc = "ledger" THEN {"notLedgered"} ELSE {})
    /\ UNCHANGED <<Others, cursor, dl, debts, wal, total, ledger, cycle, mempool>>

-----------------------------------------------------------------------------
Init ==
    /\ log = {} /\ cursor = {} /\ dl = {} /\ wal = NoWAL /\ ledger = {} /\ cycle = 0
    /\ debts = [k \in Keys |-> NoDebt]
    /\ total = [usd |-> 0, last |-> 0]
    /\ pc = "down" /\ origin = "none" /\ plan = NoWAL /\ receipt = {}
    /\ pending = [w \in Wallets |-> 0]
    /\ paid = [k \in Keys |-> 0]
    /\ processed = {} /\ mempool = {}
    /\ dlWas = {} /\ slips = {} /\ faults = 0

Settler ==
    \/ Boot \/ SettleBegin \/ NothingPending \/ Dedup \/ Submit \/ Receipt
    \/ Final \/ Vanished \/ Confirm \/ Ledger \/ Commit \/ AddSettledTotal
    \/ SaveDebts \/ RemoveWAL \/ Abort \/ Restore \/ Skip \/ Aggregate \/ WritePending

Environment ==
    \/ \E t \in mempool : Mine(t) \/ Drop(t)
    \/ \E e \in processed : Bury(e) \/ Reorg(e)
    \/ \E r \in Requests : Serve(r)
    \/ Crash

Next == Settler \/ Environment

Spec == Init /\ [][Next]_vars

\* Fairness.  The goroutine runs and its ticker fires; a call that is tried again
\* and again (each cycle retries what the last one gave up) does not fail for
\* ever, every wait has a time limit, the price does not stay stale for ever, the
\* chain does not lose every resubmission, and blocks get buried.
Steady == Boot \/ SettleBegin \/ NothingPending \/ Restore \/ Ledger
          \/ AddSettledTotal \/ SaveDebts \/ RemoveWAL

FairSpec ==
    /\ Spec
    /\ WF_vars(Steady) /\ WF_vars(Abort)
    /\ SF_vars(Dedup \/ Confirm \/ Commit) /\ SF_vars(Submit) /\ SF_vars(Aggregate)
    /\ SF_vars(\E t \in mempool : Mine(t))
    /\ WF_vars(\E e \in processed : Bury(e))
-----------------------------------------------------------------------------
(* Properties.                                                               *)

Pcs     == {"down", "resume", "receipt", "finality", "confirm", "ledger", "total",
            "debts", "remove", "restore", "idle", "peek", "planned"}
Origins == {"none", "boot", "settle", "exec"}
Slips   == {"tornDeadLetter", "deadLetterNotSaved", "debtsNotSaved", "totalNotSaved",
            "hashCollision", "blindDedup", "shallowFinal", "notLedgered",
            "walNotRemoved", "servedBeforeRestore", "restoreOverWAL", "notRestored"}
Hashes  == [pay : [Keys -> Nat], rids : SUBSET Requests, recs : SUBSET Requests]
Txs     == [hash : Hashes, id : Nat]
Entries == [hash : Hashes, id : Nat, failed : SUBSET Keys, deep : BOOLEAN]

\* Every variable keeps the type of the file, field or chain state it stands for.
TypeOK ==
    /\ log \subseteq Requests /\ cursor \subseteq Requests
    /\ dl \subseteq Lines /\ dlWas \subseteq Lines
    /\ IsFiniteSet(dl) /\ IsFiniteSet(dlWas)
    /\ debts \in [Keys -> Debt]
    /\ wal \in Plan /\ plan \in Plan
    /\ total \in [usd : Nat, last : Nat]
    /\ ledger \subseteq Hashes
    /\ cycle \in Nat /\ faults \in Nat
    /\ pc \in Pcs /\ origin \in Origins
    /\ receipt \subseteq Keys
    /\ pending \in [Wallets -> Nat]
    /\ paid \in [Keys -> Int]
    /\ processed \subseteq Entries /\ mempool \subseteq Txs
    /\ slips \subseteq Slips

\* The steps that the accounts of the pairs do not survive.  Each is a step the
\* code can take; the runs that drop one from this list show what it costs.
BooksSlips == {"tornDeadLetter", "deadLetterNotSaved", "debtsNotSaved",
               "hashCollision", "blindDedup", "shallowFinal"}

\* Everything that pair k used up to the cursor has been paid on the chain, is
\* carried as debt, or is parked in the dead-letter file: nothing twice, nothing
\* lost.
Balanced ==
    \A k \in Keys : paid[k] + debts[k].usd + Usage(dl, k) = Usage(Once(cursor), k)

\* Between settlements the books balance, whatever crashed, failed or timed out,
\* as long as none of the steps in BooksSlips was taken.
BooksBalance ==
    wal = NoWAL /\ pc # "planned" /\ slips \cap BooksSlips = {} => Balanced

\* At every moment, in the middle of a settlement too, no pair has paid for more
\* than was served to it.
Undercharged == \A k \in Keys : paid[k] <= Usage(Once(log), k)
NoOvercharge == slips \cap BooksSlips = {} => Undercharged

\* The settled total that reconciliation trusts is what the chain moved, however
\* often the WAL was replayed.
TotalMatchesChain ==
    wal = NoWAL /\ pc # "planned" /\ slips \cap (BooksSlips \cup {"totalNotSaved"}) = {}
        => total.usd = SumOver(paid, Keys)

\* Whenever the settler waits for its next cycle, what is reserved for a wallet
\* is what it still owes: the plan in the WAL if there is one, its debts, its
\* dead letters and its unread log lines.
Outstanding(k) ==
    LET open == wal # NoWAL IN
      (IF open THEN wal.debts[k].usd ELSE debts[k].usd)
    + Usage(dl, k)
    + Usage(Once(log \ (IF open THEN wal.cursor ELSE cursor)), k)

GateSlips == BooksSlips \cup {"walNotRemoved", "servedBeforeRestore", "restoreOverWAL",
                              "notRestored"}

PendingExact ==
    pc = "idle" /\ slips \cap GateSlips = {} =>
        \A w \in Wallets :
            pending[w] = (IF wal # NoWAL THEN wal.settled[w] ELSE 0)
                         + SumOver([k \in Keys |-> Outstanding(k)], KeysOf(w))

\* Every batch of a finished settlement can be proved to its users: it is in the
\* ledgers that serve receipts.
EveryBatchLedgered ==
    slips \cap {"notLedgered", "hashCollision", "shallowFinal"} = {} =>
        \A e \in processed : e.id = wal.id \/ e.hash \in ledger

\* The cursor moves only when each batch of the plan stands on the chain.
CursorAfterChain ==
    [][cursor' # cursor /\ slips \cap {"shallowFinal"} = {} =>
         \A b \in BatchNos(wal) : On(DetailsHash(wal, b)) # {}]_vars

\* An interrupted settlement is always finished: the WAL is gone again some time
\* after it was written, through crashes, reorgs and failed calls.
WALDrains == wal # NoWAL ~> wal = NoWAL

\* Every request that was served is settled, carried as debt or parked some time
\* later (until the bound on the number of plans is reached).
EveryRequestPassed ==
    \A r \in Requests : r \in log ~> (r \in cursor \/ cycle = MaxCycles)

=============================================================================
