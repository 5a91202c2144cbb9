--------------------------- MODULE ContractClient ---------------------------
(***************************************************************************)
(* The contract client (internal/settlement/contract.go) as resumePending  *)
(* uses it (settler.go:372-441): nonces and gas prices of submissions and  *)
(* their replacement, the wait for a receipt and for finality, and the     *)
(* rotation between RPC endpoints, against a chain with a pool, blocks,    *)
(* reorganisations and nodes that answer from an older head.               *)
(*                                                                          *)
(* The chain, its pool and its nodes are external: a node answers from the *)
(* chain or from a prefix of it; the contract executes a batch once and    *)
(* reverts the transaction that repeats it.                                *)
(***************************************************************************)
EXTENDS Integers, Sequences, FiniteSets, SequencesExt

CONSTANTS
    NumBatches,         \* batches of the WAL, submitted in order
    NumEndpoints,       \* len(c.endpoints)
    Confirmations,      \* confirmation_depth
    MaxNotFoundStreak,  \* maxNotFoundStreak
    BaseFee, HighFee,   \* the gas price a transaction needs, before and after a rise
    PoolLimit,          \* transactions of one account that a node keeps
    MaxPrice,           \* bound on gas prices: they stop growing there
    MaxFaults           \* bound on faults

ASSUME ContractAssumption ==
    /\ NumBatches \in Nat \ {0} /\ NumEndpoints \in Nat \ {0}
    /\ Confirmations \in Nat \ {0} /\ MaxNotFoundStreak \in Nat \ {0}
    /\ BaseFee \in Nat \ {0} /\ HighFee \in Nat /\ HighFee >= BaseFee
    /\ PoolLimit \in Nat \ {0} /\ MaxPrice \in Nat /\ MaxFaults \in Nat

Nothing   == -1                     \* nil: no nonce is tracked
NoTx      == [nonce |-> Nothing, batch |-> 0, price |-> 0]
Endpoints == 0 .. NumEndpoints - 1

VARIABLES
    blocks,     \* the chain: the transaction of each block, or NoTx
    pool,       \* transactions waiting to be mined
    fee,        \* what a transaction must pay to be mined
    top,        \* history: the greatest height so far
    up,         \* the endpoints that answer
    counts,     \* PendingNonceAt counts the transactions of the pool
    active,     \* c.activeIdx
    lastNonce, lastGasPrice,
    pc,         \* where resumePending is
    tx,         \* the transaction it has sent
    waitOn,     \* the client WaitMined was given; Nothing once it is closed
    seen,       \* the block of the receipt that the last poll fetched
    streak,     \* notFoundStreak
    confirmed,  \* how each batch was confirmed: no, final or effect
    slips,      \* history: circumstances the promises do not cover
    faults

chainVars == <<blocks, pool, fee, top>>
nodes     == <<up, counts, active>>
tracked   == <<lastNonce, lastGasPrice>>
wait      == <<tx, waitOn, seen, streak>>
vars      == <<chainVars, nodes, tracked, pc, wait, confirmed, slips, faults>>

Fault == faults < MaxFaults /\ faults' = faults + 1

\* The first batch that is not confirmed; the cycle is over when there is none.
Current ==
    IF \A b \in DOMAIN confirmed : confirmed[b] # "no" THEN 0
    ELSE CHOOSE b \in DOMAIN confirmed :
            confirmed[b] = "no" /\ \A c \in 1 .. b - 1 : confirmed[c] # "no"

-----------------------------------------------------------------------------
(* What a node answers *)

\* The whole chain or, at the cost of a fault, the chain without its last block.
Views == {Len(blocks)} \cup (IF faults < MaxFaults /\ blocks # << >> THEN {Len(blocks) - 1} ELSE {})
Spend(v) == faults' = IF v = Len(blocks) THEN faults ELSE faults + 1

AccountNonce(v) == Cardinality({i \in 1 .. v : blocks[i] # NoTx})

\* IsProcessedBatch: some transaction of the batch was mined; the first one
\* executed it and every later one reverted.
Processed(b, v) == \E i \in 1 .. v : blocks[i].batch = b
Executed(i) == ~\E j \in 1 .. i - 1 : blocks[j].batch = blocks[i].batch

\* PendingNonceAt.
PendingNonceAt(v) ==
    LET used == IF counts THEN {t.nonce : t \in pool} ELSE {}
        n0   == AccountNonce(v)
    IN  CHOOSE n \in n0 .. n0 + Cardinality(used) :
            n \notin used /\ \A m \in n0 .. n - 1 : m \in used

\* TransactionReceipt: the block that holds a transaction, Nothing if none does.
BlockOf(t, v) ==
    IF \E i \in 1 .. v : blocks[i] = t
    THEN CHOOSE i \in 1 .. v : blocks[i] = t ELSE Nothing

-----------------------------------------------------------------------------
(* Submission *)

bumpGasPrice(p, percent) ==
    LET out == (p * (100 + percent)) \div 100 IN IF out > MaxPrice THEN MaxPrice ELSE out

\* With a nonce counted locally.
DecideCounting(pending, suggested) ==
    [nonce |-> IF lastNonce # Nothing /\ pending <= lastNonce THEN lastNonce + 1 ELSE pending,
     price |-> bumpGasPrice(suggested, 25)]

decideNonceGas(pending, suggested) ==
    LET price == bumpGasPrice(suggested, 25)
        least == bumpGasPrice(lastGasPrice, 13)
    IN  IF lastNonce # Nothing /\ pending <= lastNonce
        THEN [nonce |-> lastNonce, price |-> IF price < least THEN least ELSE price]
        ELSE [nonce |-> pending, price |-> price]

Healthy == up[active]

\* A call on an endpoint that does not answer: the cycle ends, the next resumes.
CallFails ==
    /\ pc \in {"nonce", "send"} /\ ~Healthy
    /\ pc' = "check"
    /\ UNCHANGED <<chainVars, nodes, tracked, wait, confirmed, slips, faults>>

Confirm(how) ==
    /\ confirmed' = [confirmed EXCEPT ![Current] = how]
    /\ pc' = "check"
    /\ tx' = NoTx /\ waitOn' = Nothing /\ seen' = Nothing /\ streak' = 0

\* IsProcessedBatch before a submission; an error counts as "no".
Check ==
    /\ pc = "check" /\ Current # 0
    /\ \E v \in Views :
         IF Healthy /\ Processed(Current, v)
         THEN Confirm("effect") /\ Spend(v)
         ELSE pc' = "nonce" /\ (IF Healthy THEN Spend(v) ELSE UNCHANGED faults)
              /\ UNCHANGED <<wait, confirmed>>
    /\ UNCHANGED <<chainVars, nodes, tracked, slips>>

\* transactor: the nonce and the price are recorded before anything is sent.
Transactor ==
    /\ pc = "nonce" /\ Healthy
    /\ \E v \in Views :
         LET d == decideNonceGas(PendingNonceAt(v), fee)
         IN  /\ lastNonce' = d.nonce /\ lastGasPrice' = d.price
             /\ tx' = [nonce |-> d.nonce, batch |-> Current, price |-> d.price]
             /\ Spend(v)
    /\ pc' = "send"
    /\ UNCHANGED <<chainVars, nodes, waitOn, seen, streak, confirmed, slips>>

\* What the node refuses: a gas estimate that reverts, a nonce that is used, a
\* replacement that pays less than an eighth more, one transaction too many.
Refused(t, v) ==
    \/ Processed(t.batch, v)
    \/ t.nonce < AccountNonce(v)
    \/ \E o \in pool : o.nonce = t.nonce /\ t.price * 8 < o.price * 9
    \/ Cardinality({o \in pool : o.nonce # t.nonce}) >= PoolLimit

\* Transact, the rest of SubmitSettlement.
Send ==
    /\ pc = "send" /\ Healthy
    /\ \E v \in Views :
         /\ Spend(v)
         /\ IF Refused(tx, v)
            THEN pc' = "check" /\ UNCHANGED <<pool, waitOn>>
            ELSE /\ pool' = {o \in pool : o.nonce # tx.nonce} \cup {tx}
                 /\ pc' = "mined" /\ waitOn' = active
    /\ UNCHANGED <<blocks, fee, top, nodes, tracked, tx, seen, streak, confirmed, slips>>

-----------------------------------------------------------------------------
(* WaitForReceipt *)

\* Mined, with success or not: the nonce is no longer tracked.
Mined ==
    /\ pc = "mined" /\ waitOn \in {e \in Endpoints : up[e]}
    /\ \E v \in Views :
         /\ BlockOf(tx, v) # Nothing /\ Spend(v)
         /\ pc' = IF Executed(BlockOf(tx, v)) THEN "final" ELSE "check"
    /\ lastNonce' = Nothing /\ lastGasPrice' = 0
    /\ streak' = 0
    /\ UNCHANGED <<chainVars, nodes, tx, waitOn, seen, confirmed, slips>>

\* ErrTxTimeout: the transaction stays tracked.  It happens at any time as a
\* fault, and without one when the wait cannot end otherwise.
Hopeless ==
    \/ waitOn \notin {e \in Endpoints : up[e]}
    \/ /\ tx \notin ToSet(blocks)
       /\ \/ tx.nonce < AccountNonce(Len(blocks))
          \/ \E n \in AccountNonce(Len(blocks)) .. tx.nonce :
                ~\E o \in pool : o.nonce = n /\ o.price >= fee

WaitTimesOut ==
    /\ pc = "mined" /\ pc' = "check"
    /\ Fault \/ (Hopeless /\ UNCHANGED faults)
    /\ UNCHANGED <<chainVars, nodes, tracked, wait, confirmed, slips>>

-----------------------------------------------------------------------------
(* waitForFinality *)

DurablyAbsent(n) == n >= MaxNotFoundStreak

\* TransactionReceipt of receiptAndHead ...
PollReceipt ==
    /\ pc = "final" /\ Healthy
    /\ \E v \in Views :
         /\ Spend(v)
         /\ IF BlockOf(tx, v) # Nothing
            THEN pc' = "head" /\ seen' = BlockOf(tx, v) /\ UNCHANGED streak
            ELSE /\ streak' = streak + 1 /\ UNCHANGED seen
                 /\ pc' = IF DurablyAbsent(streak + 1) THEN "reorged" ELSE "final"
    /\ UNCHANGED <<chainVars, nodes, tracked, tx, waitOn, confirmed, slips>>

\* ... and BlockNumber; uint64 subtraction is guarded.
BuriedUnguarded(head, block) == (head - block) % 2^16 >= Confirmations
Buried(head, block) == head >= block /\ head - block >= Confirmations

PollHead ==
    /\ pc = "head" /\ Healthy
    /\ \E v \in Views :
         /\ Spend(v)
         /\ IF Buried(v, seen) THEN Confirm("final")
            ELSE /\ pc' = "final" /\ streak' = 0
                 /\ UNCHANGED <<tx, waitOn, seen, confirmed>>
    /\ UNCHANGED <<chainVars, nodes, tracked, slips>>

\* An RPC error is neither a receipt nor its absence; after ten minutes of them,
\* or of a receipt that is not buried, the wait gives up.
PollFails ==
    /\ pc = "head" /\ ~Healthy
    /\ pc' = "final"
    /\ UNCHANGED <<chainVars, nodes, tracked, wait, confirmed, slips, faults>>

FinalityTimesOut ==
    /\ pc = "final" /\ Fault /\ pc' = "check"
    /\ UNCHANGED <<chainVars, nodes, tracked, wait, confirmed, slips>>

\* ErrReorged: the contract is asked before the batch is submitted again.
Reorged ==
    /\ pc = "reorged"
    /\ \E v \in Views :
         IF Healthy /\ Processed(Current, v)
         THEN Confirm("effect") /\ Spend(v)
         ELSE pc' = "check" /\ (IF Healthy THEN Spend(v) ELSE UNCHANGED faults)
              /\ UNCHANGED <<wait, confirmed>>
    /\ UNCHANGED <<chainVars, nodes, tracked, slips>>

-----------------------------------------------------------------------------
(* MonitorEndpoints *)

\* dialFirstHealthy: the first endpoint that answers, from a start, wrapping.
FirstHealthyNoWrap(start) ==
    LET at == {i \in start .. NumEndpoints - 1 : up[i]}
    IN  IF at = {} THEN Nothing ELSE CHOOSE i \in at : \A j \in at : i <= j
dialFirstHealthy(start) ==
    LET idx(i) == (start + i) % NumEndpoints
        at == {i \in Endpoints : up[idx(i)]}
    IN  IF at = {} THEN Nothing ELSE idx(CHOOSE i \in at : \A j \in at : i <= j)

\* A failed probe: rotateEndpoint swaps the client and closes the old one, also
\* under a WaitMined that was given it; without a healthy endpoint it keeps it.
Rotate ==
    /\ ~Healthy /\ NumEndpoints >= 2
    /\ dialFirstHealthy(active + 1) # Nothing
    /\ active' = dialFirstHealthy(active + 1)
    /\ waitOn' = Nothing
    /\ UNCHANGED <<chainVars, up, counts, tracked, pc, tx, seen, streak, confirmed, slips, faults>>

Down(e) ==
    /\ up[e] /\ Fault
    /\ up' = [up EXCEPT ![e] = FALSE]
    /\ UNCHANGED <<chainVars, counts, active, tracked, pc, wait, confirmed, slips>>

\* An outage of every endpoint ends.
Recover ==
    /\ \A e \in Endpoints : ~up[e]
    /\ \E e \in Endpoints : up' = [up EXCEPT ![e] = TRUE]
    /\ UNCHANGED <<chainVars, counts, active, tracked, pc, wait, confirmed, slips, faults>>

-----------------------------------------------------------------------------
(* The chain *)

client == <<nodes, tracked, pc, wait, confirmed>>

Grown == top' = IF Len(blocks) + 1 > top THEN Len(blocks) + 1 ELSE top

Mine ==
    /\ \E t \in pool :
         /\ t.nonce = AccountNonce(Len(blocks)) /\ t.price >= fee
         /\ blocks' = Append(blocks, t)
         /\ pool' = {o \in pool : o.nonce > t.nonce}
    /\ Grown
    /\ UNCHANGED <<client, fee, slips, faults>>

\* A block without one of ours, as long as it buries one of ours.
EmptyBlock ==
    /\ \E i \in DOMAIN blocks : blocks[i] # NoTx /\ Len(blocks) - i < Confirmations
    /\ blocks' = Append(blocks, NoTx)
    /\ Grown
    /\ UNCHANGED <<client, pool, fee, slips, faults>>

\* The last blocks are replaced, never one that was Confirmations deep: their
\* transactions return to the pool where it has no other for the nonce.
Reorg ==
    /\ Fault
    /\ \E n \in 1 .. Confirmations :
         LET kept == Len(blocks) - n
             lost == {blocks[i] : i \in (kept + 1) .. Len(blocks)} \ {NoTx}
         IN  /\ kept >= 0 /\ kept >= top - Confirmations /\ lost # {}
             /\ blocks' = SubSeq(blocks, 1, kept)
             /\ pool' = pool \cup {t \in lost : ~\E o \in pool : o.nonce = t.nonce}
             /\ slips' = slips \cup {"reorg"}
                  \cup (IF pc = "head" /\ kept < seen THEN {"between"} ELSE {})
                  \cup (IF \E t \in lost : confirmed[t.batch] # "no" THEN {"effect"} ELSE {})
    /\ UNCHANGED <<client, fee, top>>

\* A node forgets a transaction.
Evict ==
    /\ Fault
    /\ \E t \in pool : pool' = pool \ {t}
    /\ slips' = slips \cup {"evicted"}
    /\ UNCHANGED <<client, blocks, fee, top>>

\* The base fee rises: what was sent before may no longer pay enough.
FeeRises ==
    /\ fee < HighFee /\ Fault /\ fee' = HighFee
    /\ UNCHANGED <<client, blocks, pool, top, slips>>

\* The process is killed and, once an endpoint answers, started again:
\* NewContractClient dials from the first, and tracks no nonce.
Crash ==
    /\ Fault
    /\ dialFirstHealthy(0) # Nothing /\ active' = dialFirstHealthy(0)
    /\ pc' = "check" /\ tx' = NoTx /\ waitOn' = Nothing /\ seen' = Nothing /\ streak' = 0
    /\ lastNonce' = Nothing /\ lastGasPrice' = 0
    /\ UNCHANGED <<chainVars, up, counts, confirmed, slips>>

-----------------------------------------------------------------------------

Init ==
    /\ blocks = << >> /\ pool = {} /\ fee = BaseFee /\ top = 0
    /\ up = [e \in Endpoints |-> TRUE] /\ counts \in BOOLEAN /\ active = 0
    /\ lastNonce = Nothing /\ lastGasPrice = 0
    /\ pc = "check" /\ tx = NoTx /\ waitOn = Nothing /\ seen = Nothing /\ streak = 0
    /\ confirmed = [b \in 1 .. NumBatches |-> "no"]
    /\ slips = {} /\ faults = 0

Cycle ==
    \/ Check \/ CallFails \/ Transactor \/ Send \/ Mined \/ WaitTimesOut
    \/ PollReceipt \/ PollHead \/ PollFails \/ FinalityTimesOut \/ Reorged

Next ==
    \/ Cycle \/ Rotate \/ Recover \/ Mine \/ EmptyBlock
    \/ Reorg \/ Evict \/ FeeRises \/ Crash \/ \E e \in Endpoints : Down(e)

\* The settler's cycle and the monitor are goroutines on tickers; the chain goes on.
Fairness ==
    /\ WF_vars(Cycle) /\ WF_vars(Rotate) /\ WF_vars(Recover)
    /\ WF_vars(Mine) /\ WF_vars(EmptyBlock)

Spec == Init /\ [][Next]_vars /\ Fairness

-----------------------------------------------------------------------------
(* Properties *)

Txs == [nonce : Nat, batch : 1 .. NumBatches, price : Nat]

TypeOK ==
    /\ (ToSet(blocks) \ {NoTx}) \cup pool \subseteq Txs /\ top \in Nat
    /\ up \in [Endpoints -> BOOLEAN] /\ counts \in BOOLEAN /\ active \in Endpoints
    /\ lastNonce \in Nat \cup {Nothing} /\ lastGasPrice \in Nat
    /\ pc \in {"check", "nonce", "send", "mined", "final", "head", "reorged"}
    /\ tx \in Txs \cup {NoTx} /\ waitOn \in Endpoints \cup {Nothing}
    /\ streak \in 0 .. MaxNotFoundStreak
    /\ confirmed \in [1 .. NumBatches -> {"no", "final", "effect"}]
    /\ slips \subseteq {"reorg", "between", "effect", "evicted"}

\* A batch that was confirmed because its receipt was buried is on the chain and
\* stays there through every reorganisation of at most the confirmation depth,
\* whatever nodes lagged, moved its receipt or lost it during the wait.
FinalStays ==
    "between" \notin slips =>
      \A b \in DOMAIN confirmed : confirmed[b] = "final" => Processed(b, Len(blocks))

\* No submission strands a later one: the nonces of the pool follow the account's
\* without a gap, so that each transaction can be mined after those before it.
NoNonceGap ==
    "evicted" \notin slips =>
      \A t \in pool : \A n \in AccountNonce(Len(blocks)) .. t.nonce - 1 :
         \E o \in pool : o.nonce = n

AllConfirmed == \A b \in DOMAIN confirmed : confirmed[b] # "no"

\* Neither has a node dropped a transaction, nor a reorganisation undone a batch
\* that was taken for confirmed, nor has the fee risen over what was sent when
\* PendingNonceAt counts the pool or the tracked nonce was undone.
Survivable ==
    /\ slips \subseteq {"reorg", "between"}
    /\ fee = HighFee => ~counts /\ "reorg" \notin slips

\* Every batch is confirmed in the end, over restarts, reorganisations, outages,
\* false alarms and a rise of the fee.
EveryBatchConfirmed == []Survivable => <>AllConfirmed
=============================================================================
