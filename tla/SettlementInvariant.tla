------------------------ MODULE SettlementInvariant -------------------------
(* The inductive invariants behind the properties of Settlement.  The first,  *)
(* behind BooksBalance and NoOvercharge, says where every unit of usage is at *)
(* each moment of a settlement; the others are inductive beside it.           *)
EXTENDS Settlement

\* None of the steps that the accounts do not survive was taken.
Sound == slips \cap BooksSlips = {}

\* The requests the accounts have passed, and the dead-letter file that belongs to
\* them: a cycle that was planned but not written does not count yet.
Passed      == IF wal = NoWAL THEN cursor ELSE wal.cursor
DeadLetters == IF pc = "planned" THEN dlWas ELSE dl

\* Item k of the WAL stands on the chain and was not skipped.
Landed(k) ==
    \E e \in processed : /\ e.id = wal.id
                         /\ e.hash = DetailsHash(wal, BatchNo(wal, k))
                         /\ k \notin e.failed

\* What the WAL still has to collect from pair k.
Due(k) ==
    IF k \in Items(wal) /\ BatchNo(wal, k) > wal.done /\ ~Landed(k)
    THEN wal.pay[k] ELSE 0

\* What is carried for pair k beside the plan's items.
Carried(k) == IF wal = NoWAL THEN debts[k].usd ELSE wal.debts[k].usd

\* x belongs to the batch of the WAL that is to be confirmed next.
InProgress(x) ==
    wal # NoWAL /\ x.id = wal.id /\ x.hash = DetailsHash(wal, Current(wal))

\* No cursor is ahead of the log.
CursorsOK == cursor \subseteq log /\ wal.cursor \subseteq log /\ plan.cursor \subseteq log

\* The chain executes a hash once, skips only items of the batch, and knows no plan
\* that is not written yet.
ChainOK ==
    /\ \A e, f \in processed : e.hash = f.hash => e = f
    /\ \A e \in processed : e.failed \subseteq Items(e.hash)
    /\ \A x \in processed \cup mempool :
          x.id <= cycle /\ (pc = "planned" => x.id < cycle)

\* Where the settler is tells what it has done.
ControlOK ==
    /\ plan.done = 0 /\ wal.id <= cycle
    /\ pc = "planned" => plan.id = cycle /\ plan # NoWAL
    /\ pc \in {"receipt", "finality", "confirm", "ledger", "total", "debts", "remove"} =>
          wal # NoWAL
    /\ pc \in {"total", "debts", "remove", "peek", "planned"} /\ wal # NoWAL =>
          Unconfirmed(wal) = {} /\ cursor = wal.cursor
    /\ pc \in {"remove", "peek", "planned"} /\ wal # NoWAL /\ Sound => debts = wal.debts

\* What is on the chain stays there, except the batch in progress: everything else
\* is buried, or pays nothing.
FinalOK ==
    Sound => \A e \in processed : e.deep \/ Items(e.hash) = {} \/ InProgress(e)

\* What is in the mempool will not be executed again, except the batch in progress.
MempoolOK ==
    Sound => \A t \in mempool :
        \/ Items(t.hash) = {}
        \/ \E e \in processed : e.hash = t.hash /\ e.deep
        \/ InProgress(t)

\* A dead letter is a passed request, parked once.
DeadLettersOK ==
    Sound => /\ DeadLetters \subseteq Once(Passed)
             /\ pc = "planned" => dl \subseteq Once(plan.cursor)

\* The accounts of each pair, as the files have them and as the plan in memory does.
AccountsOK ==
    Sound => \A k \in Keys :
        /\ paid[k] + Due(k) + Carried(k) + Usage(DeadLetters, k) = Usage(Once(Passed), k)
        /\ pc = "planned" =>
             paid[k] + plan.pay[k] + plan.debts[k].usd + Usage(dl, k)
                 = Usage(Once(plan.cursor), k)

\* The inductive invariant: at every moment each unit of usage that a pair has been
\* charged with is in exactly one place, on the chain, in the batch under way, in
\* the debts or among the dead letters.
Accounted ==
    /\ TypeOK /\ CursorsOK /\ ChainOK /\ ControlOK
    /\ FinalOK /\ MempoolOK /\ DeadLettersOK /\ AccountsOK

\* The confirmed batches of the WAL are on the chain to stay.
Standing ==
    "shallowFinal" \notin slips =>
        \A b \in BatchNos(wal) :
            b <= wal.done => \E e \in On(DetailsHash(wal, b)) : e.deep

-----------------------------------------------------------------------------
(* The inductive invariant behind EveryBatchLedgered.                         *)

\* No step that a batch's way into the ledgers does not survive was taken.
Recorded == slips \cap {"notLedgered", "hashCollision", "shallowFinal"} = {}

\* resumePending submits batches that have items.
BatchesFilled == \A x \in processed \cup mempool : Items(x.hash) # {}

\* Only the batch in progress can still be reorganised away or executed.
SettledStays ==
    Recorded => \A e \in processed : e.deep \/ InProgress(e)
SubmittedOnce ==
    Recorded => \A t \in mempool :
        InProgress(t) \/ \E e \in processed : e.hash = t.hash /\ e.deep

\* Only the batch in progress, and the one just confirmed, are not in the ledgers.
LedgeredOrOpen ==
    Recorded => \A e \in processed :
        \/ e.hash \in ledger
        \/ InProgress(e)
        \/ pc = "ledger" /\ e.id = wal.id /\ e.hash = DetailsHash(wal, Latest(wal))

LedgerInv == BatchesFilled /\ SettledStays /\ SubmittedOnce /\ LedgeredOrOpen

-----------------------------------------------------------------------------
(* The inductive invariant behind TotalMatchesChain.                          *)

SoundTotal == slips \cap (BooksSlips \cup {"totalNotSaved"}) = {}

\* A batch that is confirmed is on the chain for good, under this plan's id.
ConfirmedOK ==
    Sound => \A b \in BatchNos(wal) :
        b <= wal.done => \E e \in On(DetailsHash(wal, b)) : e.deep /\ e.id = wal.id

\* A reorganisation takes back no more than was paid.
PaidOK ==
    Sound => \A k \in Keys :
        /\ paid[k] >= 0
        /\ \A e \in processed :
              ~e.deep /\ k \in Items(e.hash) \ e.failed => e.hash.pay[k] <= paid[k]

\* What the WAL has collected or will collect from pair k: its items, except those
\* that a confirmed batch skipped.
Claim(k) ==
    IF k \in Items(wal) /\ (BatchNo(wal, k) > wal.done \/ Landed(k))
    THEN wal.pay[k] ELSE 0

\* SettledUSD of the WAL, and of the plan in memory, is what is claimed from each wallet.
SettledOK ==
    Sound => \A w \in Wallets :
        /\ wal.settled[w] = SumOver([k \in Keys |-> Claim(k)], KeysOf(w))
        /\ plan.settled[w] = SumOver(plan.pay, KeysOf(w))

\* The stamp in the total's file is of a plan that was written, and was put there when
\* every batch of that plan was confirmed.
StampOK ==
    /\ total.last <= cycle /\ (pc = "planned" => total.last < cycle)
    /\ wal # NoWAL /\ total.last = wal.id => Unconfirmed(wal) = {}

\* What pair k has paid or the WAL will still collect from it, and what the WAL settles
\* and the total does not contain yet.
Collected(k) == paid[k] + Due(k)
Unadded == IF wal = NoWAL \/ total.last = wal.id THEN 0 ELSE SumOver(wal.settled, Wallets)

\* With the WAL's share the total is what the chain has moved and will move for it.
TotalOK ==
    SoundTotal =>
        /\ total.usd + Unadded = SumOver([k \in Keys |-> Collected(k)], Keys)
        /\ pc \in {"debts", "remove", "peek", "planned"} /\ wal # NoWAL => total.last = wal.id

TotalInv == ConfirmedOK /\ PaidOK /\ SettledOK /\ StampOK /\ TotalOK

-----------------------------------------------------------------------------
(* The inductive invariant behind PendingExact.                               *)

SoundGate == slips \cap GateSlips = {}

\* Start is the only caller that goes on to restorePendingSpend, Settle the only one
\* that plans, and it plans only once no WAL is left.
CallersOK ==
    /\ pc = "restore" => origin = "boot"
    /\ pc \in {"peek", "planned"} => origin = "settle" /\ (SoundGate => wal = NoWAL)
    /\ pc \in {"down", "idle"} => origin = "none"

\* The plan in memory was drawn up from the dead letters and the unread lines.
DrawnUp ==
    SoundGate /\ pc = "planned" =>
        /\ cursor \subseteq plan.cursor
        /\ Once(plan.recs) = dlWas \cup Once(plan.cursor \ cursor)
        /\ dl \subseteq Once(plan.recs)

\* Until the cursor moves, the debts' file and the records that the WAL took in are
\* what the WAL claims, what it carries on and what it parked.
DrawnFrom ==
    SoundGate /\ wal # NoWAL /\ cursor # wal.cursor =>
        /\ cursor \subseteq wal.cursor
        /\ wal.recs \ cursor = wal.cursor \ cursor
        /\ dl \subseteq Once(wal.recs)
        /\ \A k \in Keys :
              debts[k].usd + Usage(Once(wal.recs), k)
                  = Claim(k) + wal.debts[k].usd + Usage(dl, k)

\* What is to be reserved for pair k: the WAL's claim until reducePendingSpend has
\* released it, what is carried, the dead letters and the unread lines.
Claimed(k) == IF pc \in {"total", "debts", "remove"} THEN 0 ELSE Claim(k)
Reserve(k) == Claimed(k) + Carried(k) + Usage(DeadLetters, k) + Usage(Once(log \ Passed), k)

\* Nothing is reserved before restorePendingSpend, and all that is owed after it.
ReservedOK ==
    SoundGate => \A w \in Wallets :
        pending[w] = IF pc = "down" \/ origin = "boot" THEN 0
                     ELSE SumOver([k \in Keys |-> Reserve(k)], KeysOf(w))

GateInv == CallersOK /\ DrawnUp /\ DrawnFrom /\ ReservedOK
=============================================================================
