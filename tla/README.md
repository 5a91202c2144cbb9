# OpenModel gateway: TLA+ verification project

The repository is a gateway in Go between users of language models and the
storage providers (SPs) whose workers run them. It authenticates and rate-limits
requests, reserves their cost against a prepaid on-chain balance, routes them to
a worker, logs what was used, and settles the log on a smart contract once per
interval. This directory holds TLA+ models of it, the TLC runs that check them
and TLAPS proofs about them. Paths below are relative to the repository's `src/`.

## Inventory

| component | state it keeps | operations | what must hold |
|---|---|---|---|
| settlement engine (`internal/settlement/settler.go`) | WAL, debt ledger, dead-letter file, settled total, item and Merkle ledgers | `Start`, `Settle`, `resumePending`, `reverseFailedItems`, `restorePendingSpend` | each served unit is paid, carried or parked exactly once, through crashes and retries; an interrupted settlement is finished |
| aggregator (`aggregator.go`) | worker-to-SP and price tables | `AggregateWithDebts`, `allocate`, `BatchHash` | one balance is never allocated twice; different batches have different hashes |
| Merkle commitment (`merkle.go`, `merkle_store.go`) | batch ledger, receipt index with a sidecar file | root, proof, append, replay, rebuild | a served proof verifies against the on-chain hash; the index finds every ledgered receipt |
| contract client (`contract.go`) | nonce and gas of the last transaction, active endpoint | submit, wait for receipt, wait for finality, decode outcome, fail over | a stuck transaction is replaced, a mined one is not repeated |
| balance gate (`balance.go`) | cached balances, `pendingSpend`, suspended wallets | `Reserve`, `Adjust`, `SettleSpend`, `RestorePendingSpend`, refresh | what is reserved covers what is owed; a wallet is not suspended without debt |
| request log and scanner (`gateway/requestlog.go`, `settlement/scanner.go`) | current file, numbered backups, cursor | `Log`, `rotate`, `Peek`, `CommitCursor` | each record is read once, across rotations, unless retention dropped it |
| reconciler (`reconcile.go`) | own cursor, billed total | `Run` | drift is reported exactly when the books do not match |
| pricer (`pricer.go`) | FIL price and age, stablecoin peg | refresh, staleness and plausibility tests | a wrong price is not used, a right one is eventually used |
| request path (`gateway/gateway.go`, `router.go`, `session.go`, `ratelimit.go`) | in-flight count, queue, session table, token buckets | admit, select, forward, retry, stream, resume, drain | a failed request is not billed, a served one is billed once; drain waits for all |
| registry and poller (`internal/worker`) | worker records on disk and in memory | register, poll results, ban, mark switching or offline | a late poll result does not resurrect an older state |
| probe auditor (`gateway/probe.go`) | verification marks, strikes | probe, verify, ban | bans never empty the fleet |
| keys, user and SP registration (`keys.go`, `registration.go`, `spregister.go`, `certissuer.go`) | key store, used signatures, challenges | create, delete, register, challenge, renew | a signature or challenge works once; the store is not lost |
| admin and public APIs, configuration, metrics, tools | none of their own | read-only views, parsing | not protocol state |

Components meet in a few places. The request path writes the log that the
scanner reads and the `pendingSpend` that the settler lowers; the settler reads
cached balances that the chain has already left behind; its files are read back
after a crash by the next process; the contract's `processedBatches` is the only
memory that two processes of the gateway share. Hard behaviours are therefore
crashes between two file writes, transactions mined after the caller gave up,
receipts that vanish, balances withdrawn between plan and execution, and requests
served while any of this happens. `PROJECT.json` lists these hazards with the line
where each bites.

## What is modelled now

### The settlement engine: `Settlement.tla`

`Settlement.tla` models the settlement engine and as much of its neighbours as it
depends on. Money is counted in units and there is one token.

* Files are variables, and each write is one action, so `Crash` may fall between
  any two: `log`, `cursor`, `dl` (dead letters), `debts`, `wal`, `total`, `ledger`.
  `cycle` is the clock whose value stamps a plan (`CreatedAt`).
* Memory: `pc` and `origin` (where the settler goroutine is and which of the three
  calls of `resumePending` runs), `plan` (between `writeDeadLetter` and
  `writePending`), `receipt`, `pending` (`pendingSpend`).
* The chain is external: `paid`, `processed` (executed batches, with the items that
  were skipped and whether the block is buried), `mempool`. A transaction can be
  mined at any time after it was submitted, or dropped; a shallow block can be
  reorganised away, and its transaction is then pending again.
* History: `dlWas`, `faults`, and `slips`, the set of steps taken so far that the
  accounts do not survive (below).

The actions follow the code: `Boot`, `SettleBegin`, `NothingPending`, `Dedup`,
`Submit`, `Receipt`, `Final`, `Vanished`, `Confirm`, `Ledger`, `Commit`,
`AddSettledTotal`, `SaveDebts`, `RemoveWAL`, `Abort` (every error return),
`Restore`, `Skip`, `Aggregate`, `WritePending`; and `Serve`, `Crash`, `Mine`,
`Drop`, `Bury`, `Reorg` around them. File writes whose failure the code only logs
may fail, and so may the scan of the log in `restorePendingSpend` (`Restore`). A batch
hash is the content that the code hashes: amounts, the set of
request ids, and which leaves are receipt leaves rather than debt leaves.

Three inputs are free: the workers whose SP mapping is missing in a cycle, the
balances that the planner saw, and the balances that the contract finds. Users
deposit and withdraw at any time, so the two need not agree. A price that is
missing or not positive parks every record and keeps every debt: that is the case
in which every worker is unmapped and every balance seen is zero.

Abstractions that widen what may happen: a receipt is found by batch and not by
transaction, and an RPC call may fail at any time. Abstractions that narrow it:
a file that exists can be read (the code treats an unreadable debt or dead-letter
file as empty; this is a listed hazard), an outcome event can be decoded, and one
gateway process runs at a time.

`SettlementInvariant.tla` states the inductive invariants, `SettlementProofs.tla`
the theorems, `MCSettlement.tla` the small instances.

### Slips

Some steps of the code lose accounts. Each is modelled as the code takes it and
leaves its name in `slips`:

| slip | step |
|---|---|
| `tornDeadLetter` | the cycle stops after the dead-letter file was replaced and before the WAL was written |
| `deadLetterNotSaved`, `debtsNotSaved`, `totalNotSaved` | a write failed and was only logged |
| `hashCollision` | the dedup check met another plan's batch with the same content |
| `blindDedup` | the dedup check confirmed a batch in which the contract had skipped items |
| `shallowFinal` | a batch was confirmed before its block was buried |
| `notLedgered` | a confirmed batch is in no ledger |
| `walNotRemoved`, `servedBeforeRestore`, `restoreOverWAL` | what is reserved was counted or cleared twice |
| `notRestored` | the log could not be scanned at the start, and what unread lines cost is not reserved |

The safety properties hold as long as the slips they name were not taken: a slip is
the circumstance that the code does not survive, named once, and everything else is
promised. Where a comment or a document claims more, see "Known divergences". A failed
write is logged by the code as an error, and the slips of the last two rows distort
reservations and not payments.

### The request path: `Gateway.tla`

`Gateway.tla` models `handleProxy` and what it calls. Each request is a goroutine,
a record `req[r]` with its stage `pc` and the local variables of the handlers. The
other variables are shared: the counters `inFlight` (of the process), `slots` (of
each API key), `queued` and `inflight` (of each worker); the session table `sticky`;
the registry (`wstate`, `loaded`, `switching`, `banned`, `verified`); the balance
cache (`balance`, `pending`, `suspended`). Each action ends where the code takes a
lock, makes a call or waits, so that other goroutines may run between any two.

| actions | code |
|---|---|
| `Arrive`, `Count`, `Refuse`, `Acquire`, `CheckBody`, `Reserve` | the drain check, the in-flight counter, the limiter, the checks and the reservation of `handleProxy` |
| `SelectWorker`, `SelectNone` | `selectWithAffinity`, `selectWorkerForModel` |
| `Enqueue`, `QueueFull`, `Wake`, `WindowEnds`, `WaiterLeaves`, `BlockFails` | `waitForWorkerInternal`, `blockForWorker` and the three callers' reactions |
| `Dispatch`, `Forward`, `AttemptFails`, `Answered`, `Retry` | `MarkSwitching`, `handleNonStreaming` |
| `StreamFailsEarly`, `StreamEnds`, `StreamErrs`, `StreamBreaks`, `Resume`, `ResumeFails` | `handleStreaming`, `tryResume` |
| `Adjust`, `Release`, `Leave` | the deferred calls, last one first |
| `Settle`, `Refresh`, `UpdateDebts` | the settler and the refresher at the balance cache |
| `Poll`, `MarkOffline`, `Ban`, `Verify`, `ExpireSession` | poller, prober and session table |
| `BeginDrain`, `DrainEnds`, `ClientLeaves`, `DeadlinePasses` | shutdown, clients, timers |

Data. All requests ask for one model, the requests of a key belong to one session,
and money is counted in tokens. Which of several eligible workers is taken (weights,
load), whether a worker is overloaded, whether the token bucket refuses and when a
timer expires are free choices. A poll is one step here, and several in `Fleet`; a
refresh is one step, though the code reads and writes at two moments.
Left out: requests without a wallet, worker URLs that do not parse, and the read-only
endpoints. `MaxChurn` bounds the events of registry, cache and shutdown; nothing else
is bounded besides the sets.

`GatewayProofs.tla` has the theorems about counters, limits and money, `MCGateway.tla` the
small instances.

### The request log, its scanner and the reconciler: `LogReader.tla`, `RequestLog.tla`, `Reconciler.tla`, `Passes.tla`

`LogReader` is the abstract specification: billable records are numbered, a `Peek`
hands out those after the committed position, without a gap and in order, and only
`CommitCursor` moves that position. `RequestLog` is the code: a directory of names and
inodes, the logger that appends, rotates by renaming one file after the other and
reopens (`Log...`, `Shift`, `ReopenLog`, `ReopenFails`), and the scanner that loads the
cursor and stats the log (`PeekBegin`), searches the backups for the cursor's inode, one
stat after the other (`PeekSearch`), opens and reads each backup by its name
(`PeekBackup`) or `.1` as a best effort (`PeekBest`, `PeekDot1`), and then the log
(`PeekMain`, or `PeekGone` when the stat found none); `PeekFails` is a file that is gone
when it is opened. Every rename, every look at a name and every file opened is an
action, so the file that is opened need not be the one that was found. Opening a backup and
reading it is one step: under whatever name, nothing is written to it any more. A scan reads places (`Records`: a name and a line), and `Read` puts the
records at a set of places in the order of the scan, from the oldest backup to
`requests.jsonl`. `EveryRecordOnce` says that `RequestLog` implements `LogReader`;
the batch of the abstract reader is the one the client holds. Circumstances in which the
code does not keep the promise are collected in `excuses`:

| excuse | circumstance |
|---|---|
| `retention` | the oldest backup is dropped before its records were passed, or while a scan or the cursor is in it |
| `cursor` | the cursor file could not be read, and the scan starts over |
| `gone` | `requests.jsonl` was between two renames: the tail of `.1` is handed out and the cursor stays |
| `raced` | a backup was opened by a name that now belongs to another file than the one found, or not to the next newer one |
| `overlap` | a rotation between the stat, the reading of the backups and the reading of the main file |
| `gap` | the cursor's file was not found among the backups (one was just being moved), and `.1` was taken as a best effort |
| `first` | the cursor has no inode yet and records are already in a backup |
| `torn` | a line was glued to the beginning of one whose write had failed |
| `shared` | `Reconciler.Run` was called while it was running |

`Reconciler` extends it with the pass (`RunBegin`, `RunPeek`, `ReadSettled`, `Tally`,
`RunCommit`, `SaveState`) and with the two books it compares: requests that reserve, are
logged and adjust, settlements that lower the pending spend first and raise the settled
total afterwards, and the restoration after a start. `doubts` are what the comparison
does not survive: `unlogged` (a served request whose line was not written), `boot`
(requests served before the restoration), `baseline` (the first pass was disturbed),
`recount` (the cursor could not be written) and `window` (the process died between
cursor and state file). A pass is begun by the loop or by `GET /api/v1/reconcile`, which
waits for neither the restoration nor the loop. `Reconciler` follows one pass at a time:
`RunOverlaps` is the second call during a pass, an excuse behind which nothing is claimed.
What two passes do to each other is `Passes`, where the log is only a number and each of
the steps `Peek`, `Parse`, `Add`, `Commit` and `Save` on the shared total, cursor and file
is an action of either caller. A record is a number, offsets count lines, a request costs one
unit. `MCReconciler` adds the symmetry of the inodes and a constraint: behind the first
excuse or doubt nothing is promised, so nothing is explored. `ReconcilerProofs` proves both
properties without these bounds.

### Receipts: `Merkle.tla`, `ReceiptIndex.tla`

`Merkle` is `merkle.go` as operators: leaves, root, proof and its verification, with
sha256 as a free constructor, so that two hashes are equal exactly when their inputs are;
its loops are recursive functions of the number of rounds (`Climb`, `Fold`).
`ReceiptIndex` models the three files behind receipt proofs, each write of
`appendMerkleLedger` an action, the warming of the index by replay of the sidecar or by
a rebuild from the data while the settler goes on appending, and the public query, as a
function of the state (`Answer`, `BuildReceiptProof`). Crashes and failed writes may fall
between any two steps. The WAL has a batch as confirmed before it is appended, so an
append that a crash cuts short is not repeated (`Crash`), and a batch found processed on
chain is not appended at all (`SkipProcessed`; `notLedgered` in `Settlement`). The new
sidecar of a rebuild replaces the old one whatever of it could be written (`Rewritten`);
a fragment in it is `torn`. Its slips:

| slip | step |
|---|---|
| `unledgered` | a confirmed batch did not come into the ledger: found processed, or cut short by a crash or a failed write |
| `ledger` | a failed write left a fragment in the ledger, to which the next batch is glued |
| `late` | a batch was appended to a sidecar that lacks the line of an earlier one |
| `marker` | the sidecar's sizes include a batch whose own line was then not written |
| `rebuilt` | a rebuild lost the line of a batch and wrote the marker with the sizes |
| `rotated` | the log was rotated twice before a request was settled |

`unledgered` is not the index's fault: behind it `SettledIsFound` and `AnswersOnlyImprove`
go on (`IndexIsWhole`), the former for the batches that are in the ledger.

### The contract client: `ContractClient.tla`

Submission (`Transactor`, `Send`), `WaitForReceipt`, `waitForFinality`, `ErrReorged` and
the check of the contract, the decision on nonce and gas (`decideNonceGas`), and the
rotation between endpoints, against a chain that is external: blocks, a pool that refuses
underpriced replacements, reorganisations down to the confirmation depth, nodes that
answer from an older head, evictions, outages and a rising fee. `Settlement` sees none of
this: there a transaction is mined or not. Slips are `reorg`, `between` (the block was
replaced between the receipt and the head of one poll), `effect` (a batch that was
confirmed is undone) and `evicted`. Gas prices stop growing at `MaxPrice`.
`ContractClientProofs` has its theorems.

### Workers: `Fleet.tla` and `Auditor.tla`

`Fleet` models the registry's runtime state, the poller and the model switches of
requests. A worker's machine has an engine of its own that reloads, mines and goes down
without telling anybody; the poller reads it in two calls and applies the answer to the
entry later, whatever happened to the entry meanwhile. Clocks are ages. `forgotten` are
the pairs of an entry and its machine where the machine reloads without a mark on the
entry: after a retry, a restart, a timeout, a change of the machine, or because the mark
is on another entry for the same machine. `FleetProofs` has its theorems.

`Auditor` models `probe.go`: the choice of a tick, admission, re-confirmation, spot
checks, pooled evidence, confirmation and ban, each reading the registry at one moment
and writing it at a later one, while operators, the workers and the poller change it and
saves may fail. A run is a score, and it tells whether the worker can serve what it
claims. `LoadedModel`, which every poll overwrites and requests of users change, is not
state here but an input of each tick: a re-confirmation may be about any proven model
(`NextExpired`), a spot check about any claimed one (`Candidates`). That a worker loads
only what it claims is the one restriction. `interfered` notes that an operator removed or banned a worker, or that the disk
failed. `AuditorProofs` has its theorems.

### Keys and registrations: `ApiKeys.tla`, `SPRegistration.tla`

`ApiKeys` models `handleRegister` and `handleKeys`: the date is checked before the lock,
the file is read and written under it, the table follows the file, and a message may be
delivered late, again or twice at once. A failing read counts as an empty file, as in the
code (`misread`). The gateway remembers a signature by its text, and each has several that
verify (`Texts`; the last byte may be 0 or 1, or 27 or 28), so a delivery is a message
with one of the texts.

`SPRegistration` models the challenge, the registration that consumes it, reads the chain
without the lock and checks and inserts under it, and operators who register without that
lock. Signatures are ideal. `reassigned` notes that an operator gave a miner to another
worker. `RegistrationProofs` has the theorems of both and `MCRegistrations` a small instance
of each; for that the names of `SPRegistration` begin with `SP` where the two would meet.

## Properties and runs

| run | specification | checks | bounds |
|---|---|---|---|
| `core` | `Spec` | `TypeOK`, `BooksBalance`, `NoOvercharge`, `TotalMatchesChain`, `PendingExact`, `Accounted` | one wallet, two SPs, two requests of cost 1 and 2, balance up to 2, two cycles, one fault of any kind, a failed read included; 2.5 million states |
| `batches` | `Spec` | `TotalMatchesChain`, `EveryBatchLedgered`, `CursorAfterChain` | batch size 1, so one plan has two batches; two faults of any kind; 0.8 million states |
| `live` | `FairSpec` | `BooksBalance`, `PendingExact`, `WALDrains`, `EveryRequestPassed` | one request of cost 3 whose worker may lose its mapping, a balance of at most 1, two cycles, a crash or a reorganisation |
| `gateway` | `Spec` | `TypeOK`, `CountersExact`, `LimitsHold`, `PendingExact`, `KeptIsBilled`, `ResumedWithinEstimate`, `NoRestartAfterBytes` | a stream and a plain request of one wallet, two workers of which one can continue a stream, a queue of one place, one event; the client of the stream may leave; 2.7 million states |
| `gateway_live` | `FairSpec` | `PlainRequestsLeave`, `NobodyWaitsForever` | one worker, log writes may fail, one event, which may be the shutdown; 0.1 million states |
| `reconcile` | `RSpec` | `CalmPassAgrees`, `EveryRecordOnce` | four lines, a rotation every two, two backups, four inodes (so that a freed one is used again), an estimate twice the cost, one fault; 3.9 million states |
| `receipts` | `Spec` | `SettledIsFound`, `ProofsVerify`, `AnswersOnlyImprove` | three batches of one, five and three leaves, with a request split over two items and two carried over as debt; two faults; 0.09 million states |
| `contract` | `Spec` | `FinalStays`, `NoNonceGap`, `EveryBatchConfirmed` | two batches, two endpoints, two confirmations, two fees, two faults |
| `fleet` | `Spec` | `NoRequestsOntoReload`, `EventuallyTruthful` | one worker, two machines, two models, two failures to go offline, four events |
| `audit` | `Spec` | `AdmittedIsProven`, `SomeoneIsLeft`, `VerdictsConverge` | two workers with two claims and one, a window of two runs, two failures to a ban, two events; 0.4 million states |
| `registrations` | `RegistrationSpec` | `KeysDurable`, `KeyLimit`, `ActedOnOnce`, `OneWorkerPerMiner`, `AdmissionsProven` | users: two wallets, one with a key of the operator, two key IDs, one key per wallet, two texts of a signature, a clock of three values, two requests at a time, three events; 0.8 million states. Providers: two challenges, miners, signers and workers, two registrations at a time, six events; the first miner's first controller is fixed, since signers are interchangeable; 0.8 million states |

`registrations` checks two specifications that share no variable: `MCRegistrations` runs one
of them in each behaviour, since their interleavings would add nothing.

One run shows where the code does not do what a comment beside it says: `overlap`, of
`Passes`, with two callers, two records and three passes. `OnlyNewRecords` (the running total
counts each record once) is violated: two passes `Peek` from one cursor, and each adds what it
read to the shared total.

Of the settlement engine:

* `BooksBalance`: between settlements, for each wallet and SP, paid + debt + dead
  letters = usage up to the cursor.
* `NoOvercharge`: at every moment nobody has paid more than was served.
* `TotalMatchesChain`: the settled total, which reconciliation trusts, is what the
  chain moved, however often a WAL was replayed.
* `PendingExact`: whenever the settler waits, what is reserved for a wallet is what
  it still owes.
* `EveryBatchLedgered`: every batch of a finished settlement is in the ledgers that
  serve receipts.
* `CursorAfterChain`: the cursor moves only when each batch of the plan is executed.
* `WALDrains`, `EveryRequestPassed`: an interrupted settlement is finished; a served
  request is passed by the cursor.

Of the request path:

* `CountersExact`: on every way out of the handlers, each of the four counters is
  given back exactly once.
* `LimitsHold`: concurrent arrivals do not overshoot the queue or a key's slots.
* `PendingExact`: a wallet's pending spend is the sum of the reservations of requests
  in the handlers and of the kept usage of finished, unsettled ones, in whatever order
  they finish and settle (unless a request that overran its estimate was settled before
  its `Adjust`).
* `KeptIsBilled`: what stays reserved is what settlement will bill, in the one line of
  the request.
* `ResumedWithinEstimate`: a resumed stream does not cost more than was reserved.
* `NoRestartAfterBytes`: after the first byte, a request is only sent to a worker that
  can continue the text, within the budget of resumes.
* `PlainRequestsLeave`, `NobodyWaitsForever`: a plain request is answered and its
  handler left, even while a stream hangs; no request waits for a worker for ever.

Of the log, the reconciler and the receipts:

* `EveryRecordOnce`: the log and its scanner implement `LogReader`, so that each record
  is handed out once and in order, over rotations, restarts and any interleaving of
  renames with the stats, opens and reads of a scan, until one of the excuses above is met.
* `CalmPassAgrees`: a pass that nothing disturbs reports no drift, whatever disturbed the
  passes before it, as long as two passes never overlapped.
* `SettledIsFound`: a request whose batch is in the ledger is found, from an index that was
  replayed, rebuilt or kept up to date; and without a slip every confirmed batch is in the
  ledger.
* `ProofsVerify`: a proof that is handed out verifies against the hash on the chain, for
  this request's leaf and for no other, with this request's record or none; also when the
  index is wrong.
* `AnswersOnlyImprove`: settled stays settled, pending does not become unknown, as long as
  the index is whole (`IndexIsWhole`).

Of the contract client:

* `FinalStays`: what was confirmed as buried is on the chain and stays there.
* `NoNonceGap`: no submission strands a later one behind a missing nonce.
* `EveryBatchConfirmed`: every batch is confirmed in the end, as long as `Survivable`
  holds: nothing was evicted, nothing confirmed was undone, and the fee did not rise over
  a transaction that the client does not know to be stuck.

Of the workers:

* `NoRequestsOntoReload`: a machine that reloads for a marked request is not offered to
  others meanwhile.
* `EventuallyTruthful`: a machine that stays ready is offered again for good, one that
  stays unreachable is offline for good.
* `AdmittedIsProven`: a model that is routed to had its pooled score at the floor and was
  not taken back since.
* `SomeoneIsLeft`: the auditor's bans leave a worker.
* `VerdictsConverge`: an honest worker ends up proven and unbanned, and one that lost its
  models does not keep all its admissions. It may keep some: the model that was taken back
  first is tried again on every tick, and the others are never re-checked.

Of keys and registrations:

* `KeysDurable`: a key that was handed out works until it is deleted, a deleted one never
  works again, wherever a write fails or the process ends.
* `KeyLimit`: the limit holds although it is counted in the file and registration looks
  into the table.
* `ActedOnOnce`: one process acts on a message with one text of its signature once while it
  is fresh; with the other text it acts on it again.
* `OneWorkerPerMiner`: concurrent registrations do not give a miner two workers.
* `AdmissionsProven`: a challenge leads to one entry, of somebody who controlled the miner
  after it was issued.

The bounds are the smallest in which the cases meet. For the settlement engine: two SPs
compete for one balance, the balance is below the cost so debt is carried, a second cycle
works on what the first one left, and a fault may fall between any two steps of either.
For the request path: two requests compete for one place in the queue, one balance and one
worker, a worker may report more tokens than the estimate, and the event may fall between
any two steps of either. Two requests never find two slots taken, so that the limit of a
key is tested by the proof only, which is for any number of requests. For the log: four
lines are two rotations, so that a cursor lies one or two files back, and the fault is a
restart, a torn line, a failed commit or a failed open. For the index: a crash or a failed
write may hit the rebuild of what an earlier one left, and the third batch is appended to
the outcome. For the client: a second fault may hit the recovery
from the first, and the second batch needs the nonce after the first one's. For the
registries: what one handler read may be changed by the other, by an operator or by a
restart before it writes. A user's event is a request, a failure of the disk or a
restart, so three of them are a request, the same one repeated, and something that happens
to either of them.

Runs other than the first three do not check for deadlock: finished requests stop for
good, and the events, lines and faults that clients and operators cause are bounded.

### Fairness

`FairSpec` assumes weak fairness of the steps that cannot fail (`Steady`: the
goroutine runs and its ticker fires) and of `Abort` (each wait has a time limit).
Calls that may fail are retried by every cycle, so they get strong fairness: the
check, confirmation and commit of a batch, `Submit`, and `Aggregate` (the price
does not stay stale and the scan does not fail for ever). Of the chain it assumes
that it does not drop every resubmission (`Mine`) and that blocks get buried.
Nothing is assumed of `Serve`, `Crash`, `Reorg` or `Drop`.

In `Gateway`, `FairSpec` assumes weak fairness of each goroutine's steps (`Prompt`)
and of the passing of its deadline. A goroutine that is not waiting runs; its waits
for a worker end with their window; a plain answer is bounded by the timeout of the
HTTP client. The code sets no limit to the body of a stream, so nothing is assumed of
a stream that is at its worker.

In `ContractClient`, weak fairness of the settler's cycle and of the endpoint monitor
(goroutines on tickers, each call and each wait with a time limit), and of the chain: it
mines what pays enough and goes on, and an outage of all endpoints ends. Faults are not
fair.

In `Fleet`, weak fairness of the rounds and steps of the poller (a ticker, calls with a
timeout), of time passing, and of the sending and arrival of what was routed. Nothing is
assumed of reloads, which may hang, or of events.

In `Auditor`, weak fairness of the steps of a run, of idle ticks, of the poller finding a
worker that is up, and of time. A worker's turn at a verification gets strong fairness:
`List` ranges over a Go map, whose order is random, so a worker that can be chosen again and
again is chosen. Nothing is assumed of spot checks, which are drawn by chance and need a
model that happens to be loaded.

## Proofs

### Settlement

`SettlementProofs.tla` proves, for all finite sets of wallets, SPs and requests,
all costs, batch sizes, balances, numbers of cycles and of faults, from
`SettlementAssumption` alone:

* `TypeCorrect`: `Spec => []TypeOK`;
* `AccountedInvariant`: `Spec => []Accounted`;
* `BooksBalanceAlways`: `Spec => []BooksBalance`;
* `NoOverchargeAlways`: `Spec => []NoOvercharge`;
* `CursorAfterChainAlways`: `Spec => CursorAfterChain`;
* `EveryBatchLedgeredAlways`: `Spec => []EveryBatchLedgered`;
* `TotalMatchesChainAlways`: `Spec => []TotalMatchesChain`;
* `PendingExactAlways`: `Spec => []PendingExact`.

`BooksBalance` is not inductive: it is silent while a WAL exists, and that is when
money moves. `Accounted` says where each unit is at every moment. Its core,
`AccountsOK`, is the equation

    paid + due in the WAL + carried + dead letters = usage of what was passed

where what is due (`Due`) is what the WAL has still to collect: an item whose batch
is neither confirmed nor already on the chain unskipped. A second equation states
the same for a plan in memory. They need the conjuncts beside them: the chain
executes a hash once (`ChainOK`), what is on the chain stays there unless it is the
batch in progress (`FinalOK`), what is in the mempool will not be executed again
unless it is that batch (`MempoolOK`), a dead letter is a passed request parked once
(`DeadLettersOK`), and where the settler is tells which writes it has done
(`ControlOK`). Each action has its lemma; `Frame`, `ChainFrame` and `ConfirmFrame`
carry what most of them leave alone. `UsageSplit` (usage of disjoint sets of lines
adds up) and `PlanDivides` (a plan divides what is owed into item and debt) are the
arithmetic of a new plan. `CursorAfterChainAlways` adds `Standing`: a confirmed batch
is buried. Sums are cardinalities of sets of units, so that the library's theorems
about finite sets apply.

The last three theorems rest on `Accounted` and on an invariant each. `LedgerInv`: a batch
on the chain is buried or in progress, and is in the ledgers, in progress, or the one just
confirmed. It needs that the batches of a plan are numbered without a hole
(`NoBatchMissing`, from the order of the pairs): otherwise an empty batch would be
submitted, and its hash says nothing about whose it is.

`TotalInv`: the total, plus what the WAL settles as long as the total is not stamped with
it, is what has been paid plus what is still due. It is stated per pair, while `SettledUSD`
in the WAL is per wallet; `SettledOK` connects the two, and says that the reversal of
skipped items never cuts a wallet at zero. `StampOK` says that a stamp of the WAL's
`CreatedAt` was put there after its last batch was confirmed, so that no item is reversed
later. `SumAdds`, `SumRestrict` and `SumByWallet` are the laws of sums this needs; without
induction over data they are proved by bijections between sets of units.

`GateInv`: `ReservedOK` gives what is reserved at every step and not only when the settler
waits, nothing from a start to `restorePendingSpend` and afterwards the WAL's claim until
it is released, and the debts, dead letters and unread lines. No step of the settler but
that release changes the sum, pair by pair (`ReserveKept`), although items move between
WAL, debts and files. For the restoration with a WAL still open, `DrawnFrom` keeps what the
plan was made from: until the cursor moves, the debts' file and the records taken in are
what the WAL claims, carries and parked. That is where `RestoreMisreads` comes from: in
the remaining cases the files add up.

### Gateway

`GatewayProofs.tla` proves, for all finite sets of requests, workers and keys and all
limits and budgets, from `GatewayAssumption` alone:

* `TypeCorrect`: `Spec => []TypeOK`;
* `CountersCorrect`: `Spec => []CountersExact`;
* `LimitsCorrect`: `Spec => []LimitsHold`.

The inductive invariant `GatewayInv` joins types and counters, because each needs the
other: the code decrements without a check, so a counter is a natural number only
because it counts a set that still has the request in it, and a counter that is cut
at zero (`Floored`) is exact only for the same reason. To these it adds that a request
at or on its way to a worker has one (`TargetKnown`), since a forward counts at its
target, and the limits in terms of the counters (`SlotsBounded`, `QueueBounded`):
`queued` may exceed the limit by those that are about to find the queue full, so the
bound is on the waiting ones. A step moves one request between stages and each counter
by the difference (`Moves`, `Tally`); `TallyKeepsCounters` is the arithmetic of that,
once, and each action's lemma says which stages it joins.

Of money it proves, from the same assumption:

* `PendingIsExact`: `Spec => []PendingExact`;
* `KeptIsWhatIsBilled`: `Spec => []KeptIsBilled`;
* `ResumesCostNoMore`: `Spec => []ResumedWithinEstimate`;
* `AnswersStartOnce`: `Spec => NoRestartAfterBytes`.

`BillingInv` gives each request its `Course`: before its handler returns nothing is kept
or logged, and a stream that has started and is waiting or forwarded again is halfway, has
resumes left and goes to a worker that can continue; afterwards, what is kept is what the
line bills, and at most the estimate if the stream was resumed. Only requests that are
past their handler and have a billable line are settled (`SettledLogged`). `PendingExact`
is inductive with that: each step changes one request's share of its wallet's pending
spend by what it adds or takes.

### The request log and the reconciler

`ReconcilerProofs.tla` proves, for any number of inodes, backups, lines and faults, any
threshold of rotation and any estimate, from `RequestLogAssumption` and
`EstimateAssumption` alone:

* `LogReadOnce`: `Spec => EveryRecordOnce`, the refinement of `LogReader`;
* `ReconcilerReadsOnce`: `RSpec => EveryRecordOnce`, the same with the reconciler as the
  scanner's client;
* `CalmPassesAgree`: `RSpec => []CalmPassAgrees`.

`LogInv` is silent once an excuse is met; until then it says of the files that they have
different inodes and that, read from the oldest backup to `requests.jsonl`, the records
have the numbers in their order (`InOrder`), none of them above `written`. A rename keeps
this because it moves a file to a name that is free and next to its own, so no file passes
another, even between two renames. A cursor cuts that order in two (`Stands`): records up
to `pos` lie before it, all others behind it, under whatever name its file is by now; a
cursor whose file has been dropped has nothing unpassed behind that file, otherwise the
`retention` excuse was met. `Held` says that no number behind `pos` is missing. The new
cursor of a `Peek` in progress stands at `upto` in the same sense, and the batch is the
numbers from `pos + 1` to it. Between two files of a scan, what was read so far is again the
numbers up to a cut, where `scan.at` stands (`ReadSoFar`), although the logger may have
moved every file since.

That a scan yields these numbers is a fact about `Read`. `NumberedCount` and `ReadNumbered`
show that, when the places of a set carry exactly the numbers `a + 1 .. b` in order, the
number of places up to the n-th one is n, by a bijection with an interval; there is no
induction over lines or files. `ScanFile` applies this to one backup, with `BackupCut` for
where its reading begins and ends, and `ScanMain` to the log; `RunsJoin` adds the numbers of
a file to those before them, once per file.

Each step then maps to a step of `LogReader` or to a stutter (`StepReadsOnce`):
`LogBillable` to `Record`, `PeekGone` and `PeekMain` to `Peek`, `CommitCursor` to
`CommitCursor`, a failed commit or a restart while a batch is held to `Abandon`, and all
else, renames and the stats and opens of a scan included, to a stutter. `LogUnderReconciler` says that each step of the
reconciler, its requests and settlements is a step of the log or leaves it alone, except
`RunOverlaps`, which is an excuse (`OverlapExcused`): about passes that overlap the theorems
say nothing, and `Passes` shows that there is nothing to say.

`ReconcilerInv` adds three facts that hold as long as there is no excuse and no doubt:
`BooksOK`, that total and debt of the settler make what its cursor has passed, and the
pending spend is what is behind it plus what the request in progress has reserved;
`PassOK`, where in the log the sum of the reconciler stands at each stage of a pass; and
`CalmOK`, that since a calm pass began nothing was moved, so that the batch reaches to the
end of the log and the two books were read from one state.

TLC checked `ReconcilerInv` before it was proved, as an invariant of `RSpec`: completely
for three lines and two faults (0.9 million states). The proof does not cover what happens
behind an excuse; there `EveryRecordOnce` claims nothing either.

### Receipts

`ReceiptProofs.tla` proves of the Merkle tree, for batches of any number of leaves, with
odd levels or not:

* `PathLeadsToRoot`: the path that `MerkleProofFor` builds for a leaf folds to the root;
* `PathHasOneLeaf`: a path and an index verify for one leaf only;

and of the index, for any batches, and any number of crashes and failed writes, from
`ReceiptIndexAssumption` alone:

* `ReceiptsTypeCorrect`: `Spec => []TypeOK`;
* `AppendedIsFound`: `Spec => []SettledIsFound`;
* `ProofsAlwaysVerify`: `Spec => []ProofsVerify`;
* `AnswersNeverWorse`: `Spec => AnswersOnlyImprove`.

The loops of the tree need induction over rounds. It is done with sets of numbers instead
of a predicate: the least number outside a set that has 0 and is closed under successors
does not exist (`UpToN`, from the well-foundedness of `<`). `Climb` and `Fold` are
functions of the number of rounds; that the recursion defines them is `ClimbExists` and
`FoldExists`. Each round at least halves a level (`LevelSizes`), so one of the first
`Len(leaves)` levels has a single node (`RoundsReachTop`); after k siblings a fold is at the
node above its leaf in level k (`FoldFollowsClimb`). `PathHasOneLeaf` goes down the same
rounds: equal hashes have equal parts.

`IndexInv` is the inductive invariant of the index (`IndexInvHolds`). `RecordsOK`,
`SizesOK` and `EnteringIsBatch` hold always: whatever a map or a line says of the record
store is right (`Locates`), the sidecar claims no more than the files have, and while a
batch is between ledger and index it is the ledger's last line; that a confirmed batch is in
the ledger (`AllLedgered`) holds until the first slip. `Covered` holds while `IndexIsWhole`,
also when batches are missing from the ledger: its lines are all whole, and each request
of a batch that has entered the index has a line in the sidecar, unless a `gap` is known or
a fragment is in it. With a gap the sizes in the sidecar are too small for it to be trusted,
and with a fragment it is not; an index in memory has
the request, and so has one that is being built, with its new lines. The batch on its way
into the index is exempt from this (`Entering`): a scan that runs at that moment may or may
not have seen it, and the settler adds it when the warm-up has let go of the lock.

`SettledIsFound` follows since a batch in the ledger has entered (`LedgeredHasEntered`). `ProofsVerify` does not need
`Covered`: where a batch is said to be is read and checked, and otherwise scanned for
(`FoundIsThere`). For `AnswersOnlyImprove`, a warm-up gives the answers of the index a
query would have waited for (`WarmingKeepsAnswers`); after any other step what was in the
ledger is still there and has entered (`LedgerStays`). `Bounded` adds that no offset is
behind the end of its file.

TLC checked `IndexInv` before it was proved, as an invariant of `Spec`, completely for the
three batches of the run with two faults (0.09 million states) and three (0.5 million).

### ContractClient

`ContractClientProofs.tla` proves, for all numbers of batches and endpoints, every
confirmation depth, and all fees and limits, from `ContractAssumption` alone:

* `TypeCorrect`: `Spec => []TypeOK`;
* `FinalBatchesStay`: `Spec => []FinalStays`;
* `NoncesHaveNoGap`: `Spec => []NoNonceGap`.

`FinalStays` follows from the depth: the chain is at most `Confirmations` shorter than it
ever was (`Shallow`), the receipt in hand is on the chain when the head arrives
(`ReceiptHolds`), and a batch is called final below that depth (`OutOfReach`). For the
nonces: those on the chain are 0, 1, 2, ... (`Numbered`, `Dense`), so a reorganisation puts
back into the pool exactly what it takes from the chain, and nothing is missing below the
nonce that the client tracks (`TrackedReachable`), which is the one it may use next.

### Fleet

`FleetProofs.tla` proves, for all sets of workers, machines and models and any threshold,
from `FleetAssumption` alone:

* `TypeCorrect`: `Spec => []TypeOK`;
* `ReloadIsUndisturbed`: `Spec => []NoRequestsOntoReload`.

A marked entry is not routable (`MarkExcludes`), an entry whose machine reloads is marked
for the model or known not to be (`ReloadsMarked`), and the mark is not cleared too early:
an answer that the poller has yet to apply names the model that its machine still has
(`AnswersCurrent`), and a reload is for another one (`ReloadsChange`). The proof is for
several entries with one machine, which the run's one worker does not have; there the
mark of one entry leaves the other routable, which is why `forgotten` holds pairs.

### Auditor

`AuditorProofs.tla` proves, for any fleet, claims, window, floor and number of strikes,
from `AuditorAssumption` and `NoneAssumption`:

* `TypeCorrect`: `Spec => []TypeOK`;
* `TrustIsEarned`: `Spec => []AdmittedIsProven`;
* `BansLeaveSomeone`: `Spec => []SomeoneIsLeft`.

What a run writes was decided on what it read before. `Carried` says that the list it is
about to store holds only proven models, `AnotherIsLeft` that the worker that saved the
fleet from its last ban is still there when the ban is set, `Claimed` that only claimed
models are handled, and `Synced` that a restart reads back the same registry.

### Registrations

`RegistrationProofs.tla` proves of users and their keys, for any number of wallets, keys
and handlers, any limit, window and clock skew, from `KeysAssumption` and `NoneAssumption`:

* `TypeCorrect`: `Spec => []TypeOK`;
* `KeysAreDurable`: `Spec => []KeysDurable`;
* `LimitIsKept`: `Spec => []KeyLimit`;
* `SignaturesWorkOnce`: `Spec => []ActedOnOnce`.

One handler at a time is between file and table (`Mutex`), what it is about to install is
in the file and what it is about to drop is not (`UnderWay`), so the table lags behind the
file by one key at most (`InStep`). A signature that was acted on is remembered, as the text
it came in, for as long as its message is fresh, or its handler is about to remember it (`Remembered`, `Unmarked`), which
needs that a handler's clock is not ahead of the gateway's (`ReadBefore`).

Of storage providers it proves, for all sets of challenges, miners, signers, workers
and handlers, from `SPAssumption` alone:

* `SPTypeCorrect`: `SPSpec => []SPTypeOK`;
* `MinersAreUnique`: `SPSpec => []OneWorkerPerMiner`;
* `RegistrationsAreProven`: `SPSpec => []AdmissionsProven`.

The inductive invariant `SPInv` adds to the types: `Uniqueness`, which extends the claim to
what a restart would read back and to the insert that a handler has checked and not yet
made, and says that one handler at most is between check and insert; `Custody`, which says
who holds a challenge: it is live, or in one attempt, or spent, and only in the last case
it may have led to an entry; and `Witness`, that the signer of an attempt behind its
verification was seen in control of the miner. Without the first the operator's step is
not covered, without the second a second delivery of the same request is not.

### Only model-checked

The liveness properties (`WALDrains`, `EveryRequestPassed`, `PlainRequestsLeave`,
`NobodyWaitsForever`, `EveryBatchConfirmed`, `EventuallyTruthful`, `VerdictsConverge`),
which are beyond the prover, and the types of `Reconciler` behind an excuse (`RTypeOK`),
where its proof claims nothing.

## Known divergences

Places where the code does something else than a comment or document beside it says, or
than a reader would expect. The models take the step as the code does, and the properties
are stated with that exception; the one with a run in brackets has its own. Paths are
under `internal/`; `README.md` is the repository's.

| where | what the text says, or one would expect | what the code does |
|---|---|---|
| `settlement/settler.go:380` | `aggregator.go:39-40`: the hash is "content-derived and dedup-safe" | equal instalments of one debt have equal hashes; the second is confirmed unpaid (`hashCollision`) |
| `settlement/settler.go:298` | `README.md:172`: "replays cannot double-charge" | the dead-letter file is replaced before the WAL is written; a crash between them reads a parked record twice (`tornDeadLetter`) |
| `settlement/settler.go:380,433` | `settler.go:415-416`: a reorganisation "can never lose or double a settlement" | `processedBatches` is trusted at depth 0 (`shallowFinal`; `effect` in `ContractClient`) |
| `settlement/settler.go:380,461-482` | `settler.go:480-481`: proofs "long after the WAL is gone"; `settler.go:1326-1328`: every settled request is in the index, "so an index miss is authoritative" | the dedup path writes no ledger, and a batch cut short between its mark and the append is skipped (`notLedgered`, `unledgered`) |
| `settlement/settler.go:717-720` | a start restores what is reserved | if the log cannot be scanned, only a warning is logged (`notRestored`) |
| `admin/settlement_api.go:357` | `reconcile.go:77-79`: the total "only ever advances over NEW records" | a pass from the API and one from the loop share cursor and total without a lock [`overlap`] |
| `gateway/gateway.go:1195` | `gateway.go:709-711`: usage kept for an answer that is not 200 "would wedge pendingSpend forever" | a stream whose answer has an error status keeps its usage reserved, and it is never settled |
| `settlement/balance.go:277` | `balance.go:274-276`: `SettleSpend` "preserves reservations for in-flight requests" | a request above its estimate that is settled before its `Adjust` takes another one's reservation with it |
| `settlement/reconcile.go:209-213` | `reconcile.go:209-211`: a crash between cursor and state "at worst re-adds one window of records", "never silently loses money accounting" | a crash between them loses a window of billed records (`window`); a cursor that cannot be written counts one twice (`recount`) |
| `settlement/scanner.go:100-102` | `scanner.go:100-102`: "no billable record written before the rotation is ever skipped" | a cursor without an inode cannot find its file among the backups (`first`) |
| `settlement/merkle_store.go:27-29,162-164` | "any inconsistency degrades to a one-time rebuild, never to wrong data"; a sidecar is accepted only without a gap | after a crash, or after a rebuild that ignored a failed write (241, 262), sizes may match although a line is missing (`late`, `marker`, `rebuilt`) |
| `settlement/contract.go:47-51` | "a stuck settlement is bumped through instead of deadlocking" | not if `PendingNonceAt` counts the pool, and `lastNonce` is recorded before anything is sent |
| `gateway/probe.go` | a mark stands for evidence on this worker and model | the books survive the removal of an ID and are credited to the next worker with it; re-confirming one model refreshes the date of all |
| `gateway/probe.go:414` | `probe.go:418-419`: evidence past its TTL is re-confirmed | a claim that was just taken back comes first on every tick, and the others of the worker are not looked at |
| `gateway/gateway.go`, `worker/registry.go` | a reloading worker is kept out of the routing | a retry and a restart reload without a mark, and of two IDs on one machine only the one that was routed to is marked (`forgotten`) |
| `gateway/registration.go:132-161` | a key works until it is deleted | a failed read counts as "no keys", and the next write drops the others (`misread`) |
| `gateway/registration.go:251` | `registration.go:30-31`: "a signature already accepted within the window is rejected" | it is remembered by its text, and its last byte may be written in two ways (184-189) |
| `gateway/registration.go` | a signature works once | used signatures are lost in a restart, and that of a message dated ahead of the clock expires early |
| `worker/registry.go:127-132` | the payout follows the miner | an operator's re-registration keeps the payout of the former miner (not modelled) |
| `gateway/spregister.go:396` | `spregister.go:413-417`: a banned worker is refused a renewal and ages out | a registration does not look at the ban, and its CSR is signed (not modelled) |

## Not modelled

* Of the balance gate, the order of concurrent refreshes, and amounts in several tokens
  with their rounding; of the pricer everything but that a price may be stale. They enter
  the models as free inputs.
* A debt, dead-letter or total file of the settlement engine that exists and cannot be read.
* Two reconciliation passes at a time over the log's files: `Passes` has them over a log that
  is a number.
* Certificates and their renewal, key formats, the limiter of addresses, signing.
* The generation and scoring of probe questions, the sampler of answers.
* The read-only HTTP views, configuration, metrics, health, the web UI and the one-shot
  tools: no protocol state.

## Plan

The modules above are the plan's models. Left, in this order:

1. `BalanceGate` (a refresh as two steps, several tokens) and `Pricer` (plausibility and
   staleness).
2. An abstract specification of billing, in which each served unit is charged once, with
   `Settlement` shown to implement it; unreadable debt and dead-letter files in `Settlement`.
