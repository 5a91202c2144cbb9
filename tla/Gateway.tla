------------------------------ MODULE Gateway ------------------------------
(***************************************************************************)
(* The request path of the gateway (internal/gateway/gateway.go): every     *)
(* proxied request is a goroutine that passes the drain check, takes a slot *)
(* of its API key, reserves the estimated cost of the request, chooses a    *)
(* worker or waits for one in the bounded queue, forwards the request,      *)
(* retries or resumes it on another worker, writes its line of the request  *)
(* log and finally corrects the reservation.  Around it run the poller, the *)
(* prober, the settler, the clients and the shutdown of the process.        *)
(*                                                                          *)
(* Data.  All requests ask for one model, so a worker has "the" model       *)
(* loaded or not, and the requests of a key belong to one session.  Tokens  *)
(* are the unit of money: a request of n billed tokens costs n.  Time is a  *)
(* choice: a timer that is running may expire.                              *)
(***************************************************************************)
EXTENDS Integers, FiniteSets

CONSTANTS
    Requests, Workers, Keys, Wallets,
    KeyOf, WalletOf,      \* the API key and the wallet of a request
    Streaming,            \* the requests with "stream": true
    PromptEstimate,       \* estimatePromptTokens of a request's body
    MaxTokens,            \* its max_tokens
    Reported,             \* token totals a worker may report, after clampUsage
    MaxInFlight,          \* concurrent requests of one key (no limit: any large number)
    MaxQueueSize,         \* cfg.MaxQueueSize, 0 = unlimited
    StreamResume,         \* cfg.StreamResume
    StreamMaxResumes,     \* its continuation budget
    SwitchOnOverload,     \* cfg.ModelSwitchLoadFactor > 0
    MinBalance,           \* the reserve buffer
    MaxPending,           \* the cap on unsettled spend, 0 = none
    Balances,             \* bounds the balances a refresh may read
    SelfRegistered,       \* workers subject to the probe admission gate
    Supports,             \* workers that list the model as supported
    Capable,              \* workers with the continuation feature
    MayLeave,             \* requests whose client may disconnect
    LogMayFail,           \* may a write to the request log fail?
    MayDrain,             \* may the process be shut down?
    MaxChurn,             \* bound on events of the registry, the cache and the shutdown
    Up, Hot,              \* workers that are idle, and have the model, at the start
    None                  \* no worker

ASSUME GatewayAssumption ==
    /\ IsFiniteSet(Requests) /\ IsFiniteSet(Workers) /\ IsFiniteSet(Keys)
    /\ KeyOf \in [Requests -> Keys]
    /\ WalletOf \in [Requests -> Wallets]
    /\ Streaming \subseteq Requests /\ MayLeave \subseteq Requests
    /\ PromptEstimate \in Nat /\ MaxTokens \in Nat \ {0}
    /\ Reported \subseteq Nat /\ 0 \in Reported
    /\ MaxInFlight \in Nat \ {0} /\ MaxQueueSize \in Nat /\ StreamMaxResumes \in Nat
    /\ StreamResume \in BOOLEAN /\ SwitchOnOverload \in BOOLEAN
    /\ LogMayFail \in BOOLEAN /\ MayDrain \in BOOLEAN
    /\ MinBalance \in Nat /\ MaxPending \in Nat /\ Balances \subseteq Nat
    /\ SelfRegistered \subseteq Workers /\ Supports \subseteq Workers
    /\ Capable \subseteq Workers /\ Up \subseteq Workers /\ Hot \subseteq Workers
    /\ MaxChurn \in Nat
    /\ None \notin Workers

VARIABLES
    req,        \* the goroutine of each request, see Goroutine
    drain,      \* BeginDrain: "no", "draining", then its result
    inFlight,   \* Gateway.inFlight
    slots,      \* RateLimiter: keyLimiter.inFlight of each key
    queued,     \* Gateway.queuedCount
    inflight,   \* Registry.inflight of each worker
    sticky,     \* sessionAffinity: the worker of each key's session, or None
    wstate,     \* Registry: the state of each worker
    loaded,     \* workers that reported the model as loaded
    switching,  \* workers with SwitchingTo set
    banned,     \* workers with a routing ban
    verified,   \* self-registered workers with the model verified
    balance,    \* BalanceCache: last known balance of each wallet
    pending,    \* BalanceCache.pendingSpend, a map with the wallets it has
    suspended,  \* BalanceCache.suspended
    settled,    \* requests whose settlement has been confirmed
    hasty,      \* history: requests settled before their Adjust
    churn       \* registry, cache and shutdown events so far

counters == <<inFlight, slots, queued, inflight>>
registry == <<wstate, loaded, switching, banned, verified>>
cache    == <<balance, suspended>>
books    == <<pending, settled, hasty>>
vars     == <<req, drain, counters, sticky, registry, cache, books, churn>>

Stages == {"new", "entered", "counted", "gate", "reserve", "select", "dispatch",
           "forward", "sent", "retry", "interrupted", "block", "again", "full",
           "waiting", "adjust", "release", "leave", "done"}

\* The stages between Reserve and the deferred adjustBalance.
Reserved == {"select", "dispatch", "forward", "sent", "retry", "interrupted",
             "block", "again", "full", "waiting", "adjust"}

\* The fields of a RequestRecord that isBillable and settlement look at.
Record   == [ok : BOOLEAN,      \* Status is 200
             total : Nat,       \* TotalTokens
             clean : BOOLEAN]   \* ErrorReason is empty
Failure  == [ok |-> FALSE, total |-> 0, clean |-> FALSE]

\* The local variables of handleProxy and of the handlers it calls.
Goroutine == [pc        : Stages,
              caller    : {"first", "retry", "resume"},  \* of blockForWorker
              target    : Workers \cup {None},
              hot       : BOOLEAN,          \* the target's snapshot had the model
              tried     : SUBSET Workers,
              late      : BOOLEAN,          \* the request deadline has passed
              gone      : BOOLEAN,          \* the client has disconnected
              started   : BOOLEAN,          \* clientStarted
              delivered : Nat,              \* totalDelivered
              resumes   : Nat,
              logged    : BOOLEAN,          \* the log has a line of this request
              record    : Record,           \* that line
              kept      : Nat]              \* settledUsage.TotalTokens

Estimate == PromptEstimate + MaxTokens      \* estimatedTokens

Idle == [pc |-> "new", caller |-> "first", target |-> None, hot |-> FALSE,
         tried |-> {}, late |-> FALSE, gone |-> FALSE, started |-> FALSE,
         delivered |-> 0, resumes |-> 0, logged |-> FALSE, record |-> Failure,
         kept |-> 0]

Init ==
    /\ req = [r \in Requests |-> Idle]
    /\ drain = "no"
    /\ inFlight = 0 /\ queued = 0
    /\ slots = [k \in Keys |-> 0]
    /\ inflight = [w \in Workers |-> 0]
    /\ sticky = [k \in Keys |-> None]
    /\ wstate = [w \in Workers |-> IF w \in Up THEN "idle" ELSE "offline"]
    /\ loaded = Hot /\ verified = SelfRegistered
    /\ switching = {} /\ banned = {}
    /\ balance \in [Wallets -> Balances]
    /\ pending = [w \in {} |-> 0]
    /\ suspended = {} /\ settled = {} /\ hasty = {}
    /\ churn = 0

-----------------------------------------------------------------------------
(* Operators whose name says what they forget (AdjustedUnfloored, ...) are   *)
(* defective variants of the definition after them, for the mutants only.    *)

\* Routable: idle or busy, and not banned.
Servable(w) == wstate[w] \in {"idle", "busy"} /\ w \notin banned

\* The probe admission gate: the claims of self-registered workers need proof.
Admitted(w) == w \in SelfRegistered => w \in verified

\* selectWorkerForModel: the workers weightedPick may return.  A worker that
\* has the model comes first; an idle worker that would have to load it is
\* taken when there is none, or when all of them are overloaded.
selectWorkerForModel(exclude) ==
    LET routable == {w \in Workers \ exclude : Servable(w) /\ Admitted(w)}
        hot      == routable \cap loaded
        cold     == {w \in (routable \cap Supports) \ loaded : wstate[w] = "idle"}
    IN  IF hot = {} THEN cold
        ELSE hot \cup (IF SwitchOnOverload THEN cold ELSE {})

\* anyWorkerSupportsModel, whatever the workers' state.
anyWorkerSupportsModel == loaded \cup Supports # {}

\* isBillable, for a request that has a wallet.
isBillable(rec) == rec.ok /\ rec.total > 0 /\ rec.clean

\* BalanceCache: the pending spend of a wallet, and what it can still reserve.
Pending(w)      == IF w \in DOMAIN pending THEN pending[w] ELSE 0
availableUSD(w) == balance[w] - Pending(w) - MinBalance

Floored(n) == IF n < 0 THEN 0 ELSE n

\* Gateway-metered usage: the estimate of the prompt and the delivered deltas.
Metered(n) == PromptEstimate + n

Goto(r, stage) == req' = [req EXCEPT ![r].pc = stage]

-----------------------------------------------------------------------------
(* handleProxy, up to the reservation.                                       *)

\* The drain check: a request that comes later is answered with a 503.
Arrive(r) ==
    /\ req[r].pc = "new"
    /\ Goto(r, IF drain = "no" THEN "entered" ELSE "done")
    /\ UNCHANGED <<drain, counters, sticky, registry, cache, books, churn>>

\* inFlight.Add(1).
Count(r) ==
    /\ req[r].pc = "entered"
    /\ inFlight' = inFlight + 1
    /\ Goto(r, "counted")
    /\ UNCHANGED <<drain, slots, queued, inflight, sticky, registry, cache, books, churn>>

\* authenticate and AllowRate refuse, or Acquire finds the key's slots taken.
Refuse(r) ==
    /\ req[r].pc = "counted"
    /\ Goto(r, "leave")
    /\ UNCHANGED <<drain, counters, sticky, registry, cache, books, churn>>

\* Acquire.
Acquire(r) ==
    /\ req[r].pc = "counted"
    /\ slots[KeyOf[r]] < MaxInFlight
    /\ slots' = [slots EXCEPT ![KeyOf[r]] = @ + 1]
    /\ Goto(r, "gate")
    /\ UNCHANGED <<drain, inFlight, queued, inflight, sticky, registry, cache, books, churn>>

\* The body is read and checked (400, 413), and IsSuspended is asked (402).
CheckBody(r) ==
    /\ req[r].pc = "gate"
    /\ \/ Goto(r, "release")
       \/ WalletOf[r] \notin suspended /\ Goto(r, "reserve")
    /\ UNCHANGED <<drain, counters, sticky, registry, cache, books, churn>>

\* Does Reserve accept the estimate of a request of wallet w?
Affordable(w) ==
    /\ availableUSD(w) >= Estimate
    /\ MaxPending > 0 => Pending(w) + Estimate <= MaxPending

\* BalanceCache.Reserve: refused with a 402, or the estimate is reserved.
Reserve(r) ==
    LET w == WalletOf[r] IN
    /\ req[r].pc = "reserve"
    /\ IF Affordable(w)
       THEN /\ pending' = [v \in DOMAIN pending \cup {w} |->
                              IF v = w THEN Pending(w) + Estimate ELSE pending[v]]
            /\ Goto(r, "select")
       ELSE Goto(r, "release") /\ UNCHANGED pending
    /\ UNCHANGED <<drain, counters, sticky, registry, cache, settled, hasty, churn>>

-----------------------------------------------------------------------------
(* Writing the log line of a request.                                        *)

\* logRequest(rec), and the return of `kept` to handleProxy.  A failed write
\* is reported and otherwise ignored.  The handler's own variables are gone.
Return(r, s, rec, kept) ==
    LET back == [Idle EXCEPT !.pc = "adjust", !.resumes = s.resumes, !.kept = kept] IN
    \/ req' = [req EXCEPT ![r] = [back EXCEPT !.logged = TRUE, !.record = rec]]
    \/ LogMayFail /\ req' = [req EXCEPT ![r] = back]

\* A stream that broke off after its first bytes and was not resumed.
Interrupted(r, s) ==
    \E ok \in BOOLEAN, total \in Reported \cup {Metered(s.delivered)} :
        Return(r, s, [ok |-> ok, total |-> total, clean |-> FALSE], 0)

\* blockForWorker failed: the caller gives up on the request.
GiveUp(r) ==
    IF req[r].caller = "resume"
    THEN Interrupted(r, req[r])
    ELSE Return(r, req[r], Failure, 0)

-----------------------------------------------------------------------------
(* Choosing a worker.                                                        *)

\* The session's worker is kept as long as it can serve the model.
Sticks(k) ==
    /\ sticky[k] # None
    /\ Servable(sticky[k])
    /\ sticky[k] \in loaded

\* selectWithAffinity finds a worker.
SelectWorker(r) ==
    LET k == KeyOf[r] IN
    /\ req[r].pc = "select"
    /\ \E w \in IF Sticks(k) THEN {sticky[k]} ELSE selectWorkerForModel({}) :
          /\ sticky' = [sticky EXCEPT ![k] = w]
          /\ req' = [req EXCEPT ![r].pc = "dispatch", ![r].target = w,
                                ![r].hot = w \in loaded]
    /\ UNCHANGED <<drain, counters, registry, cache, books, churn>>

\* It finds none: a 404, without a log line, when no worker knows the model.
SelectNone(r) ==
    /\ req[r].pc = "select"
    /\ ~ Sticks(KeyOf[r]) /\ selectWorkerForModel({}) = {}
    /\ Goto(r, IF anyWorkerSupportsModel THEN "block" ELSE "adjust")
    /\ UNCHANGED <<drain, counters, sticky, registry, cache, books, churn>>

\* blockForWorker gives up: the deadline has passed, or, asked before the first
\* window only, a mining worker's estimate says that it will be back too late.
BlockFails(r) ==
    /\ \/ req[r].pc \in {"block", "again"} /\ req[r].late
       \/ req[r].pc = "block" /\ \E w \in loaded \cup Supports : wstate[w] = "mining"
    /\ GiveUp(r)
    /\ UNCHANGED <<drain, counters, sticky, registry, cache, books, churn>>

\* Is there a place left, and does blockForWorker still wait?
InTimeAlways(r)       == TRUE
InTime(r)             == ~ req[r].late
OvershotIfFullThen(n) == MaxQueueSize > 0 /\ n > MaxQueueSize
Overshot(n)           == MaxQueueSize > 0 /\ n + 1 > MaxQueueSize

\* waitForWorkerInternal: take a place, then look whether there was one.
Enqueue(r) ==
    /\ req[r].pc \in {"block", "again"}
    /\ InTime(r)
    /\ queued' = queued + 1
    /\ Goto(r, IF Overshot(queued) THEN "full" ELSE "waiting")
    /\ UNCHANGED <<drain, inFlight, slots, inflight, sticky, registry, cache, books, churn>>

QueueFullKeepsPlace(r) ==
    /\ req[r].pc = "full"
    /\ GiveUp(r)
    /\ UNCHANGED <<drain, counters, sticky, registry, cache, books, churn>>

\* The queue is full: the place is given back and ErrQueueFull returned.
QueueFull(r) ==
    /\ req[r].pc = "full"
    /\ queued' = queued - 1
    /\ GiveUp(r)
    /\ UNCHANGED <<drain, inFlight, slots, inflight, sticky, registry, cache, books, churn>>

\* The poll of the queue finds worker w, which the caller goes on with.
Woken(r, w) ==
    LET s == req[r] IN
    CASE s.caller = "first" ->
            req' = [req EXCEPT ![r].pc = "dispatch", ![r].target = w, ![r].hot = w \in loaded]
      [] s.caller = "retry" ->
            req' = [req EXCEPT ![r].pc = "forward", ![r].target = w, ![r].tried = {}]
      [] s.caller = "resume" /\ w \in Capable ->
            req' = [req EXCEPT ![r].pc = "forward", ![r].target = w, ![r].resumes = @ + 1]
      [] OTHER -> GiveUp(r)

Wake(r) ==
    /\ req[r].pc = "waiting"
    /\ \E w \in selectWorkerForModel({}) : Woken(r, w)
    /\ queued' = queued - 1
    /\ UNCHANGED <<drain, inFlight, slots, inflight, sticky, registry, cache, books, churn>>

\* The queue window ends.  A stream waits until its own deadline, window after
\* window; the other callers allow one window.
WindowEnds(r) ==
    /\ req[r].pc = "waiting"
    /\ queued' = queued - 1
    /\ IF r \in Streaming /\ req[r].caller # "first" THEN Goto(r, "again") ELSE GiveUp(r)
    /\ UNCHANGED <<drain, inFlight, slots, inflight, sticky, registry, cache, books, churn>>

\* The client of a queued request has gone.
WaiterLeaves(r) ==
    /\ req[r].pc = "waiting"
    /\ req[r].gone
    /\ queued' = queued - 1
    /\ GiveUp(r)
    /\ UNCHANGED <<drain, inFlight, slots, inflight, sticky, registry, cache, books, churn>>

\* A request that will make its worker load the model takes the worker out of
\* the rotation: MarkSwitching.
Dispatch(r) ==
    LET w == req[r].target
        switch == ~ req[r].hot /\ w \notin loaded
    IN
    /\ req[r].pc = "dispatch"
    /\ switching' = IF switch THEN switching \cup {w} ELSE switching
    /\ wstate' = IF switch THEN [wstate EXCEPT ![w] = "loading"] ELSE wstate
    /\ req' = [req EXCEPT ![r].pc = "forward", ![r].caller = "retry"]
    /\ UNCHANGED <<drain, counters, sticky, loaded, banned, verified, cache, books, churn>>

-----------------------------------------------------------------------------
(* Forwarding, retrying and resuming.                                        *)

\* IncInflight, and the request goes to the worker.
Forward(r) ==
    /\ req[r].pc = "forward"
    /\ inflight' = [inflight EXCEPT ![req[r].target] = @ + 1]
    /\ Goto(r, "sent")
    /\ UNCHANGED <<drain, inFlight, slots, queued, sticky, registry, cache, books, churn>>

\* The forward is over: the deferred DecInflight.
Back(r) ==
    /\ req[r].pc = "sent"
    /\ inflight' = [inflight EXCEPT ![req[r].target] = Floored(@ - 1)]
    /\ UNCHANGED <<drain, inFlight, slots, queued, sticky, registry, cache, books, churn>>

\* The workers a request has tried, once its target has failed.
TriedNothing(r) == req[r].tried
Tried(r)        == req[r].tried \cup {req[r].target}

\* handleNonStreaming: a transport error or a 503 of the worker.
AttemptFails(r) ==
    /\ Back(r)
    /\ r \notin Streaming
    /\ req' = [req EXCEPT ![r].pc = "retry", ![r].tried = Tried(r)]

\* What handleNonStreaming keeps reserved for an answer.
KeptForAnyAnswer(ok, total) == total
KeptForAnswer(ok, total)    == IF ok THEN total ELSE 0

\* handleNonStreaming: any other answer is logged, sent and final.
Answered(r) ==
    /\ Back(r)
    /\ r \notin Streaming
    /\ \E ok \in BOOLEAN, total \in Reported :
          Return(r, req[r], [ok |-> ok, total |-> total, clean |-> TRUE],
                 KeptForAnswer(ok, total))

\* handleStreaming: the worker fails before any byte reached the client.
StreamFailsEarly(r) ==
    /\ Back(r)
    /\ r \in Streaming
    /\ ~ req[r].started
    /\ req' = [req EXCEPT ![r].pc = "retry", ![r].tried = Tried(r)]

\* A segment delivers n content deltas: it is asked for the remaining tokens.
Segment(r, n) == [req[r] EXCEPT !.started = TRUE, !.delivered = @ + n]
Lengths(r)    == 0 .. (MaxTokens - req[r].delivered)

\* The usage a finished stream is billed: a resumed stream, and a stream
\* without a usage chunk, are metered by the gateway.
BilledAsReported(s, total) ==
    IF total = 0 /\ s.delivered > 0 THEN Metered(s.delivered) ELSE total
Billed(s, total) ==
    IF s.resumes > 0 \/ (total = 0 /\ s.delivered > 0)
    THEN Metered(s.delivered) ELSE total

\* handleStreaming: the segment ends without an error, or after its [DONE].
StreamEnds(r) ==
    /\ Back(r)
    /\ r \in Streaming
    /\ \E n \in Lengths(r), total \in Reported, ok \in BOOLEAN :
          LET s == Segment(r, n)
              billed == Billed(s, total)
          IN  Return(r, s, [ok |-> ok, total |-> billed, clean |-> TRUE], billed)

\* handleStreaming: the segment ends with an error event of the worker.
StreamErrs(r) ==
    /\ Back(r)
    /\ r \in Streaming
    /\ \E n \in Lengths(r) :
          req' = [req EXCEPT ![r] = [Segment(r, n) EXCEPT !.pc = "interrupted"]]

\* handleStreaming: the connection breaks after the first byte.  A client that
\* has gone pays for what it got; else the stream may be resumed.
StreamBreaks(r) ==
    /\ Back(r)
    /\ r \in Streaming
    /\ \E n \in Lengths(r) :
          LET s == Segment(r, n)
              m == Metered(s.delivered)
          IN  IF s.gone /\ s.delivered > 0
              THEN Return(r, s, [ok |-> TRUE, total |-> m, clean |-> TRUE], m)
              ELSE req' = [req EXCEPT ![r] = [s EXCEPT !.pc = "interrupted"]]

\* Another worker that has not been tried, or the queue.
Retry(r) ==
    LET next == selectWorkerForModel(req[r].tried) IN
    /\ req[r].pc = "retry"
    /\ \/ \E w \in next : req' = [req EXCEPT ![r].pc = "forward", ![r].target = w]
       \/ next = {} /\ Goto(r, "block")
    /\ UNCHANGED <<drain, counters, sticky, registry, cache, books, churn>>

\* May an interrupted stream be continued elsewhere?
ResumableForEver(s) ==
    /\ StreamResume
    /\ ~ s.gone /\ ~ s.late
    /\ s.delivered > 0 /\ s.delivered < MaxTokens
Resumable(s) ==
    /\ StreamResume /\ s.resumes < StreamMaxResumes
    /\ ~ s.gone /\ ~ s.late
    /\ s.delivered > 0 /\ s.delivered < MaxTokens

\* tryResume: a worker with the continuation feature, skipping (some) others.
Resume(r) ==
    /\ req[r].pc = "interrupted"
    /\ Resumable(req[r])
    /\ \E skipped \in SUBSET (Workers \ Capable) :
          LET tried == Tried(r) \cup skipped
              next  == selectWorkerForModel(tried)
          IN  \/ \E w \in next \cap Capable :
                    req' = [req EXCEPT ![r].pc = "forward", ![r].target = w,
                                       ![r].tried = tried, ![r].resumes = @ + 1]
              \/ next = {} /\ req' = [req EXCEPT ![r].pc = "block", ![r].tried = tried,
                                                 ![r].caller = "resume"]
    /\ UNCHANGED <<drain, counters, sticky, registry, cache, books, churn>>

\* tryResume gives up; also when the delivered text outgrew its buffer.
ResumeFails(r) ==
    /\ req[r].pc = "interrupted"
    /\ Interrupted(r, req[r])
    /\ UNCHANGED <<drain, counters, sticky, registry, cache, books, churn>>

-----------------------------------------------------------------------------
(* The deferred calls of handleProxy, last one first.                        *)

\* adjustBalance: the reservation becomes what the handler kept.
AdjustedUnfloored(w, kept) == pending[w] - Estimate
AdjustedToZero(w, kept) == Floored(pending[w] - Estimate)
AdjustedSpend(w, kept)  == Floored(pending[w] - (Estimate - kept))

Adjust(r) ==
    LET w == WalletOf[r] IN
    /\ req[r].pc = "adjust"
    /\ pending' = IF w \in DOMAIN pending
                  THEN [pending EXCEPT ![w] = AdjustedSpend(w, req[r].kept)]
                  ELSE pending
    /\ Goto(r, "release")
    /\ UNCHANGED <<drain, counters, sticky, registry, cache, settled, hasty, churn>>

\* release() of the key's slot.
Release(r) ==
    /\ req[r].pc = "release"
    /\ slots' = [slots EXCEPT ![KeyOf[r]] = Floored(@ - 1)]
    /\ Goto(r, "leave")
    /\ UNCHANGED <<drain, inFlight, queued, inflight, sticky, registry, cache, books, churn>>

\* inFlight.Add(-1).
Leave(r) ==
    /\ req[r].pc = "leave"
    /\ inFlight' = inFlight - 1
    /\ Goto(r, "done")
    /\ UNCHANGED <<drain, slots, queued, inflight, sticky, registry, cache, books, churn>>

-----------------------------------------------------------------------------
(* The other actors.                                                         *)

\* The settlement of a logged request is confirmed: SettleSpend.
Settle(r) ==
    LET w == WalletOf[r]
        rest == Pending(w) - req[r].record.total
    IN
    /\ req[r].logged /\ isBillable(req[r].record) /\ r \notin settled
    /\ settled' = settled \cup {r}
    /\ hasty' = IF req[r].pc = "adjust" THEN hasty \cup {r} ELSE hasty
    /\ pending' = IF rest > 0 THEN [pending EXCEPT ![w] = rest]
                  ELSE [v \in DOMAIN pending \ {w} |-> pending[v]]
    /\ UNCHANGED <<req, drain, counters, sticky, registry, cache, churn>>

\* The client disconnects.
ClientLeaves(r) ==
    /\ r \in MayLeave /\ ~ req[r].gone
    /\ req[r].pc \in Reserved \ {"adjust"}
    /\ req' = [req EXCEPT ![r].gone = TRUE]
    /\ UNCHANGED <<drain, counters, sticky, registry, cache, books, churn>>

\* The deadline that the handler set at its start passes.
DeadlinePasses(r) ==
    /\ req[r].caller # "first" /\ ~ req[r].late
    /\ req[r].pc \in Reserved \ {"adjust"}
    /\ req' = [req EXCEPT ![r].late = TRUE]
    /\ UNCHANGED <<drain, counters, sticky, registry, cache, books, churn>>

\* One more event of the registry or of the balance cache.
Event ==
    /\ churn < MaxChurn
    /\ churn' = churn + 1
    /\ UNCHANGED <<req, drain, counters, books>>

\* A successful poll: UpdateState.  A worker that was sent a model switch
\* stays out of the rotation until it reports the model, or for too long.
Poll(w) ==
    /\ Event
    /\ \E derived \in {"idle", "busy", "mining", "loading", "offline"}, has \in BOOLEAN :
          /\ loaded' = IF has THEN loaded \cup {w} ELSE loaded \ {w}
          /\ \/ /\ w \notin switching \/ has
                /\ switching' = switching \ {w}
                /\ wstate' = [wstate EXCEPT ![w] = derived]
             \/ /\ w \in switching /\ ~ has
                /\ \/ /\ switching' = switching
                      /\ wstate' = [wstate EXCEPT ![w] = "loading"]
                   \/ /\ switching' = switching \ {w}
                      /\ wstate' = [wstate EXCEPT ![w] = "offline"]
    /\ UNCHANGED <<sticky, banned, verified, cache>>

\* Failed polls past the threshold: MarkOffline.
MarkOffline(w) ==
    /\ Event
    /\ wstate[w] # "offline"
    /\ wstate' = [wstate EXCEPT ![w] = "offline"]
    /\ UNCHANGED <<sticky, loaded, switching, banned, verified, cache>>

\* SetBan, and the end of a ban.
Ban(w) ==
    /\ Event
    /\ banned' = IF w \in banned THEN banned \ {w} ELSE banned \cup {w}
    /\ UNCHANGED <<sticky, wstate, loaded, switching, verified, cache>>

\* SetVerified replaces the list of a worker's verified models.
Verify(w) ==
    /\ Event
    /\ w \in SelfRegistered
    /\ verified' = IF w \in verified THEN verified \ {w} ELSE verified \cup {w}
    /\ UNCHANGED <<sticky, wstate, loaded, switching, banned, cache>>

\* A session expires.
ExpireSession(k) ==
    /\ Event
    /\ sticky[k] # None
    /\ sticky' = [sticky EXCEPT ![k] = None]
    /\ UNCHANGED <<registry, cache>>

\* refreshWallet reads another balance.
Refresh(w) ==
    /\ Event
    /\ \E b \in Balances \ {balance[w]} : balance' = [balance EXCEPT ![w] = b]
    /\ UNCHANGED <<sticky, registry, suspended>>

\* UpdateDebts suspends a wallet, or lifts its suspension.
UpdateDebts(w) ==
    /\ Event
    /\ suspended' = IF w \in suspended THEN suspended \ {w} ELSE suspended \cup {w}
    /\ UNCHANGED <<sticky, registry, balance>>

\* BeginDrain, and its two ways to return.
BeginDrain ==
    /\ MayDrain /\ drain = "no"
    /\ drain' = "draining"
    /\ churn < MaxChurn /\ churn' = churn + 1
    /\ UNCHANGED <<req, counters, sticky, registry, cache, books>>

DrainEnds ==
    /\ drain = "draining"
    /\ drain' = IF inFlight = 0 THEN "clean" ELSE "timeout"
    /\ UNCHANGED <<req, counters, sticky, registry, cache, books, churn>>

\* A step of the goroutine of request r.
Step(r) ==
    \/ Arrive(r) \/ Count(r) \/ Refuse(r) \/ Acquire(r) \/ CheckBody(r) \/ Reserve(r)
    \/ SelectWorker(r) \/ SelectNone(r) \/ BlockFails(r) \/ Enqueue(r) \/ QueueFull(r)
    \/ Wake(r) \/ WindowEnds(r) \/ WaiterLeaves(r) \/ Dispatch(r) \/ Forward(r)
    \/ AttemptFails(r) \/ Answered(r) \/ StreamFailsEarly(r) \/ StreamEnds(r)
    \/ StreamErrs(r) \/ StreamBreaks(r) \/ Retry(r) \/ Resume(r) \/ ResumeFails(r)
    \/ Adjust(r) \/ Release(r) \/ Leave(r)

Environment ==
    \/ \E r \in Requests : Settle(r) \/ ClientLeaves(r) \/ DeadlinePasses(r)
    \/ \E w \in Workers : Poll(w) \/ MarkOffline(w) \/ Ban(w) \/ Verify(w)
    \/ \E k \in Keys : ExpireSession(k)
    \/ \E w \in Wallets : Refresh(w) \/ UpdateDebts(w)
    \/ BeginDrain \/ DrainEnds

Next == Environment \/ \E r \in Requests : Step(r)

Spec == Init /\ [][Next]_vars

\* Timers expire and goroutines run.  The wait for a plain answer is bounded by
\* the HTTP client's timeout; the body of a stream is not bounded by anything.
Prompt(r) == (r \in Streaming => req[r].pc # "sent") /\ Step(r)

FairSpec ==
    Spec /\ \A r \in Requests : WF_vars(Prompt(r)) /\ WF_vars(DeadlinePasses(r))

-----------------------------------------------------------------------------
(* Properties.                                                               *)

\* Every variable has its type, and no counter or amount is negative.
TypeOK ==
    /\ req \in [Requests -> Goroutine]
    /\ drain \in {"no", "draining", "clean", "timeout"}
    /\ inFlight \in Nat /\ queued \in Nat
    /\ slots \in [Keys -> Nat]
    /\ inflight \in [Workers -> Nat]
    /\ sticky \in [Keys -> Workers \cup {None}]
    /\ wstate \in [Workers -> {"idle", "busy", "mining", "loading", "offline"}]
    /\ loaded \subseteq Workers /\ switching \subseteq Workers
    /\ banned \subseteq Workers /\ verified \subseteq Workers
    /\ balance \in [Wallets -> Balances]
    /\ DOMAIN pending \subseteq Wallets
    /\ \A w \in DOMAIN pending : pending[w] \in Nat
    /\ suspended \subseteq Wallets
    /\ settled \subseteq Requests /\ hasty \subseteq settled
    /\ churn \in 0 .. MaxChurn

At(stages) == {r \in Requests : req[r].pc \in stages}

\* Whatever way a request takes out of the handlers (a refusal, a full queue,
\* retries, a broken or resumed stream, a client that leaves), it gives back
\* its slot, its place in the queue and the worker's in-flight count exactly
\* once: the four counters always count the requests that hold them.
CountersExact ==
    /\ inFlight = Cardinality(At(Stages \ {"new", "entered", "done"}))
    /\ queued = Cardinality(At({"full", "waiting"}))
    /\ \A k \in Keys :
          slots[k] = Cardinality({r \in At(Reserved \cup {"gate", "reserve", "release"}) :
                                     KeyOf[r] = k})
    /\ \A w \in Workers :
          inflight[w] = Cardinality({r \in At({"sent"}) : req[r].target = w})

\* Concurrent arrivals never overshoot the queue or the slots of a key: no
\* more than max_queue_size requests wait, and a key has no more than its
\* requests in the handlers (waitForWorkerInternal, Acquire).
LimitsHold ==
    /\ MaxQueueSize > 0 => Cardinality(At({"waiting"})) <= MaxQueueSize
    /\ \A k \in Keys :
          Cardinality({r \in At(Reserved) : KeyOf[r] = k}) <= MaxInFlight

SumOver(f, S) == Cardinality(UNION {{x} \X (1 .. f[x]) : x \in S})
OfWallet(w)   == {r \in Requests : WalletOf[r] = w}

\* What a request still holds of its wallet's pending spend.
Due(r) ==
    IF req[r].pc \in Reserved
    THEN Estimate - (IF r \in settled THEN req[r].record.total ELSE 0)
    ELSE IF r \in settled THEN 0 ELSE req[r].kept

\* No request cost more than its estimate and was settled before its Adjust.
NoHastyOverrun == \A r \in hasty : req[r].record.total <= Estimate

\* The pending spend of a wallet is the sum of the reservations of the
\* requests in the handlers and of the usage kept for finished ones that are
\* not settled yet, in whatever order requests finish and settle: nothing a
\* failed request reserved is left behind, and nothing is released twice.
PendingExact ==
    NoHastyOverrun =>
        \A w \in Wallets :
            Pending(w) = SumOver([r \in Requests |-> Due(r)], OfWallet(w))

\* What the handler keeps reserved is what settlement will bill: the request
\* has one billable line of that very amount.  (The exceptions: the log write
\* failed; or a stream with an error status, whose usage stays reserved for ever
\* although settlement never bills it.)
KeptIsBilled ==
    \A r \in Requests :
        LET s == req[r] IN
        s.pc \in {"adjust", "release", "leave", "done"} =>
            \/ ~ s.logged
            \/ r \in Streaming /\ ~ s.record.ok
            \/ s.kept = (IF isBillable(s.record) THEN s.record.total ELSE 0)

\* A resumed stream never costs more than was reserved for it: every segment
\* is asked only for the tokens that are left, and the re-fed prefix is free.
ResumedWithinEstimate ==
    \A r \in Requests : req[r].resumes > 0 => req[r].kept <= Estimate

\* Once a client has seen a byte, its request is sent again only to a worker
\* that can continue the text, and only streamMaxResumes times: no client sees
\* its answer start twice.
NoRestartAfterBytes ==
    [][\A r \in Requests :
          (req[r].started /\ req[r].pc = "forward" /\ req'[r].pc = "sent") =>
              /\ req[r].target \in Capable
              /\ req[r].resumes \in 1 .. StreamMaxResumes
              /\ req[r].delivered \in 1 .. MaxTokens - 1]_vars

\* A request that is not streamed is always answered and its handler left,
\* however the workers fail, and even if a stream hangs for ever.
PlainRequestsLeave ==
    \A r \in Requests \ Streaming : req[r].pc = "entered" ~> req[r].pc = "done"

\* No request, streamed or not, waits for a worker for ever: it is forwarded or
\* its handler gives up.
NobodyWaitsForever ==
    \A r \in Requests :
        req[r].pc \in {"block", "again", "full", "waiting"} ~> req[r].pc \in {"sent", "done"}

=============================================================================
