-------------------------------- MODULE Fleet --------------------------------
(***************************************************************************)
(* The worker registry (internal/worker/registry.go), the poller that      *)
(* keeps it current (internal/worker/poller.go) and the model switches     *)
(* that requests start (internal/gateway/gateway.go).                      *)
(*                                                                         *)
(* A registered worker is an entry of reg.  Its endpoint is a machine with *)
(* an engine of its own: the engine loads models, yields to mining and     *)
(* goes down without telling anybody.  The poller reads it in two calls    *)
(* and applies the answer to the entry afterwards, under the registry's    *)
(* lock; in between the worker may be registered again, be removed, or be  *)
(* sent a request that makes it reload.  pollAll waits for every poll of   *)
(* a round, and nothing calls PollNow, so a worker has one poll at a time. *)
(*                                                                         *)
(* Clocks are kept as ages: "none" (the zero time), "fresh", and "old"     *)
(* (longer ago than loadingTimeout).                                       *)
(***************************************************************************)
EXTENDS Naturals, FiniteSets

CONSTANTS
  Workers,      \* worker IDs
  Endpoints,    \* machines a worker may be registered with
  Models,       \* models every worker supports
  None,         \* no model, no entry
  Threshold,    \* failureThreshold of the poller
  MaxEvents     \* bound: registrations, requests, outages, restarts

ASSUME FleetAssumption ==
  /\ Threshold \in Nat \ {0}
  /\ MaxEvents \in Nat
  /\ None \notin Models

VARIABLES
  reg,        \* Registry.workers: the entry of each worker, or None
  polls,      \* where the poll of each worker stands
  engine,     \* each machine as it really is
  requests,   \* requests between the choice of their worker and its engine
  forgotten,  \* history: entries without a switch mark whose machine reloads
  events      \* number of bounded events so far

vars == <<reg, polls, engine, requests, forgotten, events>>

States == {"idle", "busy", "mining", "loading", "offline"}
Routable == {"idle", "busy"}
Ages == {"none", "fresh", "old"}
ModelOrNone == Models \cup {None}

Entry == [ep: Endpoints, state: States, loaded: ModelOrNone,
          switchingTo: ModelOrNone, switchingSince: Ages,
          loadingSince: Ages, fails: 0 .. Threshold + 1]

Engine == [up: BOOLEAN, gpu: {"available", "yielding"}, model: Models,
           next: ModelOrNone]

\* What /ready and /health say of an engine.
Report == [gpu: {"available", "yielding"}, engineState: {"running", "loading"},
           active: {0, 1}, loaded: Models]

Poll == [step: {"none", "failed", "mark"}]
        \cup [step: {"scheduler"}, ep: Endpoints]
        \cup [step: {"health"}, ep: Endpoints, gpu: {"available", "yielding"}]
        \cup [step: {"apply"}, ep: Endpoints, report: Report]

\* ep and loaded are those of the snapshot the router returned.
Request == [worker: Workers, model: Models, ep: Endpoints,
            loaded: ModelOrNone, step: {"routed", "sent"}]

(***************************************************************************)
(* The type invariant.                                                     *)
(***************************************************************************)
TypeOK ==
  /\ reg \in [Workers -> Entry \cup {None}]
  /\ polls \in [Workers -> Poll]
  /\ engine \in [Endpoints -> Engine]
  /\ requests \subseteq Request
  /\ forgotten \subseteq Workers \X Endpoints
  /\ events \in 0 .. MaxEvents
  /\ \A w \in Workers : reg[w] # None =>
       /\ (reg[w].switchingTo = None) = (reg[w].switchingSince = "none")
       /\ reg[w].state = "busy" => reg[w].switchingTo = None

Registered == {w \in Workers : reg[w] # None}

\* Of the entries r, those that do not mark the reload their machine is in.
Unmarked(r, eng) ==
  {<<w, r[w].ep>> : w \in {v \in Workers : r[v] # None /\ eng[r[v].ep].next \notin {None, r[v].switchingTo}}}

Event == events < MaxEvents /\ events' = events + 1

NewEntry(e) ==
  [ep |-> e, state |-> "offline", loaded |-> None, switchingTo |-> None,
   switchingSince |-> "none", loadingSince |-> "none", fails |-> 0]

NoPoll == [step |-> "none"]

Init ==
  /\ reg = [w \in Workers |-> None]
  /\ polls = [w \in Workers |-> NoPoll]
  /\ engine \in [Endpoints -> [up: {TRUE}, gpu: {"available"}, model: Models, next: {None}]]
  /\ requests = {}
  /\ forgotten = {}
  /\ events = 0

-----------------------------------------------------------------------------
(***************************************************************************)
(* Registration.                                                           *)
(***************************************************************************)
\* Register: an existing entry keeps its runtime state.
Register(w, e) ==
  /\ Event
  /\ reg' = [reg EXCEPT ![w] = IF @ = None THEN NewEntry(e) ELSE [@ EXCEPT !.ep = e]]
  /\ forgotten' = forgotten \cup Unmarked(reg', engine)
  /\ UNCHANGED <<polls, engine, requests>>

Deregister(w) ==
  /\ Event
  /\ w \in Registered
  /\ reg' = [reg EXCEPT ![w] = None]
  /\ UNCHANGED <<polls, engine, requests, forgotten>>

\* The gateway stops and loadFromDisk brings the entries back, offline.
Restart ==
  /\ Event
  /\ reg' = [w \in Workers |-> IF reg[w] = None THEN None ELSE NewEntry(reg[w].ep)]
  /\ polls' = [w \in Workers |-> NoPoll]
  /\ requests' = {q \in requests : q.step = "sent"}
  /\ forgotten' = forgotten \cup Unmarked(reg', engine)
  /\ UNCHANGED engine

-----------------------------------------------------------------------------
(***************************************************************************)
(* The poller.                                                             *)
(***************************************************************************)
\* DeriveState.  A reloading engine with its GPU available is "loading".
DeriveState(report) ==
  IF report.gpu # "available" THEN "mining"
  ELSE IF report.engineState = "loading" THEN "loading"
  ELSE IF report.active > 0 THEN "busy" ELSE "idle"

\* Mutant: a switch never times out.
SwitchNeverLate(en, report) == FALSE

\* The switch of UpdateState on SwitchingTo: what is derived while it is set.
SwitchDone(en, report) == en.switchingTo # None /\ report.loaded = en.switchingTo
SwitchLate(en, report) ==
  en.switchingTo # None /\ report.loaded # en.switchingTo /\ en.switchingSince = "old"

\* Mutant: the poll decides although a switch is under way.
DerivedFromPoll(en, report) ==
  IF SwitchLate(en, report) THEN "offline" ELSE DeriveState(report)

Derived(en, report) ==
  CASE en.switchingTo = None \/ SwitchDone(en, report) -> DeriveState(report)
    [] SwitchLate(en, report)                          -> "offline"
    [] OTHER                                           -> "loading"

\* UpdateState.
Updated(en, report) ==
  LET over    == SwitchDone(en, report) \/ SwitchLate(en, report)
      derived == Derived(en, report)
  IN  [en EXCEPT
        !.fails = 0,
        !.loaded = report.loaded,
        !.switchingTo = IF over THEN None ELSE @,
        !.switchingSince = IF over THEN "none" ELSE @,
        !.loadingSince = IF derived # "loading" THEN "none"
                         ELSE IF @ = "none" THEN "fresh" ELSE @,
        !.state = IF derived = "loading" /\ en.loadingSince = "old"
                  THEN "offline" ELSE derived]

\* RecordPollFailure recommends to mark the worker offline.
ShouldMarkOffline(en, fails) == fails >= Threshold /\ en.state # "offline"

\* MarkOffline.
Offline(en) == [en EXCEPT !.state = "offline"]

\* pollAll: a round starts when the last one is over.
PollAll ==
  /\ Registered # {}
  /\ \A w \in Workers : polls[w] = NoPoll
  /\ polls' = [w \in Workers |->
                 IF w \in Registered THEN [step |-> "scheduler", ep |-> reg[w].ep] ELSE NoPoll]
  /\ UNCHANGED <<reg, engine, requests, forgotten, events>>

\* fetchGPUState.
FetchGPUState(w) ==
  /\ polls[w].step = "scheduler"
  /\ LET e == polls[w].ep IN
     polls' = [polls EXCEPT ![w] =
                 IF engine[e].up THEN [step |-> "health", ep |-> e, gpu |-> engine[e].gpu]
                 ELSE [step |-> "failed"]]
  /\ UNCHANGED <<reg, engine, requests, forgotten, events>>

\* What /health may say: a reloading engine reports the old model, as
\* "running" or, in some versions, as "loading".
Reports(e, gpu) ==
  [gpu: {gpu}, engineState: IF engine[e].next = None THEN {"running"} ELSE {"running", "loading"},
   active: {0, 1}, loaded: {engine[e].model}]

\* fetchInferenceHealth.
FetchHealth(w) ==
  /\ polls[w].step = "health"
  /\ LET e == polls[w].ep IN
       \/ /\ engine[e].up
          /\ \E report \in Reports(e, polls[w].gpu) :
               polls' = [polls EXCEPT ![w] = [step |-> "apply", ep |-> e, report |-> report]]
       \/ /\ ~engine[e].up
          /\ polls' = [polls EXCEPT ![w] = [step |-> "failed"]]
  /\ UNCHANGED <<reg, engine, requests, forgotten, events>>

\* The end of pollWorker: the answer is applied to whatever entry the ID has now.
UpdateState(w) ==
  /\ polls[w].step = "apply"
  /\ polls' = [polls EXCEPT ![w] = NoPoll]
  /\ reg' = IF reg[w] = None THEN reg
            ELSE [reg EXCEPT ![w] = Updated(@, polls[w].report)]
  /\ forgotten' = IF reg[w] # None /\ (\/ SwitchLate(reg[w], polls[w].report)
                                       \/ polls[w].ep # reg[w].ep)
                  THEN forgotten \cup Unmarked(reg', engine) ELSE forgotten
  /\ UNCHANGED <<engine, requests, events>>

Saturated(n) == IF n > Threshold THEN Threshold + 1 ELSE n

\* RecordPollFailure, the first half of handlePollFailure.
RecordPollFailure(w) ==
  /\ polls[w].step = "failed"
  /\ \/ /\ reg[w] = None
        /\ polls' = [polls EXCEPT ![w] = NoPoll]
        /\ UNCHANGED reg
     \/ /\ reg[w] # None
        /\ LET fails == Saturated(reg[w].fails + 1) IN
             /\ reg' = [reg EXCEPT ![w].fails = fails]
             /\ polls' = [polls EXCEPT ![w] =
                  IF ShouldMarkOffline(reg[w], fails) THEN [step |-> "mark"] ELSE NoPoll]
  /\ UNCHANGED <<engine, requests, forgotten, events>>

\* MarkOffline, the second half, under the lock again.
MarkOffline(w) ==
  /\ polls[w].step = "mark"
  /\ polls' = [polls EXCEPT ![w] = NoPoll]
  /\ reg' = IF reg[w] = None THEN reg ELSE [reg EXCEPT ![w] = Offline(@)]
  /\ UNCHANGED <<engine, requests, forgotten, events>>

\* Time: a clock of an entry passes loadingTimeout.
GrowsOld(w) ==
  /\ w \in Registered
  /\ \/ /\ reg[w].switchingSince = "fresh"
        /\ reg' = [reg EXCEPT ![w].switchingSince = "old"]
     \/ /\ reg[w].loadingSince = "fresh"
        /\ reg' = [reg EXCEPT ![w].loadingSince = "old"]
  /\ UNCHANGED <<polls, engine, requests, forgotten, events>>

-----------------------------------------------------------------------------
(***************************************************************************)
(* Requests.                                                               *)
(***************************************************************************)
\* The router returns a copy of an entry that is idle or busy.
Route(w, m) ==
  /\ Event
  /\ w \in Registered /\ reg[w].state \in Routable
  /\ requests' = requests \cup
       {[worker |-> w, model |-> m, ep |-> reg[w].ep, loaded |-> reg[w].loaded, step |-> "routed"]}
  /\ UNCHANGED <<reg, polls, engine, forgotten>>

\* MarkSwitching.
Switching(en, m) ==
  IF en.loaded = m THEN en
  ELSE [en EXCEPT !.state = "loading", !.switchingTo = m,
                  !.switchingSince = IF en.switchingTo = m THEN @ ELSE "fresh"]

\* handleChatCompletions marks the worker if its copy has another model
\* loaded; a retry on another worker (handleNonStreaming) marks nothing.
Send(q, retry) ==
  /\ q \in requests /\ q.step = "routed"
  /\ requests' = (requests \ {q}) \cup {[q EXCEPT !.step = "sent"]}
  /\ reg' = IF retry \/ reg[q.worker] = None \/ q.loaded = q.model THEN reg
            ELSE [reg EXCEPT ![q.worker] = Switching(@, q.model)]
  /\ forgotten' = forgotten \cup Unmarked(reg', engine)
  /\ UNCHANGED <<polls, engine, events>>

\* The engine takes requests one model at a time, and reloads for another.
Arrive(q) ==
  /\ q \in requests /\ q.step = "sent"
  /\ ~engine[q.ep].up \/ engine[q.ep].next = None
  /\ requests' = requests \ {q}
  /\ LET e == q.ep
         reloads == engine[e].up /\ engine[e].gpu = "available" /\ engine[e].model # q.model
     IN  /\ engine' = IF reloads THEN [engine EXCEPT ![e].next = q.model] ELSE engine
         /\ forgotten' = forgotten \cup Unmarked(reg, engine')
  /\ UNCHANGED <<reg, polls, events>>

\* A reload (minutes) outlasts the way of an answer to the gateway (at most
\* the poll timeout, 5 s): no answer read before its end is applied after it.
ReloadEnds(e, done) ==
  /\ engine[e].next # None
  /\ \A w \in Workers : ~(polls[w].step = "apply" /\ polls[w].ep = e)
  /\ engine' = [engine EXCEPT ![e].model = IF done THEN engine[e].next ELSE @, ![e].next = None]
  /\ forgotten' = {f \in forgotten : f[2] # e}
  /\ UNCHANGED <<reg, polls, requests, events>>

\* Outages, recoveries, mining.
EngineEvent(e) ==
  /\ Event
  /\ \/ engine' = [engine EXCEPT ![e].up = ~@, ![e].next = None]
     \/ engine' = [engine EXCEPT ![e].gpu = IF @ = "available" THEN "yielding" ELSE "available"]
  /\ forgotten' = {f \in forgotten : engine'[f[2]].next # None}
  /\ UNCHANGED <<reg, polls, requests>>

-----------------------------------------------------------------------------
PollStep(w) ==
  \/ FetchGPUState(w) \/ FetchHealth(w) \/ UpdateState(w)
  \/ RecordPollFailure(w) \/ MarkOffline(w)

Next ==
  \/ \E w \in Workers, e \in Endpoints : Register(w, e)
  \/ \E w \in Workers : Deregister(w)
  \/ Restart
  \/ PollAll
  \/ \E w \in Workers : PollStep(w)
  \/ \E w \in Workers : GrowsOld(w)
  \/ \E w \in Workers, m \in Models : Route(w, m)
  \/ \E q \in requests : \E retry \in BOOLEAN : Send(q, retry)
  \/ \E q \in requests : Arrive(q)
  \/ \E e \in Endpoints : \E done \in BOOLEAN : ReloadEnds(e, done)
  \/ \E e \in Endpoints : EngineEvent(e)

\* The ticker of Run and the timeout of every call drive the poller, time
\* passes, and what was routed is sent and answered.
Fairness ==
  /\ WF_vars(PollAll)
  /\ \A w \in Workers : WF_vars(PollStep(w)) /\ WF_vars(GrowsOld(w))
  /\ WF_vars(\E q \in requests : \E retry \in BOOLEAN : Send(q, retry))
  /\ WF_vars(\E q \in requests : Arrive(q))

Spec == Init /\ [][Next]_vars /\ Fairness

-----------------------------------------------------------------------------
(***************************************************************************)
(* While an engine reloads for a request that was marked, its worker is    *)
(* not offered to other requests, whatever polls, outages, offline marks   *)
(* and registrations happen meanwhile (registry.go: "While SwitchingTo is  *)
(* set, force loading so the router excludes the worker").  Excepted are   *)
(* the reloads the entry was not told of (a retry, a restart, a second ID  *)
(* of the same machine), has given up on (loadingTimeout), or took for     *)
(* done on the word of the machine the worker was registered with before:  *)
(* forgotten.                                                              *)
(***************************************************************************)
NoRequestsOntoReload ==
  \A w \in Registered :
    engine[reg[w].ep].next # None /\ <<w, reg[w].ep>> \notin forgotten
      => reg[w].state \notin Routable

Healthy(w) ==
  /\ w \in Registered
  /\ LET en == engine[reg[w].ep] IN en.up /\ en.gpu = "available" /\ en.next = None

Unreachable(w) == w \in Registered /\ ~engine[reg[w].ep].up

(***************************************************************************)
(* The registry comes to tell the truth: a worker whose machine stays      *)
(* ready is offered to requests again and for good, and one whose machine  *)
(* stays unreachable is offline for good, whatever switches, timeouts,     *)
(* late answers and restarts went before (UpdateState, handlePollFailure). *)
(***************************************************************************)
EventuallyTruthful ==
  \A w \in Workers :
    /\ <>[]Healthy(w) => <>[](Healthy(w) /\ reg[w].state \in Routable)
    /\ <>[]Unreachable(w) => <>[](Unreachable(w) /\ reg[w].state = "offline")
=============================================================================
