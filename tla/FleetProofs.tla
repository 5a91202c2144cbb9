----------------------------- MODULE FleetProofs -----------------------------
(***************************************************************************)
(* A reloading worker is kept out of the routing, for any number of        *)
(* workers, machines and models, whatever the poller and the operators do. *)
(***************************************************************************)
EXTENDS Fleet, TLAPS

\* An entry that does not mark its machine's reload is known not to.
ReloadsMarked ==
  \A w \in Workers :
    reg[w] # None /\ engine[reg[w].ep].next # None /\ reg[w].switchingTo # engine[reg[w].ep].next
      => <<w, reg[w].ep>> \in forgotten

\* The mark and the state go together: a marked entry is not routable.
MarkExcludes ==
  \A w \in Workers : reg[w] # None /\ reg[w].state \in Routable => reg[w].switchingTo = None

\* An answer on its way names the model its machine still has loaded.
AnswersCurrent ==
  \A w \in Workers : polls[w].step = "apply" => polls[w].report.loaded = engine[polls[w].ep].model

\* A reload is for another model.
ReloadsChange == \A e \in Endpoints : engine[e].next # engine[e].model

IInv == TypeOK /\ ReloadsMarked /\ MarkExcludes /\ AnswersCurrent /\ ReloadsChange

-----------------------------------------------------------------------------
(***************************************************************************)
(* Entries.                                                                *)
(***************************************************************************)
\* What TypeOK says of one entry.
EntryOK(en) ==
  /\ en \in Entry
  /\ (en.switchingTo = None) = (en.switchingSince = "none")
  /\ en.state = "busy" => en.switchingTo = None

\* And with it, what MarkExcludes says of one.
GoodEntry(en) == EntryOK(en) /\ (en.state \in Routable => en.switchingTo = None)

RegOK == \A w \in Workers : reg[w] # None => GoodEntry(reg[w])

LEMMA RegParts ==
  TypeOK /\ MarkExcludes <=>
    /\ reg \in [Workers -> Entry \cup {None}] /\ RegOK
    /\ polls \in [Workers -> Poll] /\ engine \in [Endpoints -> Engine]
    /\ requests \subseteq Request /\ forgotten \subseteq Workers \X Endpoints
    /\ events \in 0 .. MaxEvents
BY DEF TypeOK, MarkExcludes, RegOK, GoodEntry, EntryOK

LEMMA NewEntryGood ==
  ASSUME NEW e \in Endpoints
  PROVE  GoodEntry(NewEntry(e))
BY FleetAssumption DEF FleetAssumption, GoodEntry, EntryOK, Entry, NewEntry, States, Ages, ModelOrNone, Routable

\* The changes of an entry that leave its marks alone.
LEMMA QuietChanges ==
  ASSUME NEW en, GoodEntry(en)
  PROVE  /\ \A e \in Endpoints : GoodEntry([en EXCEPT !.ep = e])
         /\ \A n \in 0 .. Threshold + 1 : GoodEntry([en EXCEPT !.fails = n])
         /\ GoodEntry(Offline(en))
         /\ en.switchingSince = "fresh" => GoodEntry([en EXCEPT !.switchingSince = "old"])
         /\ GoodEntry([en EXCEPT !.loadingSince = "old"])
<1>1. \A e \in Endpoints : GoodEntry([en EXCEPT !.ep = e])
  BY DEF GoodEntry, EntryOK, Entry
<1>2. \A n \in 0 .. Threshold + 1 : GoodEntry([en EXCEPT !.fails = n])
  BY DEF GoodEntry, EntryOK, Entry
<1>3. GoodEntry(Offline(en))
  BY DEF GoodEntry, EntryOK, Entry, Offline, States, Routable
<1>4. en.switchingSince = "fresh" => GoodEntry([en EXCEPT !.switchingSince = "old"])
  BY DEF GoodEntry, EntryOK, Entry, Ages
<1>5. GoodEntry([en EXCEPT !.loadingSince = "old"])
  BY DEF GoodEntry, EntryOK, Entry, Ages
<1> QED BY <1>1, <1>2, <1>3, <1>4, <1>5

\* MarkSwitching.
LEMMA SwitchingGood ==
  ASSUME NEW en, GoodEntry(en), NEW m \in Models
  PROVE  GoodEntry(Switching(en, m)) /\ Switching(en, m).ep = en.ep
<1>1. CASE en.loaded = m
  BY <1>1 DEF Switching
<1>2. CASE en.loaded # m
  <2>1. Switching(en, m) = [en EXCEPT !.state = "loading", !.switchingTo = m,
                                      !.switchingSince = IF en.switchingTo = m THEN en.switchingSince ELSE "fresh"]
    BY <1>2 DEF Switching, GoodEntry, EntryOK, Entry
  <2> DEFINE since == IF en.switchingTo = m THEN en.switchingSince ELSE "fresh"
  <2>2. since \in Ages /\ since # "none" /\ m # None
    BY FleetAssumption DEF FleetAssumption, GoodEntry, EntryOK, Entry, Ages
  <2> HIDE DEF since
  <2>3. /\ Switching(en, m) \in Entry /\ Switching(en, m).ep = en.ep
        /\ Switching(en, m).state = "loading" /\ Switching(en, m).switchingTo = m
        /\ Switching(en, m).switchingSince = since
    BY <2>1, <2>2 DEF since, GoodEntry, EntryOK, Entry, States, Ages, ModelOrNone
  <2> QED BY <2>2, <2>3 DEF GoodEntry, EntryOK, Routable
<1> QED BY <1>1, <1>2

\* UpdateState: an entry keeps its mark, and stays out of the routing,
\* unless the answer names the awaited model or the switch is late.
LEMMA UpdatedGood ==
  ASSUME NEW en, GoodEntry(en), NEW report \in Report
  PROVE  /\ GoodEntry(Updated(en, report)) /\ Updated(en, report).ep = en.ep
         /\ ~SwitchDone(en, report) /\ ~SwitchLate(en, report) =>
              Updated(en, report).switchingTo = en.switchingTo
<1> DEFINE over == SwitchDone(en, report) \/ SwitchLate(en, report)
           derived == Derived(en, report)
           u == Updated(en, report)
<1>1. derived \in States
  BY DEF Derived, DeriveState, States
<1>2. ~over /\ en.switchingTo # None => derived = "loading"
  BY DEF Derived
<1> HIDE DEF over, derived
<1> DEFINE to == IF over THEN None ELSE en.switchingTo
           ss == IF over THEN "none" ELSE en.switchingSince
           ls == IF derived # "loading" THEN "none"
                 ELSE IF en.loadingSince = "none" THEN "fresh" ELSE en.loadingSince
           st == IF derived = "loading" /\ en.loadingSince = "old" THEN "offline" ELSE derived
<1>3. u = [en EXCEPT !.fails = 0, !.loaded = report.loaded, !.switchingTo = to,
                     !.switchingSince = ss, !.loadingSince = ls, !.state = st]
  BY DEF Updated, over, derived
<1>4. /\ report.loaded \in ModelOrNone /\ 0 \in 0 .. Threshold + 1 /\ en \in Entry
      /\ to \in ModelOrNone /\ ss \in Ages /\ ls \in Ages /\ st \in States
  BY <1>1, FleetAssumption
  DEF Report, ModelOrNone, Ages, States, FleetAssumption, GoodEntry, EntryOK, Entry
<1> HIDE DEF u, to, ss, ls, st
<1>5. u \in Entry /\ u.ep = en.ep /\ u.state = st /\ u.switchingTo = to /\ u.switchingSince = ss
  BY <1>3, <1>4 DEF Entry
<1>6. (u.switchingTo = None) = (u.switchingSince = "none")
  BY <1>5 DEF GoodEntry, EntryOK, to, ss
<1>7. u.state \in Routable \cup {"busy"} => u.switchingTo = None
  <2>1. u.state \in Routable \cup {"busy"} => derived # "loading"
    BY <1>5 DEF Routable, st
  <2> QED BY <1>2, <1>5, <2>1 DEF to
<1>8. u.ep = en.ep /\ (~over => u.switchingTo = en.switchingTo)
  BY <1>5 DEF to
<1> QED BY <1>5, <1>6, <1>7, <1>8 DEF GoodEntry, EntryOK, u, over

LEMMA PollFields ==
  ASSUME NEW p \in Poll
  PROVE  /\ p.step \in {"scheduler", "health", "apply"} => p.ep \in Endpoints
         /\ p.step = "health" => p.gpu \in {"available", "yielding"}
         /\ p.step = "apply" => p.report \in Report
BY DEF Poll

-----------------------------------------------------------------------------
(***************************************************************************)
(* Every step preserves the invariant.                                     *)
(***************************************************************************)
LEMMA InitInv == Init => IInv
<1> SUFFICES ASSUME Init PROVE IInv
  OBVIOUS
<1>1. NoPoll \in Poll /\ NoPoll.step = "none"
  BY DEF NoPoll, Poll
<1>2. \A e \in Endpoints : engine[e] \in Engine /\ engine[e].next = None /\ engine[e].model \in Models
  BY DEF Init, Engine, ModelOrNone
<1>3. engine \in [Endpoints -> Engine]
  BY <1>2 DEF Init
<1>4. TypeOK
  BY <1>1, <1>3, FleetAssumption DEF Init, TypeOK, FleetAssumption
<1>5. ReloadsMarked /\ MarkExcludes
  BY DEF Init, ReloadsMarked, MarkExcludes
<1>6. AnswersCurrent
  BY <1>1 DEF Init, AnswersCurrent
<1>7. ReloadsChange
  BY <1>2, FleetAssumption DEF ReloadsChange, FleetAssumption
<1> QED BY <1>4, <1>5, <1>6, <1>7 DEF IInv

LEMMA EventType ==
  ASSUME events \in 0 .. MaxEvents, Event \/ events' = events
  PROVE  events' \in 0 .. MaxEvents
BY FleetAssumption DEF FleetAssumption, Event

\* A step that changes the entry of one worker.
LEMMA OneEntry ==
  ASSUME reg \in [Workers -> Entry \cup {None}], RegOK, NEW w \in Workers, NEW en,
         en = None \/ GoodEntry(en), reg' = [reg EXCEPT ![w] = en]
  PROVE  /\ reg' \in [Workers -> Entry \cup {None}] /\ RegOK' /\ reg'[w] = en
         /\ \A v \in Workers : v # w => reg'[v] = reg[v]
<1>1. en \in Entry \cup {None}
  BY DEF GoodEntry, EntryOK
<1>2. reg'[w] = en /\ \A v \in Workers : v # w => reg'[v] = reg[v]
  OBVIOUS
<1> QED BY <1>1, <1>2 DEF RegOK

\* What is left to show of a step that keeps everything typed.
Typed ==
  /\ reg \in [Workers -> Entry \cup {None}] /\ RegOK
  /\ polls \in [Workers -> Poll] /\ engine \in [Endpoints -> Engine]
  /\ requests \subseteq Request /\ forgotten \subseteq Workers \X Endpoints
  /\ events \in 0 .. MaxEvents

LEMMA TypedParts == TypeOK /\ MarkExcludes <=> Typed
BY RegParts DEF Typed

LEMMA TypedNext ==
  ASSUME Typed', ReloadsMarked', AnswersCurrent', ReloadsChange'
  PROVE  IInv'
BY DEF IInv, Typed, TypeOK, MarkExcludes, RegOK, GoodEntry, EntryOK

LEMMA UnmarkedPairs ==
  ASSUME NEW r, NEW eng,
         \A v \in Workers : r[v] # None => r[v].ep \in Endpoints
  PROVE  /\ Unmarked(r, eng) \subseteq Workers \X Endpoints
         /\ \A v \in Workers : r[v] # None /\ eng[r[v].ep].next # None /\ r[v].switchingTo # eng[r[v].ep].next
              => <<v, r[v].ep>> \in Unmarked(r, eng)
BY DEF Unmarked

\* Steps of the registry alone that forget what they must.
LEMMA Recorded ==
  ASSUME reg' \in [Workers -> Entry \cup {None}], RegOK', engine' = engine,
         forgotten \subseteq Workers \X Endpoints, forgotten' = forgotten \cup Unmarked(reg', engine)
  PROVE  ReloadsMarked' /\ forgotten' \subseteq Workers \X Endpoints
<1>1. \A v \in Workers : reg'[v] # None => reg'[v].ep \in Endpoints
  BY DEF RegOK, GoodEntry, EntryOK, Entry
<1>2. /\ Unmarked(reg', engine) \subseteq Workers \X Endpoints
      /\ \A v \in Workers : /\ reg'[v] # None /\ engine[reg'[v].ep].next # None
                            /\ reg'[v].switchingTo # engine[reg'[v].ep].next
           => <<v, reg'[v].ep>> \in Unmarked(reg', engine)
  BY <1>1, UnmarkedPairs
<1> QED BY <1>2 DEF ReloadsMarked

LEMMA RegistrationNext ==
  ASSUME IInv,
         \/ \E w \in Workers, e \in Endpoints : Register(w, e)
         \/ \E w \in Workers : Deregister(w)
  PROVE  IInv'
<1>0. Typed /\ ReloadsMarked /\ AnswersCurrent /\ ReloadsChange
  BY TypedParts DEF IInv
<1>1. polls' = polls /\ engine' = engine /\ requests' = requests /\ events' \in 0 .. MaxEvents
  BY <1>0, EventType DEF Register, Deregister, Typed
<1>2. AnswersCurrent' /\ ReloadsChange'
  BY <1>0, <1>1 DEF AnswersCurrent, ReloadsChange
<1>3. ASSUME NEW w \in Workers, NEW e \in Endpoints, Register(w, e)
      PROVE  IInv'
  <2> DEFINE en == IF reg[w] = None THEN NewEntry(e) ELSE [reg[w] EXCEPT !.ep = e]
  <2>1. GoodEntry(en)
    BY <1>0, NewEntryGood, QuietChanges DEF Typed, RegOK
  <2>2. reg' = [reg EXCEPT ![w] = en] /\ forgotten' = forgotten \cup Unmarked(reg', engine)
    BY <1>3 DEF Register
  <2> HIDE DEF en
  <2>3. reg' \in [Workers -> Entry \cup {None}] /\ RegOK'
    BY <1>0, <2>1, <2>2, OneEntry DEF Typed
  <2>4. ReloadsMarked' /\ forgotten' \subseteq Workers \X Endpoints
    BY <1>0, <1>1, <2>2, <2>3, Recorded DEF Typed
  <2>5. Typed'
    BY <1>0, <1>1, <2>3, <2>4 DEF Typed
  <2> QED BY <1>2, <2>4, <2>5, TypedNext
<1>4. ASSUME NEW w \in Workers, Deregister(w)
      PROVE  IInv'
  <2>1. reg' = [reg EXCEPT ![w] = None] /\ forgotten' = forgotten
    BY <1>4 DEF Deregister
  <2>2. /\ reg' \in [Workers -> Entry \cup {None}] /\ RegOK' /\ reg'[w] = None
        /\ \A v \in Workers : v # w => reg'[v] = reg[v]
    BY <1>0, <2>1, OneEntry DEF Typed
  <2>3. ReloadsMarked'
    BY <1>0, <1>1, <2>1, <2>2 DEF ReloadsMarked
  <2>4. Typed'
    BY <1>0, <1>1, <2>1, <2>2 DEF Typed
  <2> QED BY <1>2, <2>3, <2>4, TypedNext
<1> QED BY <1>3, <1>4

LEMMA RestartNext ==
  ASSUME IInv, Restart
  PROVE  IInv'
<1>0. Typed /\ ReloadsChange
  BY TypedParts DEF IInv
<1>1. /\ engine' = engine /\ requests' \subseteq requests /\ events' \in 0 .. MaxEvents
      /\ polls' = [w \in Workers |-> NoPoll]
  BY <1>0, EventType DEF Restart, Typed
<1>2. \A w \in Workers : reg'[w] = IF reg[w] = None THEN None ELSE NewEntry(reg[w].ep)
  BY DEF Restart
<1>3. \A w \in Workers : reg[w] # None => GoodEntry(NewEntry(reg[w].ep)) /\ NewEntry(reg[w].ep) \in Entry
  BY <1>0, NewEntryGood DEF Typed, RegOK, GoodEntry, EntryOK, Entry
<1>4. reg' \in [Workers -> Entry \cup {None}] /\ RegOK'
  <2>1. reg' = [w \in Workers |-> IF reg[w] = None THEN None ELSE NewEntry(reg[w].ep)]
    BY DEF Restart
  <2>2. reg' \in [Workers -> Entry \cup {None}]
    BY <1>3, <2>1
  <2> QED BY <1>2, <1>3, <2>2 DEF RegOK
<1>5. ReloadsMarked' /\ forgotten' \subseteq Workers \X Endpoints
  BY <1>0, <1>1, <1>4, Recorded DEF Restart, Typed
<1>6. NoPoll \in Poll /\ NoPoll.step = "none"
  BY DEF NoPoll, Poll
<1>7. AnswersCurrent' /\ ReloadsChange'
  BY <1>0, <1>1, <1>6 DEF AnswersCurrent, ReloadsChange
<1>8. Typed'
  BY <1>0, <1>1, <1>4, <1>5, <1>6 DEF Typed
<1> QED BY <1>5, <1>7, <1>8, TypedNext

\* Steps of the poller before the answer is applied.
LEMMA FetchNext ==
  ASSUME IInv, PollAll \/ \E w \in Workers : FetchGPUState(w) \/ FetchHealth(w)
  PROVE  IInv'
<1>0. Typed /\ ReloadsMarked /\ AnswersCurrent /\ ReloadsChange
  BY TypedParts DEF IInv
<1>1. UNCHANGED <<reg, engine, requests, forgotten, events>>
  BY DEF PollAll, FetchGPUState, FetchHealth
<1>2. polls' \in [Workers -> Poll] /\ AnswersCurrent'
  <2>1. CASE PollAll
    <3>1. \A w \in Workers : polls'[w] = IF w \in Registered THEN [step |-> "scheduler", ep |-> reg[w].ep] ELSE NoPoll
      BY <2>1 DEF PollAll
    <3>2. \A w \in Workers : w \in Registered => reg[w].ep \in Endpoints
      BY <1>0 DEF Typed, RegOK, Registered, GoodEntry, EntryOK, Entry
    <3>3. \A w \in Workers : polls'[w] \in Poll /\ polls'[w].step # "apply"
      <4>1. NoPoll \in Poll /\ NoPoll.step # "apply"
        BY DEF Poll, NoPoll
      <4>2. \A e \in Endpoints : /\ [step |-> "scheduler", ep |-> e] \in Poll
                                 /\ [step |-> "scheduler", ep |-> e].step # "apply"
        BY DEF Poll
      <4> QED BY <3>1, <3>2, <4>1, <4>2
    <3>4. polls' \in [Workers -> Poll]
      BY <2>1, <3>3 DEF PollAll
    <3> QED BY <3>3, <3>4 DEF AnswersCurrent
  <2>2. ASSUME NEW w \in Workers, FetchGPUState(w)
        PROVE  polls' \in [Workers -> Poll] /\ AnswersCurrent'
    <3> DEFINE e == polls[w].ep
               p == IF engine[e].up THEN [step |-> "health", ep |-> e, gpu |-> engine[e].gpu]
                    ELSE [step |-> "failed"]
    <3>1. polls' = [polls EXCEPT ![w] = p]
      BY <2>2 DEF FetchGPUState
    <3>2. e \in Endpoints /\ engine[e].gpu \in {"available", "yielding"}
      BY <1>0, <2>2, PollFields DEF FetchGPUState, Typed, Engine
    <3>3. p \in Poll /\ p.step # "apply"
      BY <3>2 DEF Poll
    <3> HIDE DEF p
    <3> QED BY <1>0, <1>1, <3>1, <3>3 DEF AnswersCurrent, Typed
  <2>3. ASSUME NEW w \in Workers, FetchHealth(w)
        PROVE  polls' \in [Workers -> Poll] /\ AnswersCurrent'
    <3> DEFINE e == polls[w].ep
    <3>1. e \in Endpoints /\ polls[w].gpu \in {"available", "yielding"} /\ engine[e].model \in Models
      BY <1>0, <2>3, PollFields DEF FetchHealth, Typed, Engine
    <3>2. CASE polls' = [polls EXCEPT ![w] = [step |-> "failed"]]
      <4>1. [step |-> "failed"] \in Poll
        BY DEF Poll
      <4> QED BY <1>0, <1>1, <3>2, <4>1 DEF AnswersCurrent, Typed
    <3>3. ASSUME NEW report \in Reports(e, polls[w].gpu),
                 polls' = [polls EXCEPT ![w] = [step |-> "apply", ep |-> e, report |-> report]]
          PROVE  polls' \in [Workers -> Poll] /\ AnswersCurrent'
      <4>1. report \in Report /\ report.loaded = engine[e].model
        BY <3>1 DEF Reports, Report
      <4> DEFINE p == [step |-> "apply", ep |-> e, report |-> report]
      <4>2. p \in Poll /\ p.ep = e /\ p.report = report
        BY <3>1, <4>1 DEF Poll
      <4>3. polls' = [polls EXCEPT ![w] = p]
        BY <3>3
      <4> HIDE DEF p
      <4> QED BY <1>0, <1>1, <4>1, <4>2, <4>3 DEF AnswersCurrent, Typed
    <3> QED BY <2>3, <3>2, <3>3 DEF FetchHealth
  <2> QED BY <2>1, <2>2, <2>3
<1>3. ReloadsMarked' /\ ReloadsChange'
  BY <1>0, <1>1 DEF ReloadsMarked, ReloadsChange
<1>4. Typed'
  BY <1>0, <1>1, <1>2 DEF Typed, RegOK
<1> QED BY <1>2, <1>3, <1>4, TypedNext

\* A poll that ends, or recommends the offline mark.
LEMMA PollEnds ==
  ASSUME IInv, NEW w \in Workers, NEW p \in {NoPoll, [step |-> "mark"]},
         polls' = [polls EXCEPT ![w] = p], engine' = engine
  PROVE  polls' \in [Workers -> Poll] /\ AnswersCurrent'
<1>1. p \in Poll /\ p.step # "apply"
  BY DEF Poll, NoPoll
<1> QED BY <1>1 DEF IInv, TypeOK, AnswersCurrent

\* The answer of the machine an entry names never ends a switch to the model
\* that machine is loading: it has the old one.
LEMMA UpdateStateNext ==
  ASSUME IInv, NEW w \in Workers, UpdateState(w)
  PROVE  IInv'
<1> DEFINE report == polls[w].report
           en == Updated(reg[w], report)
<1>0. Typed /\ ReloadsMarked /\ AnswersCurrent /\ ReloadsChange
  BY TypedParts DEF IInv
<1>1. engine' = engine /\ requests' = requests /\ events' = events
  BY DEF UpdateState
<1>2. polls' \in [Workers -> Poll] /\ AnswersCurrent'
  BY <1>1, PollEnds DEF UpdateState
<1>3. ReloadsChange'
  BY <1>0, <1>1 DEF ReloadsChange
<1>4. report \in Report /\ polls[w].ep \in Endpoints /\ report.loaded = engine[polls[w].ep].model
  BY <1>0, PollFields DEF UpdateState, Typed, AnswersCurrent
<1>5. CASE reg[w] = None
  <2>1. reg' = reg /\ forgotten' = forgotten
    BY <1>5 DEF UpdateState
  <2>2. ReloadsMarked'
    BY <1>0, <1>1, <2>1 DEF ReloadsMarked
  <2>3. Typed'
    BY <1>0, <1>1, <1>2, <2>1 DEF Typed, RegOK
  <2> QED BY <1>2, <1>3, <2>2, <2>3, TypedNext
<1>6. CASE reg[w] # None
  <2>0. GoodEntry(reg[w])
    BY <1>0, <1>6 DEF Typed, RegOK
  <2>1. reg' = [reg EXCEPT ![w] = en]
    BY <1>6 DEF UpdateState
  <2>2. /\ GoodEntry(en) /\ en.ep = reg[w].ep
        /\ ~SwitchDone(reg[w], report) /\ ~SwitchLate(reg[w], report) => en.switchingTo = reg[w].switchingTo
    BY <1>4, <2>0, UpdatedGood
  <2> HIDE DEF en, report
  <2>3. /\ reg' \in [Workers -> Entry \cup {None}] /\ RegOK' /\ reg'[w] = en
        /\ \A v \in Workers : v # w => reg'[v] = reg[v]
    BY <1>0, <2>1, <2>2, OneEntry DEF Typed
  <2>4. ReloadsMarked' /\ forgotten' \subseteq Workers \X Endpoints
    <3>1. CASE SwitchLate(reg[w], report) \/ polls[w].ep # reg[w].ep
      <4>1. forgotten' = forgotten \cup Unmarked(reg', engine)
        BY <1>6, <3>1 DEF UpdateState, report
      <4> QED BY <1>0, <1>1, <2>3, <4>1, Recorded DEF Typed
    <3>2. CASE ~SwitchLate(reg[w], report) /\ polls[w].ep = reg[w].ep
      <4>1. forgotten' = forgotten
        BY <3>2 DEF UpdateState, report
      <4>2. CASE SwitchDone(reg[w], report)
        <5>1. reg[w].switchingTo = engine[reg[w].ep].model
          BY <1>4, <3>2, <4>2 DEF SwitchDone
        <5>2. reg[w].switchingTo # engine[reg[w].ep].next
          BY <1>0, <1>4, <3>2, <5>1 DEF ReloadsChange
        <5> QED BY <1>0, <1>1, <1>6, <2>2, <2>3, <4>1, <5>2 DEF ReloadsMarked, Typed
      <4>3. CASE ~SwitchDone(reg[w], report)
        BY <1>0, <1>1, <1>6, <2>2, <2>3, <3>2, <4>1, <4>3 DEF ReloadsMarked, Typed
      <4> QED BY <4>2, <4>3
    <3> QED BY <3>1, <3>2
  <2>5. Typed'
    BY <1>0, <1>1, <1>2, <2>3, <2>4 DEF Typed
  <2> QED BY <1>2, <1>3, <2>4, <2>5, TypedNext
<1> QED BY <1>5, <1>6

\* Changes of an entry that keep its machine and its mark.
LEMMA SameMark ==
  ASSUME IInv, NEW w \in Workers, reg[w] # None, NEW en, GoodEntry(en),
         en.ep = reg[w].ep, en.switchingTo = reg[w].switchingTo,
         reg' = [reg EXCEPT ![w] = en],
         polls' \in [Workers -> Poll], AnswersCurrent',
         UNCHANGED <<engine, requests, forgotten, events>>
  PROVE  IInv'
<1>0. Typed /\ ReloadsMarked /\ ReloadsChange
  BY TypedParts DEF IInv
<1>1. /\ reg' \in [Workers -> Entry \cup {None}] /\ RegOK' /\ reg'[w] = en
      /\ \A v \in Workers : v # w => reg'[v] = reg[v]
  BY <1>0, OneEntry DEF Typed
<1>2. ReloadsMarked' /\ ReloadsChange'
  BY <1>0, <1>1 DEF ReloadsMarked, ReloadsChange
<1>3. Typed'
  BY <1>0, <1>1 DEF Typed
<1> QED BY <1>2, <1>3, TypedNext

LEMMA SameEntries ==
  ASSUME IInv, polls' \in [Workers -> Poll], AnswersCurrent',
         UNCHANGED <<reg, engine, requests, forgotten, events>>
  PROVE  IInv'
<1>0. Typed /\ ReloadsMarked /\ ReloadsChange
  BY TypedParts DEF IInv
<1>1. Typed' /\ ReloadsMarked' /\ ReloadsChange'
  BY <1>0 DEF Typed, RegOK, ReloadsMarked, ReloadsChange
<1> QED BY <1>1, TypedNext

LEMMA FailureNext ==
  ASSUME IInv, NEW w \in Workers, RecordPollFailure(w) \/ MarkOffline(w)
  PROVE  IInv'
<1>0. Typed
  BY TypedParts DEF IInv
<1>1. UNCHANGED <<engine, requests, forgotten, events>>
  BY DEF RecordPollFailure, MarkOffline
<1>2. polls' = [polls EXCEPT ![w] = NoPoll] \/ polls' = [polls EXCEPT ![w] = [step |-> "mark"]]
  BY DEF RecordPollFailure, MarkOffline
<1>3. polls' \in [Workers -> Poll] /\ AnswersCurrent'
  BY <1>1, <1>2, PollEnds
<1>4. CASE reg[w] = None
  <2>1. reg' = reg
    BY <1>4 DEF RecordPollFailure, MarkOffline
  <2> QED BY <1>1, <1>3, <2>1, SameEntries
<1>5. CASE reg[w] # None
  <2>1. GoodEntry(reg[w]) /\ reg[w].fails \in 0 .. Threshold + 1
    BY <1>0, <1>5 DEF Typed, RegOK, GoodEntry, EntryOK, Entry
  <2>2. CASE MarkOffline(w)
    <3>1. reg' = [reg EXCEPT ![w] = Offline(reg[w])]
      BY <1>5, <2>2 DEF MarkOffline
    <3>2. /\ GoodEntry(Offline(reg[w])) /\ Offline(reg[w]).ep = reg[w].ep
          /\ Offline(reg[w]).switchingTo = reg[w].switchingTo
      BY <2>1, QuietChanges DEF Offline, GoodEntry, EntryOK, Entry
    <3> QED BY <1>1, <1>3, <1>5, <3>1, <3>2, SameMark
  <2>3. CASE RecordPollFailure(w)
    <3> DEFINE n == Saturated(reg[w].fails + 1)
               en == [reg[w] EXCEPT !.fails = n]
    <3>1. reg' = [reg EXCEPT ![w].fails = n]
      BY <1>5, <2>3 DEF RecordPollFailure
    <3>2. n \in 0 .. Threshold + 1
      BY <2>1, FleetAssumption DEF Saturated, FleetAssumption
    <3> HIDE DEF n
    <3>3. reg' = [reg EXCEPT ![w] = en]
      BY <1>0, <3>1 DEF Typed
    <3>4. GoodEntry(en) /\ en.ep = reg[w].ep /\ en.switchingTo = reg[w].switchingTo
      BY <2>1, <3>2, QuietChanges DEF GoodEntry, EntryOK, Entry
    <3> HIDE DEF en
    <3> QED BY <1>1, <1>3, <1>5, <3>3, <3>4, SameMark
  <2> QED BY <2>2, <2>3
<1> QED BY <1>4, <1>5

LEMMA GrowsOldNext ==
  ASSUME IInv, NEW w \in Workers, GrowsOld(w)
  PROVE  IInv'
<1>0. Typed /\ AnswersCurrent
  BY TypedParts DEF IInv
<1>1. UNCHANGED <<polls, engine, requests, forgotten, events>> /\ reg[w] # None
  BY DEF GrowsOld, Registered
<1>2. polls' \in [Workers -> Poll] /\ AnswersCurrent'
  BY <1>0, <1>1 DEF Typed, AnswersCurrent
<1>3. GoodEntry(reg[w])
  BY <1>0, <1>1 DEF Typed, RegOK
<1>4. CASE reg[w].switchingSince = "fresh" /\ reg' = [reg EXCEPT ![w].switchingSince = "old"]
  <2> DEFINE en == [reg[w] EXCEPT !.switchingSince = "old"]
  <2>1. reg' = [reg EXCEPT ![w] = en]
    BY <1>0, <1>4 DEF Typed
  <2>2. GoodEntry(en) /\ en.ep = reg[w].ep /\ en.switchingTo = reg[w].switchingTo
    BY <1>3, <1>4, QuietChanges DEF GoodEntry, EntryOK, Entry
  <2> HIDE DEF en
  <2> QED BY <1>1, <1>2, <2>1, <2>2, SameMark
<1>5. CASE reg' = [reg EXCEPT ![w].loadingSince = "old"]
  <2> DEFINE en == [reg[w] EXCEPT !.loadingSince = "old"]
  <2>1. reg' = [reg EXCEPT ![w] = en]
    BY <1>0, <1>5 DEF Typed
  <2>2. GoodEntry(en) /\ en.ep = reg[w].ep /\ en.switchingTo = reg[w].switchingTo
    BY <1>3, QuietChanges DEF GoodEntry, EntryOK, Entry
  <2> HIDE DEF en
  <2> QED BY <1>1, <1>2, <2>1, <2>2, SameMark
<1> QED BY <1>4, <1>5 DEF GrowsOld

LEMMA RouteNext ==
  ASSUME IInv, NEW w \in Workers, NEW m \in Models, Route(w, m)
  PROVE  IInv'
<1> DEFINE q == [worker |-> w, model |-> m, ep |-> reg[w].ep, loaded |-> reg[w].loaded, step |-> "routed"]
<1>0. Typed /\ ReloadsMarked /\ AnswersCurrent /\ ReloadsChange
  BY TypedParts DEF IInv
<1>1. UNCHANGED <<reg, polls, engine, forgotten>> /\ requests' = requests \cup {q}
  BY DEF Route
<1>2. events' \in 0 .. MaxEvents
  BY <1>0, EventType DEF Route, Typed
<1>3. q \in Request
  <2>1. reg[w] \in Entry
    BY <1>0 DEF Typed, Route, Registered
  <2> QED BY <2>1 DEF Request, Entry
<1>4. ReloadsMarked' /\ AnswersCurrent' /\ ReloadsChange'
  BY <1>0, <1>1 DEF ReloadsMarked, AnswersCurrent, ReloadsChange
<1>5. Typed'
  BY <1>0, <1>1, <1>2, <1>3 DEF Typed, RegOK
<1> QED BY <1>4, <1>5, TypedNext

LEMMA SendNext ==
  ASSUME IInv, NEW q \in requests, NEW retry \in BOOLEAN, Send(q, retry)
  PROVE  IInv'
<1> DEFINE w == q.worker
           en == Switching(reg[w], q.model)
<1>0. Typed /\ ReloadsMarked /\ AnswersCurrent /\ ReloadsChange
  BY TypedParts DEF IInv
<1>1. /\ UNCHANGED <<polls, engine, events>>
      /\ requests' = (requests \ {q}) \cup {[q EXCEPT !.step = "sent"]}
      /\ forgotten' = forgotten \cup Unmarked(reg', engine)
  BY DEF Send
<1>2. w \in Workers /\ q.model \in Models /\ [q EXCEPT !.step = "sent"] \in Request
  BY <1>0 DEF Typed, Request
<1>3. reg' \in [Workers -> Entry \cup {None}] /\ RegOK'
  <2>1. CASE reg' = reg
    BY <1>0, <2>1 DEF Typed, RegOK
  <2>2. CASE reg[w] # None /\ reg' = [reg EXCEPT ![w] = en]
    <3>1. GoodEntry(en)
      BY <1>0, <1>2, <2>2, SwitchingGood DEF Typed, RegOK
    <3> HIDE DEF en
    <3> QED BY <1>0, <1>2, <2>2, <3>1, OneEntry DEF Typed
  <2> QED BY <2>1, <2>2 DEF Send
<1>4. ReloadsMarked' /\ forgotten' \subseteq Workers \X Endpoints
  BY <1>0, <1>1, <1>3, Recorded DEF Typed
<1>5. AnswersCurrent' /\ ReloadsChange'
  BY <1>0, <1>1 DEF AnswersCurrent, ReloadsChange
<1>6. Typed'
  BY <1>0, <1>1, <1>2, <1>3, <1>4 DEF Typed
<1> QED BY <1>4, <1>5, <1>6, TypedNext

LEMMA ArriveNext ==
  ASSUME IInv, NEW q \in requests, Arrive(q)
  PROVE  IInv'
<1> DEFINE e == q.ep
<1>0. Typed /\ ReloadsMarked /\ AnswersCurrent /\ ReloadsChange
  BY TypedParts DEF IInv
<1>1. /\ UNCHANGED <<reg, polls, events>> /\ requests' \subseteq requests
      /\ forgotten' = forgotten \cup Unmarked(reg, engine')
  BY DEF Arrive
<1>2. e \in Endpoints /\ q.model \in Models
  BY <1>0 DEF Typed, Request
<1>3. \/ engine' = engine
      \/ engine' = [engine EXCEPT ![e].next = q.model] /\ engine[e].model # q.model
  BY DEF Arrive
<1>4. /\ engine' \in [Endpoints -> Engine]
      /\ \A f \in Endpoints : engine'[f].model = engine[f].model /\ engine'[f].next # engine'[f].model
  <2>1. CASE engine' = engine
    BY <1>0, <2>1 DEF Typed, ReloadsChange
  <2>2. CASE engine' = [engine EXCEPT ![e].next = q.model] /\ engine[e].model # q.model
    <3> DEFINE x == [engine[e] EXCEPT !.next = q.model]
    <3>1. x \in Engine /\ x.model = engine[e].model /\ x.next = q.model
      BY <1>0, <1>2 DEF Typed, Engine, ModelOrNone
    <3>2. engine' = [engine EXCEPT ![e] = x]
      BY <1>0, <2>2 DEF Typed
    <3> HIDE DEF x
    <3> QED BY <1>0, <1>2, <2>2, <3>1, <3>2 DEF Typed, ReloadsChange
  <2> QED BY <1>3, <2>1, <2>2
<1>5. AnswersCurrent' /\ ReloadsChange'
  <2>1. \A v \in Workers : polls[v].step = "apply" => polls[v].ep \in Endpoints
    BY <1>0, PollFields DEF Typed
  <2> QED BY <1>0, <1>1, <1>4, <2>1 DEF AnswersCurrent, ReloadsChange
<1>6. ReloadsMarked' /\ forgotten' \subseteq Workers \X Endpoints
  <2>1. \A v \in Workers : reg[v] # None => reg[v].ep \in Endpoints
    BY <1>0 DEF Typed, RegOK, GoodEntry, EntryOK, Entry
  <2>2. /\ Unmarked(reg, engine') \subseteq Workers \X Endpoints
        /\ \A v \in Workers : /\ reg[v] # None /\ engine'[reg[v].ep].next # None
                              /\ reg[v].switchingTo # engine'[reg[v].ep].next
             => <<v, reg[v].ep>> \in Unmarked(reg, engine')
    BY <2>1, UnmarkedPairs
  <2> QED BY <1>0, <1>1, <2>2 DEF ReloadsMarked, Typed
<1>7. Typed'
  BY <1>0, <1>1, <1>4, <1>6 DEF Typed, RegOK
<1> QED BY <1>5, <1>6, <1>7, TypedNext

\* A machine that stops reloading: what was forgotten of it is of no use.
LEMMA EngineNext ==
  ASSUME IInv, NEW e \in Endpoints, EngineEvent(e) \/ \E done \in BOOLEAN : ReloadEnds(e, done)
  PROVE  IInv'
<1>0. Typed /\ ReloadsMarked /\ AnswersCurrent /\ ReloadsChange
  BY TypedParts DEF IInv
<1>1. UNCHANGED <<reg, polls, requests>> /\ events' \in 0 .. MaxEvents
  BY <1>0, EventType DEF EngineEvent, ReloadEnds, Typed
<1>2. engine[e] \in Engine /\ engine \in [Endpoints -> Engine] /\ engine[e].next # engine[e].model
  BY <1>0 DEF Typed, ReloadsChange
<1>3. PICK x \in Engine :
        /\ engine' = [engine EXCEPT ![e] = x] /\ x.next \in {None, engine[e].next}
        /\ x.next # x.model
        /\ \/ x.model = engine[e].model
           \/ \A w \in Workers : ~(polls[w].step = "apply" /\ polls[w].ep = e)
        /\ forgotten' = {f \in forgotten : f[2] = e => x.next # None} \/
           forgotten' = {f \in forgotten : engine'[f[2]].next # None}
  <2>1. ASSUME NEW done \in BOOLEAN, ReloadEnds(e, done)
        PROVE  \E x \in Engine :
                 /\ engine' = [engine EXCEPT ![e] = x] /\ x.next = None /\ x.next # x.model
                 /\ forgotten' = {f \in forgotten : f[2] = e => x.next # None}
                 /\ \A w \in Workers : ~(polls[w].step = "apply" /\ polls[w].ep = e)
    <3> DEFINE m == IF done THEN engine[e].next ELSE engine[e].model
               x == [engine[e] EXCEPT !.model = m, !.next = None]
    <3>1. engine[e].next \in Models
      BY <1>2, <2>1 DEF ReloadEnds, Engine, ModelOrNone
    <3>2. m \in Models
      BY <1>2, <3>1 DEF Engine
    <3>3. engine' = [engine EXCEPT ![e].model = m, ![e].next = None]
      BY <2>1 DEF ReloadEnds
    <3> HIDE DEF m
    <3>4. engine' = [engine EXCEPT ![e] = x]
      BY <1>2, <3>3
    <3>5. x \in Engine /\ x.next = None /\ x.next # x.model
      BY <1>2, <3>2, FleetAssumption DEF Engine, ModelOrNone, FleetAssumption
    <3> HIDE DEF x
    <3>6. forgotten' = {f \in forgotten : f[2] = e => x.next # None}
      BY <2>1, <3>5 DEF ReloadEnds
    <3> QED BY <2>1, <3>4, <3>5, <3>6 DEF ReloadEnds
  <2>2. ASSUME EngineEvent(e)
        PROVE  \E x \in Engine :
                 /\ engine' = [engine EXCEPT ![e] = x] /\ x.next \in {None, engine[e].next}
                 /\ x.next # x.model /\ x.model = engine[e].model
                 /\ forgotten' = {f \in forgotten : engine'[f[2]].next # None}
    <3>0. forgotten' = {f \in forgotten : engine'[f[2]].next # None}
      BY <2>2 DEF EngineEvent
    <3>1. CASE engine' = [engine EXCEPT ![e].up = ~@, ![e].next = None]
      <4> DEFINE x == [engine[e] EXCEPT !.up = ~engine[e].up, !.next = None]
      <4>1. engine' = [engine EXCEPT ![e] = x]
        BY <1>2, <3>1
      <4>2. x \in Engine /\ x.next = None /\ x.next # x.model /\ x.model = engine[e].model
        BY <1>2, FleetAssumption DEF Engine, ModelOrNone, FleetAssumption
      <4> HIDE DEF x
      <4> QED BY <3>0, <4>1, <4>2
    <3>2. CASE engine' = [engine EXCEPT ![e].gpu = IF @ = "available" THEN "yielding" ELSE "available"]
      <4> DEFINE g == IF engine[e].gpu = "available" THEN "yielding" ELSE "available"
                 x == [engine[e] EXCEPT !.gpu = g]
      <4>1. engine' = [engine EXCEPT ![e] = x]
        BY <1>2, <3>2
      <4>2. g \in {"available", "yielding"}
        OBVIOUS
      <4> HIDE DEF g
      <4>3. x \in Engine /\ x.next = engine[e].next /\ x.model = engine[e].model
        BY <1>2, <4>2 DEF Engine
      <4> HIDE DEF x
      <4> QED BY <1>2, <3>0, <4>1, <4>3
    <3> QED BY <2>2, <3>1, <3>2 DEF EngineEvent
  <2> QED BY <2>1, <2>2
<1>4. engine' \in [Endpoints -> Engine] /\ engine'[e] = x /\ \A f \in Endpoints : f # e => engine'[f] = engine[f]
  BY <1>2, <1>3
<1>5. AnswersCurrent' /\ ReloadsChange'
  <2>1. \A v \in Workers : polls[v].step = "apply" => polls[v].ep \in Endpoints
    BY <1>0, PollFields DEF Typed
  <2> QED BY <1>0, <1>1, <1>3, <1>4, <2>1 DEF AnswersCurrent, ReloadsChange
<1>6. ReloadsMarked'
  <2> SUFFICES ASSUME NEW w \in Workers, reg[w] # None, engine'[reg[w].ep].next # None,
                      reg[w].switchingTo # engine'[reg[w].ep].next
               PROVE  <<w, reg[w].ep>> \in forgotten'
    BY <1>1 DEF ReloadsMarked
  <2>1. reg[w].ep \in Endpoints
    BY <1>0 DEF Typed, RegOK, GoodEntry, EntryOK, Entry
  <2>2. engine'[reg[w].ep].next = engine[reg[w].ep].next
    BY <1>3, <1>4, <2>1
  <2>3. <<w, reg[w].ep>> \in forgotten
    BY <1>0, <2>2 DEF ReloadsMarked
  <2> QED BY <1>3, <1>4, <2>1, <2>3
<1>7. Typed'
  BY <1>0, <1>1, <1>3, <1>4 DEF Typed, RegOK
<1> QED BY <1>5, <1>6, <1>7, TypedNext

LEMMA StepPreservesInv == IInv /\ [Next]_vars => IInv'
<1> SUFFICES ASSUME IInv, [Next]_vars PROVE IInv'
  OBVIOUS
<1>1. CASE UNCHANGED vars
  <2>1. polls' \in [Workers -> Poll] /\ AnswersCurrent'
    BY <1>1 DEF vars, IInv, TypeOK, AnswersCurrent
  <2> QED BY <1>1, <2>1, SameEntries DEF vars
<1> QED BY <1>1, RegistrationNext, RestartNext, FetchNext, UpdateStateNext, FailureNext, GrowsOldNext,
           RouteNext, SendNext, ArriveNext, EngineNext
        DEF Next, PollStep

-----------------------------------------------------------------------------
LEMMA Invariance == Spec => []IInv
BY InitInv, StepPreservesInv, PTL DEF Spec

LEMMA InvExcludes == IInv => NoRequestsOntoReload
BY DEF IInv, NoRequestsOntoReload, ReloadsMarked, MarkExcludes, Registered

(***************************************************************************)
(* The registry, the polls and the requests keep their types; an entry has *)
(* a switch mark and the age of one together, and a busy one has none.     *)
(***************************************************************************)
THEOREM TypeCorrect == Spec => []TypeOK
BY Invariance, PTL DEF IInv

(***************************************************************************)
(* For any number of workers and machines, a worker whose machine reloads  *)
(* for a marked request is not offered to other requests (MarkSwitching,   *)
(* UpdateState): no answer in flight can end the switch early, since it    *)
(* still names the model that is being unloaded.                           *)
(***************************************************************************)
THEOREM ReloadIsUndisturbed == Spec => []NoRequestsOntoReload
BY Invariance, InvExcludes, PTL
=============================================================================
