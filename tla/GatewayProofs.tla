--------------------------- MODULE GatewayProofs ---------------------------
(***************************************************************************)
(* Proofs about Gateway, for every value of its constants.  A step of a     *)
(* request replaces its goroutine by another one (Moves) and changes the    *)
(* four counters as that change of stage asks (Tally); the counters then    *)
(* keep counting the requests that hold them (TallyKeepsCounters).          *)
(***************************************************************************)
EXTENDS Gateway, TLAPS, FiniteSetTheorems

Handled  == Stages \ {"new", "entered", "done"}
Holding  == Reserved \cup {"gate", "reserve", "release"}
Queueing == {"full", "waiting"}
Targeted == {"dispatch", "forward", "sent", "retry", "interrupted"}

\* A request that is on its way to a worker has one.
TargetKnown ==
    \A r \in Requests : req[r].pc \in Targeted => req[r].target \in Workers

\* The goroutine of r becomes s.
Moves(r, s) ==
    /\ s \in Goroutine
    /\ req' = [req EXCEPT ![r] = s]
    /\ s.pc \in Targeted => s.target \in Workers

\* The counters follow the goroutine of r to s.
InFlightMoves(r, s) ==
    \/ (req[r].pc \in Handled <=> s.pc \in Handled) /\ inFlight' = inFlight
    \/ req[r].pc \notin Handled /\ s.pc \in Handled /\ inFlight' = inFlight + 1
    \/ req[r].pc \in Handled /\ s.pc \notin Handled /\ inFlight' = inFlight - 1

QueuedMoves(r, s) ==
    /\ \/ (req[r].pc \in Queueing <=> s.pc \in Queueing) /\ queued' = queued
       \/ req[r].pc \notin Queueing /\ s.pc \in Queueing /\ queued' = queued + 1
       \/ req[r].pc \in Queueing /\ s.pc \notin Queueing /\ queued' = queued - 1
    /\ (s.pc = "waiting" /\ req[r].pc # "waiting" /\ MaxQueueSize > 0) =>
          queued' <= MaxQueueSize

SlotsMoves(r, s) ==
    \/ (req[r].pc \in Holding <=> s.pc \in Holding) /\ slots' = slots
    \/ /\ req[r].pc \notin Holding /\ s.pc \in Holding
       /\ slots[KeyOf[r]] < MaxInFlight
       /\ slots' = [slots EXCEPT ![KeyOf[r]] = @ + 1]
    \/ /\ req[r].pc \in Holding /\ s.pc \notin Holding
       /\ slots' = [slots EXCEPT ![KeyOf[r]] = Floored(@ - 1)]

LoadMoves(r, s) ==
    \/ req[r].pc # "sent" /\ s.pc # "sent" /\ inflight' = inflight
    \/ /\ req[r].pc = "sent" /\ s.pc = "sent" /\ s.target = req[r].target
       /\ inflight' = inflight
    \/ /\ req[r].pc # "sent" /\ s.pc = "sent"
       /\ inflight' = [inflight EXCEPT ![s.target] = @ + 1]
    \/ /\ req[r].pc = "sent" /\ s.pc # "sent"
       /\ inflight' = [inflight EXCEPT ![req[r].target] = Floored(@ - 1)]

Tally(r, s) ==
    InFlightMoves(r, s) /\ QueuedMoves(r, s) /\ SlotsMoves(r, s) /\ LoadMoves(r, s)

-----------------------------------------------------------------------------
(* Counting.                                                                 *)

LEMMA JoinCounts ==
    ASSUME NEW A \in SUBSET Requests, NEW B, NEW r \in Requests,
           B = A \cup {r}, r \notin A
    PROVE  Cardinality(A) \in Nat /\ Cardinality(B) = Cardinality(A) + 1
<1>1. IsFiniteSet(A)
  BY GatewayAssumption, FS_Subset
<1> QED BY <1>1, FS_AddElement, FS_CardinalityType

LEMMA QuitCounts ==
    ASSUME NEW A \in SUBSET Requests, NEW B, NEW r \in Requests,
           B = A \ {r}, r \in A
    PROVE  Cardinality(A) \in Nat /\ Cardinality(A) >= 1 /\ Cardinality(B) = Cardinality(A) - 1
<1>1. B \in SUBSET Requests /\ A = B \cup {r} /\ r \notin B
  OBVIOUS
<1>2. Cardinality(B) \in Nat /\ Cardinality(A) = Cardinality(B) + 1
  BY <1>1, JoinCounts
<1> QED BY <1>2

LEMMA CountNat ==
    ASSUME NEW A \in SUBSET Requests
    PROVE  Cardinality(A) \in Nat
BY GatewayAssumption, FS_Subset, FS_CardinalityType

\* A set of requests that is given by their stage changes at r only.
LEMMA AtMoves ==
    ASSUME req \in [Requests -> Goroutine], NEW r \in Requests, NEW s, Moves(r, s),
           NEW stages
    PROVE  /\ At(stages) \in SUBSET Requests
           /\ r \in At(stages) <=> req[r].pc \in stages
           /\ s.pc \in stages => At(stages)' = At(stages) \cup {r}
           /\ s.pc \notin stages => At(stages)' = At(stages) \ {r}
<1>1. /\ req'[r] = s
      /\ \A x \in Requests : x # r => req'[x] = req[x]
  BY DEF Moves
<1>2. At(stages)' = {x \in Requests : req'[x].pc \in stages}
  BY DEF At
<1> QED BY <1>1, <1>2 DEF At

LEMMA InFlightCounts ==
    ASSUME req \in [Requests -> Goroutine], NEW r \in Requests, NEW s, Moves(r, s),
           inFlight = Cardinality(At(Handled)), InFlightMoves(r, s)
    PROVE  inFlight' = Cardinality(At(Handled)')
<1> DEFINE A == At(Handled)
           B == At(Handled)'
<1>1. /\ A \in SUBSET Requests
      /\ r \in A <=> req[r].pc \in Handled
      /\ s.pc \in Handled => B = A \cup {r}
      /\ s.pc \notin Handled => B = A \ {r}
  BY AtMoves
<1>2. inFlight = Cardinality(A)
  OBVIOUS
<1> HIDE DEF A, B
<1>3. CASE (req[r].pc \in Handled <=> s.pc \in Handled) /\ inFlight' = inFlight
  <2>1. B = A
    BY <1>1, <1>3
  <2> QED BY <2>1, <1>2, <1>3 DEF B
<1>4. CASE req[r].pc \notin Handled /\ s.pc \in Handled /\ inFlight' = inFlight + 1
  <2>1. Cardinality(B) = Cardinality(A) + 1
    BY <1>1, <1>4, JoinCounts
  <2> QED BY <2>1, <1>2, <1>4 DEF B
<1>5. CASE req[r].pc \in Handled /\ s.pc \notin Handled /\ inFlight' = inFlight - 1
  <2>1. Cardinality(B) = Cardinality(A) - 1
    BY <1>1, <1>5, QuitCounts
  <2> QED BY <2>1, <1>2, <1>5 DEF B
<1> QED BY <1>3, <1>4, <1>5 DEF InFlightMoves

LEMMA QueuedCounts ==
    ASSUME req \in [Requests -> Goroutine], NEW r \in Requests, NEW s, Moves(r, s),
           queued = Cardinality(At(Queueing)), QueuedMoves(r, s)
    PROVE  queued' = Cardinality(At(Queueing)')
<1> DEFINE A == At(Queueing)
           B == At(Queueing)'
<1>1. /\ A \in SUBSET Requests
      /\ r \in A <=> req[r].pc \in Queueing
      /\ s.pc \in Queueing => B = A \cup {r}
      /\ s.pc \notin Queueing => B = A \ {r}
  BY AtMoves
<1>2. queued = Cardinality(A)
  OBVIOUS
<1> HIDE DEF A, B
<1>3. CASE (req[r].pc \in Queueing <=> s.pc \in Queueing) /\ queued' = queued
  <2>1. B = A
    BY <1>1, <1>3
  <2> QED BY <2>1, <1>2, <1>3 DEF B
<1>4. CASE req[r].pc \notin Queueing /\ s.pc \in Queueing /\ queued' = queued + 1
  <2>1. Cardinality(B) = Cardinality(A) + 1
    BY <1>1, <1>4, JoinCounts
  <2> QED BY <2>1, <1>2, <1>4 DEF B
<1>5. CASE req[r].pc \in Queueing /\ s.pc \notin Queueing /\ queued' = queued - 1
  <2>1. Cardinality(B) = Cardinality(A) - 1
    BY <1>1, <1>5, QuitCounts
  <2> QED BY <2>1, <1>2, <1>5 DEF B
<1> QED BY <1>3, <1>4, <1>5 DEF QueuedMoves

OfKey(k)   == {r \in At(Holding) : KeyOf[r] = k}
Loading(w) == {r \in At({"sent"}) : req[r].target = w}

LEMMA SlotsCount ==
    ASSUME req \in [Requests -> Goroutine], NEW r \in Requests, NEW s, Moves(r, s),
           slots \in [Keys -> Nat],
           \A k \in Keys : slots[k] = Cardinality(OfKey(k)),
           SlotsMoves(r, s)
    PROVE  /\ slots' \in [Keys -> Nat]
           /\ \A k \in Keys : slots'[k] = Cardinality(OfKey(k)')
<1> DEFINE h == KeyOf[r]
<1>h. h \in Keys
  BY GatewayAssumption
<1>1. /\ At(Holding) \in SUBSET Requests
      /\ r \in At(Holding) <=> req[r].pc \in Holding
      /\ s.pc \in Holding => At(Holding)' = At(Holding) \cup {r}
      /\ s.pc \notin Holding => At(Holding)' = At(Holding) \ {r}
  BY AtMoves
<1>2. \A k \in Keys : OfKey(k)' = {x \in At(Holding)' : KeyOf[x] = k}
  BY DEF OfKey
<1>3. \A k \in Keys : OfKey(k) \in SUBSET Requests
  BY <1>1 DEF OfKey
<1>4. \A k \in Keys : k # h => OfKey(k)' = OfKey(k)
  BY <1>1, <1>2 DEF OfKey
<1>5. /\ r \in OfKey(h) <=> req[r].pc \in Holding
      /\ s.pc \in Holding => OfKey(h)' = OfKey(h) \cup {r}
      /\ s.pc \notin Holding => OfKey(h)' = OfKey(h) \ {r}
  BY <1>1, <1>2, <1>h DEF OfKey
<1> HIDE DEF h
<1>6. CASE (req[r].pc \in Holding <=> s.pc \in Holding) /\ slots' = slots
  <2>1. \A k \in Keys : OfKey(k)' = OfKey(k)
    BY <1>4, <1>5, <1>6
  <2> QED BY <2>1, <1>6
<1>7. CASE /\ req[r].pc \notin Holding /\ s.pc \in Holding
           /\ slots' = [slots EXCEPT ![h] = @ + 1]
  <2>1. Cardinality(OfKey(h)') = Cardinality(OfKey(h)) + 1
    BY <1>3, <1>5, <1>7, <1>h, JoinCounts
  <2>2. slots'[h] = Cardinality(OfKey(h)')
    BY <2>1, <1>7, <1>h
  <2>3. \A k \in Keys : k # h => slots'[k] = Cardinality(OfKey(k)')
    BY <1>4, <1>7
  <2> QED BY <2>2, <2>3, <1>7, <1>h
<1>8. CASE /\ req[r].pc \in Holding /\ s.pc \notin Holding
           /\ slots' = [slots EXCEPT ![h] = Floored(@ - 1)]
  <2>1. /\ Cardinality(OfKey(h)) >= 1
        /\ Cardinality(OfKey(h)') = Cardinality(OfKey(h)) - 1
    BY <1>3, <1>5, <1>8, <1>h, QuitCounts
  <2>2. Floored(slots[h] - 1) = slots[h] - 1 /\ Floored(slots[h] - 1) \in Nat
    BY <2>1, <1>h DEF Floored
  <2>3. slots'[h] = Cardinality(OfKey(h)')
    BY <2>1, <2>2, <1>8, <1>h
  <2>4. \A k \in Keys : k # h => slots'[k] = Cardinality(OfKey(k)')
    BY <1>4, <1>8
  <2> QED BY <2>2, <2>3, <2>4, <1>8, <1>h
<1> QED BY <1>6, <1>7, <1>8 DEF SlotsMoves, h

LEMMA LoadCounts ==
    ASSUME req \in [Requests -> Goroutine], NEW r \in Requests, NEW s, Moves(r, s),
           TargetKnown,
           inflight \in [Workers -> Nat],
           \A w \in Workers : inflight[w] = Cardinality(Loading(w)),
           LoadMoves(r, s)
    PROVE  /\ inflight' \in [Workers -> Nat]
           /\ \A w \in Workers : inflight'[w] = Cardinality(Loading(w)')
<1>1. /\ At({"sent"}) \in SUBSET Requests
      /\ r \in At({"sent"}) <=> req[r].pc = "sent"
      /\ s.pc = "sent" => At({"sent"})' = At({"sent"}) \cup {r}
      /\ s.pc # "sent" => At({"sent"})' = At({"sent"}) \ {r}
  BY AtMoves
<1>2. /\ req'[r] = s
      /\ \A x \in Requests : x # r => req'[x] = req[x]
      /\ s.pc = "sent" => s.target \in Workers
      /\ req[r].pc = "sent" => req[r].target \in Workers
  BY DEF Moves, Targeted, TargetKnown
<1>3. \A w \in Workers : Loading(w)' = {x \in At({"sent"})' : req'[x].target = w}
  BY DEF Loading
<1>4. \A w \in Workers : Loading(w) \in SUBSET Requests
  BY <1>1 DEF Loading
<1>5. CASE req[r].pc # "sent" /\ s.pc # "sent" /\ inflight' = inflight
  <2>1. \A w \in Workers : Loading(w)' = Loading(w)
    BY <1>1, <1>2, <1>3, <1>5 DEF Loading
  <2> QED BY <2>1, <1>5
<1>6. CASE /\ req[r].pc = "sent" /\ s.pc = "sent" /\ s.target = req[r].target
           /\ inflight' = inflight
  <2>1. \A w \in Workers : Loading(w)' = Loading(w)
    BY <1>1, <1>2, <1>3, <1>6 DEF Loading
  <2> QED BY <2>1, <1>6
<1>7. CASE /\ req[r].pc # "sent" /\ s.pc = "sent"
           /\ inflight' = [inflight EXCEPT ![s.target] = @ + 1]
  <2> DEFINE t == s.target
  <2>1. t \in Workers
    BY <1>2, <1>7
  <2>2. r \notin Loading(t) /\ Loading(t)' = Loading(t) \cup {r}
    BY <1>1, <1>2, <1>3, <1>7, <2>1 DEF Loading
  <2>3. \A w \in Workers : w # t => Loading(w)' = Loading(w)
    BY <1>1, <1>2, <1>3, <1>7 DEF Loading
  <2>4. inflight' = [inflight EXCEPT ![t] = @ + 1]
    BY <1>7
  <2> HIDE DEF t
  <2>5. Cardinality(Loading(t)') = Cardinality(Loading(t)) + 1
    BY <1>4, <2>1, <2>2, JoinCounts
  <2>6. inflight'[t] = Cardinality(Loading(t)')
    BY <2>1, <2>4, <2>5
  <2>7. \A w \in Workers : w # t => inflight'[w] = Cardinality(Loading(w)')
    BY <2>3, <2>4
  <2> QED BY <2>1, <2>4, <2>6, <2>7
<1>8. CASE /\ req[r].pc = "sent" /\ s.pc # "sent"
           /\ inflight' = [inflight EXCEPT ![req[r].target] = Floored(@ - 1)]
  <2>1. PICK t \in Workers : t = req[r].target
    BY <1>2, <1>8
  <2>2. r \in Loading(t) /\ Loading(t)' = Loading(t) \ {r}
    <3>1. r \in Loading(t)
      BY <1>1, <1>8, <2>1 DEF Loading
    <3>2. \A x : x \in Loading(t)' <=> x \in Loading(t) \ {r}
      BY <1>1, <1>2, <1>3, <1>8, <2>1 DEF Loading
    <3> QED BY <3>1, <3>2
  <2>3. \A w \in Workers : w # t => Loading(w)' = Loading(w)
    BY <1>1, <1>2, <1>3, <1>8, <2>1 DEF Loading
  <2>4. inflight' = [inflight EXCEPT ![t] = Floored(@ - 1)]
    BY <1>8, <2>1
  <2>5. /\ Cardinality(Loading(t)) >= 1
        /\ Cardinality(Loading(t)') = Cardinality(Loading(t)) - 1
    BY <1>4, <2>1, <2>2, QuitCounts
  <2>6. Floored(inflight[t] - 1) = inflight[t] - 1 /\ Floored(inflight[t] - 1) \in Nat
    BY <2>1, <2>5 DEF Floored
  <2>7. inflight'[t] = Cardinality(Loading(t)')
    BY <2>1, <2>4, <2>5, <2>6
  <2>8. \A w \in Workers : w # t => inflight'[w] = Cardinality(Loading(w)')
    BY <2>3, <2>4
  <2>9. inflight' \in [Workers -> Nat]
    BY <2>1, <2>4, <2>6
  <2> QED BY <2>7, <2>8, <2>9
<1> QED BY <1>5, <1>6, <1>7, <1>8 DEF LoadMoves

\* The two ways of writing the counters' invariant.
LEMMA CountersForm ==
    CountersExact <=> /\ inFlight = Cardinality(At(Handled))
                      /\ queued = Cardinality(At(Queueing))
                      /\ \A k \in Keys : slots[k] = Cardinality(OfKey(k))
                      /\ \A w \in Workers : inflight[w] = Cardinality(Loading(w))
BY DEF CountersExact, Handled, Queueing, Holding, OfKey, Loading

LEMMA TallyKeepsCounters ==
    ASSUME TypeOK, TargetKnown, CountersExact,
           NEW r \in Requests, NEW s, Moves(r, s), Tally(r, s)
    PROVE  /\ CountersExact'
           /\ inFlight' \in Nat /\ queued' \in Nat
           /\ slots' \in [Keys -> Nat] /\ inflight' \in [Workers -> Nat]
<1>1. /\ req \in [Requests -> Goroutine]
      /\ slots \in [Keys -> Nat] /\ inflight \in [Workers -> Nat]
  BY DEF TypeOK
<1>2. /\ inFlight = Cardinality(At(Handled))
      /\ queued = Cardinality(At(Queueing))
      /\ \A k \in Keys : slots[k] = Cardinality(OfKey(k))
      /\ \A w \in Workers : inflight[w] = Cardinality(Loading(w))
  BY CountersForm
<1>3. inFlight' = Cardinality(At(Handled)') /\ queued' = Cardinality(At(Queueing)')
  BY <1>1, <1>2, InFlightCounts, QueuedCounts DEF Tally
<1>4. /\ slots' \in [Keys -> Nat]
      /\ \A k \in Keys : slots'[k] = Cardinality(OfKey(k)')
  BY <1>1, <1>2, SlotsCount DEF Tally
<1>5. /\ inflight' \in [Workers -> Nat]
      /\ \A w \in Workers : inflight'[w] = Cardinality(Loading(w)')
  BY <1>1, <1>2, LoadCounts DEF Tally
<1>6. inFlight' \in Nat /\ queued' \in Nat
  <2>1. At(Handled)' \in SUBSET Requests /\ At(Queueing)' \in SUBSET Requests
    BY DEF At
  <2> QED BY <2>1, <1>3, CountNat
<1>7. CountersExact'
  BY <1>3, <1>4, <1>5 DEF CountersExact, Handled, Queueing, Holding, OfKey, Loading
<1> QED BY <1>4, <1>5, <1>6, <1>7

-----------------------------------------------------------------------------
(* The ways a goroutine moves on.                                            *)

LEMMA GotoMoves ==
    ASSUME req \in [Requests -> Goroutine], NEW r \in Requests,
           NEW stage \in Stages, Goto(r, stage),
           stage \in Targeted => req[r].target \in Workers
    PROVE  \E s : Moves(r, s) /\ s.pc = stage /\ s.target = req[r].target
<1> DEFINE s == [req[r] EXCEPT !.pc = stage]
<1>1. s \in Goroutine
  BY DEF Goroutine
<1>2. s.pc = stage /\ s.target = req[r].target
  BY DEF Goroutine
<1>3. req' = [req EXCEPT ![r] = s]
  BY DEF Goto
<1> HIDE DEF s
<1> QED BY <1>1, <1>2, <1>3 DEF Moves

LEMMA MeteredType ==
    ASSUME NEW n \in Nat
    PROVE  Metered(n) \in Nat
BY GatewayAssumption DEF Metered

LEMMA IdleType == Idle \in Goroutine
BY DEF Idle, Goroutine, Stages, Record, Failure

LEMMA ReturnMoves ==
    ASSUME req \in [Requests -> Goroutine], NEW r \in Requests,
           NEW t \in Goroutine, NEW rec \in Record, NEW kept \in Nat,
           Return(r, t, rec, kept)
    PROVE  \E s : Moves(r, s) /\ s.pc = "adjust"
<1> DEFINE back == [Idle EXCEPT !.pc = "adjust", !.resumes = t.resumes, !.kept = kept]
           full == [back EXCEPT !.logged = TRUE, !.record = rec]
<1>1. back \in Goroutine
  BY IdleType DEF Goroutine, Stages
<1>2. full \in Goroutine
  BY <1>1 DEF Goroutine
<1>3. back.pc = "adjust"
  BY IdleType DEF Goroutine
<1>4. full.pc = "adjust"
  BY <1>1, <1>3 DEF Goroutine
<1>5. req' = [req EXCEPT ![r] = back] \/ req' = [req EXCEPT ![r] = full]
  BY DEF Return
<1> HIDE DEF back, full
<1>6. "adjust" \notin Targeted
  BY DEF Targeted
<1> QED BY <1>1, <1>2, <1>3, <1>4, <1>5, <1>6 DEF Moves

LEMMA InterruptedMoves ==
    ASSUME req \in [Requests -> Goroutine], NEW r \in Requests,
           NEW t \in Goroutine, Interrupted(r, t)
    PROVE  \E s : Moves(r, s) /\ s.pc = "adjust"
<1>1. PICK ok \in BOOLEAN, total \in Reported \cup {Metered(t.delivered)} :
          Return(r, t, [ok |-> ok, total |-> total, clean |-> FALSE], 0)
  BY DEF Interrupted
<1>2. total \in Nat
  BY GatewayAssumption, MeteredType DEF Goroutine
<1>3. [ok |-> ok, total |-> total, clean |-> FALSE] \in Record
  BY <1>2 DEF Record
<1> QED BY <1>1, <1>3, ReturnMoves

LEMMA GiveUpMoves ==
    ASSUME req \in [Requests -> Goroutine], NEW r \in Requests, GiveUp(r)
    PROVE  \E s : Moves(r, s) /\ s.pc = "adjust"
<1>1. Failure \in Record
  BY DEF Failure, Record
<1> QED BY <1>1, InterruptedMoves, ReturnMoves DEF GiveUp

LEMMA SegmentField ==
    ASSUME NEW g \in Goroutine, NEW d \in Nat
    PROVE  [g EXCEPT !.started = TRUE, !.delivered = d] \in Goroutine
BY DEF Goroutine

LEMMA SegmentType ==
    ASSUME req \in [Requests -> Goroutine], NEW r \in Requests, NEW n \in Lengths(r)
    PROVE  /\ Segment(r, n) \in Goroutine
           /\ Segment(r, n).delivered \in Nat
           /\ Segment(r, n).target = req[r].target
<1>1. n \in Nat /\ req[r].delivered \in Nat
  BY GatewayAssumption DEF Lengths, Goroutine
<1> DEFINE d == req[r].delivered + n
<1>2. d \in Nat
  BY <1>1
<1>3. Segment(r, n) = [req[r] EXCEPT !.started = TRUE, !.delivered = d]
  BY DEF Segment
<1> HIDE DEF d
<1>4. Segment(r, n) \in Goroutine
  <2>1. req[r] \in Goroutine
    OBVIOUS
  <2> QED BY <2>1, <1>2, <1>3, SegmentField
<1>5. Segment(r, n).delivered = d /\ Segment(r, n).target = req[r].target
  BY <1>3 DEF Goroutine
<1> QED BY <1>2, <1>4, <1>5

LEMMA BreakMoves ==
    ASSUME req \in [Requests -> Goroutine], NEW r \in Requests, NEW n \in Lengths(r),
           req[r].target \in Workers,
           req' = [req EXCEPT ![r] = [Segment(r, n) EXCEPT !.pc = "interrupted"]]
    PROVE  \E s : Moves(r, s) /\ s.pc = "interrupted"
<1> DEFINE t == Segment(r, n)
           s == [t EXCEPT !.pc = "interrupted"]
<1>1. t \in Goroutine /\ t.target = req[r].target
  BY SegmentType
<1>2. req' = [req EXCEPT ![r] = s]
  OBVIOUS
<1> HIDE DEF t
<1>3. s \in Goroutine
  BY <1>1 DEF Goroutine, Stages
<1>4. s.pc = "interrupted" /\ s.target = req[r].target
  BY <1>1 DEF Goroutine
<1> HIDE DEF s
<1> QED BY <1>2, <1>3, <1>4 DEF Moves

LEMMA SelectType ==
    ASSUME NEW exclude, NEW w \in selectWorkerForModel(exclude)
    PROVE  w \in Workers
BY GatewayAssumption DEF selectWorkerForModel

-----------------------------------------------------------------------------
(* One lemma per group of actions: the move, and its tally.                  *)

Tallies(r) == \E s : Moves(r, s) /\ Tally(r, s)

\* A step that only changes the stage of r, between stages that hold the same.
LEMMA PlainTallies ==
    ASSUME NEW r \in Requests, NEW s, Moves(r, s),
           req[r].pc \in Handled <=> s.pc \in Handled,
           req[r].pc \in Queueing <=> s.pc \in Queueing,
           req[r].pc \in Holding <=> s.pc \in Holding,
           req[r].pc # "sent" /\ s.pc # "sent", s.pc # "waiting",
           UNCHANGED counters
    PROVE  Tallies(r)
<1>1. Tally(r, s)
  BY DEF Tally, InFlightMoves, QueuedMoves, SlotsMoves, LoadMoves, counters
<1> QED BY <1>1 DEF Tallies

LEMMA EntryTallies ==
    ASSUME TypeOK, TargetKnown, NEW r \in Requests,
           \/ Arrive(r) \/ Count(r) \/ Refuse(r) \/ Acquire(r) \/ CheckBody(r) \/ Reserve(r)
    PROVE  Tallies(r)
<1>0. req \in [Requests -> Goroutine]
  BY DEF TypeOK
<1> USE DEF Stages, Reserved, Handled, Holding, Queueing, Targeted
<1>1. CASE Arrive(r)
  <2>1. PICK stage \in {"entered", "done"} : Goto(r, stage)
    BY <1>1 DEF Arrive
  <2>2. PICK s : Moves(r, s) /\ s.pc = stage
    BY <1>0, <2>1, GotoMoves
  <2> QED BY <1>1, <2>1, <2>2, PlainTallies DEF Arrive
<1>2. CASE Count(r)
  <2>1. PICK s : Moves(r, s) /\ s.pc = "counted"
    BY <1>0, <1>2, GotoMoves DEF Count
  <2>2. Tally(r, s)
    BY <1>2, <2>1 DEF Count, Tally, InFlightMoves, QueuedMoves, SlotsMoves, LoadMoves
  <2> QED BY <2>1, <2>2 DEF Tallies
<1>3. CASE Refuse(r)
  <2>1. PICK s : Moves(r, s) /\ s.pc = "leave"
    BY <1>0, <1>3, GotoMoves DEF Refuse
  <2> QED BY <1>3, <2>1, PlainTallies DEF Refuse
<1>4. CASE Acquire(r)
  <2>1. PICK s : Moves(r, s) /\ s.pc = "gate"
    BY <1>0, <1>4, GotoMoves DEF Acquire
  <2>2. Tally(r, s)
    BY <1>4, <2>1 DEF Acquire, Tally, InFlightMoves, QueuedMoves, SlotsMoves, LoadMoves
  <2> QED BY <2>1, <2>2 DEF Tallies
<1>5. CASE CheckBody(r)
  <2>1. PICK stage \in {"release", "reserve"} : Goto(r, stage)
    BY <1>5 DEF CheckBody
  <2>2. PICK s : Moves(r, s) /\ s.pc = stage
    BY <1>0, <2>1, GotoMoves
  <2> QED BY <1>5, <2>1, <2>2, PlainTallies DEF CheckBody
<1>6. CASE Reserve(r)
  <2>1. PICK stage \in {"release", "select"} : Goto(r, stage)
    BY <1>6 DEF Reserve
  <2>2. PICK s : Moves(r, s) /\ s.pc = stage
    BY <1>0, <2>1, GotoMoves
  <2> QED BY <1>6, <2>1, <2>2, PlainTallies DEF Reserve
<1> QED BY <1>1, <1>2, <1>3, <1>4, <1>5, <1>6

LEMMA ExitTallies ==
    ASSUME TypeOK, TargetKnown, NEW r \in Requests,
           Adjust(r) \/ Release(r) \/ Leave(r)
    PROVE  Tallies(r)
<1>0. req \in [Requests -> Goroutine]
  BY DEF TypeOK
<1> USE DEF Stages, Reserved, Handled, Holding, Queueing, Targeted
<1>1. CASE Adjust(r)
  <2>1. PICK s : Moves(r, s) /\ s.pc = "release"
    BY <1>0, <1>1, GotoMoves DEF Adjust
  <2> QED BY <1>1, <2>1, PlainTallies DEF Adjust
<1>2. CASE Release(r)
  <2>1. PICK s : Moves(r, s) /\ s.pc = "leave"
    BY <1>0, <1>2, GotoMoves DEF Release
  <2>2. Tally(r, s)
    BY <1>2, <2>1 DEF Release, Tally, InFlightMoves, QueuedMoves, SlotsMoves, LoadMoves
  <2> QED BY <2>1, <2>2 DEF Tallies
<1>3. CASE Leave(r)
  <2>1. PICK s : Moves(r, s) /\ s.pc = "done"
    BY <1>0, <1>3, GotoMoves DEF Leave
  <2>2. Tally(r, s)
    BY <1>3, <2>1 DEF Leave, Tally, InFlightMoves, QueuedMoves, SlotsMoves, LoadMoves
  <2> QED BY <2>1, <2>2 DEF Tallies
<1> QED BY <1>1, <1>2, <1>3

\* A step on which r leaves the queue.
LEMMA UnqueuedTallies ==
    ASSUME NEW r \in Requests, NEW s, Moves(r, s),
           req[r].pc \in Queueing, s.pc \in Reserved \ (Queueing \cup {"sent"}),
           queued' = queued - 1, UNCHANGED <<inFlight, slots, inflight>>
    PROVE  Tallies(r)
<1>1. Tally(r, s)
  BY DEF Tally, InFlightMoves, QueuedMoves, SlotsMoves, LoadMoves,
         Stages, Reserved, Handled, Holding, Queueing
<1> QED BY <1>1 DEF Tallies

LEMMA SelectWorkerMoves ==
    ASSUME TypeOK, NEW r \in Requests, SelectWorker(r)
    PROVE  \E s : Moves(r, s) /\ s.pc = "dispatch"
<1>0. req \in [Requests -> Goroutine] /\ req[r] \in Goroutine
  BY DEF TypeOK
<1>1. PICK w \in IF Sticks(KeyOf[r]) THEN {sticky[KeyOf[r]]} ELSE selectWorkerForModel({}) :
          req' = [req EXCEPT ![r].pc = "dispatch", ![r].target = w, ![r].hot = w \in loaded]
  BY DEF SelectWorker
<1>2. w \in Workers
  <2>1. CASE Sticks(KeyOf[r])
    BY <2>1, <1>1, GatewayAssumption DEF Sticks, TypeOK
  <2>2. CASE ~ Sticks(KeyOf[r])
    BY <2>2, <1>1, SelectType
  <2> QED BY <2>1, <2>2
<1> DEFINE h == w \in loaded
<1>3. /\ h \in BOOLEAN
      /\ req' = [req EXCEPT ![r].pc = "dispatch", ![r].target = w, ![r].hot = h]
  BY <1>1
<1> HIDE DEF h
<1> DEFINE s == [req[r] EXCEPT !.pc = "dispatch", !.target = w, !.hot = h]
<1>4. req' = [req EXCEPT ![r] = s]
  BY <1>0, <1>3
<1>5. s \in Goroutine /\ s.pc = "dispatch" /\ s.target = w
  <2>1. "dispatch" \in Stages /\ w \in Workers \cup {None}
    BY <1>2 DEF Stages
  <2> QED BY <1>0, <1>3, <2>1 DEF Goroutine
<1> HIDE DEF s
<1> QED BY <1>2, <1>4, <1>5 DEF Moves

\* A woken waiter goes on with the worker, or gives up.
LEMMA WokenMoves ==
    ASSUME TypeOK, NEW r \in Requests, NEW w \in Workers, Woken(r, w)
    PROVE  \E s : Moves(r, s) /\ s.pc \in {"dispatch", "forward", "adjust"}
<1>0. req \in [Requests -> Goroutine] /\ req[r] \in Goroutine
  BY DEF TypeOK
<1>1. CASE req[r].caller = "first"
  <2>1. req' = [req EXCEPT ![r].pc = "dispatch", ![r].target = w, ![r].hot = w \in loaded]
    BY <1>1 DEF Woken
  <2> DEFINE h == w \in loaded
  <2>2. /\ h \in BOOLEAN
        /\ req' = [req EXCEPT ![r].pc = "dispatch", ![r].target = w, ![r].hot = h]
    BY <2>1
  <2> HIDE DEF h
  <2> DEFINE s == [req[r] EXCEPT !.pc = "dispatch", !.target = w, !.hot = h]
  <2>3. req' = [req EXCEPT ![r] = s]
    BY <1>0, <2>2
  <2>4. s \in Goroutine /\ s.pc = "dispatch" /\ s.target = w
    <3>1. "dispatch" \in Stages /\ w \in Workers \cup {None}
      BY DEF Stages
    <3> QED BY <1>0, <2>2, <3>1 DEF Goroutine
  <2> HIDE DEF s
  <2> QED BY <2>3, <2>4 DEF Moves
<1>2. CASE req[r].caller = "retry"
  <2>1. req' = [req EXCEPT ![r].pc = "forward", ![r].target = w, ![r].tried = {}]
    BY <1>2 DEF Woken
  <2> DEFINE s == [req[r] EXCEPT !.pc = "forward", !.target = w, !.tried = {}]
  <2>3. req' = [req EXCEPT ![r] = s]
    BY <1>0, <2>1
  <2>4. s \in Goroutine /\ s.pc = "forward" /\ s.target = w
    <3>1. "forward" \in Stages /\ w \in Workers \cup {None}
      BY DEF Stages
    <3> QED BY <1>0, <3>1 DEF Goroutine
  <2> HIDE DEF s
  <2> QED BY <2>3, <2>4 DEF Moves
<1>3. CASE req[r].caller = "resume" /\ w \in Capable
  <2> DEFINE n == req[r].resumes + 1
  <2>1. req' = [req EXCEPT ![r].pc = "forward", ![r].target = w, ![r].resumes = n]
    BY <1>0, <1>3 DEF Woken
  <2>2. n \in Nat
    BY <1>0 DEF Goroutine
  <2> HIDE DEF n
  <2> DEFINE s == [req[r] EXCEPT !.pc = "forward", !.target = w, !.resumes = n]
  <2>3. req' = [req EXCEPT ![r] = s]
    BY <1>0, <2>1
  <2>4. s \in Goroutine /\ s.pc = "forward" /\ s.target = w
    <3>1. "forward" \in Stages /\ w \in Workers \cup {None}
      BY DEF Stages
    <3> QED BY <1>0, <2>2, <3>1 DEF Goroutine
  <2> HIDE DEF s
  <2> QED BY <2>3, <2>4 DEF Moves
<1>4. CASE req[r].caller = "resume" /\ w \notin Capable
  <2>1. GiveUp(r)
    BY <1>4 DEF Woken
  <2> QED BY <1>0, <2>1, GiveUpMoves
<1>5. req[r].caller \in {"first", "retry", "resume"}
  BY <1>0 DEF Goroutine
<1> QED BY <1>1, <1>2, <1>3, <1>4, <1>5

LEMMA WaitTallies ==
    ASSUME TypeOK, TargetKnown, NEW r \in Requests,
           \/ SelectWorker(r) \/ SelectNone(r) \/ BlockFails(r) \/ Enqueue(r) \/ QueueFull(r)
           \/ Wake(r) \/ WindowEnds(r) \/ WaiterLeaves(r)
    PROVE  Tallies(r)
<1>0. req \in [Requests -> Goroutine] /\ queued \in Nat
  BY DEF TypeOK
<1> USE DEF Stages, Reserved, Handled, Holding, Queueing, Targeted
<1>1. CASE SelectWorker(r)
  <2>1. PICK s : Moves(r, s) /\ s.pc = "dispatch"
    BY <1>1, SelectWorkerMoves
  <2> QED BY <1>1, <2>1, PlainTallies DEF SelectWorker
<1>2. CASE SelectNone(r)
  <2>1. PICK stage \in {"block", "adjust"} : Goto(r, stage)
    BY <1>2 DEF SelectNone
  <2>2. PICK s : Moves(r, s) /\ s.pc = stage
    BY <1>0, <2>1, GotoMoves
  <2> QED BY <1>2, <2>1, <2>2, PlainTallies DEF SelectNone
<1>3. CASE BlockFails(r)
  <2>1. PICK s : Moves(r, s) /\ s.pc = "adjust"
    BY <1>0, <1>3, GiveUpMoves DEF BlockFails
  <2> QED BY <1>3, <2>1, PlainTallies DEF BlockFails
<1>4. CASE Enqueue(r)
  <2>1. PICK stage \in {"full", "waiting"} :
            Goto(r, stage) /\ (stage = "waiting" => ~ Overshot(queued))
    BY <1>4 DEF Enqueue
  <2>2. PICK s : Moves(r, s) /\ s.pc = stage
    BY <1>0, <2>1, GotoMoves
  <2>3. Tally(r, s)
    BY <1>0, <1>4, <2>1, <2>2, GatewayAssumption
       DEF Enqueue, Overshot, Tally, InFlightMoves, QueuedMoves, SlotsMoves, LoadMoves
  <2> QED BY <2>2, <2>3 DEF Tallies
<1>5. CASE QueueFull(r)
  <2>1. PICK s : Moves(r, s) /\ s.pc = "adjust"
    BY <1>0, <1>5, GiveUpMoves DEF QueueFull
  <2> QED BY <1>5, <2>1, UnqueuedTallies DEF QueueFull
<1>6. CASE Wake(r)
  <2>1. PICK w \in Workers : Woken(r, w)
    BY <1>6, SelectType DEF Wake
  <2>2. PICK s : Moves(r, s) /\ s.pc \in {"dispatch", "forward", "adjust"}
    BY <2>1, WokenMoves
  <2> QED BY <1>6, <2>2, UnqueuedTallies DEF Wake
<1>7. CASE WindowEnds(r)
  <2>1. PICK s : Moves(r, s) /\ s.pc \in {"again", "adjust"}
    BY <1>0, <1>7, GiveUpMoves, GotoMoves DEF WindowEnds
  <2> QED BY <1>7, <2>1, UnqueuedTallies DEF WindowEnds
<1>8. CASE WaiterLeaves(r)
  <2>1. PICK s : Moves(r, s) /\ s.pc = "adjust"
    BY <1>0, <1>8, GiveUpMoves DEF WaiterLeaves
  <2> QED BY <1>8, <2>1, UnqueuedTallies DEF WaiterLeaves
<1> QED BY <1>1, <1>2, <1>3, <1>4, <1>5, <1>6, <1>7, <1>8

\* The forward of r is over, and it goes on at another stage.
LEMMA BackTallies ==
    ASSUME NEW r \in Requests, NEW s, Moves(r, s), Back(r),
           s.pc \in {"retry", "interrupted", "adjust"}
    PROVE  Tallies(r)
<1>1. Tally(r, s)
  BY DEF Back, Tally, InFlightMoves, QueuedMoves, SlotsMoves, LoadMoves,
         Stages, Reserved, Handled, Holding, Queueing
<1> QED BY <1>1 DEF Tallies

LEMMA TriedMoves ==
    ASSUME req \in [Requests -> Goroutine], NEW r \in Requests,
           req[r].target \in Workers,
           req' = [req EXCEPT ![r].pc = "retry", ![r].tried = Tried(r)]
    PROVE  \E s : Moves(r, s) /\ s.pc = "retry"
<1>0. req[r] \in Goroutine /\ "retry" \in Stages
  BY DEF Stages
<1> DEFINE T == Tried(r)
<1>1. T \in SUBSET Workers
  BY <1>0 DEF Tried, Goroutine
<1>2. req' = [req EXCEPT ![r].pc = "retry", ![r].tried = T]
  OBVIOUS
<1> HIDE DEF T
<1> DEFINE s == [req[r] EXCEPT !.pc = "retry", !.tried = T]
<1>3. req' = [req EXCEPT ![r] = s]
  BY <1>0, <1>2
<1>4. s \in Goroutine
  BY <1>0, <1>1 DEF Goroutine
<1>5. s.pc = "retry" /\ s.target = req[r].target
  BY <1>0 DEF Goroutine
<1> HIDE DEF s
<1> QED BY <1>3, <1>4, <1>5 DEF Moves

LEMMA BilledType ==
    ASSUME NEW t \in Goroutine, NEW total \in Reported
    PROVE  Billed(t, total) \in Nat
BY GatewayAssumption, MeteredType DEF Billed, Goroutine

LEMMA AnswerTallies ==
    ASSUME TypeOK, TargetKnown, NEW r \in Requests,
           \/ AttemptFails(r) \/ Answered(r) \/ StreamFailsEarly(r)
           \/ StreamEnds(r) \/ StreamErrs(r) \/ StreamBreaks(r)
    PROVE  Tallies(r)
<1>0. /\ req \in [Requests -> Goroutine] /\ req[r] \in Goroutine
      /\ Back(r)
      /\ req[r].target \in Workers
  BY DEF TypeOK, TargetKnown, Targeted, AttemptFails, Answered, StreamFailsEarly,
         StreamEnds, StreamErrs, StreamBreaks, Back
<1>1. CASE AttemptFails(r) \/ StreamFailsEarly(r)
  BY <1>0, <1>1, TriedMoves, BackTallies DEF AttemptFails, StreamFailsEarly
<1>2. CASE Answered(r)
  <2>1. PICK ok \in BOOLEAN, total \in Reported :
            Return(r, req[r], [ok |-> ok, total |-> total, clean |-> TRUE],
                   KeptForAnswer(ok, total))
    BY <1>2 DEF Answered
  <2>2. total \in Nat /\ KeptForAnswer(ok, total) \in Nat
    BY GatewayAssumption DEF KeptForAnswer
  <2>3. [ok |-> ok, total |-> total, clean |-> TRUE] \in Record
    BY <2>2 DEF Record
  <2>4. PICK s : Moves(r, s) /\ s.pc = "adjust"
    BY <1>0, <2>1, <2>2, <2>3, ReturnMoves
  <2> QED BY <1>0, <2>4, BackTallies
<1>3. CASE StreamEnds(r)
  <2>1. PICK n \in Lengths(r), total \in Reported, ok \in BOOLEAN :
            LET t == Segment(r, n)
                billed == Billed(t, total)
            IN  Return(r, t, [ok |-> ok, total |-> billed, clean |-> TRUE], billed)
    BY <1>3 DEF StreamEnds
  <2> DEFINE t == Segment(r, n)
             billed == Billed(t, total)
  <2>2. t \in Goroutine
    BY <1>0, SegmentType
  <2>3. billed \in Nat
    BY <2>2, BilledType
  <2>4. Return(r, t, [ok |-> ok, total |-> billed, clean |-> TRUE], billed)
    BY <2>1
  <2> HIDE DEF t, billed
  <2>5. [ok |-> ok, total |-> billed, clean |-> TRUE] \in Record
    BY <2>3 DEF Record
  <2>6. PICK s : Moves(r, s) /\ s.pc = "adjust"
    BY <1>0, <2>2, <2>3, <2>4, <2>5, ReturnMoves
  <2> QED BY <1>0, <2>6, BackTallies
<1>4. CASE StreamErrs(r)
  <2>1. PICK n \in Lengths(r) :
            req' = [req EXCEPT ![r] = [Segment(r, n) EXCEPT !.pc = "interrupted"]]
    BY <1>4 DEF StreamErrs
  <2>2. PICK s : Moves(r, s) /\ s.pc = "interrupted"
    BY <1>0, <2>1, BreakMoves
  <2> QED BY <1>0, <2>2, BackTallies
<1>5. CASE StreamBreaks(r)
  <2>1. PICK n \in Lengths(r) :
            \/ Return(r, Segment(r, n),
                      [ok |-> TRUE, total |-> Metered(Segment(r, n).delivered), clean |-> TRUE],
                      Metered(Segment(r, n).delivered))
            \/ req' = [req EXCEPT ![r] = [Segment(r, n) EXCEPT !.pc = "interrupted"]]
    BY <1>5 DEF StreamBreaks
  <2>2. CASE req' = [req EXCEPT ![r] = [Segment(r, n) EXCEPT !.pc = "interrupted"]]
    <3>1. PICK s : Moves(r, s) /\ s.pc = "interrupted"
      BY <1>0, <2>2, BreakMoves
    <3> QED BY <1>0, <3>1, BackTallies
  <2>3. CASE Return(r, Segment(r, n),
                    [ok |-> TRUE, total |-> Metered(Segment(r, n).delivered), clean |-> TRUE],
                    Metered(Segment(r, n).delivered))
    <3> DEFINE t == Segment(r, n)
               m == Metered(t.delivered)
    <3>1. t \in Goroutine /\ m \in Nat
      BY <1>0, SegmentType, MeteredType
    <3>2. Return(r, t, [ok |-> TRUE, total |-> m, clean |-> TRUE], m)
      BY <2>3
    <3> HIDE DEF t, m
    <3>3. [ok |-> TRUE, total |-> m, clean |-> TRUE] \in Record
      BY <3>1 DEF Record
    <3>4. PICK s : Moves(r, s) /\ s.pc = "adjust"
      BY <1>0, <3>1, <3>2, <3>3, ReturnMoves
    <3> QED BY <1>0, <3>4, BackTallies
  <2> QED BY <2>1, <2>2, <2>3
<1> QED BY <1>1, <1>2, <1>3, <1>4, <1>5

LEMMA DispatchMoves ==
    ASSUME req \in [Requests -> Goroutine], NEW r \in Requests,
           req[r].target \in Workers,
           req' = [req EXCEPT ![r].pc = "forward", ![r].caller = "retry"]
    PROVE  \E s : Moves(r, s) /\ s.pc = "forward"
<1> DEFINE s == [req[r] EXCEPT !.pc = "forward", !.caller = "retry"]
<1>0. req[r] \in Goroutine /\ "forward" \in Stages
  BY DEF Stages
<1>1. req' = [req EXCEPT ![r] = s]
  BY <1>0
<1>2. s \in Goroutine
  BY <1>0 DEF Goroutine
<1>3. s.pc = "forward" /\ s.target = req[r].target
  BY <1>0 DEF Goroutine
<1> HIDE DEF s
<1> QED BY <1>1, <1>2, <1>3 DEF Moves

LEMMA RetryMoves ==
    ASSUME req \in [Requests -> Goroutine], NEW r \in Requests, NEW w \in Workers,
           req' = [req EXCEPT ![r].pc = "forward", ![r].target = w]
    PROVE  \E s : Moves(r, s) /\ s.pc = "forward"
<1> DEFINE s == [req[r] EXCEPT !.pc = "forward", !.target = w]
<1>0. req[r] \in Goroutine /\ "forward" \in Stages /\ w \in Workers \cup {None}
  BY DEF Stages
<1>1. req' = [req EXCEPT ![r] = s]
  BY <1>0
<1>2. s \in Goroutine
  BY <1>0 DEF Goroutine
<1>3. s.pc = "forward" /\ s.target = w
  BY <1>0 DEF Goroutine
<1> HIDE DEF s
<1> QED BY <1>1, <1>2, <1>3 DEF Moves

LEMMA ResumeMoves ==
    ASSUME req \in [Requests -> Goroutine], NEW r \in Requests, NEW w \in Workers,
           NEW T \in SUBSET Workers,
           req' = [req EXCEPT ![r].pc = "forward", ![r].target = w,
                              ![r].tried = T, ![r].resumes = @ + 1]
    PROVE  \E s : Moves(r, s) /\ s.pc = "forward"
<1>0. req[r] \in Goroutine /\ "forward" \in Stages /\ w \in Workers \cup {None}
  BY DEF Stages
<1> DEFINE n == req[r].resumes + 1
<1>1. req' = [req EXCEPT ![r].pc = "forward", ![r].target = w,
                         ![r].tried = T, ![r].resumes = n]
  BY <1>0
<1>2. n \in Nat
  BY <1>0 DEF Goroutine
<1> HIDE DEF n
<1> DEFINE s == [req[r] EXCEPT !.pc = "forward", !.target = w, !.tried = T, !.resumes = n]
<1>3. req' = [req EXCEPT ![r] = s]
  BY <1>0, <1>1
<1>4. s \in Goroutine
  BY <1>0, <1>2 DEF Goroutine
<1>5. s.pc = "forward" /\ s.target = w
  BY <1>0 DEF Goroutine
<1> HIDE DEF s
<1> QED BY <1>3, <1>4, <1>5 DEF Moves

LEMMA ResumeWaitMoves ==
    ASSUME req \in [Requests -> Goroutine], NEW r \in Requests, NEW T \in SUBSET Workers,
           req' = [req EXCEPT ![r].pc = "block", ![r].tried = T, ![r].caller = "resume"]
    PROVE  \E s : Moves(r, s) /\ s.pc = "block"
<1> DEFINE s == [req[r] EXCEPT !.pc = "block", !.tried = T, !.caller = "resume"]
<1>0. req[r] \in Goroutine /\ "block" \in Stages \ Targeted
  BY DEF Stages, Targeted
<1>1. req' = [req EXCEPT ![r] = s]
  BY <1>0
<1>2. s \in Goroutine
  BY <1>0 DEF Goroutine
<1>3. s.pc = "block"
  BY <1>0 DEF Goroutine
<1> HIDE DEF s
<1> QED BY <1>0, <1>1, <1>2, <1>3 DEF Moves

LEMMA ForwardTallies ==
    ASSUME TypeOK, TargetKnown, NEW r \in Requests,
           Dispatch(r) \/ Forward(r) \/ Retry(r) \/ Resume(r) \/ ResumeFails(r)
    PROVE  Tallies(r)
<1>0. req \in [Requests -> Goroutine] /\ req[r] \in Goroutine
  BY DEF TypeOK
<1> USE DEF Stages, Reserved, Handled, Holding, Queueing, Targeted
<1>1. CASE Dispatch(r)
  <2>1. req[r].target \in Workers
    BY <1>1 DEF Dispatch, TargetKnown
  <2>2. PICK s : Moves(r, s) /\ s.pc = "forward"
    BY <1>0, <1>1, <2>1, DispatchMoves DEF Dispatch
  <2> QED BY <1>1, <2>2, PlainTallies DEF Dispatch
<1>2. CASE Forward(r)
  <2>1. req[r].target \in Workers
    BY <1>2 DEF Forward, TargetKnown
  <2>2. PICK s : Moves(r, s) /\ s.pc = "sent" /\ s.target = req[r].target
    BY <1>0, <1>2, <2>1, GotoMoves DEF Forward
  <2>3. Tally(r, s)
    BY <1>2, <2>2 DEF Forward, Tally, InFlightMoves, QueuedMoves, SlotsMoves, LoadMoves
  <2> QED BY <2>2, <2>3 DEF Tallies
<1>3. CASE Retry(r)
  <2>1. CASE Goto(r, "block")
    <3>1. PICK s : Moves(r, s) /\ s.pc = "block"
      BY <1>0, <2>1, GotoMoves
    <3> QED BY <1>3, <3>1, PlainTallies DEF Retry
  <2>2. CASE \E w \in selectWorkerForModel(req[r].tried) :
                 req' = [req EXCEPT ![r].pc = "forward", ![r].target = w]
    <3>1. PICK w \in Workers : req' = [req EXCEPT ![r].pc = "forward", ![r].target = w]
      BY <2>2, SelectType
    <3>2. PICK s : Moves(r, s) /\ s.pc = "forward"
      BY <1>0, <3>1, RetryMoves
    <3> QED BY <1>3, <3>2, PlainTallies DEF Retry
  <2> QED BY <1>3, <2>1, <2>2 DEF Retry
<1>4. CASE Resume(r)
  <2>1. req[r].target \in Workers
    BY <1>4 DEF Resume, TargetKnown
  <2>2. PICK skipped \in SUBSET (Workers \ Capable) :
            \/ \E w \in selectWorkerForModel(Tried(r) \cup skipped) \cap Capable :
                  req' = [req EXCEPT ![r].pc = "forward", ![r].target = w,
                                     ![r].tried = Tried(r) \cup skipped,
                                     ![r].resumes = @ + 1]
            \/ req' = [req EXCEPT ![r].pc = "block", ![r].tried = Tried(r) \cup skipped,
                                  ![r].caller = "resume"]
    BY <1>4 DEF Resume
  <2>3. PICK T \in SUBSET Workers : T = Tried(r) \cup skipped
    BY <1>0, <2>1 DEF Tried, Goroutine
  <2>4. CASE \E w \in selectWorkerForModel(T) \cap Capable :
                 req' = [req EXCEPT ![r].pc = "forward", ![r].target = w,
                                    ![r].tried = T, ![r].resumes = @ + 1]
    <3>1. PICK w \in Workers :
              req' = [req EXCEPT ![r].pc = "forward", ![r].target = w,
                                 ![r].tried = T, ![r].resumes = @ + 1]
      BY <2>4, SelectType
    <3>2. PICK s : Moves(r, s) /\ s.pc = "forward"
      BY <1>0, <3>1, ResumeMoves
    <3> QED BY <1>4, <3>2, PlainTallies DEF Resume
  <2>5. CASE req' = [req EXCEPT ![r].pc = "block", ![r].tried = T, ![r].caller = "resume"]
    <3>1. PICK s : Moves(r, s) /\ s.pc = "block"
      BY <1>0, <2>5, ResumeWaitMoves
    <3> QED BY <1>4, <3>1, PlainTallies DEF Resume
  <2> QED BY <2>2, <2>3, <2>4, <2>5
<1>5. CASE ResumeFails(r)
  <2>1. PICK s : Moves(r, s) /\ s.pc = "adjust"
    BY <1>0, <1>5, InterruptedMoves DEF ResumeFails
  <2> QED BY <1>5, <2>1, PlainTallies DEF ResumeFails
<1> QED BY <1>1, <1>2, <1>3, <1>4, <1>5

LEMMA StepTallies ==
    ASSUME TypeOK, TargetKnown, NEW r \in Requests, Step(r)
    PROVE  Tallies(r)
BY EntryTallies, WaitTallies, ForwardTallies, AnswerTallies, ExitTallies DEF Step

-----------------------------------------------------------------------------
(* The other variables keep their types.                                     *)

RegistryOK ==
    /\ wstate \in [Workers -> {"idle", "busy", "mining", "loading", "offline"}]
    /\ loaded \subseteq Workers /\ switching \subseteq Workers
    /\ banned \subseteq Workers /\ verified \subseteq Workers

CacheOK ==
    /\ balance \in [Wallets -> Balances]
    /\ suspended \subseteq Wallets

BooksOK ==
    /\ DOMAIN pending \subseteq Wallets
    /\ \A w \in DOMAIN pending : pending[w] \in Nat
    /\ settled \subseteq Requests /\ hasty \subseteq settled

StickyOK == sticky \in [Keys -> Workers \cup {None}]
DrainOK  == drain \in {"no", "draining", "clean", "timeout"} /\ churn \in 0 .. MaxChurn

RestOK == RegistryOK /\ CacheOK /\ BooksOK /\ StickyOK /\ DrainOK

LEMMA TypeForm ==
    TypeOK <=> /\ req \in [Requests -> Goroutine]
               /\ inFlight \in Nat /\ queued \in Nat
               /\ slots \in [Keys -> Nat] /\ inflight \in [Workers -> Nat]
               /\ RestOK
BY DEF TypeOK, RestOK, RegistryOK, CacheOK, BooksOK, StickyOK, DrainOK

LEMMA PendingType ==
    ASSUME BooksOK, NEW w
    PROVE  Pending(w) \in Nat
BY DEF BooksOK, Pending

LEMMA ReserveBooks ==
    ASSUME TypeOK, NEW r \in Requests, Reserve(r)
    PROVE  BooksOK'
<1>1. BooksOK
  BY TypeForm DEF RestOK
<1>2. WalletOf[r] \in Wallets /\ Estimate \in Nat
  BY GatewayAssumption DEF Estimate
<1>3. Pending(WalletOf[r]) + Estimate \in Nat
  BY <1>1, <1>2, PendingType
<1> QED BY <1>1, <1>2, <1>3 DEF Reserve, BooksOK

LEMMA AdjustBooks ==
    ASSUME TypeOK, NEW r \in Requests, Adjust(r)
    PROVE  BooksOK'
<1>1. BooksOK /\ req[r] \in Goroutine
  BY TypeForm DEF RestOK
<1>2. req[r].kept \in Nat /\ Estimate \in Nat
  BY <1>1, GatewayAssumption DEF Goroutine, Estimate
<1>3. \A w \in DOMAIN pending : AdjustedSpend(w, req[r].kept) \in Nat
  BY <1>1, <1>2 DEF BooksOK, AdjustedSpend, Floored
<1> QED BY <1>1, <1>3 DEF Adjust, BooksOK

LEMMA SettleBooks ==
    ASSUME TypeOK, NEW r \in Requests, Settle(r)
    PROVE  BooksOK'
<1>1. BooksOK /\ req[r] \in Goroutine
  BY TypeForm DEF RestOK
<1>2. req[r].record.total \in Nat
  BY <1>1 DEF Goroutine, Record
<1> DEFINE w == WalletOf[r]
           rest == Pending(w) - req[r].record.total
<1>3. rest \in Int /\ (rest > 0 => w \in DOMAIN pending)
  BY <1>1, <1>2, PendingType DEF Pending
<1>4. settled' \subseteq Requests /\ hasty' \subseteq settled'
  BY <1>1 DEF Settle, BooksOK
<1>5. pending' = IF rest > 0 THEN [pending EXCEPT ![w] = rest]
                 ELSE [v \in DOMAIN pending \ {w} |-> pending[v]]
  BY DEF Settle
<1> HIDE DEF rest, w
<1>6. DOMAIN pending' \subseteq Wallets /\ \A v \in DOMAIN pending' : pending'[v] \in Nat
  BY <1>1, <1>3, <1>5 DEF BooksOK
<1> QED BY <1>4, <1>6 DEF BooksOK

LEMMA SelectSticky ==
    ASSUME TypeOK, NEW r \in Requests, SelectWorker(r)
    PROVE  StickyOK'
<1>1. sticky \in [Keys -> Workers \cup {None}]
  BY DEF TypeOK
<1>2. PICK w \in IF Sticks(KeyOf[r]) THEN {sticky[KeyOf[r]]} ELSE selectWorkerForModel({}) :
          sticky' = [sticky EXCEPT ![KeyOf[r]] = w]
  BY DEF SelectWorker
<1>3. w \in Workers \cup {None}
  <2>1. CASE Sticks(KeyOf[r])
    BY <2>1, <1>1, <1>2, GatewayAssumption
  <2>2. CASE ~ Sticks(KeyOf[r])
    BY <2>2, <1>2, SelectType
  <2> QED BY <2>1, <2>2
<1> QED BY <1>1, <1>2, <1>3 DEF StickyOK

LEMMA DispatchRegistry ==
    ASSUME TypeOK, TargetKnown, NEW r \in Requests, Dispatch(r)
    PROVE  RegistryOK'
<1>1. RegistryOK
  BY TypeForm DEF RestOK
<1>2. req[r].target \in Workers
  BY DEF Dispatch, TargetKnown, Targeted
<1> QED BY <1>1, <1>2 DEF Dispatch, RegistryOK

LEMMA StepRest ==
    ASSUME TypeOK, TargetKnown, NEW r \in Requests, Step(r)
    PROVE  RestOK'
<1>0. RestOK
  BY TypeForm
<1>1. CASE Reserve(r)
  BY <1>0, <1>1, ReserveBooks
     DEF Reserve, RestOK, RegistryOK, CacheOK, StickyOK, DrainOK, registry, cache
<1>2. CASE Adjust(r)
  BY <1>0, <1>2, AdjustBooks
     DEF Adjust, RestOK, RegistryOK, CacheOK, StickyOK, DrainOK, registry, cache
<1>3. CASE SelectWorker(r)
  BY <1>0, <1>3, SelectSticky
     DEF SelectWorker, RestOK, RegistryOK, CacheOK, BooksOK, DrainOK, registry, cache, books
<1>4. CASE Dispatch(r)
  BY <1>0, <1>4, DispatchRegistry
     DEF Dispatch, RestOK, CacheOK, BooksOK, StickyOK, DrainOK, cache, books
<1>5. CASE UNCHANGED <<drain, sticky, registry, cache, books, churn>>
  BY <1>0, <1>5
     DEF RestOK, RegistryOK, CacheOK, BooksOK, StickyOK, DrainOK, registry, cache, books
<1>6. CASE \/ Arrive(r) \/ Count(r) \/ Refuse(r) \/ Acquire(r) \/ CheckBody(r)
           \/ SelectNone(r) \/ BlockFails(r) \/ Enqueue(r) \/ QueueFull(r)
           \/ Wake(r) \/ WindowEnds(r) \/ WaiterLeaves(r) \/ Forward(r)
           \/ Retry(r) \/ Resume(r) \/ ResumeFails(r) \/ Release(r) \/ Leave(r)
  BY <1>5, <1>6 DEF Arrive, Count, Refuse, Acquire, CheckBody, SelectNone, BlockFails,
     Enqueue, QueueFull, Wake, WindowEnds, WaiterLeaves, Forward, Retry, Resume,
     ResumeFails, Release, Leave
<1>7. CASE \/ AttemptFails(r) \/ Answered(r) \/ StreamFailsEarly(r)
           \/ StreamEnds(r) \/ StreamErrs(r) \/ StreamBreaks(r)
  BY <1>5, <1>7 DEF AttemptFails, Answered, StreamFailsEarly, StreamEnds, StreamErrs,
     StreamBreaks, Back
<1> QED BY <1>1, <1>2, <1>3, <1>4, <1>6, <1>7 DEF Step

-----------------------------------------------------------------------------
(* The other actors.                                                         *)

LEMMA SignalTallies ==
    ASSUME TypeOK, TargetKnown, NEW r \in Requests, ClientLeaves(r) \/ DeadlinePasses(r)
    PROVE  Tallies(r)
<1>0. req \in [Requests -> Goroutine] /\ req[r] \in Goroutine
  BY DEF TypeOK
<1>1. PICK s : Moves(r, s) /\ s.pc = req[r].pc /\ s.target = req[r].target
  <2>1. CASE ClientLeaves(r)
    <3> DEFINE s == [req[r] EXCEPT !.gone = TRUE]
    <3>1. req' = [req EXCEPT ![r] = s]
      BY <1>0, <2>1 DEF ClientLeaves
    <3>2. s \in Goroutine
      BY <1>0 DEF Goroutine
    <3>3. s.pc = req[r].pc /\ s.target = req[r].target
      BY <1>0 DEF Goroutine
    <3> HIDE DEF s
    <3> QED BY <3>1, <3>2, <3>3 DEF Moves, TargetKnown
  <2>2. CASE DeadlinePasses(r)
    <3> DEFINE s == [req[r] EXCEPT !.late = TRUE]
    <3>1. req' = [req EXCEPT ![r] = s]
      BY <1>0, <2>2 DEF DeadlinePasses
    <3>2. s \in Goroutine
      BY <1>0 DEF Goroutine
    <3>3. s.pc = req[r].pc /\ s.target = req[r].target
      BY <1>0 DEF Goroutine
    <3> HIDE DEF s
    <3> QED BY <3>1, <3>2, <3>3 DEF Moves, TargetKnown
  <2> QED BY <2>1, <2>2
<1>2. Tally(r, s)
  BY <1>1 DEF ClientLeaves, DeadlinePasses, Tally, InFlightMoves, QueuedMoves,
     SlotsMoves, LoadMoves, counters
<1> QED BY <1>1, <1>2 DEF Tallies

LEMMA RegistryEvents ==
    ASSUME TypeOK, NEW w \in Workers, Poll(w) \/ MarkOffline(w) \/ Ban(w) \/ Verify(w)
    PROVE  RestOK' /\ UNCHANGED <<req, counters>>
<1>0. RestOK
  BY TypeForm
<1>1. RegistryOK'
  <2>1. CASE Poll(w)
    BY <1>0, <2>1 DEF Poll, RestOK, RegistryOK
  <2>2. CASE MarkOffline(w) \/ Ban(w) \/ Verify(w)
    BY <1>0, <2>2 DEF MarkOffline, Ban, Verify, RestOK, RegistryOK
  <2> QED BY <2>1, <2>2
<1>2. Event /\ UNCHANGED <<sticky, cache>>
  BY DEF Poll, MarkOffline, Ban, Verify
<1>3. DrainOK'
  BY <1>0, <1>2, GatewayAssumption DEF Event, RestOK, DrainOK
<1> QED BY <1>0, <1>1, <1>2, <1>3
        DEF Event, RestOK, CacheOK, BooksOK, StickyOK, cache, books

LEMMA OtherEvents ==
    ASSUME TypeOK,
           \/ \E k \in Keys : ExpireSession(k)
           \/ \E w \in Wallets : Refresh(w) \/ UpdateDebts(w)
           \/ BeginDrain \/ DrainEnds
    PROVE  RestOK' /\ UNCHANGED <<req, counters>>
<1>0. RestOK
  BY TypeForm
<1>1. CASE \E k \in Keys : ExpireSession(k)
  BY <1>0, <1>1, GatewayAssumption
     DEF ExpireSession, Event, RestOK, RegistryOK, CacheOK, BooksOK, StickyOK, DrainOK,
         registry, cache, books
<1>2. CASE \E w \in Wallets : Refresh(w) \/ UpdateDebts(w)
  BY <1>0, <1>2, GatewayAssumption
     DEF Refresh, UpdateDebts, Event, RestOK, RegistryOK, CacheOK, BooksOK, StickyOK,
         DrainOK, registry, books
<1>3. CASE BeginDrain \/ DrainEnds
  BY <1>0, <1>3, GatewayAssumption
     DEF BeginDrain, DrainEnds, RestOK, RegistryOK, CacheOK, BooksOK, StickyOK, DrainOK,
         registry, cache, books
<1> QED BY <1>1, <1>2, <1>3

-----------------------------------------------------------------------------
(* The inductive invariant.                                                  *)

\* The slots that are taken are within the limit, not only the requests that
\* have passed the checks of the body.
SlotsBounded == \A k \in Keys : slots[k] <= MaxInFlight

QueueBounded == MaxQueueSize > 0 => Cardinality(At({"waiting"})) <= MaxQueueSize

GatewayInv == TypeOK /\ TargetKnown /\ CountersExact /\ SlotsBounded /\ QueueBounded

LEMMA InitInv == Init => GatewayInv
<1> SUFFICES ASSUME Init PROVE GatewayInv
  OBVIOUS
<1>1. req \in [Requests -> Goroutine] /\ \A r \in Requests : req[r].pc = "new"
  <2>1. Idle.pc = "new"
    BY DEF Idle
  <2> QED BY <2>1, IdleType DEF Init
<1>2. TypeOK
  <2>1. /\ inFlight \in Nat /\ queued \in Nat
        /\ slots \in [Keys -> Nat] /\ inflight \in [Workers -> Nat]
    BY DEF Init
  <2>2. RestOK
    BY GatewayAssumption
       DEF Init, RestOK, RegistryOK, CacheOK, BooksOK, StickyOK, DrainOK
  <2> QED BY <1>1, <2>1, <2>2, TypeForm
<1>3. TargetKnown
  BY <1>1 DEF TargetKnown, Targeted
<1>4. At(Handled) = {} /\ At(Queueing) = {} /\ At(Holding) = {} /\ At({"sent"}) = {}
      /\ At({"waiting"}) = {}
  BY <1>1 DEF At, Handled, Queueing, Holding, Reserved, Stages
<1>5. Cardinality({}) = 0
  BY FS_EmptySet
<1>6. CountersExact
  <2>1. (\A k \in Keys : OfKey(k) = {}) /\ (\A w \in Workers : Loading(w) = {})
    BY <1>4 DEF OfKey, Loading
  <2> QED BY <1>4, <1>5, <2>1, CountersForm DEF Init
<1>7. SlotsBounded
  BY GatewayAssumption DEF Init, SlotsBounded
<1>8. QueueBounded
  <2>1. Cardinality(At({"waiting"})) = 0
    BY <1>4, <1>5
  <2> QED BY <2>1, GatewayAssumption DEF QueueBounded
<1> QED BY <1>2, <1>3, <1>6, <1>7, <1>8 DEF GatewayInv

\* A request that moves with its tally keeps all but the other variables' types.
LEMMA TallyKeepsInv ==
    ASSUME GatewayInv, RestOK', NEW r \in Requests, Tallies(r)
    PROVE  GatewayInv'
<1>0. TypeOK /\ TargetKnown /\ CountersExact /\ req \in [Requests -> Goroutine]
      /\ slots \in [Keys -> Nat]
  BY DEF GatewayInv, TypeOK
<1>1. PICK s : Moves(r, s) /\ Tally(r, s)
  BY DEF Tallies
<1>2. /\ CountersExact'
      /\ inFlight' \in Nat /\ queued' \in Nat
      /\ slots' \in [Keys -> Nat] /\ inflight' \in [Workers -> Nat]
  BY <1>0, <1>1, TallyKeepsCounters
<1>3. req' \in [Requests -> Goroutine] /\ TargetKnown'
  BY <1>0, <1>1 DEF Moves, TargetKnown
<1>4. TypeOK'
  BY <1>2, <1>3, TypeForm
     DEF TypeOK, RestOK, RegistryOK, CacheOK, BooksOK, StickyOK, DrainOK
<1>5. SlotsBounded'
  <2>1. SlotsBounded /\ SlotsMoves(r, s) /\ KeyOf[r] \in Keys
    BY <1>1, GatewayAssumption DEF GatewayInv, Tally
  <2>2. \A k \in Keys : slots[k] \in Nat /\ slots'[k] \in Nat
    BY <1>0, <1>2
  <2>3. MaxInFlight \in Nat
    BY GatewayAssumption
  <2> QED BY <1>0, <2>1, <2>2, <2>3 DEF SlotsBounded, SlotsMoves, Floored
<1>6. QueueBounded'
  <2>1. /\ At({"waiting"}) \in SUBSET Requests
        /\ r \in At({"waiting"}) <=> req[r].pc = "waiting"
        /\ s.pc = "waiting" => At({"waiting"})' = At({"waiting"}) \cup {r}
        /\ s.pc # "waiting" => At({"waiting"})' = At({"waiting"}) \ {r}
    BY <1>0, <1>1, AtMoves
  <2>2. CASE s.pc = "waiting" /\ req[r].pc # "waiting"
    <3>1. MaxQueueSize > 0 => queued' <= MaxQueueSize
      BY <1>1, <2>2 DEF Tally, QueuedMoves
    <3>2. queued' = Cardinality(At(Queueing)')
      BY <1>2 DEF CountersExact, Queueing
    <3>3. At({"waiting"})' \subseteq At(Queueing)' /\ IsFiniteSet(At(Queueing)')
      BY GatewayAssumption, FS_Subset DEF At, Queueing
    <3>4. Cardinality(At({"waiting"})') <= Cardinality(At(Queueing)')
          /\ Cardinality(At({"waiting"})') \in Nat
      BY <3>3, FS_Subset, FS_CardinalityType
    <3> QED BY <1>2, <3>1, <3>2, <3>4, GatewayAssumption DEF QueueBounded
  <2>3. CASE ~ (s.pc = "waiting" /\ req[r].pc # "waiting")
    <3>1. At({"waiting"})' \subseteq At({"waiting"}) /\ IsFiniteSet(At({"waiting"}))
      BY <2>1, <2>3, GatewayAssumption, FS_Subset
    <3>2. Cardinality(At({"waiting"})') <= Cardinality(At({"waiting"}))
          /\ Cardinality(At({"waiting"})') \in Nat /\ Cardinality(At({"waiting"})) \in Nat
      BY <3>1, FS_Subset, FS_CardinalityType
    <3> QED BY <3>2, GatewayAssumption DEF GatewayInv, QueueBounded
  <2> QED BY <2>2, <2>3
<1> QED BY <1>2, <1>3, <1>4, <1>5, <1>6 DEF GatewayInv

\* A step that leaves the requests and the counters alone.
LEMMA QuietKeepsInv ==
    ASSUME GatewayInv, RestOK', UNCHANGED <<req, counters>>
    PROVE  GatewayInv'
<1>1. TypeOK'
  BY DEF GatewayInv, TypeOK, counters, RestOK, RegistryOK, CacheOK, BooksOK, StickyOK, DrainOK
<1>2. TargetKnown'
  BY DEF GatewayInv, TargetKnown
<1>3. CountersExact'
  BY DEF GatewayInv, CountersExact, At, counters
<1>4. SlotsBounded' /\ QueueBounded'
  BY DEF GatewayInv, SlotsBounded, QueueBounded, At, counters
<1> QED BY <1>1, <1>2, <1>3, <1>4 DEF GatewayInv

LEMMA NextKeepsInv == GatewayInv /\ [Next]_vars => GatewayInv'
<1> SUFFICES ASSUME GatewayInv, [Next]_vars PROVE GatewayInv'
  OBVIOUS
<1>0. TypeOK /\ TargetKnown /\ RestOK
  BY TypeForm DEF GatewayInv
<1>1. ASSUME NEW r \in Requests, Step(r) PROVE GatewayInv'
  BY <1>0, <1>1, StepTallies, StepRest, TallyKeepsInv
<1>2. ASSUME NEW r \in Requests, ClientLeaves(r) \/ DeadlinePasses(r) PROVE GatewayInv'
  <2>1. RestOK'
    BY <1>0, <1>2
       DEF ClientLeaves, DeadlinePasses, RestOK, RegistryOK, CacheOK, BooksOK, StickyOK,
           DrainOK, registry, cache, books
  <2> QED BY <1>0, <1>2, <2>1, SignalTallies, TallyKeepsInv
<1>3. ASSUME NEW r \in Requests, Settle(r) PROVE GatewayInv'
  <2>1. RestOK' /\ UNCHANGED <<req, counters>>
    BY <1>0, <1>3, SettleBooks
       DEF Settle, RestOK, RegistryOK, CacheOK, StickyOK, DrainOK, registry, cache
  <2> QED BY <2>1, QuietKeepsInv
<1>4. ASSUME NEW w \in Workers, Poll(w) \/ MarkOffline(w) \/ Ban(w) \/ Verify(w)
      PROVE  GatewayInv'
  BY <1>0, <1>4, RegistryEvents, QuietKeepsInv
<1>5. CASE \/ \E k \in Keys : ExpireSession(k)
           \/ \E w \in Wallets : Refresh(w) \/ UpdateDebts(w)
           \/ BeginDrain \/ DrainEnds
  BY <1>0, <1>5, OtherEvents, QuietKeepsInv
<1>6. CASE UNCHANGED vars
  <2>1. RestOK' /\ UNCHANGED <<req, counters>>
    BY <1>0, <1>6
       DEF vars, RestOK, RegistryOK, CacheOK, BooksOK, StickyOK, DrainOK, registry,
           cache, books
  <2> QED BY <2>1, QuietKeepsInv
<1> QED BY <1>1, <1>2, <1>3, <1>4, <1>5, <1>6 DEF Next, Environment

LEMMA InvHolds == Spec => []GatewayInv
BY InitInv, NextKeepsInv, PTL DEF Spec

\* The types of all variables, and that no counter and no amount is ever
\* negative, although Leave, Wake and the others subtract without a check.
THEOREM TypeCorrect == Spec => []TypeOK
<1>1. GatewayInv => TypeOK
  BY DEF GatewayInv
<1> QED BY <1>1, InvHolds, PTL

\* On every path out of the handlers, for any number of requests, workers and
\* keys, the slot, the queue place, the worker's in-flight count and the
\* gateway's own count are given back exactly once.
THEOREM CountersCorrect == Spec => []CountersExact
<1>1. GatewayInv => CountersExact
  BY DEF GatewayInv
<1> QED BY <1>1, InvHolds, PTL

\* Neither the queue nor the slots of a key are ever exceeded, however many
\* requests arrive at once (waitForWorkerInternal, Acquire).
THEOREM LimitsCorrect == Spec => []LimitsHold
<1>1. GatewayInv => LimitsHold
  <2> SUFFICES ASSUME GatewayInv PROVE LimitsHold
    OBVIOUS
  <2>1. ASSUME NEW k \in Keys
        PROVE  Cardinality({r \in At(Reserved) : KeyOf[r] = k}) <= MaxInFlight
    <3> DEFINE A == {r \in At(Reserved) : KeyOf[r] = k}
    <3>1. A \subseteq OfKey(k) /\ IsFiniteSet(OfKey(k))
      BY GatewayAssumption, FS_Subset DEF OfKey, At, Holding
    <3>2. /\ Cardinality(A) <= Cardinality(OfKey(k))
          /\ Cardinality(A) \in Nat /\ Cardinality(OfKey(k)) \in Nat
      BY <3>1, FS_Subset, FS_CardinalityType
    <3>3. Cardinality(OfKey(k)) = slots[k] /\ slots[k] <= MaxInFlight
      BY <2>1, CountersForm DEF GatewayInv, SlotsBounded
    <3> QED BY <3>2, <3>3, GatewayAssumption
  <2> QED BY <2>1 DEF GatewayInv, QueueBounded, LimitsHold
<1> QED BY <1>1, InvHolds, PTL

-----------------------------------------------------------------------------
(* What a request is charged: what the handler keeps is what its log line   *)
(* bills, a resumed stream costs no more than its estimate and never starts *)
(* its answer again, and the pending spend of a wallet is the sum of what   *)
(* its requests hold.                                                       *)

\* The stages after the handler has returned, those of blockForWorker, and those
\* at which no byte has reached the client.
After   == {"adjust", "release", "leave", "done"}
Blocked == {"block", "again", "full", "waiting"}
Fresh   == {"new", "entered", "counted", "gate", "reserve", "select", "dispatch", "retry"}

\* A stream that is continued: part of its answer is out, part is missing.
Halfway(s) == s.started /\ s.delivered \in 1 .. MaxTokens - 1

\* The goroutine of r before its handler returns.
OnItsWay(r, s) ==
    /\ s.kept = 0 /\ ~ s.logged
    /\ s.delivered <= MaxTokens /\ (s.delivered > 0 => s.started)
    /\ s.started => r \in Streaming
    /\ s.resumes <= StreamMaxResumes
    /\ s.resumes > 0 \/ s.caller = "resume" => s.started
    /\ s.pc \in Fresh => ~ s.started
    /\ s.pc \in Blocked /\ s.started =>
          s.caller = "resume" /\ Halfway(s) /\ s.resumes < StreamMaxResumes
    /\ s.pc = "forward" /\ s.started =>
          s.target \in Capable /\ Halfway(s) /\ s.resumes \in 1 .. StreamMaxResumes

\* ... and after it: what was kept is what the log line says.
Finished(r, s) ==
    /\ s.resumes > 0 => s.kept <= Estimate
    /\ \/ ~ s.logged
       \/ r \in Streaming /\ ~ s.record.ok
       \/ s.kept = (IF isBillable(s.record) THEN s.record.total ELSE 0)

Course(r, s) == IF s.pc \in After THEN Finished(r, s) ELSE OnItsWay(r, s)

\* Only a billable line is settled, and a settlement before Adjust is recorded.
SettledLogged(r) ==
    r \in settled =>
        /\ req[r].pc \in After /\ req[r].logged /\ isBillable(req[r].record)
        /\ req[r].pc = "adjust" => r \in hasty

BillingInv ==
    /\ GatewayInv
    /\ \A r \in Requests : Course(r, req[r]) /\ SettledLogged(r)
    /\ PendingExact

\* The goroutine of r becomes s, and r holds as much of the pending spend as before.
Keeps(r, s) ==
    LET t == req[r] IN
    /\ t.pc \in Reserved <=> s.pc \in Reserved
    /\ t.pc # "adjust"
    /\ t.pc \notin Reserved =>
          /\ s.kept = t.kept /\ s.logged = t.logged /\ s.record = t.record
          /\ t.pc \in After => s.pc \in After

Goes(r) == \E s \in Goroutine : req' = [req EXCEPT ![r] = s] /\ Course(r, s) /\ Keeps(r, s)

-----------------------------------------------------------------------------
(* The course of one request.                                                *)

\* s differs from t in fields that the course does not look at.
Alike(s, t) ==
    /\ s.kept = t.kept /\ s.logged = t.logged /\ s.record = t.record
    /\ s.delivered = t.delivered /\ s.started = t.started

LEMMA GotoFields ==
    ASSUME req \in [Requests -> Goroutine], NEW r \in Requests,
           NEW stage \in Stages, Goto(r, stage)
    PROVE  \E s \in Goroutine :
             /\ req' = [req EXCEPT ![r] = s] /\ s.pc = stage /\ Alike(s, req[r])
             /\ s.caller = req[r].caller /\ s.target = req[r].target /\ s.resumes = req[r].resumes
<1> DEFINE s == [req[r] EXCEPT !.pc = stage]
<1>1. s \in Goroutine
  BY DEF Goroutine
<1>2. /\ s.pc = stage /\ Alike(s, req[r])
      /\ s.caller = req[r].caller /\ s.target = req[r].target /\ s.resumes = req[r].resumes
  BY DEF Goroutine, Alike
<1>3. req' = [req EXCEPT ![r] = s]
  BY DEF Goto
<1> HIDE DEF s
<1> QED BY <1>1, <1>2, <1>3

LEMMA FieldTypes ==
    ASSUME NEW t \in Goroutine
    PROVE  /\ t.pc \in Stages /\ t.caller \in {"first", "retry", "resume"}
           /\ t.delivered \in Nat /\ t.resumes \in Nat /\ t.kept \in Nat
           /\ t.logged \in BOOLEAN /\ t.started \in BOOLEAN
           /\ t.record \in Record /\ t.tried \in SUBSET Workers
           /\ t.target \in Workers \cup {None}
BY DEF Goroutine

\* Stages before Reserve, and after Adjust.
LEMMA EntryGoes ==
    ASSUME TypeOK, NEW r \in Requests, Course(r, req[r]),
           \/ Arrive(r) \/ Count(r) \/ Refuse(r) \/ Acquire(r) \/ CheckBody(r)
           \/ Release(r) \/ Leave(r) \/ (Reserve(r) /\ ~ Affordable(WalletOf[r]))
    PROVE  Goes(r)
<1>0. req \in [Requests -> Goroutine] /\ req[r] \in Goroutine
  BY DEF TypeOK
<1>1. CASE \/ Arrive(r) \/ Count(r) \/ Refuse(r) \/ Acquire(r) \/ CheckBody(r)
           \/ (Reserve(r) /\ ~ Affordable(WalletOf[r]))
  <2>1. /\ req[r].pc \in {"new", "entered", "counted", "gate", "reserve"}
        /\ \E stage \in {"entered", "done", "counted", "leave", "gate", "release", "reserve"} :
             Goto(r, stage)
    BY <1>1 DEF Arrive, Count, Refuse, Acquire, CheckBody, Reserve
  <2>2. PICK stage \in {"entered", "done", "counted", "leave", "gate", "release", "reserve"} :
             Goto(r, stage)
    BY <2>1
  <2>3. PICK s \in Goroutine :
             /\ req' = [req EXCEPT ![r] = s] /\ s.pc = stage /\ Alike(s, req[r])
             /\ s.caller = req[r].caller /\ s.target = req[r].target /\ s.resumes = req[r].resumes
    BY <1>0, <2>2, GotoFields DEF Stages
  <2>4. OnItsWay(r, req[r])
    BY <2>1 DEF Course, After
  <2>5. Course(r, s)
    BY <1>0, <2>1, <2>3, <2>4, FieldTypes
       DEF Course, OnItsWay, Finished, Alike, After, Blocked, Fresh
  <2>6. Keeps(r, s)
    BY <2>1, <2>3 DEF Keeps, Reserved, Alike, After
  <2> QED BY <2>3, <2>5, <2>6 DEF Goes
<1>2. CASE Release(r) \/ Leave(r)
  <2>1. req[r].pc \in {"release", "leave"} /\ \E stage \in {"leave", "done"} : Goto(r, stage)
    BY <1>2 DEF Release, Leave
  <2>2. PICK stage \in {"leave", "done"} : Goto(r, stage)
    BY <2>1
  <2>3. PICK s \in Goroutine :
             /\ req' = [req EXCEPT ![r] = s] /\ s.pc = stage /\ Alike(s, req[r])
             /\ s.caller = req[r].caller /\ s.target = req[r].target /\ s.resumes = req[r].resumes
    BY <1>0, <2>2, GotoFields DEF Stages
  <2>4. Finished(r, req[r])
    BY <2>1 DEF Course, After
  <2>5. Course(r, s)
    BY <2>3, <2>4 DEF Course, Finished, Alike, After
  <2>6. Keeps(r, s)
    BY <2>1, <2>3 DEF Keeps, Reserved, Alike, After
  <2> QED BY <2>3, <2>5, <2>6 DEF Goes
<1> QED BY <1>1, <1>2

\* The handler returns.
LEMMA ReturnGoes ==
    ASSUME req \in [Requests -> Goroutine], NEW r \in Requests,
           req[r].pc \in Reserved \ {"adjust"},
           NEW t \in Goroutine, NEW rec \in Record, NEW kept \in Nat,
           Return(r, t, rec, kept),
           t.resumes > 0 => kept <= Estimate,
           \/ r \in Streaming /\ ~ rec.ok
           \/ kept = (IF isBillable(rec) THEN rec.total ELSE 0)
    PROVE  Goes(r)
<1> DEFINE back == [Idle EXCEPT !.pc = "adjust", !.resumes = t.resumes, !.kept = kept]
           full == [back EXCEPT !.logged = TRUE, !.record = rec]
<1>1. back \in Goroutine
  BY IdleType DEF Goroutine, Stages
<1>2. full \in Goroutine
  BY <1>1 DEF Goroutine
<1>3. back.pc = "adjust" /\ back.kept = kept /\ back.resumes = t.resumes /\ ~ back.logged
  BY DEF Idle
<1>4. /\ full.pc = "adjust" /\ full.kept = kept /\ full.resumes = t.resumes
      /\ full.record = rec
  BY <1>1, <1>3 DEF Goroutine
<1>5. req' = [req EXCEPT ![r] = back] \/ req' = [req EXCEPT ![r] = full]
  BY DEF Return
<1> HIDE DEF back, full
<1>6. Course(r, back) /\ Course(r, full)
  BY <1>3, <1>4 DEF Course, After, Finished
<1>7. Keeps(r, back) /\ Keeps(r, full)
  BY <1>3, <1>4 DEF Keeps, Reserved
<1> QED BY <1>1, <1>2, <1>5, <1>6, <1>7 DEF Goes

\* ... with nothing kept.
LEMMA EmptyHandedGoes ==
    ASSUME req \in [Requests -> Goroutine], NEW r \in Requests,
           req[r].pc \in Reserved \ {"adjust"},
           NEW t \in Goroutine, NEW rec \in Record, Return(r, t, rec, 0),
           ~ isBillable(rec)
    PROVE  Goes(r)
<1>1. 0 \in Nat /\ 0 <= Estimate
  BY GatewayAssumption DEF Estimate
<1> QED BY <1>1, ReturnGoes

LEMMA InterruptedGoes ==
    ASSUME req \in [Requests -> Goroutine], NEW r \in Requests,
           req[r].pc \in Reserved \ {"adjust"},
           NEW t \in Goroutine, Interrupted(r, t)
    PROVE  Goes(r)
<1>1. PICK ok \in BOOLEAN, total \in Reported \cup {Metered(t.delivered)} :
          Return(r, t, [ok |-> ok, total |-> total, clean |-> FALSE], 0)
  BY DEF Interrupted
<1> DEFINE rec == [ok |-> ok, total |-> total, clean |-> FALSE]
<1>2. total \in Nat
  BY GatewayAssumption, MeteredType DEF Goroutine
<1>3. rec \in Record /\ ~ isBillable(rec)
  BY <1>2 DEF Record, isBillable
<1> HIDE DEF rec
<1>4. Return(r, t, rec, 0)
  BY <1>1 DEF rec
<1> QED BY <1>3, <1>4, EmptyHandedGoes

LEMMA GiveUpGoes ==
    ASSUME req \in [Requests -> Goroutine], NEW r \in Requests,
           req[r].pc \in Reserved \ {"adjust"}, GiveUp(r)
    PROVE  Goes(r)
<1>1. Failure \in Record /\ ~ isBillable(Failure)
  BY DEF Failure, Record, isBillable
<1>2. req[r] \in Goroutine
  OBVIOUS
<1> QED BY <1>1, <1>2, InterruptedGoes, EmptyHandedGoes DEF GiveUp

\* A step of the handler that changes its stage, its worker or its caller.
LEMMA OnwardGoes ==
    ASSUME req \in [Requests -> Goroutine], NEW r \in Requests,
           req[r].pc \in Reserved \ {"adjust"},
           NEW s \in Goroutine, req' = [req EXCEPT ![r] = s],
           s.pc \in Reserved \ {"adjust"}, OnItsWay(r, s)
    PROVE  Goes(r)
<1>1. Course(r, s)
  BY DEF Course, Reserved, After
<1>2. Keeps(r, s)
  BY DEF Keeps
<1> QED BY <1>1, <1>2 DEF Goes

LEMMA StillOnItsWay ==
    ASSUME NEW r \in Requests, Course(r, req[r]), req[r].pc \in Reserved \ {"adjust"}
    PROVE  OnItsWay(r, req[r])
BY DEF Course, Reserved, After

\* A worker is chosen for a request that has not sent anything to its client.
LEMMA ChosenGoes ==
    ASSUME req \in [Requests -> Goroutine], NEW r \in Requests, Course(r, req[r]),
           req[r].pc \in {"select", "waiting"}, ~ req[r].started,
           NEW w \in Workers, NEW h \in BOOLEAN,
           req' = [req EXCEPT ![r].pc = "dispatch", ![r].target = w, ![r].hot = h]
    PROVE  Goes(r)
<1>0. req[r] \in Goroutine /\ "dispatch" \in Stages /\ w \in Workers \cup {None}
  BY DEF Stages
<1> DEFINE s == [req[r] EXCEPT !.pc = "dispatch", !.target = w, !.hot = h]
<1>1. req' = [req EXCEPT ![r] = s]
  BY <1>0
<1>2. /\ s \in Goroutine /\ s.pc = "dispatch" /\ Alike(s, req[r])
      /\ s.caller = req[r].caller /\ s.resumes = req[r].resumes
  BY <1>0 DEF Goroutine, Alike
<1> HIDE DEF s
<1>3. OnItsWay(r, req[r])
  BY StillOnItsWay DEF Reserved
<1>4. OnItsWay(r, s)
  BY <1>2, <1>3 DEF OnItsWay, Alike, Fresh, Blocked
<1> QED BY <1>1, <1>2, <1>4, OnwardGoes DEF Reserved

LEMMA SelectGoes ==
    ASSUME TypeOK, NEW r \in Requests, Course(r, req[r]), SelectWorker(r) \/ SelectNone(r)
    PROVE  Goes(r)
<1>0. req \in [Requests -> Goroutine] /\ req[r].pc = "select" /\ ~ req[r].started
  BY DEF TypeOK, SelectWorker, SelectNone, Course, OnItsWay, After, Fresh
<1>1. CASE SelectWorker(r)
  <2>1. PICK w \in IF Sticks(KeyOf[r]) THEN {sticky[KeyOf[r]]} ELSE selectWorkerForModel({}) :
            req' = [req EXCEPT ![r].pc = "dispatch", ![r].target = w, ![r].hot = w \in loaded]
    BY <1>1 DEF SelectWorker
  <2>2. w \in Workers
    <3>1. CASE Sticks(KeyOf[r])
      BY <2>1, <3>1, GatewayAssumption DEF Sticks, TypeOK
    <3>2. CASE ~ Sticks(KeyOf[r])
      BY <2>1, <3>2, SelectType
    <3> QED BY <3>1, <3>2
  <2> DEFINE h == w \in loaded
  <2>3. h \in BOOLEAN /\ req' = [req EXCEPT ![r].pc = "dispatch", ![r].target = w, ![r].hot = h]
    BY <2>1
  <2> HIDE DEF h
  <2> QED BY <1>0, <2>2, <2>3, ChosenGoes
<1>2. CASE SelectNone(r)
  <2>1. PICK stage \in {"block", "adjust"} : Goto(r, stage)
    BY <1>2 DEF SelectNone
  <2>2. PICK s \in Goroutine :
             /\ req' = [req EXCEPT ![r] = s] /\ s.pc = stage /\ Alike(s, req[r])
             /\ s.caller = req[r].caller /\ s.target = req[r].target /\ s.resumes = req[r].resumes
    BY <1>0, <2>1, GotoFields DEF Stages
  <2>3. OnItsWay(r, req[r])
    BY <1>0 DEF Course, After
  <2>4. Course(r, s)
    BY <1>0, <2>2, <2>3, FieldTypes DEF Course, OnItsWay, Finished, Alike, After, Blocked, Fresh
  <2>5. Keeps(r, s)
    BY <1>0, <2>2 DEF Keeps, Reserved
  <2> QED BY <2>2, <2>4, <2>5 DEF Goes
<1> QED BY <1>1, <1>2

\* A woken waiter: a stream that is continued waits for a worker that can.
LEMMA WokenGoes ==
    ASSUME req \in [Requests -> Goroutine], NEW r \in Requests, Course(r, req[r]),
           req[r].pc = "waiting", NEW w \in Workers, Woken(r, w)
    PROVE  Goes(r)
<1>0. /\ req[r] \in Goroutine /\ "forward" \in Stages /\ w \in Workers \cup {None}
      /\ req[r].pc \in Reserved \ {"adjust"}
  BY DEF Stages, Reserved
<1>1. OnItsWay(r, req[r])
  BY <1>0, StillOnItsWay
<1>2. CASE req[r].caller = "first"
  <2>1. req' = [req EXCEPT ![r].pc = "dispatch", ![r].target = w, ![r].hot = w \in loaded]
    BY <1>2 DEF Woken
  <2>2. ~ req[r].started
    BY <1>1, <1>2 DEF OnItsWay, Blocked
  <2> DEFINE h == w \in loaded
  <2>3. h \in BOOLEAN /\ req' = [req EXCEPT ![r].pc = "dispatch", ![r].target = w, ![r].hot = h]
    BY <2>1
  <2> HIDE DEF h
  <2> QED BY <2>2, <2>3, ChosenGoes
<1>3. CASE req[r].caller = "retry"
  <2>1. req' = [req EXCEPT ![r].pc = "forward", ![r].target = w, ![r].tried = {}]
    BY <1>3 DEF Woken
  <2> DEFINE s == [req[r] EXCEPT !.pc = "forward", !.target = w, !.tried = {}]
  <2>2. req' = [req EXCEPT ![r] = s]
    BY <1>0, <2>1
  <2>3. /\ s \in Goroutine /\ s.pc = "forward" /\ Alike(s, req[r])
        /\ s.caller = req[r].caller /\ s.resumes = req[r].resumes
    BY <1>0 DEF Goroutine, Alike
  <2> HIDE DEF s
  <2>4. OnItsWay(r, s)
    BY <1>1, <1>3, <2>3 DEF OnItsWay, Alike, Fresh, Blocked
  <2> QED BY <1>0, <2>2, <2>3, <2>4, OnwardGoes DEF Reserved
<1>4. CASE req[r].caller = "resume" /\ w \in Capable
  <2> DEFINE n == req[r].resumes + 1
  <2>1. req' = [req EXCEPT ![r].pc = "forward", ![r].target = w, ![r].resumes = n]
    BY <1>0, <1>4 DEF Woken
  <2>2. /\ n \in 1 .. StreamMaxResumes /\ n \in Nat
        /\ req[r].started /\ req[r].delivered \in 1 .. MaxTokens - 1
    BY <1>0, <1>1, <1>4, FieldTypes, GatewayAssumption DEF OnItsWay, Blocked, Halfway
  <2> HIDE DEF n
  <2> DEFINE s == [req[r] EXCEPT !.pc = "forward", !.target = w, !.resumes = n]
  <2>3. req' = [req EXCEPT ![r] = s]
    BY <1>0, <2>1
  <2>4. /\ s \in Goroutine /\ s.pc = "forward" /\ Alike(s, req[r])
        /\ s.target = w /\ s.resumes = n
    BY <1>0, <2>2 DEF Goroutine, Alike
  <2> HIDE DEF s
  <2>5. OnItsWay(r, s)
    <3>1. n <= StreamMaxResumes
      BY <2>2, GatewayAssumption
    <3> QED BY <1>1, <1>4, <2>2, <2>4, <3>1 DEF OnItsWay, Alike, Fresh, Blocked, Halfway
  <2> QED BY <1>0, <2>3, <2>4, <2>5, OnwardGoes DEF Reserved
<1>5. CASE req[r].caller = "resume" /\ w \notin Capable
  <2>1. GiveUp(r)
    BY <1>5 DEF Woken
  <2> QED BY <1>0, <2>1, GiveUpGoes
<1>6. req[r].caller \in {"first", "retry", "resume"}
  BY <1>0, FieldTypes
<1> QED BY <1>2, <1>3, <1>4, <1>5, <1>6

LEMMA WaitGoes ==
    ASSUME TypeOK, NEW r \in Requests, Course(r, req[r]),
           \/ BlockFails(r) \/ Enqueue(r) \/ QueueFull(r)
           \/ Wake(r) \/ WindowEnds(r) \/ WaiterLeaves(r)
    PROVE  Goes(r)
<1>0. /\ req \in [Requests -> Goroutine] /\ req[r] \in Goroutine
      /\ req[r].pc \in Blocked /\ req[r].pc \in Reserved \ {"adjust"}
  BY DEF TypeOK, BlockFails, Enqueue, QueueFull, Wake, WindowEnds, WaiterLeaves, Blocked, Reserved
<1>1. CASE GiveUp(r)
  BY <1>0, <1>1, GiveUpGoes
<1>2. CASE \E stage \in {"full", "waiting", "again"} : Goto(r, stage)
  <2>1. PICK stage \in {"full", "waiting", "again"} : Goto(r, stage)
    BY <1>2
  <2>2. PICK s \in Goroutine :
             /\ req' = [req EXCEPT ![r] = s] /\ s.pc = stage /\ Alike(s, req[r])
             /\ s.caller = req[r].caller /\ s.target = req[r].target /\ s.resumes = req[r].resumes
    BY <1>0, <2>1, GotoFields DEF Stages
  <2>3. OnItsWay(r, req[r])
    BY <1>0, StillOnItsWay
  <2>4. OnItsWay(r, s)
    BY <1>0, <2>2, <2>3 DEF OnItsWay, Alike, Blocked, Fresh, Halfway
  <2> QED BY <1>0, <2>2, <2>4, OnwardGoes DEF Reserved
<1>3. CASE Wake(r)
  <2>1. PICK w \in Workers : Woken(r, w)
    BY <1>3, SelectType DEF Wake
  <2> QED BY <1>0, <1>3, <2>1, WokenGoes DEF Wake
<1> QED BY <1>1, <1>2, <1>3 DEF BlockFails, Enqueue, QueueFull, WindowEnds, WaiterLeaves

-----------------------------------------------------------------------------
(* Forwarding, retrying and resuming.                                        *)

LEMMA SegmentFields ==
    ASSUME req \in [Requests -> Goroutine], NEW r \in Requests, NEW n \in Lengths(r),
           req[r].delivered <= MaxTokens
    PROVE  /\ Segment(r, n) \in Goroutine /\ Segment(r, n).started
           /\ Segment(r, n).delivered \in 0 .. MaxTokens
           /\ Segment(r, n).kept = req[r].kept /\ Segment(r, n).logged = req[r].logged
           /\ Segment(r, n).resumes = req[r].resumes /\ Segment(r, n).caller = req[r].caller
<1>1. /\ n \in Nat /\ req[r].delivered \in Nat /\ MaxTokens \in Nat
      /\ n <= MaxTokens - req[r].delivered
  BY GatewayAssumption DEF Lengths, Goroutine
<1> DEFINE d == req[r].delivered + n
<1>2. d \in 0 .. MaxTokens
  BY <1>1
<1>3. Segment(r, n) = [req[r] EXCEPT !.started = TRUE, !.delivered = d]
  BY DEF Segment
<1> HIDE DEF d
<1>4. Segment(r, n) \in Goroutine
  BY SegmentType
<1>5. /\ Segment(r, n).delivered = d /\ Segment(r, n).started
      /\ Segment(r, n).kept = req[r].kept /\ Segment(r, n).logged = req[r].logged
      /\ Segment(r, n).resumes = req[r].resumes /\ Segment(r, n).caller = req[r].caller
  BY <1>3 DEF Goroutine
<1> QED BY <1>2, <1>4, <1>5

\* A stream that was resumed is metered: the prompt once, and each token once.
LEMMA MeteredBound ==
    ASSUME NEW d \in 0 .. MaxTokens
    PROVE  Metered(d) \in Nat /\ Metered(d) <= Estimate
BY GatewayAssumption DEF Metered, Estimate

LEMMA BrokenGoes ==
    ASSUME req \in [Requests -> Goroutine], NEW r \in Streaming, r \in Requests, OnItsWay(r, req[r]),
           req[r].pc = "sent", NEW n \in Lengths(r),
           req' = [req EXCEPT ![r] = [Segment(r, n) EXCEPT !.pc = "interrupted"]]
    PROVE  Goes(r)
<1> DEFINE t == Segment(r, n)
           s == [t EXCEPT !.pc = "interrupted"]
<1>1. /\ t \in Goroutine /\ t.started /\ t.delivered \in 0 .. MaxTokens
      /\ t.kept = req[r].kept /\ t.logged = req[r].logged
      /\ t.resumes = req[r].resumes /\ t.caller = req[r].caller
  BY SegmentFields DEF OnItsWay
<1>2. req' = [req EXCEPT ![r] = s]
  OBVIOUS
<1> HIDE DEF t
<1>3. /\ s \in Goroutine /\ s.pc = "interrupted" /\ Alike(s, t)
      /\ s.resumes = t.resumes /\ s.caller = t.caller
  BY <1>1 DEF Goroutine, Stages, Alike
<1> HIDE DEF s
<1>4. OnItsWay(r, s)
  <2>1. t.delivered <= MaxTokens
    BY <1>1, GatewayAssumption
  <2> QED BY <1>1, <1>3, <2>1 DEF OnItsWay, Alike, Fresh, Blocked
<1> QED BY <1>2, <1>3, <1>4, OnwardGoes DEF Reserved

LEMMA FailedGoes ==
    ASSUME req \in [Requests -> Goroutine], NEW r \in Requests, OnItsWay(r, req[r]),
           req[r].pc = "sent", req[r].target \in Workers, ~ req[r].started,
           req' = [req EXCEPT ![r].pc = "retry", ![r].tried = Tried(r)]
    PROVE  Goes(r)
<1>0. req[r] \in Goroutine /\ "retry" \in Stages
  BY DEF Stages
<1> DEFINE T == Tried(r)
<1>1. T \in SUBSET Workers /\ req' = [req EXCEPT ![r].pc = "retry", ![r].tried = T]
  BY <1>0 DEF Tried, Goroutine
<1> HIDE DEF T
<1> DEFINE s == [req[r] EXCEPT !.pc = "retry", !.tried = T]
<1>2. req' = [req EXCEPT ![r] = s]
  BY <1>0, <1>1
<1>3. /\ s \in Goroutine /\ s.pc = "retry" /\ Alike(s, req[r])
      /\ s.caller = req[r].caller /\ s.resumes = req[r].resumes
  BY <1>0, <1>1 DEF Goroutine, Alike
<1> HIDE DEF s
<1>4. OnItsWay(r, s)
  BY <1>3 DEF OnItsWay, Alike, Fresh, Blocked
<1> QED BY <1>2, <1>3, <1>4, OnwardGoes DEF Reserved

LEMMA AnswerGoes ==
    ASSUME TypeOK, TargetKnown, NEW r \in Requests, Course(r, req[r]),
           \/ AttemptFails(r) \/ Answered(r) \/ StreamFailsEarly(r)
           \/ StreamEnds(r) \/ StreamErrs(r) \/ StreamBreaks(r)
    PROVE  Goes(r)
<1>0. /\ req \in [Requests -> Goroutine] /\ req[r] \in Goroutine
      /\ req[r].pc = "sent" /\ req[r].target \in Workers
      /\ req[r].pc \in Reserved \ {"adjust"}
  BY DEF TypeOK, TargetKnown, Targeted, AttemptFails, Answered, StreamFailsEarly,
         StreamEnds, StreamErrs, StreamBreaks, Back, Reserved
<1>1. OnItsWay(r, req[r])
  BY <1>0, StillOnItsWay
<1>2. CASE AttemptFails(r) \/ StreamFailsEarly(r)
  BY <1>0, <1>1, <1>2, FailedGoes DEF AttemptFails, StreamFailsEarly, OnItsWay
<1>3. CASE Answered(r)
  <2>1. PICK ok \in BOOLEAN, total \in Reported :
            Return(r, req[r], [ok |-> ok, total |-> total, clean |-> TRUE],
                   KeptForAnswer(ok, total))
    BY <1>3 DEF Answered
  <2> DEFINE rec == [ok |-> ok, total |-> total, clean |-> TRUE]
             kept == KeptForAnswer(ok, total)
  <2>2. total \in Nat /\ kept \in Nat
    BY GatewayAssumption DEF KeptForAnswer
  <2>3. rec \in Record /\ kept = (IF isBillable(rec) THEN rec.total ELSE 0)
    BY <2>2 DEF Record, isBillable, KeptForAnswer
  <2>4. Return(r, req[r], rec, kept)
    BY <2>1
  <2> HIDE DEF rec, kept
  <2>5. ~(req[r].resumes > 0)
    BY <1>1, <1>3 DEF OnItsWay, Answered
  <2> QED BY <1>0, <2>2, <2>3, <2>4, <2>5, ReturnGoes
<1>4. CASE StreamEnds(r)
  <2>1. PICK n \in Lengths(r), total \in Reported, ok \in BOOLEAN :
            LET t == Segment(r, n)
                billed == Billed(t, total)
            IN  Return(r, t, [ok |-> ok, total |-> billed, clean |-> TRUE], billed)
    BY <1>4 DEF StreamEnds
  <2> DEFINE t == Segment(r, n)
             billed == Billed(t, total)
             rec == [ok |-> ok, total |-> billed, clean |-> TRUE]
  <2>2. t \in Goroutine /\ t.delivered \in 0 .. MaxTokens
    BY <1>0, <1>1, SegmentFields DEF OnItsWay
  <2>3. Return(r, t, rec, billed)
    BY <2>1
  <2> HIDE DEF t
  <2>4. billed \in Nat
    BY <2>2, BilledType
  <2>5. t.resumes > 0 => billed <= Estimate
    BY <2>2, MeteredBound DEF Billed
  <2> HIDE DEF billed
  <2>6. /\ rec \in Record
        /\ (r \in Streaming /\ ~ rec.ok) \/ billed = (IF isBillable(rec) THEN rec.total ELSE 0)
    BY <1>4, <2>4 DEF Record, isBillable, StreamEnds
  <2> HIDE DEF rec
  <2> QED BY <1>0, <2>2, <2>3, <2>4, <2>5, <2>6, ReturnGoes
<1>5. CASE StreamErrs(r)
  BY <1>0, <1>1, <1>5, BrokenGoes DEF StreamErrs
<1>6. CASE StreamBreaks(r)
  <2>1. PICK n \in Lengths(r) :
            \/ Return(r, Segment(r, n),
                      [ok |-> TRUE, total |-> Metered(Segment(r, n).delivered), clean |-> TRUE],
                      Metered(Segment(r, n).delivered))
            \/ req' = [req EXCEPT ![r] = [Segment(r, n) EXCEPT !.pc = "interrupted"]]
    BY <1>6 DEF StreamBreaks
  <2>2. CASE req' = [req EXCEPT ![r] = [Segment(r, n) EXCEPT !.pc = "interrupted"]]
    BY <1>0, <1>1, <1>6, <2>2, BrokenGoes DEF StreamBreaks
  <2>3. CASE Return(r, Segment(r, n),
                    [ok |-> TRUE, total |-> Metered(Segment(r, n).delivered), clean |-> TRUE],
                    Metered(Segment(r, n).delivered))
    <3> DEFINE t == Segment(r, n)
               m == Metered(t.delivered)
               rec == [ok |-> TRUE, total |-> m, clean |-> TRUE]
    <3>1. t \in Goroutine /\ t.delivered \in 0 .. MaxTokens
      BY <1>0, <1>1, SegmentFields DEF OnItsWay
    <3>2. Return(r, t, rec, m)
      BY <2>3
    <3> HIDE DEF t
    <3>3. m \in Nat /\ m <= Estimate
      BY <3>1, MeteredBound
    <3> HIDE DEF m
    <3>4. rec \in Record /\ m = (IF isBillable(rec) THEN rec.total ELSE 0)
      BY <3>3 DEF Record, isBillable
    <3> HIDE DEF rec
    <3> QED BY <1>0, <3>1, <3>2, <3>3, <3>4, ReturnGoes
  <2> QED BY <2>1, <2>2, <2>3
<1> QED BY <1>2, <1>3, <1>4, <1>5, <1>6

\* An interrupted stream goes on at a worker that can continue it, or waits for one.
LEMMA ResumeGoes ==
    ASSUME req \in [Requests -> Goroutine], NEW r \in Requests, OnItsWay(r, req[r]),
           req[r].target \in Workers, Resume(r)
    PROVE  Goes(r)
<1>0. req[r] \in Goroutine /\ {"forward", "block"} \subseteq Stages
  BY DEF Stages
<1>1. /\ req[r].pc = "interrupted" /\ Resumable(req[r])
      /\ req[r].resumes < StreamMaxResumes /\ Halfway(req[r])
  <2>1. req[r].pc = "interrupted" /\ Resumable(req[r])
    BY Zenon DEF Resume
  <2>2. /\ req[r].resumes < StreamMaxResumes
        /\ req[r].delivered > 0 /\ req[r].delivered < MaxTokens
    BY <2>1, Zenon DEF Resumable
  <2>3. req[r].started
    BY <2>2 DEF OnItsWay
  <2>4. req[r].delivered \in Nat /\ MaxTokens \in Nat
    BY <1>0, FieldTypes, GatewayAssumption
  <2>5. req[r].delivered \in 1 .. MaxTokens - 1
    BY <2>2, <2>4
  <2> QED BY <2>1, <2>2, <2>3, <2>5 DEF Halfway
<1>2. PICK skipped \in SUBSET (Workers \ Capable) :
          \/ \E w \in selectWorkerForModel(Tried(r) \cup skipped) \cap Capable :
                req' = [req EXCEPT ![r].pc = "forward", ![r].target = w,
                                   ![r].tried = Tried(r) \cup skipped,
                                   ![r].resumes = @ + 1]
          \/ req' = [req EXCEPT ![r].pc = "block", ![r].tried = Tried(r) \cup skipped,
                                ![r].caller = "resume"]
  BY DEF Resume
<1>3. PICK T \in SUBSET Workers : T = Tried(r) \cup skipped
  BY <1>0 DEF Tried, Goroutine
<1>4. CASE \E w \in selectWorkerForModel(T) \cap Capable :
               req' = [req EXCEPT ![r].pc = "forward", ![r].target = w,
                                  ![r].tried = T, ![r].resumes = @ + 1]
  <2>1. PICK w \in Workers :
            /\ w \in Capable
            /\ req' = [req EXCEPT ![r].pc = "forward", ![r].target = w,
                                  ![r].tried = T, ![r].resumes = @ + 1]
    BY <1>4, SelectType
  <2> DEFINE n == req[r].resumes + 1
  <2>2. req' = [req EXCEPT ![r].pc = "forward", ![r].target = w,
                           ![r].tried = T, ![r].resumes = n]
    BY <1>0, <2>1
  <2>3. n \in Nat /\ n \in 1 .. StreamMaxResumes /\ n <= StreamMaxResumes
    BY <1>0, <1>1, FieldTypes, GatewayAssumption
  <2> HIDE DEF n
  <2> DEFINE s == [req[r] EXCEPT !.pc = "forward", !.target = w, !.tried = T, !.resumes = n]
  <2>4. req' = [req EXCEPT ![r] = s]
    BY <1>0, <2>2
  <2>5. /\ s \in Goroutine /\ s.pc = "forward" /\ Alike(s, req[r])
        /\ s.caller = req[r].caller /\ s.target = w /\ s.resumes = n
    <3>1. w \in Workers \cup {None}
      OBVIOUS
    <3> QED BY <1>0, <2>3, <3>1 DEF Goroutine, Alike
  <2> HIDE DEF s
  <2>6. OnItsWay(r, s)
    BY <1>1, <2>1, <2>3, <2>5 DEF OnItsWay, Alike, Fresh, Blocked, Halfway
  <2> QED BY <1>1, <2>4, <2>5, <2>6, OnwardGoes DEF Reserved
<1>5. CASE req' = [req EXCEPT ![r].pc = "block", ![r].tried = T, ![r].caller = "resume"]
  <2> DEFINE s == [req[r] EXCEPT !.pc = "block", !.tried = T, !.caller = "resume"]
  <2>1. req' = [req EXCEPT ![r] = s]
    BY <1>0, <1>5
  <2>2. /\ s \in Goroutine /\ s.pc = "block" /\ Alike(s, req[r])
        /\ s.caller = "resume" /\ s.resumes = req[r].resumes
    BY <1>0 DEF Goroutine, Alike
  <2> HIDE DEF s
  <2>3. OnItsWay(r, s)
    BY <1>1, <2>2 DEF OnItsWay, Alike, Fresh, Blocked, Halfway
  <2> QED BY <1>1, <2>1, <2>2, <2>3, OnwardGoes DEF Reserved
<1> QED BY <1>2, <1>3, <1>4, <1>5

LEMMA ForwardGoes ==
    ASSUME TypeOK, TargetKnown, NEW r \in Requests, Course(r, req[r]),
           Dispatch(r) \/ Forward(r) \/ Retry(r) \/ Resume(r) \/ ResumeFails(r)
    PROVE  Goes(r)
<1>0. /\ req \in [Requests -> Goroutine] /\ req[r] \in Goroutine /\ {"forward"} \subseteq Stages
      /\ req[r].pc \in {"dispatch", "forward", "retry", "interrupted"}
      /\ req[r].target \in Workers /\ req[r].pc \in Reserved \ {"adjust"}
  BY DEF TypeOK, TargetKnown, Targeted, Dispatch, Forward, Retry, Resume, ResumeFails, Reserved, Stages
<1>1. OnItsWay(r, req[r])
  BY <1>0, StillOnItsWay
<1>2. CASE Dispatch(r)
  <2>1. req' = [req EXCEPT ![r].pc = "forward", ![r].caller = "retry"] /\ ~ req[r].started
    BY <1>1, <1>2 DEF Dispatch, OnItsWay, Fresh
  <2> DEFINE s == [req[r] EXCEPT !.pc = "forward", !.caller = "retry"]
  <2>2. req' = [req EXCEPT ![r] = s]
    BY <1>0, <2>1
  <2>3. /\ s \in Goroutine /\ s.pc = "forward" /\ Alike(s, req[r])
        /\ s.caller = "retry" /\ s.resumes = req[r].resumes
    BY <1>0 DEF Goroutine, Alike
  <2> HIDE DEF s
  <2>4. OnItsWay(r, s)
    BY <1>1, <2>1, <2>3 DEF OnItsWay, Alike, Fresh, Blocked
  <2> QED BY <1>0, <2>2, <2>3, <2>4, OnwardGoes DEF Reserved
<1>3. CASE Forward(r)
  <2>1. PICK s \in Goroutine :
             /\ req' = [req EXCEPT ![r] = s] /\ s.pc = "sent" /\ Alike(s, req[r])
             /\ s.caller = req[r].caller /\ s.target = req[r].target /\ s.resumes = req[r].resumes
    BY <1>0, <1>3, GotoFields DEF Forward, Stages
  <2>2. OnItsWay(r, s)
    BY <1>1, <2>1 DEF OnItsWay, Alike, Fresh, Blocked
  <2> QED BY <1>0, <2>1, <2>2, OnwardGoes DEF Reserved
<1>4. CASE Retry(r)
  <2>0. ~ req[r].started
    BY <1>1, <1>4 DEF Retry, OnItsWay, Fresh
  <2>1. CASE Goto(r, "block")
    <3>1. PICK s \in Goroutine :
             /\ req' = [req EXCEPT ![r] = s] /\ s.pc = "block" /\ Alike(s, req[r])
             /\ s.caller = req[r].caller /\ s.target = req[r].target /\ s.resumes = req[r].resumes
      BY <1>0, <2>1, GotoFields DEF Stages
    <3>2. OnItsWay(r, s)
      BY <1>1, <2>0, <3>1 DEF OnItsWay, Alike, Fresh, Blocked
    <3> QED BY <1>0, <3>1, <3>2, OnwardGoes DEF Reserved
  <2>2. CASE \E w \in selectWorkerForModel(req[r].tried) :
                 req' = [req EXCEPT ![r].pc = "forward", ![r].target = w]
    <3>1. PICK w \in Workers : req' = [req EXCEPT ![r].pc = "forward", ![r].target = w]
      BY <2>2, SelectType
    <3> DEFINE s == [req[r] EXCEPT !.pc = "forward", !.target = w]
    <3>2. req' = [req EXCEPT ![r] = s]
      BY <1>0, <3>1
    <3>3. /\ s \in Goroutine /\ s.pc = "forward" /\ Alike(s, req[r])
          /\ s.caller = req[r].caller /\ s.resumes = req[r].resumes
      <4>1. w \in Workers \cup {None}
        OBVIOUS
      <4> QED BY <1>0, <4>1 DEF Goroutine, Alike
    <3> HIDE DEF s
    <3>4. OnItsWay(r, s)
      BY <1>1, <2>0, <3>3 DEF OnItsWay, Alike, Fresh, Blocked
    <3> QED BY <1>0, <3>2, <3>3, <3>4, OnwardGoes DEF Reserved
  <2> QED BY <1>4, <2>1, <2>2 DEF Retry
<1>5. CASE Resume(r)
  BY <1>0, <1>1, <1>5, ResumeGoes
<1>6. CASE ResumeFails(r)
  BY <1>0, <1>6, InterruptedGoes DEF ResumeFails
<1> QED BY <1>2, <1>3, <1>4, <1>5, <1>6

\* A client leaves, or a deadline passes.
LEMMA SignalGoes ==
    ASSUME TypeOK, NEW r \in Requests, Course(r, req[r]), ClientLeaves(r) \/ DeadlinePasses(r)
    PROVE  Goes(r)
<1>0. /\ req \in [Requests -> Goroutine] /\ req[r] \in Goroutine
      /\ req[r].pc \in Reserved \ {"adjust"}
  BY DEF TypeOK, ClientLeaves, DeadlinePasses
<1>1. OnItsWay(r, req[r])
  BY <1>0, StillOnItsWay
<1>2. PICK s \in Goroutine :
          /\ req' = [req EXCEPT ![r] = s] /\ s.pc = req[r].pc /\ Alike(s, req[r])
          /\ s.caller = req[r].caller /\ s.target = req[r].target /\ s.resumes = req[r].resumes
  <2>1. CASE ClientLeaves(r)
    <3> DEFINE s == [req[r] EXCEPT !.gone = TRUE]
    <3>1. req' = [req EXCEPT ![r] = s]
      BY <1>0, <2>1 DEF ClientLeaves
    <3>2. /\ s \in Goroutine /\ s.pc = req[r].pc /\ Alike(s, req[r])
          /\ s.caller = req[r].caller /\ s.target = req[r].target /\ s.resumes = req[r].resumes
      BY <1>0 DEF Goroutine, Alike
    <3> HIDE DEF s
    <3> QED BY <3>1, <3>2
  <2>2. CASE DeadlinePasses(r)
    <3> DEFINE s == [req[r] EXCEPT !.late = TRUE]
    <3>1. req' = [req EXCEPT ![r] = s]
      BY <1>0, <2>2 DEF DeadlinePasses
    <3>2. /\ s \in Goroutine /\ s.pc = req[r].pc /\ Alike(s, req[r])
          /\ s.caller = req[r].caller /\ s.target = req[r].target /\ s.resumes = req[r].resumes
      BY <1>0 DEF Goroutine, Alike
    <3> HIDE DEF s
    <3> QED BY <3>1, <3>2
  <2> QED BY <2>1, <2>2
<1>3. OnItsWay(r, s)
  BY <1>1, <1>2 DEF OnItsWay, Alike, Halfway
<1> QED BY <1>0, <1>2, <1>3, OnwardGoes

-----------------------------------------------------------------------------
(* The sum of what the requests of a wallet hold.                            *)

\* The units that SumOver counts form a finite set.
LEMMA UnitsFinite ==
    ASSUME NEW S, IsFiniteSet(S), NEW f, \A x \in S : f[x] \in Nat
    PROVE  IsFiniteSet(UNION {{x} \X (1 .. f[x]) : x \in S})
<1> DEFINE G == [x \in S |-> {x} \X (1 .. f[x])]
           T == {{x} \X (1 .. f[x]) : x \in S}
<1>1. G \in Surjection(S, T)
  BY DEF Surjection
<1>2. IsFiniteSet(T)
  BY <1>1, FS_Surjection
<1>3. \A U \in T : IsFiniteSet(U)
  <2>1. SUFFICES ASSUME NEW x \in S PROVE IsFiniteSet({x} \X (1 .. f[x]))
    OBVIOUS
  <2>2. IsFiniteSet({x})
    BY FS_Singleton
  <2>3. IsFiniteSet(1 .. f[x])
    <3>1. f[x] \in Int /\ 1 \in Int
      OBVIOUS
    <3> HIDE DEF G, T
    <3> QED BY <3>1, FS_Interval
  <2> QED BY <2>2, <2>3, FS_Product
<1> QED BY <1>2, <1>3, FS_UNION

\* One summand can be taken out of a sum.
LEMMA SumSplit ==
    ASSUME NEW S, IsFiniteSet(S), NEW f, \A x \in S : f[x] \in Nat, NEW r \in S
    PROVE  /\ SumOver(f, S \ {r}) \in Nat
           /\ SumOver(f, S) = SumOver(f, S \ {r}) + f[r]
<1> DEFINE A == UNION {{x} \X (1 .. f[x]) : x \in S \ {r}}
           B == {r} \X (1 .. f[r])
<1>1. IsFiniteSet(S \ {r})
  BY FS_RemoveElement
<1>2. IsFiniteSet(A)
  BY <1>1, UnitsFinite
<1>3. IsFiniteSet(B) /\ Cardinality(B) = f[r]
  <2>0. f[r] \in Nat
    OBVIOUS
  <2>1. IsFiniteSet({r}) /\ Cardinality({r}) = 1
    BY FS_Singleton
  <2>2. IsFiniteSet(1 .. f[r]) /\ Cardinality(1 .. f[r]) = f[r]
    BY <2>0, FS_Interval
  <2>3. IsFiniteSet(B) /\ Cardinality(B) = 1 * f[r]
    BY <2>1, <2>2, FS_Product
  <2> QED BY <2>0, <2>3
<1>4. A \cap B = {}
  OBVIOUS
<1>5. UNION {{x} \X (1 .. f[x]) : x \in S} = A \cup B
  OBVIOUS
<1> HIDE DEF A, B
<1>6. Cardinality(A \cup B) = Cardinality(A) + Cardinality(B) - Cardinality(A \cap B)
  BY <1>2, <1>3, FS_Union
<1>7. Cardinality(A \cap B) = 0
  BY <1>4, FS_EmptySet
<1>8. Cardinality(A) \in Nat
  BY <1>2, FS_CardinalityType
<1>9. SumOver(f, S) = Cardinality(A \cup B) /\ SumOver(f, S \ {r}) = Cardinality(A)
  BY <1>5 DEF SumOver, A
<1> QED BY <1>3, <1>6, <1>7, <1>8, <1>9

\* Sums of the same summands are the same.
LEMMA SumSame ==
    ASSUME NEW S, NEW f, NEW g, \A x \in S : f[x] = g[x]
    PROVE  SumOver(f, S) = SumOver(g, S)
<1>1. {{x} \X (1 .. f[x]) : x \in S} = {{x} \X (1 .. g[x]) : x \in S}
  OBVIOUS
<1> QED BY <1>1 DEF SumOver

\* One summand of a sum changes.
LEMMA SumChange ==
    ASSUME NEW S, IsFiniteSet(S), NEW f, NEW g,
           \A x \in S : f[x] \in Nat /\ g[x] \in Nat,
           NEW r \in S, \A x \in S \ {r} : g[x] = f[x]
    PROVE  /\ SumOver(f, S) \in Nat /\ SumOver(f, S) >= f[r]
           /\ SumOver(g, S) = SumOver(f, S) - f[r] + g[r]
<1>1. SumOver(f, S \ {r}) \in Nat /\ SumOver(f, S) = SumOver(f, S \ {r}) + f[r]
  BY SumSplit
<1>2. SumOver(g, S) = SumOver(g, S \ {r}) + g[r]
  BY SumSplit
<1>3. SumOver(g, S \ {r}) = SumOver(f, S \ {r})
  BY SumSame
<1>4. f[r] \in Nat /\ g[r] \in Nat
  OBVIOUS
<1> QED BY <1>1, <1>2, <1>3, <1>4

-----------------------------------------------------------------------------
(* The pending spend.                                                        *)

LEMMA EstimateType == Estimate \in Nat /\ Estimate > 0
BY GatewayAssumption DEF Estimate

\* No request holds less than nothing.
LEMMA DueType ==
    ASSUME BillingInv, NoHastyOverrun, NEW r \in Requests
    PROVE  Due(r) \in Nat
<1>1. req[r] \in Goroutine /\ req[r].kept \in Nat /\ req[r].record.total \in Nat
  BY FieldTypes DEF BillingInv, GatewayInv, TypeOK, Record
<1>2. CASE r \in settled /\ req[r].pc \in Reserved
  <2>1. r \in hasty
    BY <1>2 DEF BillingInv, SettledLogged, After, Reserved
  <2>2. req[r].record.total <= Estimate
    BY <2>1 DEF NoHastyOverrun
  <2> QED BY <1>1, <1>2, <2>2, EstimateType DEF Due
<1>3. CASE ~(r \in settled /\ req[r].pc \in Reserved)
  BY <1>1, <1>3, EstimateType DEF Due
<1> QED BY <1>2, <1>3

\* One request holds more or less than before, and so does its wallet.
LEMMA PendingMoves ==
    ASSUME BillingInv, NoHastyOverrun, NEW r \in Requests,
           \A x \in Requests : x # r => Due(x)' = Due(x),
           Due(r)' \in Nat,
           \A w \in Wallets : w # WalletOf[r] => Pending(w)' = Pending(w),
           Pending(WalletOf[r])' = Pending(WalletOf[r]) - Due(r) + Due(r)'
    PROVE  PendingExact'
<1> DEFINE f == [x \in Requests |-> Due(x)]
           g == [x \in Requests |-> Due(x)']
<1>1. \A x \in Requests : f[x] \in Nat /\ g[x] \in Nat
  <2> SUFFICES ASSUME NEW x \in Requests PROVE Due(x) \in Nat /\ Due(x)' \in Nat
    OBVIOUS
  <2>1. Due(x) \in Nat
    BY DueType
  <2> QED BY <2>1
<1>2. f[r] = Due(r) /\ g[r] = Due(r)' /\ \A x \in Requests : x # r => g[x] = f[x]
  OBVIOUS
<1> HIDE DEF f, g
<1>3. ASSUME NEW w \in Wallets PROVE Pending(w)' = SumOver(g, OfWallet(w))
  <2>1. IsFiniteSet(OfWallet(w)) /\ OfWallet(w) \subseteq Requests
    BY GatewayAssumption, FS_Subset DEF OfWallet
  <2>2. Pending(w) = SumOver(f, OfWallet(w))
    BY DEF BillingInv, PendingExact, f
  <2>3. CASE w = WalletOf[r]
    <3>1. r \in OfWallet(w)
      BY <2>3 DEF OfWallet
    <3>2. /\ SumOver(f, OfWallet(w)) \in Nat
          /\ SumOver(g, OfWallet(w)) = SumOver(f, OfWallet(w)) - f[r] + g[r]
      BY <1>1, <1>2, <2>1, <3>1, SumChange
    <3> QED BY <1>2, <2>2, <2>3, <3>2
  <2>4. CASE w # WalletOf[r]
    <3>1. \A x \in OfWallet(w) : f[x] = g[x]
      BY <1>2, <2>1, <2>4 DEF OfWallet
    <3>2. SumOver(f, OfWallet(w)) = SumOver(g, OfWallet(w))
      BY <3>1, SumSame
    <3> QED BY <2>2, <2>4, <3>2
  <2> QED BY <2>3, <2>4
<1>4. \A w \in Wallets : Pending(w)' = SumOver([x \in Requests |-> Due(x)], OfWallet(w))'
  BY <1>3 DEF g, SumOver, OfWallet
<1> QED BY <1>4 DEF PendingExact

\* What a request holds is at most what its wallet does.
LEMMA DueBound ==
    ASSUME BillingInv, NoHastyOverrun, NEW r \in Requests
    PROVE  Due(r) \in Nat /\ Pending(WalletOf[r]) \in Nat /\ Due(r) <= Pending(WalletOf[r])
<1> DEFINE f == [x \in Requests |-> Due(x)]
           S == OfWallet(WalletOf[r])
<1>1. \A x \in Requests : f[x] \in Nat
  BY DueType
<1>2. IsFiniteSet(S) /\ S \subseteq Requests /\ r \in S /\ WalletOf[r] \in Wallets
  BY GatewayAssumption, FS_Subset DEF OfWallet
<1>3. Pending(WalletOf[r]) = SumOver(f, S)
  BY <1>2 DEF BillingInv, PendingExact
<1>4. f[r] = Due(r)
  OBVIOUS
<1> HIDE DEF f, S
<1>5. SumOver(f, S) \in Nat /\ SumOver(f, S) >= f[r]
  BY <1>1, <1>2, SumChange
<1>6. f[r] \in Nat
  BY <1>1
<1> QED BY <1>3, <1>4, <1>5, <1>6

\* Nobody holds more or less than before.
LEMMA PendingStays ==
    ASSUME BillingInv, UNCHANGED pending, NoHastyOverrun' => NoHastyOverrun,
           \A x \in Requests : Due(x)' = Due(x)
    PROVE  PendingExact'
<1> SUFFICES ASSUME NoHastyOverrun, NEW w \in Wallets
             PROVE  Pending(w)' = SumOver([x \in Requests |-> Due(x)], OfWallet(w))'
  BY DEF PendingExact
<1> DEFINE f == [x \in Requests |-> Due(x)]
           g == [x \in Requests |-> Due(x)']
<1>1. f = g
  OBVIOUS
<1>2. Pending(w) = SumOver(f, OfWallet(w))
  BY DEF BillingInv, PendingExact
<1>3. Pending(w)' = Pending(w)
  BY DEF Pending
<1>4. SumOver([x \in Requests |-> Due(x)], OfWallet(w))' = SumOver(g, OfWallet(w))
  BY DEF SumOver, OfWallet
<1> QED BY <1>1, <1>2, <1>3, <1>4

\* A step of r along its course.
LEMMA GoesKeeps ==
    ASSUME BillingInv, NEW r \in Requests, Goes(r), UNCHANGED books
    PROVE  /\ \A x \in Requests : Course(x, req'[x]) /\ SettledLogged(x)'
           /\ PendingExact'
<1>0. UNCHANGED <<pending, settled, hasty>> /\ hasty \subseteq settled /\ req \in [Requests -> Goroutine]
  BY DEF books, BillingInv, GatewayInv, TypeOK
<1>1. PICK s \in Goroutine : req' = [req EXCEPT ![r] = s] /\ Course(r, s) /\ Keeps(r, s)
  BY DEF Goes
<1>2. req'[r] = s /\ \A x \in Requests : x # r => req'[x] = req[x]
  BY <1>0, <1>1
<1>3. \A x \in Requests : Course(x, req'[x])
  BY <1>1, <1>2 DEF BillingInv
<1>4. r \in settled => /\ req[r].pc \notin Reserved /\ s.pc \notin Reserved
                       /\ s.logged /\ s.record = req[r].record
                       /\ s.pc \in After /\ isBillable(s.record)
  BY <1>1 DEF BillingInv, SettledLogged, Keeps, After, Reserved
<1>5. \A x \in Requests : SettledLogged(x)'
  <2> SUFFICES ASSUME NEW x \in Requests PROVE SettledLogged(x)'
    OBVIOUS
  <2>1. CASE x = r
    <3>1. "adjust" \in Reserved
      BY DEF Reserved
    <3>2. r \in settled => req'[r].pc \in After /\ req'[r].logged /\ isBillable(req'[r].record)
                           /\ req'[r].pc # "adjust"
      BY <1>2, <1>4, <3>1
    <3> QED BY <1>0, <2>1, <3>2 DEF SettledLogged, isBillable
  <2>2. CASE x # r
    <3>1. SettledLogged(x)
      BY DEF BillingInv
    <3> QED BY <1>0, <1>2, <2>2, <3>1 DEF SettledLogged, isBillable
  <2> QED BY <2>1, <2>2
<1>6. NoHastyOverrun' => NoHastyOverrun
  <2> SUFFICES ASSUME NoHastyOverrun', NEW x \in hasty
               PROVE  req[x].record.total <= Estimate
    BY DEF NoHastyOverrun
  <2>1. req'[x].record.total <= Estimate /\ x \in settled /\ x \in Requests
    BY <1>0 DEF NoHastyOverrun, Estimate, BillingInv, GatewayInv, TypeOK
  <2>2. req'[x].record = req[x].record
    BY <1>2, <1>4, <2>1
  <2> QED BY <2>1, <2>2
<1>7. \A x \in Requests : Due(x)' = Due(x)
  <2> SUFFICES ASSUME NEW x \in Requests PROVE Due(x)' = Due(x)
    OBVIOUS
  <2>1. CASE x # r
    BY <1>0, <1>2, <2>1 DEF Due, Estimate
  <2>2. CASE x = r
    <3>1. CASE req[r].pc \in Reserved
      <4>1. s.pc \in Reserved /\ r \notin settled
        BY <1>1, <1>4, <3>1 DEF Keeps
      <4> QED BY <1>0, <1>2, <2>2, <3>1, <4>1 DEF Due, Estimate
    <3>2. CASE req[r].pc \notin Reserved
      <4>1. s.pc \notin Reserved /\ s.kept = req[r].kept
        BY <1>1, <3>2 DEF Keeps
      <4> QED BY <1>0, <1>2, <2>2, <3>2, <4>1 DEF Due
    <3> QED BY <3>1, <3>2
  <2> QED BY <2>1, <2>2
<1>8. PendingExact'
  BY <1>0, <1>6, <1>7, PendingStays
<1> QED BY <1>3, <1>5, <1>8

\* The estimate is reserved.
LEMMA ReserveKeeps ==
    ASSUME BillingInv, NEW r \in Requests, Reserve(r), Affordable(WalletOf[r])
    PROVE  /\ \A x \in Requests : Course(x, req'[x]) /\ SettledLogged(x)'
           /\ PendingExact'
<1> DEFINE w == WalletOf[r]
<1>0. /\ req \in [Requests -> Goroutine] /\ hasty \subseteq settled /\ settled \subseteq Requests
      /\ w \in Wallets /\ Pending(w) \in Nat
  <2>1. BooksOK
    BY TypeForm DEF BillingInv, GatewayInv, RestOK
  <2> QED BY <2>1, GatewayAssumption, PendingType DEF BillingInv, GatewayInv, TypeOK
<1>1. /\ req[r].pc = "reserve" /\ Goto(r, "select") /\ UNCHANGED <<settled, hasty>>
      /\ pending' = [v \in DOMAIN pending \cup {w} |->
                        IF v = w THEN Pending(w) + Estimate ELSE pending[v]]
  BY DEF Reserve
<1>2. PICK s \in Goroutine :
          /\ req' = [req EXCEPT ![r] = s] /\ s.pc = "select" /\ Alike(s, req[r])
          /\ s.caller = req[r].caller /\ s.target = req[r].target /\ s.resumes = req[r].resumes
  BY <1>0, <1>1, GotoFields DEF Stages
<1>3. req'[r] = s /\ \A x \in Requests : x # r => req'[x] = req[x]
  BY <1>0, <1>2
<1>4. OnItsWay(r, req[r]) /\ r \notin settled
  BY <1>1 DEF BillingInv, Course, SettledLogged, After
<1>5. Course(r, s)
  BY <1>1, <1>2, <1>4 DEF Course, OnItsWay, Alike, After, Blocked, Fresh
<1>6. \A x \in Requests : Course(x, req'[x]) /\ SettledLogged(x)'
  <2> SUFFICES ASSUME NEW x \in Requests PROVE Course(x, req'[x]) /\ SettledLogged(x)'
    OBVIOUS
  <2>1. CASE x = r
    BY <1>1, <1>3, <1>4, <1>5, <2>1 DEF SettledLogged
  <2>2. CASE x # r
    <3>1. Course(x, req[x]) /\ SettledLogged(x)
      BY DEF BillingInv
    <3> QED BY <1>1, <1>3, <2>2, <3>1 DEF SettledLogged, isBillable
  <2> QED BY <2>1, <2>2
<1>7. NoHastyOverrun' => NoHastyOverrun
  BY <1>0, <1>1, <1>3, <1>4 DEF NoHastyOverrun, Estimate
<1>8. \A x \in Requests : x # r => Due(x)' = Due(x)
  BY <1>1, <1>3 DEF Due, Estimate
<1>9. Due(r) = 0 /\ Due(r)' = Estimate
  <2>1. Due(r) = 0
    BY <1>1, <1>4 DEF Due, OnItsWay, Reserved
  <2>2. Due(r)' = Estimate
    BY <1>1, <1>2, <1>3, <1>4, EstimateType DEF Due, Reserved, Estimate
  <2> QED BY <2>1, <2>2
<1>10. Pending(w)' = Pending(w) + Estimate /\ \A v \in Wallets : v # w => Pending(v)' = Pending(v)
  BY <1>1 DEF Pending
<1>11. PendingExact'
  <2>1. CASE ~ NoHastyOverrun
    BY <1>7, <2>1 DEF PendingExact
  <2>2. CASE NoHastyOverrun
    <3>1. Due(r)' \in Nat /\ Pending(w)' = Pending(w) - Due(r) + Due(r)'
      BY <1>0, <1>9, <1>10, EstimateType
    <3> QED BY <1>8, <1>10, <2>2, <3>1, PendingMoves
  <2> QED BY <2>1, <2>2
<1> QED BY <1>6, <1>11

\* The reservation becomes what the handler kept.
LEMMA AdjustKeeps ==
    ASSUME BillingInv, NEW r \in Requests, Adjust(r)
    PROVE  /\ \A x \in Requests : Course(x, req'[x]) /\ SettledLogged(x)'
           /\ PendingExact'
<1> DEFINE w == WalletOf[r]
<1>0. /\ req \in [Requests -> Goroutine] /\ req[r] \in Goroutine
      /\ hasty \subseteq settled /\ settled \subseteq Requests /\ w \in Wallets
  BY GatewayAssumption DEF BillingInv, GatewayInv, TypeOK
<1>1. /\ req[r].pc = "adjust" /\ Goto(r, "release") /\ UNCHANGED <<settled, hasty>>
      /\ pending' = IF w \in DOMAIN pending
                    THEN [pending EXCEPT ![w] = Floored(pending[w] - (Estimate - req[r].kept))]
                    ELSE pending
  BY DEF Adjust, AdjustedSpend
<1>2. PICK s \in Goroutine :
          /\ req' = [req EXCEPT ![r] = s] /\ s.pc = "release" /\ Alike(s, req[r])
          /\ s.caller = req[r].caller /\ s.target = req[r].target /\ s.resumes = req[r].resumes
  BY <1>0, <1>1, GotoFields DEF Stages
<1>3. req'[r] = s /\ \A x \in Requests : x # r => req'[x] = req[x]
  BY <1>0, <1>2
<1>4. Finished(r, req[r]) /\ SettledLogged(r)
  BY <1>1 DEF BillingInv, Course, After
<1>5. Course(r, s)
  BY <1>2, <1>4 DEF Course, Finished, Alike, After
<1>6. \A x \in Requests : Course(x, req'[x]) /\ SettledLogged(x)'
  <2> SUFFICES ASSUME NEW x \in Requests PROVE Course(x, req'[x]) /\ SettledLogged(x)'
    OBVIOUS
  <2>1. CASE x = r
    BY <1>1, <1>2, <1>3, <1>4, <1>5, <2>1 DEF SettledLogged, isBillable, Alike, After
  <2>2. CASE x # r
    <3>1. Course(x, req[x]) /\ SettledLogged(x)
      BY DEF BillingInv
    <3> QED BY <1>1, <1>3, <2>2, <3>1 DEF SettledLogged, isBillable
  <2> QED BY <2>1, <2>2
<1>7. NoHastyOverrun' => NoHastyOverrun
  BY <1>0, <1>1, <1>2, <1>3 DEF NoHastyOverrun, Estimate, Alike
<1>8. \A x \in Requests : x # r => Due(x)' = Due(x)
  BY <1>1, <1>3 DEF Due, Estimate
<1>9. CASE ~ NoHastyOverrun
  BY <1>6, <1>7, <1>9 DEF PendingExact
<1>10. CASE NoHastyOverrun
  <2>1. Due(r) \in Nat /\ Pending(w) \in Nat /\ Due(r) <= Pending(w)
    BY <1>10, DueBound
  <2>2. req[r].kept \in Nat /\ req[r].record.total \in Nat
    BY <1>0, FieldTypes DEF Record
  <2>3. Due(r) = Estimate - (IF r \in settled THEN req[r].record.total ELSE 0)
    BY <1>1 DEF Due, Reserved
  <2>4. Due(r)' = IF r \in settled THEN 0 ELSE req[r].kept
    BY <1>1, <1>2, <1>3 DEF Due, Reserved, Alike
  <2>5. r \in settled => req[r].kept = req[r].record.total
    BY <1>4 DEF Finished, SettledLogged, isBillable
  <2>6. Due(r)' = Due(r) - (Estimate - req[r].kept) /\ Due(r)' \in Nat
    BY <2>2, <2>3, <2>4, <2>5, EstimateType
  <2>7. \A v \in Wallets : v # w => Pending(v)' = Pending(v)
    BY <1>1 DEF Pending
  <2>8. Pending(w)' = Pending(w) - Due(r) + Due(r)'
    <3>1. CASE w \in DOMAIN pending
      <4>1. Pending(w) = pending[w]
        BY <3>1 DEF Pending
      <4>2. Pending(w)' = Floored(Pending(w) - (Estimate - req[r].kept))
        BY <1>1, <3>1, <4>1 DEF Pending
      <4>3. Pending(w) - (Estimate - req[r].kept) = Pending(w) - Due(r) + Due(r)'
        BY <2>1, <2>2, <2>6, EstimateType
      <4>4. Pending(w) - Due(r) + Due(r)' \in Nat
        BY <2>1, <2>6
      <4> QED BY <4>2, <4>3, <4>4 DEF Floored
    <3>2. CASE w \notin DOMAIN pending
      <4>1. Pending(w) = 0 /\ Pending(w)' = 0
        BY <1>1, <3>2 DEF Pending
      <4>2. Due(r) = 0
        BY <2>1, <4>1
      <4>3. r \in settled
        BY <2>3, <4>2, EstimateType
      <4> QED BY <2>4, <4>1, <4>2, <4>3
    <3> QED BY <3>1, <3>2
  <2>9. PendingExact'
    BY <1>8, <1>10, <2>6, <2>7, <2>8, PendingMoves
  <2> QED BY <1>6, <2>9
<1> QED BY <1>9, <1>10

\* A settlement is confirmed, before or after the handler's own correction.
LEMMA SettleKeeps ==
    ASSUME BillingInv, NEW r \in Requests, Settle(r)
    PROVE  /\ \A x \in Requests : Course(x, req'[x]) /\ SettledLogged(x)'
           /\ PendingExact'
<1> DEFINE w == WalletOf[r]
           total == req[r].record.total
           rest == Pending(w) - total
<1>0. /\ req[r] \in Goroutine /\ req[r].pc \in Stages
      /\ hasty \subseteq settled /\ settled \subseteq Requests /\ w \in Wallets
      /\ total \in Nat /\ req[r].kept \in Nat
  BY GatewayAssumption, FieldTypes DEF BillingInv, GatewayInv, TypeOK, Record
<1>1. /\ req[r].logged /\ isBillable(req[r].record) /\ r \notin settled
      /\ settled' = settled \cup {r}
      /\ hasty' = IF req[r].pc = "adjust" THEN hasty \cup {r} ELSE hasty
      /\ pending' = IF rest > 0 THEN [pending EXCEPT ![w] = rest]
                    ELSE [v \in DOMAIN pending \ {w} |-> pending[v]]
      /\ UNCHANGED req
  BY DEF Settle
<1>2. req[r].pc \in After /\ Finished(r, req[r])
  BY <1>1 DEF BillingInv, Course, OnItsWay
<1>3. \A x \in Requests : Course(x, req'[x]) /\ SettledLogged(x)'
  <2> SUFFICES ASSUME NEW x \in Requests PROVE Course(x, req'[x]) /\ SettledLogged(x)'
    OBVIOUS
  <2>1. Course(x, req[x]) /\ SettledLogged(x)
    BY DEF BillingInv
  <2>2. CASE x = r
    BY <1>1, <1>2, <2>1, <2>2 DEF SettledLogged, isBillable
  <2>3. CASE x # r
    BY <1>1, <2>1, <2>3 DEF SettledLogged, isBillable
  <2> QED BY <2>2, <2>3
<1>4. NoHastyOverrun' => NoHastyOverrun /\ (req[r].pc = "adjust" => total <= Estimate)
  BY <1>1 DEF NoHastyOverrun, Estimate
<1>5. \A x \in Requests : x # r => Due(x)' = Due(x)
  BY <1>1 DEF Due, Estimate
<1>6. CASE ~ NoHastyOverrun'
  BY <1>3, <1>6 DEF PendingExact
<1>7. CASE NoHastyOverrun'
  <2>1. NoHastyOverrun /\ (req[r].pc = "adjust" => total <= Estimate)
    BY <1>4, <1>7
  <2>2. Due(r) \in Nat /\ Pending(w) \in Nat /\ Due(r) <= Pending(w)
    BY <2>1, DueBound
  <2>3. Due(r) = (IF req[r].pc = "adjust" THEN Estimate ELSE req[r].kept)
    BY <1>1, <1>2, EstimateType DEF Due, After, Reserved
  <2>4. Due(r)' = (IF req[r].pc = "adjust" THEN Estimate - total ELSE 0)
    BY <1>1, <1>2 DEF Due, After, Reserved, Estimate
  <2>5. req[r].kept = total /\ total > 0
    BY <1>1, <1>2 DEF Finished, isBillable
  <2>6. Due(r)' = Due(r) - total /\ Due(r)' \in Nat /\ total <= Pending(w)
    BY <1>0, <2>1, <2>2, <2>3, <2>4, <2>5, EstimateType
  <2>7. w \in DOMAIN pending /\ Pending(w) = pending[w]
    <3>1. Pending(w) # 0
      BY <1>0, <2>2, <2>5, <2>6
    <3> QED BY <3>1, Zenon DEF Pending
  <2>8. \A v \in Wallets : v # w => Pending(v)' = Pending(v)
    BY <1>1 DEF Pending
  <2>9. rest \in Nat /\ Pending(w)' = rest
    <3>1. rest \in Nat
      BY <1>0, <2>2, <2>6
    <3> HIDE DEF rest
    <3> QED BY <1>1, <2>7, <3>1 DEF Pending
  <2>10. Pending(w)' = Pending(w) - Due(r) + Due(r)'
    BY <1>0, <2>2, <2>6, <2>9
  <2>11. PendingExact'
    BY <1>5, <2>1, <2>6, <2>8, <2>10, PendingMoves
  <2> QED BY <1>3, <2>11
<1> QED BY <1>6, <1>7

-----------------------------------------------------------------------------
(* The invariant.                                                            *)

LEMMA BillingInit == Init => BillingInv
<1> SUFFICES ASSUME Init PROVE BillingInv
  OBVIOUS
<1>1. GatewayInv
  BY InitInv
<1>2. /\ \A r \in Requests : req[r] = Idle
      /\ settled = {} /\ hasty = {} /\ pending = [w \in {} |-> 0]
  BY DEF Init
<1>3. /\ Idle.pc = "new" /\ Idle.kept = 0 /\ ~ Idle.logged /\ Idle.delivered = 0
      /\ ~ Idle.started /\ Idle.resumes = 0 /\ Idle.caller = "first"
  BY DEF Idle
<1>4. \A r \in Requests : Course(r, req[r]) /\ SettledLogged(r)
  BY <1>2, <1>3, GatewayAssumption DEF Course, OnItsWay, SettledLogged, After, Blocked, Fresh
<1>5. PendingExact
  <2> SUFFICES ASSUME NEW w \in Wallets
               PROVE  Pending(w) = SumOver([r \in Requests |-> Due(r)], OfWallet(w))
    BY DEF PendingExact
  <2>1. \A r \in Requests : Due(r) = 0
    BY <1>2, <1>3 DEF Due, Reserved
  <2> DEFINE due == [r \in Requests |-> Due(r)]
  <2>2. \A r \in OfWallet(w) : due[r] = 0
    BY <2>1 DEF OfWallet
  <2> HIDE DEF due
  <2>3. \A x \in OfWallet(w) : {x} \X (1 .. due[x]) = {}
    <3>1. 1 .. 0 = {}
      OBVIOUS
    <3> QED BY <2>2, <3>1
  <2>4. SumOver(due, OfWallet(w)) = 0
    <3> DEFINE Units == UNION {{x} \X (1 .. due[x]) : x \in OfWallet(w)}
    <3>1. Units = {}
      BY <2>3
    <3> HIDE DEF Units
    <3>2. Cardinality(Units) = 0
      BY <3>1, FS_EmptySet
    <3> QED BY <3>2 DEF SumOver, Units
  <2>5. Pending(w) = 0
    BY <1>2 DEF Pending
  <2> QED BY <2>4, <2>5 DEF due
<1> QED BY <1>1, <1>4, <1>5 DEF BillingInv

\* A step that leaves the requests and the books alone.
LEMMA QuietKeepsBilling ==
    ASSUME BillingInv, UNCHANGED <<req, books>>
    PROVE  /\ \A x \in Requests : Course(x, req'[x]) /\ SettledLogged(x)'
           /\ PendingExact'
<1>0. UNCHANGED <<req, pending, settled, hasty>>
  BY DEF books
<1>1. \A x \in Requests : Course(x, req'[x]) /\ SettledLogged(x)'
  BY <1>0 DEF BillingInv, SettledLogged, isBillable
<1>2. NoHastyOverrun' => NoHastyOverrun
  BY <1>0 DEF NoHastyOverrun, Estimate
<1>3. \A x \in Requests : Due(x)' = Due(x)
  BY <1>0 DEF Due, Estimate
<1> QED BY <1>0, <1>1, <1>2, <1>3, PendingStays

\* A step of r that is neither Reserve with success nor Adjust.
LEMMA StepGoes ==
    ASSUME BillingInv, NEW r \in Requests, Step(r), ~ Adjust(r),
           ~(Reserve(r) /\ Affordable(WalletOf[r]))
    PROVE  Goes(r) /\ UNCHANGED books
<1>0. TypeOK /\ TargetKnown /\ Course(r, req[r])
  BY DEF BillingInv, GatewayInv
<1>1. CASE \/ Arrive(r) \/ Count(r) \/ Refuse(r) \/ Acquire(r) \/ CheckBody(r)
           \/ Release(r) \/ Leave(r) \/ Reserve(r)
  <2>1. Goes(r)
    BY <1>0, <1>1, EntryGoes
  <2>2. UNCHANGED books
    BY <1>1 DEF Arrive, Count, Refuse, Acquire, CheckBody, Release, Leave, Reserve, books
  <2> QED BY <2>1, <2>2
<1>2. CASE \/ SelectWorker(r) \/ SelectNone(r) \/ BlockFails(r) \/ Enqueue(r) \/ QueueFull(r)
           \/ Wake(r) \/ WindowEnds(r) \/ WaiterLeaves(r)
  <2>1. Goes(r)
    BY <1>0, <1>2, SelectGoes, WaitGoes
  <2>2. UNCHANGED books
    BY <1>2 DEF SelectWorker, SelectNone, BlockFails, Enqueue, QueueFull, Wake, WindowEnds, WaiterLeaves
  <2> QED BY <2>1, <2>2
<1>3. CASE \/ AttemptFails(r) \/ Answered(r) \/ StreamFailsEarly(r)
           \/ StreamEnds(r) \/ StreamErrs(r) \/ StreamBreaks(r)
  <2>1. Goes(r)
    BY <1>0, <1>3, AnswerGoes
  <2>2. UNCHANGED books
    BY <1>3 DEF AttemptFails, Answered, StreamFailsEarly, StreamEnds, StreamErrs, StreamBreaks, Back
  <2> QED BY <2>1, <2>2
<1>4. CASE Dispatch(r) \/ Forward(r) \/ Retry(r) \/ Resume(r) \/ ResumeFails(r)
  <2>1. Goes(r)
    BY <1>0, <1>4, ForwardGoes
  <2>2. UNCHANGED books
    BY <1>4 DEF Dispatch, Forward, Retry, Resume, ResumeFails
  <2> QED BY <2>1, <2>2
<1> QED BY <1>1, <1>2, <1>3, <1>4 DEF Step

LEMMA BillingNext == BillingInv /\ [Next]_vars => BillingInv'
<1> SUFFICES ASSUME BillingInv, [Next]_vars PROVE BillingInv'
  OBVIOUS
<1>0. GatewayInv'
  BY NextKeepsInv DEF BillingInv
<1> SUFFICES /\ \A x \in Requests : Course(x, req'[x]) /\ SettledLogged(x)'
             /\ PendingExact'
  <2>1. (\A x \in Requests : Course(x, req'[x])) => (\A x \in Requests : Course(x, req[x]))'
    BY DEF Course, Finished, OnItsWay, Halfway, isBillable, Estimate
  <2> QED BY <1>0, <2>1 DEF BillingInv
<1>1. ASSUME NEW r \in Requests, Step(r)
      PROVE  (\A x \in Requests : Course(x, req'[x]) /\ SettledLogged(x)') /\ PendingExact'
  BY <1>1, StepGoes, GoesKeeps, ReserveKeeps, AdjustKeeps
<1>2. ASSUME NEW r \in Requests, ClientLeaves(r) \/ DeadlinePasses(r)
      PROVE  (\A x \in Requests : Course(x, req'[x]) /\ SettledLogged(x)') /\ PendingExact'
  <2>1. Goes(r)
    BY <1>2, SignalGoes DEF BillingInv, GatewayInv
  <2>2. UNCHANGED books
    BY <1>2 DEF ClientLeaves, DeadlinePasses
  <2> QED BY <2>1, <2>2, GoesKeeps
<1>3. ASSUME NEW r \in Requests, Settle(r)
      PROVE  (\A x \in Requests : Course(x, req'[x]) /\ SettledLogged(x)') /\ PendingExact'
  BY <1>3, SettleKeeps
<1>4. CASE \/ \E w \in Workers : Poll(w) \/ MarkOffline(w) \/ Ban(w) \/ Verify(w)
           \/ \E k \in Keys : ExpireSession(k)
           \/ \E w \in Wallets : Refresh(w) \/ UpdateDebts(w)
           \/ BeginDrain \/ DrainEnds \/ UNCHANGED vars
  <2>1. UNCHANGED <<req, books>>
    BY <1>4 DEF Poll, MarkOffline, Ban, Verify, ExpireSession, Refresh, UpdateDebts, Event,
       BeginDrain, DrainEnds, vars
  <2> QED BY <2>1, QuietKeepsBilling
<1> QED BY <1>1, <1>2, <1>3, <1>4 DEF Next, Environment

LEMMA BillingHolds == Spec => []BillingInv
BY BillingInit, BillingNext, PTL DEF Spec

\* For every number of requests, wallets and workers and every order of
\* finishing and settling: the pending spend that Reserve, adjustBalance and
\* SettleSpend keep is the sum of what the requests hold.
THEOREM PendingIsExact == Spec => []PendingExact
<1>1. BillingInv => PendingExact
  BY DEF BillingInv
<1> QED BY <1>1, BillingHolds, PTL

\* On every way out of handleNonStreaming and handleStreaming the usage that is
\* kept reserved is the usage on the log line that settlement will bill.
THEOREM KeptIsWhatIsBilled == Spec => []KeptIsBilled
<1>1. BillingInv => KeptIsBilled
  <2> SUFFICES ASSUME BillingInv, NEW r \in Requests,
                      req[r].pc \in {"adjust", "release", "leave", "done"}
               PROVE  \/ ~ req[r].logged
                      \/ r \in Streaming /\ ~ req[r].record.ok
                      \/ req[r].kept = (IF isBillable(req[r].record) THEN req[r].record.total ELSE 0)
    BY DEF KeptIsBilled
  <2>1. Finished(r, req[r])
    BY DEF BillingInv, Course, After
  <2> QED BY <2>1 DEF Finished
<1> QED BY <1>1, BillingHolds, PTL

\* However often tryResume continues a stream, it is charged at most what was
\* reserved for it.
THEOREM ResumesCostNoMore == Spec => []ResumedWithinEstimate
<1>1. BillingInv => ResumedWithinEstimate
  <2> SUFFICES ASSUME BillingInv, NEW r \in Requests, req[r].resumes > 0
               PROVE  req[r].kept <= Estimate
    BY DEF ResumedWithinEstimate
  <2>1. Course(r, req[r])
    BY DEF BillingInv
  <2>2. CASE req[r].pc \in After
    BY <2>1, <2>2 DEF Course, Finished
  <2>3. CASE req[r].pc \notin After
    BY <2>1, <2>3, EstimateType DEF Course, OnItsWay
  <2> QED BY <2>2, <2>3
<1> QED BY <1>1, BillingHolds, PTL

\* After its first byte a request is forwarded only by tryResume: to a worker
\* with the continuation feature, and within the budget of resumes.
THEOREM AnswersStartOnce == Spec => NoRestartAfterBytes
<1> DEFINE A == \A r \in Requests :
                  (req[r].started /\ req[r].pc = "forward" /\ req'[r].pc = "sent") =>
                      /\ req[r].target \in Capable
                      /\ req[r].resumes \in 1 .. StreamMaxResumes
                      /\ req[r].delivered \in 1 .. MaxTokens - 1
<1>1. BillingInv => A
  <2> SUFFICES ASSUME BillingInv, NEW r \in Requests, req[r].started, req[r].pc = "forward"
               PROVE  /\ req[r].target \in Capable
                      /\ req[r].resumes \in 1 .. StreamMaxResumes
                      /\ req[r].delivered \in 1 .. MaxTokens - 1
    OBVIOUS
  <2>1. OnItsWay(r, req[r])
    BY DEF BillingInv, Course, After
  <2> QED BY <2>1 DEF OnItsWay, Halfway
<1> QED BY <1>1, BillingHolds, PTL DEF NoRestartAfterBytes
=============================================================================
