------------------------- MODULE RegistrationProofs -------------------------
(***************************************************************************)
(* Proofs about the registrations: of users and their keys (ApiKeys), for  *)
(* any number of wallets, keys, concurrent handlers and events, any limit, *)
(* window and clock skew; and of storage providers (SPRegistration), for   *)
(* any number of miners, challenges, workers, registrations and events.    *)
(***************************************************************************)
EXTENDS ApiKeys, SPRegistration, FiniteSetTheorems, TLAPS

-----------------------------------------------------------------------------
(* Users and their keys *)

\* A handler that has written the file and not yet changed the table; it
\* still has regMu.
Holds(h) == handler[h] # None /\ handler[h].step # "wait"
Holding(h, step) == handler[h] # None /\ handler[h].step = step

\* regMu: one handler at a time is between the file and the table.
Mutex == \A g, h \in Handlers : Holds(g) /\ Holds(h) => g = h

\* A handler read the clock before now.
ReadBefore == \A h \in Handlers : handler[h] # None => handler[h].now <= now

\* What is on its way into the table is in the file, what is on its way out
\* of it is not, and neither has been answered yet.
UnderWay ==
  \A h \in Handlers :
    /\ Holding(h, "install") => handler[h].key \in file \ revoked
    /\ Holding(h, "drop")    => handler[h].key \notin file \cup handed

\* Without a failed read the table lags behind the file by one key at most.
InStep ==
  ~misread => \A k \in file \ table : \E h \in Handlers :
                 Holding(h, "install") /\ handler[h].key = k

\* A signature that was acted on, not before its message's date, is remembered
\* until that is too old to be accepted, or is just being remembered by its handler.
Remembered ==
  \A m \in DOMAIN acted : acted[m] >= m.at =>
    \/ m \in DOMAIN seen /\ seen[m] >= m.at + Window
    \/ now > m.at + Window
    \/ \E h \in Handlers : /\ Holding(h, "install") /\ handler[h].msg = m
                           /\ m.action = "register" /\ handler[h].now >= m.at

\* ... who has not done so yet.
Unmarked ==
  \A h \in Handlers : Holding(h, "install") /\ handler[h].msg.action = "register" =>
     handler[h].msg \notin DOMAIN seen

IInv ==
  /\ TypeOK /\ IsFiniteSet(file)
  /\ Mutex /\ ReadBefore /\ UnderWay /\ InStep /\ Remembered /\ Unmarked
  /\ KeysDurable /\ KeyLimit /\ ActedOnOnce

-----------------------------------------------------------------------------
(* Types.                                                                  *)

LEMMA InitInv == Init => IInv
<1> SUFFICES ASSUME Init PROVE IInv
  OBVIOUS
<1> USE KeysAssumption DEF KeysAssumption
<1>1. TypeOK
  <2>0. DOMAIN << >> = {}
    OBVIOUS
  <2>1. DOMAIN seen = {} /\ DOMAIN acted = {}
    BY <2>0, Zenon DEF Init
  <2>2. 0 \in 0 .. MaxTime /\ 0 \in 0 .. MaxEvents
    OBVIOUS
  <2>3. handler \in [Handlers -> {None} \cup Handler]
    BY DEF Init
  <2> QED BY <2>1, <2>2, <2>3, Zenon DEF Init, TypeOK
<1>2. IsFiniteSet(file) /\ KeyLimit
  <2>1. \A w \in Wallets : OwnedBy(w, file) = {}
    BY DEF Init, OwnedBy
  <2>2. IsFiniteSet(file) /\ \A w \in Wallets : Cardinality(OwnedBy(w, file)) = 0
    BY <2>1, FS_EmptySet, Zenon DEF Init
  <2> QED BY <2>2 DEF KeyLimit
<1>3. Mutex /\ ReadBefore /\ UnderWay /\ InStep
  BY DEF Init, Mutex, ReadBefore, UnderWay, InStep, Holds, Holding
<1>4. Remembered /\ Unmarked /\ KeysDurable /\ ActedOnOnce
  BY DEF Init, Remembered, Unmarked, Holding, KeysDurable, ActedOnOnce
<1> QED BY <1>1, <1>2, <1>3, <1>4 DEF IInv

LEMMA HandlerFields ==
  ASSUME TypeOK, NEW h \in Handlers, handler[h] # None
  PROVE  /\ handler[h] \in Handler
         /\ handler[h].msg \in Message /\ handler[h].now \in 0 .. MaxTime
         /\ handler[h].step \in {"wait", "install", "drop"}
         /\ handler[h].step # "wait" => handler[h].key \in Key
BY DEF TypeOK, Handler

LEMMA MessageFields ==
  ASSUME NEW m \in Message
  PROVE  /\ m.wallet \in Wallets /\ m.at \in 0 .. MaxTime
         /\ m.action \in {"register", "create", "list", "delete"}
         /\ m.action = "delete" => m.key \in KeyIDs
BY DEF Message

\* The types of what a step may write.
SeenOK(s) == DOMAIN s \subseteq Message /\ \A m \in DOMAIN s : s[m] \in Nat
HistoryOK(a, r) ==
  /\ DOMAIN a \subseteq Message /\ \A m \in DOMAIN a : a[m] \in 0 .. MaxTime
  /\ \A x \in r : x.msg \in Message /\ {x.first, x.at} \subseteq 0 .. MaxTime

LEMMA SeenTypes ==
  ASSUME SeenOK(seen), NEW t \in 0 .. MaxTime
  PROVE  /\ SeenOK(Unexpired(t))
         /\ \A s : SeenOK(s) => \A m \in Message : SeenOK(Marked(s, m, t))
BY KeysAssumption DEF KeysAssumption, SeenOK, Unexpired, Marked

LEMMA ActsTypes ==
  ASSUME HistoryOK(acted, replays), now \in 0 .. MaxTime,
         NEW m \in Message, NEW t \in 0 .. MaxTime, Acts(m, t)
  PROVE  HistoryOK(acted', replays')
<1>1. CASE m \in DOMAIN acted
  <2>1. acted' = acted /\ replays' = replays \cup {[msg |-> m, first |-> acted[m], at |-> now]}
    BY <1>1 DEF Acts
  <2>2. acted[m] \in 0 .. MaxTime
    BY <1>1 DEF HistoryOK
  <2> QED BY <2>1, <2>2 DEF HistoryOK
<1>2. CASE m \notin DOMAIN acted
  BY <1>2 DEF Acts, HistoryOK
<1> QED BY <1>1, <1>2

LEMMA WriteTypes ==
  ASSUME TypeOK, NEW h \in Handlers, handler[h] # None, NEW k \in Key,
         NEW new \in SUBSET Key, NEW step \in {"install", "drop"}, NEW ok \in BOOLEAN,
         Write(h, k, new, step, ok)
  PROVE  /\ handler' \in [Handlers -> {None} \cup Handler]
         /\ file' \subseteq Key
         /\ HistoryOK(acted', replays')
<1>1. HistoryOK(acted, replays) /\ now \in 0 .. MaxTime
  BY DEF TypeOK, HistoryOK
<1>2. CASE ok
  <2>1. [step |-> step, msg |-> handler[h].msg, now |-> handler[h].now, key |-> k] \in Handler
    BY HandlerFields DEF Handler
  <2>2. Acts(handler[h].msg, handler[h].now) /\ file' = new
    BY <1>2 DEF Write, Msg
  <2>3. HistoryOK(acted', replays')
    BY <1>1, <2>2, HandlerFields, ActsTypes
  <2> QED BY <1>2, <2>1, <2>2, <2>3 DEF Write, TypeOK
<1>3. CASE ~ok
  BY <1>1, <1>3 DEF Write, Done, TypeOK
<1> QED BY <1>2, <1>3

-----------------------------------------------------------------------------
(* What the steps under regMu do to files, tables and handlers.            *)

Waits(h) == handler[h] # None /\ handler[h].step = "wait"
NobodyHolds == \A g \in Handlers : ~Holds(g)

\* h leaves without having written.
Returns(h) ==
  /\ Waits(h) /\ handler' = [handler EXCEPT ![h] = None]
  /\ UNCHANGED <<table, file, handed, revoked>>
  /\ misread => misread'

\* h has written what it read of the file, and goes on to the table.
Turns(h, k, step) ==
  /\ Waits(h) /\ NobodyHolds
  /\ handler' = [handler EXCEPT ![h] = [step |-> step, msg |-> @.msg, now |-> @.now, key |-> k]]
  /\ UNCHANGED <<table, revoked>>
  /\ misread => misread'

Mints(h, k) ==
  /\ Turns(h, k, "install")
  /\ k.wallet \in Wallets /\ \A x \in Known : x.id # k.id
  /\ \E kept \in Loads : file' = kept \cup {k} /\ (~misread' => kept = file)
  /\ UNCHANGED handed

Erases(h, k) ==
  /\ Turns(h, k, "drop")
  /\ \E got \in Loads : file' = got \ {k} /\ (~misread' => got = file)
  /\ handed' = handed \ {k}

\* A key that goes into the file keeps its wallet within the limit.
Fits(k) == ~misread' => Cardinality(OwnedBy(k.wallet, file)) < MaxKeys

LEMMA RefuseStep ==
  ASSUME NEW h \in Handlers, NEW a, Refuse(h, a)
  PROVE  Returns(h)
BY DEF Refuse, Locks, Returns, Waits, Done, history

LEMMA ListStep ==
  ASSUME NEW h \in Handlers, List(h)
  PROVE  Returns(h)
BY DEF List, Locks, Returns, Waits, Done, history

LEMMA LockFree ==
  ASSUME NEW h \in Handlers, NEW a, Locks(h, a)
  PROVE  Waits(h) /\ NobodyHolds /\ Msg(h).action = a
BY DEF Locks, Waits, NobodyHolds, Holds, Msg

LEMMA LoadedTypes ==
  ASSUME TypeOK
  PROVE  /\ Loads \subseteq SUBSET Key
         /\ \A got \in Loads : got \subseteq file
BY DEF TypeOK, Loads

LEMMA RegisterStep ==
  ASSUME IInv, NEW h \in Handlers, Register(h)
  PROVE  Returns(h) \/ \E k \in Key : Mints(h, k) /\ Fits(k)
<1>1. Waits(h) /\ NobodyHolds /\ TypeOK
  BY LockFree DEF Register, IInv
<1>2. Msg(h).wallet \in Wallets
  BY <1>1, HandlerFields, MessageFields DEF Waits, Msg
<1>3. CASE HasKey(Msg(h).wallet)
  BY <1>1, <1>3 DEF Register, Returns, Done
<1>4. CASE ~HasKey(Msg(h).wallet)
  <2>1. PICK kept \in Loads, id \in KeyIDs, ok \in BOOLEAN :
          LET k == [id |-> id, wallet |-> Msg(h).wallet] IN
             /\ \A x \in Known : x.id # id
             /\ DiskIO({kept}, ok)
             /\ Write(h, k, kept \cup {k}, "install", ok)
    BY <1>4 DEF Register
  <2> DEFINE k == [id |-> id, wallet |-> Msg(h).wallet]
  <2>2. k \in Key /\ k.wallet \in Wallets /\ k.id = id /\ k.wallet = Msg(h).wallet
    BY <1>2 DEF Key
  <2>3. (misread => misread') /\ (~misread' => kept = file)
    BY <2>1 DEF DiskIO
  <2>4. CASE ~ok
    BY <1>1, <2>1, <2>3, <2>4 DEF Register, Write, Returns, Done
  <2>5. CASE ok
    <3>1. Mints(h, k)
      <4>1. Turns(h, k, "install")
        BY <1>1, <2>1, <2>3, <2>5 DEF Register, Write, Turns
      <4>2. file' = kept \cup {k}
        BY <2>1, <2>5 DEF Write
      <4>3. handed' = handed
        BY DEF Register
      <4> HIDE DEF k
      <4> QED BY <2>1, <2>2, <2>3, <4>1, <4>2, <4>3 DEF Mints
    <3>2. Fits(k)
      <4>1. SUFFICES ASSUME ~misread' PROVE Cardinality(OwnedBy(k.wallet, file)) < MaxKeys
        BY DEF Fits
      <4>2. file \subseteq table
        BY <1>1, <2>3, <4>1 DEF IInv, InStep, NobodyHolds, Holds, Holding
      <4>3. OwnedBy(Msg(h).wallet, table) = {}
        BY <1>4 DEF HasKey
      <4>4. OwnedBy(k.wallet, file) = {}
        BY <2>2, <4>2, <4>3 DEF OwnedBy
      <4>5. MaxKeys \in Nat \ {0}
        BY KeysAssumption DEF KeysAssumption
      <4>6. Cardinality(OwnedBy(k.wallet, file)) = 0
        BY <4>4, FS_EmptySet, Zenon
      <4> QED BY <4>5, <4>6
    <3> HIDE DEF k
    <3> QED BY <2>2, <3>1, <3>2
  <2> QED BY <2>4, <2>5
<1> QED BY <1>3, <1>4

LEMMA CreateStep ==
  ASSUME IInv, NEW h \in Handlers, Create(h)
  PROVE  Returns(h) \/ \E k \in Key : Mints(h, k) /\ Fits(k)
<1>1. Waits(h) /\ NobodyHolds /\ TypeOK
  BY LockFree DEF Create, IInv
<1>2. Msg(h).wallet \in Wallets
  BY <1>1, HandlerFields, MessageFields DEF Waits, Msg
<1>3. PICK counted \in Loads, kept \in Loads, id \in KeyIDs, ok \in BOOLEAN :
        LET k == [id |-> id, wallet |-> Msg(h).wallet] IN
        /\ \A x \in Known : x.id # id
        /\ IF Cardinality(OwnedBy(Msg(h).wallet, counted)) >= MaxKeys
           THEN DiskIO({counted}, TRUE) /\ Done(h) /\ UNCHANGED <<file, acted, replays>>
           ELSE DiskIO({counted, kept}, ok) /\ Write(h, k, kept \cup {k}, "install", ok)
  BY DEF Create
<1> DEFINE k == [id |-> id, wallet |-> Msg(h).wallet]
<1>4. k \in Key /\ k.wallet \in Wallets /\ k.id = id /\ k.wallet = Msg(h).wallet
  BY <1>2 DEF Key
<1>5. CASE Cardinality(OwnedBy(Msg(h).wallet, counted)) >= MaxKeys
  BY <1>1, <1>3, <1>5 DEF Create, Returns, Done, DiskIO
<1>6. CASE ~(Cardinality(OwnedBy(Msg(h).wallet, counted)) >= MaxKeys)
  <2>1. DiskIO({counted, kept}, ok) /\ Write(h, k, kept \cup {k}, "install", ok)
    BY <1>3, <1>6
  <2>2. (misread => misread') /\ (~misread' => counted = file /\ kept = file)
    BY <2>1 DEF DiskIO
  <2>3. CASE ~ok
    BY <1>1, <2>1, <2>2, <2>3 DEF Create, Write, Returns, Done
  <2>4. CASE ok
    <3>1. Mints(h, k)
      <4>1. Turns(h, k, "install")
        BY <1>1, <2>1, <2>2, <2>4 DEF Create, Write, Turns
      <4>2. file' = kept \cup {k}
        BY <2>1, <2>4 DEF Write
      <4>3. handed' = handed
        BY DEF Create
      <4> HIDE DEF k
      <4> QED BY <1>3, <1>4, <2>2, <4>1, <4>2, <4>3 DEF Mints
    <3>2. Fits(k)
      <4>1. SUFFICES ASSUME ~misread' PROVE Cardinality(OwnedBy(k.wallet, file)) < MaxKeys
        BY DEF Fits
      <4>2. IsFiniteSet(OwnedBy(k.wallet, file))
        BY FS_Subset DEF IInv, OwnedBy
      <4>3. Cardinality(OwnedBy(k.wallet, file)) \in Nat
        BY <4>2, FS_CardinalityType
      <4>4. ~(Cardinality(OwnedBy(k.wallet, file)) >= MaxKeys)
        BY <1>4, <1>6, <2>2, <4>1
      <4> QED BY <4>3, <4>4, KeysAssumption DEF KeysAssumption
    <3> HIDE DEF k
    <3> QED BY <1>4, <3>1, <3>2
  <2> QED BY <2>3, <2>4
<1> QED BY <1>5, <1>6

LEMMA DeleteStep ==
  ASSUME TypeOK, NEW h \in Handlers, Delete(h)
  PROVE  Returns(h) \/ \E k \in Key : Erases(h, k)
<1>1. Waits(h) /\ NobodyHolds /\ Msg(h).action = "delete"
  BY LockFree DEF Delete
<1>2. PICK got \in Loads, ok \in BOOLEAN :
        LET k == [id |-> Msg(h).key, wallet |-> Msg(h).wallet] IN
        /\ DiskIO({got}, ok \/ k \notin got)
        /\ IF k \in got
           THEN /\ Write(h, k, got \ {k}, "drop", ok)
                /\ handed' = IF ok THEN handed \ {k} ELSE handed
           ELSE Done(h) /\ UNCHANGED <<file, handed, acted, replays>>
  BY DEF Delete
<1> DEFINE k == [id |-> Msg(h).key, wallet |-> Msg(h).wallet]
<1>3. k \in Key
  BY <1>1, HandlerFields, MessageFields DEF Waits, Msg, Key
<1>4. (misread => misread') /\ (~misread' => got = file)
  BY <1>2 DEF DiskIO
<1>5. CASE k \notin got
  BY <1>1, <1>2, <1>4, <1>5 DEF Delete, Returns, Done
<1>6. CASE k \in got /\ ~ok
  BY <1>1, <1>2, <1>4, <1>6 DEF Delete, Returns, Done, Write
<1>7. CASE k \in got /\ ok
  <2>1. Turns(h, k, "drop")
    BY <1>1, <1>2, <1>4, <1>7 DEF Delete, Write, Turns
  <2>2. file' = got \ {k} /\ handed' = handed \ {k}
    BY <1>2, <1>7 DEF Write
  <2> HIDE DEF k
  <2> QED BY <1>3, <1>4, <2>1, <2>2 DEF Erases
<1> QED BY <1>5, <1>6, <1>7

LEMMA TypeNext == IInv /\ [Next]_vars => TypeOK'
<1> SUFFICES ASSUME IInv, [Next]_vars PROVE TypeOK'
  OBVIOUS
<1>0. TypeOK /\ SeenOK(seen) /\ HistoryOK(acted, replays)
  BY DEF IInv, TypeOK, SeenOK, HistoryOK
<1>a. ASSUME NEW h \in Handlers, Returns(h), seen' = seen \/ SeenOK(seen'),
             HistoryOK(acted', replays'), now' = now, events' \in 0 .. MaxEvents,
             misread' \in BOOLEAN
      PROVE  TypeOK'
  BY <1>0, <1>a DEF TypeOK, Returns, SeenOK, HistoryOK
<1>b. ASSUME NEW h \in Handlers, NEW k \in Key, Mints(h, k) \/ Erases(h, k),
             SeenOK(seen'), HistoryOK(acted', replays'), now' = now,
             events' \in 0 .. MaxEvents, misread' \in BOOLEAN
      PROVE  TypeOK'
  <2>1. handler' \in [Handlers -> {None} \cup Handler]
    <3>1. PICK step \in {"install", "drop"} : Turns(h, k, step)
      BY <1>b DEF Mints, Erases
    <3>2. [step |-> step, msg |-> handler[h].msg, now |-> handler[h].now, key |-> k] \in Handler
      BY <1>0, <3>1, HandlerFields DEF Handler, Turns, Waits
    <3> QED BY <1>0, <3>1, <3>2 DEF Turns, TypeOK
  <2>2. table' \cup file' \cup handed' \cup revoked' \subseteq Key
    BY <1>0, <1>b, LoadedTypes DEF Mints, Erases, Turns, TypeOK
  <2> QED BY <1>0, <1>b, <2>1, <2>2 DEF TypeOK, SeenOK, HistoryOK
<1>c. \A gots, ok : DiskIO(gots, ok) => misread' \in BOOLEAN /\ events' \in 0 .. MaxEvents
  BY <1>0, KeysAssumption DEF DiskIO, Event, TypeOK, KeysAssumption
<1>d. ASSUME NEW h \in Handlers, handler[h] # None
      PROVE  /\ SeenOK(Unexpired(handler[h].now))
             /\ SeenOK(Marked(Unexpired(handler[h].now), Msg(h), handler[h].now))
             /\ SeenOK(Marked(seen, Msg(h), handler[h].now))
  BY <1>0, <1>d, HandlerFields, SeenTypes DEF Msg
<1>e. ASSUME NEW h \in Handlers, handler[h] # None, NEW k, NEW new, NEW step, NEW ok,
             Write(h, k, new, step, ok)
      PROVE  HistoryOK(acted', replays')
  <2>1. Acts(handler[h].msg, handler[h].now) \/ UNCHANGED <<acted, replays>>
    BY <1>e DEF Write, Msg
  <2>2. now \in 0 .. MaxTime
    BY <1>0 DEF TypeOK
  <2> QED BY <1>0, <1>e, <2>1, <2>2, HandlerFields, ActsTypes
<1>1. ASSUME NEW h \in Handlers, NEW m \in Message, Receive(h, m) PROVE TypeOK'
  <2>1. [step |-> "wait", msg |-> m, now |-> now] \in Handler
    BY <1>0 DEF Handler, TypeOK
  <2>2. handler' \in [Handlers -> {None} \cup Handler]
    BY <1>0, <1>1, <2>1 DEF Receive, TypeOK
  <2>3. events' \in 0 .. MaxEvents
    BY <1>0, <1>1, KeysAssumption DEF Receive, Event, TypeOK, KeysAssumption
  <2> QED BY <1>0, <1>1, <2>2, <2>3 DEF Receive, TypeOK, history
<1>2. CASE Tick
  <2>1. now' \in 0 .. MaxTime
    BY <1>0, <1>2, KeysAssumption DEF Tick, TypeOK, KeysAssumption
  <2> QED BY <1>0, <1>2, <2>1 DEF Tick, TypeOK, history
<1>3. ASSUME NEW h \in Handlers, NEW a, Refuse(h, a) PROVE TypeOK'
  <2>1. handler[h] # None
    BY <1>3 DEF Refuse, Locks
  <2>2. misread' \in BOOLEAN /\ events' \in 0 .. MaxEvents /\ HistoryOK(acted', replays')
    BY <1>0, <1>3 DEF Refuse, TypeOK, history
  <2> QED BY <1>3, <1>a, <1>d, <2>1, <2>2, RefuseStep DEF Refuse
<1>4. ASSUME NEW h \in Handlers, List(h) PROVE TypeOK'
  <2>1. handler[h] # None
    BY <1>4 DEF List, Locks
  <2>2. misread' \in BOOLEAN /\ events' \in 0 .. MaxEvents /\ HistoryOK(acted', replays')
    BY <1>0, <1>4 DEF List, TypeOK, history
  <2> QED BY <1>4, <1>a, <1>d, <2>1, <2>2, ListStep DEF List
<1>5. ASSUME NEW h \in Handlers, Register(h) PROVE TypeOK'
  <2>1. handler[h] # None /\ SeenOK(seen') /\ now' = now
    BY <1>5, <1>d DEF Register, Locks
  <2>2. misread' \in BOOLEAN /\ events' \in 0 .. MaxEvents
    BY <1>0, <1>5, <1>c DEF Register, TypeOK
  <2>3. HistoryOK(acted', replays')
    BY <1>0, <1>5, <1>e, <2>1 DEF Register
  <2> QED BY <1>5, <1>a, <1>b, <2>1, <2>2, <2>3, RegisterStep
<1>6. ASSUME NEW h \in Handlers, Create(h) PROVE TypeOK'
  <2>1. handler[h] # None /\ SeenOK(seen') /\ now' = now
    BY <1>6, <1>d DEF Create, Locks
  <2>2. misread' \in BOOLEAN /\ events' \in 0 .. MaxEvents
    BY <1>0, <1>6, <1>c DEF Create
  <2>3. HistoryOK(acted', replays')
    BY <1>0, <1>6, <1>e, <2>1 DEF Create
  <2> QED BY <1>6, <1>a, <1>b, <2>1, <2>2, <2>3, CreateStep
<1>7. ASSUME NEW h \in Handlers, Delete(h) PROVE TypeOK'
  <2>1. handler[h] # None /\ SeenOK(seen') /\ now' = now
    BY <1>7, <1>d DEF Delete, Locks
  <2>2. misread' \in BOOLEAN /\ events' \in 0 .. MaxEvents
    BY <1>0, <1>7, <1>c DEF Delete
  <2>3. HistoryOK(acted', replays')
    BY <1>0, <1>7, <1>e, <2>1 DEF Delete
  <2> QED BY <1>0, <1>7, <1>a, <1>b, <2>1, <2>2, <2>3, DeleteStep
<1>8. ASSUME NEW h \in Handlers, Install(h) PROVE TypeOK'
  <2>1. handler[h] # None /\ handler[h].key \in Key /\ SeenOK(seen')
    BY <1>0, <1>8, <1>d, HandlerFields DEF Install
  <2>2. handler' \in [Handlers -> {None} \cup Handler]
    BY <1>0, <1>8 DEF Install, Done, TypeOK
  <2> QED BY <1>0, <1>8, <2>1, <2>2 DEF Install, TypeOK, SeenOK
<1>9. ASSUME NEW h \in Handlers, Drop(h) PROVE TypeOK'
  <2>1. handler[h] # None /\ handler[h].key \in Key
    BY <1>0, <1>9, HandlerFields DEF Drop
  <2>2. handler' \in [Handlers -> {None} \cup Handler]
    BY <1>0, <1>9 DEF Drop, Done, TypeOK
  <2> QED BY <1>0, <1>9, <2>1, <2>2 DEF Drop, TypeOK
<1>10. CASE Restart
  <2>0. DOMAIN << >> = {}
    OBVIOUS
  <2>1. DOMAIN seen' = {} /\ DOMAIN acted' = {}
    BY <1>10, <2>0, Zenon DEF Restart
  <2>2. events' \in 0 .. MaxEvents
    BY <1>0, <1>10, KeysAssumption DEF Restart, Event, TypeOK, KeysAssumption
  <2>3. handler' \in [Handlers -> {None} \cup Handler] /\ misread' \in BOOLEAN
    BY <1>0, <1>10 DEF Restart, TypeOK
  <2>4. table' \subseteq Key /\ now' = now
           /\ UNCHANGED <<file, handed, revoked, replays>>
    BY <1>0, <1>10, LoadedTypes DEF Restart
  <2> QED BY <1>0, <2>1, <2>2, <2>3, <2>4 DEF TypeOK
<1>11. CASE UNCHANGED vars
  BY <1>0, <1>11 DEF vars, history, TypeOK
<1> QED BY <1>1, <1>2, <1>3, <1>4, <1>5, <1>6, <1>7, <1>8, <1>9, <1>10, <1>11 DEF Next

-----------------------------------------------------------------------------
(* Keys: the file, the table, and who is between them.                     *)

\* h arrives, or nothing happens to keys and handlers.
Idles ==
  /\ UNCHANGED <<table, file, handed, revoked, misread>>
  /\ \/ UNCHANGED handler
     \/ \E h \in Handlers, m \in Message :
          /\ handler[h] = None
          /\ handler' = [handler EXCEPT ![h] = [step |-> "wait", msg |-> m, now |-> now]]

LEMMA StepKinds ==
  ASSUME IInv, [Next]_vars
  PROVE  \/ Idles \/ Restart
         \/ \E h \in Handlers :
              \/ Returns(h) \/ Install(h) \/ Drop(h)
              \/ \E k \in Key : (Mints(h, k) /\ Fits(k)) \/ Erases(h, k)
<1>1. CASE Tick \/ UNCHANGED vars
  BY <1>1 DEF Tick, vars, history, Idles
<1>2. CASE \E h \in Handlers, m \in Message : Receive(h, m)
  BY <1>2 DEF Receive, history, Idles
<1>3. CASE \E h \in Handlers : List(h) \/ \E a \in {"register", "create", "list", "delete"} : Refuse(h, a)
  BY <1>3, ListStep, RefuseStep
<1>4. CASE \E h \in Handlers : Register(h) \/ Create(h) \/ Delete(h)
  BY <1>4, RegisterStep, CreateStep, DeleteStep DEF IInv
<1> QED BY <1>1, <1>2, <1>3, <1>4 DEF Next

LEMMA MintKeepsLimit ==
  ASSUME IInv, NEW h \in Handlers, NEW k \in Key, Mints(h, k), Fits(k)
  PROVE  KeyLimit' /\ IsFiniteSet(file')
<1>1. PICK kept \in Loads : file' = kept \cup {k} /\ (~misread' => kept = file)
  BY DEF Mints
<1>2. IsFiniteSet(kept)
  BY LoadedTypes, FS_Subset DEF IInv
<1>3. IsFiniteSet(file')
  BY <1>1, <1>2, FS_AddElement
<1>4. ASSUME ~misread', NEW w \in Wallets
      PROVE  Cardinality(OwnedBy(w, file')) <= MaxKeys
  <2>1. file' = file \cup {k} /\ ~misread
    BY <1>1, <1>4 DEF Mints, Turns
  <2>2. Cardinality(OwnedBy(w, file)) <= MaxKeys
    BY <2>1 DEF IInv, KeyLimit
  <2>3. CASE w # k.wallet
    <3>1. OwnedBy(w, file') = OwnedBy(w, file)
      BY <2>1, <2>3 DEF OwnedBy
    <3> QED BY <2>2, <3>1
  <2>4. CASE w = k.wallet
    <3>1. OwnedBy(w, file') = OwnedBy(w, file) \cup {k}
      BY <2>1, <2>4 DEF OwnedBy
    <3>2. IsFiniteSet(OwnedBy(w, file))
      BY FS_Subset DEF IInv, OwnedBy
    <3>3. Cardinality(OwnedBy(w, file)) \in Nat
      BY <3>2, FS_CardinalityType
    <3>4. Cardinality(OwnedBy(w, file')) <= Cardinality(OwnedBy(w, file)) + 1
      <4>1. k \in OwnedBy(w, file) => Cardinality(OwnedBy(w, file) \cup {k}) = Cardinality(OwnedBy(w, file))
        BY <3>2, FS_AddElement
      <4>2. k \notin OwnedBy(w, file) => Cardinality(OwnedBy(w, file) \cup {k}) = Cardinality(OwnedBy(w, file)) + 1
        BY <3>2, FS_AddElement
      <4> QED BY <3>1, <3>3, <4>1, <4>2
    <3>5. Cardinality(OwnedBy(w, file)) < MaxKeys
      BY <1>4, <2>4 DEF Fits
    <3>6. Cardinality(OwnedBy(w, file')) \in Nat
      BY <3>1, <3>2, FS_AddElement, FS_CardinalityType
    <3> QED BY <3>3, <3>4, <3>5, <3>6, KeysAssumption DEF KeysAssumption
  <2> QED BY <2>3, <2>4
<1> QED BY <1>3, <1>4 DEF KeyLimit

LEMMA LimitNext == IInv /\ [Next]_vars => KeyLimit' /\ IsFiniteSet(file')
<1> SUFFICES ASSUME IInv, [Next]_vars PROVE KeyLimit' /\ IsFiniteSet(file')
  OBVIOUS
<1>a. ASSUME file' \subseteq file, misread => misread' PROVE KeyLimit' /\ IsFiniteSet(file')
  <2>1. IsFiniteSet(file) /\ IsFiniteSet(file')
    BY <1>a, FS_Subset DEF IInv
  <2>2. ASSUME ~misread', NEW w \in Wallets
        PROVE  Cardinality(OwnedBy(w, file')) <= MaxKeys
    <3>1. OwnedBy(w, file') \subseteq OwnedBy(w, file) /\ IsFiniteSet(OwnedBy(w, file))
      BY <1>a, <2>1, FS_Subset DEF OwnedBy
    <3>2. Cardinality(OwnedBy(w, file')) <= Cardinality(OwnedBy(w, file))
      BY <3>1, FS_Subset
    <3>3. Cardinality(OwnedBy(w, file)) <= MaxKeys
      BY <1>a, <2>2 DEF IInv, KeyLimit
    <3>4. Cardinality(OwnedBy(w, file)) \in Nat /\ Cardinality(OwnedBy(w, file')) \in Nat
      BY <3>1, FS_Subset, FS_CardinalityType
    <3> QED BY <3>2, <3>3, <3>4, KeysAssumption DEF KeysAssumption
  <2> QED BY <2>1, <2>2 DEF KeyLimit
<1>1. CASE \E h \in Handlers, k \in Key : Mints(h, k) /\ Fits(k)
  BY <1>1, MintKeepsLimit
<1>2. CASE \E h \in Handlers, k \in Key : Erases(h, k)
  <2>1. file' \subseteq file /\ (misread => misread')
    BY <1>2, LoadedTypes DEF Erases, Turns, IInv
  <2> QED BY <2>1, <1>a
<1>3. CASE Idles \/ Restart \/ \E h \in Handlers : Returns(h) \/ Install(h) \/ Drop(h)
  <2>1. file' = file
    BY <1>3 DEF Idles, Restart, Returns, Install, Drop
  <2>2. CASE Restart
    BY <2>1, <2>2, <1>a, Zenon DEF Restart
  <2>3. CASE ~Restart
    <3>1. misread => misread'
      <4>1. misread' = misread \/ (misread => misread')
        BY <1>3, <2>3 DEF Idles, Returns, Install, Drop
      <4> QED BY <4>1
    <3> QED BY <2>1, <3>1, <1>a
  <2> QED BY <2>2, <2>3
<1> QED BY <1>1, <1>2, <1>3, StepKinds

\* One handler at a time: only a step that finds nobody there lets one in.
LEMMA MutexNext == IInv /\ [Next]_vars => Mutex'
<1> SUFFICES ASSUME IInv, [Next]_vars PROVE Mutex'
  OBVIOUS
<1>0. handler \in [Handlers -> {None} \cup Handler] /\ Mutex
  BY DEF IInv, TypeOK
<1> USE DEF Mutex, Holds
<1>1. CASE Idles
  <2>1. \A h \in Handlers : Holds(h)' => Holds(h)
    BY <1>0, <1>1 DEF Idles
  <2> QED BY <1>0, <2>1
<1>2. CASE Restart
  BY <1>2 DEF Restart
<1>3. ASSUME NEW h \in Handlers, Returns(h) \/ Install(h) \/ Drop(h) PROVE Mutex'
  <2>1. \A g \in Handlers : Holds(g)' => Holds(g)
    BY <1>0, <1>3 DEF Returns, Install, Drop, Done
  <2> QED BY <1>0, <2>1
<1>4. ASSUME NEW h \in Handlers, NEW k, NEW step, Turns(h, k, step) PROVE Mutex'
  <2>1. \A g \in Handlers : Holds(g)' => g = h
    BY <1>0, <1>4 DEF Turns, NobodyHolds
  <2> QED BY <2>1
<1> QED BY <1>1, <1>2, <1>3, <1>4, StepKinds DEF Mints, Erases

LEMMA UnderWayNext == IInv /\ [Next]_vars => UnderWay'
<1> SUFFICES ASSUME IInv, [Next]_vars PROVE UnderWay'
  OBVIOUS
<1>0. /\ handler \in [Handlers -> {None} \cup Handler]
      /\ Mutex /\ UnderWay /\ TypeOK
  BY DEF IInv, TypeOK
<1> USE DEF Holding
<1>1. CASE Idles
  <2>1. \A h \in Handlers : \A step \in {"install", "drop"} :
          Holding(h, step)' => Holding(h, step) /\ handler'[h] = handler[h]
    BY <1>0, <1>1 DEF Idles
  <2> QED BY <1>0, <1>1, <2>1 DEF Idles, UnderWay
<1>2. CASE Restart
  BY <1>2 DEF Restart, UnderWay
<1>3. ASSUME NEW h \in Handlers, Returns(h) PROVE UnderWay'
  <2>1. \A g \in Handlers : \A step \in {"install", "drop"} :
          Holding(g, step)' => Holding(g, step) /\ handler'[g] = handler[g]
    BY <1>0, <1>3 DEF Returns
  <2> QED BY <1>0, <1>3, <2>1 DEF Returns, UnderWay
<1>4. ASSUME NEW h \in Handlers, Install(h) \/ Drop(h) PROVE UnderWay'
  <2>1. \A g \in Handlers : handler'[g] # None => handler'[g].step = "wait"
    BY <1>0, <1>4, HandlerFields DEF Install, Drop, Done, Mutex, Holds
  <2> QED BY <2>1 DEF UnderWay
<1>5. ASSUME NEW h \in Handlers, NEW k \in Key, Mints(h, k) PROVE UnderWay'
  <2>1. /\ \A g \in Handlers : handler'[g] # None /\ handler'[g].step # "wait" => g = h
        /\ handler'[h].step = "install" /\ handler'[h].key = k
    BY <1>0, <1>5 DEF Mints, Turns, NobodyHolds, Holds
  <2>2. k \in file' /\ k \notin revoked'
    BY <1>5 DEF Mints, Turns, Known
  <2> QED BY <2>1, <2>2 DEF UnderWay
<1>6. ASSUME NEW h \in Handlers, NEW k \in Key, Erases(h, k) PROVE UnderWay'
  <2>1. /\ \A g \in Handlers : handler'[g] # None /\ handler'[g].step # "wait" => g = h
        /\ handler'[h].step = "drop" /\ handler'[h].key = k
    BY <1>0, <1>6 DEF Erases, Turns, NobodyHolds, Holds
  <2>2. k \notin file' \cup handed'
    BY <1>6 DEF Erases
  <2> QED BY <2>1, <2>2 DEF UnderWay
<1> QED BY <1>1, <1>2, <1>3, <1>4, <1>5, <1>6, StepKinds

LEMMA InStepNext == IInv /\ [Next]_vars => InStep'
<1> SUFFICES ASSUME IInv, [Next]_vars, ~misread' 
             PROVE  \A k \in file' \ table' : \E h \in Handlers :
                      (Holding(h, "install") /\ handler[h].key = k)'
  BY DEF InStep
<1>0. handler \in [Handlers -> {None} \cup Handler] /\ InStep /\ UnderWay /\ Mutex /\ TypeOK
  BY DEF IInv, TypeOK
<1> USE DEF Holding
<1>1. CASE Idles
  <2>1. \A h \in Handlers : Holding(h, "install") => handler'[h] = handler[h]
    BY <1>0, <1>1 DEF Idles
  <2> QED BY <1>0, <1>1, <2>1 DEF Idles, InStep
<1>2. CASE Restart
  BY <1>2 DEF Restart
<1>3. ASSUME NEW h \in Handlers, Returns(h)
      PROVE  \A k \in file' \ table' : \E g \in Handlers :
                      (Holding(g, "install") /\ handler[g].key = k)'
  <2>1. \A g \in Handlers : Holding(g, "install") => handler'[g] = handler[g]
    BY <1>0, <1>3 DEF Returns, Waits
  <2> QED BY <1>0, <1>3, <2>1 DEF Returns, InStep
<1>4. ASSUME NEW h \in Handlers, Install(h) \/ Drop(h)
      PROVE  file' \subseteq table'
  <2>1. \A g \in Handlers : Holding(g, "install") => g = h
    BY <1>0, <1>4, HandlerFields DEF Install, Drop, Mutex, Holds
  <2>2. \A k \in file \ table : Install(h) /\ k = handler[h].key
    BY <1>0, <1>4, <2>1 DEF InStep, Install, Drop
  <2>3. Drop(h) => handler[h].key \notin file
    BY <1>0 DEF Drop, UnderWay
  <2> QED BY <1>4, <2>2, <2>3 DEF Install, Drop
<1>5. ASSUME NEW h \in Handlers, NEW k \in Key, Mints(h, k)
      PROVE  \A x \in file' \ table' : \E g \in Handlers :
                      (Holding(g, "install") /\ handler[g].key = x)'
  <2>1. handler'[h] # None /\ handler'[h].step = "install" /\ handler'[h].key = k
    <3>1. [step |-> "install", msg |-> handler[h].msg, now |-> handler[h].now, key |-> k] \in Handler
      BY <1>0, <1>5, HandlerFields DEF Mints, Turns, Waits, Handler
    <3> QED BY <1>0, <1>5, <3>1, NoneAssumption DEF Mints, Turns
  <2>2. file \subseteq table
    BY <1>0, <1>5 DEF Mints, Turns, InStep, NobodyHolds, Holds
  <2>3. file' = file \cup {k} /\ table' = table
    BY <1>5 DEF Mints, Turns
  <2> QED BY <2>1, <2>2, <2>3
<1>6. ASSUME NEW h \in Handlers, NEW k \in Key, Erases(h, k)
      PROVE  file' \subseteq table'
  BY <1>0, <1>6 DEF Erases, Turns, InStep, NobodyHolds, Holds
<1> QED BY <1>1, <1>2, <1>3, <1>4, <1>5, <1>6, StepKinds

LEMMA DurableNext == IInv /\ [Next]_vars => KeysDurable'
<1> SUFFICES ASSUME IInv, [Next]_vars PROVE KeysDurable'
  OBVIOUS
<1>0. KeysDurable /\ UnderWay /\ TypeOK
  BY DEF IInv
<1> USE DEF KeysDurable
<1>1. CASE Idles \/ \E h \in Handlers : Returns(h)
  BY <1>0, <1>1 DEF Idles, Returns
<1>2. CASE Restart
  BY <1>0, <1>2 DEF Restart, Loads
<1>3. ASSUME NEW h \in Handlers, Install(h) PROVE KeysDurable'
  BY <1>0, <1>3 DEF Install, UnderWay, Holding
<1>4. ASSUME NEW h \in Handlers, Drop(h) PROVE KeysDurable'
  BY <1>0, <1>4 DEF Drop, UnderWay, Holding
<1>5. ASSUME NEW h \in Handlers, NEW k \in Key, Mints(h, k) PROVE KeysDurable'
  <2>1. k \notin revoked
    BY <1>5 DEF Mints, Known
  <2> QED BY <1>0, <1>5, <2>1, LoadedTypes DEF Mints, Turns
<1>6. ASSUME NEW h \in Handlers, NEW k \in Key, Erases(h, k) PROVE KeysDurable'
  BY <1>0, <1>6, LoadedTypes DEF Erases, Turns
<1> QED BY <1>1, <1>2, <1>3, <1>4, <1>5, <1>6, StepKinds

-----------------------------------------------------------------------------
(* Signatures: a message is acted on once while it is fresh.               *)

LEMMA ReadBeforeNext == IInv /\ [Next]_vars => ReadBefore'
<1> SUFFICES ASSUME IInv, [Next]_vars PROVE ReadBefore'
  OBVIOUS
<1>0. TypeOK /\ ReadBefore /\ handler \in [Handlers -> {None} \cup Handler]
         /\ now \in Nat /\ \A h \in Handlers : handler[h] # None => handler[h].now \in Nat
  BY HandlerFields, KeysAssumption DEF IInv, TypeOK, KeysAssumption
<1>a. ASSUME now' = now \/ now' = now + 1,
             \A h \in Handlers : handler'[h] # None =>
                handler'[h].now = now \/ (handler[h] # None /\ handler'[h].now = handler[h].now)
      PROVE  ReadBefore'
  BY <1>0, <1>a DEF ReadBefore
<1>1. now' = now \/ now' = now + 1
  BY DEF Next, vars, Tick, Receive, Refuse, Register, Create, List, Delete, Install, Drop, Restart
<1>2. \A h \in Handlers : handler'[h] # None =>
                handler'[h].now = now \/ (handler[h] # None /\ handler'[h].now = handler[h].now)
  <2>1. CASE Idles \/ Restart
    BY <1>0, <2>1 DEF Idles, Restart
  <2>2. ASSUME NEW g \in Handlers, Returns(g) \/ Install(g) \/ Drop(g)
        PROVE  \A h \in Handlers : handler'[h] # None => handler'[h] = handler[h]
    BY <1>0, <2>2 DEF Returns, Install, Drop, Done
  <2>3. ASSUME NEW g \in Handlers, NEW k, NEW step, Turns(g, k, step)
        PROVE  \A h \in Handlers : handler'[h] # None =>
                 handler[h] # None /\ handler'[h].now = handler[h].now
    BY <1>0, <2>3 DEF Turns, Waits
  <2> QED BY <2>1, <2>2, <2>3, StepKinds DEF Mints, Erases
<1> QED BY <1>a, <1>1, <1>2

\* What a handler with regMu does to the signatures, with the time it read:
\* prunes, perhaps marks its own, and acts only on one that it did not find.
Signs(h, t, m) ==
  /\ Waits(h) /\ NobodyHolds /\ t = handler[h].now /\ m = handler[h].msg
  /\ now' = now
  /\ \/ seen' = Unexpired(t)
     \/ New(h) /\ seen' = Marked(Unexpired(t), m, t)
  /\ \/ UNCHANGED <<acted, replays>>
     \/ /\ New(h) /\ Acts(m, t)
        /\ \/ seen' = Marked(Unexpired(t), m, t)
           \/ /\ m.action = "register" /\ Holding(h, "install")'
              /\ handler'[h].msg = m /\ handler'[h].now = t

\* A message that somebody remembers now is remembered until it is stale.
LEMMA StillRemembered ==
  ASSUME IInv, NEW h \in Handlers, NEW t, NEW m, Signs(h, t, m),
         NEW x \in DOMAIN acted, acted[x] >= x.at
  PROVE  \/ x \in DOMAIN seen' /\ seen'[x] >= x.at + Window /\ (New(h) => x # m)
         \/ now > x.at + Window
<1>1. /\ x \in Message /\ x.at \in Nat /\ t \in Nat /\ t <= now /\ now \in Nat /\ Window \in Nat
      /\ \A y \in DOMAIN seen : seen[y] \in Nat
  BY HandlerFields, MessageFields, KeysAssumption
     DEF IInv, TypeOK, ReadBefore, Signs, Waits, KeysAssumption
<1>2. CASE now > x.at + Window
  BY <1>2
<1>3. CASE x \in DOMAIN seen /\ seen[x] >= x.at + Window
  <2>1. CASE t <= seen[x]
    <3>1. x \in DOMAIN Unexpired(t) /\ Unexpired(t)[x] = seen[x]
      BY <1>3, <2>1 DEF Unexpired
    <3>2. New(h) => x # m
      BY <3>1 DEF Signs, New, Msg
    <3> QED BY <1>3, <3>1, <3>2 DEF Signs, Marked
  <2>2. CASE t > seen[x]
    BY <1>1, <1>3, <2>2
  <2> QED BY <1>1, <1>3, <2>1, <2>2
<1>4. QED
  BY <1>2, <1>3 DEF IInv, Remembered, Signs, NobodyHolds, Holds, Holding

LEMMA SignsRemembers ==
  ASSUME IInv, NEW h \in Handlers, NEW t, NEW m, Signs(h, t, m)
  PROVE  Remembered' /\ ActedOnOnce'
<1>0. /\ m \in Message /\ m.at \in Nat /\ t \in Nat /\ now \in Nat /\ Window \in Nat
      /\ now' = now
  BY HandlerFields, MessageFields, KeysAssumption
     DEF IInv, TypeOK, Signs, Waits, KeysAssumption
<1>1. ASSUME NEW x \in DOMAIN acted', acted'[x] >= x.at
      PROVE  \/ x \in DOMAIN seen' /\ seen'[x] >= x.at + Window
             \/ now' > x.at + Window
             \/ \E g \in Handlers : /\ Holding(g, "install")' /\ handler'[g].msg = x
                                    /\ x.action = "register" /\ handler'[g].now >= x.at
  <2>1. CASE x \in DOMAIN acted
    <3>1. acted'[x] = acted[x]
      BY <2>1 DEF Signs, Acts
    <3> QED BY <1>0, <1>1, <2>1, <3>1, StillRemembered
  <2>2. CASE x \notin DOMAIN acted
    <3>1. x = m /\ acted'[x] = t /\ Acts(m, t)
      BY <1>1, <2>2 DEF Signs, Acts
    <3>2. CASE seen' = Marked(Unexpired(t), m, t)
      BY <1>0, <1>1, <3>1, <3>2 DEF Marked
    <3>3. CASE seen' # Marked(Unexpired(t), m, t)
      <4>1. m.action = "register" /\ Holding(h, "install")' /\ handler'[h].msg = m /\ handler'[h].now = t
        BY <1>1, <2>2, <3>3 DEF Signs
      <4> QED BY <1>1, <3>1, <4>1
    <3> QED BY <3>2, <3>3
  <2> QED BY <2>1, <2>2
<1>2. ActedOnOnce'
  <2>1. CASE replays' = replays
    BY <2>1 DEF IInv, ActedOnOnce
  <2>2. CASE replays' # replays
    <3>1. New(h) /\ Acts(m, t) /\ m \in DOMAIN acted
      BY <2>2 DEF Signs, Acts
    <3>2. replays' = replays \cup {[msg |-> m, first |-> acted[m], at |-> now]}
      BY <3>1 DEF Acts
    <3>3. acted[m] \in Nat
      BY <3>1, KeysAssumption DEF IInv, TypeOK, KeysAssumption
    <3>4. acted[m] < m.at \/ now > m.at + Window
      BY <1>0, <3>1, <3>3, StillRemembered
    <3> QED BY <3>2, <3>4 DEF IInv, ActedOnOnce
  <2> QED BY <2>1, <2>2
<1> QED BY <1>1, <1>2 DEF Remembered

LEMMA RememberedNext == IInv /\ [Next]_vars => Remembered' /\ ActedOnOnce'
<1> SUFFICES ASSUME IInv, [Next]_vars PROVE Remembered' /\ ActedOnOnce'
  OBVIOUS
<1>0. TypeOK /\ Remembered /\ ActedOnOnce /\ now \in Nat /\ Window \in Nat
  BY KeysAssumption DEF IInv, TypeOK, KeysAssumption
<1>a. \A x \in DOMAIN acted : x.at \in Nat
  BY <1>0, MessageFields DEF TypeOK
<1>b. ASSUME NEW h \in Handlers, NEW k, NEW new, NEW step, NEW ok, handler[h] # None,
             Write(h, k, new, step, ok)
      PROVE  \/ UNCHANGED <<acted, replays>>
             \/ /\ Acts(handler[h].msg, handler[h].now)
                /\ handler'[h].step = step
                /\ handler'[h].msg = handler[h].msg /\ handler'[h].now = handler[h].now
  BY <1>0, <1>b DEF Write, TypeOK, Msg
<1>1. ASSUME NEW h \in Handlers, NEW m \in Message, Receive(h, m)
      PROVE  Remembered' /\ ActedOnOnce'
  <2>1. \A g \in Handlers : Holding(g, "install") => handler'[g] = handler[g]
    BY <1>0, <1>1 DEF Receive, Holding, TypeOK
  <2> QED BY <1>0, <1>1, <2>1 DEF Receive, Remembered, ActedOnOnce, Holding, history
<1>2. CASE Tick
  <2>1. now' = now + 1 /\ UNCHANGED <<handler, seen, acted, replays>>
    BY <1>2 DEF Tick, history
  <2> QED BY <1>0, <1>a, <2>1 DEF Remembered, ActedOnOnce, Holding
<1>3. ASSUME NEW h \in Handlers, NEW a, Refuse(h, a)
      PROVE  Remembered' /\ ActedOnOnce'
  <2>1. Signs(h, handler[h].now, handler[h].msg)
    BY <1>3, LockFree DEF Refuse, Signs, history
  <2> QED BY <2>1, SignsRemembers
<1>4. ASSUME NEW h \in Handlers, List(h)
      PROVE  Remembered' /\ ActedOnOnce'
  <2>1. Signs(h, handler[h].now, handler[h].msg)
    BY <1>4, LockFree DEF List, Signs, history, Msg
  <2> QED BY <2>1, SignsRemembers
<1>5. ASSUME NEW h \in Handlers, Register(h)
      PROVE  Remembered' /\ ActedOnOnce'
  <2>1. /\ Waits(h) /\ NobodyHolds /\ New(h) /\ Msg(h).action = "register"
        /\ now' = now /\ seen' = Unexpired(handler[h].now)
    BY <1>5, LockFree DEF Register
  <2>2. \/ UNCHANGED <<acted, replays>>
        \/ /\ Acts(handler[h].msg, handler[h].now)
           /\ handler'[h].step = "install"
           /\ handler'[h].msg = handler[h].msg /\ handler'[h].now = handler[h].now
    BY <1>5, <1>b, <2>1 DEF Register, Waits
  <2>3. handler'[h] = None => UNCHANGED <<acted, replays>> \/ handler'[h].step # "install"
    <3>1. Returns(h) \/ \E k \in Key : Mints(h, k)
      BY <1>5, RegisterStep
    <3>2. ASSUME NEW k \in Key, Mints(h, k) PROVE handler'[h] # None
      <4>1. [step |-> "install", msg |-> handler[h].msg, now |-> handler[h].now, key |-> k] \in Handler
        BY <1>0, <2>1, HandlerFields DEF Waits, Handler
      <4> QED BY <1>0, <3>2, <4>1, NoneAssumption DEF Mints, Turns, TypeOK
    <3>3. ASSUME Returns(h), handler'[h].step = "install" PROVE UNCHANGED <<acted, replays>>
      <4>1. CASE HasKey(Msg(h).wallet)
        BY <1>5, <4>1 DEF Register
      <4>2. CASE ~HasKey(Msg(h).wallet)
        <5>1. PICK kept \in Loads, id \in KeyIDs, ok \in BOOLEAN :
                LET k == [id |-> id, wallet |-> Msg(h).wallet] IN
                   Write(h, k, kept \cup {k}, "install", ok)
          BY <1>5, <4>2 DEF Register
        <5>2. ok => [step |-> "install", msg |-> handler[h].msg, now |-> handler[h].now,
                     key |-> [id |-> id, wallet |-> Msg(h).wallet]] \in Handler
          <6>1. [id |-> id, wallet |-> Msg(h).wallet] \in Key
            BY <1>0, <2>1, HandlerFields, MessageFields DEF Waits, Msg, Key
          <6> QED BY <1>0, <2>1, <6>1, HandlerFields DEF Waits, Handler
        <5>3. ok => handler'[h] # None
          BY <1>0, <5>1, <5>2, NoneAssumption DEF Write, TypeOK
        <5>4. handler'[h] = None
          BY <1>0, <3>3 DEF Returns, TypeOK
        <5> QED BY <5>1, <5>3, <5>4 DEF Write
      <4> QED BY <4>1, <4>2
    <3> QED BY <3>1, <3>2, <3>3
  <2>4. Signs(h, handler[h].now, handler[h].msg)
    BY <2>1, <2>2, <2>3 DEF Signs, Holding, Msg
  <2> QED BY <2>4, SignsRemembers
<1>6. ASSUME NEW h \in Handlers, Create(h)
      PROVE  Remembered' /\ ActedOnOnce'
  <2>1. /\ Waits(h) /\ NobodyHolds /\ New(h) /\ now' = now
        /\ seen' = Marked(Unexpired(handler[h].now), handler[h].msg, handler[h].now)
    BY <1>6, LockFree DEF Create, Msg
  <2>2. UNCHANGED <<acted, replays>> \/ Acts(handler[h].msg, handler[h].now)
    BY <1>6, <1>b, <2>1 DEF Create, Waits
  <2>3. Signs(h, handler[h].now, handler[h].msg)
    BY <2>1, <2>2 DEF Signs
  <2> QED BY <2>3, SignsRemembers
<1>7. ASSUME NEW h \in Handlers, Delete(h)
      PROVE  Remembered' /\ ActedOnOnce'
  <2>1. /\ Waits(h) /\ NobodyHolds /\ New(h) /\ now' = now
        /\ seen' = Marked(Unexpired(handler[h].now), handler[h].msg, handler[h].now)
    BY <1>7, LockFree DEF Delete, Msg
  <2>2. UNCHANGED <<acted, replays>> \/ Acts(handler[h].msg, handler[h].now)
    BY <1>7, <1>b, <2>1 DEF Delete, Waits
  <2>3. Signs(h, handler[h].now, handler[h].msg)
    BY <2>1, <2>2 DEF Signs
  <2> QED BY <2>3, SignsRemembers
<1>8. ASSUME NEW h \in Handlers, Install(h)
      PROVE  Remembered' /\ ActedOnOnce'
  <2>1. /\ UNCHANGED <<now, acted, replays>> /\ Holding(h, "install")
        /\ handler[h].now \in Nat /\ handler[h].msg \in Message
        /\ seen' = IF handler[h].msg.action = "register"
                   THEN Marked(seen, handler[h].msg, handler[h].now) ELSE seen
    BY <1>0, <1>8, HandlerFields, KeysAssumption DEF Install, Holding, Msg, KeysAssumption
  <2>2. \A g \in Handlers : Holding(g, "install") => g = h
    BY <2>1 DEF IInv, Mutex, Holds, Holding
  <2>3. ASSUME NEW x \in DOMAIN acted, acted[x] >= x.at
        PROVE  (x \in DOMAIN seen' /\ seen'[x] >= x.at + Window) \/ now > x.at + Window
    <3>1. CASE x = handler[h].msg /\ x.action = "register"
      <4>1. x \in DOMAIN seen' /\ seen'[x] = handler[h].now + Window
        BY <2>1, <3>1 DEF Marked
      <4>2. CASE handler[h].now >= x.at
        BY <1>0, <1>a, <2>1, <4>1, <4>2
      <4>3. CASE ~(handler[h].now >= x.at)
        <5>1. x \notin DOMAIN seen
          BY <2>1, <3>1 DEF IInv, Unmarked
        <5> QED BY <1>0, <2>2, <2>3, <4>3, <5>1 DEF Remembered
      <4> QED BY <4>2, <4>3
    <3>2. CASE ~(x = handler[h].msg /\ x.action = "register")
      <4>1. (x \in DOMAIN seen /\ seen[x] >= x.at + Window) \/ now > x.at + Window
        BY <1>0, <2>2, <2>3, <3>2 DEF Remembered
      <4> QED BY <2>1, <3>2, <4>1 DEF Marked
    <3> QED BY <3>1, <3>2
  <2> QED BY <1>0, <2>1, <2>3 DEF Remembered, ActedOnOnce
<1>9. ASSUME NEW h \in Handlers, Drop(h)
      PROVE  Remembered' /\ ActedOnOnce'
  <2>1. \A g \in Handlers : Holding(g, "install") => handler'[g] = handler[g]
    BY <1>0, <1>9 DEF Drop, Done, Holding, TypeOK
  <2> QED BY <1>0, <1>9, <2>1 DEF Drop, Remembered, ActedOnOnce, Holding
<1>10. CASE Restart
  <2>0. DOMAIN << >> = {}
    OBVIOUS
  <2>1. DOMAIN acted' = {} /\ replays' = replays
    BY <1>10, <2>0, Zenon DEF Restart
  <2> QED BY <1>0, <2>1 DEF Remembered, ActedOnOnce
<1>11. CASE UNCHANGED vars
  BY <1>0, <1>11 DEF vars, history, Remembered, ActedOnOnce, Holding
<1> QED BY <1>1, <1>2, <1>3, <1>4, <1>5, <1>6, <1>7, <1>8, <1>9, <1>10, <1>11 DEF Next

LEMMA UnmarkedNext == IInv /\ [Next]_vars => Unmarked'
<1> SUFFICES ASSUME IInv, [Next]_vars PROVE Unmarked'
  OBVIOUS
<1>0. TypeOK /\ Unmarked /\ Mutex /\ handler \in [Handlers -> {None} \cup Handler]
  BY DEF IInv, TypeOK
<1> USE DEF Holding
<1>1. CASE Tick \/ UNCHANGED vars
  BY <1>0, <1>1 DEF Tick, vars, Unmarked
<1>2. ASSUME NEW h \in Handlers, NEW m \in Message, Receive(h, m) PROVE Unmarked'
  <2>1. \A g \in Handlers : Holding(g, "install")' => handler'[g] = handler[g]
    BY <1>0, <1>2 DEF Receive
  <2> QED BY <1>0, <1>2, <2>1 DEF Receive, Unmarked
<1>3. ASSUME NEW h \in Handlers, NEW a, Refuse(h, a) \/ List(h) PROVE Unmarked'
  <2>1. handler' = [handler EXCEPT ![h] = None]
    BY <1>3 DEF Refuse, List, Done
  <2>2. \A g \in Handlers : handler[g] # None => handler[g].step = "wait"
    BY <1>3 DEF Refuse, List, Locks
  <2>3. \A g \in Handlers : ~Holding(g, "install")'
    <3>1. \A g \in Handlers : handler'[g] = IF g = h THEN None ELSE handler[g]
      BY <1>0, <2>1
    <3>2. "wait" # "install"
      OBVIOUS
    <3> QED BY <2>2, <3>1, <3>2, Zenon
  <2> QED BY <2>3 DEF Unmarked
<1>4. ASSUME NEW h \in Handlers, Register(h) \/ Create(h) \/ Delete(h) PROVE Unmarked'
  <2>1. /\ Waits(h) /\ NobodyHolds /\ New(h)
        /\ Register(h) \/ handler[h].msg.action # "register"
    <3>1. CASE Register(h)
      BY <3>1, LockFree, Zenon DEF Register
    <3>2. CASE Create(h)
      <4>1. Waits(h) /\ NobodyHolds /\ Msg(h).action = "create" /\ New(h)
        BY <3>2, LockFree, Zenon DEF Create
      <4> QED BY <4>1 DEF Msg
    <3>3. CASE Delete(h)
      <4>1. Waits(h) /\ NobodyHolds /\ Msg(h).action = "delete" /\ New(h)
        BY <3>3, LockFree, Zenon DEF Delete
      <4> QED BY <4>1 DEF Msg
    <3> QED BY <1>4, <3>1, <3>2, <3>3
  <2>2. Returns(h) \/ \E k, step : Turns(h, k, step)
    BY <1>0, <1>4, RegisterStep, CreateStep, DeleteStep DEF Mints, Erases
  <2>3. \A g \in Handlers : Holding(g, "install")' =>
          g = h /\ handler'[h].msg = handler[h].msg
    BY <1>0, <2>1, <2>2 DEF Returns, Turns, NobodyHolds, Holds
  <2>4. Register(h) => handler[h].msg \notin DOMAIN seen'
    BY <2>1 DEF Register, New, Msg
  <2> QED BY <2>1, <2>3, <2>4 DEF Unmarked
<1>5. ASSUME NEW h \in Handlers, Install(h) \/ Drop(h) PROVE Unmarked'
  <2>1. \A g \in Handlers : ~Holding(g, "install")'
    BY <1>0, <1>5, HandlerFields DEF Install, Drop, Done, Mutex, Holds
  <2> QED BY <2>1 DEF Unmarked
<1>6. CASE Restart
  BY <1>6 DEF Restart, Unmarked
<1> QED BY <1>1, <1>2, <1>3, <1>4, <1>5, <1>6 DEF Next

-----------------------------------------------------------------------------
(* The theorems.                                                           *)

LEMMA Inductive == Spec => []IInv
<1>1. IInv /\ [Next]_vars => IInv'
  BY TypeNext, LimitNext, MutexNext, UnderWayNext, InStepNext, DurableNext,
     ReadBeforeNext, RememberedNext, UnmarkedNext DEF IInv
<1> QED BY <1>1, InitInv, PTL DEF Spec

\* All variables of the key store keep their types, for any number of wallets,
\* handlers, keys and deliveries.
THEOREM TypeCorrect == Spec => []TypeOK
<1>1. IInv => TypeOK
  BY DEF IInv
<1> QED BY <1>1, Inductive, PTL

\* What createKeyLocked handed out is in registrations.json and authenticates
\* until keysDeleteLocked confirms its deletion, after which it never does again,
\* wherever a write fails or the process ends.
THEOREM KeysAreDurable == Spec => []KeysDurable
<1>1. IInv => KeysDurable
  BY DEF IInv
<1> QED BY <1>1, Inductive, PTL

\* maxKeysPerWallet holds although handleKeys counts the file and handleRegister
\* looks into the table, for any number of concurrent requests.
THEOREM LimitIsKept == Spec => []KeyLimit
<1>1. IInv => KeyLimit
  BY DEF IInv
<1> QED BY <1>1, Inductive, PTL

\* seenSigs, pruned with a time that a handler read before it had regMu, still
\* keeps one process from acting twice on one text of a signature of a message that
\* is fresh (registration.go:250-256,273, keys.go:148-154).  A message has another
\* text that verifies (registration.go:184-189), which this says nothing of.
THEOREM SignaturesWorkOnce == Spec => []ActedOnOnce
<1>1. IInv => ActedOnOnce
  BY DEF IInv
<1> QED BY <1>1, Inductive, PTL

-----------------------------------------------------------------------------
(* Storage providers *)

Unique(reg) == \A m \in Miners : \A v, w \in WorkersOf(reg, m) : v = w

\* The registry and its file are unique, and so is the registry that the
\* one attempt between its check and its insert is about to make.
Uniqueness ==
  /\ \A g, h \in SPHandlers : At(g, "insert") /\ At(h, "insert") => g = h
  /\ ~reassigned =>
       /\ Unique(workers) /\ Unique(saved)
       /\ \A h \in SPHandlers : At(h, "insert") =>
            WorkersOf(workers, sp[h].req.miner) \subseteq {sp[h].req.worker}

\* A challenge goes from one place to the next and never back: not issued,
\* stored, held by one attempt, spent.
Custody ==
  /\ \A c \in Challenges : minerOf[c] = Nobody => c \notin live
  /\ \A c \in Challenges : minerOf[c] = Nobody \/ c \in live => admitted[c] = 0
  /\ \A h \in SPHandlers : sp[h] # Nobody =>
       /\ minerOf[sp[h].req.challenge] = sp[h].req.miner
       /\ sp[h].req.challenge \notin live
       /\ admitted[sp[h].req.challenge] = 0
  /\ \A g, h \in SPHandlers :
       sp[g] # Nobody /\ sp[h] # Nobody /\ sp[g].req.challenge = sp[h].req.challenge => g = h
  /\ \A c \in Challenges : admitted[c] <= 1

\* Who controls a miner is witnessed by its challenges, and an attempt that
\* got past the chain reads was signed by such a witness.
Witness ==
  /\ \A c \in Challenges : minerOf[c] # Nobody => controller[minerOf[c]] \in witnessed[c]
  /\ \A h \in SPHandlers : At(h, "check") \/ At(h, "insert") =>
       sp[h].req.signer \in witnessed[sp[h].req.challenge]
  /\ ~unproven

SPInv == SPTypeOK /\ Uniqueness /\ Custody /\ Witness

-----------------------------------------------------------------------------
LEMMA SPInitInv == SPInit => SPInv
<1> SUFFICES ASSUME SPInit PROVE SPInv
  OBVIOUS
<1>1. SPTypeOK
  <2>1. workers \in Registry /\ saved \in Registry
    BY DEF SPInit, Registry
  <2>2. spEvents \in 0 .. MaxSPEvents
    BY SPAssumption DEF SPAssumption, SPInit
  <2>3. witnessed \in [Challenges -> SUBSET Signers] /\ admitted \in [Challenges -> Nat]
    BY DEF SPInit
  <2>4. sp \in [SPHandlers -> {Nobody} \cup Attempt] /\ minerOf \in [Challenges -> Miners \cup {Nobody}]
    BY DEF SPInit
  <2> QED BY <2>1, <2>2, <2>3, <2>4 DEF SPInit, SPTypeOK
<1>2. Uniqueness
  BY SPAssumption DEF SPAssumption, SPInit, Uniqueness, Unique, WorkersOf, At
<1>3. Custody
  BY DEF SPInit, Custody
<1>4. Witness
  BY DEF SPInit, Witness, At
<1> QED BY <1>1, <1>2, <1>3, <1>4 DEF SPInv

-----------------------------------------------------------------------------
(* Types.                                                                  *)

LEMMA SPTypeNext == SPTypeOK /\ [SPNext]_spVars => SPTypeOK'
<1> SUFFICES ASSUME SPTypeOK, [SPNext]_spVars PROVE SPTypeOK'
  OBVIOUS
<1> USE SPAssumption DEF SPAssumption, SPTypeOK, spHistory, SPEvent
<1>1. ASSUME NEW c \in Challenges, NEW m \in Miners, IssueChallenge(c, m) PROVE SPTypeOK'
  BY <1>1 DEF IssueChallenge
<1>2. ASSUME NEW c \in Challenges, ChallengeExpires(c) PROVE SPTypeOK'
  BY <1>2 DEF ChallengeExpires
<1>3. ASSUME NEW m \in Miners, NEW s \in Signers, ChangeController(m, s) PROVE SPTypeOK'
  BY <1>3 DEF ChangeController
<1>4. ASSUME NEW h \in SPHandlers, NEW q \in Request, Consume(h, q) PROVE SPTypeOK'
  <2>1. [step |-> "verify", req |-> q] \in Attempt
    BY DEF Attempt
  <2> QED BY <1>4, <2>1 DEF Consume, Spent
<1>5. ASSUME NEW h \in SPHandlers, Verify(h) PROVE SPTypeOK'
  BY <1>5 DEF Verify, At, Attempt
<1>6. ASSUME NEW h \in SPHandlers, Check(h) PROVE SPTypeOK'
  <2>1. sp[h] \in Attempt
    BY <1>6 DEF Check, At
  <2>2. [sp[h] EXCEPT !.step = "insert"] \in Attempt
    BY <2>1 DEF Attempt
  <2> QED BY <1>6, <2>2 DEF Check
<1>7. ASSUME NEW h \in SPHandlers, Insert(h) PROVE SPTypeOK'
  <2>1. sp[h].req \in Request
    BY <1>7 DEF Insert, At, Attempt
  <2>2. sp[h].req.miner \in Miners /\ sp[h].req.worker \in WorkerIDs /\ sp[h].req.challenge \in Challenges
    BY <2>1 DEF Request
  <2> QED BY <1>7, <2>2 DEF Insert, Saved, Registry
<1>8. ASSUME NEW w \in WorkerIDs, NEW m \in Miners \cup {NoMiner}, AdminRegister(w, m) PROVE SPTypeOK'
  BY <1>8 DEF AdminRegister, Saved, Registry
<1>9. ASSUME NEW w \in WorkerIDs, Deregister(w) PROVE SPTypeOK'
  BY <1>9 DEF Deregister, Saved, Registry
<1>10. CASE SPRestart
  BY <1>10 DEF SPRestart
<1>11. CASE UNCHANGED spVars
  BY <1>11 DEF spVars
<1> QED BY <1>1, <1>2, <1>3, <1>4, <1>5, <1>6, <1>7, <1>8, <1>9, <1>10, <1>11 DEF SPNext

-----------------------------------------------------------------------------
(* One worker per miner.                                                   *)

\* What the entry of one worker does to the registry.
LEMMA UniqueEntry ==
  ASSUME SPTypeOK, NEW w \in WorkerIDs, NEW m \in Miners \cup {NoMiner, Nobody},
         workers' = [workers EXCEPT ![w] = m]
  PROVE  Unique(workers) /\ (m \in Miners => WorkersOf(workers, m) \subseteq {w}) => Unique(workers')
BY SPAssumption DEF SPAssumption, SPTypeOK, Registry, Unique, WorkersOf

LEMMA UniqueSaved ==
  ASSUME Saved, Unique(workers'), Unique(saved)
  PROVE  Unique(saved')
BY DEF Saved, Unique, WorkersOf

LEMMA AttemptType ==
  ASSUME SPTypeOK, NEW h \in SPHandlers, sp[h] # Nobody
  PROVE  /\ sp[h] \in Attempt
         /\ sp[h].req \in Request
         /\ sp[h].req.miner \in Miners /\ sp[h].req.worker \in WorkerIDs
         /\ sp[h].req.challenge \in Challenges /\ sp[h].req.signer \in Signers
BY DEF SPTypeOK, Attempt, Request

LEMMA UniquenessNext == SPInv /\ [SPNext]_spVars => Uniqueness'
<1> SUFFICES ASSUME SPInv, [SPNext]_spVars PROVE Uniqueness'
  OBVIOUS
<1> USE DEF SPInv
<1>s. ASSUME UNCHANGED <<sp, workers, saved, reassigned>> PROVE Uniqueness'
  BY <1>s DEF Uniqueness, Unique, WorkersOf, At
<1>1. ASSUME NEW c \in Challenges, NEW m \in Miners, IssueChallenge(c, m) PROVE Uniqueness'
  BY <1>1, <1>s DEF IssueChallenge
<1>2. ASSUME NEW c \in Challenges, ChallengeExpires(c) PROVE Uniqueness'
  BY <1>2, <1>s DEF ChallengeExpires, spHistory
<1>3. ASSUME NEW m \in Miners, NEW s \in Signers, ChangeController(m, s) PROVE Uniqueness'
  BY <1>3, <1>s DEF ChangeController
<1>r. ASSUME UNCHANGED <<workers, saved, reassigned>>,
             \A g \in SPHandlers : At(g, "insert")' => At(g, "insert") /\ sp'[g] = sp[g]
      PROVE  Uniqueness'
  BY <1>r DEF Uniqueness, Unique, WorkersOf
<1>4. ASSUME NEW h \in SPHandlers, NEW q \in Request, Consume(h, q) PROVE Uniqueness'
  <2>1. \A g \in SPHandlers : At(g, "insert")' => At(g, "insert") /\ sp'[g] = sp[g]
    BY <1>4 DEF Consume, At, SPTypeOK
  <2> QED BY <1>4, <2>1, <1>r DEF Consume, spHistory
<1>5. ASSUME NEW h \in SPHandlers, Verify(h) PROVE Uniqueness'
  <2>1. \A g \in SPHandlers : At(g, "insert")' => At(g, "insert") /\ sp'[g] = sp[g]
    BY <1>5, AttemptType DEF Verify, At, SPTypeOK, Attempt
  <2> QED BY <1>5, <2>1, <1>r DEF Verify, spHistory
<1>6. ASSUME NEW h \in SPHandlers, Check(h) PROVE Uniqueness'
  <2>1. PICK found \in FindByMiner(sp[h].req.miner) :
          sp' = [sp EXCEPT ![h] = IF Free(@.req, found) THEN [@ EXCEPT !.step = "insert"] ELSE Nobody]
    BY <1>6 DEF Check
  <2>2. UNCHANGED <<workers, saved, reassigned>> /\ sp[h] # Nobody /\ \A g \in SPHandlers : ~At(g, "insert")
    BY <1>6 DEF Check, At, spHistory
  <2>3. \A g \in SPHandlers : g # h => sp'[g] = sp[g]
    BY <2>1 DEF SPTypeOK
  <2>4. CASE ~Free(sp[h].req, found)
    <3>1. sp'[h] = Nobody
      BY <2>1, <2>4 DEF SPTypeOK
    <3> QED BY <3>1, <2>2, <2>3, <1>r DEF At
  <2>5. CASE Free(sp[h].req, found)
    <3>1. sp'[h] = [sp[h] EXCEPT !.step = "insert"]
      BY <2>1, <2>5 DEF SPTypeOK
    <3>2. sp'[h].req = sp[h].req
      BY <3>1, <2>2, AttemptType DEF Attempt
    <3>3. \A g \in SPHandlers : At(g, "insert")' => g = h
      BY <2>2, <2>3 DEF At
    <3>4. ~reassigned => WorkersOf(workers, sp[h].req.miner) \subseteq {sp[h].req.worker}
      <4>1. found \in {Nobody, sp[h].req.worker}
        BY <2>5 DEF Free
      <4>2. CASE WorkersOf(workers, sp[h].req.miner) = {}
        BY <4>2
      <4>3. CASE WorkersOf(workers, sp[h].req.miner) # {}
        <5>1. found \in WorkersOf(workers, sp[h].req.miner)
          BY <2>1, <4>3 DEF FindByMiner
        <5>2. found = sp[h].req.worker
          BY <4>1, <5>1, SPAssumption DEF SPAssumption, WorkersOf
        <5> QED BY <5>1, <5>2, <2>2, AttemptType DEF Uniqueness, Unique
      <4> QED BY <4>2, <4>3
    <3>5. ~reassigned => Unique(workers) /\ Unique(saved)
      BY DEF Uniqueness
    <3>6. \A n : WorkersOf(workers', n) = WorkersOf(workers, n)
      BY <2>2 DEF WorkersOf
    <3>7. Unique(workers)' = Unique(workers) /\ Unique(saved)' = Unique(saved)
      BY <2>2 DEF Unique, WorkersOf
    <3>8. \A g \in SPHandlers : At(g, "insert")' /\ ~reassigned' =>
             WorkersOf(workers', sp'[g].req.miner) \subseteq {sp'[g].req.worker}
      BY <3>2, <3>3, <3>4, <3>6, <2>2
    <3> QED BY <3>3, <3>5, <3>7, <3>8, <2>2 DEF Uniqueness, WorkersOf
  <2> QED BY <2>4, <2>5
<1>7. ASSUME NEW h \in SPHandlers, Insert(h) PROVE Uniqueness'
  <2> DEFINE q == sp[h].req
  <2>1. q.miner \in Miners /\ q.worker \in WorkerIDs
    BY <1>7, AttemptType DEF Insert, At
  <2>2. workers' = [workers EXCEPT ![q.worker] = q.miner] /\ Saved /\ reassigned' = reassigned
    BY <1>7 DEF Insert
  <2>3. \A g \in SPHandlers : ~At(g, "insert")'
    BY <1>7 DEF Insert, At, Uniqueness, SPTypeOK
  <2>4. ASSUME ~reassigned PROVE Unique(workers')
    <3>1. Unique(workers) /\ WorkersOf(workers, q.miner) \subseteq {q.worker}
      BY <1>7, <2>4 DEF Insert, Uniqueness
    <3> HIDE DEF q
    <3> QED BY <2>1, <2>2, <3>1, UniqueEntry
  <2>5. ~reassigned => Unique(saved')
    BY <2>2, <2>4, UniqueSaved DEF Uniqueness
  <2> QED BY <2>2, <2>3, <2>4, <2>5 DEF Uniqueness, Unique, WorkersOf
<1>8. ASSUME NEW w \in WorkerIDs, NEW m \in Miners \cup {NoMiner}, AdminRegister(w, m) PROVE Uniqueness'
  <2>1. workers' = [workers EXCEPT ![w] = m] /\ Saved /\ sp' = sp
    BY <1>8 DEF AdminRegister
  <2>2. ~reassigned' => ~reassigned /\ (m \in Miners => ~Taken(w, m))
    BY <1>8 DEF AdminRegister
  <2>3. ~reassigned' => Unique(workers')
    BY <2>1, <2>2, UniqueEntry DEF Taken, Uniqueness
  <2>4. ~reassigned' => Unique(saved')
    BY <2>1, <2>2, <2>3, UniqueSaved DEF Uniqueness
  <2>5. ASSUME ~reassigned', NEW h \in SPHandlers, At(h, "insert")
        PROVE  WorkersOf(workers', sp[h].req.miner) \subseteq {sp[h].req.worker}
    <3>1. WorkersOf(workers, sp[h].req.miner) \subseteq {sp[h].req.worker}
      BY <2>2, <2>5 DEF Uniqueness
    <3>2. sp[h].req.miner \in Miners
      BY <2>5, AttemptType DEF At
    <3>3. sp[h].req.miner = m => sp[h].req.worker = w
      BY <2>2, <2>5, <3>2 DEF Taken
    <3>4. sp[h].req.worker \in WorkerIDs
      BY <2>5, AttemptType DEF At
    <3> DEFINE n == sp[h].req.miner
               v == sp[h].req.worker
    <3>5. n \in Miners /\ v \in WorkerIDs /\ WorkersOf(workers, n) \subseteq {v} /\ (n = m => v = w)
      BY <3>1, <3>2, <3>3, <3>4
    <3> HIDE DEF n, v
    <3>6. WorkersOf(workers', n) \subseteq {v}
      BY <2>1, <3>5 DEF SPTypeOK, Registry, WorkersOf
    <3> QED BY <3>6 DEF n, v
  <2> QED BY <2>1, <2>3, <2>4, <2>5 DEF Uniqueness, Unique, WorkersOf, At
<1>9. ASSUME NEW w \in WorkerIDs, Deregister(w) PROVE Uniqueness'
  <2>1. workers' = [workers EXCEPT ![w] = Nobody] /\ Saved /\ sp' = sp /\ reassigned' = reassigned
    BY <1>9 DEF Deregister, spHistory
  <2>2. ~reassigned => Unique(workers')
    BY <2>1, UniqueEntry, SPAssumption DEF SPAssumption, Uniqueness
  <2>3. ~reassigned => Unique(saved')
    BY <2>1, <2>2, UniqueSaved DEF Uniqueness
  <2>4. ASSUME ~reassigned, NEW h \in SPHandlers, At(h, "insert")
        PROVE  WorkersOf(workers', sp[h].req.miner) \subseteq {sp[h].req.worker}
    <3>1. WorkersOf(workers, sp[h].req.miner) \subseteq {sp[h].req.worker}
      BY <2>4 DEF Uniqueness
    <3>2. sp[h].req.miner \in Miners /\ sp[h].req.miner # Nobody /\ sp[h].req.worker \in WorkerIDs
      BY <2>4, AttemptType, SPAssumption DEF SPAssumption, At
    <3> DEFINE n == sp[h].req.miner
               v == sp[h].req.worker
    <3>3. n \in Miners /\ n # Nobody /\ v \in WorkerIDs /\ WorkersOf(workers, n) \subseteq {v}
      BY <3>1, <3>2
    <3> HIDE DEF n, v
    <3>4. WorkersOf(workers', n) \subseteq {v}
      BY <2>1, <3>3 DEF SPTypeOK, Registry, WorkersOf
    <3> QED BY <3>4 DEF n, v
  <2> QED BY <2>1, <2>2, <2>3, <2>4 DEF Uniqueness, Unique, WorkersOf, At
<1>10. CASE SPRestart
  <2>1. \A g \in SPHandlers : ~At(g, "insert")'
    BY <1>10 DEF SPRestart, At
  <2> QED BY <1>10, <2>1 DEF SPRestart, spHistory, Uniqueness, Unique, WorkersOf
<1>11. CASE UNCHANGED spVars
  BY <1>11, <1>s DEF spVars, spHistory
<1> QED BY <1>1, <1>2, <1>3, <1>4, <1>5, <1>6, <1>7, <1>8, <1>9, <1>10, <1>11 DEF SPNext
-----------------------------------------------------------------------------
(* Challenges are used once, and witnessed.                                *)

LEMMA CustodyNext == SPInv /\ [SPNext]_spVars => Custody'
<1> SUFFICES ASSUME SPInv, [SPNext]_spVars PROVE Custody'
  OBVIOUS
<1> USE DEF SPInv
<1>s. ASSUME UNCHANGED <<live, minerOf, sp, admitted>> PROVE Custody'
  BY <1>s DEF Custody
<1>1. ASSUME NEW c \in Challenges, NEW m \in Miners, IssueChallenge(c, m) PROVE Custody'
  <2>1. m # Nobody /\ \A h \in SPHandlers : sp[h] # Nobody => sp[h].req.challenge # c
    BY <1>1, AttemptType, SPAssumption DEF SPAssumption, IssueChallenge, Custody
  <2> QED BY <1>1, <2>1, AttemptType DEF IssueChallenge, Custody, SPTypeOK
<1>2. ASSUME NEW c \in Challenges, ChallengeExpires(c) PROVE Custody'
  BY <1>2 DEF ChallengeExpires, Custody, spHistory
<1>3. ASSUME NEW m \in Miners, NEW s \in Signers, ChangeController(m, s) PROVE Custody'
  BY <1>3, <1>s DEF ChangeController
\* An attempt that goes on or ends.
<1>r. ASSUME UNCHANGED <<live, minerOf, admitted>>,
             \A g \in SPHandlers : sp'[g] # Nobody => sp[g] # Nobody /\ sp'[g].req = sp[g].req
      PROVE  Custody'
  BY <1>r DEF Custody
<1>4. ASSUME NEW h \in SPHandlers, NEW q \in Request, Consume(h, q) PROVE Custody'
  <2>1. q.challenge \in live /\ live' = live \ {q.challenge} /\ UNCHANGED <<minerOf, admitted>>
    BY <1>4 DEF Consume, Spent, spHistory
  <2>2. q.challenge \in Challenges
    BY DEF Request
  <2>3. CASE minerOf[q.challenge] # q.miner
    BY <1>4, <2>1, <2>2, <2>3 DEF Consume, Custody
  <2>4. CASE minerOf[q.challenge] = q.miner
    <3>1. \A g \in SPHandlers : sp'[g] = IF g = h THEN [step |-> "verify", req |-> q] ELSE sp[g]
      BY <1>4, <2>4 DEF Consume, SPTypeOK
    <3>2. sp'[h].req = q
      BY <3>1
    <3>3. \A g \in SPHandlers : sp[g] # Nobody => sp[g].req.challenge # q.challenge
      BY <2>1 DEF Custody
    <3> QED BY <2>1, <2>2, <2>4, <3>1, <3>2, <3>3 DEF Custody
  <2> QED BY <2>3, <2>4
<1>5. ASSUME NEW h \in SPHandlers, Verify(h) PROVE Custody'
  <2>1. \A g \in SPHandlers : sp'[g] # Nobody => sp[g] # Nobody /\ sp'[g].req = sp[g].req
    BY <1>5, AttemptType DEF Verify, At, SPTypeOK, Attempt
  <2> QED BY <1>5, <2>1, <1>r DEF Verify, spHistory
<1>6. ASSUME NEW h \in SPHandlers, Check(h) PROVE Custody'
  <2>1. \A g \in SPHandlers : sp'[g] # Nobody => sp[g] # Nobody /\ sp'[g].req = sp[g].req
    BY <1>6, AttemptType DEF Check, At, SPTypeOK, Attempt
  <2> QED BY <1>6, <2>1, <1>r DEF Check, spHistory
<1>7. ASSUME NEW h \in SPHandlers, Insert(h) PROVE Custody'
  <2> DEFINE c == sp[h].req.challenge
  <2>1. c \in Challenges /\ sp[h] # Nobody
    BY <1>7, AttemptType DEF Insert, At
  <2>2. \A d \in Challenges : admitted'[d] = IF d = c THEN admitted[c] + 1 ELSE admitted[d]
    BY <1>7 DEF Insert, SPTypeOK
  <2>3. admitted[c] = 0 /\ c \notin live /\ minerOf[c] # Nobody
    BY <2>1, AttemptType, SPAssumption DEF SPAssumption, Custody
  <2>4. \A g \in SPHandlers : sp'[g] # Nobody => g # h /\ sp'[g] = sp[g] /\ sp[g].req.challenge # c
    BY <1>7, <2>1 DEF Insert, Custody, SPTypeOK
  <2>5. UNCHANGED <<live, minerOf>>
    BY <1>7 DEF Insert
  <2> HIDE DEF c
  <2>6. \A g \in SPHandlers : sp'[g] # Nobody =>
          sp'[g].req.challenge \in Challenges /\ admitted'[sp'[g].req.challenge] = admitted[sp[g].req.challenge]
    BY <2>2, <2>4, AttemptType
  <2> QED BY <2>1, <2>2, <2>3, <2>4, <2>5, <2>6 DEF Custody
<1>8. ASSUME NEW w \in WorkerIDs, NEW m \in Miners \cup {NoMiner}, AdminRegister(w, m) PROVE Custody'
  BY <1>8, <1>s DEF AdminRegister
<1>9. ASSUME NEW w \in WorkerIDs, Deregister(w) PROVE Custody'
  BY <1>9, <1>s DEF Deregister, spHistory
<1>10. CASE SPRestart
  BY <1>10 DEF SPRestart, spHistory, Custody
<1>11. CASE UNCHANGED spVars
  BY <1>11, <1>s DEF spVars, spHistory
<1> QED BY <1>1, <1>2, <1>3, <1>4, <1>5, <1>6, <1>7, <1>8, <1>9, <1>10, <1>11 DEF SPNext

LEMMA WitnessNext == SPInv /\ [SPNext]_spVars => Witness'
<1> SUFFICES ASSUME SPInv, [SPNext]_spVars PROVE Witness'
  OBVIOUS
<1> USE DEF SPInv
<1>s. ASSUME UNCHANGED <<minerOf, sp, controller, witnessed, unproven>> PROVE Witness'
  BY <1>s DEF Witness, At
<1>1. ASSUME NEW c \in Challenges, NEW m \in Miners, IssueChallenge(c, m) PROVE Witness'
  <2>1. \A h \in SPHandlers : sp[h] # Nobody => sp[h].req.challenge # c
    BY <1>1, AttemptType, SPAssumption DEF SPAssumption, IssueChallenge, Custody
  <2> QED BY <1>1, <2>1, AttemptType DEF IssueChallenge, Witness, SPTypeOK, At
<1>2. ASSUME NEW c \in Challenges, ChallengeExpires(c) PROVE Witness'
  BY <1>2, <1>s DEF ChallengeExpires, spHistory
<1>3. ASSUME NEW m \in Miners, NEW s \in Signers, ChangeController(m, s) PROVE Witness'
  <2>1. \A c \in Challenges : witnessed[c] \subseteq witnessed'[c] /\ (minerOf[c] = m => s \in witnessed'[c])
    BY <1>3 DEF ChangeController
  <2>2. \A n \in Miners : controller'[n] = IF n = m THEN s ELSE controller[n]
    BY <1>3 DEF ChangeController, SPTypeOK
  <2>3. \A h \in SPHandlers : sp'[h] = sp[h]
    BY <1>3 DEF ChangeController
  <2>4. minerOf' = minerOf /\ unproven' = unproven
    BY <1>3 DEF ChangeController
  <2>5. \A c \in Challenges : minerOf[c] # Nobody => minerOf[c] \in Miners
    BY DEF SPTypeOK
  <2>6. \A c \in Challenges : minerOf'[c] # Nobody => controller'[minerOf'[c]] \in witnessed'[c]
    BY <2>1, <2>2, <2>4, <2>5 DEF Witness
  <2>7. \A h \in SPHandlers : At(h, "check")' \/ At(h, "insert")' =>
          sp'[h].req.signer \in witnessed'[sp'[h].req.challenge]
    BY <2>1, <2>3, AttemptType DEF Witness, At
  <2> QED BY <2>4, <2>6, <2>7 DEF Witness
<1>4. ASSUME NEW h \in SPHandlers, NEW q \in Request, Consume(h, q) PROVE Witness'
  <2>1. \A g \in SPHandlers : At(g, "check")' \/ At(g, "insert")' => sp'[g] = sp[g]
    BY <1>4 DEF Consume, At, SPTypeOK
  <2> QED BY <1>4, <2>1 DEF Consume, spHistory, Witness, At
<1>5. ASSUME NEW h \in SPHandlers, Verify(h) PROVE Witness'
  <2>1. UNCHANGED <<minerOf, controller, witnessed, unproven>>
    BY <1>5 DEF Verify, spHistory
  <2>2. \A g \in SPHandlers : g # h => sp'[g] = sp[g]
    BY <1>5 DEF Verify, SPTypeOK
  <2>3. sp'[h] = Nobody \/ (sp'[h].req = sp[h].req /\ Controls(sp[h].req))
    BY <1>5, AttemptType DEF Verify, At, SPTypeOK, Attempt
  <2>4. sp[h] # Nobody /\ minerOf[sp[h].req.challenge] = sp[h].req.miner
    BY <1>5 DEF Verify, At, Custody
  <2>5. Controls(sp[h].req) => sp[h].req.signer \in witnessed[sp[h].req.challenge]
    BY <2>4, AttemptType, SPAssumption DEF SPAssumption, Controls, Witness
  <2> QED BY <2>1, <2>2, <2>3, <2>5 DEF Witness, At
<1>6. ASSUME NEW h \in SPHandlers, Check(h) PROVE Witness'
  <2>1. \A g \in SPHandlers : g # h => sp'[g] = sp[g]
    BY <1>6 DEF Check, SPTypeOK
  <2>2. sp'[h] = Nobody \/ sp'[h].req = sp[h].req
    BY <1>6, AttemptType DEF Check, At, SPTypeOK, Attempt
  <2>3. At(h, "check") /\ UNCHANGED <<minerOf, controller, witnessed, unproven>>
    BY <1>6 DEF Check, spHistory
  <2> QED BY <2>1, <2>2, <2>3 DEF Witness, At
<1>7. ASSUME NEW h \in SPHandlers, Insert(h) PROVE Witness'
  <2>1. \A g \in SPHandlers : sp'[g] # Nobody => sp'[g] = sp[g]
    BY <1>7 DEF Insert, SPTypeOK
  <2>2. ~unproven'
    BY <1>7 DEF Insert, Witness
  <2> QED BY <1>7, <2>1, <2>2 DEF Insert, Witness, At
<1>8. ASSUME NEW w \in WorkerIDs, NEW m \in Miners \cup {NoMiner}, AdminRegister(w, m) PROVE Witness'
  BY <1>8, <1>s DEF AdminRegister
<1>9. ASSUME NEW w \in WorkerIDs, Deregister(w) PROVE Witness'
  BY <1>9, <1>s DEF Deregister, spHistory
<1>10. CASE SPRestart
  BY <1>10 DEF SPRestart, spHistory, Witness, At
<1>11. CASE UNCHANGED spVars
  BY <1>11, <1>s DEF spVars, spHistory
<1> QED BY <1>1, <1>2, <1>3, <1>4, <1>5, <1>6, <1>7, <1>8, <1>9, <1>10, <1>11 DEF SPNext

-----------------------------------------------------------------------------
LEMMA Invariance == SPSpec => []SPInv
<1>1. SPInv /\ [SPNext]_spVars => SPInv'
  BY SPTypeNext, UniquenessNext, CustodyNext, WitnessNext DEF SPInv
<1> QED BY SPInitInv, <1>1, PTL DEF SPSpec

(***************************************************************************)
(* Type correctness of registrations, challenges and the registry.         *)
(***************************************************************************)
THEOREM SPTypeCorrect == SPSpec => []SPTypeOK
<1>1. SPInv => SPTypeOK
  BY DEF SPInv
<1> QED BY Invariance, <1>1, PTL

(***************************************************************************)
(* Concurrent self-registrations never give a miner two workers, however   *)
(* many run at once and wherever the process restarts, unless an operator  *)
(* gives the miner away.                                                   *)
(***************************************************************************)
THEOREM MinersAreUnique == SPSpec => []OneWorkerPerMiner
<1>1. SPInv => OneWorkerPerMiner
  BY DEF SPInv, Uniqueness, Unique, OneWorkerPerMiner
<1> QED BY Invariance, <1>1, PTL

(***************************************************************************)
(* A challenge leads to one entry at most, and the signer of every entry   *)
(* controlled its miner after the challenge was issued.                    *)
(***************************************************************************)
THEOREM RegistrationsAreProven == SPSpec => []AdmissionsProven
<1>1. SPInv => AdmissionsProven
  BY DEF SPInv, Custody, Witness, AdmissionsProven
<1> QED BY Invariance, <1>1, PTL
=============================================================================
