------------------------------- MODULE ApiKeys -------------------------------
(***************************************************************************)
(* Self-service API keys (gateway/registration.go, gateway/keys.go): a     *)
(* wallet signs a dated message, and the gateway mints, lists or deletes   *)
(* one of its keys.  A handler checks the date and the signature first and *)
(* takes regMu afterwards, with the time it read before.  Keys live in a   *)
(* file that every change rewrites and in the table that authenticates     *)
(* requests, which a restart rebuilds from the file.                       *)
(*                                                                         *)
(* Signatures are remembered by their text, and a message has more than    *)
(* one: verifyEthSignature takes the last byte as 0 or 1 and as 27 or 28.  *)
(* A signed request is its message with one of the texts that verify for   *)
(* it.  Names, the masked form of a key and the wording of messages are    *)
(* left out; a key is its ID.  The operator's own keys only matter through *)
(* their wallets.                                                          *)
(***************************************************************************)
EXTENDS Naturals, FiniteSets, TLC

CONSTANTS
  Wallets,        \* wallets that manage keys
  StaticWallets,  \* those with a key in the configuration
  KeyIDs,         \* IDs that generateKeyID may draw
  Texts,          \* forms of a signature that verify
  None,           \* no key, no handler
  MaxKeys,        \* maxKeysPerWallet
  Window,         \* registrationWindow
  Ahead,          \* how far the clock of a client may be ahead
  MaxTime,        \* bound on the clock
  Handlers,       \* requests served at the same time
  MaxEvents       \* bound: requests, restarts and failures of the disk

ASSUME KeysAssumption ==
  /\ StaticWallets \subseteq Wallets /\ None \notin KeyIDs
  /\ MaxKeys \in Nat \ {0}
  /\ {Window, Ahead, MaxTime, MaxEvents} \subseteq Nat

VARIABLES
  now,       \* the gateway's clock
  handler,   \* the requests that wait for regMu or hold it
  seen,      \* seenSigs: signature text -> expiry
  table,     \* apiKeys: the self-registered keys that authenticate
  file,      \* registrations.json
  handed,    \* history: keys given to their wallet and not deleted since
  revoked,   \* history: keys whose deletion was confirmed
  acted,     \* history: signed request -> the time its first action went by
  replays,   \* history: those acted on again by the same process
  misread,   \* history: a read of the file failed and counted as "no keys"
  events

history == <<handed, revoked, acted, replays, misread>>
vars == <<now, handler, seen, table, file, history, events>>

Key == [id: KeyIDs, wallet: Wallets]
Message == [action: {"register", "create", "list"}, wallet: Wallets,
            key: {None}, at: 0 .. MaxTime, text: Texts]
  \cup [action: {"delete"}, wallet: Wallets, key: KeyIDs, at: 0 .. MaxTime, text: Texts]
Handler == [step: {"wait"}, msg: Message, now: 0 .. MaxTime]
  \cup [step: {"install", "drop"}, msg: Message, now: 0 .. MaxTime, key: Key]

ASSUME NoneAssumption == None \notin Handler

(***************************************************************************)
(* The type invariant.                                                     *)
(***************************************************************************)
TypeOK ==
  /\ now \in 0 .. MaxTime
  /\ handler \in [Handlers -> {None} \cup Handler]
  /\ DOMAIN seen \cup DOMAIN acted \subseteq Message
  /\ \A m \in DOMAIN seen : seen[m] \in Nat
  /\ \A m \in DOMAIN acted : acted[m] \in 0 .. MaxTime
  /\ \A r \in replays : r.msg \in Message /\ {r.first, r.at} \subseteq 0 .. MaxTime
  /\ table \cup file \cup handed \cup revoked \subseteq Key
  /\ misread \in BOOLEAN /\ events \in 0 .. MaxEvents

Init ==
  /\ now = 0
  /\ handler = [h \in Handlers |-> None]
  /\ seen = <<>> /\ acted = <<>> /\ replays = {}
  /\ table = {} /\ file = {}
  /\ handed = {} /\ revoked = {} /\ misread = FALSE /\ events = 0

Event == events < MaxEvents /\ events' = events + 1

-----------------------------------------------------------------------------
(***************************************************************************)
(* Before the lock.                                                        *)
(***************************************************************************)
\* The keys there are or were: an ID is never drawn again, and nobody asks
\* for the deletion of one that was never listed.
Known == table \cup file \cup handed \cup revoked

Skew(s, t) == IF s < t THEN t - s ELSE s - t

\* handleRegister and handleKeys up to regMu: the date and the signature.
\* A message is dated by handleKeysMessage or by the clock of its client.
\* It may be delivered late, and again, signed in the same text or another,
\* and be served twice at once.
Receive(h, m) ==
  /\ Event
  /\ handler[h] = None /\ m.at <= now + Ahead
  /\ m.key \in {None} \cup {k.id : k \in Known}
  /\ Skew(now, m.at) <= Window
  /\ handler' = [handler EXCEPT ![h] = [step |-> "wait", msg |-> m, now |-> now]]
  /\ UNCHANGED <<now, seen, table, file, history>>

Tick ==
  /\ now < MaxTime /\ now' = now + 1
  /\ UNCHANGED <<handler, seen, table, file, history, events>>

-----------------------------------------------------------------------------
(***************************************************************************)
(* Under regMu.                                                            *)
(***************************************************************************)
OwnedBy(w, keys) == {k \in keys : k.wallet = w}

\* pruneSeenSigsLocked, with the time the handler read before the lock.
UnexpiredEarly(t) == [m \in {x \in DOMAIN seen : t < seen[x]} |-> seen[m]]
Unexpired(t) == [m \in {x \in DOMAIN seen : t <= seen[x]} |-> seen[m]]

Marked(s, m, t) == [x \in DOMAIN s \cup {m} |-> IF x = m THEN t + Window ELSE s[x]]

\* walletAlreadyRegistered reads the table; the key limit reads the file.
HasConfiguredKey(w) == w \in StaticWallets
HasKey(w) == w \in StaticWallets \/ OwnedBy(w, table) # {}

\* h takes regMu for a request of this kind.
Locks(h, action) ==
  /\ handler[h] # None /\ handler[h].step = "wait"
  /\ handler[h].msg.action = action
  /\ \A g \in Handlers : handler[g] # None => handler[g].step = "wait"

Msg(h) == handler[h].msg
New(h) == Msg(h) \notin DOMAIN Unexpired(handler[h].now)
Done(h) == handler' = [handler EXCEPT ![h] = None]

\* loadRegistrationsFile: an error counts as an empty file.  What the disk
\* does wrong, in a read or in the write, is an event.
Loads == {file, {}}
DiskIO(gots, ok) ==
  /\ misread' = (misread \/ \E got \in gots : got # file)
  /\ IF ok /\ gots = {file} THEN UNCHANGED events ELSE Event

\* The first action of a message is dated, another is a replay.
Acts(m, t) ==
  IF m \in DOMAIN acted
  THEN /\ replays' = replays \cup {[msg |-> m, first |-> acted[m], at |-> now]}
       /\ UNCHANGED acted
  ELSE /\ acted' = [x \in DOMAIN acted \cup {m} |-> IF x = m THEN t ELSE acted[x]]
       /\ UNCHANGED replays

\* writeRegistrationsFile, by a rename: the old file or the new one.  The
\* handler goes on to the table, unless the write fails.
Write(h, k, new, step, ok) ==
  IF ok
  THEN /\ file' = new
       /\ handler' = [handler EXCEPT ![h] = [step |-> step, msg |-> @.msg, now |-> @.now, key |-> k]]
       /\ Acts(Msg(h), handler[h].now)
  ELSE Done(h) /\ UNCHANGED <<file, acted, replays>>

\* A signature text that was already used: nothing but the pruning.
Refuse(h, action) ==
  /\ Locks(h, action) /\ ~New(h)
  /\ seen' = Unexpired(handler[h].now)
  /\ Done(h)
  /\ UNCHANGED <<now, table, file, history, events>>

\* handleRegister: one wallet, one key; the signature is kept on success.
Register(h) ==
  /\ Locks(h, "register") /\ New(h)
  /\ seen' = Unexpired(handler[h].now)
  /\ \/ /\ HasKey(Msg(h).wallet)
        /\ Done(h) /\ UNCHANGED <<file, acted, replays, misread, events>>
     \/ /\ ~HasKey(Msg(h).wallet)
        /\ \E kept \in Loads, id \in KeyIDs, ok \in BOOLEAN :
             LET k == [id |-> id, wallet |-> Msg(h).wallet] IN
             /\ \A x \in Known : x.id # id
             /\ DiskIO({kept}, ok)
             /\ Write(h, k, kept \cup {k}, "install", ok)
  /\ UNCHANGED <<now, table, handed, revoked>>

\* handleKeys, action create: the signature is kept before anything else.
\* The file is read twice, to count the wallet's keys and to append to it.
Create(h) ==
  /\ Locks(h, "create") /\ New(h)
  /\ seen' = Marked(Unexpired(handler[h].now), Msg(h), handler[h].now)
  /\ \E counted \in Loads, kept \in Loads, id \in KeyIDs, ok \in BOOLEAN :
       LET k == [id |-> id, wallet |-> Msg(h).wallet] IN
       /\ \A x \in Known : x.id # id
       /\ IF Cardinality(OwnedBy(Msg(h).wallet, counted)) >= MaxKeys
          THEN DiskIO({counted}, TRUE) /\ Done(h) /\ UNCHANGED <<file, acted, replays>>
          ELSE DiskIO({counted, kept}, ok) /\ Write(h, k, kept \cup {k}, "install", ok)
  /\ UNCHANGED <<now, table, handed, revoked>>

\* Action list: the signature is used up, nothing else changes.
List(h) ==
  /\ Locks(h, "list") /\ New(h)
  /\ seen' = Marked(Unexpired(handler[h].now), Msg(h), handler[h].now)
  /\ Done(h)
  /\ UNCHANGED <<now, table, file, history, events>>

\* Action delete: the wallet's own key, from the file first.
Delete(h) ==
  /\ Locks(h, "delete") /\ New(h)
  /\ seen' = Marked(Unexpired(handler[h].now), Msg(h), handler[h].now)
  /\ \E got \in Loads, ok \in BOOLEAN :
       LET k == [id |-> Msg(h).key, wallet |-> Msg(h).wallet] IN
       /\ DiskIO({got}, ok \/ k \notin got)
       /\ IF k \in got
          THEN /\ Write(h, k, got \ {k}, "drop", ok)
               /\ handed' = IF ok THEN handed \ {k} ELSE handed
          ELSE Done(h) /\ UNCHANGED <<file, handed, acted, replays>>
  /\ UNCHANGED <<now, table, revoked>>

\* The end of createKeyLocked: the key authenticates and is answered.
Install(h) ==
  /\ handler[h] # None /\ handler[h].step = "install"
  /\ table' = table \cup {handler[h].key}
  /\ handed' = handed \cup {handler[h].key}
  /\ seen' = IF Msg(h).action = "register" THEN Marked(seen, Msg(h), handler[h].now) ELSE seen
  /\ Done(h)
  /\ UNCHANGED <<now, file, revoked, acted, replays, misread, events>>

\* The end of keysDeleteLocked: the next lookup misses.
DropFromFileOnly(h) ==
  /\ handler[h] # None /\ handler[h].step = "drop"
  /\ revoked' = revoked \cup {handler[h].key}
  /\ Done(h)
  /\ UNCHANGED <<now, seen, table, file, handed, acted, replays, misread, events>>
Drop(h) ==
  /\ handler[h] # None /\ handler[h].step = "drop"
  /\ table' = table \ {handler[h].key}
  /\ revoked' = revoked \cup {handler[h].key}
  /\ Done(h)
  /\ UNCHANGED <<now, seen, file, handed, acted, replays, misread, events>>

\* The process ends anywhere and starts again: the table from the file, and
\* no memory of signatures.
Restart ==
  /\ Event
  /\ handler' = [h \in Handlers |-> None]
  /\ seen' = <<>> /\ acted' = <<>>
  /\ table' \in Loads
  /\ misread' = (misread \/ table' # file)
  /\ UNCHANGED <<now, file, handed, revoked, replays>>

Next ==
  \/ Tick
  \/ \E h \in Handlers :
       \/ \E m \in Message : Receive(h, m)
       \/ \E a \in {"register", "create", "list", "delete"} : Refuse(h, a)
       \/ Register(h) \/ Create(h) \/ List(h) \/ Delete(h)
       \/ Install(h) \/ Drop(h)
  \/ Restart

Spec == Init /\ [][Next]_vars

\* IDs, handlers and texts are interchangeable: nothing orders them.
Interchangeable == Permutations(KeyIDs) \cup Permutations(Handlers) \cup Permutations(Texts)

-----------------------------------------------------------------------------
(***************************************************************************)
(* A key that was handed out authenticates and is in the file until its    *)
(* wallet deletes it, whatever write fails and wherever the process ends   *)
(* between the file and the table; a key whose deletion was confirmed      *)
(* never authenticates again, over restarts too.  A failed read of the     *)
(* file is the exception: it counts as "no keys yet", and the next write   *)
(* drops the rest.  Even then nothing revoked comes back.                  *)
(***************************************************************************)
KeysDurable ==
  /\ ~misread => handed \subseteq file \cap table
  /\ revoked \cap (file \cup table) = {}

(***************************************************************************)
(* Without a failed read, no wallet has more keys than the limit: the      *)
(* limit counts the file, registration looks into the table, and the two   *)
(* may differ for as long as a handler is between them.                    *)
(***************************************************************************)
KeyLimit ==
  ~misread => \A w \in Wallets : Cardinality(OwnedBy(w, file)) <= MaxKeys

(***************************************************************************)
(* One-time signatures: however often a signature text is delivered, one   *)
(* process acts on it once while its message is fresh.  Two cases remain:  *)
(* a message first received before its own date, whose entry expires too   *)
(* early, and a handler that passed the freshness check and waited for     *)
(* regMu until its message was stale and its entry pruned.  The message    *)
(* itself is not one-time: its signature has other texts that verify.      *)
(***************************************************************************)
ActedOnOnce ==
  \A r \in replays : r.first < r.msg.at \/ r.at > r.msg.at + Window
=============================================================================
