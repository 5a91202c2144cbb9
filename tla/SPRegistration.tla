--------------------------- MODULE SPRegistration ---------------------------
(***************************************************************************)
(* Self-registration of storage providers (gateway/spregister.go) into the *)
(* worker registry (worker/registry.go).  A miner asks for a challenge and *)
(* signs it together with the worker it registers.  The handler consumes   *)
(* the challenge under reg.mu, reads the chain without it, and takes it    *)
(* again to check uniqueness and to insert.  Operators register and        *)
(* deregister workers without reg.mu (admin/api.go), so that they can come *)
(* between the check and the insert.                                       *)
(*                                                                         *)
(* Signatures are ideal: a request carries who signed it.  The field       *)
(* checks, the power and balance floors and every chain error have the     *)
(* same outcome, a refused attempt whose challenge is spent.               *)
(***************************************************************************)
EXTENDS Naturals, FiniteSets

CONSTANTS
  Challenges,    \* random challenges
  Miners,        \* miner IDs
  Signers,       \* key addresses
  WorkerIDs,
  Nobody,        \* no entry, no attempt
  NoMiner,       \* the miner of an operator's own worker
  MaxSPs,        \* MaxRegisteredSPs
  SPHandlers,      \* registrations served at the same time
  MaxSPEvents      \* bound: what clients, operators, the chain and restarts do

ASSUME SPAssumption ==
  /\ MaxSPs \in Nat /\ MaxSPEvents \in Nat
  /\ Nobody \notin Miners \cup WorkerIDs \cup {NoMiner} /\ NoMiner \notin Miners

VARIABLES
  live,        \* challenges that are stored and not expired
  minerOf,     \* the miner each challenge was issued for
  sp,          \* the registrations in progress
  controller,  \* the chain: who controls each miner
  workers,     \* the registry: the miner of each worker
  saved,       \* workers.json
  admitted,    \* history: how often a challenge led to an entry
  witnessed,   \* history: who controlled the miner since the challenge
  unproven,    \* history: an entry was made for somebody else
  reassigned,  \* history: an operator gave a miner to another worker
  spEvents

spHistory == <<admitted, witnessed, unproven, reassigned>>
spVars == <<live, minerOf, sp, controller, workers, saved, spHistory, spEvents>>

Request == [challenge: Challenges, miner: Miners, worker: WorkerIDs, signer: Signers]
Attempt == [step: {"verify", "check", "insert"}, req: Request]
Registry == [WorkerIDs -> Miners \cup {NoMiner, Nobody}]

SPTypeOK ==
  /\ live \subseteq Challenges
  /\ minerOf \in [Challenges -> Miners \cup {Nobody}]
  /\ sp \in [SPHandlers -> {Nobody} \cup Attempt]
  /\ controller \in [Miners -> Signers]
  /\ workers \in Registry /\ saved \in Registry
  /\ admitted \in [Challenges -> Nat]
  /\ witnessed \in [Challenges -> SUBSET Signers]
  /\ unproven \in BOOLEAN /\ reassigned \in BOOLEAN
  /\ spEvents \in 0 .. MaxSPEvents

SPInit ==
  /\ live = {} /\ minerOf = [c \in Challenges |-> Nobody]
  /\ sp = [h \in SPHandlers |-> Nobody]
  /\ controller \in [Miners -> Signers]
  /\ workers = [w \in WorkerIDs |-> Nobody] /\ saved = workers
  /\ admitted = [c \in Challenges |-> 0]
  /\ witnessed = [c \in Challenges |-> {}]
  /\ unproven = FALSE /\ reassigned = FALSE /\ spEvents = 0

SPEvent == spEvents < MaxSPEvents /\ spEvents' = spEvents + 1

\* The workers registered for miner m.
WorkersOf(reg, m) == {w \in WorkerIDs : reg[w] = m}

\* saveToDiskLocked: a failed save is only logged.
Saved == saved' = workers' \/ UNCHANGED saved

-----------------------------------------------------------------------------
(***************************************************************************)
(* handleSPChallenge, and what clients and the chain do.                   *)
(***************************************************************************)
IssueChallenge(c, m) ==
  /\ SPEvent
  /\ minerOf[c] = Nobody
  /\ live' = live \cup {c}
  /\ minerOf' = [minerOf EXCEPT ![c] = m]
  /\ witnessed' = [witnessed EXCEPT ![c] = {controller[m]}]
  /\ UNCHANGED <<sp, controller, workers, saved, admitted, unproven, reassigned>>

\* ChallengeTTL passes; pruneChallengesLocked only frees the memory.
ChallengeExpires(c) ==
  /\ SPEvent
  /\ c \in live /\ live' = live \ {c}
  /\ UNCHANGED <<minerOf, sp, controller, workers, saved, spHistory>>

\* The miner changes hands on the chain.
ChangeController(m, s) ==
  /\ SPEvent
  /\ s # controller[m]
  /\ controller' = [controller EXCEPT ![m] = s]
  /\ witnessed' = [c \in Challenges |->
                     IF minerOf[c] = m THEN witnessed[c] \cup {s} ELSE witnessed[c]]
  /\ UNCHANGED <<live, minerOf, sp, workers, saved, admitted, unproven, reassigned>>

-----------------------------------------------------------------------------
(***************************************************************************)
(* handleSPRegister.                                                       *)
(***************************************************************************)
\* The challenge is consumed by the first attempt that names it, whatever
\* becomes of that attempt.
SpentLater(c) == live
Spent(c) == live \ {c}

\* A registration arrives, perhaps not for the first time.
Consume(h, q) ==
  /\ SPEvent
  /\ sp[h] = Nobody /\ q.challenge \in live
  /\ live' = Spent(q.challenge)
  /\ sp' = IF minerOf[q.challenge] = q.miner
           THEN [sp EXCEPT ![h] = [step |-> "verify", req |-> q]] ELSE sp
  /\ UNCHANGED <<minerOf, controller, workers, saved, spHistory>>

\* signerControlsMiner, without the lock.
Controls(q) == controller[q.miner] = q.signer

At(h, step) == sp[h] # Nobody /\ sp[h].step = step

\* The signature, the signer's control of the miner and the floors.
Verify(h) ==
  /\ At(h, "verify")
  /\ \/ Controls(sp[h].req) /\ sp' = [sp EXCEPT ![h].step = "check"]
     \/ sp' = [sp EXCEPT ![h] = Nobody]
  /\ UNCHANGED <<live, minerOf, controller, workers, saved, spHistory, spEvents>>

\* The checks under reg.mu.  FindByMiner finds any worker of the miner.
FreeWorkerID(q, found) == workers[q.worker] \in {Nobody, q.miner}
Free(q, found) ==
  /\ found \in {Nobody, q.worker}
  /\ workers[q.worker] \in {Nobody, q.miner}
  /\ \/ found = q.worker \/ workers[q.worker] # Nobody
     \/ Cardinality({w \in WorkerIDs : workers[w] # Nobody}) < MaxSPs

FindByMiner(m) == IF WorkersOf(workers, m) = {} THEN {Nobody} ELSE WorkersOf(workers, m)

\* h takes reg.mu and checks uniqueness; it keeps reg.mu for the insert.
Check(h) ==
  /\ At(h, "check") /\ \A g \in SPHandlers : ~At(g, "insert")
  /\ \E found \in FindByMiner(sp[h].req.miner) :
       sp' = [sp EXCEPT ![h] = IF Free(@.req, found) THEN [@ EXCEPT !.step = "insert"] ELSE Nobody]
  /\ UNCHANGED <<live, minerOf, controller, workers, saved, spHistory, spEvents>>

\* registry.Register: whatever is there under this ID by now.
Insert(h) ==
  /\ At(h, "insert")
  /\ LET q == sp[h].req IN
     /\ workers' = [workers EXCEPT ![q.worker] = q.miner]
     /\ Saved
     /\ admitted' = [admitted EXCEPT ![q.challenge] = @ + 1]
     /\ unproven' = (unproven \/ q.signer \notin witnessed[q.challenge])
  /\ sp' = [sp EXCEPT ![h] = Nobody]
  /\ UNCHANGED <<live, minerOf, controller, witnessed, reassigned, spEvents>>

-----------------------------------------------------------------------------
(***************************************************************************)
(* Operators, who take no part in reg.mu, and restarts.                    *)
(***************************************************************************)
\* Another worker has the miner, or is about to get it.
Taken(w, m) ==
  \/ WorkersOf(workers, m) \ {w} # {}
  \/ \E h \in SPHandlers : At(h, "insert") /\ sp[h].req.miner = m /\ sp[h].req.worker # w

\* Register by the admin API: the entry names what the operator says, and
\* nothing checks that the miner has no other worker.
AdminRegister(w, m) ==
  /\ SPEvent
  /\ workers' = [workers EXCEPT ![w] = m]
  /\ Saved
  /\ reassigned' = (reassigned \/ (m \in Miners /\ Taken(w, m)))
  /\ UNCHANGED <<live, minerOf, sp, controller, admitted, witnessed, unproven>>

Deregister(w) ==
  /\ SPEvent
  /\ workers[w] # Nobody
  /\ workers' = [workers EXCEPT ![w] = Nobody]
  /\ Saved
  /\ UNCHANGED <<live, minerOf, sp, controller, spHistory>>

\* The process ends anywhere: challenges and attempts are forgotten, and
\* the registry is what was saved last.
SPRestart ==
  /\ SPEvent
  /\ live' = {}
  /\ sp' = [h \in SPHandlers |-> Nobody]
  /\ workers' = saved
  /\ UNCHANGED <<minerOf, controller, saved, spHistory>>

SPNext ==
  \/ \E c \in Challenges : (\E m \in Miners : IssueChallenge(c, m)) \/ ChallengeExpires(c)
  \/ \E m \in Miners, s \in Signers : ChangeController(m, s)
  \/ \E h \in SPHandlers : (\E q \in Request : Consume(h, q)) \/ Verify(h) \/ Check(h) \/ Insert(h)
  \/ \E w \in WorkerIDs : (\E m \in Miners \cup {NoMiner} : AdminRegister(w, m)) \/ Deregister(w)
  \/ SPRestart

SPSpec == SPInit /\ [][SPNext]_spVars

-----------------------------------------------------------------------------
(***************************************************************************)
(* One worker per miner: concurrent registrations of one miner never give  *)
(* it two workers, in the registry or after a restart.  The exception is   *)
(* an operator who gives a miner to another worker, perhaps between the    *)
(* check of a registration and its insert.                                 *)
(***************************************************************************)
OneWorkerPerMiner ==
  ~reassigned => \A m \in Miners : \A v, w \in WorkersOf(workers, m) : v = w

(***************************************************************************)
(* Every registration is proven afresh: a challenge leads to one entry at  *)
(* most, however often its request is delivered, and whoever signed it     *)
(* controlled the miner at some moment after the challenge was issued.     *)
(***************************************************************************)
AdmissionsProven ==
  /\ \A c \in Challenges : admitted[c] <= 1
  /\ ~unproven
=============================================================================
