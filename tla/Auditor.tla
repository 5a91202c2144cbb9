------------------------------- MODULE Auditor -------------------------------
(***************************************************************************)
(* The probe auditor (internal/gateway/probe.go): it asks self-registered  *)
(* workers generated questions, pools the scores of the last runs, admits  *)
(* the models that reach their floor, takes them back and bans on a full   *)
(* window of evidence that a fresh run confirms.  One goroutine, Run, does *)
(* this; a run takes minutes, and meanwhile operators (admin/api.go), the  *)
(* workers themselves (workerself.go) and the poller change the registry   *)
(* (worker/registry.go), whose file a restart reads back.                  *)
(*                                                                         *)
(* A run is one score out of Questions.  What a worker scores depends on   *)
(* whether it is able, at the end of the run, to serve what it claims.     *)
(***************************************************************************)
EXTENDS Naturals, Sequences, SequencesExt, FiniteSetsExt

CONSTANTS
  Workers,     \* self-registered workers
  ClaimsOf,    \* SupportedModels of each worker, in their order
  None,        \* no entry
  Questions,   \* NumQuestions
  FloorNum, FloorDen,   \* floorFor, as a fraction
  Window,      \* evidenceWindow
  FailsToBan,  \* consecutive failed verdicts before a ban (3 in the code)
  MaxEvents    \* bound: what operators, workers, the network and disks do

ASSUME AuditorAssumption ==
  /\ Window \in Nat \ {0} /\ FailsToBan \in Nat \ {0} /\ MaxEvents \in Nat
  /\ Questions \in Nat \ {0} /\ FloorNum \in Nat /\ FloorDen \in Nat \ {0}

VARIABLES
  reg,       \* entry of each worker: verified models, ban, age of the proof
  disk,      \* workers.json
  diskOK,    \* whether it can be written
  servable,  \* workers that are idle or busy
  able,      \* workers that really serve what they claim
  evidence,  \* runs pooled for each worker and model
  fails,     \* admFails, saturated at FailsToBan
  audit,     \* what the auditor is doing
  proven,    \* history: pairs at the floor and not taken back since
  interfered,\* history: an operator removed or banned a worker, or a save failed
  events

vars == <<reg, disk, diskOK, servable, able, evidence, fails, audit,
          proven, interfered, events>>

registry == <<reg, disk, diskOK>>
fleet    == <<servable, able>>
books    == <<evidence, fails>>
history  == <<proven, interfered>>

Models == UNION {ToSet(ClaimsOf[w]) : w \in Workers}
Keys == {k \in Workers \X Models : k[2] \in ToSet(ClaimsOf[k[1]])}

\* A ban lasts longer than the interval of the auditor: it is "new" until
\* the auditor's next tick and can lift after that.
Entry == [verified: SUBSET Models, ban: {"none", "new", "old"}, fresh: BOOLEAN]

ASSUME NoneAssumption == None \notin Entry

Idle == [step |-> "idle"]
Audit == {Idle}
  \cup [step: {"verify", "spot"}, w: Workers, m: Models]
  \cup [step: {"judge"}, w: Workers, m: Models, pass: BOOLEAN, full: BOOLEAN]
  \cup [step: {"confirm", "ban", "setban"}, w: Workers, m: Models, kind: {"verify", "spot"},
        set: SUBSET Models]
  \cup [step: {"store"}, w: Workers, m: Models, set: SUBSET Models]

(***************************************************************************)
(* The type invariant.                                                     *)
(***************************************************************************)
TypeOK ==
  /\ {reg, disk} \subseteq [Workers -> Entry \cup {None}] /\ diskOK \in BOOLEAN
  /\ servable \subseteq Workers /\ able \subseteq Workers
  /\ evidence \in [Keys -> BoundedSeq(0 .. Questions, Window)]
  /\ fails \in [Keys -> 0 .. FailsToBan]
  /\ audit \in Audit
  /\ proven \subseteq Keys /\ interfered \in BOOLEAN
  /\ events \in 0 .. MaxEvents

Registered == {w \in Workers : reg[w] # None}
Banned(w) == reg[w].ban # "none"

\* Register, of an ID the registry does not know.
NewEntry == [verified |-> {}, ban |-> "none", fresh |-> FALSE]

Init ==
  /\ reg = [w \in Workers |-> NewEntry] /\ disk = reg /\ diskOK = TRUE
  /\ servable = {} /\ able \in SUBSET Workers
  /\ evidence = [k \in Keys |-> <<>>] /\ fails = [k \in Keys |-> 0]
  /\ audit = Idle
  /\ proven = {} /\ interfered = FALSE /\ events = 0

Event == events < MaxEvents /\ events' = events + 1

\* A change of the registry, and saveToDiskLocked: the file follows unless
\* it cannot be written, which is only logged.
Save(new) ==
  /\ reg' = new
  /\ disk' = IF diskOK THEN new ELSE disk
  /\ UNCHANGED diskOK

-----------------------------------------------------------------------------
(***************************************************************************)
(* What happens around the auditor.                                        *)
(***************************************************************************)
\* Register: a routine re-registration leaves proofs and ban alone.
Register(w) ==
  /\ Event
  /\ Save([reg EXCEPT ![w] = IF @ = None THEN NewEntry ELSE @])
  /\ UNCHANGED <<fleet, books, audit, history>>

\* Deregister: the auditor's books on this ID stay.
Deregister(w) ==
  /\ Event
  /\ w \in Registered
  /\ Save([reg EXCEPT ![w] = None])
  /\ servable' = servable \ {w}
  /\ interfered' = TRUE
  /\ UNCHANGED <<able, books, audit, proven>>

\* handleWorkerBan of the admin API.
OperatorBan(w, on) ==
  /\ Event
  /\ w \in Registered
  /\ Save([reg EXCEPT ![w].ban = IF on THEN "new" ELSE "none"])
  /\ interfered' = (interfered \/ on)
  /\ UNCHANGED <<fleet, books, audit, proven>>

\* handleWorkerReverify: the worker asks to start over.
Reverify(w, m) ==
  /\ Event
  /\ w \in Registered /\ ~Banned(w) /\ <<w, m>> \in Keys
  /\ evidence' = [evidence EXCEPT ![<<w, m>>] = <<>>]
  /\ fails' = [fails EXCEPT ![<<w, m>>] = 0]
  /\ UNCHANGED <<registry, fleet, audit, history>>

\* The gateway restarts: loadFromDisk, and an auditor that knows nothing.
Restart ==
  /\ Event
  /\ reg' = disk
  /\ servable' = {}
  /\ evidence' = [k \in Keys |-> <<>>] /\ fails' = [k \in Keys |-> 0]
  /\ audit' = Idle
  /\ UNCHANGED <<disk, diskOK, able, history>>

\* The disk fills up, or has room again; a save that fails is only logged.
DiskFills ==
  /\ Event
  /\ diskOK' = ~diskOK
  /\ interfered' = TRUE
  /\ UNCHANGED <<reg, disk, fleet, books, audit, proven>>

\* A worker loses or regains the model it claims (wrong weights).
Lapse(w) ==
  /\ Event
  /\ able' = IF w \in able THEN able \ {w} ELSE able \cup {w}
  /\ UNCHANGED <<registry, servable, books, audit, history>>

\* The poller finds a worker servable, or not.
PolledServable(w) ==
  /\ w \in Registered \ servable
  /\ servable' = servable \cup {w}
  /\ UNCHANGED <<registry, able, books, audit, history, events>>

PolledMining(w) ==
  /\ Event
  /\ w \in servable
  /\ servable' = servable \ {w}
  /\ UNCHANGED <<registry, able, books, audit, history>>

\* Time: bans end, proofs pass VerifyTTL.
BanEnds(w) ==
  /\ w \in Registered /\ reg[w].ban = "old"
  /\ reg' = [reg EXCEPT ![w].ban = "none"]
  /\ disk' = [disk EXCEPT ![w] = IF @ = None THEN None ELSE [@ EXCEPT !.ban = "none"]]
  /\ UNCHANGED <<diskOK, fleet, books, audit, history, events>>

ProofExpires(w) ==
  /\ w \in Registered /\ reg[w].fresh
  /\ reg' = [reg EXCEPT ![w].fresh = FALSE]
  /\ disk' = [disk EXCEPT ![w] = IF @ = None THEN None ELSE [@ EXCEPT !.fresh = FALSE]]
  /\ UNCHANGED <<diskOK, fleet, books, audit, history, events>>

-----------------------------------------------------------------------------
(***************************************************************************)
(* The choice of a tick.                                                   *)
(***************************************************************************)
\* Self-registered workers that are servable and not banned.
Eligible == {w \in Registered \cap servable : ~Banned(w)}

WorkerVerifiedFor(w, m) == m \in reg[w].verified

\* nextUnverified: of each worker the first claim without a proof.
NextUnverified ==
  {k \in Keys :
     LET w == k[1]  claims == ClaimsOf[w] IN
     /\ w \in Eligible /\ ~WorkerVerifiedFor(w, k[2])
     /\ \E i \in DOMAIN claims :
          claims[i] = k[2] /\ \A j \in 1 .. i - 1 : WorkerVerifiedFor(w, claims[j])}

\* nextExpired: the loaded model if it is proven, otherwise the first of the
\* list, whose order is that of a Go map.  Every poll overwrites LoadedModel
\* and requests of users make workers switch: any proven model may be next.
NextExpired ==
  {k \in Keys : k[1] \in Eligible /\ ~reg[k[1]].fresh /\ WorkerVerifiedFor(k[1], k[2])}

\* candidates of a spot check: those whose cooldown (SpotMinInterval) is over,
\* with the model they have loaded.
Candidates(due) == {k \in Keys : k[1] \in Eligible \cap due}

\* Mutant: a tick never re-confirms an old proof.
ChosenNeverExpired(due) ==
  IF NextUnverified # {} THEN [step: {"verify"}, key: NextUnverified]
  ELSE [step: {"spot"}, key: Candidates(due)]

\* List ranges over a map: any worker may come first.
Chosen(due) ==
  IF NextUnverified # {} THEN [step: {"verify"}, key: NextUnverified]
  ELSE IF NextExpired # {} THEN [step: {"verify"}, key: NextExpired]
  ELSE [step: {"spot"}, key: Candidates(due)]

\* A tick of Run.  With nothing to do it only lets time pass for the bans.
Aged(r) == [w \in Workers |-> IF r[w] # None /\ r[w].ban = "new" THEN [r[w] EXCEPT !.ban = "old"] ELSE r[w]]

Tick(w) ==
  /\ audit = Idle
  /\ \E c \in Chosen({w}) : c.key[1] = w /\ audit' = [step |-> c.step, w |-> w, m |-> c.key[2]]
  /\ reg' = Aged(reg) /\ disk' = Aged(disk) /\ UNCHANGED diskOK
  /\ UNCHANGED <<fleet, books, history, events>>

IdleTick ==
  /\ audit = Idle /\ Chosen({}) = {}
  /\ reg' = Aged(reg) /\ disk' = Aged(disk) /\ UNCHANGED diskOK
  /\ <<reg', disk'>> # <<reg, disk>>
  /\ UNCHANGED <<fleet, books, audit, history, events>>

\* A question gets no answer: the run is not counted.
Abort ==
  /\ Event
  /\ audit.step \in {"verify", "spot", "confirm"}
  /\ audit' = Idle
  /\ UNCHANGED <<registry, fleet, books, history>>

-----------------------------------------------------------------------------
(***************************************************************************)
(* The verdict.                                                            *)
(***************************************************************************)
ScoreOf(w) == IF w \in able THEN Questions ELSE 0

\* record: the run joins the last Window runs.
Recorded(runs, score) ==
  LET all == Append(runs, score)
  IN  SubSeq(all, IF Len(all) > Window THEN Len(all) - Window + 1 ELSE 1, Len(all))

Pooled(runs) == FoldLeft(LAMBDA a, b : a + b, 0, runs)
AtFloor(runs) == Pooled(runs) * FloorDen >= FloorNum * Questions * Len(runs)
Full(runs) == Len(runs) >= Window

\* verifyModel, up to and including record.
Verified ==
  /\ audit.step = "verify"
  /\ LET k == <<audit.w, audit.m>>
         runs == Recorded(evidence[k], ScoreOf(audit.w))
     IN  /\ evidence' = [evidence EXCEPT ![k] = runs]
         /\ audit' = [step |-> "judge", w |-> audit.w, m |-> audit.m,
                      pass |-> AtFloor(runs), full |-> Full(runs)]
         /\ proven' = IF AtFloor(runs) THEN proven \cup {k} ELSE proven
  /\ UNCHANGED <<registry, fleet, fails, interfered, events>>

\* Mutant: a run below the floor admits the model while evidence is gathered.
VerdictOptimistic(pass, full) == IF pass \/ ~full THEN "admit" ELSE "remove"

\* What verifyModel does with the pooled score.
Verdict(pass, full) == IF pass THEN "admit" ELSE IF full THEN "remove" ELSE "wait"

\* verifyModel from the registry's current entry on: admit, wait, or remove
\* and count the failure.
Judge ==
  /\ audit.step = "judge"
  /\ LET w == audit.w
         k == <<w, audit.m>>
         verdict == Verdict(audit.pass, audit.full)
     IN  \/ /\ w \notin Registered \/ verdict = "wait"
            /\ audit' = Idle
            /\ UNCHANGED fails
         \/ /\ w \in Registered /\ verdict = "admit"
            /\ fails' = [fails EXCEPT ![k] = 0]
            /\ audit' = [step |-> "store", w |-> w, m |-> audit.m,
                         set |-> reg[w].verified \cup {audit.m}]
         \/ /\ w \in Registered /\ verdict = "remove"
            /\ fails' = [fails EXCEPT ![k] = Min({@ + 1, FailsToBan})]
            /\ LET set == reg[w].verified \ {audit.m} IN
               audit' = IF fails'[k] >= FailsToBan
                        THEN [step |-> "confirm", w |-> w, m |-> audit.m, kind |-> "verify", set |-> set]
                        ELSE [step |-> "store", w |-> w, m |-> audit.m, set |-> set]
  /\ UNCHANGED <<registry, fleet, evidence, history, events>>

\* probeWorker, up to the verdict.
Spotted ==
  /\ audit.step = "spot"
  /\ LET k == <<audit.w, audit.m>>
         runs == Recorded(evidence[k], ScoreOf(audit.w))
     IN  /\ evidence' = [evidence EXCEPT ![k] = runs]
         /\ audit' = IF Full(runs) /\ ~AtFloor(runs)
                     THEN [step |-> "confirm", w |-> audit.w, m |-> audit.m, kind |-> "spot", set |-> {}]
                     ELSE Idle
  /\ UNCHANGED <<registry, fleet, fails, history, events>>

\* confirmBelowFloor on fresh questions; a pass clears the evidence.
Confirm ==
  /\ audit.step = "confirm"
  /\ LET k == <<audit.w, audit.m>> IN
       \/ /\ ~AtFloor(<<ScoreOf(audit.w)>>)
          /\ audit' = [audit EXCEPT !.step = "ban"]
          /\ UNCHANGED books
       \/ /\ AtFloor(<<ScoreOf(audit.w)>>)
          /\ evidence' = [evidence EXCEPT ![k] = <<>>]
          /\ fails' = IF audit.kind = "verify" THEN [fails EXCEPT ![k] = 0] ELSE fails
          /\ audit' = Idle
  /\ UNCHANGED <<registry, fleet, history, events>>

\* Mutant: a banned worker counts as one that can serve.
EmptiesIgnoringBans(w) == Registered \cap servable \subseteq {w}

\* banWouldEmptyFleet.
BanWouldEmptyFleet(w) == Eligible \subseteq {w}

\* After the ban, or without it: verifyModel goes on to store its list.
AfterBan(a) ==
  IF a.kind = "verify" THEN [step |-> "store", w |-> a.w, m |-> a.m, set |-> a.set] ELSE Idle

ResetFails(a) == IF a.kind = "verify" THEN [fails EXCEPT ![<<a.w, a.m>>] = 0] ELSE fails

\* banOrWarn: the fleet is inspected, ...
BanOrWarn ==
  /\ audit.step = "ban"
  /\ \/ /\ BanWouldEmptyFleet(audit.w)
        /\ audit' = AfterBan(audit)
        /\ fails' = ResetFails(audit)
     \/ /\ ~BanWouldEmptyFleet(audit.w)
        /\ audit' = [audit EXCEPT !.step = "setban"]
        /\ UNCHANGED fails
  /\ UNCHANGED <<registry, fleet, evidence, history, events>>

\* ... and the ban is set under the registry's lock afterwards.
SetBan ==
  /\ audit.step = "setban"
  /\ IF audit.w \in Registered THEN Save([reg EXCEPT ![audit.w].ban = "new"])
     ELSE UNCHANGED registry
  /\ audit' = AfterBan(audit)
  /\ fails' = ResetFails(audit)
  /\ UNCHANGED <<fleet, evidence, history, events>>

\* SetVerified with the list made from the entry read in Judge.
\* Without a proof there is nothing to re-confirm: its age is not kept.
SetVerified ==
  /\ audit.step = "store"
  /\ IF audit.w \in Registered
     THEN Save([reg EXCEPT ![audit.w].verified = audit.set, ![audit.w].fresh = (audit.set # {})])
     ELSE UNCHANGED registry
  /\ audit' = Idle
  /\ proven' = IF audit.m \in audit.set THEN proven ELSE proven \ {<<audit.w, audit.m>>}
  /\ UNCHANGED <<fleet, books, interfered, events>>

-----------------------------------------------------------------------------
Probe == Verified \/ Judge \/ Spotted \/ Confirm \/ BanOrWarn \/ SetBan \/ SetVerified

Next ==
  \/ \E w \in Workers :
       \/ Register(w) \/ Deregister(w) \/ Lapse(w)
       \/ \E on \in BOOLEAN : OperatorBan(w, on)
       \/ PolledServable(w) \/ PolledMining(w)
       \/ BanEnds(w) \/ ProofExpires(w)
       \/ Tick(w)
  \/ \E k \in Keys : Reverify(k[1], k[2])
  \/ Restart \/ DiskFills \/ IdleTick \/ Abort
  \/ Probe

\* The ticker drives Run and every question has a timeout; polls and time go
\* on.  List ranges over a Go map, whose order is random: a worker that can
\* be chosen again and again is chosen.  A spot check needs a loaded model and
\* may never come.
Fairness ==
  /\ WF_vars(Probe) /\ WF_vars(IdleTick)
  /\ \A w \in Workers :
       /\ SF_vars(Tick(w) /\ audit'.step = "verify")
       /\ WF_vars(PolledServable(w)) /\ WF_vars(BanEnds(w))
       /\ WF_vars(ProofExpires(w))

Spec == Init /\ [][Next]_vars /\ Fairness

-----------------------------------------------------------------------------
(***************************************************************************)
(* Routing trusts evidence, not claims (probe.go: "every model a           *)
(* self-registered worker claims is probed BEFORE routing trusts it"): a   *)
(* model in verified_models had its pooled score at the floor and was not  *)
(* taken back since, through aborted runs, retries the worker asked for,   *)
(* re-registrations in the middle of a run and restarts, as long as every  *)
(* save succeeds and no ID is removed: the auditor's books outlive an ID,  *)
(* and a run of the old registration is credited to the new one.           *)
(***************************************************************************)
AdmittedIsProven ==
  ~interfered => \A w \in Registered : \A m \in reg[w].verified : <<w, m>> \in proven

(***************************************************************************)
(* The auditor does not switch the service off (banWouldEmptyFleet): as    *)
(* long as no operator bans or removes workers and every save succeeds,    *)
(* its bans leave some registered worker unbanned.                         *)
(***************************************************************************)
SomeoneIsLeft ==
  ~interfered /\ Registered # {} => \E w \in Registered : ~Banned(w)

Steady(w) == w \in Registered /\ w \in servable

(***************************************************************************)
(* Verdicts converge to the truth: a worker that stays up and really       *)
(* serves its claims is in the end proven for all of them and not banned   *)
(* any more; one that stays up but serves none of its claims any more      *)
(* loses the trust in one of them for good, even if all were proven once   *)
(* and whatever models traffic makes it load (Run, verifyModel).  Not in   *)
(* all of them: nextUnverified tries the one taken back first on every     *)
(* tick (probe.go:414), and no other proof is re-confirmed.                *)
(***************************************************************************)
VerdictsConverge ==
  \A w \in Workers :
    /\ <>[](Steady(w) /\ w \in able) =>
         <>[](Steady(w) /\ ToSet(ClaimsOf[w]) \subseteq reg[w].verified /\ ~Banned(w))
    /\ <>[](Steady(w) /\ w \notin able) =>
         <>[](Steady(w) /\ ~(ToSet(ClaimsOf[w]) \subseteq reg[w].verified))
=============================================================================
