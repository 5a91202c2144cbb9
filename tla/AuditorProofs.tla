---------------------------- MODULE AuditorProofs ----------------------------
(***************************************************************************)
(* What the probe auditor may never do, for any fleet, any claims and any  *)
(* sizes of its windows: a model that routing trusts was proven, and a ban *)
(* leaves somebody to serve.                                               *)
(***************************************************************************)
EXTENDS Auditor, SequenceTheorems, TLAPS

\* Nothing is lost by a restart as long as every save succeeded.
Synced == ~interfered => diskOK /\ disk = reg

\* The auditor only works on models their worker claims.
Claimed == audit.step # "idle" => <<audit.w, audit.m>> \in Keys

\* A list made from the entry read in Judge is as good when it is stored:
\* what happens in between proves nothing less.
Carried ==
  /\ audit.step = "judge" /\ audit.pass => <<audit.w, audit.m>> \in proven
  /\ ~interfered /\ audit.step \in {"confirm", "ban", "setban", "store"} =>
       \A x \in audit.set : <<audit.w, x>> \in proven

\* The fleet that banOrWarn inspected still serves when the ban is set.
AnotherIsLeft ==
  ~interfered /\ audit.step = "setban" =>
    \E v \in Registered : v # audit.w /\ ~Banned(v)

IInv ==
  TypeOK /\ Synced /\ Claimed /\ Carried /\ AnotherIsLeft
    /\ AdmittedIsProven /\ SomeoneIsLeft

-----------------------------------------------------------------------------
(***************************************************************************)
(* Records and windows.                                                    *)
(***************************************************************************)
\* What each step of the auditor carries with it.
LEMMA AuditFields ==
  ASSUME audit \in Audit
  PROVE  /\ audit.step # "idle" => audit.w \in Workers /\ audit.m \in Models
         /\ audit.step = "judge" => audit.pass \in BOOLEAN /\ audit.full \in BOOLEAN
         /\ audit.step \in {"confirm", "ban", "setban"} =>
              audit \in [step: {"confirm", "ban", "setban"}, w: Workers, m: Models,
                         kind: {"verify", "spot"}, set: SUBSET Models]
         /\ audit.step = "store" => audit.set \in SUBSET Models
         /\ audit.step \in {"idle", "verify", "spot", "judge", "confirm", "ban", "setban", "store"}
BY DEF Audit, Idle

LEMMA KeyFields == \A k \in Keys : k[1] \in Workers /\ k[2] \in Models /\ k = <<k[1], k[2]>>
BY DEF Keys

\* An entry keeps its type under the changes of the registry.
LEMMA EntryChanges ==
  ASSUME NEW e \in Entry
  PROVE  /\ \A b \in {"none", "new", "old"} : [e EXCEPT !.ban = b] \in Entry
         /\ [e EXCEPT !.fresh = FALSE] \in Entry
         /\ \A s \in SUBSET Models, f \in BOOLEAN : [e EXCEPT !.verified = s, !.fresh = f] \in Entry
BY DEF Entry

\* record keeps at most Window runs.
LEMMA RecordedType ==
  ASSUME NEW runs \in BoundedSeq(0 .. Questions, Window), NEW score \in 0 .. Questions
  PROVE  Recorded(runs, score) \in BoundedSeq(0 .. Questions, Window)
<1> DEFINE all == Append(runs, score)
           from == IF Len(all) > Window THEN Len(all) - Window + 1 ELSE 1
<1>0. Window \in Nat \ {0} /\ BoundedSeq(0 .. Questions, Window) = UNION {[1 .. n -> 0 .. Questions] : n \in 0 .. Window}
  BY AuditorAssumption DEF AuditorAssumption, BoundedSeq, SeqOf
<1>1. runs \in Seq(0 .. Questions) /\ Len(runs) <= Window /\ Len(runs) \in Nat
  <2>1. PICK n \in 0 .. Window : runs \in [1 .. n -> 0 .. Questions]
    BY <1>0
  <2>2. n \in Nat
    BY <1>0
  <2>3. runs \in Seq(0 .. Questions)
    BY <2>1, <2>2, SeqDef
  <2>4. Len(runs) = n
    BY <2>1, <2>2, <2>3
  <2> QED BY <1>0, <2>2, <2>3, <2>4
<1>2. all \in Seq(0 .. Questions) /\ Len(all) = Len(runs) + 1
  BY <1>1
<1>3. from \in 1 .. Len(all) /\ Len(all) \in Nat /\ Len(all) - from + 1 \in 0 .. Window
  BY <1>0, <1>1, <1>2
<1> HIDE DEF all, from
<1>4. SubSeq(all, from, Len(all)) \in [1 .. Len(all) - from + 1 -> 0 .. Questions]
  <2>1. \A i \in from .. Len(all) : all[i] \in 0 .. Questions
    <3>1. \A i \in from .. Len(all) : i \in 1 .. Len(all)
      BY <1>3
    <3> QED BY <1>2, <3>1, ElementOfSeq
  <2>2. /\ SubSeq(all, from, Len(all)) \in Seq(0 .. Questions)
        /\ Len(SubSeq(all, from, Len(all))) = Len(all) - from + 1
    BY <1>3, <2>1, SubSeqProperties
  <2> QED BY <2>2, LenProperties
<1>5. SubSeq(all, from, Len(all)) \in BoundedSeq(0 .. Questions, Window)
  BY <1>0, <1>3, <1>4
<1> QED BY <1>5 DEF Recorded, all, from

LEMMA SaturatedCount ==
  ASSUME NEW n \in 0 .. FailsToBan
  PROVE  Min({n + 1, FailsToBan}) \in 0 .. FailsToBan
<1>1. n + 1 \in Nat /\ FailsToBan \in Nat
  BY AuditorAssumption DEF AuditorAssumption
<1>2. \E x \in {n + 1, FailsToBan} : \A y \in {n + 1, FailsToBan} : x <= y
  <2>1. CASE n + 1 <= FailsToBan
    BY <1>1, <2>1
  <2>2. CASE ~(n + 1 <= FailsToBan)
    BY <1>1, <2>2
  <2> QED BY <2>1, <2>2
<1>3. /\ Min({n + 1, FailsToBan}) \in {n + 1, FailsToBan}
      /\ \A y \in {n + 1, FailsToBan} : Min({n + 1, FailsToBan}) <= y
  BY <1>2, Zenon DEF Min
<1> QED BY <1>1, <1>3

-----------------------------------------------------------------------------
(***************************************************************************)
(* The type invariant is preserved.                                        *)
(***************************************************************************)
LEMMA InitInv == Init => IInv
<1> SUFFICES ASSUME Init PROVE IInv
  OBVIOUS
<1>1. NewEntry \in Entry
  BY DEF NewEntry, Entry
<1>2. << >> \in BoundedSeq(0 .. Questions, Window)
  <2>1. << >> \in [1 .. 0 -> 0 .. Questions] /\ 0 \in 0 .. Window
    BY AuditorAssumption DEF AuditorAssumption
  <2> QED BY <2>1 DEF BoundedSeq, SeqOf
<1>3. TypeOK
  <2>1. /\ {reg, disk} \subseteq [Workers -> Entry \cup {None}]
        /\ servable \subseteq Workers /\ able \subseteq Workers /\ proven \subseteq Keys
    BY <1>1 DEF Init
  <2>2. /\ evidence \in [Keys -> BoundedSeq(0 .. Questions, Window)]
        /\ fails \in [Keys -> 0 .. FailsToBan] /\ events \in 0 .. MaxEvents
    BY <1>2, AuditorAssumption DEF Init, AuditorAssumption
  <2>3. diskOK \in BOOLEAN /\ interfered \in BOOLEAN /\ audit \in Audit
    BY Zenon DEF Init, Audit
  <2> QED BY <2>1, <2>2, <2>3 DEF TypeOK
<1>4. Synced /\ AdmittedIsProven /\ SomeoneIsLeft
  BY DEF Init, Synced, AdmittedIsProven, SomeoneIsLeft, Registered, Banned, NewEntry
<1>5. Claimed /\ Carried /\ AnotherIsLeft
  BY DEF Init, Idle, Claimed, Carried, AnotherIsLeft
<1> QED BY <1>3, <1>4, <1>5 DEF IInv

\* What is not the registry's is typed; what is the registry's.
RegOK == {reg, disk} \subseteq [Workers -> Entry \cup {None}] /\ diskOK \in BOOLEAN
FleetOK == servable \subseteq Workers /\ able \subseteq Workers
BooksOK ==
  /\ evidence \in [Keys -> BoundedSeq(0 .. Questions, Window)]
  /\ fails \in [Keys -> 0 .. FailsToBan]
HistoryOK == proven \subseteq Keys /\ interfered \in BOOLEAN

LEMMA TypeParts ==
  TypeOK <=> RegOK /\ FleetOK /\ BooksOK /\ audit \in Audit /\ HistoryOK /\ events \in 0 .. MaxEvents
BY DEF TypeOK, RegOK, FleetOK, BooksOK, HistoryOK

LEMMA SaveType ==
  ASSUME RegOK, NEW new \in [Workers -> Entry \cup {None}], Save(new)
  PROVE  RegOK'
BY DEF RegOK, Save

\* A registered worker has an entry, and changes of it are typed.
LEMMA RegEntry ==
  ASSUME RegOK, NEW w \in Registered
  PROVE  w \in Workers /\ reg[w] \in Entry
BY DEF RegOK, Registered

LEMMA RegisterType ==
  ASSUME RegOK, NEW w \in Workers, Register(w)
  PROVE  RegOK'
<1>1. NewEntry \in Entry /\ reg \in [Workers -> Entry \cup {None}]
  BY DEF NewEntry, Entry, RegOK
<1>2. [reg EXCEPT ![w] = IF @ = None THEN NewEntry ELSE @] \in [Workers -> Entry \cup {None}]
  BY <1>1
<1> QED BY <1>2, SaveType, Zenon DEF Register

LEMMA DeregisterType ==
  ASSUME RegOK, NEW w \in Workers, Deregister(w)
  PROVE  RegOK'
<1>1. [reg EXCEPT ![w] = None] \in [Workers -> Entry \cup {None}]
  BY DEF RegOK
<1> QED BY <1>1, SaveType, Zenon DEF Deregister

LEMMA BanType ==
  ASSUME RegOK, NEW w \in Registered, NEW b \in {"none", "new", "old"}
  PROVE  [reg EXCEPT ![w].ban = b] \in [Workers -> Entry \cup {None}]
<1>1. [reg[w] EXCEPT !.ban = b] \in Entry /\ w \in Workers
  BY RegEntry, EntryChanges
<1>2. [reg EXCEPT ![w].ban = b] = [reg EXCEPT ![w] = [reg[w] EXCEPT !.ban = b]]
  BY <1>1 DEF RegOK
<1> QED BY <1>1, <1>2 DEF RegOK

LEMMA VerifiedType ==
  ASSUME RegOK, NEW w \in Registered, NEW s \in SUBSET Models, NEW f \in BOOLEAN
  PROVE  [reg EXCEPT ![w].verified = s, ![w].fresh = f] \in [Workers -> Entry \cup {None}]
<1>1. [reg[w] EXCEPT !.verified = s, !.fresh = f] \in Entry /\ w \in Workers
  BY RegEntry, EntryChanges
<1>2. [reg EXCEPT ![w].verified = s, ![w].fresh = f]
        = [reg EXCEPT ![w] = [reg[w] EXCEPT !.verified = s, !.fresh = f]]
  BY <1>1 DEF RegOK
<1> QED BY <1>1, <1>2 DEF RegOK

LEMMA AgedType ==
  ASSUME NEW r \in [Workers -> Entry \cup {None}]
  PROVE  Aged(r) \in [Workers -> Entry \cup {None}]
<1>1. \A w \in Workers : r[w] # None => [r[w] EXCEPT !.ban = "old"] \in Entry
  BY EntryChanges
<1> QED BY <1>1 DEF Aged

LEMMA TimeType ==
  ASSUME RegOK, NEW w \in Workers, BanEnds(w) \/ ProofExpires(w)
  PROVE  RegOK'
<1>1. \A r \in {reg, disk} : r[w] # None =>
        [r[w] EXCEPT !.ban = "none"] \in Entry /\ [r[w] EXCEPT !.fresh = FALSE] \in Entry
  BY EntryChanges DEF RegOK
<1>2. CASE BanEnds(w)
  <2>1. reg' = [reg EXCEPT ![w] = [reg[w] EXCEPT !.ban = "none"]] /\ reg[w] # None
    BY <1>2 DEF BanEnds, RegOK, Registered
  <2>2. disk' = [disk EXCEPT ![w] = IF disk[w] = None THEN None ELSE [disk[w] EXCEPT !.ban = "none"]]
    BY <1>2 DEF BanEnds
  <2> QED BY <1>1, <1>2, <2>1, <2>2 DEF BanEnds, RegOK
<1>3. CASE ProofExpires(w)
  <2>1. reg' = [reg EXCEPT ![w] = [reg[w] EXCEPT !.fresh = FALSE]] /\ reg[w] # None
    BY <1>3 DEF ProofExpires, RegOK, Registered
  <2>2. disk' = [disk EXCEPT ![w] = IF disk[w] = None THEN None ELSE [disk[w] EXCEPT !.fresh = FALSE]]
    BY <1>3 DEF ProofExpires
  <2> QED BY <1>1, <1>3, <2>1, <2>2 DEF ProofExpires, RegOK
<1> QED BY <1>2, <1>3

\* What a tick chooses is claimed.
LEMMA ChosenClaimed ==
  ASSUME Claimed, RegOK, NEW due, NEW c \in Chosen(due)
  PROVE  c.step \in {"verify", "spot"} /\ c.key \in Keys
<1>1. NextUnverified \subseteq Keys /\ NextExpired \subseteq Keys
  BY DEF NextUnverified, NextExpired
<1>2. Candidates(due) \subseteq Keys
  BY DEF Candidates, Claimed, Eligible, Registered
<1> QED BY <1>1, <1>2 DEF Chosen

\* A run, whatever its score, is recorded for the pair it was about.
LEMMA RunRecorded ==
  ASSUME BooksOK, NEW k \in Keys, NEW w
  PROVE  [evidence EXCEPT ![k] = Recorded(evidence[k], ScoreOf(w))]
            \in [Keys -> BoundedSeq(0 .. Questions, Window)]
<1>1. ScoreOf(w) \in 0 .. Questions
  BY AuditorAssumption DEF AuditorAssumption, ScoreOf
<1>2. Recorded(evidence[k], ScoreOf(w)) \in BoundedSeq(0 .. Questions, Window)
  BY <1>1, RecordedType DEF BooksOK
<1> QED BY <1>2 DEF BooksOK

LEMMA EvidenceCleared ==
  ASSUME BooksOK
  PROVE  \A k \in Keys : /\ [evidence EXCEPT ![k] = << >>] \in [Keys -> BoundedSeq(0 .. Questions, Window)]
                         /\ [fails EXCEPT ![k] = 0] \in [Keys -> 0 .. FailsToBan]
<1>2. << >> \in BoundedSeq(0 .. Questions, Window)
  <2>1. << >> \in [1 .. 0 -> 0 .. Questions] /\ 0 \in 0 .. Window
    BY AuditorAssumption DEF AuditorAssumption
  <2> QED BY <2>1 DEF BoundedSeq, SeqOf
<1> QED BY <1>2, AuditorAssumption DEF BooksOK, AuditorAssumption

\* The auditor's own steps keep its record and its books typed and claimed.
LEMMA VerifiedTypes ==
  ASSUME IInv, Verified
  PROVE  TypeOK' /\ Claimed'
<1> DEFINE k == <<audit.w, audit.m>>
           runs == Recorded(evidence[k], ScoreOf(audit.w))
<1>1. TypeOK /\ Claimed /\ RegOK /\ FleetOK /\ BooksOK /\ HistoryOK
  BY TypeParts DEF IInv
<1>2. k \in Keys /\ audit.w \in Workers /\ audit.m \in Models
  BY <1>1, AuditFields DEF Verified, Claimed, TypeOK
<1>3. evidence' = [evidence EXCEPT ![k] = runs] /\ fails' = fails
  BY DEF Verified
<1>4. BooksOK'
  BY <1>1, <1>2, <1>3, RunRecorded DEF BooksOK
<1>5. /\ audit' = [step |-> "judge", w |-> audit.w, m |-> audit.m,
                   pass |-> AtFloor(runs), full |-> Full(runs)]
      /\ proven' = IF AtFloor(runs) THEN proven \cup {k} ELSE proven
  BY DEF Verified
<1>6. AtFloor(runs) \in BOOLEAN /\ Full(runs) \in BOOLEAN
  BY DEF AtFloor, Full
<1> HIDE DEF runs
<1>7. audit' \in Audit
  BY <1>2, <1>5, <1>6 DEF Audit
<1>8. FleetOK' /\ RegOK' /\ HistoryOK' /\ events' = events
  BY <1>1, <1>2, <1>5 DEF Verified, FleetOK, RegOK, HistoryOK, registry, fleet
<1>9. Claimed'
  BY <1>2, <1>5 DEF Claimed
<1> QED BY <1>1, <1>4, <1>7, <1>8, <1>9 DEF TypeOK, RegOK, FleetOK, BooksOK, HistoryOK

LEMMA JudgeTypes ==
  ASSUME IInv, Judge
  PROVE  TypeOK' /\ Claimed'
<1> DEFINE k == <<audit.w, audit.m>>
<1>1. TypeOK /\ Claimed /\ RegOK /\ FleetOK /\ BooksOK /\ HistoryOK
  BY TypeParts DEF IInv
<1>2. k \in Keys /\ audit.w \in Workers /\ audit.m \in Models
  BY <1>1, AuditFields DEF Judge, Claimed, TypeOK
<1>3. RegOK' /\ FleetOK' /\ HistoryOK' /\ events' = events /\ evidence' = evidence
  BY <1>1 DEF Judge, registry, fleet, history, RegOK, FleetOK, HistoryOK
<1>4. fails' \in [Keys -> 0 .. FailsToBan]
  <2>1. \/ fails' = fails
        \/ fails' = [fails EXCEPT ![k] = 0]
        \/ fails' = [fails EXCEPT ![k] = Min({fails[k] + 1, FailsToBan})]
    BY Zenon DEF Judge
  <2>2. Min({fails[k] + 1, FailsToBan}) \in 0 .. FailsToBan /\ 0 \in 0 .. FailsToBan
    <3>1. fails[k] \in 0 .. FailsToBan
      BY <1>1, <1>2 DEF BooksOK
    <3>2. Min({fails[k] + 1, FailsToBan}) \in 0 .. FailsToBan
      BY <3>1, SaturatedCount, Zenon
    <3> QED BY <3>2, AuditorAssumption DEF AuditorAssumption
  <2> QED BY <1>1, <1>2, <2>1, <2>2 DEF BooksOK
<1>5. \/ audit' = Idle
      \/ audit.w \in Registered /\ \E s \in {reg[audit.w].verified \cup {audit.m}, reg[audit.w].verified \ {audit.m}} :
           \/ audit' = [step |-> "store", w |-> audit.w, m |-> audit.m, set |-> s]
           \/ audit' = [step |-> "confirm", w |-> audit.w, m |-> audit.m, kind |-> "verify", set |-> s]
  BY DEF Judge
<1>6. audit.w \in Registered => reg[audit.w].verified \subseteq Models
  BY <1>1, RegEntry DEF Entry
<1>7. audit' \in Audit /\ (audit'.step # "idle" => <<audit'.w, audit'.m>> = k)
  BY <1>2, <1>5, <1>6 DEF Audit, Idle
<1>8. Claimed'
  BY <1>1, <1>2, <1>3, <1>7 DEF Claimed
<1> QED BY <1>1, <1>3, <1>4, <1>7, <1>8 DEF TypeOK, RegOK, FleetOK, BooksOK, HistoryOK

LEMMA SpottedTypes ==
  ASSUME IInv, Spotted
  PROVE  TypeOK' /\ Claimed'
<1> DEFINE k == <<audit.w, audit.m>>
           runs == Recorded(evidence[k], ScoreOf(audit.w))
<1>1. TypeOK /\ Claimed /\ RegOK /\ FleetOK /\ BooksOK /\ HistoryOK
  BY TypeParts DEF IInv
<1>2. k \in Keys /\ audit.w \in Workers /\ audit.m \in Models
  BY <1>1, AuditFields DEF Spotted, Claimed, TypeOK
<1>3. RegOK' /\ FleetOK' /\ HistoryOK' /\ events' = events /\ fails' = fails
  BY <1>1 DEF Spotted, registry, fleet, history, RegOK, FleetOK, HistoryOK
<1>4. evidence' = [evidence EXCEPT ![k] = runs]
  BY DEF Spotted
<1>5. BooksOK'
  BY <1>1, <1>2, <1>3, <1>4, RunRecorded DEF BooksOK
<1>6. \/ audit' = Idle
      \/ audit' = [step |-> "confirm", w |-> audit.w, m |-> audit.m, kind |-> "spot", set |-> {}]
  BY DEF Spotted
<1>7. audit' \in Audit /\ (audit'.step # "idle" => <<audit'.w, audit'.m>> = k)
  BY <1>2, <1>6 DEF Audit, Idle
<1>8. Claimed'
  BY <1>1, <1>2, <1>3, <1>7 DEF Claimed
<1> QED BY <1>1, <1>3, <1>5, <1>7, <1>8 DEF TypeOK, RegOK, FleetOK, BooksOK, HistoryOK

\* The three steps on the way to a ban.
LEMMA BanSteps ==
  ASSUME IInv, audit.step \in {"confirm", "ban", "setban"}
  PROVE  /\ <<audit.w, audit.m>> \in Keys
         /\ AfterBan(audit) \in Audit
         /\ \A s \in {"confirm", "ban", "setban"} : [audit EXCEPT !.step = s] \in Audit
         /\ \A a \in {AfterBan(audit), [audit EXCEPT !.step = "ban"], [audit EXCEPT !.step = "setban"]} :
              a.step # "idle" => <<a.w, a.m>> = <<audit.w, audit.m>> /\ a.set = audit.set
         /\ AfterBan(audit).step \in {"idle", "store"}
         /\ ResetFails(audit) \in [Keys -> 0 .. FailsToBan]
<1>1. audit \in [step: {"confirm", "ban", "setban"}, w: Workers, m: Models,
                 kind: {"verify", "spot"}, set: SUBSET Models]
  BY AuditFields DEF IInv, TypeOK
<1>2. <<audit.w, audit.m>> \in Keys
  BY <1>1 DEF IInv, Claimed
<1>3. AfterBan(audit) \in Audit /\ AfterBan(audit).step \in {"idle", "store"}
  BY <1>1 DEF AfterBan, Audit, Idle
<1>4. \A s \in {"confirm", "ban", "setban"} : [audit EXCEPT !.step = s] \in Audit
  BY <1>1 DEF Audit
<1>5. \A a \in {AfterBan(audit), [audit EXCEPT !.step = "ban"], [audit EXCEPT !.step = "setban"]} :
        a.step # "idle" => <<a.w, a.m>> = <<audit.w, audit.m>> /\ a.set = audit.set
  BY <1>1 DEF AfterBan, Idle
<1>6. ResetFails(audit) \in [Keys -> 0 .. FailsToBan]
  BY <1>2, EvidenceCleared, TypeParts DEF IInv, ResetFails, BooksOK
<1> QED BY <1>2, <1>3, <1>4, <1>5, <1>6

LEMMA ConfirmTypes ==
  ASSUME IInv, Confirm
  PROVE  TypeOK' /\ Claimed'
<1> DEFINE k == <<audit.w, audit.m>>
<1>1. TypeOK /\ Claimed /\ RegOK /\ FleetOK /\ BooksOK /\ HistoryOK
  BY TypeParts DEF IInv
<1>2. k \in Keys
  BY BanSteps DEF Confirm
<1>3. RegOK' /\ FleetOK' /\ HistoryOK' /\ events' = events
  BY <1>1 DEF Confirm, registry, fleet, history, RegOK, FleetOK, HistoryOK
<1>4. BooksOK'
  <2>1. /\ evidence' = evidence \/ evidence' = [evidence EXCEPT ![k] = << >>]
        /\ fails' = fails \/ fails' = [fails EXCEPT ![k] = 0]
    BY DEF Confirm, books
  <2> QED BY <1>1, <1>2, <2>1, EvidenceCleared DEF BooksOK
<1>5. audit' \in {Idle, [audit EXCEPT !.step = "ban"]}
  BY DEF Confirm
<1>6. audit' \in Audit /\ (audit'.step # "idle" => <<audit'.w, audit'.m>> = k)
  BY <1>5, BanSteps DEF Confirm, Audit, Idle
<1>7. Claimed'
  BY <1>1, <1>2, <1>3, <1>6 DEF Claimed
<1> QED BY <1>1, <1>3, <1>4, <1>6, <1>7 DEF TypeOK, RegOK, FleetOK, BooksOK, HistoryOK

LEMMA BanTypes ==
  ASSUME IInv, BanOrWarn \/ SetBan
  PROVE  TypeOK' /\ Claimed'
<1> DEFINE k == <<audit.w, audit.m>>
<1>1. TypeOK /\ Claimed /\ RegOK /\ FleetOK /\ BooksOK /\ HistoryOK
  BY TypeParts DEF IInv
<1>2. audit.step \in {"confirm", "ban", "setban"} /\ k \in Keys
  BY BanSteps DEF BanOrWarn, SetBan
<1>3. FleetOK' /\ HistoryOK' /\ events' = events /\ evidence' = evidence
  BY <1>1 DEF BanOrWarn, SetBan, fleet, history, FleetOK, HistoryOK
<1>4. RegOK'
  <2>1. CASE BanOrWarn
    BY <1>1, <2>1 DEF BanOrWarn, registry, RegOK
  <2>2. CASE SetBan /\ audit.w \in Registered
    <3>1. Save([reg EXCEPT ![audit.w].ban = "new"])
      BY <2>2 DEF SetBan
    <3> QED BY <1>1, <2>2, <3>1, BanType, SaveType
  <2>3. CASE SetBan /\ audit.w \notin Registered
    BY <1>1, <2>3 DEF SetBan, registry, RegOK
  <2> QED BY <2>1, <2>2, <2>3
<1>5. fails' \in {fails, ResetFails(audit)}
  BY DEF BanOrWarn, SetBan
<1>6. BooksOK'
  BY <1>1, <1>2, <1>3, <1>5, BanSteps DEF BooksOK
<1>7. audit' \in {AfterBan(audit), [audit EXCEPT !.step = "setban"]}
  BY DEF BanOrWarn, SetBan
<1>8. audit' \in Audit /\ (audit'.step # "idle" => <<audit'.w, audit'.m>> = k)
  BY <1>2, <1>7, BanSteps
<1>9. Claimed'
  BY <1>1, <1>2, <1>3, <1>8 DEF Claimed
<1> QED BY <1>1, <1>3, <1>4, <1>6, <1>8, <1>9 DEF TypeOK, RegOK, FleetOK, BooksOK, HistoryOK

LEMMA StoreTypes ==
  ASSUME IInv, SetVerified
  PROVE  TypeOK' /\ Claimed'
<1>1. TypeOK /\ Claimed /\ RegOK /\ FleetOK /\ BooksOK /\ HistoryOK
  BY TypeParts DEF IInv
<1>2. audit.set \in SUBSET Models
  BY <1>1, AuditFields DEF SetVerified, TypeOK
<1>3. RegOK'
  <2>1. CASE audit.w \in Registered
    <3>1. Save([reg EXCEPT ![audit.w].verified = audit.set, ![audit.w].fresh = (audit.set # {})])
      BY <2>1 DEF SetVerified
    <3>2. [reg EXCEPT ![audit.w].verified = audit.set, ![audit.w].fresh = (audit.set # {})]
            \in [Workers -> Entry \cup {None}]
      BY <1>1, <1>2, <2>1, VerifiedType
    <3> QED BY <1>1, <3>1, <3>2, SaveType, Zenon
  <2>2. CASE audit.w \notin Registered
    BY <1>1, <2>2 DEF SetVerified, registry, RegOK
  <2> QED BY <2>1, <2>2
<1>4. /\ FleetOK' /\ BooksOK' /\ events' = events
      /\ interfered' = interfered /\ audit' = Idle
  BY <1>1 DEF SetVerified, fleet, books, FleetOK, BooksOK
<1>5. proven' \subseteq Keys
  BY <1>1 DEF SetVerified, HistoryOK
<1>6. Claimed'
  BY <1>1, <1>4 DEF Claimed, Idle
<1> QED BY <1>1, <1>3, <1>4, <1>5, <1>6 DEF TypeOK, RegOK, FleetOK, BooksOK, HistoryOK, Audit

LEMMA EventType ==
  ASSUME events \in 0 .. MaxEvents, Event \/ events' = events
  PROVE  events' \in 0 .. MaxEvents
BY AuditorAssumption DEF AuditorAssumption, Event

LEMMA OutsideTypes ==
  ASSUME IInv, NEW w \in Workers,
         \/ Register(w) \/ Deregister(w) \/ Lapse(w)
         \/ \E on \in BOOLEAN : OperatorBan(w, on)
         \/ PolledServable(w) \/ PolledMining(w)
         \/ BanEnds(w) \/ ProofExpires(w)
  PROVE  TypeOK' /\ Claimed'
<1>1. TypeOK /\ Claimed /\ RegOK /\ FleetOK /\ BooksOK /\ HistoryOK
  BY TypeParts DEF IInv
<1>2. RegOK'
  <2>1. CASE Register(w)
    BY <1>1, <2>1, RegisterType
  <2>2. CASE Deregister(w)
    BY <1>1, <2>2, DeregisterType
  <2>3. ASSUME NEW on \in BOOLEAN, OperatorBan(w, on)
        PROVE  RegOK'
    <3> DEFINE b == IF on THEN "new" ELSE "none"
    <3>1. Save([reg EXCEPT ![w].ban = b]) /\ w \in Registered /\ b \in {"none", "new", "old"}
      BY <2>3 DEF OperatorBan
    <3> HIDE DEF b
    <3>2. [reg EXCEPT ![w].ban = b] \in [Workers -> Entry \cup {None}]
      BY <1>1, <3>1, BanType
    <3> QED BY <1>1, <3>1, <3>2, SaveType, Zenon
  <2>4. CASE BanEnds(w) \/ ProofExpires(w)
    BY <1>1, <2>4, TimeType
  <2>5. CASE Lapse(w) \/ PolledServable(w) \/ PolledMining(w)
    BY <1>1, <2>5 DEF Lapse, PolledServable, PolledMining, registry, RegOK
  <2> QED BY <2>1, <2>2, <2>3, <2>4, <2>5
<1>3. BooksOK' /\ audit' = audit
  BY <1>1 DEF Register, Deregister, Lapse, OperatorBan, PolledServable, PolledMining,
              BanEnds, ProofExpires, books, BooksOK
<1>4. FleetOK'
  <2>1. servable' \subseteq servable \cup {w} /\ able' \subseteq able \cup {w}
    BY DEF Register, Deregister, Lapse, OperatorBan, PolledServable, PolledMining,
           BanEnds, ProofExpires, fleet
  <2> QED BY <1>1, <2>1 DEF FleetOK
<1>5. proven' = proven /\ events' \in 0 .. MaxEvents
  <2>1. proven' = proven /\ (Event \/ events' = events)
    BY DEF Register, Deregister, Lapse, OperatorBan, PolledServable, PolledMining,
           BanEnds, ProofExpires, history
  <2> QED BY <1>1, <2>1, EventType DEF TypeOK
<1>6. interfered' \in BOOLEAN
  BY <1>1, Zenon
  DEF Register, Deregister, Lapse, OperatorBan, PolledServable, PolledMining,
      BanEnds, ProofExpires, history, HistoryOK
<1>7. Claimed'
  BY <1>1, <1>3, <1>4 DEF Claimed
<1> QED BY <1>1, <1>2, <1>3, <1>4, <1>5, <1>6, <1>7 DEF TypeOK, RegOK, FleetOK, BooksOK, HistoryOK

LEMMA TickTypes ==
  ASSUME IInv, (\E w \in Workers : Tick(w)) \/ IdleTick \/ Abort
  PROVE  TypeOK' /\ Claimed'
<1>1. TypeOK /\ Claimed /\ RegOK /\ FleetOK /\ BooksOK /\ HistoryOK
  BY TypeParts DEF IInv
<1>2. FleetOK' /\ BooksOK' /\ HistoryOK'
  BY <1>1 DEF Tick, IdleTick, Abort, fleet, books, history, FleetOK, BooksOK, HistoryOK
<1>3. events' \in 0 .. MaxEvents
  <2>1. Event \/ events' = events
    BY DEF Tick, IdleTick, Abort
  <2> QED BY <1>1, <2>1, EventType DEF TypeOK
<1>4. RegOK'
  <2>1. CASE (\E w \in Workers : Tick(w)) \/ IdleTick
    <3>1. reg' = Aged(reg) /\ disk' = Aged(disk) /\ diskOK' = diskOK
      BY <2>1 DEF Tick, IdleTick
    <3> QED BY <1>1, <3>1, AgedType DEF RegOK
  <2>2. CASE Abort
    BY <1>1, <2>2 DEF Abort, registry, RegOK
  <2> QED BY <2>1, <2>2
<1>5. audit' \in Audit /\ (audit'.step # "idle" => <<audit'.w, audit'.m>> \in Keys)
  <2>1. ASSUME NEW w \in Workers, Tick(w)
        PROVE  audit' \in Audit /\ <<audit'.w, audit'.m>> \in Keys
    <3>1. PICK c \in Chosen({w}) : c.key[1] = w /\ audit' = [step |-> c.step, w |-> w, m |-> c.key[2]]
      BY <2>1 DEF Tick
    <3>2. c.step \in {"verify", "spot"} /\ c.key \in Keys
      BY <1>1, ChosenClaimed
    <3>3. c.key[2] \in Models /\ <<w, c.key[2]>> \in Keys
      BY <3>1, <3>2, KeyFields
    <3> QED BY <3>1, <3>2, <3>3 DEF Audit
  <2>2. CASE IdleTick \/ Abort
    BY <2>2 DEF IdleTick, Abort, Idle, Audit
  <2> QED BY <2>1, <2>2
<1>6. Claimed'
  BY <1>1, <1>2, <1>5 DEF Claimed
<1> QED BY <1>1, <1>2, <1>3, <1>4, <1>5, <1>6 DEF TypeOK, RegOK, FleetOK, BooksOK, HistoryOK

LEMMA RestTypes ==
  ASSUME IInv, Restart \/ DiskFills \/ (\E k \in Keys : Reverify(k[1], k[2])) \/ UNCHANGED vars
  PROVE  TypeOK' /\ Claimed'
<1>1. TypeOK /\ Claimed /\ RegOK /\ FleetOK /\ BooksOK /\ HistoryOK
  BY TypeParts DEF IInv
<1>2. CASE Restart
  <2>1. /\ reg' = disk /\ disk' = disk /\ diskOK' = diskOK /\ able' = able
        /\ proven' = proven /\ interfered' = interfered /\ audit' = Idle
        /\ servable' = {} /\ Event
    BY <1>2 DEF Restart, history
  <2>2. evidence' \in [Keys -> BoundedSeq(0 .. Questions, Window)] /\ fails' \in [Keys -> 0 .. FailsToBan]
    <3>1. << >> \in BoundedSeq(0 .. Questions, Window)
      <4>1. << >> \in [1 .. 0 -> 0 .. Questions] /\ 0 \in 0 .. Window
        BY AuditorAssumption DEF AuditorAssumption
      <4> QED BY <4>1 DEF BoundedSeq, SeqOf
    <3> QED BY <1>2, <3>1, AuditorAssumption DEF Restart, AuditorAssumption
  <2>3. events' \in 0 .. MaxEvents
    BY <1>1, <2>1, AuditorAssumption DEF Event, TypeOK, AuditorAssumption
  <2>4. Claimed'
    BY <2>1 DEF Claimed, Idle
  <2> QED BY <1>1, <2>1, <2>2, <2>3, <2>4 DEF TypeOK, Audit
<1>3. CASE DiskFills
  <2>1. /\ reg' = reg /\ disk' = disk /\ FleetOK' /\ BooksOK' /\ audit' = audit
        /\ proven' = proven /\ Event
    BY <1>1, <1>3 DEF DiskFills, fleet, books, FleetOK, BooksOK
  <2>2. events' \in 0 .. MaxEvents
    BY <1>1, <2>1, AuditorAssumption DEF Event, TypeOK, AuditorAssumption
  <2>3. diskOK' \in BOOLEAN /\ interfered' \in BOOLEAN
    BY <1>3, Zenon DEF DiskFills
  <2>4. Claimed'
    BY <1>1, <2>1 DEF Claimed
  <2> QED BY <1>1, <2>1, <2>2, <2>3, <2>4 DEF TypeOK, FleetOK, BooksOK
<1>4. ASSUME NEW k \in Keys, Reverify(k[1], k[2])
      PROVE  TypeOK' /\ Claimed'
  <2>1. k = <<k[1], k[2]>>
    BY KeyFields
  <2>2. RegOK' /\ FleetOK' /\ HistoryOK' /\ audit' = audit /\ Event
    BY <1>1, <1>4 DEF Reverify, registry, fleet, history, RegOK, FleetOK, HistoryOK
  <2>3. evidence' = [evidence EXCEPT ![k] = << >>] /\ fails' = [fails EXCEPT ![k] = 0]
    BY <1>4, <2>1 DEF Reverify
  <2>4. BooksOK'
    BY <1>1, <2>3, EvidenceCleared DEF BooksOK
  <2>5. events' \in 0 .. MaxEvents
    BY <1>1, <2>2, AuditorAssumption DEF Event, TypeOK, AuditorAssumption
  <2>6. Claimed'
    BY <1>1, <2>2 DEF Claimed
  <2> QED BY <1>1, <2>2, <2>4, <2>5, <2>6 DEF TypeOK, RegOK, FleetOK, BooksOK, HistoryOK
<1>5. CASE UNCHANGED vars
  BY <1>1, <1>5 DEF vars, TypeOK, Claimed
<1> QED BY <1>2, <1>3, <1>4, <1>5

LEMMA TypeNext == IInv /\ [Next]_vars => TypeOK' /\ Claimed'
BY OutsideTypes, TickTypes, RestTypes, VerifiedTypes, JudgeTypes, SpottedTypes, ConfirmTypes,
   BanTypes, StoreTypes
DEF Next, Probe

-----------------------------------------------------------------------------
(***************************************************************************)
(* The safety properties.                                                  *)
(***************************************************************************)
\* Steps after which every registered worker was registered before, or is
\* new, and is trusted with the same models.
TrustStays ==
  /\ \A v \in Workers : reg'[v] # None =>
       \/ reg[v] # None /\ reg'[v].verified = reg[v].verified
       \/ reg'[v].verified = {}
  /\ proven \subseteq proven'

\* Steps that ban and remove nobody.
NoNewBan ==
  \A v \in Workers : reg[v] # None => reg'[v] # None /\ (~Banned(v) => ~Banned(v)')

\* The audit under way is the same, or there is none.
SameAudit == audit' = audit \/ audit' = Idle

LEMMA QuietStep ==
  ASSUME IInv, TrustStays, NoNewBan, SameAudit, interfered' = interfered,
         Registered # {} \/ \A v \in Workers : reg'[v] # None => ~Banned(v)'
  PROVE  Carried' /\ AnotherIsLeft' /\ AdmittedIsProven' /\ SomeoneIsLeft'
<1>0. Carried /\ AnotherIsLeft /\ AdmittedIsProven /\ SomeoneIsLeft
  BY DEF IInv
<1>1. Carried'
  BY <1>0 DEF Carried, SameAudit, TrustStays, Idle
<1>2. AnotherIsLeft'
  BY <1>0 DEF AnotherIsLeft, SameAudit, NoNewBan, Registered, Banned, Idle
<1>3. AdmittedIsProven'
  BY <1>0 DEF AdmittedIsProven, TrustStays, Registered
<1>4. SomeoneIsLeft'
  BY <1>0 DEF SomeoneIsLeft, NoNewBan, Registered, Banned
<1> QED BY <1>1, <1>2, <1>3, <1>4

LEMMA Interference ==
  ASSUME IInv, interfered' = TRUE, audit' = audit, proven' = proven
  PROVE  Synced' /\ Carried' /\ AnotherIsLeft' /\ AdmittedIsProven' /\ SomeoneIsLeft'
BY DEF IInv, Synced, Carried, AnotherIsLeft, AdmittedIsProven, SomeoneIsLeft

\* The file follows the registry through saves and through time.
LEMMA SaveSynced ==
  ASSUME Synced, NEW new, Save(new), interfered' = interfered
  PROVE  Synced' /\ reg' = new
BY DEF Synced, Save

\* After a change of w's entry alone, read through the same functions.
LEMMA OneEntry ==
  ASSUME RegOK, NEW w \in Workers, NEW e, reg' = [reg EXCEPT ![w] = e]
  PROVE  reg'[w] = e /\ \A v \in Workers : v # w => reg'[v] = reg[v]
BY DEF RegOK

LEMMA RegisterSafe ==
  ASSUME IInv, NEW w \in Workers, Register(w)
  PROVE  Synced' /\ Carried' /\ AnotherIsLeft' /\ AdmittedIsProven' /\ SomeoneIsLeft'
<1> DEFINE e == IF reg[w] = None THEN NewEntry ELSE reg[w]
<1>1. audit' = audit /\ proven' = proven /\ interfered' = interfered /\ Synced /\ RegOK
  BY TypeParts DEF Register, history, IInv
<1>2. Save([reg EXCEPT ![w] = e])
  BY DEF Register
<1>3. Synced' /\ reg' = [reg EXCEPT ![w] = e]
  BY <1>1, <1>2, SaveSynced
<1>4. reg'[w] = e /\ \A v \in Workers : v # w => reg'[v] = reg[v]
  BY <1>1, <1>3, OneEntry
<1>5. NewEntry.verified = {} /\ NewEntry.ban = "none"
  BY DEF NewEntry
<1>6. TrustStays /\ NoNewBan
  BY <1>1, <1>4, <1>5 DEF TrustStays, NoNewBan, Banned
<1>7. Registered # {} \/ \A v \in Workers : reg'[v] # None => ~Banned(v)'
  BY <1>4, <1>5 DEF Registered, Banned
<1> QED BY <1>1, <1>3, <1>6, <1>7, QuietStep DEF SameAudit

\* Lifting a ban, and what time does to an entry.
LEMMA RelaxedSafe ==
  ASSUME IInv, NEW w \in Workers, w \in Registered, NEW e,
         reg' = [reg EXCEPT ![w] = e], e # None, e.verified = reg[w].verified,
         e.ban \in {"none", reg[w].ban},
         audit' = audit, proven' = proven, interfered' = interfered
  PROVE  Carried' /\ AnotherIsLeft' /\ AdmittedIsProven' /\ SomeoneIsLeft'
<1>1. reg'[w] = e /\ \A v \in Workers : v # w => reg'[v] = reg[v]
  BY OneEntry, TypeParts DEF IInv
<1>2. TrustStays /\ NoNewBan /\ Registered # {}
  BY <1>1 DEF TrustStays, NoNewBan, Banned, Registered
<1> QED BY <1>2, QuietStep DEF SameAudit

LEMMA SameRegistrySafe ==
  ASSUME IInv, registry' = registry, audit' = audit \/ audit' = Idle,
         proven' = proven, interfered' = interfered
  PROVE  Synced' /\ Carried' /\ AnotherIsLeft' /\ AdmittedIsProven' /\ SomeoneIsLeft'
<1>1. reg' = reg /\ disk' = disk /\ diskOK' = diskOK
  BY DEF registry
<1>2. Synced'
  BY <1>1 DEF IInv, Synced
<1>3. Carried'
  BY DEF IInv, Carried, Idle
<1>4. AnotherIsLeft'
  BY <1>1 DEF IInv, AnotherIsLeft, Registered, Banned, Idle
<1>5. AdmittedIsProven' /\ SomeoneIsLeft'
  BY <1>1 DEF IInv, AdmittedIsProven, SomeoneIsLeft, Registered, Banned
<1> QED BY <1>2, <1>3, <1>4, <1>5

LEMMA OperatorSafe ==
  ASSUME IInv, NEW w \in Workers, NEW on \in BOOLEAN, OperatorBan(w, on)
  PROVE  Synced' /\ Carried' /\ AnotherIsLeft' /\ AdmittedIsProven' /\ SomeoneIsLeft'
<1>1. CASE on = TRUE
  <2>1. interfered' = TRUE /\ audit' = audit /\ proven' = proven
    BY <1>1, Zenon DEF OperatorBan
  <2> QED BY <2>1, Interference
<1>2. CASE on = FALSE
  <2> DEFINE e == [reg[w] EXCEPT !.ban = "none"]
  <2>0. RegOK /\ w \in Registered /\ reg[w] \in Entry /\ interfered \in BOOLEAN
    BY RegEntry, TypeParts DEF OperatorBan, IInv, HistoryOK
  <2>1. interfered' = interfered
    BY <1>2, <2>0 DEF OperatorBan
  <2>2. audit' = audit /\ proven' = proven
    BY DEF OperatorBan
  <2>3. Save([reg EXCEPT ![w].ban = "none"])
    BY <1>2 DEF OperatorBan
  <2>4. Synced' /\ reg' = [reg EXCEPT ![w] = e]
    BY <2>0, <2>1, <2>3, SaveSynced DEF IInv, RegOK
  <2>5. e \in Entry /\ e.verified = reg[w].verified /\ e.ban = "none"
    BY <2>0, EntryChanges DEF Entry
  <2>6. e # None
    BY <2>5, NoneAssumption
  <2> QED BY <2>0, <2>1, <2>2, <2>4, <2>5, <2>6, RelaxedSafe
<1> QED BY <1>1, <1>2

LEMMA TimeSafe ==
  ASSUME IInv, NEW w \in Workers, BanEnds(w) \/ ProofExpires(w)
  PROVE  Synced' /\ Carried' /\ AnotherIsLeft' /\ AdmittedIsProven' /\ SomeoneIsLeft'
<1>0. RegOK /\ Synced /\ w \in Registered /\ reg[w] \in Entry
  BY RegEntry, TypeParts DEF BanEnds, ProofExpires, IInv
<1>1. audit' = audit /\ proven' = proven /\ interfered' = interfered /\ diskOK' = diskOK
  BY DEF BanEnds, ProofExpires, history
<1>2. PICK e \in Entry : /\ reg' = [reg EXCEPT ![w] = e]
                         /\ e.verified = reg[w].verified /\ e.ban \in {"none", reg[w].ban}
                         /\ disk = reg => disk' = [disk EXCEPT ![w] = e]
  <2>1. CASE BanEnds(w)
    <3> DEFINE e == [reg[w] EXCEPT !.ban = "none"]
    <3>1. e \in Entry /\ e.verified = reg[w].verified /\ e.ban = "none"
      BY <1>0, EntryChanges DEF Entry
    <3>2. reg' = [reg EXCEPT ![w] = e]
      BY <1>0, <2>1 DEF BanEnds, RegOK
    <3>3. disk = reg => disk' = [disk EXCEPT ![w] = e]
      BY <1>0, <2>1 DEF BanEnds, RegOK, Registered
    <3> QED BY <3>1, <3>2, <3>3
  <2>2. CASE ProofExpires(w)
    <3> DEFINE e == [reg[w] EXCEPT !.fresh = FALSE]
    <3>1. e \in Entry /\ e.verified = reg[w].verified /\ e.ban = reg[w].ban
      BY <1>0, EntryChanges DEF Entry
    <3>2. reg' = [reg EXCEPT ![w] = e]
      BY <1>0, <2>2 DEF ProofExpires, RegOK
    <3>3. disk = reg => disk' = [disk EXCEPT ![w] = e]
      BY <1>0, <2>2 DEF ProofExpires, RegOK, Registered
    <3> QED BY <3>1, <3>2, <3>3
  <2> QED BY <2>1, <2>2
<1>3. Synced'
  BY <1>0, <1>1, <1>2 DEF Synced
<1> QED BY <1>0, <1>1, <1>2, <1>3, RelaxedSafe, NoneAssumption

\* The bans grow old together, in the registry and in its file.
LEMMA AgedEntries ==
  ASSUME RegOK, reg' = Aged(reg)
  PROVE  \A v \in Workers : /\ (reg'[v] # None) = (reg[v] # None)
                            /\ reg[v] # None => /\ reg'[v].verified = reg[v].verified
                                                /\ (reg'[v].ban = "none") = (reg[v].ban = "none")
<1> SUFFICES ASSUME NEW v \in Workers
             PROVE  /\ (reg'[v] # None) = (reg[v] # None)
                    /\ reg[v] # None => /\ reg'[v].verified = reg[v].verified
                                        /\ (reg'[v].ban = "none") = (reg[v].ban = "none")
  OBVIOUS
<1>1. reg'[v] = IF reg[v] # None /\ reg[v].ban = "new" THEN [reg[v] EXCEPT !.ban = "old"] ELSE reg[v]
  BY DEF Aged
<1>2. CASE reg[v] # None /\ reg[v].ban = "new"
  <2>1. reg[v] \in Entry
    BY <1>2 DEF RegOK
  <2>2. [reg[v] EXCEPT !.ban = "old"] \in Entry
    BY <2>1, EntryChanges
  <2> QED BY <1>1, <1>2, <2>1, <2>2, NoneAssumption DEF Entry
<1>3. CASE ~(reg[v] # None /\ reg[v].ban = "new")
  BY <1>1, <1>3
<1> QED BY <1>2, <1>3

LEMMA TickSafe ==
  ASSUME IInv, (\E w \in Workers : Tick(w)) \/ IdleTick
  PROVE  Synced' /\ Carried' /\ AnotherIsLeft' /\ AdmittedIsProven' /\ SomeoneIsLeft'
<1>0. RegOK /\ Synced /\ AdmittedIsProven /\ SomeoneIsLeft
  BY TypeParts DEF IInv
<1>1. /\ reg' = Aged(reg) /\ disk' = Aged(disk) /\ diskOK' = diskOK
      /\ proven' = proven /\ interfered' = interfered
  BY DEF Tick, IdleTick, history
<1>2. audit'.step \in {"idle", "verify", "spot"}
  <2>1. ASSUME NEW w \in Workers, Tick(w) PROVE audit'.step \in {"verify", "spot"}
    BY <1>0, <2>1, ChosenClaimed DEF Tick, IInv
  <2>2. CASE IdleTick
    BY <2>2 DEF IdleTick, Idle
  <2> QED BY <2>1, <2>2
<1>3. Synced'
  BY <1>0, <1>1 DEF Synced
<1>4. Carried' /\ AnotherIsLeft'
  BY <1>2 DEF Carried, AnotherIsLeft
<1>5. \A v \in Workers : /\ (reg'[v] # None) = (reg[v] # None)
                         /\ reg[v] # None => /\ reg'[v].verified = reg[v].verified
                                             /\ (reg'[v].ban = "none") = (reg[v].ban = "none")
  BY <1>0, <1>1, AgedEntries
<1>6. AdmittedIsProven' /\ SomeoneIsLeft'
  BY <1>0, <1>1, <1>5 DEF AdmittedIsProven, SomeoneIsLeft, Registered, Banned
<1> QED BY <1>3, <1>4, <1>6

LEMMA RestartSafe ==
  ASSUME IInv, Restart
  PROVE  Synced' /\ Carried' /\ AnotherIsLeft' /\ AdmittedIsProven' /\ SomeoneIsLeft'
<1>1. /\ reg' = disk /\ disk' = disk /\ diskOK' = diskOK
      /\ proven' = proven /\ interfered' = interfered /\ audit' = Idle
  BY DEF Restart, history
<1>2. Carried' /\ AnotherIsLeft'
  BY <1>1 DEF Carried, AnotherIsLeft, Idle
<1>3. CASE interfered
  BY <1>1, <1>2, <1>3 DEF Synced, AdmittedIsProven, SomeoneIsLeft
<1>4. CASE ~interfered
  <2>1. registry' = registry
    BY <1>1, <1>4 DEF IInv, Synced, registry
  <2> QED BY <1>1, <2>1, SameRegistrySafe
<1> QED BY <1>3, <1>4

\* Steps of a probe that leave the registry alone: what they know is carried
\* to the next one.
LEMMA ProbeSafe ==
  ASSUME IInv, registry' = registry, proven \subseteq proven', interfered' = interfered,
         Carried', AnotherIsLeft'
  PROVE  Synced' /\ Carried' /\ AnotherIsLeft' /\ AdmittedIsProven' /\ SomeoneIsLeft'
<1>1. reg' = reg /\ disk' = disk /\ diskOK' = diskOK
  BY DEF registry
<1>2. Synced'
  BY <1>1 DEF IInv, Synced
<1>3. AdmittedIsProven' /\ SomeoneIsLeft'
  BY <1>1 DEF IInv, AdmittedIsProven, SomeoneIsLeft, Registered, Banned
<1> QED BY <1>2, <1>3

LEMMA VerifiedSafe ==
  ASSUME IInv, Verified
  PROVE  Synced' /\ Carried' /\ AnotherIsLeft' /\ AdmittedIsProven' /\ SomeoneIsLeft'
<1> DEFINE k == <<audit.w, audit.m>>
           runs == Recorded(evidence[k], ScoreOf(audit.w))
<1>1. /\ audit' = [step |-> "judge", w |-> audit.w, m |-> audit.m,
                   pass |-> AtFloor(runs), full |-> Full(runs)]
      /\ proven' = IF AtFloor(runs) THEN proven \cup {k} ELSE proven
      /\ registry' = registry /\ interfered' = interfered
  BY DEF Verified
<1> HIDE DEF runs
<1>2. Carried' /\ AnotherIsLeft'
  BY <1>1 DEF Carried, AnotherIsLeft
<1> QED BY <1>1, <1>2, ProbeSafe

\* The list that Judge makes: what was trusted, and the model if it passed.
LEMMA JudgeSafe ==
  ASSUME IInv, Judge
  PROVE  Synced' /\ Carried' /\ AnotherIsLeft' /\ AdmittedIsProven' /\ SomeoneIsLeft'
<1>0. Carried /\ AdmittedIsProven /\ audit.step = "judge"
  BY DEF IInv, Judge
<1>1. registry' = registry /\ proven' = proven /\ interfered' = interfered
  BY DEF Judge, history
<1>2. \/ audit' = Idle
      \/ /\ audit.w \in Registered
         /\ \E s : /\ \/ audit' = [step |-> "store", w |-> audit.w, m |-> audit.m, set |-> s]
                      \/ audit' = [step |-> "confirm", w |-> audit.w, m |-> audit.m, kind |-> "verify", set |-> s]
                   /\ \/ audit.pass /\ s = reg[audit.w].verified \cup {audit.m}
                      \/ s = reg[audit.w].verified \ {audit.m}
  BY DEF Judge, Verdict
<1>3. Carried'
  BY <1>0, <1>1, <1>2 DEF Carried, AdmittedIsProven, Idle
<1>4. AnotherIsLeft'
  BY <1>2 DEF AnotherIsLeft, Idle
<1> QED BY <1>1, <1>3, <1>4, ProbeSafe

LEMMA SpottedSafe ==
  ASSUME IInv, Spotted
  PROVE  Synced' /\ Carried' /\ AnotherIsLeft' /\ AdmittedIsProven' /\ SomeoneIsLeft'
<1>1. registry' = registry /\ proven' = proven /\ interfered' = interfered
  BY DEF Spotted, history
<1>2. \/ audit' = Idle
      \/ audit' = [step |-> "confirm", w |-> audit.w, m |-> audit.m, kind |-> "spot", set |-> {}]
  BY DEF Spotted
<1>3. Carried' /\ AnotherIsLeft'
  BY <1>2 DEF Carried, AnotherIsLeft, Idle
<1> QED BY <1>1, <1>3, ProbeSafe

LEMMA ConfirmSafe ==
  ASSUME IInv, Confirm
  PROVE  Synced' /\ Carried' /\ AnotherIsLeft' /\ AdmittedIsProven' /\ SomeoneIsLeft'
<1>0. /\ audit.step = "confirm" /\ Carried
      /\ audit \in [step: {"confirm", "ban", "setban"}, w: Workers, m: Models,
                    kind: {"verify", "spot"}, set: SUBSET Models]
  BY AuditFields DEF Confirm, IInv, TypeOK
<1>1. registry' = registry /\ proven' = proven /\ interfered' = interfered
  BY DEF Confirm, history
<1>2. audit' \in {Idle, [audit EXCEPT !.step = "ban"]}
  BY DEF Confirm
<1>3. audit' = Idle \/ (audit'.step = "ban" /\ audit'.w = audit.w /\ audit'.set = audit.set)
  BY <1>0, <1>2
<1>4. Carried' /\ AnotherIsLeft'
  BY <1>0, <1>1, <1>3 DEF Carried, AnotherIsLeft, Idle
<1> QED BY <1>1, <1>4, ProbeSafe

\* The fleet was inspected: whoever else can serve is still there when the
\* ban is set, since only an operator bans or removes anybody meanwhile.
LEMMA BanOrWarnSafe ==
  ASSUME IInv, BanOrWarn
  PROVE  Synced' /\ Carried' /\ AnotherIsLeft' /\ AdmittedIsProven' /\ SomeoneIsLeft'
<1>0. /\ audit.step = "ban" /\ Carried
      /\ audit \in [step: {"confirm", "ban", "setban"}, w: Workers, m: Models,
                    kind: {"verify", "spot"}, set: SUBSET Models]
  BY AuditFields DEF BanOrWarn, IInv, TypeOK
<1>1. registry' = registry /\ proven' = proven /\ interfered' = interfered /\ reg' = reg
  BY DEF BanOrWarn, history, registry
<1>2. CASE audit' = AfterBan(audit)
  <2>1. audit'.step \in {"idle", "store"} /\ (audit'.step = "store" => audit'.w = audit.w /\ audit'.set = audit.set)
    BY <1>0, <1>2 DEF AfterBan, Idle
  <2>2. Carried' /\ AnotherIsLeft'
    BY <1>0, <1>1, <2>1 DEF Carried, AnotherIsLeft
  <2> QED BY <1>1, <2>2, ProbeSafe
<1>3. CASE ~BanWouldEmptyFleet(audit.w) /\ audit' = [audit EXCEPT !.step = "setban"]
  <2>1. audit'.step = "setban" /\ audit'.w = audit.w /\ audit'.set = audit.set
    BY <1>0, <1>3
  <2>2. Carried'
    BY <1>0, <1>1, <2>1 DEF Carried
  <2>3. PICK v \in Eligible : v # audit.w
    BY <1>3 DEF BanWouldEmptyFleet
  <2>4. AnotherIsLeft'
    BY <1>1, <2>1, <2>3 DEF AnotherIsLeft, Eligible, Registered, Banned
  <2> QED BY <1>1, <2>2, <2>4, ProbeSafe
<1> QED BY <1>2, <1>3 DEF BanOrWarn

LEMMA SetBanSafe ==
  ASSUME IInv, SetBan
  PROVE  Synced' /\ Carried' /\ AnotherIsLeft' /\ AdmittedIsProven' /\ SomeoneIsLeft'
<1> DEFINE w == audit.w
           e == [reg[w] EXCEPT !.ban = "new"]
<1>0. /\ audit.step = "setban" /\ Carried /\ RegOK /\ Synced /\ AnotherIsLeft /\ AdmittedIsProven
      /\ audit \in [step: {"confirm", "ban", "setban"}, w: Workers, m: Models,
                    kind: {"verify", "spot"}, set: SUBSET Models]
  BY AuditFields, TypeParts DEF SetBan, IInv, TypeOK
<1>1. proven' = proven /\ interfered' = interfered /\ audit' = AfterBan(audit)
  BY DEF SetBan, history
<1>2. audit'.step \in {"idle", "store"} /\ (audit'.step = "store" => audit'.w = audit.w /\ audit'.set = audit.set)
  BY <1>0, <1>1 DEF AfterBan, Idle
<1>3. Carried' /\ AnotherIsLeft'
  BY <1>0, <1>1, <1>2 DEF Carried, AnotherIsLeft
<1>4. CASE w \notin Registered
  <2>1. registry' = registry
    BY <1>4 DEF SetBan
  <2> QED BY <1>1, <1>3, <2>1, ProbeSafe
<1>5. CASE w \in Registered
  <2>1. w \in Workers /\ reg[w] \in Entry
    BY <1>0, <1>5, RegEntry
  <2>2. Save([reg EXCEPT ![w].ban = "new"])
    BY <1>5 DEF SetBan
  <2>3. [reg EXCEPT ![w].ban = "new"] = [reg EXCEPT ![w] = e]
    BY <1>0, <2>1 DEF RegOK
  <2>4. Synced' /\ reg' = [reg EXCEPT ![w] = e]
    BY <1>0, <1>1, <2>2, <2>3, SaveSynced
  <2>5. reg'[w] = e /\ e.verified = reg[w].verified /\ \A v \in Workers : v # w => reg'[v] = reg[v]
    BY <1>0, <2>1, <2>4, OneEntry DEF Entry
  <2>6. AdmittedIsProven'
    BY <1>0, <1>1, <1>5, <2>5 DEF AdmittedIsProven, Registered
  <2>7. SomeoneIsLeft'
    BY <1>0, <1>1, <2>5 DEF SomeoneIsLeft, AnotherIsLeft, Registered, Banned
  <2> QED BY <1>3, <2>4, <2>6, <2>7
<1> QED BY <1>4, <1>5

LEMMA StoreSafe ==
  ASSUME IInv, SetVerified
  PROVE  Synced' /\ Carried' /\ AnotherIsLeft' /\ AdmittedIsProven' /\ SomeoneIsLeft'
<1> DEFINE w == audit.w
           e == [reg[w] EXCEPT !.verified = audit.set, !.fresh = (audit.set # {})]
<1>0. /\ audit.step = "store" /\ Carried /\ RegOK /\ Synced /\ AdmittedIsProven /\ SomeoneIsLeft
      /\ audit.set \in SUBSET Models
  BY AuditFields, TypeParts DEF SetVerified, IInv, TypeOK
<1>1. interfered' = interfered /\ audit' = Idle
  BY DEF SetVerified
<1>2. proven' = IF audit.m \in audit.set THEN proven ELSE proven \ {<<w, audit.m>>}
  BY DEF SetVerified
<1>3. Carried' /\ AnotherIsLeft'
  BY <1>1 DEF Carried, AnotherIsLeft, Idle
<1>4. CASE w \notin Registered
  <2>1. reg' = reg /\ disk' = disk /\ diskOK' = diskOK
    BY <1>4 DEF SetVerified, registry
  <2>2. Synced' /\ SomeoneIsLeft'
    BY <1>0, <1>1, <2>1 DEF Synced, SomeoneIsLeft, Registered, Banned
  <2>3. AdmittedIsProven'
    BY <1>0, <1>1, <1>2, <1>4, <2>1 DEF AdmittedIsProven, Registered
  <2> QED BY <1>3, <2>2, <2>3
<1>5. CASE w \in Registered
  <2>1. w \in Workers /\ reg[w] \in Entry
    BY <1>0, <1>5, RegEntry
  <2>2. Save([reg EXCEPT ![w].verified = audit.set, ![w].fresh = (audit.set # {})])
    BY <1>5 DEF SetVerified
  <2>3. [reg EXCEPT ![w].verified = audit.set, ![w].fresh = (audit.set # {})] = [reg EXCEPT ![w] = e]
    BY <1>0, <2>1 DEF RegOK
  <2>4. Synced' /\ reg' = [reg EXCEPT ![w] = e]
    BY <1>0, <1>1, <2>2, <2>3, SaveSynced
  <2>5. /\ reg'[w] = e /\ e.verified = audit.set /\ e.ban = reg[w].ban /\ e \in Entry
        /\ \A v \in Workers : v # w => reg'[v] = reg[v]
    <3>1. e \in Entry
      BY <1>0, <2>1, EntryChanges
    <3>2. e.verified = audit.set /\ e.ban = reg[w].ban
      BY <2>1 DEF Entry
    <3> HIDE DEF e
    <3>3. reg'[w] = e /\ \A v \in Workers : v # w => reg'[v] = reg[v]
      BY <1>0, <2>1, <2>4, OneEntry
    <3> QED BY <3>1, <3>2, <3>3
  <2>6. AdmittedIsProven'
    <3> SUFFICES ASSUME ~interfered, NEW v \in Workers, reg'[v] # None, NEW m \in reg'[v].verified
                 PROVE  <<v, m>> \in proven'
      BY <1>1 DEF AdmittedIsProven, Registered
    <3>1. CASE v = w
      <4>1. m \in audit.set /\ <<w, m>> \in proven
        BY <1>0, <2>5, <3>1 DEF Carried
      <4> QED BY <1>2, <3>1, <4>1
    <3>2. CASE v # w
      <4>1. <<v, m>> \in proven
        BY <1>0, <2>5, <3>2 DEF AdmittedIsProven, Registered
      <4> QED BY <1>2, <3>2, <4>1
    <3> QED BY <3>1, <3>2
  <2>7. SomeoneIsLeft'
    <3> SUFFICES ASSUME ~interfered PROVE \E v \in Workers : reg'[v] # None /\ reg'[v].ban = "none"
      BY <1>1 DEF SomeoneIsLeft, Registered, Banned
    <3>1. PICK v \in Registered : ~Banned(v)
      BY <1>0, <1>5 DEF SomeoneIsLeft
    <3>2. v \in Workers /\ reg[v] # None /\ reg[v].ban = "none"
      BY <3>1 DEF Registered, Banned
    <3>3. reg'[v] # None /\ reg'[v].ban = "none"
      BY <2>5, <3>2, NoneAssumption
    <3> QED BY <3>2, <3>3
  <2> QED BY <1>3, <2>4, <2>6, <2>7
<1> QED BY <1>4, <1>5

LEMMA SafetyNext ==
  IInv /\ [Next]_vars => Synced' /\ Carried' /\ AnotherIsLeft' /\ AdmittedIsProven' /\ SomeoneIsLeft'
<1> SUFFICES ASSUME IInv, [Next]_vars
             PROVE  Synced' /\ Carried' /\ AnotherIsLeft' /\ AdmittedIsProven' /\ SomeoneIsLeft'
  OBVIOUS
<1>1. ASSUME NEW w \in Workers, Deregister(w)
      PROVE  Synced' /\ Carried' /\ AnotherIsLeft' /\ AdmittedIsProven' /\ SomeoneIsLeft'
  BY <1>1, Interference DEF Deregister
<1>2. ASSUME NEW w \in Workers, Lapse(w) \/ PolledServable(w) \/ PolledMining(w)
      PROVE  Synced' /\ Carried' /\ AnotherIsLeft' /\ AdmittedIsProven' /\ SomeoneIsLeft'
  BY <1>2, SameRegistrySafe DEF Lapse, PolledServable, PolledMining, history
<1>3. ASSUME NEW k \in Keys, Reverify(k[1], k[2])
      PROVE  Synced' /\ Carried' /\ AnotherIsLeft' /\ AdmittedIsProven' /\ SomeoneIsLeft'
  BY <1>3, SameRegistrySafe DEF Reverify, history
<1>4. CASE DiskFills
  BY <1>4, Interference DEF DiskFills
<1>5. CASE Abort \/ UNCHANGED vars
  BY <1>5, SameRegistrySafe DEF Abort, vars, registry, history
<1> QED BY <1>1, <1>2, <1>3, <1>4, <1>5, RegisterSafe, OperatorSafe, TimeSafe, TickSafe, RestartSafe,
           VerifiedSafe, JudgeSafe, SpottedSafe, ConfirmSafe, BanOrWarnSafe, SetBanSafe, StoreSafe
        DEF Next, Probe

-----------------------------------------------------------------------------
LEMMA Invariance == Spec => []IInv
<1>1. IInv /\ [Next]_vars => IInv'
  BY TypeNext, SafetyNext DEF IInv
<1> QED BY <1>1, InitInv, PTL DEF Spec

(***************************************************************************)
(* The state of the registry, of the auditor and of its books keeps its    *)
(* type: no score window outgrows evidenceWindow, and no run is about a    *)
(* model its worker does not claim.                                        *)
(***************************************************************************)
THEOREM TypeCorrect == Spec => []TypeOK
BY Invariance, PTL DEF IInv

(***************************************************************************)
(* Routing trusts evidence: a model in verified_models reached its floor   *)
(* and was not taken back since (verifyModel, SetVerified), through        *)
(* re-registrations, retries and restarts, for any fleet, as long as every *)
(* save succeeds and no ID is removed.                                     *)
(***************************************************************************)
THEOREM TrustIsEarned == Spec => []AdmittedIsProven
BY Invariance, PTL DEF IInv

(***************************************************************************)
(* The auditor leaves somebody to serve (banWouldEmptyFleet, SetBan), in a *)
(* fleet of any size, although the ban is set after the fleet was          *)
(* inspected and not under the same lock.                                  *)
(***************************************************************************)
THEOREM BansLeaveSomeone == Spec => []SomeoneIsLeft
BY Invariance, PTL DEF IInv
=============================================================================
