----------------------------- MODULE Reconciler -----------------------------
(***************************************************************************)
(* The reconciler (internal/settlement/reconcile.go) with the request log   *)
(* it reads through a Scanner of its own (RequestLog) and the two books it  *)
(* compares the log with: the settled total of the settler and the          *)
(* pendingSpend of the balance gate, which requests and settlements change  *)
(* while a pass reads them.  Money is counted in requests: each costs one   *)
(* unit, is reserved at Estimate before it is served, logged, and only then *)
(* corrected.  A settlement lowers pendingSpend first and raises the        *)
(* settled total afterwards (settler.go:489-494).                           *)
(***************************************************************************)
EXTENDS RequestLog

CONSTANT Estimate      \* what a request reserves, in units of its cost

ASSUME EstimateAssumption == Estimate \in Nat \ {0}

VARIABLES
    st,         \* rc.st
    stFile,     \* reconcile-state.json
    phase,      \* where the reconciler is
    took,       \* the settled total that the pass in progress has read
    report,     \* the pass's report: its drift, and whether the pass was calm
    settled,    \* the settler's settled-total file
    spos,       \* records the settler's cursor has passed
    owed,       \* settled, and not yet added to the total (it is in the WAL)
    pending,    \* BalanceCache.pendingSpend, all wallets
    restored,   \* the settler has restored pendingSpend since the start
    req,        \* a request: none, reserved or logged
    calm,       \* history: nothing has moved since the pass began
    doubts      \* history: circumstances the comparison does not survive

pass  == <<st, stFile, phase, took, report>>
books == <<settled, spos, owed, pending, restored, req>>
vars  == <<logVars, pass, books, calm, doubts>>

NoReport == [drift |-> 0, calm |-> FALSE]

NoState == [init |-> FALSE, billed |-> 0, settled |-> 0, pending |-> 0]

-----------------------------------------------------------------------------
(* Requests and settlements *)

Reserve ==
    /\ req = "none" /\ req' = "reserved"
    /\ lines < MaxLines
    /\ pending' = pending + Estimate
    /\ calm' = FALSE
    /\ UNCHANGED <<logVars, pass, settled, spos, owed, restored, doubts>>

Serve ==
    /\ req = "reserved" /\ req' = "logged"
    /\ LogBillable
    /\ calm' = FALSE
    /\ UNCHANGED <<pass, settled, spos, owed, pending, restored, doubts>>

\* The record is not written: what the request cost stays reserved.
ServeUnlogged ==
    /\ req = "reserved" /\ req' = "logged"
    /\ LogTorn \/ (handle = NoFile /\ shift = Idle /\ UNCHANGED logVars)
    /\ calm' = FALSE /\ doubts' = doubts \cup {"unlogged"}
    /\ UNCHANGED <<pass, settled, spos, owed, pending, restored>>

Adjust ==
    /\ req = "logged" /\ req' = "none"
    /\ pending' = pending - (Estimate - 1)
    /\ calm' = FALSE
    /\ UNCHANGED <<logVars, pass, settled, spos, owed, restored, doubts>>

\* resumePending, its end: the cursor and pendingSpend, then the settled total.
SettleBegin ==
    /\ owed = 0 /\ restored
    /\ spos < written /\ spos' = written
    /\ owed' = written - spos
    /\ pending' = Max({pending - (written - spos), 0})
    /\ calm' = FALSE
    /\ UNCHANGED <<logVars, pass, settled, restored, req, doubts>>

SettleEnd ==
    /\ owed > 0 /\ owed' = 0
    /\ settled' = settled + owed
    /\ calm' = FALSE
    /\ UNCHANGED <<logVars, pass, spos, pending, restored, req, doubts>>

\* restorePendingSpend, when an interrupted settlement has been finished: the
\* records behind the settler's cursor, on top of what was reserved meanwhile.
Restore ==
    /\ ~restored /\ owed = 0
    /\ restored' = TRUE
    /\ pending' = pending + (written - spos)
    /\ calm' = FALSE
    /\ doubts' = doubts \cup Excuse("boot", pending > 0)
    /\ UNCHANGED <<logVars, pass, settled, spos, owed, req>>

-----------------------------------------------------------------------------
(* The reconciler *)

\* No request or settlement is under way, and the log is open.
Quiet == req = "none" /\ owed = 0 /\ restored /\ handle # NoFile

\* Run, called by the loop of Start or by GET /api/v1/reconcile, which waits for
\* nothing: Peek,
RunBegin ==
    /\ phase = "idle" /\ phase' = "peek"
    /\ PeekBegin \/ PeekNoCursor
    /\ calm' = Quiet
    /\ UNCHANGED <<st, stFile, took, report, books, doubts>>

\* The other caller calls Run meanwhile.  Two passes share rc.st, the cursor file
\* and the temporary files without a lock (module Passes): nothing is claimed from
\* here on.
RunOverlaps ==
    /\ phase # "idle"
    /\ excuses' = excuses \cup {"shared"}
    /\ UNCHANGED <<disk, cursor, reader, history, faults, pass, books, calm, doubts>>

RunPeek ==
    /\ phase = "peek"
    /\ PeekGone \/ PeekSearch \/ PeekBackup \/ PeekBest \/ PeekDot1 \/ PeekMain
    /\ UNCHANGED <<pass, books, calm, doubts>>

RunFails ==
    /\ phase = "peek" /\ phase' = "idle"
    /\ PeekFails
    /\ calm' = FALSE
    /\ UNCHANGED <<st, stFile, took, report, books, doubts>>

\* then the settled total,
ReadSettled ==
    /\ phase = "peek" /\ rpc = "held" /\ phase' = "settled"
    /\ took' = settled
    /\ UNCHANGED <<logVars, st, stFile, report, books, calm, doubts>>

\* then pendingSpend, and the new sum of what was billed.
TalliedAlways(s, sett, pend, n) ==
    [s EXCEPT !.init = TRUE, !.billed = @ + n,
              !.settled = IF s.init THEN @ ELSE sett,
              !.pending = IF s.init THEN @ ELSE pend]
Tallied(s, sett, pend, n) ==
    IF s.init THEN [s EXCEPT !.billed = @ + n]
    ELSE [s EXCEPT !.init = TRUE, !.settled = sett, !.pending = pend]

Drift(s, sett, pend) == s.billed - ((sett - s.settled) + (pend - s.pending))

Tally ==
    /\ phase = "settled" /\ phase' = "tallied"
    /\ st' = Tallied(st, took, pending, Len(batch))
    /\ report' = [drift |-> Drift(st', took, pending), calm |-> calm]
    /\ doubts' = doubts \cup Excuse("baseline", ~st.init /\ ~calm)
    /\ UNCHANGED <<logVars, stFile, took, books, calm>>

\* Commit cursor first, then persist the total.  An error of the commit is
\* ignored, and the records will be counted again.
RunCommit ==
    /\ phase = "tallied" /\ phase' = "committed"
    /\ \/ CommitCursor /\ UNCHANGED doubts
       \/ CommitFails /\ doubts' = doubts \cup Excuse("recount", batch # << >>)
    /\ UNCHANGED <<st, stFile, took, report, books, calm>>

SaveState ==
    /\ phase = "committed" /\ phase' = "idle"
    /\ \/ stFile' = st /\ UNCHANGED faults
       \/ faults < MaxFaults /\ faults' = faults + 1 /\ UNCHANGED stFile
    /\ took' = 0 /\ report' = NoReport /\ calm' = FALSE
    /\ UNCHANGED <<disk, cursor, reader, history, excuses, st, books, doubts>>

\* The gateway is killed and started again: loadState, NewRequestLogger.
Crash ==
    /\ Restart
    /\ st' = stFile /\ phase' = "idle" /\ took' = 0
    /\ report' = NoReport
    /\ pending' = 0 /\ restored' = FALSE /\ req' = "none"
    /\ calm' = FALSE
    /\ doubts' = doubts \cup Excuse("window", stFile.init /\ stFile # st)
    /\ UNCHANGED <<stFile, settled, spos, owed>>

-----------------------------------------------------------------------------

RInit ==
    /\ Init
    /\ st = NoState /\ stFile = NoState
    /\ phase = "idle" /\ took = 0
    /\ report = NoReport
    /\ settled = 0 /\ spos = 0 /\ owed = 0
    /\ pending = 0 /\ restored = FALSE /\ req = "none"
    /\ calm = FALSE /\ doubts = {}

\* The lines and the rotations that no request of the books is about.
LogStep ==
    /\ LogOther \/ Shift \/ ReopenLog \/ ReopenFails
    /\ calm' = FALSE
    /\ UNCHANGED <<pass, books, doubts>>

RNext ==
    \/ LogStep
    \/ Reserve \/ Serve \/ ServeUnlogged \/ Adjust
    \/ SettleBegin \/ SettleEnd \/ Restore
    \/ RunBegin \/ RunOverlaps \/ RunPeek \/ RunFails \/ ReadSettled \/ Tally
    \/ RunCommit \/ SaveState \/ Crash

RSpec == RInit /\ [][RNext]_vars

-----------------------------------------------------------------------------
(* Properties *)

RTypeOK ==
    /\ TypeOK
    /\ {st, stFile} \subseteq [init : BOOLEAN, billed : Nat, settled : Nat, pending : Nat]
    /\ phase \in {"idle", "peek", "settled", "tallied", "committed"}
    /\ took \in Nat /\ settled \in Nat /\ spos \in 0 .. written /\ owed \in Nat
    /\ pending \in Nat /\ restored \in BOOLEAN
    /\ req \in {"none", "reserved", "logged"}
    /\ calm \in BOOLEAN
    /\ doubts \subseteq {"unlogged", "boot", "baseline", "recount", "window"}

\* A pass that nothing disturbs reports no drift, whatever passes, settlements,
\* rotations and restarts came before it: every unit billed since the baseline
\* is settled or pending (reconcile.go:215-219).
CalmPassAgrees ==
    report.calm /\ excuses = {} /\ doubts = {} => report.drift = 0
=============================================================================
