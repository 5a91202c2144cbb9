------------------------------- MODULE Passes -------------------------------
(***************************************************************************)
(* Reconciler.Run (internal/settlement/reconcile.go) called twice at the   *)
(* same time: by the loop of Start and by GET /api/v1/reconcile            *)
(* (internal/admin/settlement_api.go), which share rc.st, the cursor file  *)
(* and the state file without a lock.  Module Reconciler follows one pass  *)
(* at a time through the files of the log; here the log is the number of   *)
(* its records, each of which costs one unit, and an offset is a number of *)
(* records.  The baseline has been taken while the log was empty.          *)
(***************************************************************************)
EXTENDS Naturals

CONSTANTS
    Callers,       \* who calls Run
    MaxRecords,    \* bound on the records logged
    MaxPasses      \* bound on the passes begun

VARIABLES
    logged,     \* records in the log
    cursor,     \* reconcile-cursor.json
    billed,     \* rc.st.BilledCumUSD
    file,       \* reconcile-state.json
    begun,      \* passes begun
    pc,         \* where each caller is in Run
    from,       \* ... its records begin behind this one
    upto,       \* ... and newCur, where they end
    cum         \* ... billedCum, parsed from rc.st

pass == <<begun, pc, from, upto, cum>>
vars == <<logged, cursor, billed, file, pass>>

Init ==
    /\ logged = 0 /\ cursor = 0 /\ billed = 0 /\ file = 0 /\ begun = 0
    /\ pc = [c \in Callers |-> "idle"]
    /\ from = [c \in Callers |-> 0]
    /\ upto = [c \in Callers |-> 0]
    /\ cum = [c \in Callers |-> 0]

Record ==
    /\ logged < MaxRecords /\ logged' = logged + 1
    /\ UNCHANGED <<cursor, billed, file, pass>>

Goto(c, from0, to) == pc[c] = from0 /\ pc' = [pc EXCEPT ![c] = to]

Peek(c) ==
    /\ Goto(c, "idle", "peeked")
    /\ begun < MaxPasses /\ begun' = begun + 1
    /\ from' = [from EXCEPT ![c] = cursor]
    /\ upto' = [upto EXCEPT ![c] = logged]
    /\ UNCHANGED <<logged, cursor, billed, file, cum>>

Parse(c) ==
    /\ Goto(c, "peeked", "parsed")
    /\ cum' = [cum EXCEPT ![c] = billed]
    /\ UNCHANGED <<logged, cursor, billed, file, begun, from, upto>>

Add(c) ==
    /\ Goto(c, "parsed", "added")
    /\ billed' = cum[c] + (upto[c] - from[c])
    /\ UNCHANGED <<logged, cursor, file, begun, from, upto, cum>>

Commit(c) ==
    /\ Goto(c, "added", "committed")
    /\ cursor' = upto[c]
    /\ UNCHANGED <<logged, billed, file, begun, from, upto, cum>>

Save(c) ==
    /\ Goto(c, "committed", "idle")
    /\ file' = billed
    /\ UNCHANGED <<logged, cursor, billed, begun, from, upto, cum>>

Next ==
    \/ Record
    \/ \E c \in Callers : Peek(c) \/ Parse(c) \/ Add(c) \/ Commit(c) \/ Save(c)

Spec == Init /\ [][Next]_vars

\* The reconciler "owns a cursor and a PERSISTED cumulative billed total that only
\* ever advances over NEW records" (reconcile.go:77-79): when no pass is under way,
\* the total stands for the records the cursor has passed.  Two passes of
\* Reconciler.Run that overlap count a window twice.
OnlyNewRecords == (\A c \in Callers : pc[c] = "idle") => file = cursor
=============================================================================
