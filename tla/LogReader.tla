------------------------------ MODULE LogReader ------------------------------
(***************************************************************************)
(* What the request log and a Scanner of it promise together, without      *)
(* files, offsets or rotations: billable records are numbered in the order *)
(* in which they are logged; a Peek hands its client the records after the *)
(* committed position, with no gap and in order, and only CommitCursor moves *)
(* that position.  The promise ends with the first circumstance it does    *)
(* not cover (excused), which RequestLog names one by one.                 *)
(***************************************************************************)
EXTENDS Naturals, Sequences

VARIABLES
    written,    \* how many billable records have been logged
    pos,        \* how many of them the committed cursor has passed
    batch,      \* the records the client holds, read and not yet committed
    excused     \* the promise no longer holds

Init ==
    /\ written = 0
    /\ pos = 0
    /\ batch = << >>
    /\ excused = FALSE

Record ==
    /\ written' = written + 1
    /\ UNCHANGED <<pos, batch, excused>>

Peek ==
    /\ \E n \in 0 .. (written - pos) : batch' = [i \in 1 .. n |-> pos + i]
    /\ UNCHANGED <<written, pos, excused>>

CommitCursor ==
    /\ pos' = pos + Len(batch)
    /\ batch' = << >>
    /\ UNCHANGED <<written, excused>>

\* The client fails before it commits: it will be given the same records again.
Abandon ==
    /\ batch' = << >>
    /\ UNCHANGED <<written, pos, excused>>

Next == Record \/ Peek \/ CommitCursor \/ Abandon \/ excused'

Spec == Init /\ [][Next]_<<written, pos, batch, excused>>
=============================================================================
