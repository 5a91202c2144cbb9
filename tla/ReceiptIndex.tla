---------------------------- MODULE ReceiptIndex ----------------------------
(***************************************************************************)
(* The store behind receipt proofs: appendMerkleLedger (settler.go) writes *)
(* the records of a confirmed batch to receipt-records.jsonl, the batch to *)
(* merkle-batches.jsonl and a line to the sidecar receipt-index.jsonl; the *)
(* indexes in memory are warmed from the sidecar or rebuilt from the data  *)
(* (merkle_store.go), and answer the public receipt query (merkle.go,      *)
(* receipt_status.go).  The settler appends without the index lock and     *)
(* takes it for its last step only; warming holds it throughout.           *)
(* It calls appendMerkleLedger after the WAL has the batch as confirmed,    *)
(* and never again for that batch: what is cut short stays as it is.       *)
(*                                                                          *)
(* Data.  Offsets and sizes count lines, 0 is "absent".  A line of the     *)
(* record store is a request id, of the ledger the number of a batch, and  *)
(* 0 in either is the beginning of a line whose write failed.              *)
(***************************************************************************)
EXTENDS Integers, SequencesExt, Merkle

CONSTANTS
    Batches,       \* the batches in the order of their confirmation
    MaxFaults      \* bound on failed writes and crashes

ASSUME ReceiptIndexAssumption ==
    /\ MaxFaults \in Nat
    /\ Len(Batches) \in Nat /\ DOMAIN Batches = 1 .. Len(Batches)
    /\ \A b \in DOMAIN Batches :
          LET rids == UNION {Batches[b].items[i].rids : i \in DOMAIN Batches[b].items}
          IN  IsFiniteSet(rids) /\ rids \subseteq Nat \ {0}

RidSeq   == [b \in DOMAIN Batches |-> LeafRids(Batches[b].items)]
RidSet   == [b \in DOMAIN Batches |-> ToSet(RidSeq[b])]
Recorded == [b \in DOMAIN Batches |-> Batches[b].recorded]
Leaves   == [b \in DOMAIN Batches |-> batchLeaves(Batches[b].items, Recorded[b])]
Roots    == [b \in DOMAIN Batches |-> MerkleRoot(Leaves[b])]
Proofs   == [b \in DOMAIN Batches |->
                [i \in DOMAIN Leaves[b] |-> MerkleProofFor(Leaves[b], i - 1)]]
Rids     == UNION {RidSet[b] : b \in DOMAIN Batches}
Absent      == [r \in Rids |-> 0]

VARIABLES
    store,      \* receipt-records.jsonl
    ledger,     \* merkle-batches.jsonl
    sidecar,    \* receipt-index.jsonl
    torn,       \* ... has a line that does not parse
    warm,       \* merkleWarm
    merkleIdx,  \* request id -> offset of its batch in the ledger
    recordIdx,  \* request id -> offset of its record in the store
    wpc,        \* the warming under way: none, store, ledger, marker
    built,      \* what it has scanned: the two indexes, and its lines
    pc,         \* appendMerkleLedger: idle, records, ledger, index
    todo,       \* ... the leaves whose record is still to be stored
    recLocs,    \* ... where the others are
    done,       \* batches that will not be appended any more
    logged,     \* requests whose record is in the log or its first backup
    slips,      \* history: circumstances the index does not survive
    gap,        \* history: the sidecar lacks the line of a batch
    faults

data   == <<store, ledger, sidecar, torn>>
index  == <<warm, merkleIdx, recordIdx, wpc, built>>
append == <<pc, todo, recLocs, done>>
vars   == <<data, index, append, logged, slips, gap, faults>>

NoBuild == [m |-> Absent, r |-> Absent, lines |-> << >>]

Batch == done + 1       \* the batch appendMerkleLedger is called for

Fault == faults < MaxFaults /\ faults' = faults + 1
Slip(name, met) == IF met THEN {name} ELSE {}

-----------------------------------------------------------------------------
(* appendMerkleLedger *)

ledgerHasHash(b) == \E i \in DOMAIN ledger : ledger[i] = b

\* Idempotent by details_hash; a batch without leaves is skipped.  The WAL has the
\* batch as confirmed already.
AppendBegin ==
    /\ pc = "idle" /\ Batch \in DOMAIN Batches
    /\ IF ledgerHasHash(Batch) \/ RidSeq[Batch] = << >>
       THEN done' = done + 1 /\ UNCHANGED <<pc, todo>>
       ELSE pc' = "records" /\ todo' = RidSeq[Batch] /\ UNCHANGED done
    /\ UNCHANGED <<data, index, recLocs, logged, slips, gap, faults>>

\* resumePending finds the batch processed on chain, after a crash, a failed write
\* of the WAL or a wait that was given up: it is confirmed without an append.
SkipProcessed ==
    /\ pc = "idle" /\ Batch \in DOMAIN Batches /\ Fault
    /\ done' = done + 1
    /\ slips' = slips \cup {"unledgered"}
    /\ UNCHANGED <<data, index, pc, todo, recLocs, logged, gap>>

\* appendReceiptRecord, for a leaf that has a record; one that fails, with or
\* without having written something, leaves the receipt without its record.
AppendRecord ==
    /\ pc = "records" /\ todo # << >> /\ todo' = Tail(todo)
    /\ LET rid == Head(todo) IN
       IF rid \notin Recorded[Batch] THEN UNCHANGED <<store, recLocs, faults>>
       ELSE \/ /\ store' = Append(store, rid)
               /\ recLocs' = [recLocs EXCEPT ![rid] = Len(store) + 1]
               /\ UNCHANGED faults
            \/ /\ Fault
               /\ store' \in {store, Append(store, 0)}
               /\ UNCHANGED recLocs
    /\ UNCHANGED <<ledger, sidecar, torn, index, pc, done, logged, slips, gap>>

\* The call is over.
Return == pc' = "idle" /\ done' = done + 1 /\ recLocs' = Absent

AppendLedger ==
    /\ pc = "records" /\ todo = << >> /\ pc' = "index"
    /\ ledger' = Append(ledger, Batch)
    /\ UNCHANGED <<store, sidecar, torn, index, todo, recLocs, done, logged, slips, gap, faults>>

\* The write fails: the call returns, and of the batch there is nothing in the
\* ledger, or a fragment that the next line is glued to.
AppendLedgerFails ==
    /\ pc = "records" /\ todo = << >> /\ Fault
    /\ \/ UNCHANGED ledger /\ slips' = slips \cup {"unledgered"}
       \/ ledger' = Append(ledger, 0) /\ slips' = slips \cup {"ledger"}
    /\ Return
    /\ UNCHANGED <<store, sidecar, torn, index, todo, logged, gap>>

\* Under the lock: the indexes if they exist, and the sidecar.
Indexed(idx, rids, off) == [r \in Rids |-> IF r \in rids THEN off ELSE idx[r]]
Located(idx, locs)      == [r \in Rids |-> IF locs[r] > 0 THEN locs[r] ELSE idx[r]]

Line(off, rids, locs, msize, rsize) ==
    [off |-> off, rids |-> rids, recs |-> locs, msize |-> msize, rsize |-> rsize]

\* The sidecar's last line accounts for a batch it may have no line for: a warming
\* wrote it after the batch was in the ledger.
Ahead == ~torn /\ sidecar # << >> /\ Last(sidecar).msize = Len(ledger)

\* A failed write to the sidecar is not even logged; it leaves a fragment, or
\* nothing.
AppendIndex ==
    LET rids == RidSet[Batch]
        off  == Len(ledger)
        line == Line(off, rids, recLocs, Len(ledger), Len(store))
    IN  /\ pc = "index" /\ wpc = "none"
        /\ merkleIdx' = IF warm THEN Indexed(merkleIdx, rids, off) ELSE merkleIdx
        /\ recordIdx' = IF warm THEN Located(recordIdx, recLocs) ELSE recordIdx
        /\ \/ /\ sidecar' = Append(sidecar, line)
              /\ slips' = slips \cup Slip("late", gap /\ ~torn)
              /\ UNCHANGED <<torn, gap, faults>>
           \/ /\ Fault /\ torn' = TRUE
              /\ UNCHANGED <<sidecar, gap, slips>>
           \/ /\ Fault /\ gap' = TRUE
              /\ slips' = slips \cup Slip("marker", Ahead)
              /\ UNCHANGED <<sidecar, torn>>
        /\ Return
        /\ UNCHANGED <<store, ledger, warm, wpc, built, todo, logged>>

-----------------------------------------------------------------------------
(* Warming *)

\* replaySidecarLocked: trusted when every line parses and the last accounts for
\* the files.  One that is empty or missing accounts for empty files.
TrustedByRecords ==
    /\ ~torn
    /\ IF sidecar = << >> THEN ledger = << >> /\ store = << >>
       ELSE Last(sidecar).rsize = Len(store)
SidecarTrusted ==
    /\ ~torn
    /\ IF sidecar = << >> THEN ledger = << >> /\ store = << >>
       ELSE Last(sidecar).msize = Len(ledger) /\ Last(sidecar).rsize = Len(store)

\* The last of some positions, 0 if there is none: a later line overwrites what an
\* earlier one put into the map.
Latest(at) == IF at = {} THEN 0 ELSE Max(at)

Replayed ==
    LET s == sidecar
        of(r) == Latest({i \in DOMAIN s : r \in s[i].rids})
        at(r) == Latest({i \in DOMAIN s : s[i].recs[r] > 0})
    IN  [m |-> [r \in Rids |-> IF of(r) = 0 THEN 0 ELSE s[of(r)].off],
         r |-> [r \in Rids |-> IF at(r) = 0 THEN 0 ELSE s[at(r)].recs[r]]]

\* A line behind an unfinished one is glued to it, and a scan skips both.
Whole(s, i) == s[i] > 0 /\ (i = 1 \/ s[i - 1] > 0)

\* scanRecordStoreLocked, and the scan of the ledger in rebuildFromDataLocked.
ScannedStore ==
    [r \in Rids |-> Latest({i \in DOMAIN store : Whole(store, i) /\ store[i] = r})]
ScannedLedger ==
    [r \in Rids |->
        Latest({i \in DOMAIN ledger : Whole(ledger, i) /\ r \in RidSet[ledger[i]]})]

\* The lines of the new sidecar, one per batch, with sizes 0.
RebuiltMarkerOnly(recs) == << >>
RebuiltLines(recs) ==
    LET at == Sorted({i \in DOMAIN ledger : Whole(ledger, i)})
    IN  [k \in DOMAIN at |->
           LET rids == RidSet[ledger[at[k]]]
           IN  Line(at[k], rids, [r \in Rids |-> IF r \in rids THEN recs[r] ELSE 0], 0, 0)]

Warmed(m, r) ==
    /\ warm' = TRUE /\ wpc' = "none" /\ built' = NoBuild
    /\ merkleIdx' = m /\ recordIdx' = r

\* WarmReceiptIndex, in the background after the start or for the first query.
WarmReplay ==
    /\ ~warm /\ wpc = "none" /\ SidecarTrusted
    /\ Warmed(Replayed.m, Replayed.r)
    /\ UNCHANGED <<data, append, logged, slips, gap, faults>>

WarmStore ==
    /\ ~warm /\ wpc = "none" /\ ~SidecarTrusted
    /\ wpc' = "ledger"
    /\ built' = [NoBuild EXCEPT !.r = ScannedStore]
    /\ UNCHANGED <<data, warm, merkleIdx, recordIdx, append, logged, slips, gap, faults>>

WarmLedger ==
    /\ wpc = "ledger" /\ wpc' = "marker"
    /\ built' = [built EXCEPT !.m = ScannedLedger, !.lines = RebuiltLines(built.r)]
    /\ UNCHANGED <<data, warm, merkleIdx, recordIdx, append, logged, slips, gap, faults>>

\* The marker with the sizes of the files, and the rename.  No write is checked:
\* any of the lines may be missing from the file that is renamed, or be a fragment.
\* A line that is missing is as good as one that says nothing.
Marker  == Line(-1, {}, Absent, Len(ledger), Len(store))
Missing == Line(0, {}, Absent, 0, 0)

Rewritten(lost, marker) ==
    Append([k \in DOMAIN built.lines |-> IF k \in lost THEN Missing ELSE built.lines[k]],
           IF marker THEN Marker ELSE Missing)

WarmMarker ==
    /\ wpc = "marker"
    /\ Warmed(built.m, built.r)
    /\ \/ /\ sidecar' = Rewritten({}, TRUE) /\ torn' = FALSE /\ gap' = FALSE
          /\ UNCHANGED <<slips, faults>>
       \/ /\ Fault /\ \E lost \in SUBSET DOMAIN built.lines, marker \in BOOLEAN :
                         /\ sidecar' = Rewritten(lost, marker) /\ torn' \in BOOLEAN
                         /\ gap' = (lost # {})
                         /\ slips' = slips \cup Slip("rebuilt", lost # {} /\ marker /\ ~torn')
       \/ Fault /\ UNCHANGED <<sidecar, torn, gap, slips>>
    /\ UNCHANGED <<store, ledger, append, logged>>

-----------------------------------------------------------------------------
(* The query *)

\* readMerkleBatchAt: by offset, so a fragment before the line does no harm.
readMerkleBatchAt(off, r) ==
    off \in DOMAIN ledger /\ ledger[off] > 0 /\ r \in RidSet[ledger[off]]

\* findMerkleBatch: where the batch of a request is, 0 if it is not settled.  A
\* query that comes before the index is warm warms it, or waits for who does.
IndexNow ==
    IF warm THEN [m |-> merkleIdx, r |-> recordIdx]
    ELSE IF wpc = "marker" THEN [m |-> built.m, r |-> built.r]
    ELSE IF wpc = "ledger" THEN [m |-> ScannedLedger, r |-> built.r]
    ELSE IF SidecarTrusted THEN Replayed
    ELSE [m |-> ScannedLedger, r |-> ScannedStore]

findMerkleBatch(r) ==
    LET off == IndexNow.m[r]
    IN  IF off = 0 THEN 0
        ELSE IF readMerkleBatchAt(off, r) THEN off
        ELSE ScannedLedger[r]

\* handleReceiptProof: a proof, else the row of the log, else 404.
Answer(r) ==
    IF findMerkleBatch(r) > 0 THEN "settled"
    ELSE IF r \in logged THEN "pending" ELSE "unknown"

\* What the contract stores for a batch, over its BatchHash.
Legacy(b)      == [leaf |-> <<b>>]
DetailsHash(b) == CombinedDetailsHash(Legacy(b), Roots[b])

\* BuildReceiptProof, from the batch's line.
BuildReceiptProof(r) ==
    LET b   == ledger[findMerkleBatch(r)]
        idx == CHOOSE i \in DOMAIN Leaves[b] : RidSeq[b][i] = r
        rec == IndexNow.r[r]
    IN  [batch |-> b, leaf |-> Leaves[b][idx], index |-> idx - 1,
         proof |-> Proofs[b][idx], root |-> Roots[b],
         record |-> IF rec \in DOMAIN store THEN store[rec] ELSE 0]

-----------------------------------------------------------------------------
(* The rest of the world *)

\* The request log has been rotated twice: FindUnsettled, which reads it and its
\* first backup, no longer sees the requests billed so far.
RotateLog ==
    /\ logged # {} /\ logged' = {}
    /\ slips' = slips \cup Slip("rotated", \E r \in Rids : findMerkleBatch(r) = 0)
    /\ UNCHANGED <<data, index, append, gap, faults>>

\* The process dies and is started again.  A batch whose append it was in is not
\* appended again: it stays out of the ledger, or in it without a sidecar line.
Crash ==
    /\ Fault
    /\ warm' = FALSE /\ wpc' = "none" /\ built' = NoBuild
    /\ merkleIdx' = Absent /\ recordIdx' = Absent
    /\ pc' = "idle" /\ todo' = << >> /\ recLocs' = Absent
    /\ done' = IF pc = "idle" THEN done ELSE done + 1
    /\ gap' = (gap \/ pc = "index")
    /\ slips' = slips \cup Slip("unledgered", pc = "records")
                     \cup Slip("marker", pc = "index" /\ Ahead)
    /\ UNCHANGED <<data, logged>>

Init ==
    /\ store = << >> /\ ledger = << >> /\ sidecar = << >> /\ torn = FALSE
    /\ warm = FALSE /\ merkleIdx = Absent /\ recordIdx = Absent
    /\ wpc = "none" /\ built = NoBuild
    /\ pc = "idle" /\ todo = << >> /\ recLocs = Absent
    /\ done = 0
    /\ logged = Rids /\ slips = {} /\ gap = FALSE /\ faults = 0

Next ==
    \/ AppendBegin \/ SkipProcessed \/ AppendRecord
    \/ AppendLedger \/ AppendLedgerFails \/ AppendIndex
    \/ WarmReplay \/ WarmStore \/ WarmLedger \/ WarmMarker
    \/ RotateLog \/ Crash

Spec == Init /\ [][Next]_vars

-----------------------------------------------------------------------------
(* Properties *)

TypeOK ==
    /\ store \in Seq(Rids \cup {0}) /\ ledger \in Seq(DOMAIN Batches \cup {0})
    /\ {torn, warm, gap} \subseteq BOOLEAN
    /\ \A r \in Rids : merkleIdx[r] \in 0 .. Len(ledger) /\ recordIdx[r] \in 0 .. Len(store)
    /\ wpc \in {"none", "ledger", "marker"} /\ pc \in {"idle", "records", "index"}
    /\ done \in 0 .. Len(Batches)
    /\ logged \subseteq Rids
    /\ slips \subseteq {"unledgered", "ledger", "late", "marker", "rebuilt", "rotated"}
    /\ faults \in 0 .. MaxFaults

Ledgered(b) == \E i \in DOMAIN ledger : ledger[i] = b
Found(b)    == \A r \in RidSet[b] : Answer(r) = "settled"

\* What the index has no part in: a batch that never came into the ledger.
IndexIsWhole == slips \subseteq {"unledgered"}

\* A miss is authoritative (settler.go:1326): a request whose batch is in the
\* ledger is found, from an index that was replayed, rebuilt or kept up to date,
\* whatever crashes and failed writes came before; and without a crash or failure
\* in the append itself every confirmed batch is in the ledger.
SettledIsFound ==
    IndexIsWhole => \A b \in 1 .. done : slips = {} \/ Ledgered(b) => Found(b)

\* Every proof handed out verifies against the hash the contract has for that
\* batch, for the leaf of that request and no other leaf of the batch, and comes
\* with the record of that request or none - also when the index went wrong.
ProofsVerify ==
    \A r \in Rids : Answer(r) = "settled" =>
      LET p == BuildReceiptProof(r)
      IN  /\ p.leaf.leaf[1] = r
          /\ VerifyMerkleProof(p.leaf, p.index, p.proof, p.root)
          /\ CombinedDetailsHash(Legacy(p.batch), p.root) = DetailsHash(p.batch)
          /\ \A other \in ToSet(Leaves[p.batch]) \ {p.leaf} :
                ~VerifyMerkleProof(other, p.index, p.proof, p.root)
          /\ p.record \in {0, r}

\* The answer to a user never gets worse: a settled receipt stays settled over
\* restarts and appends, and a pending one does not become unknown.
Rank(a) == CASE a = "unknown" -> 0 [] a = "pending" -> 1 [] a = "settled" -> 2

AnswersOnlyImprove ==
    [][IndexIsWhole' => \A r \in Rids : Rank(Answer(r)') >= Rank(Answer(r))]_vars
=============================================================================
