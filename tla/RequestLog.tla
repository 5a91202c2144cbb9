----------------------------- MODULE RequestLog -----------------------------
(***************************************************************************)
(* The request log and a Scanner that follows it: the RequestLogger of     *)
(* internal/gateway/requestlog.go appends records to requests.jsonl and    *)
(* rotates it through the backups .1 ... .MaxBackups; the Scanner of       *)
(* internal/settlement/scanner.go finds the records after its cursor by    *)
(* the inode of the file the cursor was in.  The two share nothing but the *)
(* directory: every rename of a rotation is an action, and so is every     *)
(* look at a name and every file that a Peek opens, so that they           *)
(* interleave.  Opening a backup and reading it is one action: under       *)
(* whatever name, nothing is written to it any more.                       *)
(*                                                                          *)
(* Data.  A line of a file is an integer: n > 0 is the n-th billable       *)
(* record, Other a line that is not billable, Torn the beginning of a line *)
(* whose write failed half way.  Offsets and sizes count lines.  A file is *)
(* its inode; dir[0] is requests.jsonl and dir[i] is requests.jsonl.i.     *)
(***************************************************************************)
EXTENDS Integers, Sequences, FiniteSets, SequencesExt

CONSTANTS
    Inodes,        \* inode numbers; freed ones are given out again
    NoFile,        \* no such file; also the Inode of a cursor that has none
    MaxBackups,    \* rl.maxBackups
    RotateAt,      \* rl.maxSize
    MaxLines,      \* bound on the lines logged
    MaxFaults      \* bound on failed writes, failed opens and restarts

ASSUME RequestLogAssumption ==
    /\ NoFile \notin Inodes
    /\ MaxBackups \in Nat \ {0}
    /\ RotateAt \in Nat \ {0}
    /\ MaxLines \in Nat /\ MaxFaults \in Nat

Other  == 0
Torn   == -1
Idle   == -2         \* the logger is not rotating
Reopen == -1         \* ... has renamed everything and must open a new file

Cursors  == [ino : Inodes \cup {NoFile}, off : Nat]
NoCursor == [ino |-> NoFile, off |-> 0]
NoScan   == [cur |-> NoCursor, main |-> NoFile, rotated |-> FALSE, i |-> 1, from |-> 0,
             at |-> NoCursor]

VARIABLES
    dir,        \* the file under each name, NoFile when there is none
    content,    \* the lines of each file
    handle,     \* rl.file, NoFile when it is closed
    size,       \* rl.currentSize
    shift,      \* rotate: Idle, Reopen, or the backup to be moved next
    cursor,     \* the cursor file
    rpc,        \* where the scanner is in Peek
    scan,       \* Peek's variables: oldCursor, the main file it saw, rotated, the
                \* name .i and the offset it reads next; history: where it has read to
    batch,      \* the records read so far
    next,       \* newCursor
    written,    \* history: billable records logged
    lines,      \* history: lines logged
    pos,        \* history: the last record that the committed cursor has passed
    upto,       \* history: the last record that the new cursor has passed
    excuses,    \* history: circumstances met that the scanner does not survive
    faults      \* faults spent

disk    == <<dir, content, handle, size, shift>>
reader  == <<rpc, scan, batch, next, upto>>
history == <<written, lines, pos>>
logVars == <<disk, cursor, reader, history, excuses, faults>>

Names == 0 .. MaxBackups

-----------------------------------------------------------------------------
(* The logger *)

Lines(ino) == Len(content[ino])

Excuse(name, met) == IF met THEN {name} ELSE {}

\* Log: one line, then a rotation if the file has reached its threshold.  A
\* closed file (a rotation that could not reopen it) takes no lines.
Log(line) ==
    /\ shift = Idle /\ handle # NoFile
    /\ content' = [content EXCEPT ![handle] = Append(@, line)]
    /\ size' = size + 1
    /\ IF size + 1 >= RotateAt
       THEN shift' = MaxBackups /\ handle' = NoFile
       ELSE UNCHANGED <<shift, handle>>
    /\ lines < MaxLines /\ lines' = lines + 1
    /\ UNCHANGED <<dir, cursor, reader, pos, excuses, faults>>

LogBillable == Log(written + 1) /\ written' = written + 1
LogOther    == Log(Other) /\ UNCHANGED written

\* The write fails after some bytes (a full disk): the line stays unfinished,
\* and what is written next is glued to it.
LogTorn ==
    /\ shift = Idle /\ handle # NoFile
    /\ faults < MaxFaults /\ faults' = faults + 1
    /\ content' = [content EXCEPT ![handle] =
                      IF @ # << >> /\ Last(@) = Torn THEN @ ELSE Append(@, Torn)]
    /\ UNCHANGED <<dir, handle, size, shift, cursor, reader, history, excuses>>

\* rotate, one rename at a time: the oldest backup is removed, then .i becomes
\* .i+1 from the oldest to requests.jsonl itself.
Renamed(i) ==
    IF i = MaxBackups THEN [dir EXCEPT ![i] = NoFile]
    ELSE IF dir[i] = NoFile THEN dir
    ELSE [dir EXCEPT ![i + 1] = dir[i], ![i] = NoFile]

\* The file holds records that the committed cursor has not passed.
Unpassed(ino) == \E i \in 1 .. Lines(ino) : content[ino][i] > pos

Shift ==
    /\ shift >= 0
    /\ dir' = Renamed(shift)
    /\ shift' = shift - 1
    /\ excuses' = excuses \cup Excuse("retention",
         shift = MaxBackups /\ dir[shift] # NoFile
         /\ (dir[shift] \in {cursor.ino, scan.main, scan.at.ino, next.ino} \/ Unpassed(dir[shift])))
    /\ content' = IF shift = MaxBackups /\ dir[shift] # NoFile
                  THEN [content EXCEPT ![dir[shift]] = << >>] ELSE content
    /\ UNCHANGED <<handle, size, cursor, reader, history, faults>>

\* Open the log by name, creating it with any inode that is not in use.
OpenMain(size0) ==
    IF dir[0] # NoFile
    THEN /\ handle' = dir[0] /\ size' = size0
         /\ UNCHANGED <<dir, content>>
    ELSE \E ino \in Inodes \ Range(dir) :
            /\ dir' = [dir EXCEPT ![0] = ino]
            /\ content' = [content EXCEPT ![ino] = << >>]
            /\ handle' = ino /\ size' = 0

ReopenLog ==
    /\ shift = Reopen /\ shift' = Idle
    /\ OpenMain(0)
    /\ UNCHANGED <<cursor, reader, history, excuses, faults>>

\* The new file cannot be opened: rl.file stays closed until a restart.
ReopenFails ==
    /\ shift = Reopen /\ shift' = Idle
    /\ faults < MaxFaults /\ faults' = faults + 1
    /\ UNCHANGED <<dir, content, handle, size, cursor, reader, history, excuses>>

-----------------------------------------------------------------------------
(* The scanner *)

\* isBillable, and a line that json.Unmarshal accepts: one that was glued to an
\* unfinished line is malformed, unless the scan starts behind the fragment.
Legible(ino, off, i) ==
    /\ content[ino][i] > Other
    /\ ~(i - 1 > off /\ content[ino][i - 1] = Torn)

\* A place is <<i, k>>, line k of the file under name i.  Files are read from the
\* oldest backup to requests.jsonl, and each from its beginning.
UpTo(p, q) == p[1] > q[1] \/ (p[1] = q[1] /\ p[2] <= q[2])

\* What is read at some places: the n-th record is at the place that is n-th.
Read(P) ==
    [n \in 1 .. Cardinality(P) |->
        LET p == CHOOSE p \in P : Cardinality({q \in P : UpTo(q, p)}) = n
        IN  content[dir[p[1]]][p[2]]]

\* scanFrom: the billable records of a file behind an offset.
Records(i, off) ==
    {<<i, k>> : k \in {k \in (off + 1) .. Lines(dir[i]) : Legible(dir[i], off, k)}}
scanFrom(i, off) == Read(Records(i, off))

\* ... and a record it cannot read.
Glued(ino, off) ==
    \E i \in (off + 1) .. Lines(ino) : content[ino][i] > Other /\ ~Legible(ino, off, i)

\* Peek: load the cursor and look at requests.jsonl.
Rotated(c, main) ==
    \/ c.ino # NoFile /\ main # c.ino
    \/ c.off > 0 /\ Lines(main) < c.off

PeekStat(c) ==
    /\ rpc = "idle"
    /\ scan' = [NoScan EXCEPT !.cur = c, !.at = c, !.main = dir[0],
                              !.rotated = dir[0] # NoFile /\ Rotated(c, dir[0])]
    /\ rpc' = IF dir[0] = NoFile THEN "gone"
              ELSE IF ~Rotated(c, dir[0]) THEN "main"
              ELSE IF c.ino = NoFile THEN "best" ELSE "search"
    /\ batch' = << >>
    /\ UNCHANGED <<disk, cursor, next, upto, history>>

PeekBegin == PeekStat(cursor) /\ UNCHANGED <<excuses, faults>>

\* The cursor file cannot be read or parsed: the scan starts over.
PeekNoCursor ==
    /\ faults < MaxFaults /\ faults' = faults + 1
    /\ PeekStat(NoCursor)
    /\ excuses' = excuses \cup Excuse("cursor", cursor # NoCursor)

\* The main file is between two renames: the tail of .1, cursor unmoved.
PeekGone ==
    /\ rpc = "gone" /\ rpc' = "held"
    /\ batch' = IF dir[1] = NoFile THEN << >> ELSE scanFrom(1, scan.cur.off)
    /\ next' = scan.cur
    /\ upto' = pos
    /\ excuses' = excuses \cup Excuse("gone", batch' # << >>)
    /\ UNCHANGED <<disk, cursor, scan, history, faults>>

\* The backup that is the cursor's file is searched from .1 to the first gap, one
\* os.Stat after the other.
BackupAt(i) == IF i \in Names THEN dir[i] ELSE NoFile

PeekSearch ==
    /\ rpc = "search"
    /\ \/ /\ BackupAt(scan.i) = NoFile
          /\ rpc' = "best" /\ scan' = [scan EXCEPT !.i = 1]
       \/ /\ BackupAt(scan.i) = scan.cur.ino
          /\ rpc' = "tail" /\ scan' = [scan EXCEPT !.from = scan.cur.off]
       \/ /\ BackupAt(scan.i) \notin {scan.cur.ino, NoFile}
          /\ scan' = [scan EXCEPT !.i = @ + 1] /\ UNCHANGED rpc
    /\ UNCHANGED <<disk, cursor, batch, next, upto, history, excuses, faults>>

\* What is opened under the name .i next is not what the Peek takes it for: the
\* tail is read of another file than the one found, or there is a backup between
\* the one read last and this one.
Raced(i) ==
    IF rpc = "tail" THEN dir[i] # scan.cur.ino
    ELSE ~\E l \in (i + 1) .. MaxBackups :
            dir[l] = scan.at.ino /\ \A k \in (i + 1) .. (l - 1) : dir[k] = NoFile

\* The tail is followed by every newer backup, oldest first, and then by the log.
AfterTailOnly(i) == "main"
AfterBackup(i) == IF i = 1 THEN "main" ELSE "newer"

\* Open the backup .i by its name and read it.
PeekBackup ==
    LET i == scan.i
    IN  /\ rpc \in {"tail", "newer"} /\ dir[i] # NoFile
        /\ batch' = batch \o scanFrom(i, scan.from)
        /\ scan' = [scan EXCEPT !.i = i - 1, !.from = 0,
                                !.at = [ino |-> dir[i], off |-> Lines(dir[i])]]
        /\ rpc' = AfterBackup(i)
        /\ excuses' = excuses \cup Excuse("raced", Raced(i))
             \cup Excuse("overlap", dir[i] = scan.main)
             \cup Excuse("torn", Glued(dir[i], scan.from))
        /\ UNCHANGED <<disk, cursor, next, upto, history, faults>>

\* The cursor's file was not found: .1 as a best effort, from its beginning if it
\* is another file.  The file that is opened need not be the one looked at.
PeekBest ==
    /\ rpc = "best"
    /\ \/ /\ dir[1] = NoFile
          /\ rpc' = "main" /\ UNCHANGED scan
          /\ excuses' = excuses \cup {"gap"}
       \/ /\ dir[1] # NoFile
          /\ rpc' = "dot1"
          /\ scan' = [scan EXCEPT !.from =
                        IF scan.cur.ino \in {NoFile, dir[1]} THEN scan.cur.off ELSE 0]
          /\ UNCHANGED excuses
    /\ UNCHANGED <<disk, cursor, batch, next, upto, history, faults>>

PeekDot1 ==
    /\ rpc = "dot1" /\ rpc' = "main"
    /\ batch' = IF dir[1] = NoFile THEN << >> ELSE scanFrom(1, scan.from)
    /\ excuses' = excuses \cup {"gap"}
    /\ UNCHANGED <<disk, cursor, scan, next, upto, history, faults>>

\* Where a scan ends; a seek behind the end of the file stays there.
EndOffset(ino, from) == IF Lines(ino) < from THEN from ELSE Lines(ino)

\* Read requests.jsonl, by name: it may be another file than the one seen.
PeekMain ==
    LET from == IF scan.rotated THEN 0 ELSE scan.cur.off
    IN  /\ rpc = "main" /\ dir[0] # NoFile
        /\ rpc' = "held"
        /\ batch' = batch \o scanFrom(0, from)
        /\ next' = [ino |-> scan.main, off |-> EndOffset(dir[0], from)]
        /\ upto' = IF dir[0] = scan.main THEN written
                   ELSE IF batch' = << >> THEN pos ELSE Last(batch')
        /\ excuses' = excuses
             \cup Excuse("overlap", dir[0] # scan.main /\ Lines(dir[0]) > from)
             \cup Excuse("first", scan.cur.ino = NoFile /\ \E i \in 1 .. MaxBackups :
                                     dir[i] # NoFile /\ Unpassed(dir[i]))
             \cup Excuse("torn", Glued(dir[0], from))
        /\ UNCHANGED <<disk, cursor, scan, history, faults>>

\* Peek is over and its variables are gone.
Done ==
    /\ rpc' = "idle" /\ batch' = << >> /\ scan' = NoScan
    /\ next' = NoCursor /\ upto' = 0

\* A backup that was found, or the log, is not there any more: Peek fails.
PeekFails ==
    /\ \/ rpc = "main" /\ dir[0] = NoFile
       \/ rpc \in {"tail", "newer"} /\ dir[scan.i] = NoFile
    /\ Done
    /\ UNCHANGED <<disk, cursor, history, excuses, faults>>

\* CommitCursor, once the client has dealt with the records ...
CommitCursor ==
    /\ rpc = "held" /\ Done
    /\ cursor' = next
    /\ pos' = upto
    /\ UNCHANGED <<disk, written, lines, excuses, faults>>

\* ... or the cursor file cannot be written, and the next Peek repeats them.
CommitFails ==
    /\ rpc = "held" /\ Done
    /\ faults < MaxFaults /\ faults' = faults + 1
    /\ UNCHANGED <<disk, cursor, history, excuses>>

\* The process dies, also in the middle of a rotation, and is started again
\* (NewRequestLogger).
RestartLog ==
    /\ shift' = Idle
    /\ OpenMain(Lines(dir[0]))
    /\ Done
    /\ UNCHANGED <<cursor, history, excuses>>

Restart ==
    /\ faults < MaxFaults /\ faults' = faults + 1
    /\ RestartLog

-----------------------------------------------------------------------------

Init ==
    \E ino \in Inodes :
        /\ dir = [i \in Names |-> IF i = 0 THEN ino ELSE NoFile]
        /\ content = [f \in Inodes |-> << >>]
        /\ handle = ino /\ size = 0 /\ shift = Idle
        /\ cursor = NoCursor
        /\ rpc = "idle" /\ batch = << >>
        /\ scan = NoScan
        /\ next = NoCursor /\ upto = 0
        /\ written = 0 /\ lines = 0 /\ pos = 0 /\ excuses = {} /\ faults = 0

Logger == LogBillable \/ LogOther \/ LogTorn \/ Shift \/ ReopenLog \/ ReopenFails
Scanner ==
    \/ PeekBegin \/ PeekNoCursor \/ PeekGone \/ PeekSearch \/ PeekBackup \/ PeekBest
    \/ PeekDot1 \/ PeekMain \/ PeekFails
    \/ CommitCursor \/ CommitFails

Next == Logger \/ Scanner \/ Restart

Spec == Init /\ [][Next]_logVars

-----------------------------------------------------------------------------
(* Properties *)

TypeOK ==
    /\ dir \in [Names -> Inodes \cup {NoFile}]
    /\ DOMAIN content = Inodes
    /\ \A f \in Inodes : \A i \in 1 .. Lines(f) : content[f][i] \in Torn .. written
    /\ handle \in Inodes \cup {NoFile} /\ size \in Nat
    /\ shift \in Idle .. MaxBackups
    /\ cursor \in Cursors /\ next \in Cursors
    /\ rpc \in {"idle", "gone", "search", "tail", "newer", "best", "dot1", "main", "held"}
    /\ lines \in 0 .. MaxLines /\ written \in 0 .. lines /\ pos \in 0 .. written /\ upto \in 0 .. written
    /\ excuses \subseteq
         {"retention", "cursor", "gone", "raced", "overlap", "gap", "first", "torn", "shared"}
    /\ faults \in 0 .. MaxFaults

\* The log and its scanner implement LogReader: as long as none of the named
\* circumstances is met, every billable record is handed out once, in order, and
\* again only when it was not committed - whatever rotations, restarts and
\* interleavings of renames and reads there are.
LR == INSTANCE LogReader WITH
         batch <- IF rpc = "held" THEN batch ELSE << >>,
         excused <- excuses # {}

EveryRecordOnce == LR!Spec
=============================================================================
