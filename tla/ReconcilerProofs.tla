-------------------------- MODULE ReconcilerProofs --------------------------
(***************************************************************************)
(* Proofs about the request log, its scanner and the reconciler, for any    *)
(* number of files, lines, backups and faults: that the log and a scanner   *)
(* implement LogReader, alone and under the reconciler, and that an         *)
(* undisturbed pass of the reconciler reports no drift.                     *)
(*                                                                          *)
(* The argument.  Reading every file from the oldest backup to              *)
(* requests.jsonl gives the records in the order of their numbers, because  *)
(* a rename moves a file to a name that is free and next to its own         *)
(* (InOrder).  A cursor cuts that order in two (Stands): the records it has *)
(* passed lie before it and all others behind it, wherever its file has     *)
(* been moved to.  What lies behind it is then without gaps (Held), and     *)
(* what a Peek reads is the numbers from pos + 1 on.                        *)
(***************************************************************************)
EXTENDS Reconciler, FiniteSetTheorems, SequenceTheorems, WellFoundedInduction,
        NaturalsInduction, TLAPS

(* The directory D with the contents C: facts about two functions, to be used *)
(* of dir and content before and after a step.                               *)

Directories == [Names -> Inodes \cup {NoFile}]
Contents    == [Inodes -> Seq(Int)]

\* There is a record at line k of the file under name i; its number.
Rec(D, C, i, k) == D[i] # NoFile /\ k \in 1 .. Len(C[D[i]]) /\ C[D[i]][k] > Other
Num(D, C, i, k) == C[D[i]][k]

\* Line k of name i is read before line l of name j.
Before(i, k, j, l) == i > j \/ (i = j /\ k < l)

OneName(D) == \A i, j \in Names : D[i] # NoFile /\ D[i] = D[j] => i = j

InOrder(D, C) ==
    \A i, j \in Names : \A k, l \in Nat :
        Rec(D, C, i, k) /\ Rec(D, C, j, l) /\ Before(i, k, j, l)
            => Num(D, C, i, k) < Num(D, C, j, l)

AtMost(D, C, w) == \A i \in Names : \A k \in Nat : Rec(D, C, i, k) => Num(D, C, i, k) <= w

\* Every record from a + 1 to b is in some file.
Held(D, C, a, b) ==
    \A n \in a + 1 .. b : \E i \in Names : \E k \in Nat :
        Rec(D, C, i, k) /\ Num(D, C, i, k) = n

\* Line off of the file ino, which is under name j, is where the records up to
\* number p end and the others begin.
Cut(D, C, j, off, p) ==
    \A i \in Names : \A k \in Nat :
        Rec(D, C, i, k) => (Num(D, C, i, k) <= p <=> i > j \/ (i = j /\ k <= off))
Stands(D, C, ino, off, p) ==
    \E j \in Names : D[j] = ino /\ ino # NoFile /\ off <= Len(C[ino]) /\ Cut(D, C, j, off, p)

\* A cursor that has passed the records up to p; an absent one has passed none.
CursorAt(D, C, c, p) ==
    IF c.ino = NoFile THEN c.off = 0 /\ p = 0 ELSE Stands(D, C, c.ino, c.off, p)

\* The file a has a newer name than the file b, and is read after it.
Newer(D, a, b) ==
    \E x, l \in Names : D[x] = a /\ D[l] = b /\ a # NoFile /\ b # NoFile /\ x < l

\* The records from a + 1 to b, as a Peek hands them out.
Run(a, b) == [n \in 1 .. (b - a) |-> a + n]

-----------------------------------------------------------------------------
(* The inductive invariant of the log and its scanner *)

Scans == [cur : Cursors, main : Inodes \cup {NoFile}, rotated : BOOLEAN, i : Nat, from : Nat,
          at : Cursors]

LogType ==
    /\ dir \in Directories /\ content \in Contents
    /\ handle \in Inodes \cup {NoFile} /\ shift \in Idle .. MaxBackups
    /\ cursor \in Cursors /\ next \in Cursors
    /\ scan \in Scans
    /\ rpc \in {"idle", "gone", "search", "tail", "newer", "best", "dot1", "main", "held"}
    /\ written \in Nat /\ pos \in Nat /\ pos <= written

DiskOK ==
    /\ OneName(dir)
    /\ handle # NoFile => handle = dir[0] /\ shift = Idle
    /\ shift \in 0 .. MaxBackups - 1 => dir[shift + 1] = NoFile
    /\ InOrder(dir, content)
    /\ AtMost(dir, content, written)
    /\ Held(dir, content, pos, written)
    /\ CursorAt(dir, content, cursor, pos)

\* The backups are looked for, or being read; in the middle of a Peek.
Draining == {"search", "tail", "newer"}
Peeking  == Draining \cup {"best", "dot1", "main"}

\* What has been read so far are the records up to some m, which is where the
\* place that the reading has reached cuts the order in two.
ReadSoFar(m) == batch = Run(pos, m) /\ Stands(dir, content, scan.at.ino, scan.at.off, m)

ScanOK ==
    /\ rpc # "idle" => scan.cur = cursor
    /\ rpc \in Peeking => scan.main # NoFile /\ \E j \in Names : dir[j] = scan.main
    /\ rpc \in Draining =>
          /\ scan.rotated /\ scan.i >= 1
          /\ Newer(dir, scan.main, scan.at.ino)
          /\ \E m \in pos .. written : ReadSoFar(m)
    /\ rpc \in {"search", "tail"} => scan.at = cursor
    /\ rpc \in {"tail", "newer"} => scan.i <= MaxBackups
    /\ rpc = "tail" => scan.from = cursor.off
    /\ rpc = "newer" => scan.from = 0 /\ scan.at.off = Len(content[scan.at.ino])
    /\ rpc = "main" /\ ~scan.rotated => batch = << >> /\ cursor.ino \in {scan.main, NoFile}
    /\ rpc = "main" /\ scan.rotated =>
          \E m \in pos .. written :
              batch = Run(pos, m) /\ Stands(dir, content, scan.main, 0, m)
    /\ rpc = "held" => /\ upto \in pos .. written
                       /\ batch = Run(pos, upto)
                       /\ CursorAt(dir, content, next, upto)

LogInv == excuses = {} => LogType /\ DiskOK /\ ScanOK

-----------------------------------------------------------------------------
(* The inductive invariant of the books and the reconciler *)

\* What a request has reserved beyond the cost that its record stands for.
Excess == IF req = "reserved" THEN Estimate ELSE IF req = "logged" THEN Estimate - 1 ELSE 0

BooksOK ==
    /\ settled \in Nat /\ owed \in Nat /\ spos \in Nat /\ spos <= written
    /\ pending \in Nat /\ restored \in BOOLEAN
    /\ req \in {"none", "reserved", "logged"}
    /\ settled + owed = spos
    /\ restored => pending = (written - spos) + Excess
    /\ ~restored /\ req # "none" => pending >= Estimate

States == [init : BOOLEAN, billed : Nat, settled : Nat, pending : Nat]

\* What a state says has been billed until it was saved.
Total(s) == s.billed + s.settled + s.pending

PassOK ==
    /\ st \in States /\ stFile \in States
    /\ phase \in {"idle", "peek", "settled", "tallied", "committed"}
    /\ phase \in {"settled", "tallied"} => rpc = "held"
    /\ ~st.init => st = NoState
    /\ ~stFile.init => stFile = NoState
    /\ st.init => Total(st) = IF phase = "tallied" THEN upto ELSE pos
    /\ stFile.init => Total(stFile) <= pos

CalmOK ==
    /\ calm \in BOOLEAN
    /\ calm => /\ Quiet
               /\ rpc # "gone"
               /\ rpc \in Peeking => dir[0] = scan.main
               /\ rpc = "held" => upto = written
               /\ phase = "settled" => took = settled
    /\ phase = "settled" => took \in Nat
    /\ report.calm => report.drift = 0

ReconcilerInv ==
    /\ LogInv
    /\ excuses = {} /\ doubts = {} => BooksOK /\ PassOK /\ CalmOK

-----------------------------------------------------------------------------
(* What the renames, writes and removals do to a directory *)

\* A line is appended to requests.jsonl.
Appended(D, C, v) == [C EXCEPT ![D[0]] = Append(@, v)]

LEMMA AppendType ==
    ASSUME NEW D \in Directories, NEW C \in Contents, D[0] # NoFile, NEW v \in Int
    PROVE  /\ Appended(D, C, v) \in Contents
           /\ 0 \in Names /\ D[0] \in Inodes /\ Len(C[D[0]]) \in Nat
           /\ Len(Appended(D, C, v)[D[0]]) = Len(C[D[0]]) + 1
           /\ Appended(D, C, v)[D[0]][Len(C[D[0]]) + 1] = v
           /\ \A x \in 1 .. Len(C[D[0]]) : Appended(D, C, v)[D[0]][x] = C[D[0]][x]
<1>1. 0 \in Names /\ D[0] \in Inodes
  BY RequestLogAssumption DEF Names, Directories
<1>2. C[D[0]] \in Seq(Int) /\ Len(C[D[0]]) \in Nat
  BY <1>1 DEF Contents
<1>3. Append(C[D[0]], v) \in Seq(Int)
  BY <1>2
<1>4. Appended(D, C, v) \in Contents /\ Appended(D, C, v)[D[0]] = Append(C[D[0]], v)
  BY <1>1, <1>3 DEF Contents, Appended
<1> QED BY <1>1, <1>2, <1>4

LEMMA AppendOther ==
    ASSUME NEW D \in Directories, NEW C \in Contents, D[0] # NoFile, NEW v \in Int,
           NEW f \in Inodes, f # D[0]
    PROVE  Appended(D, C, v)[f] = C[f]
BY DEF Contents, Appended

\* The records are those of before, and behind them the new line, if it is one.
LEMMA AppendRec ==
    ASSUME NEW D \in Directories, NEW C \in Contents, D[0] # NoFile, NEW v \in Int,
           OneName(D), NEW i \in Names, NEW k \in Nat, Rec(D, Appended(D, C, v), i, k)
    PROVE  \/ Rec(D, C, i, k) /\ Num(D, Appended(D, C, v), i, k) = Num(D, C, i, k)
           \/ /\ i = 0 /\ k = Len(C[D[0]]) + 1
              /\ v > 0 /\ Num(D, Appended(D, C, v), i, k) = v
<1>1. CASE D[i] = D[0]
  <2>1. i = 0
    BY <1>1, AppendType DEF OneName
  <2> QED BY <2>1, AppendType DEF Rec, Num, Other
<1>2. CASE D[i] # D[0]
  <2>1. D[i] \in Inodes
    BY DEF Rec, Directories
  <2> QED BY <1>2, <2>1, AppendOther DEF Rec, Num
<1> QED BY <1>1, <1>2

LEMMA AppendKeepsRec ==
    ASSUME NEW D \in Directories, NEW C \in Contents, D[0] # NoFile, NEW v \in Int,
           OneName(D), NEW i \in Names, NEW k \in Nat, Rec(D, C, i, k)
    PROVE  Rec(D, Appended(D, C, v), i, k)
           /\ Num(D, Appended(D, C, v), i, k) = Num(D, C, i, k)
<1>1. CASE D[i] = D[0]
  <2>1. i = 0
    BY <1>1, AppendType DEF OneName
  <2> QED BY <2>1, AppendType DEF Rec, Num, Other
<1>2. CASE D[i] # D[0]
  <2>1. D[i] \in Inodes
    BY DEF Rec, Directories
  <2> QED BY <1>2, <2>1, AppendOther DEF Rec, Num
<1> QED BY <1>1, <1>2

LEMMA AppendLast ==
    ASSUME NEW D \in Directories, NEW C \in Contents, D[0] # NoFile, NEW v \in Int, v > 0
    PROVE  Rec(D, Appended(D, C, v), 0, Len(C[D[0]]) + 1)
           /\ Num(D, Appended(D, C, v), 0, Len(C[D[0]]) + 1) = v
BY AppendType DEF Rec, Num, Other

\* ... so a cut in the order of the records stays where it is,
LEMMA AppendKeepsStands ==
    ASSUME NEW D \in Directories, NEW C \in Contents, D[0] # NoFile, NEW v \in Int,
           OneName(D), NEW ino, NEW off \in Nat, NEW p \in Nat,
           Stands(D, C, ino, off, p), v > 0 => v > p
    PROVE  Stands(D, Appended(D, C, v), ino, off, p)
<1>1. PICK j \in Names :
         D[j] = ino /\ ino # NoFile /\ off <= Len(C[ino]) /\ Cut(D, C, j, off, p)
  BY DEF Stands
<1>2. ino \in Inodes /\ C[ino] \in Seq(Int) /\ 0 \in Names /\ D[0] \in Inodes
  BY <1>1, RequestLogAssumption DEF Directories, Contents, Names
<1>3. off <= Len(Appended(D, C, v)[ino])
  <2>1. CASE ino = D[0]
    BY <2>1, <1>1, <1>2, AppendType
  <2>2. CASE ino # D[0]
    BY <2>2, <1>1, <1>2, AppendOther
  <2> QED BY <2>1, <2>2
<1>4. ASSUME NEW i \in Names, NEW k \in Nat, Rec(D, Appended(D, C, v), i, k)
      PROVE  Num(D, Appended(D, C, v), i, k) <= p <=> i > j \/ (i = j /\ k <= off)
  <2>1. CASE Rec(D, C, i, k) /\ Num(D, Appended(D, C, v), i, k) = Num(D, C, i, k)
    <3> QED BY <2>1, <1>1 DEF Cut
  <2>2. CASE i = 0 /\ k = Len(C[D[0]]) + 1 /\ v > 0 /\ Num(D, Appended(D, C, v), i, k) = v
    <3>1. ~(Num(D, Appended(D, C, v), i, k) <= p)
      BY <2>2
    <3>2. ~(i > j)
      BY <2>2, <1>1, RequestLogAssumption DEF Names
    <3>3. i = j => ~(k <= off)
      BY <2>2, <1>1, <1>2
    <3> QED BY <3>1, <3>2, <3>3
  <2>3. QED BY <2>1, <2>2, <1>4, AppendRec
<1>5. Stands(D, Appended(D, C, v), ino, off, p)
  BY <1>1, <1>3, <1>4 DEF Stands, Cut
<1> QED BY <1>5

\* ... and the new record comes last.
LEMMA AppendKeepsOrder ==
    ASSUME NEW D \in Directories, NEW C \in Contents, D[0] # NoFile, NEW v \in Int,
           OneName(D), NEW w \in Nat, InOrder(D, C), AtMost(D, C, w), v > 0 => v = w + 1
    PROVE  /\ InOrder(D, Appended(D, C, v))
           /\ AtMost(D, Appended(D, C, v), w + 1)
           /\ v <= 0 => AtMost(D, Appended(D, C, v), w)
<1>0. D[0] \in Inodes /\ Len(C[D[0]]) \in Nat /\ 0 \in Names
  BY RequestLogAssumption DEF Names, Directories, Contents
<1>1. ASSUME NEW i \in Names, NEW k \in Nat, Rec(D, C, i, k)
      PROVE  Num(D, C, i, k) \in Int /\ Num(D, C, i, k) <= w
             /\ (i = 0 => k <= Len(C[D[0]]))
  <2>1. C[D[i]] \in Seq(Int) /\ k \in 1 .. Len(C[D[i]])
    BY <1>1 DEF Rec, Contents, Directories
  <2>2. Num(D, C, i, k) \in Int
    BY <2>1 DEF Num
  <2>3. Num(D, C, i, k) <= w
    BY <1>1 DEF AtMost
  <2>4. i = 0 => k <= Len(C[D[0]])
    BY <2>1
  <2> QED BY <2>2, <2>3, <2>4
<1>2. ASSUME NEW i \in Names, NEW k \in Nat, Rec(D, Appended(D, C, v), i, k)
      PROVE  \/ Rec(D, C, i, k) /\ Num(D, Appended(D, C, v), i, k) = Num(D, C, i, k)
             \/ i = 0 /\ k = Len(C[D[0]]) + 1 /\ v > 0 /\ Num(D, Appended(D, C, v), i, k) = v
  BY <1>2, AppendRec
<1>3. ASSUME NEW i \in Names, NEW j \in Names, NEW k \in Nat, NEW l \in Nat,
             Rec(D, Appended(D, C, v), i, k), Rec(D, Appended(D, C, v), j, l), Before(i, k, j, l)
      PROVE  Num(D, Appended(D, C, v), i, k) < Num(D, Appended(D, C, v), j, l)
  <2>1. CASE i = 0 /\ k = Len(C[D[0]]) + 1
    <3>1. j = 0 /\ k < l
      BY <2>1, <1>3, RequestLogAssumption DEF Before, Names
    <3> QED BY <3>1, <2>1, <1>3, <1>2, <1>1, <1>0
  <2>2. CASE Rec(D, C, i, k) /\ Num(D, Appended(D, C, v), i, k) = Num(D, C, i, k)
    <3>1. CASE Rec(D, C, j, l) /\ Num(D, Appended(D, C, v), j, l) = Num(D, C, j, l)
      BY <3>1, <2>2, <1>3 DEF InOrder
    <3>2. CASE v > 0 /\ Num(D, Appended(D, C, v), j, l) = v
      BY <3>2, <2>2, <1>1
    <3> QED BY <3>1, <3>2, <1>2, <1>3
  <2> QED BY <2>1, <2>2, <1>2, <1>3
<1>4. InOrder(D, Appended(D, C, v))
  BY <1>3 DEF InOrder
<1>5. AtMost(D, Appended(D, C, v), w + 1) /\ (v <= 0 => AtMost(D, Appended(D, C, v), w))
  BY <1>1, <1>2 DEF AtMost
<1> QED BY <1>4, <1>5

LEMMA AppendKeepsHeld ==
    ASSUME NEW D \in Directories, NEW C \in Contents, D[0] # NoFile, NEW v \in Int,
           OneName(D), NEW p \in Nat, NEW w \in Nat, Held(D, C, p, w)
    PROVE  /\ Held(D, Appended(D, C, v), p, w)
           /\ v = w + 1 => Held(D, Appended(D, C, v), p, w + 1)
<1>0. 0 \in Names /\ Len(C[D[0]]) + 1 \in Nat
  BY RequestLogAssumption DEF Names, Directories, Contents
<1>1. ASSUME NEW i \in Names, NEW k \in Nat, Rec(D, C, i, k)
      PROVE  Rec(D, Appended(D, C, v), i, k) /\ Num(D, Appended(D, C, v), i, k) = Num(D, C, i, k)
  BY <1>1, AppendKeepsRec
<1>2. v = w + 1 => /\ Rec(D, Appended(D, C, v), 0, Len(C[D[0]]) + 1)
                   /\ Num(D, Appended(D, C, v), 0, Len(C[D[0]]) + 1) = v
  BY AppendLast
<1>3. Held(D, Appended(D, C, v), p, w)
  BY <1>1 DEF Held
<1>4. ASSUME v = w + 1
      PROVE  Held(D, Appended(D, C, v), p, w + 1)
  <2> SUFFICES ASSUME NEW n \in p + 1 .. w + 1
               PROVE  \E i \in Names : \E k \in Nat :
                         Rec(D, Appended(D, C, v), i, k) /\ Num(D, Appended(D, C, v), i, k) = n
    BY DEF Held
  <2>1. CASE n = w + 1
    BY <2>1, <1>4, <1>2, <1>0
  <2>2. CASE n # w + 1
    <3>1. n \in p + 1 .. w
      BY <2>2
    <3> QED BY <3>1, <1>3 DEF Held
  <2> QED BY <2>1, <2>2
<1> QED BY <1>3, <1>4

\* A file is moved to the next name, which is free.
Moved(D, s)   == [D EXCEPT ![s + 1] = D[s], ![s] = NoFile]
Whence(s, i)  == IF i = s + 1 THEN s ELSE i
Whither(s, i) == IF i = s THEN s + 1 ELSE i

LEMMA MoveType ==
    ASSUME NEW D \in Directories, NEW s \in 0 .. MaxBackups - 1, D[s + 1] = NoFile
    PROVE  /\ s \in Names /\ s + 1 \in Names
           /\ Moved(D, s) \in Directories
           /\ Moved(D, s)[s] = NoFile
           /\ Moved(D, s)[s + 1] = D[s]
           /\ \A i \in Names \ {s, s + 1} : Moved(D, s)[i] = D[i]
<1>1. s \in Names /\ s + 1 \in Names /\ s # s + 1
  BY RequestLogAssumption DEF Names
<1> QED BY <1>1 DEF Directories, Moved

LEMMA MoveOneName ==
    ASSUME NEW D \in Directories, NEW s \in 0 .. MaxBackups - 1, D[s + 1] = NoFile, OneName(D)
    PROVE  OneName(Moved(D, s))
<1> SUFFICES ASSUME NEW i \in Names, NEW j \in Names,
                    Moved(D, s)[i] # NoFile, Moved(D, s)[i] = Moved(D, s)[j]
             PROVE  i = j
  BY DEF OneName
<1>1. /\ Whence(s, i) \in Names /\ Whence(s, j) \in Names
      /\ D[Whence(s, i)] = Moved(D, s)[i] /\ D[Whence(s, j)] = Moved(D, s)[j]
      /\ i # s /\ j # s
  BY MoveType DEF Whence
<1>2. Whence(s, i) = Whence(s, j)
  BY <1>1 DEF OneName
<1> QED BY <1>1, <1>2 DEF Whence, Names

LEMMA MoveRec ==
    ASSUME NEW D \in Directories, NEW C \in Contents, NEW s \in 0 .. MaxBackups - 1,
           D[s + 1] = NoFile, NEW i \in Names, NEW k \in Nat, Rec(Moved(D, s), C, i, k)
    PROVE  /\ i # s /\ Whence(s, i) \in Names \ {s + 1}
           /\ Rec(D, C, Whence(s, i), k)
           /\ Num(Moved(D, s), C, i, k) = Num(D, C, Whence(s, i), k)
<1>1. i # s
  BY MoveType DEF Rec
<1>2. D[Whence(s, i)] = Moved(D, s)[i] /\ Whence(s, i) \in Names \ {s + 1}
  BY <1>1, MoveType DEF Whence
<1> QED BY <1>1, <1>2 DEF Rec, Num

LEMMA MoveKeepsRec ==
    ASSUME NEW D \in Directories, NEW C \in Contents, NEW s \in 0 .. MaxBackups - 1,
           D[s + 1] = NoFile, NEW i \in Names, NEW k \in Nat, Rec(D, C, i, k)
    PROVE  /\ Whither(s, i) \in Names
           /\ Rec(Moved(D, s), C, Whither(s, i), k)
           /\ Num(Moved(D, s), C, Whither(s, i), k) = Num(D, C, i, k)
<1>1. i # s + 1
  BY DEF Rec
<1>2. Moved(D, s)[Whither(s, i)] = D[i] /\ Whither(s, i) \in Names
  BY <1>1, MoveType DEF Whither
<1> QED BY <1>1, <1>2 DEF Rec, Num

LEMMA MoveKeepsOrder ==
    ASSUME NEW D \in Directories, NEW C \in Contents, NEW s \in 0 .. MaxBackups - 1,
           D[s + 1] = NoFile, InOrder(D, C)
    PROVE  InOrder(Moved(D, s), C)
<1> SUFFICES ASSUME NEW i \in Names, NEW j \in Names, NEW k \in Nat, NEW l \in Nat,
                    Rec(Moved(D, s), C, i, k), Rec(Moved(D, s), C, j, l), Before(i, k, j, l)
             PROVE  Num(Moved(D, s), C, i, k) < Num(Moved(D, s), C, j, l)
  BY DEF InOrder
<1>1. /\ i # s /\ Whence(s, i) \in Names \ {s + 1}
      /\ Rec(D, C, Whence(s, i), k)
      /\ Num(Moved(D, s), C, i, k) = Num(D, C, Whence(s, i), k)
  BY MoveRec
<1>2. /\ j # s /\ Whence(s, j) \in Names \ {s + 1}
      /\ Rec(D, C, Whence(s, j), l)
      /\ Num(Moved(D, s), C, j, l) = Num(D, C, Whence(s, j), l)
  BY MoveRec
<1>3. Before(Whence(s, i), k, Whence(s, j), l)
  BY <1>1, <1>2 DEF Before, Whence, Names
<1> QED BY <1>1, <1>2, <1>3 DEF InOrder

LEMMA MoveKeepsAtMost ==
    ASSUME NEW D \in Directories, NEW C \in Contents, NEW s \in 0 .. MaxBackups - 1,
           D[s + 1] = NoFile, NEW w \in Nat, AtMost(D, C, w)
    PROVE  AtMost(Moved(D, s), C, w)
<1> SUFFICES ASSUME NEW i \in Names, NEW k \in Nat, Rec(Moved(D, s), C, i, k)
             PROVE  Num(Moved(D, s), C, i, k) <= w
  BY DEF AtMost
<1>1. /\ Whence(s, i) \in Names \ {s + 1}
      /\ Rec(D, C, Whence(s, i), k)
      /\ Num(Moved(D, s), C, i, k) = Num(D, C, Whence(s, i), k)
  BY MoveRec
<1> QED BY <1>1 DEF AtMost

LEMMA MoveKeepsHeld ==
    ASSUME NEW D \in Directories, NEW C \in Contents, NEW s \in 0 .. MaxBackups - 1,
           D[s + 1] = NoFile, NEW a \in Nat, NEW b \in Nat, Held(D, C, a, b)
    PROVE  Held(Moved(D, s), C, a, b)
<1> SUFFICES ASSUME NEW n \in a + 1 .. b
             PROVE  \E i \in Names : \E k \in Nat :
                       Rec(Moved(D, s), C, i, k) /\ Num(Moved(D, s), C, i, k) = n
  BY DEF Held
<1>1. PICK i \in Names, k \in Nat : Rec(D, C, i, k) /\ Num(D, C, i, k) = n
  BY DEF Held
<1>2. /\ Whither(s, i) \in Names
      /\ Rec(Moved(D, s), C, Whither(s, i), k)
      /\ Num(Moved(D, s), C, Whither(s, i), k) = Num(D, C, i, k)
  BY <1>1, MoveKeepsRec
<1> QED BY <1>1, <1>2

LEMMA MoveKeepsStands ==
    ASSUME NEW D \in Directories, NEW C \in Contents, NEW s \in 0 .. MaxBackups - 1,
           D[s + 1] = NoFile, NEW ino, NEW off \in Nat, NEW p \in Nat, Stands(D, C, ino, off, p)
    PROVE  Stands(Moved(D, s), C, ino, off, p)
<1>1. PICK j \in Names :
         D[j] = ino /\ ino # NoFile /\ off <= Len(C[ino]) /\ Cut(D, C, j, off, p)
  BY DEF Stands
<1>2. j # s + 1 /\ Whither(s, j) \in Names /\ Moved(D, s)[Whither(s, j)] = ino
  BY <1>1, MoveType DEF Whither
<1>3. ASSUME NEW i \in Names, NEW k \in Nat, Rec(Moved(D, s), C, i, k)
      PROVE  Num(Moved(D, s), C, i, k) <= p
                <=> i > Whither(s, j) \/ (i = Whither(s, j) /\ k <= off)
  <2>1. /\ i # s /\ Whence(s, i) \in Names \ {s + 1}
        /\ Rec(D, C, Whence(s, i), k)
        /\ Num(Moved(D, s), C, i, k) = Num(D, C, Whence(s, i), k)
    BY <1>3, MoveRec
  <2>2. Num(D, C, Whence(s, i), k) <= p
           <=> Whence(s, i) > j \/ (Whence(s, i) = j /\ k <= off)
    BY <2>1, <1>1 DEF Cut
  <2>3. /\ Whence(s, i) > j <=> i > Whither(s, j)
        /\ Whence(s, i) = j <=> i = Whither(s, j)
    BY <2>1, <1>2 DEF Whence, Whither, Names
  <2> QED BY <2>1, <2>2, <2>3
<1> QED BY <1>1, <1>2, <1>3 DEF Stands, Cut

\* Files without records come or go: what is left is in order, and a cut stays
\* where it is as long as its file is left alone.
Fewer(D, C, D2, C2) ==
    \A i \in Names : \A k \in Nat :
        Rec(D2, C2, i, k) => Rec(D, C, i, k) /\ Num(D2, C2, i, k) = Num(D, C, i, k)

LEMMA FewerKeepsOrder ==
    ASSUME NEW D, NEW C, NEW D2, NEW C2, Fewer(D, C, D2, C2), InOrder(D, C)
    PROVE  InOrder(D2, C2)
BY DEF InOrder, Fewer

LEMMA FewerKeepsAtMost ==
    ASSUME NEW D, NEW C, NEW D2, NEW C2, Fewer(D, C, D2, C2), NEW w, AtMost(D, C, w)
    PROVE  AtMost(D2, C2, w)
BY DEF AtMost, Fewer

LEMMA FewerKeepsStands ==
    ASSUME NEW D, NEW C, NEW D2, NEW C2, Fewer(D, C, D2, C2), NEW ino, NEW off, NEW p,
           C2[ino] = C[ino], \A j \in Names : D[j] = ino => D2[j] = ino,
           Stands(D, C, ino, off, p)
    PROVE  Stands(D2, C2, ino, off, p)
BY DEF Stands, Cut, Fewer

Emptied(C, f) == [C EXCEPT ![f] = << >>]

LEMMA EmptyType ==
    ASSUME NEW C \in Contents, NEW f \in Inodes
    PROVE  Emptied(C, f) \in Contents /\ Emptied(C, f)[f] = << >>
           /\ \A g \in Inodes \ {f} : Emptied(C, f)[g] = C[g]
<1>1. << >> \in Seq(Int)
  OBVIOUS
<1> QED BY <1>1 DEF Contents, Emptied

\* The oldest backup is removed.
Removed(D) == [D EXCEPT ![MaxBackups] = NoFile]

LEMMA RemoveType ==
    ASSUME NEW D \in Directories, NEW C \in Contents, D[MaxBackups] # NoFile, OneName(D)
    PROVE  /\ D[MaxBackups] \in Inodes /\ MaxBackups \in Names
           /\ Removed(D) \in Directories /\ OneName(Removed(D))
           /\ Removed(D)[MaxBackups] = NoFile
           /\ \A i \in Names \ {MaxBackups} : Removed(D)[i] = D[i] /\ D[i] # D[MaxBackups]
<1>1. MaxBackups \in Names /\ D[MaxBackups] \in Inodes
  BY RequestLogAssumption DEF Names, Directories
<1>2. /\ Removed(D) \in Directories /\ Removed(D)[MaxBackups] = NoFile
      /\ \A i \in Names \ {MaxBackups} : Removed(D)[i] = D[i]
  BY <1>1 DEF Directories, Removed
<1>3. \A i \in Names \ {MaxBackups} : D[i] # D[MaxBackups]
  BY <1>1 DEF OneName
<1>4. OneName(Removed(D))
  BY <1>2 DEF OneName
<1> QED BY <1>1, <1>2, <1>3, <1>4

LEMMA RemoveRec ==
    ASSUME NEW D \in Directories, NEW C \in Contents, D[MaxBackups] # NoFile, OneName(D),
           NEW i \in Names, NEW k \in Nat
    PROVE  /\ Rec(Removed(D), Emptied(C, D[MaxBackups]), i, k)
                 <=> Rec(D, C, i, k) /\ i # MaxBackups
           /\ Rec(D, C, i, k) /\ i # MaxBackups =>
                 Num(Removed(D), Emptied(C, D[MaxBackups]), i, k) = Num(D, C, i, k)
<1>1. CASE i = MaxBackups
  <2>1. Removed(D)[i] = NoFile
    BY <1>1, RemoveType
  <2> QED BY <1>1, <2>1 DEF Rec
<1>2. CASE i # MaxBackups
  <2>1. Removed(D)[i] = D[i] /\ D[i] # D[MaxBackups]
    BY <1>2, RemoveType
  <2>2. D[i] # NoFile => Emptied(C, D[MaxBackups])[D[i]] = C[D[i]]
    BY <2>1, RemoveType, EmptyType DEF Directories
  <2> QED BY <1>2, <2>1, <2>2 DEF Rec, Num
<1> QED BY <1>1, <1>2

\* A new file is created under a free name, with an inode that is in no use.
Created(D, f) == [D EXCEPT ![0] = f]

LEMMA CreateType ==
    ASSUME NEW D \in Directories, D[0] = NoFile, NEW f \in Inodes, f \notin Range(D), OneName(D)
    PROVE  /\ 0 \in Names /\ Created(D, f) \in Directories /\ OneName(Created(D, f))
           /\ Created(D, f)[0] = f
           /\ \A i \in Names \ {0} : Created(D, f)[i] = D[i]
           /\ \A i \in Names : D[i] # f
<1>1. 0 \in Names
  BY RequestLogAssumption DEF Names
<1>2. \A i \in Names : D[i] # f
  BY DEF Directories, Range
<1>3. /\ Created(D, f) \in Directories /\ Created(D, f)[0] = f
      /\ \A i \in Names \ {0} : Created(D, f)[i] = D[i]
  BY <1>1 DEF Directories, Created
<1>4. OneName(Created(D, f))
  BY <1>2, <1>3 DEF OneName
<1> QED BY <1>1, <1>2, <1>3, <1>4

LEMMA CreateRec ==
    ASSUME NEW D \in Directories, NEW C \in Contents, D[0] = NoFile, NEW f \in Inodes,
           f \notin Range(D), OneName(D), NEW i \in Names, NEW k \in Nat
    PROVE  /\ Rec(Created(D, f), Emptied(C, f), i, k) <=> Rec(D, C, i, k)
           /\ Rec(D, C, i, k) =>
                 Num(Created(D, f), Emptied(C, f), i, k) = Num(D, C, i, k)
<1>1. CASE i = 0
  BY <1>1, CreateType, EmptyType DEF Rec
<1>2. CASE i # 0
  <2>1. Created(D, f)[i] = D[i] /\ D[i] # f
    BY <1>2, CreateType
  <2>2. D[i] # NoFile => Emptied(C, f)[D[i]] = C[D[i]]
    BY <2>1, EmptyType DEF Directories
  <2> QED BY <1>2, <2>1, <2>2 DEF Rec, Num
<1> QED BY <1>1, <1>2

LEMMA MoveKeepsNewer ==
    ASSUME NEW D \in Directories, NEW s \in 0 .. MaxBackups - 1, D[s + 1] = NoFile,
           NEW a, NEW b, Newer(D, a, b)
    PROVE  Newer(Moved(D, s), a, b)
<1>1. PICK x \in Names, l \in Names :
         D[x] = a /\ D[l] = b /\ a # NoFile /\ b # NoFile /\ x < l
  BY DEF Newer
<1>2. x # s + 1 /\ l # s + 1
  BY <1>1
<1>3. /\ Whither(s, x) \in Names /\ Moved(D, s)[Whither(s, x)] = a
      /\ Whither(s, l) \in Names /\ Moved(D, s)[Whither(s, l)] = b
  BY <1>1, <1>2, MoveType DEF Whither
<1>4. Whither(s, x) < Whither(s, l)
  BY <1>1, <1>2 DEF Whither, Names
<1> QED BY <1>1, <1>3, <1>4 DEF Newer

-----------------------------------------------------------------------------
(* What a scan reads *)

NumAt(p) == content[dir[p[1]]][p[2]]

\* The records at the places P are those from a + 1 to b, in reading order.
Numbered(P, a, b) ==
    /\ \A p \in P : NumAt(p) \in a + 1 .. b
    /\ \A n \in a + 1 .. b : \E p \in P : NumAt(p) = n
    /\ \A p, q \in P : UpTo(q, p) <=> NumAt(q) <= NumAt(p)

LEMMA NumberedInjective ==
    ASSUME NEW P \in SUBSET (Names \X Nat), NEW a \in Nat, NEW b \in Nat, Numbered(P, a, b),
           NEW p \in P, NEW q \in P, NumAt(p) = NumAt(q)
    PROVE  p = q
<1>1. UpTo(p, q) /\ UpTo(q, p)
  BY DEF Numbered
<1>2. p = <<p[1], p[2]>> /\ q = <<q[1], q[2]>>
      /\ p[1] \in Int /\ p[2] \in Int /\ q[1] \in Int /\ q[2] \in Int
  BY DEF Names
<1>3. p[1] = q[1] /\ p[2] = q[2]
  BY <1>1, <1>2 DEF UpTo
<1> QED BY <1>2, <1>3

LEMMA NumberedCount ==
    ASSUME NEW P \in SUBSET (Names \X Nat), NEW a \in Nat, NEW b \in Nat, a <= b,
           Numbered(P, a, b)
    PROVE  Cardinality(P) = b - a
<1> DEFINE f == [n \in a + 1 .. b |-> CHOOSE p \in P : NumAt(p) = n]
<1>1. \A n \in a + 1 .. b : f[n] \in P /\ NumAt(f[n]) = n
  BY DEF Numbered
<1>2. f \in [a + 1 .. b -> P]
  BY <1>1
<1>3. \A p \in P : NumAt(p) \in a + 1 .. b /\ f[NumAt(p)] = p
  BY <1>1, NumberedInjective DEF Numbered
<1>4. f \in Bijection(a + 1 .. b, P)
  <2> HIDE DEF f
  <2>1. \A m, n \in a + 1 .. b : f[m] = f[n] => m = n
    BY <1>1
  <2>2. \A p \in P : \E n \in a + 1 .. b : f[n] = p
    BY <1>3
  <2> QED BY <1>2, <2>1, <2>2 DEF Bijection, Injection, Surjection, IsInjective
<1>5. ExistsBijection(a + 1 .. b, P)
  BY <1>4 DEF ExistsBijection
<1>6. IsFiniteSet(a + 1 .. b) /\ Cardinality(a + 1 .. b) = b - a
  <2>1. a + 1 \in Int /\ b \in Int
    OBVIOUS
  <2>2. /\ IsFiniteSet(a + 1 .. b)
        /\ Cardinality(a + 1 .. b) = IF a + 1 > b THEN 0 ELSE b - (a + 1) + 1
    BY <2>1, FS_Interval
  <2> QED BY <2>2
<1> HIDE DEF f
<1> QED BY <1>5, <1>6, FS_Bijection

LEMMA ReadNumbered ==
    ASSUME NEW P \in SUBSET (Names \X Nat), NEW a \in Nat, NEW b \in Nat, a <= b,
           Numbered(P, a, b)
    PROVE  Read(P) = Run(a, b)
<1>1. Cardinality(P) = b - a
  BY NumberedCount
<1>2. ASSUME NEW p \in P
      PROVE  Cardinality({q \in P : UpTo(q, p)}) = NumAt(p) - a
  <2> DEFINE Q == {q \in P : UpTo(q, p)}
  <2>1. NumAt(p) \in a + 1 .. b
    BY DEF Numbered
  <2>2. \A q \in P : NumAt(q) \in Int
    BY DEF Numbered
  <2>3. Numbered(Q, a, NumAt(p))
    BY <2>1, <2>2 DEF Numbered
  <2> HIDE DEF Q
  <2>4. Q \in SUBSET (Names \X Nat)
    BY DEF Q
  <2>5. NumAt(p) \in Nat /\ a <= NumAt(p)
    BY <2>1
  <2>6. Cardinality(Q) = NumAt(p) - a
    BY <2>3, <2>4, <2>5, NumberedCount
  <2> QED BY <2>6 DEF Q
<1>3. ASSUME NEW n \in 1 .. (b - a)
      PROVE  content[dir[(CHOOSE p \in P : Cardinality({q \in P : UpTo(q, p)}) = n)[1]]]
                    [(CHOOSE p \in P : Cardinality({q \in P : UpTo(q, p)}) = n)[2]] = a + n
  <2> DEFINE c == CHOOSE p \in P : Cardinality({q \in P : UpTo(q, p)}) = n
  <2>1. PICK p \in P : NumAt(p) = a + n
    <3>1. a + n \in a + 1 .. b
      OBVIOUS
    <3> QED BY <3>1 DEF Numbered
  <2>2. Cardinality({q \in P : UpTo(q, p)}) = n
    BY <2>1, <1>2
  <2>3. c \in P /\ Cardinality({q \in P : UpTo(q, c)}) = n
    BY <2>2
  <2> HIDE DEF c
  <2>4. NumAt(c) - a = n /\ NumAt(c) \in Int
    BY <2>3, <1>2 DEF Numbered
  <2>5. NumAt(c) = a + n
    BY <2>4
  <2> QED BY <2>5 DEF c, NumAt
<1> QED BY <1>1, <1>3 DEF Read, Run

\* Places at which there are records, and the order in which they are read.
LEMMA ReadRecords ==
    ASSUME NEW P \in SUBSET (Names \X Nat), NEW a \in Nat, NEW b \in Nat, a <= b,
           dir \in Directories, content \in Contents, InOrder(dir, content),
           \A p \in P : Rec(dir, content, p[1], p[2]),
           \A p \in P : NumAt(p) \in a + 1 .. b,
           \A n \in a + 1 .. b : \E p \in P : NumAt(p) = n
    PROVE  Read(P) = Run(a, b)
<1>1. ASSUME NEW p \in P, NEW q \in P
      PROVE  UpTo(q, p) <=> NumAt(q) <= NumAt(p)
  <2>1. /\ p = <<p[1], p[2]>> /\ p[1] \in Names /\ p[2] \in Nat
        /\ q = <<q[1], q[2]>> /\ q[1] \in Names /\ q[2] \in Nat
    OBVIOUS
  <2>2. NumAt(p) \in Int /\ NumAt(q) \in Int
    OBVIOUS
  <2>3. Before(p[1], p[2], q[1], q[2]) => NumAt(p) < NumAt(q)
    BY <2>1 DEF InOrder, NumAt, Num
  <2>4. Before(q[1], q[2], p[1], p[2]) => NumAt(q) < NumAt(p)
    BY <2>1 DEF InOrder, NumAt, Num
  <2>5. \/ Before(p[1], p[2], q[1], q[2]) \/ Before(q[1], q[2], p[1], p[2])
        \/ p[1] = q[1] /\ p[2] = q[2]
    BY <2>1 DEF Before, Names
  <2>6. p[1] = q[1] /\ p[2] = q[2] => p = q /\ UpTo(q, p)
    BY <2>1 DEF UpTo
  <2>7. /\ Before(p[1], p[2], q[1], q[2]) => ~UpTo(q, p)
        /\ Before(q[1], q[2], p[1], p[2]) => UpTo(q, p)
    BY <2>1 DEF Before, UpTo, Names
  <2> QED BY <2>2, <2>3, <2>4, <2>5, <2>6, <2>7
<1>2. Numbered(P, a, b)
  BY <1>1 DEF Numbered
<1> QED BY <1>2, ReadNumbered

LEMMA InRecords ==
    ASSUME dir \in Directories, content \in Contents,
           NEW i \in Names, dir[i] # NoFile, NEW off \in Nat, NEW p \in Records(i, off)
    PROVE  /\ p \in Names \X Nat /\ p[1] = i /\ p[2] > off
           /\ Rec(dir, content, p[1], p[2])
           /\ NumAt(p) = Num(dir, content, i, p[2])
<1>1. PICK k \in off + 1 .. Lines(dir[i]) : p = <<i, k>> /\ Legible(dir[i], off, k)
  BY DEF Records
<1>2. Lines(dir[i]) \in Nat
  BY DEF Lines, Directories, Contents
<1>3. k \in 1 .. Len(content[dir[i]]) /\ k \in Nat /\ k > off
  BY <1>1, <1>2 DEF Lines
<1> QED BY <1>1, <1>3 DEF Rec, Legible, NumAt, Num

LEMMA RecordsHave ==
    ASSUME dir \in Directories, content \in Contents, NEW i \in Names, NEW k \in Nat,
           NEW off \in Nat, Rec(dir, content, i, k), k > off, ~Glued(dir[i], off)
    PROVE  <<i, k>> \in Records(i, off) /\ NumAt(<<i, k>>) = Num(dir, content, i, k)
<1>1. k \in off + 1 .. Lines(dir[i]) /\ content[dir[i]][k] > Other
  BY DEF Rec, Lines, Contents, Directories
<1>2. Legible(dir[i], off, k)
  BY <1>1 DEF Glued
<1> QED BY <1>1, <1>2 DEF Records, NumAt, Num

LEMMA NumInt ==
    ASSUME dir \in Directories, content \in Contents, NEW i \in Names, NEW k \in Nat,
           Rec(dir, content, i, k)
    PROVE  Num(dir, content, i, k) \in Int
<1>1. content[dir[i]] \in Seq(Int) /\ k \in 1 .. Len(content[dir[i]])
  BY DEF Rec, Contents, Directories
<1> QED BY <1>1 DEF Num

\* The files under .j and older names hold the records up to m, and the newer
\* ones those behind it.
Parted(j, m) ==
    \A i \in Names : \A k \in Nat :
        Rec(dir, content, i, k) => (Num(dir, content, i, k) <= m <=> i >= j)

LEMMA LeastElement ==
    ASSUME NEW T \in SUBSET Nat, T # {}
    PROVE  \E x \in T : \A y \in T : x <= y
<1>1. \E x \in T : \A y \in T : ~(<<y, x>> \in OpToRel(<, Nat))
  BY NatLessThanWellFounded, WFMin
<1>2. PICK x \in T : \A y \in T : ~(<<y, x>> \in OpToRel(<, Nat))
  BY <1>1
<1>3. \A y \in T : ~(y < x)
  BY <1>2 DEF OpToRel
<1> QED BY <1>3

LEMMA PartedBehind ==
    ASSUME LogType, DiskOK, NEW j \in Names, NEW off, NEW a \in pos .. written,
           Cut(dir, content, j, off, a)
    PROVE  \E m \in a .. written : Parted(j, m)
<1>0. /\ dir \in Directories /\ content \in Contents /\ InOrder(dir, content)
      /\ written \in Nat /\ pos \in Nat /\ a \in Nat /\ a <= written /\ j \in Nat
  BY RequestLogAssumption DEF LogType, DiskOK, Names
<1> DEFINE T == {m \in a .. written : \A i \in Names : \A k \in Nat :
                    Rec(dir, content, i, k) /\ i >= j => Num(dir, content, i, k) <= m}
<1>1. written \in T
  BY <1>0 DEF DiskOK, AtMost
<1>2. T \in SUBSET Nat
  BY <1>0
<1>3. PICK m \in T : \A y \in T : m <= y
  <2> HIDE DEF T
  <2> QED BY <1>1, <1>2, LeastElement
<1>4. m \in a .. written
  OBVIOUS
<1>5. ASSUME NEW x \in Names, x < j, NEW k \in Nat, Rec(dir, content, x, k)
      PROVE  Num(dir, content, x, k) > m
  <2>0. Num(dir, content, x, k) \in Int
    BY <1>5, <1>0, NumInt
  <2>1. CASE m = a
    <3>1. ~(Num(dir, content, x, k) <= a)
      BY <1>5, <1>0 DEF Cut, Names
    <3> QED BY <3>1, <2>1, <2>0, <1>0
  <2>2. CASE m # a
    <3>1. m - 1 \in a .. written /\ m - 1 \notin T
      BY <2>2, <1>3, <1>4, <1>0
    <3>2. PICK i \in Names, l \in Nat :
             Rec(dir, content, i, l) /\ i >= j /\ ~(Num(dir, content, i, l) <= m - 1)
      BY <3>1
    <3>3. Num(dir, content, i, l) \in Int /\ Num(dir, content, i, l) <= m
      BY <3>2, <1>0, NumInt
    <3>4. Num(dir, content, i, l) < Num(dir, content, x, k)
      <4>1. Before(i, l, x, k)
        BY <3>2, <1>5 DEF Before, Names
      <4> QED BY <4>1, <3>2, <1>5, <1>0 DEF InOrder
    <3> QED BY <3>2, <3>3, <3>4, <2>0, <1>4, <1>0
  <2> QED BY <2>1, <2>2
<1>7. ASSUME NEW i \in Names, NEW k \in Nat, Rec(dir, content, i, k)
      PROVE  Num(dir, content, i, k) <= m <=> i >= j
  <2>1. CASE i >= j
    BY <2>1, <1>3, <1>7
  <2>2. CASE i < j
    <3>1. Num(dir, content, i, k) \in Int /\ Num(dir, content, i, k) > m
      BY <2>2, <1>5, <1>7, <1>0, NumInt
    <3> QED BY <3>1, <2>2, <1>4, <1>0 DEF Names
  <2> QED BY <2>1, <2>2, <1>0 DEF Names
<1>8. Parted(j, m)
  BY <1>7 DEF Parted
<1> QED BY <1>8, <1>4

\* A file behind a cut, as far as its records go.
LEMMA ScanFile ==
    ASSUME LogType, DiskOK, NEW j \in Names, dir[j] # NoFile, NEW off \in Nat,
           NEW a \in pos .. written, NEW m \in a .. written,
           Cut(dir, content, j, off, a), Parted(j, m), ~Glued(dir[j], off)
    PROVE  scanFrom(j, off) = Run(a, m)
<1>0. /\ dir \in Directories /\ content \in Contents /\ InOrder(dir, content)
      /\ m \in Nat /\ a \in Nat /\ pos <= a /\ a <= m /\ m <= written
      /\ written \in Nat /\ pos \in Nat /\ j \in Nat
  BY RequestLogAssumption DEF LogType, DiskOK, Names
<1> DEFINE P == Records(j, off)
<1>1. ASSUME NEW p \in P
      PROVE  /\ p \in Names \X Nat /\ Rec(dir, content, p[1], p[2])
             /\ NumAt(p) \in a + 1 .. m
  <2>1. /\ p \in Names \X Nat /\ p[1] = j /\ p[2] > off
        /\ Rec(dir, content, p[1], p[2]) /\ NumAt(p) = Num(dir, content, j, p[2])
    BY <1>0, InRecords
  <2>2. p[2] \in Nat /\ Rec(dir, content, j, p[2])
    BY <2>1
  <2>3. NumAt(p) \in Int
    BY <2>1, <2>2, <1>0, NumInt
  <2>4. Num(dir, content, j, p[2]) <= m
    BY <2>2, <1>0 DEF Parted
  <2>5. ~(Num(dir, content, j, p[2]) <= a)
    <3>1. ~(j > j \/ (j = j /\ p[2] <= off))
      BY <2>1, <2>2, <1>0
    <3> QED BY <2>2, <3>1 DEF Cut
  <2> QED BY <2>1, <2>3, <2>4, <2>5, <1>0
<1>2. ASSUME NEW n \in a + 1 .. m
      PROVE  \E p \in P : NumAt(p) = n
  <2>1. n \in pos + 1 .. written
    BY <1>0
  <2>2. PICK i \in Names, k \in Nat : Rec(dir, content, i, k) /\ Num(dir, content, i, k) = n
    BY <2>1 DEF DiskOK, Held
  <2>3. i >= j
    BY <2>2, <1>0 DEF Parted
  <2>4. ~(i > j \/ (i = j /\ k <= off))
    BY <2>2, <1>0 DEF Cut
  <2>5. i = j /\ k > off
    BY <2>3, <2>4, <1>0 DEF Names
  <2>6. <<j, k>> \in P /\ NumAt(<<j, k>>) = n
    BY <2>2, <2>5, <1>0, RecordsHave
  <2> QED BY <2>6
<1>3. P \in SUBSET (Names \X Nat)
  BY <1>1
<1> HIDE DEF P
<1>4. Read(P) = Run(a, m)
  BY <1>0, <1>1, <1>2, <1>3, ReadRecords
<1> QED BY <1>4 DEF P, scanFrom

\* requests.jsonl behind a cut: everything that was written since.
LEMMA ScanMain ==
    ASSUME LogType, DiskOK, dir[0] # NoFile, NEW off \in Nat, NEW m \in pos .. written,
           Cut(dir, content, 0, off, m), ~Glued(dir[0], off)
    PROVE  scanFrom(0, off) = Run(m, written)
<1>1. 0 \in Names /\ written \in m .. written
  BY RequestLogAssumption DEF LogType, Names
<1>2. Parted(0, written)
  BY DEF Parted, DiskOK, AtMost, Names
<1> QED BY <1>1, <1>2, ScanFile

-----------------------------------------------------------------------------
(* The steps of the logger *)

\* A step of the logger leaves the scanner as it is: cursors stand where they
\* stood, and the file that a Peek has seen is still there.
LEMMA ReaderFollows ==
    ASSUME LogType, DiskOK, ScanOK, UNCHANGED <<cursor, reader, pos>>,
           written' \in Nat, written <= written',
           \A ino \in {cursor.ino, next.ino, scan.main, scan.at.ino} :
               \A off \in Nat : \A p \in 0 .. written :
                   Stands(dir, content, ino, off, p) => Stands(dir', content', ino, off, p),
           Newer(dir, scan.main, scan.at.ino) =>
               /\ Newer(dir', scan.main, scan.at.ino)
               /\ content'[scan.at.ino] = content[scan.at.ino],
           \A j \in Names : dir[j] = scan.main /\ scan.main # NoFile
                               => \E x \in Names : dir'[x] = scan.main
    PROVE  ScanOK' /\ CursorAt(dir', content', cursor', pos')
<1>0. /\ rpc' = rpc /\ scan' = scan /\ batch' = batch /\ next' = next /\ upto' = upto
      /\ cursor' = cursor /\ pos' = pos
      /\ cursor.off \in Nat /\ next.off \in Nat /\ scan.at.off \in Nat /\ 0 \in Nat
      /\ pos \in Nat /\ written \in Nat /\ pos <= written
  BY DEF reader, LogType, Cursors, Scans
<1>1. CursorAt(dir', content', cursor', pos')
  BY <1>0 DEF DiskOK, CursorAt
<1>2. ASSUME rpc = "held"
      PROVE  upto \in pos .. written' /\ CursorAt(dir', content', next, upto)
  <2>1. upto \in pos .. written /\ CursorAt(dir, content, next, upto)
    BY <1>2 DEF ScanOK
  <2>2. upto \in 0 .. written
    BY <2>1, <1>0
  <2> QED BY <2>1, <2>2, <1>0 DEF CursorAt
<1>3. ASSUME rpc = "main", scan.rotated
      PROVE  \E m \in pos .. written' :
                batch = Run(pos, m) /\ Stands(dir', content', scan.main, 0, m)
  <2>1. PICK m \in pos .. written :
           batch = Run(pos, m) /\ Stands(dir, content, scan.main, 0, m)
    BY <1>3 DEF ScanOK
  <2>2. m \in 0 .. written /\ m \in pos .. written'
    BY <1>0
  <2> QED BY <2>1, <2>2
<1>4. ASSUME rpc \in Draining
      PROVE  /\ Newer(dir', scan.main, scan.at.ino)
             /\ content'[scan.at.ino] = content[scan.at.ino]
             /\ \E m \in pos .. written' : ReadSoFar(m)'
  <2>1. PICK m \in pos .. written : ReadSoFar(m)
    BY <1>4 DEF ScanOK
  <2>2. m \in 0 .. written /\ m \in pos .. written'
    BY <1>0
  <2>3. ReadSoFar(m)'
    BY <2>1, <2>2, <1>0 DEF ReadSoFar
  <2> QED BY <2>2, <2>3, <1>4 DEF ScanOK
<1>5. ScanOK'
  BY <1>0, <1>2, <1>3, <1>4 DEF ScanOK, Peeking, Draining
<1> QED BY <1>1, <1>5

\* A line that is appended is not in a file that has a newer one.
LEMMA AppendSpares ==
    ASSUME NEW D \in Directories, NEW C \in Contents, OneName(D), NEW v, NEW a, NEW b,
           Newer(D, a, b)
    PROVE  Appended(D, C, v)[b] = C[b]
<1>1. PICK x \in Names, l \in Names : D[l] = b /\ b # NoFile /\ x < l
  BY DEF Newer
<1>2. 0 \in Names /\ l # 0
  BY <1>1, RequestLogAssumption DEF Names
<1>3. D[0] # b /\ b \in Inodes
  BY <1>1, <1>2 DEF OneName, Directories
<1> QED BY <1>3 DEF Appended, Contents

LEMMA LogKeeps ==
    ASSUME LogInv, NEW v \in Int, Log(v), v = written + 1 \/ v <= 0,
           written' = IF v = written + 1 THEN written + 1 ELSE written
    PROVE  LogInv'
<1> SUFFICES ASSUME excuses = {}
             PROVE  LogType' /\ DiskOK' /\ ScanOK'
  BY DEF LogInv, Log
<1>0. LogType /\ DiskOK /\ ScanOK
  BY DEF LogInv
<1>1. /\ dir \in Directories /\ content \in Contents /\ OneName(dir)
      /\ handle = dir[0] /\ dir[0] # NoFile /\ shift = Idle
      /\ InOrder(dir, content) /\ AtMost(dir, content, written)
      /\ Held(dir, content, pos, written)
      /\ written \in Nat /\ pos \in Nat /\ pos <= written
  BY <1>0 DEF LogType, DiskOK, Log
<1>2. /\ content' = Appended(dir, content, v) /\ dir' = dir
      /\ UNCHANGED <<cursor, reader, pos, excuses>>
  BY <1>1 DEF Log, Appended
<1>3. written' \in Nat /\ written <= written'
      /\ (v > 0 => v = written + 1 /\ written' = written + 1) /\ (v <= 0 => written' = written)
  BY <1>1
<1>4. LogType'
  <2>1. content' \in Contents
    BY <1>1, <1>2, AppendType
  <2>2. handle' \in Inodes \cup {NoFile} /\ shift' \in Idle .. MaxBackups
    BY <1>0, RequestLogAssumption DEF LogType, Log, Idle
  <2> QED BY <1>0, <1>2, <1>3, <2>1, <2>2 DEF LogType, reader
<1>5. ScanOK' /\ CursorAt(dir', content', cursor', pos')
  <2>1. ASSUME NEW ino \in {cursor.ino, next.ino, scan.main, scan.at.ino}, NEW off \in Nat,
               NEW p \in 0 .. written, Stands(dir, content, ino, off, p)
        PROVE  Stands(dir', content', ino, off, p)
    <3>1. p \in Nat /\ (v > 0 => v > p)
      BY <1>1, <1>3
    <3> QED BY <2>1, <3>1, <1>1, <1>2, AppendKeepsStands
  <2>2. ASSUME Newer(dir, scan.main, scan.at.ino)
        PROVE  content'[scan.at.ino] = content[scan.at.ino]
    BY <2>2, <1>1, <1>2, AppendSpares
  <2> QED BY <1>0, <1>2, <1>3, <2>1, <2>2, ReaderFollows
<1>6. InOrder(dir', content') /\ AtMost(dir', content', written')
  <2>1. v > 0 => v = written + 1
    BY <1>3
  <2>2. /\ InOrder(dir, Appended(dir, content, v))
        /\ AtMost(dir, Appended(dir, content, v), written + 1)
        /\ v <= 0 => AtMost(dir, Appended(dir, content, v), written)
    BY <1>1, <2>1, AppendKeepsOrder
  <2> QED BY <2>2, <1>2, <1>3
<1>7. Held(dir', content', pos', written')
  <2>1. /\ Held(dir, Appended(dir, content, v), pos, written)
        /\ v = written + 1 => Held(dir, Appended(dir, content, v), pos, written + 1)
    BY <1>1, AppendKeepsHeld
  <2> QED BY <2>1, <1>2, <1>3
<1>8. /\ handle' # NoFile => handle' = dir'[0] /\ shift' = Idle
      /\ shift' \notin 0 .. MaxBackups - 1
  BY <1>1, <1>2, RequestLogAssumption DEF Log, Idle
<1>9. OneName(dir')
  BY <1>1, <1>2
<1>10. DiskOK'
  BY <1>5, <1>6, <1>7, <1>8, <1>9 DEF DiskOK
<1> QED BY <1>4, <1>5, <1>10

LEMMA LogBillableKeeps == ASSUME LogInv, LogBillable PROVE LogInv'
<1>1. CASE excuses = {}
  <2>1. written \in Nat
    BY <1>1 DEF LogInv, LogType
  <2>2. written + 1 \in Int
    BY <2>1
  <2> QED BY <2>2, LogKeeps DEF LogBillable
<1>2. CASE excuses # {}
  BY <1>2 DEF LogBillable, Log, LogInv
<1> QED BY <1>1, <1>2

LEMMA LogOtherKeeps == ASSUME LogInv, LogOther PROVE LogInv'
<1>1. CASE excuses = {}
  <2>1. written \in Nat
    BY <1>1 DEF LogInv, LogType
  <2>2. Other \in Int /\ Other <= 0 /\ Other # written + 1
    BY <2>1 DEF Other
  <2> QED BY <2>2, LogKeeps DEF LogOther
<1>2. CASE excuses # {}
  BY <1>2 DEF LogOther, Log, LogInv
<1> QED BY <1>1, <1>2

LEMMA LogTornKeeps == ASSUME LogInv, LogTorn PROVE LogInv'
<1> SUFFICES ASSUME excuses = {}
             PROVE  LogType' /\ DiskOK' /\ ScanOK'
  BY DEF LogInv, LogTorn
<1>0. LogType /\ DiskOK /\ ScanOK
  BY DEF LogInv
<1>1. /\ dir \in Directories /\ content \in Contents /\ OneName(dir)
      /\ handle = dir[0] /\ dir[0] # NoFile /\ shift = Idle
      /\ InOrder(dir, content) /\ AtMost(dir, content, written)
      /\ Held(dir, content, pos, written)
      /\ written \in Nat /\ pos \in Nat /\ pos <= written
  BY <1>0 DEF LogType, DiskOK, LogTorn
<1>2. /\ dir' = dir /\ UNCHANGED <<handle, shift, cursor, reader, written, pos, excuses>>
  BY DEF LogTorn, history
<1>3. CASE content' = content
  BY <1>0, <1>2, <1>3 DEF LogType, DiskOK, ScanOK, ReadSoFar, reader
<1>4. CASE content' = Appended(dir, content, Torn)
  <2>0. Torn \in Int /\ ~(Torn > 0) /\ Torn <= 0
    BY DEF Torn
  <2>1. LogType'
    <3>1. content' \in Contents
      BY <1>1, <1>4, <2>0, AppendType
    <3> QED BY <3>1, <1>0, <1>2 DEF LogType, reader
  <2>2. ScanOK' /\ CursorAt(dir', content', cursor', pos')
    <3>1. ASSUME NEW ino \in {cursor.ino, next.ino, scan.main, scan.at.ino}, NEW off \in Nat,
                 NEW p \in 0 .. written, Stands(dir, content, ino, off, p)
          PROVE  Stands(dir', content', ino, off, p)
      <4>1. p \in Nat /\ (Torn > 0 => Torn > p)
        BY <1>1, <2>0
      <4> QED BY <3>1, <4>1, <1>1, <1>2, <1>4, <2>0, AppendKeepsStands
    <3>2. written' \in Nat /\ written <= written' /\ UNCHANGED <<cursor, reader, pos>>
      BY <1>1, <1>2
    <3>3. Newer(dir, scan.main, scan.at.ino) => content'[scan.at.ino] = content[scan.at.ino]
      BY <1>1, <1>4, AppendSpares
    <3> QED BY <1>0, <1>2, <3>1, <3>2, <3>3, ReaderFollows
  <2>3. InOrder(dir', content') /\ AtMost(dir', content', written')
    <3>1. Torn > 0 => Torn = written + 1
      BY <2>0
    <3>2. /\ InOrder(dir, Appended(dir, content, Torn))
          /\ Torn <= 0 => AtMost(dir, Appended(dir, content, Torn), written)
      BY <1>1, <2>0, <3>1, AppendKeepsOrder
    <3> QED BY <3>2, <2>0, <1>2, <1>4
  <2>4. Held(dir', content', pos', written')
    <3>1. Held(dir, Appended(dir, content, Torn), pos, written)
      BY <1>1, <2>0, AppendKeepsHeld
    <3> QED BY <3>1, <1>2, <1>4
  <2>5. DiskOK'
    BY <2>2, <2>3, <2>4, <1>0, <1>2 DEF DiskOK
  <2> QED BY <2>1, <2>2, <2>5
<1>5. content' = content \/ content' = Appended(dir, content, Torn)
  <2>1. handle \in Inodes
    BY <1>1, <1>0 DEF LogType
  <2>2. CASE content[handle] # << >> /\ Last(content[handle]) = Torn
    <3>1. content' = [content EXCEPT ![handle] = content[handle]]
      BY <2>2 DEF LogTorn
    <3> QED BY <3>1, <2>1, <1>1 DEF Contents
  <2>3. CASE ~(content[handle] # << >> /\ Last(content[handle]) = Torn)
    BY <2>3, <1>1 DEF LogTorn, Appended
  <2> QED BY <2>2, <2>3
<1> QED BY <1>3, <1>4, <1>5

\* requests.jsonl is opened, and created if it is not there.
LEMMA OpenKeeps ==
    ASSUME LogType, DiskOK, NEW n, OpenMain(n)
    PROVE  /\ dir' \in Directories /\ content' \in Contents
           /\ handle' \in Inodes /\ handle' = dir'[0] /\ OneName(dir')
           /\ InOrder(dir', content') /\ AtMost(dir', content', written)
           /\ Held(dir', content', pos, written)
           /\ \A ino \in Inodes \cup {NoFile} : \A off \in Nat : \A p \in Nat :
                 Stands(dir, content, ino, off, p) => Stands(dir', content', ino, off, p)
           /\ \A j \in Names : dir[j] # NoFile =>
                 dir'[j] = dir[j] /\ content'[dir[j]] = content[dir[j]]
<1>0. /\ dir \in Directories /\ content \in Contents /\ OneName(dir)
      /\ InOrder(dir, content) /\ AtMost(dir, content, written)
      /\ Held(dir, content, pos, written) /\ 0 \in Names
  BY RequestLogAssumption DEF LogType, DiskOK, Names
<1>1. CASE dir[0] # NoFile
  <2>1. handle' = dir[0] /\ dir' = dir /\ content' = content
    BY <1>1 DEF OpenMain
  <2>2. dir[0] \in Inodes
    BY <1>0, <1>1 DEF Directories
  <2> QED BY <2>1, <2>2, <1>0
<1>2. CASE dir[0] = NoFile
  <2>1. PICK f \in Inodes \ Range(dir) :
           /\ dir' = Created(dir, f) /\ content' = Emptied(content, f) /\ handle' = f
    BY <1>2 DEF OpenMain, Created, Emptied
  <2>2. /\ dir' \in Directories /\ OneName(dir') /\ dir'[0] = f
        /\ \A i \in Names \ {0} : dir'[i] = dir[i]
        /\ \A i \in Names : dir[i] # f
    BY <2>1, <1>0, <1>2, CreateType
  <2>3. content' \in Contents /\ \A g \in Inodes \ {f} : content'[g] = content[g]
    BY <2>1, <1>0, EmptyType
  <2>4. ASSUME NEW i \in Names, NEW k \in Nat
        PROVE  /\ Rec(dir', content', i, k) <=> Rec(dir, content, i, k)
               /\ Rec(dir, content, i, k) =>
                     Num(dir', content', i, k) = Num(dir, content, i, k)
    BY <2>1, <1>0, <1>2, CreateRec
  <2>5. Fewer(dir, content, dir', content')
    BY <2>4 DEF Fewer
  <2>6. InOrder(dir', content') /\ AtMost(dir', content', written)
    BY <2>5, <1>0, FewerKeepsOrder, FewerKeepsAtMost
  <2>7. Held(dir', content', pos, written)
    BY <2>4, <1>0 DEF Held
  <2>8. ASSUME NEW ino \in Inodes \cup {NoFile}, NEW off \in Nat, NEW p \in Nat,
               Stands(dir, content, ino, off, p)
        PROVE  Stands(dir', content', ino, off, p)
    <3>1. PICK j \in Names : dir[j] = ino /\ ino # NoFile
      BY <2>8 DEF Stands
    <3>2. content'[ino] = content[ino]
      BY <3>1, <2>2, <2>3
    <3>3. \A i \in Names : dir[i] = ino => dir'[i] = ino
      BY <3>1, <2>2, <1>2
    <3> QED BY <2>5, <2>8, <3>2, <3>3, FewerKeepsStands
  <2>9. \A j \in Names : dir[j] # NoFile =>
           dir'[j] = dir[j] /\ content'[dir[j]] = content[dir[j]]
    <3>1. \A j \in Names : dir[j] # NoFile => dir[j] \in Inodes \ {f} /\ j # 0
      BY <2>2, <1>0, <1>2 DEF Directories
    <3> QED BY <3>1, <2>2, <2>3
  <2> QED BY <2>1, <2>2, <2>3, <2>6, <2>7, <2>8, <2>9, <1>2
<1> QED BY <1>1, <1>2

LEMMA ReopenLogKeeps == ASSUME LogInv, ReopenLog PROVE LogInv'
<1> SUFFICES ASSUME excuses = {}
             PROVE  LogType' /\ DiskOK' /\ ScanOK'
  BY DEF LogInv, ReopenLog
<1>0. LogType /\ DiskOK /\ ScanOK
  BY DEF LogInv
<1>1. /\ shift' = Idle /\ OpenMain(0)
      /\ UNCHANGED <<cursor, reader, written, pos, excuses>>
  BY DEF ReopenLog, history
<1>2. /\ dir' \in Directories /\ content' \in Contents
      /\ handle' \in Inodes /\ handle' = dir'[0] /\ OneName(dir')
      /\ InOrder(dir', content') /\ AtMost(dir', content', written)
      /\ Held(dir', content', pos, written)
      /\ \A ino \in Inodes \cup {NoFile} : \A off \in Nat : \A p \in Nat :
            Stands(dir, content, ino, off, p) => Stands(dir', content', ino, off, p)
      /\ \A j \in Names : dir[j] # NoFile =>
            dir'[j] = dir[j] /\ content'[dir[j]] = content[dir[j]]
  BY <1>0, <1>1, OpenKeeps
<1>3. LogType'
  BY <1>0, <1>1, <1>2, RequestLogAssumption DEF LogType, reader, Idle
<1>4. ScanOK' /\ CursorAt(dir', content', cursor', pos')
  <2>1. written' \in Nat /\ written <= written' /\ UNCHANGED <<cursor, reader, pos>>
    BY <1>0, <1>1 DEF LogType
  <2>2. {cursor.ino, next.ino, scan.main, scan.at.ino} \subseteq Inodes \cup {NoFile}
        /\ 0 .. written \subseteq Nat
    BY <1>0 DEF LogType, Cursors, Scans
  <2>3. \A j \in Names : dir[j] = scan.main /\ scan.main # NoFile
                            => \E x \in Names : dir'[x] = scan.main
    BY <1>2
  <2>4. Newer(dir, scan.main, scan.at.ino) =>
           /\ Newer(dir', scan.main, scan.at.ino)
           /\ content'[scan.at.ino] = content[scan.at.ino]
    BY <1>2 DEF Newer
  <2> QED BY <1>0, <1>2, <2>1, <2>2, <2>3, <2>4, ReaderFollows
<1>5. DiskOK'
  BY <1>1, <1>2, <1>4, RequestLogAssumption DEF DiskOK, Idle
<1> QED BY <1>3, <1>4, <1>5

LEMMA ReopenFailsKeeps == ASSUME LogInv, ReopenFails PROVE LogInv'
<1>1. /\ shift = Reopen /\ shift' = Idle
      /\ UNCHANGED <<dir, content, handle, cursor, reader, written, pos, excuses>>
  BY DEF ReopenFails, history
<1> SUFFICES ASSUME excuses = {}
             PROVE  LogType' /\ DiskOK' /\ ScanOK'
  BY <1>1 DEF LogInv
<1>0. LogType /\ DiskOK /\ ScanOK
  BY DEF LogInv
<1>2. LogType'
  BY <1>0, <1>1, RequestLogAssumption DEF LogType, reader, Idle
<1>3. DiskOK'
  BY <1>0, <1>1, RequestLogAssumption DEF DiskOK, Idle
<1>4. ScanOK'
  BY <1>0, <1>1 DEF ScanOK, ReadSoFar, reader
<1> QED BY <1>2, <1>3, <1>4

\* One rename of a rotation, or the removal of the oldest backup.
LEMMA ShiftKeeps == ASSUME LogInv, Shift PROVE LogInv'
<1> SUFFICES ASSUME excuses = {}, excuses' = {}
             PROVE  LogType' /\ DiskOK' /\ ScanOK'
  BY DEF LogInv, Shift
<1>0. LogType /\ DiskOK /\ ScanOK
  BY DEF LogInv
<1>1. /\ dir \in Directories /\ content \in Contents /\ OneName(dir)
      /\ InOrder(dir, content) /\ AtMost(dir, content, written)
      /\ Held(dir, content, pos, written)
      /\ written \in Nat /\ pos \in Nat /\ pos <= written
      /\ shift \in 0 .. MaxBackups
  BY <1>0 DEF LogType, DiskOK, Shift, Idle
<1>2. /\ dir' = Renamed(shift) /\ shift' = shift - 1
      /\ UNCHANGED <<handle, cursor, reader, written, pos>>
      /\ content' = IF shift = MaxBackups /\ dir[shift] # NoFile
                    THEN Emptied(content, dir[shift]) ELSE content
  BY DEF Shift, Emptied, history
<1>3. handle = NoFile
  BY <1>0, <1>1 DEF DiskOK, Idle
<1>4. shift' \in Idle .. MaxBackups /\ shift' # Idle
  <2>1. MaxBackups \in Nat /\ Idle = -2
    BY RequestLogAssumption DEF Idle
  <2> QED BY <2>1, <1>1, <1>2
<1>5. /\ {cursor.ino, next.ino, scan.main, scan.at.ino} \subseteq Inodes \cup {NoFile}
      /\ UNCHANGED <<cursor, reader, pos>> /\ written' \in Nat /\ written <= written'
      /\ 0 .. written \subseteq Nat
  BY <1>0, <1>1, <1>2 DEF LogType, Cursors, Scans
<1>6. SUFFICES /\ dir' \in Directories /\ content' \in Contents /\ OneName(dir')
               /\ dir'[shift] = NoFile
               /\ InOrder(dir', content') /\ AtMost(dir', content', written)
               /\ Held(dir', content', pos, written)
               /\ \A ino \in {cursor.ino, next.ino, scan.main, scan.at.ino} :
                     \A off \in Nat : \A p \in 0 .. written :
                        Stands(dir, content, ino, off, p) => Stands(dir', content', ino, off, p)
               /\ \A j \in Names : dir[j] = scan.main /\ scan.main # NoFile
                                      => \E x \in Names : dir'[x] = scan.main
               /\ Newer(dir, scan.main, scan.at.ino) =>
                     /\ Newer(dir', scan.main, scan.at.ino)
                     /\ content'[scan.at.ino] = content[scan.at.ino]
  <2>1. ScanOK' /\ CursorAt(dir', content', cursor', pos')
    BY <1>0, <1>5, <1>6, ReaderFollows
  <2>2. LogType'
    BY <1>0, <1>2, <1>4, <1>6 DEF LogType, reader
  <2>3. shift' + 1 = shift
    BY <1>1, <1>2
  <2>4. DiskOK'
    BY <2>1, <2>3, <1>2, <1>3, <1>6 DEF DiskOK
  <2> QED BY <2>1, <2>2, <2>4
<1>7. CASE dir[shift] = NoFile
  <2>1. dir' = dir
    <3>1. CASE shift = MaxBackups
      <4>1. dir' = [dir EXCEPT ![shift] = dir[shift]]
        BY <3>1, <1>2, <1>7 DEF Renamed
      <4> QED BY <4>1, <1>1 DEF Directories
    <3>2. CASE shift # MaxBackups
      BY <3>2, <1>2, <1>7 DEF Renamed
    <3> QED BY <3>1, <3>2
  <2>2. content' = content
    BY <1>2, <1>7
  <2> QED BY <2>1, <2>2, <1>1, <1>7
<1>8. CASE dir[shift] # NoFile /\ shift # MaxBackups
  <2>1. shift \in 0 .. MaxBackups - 1 /\ dir[shift + 1] = NoFile
    BY <1>0, <1>1, <1>8, RequestLogAssumption DEF DiskOK
  <2>2. dir' = Moved(dir, shift) /\ content' = content
    BY <1>2, <1>8 DEF Renamed, Moved
  <2>3. /\ shift \in Names /\ shift + 1 \in Names
        /\ dir' \in Directories /\ dir'[shift] = NoFile /\ dir'[shift + 1] = dir[shift]
        /\ \A i \in Names \ {shift, shift + 1} : dir'[i] = dir[i]
    BY <2>1, <2>2, <1>1, MoveType
  <2>4. OneName(dir')
    BY <2>1, <2>2, <1>1, MoveOneName
  <2>5. InOrder(dir', content')
    BY <2>1, <2>2, <1>1, MoveKeepsOrder
  <2>6. AtMost(dir', content', written)
    BY <2>1, <2>2, <1>1, MoveKeepsAtMost
  <2>7. Held(dir', content', pos, written)
    BY <2>1, <2>2, <1>1, MoveKeepsHeld
  <2>8. ASSUME NEW ino \in {cursor.ino, next.ino, scan.main, scan.at.ino},
               NEW off \in Nat, NEW p \in 0 .. written, Stands(dir, content, ino, off, p)
        PROVE  Stands(dir', content', ino, off, p)
    <3>1. p \in Nat
      BY <1>5
    <3> QED BY <3>1, <2>1, <2>2, <2>8, <1>1, MoveKeepsStands
  <2>9. ASSUME NEW j \in Names, dir[j] = scan.main, scan.main # NoFile
        PROVE  \E x \in Names : dir'[x] = scan.main
    <3>1. j # shift + 1
      BY <2>9, <2>1
    <3> QED BY <3>1, <2>9, <2>3
  <2>10. ASSUME Newer(dir, scan.main, scan.at.ino)
         PROVE  Newer(dir', scan.main, scan.at.ino)
    BY <2>1, <2>2, <2>10, <1>1, MoveKeepsNewer
  <2> QED BY <2>2, <2>3, <2>4, <2>5, <2>6, <2>7, <2>8, <2>9, <2>10, <1>1
<1>9. CASE dir[shift] # NoFile /\ shift = MaxBackups
  <2> DEFINE f == dir[MaxBackups]
  <2>1. /\ dir' = Removed(dir) /\ content' = Emptied(content, f)
        /\ f # NoFile
    BY <1>2, <1>9 DEF Renamed, Removed
  <2>2. f \notin {cursor.ino, next.ino, scan.main, scan.at.ino} /\ ~Unpassed(f)
    BY <1>9 DEF Shift, Excuse
  <2>3. /\ f \in Inodes /\ MaxBackups \in Names
        /\ dir' \in Directories /\ OneName(dir') /\ dir'[MaxBackups] = NoFile
        /\ \A i \in Names \ {MaxBackups} : dir'[i] = dir[i] /\ dir[i] # f
    BY <2>1, <1>1, RemoveType
  <2>4. content' \in Contents /\ \A g \in Inodes \ {f} : content'[g] = content[g]
    BY <2>1, <2>3, <1>1, EmptyType
  <2>5. ASSUME NEW i \in Names, NEW k \in Nat
        PROVE  /\ Rec(dir', content', i, k) <=> Rec(dir, content, i, k) /\ i # MaxBackups
               /\ Rec(dir, content, i, k) /\ i # MaxBackups =>
                     Num(dir', content', i, k) = Num(dir, content, i, k)
    BY <2>1, <1>1, RemoveRec
  <2>6. Fewer(dir, content, dir', content')
    BY <2>5 DEF Fewer
  <2>7. InOrder(dir', content') /\ AtMost(dir', content', written)
    BY <2>6, <1>1, FewerKeepsOrder, FewerKeepsAtMost
  <2>8. Held(dir', content', pos, written)
    <3> SUFFICES ASSUME NEW n \in pos + 1 .. written
                 PROVE  \E i \in Names : \E k \in Nat :
                           Rec(dir', content', i, k) /\ Num(dir', content', i, k) = n
      BY DEF Held
    <3>1. PICK i \in Names, k \in Nat : Rec(dir, content, i, k) /\ Num(dir, content, i, k) = n
      BY <1>1 DEF Held
    <3>2. i # MaxBackups
      BY <3>1, <2>2, <1>1 DEF Rec, Num, Unpassed, Lines
    <3> QED BY <3>1, <3>2, <2>5
  <2>9. ASSUME NEW ino \in {cursor.ino, next.ino, scan.main, scan.at.ino},
               NEW off \in Nat, NEW p \in 0 .. written, Stands(dir, content, ino, off, p)
        PROVE  Stands(dir', content', ino, off, p)
    <3>1. ino \in Inodes
      BY <2>9, <1>5 DEF Stands
    <3>2. ino # f
      BY <2>2
    <3>3. content'[ino] = content[ino] /\ \A i \in Names : dir[i] = ino => dir'[i] = ino
      BY <3>1, <3>2, <2>3, <2>4
    <3> QED BY <3>3, <2>6, <2>9, FewerKeepsStands
  <2>10. \A j \in Names : dir[j] = scan.main /\ scan.main # NoFile
                            => \E x \in Names : dir'[x] = scan.main
    BY <2>2, <2>3
  <2>11. ASSUME Newer(dir, scan.main, scan.at.ino)
         PROVE  /\ Newer(dir', scan.main, scan.at.ino)
                /\ content'[scan.at.ino] = content[scan.at.ino]
    <3>1. PICK x \in Names, l \in Names :
             /\ dir[x] = scan.main /\ dir[l] = scan.at.ino
             /\ scan.main # NoFile /\ scan.at.ino # NoFile /\ x < l
      BY <2>11 DEF Newer
    <3>2. x # MaxBackups /\ l # MaxBackups
      BY <3>1, <2>2
    <3>3. dir'[x] = scan.main /\ dir'[l] = scan.at.ino /\ scan.at.ino \in Inodes \ {f}
      BY <3>1, <3>2, <2>2, <2>3, <1>1 DEF Directories
    <3> QED BY <3>1, <3>3, <2>4 DEF Newer
  <2> QED BY <2>3, <2>4, <2>7, <2>8, <2>9, <2>10, <2>11, <1>9
<1> QED BY <1>7, <1>8, <1>9

-----------------------------------------------------------------------------
(* The steps of the scanner *)

\* A step of the scanner before its commit leaves the disk and the cursor alone.
LEMMA PeekKeepsDisk ==
    ASSUME LogType, DiskOK, UNCHANGED <<dir, content, handle, shift, cursor, written, pos>>
    PROVE  DiskOK'
BY DEF DiskOK

LEMMA PeekStatKeeps ==
    ASSUME LogInv, excuses = {}, PeekStat(cursor)
    PROVE  LogType' /\ DiskOK' /\ ScanOK'
<1>0. LogType /\ DiskOK /\ ScanOK
  BY DEF LogInv
<1>1. /\ UNCHANGED <<dir, content, handle, shift, cursor, next, upto, written, pos>>
      /\ scan' = [cur |-> cursor, main |-> dir[0],
                  rotated |-> dir[0] # NoFile /\ Rotated(cursor, dir[0]),
                  i |-> 1, from |-> 0, at |-> cursor]
      /\ rpc' = IF dir[0] = NoFile THEN "gone"
                ELSE IF ~Rotated(cursor, dir[0]) THEN "main"
                ELSE IF cursor.ino = NoFile THEN "best" ELSE "search"
      /\ batch' = << >>
  BY DEF PeekStat, NoScan, disk, history
<1>2. 0 \in Names /\ dir[0] \in Inodes \cup {NoFile} /\ cursor \in Cursors
      /\ cursor.off \in Nat /\ (cursor.ino # NoFile => Len(content[cursor.ino]) \in Nat)
  BY <1>0, RequestLogAssumption DEF LogType, Names, Directories, Cursors, Contents
<1>3. Rotated(cursor, dir[0]) \in BOOLEAN
  BY DEF Rotated
<1>4. LogType'
  <2>1. scan' \in Scans
    BY <1>1, <1>2, <1>3 DEF Scans
  <2> QED BY <2>1, <1>0, <1>1 DEF LogType
<1>5. DiskOK'
  BY <1>0, <1>1, PeekKeepsDisk
<1>6. Rotated(cursor, dir[0]) => cursor.ino # NoFile /\ cursor.ino # dir[0]
  <2>1. cursor.ino = NoFile => cursor.off = 0
    BY <1>0 DEF DiskOK, CursorAt
  <2>2. cursor.ino # NoFile => cursor.off <= Len(content[cursor.ino])
    BY <1>0 DEF DiskOK, CursorAt, Stands
  <2> QED BY <2>1, <2>2, <1>2 DEF Rotated, Lines
<1>7. ~Rotated(cursor, dir[0]) => cursor.ino \in {dir[0], NoFile}
  BY DEF Rotated
<1>8. ASSUME rpc' = "search"
      PROVE  /\ Newer(dir, dir[0], cursor.ino)
             /\ \E m \in pos .. written : ReadSoFar(m)'
  <2>1. dir[0] # NoFile /\ cursor.ino # NoFile /\ cursor.ino # dir[0]
    BY <1>1, <1>6, <1>8
  <2>2. Stands(dir, content, cursor.ino, cursor.off, pos)
    BY <1>0, <2>1 DEF DiskOK, CursorAt
  <2>3. PICK l \in Names : dir[l] = cursor.ino
    BY <2>2 DEF Stands
  <2>4. 0 < l
    BY <2>1, <2>3 DEF Names
  <2>5. Newer(dir, dir[0], cursor.ino)
    BY <2>1, <2>3, <2>4, <1>2 DEF Newer
  <2>6. PICK m \in pos .. written : m = pos
    BY <1>0 DEF LogType
  <2>7. Run(pos, m) = << >>
    BY <2>6, <1>0 DEF LogType, Run
  <2>8. ReadSoFar(m)'
    BY <2>2, <2>6, <2>7, <1>1 DEF ReadSoFar
  <2> QED BY <2>5, <2>8
<1>a. /\ scan'.cur = cursor' /\ scan'.main = dir'[0] /\ scan'.at = cursor' /\ scan'.i = 1
      /\ scan'.rotated = (dir[0] # NoFile /\ Rotated(cursor, dir[0]))
      /\ cursor' = cursor /\ dir' = dir /\ pos' = pos /\ written' = written
  BY <1>1
<1> SUFFICES ScanOK'
  BY <1>4, <1>5
<1>9. CASE rpc' = "gone"
  BY <1>a, <1>9 DEF ScanOK, Peeking, Draining
<1>10. CASE rpc' = "main"
  <2>1. dir[0] # NoFile /\ ~Rotated(cursor, dir[0])
    BY <1>1, <1>10
  <2>2. scan'.main # NoFile /\ batch' = << >> /\ ~scan'.rotated /\ 0 \in Names
        /\ cursor.ino \in {scan'.main, NoFile}
    BY <2>1, <1>a, <1>1, <1>2, <1>7
  <2> QED BY <2>2, <1>a, <1>10 DEF ScanOK, Peeking, Draining
<1>11. CASE rpc' = "search"
  <2>1. dir[0] # NoFile /\ Rotated(cursor, dir[0])
    BY <1>1, <1>11
  <2>2. scan'.main # NoFile /\ scan'.rotated /\ scan'.i >= 1 /\ 0 \in Names
    <3>1. 1 >= 1
      OBVIOUS
    <3> QED BY <3>1, <2>1, <1>a, <1>2
  <2>3. Newer(dir', scan'.main, scan'.at.ino)
    BY <1>a, <1>8, <1>11
  <2>4. \E m \in pos' .. written' : ReadSoFar(m)'
    BY <1>a, <1>8, <1>11
  <2> QED BY <2>2, <2>3, <2>4, <1>a, <1>11 DEF ScanOK, Peeking, Draining
<1>12. rpc' \in {"gone", "main", "search"}
  BY <1>1, <1>6
<1> QED BY <1>9, <1>10, <1>11, <1>12

LEMMA PeekBeginKeeps == ASSUME LogInv, PeekBegin PROVE LogInv'
BY PeekStatKeeps DEF PeekBegin, LogInv

LEMMA PeekNoCursorKeeps == ASSUME LogInv, PeekNoCursor PROVE LogInv'
<1> SUFFICES ASSUME excuses' = {}
             PROVE  LogType' /\ DiskOK' /\ ScanOK'
  BY DEF LogInv
<1>1. excuses = {} /\ cursor = NoCursor
  BY DEF PeekNoCursor, Excuse
<1> QED BY <1>1, PeekStatKeeps DEF PeekNoCursor

LEMMA PeekGoneKeeps == ASSUME LogInv, PeekGone PROVE LogInv'
<1> SUFFICES ASSUME excuses' = {}
             PROVE  LogType' /\ DiskOK' /\ ScanOK'
  BY DEF LogInv
<1>1. excuses = {} /\ batch' = << >>
  BY DEF PeekGone, Excuse
<1>0. LogType /\ DiskOK /\ ScanOK
  BY <1>1 DEF LogInv
<1>2. /\ rpc = "gone" /\ rpc' = "held" /\ next' = scan.cur /\ upto' = pos
      /\ UNCHANGED <<dir, content, handle, shift, cursor, scan, written, pos>>
  BY DEF PeekGone, disk, history
<1>3. scan.cur = cursor
  BY <1>0, <1>2 DEF ScanOK
<1>4. LogType'
  BY <1>0, <1>2, <1>3 DEF LogType
<1>5. DiskOK'
  BY <1>0, <1>2, PeekKeepsDisk
<1>6. pos \in Nat /\ written \in Nat /\ pos <= written
  BY <1>0 DEF LogType
<1>7. upto' \in pos .. written /\ batch' = Run(pos, pos)
  <2>1. Run(pos, pos) = << >>
    BY <1>6 DEF Run
  <2> QED BY <2>1, <1>1, <1>2, <1>6
<1>8. CursorAt(dir, content, cursor, pos)
  BY <1>0 DEF DiskOK
<1>9. ScanOK'
  BY <1>2, <1>3, <1>7, <1>8 DEF ScanOK, Peeking, Draining
<1> QED BY <1>4, <1>5, <1>9

LEMMA RunType ==
    ASSUME NEW a \in Nat, NEW b \in Nat, a <= b
    PROVE  /\ Run(a, b) \in Seq(Int) /\ Len(Run(a, b)) = b - a
           /\ \A n \in 1 .. (b - a) : Run(a, b)[n] = a + n
<1>1. b - a \in Nat /\ \A n \in 1 .. (b - a) : a + n \in Int
  OBVIOUS
<1>2. Run(a, b) \in Seq(Int) /\ Len(Run(a, b)) = b - a
  BY <1>1 DEF Run
<1> QED BY <1>1, <1>2 DEF Run

LEMMA RunsJoin ==
    ASSUME NEW a \in Nat, NEW b \in Nat, NEW c \in Nat, a <= b, b <= c
    PROVE  Run(a, b) \o Run(b, c) = Run(a, c)
<1>1. /\ Run(a, b) \in Seq(Int) /\ Len(Run(a, b)) = b - a
      /\ \A n \in 1 .. (b - a) : Run(a, b)[n] = a + n
  BY RunType
<1>2. /\ Run(b, c) \in Seq(Int) /\ Len(Run(b, c)) = c - b
      /\ \A n \in 1 .. (c - b) : Run(b, c)[n] = b + n
  BY RunType
<1>3. a <= c
  OBVIOUS
<1>4. /\ Run(a, c) \in Seq(Int) /\ Len(Run(a, c)) = c - a
      /\ \A n \in 1 .. (c - a) : Run(a, c)[n] = a + n
  BY <1>3, RunType
<1>5. /\ Run(a, b) \o Run(b, c) \in Seq(Int)
      /\ Len(Run(a, b) \o Run(b, c)) = c - a
  <2>1. Len(Run(a, b) \o Run(b, c)) = Len(Run(a, b)) + Len(Run(b, c))
    BY <1>1, <1>2, ConcatProperties
  <2>2. Run(a, b) \o Run(b, c) \in Seq(Int)
    BY <1>1, <1>2
  <2> QED BY <2>1, <2>2, <1>1, <1>2
<1>6. ASSUME NEW n \in 1 .. (c - a)
      PROVE  (Run(a, b) \o Run(b, c))[n] = Run(a, c)[n]
  <2>1. (Run(a, b) \o Run(b, c))[n] =
           IF n <= Len(Run(a, b)) THEN Run(a, b)[n] ELSE Run(b, c)[n - Len(Run(a, b))]
    BY <1>1, <1>2
  <2>2. CASE n <= b - a
    <3>1. n \in 1 .. (b - a)
      BY <2>2
    <3> QED BY <2>1, <3>1, <1>1, <1>4
  <2>3. CASE ~(n <= b - a)
    <3>1. n - (b - a) \in 1 .. (c - b) /\ b + (n - (b - a)) = a + n
      BY <2>3
    <3>2. Run(b, c)[n - (b - a)] = b + (n - (b - a))
      BY <3>1, <1>2
    <3> QED BY <2>1, <2>3, <3>1, <3>2, <1>1, <1>4
  <2> QED BY <2>2, <2>3
<1> QED BY <1>4, <1>5, <1>6, SeqEqual

\* Rotated: the search moves on, finds the cursor's file or gives up.
LEMMA PeekSearchKeeps == ASSUME LogInv, PeekSearch PROVE LogInv'
<1>1. /\ rpc = "search"
      /\ UNCHANGED <<dir, content, handle, shift, cursor, batch, next, upto, written, pos, excuses>>
  BY DEF PeekSearch, disk, history
<1> SUFFICES ASSUME excuses = {}
             PROVE  LogType' /\ DiskOK' /\ ScanOK'
  BY <1>1 DEF LogInv
<1>0. LogType /\ DiskOK /\ ScanOK
  BY DEF LogInv
<1>2. DiskOK'
  BY <1>0, <1>1, PeekKeepsDisk
<1>3. /\ scan \in Scans /\ scan.i \in Nat /\ scan.i >= 1 /\ scan.cur = cursor
      /\ cursor.off \in Nat /\ cursor = scan.at
  BY <1>0, <1>1 DEF LogType, ScanOK, Scans, Cursors, Draining
<1>4. PICK m \in pos .. written : ReadSoFar(m)
  BY <1>0, <1>1 DEF ScanOK, Draining
<1>5. cursor.ino # NoFile
  BY <1>3, <1>4 DEF ReadSoFar, Stands
<1>6. /\ scan.main # NoFile /\ \E j \in Names : dir[j] = scan.main
      /\ scan.rotated /\ Newer(dir, scan.main, scan.at.ino)
  BY <1>0, <1>1 DEF ScanOK, Peeking, Draining
<1>7. CASE rpc' = "best" /\ scan' = [scan EXCEPT !.i = 1]
  <2>1. scan' \in Scans /\ scan'.cur = cursor /\ scan'.main = scan.main
    BY <1>3, <1>7 DEF Scans
  <2> QED BY <2>1, <1>0, <1>1, <1>2, <1>6, <1>7 DEF LogType, ScanOK, Peeking, Draining
<1>8. CASE /\ BackupAt(scan.i) = scan.cur.ino /\ rpc' = "tail"
           /\ scan' = [scan EXCEPT !.from = scan.cur.off]
  <2>1. /\ scan' \in Scans /\ scan'.cur = cursor /\ scan'.main = scan.main /\ scan'.at = scan.at
        /\ scan'.rotated = scan.rotated /\ scan'.i = scan.i /\ scan'.from = cursor.off
    BY <1>3, <1>8 DEF Scans
  <2>2. scan.i <= MaxBackups
    BY <1>3, <1>5, <1>8 DEF BackupAt, Names
  <2>3. ReadSoFar(m)'
    BY <2>1, <1>1, <1>4 DEF ReadSoFar
  <2>4. ScanOK'
    BY <2>1, <2>2, <2>3, <1>1, <1>3, <1>6, <1>8 DEF ScanOK, Peeking, Draining
  <2> QED BY <2>1, <2>4, <1>0, <1>1, <1>2, <1>8 DEF LogType
<1>9. CASE rpc' = rpc /\ scan' = [scan EXCEPT !.i = scan.i + 1]
  <2>1. /\ scan' \in Scans /\ scan'.cur = cursor /\ scan'.main = scan.main /\ scan'.at = scan.at
        /\ scan'.rotated = scan.rotated /\ scan'.i >= 1
    BY <1>3, <1>9 DEF Scans
  <2>2. ReadSoFar(m)'
    BY <2>1, <1>1, <1>4 DEF ReadSoFar
  <2>3. ScanOK'
    BY <2>1, <2>2, <1>1, <1>3, <1>6, <1>9 DEF ScanOK, Peeking, Draining
  <2> QED BY <2>1, <2>3, <1>0, <1>1, <1>2, <1>9 DEF LogType
<1> QED BY <1>7, <1>8, <1>9 DEF PeekSearch

\* Where a backup is read from is where the records up to m end, whether it is the
\* file that the cursor was in or the next one.
LEMMA BackupCut ==
    ASSUME LogType, DiskOK, ScanOK, rpc \in {"tail", "newer"}, ~Raced(scan.i),
           dir[scan.i] # NoFile, NEW m \in pos .. written, ReadSoFar(m)
    PROVE  Cut(dir, content, scan.i, scan.from, m)
<1>1. /\ dir \in Directories /\ content \in Contents /\ OneName(dir)
      /\ scan.i \in Names /\ scan.i >= 1 /\ scan.cur = cursor
  BY DEF LogType, DiskOK, ScanOK, Scans, Draining, Names
<1>2. PICK j \in Names : dir[j] = scan.at.ino /\ scan.at.ino # NoFile
                         /\ Cut(dir, content, j, scan.at.off, m)
  BY DEF ReadSoFar, Stands
<1>3. CASE rpc = "tail"
  <2>1. dir[scan.i] = scan.at.ino /\ scan.from = scan.at.off
    BY <1>1, <1>3 DEF Raced, ScanOK
  <2>2. j = scan.i
    BY <2>1, <1>1, <1>2 DEF OneName
  <2> QED BY <2>1, <2>2, <1>2
<1>4. CASE rpc = "newer"
  <2>1. PICK l \in (scan.i + 1) .. MaxBackups :
           dir[l] = scan.at.ino /\ \A k \in (scan.i + 1) .. (l - 1) : dir[k] = NoFile
    BY <1>4 DEF Raced
  <2>2. l = j /\ l \in Names
    <3>1. l \in Names
      BY <1>1 DEF Names
    <3> QED BY <3>1, <2>1, <1>1, <1>2 DEF OneName
  <2>3. scan.from = 0 /\ scan.at.off = Len(content[dir[j]])
    BY <1>2, <1>4 DEF ScanOK
  <2> SUFFICES ASSUME NEW x \in Names, NEW k \in Nat, Rec(dir, content, x, k)
               PROVE  Num(dir, content, x, k) <= m <=> x > scan.i \/ (x = scan.i /\ k <= 0)
    BY <2>3 DEF Cut
  <2>4. Num(dir, content, x, k) <= m <=> x > j \/ (x = j /\ k <= Len(content[dir[j]]))
    BY <1>2, <2>3 DEF Cut
  <2>5. k >= 1 /\ (x = j => k <= Len(content[dir[j]])) /\ dir[x] # NoFile
    BY <1>1 DEF Rec, Directories, Contents
  <2>6. x >= j <=> x > scan.i
    <3>1. x \in (scan.i + 1) .. (j - 1) => dir[x] = NoFile
      BY <2>1, <2>2
    <3>2. x \notin (scan.i + 1) .. (j - 1)
      BY <3>1, <2>5
    <3> QED BY <3>2, <2>1, <2>2, <1>1 DEF Names
  <2> QED BY <2>4, <2>5, <2>6, <1>1 DEF Names
<1> QED BY <1>3, <1>4

\* The file that has a newer name and is not the one read is newer than that one.
LEMMA MainStaysNewer ==
    ASSUME LogType, DiskOK, ScanOK, rpc \in {"tail", "newer"}, ~Raced(scan.i),
           dir[scan.i] # NoFile, dir[scan.i] # scan.main
    PROVE  \E x \in Names : dir[x] = scan.main /\ scan.main # NoFile /\ x < scan.i
<1>1. OneName(dir) /\ scan.i \in Names /\ scan.cur = cursor
  BY DEF LogType, DiskOK, ScanOK, Scans, Draining, Names
<1>2. PICK x \in Names, j \in Names :
         dir[x] = scan.main /\ dir[j] = scan.at.ino /\ scan.main # NoFile
         /\ scan.at.ino # NoFile /\ x < j
  BY DEF ScanOK, Draining, Newer
<1>3. CASE rpc = "tail"
  <2>1. dir[scan.i] = scan.at.ino
    BY <1>1, <1>3 DEF Raced, ScanOK
  <2>2. j = scan.i
    BY <2>1, <1>1, <1>2 DEF OneName
  <2> QED BY <2>2, <1>2
<1>4. CASE rpc = "newer"
  <2>1. PICK l \in (scan.i + 1) .. MaxBackups :
           dir[l] = scan.at.ino /\ \A k \in (scan.i + 1) .. (l - 1) : dir[k] = NoFile
    BY <1>4 DEF Raced
  <2>2. l = j
    <3>1. l \in Names
      BY <1>1 DEF Names
    <3> QED BY <3>1, <2>1, <1>1, <1>2 DEF OneName
  <2>3. x \notin (scan.i + 1) .. (j - 1) /\ x # scan.i
    BY <2>1, <2>2, <1>2
  <2>4. x < scan.i
    BY <2>1, <2>2, <2>3, <1>1, <1>2 DEF Names
  <2> QED BY <2>4, <1>2
<1> QED BY <1>3, <1>4

\* A backup is drained up to where the next newer file begins.
LEMMA PeekBackupKeeps == ASSUME LogInv, PeekBackup PROVE LogInv'
<1> SUFFICES ASSUME excuses' = {}
             PROVE  LogType' /\ DiskOK' /\ ScanOK'
  BY DEF LogInv
<1>1. /\ rpc \in {"tail", "newer"} /\ rpc' = AfterBackup(scan.i)
      /\ UNCHANGED <<dir, content, handle, shift, cursor, next, upto, written, pos>>
      /\ excuses = {} /\ dir[scan.i] # NoFile
      /\ batch' = batch \o scanFrom(scan.i, scan.from)
      /\ scan' = [scan EXCEPT !.i = scan.i - 1, !.from = 0,
                              !.at = [ino |-> dir[scan.i], off |-> Lines(dir[scan.i])]]
      /\ ~Raced(scan.i) /\ dir[scan.i] # scan.main /\ ~Glued(dir[scan.i], scan.from)
  BY DEF PeekBackup, Excuse, disk, history
<1>0. LogType /\ DiskOK /\ ScanOK
  BY <1>1 DEF LogInv
<1>2. DiskOK'
  BY <1>0, <1>1, PeekKeepsDisk
<1>3. /\ dir \in Directories /\ content \in Contents /\ OneName(dir)
      /\ scan \in Scans /\ scan.i \in Names /\ scan.i \in 1 .. MaxBackups /\ scan.from \in Nat
      /\ dir[scan.i] \in Inodes /\ Lines(dir[scan.i]) \in Nat
      /\ written \in Nat /\ pos \in Nat /\ scan.cur = cursor
  <2>1. /\ dir \in Directories /\ content \in Contents /\ OneName(dir) /\ scan \in Scans
        /\ written \in Nat /\ pos \in Nat /\ scan.cur = cursor
    BY <1>0, <1>1 DEF LogType, DiskOK, ScanOK
  <2>2. scan.i \in Nat /\ scan.from \in Nat /\ scan.i >= 1 /\ scan.i <= MaxBackups
    BY <2>1, <1>0, <1>1 DEF Scans, ScanOK, Draining
  <2>3. scan.i \in Names /\ scan.i \in 1 .. MaxBackups
    BY <2>2, RequestLogAssumption DEF Names
  <2>4. dir[scan.i] \in Inodes
    BY <2>1, <2>3, <1>1 DEF Directories
  <2>5. Lines(dir[scan.i]) \in Nat
    BY <2>1, <2>4 DEF Lines, Contents
  <2> QED BY <2>1, <2>2, <2>3, <2>4, <2>5
<1>4. /\ scan' \in Scans /\ scan'.cur = cursor /\ scan'.main = scan.main
      /\ scan'.rotated = scan.rotated /\ scan'.i = scan.i - 1 /\ scan'.from = 0
      /\ scan'.at.ino = dir[scan.i] /\ scan'.at.off = Lines(dir[scan.i])
  <2>1. [ino |-> dir[scan.i], off |-> Lines(dir[scan.i])] \in Cursors
    BY <1>3 DEF Cursors
  <2>2. scan.i - 1 \in Nat /\ 0 \in Nat
    BY <1>3
  <2> QED BY <2>1, <2>2, <1>1, <1>3 DEF Scans
<1>5. LogType'
  <2>1. rpc' \in {"main", "newer"}
    BY <1>1 DEF AfterBackup
  <2> QED BY <2>1, <1>0, <1>1, <1>4 DEF LogType
<1>6. PICK a \in pos .. written : ReadSoFar(a)
  BY <1>0, <1>1 DEF ScanOK, Draining
<1>7. Cut(dir, content, scan.i, scan.from, a)
  BY <1>0, <1>1, <1>6, BackupCut
<1>8. PICK m \in a .. written : Parted(scan.i, m)
  BY <1>0, <1>3, <1>7, PartedBehind
<1>9. a \in Nat /\ m \in Nat /\ pos <= a /\ a <= m /\ m <= written /\ m \in pos .. written
  BY <1>3
<1>10. batch' = Run(pos, m)
  <2>1. scanFrom(scan.i, scan.from) = Run(a, m)
    BY <1>0, <1>1, <1>3, <1>7, <1>8, ScanFile
  <2>2. batch = Run(pos, a)
    BY <1>6 DEF ReadSoFar
  <2>3. Run(pos, a) \o Run(a, m) = Run(pos, m)
    BY <1>3, <1>9, RunsJoin
  <2> QED BY <2>1, <2>2, <2>3, <1>1
<1>11. PICK x \in Names : dir[x] = scan.main /\ scan.main # NoFile /\ x < scan.i
  BY <1>0, <1>1, MainStaysNewer
<1>12. scan.rotated
  BY <1>0, <1>1 DEF ScanOK, Draining
<1>13. CASE scan.i = 1
  <2>1. rpc' = "main" /\ x = 0
    BY <1>1, <1>11, <1>13 DEF AfterBackup, Names
  <2>2. Cut(dir, content, 0, 0, m)
    <3> SUFFICES ASSUME NEW i \in Names, NEW k \in Nat, Rec(dir, content, i, k)
                 PROVE  Num(dir, content, i, k) <= m <=> i > 0 \/ (i = 0 /\ k <= 0)
      BY DEF Cut
    <3>1. k >= 1
      BY DEF Rec
    <3>2. i >= 1 <=> i > 0
      BY DEF Names
    <3> QED BY <3>1, <3>2, <1>8, <1>13 DEF Parted
  <2>3. 0 <= Len(content[scan.main])
    BY <1>3, <1>11 DEF Directories, Contents
  <2>4. Stands(dir, content, scan.main, 0, m)
    BY <2>1, <2>2, <2>3, <1>11 DEF Stands
  <2>5. ScanOK'
    BY <2>1, <2>4, <1>1, <1>4, <1>9, <1>10, <1>11, <1>12 DEF ScanOK, Peeking, Draining
  <2> QED BY <2>5, <1>2, <1>5
<1>14. CASE scan.i # 1
  <2>1. rpc' = "newer" /\ scan.i - 1 >= 1 /\ scan.i - 1 <= MaxBackups
    <3>1. scan.i \in Nat /\ scan.i >= 1 /\ scan.i <= MaxBackups /\ MaxBackups \in Nat
      BY <1>3, RequestLogAssumption
    <3> QED BY <3>1, <1>1, <1>14 DEF AfterBackup
  <2>2. Cut(dir, content, scan.i, Lines(dir[scan.i]), m)
    <3> SUFFICES ASSUME NEW i \in Names, NEW k \in Nat, Rec(dir, content, i, k)
                 PROVE  Num(dir, content, i, k) <= m
                          <=> i > scan.i \/ (i = scan.i /\ k <= Lines(dir[scan.i]))
      BY DEF Cut
    <3>1. i = scan.i => k <= Lines(dir[scan.i])
      BY DEF Rec, Lines
    <3>2. i >= scan.i <=> i > scan.i \/ i = scan.i
      BY <1>3 DEF Names
    <3> QED BY <3>1, <3>2, <1>8 DEF Parted
  <2>3. Lines(dir[scan.i]) = Len(content[dir[scan.i]])
        /\ Lines(dir[scan.i]) <= Len(content[dir[scan.i]])
    BY <1>3 DEF Lines
  <2>4. Stands(dir, content, dir[scan.i], Lines(dir[scan.i]), m)
    BY <2>2, <2>3, <1>1, <1>3 DEF Stands
  <2>5. ReadSoFar(m)'
    BY <2>4, <1>1, <1>4, <1>10 DEF ReadSoFar
  <2>6. Newer(dir, scan.main, dir[scan.i])
    BY <1>1, <1>3, <1>11 DEF Newer
  <2>7. ScanOK'
    BY <2>1, <2>3, <2>5, <2>6, <1>1, <1>4, <1>9, <1>11, <1>12 DEF ScanOK, Peeking, Draining
  <2> QED BY <2>7, <1>2, <1>5
<1> QED BY <1>13, <1>14

\* The best effort ends in an excuse, and moves nothing before.
LEMMA PeekBestKeeps == ASSUME LogInv, PeekBest PROVE LogInv'
<1> SUFFICES ASSUME excuses' = {}
             PROVE  LogType' /\ DiskOK' /\ ScanOK'
  BY DEF LogInv
<1>1. /\ rpc = "best" /\ rpc' = "dot1" /\ excuses = {}
      /\ scan' = [scan EXCEPT !.from =
                    IF scan.cur.ino \in {NoFile, dir[1]} THEN scan.cur.off ELSE 0]
      /\ UNCHANGED <<dir, content, handle, shift, cursor, batch, next, upto, written, pos>>
  BY DEF PeekBest, disk, history
<1>0. LogType /\ DiskOK /\ ScanOK
  BY <1>1 DEF LogInv
<1>2. DiskOK'
  BY <1>0, <1>1, PeekKeepsDisk
<1>3. /\ scan.cur = cursor /\ scan.main # NoFile /\ \E j \in Names : dir[j] = scan.main
  BY <1>0, <1>1 DEF ScanOK, Peeking
<1>4. scan' \in Scans /\ scan'.cur = scan.cur /\ scan'.main = scan.main
  <2>1. scan \in Scans /\ scan.cur.off \in Nat /\ 0 \in Nat
    BY <1>0 DEF LogType, Scans, Cursors
  <2> QED BY <2>1, <1>1 DEF Scans
<1>5. LogType'
  BY <1>0, <1>1, <1>4 DEF LogType
<1>6. ScanOK'
  BY <1>1, <1>3, <1>4 DEF ScanOK, Peeking, Draining
<1> QED BY <1>2, <1>5, <1>6

LEMMA PeekDot1Keeps == ASSUME LogInv, PeekDot1 PROVE LogInv'
BY DEF PeekDot1, LogInv

\* When the cursor's file is requests.jsonl, as far as the scan has seen it: the
\* cut of the cursor is one of that file, also if there is no cursor yet.
LEMMA MainStands ==
    ASSUME LogType, DiskOK, ScanOK, rpc = "main", ~scan.rotated,
           ~(cursor.ino = NoFile /\ \E i \in 1 .. MaxBackups :
                dir[i] # NoFile /\ Unpassed(dir[i]))
    PROVE  Stands(dir, content, scan.main, cursor.off, pos)
<1>0. /\ dir \in Directories /\ content \in Contents /\ scan.main # NoFile
      /\ cursor.ino \in {scan.main, NoFile} /\ CursorAt(dir, content, cursor, pos)
  BY DEF LogType, DiskOK, ScanOK, Peeking
<1>1. CASE cursor.ino # NoFile
  BY <1>0, <1>1 DEF CursorAt
<1>2. CASE cursor.ino = NoFile
  <2>1. cursor.off = 0 /\ pos = 0
    BY <1>0, <1>2 DEF CursorAt
  <2>2. PICK j \in Names : dir[j] = scan.main
    BY DEF ScanOK, Peeking
  <2>3. ASSUME NEW i \in Names, NEW k \in Nat, Rec(dir, content, i, k)
        PROVE  i = 0 /\ k >= 1 /\ ~(Num(dir, content, i, k) <= 0)
    <3>1. k >= 1 /\ k \in 1 .. Lines(dir[i]) /\ content[dir[i]][k] > 0 /\ dir[i] # NoFile
      BY <2>3 DEF Rec, Lines, Other
    <3>2. i \notin 1 .. MaxBackups
      BY <3>1, <2>1, <1>2 DEF Unpassed
    <3>3. i = 0
      BY <3>2 DEF Names
    <3>4. Num(dir, content, i, k) \in Int
      BY <2>3, <1>0, NumInt
    <3> QED BY <3>1, <3>3, <3>4 DEF Num
  <2>4. Cut(dir, content, j, 0, 0)
    <3> SUFFICES ASSUME NEW i \in Names, NEW k \in Nat, Rec(dir, content, i, k)
                 PROVE  Num(dir, content, i, k) <= 0 <=> i > j \/ (i = j /\ k <= 0)
      BY DEF Cut
    <3>1. i = 0 /\ k >= 1 /\ ~(Num(dir, content, i, k) <= 0)
      BY <2>3
    <3> QED BY <3>1 DEF Names
  <2>5. 0 <= Len(content[scan.main])
    BY <1>0, <2>2 DEF Directories, Contents
  <2> QED BY <2>1, <2>2, <2>4, <2>5, <1>0 DEF Stands
<1> QED BY <1>1, <1>2

\* The end of requests.jsonl is behind every record.
LEMMA EndStands ==
    ASSUME LogType, DiskOK, dir[0] # NoFile
    PROVE  Stands(dir, content, dir[0], Lines(dir[0]), written)
<1>0. /\ dir \in Directories /\ content \in Contents /\ 0 \in Names
  BY RequestLogAssumption DEF LogType, Names
<1>1. ASSUME NEW i \in Names, NEW k \in Nat, Rec(dir, content, i, k)
      PROVE  Num(dir, content, i, k) <= written /\ (i > 0 \/ (i = 0 /\ k <= Lines(dir[0])))
  <2>1. Num(dir, content, i, k) <= written
    BY <1>1 DEF DiskOK, AtMost
  <2>2. i = 0 => k <= Lines(dir[0])
    BY <1>1 DEF Rec, Lines
  <2> QED BY <2>1, <2>2 DEF Names
<1>2. Lines(dir[0]) <= Len(content[dir[0]])
  BY <1>0 DEF Lines, Directories, Contents
<1>3. Cut(dir, content, 0, Lines(dir[0]), written)
  BY <1>1 DEF Cut
<1> QED BY <1>0, <1>2, <1>3 DEF Stands

LEMMA ScanNothing ==
    ASSUME NEW i, NEW off \in Nat, ~(Lines(dir[i]) > off), Lines(dir[i]) \in Nat
    PROVE  scanFrom(i, off) = << >>
<1>1. Records(i, off) = {}
  BY DEF Records
<1>2. Cardinality({}) = 0
  BY FS_EmptySet
<1> QED BY <1>1, <1>2 DEF scanFrom, Read

LEMMA PeekMainKeeps == ASSUME LogInv, PeekMain PROVE LogInv'
<1> SUFFICES ASSUME excuses' = {}
             PROVE  LogType' /\ DiskOK' /\ ScanOK'
  BY DEF LogInv
<1> DEFINE from == IF scan.rotated THEN 0 ELSE cursor.off
<1>1. /\ rpc = "main" /\ rpc' = "held" /\ excuses = {}
      /\ UNCHANGED <<dir, content, handle, shift, cursor, scan, written, pos>>
  BY DEF PeekMain, disk, history
<1>0. LogType /\ DiskOK /\ ScanOK
  BY <1>1 DEF LogInv
<1>2. scan.cur = cursor /\ scan.main # NoFile
  BY <1>0, <1>1 DEF ScanOK, Peeking
<1>3. /\ dir[0] # NoFile
      /\ batch' = batch \o scanFrom(0, from)
      /\ next' = [ino |-> scan.main, off |-> EndOffset(dir[0], from)]
      /\ upto' = IF dir[0] = scan.main THEN written
                 ELSE IF batch' = << >> THEN pos ELSE Last(batch')
      /\ dir[0] # scan.main => ~(Lines(dir[0]) > from)
      /\ ~Glued(dir[0], from)
  BY <1>2 DEF PeekMain, Excuse
<1>4. ~(cursor.ino = NoFile /\ \E i \in 1 .. MaxBackups : dir[i] # NoFile /\ Unpassed(dir[i]))
  BY <1>2 DEF PeekMain, Excuse
<1>5. /\ dir \in Directories /\ content \in Contents /\ OneName(dir) /\ 0 \in Names
      /\ written \in Nat /\ pos \in Nat /\ pos <= written
      /\ scan.main \in Inodes \cup {NoFile} /\ scan.rotated \in BOOLEAN /\ cursor.off \in Nat
  BY <1>0, RequestLogAssumption DEF LogType, DiskOK, Names, Cursors, Scans
<1>6. from \in Nat /\ Lines(dir[0]) \in Nat
  BY <1>5, <1>3 DEF Lines, Directories, Contents
<1>7. PICK m \in pos .. written : batch = Run(pos, m) /\ Stands(dir, content, scan.main, from, m)
  <2>1. CASE scan.rotated
    BY <2>1, <1>0, <1>1 DEF ScanOK
  <2>2. CASE ~scan.rotated
    <3>1. Stands(dir, content, scan.main, cursor.off, pos)
      BY <2>2, <1>0, <1>1, <1>4, MainStands
    <3>2. batch = << >> /\ Run(pos, pos) = << >>
      BY <2>2, <1>0, <1>1, <1>5 DEF ScanOK, Run
    <3> QED BY <3>1, <3>2, <2>2, <1>5
  <2> QED BY <2>1, <2>2
<1> HIDE DEF from
<1>8. /\ next' \in Cursors /\ upto' \in pos .. written /\ batch' = Run(pos, upto')
      /\ Stands(dir, content, scan.main, next'.off, upto')
  <2>0. m \in Nat /\ pos <= m /\ m <= written
    BY <1>5
  <2>1. CASE dir[0] = scan.main
    <3>1. PICK j \in Names : /\ dir[j] = scan.main /\ from <= Len(content[scan.main])
                             /\ Cut(dir, content, j, from, m)
      BY <1>7 DEF Stands
    <3>2. j = 0
      BY <3>1, <2>1, <1>2, <1>5 DEF OneName
    <3>3. scanFrom(0, from) = Run(m, written)
      BY <3>1, <3>2, <1>0, <1>3, <1>6, ScanMain
    <3>4. batch' = Run(pos, written)
      <4>1. Run(pos, m) \o Run(m, written) = Run(pos, written)
        BY <2>0, <1>5, RunsJoin
      <4> QED BY <4>1, <3>3, <1>3, <1>7
    <3>5. EndOffset(dir[0], from) = Lines(dir[0])
      BY <3>1, <2>1, <1>6 DEF EndOffset, Lines
    <3>6. Stands(dir, content, dir[0], Lines(dir[0]), written)
      BY <1>0, <1>3, EndStands
    <3>7. upto' = written /\ written \in pos .. written
      BY <2>1, <1>3, <1>5
    <3>8. next' = [ino |-> scan.main, off |-> Lines(dir[0])]
      BY <3>5, <1>3
    <3>9. next' \in Cursors /\ next'.off = Lines(dir[0])
      BY <3>8, <1>5, <1>6 DEF Cursors
    <3> QED BY <3>4, <3>6, <3>7, <3>9, <2>1
  <2>2. CASE dir[0] # scan.main
    <3>1. scanFrom(0, from) = << >>
      BY <2>2, <1>3, <1>6, ScanNothing
    <3>2. /\ Run(pos, m) \in Seq(Int) /\ Len(Run(pos, m)) = m - pos
          /\ \A n \in 1 .. (m - pos) : Run(pos, m)[n] = pos + n
      BY <2>0, <1>5, RunType
    <3>3. batch' = Run(pos, m)
      BY <3>1, <3>2, <1>3, <1>7
    <3>4. upto' = m
      <4>1. CASE m = pos
        <5>1. Run(pos, m) = << >>
          BY <4>1, <3>2, <1>5
        <5> QED BY <5>1, <4>1, <3>3, <2>2, <1>3
      <4>2. CASE m # pos
        <5>1. m - pos \in 1 .. (m - pos)
          BY <4>2, <2>0, <1>5
        <5>2. Run(pos, m) # << >> /\ Last(Run(pos, m)) = pos + (m - pos)
          BY <5>1, <3>2 DEF Last
        <5>3. pos + (m - pos) = m
          BY <2>0, <1>5
        <5> QED BY <5>2, <5>3, <3>3, <2>2, <1>3
      <4> QED BY <4>1, <4>2
    <3>5. EndOffset(dir[0], from) = from
      BY <2>2, <1>3, <1>6 DEF EndOffset
    <3> QED BY <3>3, <3>4, <3>5, <1>3, <1>5, <1>6, <1>7 DEF Cursors
  <2> QED BY <2>1, <2>2
<1>9. LogType'
  BY <1>0, <1>1, <1>8 DEF LogType
<1>10. DiskOK'
  BY <1>0, <1>1, PeekKeepsDisk
<1>11. CursorAt(dir', content', next', upto')
  BY <1>1, <1>2, <1>3, <1>8 DEF CursorAt
<1>12. ScanOK'
  BY <1>1, <1>2, <1>8, <1>11 DEF ScanOK, Peeking, Draining
<1> QED BY <1>9, <1>10, <1>12

LEMMA DoneType == ASSUME LogType, Done
                  PROVE  /\ rpc' = "idle" /\ next' \in Cursors
                         /\ scan' \in Scans
BY DEF Done, NoScan, NoCursor, Cursors, Scans

LEMMA CommitCursorKeeps == ASSUME LogInv, CommitCursor PROVE LogInv'
<1>1. /\ rpc = "held" /\ Done /\ cursor' = next /\ pos' = upto
      /\ UNCHANGED <<dir, content, handle, shift, written, excuses>>
  BY DEF CommitCursor, disk
<1> SUFFICES ASSUME excuses = {}
             PROVE  LogType' /\ DiskOK' /\ ScanOK'
  BY <1>1 DEF LogInv
<1>0. LogType /\ DiskOK /\ ScanOK
  BY DEF LogInv
<1>2. /\ upto \in pos .. written /\ CursorAt(dir, content, next, upto)
      /\ pos \in Nat /\ written \in Nat
  BY <1>0, <1>1 DEF LogType, ScanOK
<1>3. /\ rpc' = "idle" /\ next' \in Cursors
      /\ scan' \in Scans
  BY <1>0, <1>1, DoneType
<1>4. LogType'
  BY <1>0, <1>1, <1>2, <1>3 DEF LogType
<1>5. Held(dir, content, upto, written)
  <2>1. \A n \in upto + 1 .. written : n \in pos + 1 .. written
    BY <1>2
  <2> QED BY <2>1, <1>0 DEF DiskOK, Held
<1>6. DiskOK'
  BY <1>0, <1>1, <1>2, <1>5 DEF DiskOK
<1>7. ScanOK'
  BY <1>3 DEF ScanOK, Peeking, Draining
<1> QED BY <1>4, <1>6, <1>7

\* The Peek is given up, and the disk is left alone.
LEMMA GiveUpKeeps ==
    ASSUME LogInv, Done,
           UNCHANGED <<dir, content, handle, shift, cursor, written, pos, excuses>>
    PROVE  LogInv'
<1> SUFFICES ASSUME excuses = {}
             PROVE  LogType' /\ DiskOK' /\ ScanOK'
  BY DEF LogInv
<1>0. LogType /\ DiskOK /\ ScanOK
  BY DEF LogInv
<1>1. /\ rpc' = "idle" /\ next' \in Cursors
      /\ scan' \in Scans
  BY <1>0, DoneType
<1>2. LogType'
  BY <1>0, <1>1 DEF LogType
<1>3. DiskOK'
  BY <1>0, PeekKeepsDisk
<1>4. ScanOK'
  BY <1>1 DEF ScanOK, Peeking, Draining
<1> QED BY <1>2, <1>3, <1>4

LEMMA PeekFailsKeeps == ASSUME LogInv, PeekFails PROVE LogInv'
BY GiveUpKeeps DEF PeekFails, disk, history

LEMMA CommitFailsKeeps == ASSUME LogInv, CommitFails PROVE LogInv'
BY GiveUpKeeps DEF CommitFails, disk, history

LEMMA RestartKeeps == ASSUME LogInv, Restart PROVE LogInv'
<1>1. /\ shift' = Idle /\ OpenMain(Lines(dir[0])) /\ Done
      /\ UNCHANGED <<cursor, written, pos, excuses>>
  BY DEF Restart, RestartLog, history
<1> SUFFICES ASSUME excuses = {}
             PROVE  LogType' /\ DiskOK' /\ ScanOK'
  BY <1>1 DEF LogInv
<1>0. LogType /\ DiskOK /\ ScanOK
  BY DEF LogInv
<1>2. /\ dir' \in Directories /\ content' \in Contents
      /\ handle' \in Inodes /\ handle' = dir'[0] /\ OneName(dir')
      /\ InOrder(dir', content') /\ AtMost(dir', content', written)
      /\ Held(dir', content', pos, written)
      /\ \A ino \in Inodes \cup {NoFile} : \A off \in Nat : \A p \in Nat :
            Stands(dir, content, ino, off, p) => Stands(dir', content', ino, off, p)
  BY <1>0, <1>1, OpenKeeps
<1>3. /\ rpc' = "idle" /\ next' \in Cursors
      /\ scan' \in Scans
  BY <1>0, <1>1, DoneType
<1>4. LogType'
  BY <1>0, <1>1, <1>2, <1>3, RequestLogAssumption DEF LogType, Idle
<1>5. CursorAt(dir', content', cursor', pos')
  <2>1. cursor.ino \in Inodes \cup {NoFile} /\ cursor.off \in Nat /\ pos \in Nat
    BY <1>0 DEF LogType, Cursors
  <2> QED BY <2>1, <1>0, <1>1, <1>2 DEF DiskOK, CursorAt
<1>6. DiskOK'
  BY <1>1, <1>2, <1>5, RequestLogAssumption DEF DiskOK, Idle
<1>7. ScanOK'
  BY <1>3 DEF ScanOK, Peeking, Draining
<1> QED BY <1>4, <1>6, <1>7

-----------------------------------------------------------------------------
(* The log and its scanner implement LogReader *)

\* What the invariant of the log is about.
logView == <<dir, content, handle, shift, cursor, rpc, scan, batch, next, upto,
             written, pos, excuses>>

LEMMA ViewKeeps == ASSUME LogInv, UNCHANGED logView PROVE LogInv'
BY DEF LogInv, logView, LogType, DiskOK, ScanOK, ReadSoFar

LEMMA StepKeeps == ASSUME LogInv, Next PROVE LogInv'
<1>1. CASE Logger
  BY <1>1, LogBillableKeeps, LogOtherKeeps, LogTornKeeps, ShiftKeeps, ReopenLogKeeps,
     ReopenFailsKeeps DEF Logger
<1>2. CASE Scanner
  BY <1>2, PeekBeginKeeps, PeekNoCursorKeeps, PeekGoneKeeps, PeekSearchKeeps, PeekBackupKeeps,
     PeekBestKeeps, PeekDot1Keeps, PeekMainKeeps, PeekFailsKeeps, CommitCursorKeeps,
     CommitFailsKeeps DEF Scanner
<1>3. CASE Restart
  BY <1>3, RestartKeeps
<1> QED BY <1>1, <1>2, <1>3 DEF Next

LEMMA InitHolds == ASSUME Init PROVE LogInv
<1>1. PICK ino \in Inodes :
         /\ dir = [i \in Names |-> IF i = 0 THEN ino ELSE NoFile]
         /\ content = [f \in Inodes |-> << >>]
         /\ handle = ino /\ shift = Idle /\ cursor = NoCursor
         /\ rpc = "idle" /\ scan = NoScan /\ next = NoCursor
         /\ written = 0 /\ pos = 0
  BY DEF Init
<1>2. 0 \in Names /\ ino # NoFile
  BY RequestLogAssumption DEF Names
<1>3. /\ dir \in Directories /\ dir[0] = ino /\ \A i \in Names \ {0} : dir[i] = NoFile
  BY <1>1, <1>2 DEF Directories
<1>4. content \in Contents /\ \A f \in Inodes : content[f] = << >>
  <2>1. << >> \in Seq(Int)
    OBVIOUS
  <2> QED BY <1>1, <2>1 DEF Contents
<1>5. \A i \in Names : \A k \in Nat : ~Rec(dir, content, i, k)
  BY <1>3, <1>4 DEF Rec, Directories
<1>6. LogType
  BY <1>1, <1>3, <1>4, RequestLogAssumption DEF LogType, NoCursor, NoScan, Cursors, Scans, Idle
<1>7. DiskOK
  <2>1. OneName(dir) /\ InOrder(dir, content) /\ AtMost(dir, content, written)
    BY <1>2, <1>3, <1>5 DEF OneName, InOrder, AtMost
  <2>2. Held(dir, content, pos, written)
    BY <1>1 DEF Held
  <2>3. CursorAt(dir, content, cursor, pos)
    BY <1>1 DEF CursorAt, NoCursor
  <2> QED BY <2>1, <2>2, <2>3, <1>1, <1>3 DEF DiskOK, Idle
<1>8. ScanOK
  BY <1>1 DEF ScanOK, Peeking, Draining
<1> QED BY <1>6, <1>7, <1>8 DEF LogInv

\* What the client of the scanner holds.
Given == IF rpc = "held" THEN batch ELSE << >>

\* Every step of the log and the scanner is one that LogReader allows, or changes
\* nothing that it speaks of.
LEMMA StepReadsOnce ==
    ASSUME LogInv, LogInv', Next \/ UNCHANGED logView
    PROVE  LR!Next \/ UNCHANGED <<written, pos, Given, excuses # {}>>
<1>1. CASE excuses' # {}
  BY <1>1 DEF LR!Next
<1> SUFFICES ASSUME excuses' = {}
             PROVE  LR!Next \/ UNCHANGED <<written, pos, Given, excuses # {}>>
  BY <1>1
<1>2. excuses = {}
  <2>1. CASE Logger
    BY <2>1 DEF Logger, LogBillable, LogOther, Log, LogTorn, Shift, ReopenLog, ReopenFails
  <2>2. CASE Scanner
    BY <2>2 DEF Scanner, PeekBegin, PeekNoCursor, PeekGone, PeekSearch, PeekBackup, PeekBest,
                PeekDot1, PeekMain, PeekFails, CommitCursor, CommitFails
  <2>3. CASE Restart
    BY <2>3 DEF Restart, RestartLog
  <2>4. CASE UNCHANGED logView
    BY <2>4 DEF logView
  <2> QED BY <2>1, <2>2, <2>3, <2>4 DEF Next
<1>0. /\ LogType /\ DiskOK /\ ScanOK /\ ScanOK'
      /\ written \in Nat /\ pos \in Nat /\ pos <= written
  BY <1>2 DEF LogInv, LogType
<1>3. CASE LogBillable
  <2>1. written' = written + 1 /\ pos' = pos /\ Given' = Given
    BY <1>3 DEF LogBillable, Log, reader, Given
  <2> QED BY <2>1, <1>2 DEF LR!Next, LR!Record, Given
<1>4. ASSUME UNCHANGED <<written, pos, rpc, batch>>
      PROVE  UNCHANGED <<written, pos, Given, excuses # {}>>
  BY <1>2, <1>4 DEF Given
<1>5. CASE LogOther \/ LogTorn \/ Shift \/ ReopenLog \/ ReopenFails \/ UNCHANGED logView
  <2>1. UNCHANGED <<written, pos, rpc, batch>>
    BY <1>5 DEF LogOther, Log, LogTorn, Shift, ReopenLog, ReopenFails, logView, history, reader
  <2> QED BY <2>1, <1>4
<1>6. ASSUME UNCHANGED <<written, pos>>, rpc # "held", rpc' # "held"
      PROVE  UNCHANGED <<written, pos, Given, excuses # {}>>
  BY <1>2, <1>6 DEF Given
<1>7. CASE \/ PeekBegin \/ PeekNoCursor \/ PeekSearch \/ PeekBackup \/ PeekBest \/ PeekDot1
           \/ PeekFails
  <2>1. UNCHANGED <<written, pos>> /\ rpc # "held" /\ rpc' # "held"
    BY <1>7 DEF PeekBegin, PeekNoCursor, PeekStat, PeekSearch, PeekBackup, AfterBackup, PeekBest,
                PeekDot1, PeekFails, Done, history
  <2> QED BY <2>1, <1>6
<1>8. CASE PeekGone \/ PeekMain
  <2>1. UNCHANGED <<written, pos>> /\ rpc' = "held"
    BY <1>8 DEF PeekGone, PeekMain, history
  <2>2. batch' = Run(pos, upto') /\ upto' \in pos .. written
    BY <2>1, <1>0 DEF ScanOK
  <2>3. upto' - pos \in 0 .. (written - pos)
    <3>1. ASSUME NEW u \in pos .. written
          PROVE  u - pos \in 0 .. (written - pos)
      BY <1>0
    <3> QED BY <3>1, <2>2
  <2>4. Given' = [i \in 1 .. (upto' - pos) |-> pos + i]
    BY <2>1, <2>2 DEF Given, Run
  <2>5. \E n \in 0 .. (written - pos) : Given' = [i \in 1 .. n |-> pos + i]
    BY <2>3, <2>4
  <2> QED BY <2>1, <2>5, <1>2 DEF LR!Next, LR!Peek, Given
<1>9. CASE CommitCursor
  <2>1. /\ rpc = "held" /\ rpc' = "idle" /\ pos' = upto /\ written' = written
    BY <1>9 DEF CommitCursor, Done
  <2>2. Given = Run(pos, upto) /\ upto \in pos .. written
    BY <2>1, <1>0 DEF ScanOK, Given
  <2>3. Len(Given) = upto - pos
    <3>1. upto \in Nat /\ pos <= upto
      BY <2>2, <1>0
    <3> QED BY <3>1, <2>2, <1>0, RunType
  <2>4. pos' = pos + Len(Given) /\ Given' = << >>
    BY <2>1, <2>2, <2>3, <1>0 DEF Given
  <2> QED BY <2>1, <2>4, <1>2 DEF LR!Next, LR!CommitCursor, Given
<1>10. CASE CommitFails \/ Restart
  <2>1. /\ rpc' = "idle" /\ written' = written /\ pos' = pos
    BY <1>10 DEF CommitFails, Restart, RestartLog, Done, history
  <2>2. Given' = << >>
    BY <2>1 DEF Given
  <2> QED BY <2>1, <2>2, <1>2 DEF LR!Next, LR!Abandon, Given
<1> QED BY <1>3, <1>5, <1>7, <1>8, <1>9, <1>10 DEF Next, Logger, Scanner

LEMMA InitReadsOnce == ASSUME Init PROVE LR!Init
BY DEF Init, LR!Init

\* The request log and a Scanner that follows it implement LogReader, for every
\* number of files, backups and lines (RequestLogger.Log and rotate, Scanner.Peek
\* and CommitCursor): as long as none of the excuses is met, every billable
\* record is handed out in order and without gaps, and passed once, whatever the
\* logger renames between any two looks of a Peek at a name.  Where such a rename
\* makes it read another file than it takes it for, that is the excuse.
THEOREM LogReadOnce == Spec => EveryRecordOnce
<1>1. Init => LogInv /\ LR!Init
  BY InitHolds, InitReadsOnce
<1>2. LogInv /\ [Next]_logVars => LogInv'
  <2>1. UNCHANGED logVars => UNCHANGED logView
    BY DEF logVars, logView, disk, reader, history
  <2> QED BY <2>1, StepKeeps, ViewKeeps
<1>3. LogInv /\ LogInv' /\ [Next]_logVars
         => [LR!Next]_<<written, pos, IF rpc = "held" THEN batch ELSE << >>, excuses # {}>>
  <2>1. UNCHANGED logVars => UNCHANGED logView
    BY DEF logVars, logView, disk, reader, history
  <2> QED BY <2>1, StepReadsOnce DEF Given
<1> QED BY <1>1, <1>2, <1>3, PTL DEF Spec, EveryRecordOnce, LR!Spec

-----------------------------------------------------------------------------
(* The books and the reconciler *)

\* Under the reconciler the log and the scanner take the same steps.
LEMMA LogUnderReconciler ==
    ASSUME [RNext]_vars, ~RunOverlaps
    PROVE  Next \/ UNCHANGED logView
<1>1. ASSUME UNCHANGED logVars PROVE UNCHANGED logView
  BY <1>1 DEF logVars, logView, disk, reader, history
<1>2. CASE LogStep
  BY <1>2 DEF LogStep, Next, Logger
<1>3. CASE Serve
  BY <1>3 DEF Serve, Next, Logger
<1>4. CASE ServeUnlogged
  BY <1>1, <1>4 DEF ServeUnlogged, Next, Logger
<1>5. CASE RunBegin \/ RunPeek \/ RunFails \/ RunCommit
  BY <1>5 DEF RunBegin, RunPeek, RunFails, RunCommit, Next, Scanner
<1>6. CASE Crash
  BY <1>6 DEF Crash, Next
<1>7. CASE SaveState
  BY <1>7 DEF SaveState, logView, disk, reader, history
<1>8. CASE \/ Reserve \/ Adjust \/ SettleBegin \/ SettleEnd \/ Restore
           \/ ReadSettled \/ Tally \/ UNCHANGED vars
  BY <1>1, <1>8 DEF Reserve, Adjust, SettleBegin, SettleEnd, Restore, ReadSettled,
                    Tally, vars
<1> QED BY <1>2, <1>3, <1>4, <1>5, <1>6, <1>7, <1>8 DEF RNext

LEMMA OverlapExcused == ASSUME RunOverlaps PROVE excuses' # {}
BY DEF RunOverlaps

LEMMA LogInvUnderReconciler == ASSUME LogInv, [RNext]_vars PROVE LogInv'
BY LogUnderReconciler, OverlapExcused, StepKeeps, ViewKeeps DEF LogInv

\* Excuses and doubts are never taken back.
LEMMA ExcusesStay == ASSUME Next \/ UNCHANGED logView, excuses' = {} PROVE excuses = {}
<1>1. CASE Logger
  BY <1>1 DEF Logger, LogBillable, LogOther, Log, LogTorn, Shift, ReopenLog, ReopenFails
<1>2. CASE Scanner
  BY <1>2 DEF Scanner, PeekBegin, PeekNoCursor, PeekGone, PeekSearch, PeekBackup, PeekBest,
              PeekDot1, PeekMain, PeekFails, CommitCursor, CommitFails
<1>3. CASE Restart
  BY <1>3 DEF Restart, RestartLog
<1>4. CASE UNCHANGED logView
  BY <1>4 DEF logView
<1> QED BY <1>1, <1>2, <1>3, <1>4 DEF Next

LEMMA DoubtsStay == ASSUME [RNext]_vars, doubts' = {} PROVE doubts = {}
<1>1. CASE LogStep \/ Reserve \/ Serve \/ ServeUnlogged \/ Adjust
  BY <1>1 DEF LogStep, Reserve, Serve, ServeUnlogged, Adjust
<1>2. CASE SettleBegin \/ SettleEnd \/ Restore \/ RunBegin \/ RunOverlaps \/ RunPeek
           \/ RunFails
  BY <1>2 DEF SettleBegin, SettleEnd, Restore, RunBegin, RunOverlaps, RunPeek, RunFails
<1>3. CASE ReadSettled \/ Tally \/ RunCommit \/ SaveState \/ Crash
  BY <1>3 DEF ReadSettled, Tally, RunCommit, SaveState, Crash
<1>4. CASE UNCHANGED vars
  BY <1>4 DEF vars
<1> QED BY <1>1, <1>2, <1>3, <1>4 DEF RNext

\* What a step of the reconciler may rely on, and must leave behind.
Sound == LogType /\ DiskOK /\ ScanOK /\ BooksOK /\ PassOK /\ CalmOK
Books == BooksOK /\ PassOK /\ CalmOK

\* The log moves on its own: the pass is no longer calm.
LEMMA LogStepSound == ASSUME Sound, LogStep PROVE Books'
<1>1. /\ calm' = FALSE /\ UNCHANGED <<pass, books>>
      /\ UNCHANGED <<rpc, upto, pos, written>>
  BY DEF LogStep, LogOther, Log, Shift, ReopenLog, ReopenFails, reader, history
<1>2. BooksOK'
  BY <1>1 DEF Sound, BooksOK, Excess, books
<1>3. PassOK'
  BY <1>1 DEF Sound, PassOK, pass, Total
<1>4. CalmOK'
  BY <1>1 DEF Sound, CalmOK, pass
<1> QED BY <1>2, <1>3, <1>4 DEF Books

\* Requests and settlements change the books only, and end the calm.
LEMMA BooksStepSound ==
    ASSUME Sound, calm' = FALSE, UNCHANGED <<logView, pass>>, BooksOK'
    PROVE  Books'
<1>1. UNCHANGED <<rpc, upto, pos>>
  BY DEF logView
<1>2. PassOK'
  BY <1>1 DEF Sound, PassOK, pass, Total
<1>3. CalmOK'
  BY DEF Sound, CalmOK, pass
<1> QED BY <1>2, <1>3 DEF Books

LEMMA LogViewStays == ASSUME UNCHANGED logVars PROVE UNCHANGED logView /\ written' = written
BY DEF logVars, logView, disk, reader, history

LEMMA ReserveSound == ASSUME Sound, Reserve PROVE Books'
<1>1. /\ req = "none" /\ req' = "reserved" /\ pending' = pending + Estimate
      /\ UNCHANGED <<settled, spos, owed, restored>> /\ calm' = FALSE
      /\ UNCHANGED <<logView, pass>> /\ written' = written
  BY LogViewStays DEF Reserve
<1>2. BooksOK /\ Estimate \in Nat /\ written \in Nat
  BY EstimateAssumption DEF Sound, LogType
<1>3. BooksOK'
  BY <1>1, <1>2 DEF BooksOK, Excess
<1> QED BY <1>1, <1>3, BooksStepSound

LEMMA ServeSound == ASSUME Sound, Serve PROVE Books'
<1>1. /\ req = "reserved" /\ req' = "logged" /\ written' = written + 1 /\ calm' = FALSE
      /\ UNCHANGED <<pass, settled, spos, owed, pending, restored>>
      /\ UNCHANGED <<rpc, upto, pos>>
  BY DEF Serve, LogBillable, Log, reader
<1>2. BooksOK /\ Estimate \in Nat \ {0} /\ written \in Nat
  BY EstimateAssumption DEF Sound, LogType
<1>3. BooksOK'
  BY <1>1, <1>2 DEF BooksOK, Excess
<1>4. PassOK'
  BY <1>1 DEF Sound, PassOK, pass, Total
<1>5. CalmOK'
  BY <1>1 DEF Sound, CalmOK, pass
<1> QED BY <1>3, <1>4, <1>5 DEF Books

LEMMA AdjustSound == ASSUME Sound, Adjust PROVE Books'
<1>1. /\ req = "logged" /\ req' = "none" /\ pending' = pending - (Estimate - 1)
      /\ UNCHANGED <<settled, spos, owed, restored>> /\ calm' = FALSE
      /\ UNCHANGED <<logView, pass>> /\ written' = written
  BY LogViewStays DEF Adjust
<1>2. BooksOK /\ Estimate \in Nat \ {0} /\ written \in Nat
  BY EstimateAssumption DEF Sound, LogType
<1>3. BooksOK'
  BY <1>1, <1>2 DEF BooksOK, Excess
<1> QED BY <1>1, <1>3, BooksStepSound

LEMMA MaxOf == ASSUME NEW a \in Nat PROVE Max({a, 0}) = a
BY DEF Max

LEMMA SettleBeginSound == ASSUME Sound, SettleBegin PROVE Books'
<1>1. /\ owed = 0 /\ restored /\ spos < written /\ spos' = written
      /\ owed' = written - spos /\ pending' = Max({pending - (written - spos), 0})
      /\ UNCHANGED <<settled, restored, req>> /\ calm' = FALSE
      /\ UNCHANGED <<logView, pass>> /\ written' = written
  BY LogViewStays DEF SettleBegin
<1>2. BooksOK /\ Estimate \in Nat \ {0} /\ written \in Nat
  BY EstimateAssumption DEF Sound, LogType
<1>3. Excess \in Nat /\ pending - (written - spos) = Excess
  BY <1>1, <1>2 DEF BooksOK, Excess
<1>4. pending' = Excess /\ Excess' = Excess
  <2>1. Max({pending - (written - spos), 0}) = pending - (written - spos)
    BY <1>3, MaxOf
  <2> QED BY <2>1, <1>1, <1>3 DEF Excess
<1>5. BooksOK'
  BY <1>1, <1>2, <1>3, <1>4 DEF BooksOK
<1> QED BY <1>1, <1>5, BooksStepSound

LEMMA SettleEndSound == ASSUME Sound, SettleEnd PROVE Books'
<1>1. /\ owed > 0 /\ owed' = 0 /\ settled' = settled + owed
      /\ UNCHANGED <<spos, pending, restored, req>> /\ calm' = FALSE
      /\ UNCHANGED <<logView, pass>> /\ written' = written
  BY LogViewStays DEF SettleEnd
<1>2. BooksOK /\ written \in Nat
  BY DEF Sound, LogType
<1>3. BooksOK'
  BY <1>1, <1>2 DEF BooksOK, Excess
<1> QED BY <1>1, <1>3, BooksStepSound

\* Without a request reserved before it: "boot" is the doubt otherwise.
LEMMA RestoreSound == ASSUME Sound, Restore, doubts' = {} PROVE Books'
<1>1. /\ ~restored /\ owed = 0 /\ restored' = TRUE /\ pending' = pending + (written - spos)
      /\ UNCHANGED <<settled, spos, owed, req>> /\ calm' = FALSE
      /\ UNCHANGED <<logView, pass>> /\ written' = written
      /\ ~(pending > 0)
  BY LogViewStays DEF Restore, Excuse
<1>2. BooksOK /\ Estimate \in Nat \ {0} /\ written \in Nat
  BY EstimateAssumption DEF Sound, LogType
<1>3. BooksOK'
  BY <1>1, <1>2 DEF BooksOK, Excess
<1> QED BY <1>1, <1>3, BooksStepSound

\* A pass: what it reads while it is calm is what it finds at its end.
LEMMA RunBeginSound == ASSUME Sound, RunBegin PROVE Books'
<1>1. /\ phase = "idle" /\ phase' = "peek" /\ calm' = Quiet
      /\ UNCHANGED <<books, st, stFile, report>>
      /\ UNCHANGED <<upto, pos, written, dir, handle>>
      /\ \E c \in {cursor, NoCursor} : PeekStat(c)
  BY DEF RunBegin, PeekBegin, PeekNoCursor, PeekStat, disk, history
<1>2. /\ rpc' \in {"gone", "search", "best", "main"} /\ scan'.main = dir[0]
      /\ rpc' = "gone" => dir[0] = NoFile
  BY <1>1 DEF PeekStat, NoScan
<1>3. BooksOK'
  BY <1>1 DEF Sound, BooksOK, Excess, books
<1>4. PassOK'
  BY <1>1 DEF Sound, PassOK, Total
<1>5. Quiet => dir[0] # NoFile
  BY DEF Quiet, Sound, DiskOK
<1>6. Quiet \in BOOLEAN /\ Quiet' = Quiet
  <2>1. restored \in BOOLEAN
    BY DEF Sound, BooksOK
  <2> QED BY <2>1, <1>1 DEF Quiet, books
<1>7. CalmOK'
  <2>1. calm' = Quiet /\ calm' \in BOOLEAN /\ (calm' => Quiet')
    BY <1>1, <1>6
  <2>2. report.calm => report.drift = 0
    BY DEF Sound, CalmOK
  <2> QED BY <2>1, <2>2, <1>1, <1>2, <1>5 DEF CalmOK
<1> QED BY <1>3, <1>4, <1>7 DEF Books

LEMMA RunPeekSound == ASSUME Sound, RunPeek PROVE Books'
<1>1. /\ phase = "peek" /\ UNCHANGED <<pass, books, calm>>
      /\ UNCHANGED <<pos, written, dir, handle>>
      /\ PeekGone \/ PeekSearch \/ PeekBackup \/ PeekBest \/ PeekDot1 \/ PeekMain
  BY DEF RunPeek, PeekGone, PeekSearch, PeekBackup, PeekBest, PeekDot1, PeekMain, disk, history
<1>2. BooksOK'
  BY <1>1 DEF Sound, BooksOK, Excess, books
<1>3. PassOK'
  BY <1>1 DEF Sound, PassOK, Total, pass
<1>4. calm \in BOOLEAN /\ (report.calm => report.drift = 0)
  BY DEF Sound, CalmOK
<1>5. ASSUME calm
      PROVE  /\ Quiet' /\ rpc' # "gone"
             /\ rpc' \in Peeking => dir[0] = scan'.main
             /\ rpc' = "held" => upto' = written
  <2>1. /\ Quiet /\ rpc # "gone" /\ (rpc \in Peeking => dir[0] = scan.main)
    BY <1>5 DEF Sound, CalmOK
  <2>2. Quiet'
    BY <2>1, <1>1 DEF Quiet, books
  <2>3. CASE PeekGone
    BY <2>1, <2>3 DEF PeekGone
  <2>4. CASE PeekSearch \/ PeekBackup \/ PeekBest \/ PeekDot1
    <3>1. scan \in Scans
      BY DEF Sound, LogType
    <3>2. scan'.main = scan.main
      BY <3>1, <2>4 DEF PeekSearch, PeekBackup, PeekBest, PeekDot1, Scans
    <3>3. rpc \in Peeking /\ rpc' \in Peeking
      BY <2>4 DEF PeekSearch, PeekBackup, PeekBest, PeekDot1, AfterBackup, Peeking, Draining
    <3> QED BY <3>2, <3>3, <2>1, <2>2 DEF Peeking, Draining
  <2>5. CASE PeekMain
    BY <2>1, <2>2, <2>5 DEF PeekMain, Peeking, Draining
  <2> QED BY <2>3, <2>4, <2>5, <1>1
<1>6. CalmOK'
  <2>1. calm' = calm /\ report' = report /\ phase' = "peek"
    BY <1>1 DEF pass
  <2> QED BY <2>1, <1>1, <1>4, <1>5 DEF CalmOK
<1> QED BY <1>2, <1>3, <1>6 DEF Books

LEMMA RunFailsSound == ASSUME Sound, RunFails PROVE Books'
<1>1. /\ phase = "peek" /\ phase' = "idle" /\ calm' = FALSE
      /\ UNCHANGED <<books, st, stFile, report, pos, written>>
  BY DEF RunFails, PeekFails, history
<1>2. BooksOK'
  BY <1>1 DEF Sound, BooksOK, Excess, books
<1>3. PassOK'
  BY <1>1 DEF Sound, PassOK, Total
<1>4. CalmOK'
  BY <1>1 DEF Sound, CalmOK
<1> QED BY <1>2, <1>3, <1>4 DEF Books

LEMMA ReadSettledSound == ASSUME Sound, ReadSettled PROVE Books'
<1>1. /\ phase = "peek" /\ rpc = "held" /\ phase' = "settled" /\ took' = settled
      /\ UNCHANGED <<books, st, stFile, report, calm>>
      /\ UNCHANGED <<rpc, upto, pos, written, dir, handle, scan>>
  BY DEF ReadSettled, logVars, disk, reader, history
<1>2. BooksOK'
  BY <1>1 DEF Sound, BooksOK, Excess, books
<1>3. PassOK'
  BY <1>1 DEF Sound, PassOK, Total
<1>4. settled' = settled /\ settled \in Nat
  BY <1>1 DEF Sound, BooksOK, books
<1>5. CalmOK'
  BY <1>1, <1>4 DEF Sound, CalmOK, Quiet, books
<1> QED BY <1>2, <1>3, <1>5 DEF Books

\* The sum is taken: in a calm pass it is what has been written, and so are the
\* settled total and the pending spend together.
LEMMA TallySound == ASSUME Sound, Tally, doubts' = {} PROVE Books'
<1>1. /\ phase = "settled" /\ phase' = "tallied"
      /\ st' = Tallied(st, took, pending, Len(batch))
      /\ report' = [drift |-> Drift(st', took, pending), calm |-> calm]
      /\ ~st.init => calm
      /\ UNCHANGED <<books, stFile, took, calm>>
      /\ UNCHANGED <<rpc, upto, pos, written, dir, handle, scan>>
  BY DEF Tally, Excuse, logVars, disk, reader, history
<1>2. /\ rpc = "held" /\ upto \in pos .. written /\ batch = Run(pos, upto)
      /\ pos \in Nat /\ written \in Nat /\ upto \in Nat /\ took \in Nat
      /\ st \in States /\ stFile \in States
      /\ settled \in Nat /\ owed \in Nat /\ spos \in Nat /\ pending \in Nat
      /\ settled + owed = spos /\ spos <= written
      /\ restored => pending = (written - spos) + Excess
  BY <1>1 DEF Sound, PassOK, ScanOK, LogType, CalmOK, BooksOK
<1>3. Len(batch) = upto - pos /\ Len(batch) \in Nat
  <2>1. pos <= upto
    BY <1>2
  <2>2. Len(Run(pos, upto)) = upto - pos
    BY <2>1, <1>2, RunType
  <2> QED BY <2>1, <2>2, <1>2
<1>4. ASSUME calm
      PROVE  /\ took = settled /\ upto = written /\ settled + pending = written
  <2>1. req = "none" /\ owed = 0 /\ restored /\ took = settled /\ upto = written
    BY <1>1, <1>2, <1>4 DEF Sound, CalmOK, Quiet
  <2> QED BY <2>1, <1>2 DEF Excess
<1>5. /\ st' \in States /\ st'.init /\ Total(st') = upto
  <2>1. CASE st.init
    <3>1. Total(st) = pos
      BY <2>1, <1>1 DEF Sound, PassOK
    <3>2. st' = [st EXCEPT !.billed = st.billed + Len(batch)]
      BY <2>1, <1>1 DEF Tallied
    <3>3. /\ st' \in States /\ st'.init /\ st'.billed = st.billed + Len(batch)
          /\ st'.settled = st.settled /\ st'.pending = st.pending
      <4>1. /\ st \in [init : BOOLEAN, billed : Nat, settled : Nat, pending : Nat]
            /\ st.billed + Len(batch) \in Nat
        BY <1>2, <1>3 DEF States
      <4>2. st' = [init |-> st.init, billed |-> st.billed + Len(batch),
                   settled |-> st.settled, pending |-> st.pending]
        BY <4>1, <3>2
      <4> QED BY <4>1, <4>2, <2>1 DEF States
    <3>4. st.billed \in Nat /\ st.settled \in Nat /\ st.pending \in Nat
      BY <1>2 DEF States
    <3> QED BY <3>1, <3>3, <3>4, <1>2, <1>3 DEF Total
  <2>2. CASE ~st.init
    <3>1. st = NoState
      BY <2>2 DEF Sound, PassOK
    <3>2. st' = [init |-> TRUE, billed |-> 0, settled |-> took, pending |-> pending]
      BY <3>1, <2>2, <1>1 DEF Tallied, NoState
    <3>3. took + pending = upto
      BY <2>2, <1>1, <1>4
    <3> QED BY <3>2, <3>3, <1>2 DEF States, Total
  <2> QED BY <2>1, <2>2
<1>6. report'.calm => report'.drift = 0
  <2> SUFFICES ASSUME calm
               PROVE  Drift(st', took, pending) = 0
    BY <1>1
  <2>1. st'.billed + st'.settled + st'.pending = took + pending
    BY <1>4, <1>5 DEF Total
  <2>2. st'.billed \in Nat /\ st'.settled \in Nat /\ st'.pending \in Nat
    BY <1>5 DEF States
  <2> QED BY <2>1, <2>2, <1>2 DEF Drift
<1>7. BooksOK'
  BY <1>1 DEF Sound, BooksOK, Excess, books
<1>8. PassOK'
  <2>1. ~stFile.init => stFile = NoState
    BY DEF Sound, PassOK
  <2>2. stFile.init => Total(stFile) <= pos
    BY DEF Sound, PassOK
  <2> QED BY <2>1, <2>2, <1>1, <1>2, <1>5 DEF PassOK, Total
<1>9. CalmOK'
  BY <1>1, <1>6 DEF Sound, CalmOK, Quiet, books
<1> QED BY <1>7, <1>8, <1>9 DEF Books

LEMMA RunCommitSound == ASSUME Sound, RunCommit, doubts' = {} PROVE Books'
<1>1. /\ phase = "tallied" /\ phase' = "committed" /\ rpc = "held" /\ rpc' = "idle"
      /\ UNCHANGED <<books, st, stFile, took, report, calm, written, dir, handle>>
      /\ pos' = upto \/ (pos' = pos /\ batch = << >>)
  BY DEF RunCommit, CommitCursor, CommitFails, Done, Excuse, disk, history
<1>2. /\ upto \in pos .. written /\ batch = Run(pos, upto) /\ pos \in Nat /\ written \in Nat
  BY <1>1 DEF Sound, ScanOK, LogType
<1>3. pos' = upto
  <2>1. pos <= upto /\ upto \in Nat
    BY <1>2
  <2>2. Len(Run(pos, upto)) = upto - pos
    BY <2>1, <1>2, RunType
  <2>3. batch = << >> => upto = pos
    BY <2>1, <2>2, <1>2
  <2> QED BY <2>3, <1>1
<1>4. BooksOK'
  BY <1>1 DEF Sound, BooksOK, Excess, books
<1>5. PassOK'
  <2>1. st.init => Total(st) = upto
    BY <1>1 DEF Sound, PassOK
  <2>2. stFile.init => Total(stFile) <= pos /\ Total(stFile) \in Int
    BY DEF Sound, PassOK, Total, States
  <2>3. stFile.init => Total(stFile) <= upto
    BY <2>2, <1>2
  <2> QED BY <2>1, <2>3, <1>1, <1>3 DEF Sound, PassOK, Total
<1>6. CalmOK'
  BY <1>1 DEF Sound, CalmOK, Quiet, books, Peeking, Draining
<1> QED BY <1>4, <1>5, <1>6 DEF Books

LEMMA SaveStateSound == ASSUME Sound, SaveState PROVE Books'
<1>1. /\ phase = "committed" /\ phase' = "idle" /\ stFile' \in {st, stFile}
      /\ st' = st /\ calm' = FALSE /\ report' = NoReport
      /\ UNCHANGED <<books, rpc, upto, pos, written>>
  BY DEF SaveState, reader, history
<1>2. BooksOK'
  BY <1>1 DEF Sound, BooksOK, Excess, books
<1>3. st.init => Total(st) = pos
  BY <1>1 DEF Sound, PassOK
<1>4. pos <= pos
  BY DEF Sound, LogType
<1>5. PassOK'
  BY <1>1, <1>3, <1>4 DEF Sound, PassOK, Total
<1>6. CalmOK'
  BY <1>1 DEF CalmOK, NoReport
<1> QED BY <1>2, <1>5, <1>6 DEF Books

\* The state that is loaded is the one that was left: "window" is the doubt
\* otherwise.
LEMMA CrashSound == ASSUME Sound, Crash, doubts' = {} PROVE Books'
<1>1. /\ st' = stFile /\ stFile' = stFile /\ phase' = "idle" /\ report' = NoReport
      /\ pending' = 0 /\ restored' = FALSE /\ req' = "none" /\ calm' = FALSE
      /\ UNCHANGED <<settled, spos, owed>> /\ UNCHANGED <<written, pos>>
      /\ stFile.init => stFile = st
  BY DEF Crash, Restart, RestartLog, Excuse, history
<1>2. BooksOK'
  BY <1>1 DEF Sound, BooksOK
<1>3. stFile.init => Total(stFile) = pos
  <2> SUFFICES ASSUME stFile.init
               PROVE  Total(stFile) = pos
    OBVIOUS
  <2>1. /\ Total(stFile) <= pos /\ Total(stFile) = Total(st) /\ Total(stFile) \in Int
        /\ Total(st) = IF phase = "tallied" THEN upto ELSE pos
    BY <1>1 DEF Sound, PassOK, Total, States
  <2>2. CASE phase = "tallied"
    <3>1. upto \in pos .. written /\ pos \in Nat
      BY <2>2 DEF Sound, PassOK, ScanOK, LogType
    <3> QED BY <3>1, <2>1, <2>2
  <2> QED BY <2>1, <2>2
<1>4. PassOK'
  <2>1. pos \in Nat
    BY DEF Sound, LogType
  <2> QED BY <2>1, <1>1, <1>3 DEF Sound, PassOK, Total
<1>5. CalmOK'
  BY <1>1 DEF CalmOK, NoReport
<1> QED BY <1>2, <1>4, <1>5 DEF Books

LEMMA StutterSound == ASSUME Sound, UNCHANGED vars PROVE Books'
<1>1. UNCHANGED <<pass, books, calm, rpc, upto, pos, written, dir, handle, scan>>
  BY DEF vars, logVars, disk, reader, history
<1>2. BooksOK'
  BY <1>1 DEF Sound, BooksOK, Excess, books
<1>3. PassOK'
  BY <1>1 DEF Sound, PassOK, Total, pass
<1>4. CalmOK'
  BY <1>1 DEF Sound, CalmOK, Quiet, books, pass
<1> QED BY <1>2, <1>3, <1>4 DEF Books

\* A request whose record was not written is a doubt.
LEMMA UnloggedDoubts == ASSUME ServeUnlogged PROVE doubts' # {}
BY DEF ServeUnlogged

LEMMA ReconcilerStepKeeps == ASSUME ReconcilerInv, [RNext]_vars PROVE ReconcilerInv'
<1>1. LogInv'
  BY LogInvUnderReconciler DEF ReconcilerInv
<1> SUFFICES ASSUME excuses' = {}, doubts' = {}
             PROVE  Books'
  BY <1>1 DEF ReconcilerInv, Books
<1>2. excuses = {} /\ doubts = {}
  BY LogUnderReconciler, OverlapExcused, ExcusesStay, DoubtsStay
<1>3. Sound
  BY <1>2 DEF ReconcilerInv, LogInv, Sound
<1> QED
  BY <1>3, OverlapExcused, LogStepSound, ReserveSound, ServeSound, UnloggedDoubts, AdjustSound,
     SettleBeginSound, SettleEndSound, RestoreSound, RunBeginSound, RunPeekSound,
     RunFailsSound, ReadSettledSound, TallySound, RunCommitSound, SaveStateSound, CrashSound,
     StutterSound DEF RNext

LEMMA ReconcilerInitHolds == ASSUME RInit PROVE ReconcilerInv
<1>1. LogInv
  BY InitHolds DEF RInit
<1>2. written = 0 /\ rpc = "idle"
  BY DEF RInit, Init
<1>3. BooksOK
  <2>1. /\ settled = 0 /\ spos = 0 /\ owed = 0 /\ pending = 0
        /\ restored = FALSE /\ req = "none"
    BY DEF RInit
  <2>2. restored \in BOOLEAN /\ ~restored
    BY <2>1
  <2>3. /\ settled \in Nat /\ owed \in Nat /\ spos \in Nat /\ spos <= written
        /\ pending \in Nat /\ settled + owed = spos
    BY <2>1, <1>2
  <2> QED BY <2>1, <2>2, <2>3 DEF BooksOK
<1>4. PassOK
  <2>1. NoState \in States /\ ~NoState.init
    BY DEF States, NoState
  <2> QED BY <2>1, <1>2 DEF RInit, PassOK
<1>5. CalmOK
  BY <1>2 DEF RInit, CalmOK, NoReport
<1> QED BY <1>1, <1>3, <1>4, <1>5 DEF ReconcilerInv

LEMMA ReconcilerInvHolds == RSpec => []ReconcilerInv
<1>1. RInit => ReconcilerInv
  BY ReconcilerInitHolds
<1>2. ReconcilerInv /\ [RNext]_vars => ReconcilerInv'
  BY ReconcilerStepKeeps
<1> QED BY <1>1, <1>2, PTL DEF RSpec

\* The reconciler's own scanner keeps that promise too: whatever requests,
\* settlements, earlier passes and crashes surround it, a pass is given every
\* record once (reconcile.go: Peek, then CommitCursor), until a second caller of
\* Run overlaps with it, which is an excuse.
THEOREM ReconcilerReadsOnce == RSpec => EveryRecordOnce
<1>1. RInit => LR!Init
  BY InitReadsOnce DEF RInit
<1>2. ReconcilerInv /\ ReconcilerInv' /\ [RNext]_vars
         => [LR!Next]_<<written, pos, IF rpc = "held" THEN batch ELSE << >>, excuses # {}>>
  <2>1. RunOverlaps => LR!Next
    BY OverlapExcused DEF LR!Next
  <2> QED BY <2>1, LogUnderReconciler, StepReadsOnce DEF Given, ReconcilerInv
<1> QED BY <1>1, <1>2, ReconcilerInvHolds, PTL DEF RSpec, EveryRecordOnce, LR!Spec

\* A pass of Reconciler.Run that nothing disturbs reports no drift: what it adds
\* up from the log, in whatever pieces, is what has been settled and what is
\* still pending, as long as no two passes have overlapped and no other excuse or
\* doubt was met.
THEOREM CalmPassesAgree == RSpec => []CalmPassAgrees
<1>1. ReconcilerInv => CalmPassAgrees
  BY DEF ReconcilerInv, CalmOK, CalmPassAgrees
<1> QED BY <1>1, ReconcilerInvHolds, PTL
=============================================================================
