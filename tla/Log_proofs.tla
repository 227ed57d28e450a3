------------------------------ MODULE Log_proofs ------------------------------
(***************************************************************************)
(* Theorems about the log for every limit, every length of lines, longer   *)
(* than the limit or not, and every size_t that their sums fit into.       *)
(***************************************************************************)
EXTENDS Log, Integers, SequenceTheorems, TLAPS

\* m_pos where the next line finds it, and the room that line has been found.
PosKnown ==
    /\ pc = "idle" /\ stream = "good" => pos = SizeT(fileSize)
    /\ pc \in {"idle", "write"} =>
          /\ stream = "bad" => pos = SizeMax
          /\ stream = "closed" => pos = 0
    /\ pc = "write" /\ stream = "good" /\ ~stuck =>
          fileSize + line <= MaxSize \/ (file = <<>> /\ fileSize = 0)
    /\ pc = "open" /\ ~stuck => file = <<>> /\ fileSize = 0
    /\ pc \in {"unlink", "rename", "open"} => stream = "closed"

\* The old backup is gone when the log takes its name.
BackupGone == pc = "rename" => backup = <<>>

IInv == TypeOK /\ PosKnown /\ SizeBounded /\ BackupGone

-----------------------------------------------------------------------------
\* What wrapping does to the sums the log makes.
LEMMA Wrapping ==
    /\ \A n \in Nat : SizeT(n) \in 0..SizeMax
    /\ \A n \in 0..SizeMax : SizeT(n) = n
    /\ \A n \in 1..SizeMax : SizeT(SizeMax + n) = n - 1
<1> USE LogConstants
<1>1. \A n \in Nat : SizeT(n) \in 0..SizeMax
  BY Z3 DEF SizeT
<1>2. \A n \in 0..SizeMax : SizeT(n) = n
  BY Z3 DEF SizeT
<1>3. \A n \in 1..SizeMax : SizeT(SizeMax + n) = n - 1
  BY Z3 DEF SizeT
<1> QED
  BY <1>1, <1>2, <1>3

\* Without a working stream no line within the limit makes a roll-up happen.
LEMMA NoRollWithoutStream ==
    ASSUME pos = SizeMax \/ pos = 0, NEW size \in 1..MaxLine, size <= MaxSize
    PROVE  ~MustRoll(size)
<1>1. size \in 1..SizeMax /\ size - 1 <= MaxSize /\ size <= MaxSize /\ MaxSize \in Nat
  BY LogConstants
<1>2. CASE pos = SizeMax
  <2>1. SizeT(pos + size) = size - 1
    BY <1>1, <1>2, Wrapping
  <2> QED
    BY <1>1, <2>1 DEF MustRoll
<1>3. CASE pos = 0
  <2>1. SizeT(pos + size) = size
    BY <1>1, <1>3, Wrapping
  <2> QED
    BY <1>1, <2>1 DEF MustRoll
<1> QED
  BY <1>2, <1>3

\* The initial state satisfies the invariant.
LEMMA InitInv == Init => IInv
<1> SUFFICES ASSUME Init PROVE IInv
  OBVIOUS
<1>1. <<>> \in Seq(Nat)
  BY EmptySeq
<1>2. file = <<>> /\ backup = <<>> /\ refused \in BOOLEAN /\ stuck \in BOOLEAN
  BY DEF Init
<1>3. TypeOK
  BY <1>1, <1>2, LogConstants DEF Init, TypeOK
<1> QED
  BY <1>3, LogConstants DEF Init, IInv, PosKnown, SizeBounded, HoldsOneLine, BackupGone

-----------------------------------------------------------------------------
(* Every step keeps the invariant *)

\* The constructor finds the files of an earlier daemon and keeps the invariant.
LEMMA StartKeeps == IInv /\ Start => IInv'
<1> SUFFICES ASSUME IInv, Start PROVE IInv'
  OBVIOUS
<1> USE DEF IInv
<1>1. PICK s \in {"good", "closed"} : stream' = s /\ pos' = IF s = "good" THEN SizeT(fileSize) ELSE 0
  BY DEF Start
<1>2. SizeT(fileSize) \in 0..SizeMax /\ 0 \in 0..SizeMax
  BY Wrapping, LogConstants DEF TypeOK
<1>3. TypeOK'
  BY <1>1, <1>2 DEF Start, TypeOK, files, history
<1>4. PosKnown'
  BY <1>1 DEF Start, PosKnown, files, history
<1> QED
  BY <1>3, <1>4 DEF Start, SizeBounded, HoldsOneLine, BackupGone, files, history

\* The check of the limit: what it lets through fits into the file.
LEMMA LogLineKeeps == ASSUME NEW size \in 1..MaxLine PROVE IInv /\ LogLine(size) => IInv'
<1> SUFFICES ASSUME IInv, LogLine(size) PROVE IInv'
  OBVIOUS
<1> USE DEF IInv
<1>1. TypeOK'
  BY LogConstants DEF LogLine, TypeOK, files, history
<1>2. CASE MustRoll(size)
  BY <1>1, <1>2 DEF LogLine, PosKnown, SizeBounded, HoldsOneLine, BackupGone, files, history
<1>3. CASE ~MustRoll(size)
  <2>1. pc' = "write" /\ line' = size /\ UNCHANGED <<stream, pos, file, fileSize, backup, backupSize, stuck>> /\ pc = "idle"
    BY <1>3 DEF LogLine, files, history
  <2>2. ASSUME stream = "good", ~stuck PROVE fileSize + size <= MaxSize
    <3>1. fileSize \in 0..SizeMax /\ fileSize + size \in 0..SizeMax
      BY <2>2, LogConstants DEF TypeOK, SizeBounded, HoldsOneLine
    <3>2. pos = fileSize
      BY <2>1, <2>2, <3>1, Wrapping DEF PosKnown
    <3>3. SizeT(pos + size) = fileSize + size
      BY <3>1, <3>2, Wrapping
    <3> QED
      BY <1>3, <3>1, <3>3, LogConstants DEF MustRoll
  <2> QED
    BY <1>1, <2>1, <2>2 DEF PosKnown, SizeBounded, HoldsOneLine, BackupGone
<1> QED
  BY <1>2, <1>3

\* The three steps of a roll-up keep the bounds, also if the rename fails.
LEMMA RollKeeps == IInv /\ (Unlink \/ Rename \/ Reopen) => IInv'
<1> SUFFICES ASSUME IInv PROVE Unlink \/ Rename \/ Reopen => IInv'
  OBVIOUS
<1> USE DEF IInv
<1>1. <<>> \in Seq(Nat)
  BY EmptySeq
<1>2. ASSUME Unlink PROVE IInv'
  <2>1. TypeOK'
    BY <1>1, <1>2 DEF Unlink, TypeOK, history
  <2> QED
    BY <1>2, <2>1, LogConstants
    DEF Unlink, TypeOK, PosKnown, SizeBounded, HoldsOneLine, BackupGone, history
<1>3. ASSUME Rename PROVE IInv'
  <2>1. CASE stuck' = TRUE /\ UNCHANGED files
    BY <1>3, <2>1 DEF Rename, TypeOK, PosKnown, SizeBounded, HoldsOneLine, BackupGone, files
  <2>2. CASE backup' = file /\ backupSize' = fileSize /\ file' = <<>> /\ fileSize' = 0 /\ UNCHANGED stuck
    <3>1. TypeOK'
      BY <1>1, <1>3, <2>2 DEF Rename, TypeOK
    <3> QED
      BY <1>3, <2>2, <3>1, LogConstants
      DEF Rename, TypeOK, PosKnown, SizeBounded, HoldsOneLine, BackupGone
  <2> QED
    BY <1>3, <2>1, <2>2 DEF Rename
<1>4. ASSUME Reopen PROVE IInv'
  <2>1. stream' \in {"good", "closed"} /\ pos' = 0 /\ pc' = "write" /\ pc = "open"
    BY <1>4 DEF Reopen
  <2>2. TypeOK'
    BY <1>4, <2>1, LogConstants DEF Reopen, TypeOK, files, history
  <2>3. ~stuck => file = <<>> /\ fileSize = 0
    BY <2>1 DEF PosKnown
  <2> QED
    BY <1>4, <2>1, <2>2, <2>3 DEF Reopen, PosKnown, SizeBounded, HoldsOneLine, BackupGone, files, history
<1> QED
  BY <1>2, <1>3, <1>4

\* A line that fits, fits with its newline, and m_pos follows the file.
LEMMA WriteKeeps == IInv /\ Write => IInv'
<1> SUFFICES ASSUME IInv, Write PROVE IInv'
  OBVIOUS
<1> USE DEF IInv
<1>1. /\ pc = "write" /\ pc' = "idle" /\ count' = count + 1 /\ UNCHANGED <<line, backup, backupSize, disk, stuck>>
      /\ Append(file, count + 1) \in Seq(Nat)
  BY AppendProperties DEF Write, TypeOK
<1>5. file = <<>> => Len(Append(file, count + 1)) = 1
  OBVIOUS
<1>2. CASE Written
  <2>1. fileSize' \in Nat /\ fileSize' = fileSize + line + 1
    BY <1>2, LogConstants DEF Written, TypeOK
  <2>2. pos' = SizeT(fileSize') /\ pos' \in 0..SizeMax
    BY <1>2, <2>1, Wrapping DEF Written
  <2>3. TypeOK'
    BY <1>1, <1>2, <2>1, <2>2 DEF Written, TypeOK
  <2>4. ~stuck => fileSize' <= MaxSize + 1 \/ HoldsOneLine(file', fileSize')
    BY <1>1, <1>2, <1>5, <2>1, LogConstants DEF Written, PosKnown, TypeOK, HoldsOneLine
  <2> QED
    BY <1>1, <1>2, <2>2, <2>3, <2>4 DEF Written, PosKnown, SizeBounded, HoldsOneLine, BackupGone
<1>3. CASE WriteFailed
  <2>1. /\ stream = "good" /\ stream' = "bad" /\ pos' = SizeMax /\ refused' = TRUE
        /\ file' \in {file, Append(file, count + 1)}
        /\ fileSize' \in Nat /\ fileSize' <= fileSize + line
    BY <1>3, LogConstants DEF WriteFailed, TypeOK
  <2>2. TypeOK'
    <3>1. file' \in Seq(Nat)
      BY <1>1, <2>1 DEF TypeOK
    <3>2. pos' \in 0..SizeMax
      BY <2>1, LogConstants
    <3> QED
      BY <1>1, <2>1, <3>1, <3>2 DEF TypeOK
  <2>3. ~stuck => fileSize' <= MaxSize + 1 \/ HoldsOneLine(file', fileSize')
    <3>1. CASE UNCHANGED <<file, fileSize>>
      BY <3>1 DEF SizeBounded, HoldsOneLine
    <3>2. CASE file' = Append(file, count + 1)
      BY <1>1, <1>5, <2>1, <3>2, LogConstants DEF PosKnown, TypeOK, HoldsOneLine
    <3> QED
      BY <1>3, <3>1, <3>2 DEF WriteFailed
  <2> QED
    BY <1>1, <2>1, <2>2, <2>3 DEF PosKnown, SizeBounded, HoldsOneLine, BackupGone
<1>4. CASE WriteIgnored
  <2>1. stream # "good" /\ pos' = (IF stream = "bad" THEN SizeMax ELSE pos) /\ UNCHANGED <<stream, file, fileSize>> /\ refused' = TRUE
    BY <1>4 DEF WriteIgnored
  <2>2. TypeOK'
    BY <1>1, <2>1, LogConstants DEF TypeOK
  <2> QED
    BY <1>1, <2>1, <2>2 DEF PosKnown, SizeBounded, HoldsOneLine, BackupGone, TypeOK
<1> QED
  BY <1>2, <1>3, <1>4 DEF Write

\* The invariant is inductive: a kill or a change of the disk does not touch it.
LEMMA NextInv == IInv /\ [Next]_vars => IInv'
<1> SUFFICES ASSUME IInv, [Next]_vars PROVE IInv'
  OBVIOUS
<1>1. ASSUME Kill PROVE IInv'
  BY <1>1 DEF IInv, Kill, TypeOK, PosKnown, SizeBounded, HoldsOneLine, BackupGone, files, history
<1>2. ASSUME DiskChanges PROVE IInv'
  BY <1>2 DEF IInv, DiskChanges, TypeOK, PosKnown, SizeBounded, HoldsOneLine, BackupGone, files, history
<1>3. ASSUME UNCHANGED vars PROVE IInv'
  BY <1>3 DEF IInv, vars, TypeOK, PosKnown, SizeBounded, HoldsOneLine, BackupGone, files, history
<1> QED
  BY <1>1, <1>2, <1>3, StartKeeps, LogLineKeeps, RollKeeps, WriteKeeps DEF Next

\* The invariant holds in every reachable state.
LEMMA Invariance == Spec => []IInv
BY InitInv, NextInv, PTL DEF Spec

\* The types of the log's members and of the files, for every limit and line length.
THEOREM TypeCorrect == Spec => []TypeOK
BY Invariance, PTL DEF IInv

\* A file that outgrows the limit by more than the newline holds one line that is
\* longer by itself, whenever the daemon is killed in a roll-up and started again
\* (Log.cpp 95-101).
THEOREM SizesStayBounded == Spec => []SizeBounded
BY Invariance, PTL DEF IInv

\* m_pos is the size of the file between two lines; without a working stream a line
\* within the limit rolls nothing up, which needs that tellp's -1 wraps to the
\* largest size_t.
THEOREM PosStaysSize == Spec => []PosIsSize
<1>1. IInv => PosIsSize
  BY NoRollWithoutStream DEF IInv, TypeOK, PosKnown, PosIsSize
<1> QED
  BY <1>1, Invariance, PTL

-----------------------------------------------------------------------------
(* Refinement *)

\* A step of the abstract log, or none.
AbstractStep == [Kept!Next]_<<backup \o file, count, refused>>

\* Appending to the last of two sequences appends to both.
LEMMA AppendToAll ==
    ASSUME NEW s \in Seq(Nat), NEW t \in Seq(Nat), NEW n \in Nat
    PROVE  s \o Append(t, n) = Append(s \o t, n)
<1> DEFINE left == s \o Append(t, n)
           right == Append(s \o t, n)
<1>1. left \in Seq(Nat) /\ right \in Seq(Nat)
  OBVIOUS
<1>2. Len(left) = Len(right)
  OBVIOUS
<1>3. \A i \in 1..Len(left) : left[i] = right[i]
  OBVIOUS
<1> QED
  BY <1>1, <1>2, <1>3, SeqEqual, Zenon

\* The line a write adds is added to all that is kept.
LEMMA WriteRefines == IInv /\ Write => AbstractStep
<1> SUFFICES ASSUME IInv, Write PROVE AbstractStep
  OBVIOUS
<1>1. /\ file \in Seq(Nat) /\ backup \in Seq(Nat) /\ count + 1 \in Nat
      /\ count' = count + 1 /\ backup' = backup
  BY DEF IInv, TypeOK, Write
<1>2. backup \o Append(file, count + 1) = Append(backup \o file, count + 1)
  BY <1>1, AppendToAll
<1>3. CASE Written
  <2>1. Kept!Log
    BY <1>1, <1>2, <1>3 DEF Written, Kept!Log
  <2> QED
    BY <2>1 DEF AbstractStep, Kept!Next
<1>4. CASE WriteFailed \/ WriteIgnored
  <2>1. refused' = TRUE /\ file' \in {file, Append(file, count + 1)}
    BY <1>4 DEF WriteFailed, WriteIgnored
  <2>2. Kept!Refuse
    BY <1>1, <1>2, <2>1 DEF Kept!Refuse
  <2> QED
    BY <2>2 DEF AbstractStep, Kept!Next
<1> QED
  BY <1>3, <1>4 DEF Write

\* Deleting the backup forgets the oldest lines.
LEMMA UnlinkRefines == IInv /\ Unlink => AbstractStep
<1> SUFFICES ASSUME IInv, Unlink PROVE AbstractStep
  OBVIOUS
<1> DEFINE all == backup \o file
<1>1. file \in Seq(Nat) /\ backup \in Seq(Nat) /\ Len(file) \in Nat /\ Len(backup) \in Nat
  BY LenProperties DEF IInv, TypeOK
<1>2. backup' = <<>> /\ UNCHANGED <<file, count, refused>>
  BY DEF Unlink, history
<1>3. backup' \o file' = file
  BY <1>1, <1>2, ConcatEmptySeq
<1>4. all \in Seq(Nat) /\ Len(all) = Len(backup) + Len(file)
  BY <1>1, ConcatProperties
<1>5. CASE Len(backup) = 0
  <2>1. backup = <<>>
    BY <1>1, <1>5, EmptySeq
  <2>2. all = file
    BY <1>1, <2>1, ConcatEmptySeq
  <2> QED
    BY <1>2, <1>3, <2>2 DEF AbstractStep
<1>6. CASE Len(backup) > 0
  <2>1. SubSeq(all, Len(backup) + 1, Len(all)) = file
    <3>1. SubSeq(all, Len(backup) + 1, Len(all)) = SubSeq(file, 1, Len(file))
      BY <1>1, <1>4, SubSeqOfConcat2
    <3> QED
      BY <1>1, <3>1, SubSeqFull
  <2>2. Len(backup) \in 1..Len(all)
    BY <1>1, <1>4, <1>6
  <2>3. Kept!Forget(Len(backup))
    BY <1>2, <1>3, <2>1 DEF Kept!Forget
  <2> QED
    BY <2>2, <2>3 DEF AbstractStep, Kept!Next
<1> QED
  BY <1>1, <1>5, <1>6

\* Renaming moves all that is left from the log to the backup.
LEMMA RenameRefines == IInv /\ Rename => AbstractStep
<1> SUFFICES ASSUME IInv, Rename PROVE AbstractStep
  OBVIOUS
<1>1. file \in Seq(Nat) /\ backup = <<>> /\ UNCHANGED <<count, refused>>
  BY DEF IInv, TypeOK, BackupGone, Rename
<1>2. backup' \o file' = backup \o file
  BY <1>1, ConcatEmptySeq DEF Rename, files
<1> QED
  BY <1>1, <1>2 DEF AbstractStep

\* The log implements its promise: every step is one of the abstract log's or
\* leaves what is kept alone.
THEOREM KeepsLatestLines == Spec => KeepsLatest
<1>1. Init => Kept!Init
  BY EmptySeq, ConcatEmptySeq DEF Init, Kept!Init
<1>2. IInv /\ [Next]_vars => [Kept!Next]_<<backup \o file, count, refused>>
  <2> SUFFICES ASSUME IInv, [Next]_vars PROVE AbstractStep
    BY DEF AbstractStep
  <2>1. CASE UNCHANGED <<file, backup, count, refused>>
    BY <2>1 DEF AbstractStep
  <2>2. CASE Unlink \/ Rename \/ Write
    BY <2>2, UnlinkRefines, RenameRefines, WriteRefines
  <2>3. CASE Start \/ Reopen \/ Kill \/ DiskChanges \/ \E size \in 1..MaxLine : LogLine(size)
    BY <2>1, <2>3 DEF Start, Reopen, Kill, DiskChanges, LogLine, files, history
  <2> QED
    BY <2>1, <2>2, <2>3 DEF Next, vars, files, history
<1> QED
  BY <1>1, <1>2, Invariance, PTL DEF Spec, KeepsLatest, Kept!Spec, Kept!vars

\* No step loses a line that is in the log file.
THEOREM CurrentFileStays == Spec => CurrentFileKept
<1> DEFINE Stays ==
      \A i \in DOMAIN file :
          \/ \E j \in DOMAIN file' : file'[j] = file[i]
          \/ \E j \in DOMAIN backup' : backup'[j] = file[i]
<1>1. IInv /\ [Next]_vars => [Stays]_vars
  <2> SUFFICES ASSUME IInv, [Next]_vars PROVE Stays
    OBVIOUS
  <2>1. CASE file' = file
    BY <2>1
  <2>2. CASE backup' = file
    BY <2>2
  <2>3. CASE file' = Append(file, count + 1)
    <3>1. file \in Seq(Nat) /\ count + 1 \in Nat
      BY DEF IInv, TypeOK
    <3>2. /\ DOMAIN file = 1..Len(file) /\ Len(file) \in Nat
          /\ DOMAIN file' = 1..(Len(file) + 1)
          /\ \A i \in 1..Len(file) : file'[i] = file[i]
      BY <2>3, <3>1, AppendProperties, LenProperties
    <3> QED
      BY <3>2
  <2>4. \/ file' = file \/ backup' = file \/ file' = Append(file, count + 1)
    BY DEF Next, Start, LogLine, Unlink, Rename, Reopen, Write, Written, WriteFailed,
           WriteIgnored, Kill, DiskChanges, vars, files, history
  <2> QED
    BY <2>1, <2>2, <2>3, <2>4
<1> QED
  BY <1>1, Invariance, PTL DEF Spec, CurrentFileKept
=============================================================================
