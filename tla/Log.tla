--------------------------------- MODULE Log ---------------------------------
(***************************************************************************)
(* The log file and its one backup (src/Log.cpp).  A step is one system    *)
(* call of Log::log or of the constructor, so that the daemon can be       *)
(* killed between any two of them.  A line is its number and its size;     *)
(* sizes are counted in units, of which the newline is one.                *)
(***************************************************************************)
EXTENDS Naturals, Sequences

CONSTANTS
    MaxSize,   \* m_maxSize: 200 KB in the code
    MaxLine,   \* the longest line, without its newline; it may exceed MaxSize
    SizeMax    \* the largest size_t, what tellp's -1 becomes

\* A line is in memory several times before it is written (msg, os, toLog): twice
\* its length is a size_t, and so is its length on top of a full log.
ASSUME LogConstants ==
    /\ MaxSize \in Nat \ {0} /\ MaxLine \in Nat \ {0} /\ SizeMax \in Nat
    /\ 2 * MaxLine < SizeMax /\ MaxLine + MaxSize < SizeMax

VARIABLES
    pc,        \* where the daemon is: "down" when it does not run
    stream,    \* m_os: closed, good, or failed by a write
    pos,       \* m_pos
    line,      \* size of the line being logged
    file,      \* the log: numbers of its lines
    fileSize,  \* its bytes
    backup,    \* the file with the suffix .1
    backupSize,
    disk,      \* whether a write finds room
    count,     \* history: lines given to the log so far
    refused,   \* history: a line did not get into the file, or not all of it
    stuck      \* history: a rename has failed

files == <<file, fileSize, backup, backupSize>>
history == <<count, refused, stuck>>
vars == <<pc, stream, pos, line, files, disk, history>>

-----------------------------------------------------------------------------
\* A number as a size_t.
SizeT(n) == n % (SizeMax + 1)

Init ==
    /\ pc = "down"
    /\ stream = "closed"
    /\ pos = 0
    /\ line = 0
    /\ file = <<>> /\ fileSize = 0
    /\ backup = <<>> /\ backupSize = 0
    /\ disk = "room"
    /\ count = 0
    /\ refused = FALSE
    /\ stuck = FALSE

\* The file is opened for appending; a full disk has no room for a new one.
Open(s) ==
    \/ s = "good"
    \/ s = "closed" /\ disk = "full" /\ fileSize = 0

\* Fault: the file is opened without ios::app.
StartTruncating ==
    /\ pc = "down"
    /\ pc' = "idle"
    /\ stream' = "good"
    /\ pos' = 0 /\ file' = <<>> /\ fileSize' = 0
    /\ UNCHANGED <<line, backup, backupSize, disk, history>>

\* The constructor.
Start ==
    /\ pc = "down"
    /\ pc' = "idle"
    /\ \E s \in {"good", "closed"} :
          /\ Open(s)
          /\ stream' = s
          /\ pos' = IF s = "good" THEN SizeT(fileSize) ELSE 0
    /\ UNCHANGED <<line, files, disk, history>>

\* Fault: the limit is compared with what the file holds already.
MustRollLate(size) == pos > MaxSize

\* The comparison is made in size_t.
MustRoll(size) == SizeT(pos + size) > MaxSize

\* log is called: backup closes the file first.
LogLine(size) ==
    /\ pc = "idle"
    /\ line' = size
    /\ IF MustRoll(size)
       THEN pc' = "unlink" /\ stream' = "closed"
       ELSE pc' = "write" /\ UNCHANGED stream
    /\ UNCHANGED <<pos, files, disk, history>>

Unlink ==
    /\ pc = "unlink"
    /\ pc' = "rename"
    /\ backup' = <<>>
    /\ backupSize' = 0
    /\ UNCHANGED <<stream, pos, line, file, fileSize, disk, history>>

\* Fault: the log is removed and the backup kept.
RenameNothing ==
    /\ pc = "rename"
    /\ pc' = "open"
    /\ file' = <<>>
    /\ fileSize' = 0
    /\ UNCHANGED <<backup, backupSize, stream, pos, line, disk, history>>

\* Nobody looks at the result of rename.
Rename ==
    /\ pc = "rename"
    /\ pc' = "open"
    /\ \/ /\ backup' = file /\ backupSize' = fileSize
          /\ file' = <<>> /\ fileSize' = 0
          /\ UNCHANGED stuck
       \/ stuck' = TRUE /\ UNCHANGED files
    /\ UNCHANGED <<stream, pos, line, disk, count, refused>>

Reopen ==
    /\ pc = "open"
    /\ pc' = "write"
    /\ \E s \in {"good", "closed"} : Open(s) /\ stream' = s
    /\ pos' = 0
    /\ UNCHANGED <<line, files, disk, history>>

\* Fault: the newline is not counted.
WrittenUncounted ==
    /\ stream = "good" /\ disk = "room"
    /\ file' = Append(file, count + 1)
    /\ fileSize' = fileSize + line + 1
    /\ pos' = pos + line
    /\ UNCHANGED <<stream, refused>>

\* The line and its newline get into the file.
Written ==
    /\ stream = "good" /\ disk = "room"
    /\ file' = Append(file, count + 1)
    /\ fileSize' = fileSize + line + 1
    /\ pos' = SizeT(fileSize')
    /\ UNCHANGED <<stream, refused>>

\* The disk takes a part of the line or nothing: the stream stays failed and
\* tellp returns -1.
WriteFailed ==
    /\ stream = "good" /\ disk = "full"
    /\ stream' = "bad"
    /\ pos' = SizeMax
    /\ refused' = TRUE
    /\ \/ UNCHANGED <<file, fileSize>>
       \/ \E part \in 1..line :
             file' = Append(file, count + 1) /\ fileSize' = fileSize + part

\* A stream that failed before, or that could not be opened, takes nothing.
WriteIgnored ==
    /\ stream # "good"
    /\ pos' = IF stream = "bad" THEN SizeMax ELSE pos
    /\ refused' = TRUE
    /\ UNCHANGED <<stream, file, fileSize>>

Write ==
    /\ pc = "write"
    /\ pc' = "idle"
    /\ Written \/ WriteFailed \/ WriteIgnored
    /\ count' = count + 1
    /\ UNCHANGED <<line, backup, backupSize, disk, stuck>>

\* The daemon is killed; what it has written is in the file.
Kill ==
    /\ pc # "down"
    /\ pc' = "down"
    /\ stream' = "closed"
    /\ UNCHANGED <<pos, line, files, disk, history>>

\* Other programs fill the disk or make room.
DiskChanges ==
    /\ disk' \in {"room", "full"} \ {disk}
    /\ UNCHANGED <<pc, stream, pos, line, files, history>>

Next ==
    \/ Start
    \/ \E size \in 1..MaxLine : LogLine(size)
    \/ Unlink \/ Rename \/ Reopen \/ Write
    \/ Kill \/ DiskChanges

Spec == Init /\ [][Next]_vars

-----------------------------------------------------------------------------
(* Properties *)

\* Type correctness of the members of Log and of the two files.
TypeOK ==
    /\ pc \in {"down", "idle", "unlink", "rename", "open", "write"}
    /\ stream \in {"closed", "good", "bad"}
    /\ pos \in 0..SizeMax
    /\ line \in 0..MaxLine
    /\ file \in Seq(Nat) /\ fileSize \in Nat
    /\ backup \in Seq(Nat) /\ backupSize \in Nat
    /\ disk \in {"room", "full"}
    /\ count \in Nat
    /\ refused \in BOOLEAN
    /\ stuck \in BOOLEAN

\* A line is logged at any length, the URL of a client's body included
\* (AirPlay.cpp 284): one that exceeds the limit gets a file of its own.
HoldsOneLine(lines, bytes) == Len(lines) = 1 /\ bytes <= MaxLine + 1

\* Neither file outgrows the limit by more than the newline that the check
\* forgets, unless a single line does, and then the file holds nothing but this
\* line; over any number of restarts, kills in the middle of a roll-up and full
\* disks, as long as renaming works (Log.cpp 95-101).
SizeBounded ==
    ~stuck =>
        /\ fileSize <= MaxSize + 1 \/ HoldsOneLine(file, fileSize)
        /\ backupSize <= MaxSize + 1 \/ HoldsOneLine(backup, backupSize)

\* Between two lines m_pos is the size of the file it stands for, although it is
\* set in three places; without a working stream no line within the limit makes a
\* roll-up happen that would throw the backup away for a log that takes nothing
\* (Log.cpp 35, 61 and 101).  A longer line does.
PosIsSize ==
    pc = "idle" =>
        IF stream = "good" THEN pos = SizeT(fileSize)
        ELSE \A size \in 1..MaxLine : size <= MaxSize => ~MustRoll(size)

Kept == INSTANCE KeptLines WITH kept <- backup \o file

\* The log keeps the latest lines in order and without a gap, whenever the daemon
\* is killed, until the disk refuses a line (Log.cpp 46-62 and 95-101).
KeepsLatest == Kept!Spec

\* A line in the log outlives the roll-up and every kill: it is lost only from the
\* backup (Log.cpp 55-60).
CurrentFileKept ==
    [][\A i \in DOMAIN file :
          \/ \E j \in DOMAIN file' : file'[j] = file[i]
          \/ \E j \in DOMAIN backup' : backup'[j] = file[i]]_vars
=============================================================================
