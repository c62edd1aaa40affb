---------------------------- MODULE RotatingFile -----------------------------
(* The log: slog records that MultiHandler (logging/multihandler.go) gives to *)
(* stdout and, whatever that says, to RotatingFile (logging/rotatingfile.go), *)
(* which appends to the file of the day, opens the next day's with the first  *)
(* line of it, and whose hourly sweep deletes the old ones. The log directory *)
(* may be unusable for a while (unmounted, read-only, full of inodes), and a  *)
(* write may fail (a full disk). Stdout itself is left out.                   *)
EXTENDS Naturals, FiniteSets

CONSTANTS
    Logger,         \* goroutines
    RetentionDays,  \* LOG_RETENTION_DAYS; 0 keeps every file
    DayLength,      \* ticks of the clock in a day
    LastTick,       \* bound on the clock
    MaxLines        \* bound on the records

ASSUME LogAssumption ==
    /\ {RetentionDays, LastTick, MaxLines} \subseteq Nat
    /\ DayLength \in Nat \ {0}

VARIABLES
    tick,       \* the clock
    usable,     \* the directory can be written to
    line,       \* [Logger -> the record it logs: None, or a number]
    records,    \* records so far
    disk,       \* [days that have a file -> its records]
    fileDate,   \* the day of the open file, or None
    kept        \* [records that Write returned no error for -> its day]

lfVars == <<tick, usable, line, records, disk, fileDate, kept>>

None     == MaxLines + LastTick + 1
DayOf(t) == t \div DayLength
Today    == DayOf(tick)
Day      == 0..DayOf(LastTick)
Record   == 1..MaxLines

LfTypeOK ==
    /\ tick \in 0..LastTick /\ usable \in BOOLEAN
    /\ line \in [Logger -> Record \cup {None}] /\ records \in 0..MaxLines
    /\ DOMAIN disk \subseteq Day /\ \A d \in DOMAIN disk : disk[d] \subseteq Record
    /\ fileDate \in Day \cup {None}
    /\ DOMAIN kept \subseteq Record /\ \A r \in DOMAIN kept : kept[r] \in Day

\* main() opens today's file before the first record (EnsureWritable), and goes
\* on without it if it cannot.
LfInit ==
    /\ tick = 0 /\ usable \in BOOLEAN
    /\ line = [l \in Logger |-> None] /\ records = 0
    /\ disk = [d \in IF usable THEN {Today} ELSE {} |-> {}]
    /\ fileDate = IF usable THEN Today ELSE None
    /\ kept = [r \in {} |-> 0]

-----------------------------------------------------------------------------
(* MultiHandler.Handle: the record has been given to stdout; the file is next. *)

Log(l) ==
    /\ line[l] = None /\ records < MaxLines
    /\ records' = records + 1
    /\ line' = [line EXCEPT ![l] = records + 1]
    /\ UNCHANGED <<tick, usable, disk, fileDate, kept>>

Appended(d, R) ==
    [x \in DOMAIN disk \cup {d} |->
        (IF x \in DOMAIN disk THEN disk[x] ELSE {}) \cup (IF x = d THEN R ELSE {})]

\* Wrong: only a file that was never opened is opened.
MustOpen == fileDate = None

\* rotateLocked is due.
MustRotate == fileDate # Today

\* Write, under its lock: the records R go into the open file if that is
\* today's, or into today's, which it opens and only then makes the open one. A
\* file that a sweep has deleted stays open, and swallows what is written to it.
Append(R) ==
    LET d == IF MustRotate THEN Today ELSE fileDate
    IN  /\ MustRotate => usable
        /\ fileDate' = d
        /\ disk' = IF MustRotate \/ d \in DOMAIN disk THEN Appended(d, R) ELSE disk

WriteOk(l) ==
    /\ line[l] # None
    /\ Append({line[l]})
    /\ kept' = [r \in DOMAIN kept \cup {line[l]} |-> IF r = line[l] THEN Today ELSE kept[r]]
    /\ line' = [line EXCEPT ![l] = None]
    /\ UNCHANGED <<tick, usable, records>>

\* The write to the file fails, all of it or from some byte on, and its error is
\* returned like the one below; the file that was opened for it stays open.
WriteCutShort(l) ==
    /\ line[l] # None
    /\ Append({})
    /\ line' = [line EXCEPT ![l] = None]
    /\ UNCHANGED <<tick, usable, records, kept>>

\* Today's file cannot be opened: Write returns the error, which Handle returns
\* to a caller that ignores it. The open file and its date stay what they were.
WriteFails(l) ==
    /\ line[l] # None
    /\ MustRotate /\ ~usable
    /\ line' = [line EXCEPT ![l] = None]
    /\ UNCHANGED <<tick, usable, records, disk, fileDate, kept>>

\* pruneOld: the files whose day began more than RetentionDays ago.
Old(d) == d * DayLength + RetentionDays * DayLength < tick

Prune ==
    /\ RetentionDays > 0 /\ usable
    /\ \E d \in DOMAIN disk : Old(d)
    /\ disk' = [d \in { x \in DOMAIN disk : ~Old(x) } |-> disk[d]]
    /\ UNCHANGED <<tick, usable, line, records, fileDate, kept>>

-----------------------------------------------------------------------------
(* The world. *)

Tick ==
    /\ tick < LastTick
    /\ tick' = tick + 1
    /\ UNCHANGED <<usable, line, records, disk, fileDate, kept>>

DirChanges ==
    /\ usable' = ~usable
    /\ UNCHANGED <<tick, line, records, disk, fileDate, kept>>

LfNext ==
    \/ \E l \in Logger : Log(l) \/ WriteOk(l) \/ WriteCutShort(l) \/ WriteFails(l)
    \/ Prune \/ Tick \/ DirChanges

LfSpec == LfInit /\ [][LfNext]_lfVars

-----------------------------------------------------------------------------
(* Properties. *)

\* A record that Write returned no error for is in the file of its day, in no
\* other, and stays there for RetentionDays days, that day included ("how many
\* days of log files to keep", README.md:126): across a rotation that failed and
\* was tried again, writes that failed, and sweeps at any time.
LinesAreKept ==
    \A r \in DOMAIN kept :
        /\ RetentionDays = 0 \/ Today < kept[r] + RetentionDays =>
              kept[r] \in DOMAIN disk /\ r \in disk[kept[r]]
        /\ \A d \in DOMAIN disk : r \in disk[d] => d = kept[r]
=============================================================================
