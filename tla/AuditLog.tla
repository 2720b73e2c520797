------------------------------ MODULE AuditLog ------------------------------
(***************************************************************************)
(* The audit file and its writers: core/audit/logger.ts, the rotation      *)
(* primitives of utils/jsonl-rotation.ts, the reader core/audit/reader.ts  *)
(* and `dbcli audit clear' of commands/audit.ts.                           *)
(*                                                                         *)
(* Every process keeps its own idea of how full the file is: it counts the *)
(* file once, before its first write and outside the lock, and from then   *)
(* on counts only its own lines.  Appending is open(O_APPEND) and write,   *)
(* so a file renamed or removed in between still receives the line.  An    *)
(* append may stop half way (ENOSPC, a crash) and leave a line without its *)
(* newline.                                                                *)
(*                                                                         *)
(* The lockfile is abstracted to its holder: at most one, as AuditLock     *)
(* shows of prompt processes, except for `audit clear', which removes the  *)
(* lockfile.  A lock whose holder died is free again at once; a process    *)
(* may give up waiting for the lock at any time.                           *)
(***************************************************************************)
EXTENDS Naturals, Sequences, FiniteSets

CONSTANTS Procs,        \* processes that write audit entries
          NoOne,        \* no process
          MaxEntries,   \* rotation.maxEntries
          MaxBytes,     \* rotation.maxBytes
          Sizes,        \* the sizes an entry's line may have
          MaxWrites,    \* bound: entries written in a behaviour
          MaxFaults     \* bound: appends that stop half way, and renames that fail

\* AuditRotationConfigSchema (utils/validation.ts) wants max_entries positive.
ASSUME LogAssumption == /\ NoOne \notin Procs /\ IsFiniteSet(Procs)
                        /\ {MaxEntries, MaxBytes, MaxWrites, MaxFaults} \subseteq Nat
                        /\ MaxEntries > 0
                        /\ Sizes \subseteq Nat \ {0}

VARIABLES cur, prev,    \* <conn>.jsonl and <conn>.jsonl.1: the file's lines, or Missing
          holder,       \* who holds the lockfile
          pc,           \* where each process stands in AuditLogger.write
          count,        \* currentSizeBytes and currentEntryCount of its logger
          ready,        \* writerInitialized
          fd,           \* where the file is that appendFile has open
          size,         \* lineBytes of the entry being written
          next,         \* the number of the next entry
          reader,       \* readEntries with include_rotated: phase and rows so far
          clear,        \* phase of `audit clear'
          moved,        \* history: the file p counted has been rotated or cleared by others
          faults        \* history: appends that stopped half way, renames that failed

files == <<cur, prev>>
logger == <<pc, count, ready, fd, size>>
vars == <<files, holder, logger, next, reader, clear, moved, faults>>

----------------------------------------------------------------------------
(* Files and lines. *)

Missing == [exists |-> FALSE, lines |-> <<>>, bytes |-> 0]
File(lines, bytes) == [exists |-> TRUE, lines |-> lines, bytes |-> bytes]

\* A line: the entry it holds, whether it parses, and `open' when it has no newline.
Line(e) == [entry |-> e, whole |-> TRUE, open |-> FALSE]
Torn(e) == [entry |-> e, whole |-> FALSE, open |-> TRUE]

\* O_APPEND puts n new bytes after the last ones: after a line without a newline,
\* on that line.
Glued(f) == f.lines # <<>> /\ f.lines[Len(f.lines)].open
Put(f, line, n) ==
    File(IF Glued(f) THEN [f.lines EXCEPT ![Len(f.lines)] = [line EXCEPT !.whole = FALSE]]
                     ELSE Append(f.lines, line),
         f.bytes + n)

\* readSingle throws: a line that is not the last one does not parse.
Corrupt(f) == \E i \in DOMAIN f.lines : i < Len(f.lines) /\ ~f.lines[i].whole

----------------------------------------------------------------------------
(* The writer. *)

Init == /\ cur = Missing /\ prev = Missing
        /\ holder = NoOne
        /\ pc = [p \in Procs |-> "idle"]
        /\ count = [p \in Procs |-> [bytes |-> 0, entries |-> 0]]
        /\ ready = [p \in Procs |-> FALSE]
        /\ fd = [p \in Procs |-> "closed"]
        /\ size = [p \in Procs |-> 0]
        /\ next = 1
        /\ reader = [phase |-> "idle", rows |-> <<>>]
        /\ clear = "idle"
        /\ moved = [p \in Procs |-> FALSE]
        /\ faults = 0

Goto(p, from, to) == pc[p] = from /\ pc' = [pc EXCEPT ![p] = to]

\* Mutant: the line's newline is counted twice.
Begin_Newline(p) ==
    /\ next <= MaxWrites
    /\ \/ ready[p] /\ Goto(p, "idle", "lock")
       \/ ~ready[p] /\ Goto(p, "idle", "stat")
    /\ \E s \in Sizes : size' = [size EXCEPT ![p] = s + 1]
    /\ UNCHANGED <<files, holder, count, ready, fd, next, reader, clear, moved, faults>>

\* write: writeChain admits one writeInternal at a time.  The first write of a
\* process counts the file.
Begin(p) ==
    /\ next <= MaxWrites
    /\ \/ ready[p] /\ Goto(p, "idle", "lock")
       \/ ~ready[p] /\ Goto(p, "idle", "stat")
    /\ \E s \in Sizes : size' = [size EXCEPT ![p] = s]
    /\ UNCHANGED <<files, holder, count, ready, fd, next, reader, clear, moved, faults>>

\* Mutant: a new process does not count a file that is there.
SyncSize_Forgets(p) ==
    /\ Goto(p, "stat", "lock")
    /\ ready' = [ready EXCEPT ![p] = TRUE]
    /\ UNCHANGED <<files, holder, count, fd, size, next, reader, clear, moved, faults>>

\* syncCountersFromDisk, stat: a missing file leaves both counters at 0.
SyncSize(p) ==
    /\ \/ ~cur.exists /\ Goto(p, "stat", "lock") /\ ready' = [ready EXCEPT ![p] = TRUE]
       \/ cur.exists /\ Goto(p, "stat", "count") /\ UNCHANGED ready
    /\ count' = [count EXCEPT ![p] = [bytes |-> cur.bytes, entries |-> 0]]
    /\ moved' = [moved EXCEPT ![p] = FALSE]
    /\ UNCHANGED <<files, holder, fd, size, next, reader, clear, faults>>

\* syncCountersFromDisk, readFile: it throws when the file has gone meanwhile.
SyncEntries(p) ==
    /\ Goto(p, "count", "lock")
    /\ ready' = [ready EXCEPT ![p] = TRUE]
    /\ count' = [count EXCEPT ![p] = IF cur.exists THEN [@ EXCEPT !.entries = Len(cur.lines)]
                                     ELSE [bytes |-> 0, entries |-> 0]]
    /\ UNCHANGED <<files, holder, fd, size, next, reader, clear, moved, faults>>

\* withLock gives up: { skipped: 'lock-budget-exhausted' }.
Skip(p) ==
    /\ Goto(p, "lock", "idle")
    /\ size' = [size EXCEPT ![p] = 0]
    /\ UNCHANGED <<files, holder, count, ready, fd, next, reader, clear, moved, faults>>

\* The process has counted the file, or begun to.
Counted(p) == ready[p] \/ pc[p] = "count"

\* Mutant: the entry cap off by one.
shouldRotate_Early(bytes, entries, nextLine) ==
    bytes + nextLine >= MaxBytes \/ entries + 1 >= MaxEntries

\* utils/jsonl-rotation.ts, on a size, a number of entries and the next line.
shouldRotate(bytes, entries, nextLine) ==
    bytes + nextLine >= MaxBytes \/ entries + 1 > MaxEntries

\* withLock acquires and calls the operation, which decides with the process's
\* own counters.
Acquire(p) ==
    /\ holder = NoOne
    /\ holder' = p
    /\ \/ /\ shouldRotate(count[p].bytes, count[p].entries, size[p])
          /\ Goto(p, "lock", "rotate")
       \/ /\ ~shouldRotate(count[p].bytes, count[p].entries, size[p])
          /\ Goto(p, "lock", "open")
    /\ UNCHANGED <<files, count, ready, fd, size, next, reader, clear, moved, faults>>

\* The descriptors follow their file when it is renamed over .jsonl.1 and when
\* it is removed.
Renamed(where) == CASE where = "cur" -> "prev" [] where = "prev" -> "gone" [] OTHER -> where
Removed(where, path) == IF where = path THEN "gone" ELSE where

\* rotate, which swallows every error of rename, and the counters' reset, which
\* happens all the same.
Rotate(p) ==
    /\ Goto(p, "rotate", "open")
    /\ count' = [count EXCEPT ![p] = [bytes |-> 0, entries |-> 0]]
    /\ \/ /\ cur.exists
          /\ prev' = cur /\ cur' = Missing
          /\ fd' = [q \in Procs |-> Renamed(fd[q])]
          /\ moved' = [q \in Procs |-> q # p /\ Counted(q)]
          /\ UNCHANGED faults
       \/ /\ ~cur.exists
          /\ UNCHANGED <<files, fd, moved, faults>>
       \/ /\ cur.exists /\ faults < MaxFaults
          /\ faults' = faults + 1
          /\ UNCHANGED <<files, fd, moved>>
    /\ UNCHANGED <<holder, ready, size, next, reader, clear>>

\* appendFile opens the file, creating it if need be.
Open(p) ==
    /\ Goto(p, "open", "append")
    /\ cur' = File(cur.lines, cur.bytes)
    /\ fd' = [fd EXCEPT ![p] = "cur"]
    /\ UNCHANGED <<prev, holder, count, ready, size, next, reader, clear, moved, faults>>

\* The line goes to the open file, wherever that is by now.
WriteTo(p, line, n) ==
    /\ cur'  = IF fd[p] = "cur"  THEN Put(cur, line, n)  ELSE cur
    /\ prev' = IF fd[p] = "prev" THEN Put(prev, line, n) ELSE prev
    /\ fd' = [fd EXCEPT ![p] = "closed"]

\* appendFile writes the line; the counters move.
AppendLine(p) ==
    /\ Goto(p, "append", "unlock")
    /\ next <= MaxWrites
    /\ WriteTo(p, Line(next), size[p])
    /\ next' = next + 1
    /\ count' = [count EXCEPT ![p] = [bytes |-> @.bytes + size[p], entries |-> @.entries + 1]]
    /\ UNCHANGED <<holder, ready, size, reader, clear, moved, faults>>

\* appendFile writes part of the line and rejects: the counters stay.
AppendTorn(p) ==
    /\ Goto(p, "append", "unlock")
    /\ faults < MaxFaults /\ next <= MaxWrites
    /\ \E n \in 1 .. size[p] : WriteTo(p, Torn(next), n)
    /\ next' = next + 1
    /\ faults' = faults + 1
    /\ UNCHANGED <<holder, count, ready, size, reader, clear, moved>>

\* releaseLock: the lockfile is removed, whoever created it.
Unlock(p) ==
    /\ Goto(p, "unlock", "idle")
    /\ holder' = NoOne
    /\ size' = [size EXCEPT ![p] = 0]
    /\ UNCHANGED <<files, count, ready, fd, next, reader, clear, moved, faults>>

\* The process ends, of itself or not.  What it had counted is gone with it, and
\* the next process in its place counts the file again.
Exit(p) ==
    /\ pc[p] # "idle" \/ ready[p]
    /\ pc' = [pc EXCEPT ![p] = "idle"]
    /\ count' = [count EXCEPT ![p] = [bytes |-> 0, entries |-> 0]]
    /\ ready' = [ready EXCEPT ![p] = FALSE]
    /\ fd' = [fd EXCEPT ![p] = "closed"]
    /\ holder' = IF holder = p THEN NoOne ELSE holder
    /\ size' = [size EXCEPT ![p] = 0]
    /\ moved' = [moved EXCEPT ![p] = FALSE]
    /\ UNCHANGED <<files, next, reader, clear, faults>>

----------------------------------------------------------------------------
(* The reader and `audit clear'. *)

\* Mutant: the current file first.
ReadOrder_Reversed == <<cur, prev>>

\* readEntries reads .1 first.
ReadOrder == <<prev, cur>>

\* readSingle of one file, after the rows so far; a corrupt file throws.  A last line
\* that does not parse is not shown.
Read(f, phase) ==
    reader' = IF Corrupt(f) THEN [phase |-> "threw", rows |-> <<>>]
                            ELSE [phase |-> phase, rows |-> reader.rows \o f.lines]

ReadRotated ==
    /\ reader.phase = "idle"
    /\ Read(ReadOrder[1], "between")
    /\ UNCHANGED <<files, holder, logger, next, clear, moved, faults>>

ReadCurrent ==
    /\ reader.phase = "between"
    /\ Read(ReadOrder[2], "done")
    /\ UNCHANGED <<files, holder, logger, next, clear, moved, faults>>

\* The rows are shown.
ShowRows ==
    /\ reader.phase \in {"done", "threw"}
    /\ reader' = [phase |-> "idle", rows |-> <<>>]
    /\ UNCHANGED <<files, holder, logger, next, clear, moved, faults>>

\* statAuditFile: null for a file that is missing or that readEntries rejects.
Stat(f) == f.exists /\ ~Corrupt(f)

\* audit clear looks at both files, and says there is nothing to clear if it
\* can see neither.
ClearStat ==
    /\ clear = "idle"
    /\ clear' = IF Stat(cur) \/ Stat(prev) THEN "rm current" ELSE "nothing"
    /\ UNCHANGED <<files, holder, logger, next, reader, moved, faults>>

ClearCurrent ==
    /\ clear = "rm current" /\ clear' = "rm rotated"
    /\ cur' = Missing
    /\ fd' = [q \in Procs |-> Removed(fd[q], "cur")]
    /\ moved' = [q \in Procs |-> Counted(q)]
    /\ UNCHANGED <<prev, holder, pc, count, ready, size, next, reader, faults>>

ClearRotated ==
    /\ clear = "rm rotated" /\ clear' = "rm lock"
    /\ prev' = Missing
    /\ fd' = [q \in Procs |-> Removed(fd[q], "prev")]
    /\ UNCHANGED <<cur, holder, pc, count, ready, size, next, reader, moved, faults>>

\* The lockfile goes too, held or not.
ClearLock ==
    /\ clear = "rm lock" /\ clear' = "cleared"
    /\ holder' = NoOne
    /\ UNCHANGED <<files, logger, next, reader, moved, faults>>

----------------------------------------------------------------------------

Write(p) == \/ Begin(p) \/ SyncSize(p) \/ SyncEntries(p) \/ Acquire(p) \/ Skip(p)
            \/ Rotate(p) \/ Open(p) \/ AppendLine(p) \/ AppendTorn(p)
            \/ Unlock(p) \/ Exit(p)

Next == \/ \E p \in Procs : Write(p)
        \/ ReadRotated \/ ReadCurrent \/ ShowRows
        \/ ClearStat \/ ClearCurrent \/ ClearRotated \/ ClearLock

Spec == Init /\ [][Next]_vars
----------------------------------------------------------------------------
(***************************************************************************)
(* Properties                                                              *)
(***************************************************************************)

\* Every variable has its type.
Lines == [entry : 1 .. MaxWrites, whole : BOOLEAN, open : BOOLEAN]
Files == [exists : BOOLEAN, lines : Seq(Lines), bytes : Nat]
TypeOK ==
    /\ cur \in Files /\ prev \in Files
    /\ holder \in Procs \cup {NoOne}
    /\ pc \in [Procs -> {"idle", "stat", "count", "lock", "rotate", "open",
                         "append", "unlock"}]
    /\ count \in [Procs -> [bytes : Nat, entries : Nat]]
    /\ ready \in [Procs -> BOOLEAN]
    /\ fd \in [Procs -> {"closed", "cur", "prev", "gone"}]
    /\ size \in [Procs -> Sizes \cup {0}]
    /\ next \in 1 .. (MaxWrites + 1)
    /\ reader \in [phase : {"idle", "between", "done", "threw"}, rows : Seq(Lines)]
    /\ clear \in {"idle", "rm current", "rm rotated", "rm lock", "cleared", "nothing"}
    /\ moved \in [Procs -> BOOLEAN]
    /\ faults \in 0 .. MaxFaults

\* The file each process believes it appends to grows, with N processes that
\* count for themselves, to at most N times the entry cap, and by one cap more
\* for every append or rename that failed under its count.
SegmentBound ==
    Len(cur.lines) <= (Cardinality(Procs) + faults) * MaxEntries

\* A reader that asks for both files gets no entry twice, though both files may
\* be rotated between its two reads: it reads .1 first.
NoRowTwice ==
    \A i, j \in DOMAIN reader.rows :
      i # j /\ reader.rows[i].whole /\ reader.rows[j].whole
        => reader.rows[i].entry # reader.rows[j].entry

\* A rename of the current file over the previous one, which discards the
\* previous one's entries.
RotationStep(p) == pc[p] = "rotate" /\ pc'[p] = "open" /\ cur.exists /\ prev' = cur

\* The next line would meet or exceed a cap.
FullFor(p) == \/ cur.bytes + size[p] >= MaxBytes
              \/ Len(cur.lines) + 1 > MaxEntries

\* A file that is not full is rotated only by a process that has, since it
\* counted, had the file rotated or cleared under it by another, or when two
\* counted lines have become one because the first never got its newline.
PrematureOnlyIfMoved ==
    [][\A p \in Procs : RotationStep(p) =>
         \/ FullFor(p)
         \/ moved[p]
         \/ \E i \in DOMAIN cur.lines : ~cur.lines[i].whole]_vars
=============================================================================
