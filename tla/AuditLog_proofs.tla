-------------------------- MODULE AuditLog_proofs --------------------------
(***************************************************************************)
(* Theorems about the audit file, for any number of processes, any caps    *)
(* and sizes of entries, and any number of writes and faults.              *)
(***************************************************************************)
EXTENDS AuditLog, SequenceTheorems, FiniteSetTheorems, TLAPS

(***************************************************************************)
(* What an append does to a file.                                          *)
(***************************************************************************)

LEMMA MissingType == Missing \in Files
  BY EmptySeq DEF Missing, Files

LEMMA FileType == \A lines \in Seq(Lines), n \in Nat : File(lines, n) \in Files
  BY DEF File, Files

LEMMA PutLines ==
    ASSUME NEW f \in Files, NEW line \in Lines, NEW n \in Nat
    PROVE  /\ Put(f, line, n) \in Files
           /\ Put(f, line, n).bytes = f.bytes + n
           /\ DOMAIN f.lines \subseteq DOMAIN Put(f, line, n).lines
           /\ Len(f.lines) \in Nat /\ Len(Put(f, line, n).lines) \in Nat
           /\ \A i \in DOMAIN Put(f, line, n).lines :
                \/ i \in DOMAIN f.lines /\ Put(f, line, n).lines[i] = f.lines[i]
                \/ /\ i = Len(Put(f, line, n).lines)
                   /\ Put(f, line, n).lines[i].entry = line.entry
                   /\ i \in DOMAIN f.lines => ~Put(f, line, n).lines[i].whole
           /\ \/ Len(Put(f, line, n).lines) = Len(f.lines) + 1
              \/ /\ Len(Put(f, line, n).lines) = Len(f.lines)
                 /\ \E i \in DOMAIN Put(f, line, n).lines : ~Put(f, line, n).lines[i].whole
<1> DEFINE glued == [line EXCEPT !.whole = FALSE]
           old == f.lines
           new == IF Glued(f) THEN [old EXCEPT ![Len(old)] = glued] ELSE Append(old, line)
<1>1. old \in Seq(Lines) /\ f.bytes \in Nat
    BY DEF Files
<1>2. Len(old) \in Nat /\ DOMAIN old = 1 .. Len(old)
    BY <1>1, LenProperties
<1>3. glued \in Lines /\ glued.entry = line.entry /\ glued.whole = FALSE
    BY DEF Lines
<1>4. Put(f, line, n) = [exists |-> TRUE, lines |-> new, bytes |-> f.bytes + n]
    BY DEF Put, File
<1>5. CASE Glued(f)
  <2>1. new = [old EXCEPT ![Len(old)] = glued] /\ old # <<>>
      BY <1>5 DEF Glued
  <2>2. Len(old) \in 1 .. Len(old)
      BY <1>1, <1>2, <2>1, EmptySeq
  <2>3. new \in Seq(Lines) /\ Len(new) = Len(old) /\ DOMAIN new = DOMAIN old
      BY <1>1, <1>2, <1>3, <2>1, <2>2, ExceptSeq
  <2>4. \A i \in DOMAIN new : i # Len(old) => new[i] = old[i]
      BY <2>1, <2>3
  <2>5. new[Len(old)] = glued
      BY <1>2, <2>1, <2>2
  <2> HIDE DEF new, old, glued
  <2>6. Put(f, line, n) \in Files /\ Put(f, line, n).lines = new
        /\ Put(f, line, n).bytes = f.bytes + n /\ f.lines = old
      BY <1>1, <1>4, <2>3 DEF Files, old
  <2> QED
      BY <1>2, <1>3, <2>2, <2>3, <2>4, <2>5, <2>6
<1>6. CASE ~Glued(f)
  <2>1. new = Append(old, line)
      BY <1>6
  <2>2. new \in Seq(Lines) /\ Len(new) = Len(old) + 1 /\ DOMAIN new = 1 .. Len(old) + 1
      BY <1>1, <1>2, <2>1, AppendProperties, LenProperties
  <2>3. \A i \in 1 .. Len(old) : new[i] = old[i]
      BY <1>1, <2>1, AppendProperties
  <2>4. new[Len(old) + 1] = line
      BY <1>1, <2>1, AppendProperties
  <2> HIDE DEF new, old, glued
  <2>5. Put(f, line, n) \in Files /\ Put(f, line, n).lines = new
        /\ Put(f, line, n).bytes = f.bytes + n /\ f.lines = old
      BY <1>1, <1>4, <2>2 DEF Files, old
  <2>6. DOMAIN new = 1 .. Len(old) + 1 /\ Len(new) = Len(old) + 1 /\ Len(new) \in Nat
      BY <1>2, <2>2
  <2>7. \A i \in DOMAIN new : i \in DOMAIN old \/ i = Len(new)
      BY <1>2, <2>6
  <2>8. DOMAIN old \subseteq DOMAIN new /\ Len(new) \notin DOMAIN old
      BY <1>2, <2>6
  <2>9. new[Len(new)] = line
      BY <2>4, <2>6
  <2>10. \A i \in DOMAIN new : \/ i \in DOMAIN old /\ new[i] = old[i]
                               \/ i = Len(new) /\ new[i].entry = line.entry /\ i \notin DOMAIN old
      BY <1>2, <2>3, <2>7, <2>8, <2>9
  <2> QED
      BY <1>2, <2>5, <2>6, <2>8, <2>10
<1> QED
    BY <1>5, <1>6

(***************************************************************************)
(* Type correctness.                                                       *)
(***************************************************************************)

Counts == [bytes : Nat, entries : Nat]
Places == {"idle", "stat", "count", "lock", "rotate", "open", "append", "unlock"}
Descriptors == {"closed", "cur", "prev", "gone"}

LEMMA Bounds == /\ MaxEntries \in Nat /\ MaxBytes \in Nat
                /\ MaxWrites \in Nat /\ MaxFaults \in Nat
  BY LogAssumption

LEMMA SizeType == ASSUME TypeOK, NEW p \in Procs PROVE size[p] \in Nat
<1>1. \A s \in Sizes \cup {0} : s \in Nat
    BY LogAssumption
<1>2. size[p] \in Sizes \cup {0}
  <2>1. size \in [Procs -> Sizes \cup {0}]
      BY DEF TypeOK
  <2> QED
      BY <2>1
<1> QED
    BY <1>1, <1>2

\* One more entry is written, or fails.
LEMMA NextType ==
    ASSUME TypeOK, next <= MaxWrites
    PROVE  next \in 1 .. MaxWrites /\ next + 1 \in 1 .. (MaxWrites + 1)
<1>1. next \in 1 .. (MaxWrites + 1)
    BY DEF TypeOK
<1> QED
    BY <1>1, Bounds

LEMMA FaultsType == ASSUME TypeOK, faults < MaxFaults PROVE faults + 1 \in 0 .. MaxFaults
<1>1. faults \in 0 .. MaxFaults
    BY DEF TypeOK
<1> QED
    BY <1>1, Bounds

LEMMA TypeInit == Init => TypeOK
<1> SUFFICES ASSUME Init PROVE TypeOK
    OBVIOUS
<1>1. <<>> \in Seq(Lines)
    BY EmptySeq
<1>2. reader \in [phase : {"idle", "between", "done", "threw"}, rows : Seq(Lines)]
    BY <1>1 DEF Init
<1>3. 1 \in 1 .. (MaxWrites + 1) /\ 0 \in 0 .. MaxFaults
    BY LogAssumption
<1> QED
    BY <1>2, <1>3, MissingType DEF Init, TypeOK

LEMMA WriteToType ==
    ASSUME TypeOK, NEW p \in Procs, NEW line \in Lines, NEW n \in Nat, WriteTo(p, line, n)
    PROVE  cur' \in Files /\ prev' \in Files
           /\ fd' \in [Procs -> Descriptors]
  BY PutLines DEF TypeOK, WriteTo, Descriptors

\* What the writer of process p does keeps the types.
LEMMA TypeWrite == ASSUME TypeOK, NEW p \in Procs, Write(p) PROVE TypeOK'
<1> USE DEF Goto
<1>1. CASE Begin(p)
  <2>1. size' \in [Procs -> Sizes \cup {0}]
      BY <1>1 DEF TypeOK, Begin
  <2>2. pc' \in [Procs -> Places]
      BY <1>1 DEF TypeOK, Begin, Places
  <2> QED
      BY <1>1, <2>1, <2>2 DEF TypeOK, Begin, files, Places
<1>2. CASE SyncSize(p)
    BY <1>2 DEF TypeOK, SyncSize, files, Files
<1>3. CASE SyncEntries(p)
  <2>1. Len(cur.lines) \in Nat
      BY LenProperties DEF TypeOK, Files
  <2>2. count' \in [Procs -> Counts]
      BY <1>3, <2>1, ZenonT(40) DEF TypeOK, SyncEntries, Counts
  <2> QED
      BY <1>3, <2>2 DEF TypeOK, SyncEntries, files, Counts
<1>4. CASE Acquire(p)
    BY <1>4 DEF TypeOK, Acquire, files
<1>5. CASE Skip(p)
    BY <1>5 DEF TypeOK, Skip, files
<1>6. CASE Rotate(p)
  <2>1. count' \in [Procs -> Counts] /\ pc' \in [Procs -> Places]
      BY <1>6 DEF TypeOK, Rotate, Counts, Places
  <2>2. cur' \in Files /\ prev' \in Files
      BY <1>6, MissingType DEF TypeOK, Rotate, files
  <2>3. fd' \in [Procs -> Descriptors]
    <3>1. \A q \in Procs : fd[q] \in Descriptors /\ Renamed(fd[q]) \in Descriptors
        BY DEF TypeOK, Renamed, Descriptors
    <3>2. fd' = [q \in Procs |-> Renamed(fd[q])] \/ fd' = fd
        BY <1>6 DEF Rotate
    <3> QED
        BY <3>1, <3>2 DEF TypeOK, Descriptors
  <2>4. moved' \in [Procs -> BOOLEAN]
      BY <1>6 DEF TypeOK, Rotate, Counted
  <2>5. faults' \in 0 .. MaxFaults
      BY <1>6, FaultsType DEF TypeOK, Rotate
  <2> QED
      BY <1>6, <2>1, <2>2, <2>3, <2>4, <2>5 DEF TypeOK, Rotate, Counts, Places, Descriptors
<1>7. CASE Open(p)
  <2>1. cur.lines \in Seq(Lines) /\ cur.bytes \in Nat
      BY DEF TypeOK, Files
  <2>2. cur' \in Files
      BY <1>7, <2>1, FileType DEF Open
  <2> QED
      BY <1>7, <2>2 DEF TypeOK, Open
<1>8. CASE AppendLine(p)
  <2>1. next \in 1 .. MaxWrites /\ next' \in 1 .. (MaxWrites + 1)
      BY <1>8, NextType DEF AppendLine
  <2>2. Line(next) \in Lines /\ size[p] \in Nat
      BY <2>1, SizeType DEF Line, Lines
  <2>3. WriteTo(p, Line(next), size[p])
      BY <1>8 DEF AppendLine
  <2>4. cur' \in Files /\ prev' \in Files /\ fd' \in [Procs -> Descriptors]
      BY <2>2, <2>3, WriteToType
  <2>5. count' \in [Procs -> Counts]
    <3>1. count[p] \in Counts /\ count \in [Procs -> Counts]
        BY DEF TypeOK, Counts
    <3>2. [bytes |-> count[p].bytes + size[p], entries |-> count[p].entries + 1] \in Counts
        BY <2>2, <3>1 DEF Counts
    <3>3. count' = [count EXCEPT ![p] = [bytes |-> count[p].bytes + size[p],
                                         entries |-> count[p].entries + 1]]
        BY <1>8 DEF AppendLine
    <3> QED
        BY <3>1, <3>2, <3>3
  <2> QED
      BY <1>8, <2>1, <2>4, <2>5 DEF TypeOK, AppendLine, Counts, Descriptors
<1>9. CASE AppendTorn(p)
  <2>1. next \in 1 .. MaxWrites /\ next' \in 1 .. (MaxWrites + 1) /\ faults' \in 0 .. MaxFaults
      BY <1>9, NextType, FaultsType DEF AppendTorn
  <2>2. PICK n \in 1 .. size[p] : WriteTo(p, Torn(next), n)
      BY <1>9 DEF AppendTorn
  <2>3. Torn(next) \in Lines /\ n \in Nat
      BY <2>1, <2>2, SizeType DEF Torn, Lines
  <2>4. cur' \in Files /\ prev' \in Files /\ fd' \in [Procs -> Descriptors]
      BY <2>2, <2>3, WriteToType
  <2> QED
      BY <1>9, <2>1, <2>4 DEF TypeOK, AppendTorn, Descriptors
<1>10. CASE Unlock(p)
    BY <1>10 DEF TypeOK, Unlock, files
<1>11. CASE Exit(p)
    BY <1>11 DEF TypeOK, Exit, files
<1> QED
    BY <1>1, <1>2, <1>3, <1>4, <1>5, <1>6, <1>7, <1>8, <1>9, <1>10, <1>11 DEF Write

\* The reader appends the lines of a file to what it has read.
LEMMA ReadType ==
    ASSUME TypeOK, NEW f \in Files, NEW phase \in {"between", "done"}, Read(f, phase)
    PROVE  reader' \in [phase : {"idle", "between", "done", "threw"}, rows : Seq(Lines)]
<1>1. reader.rows \in Seq(Lines) /\ f.lines \in Seq(Lines)
    BY DEF TypeOK, Files
<1>2. reader.rows \o f.lines \in Seq(Lines) /\ <<>> \in Seq(Lines)
    BY <1>1, ConcatProperties, EmptySeq
<1> QED
    BY <1>2 DEF Read

LEMMA ReadOrderFiles == ReadOrder[1] = prev /\ ReadOrder[2] = cur
  BY DEF ReadOrder

\* What the readers and audit clear do.
Others == \/ ReadRotated \/ ReadCurrent \/ ShowRows
          \/ ClearStat \/ ClearCurrent \/ ClearRotated \/ ClearLock

LEMMA TypeOthers == ASSUME TypeOK, Others PROVE TypeOK'
<1>1. CASE ReadRotated
    BY <1>1, ReadType, ReadOrderFiles DEF TypeOK, ReadRotated, files, logger
<1>2. CASE ReadCurrent
    BY <1>2, ReadType, ReadOrderFiles DEF TypeOK, ReadCurrent, files, logger
<1>3. CASE ShowRows
    BY <1>3, EmptySeq DEF TypeOK, ShowRows, files, logger
<1>4. CASE ClearStat
    BY <1>4 DEF TypeOK, ClearStat, files, logger
<1>5. CASE ClearCurrent
    BY <1>5, MissingType DEF TypeOK, ClearCurrent, Removed, Counted
<1>6. CASE ClearRotated
    BY <1>6, MissingType DEF TypeOK, ClearRotated, Removed
<1>7. CASE ClearLock
    BY <1>7 DEF TypeOK, ClearLock, files, logger
<1> QED
    BY <1>1, <1>2, <1>3, <1>4, <1>5, <1>6, <1>7 DEF Others

LEMMA Steps == Next => (\E p \in Procs : Write(p)) \/ Others
  BY DEF Next, Others

\* Type correctness of the audit file, its writers, its reader and audit clear.
THEOREM TypeCorrect == Spec => []TypeOK
<1>1. TypeOK /\ [Next]_vars => TypeOK'
  <2> SUFFICES ASSUME TypeOK, [Next]_vars PROVE TypeOK'
      OBVIOUS
  <2>1. CASE UNCHANGED vars
      BY <2>1 DEF vars, files, logger, TypeOK
  <2> QED
      BY <2>1, Steps, TypeWrite, TypeOthers
<1> QED
    BY TypeInit, <1>1, PTL DEF Spec

(***************************************************************************)
(* No row twice.  Entries are numbered in the order they are written.  A   *)
(* new one differs from all there are, in either file and among the rows;  *)
(* entries move from the current file to the previous one and never back,  *)
(* so what was read from the previous file is not met again in the current *)
(* one.                                                                    *)
(***************************************************************************)

Earlier(lines, n) == \A i \in DOMAIN lines : lines[i].entry < n
Distinct(lines) ==
    \A i, j \in DOMAIN lines :
      i # j /\ lines[i].whole /\ lines[j].whole => lines[i].entry # lines[j].entry
Apart(these, those) ==
    \A i \in DOMAIN these, j \in DOMAIN those :
      these[i].whole /\ those[j].whole => these[i].entry # those[j].entry

RowsInv ==
    /\ Earlier(cur.lines, next) /\ Earlier(prev.lines, next) /\ Earlier(reader.rows, next)
    /\ Distinct(cur.lines) /\ Distinct(prev.lines) /\ Distinct(reader.rows)
    /\ Apart(prev.lines, cur.lines)
    /\ reader.phase = "between" => Apart(reader.rows, cur.lines)
    /\ reader.phase \in {"idle", "threw"} => reader.rows = <<>>

LEMMA EmptyRows ==
    ASSUME NEW n PROVE Earlier(<<>>, n) /\ Distinct(<<>>)
                       /\ \A lines : Apart(<<>>, lines) /\ Apart(lines, <<>>)
<1>1. DOMAIN <<>> = {}
    BY EmptySeq, LenProperties
<1> QED
    BY <1>1 DEF Earlier, Distinct, Apart

\* A line with the next number is put into a file.
LEMMA PutRows ==
    ASSUME NEW f \in Files, NEW k \in Nat, NEW line \in Lines, line.entry = k,
           NEW n \in Nat, Earlier(f.lines, k), Distinct(f.lines)
    PROVE  /\ Earlier(Put(f, line, n).lines, k + 1)
           /\ Distinct(Put(f, line, n).lines)
           /\ \A rows \in Seq(Lines) : Earlier(rows, k) =>
                /\ Apart(rows, f.lines) => Apart(rows, Put(f, line, n).lines)
                /\ Apart(f.lines, rows) => Apart(Put(f, line, n).lines, rows)
<1> DEFINE new == Put(f, line, n).lines
<1>1. \A i \in DOMAIN new :
        \/ i \in DOMAIN f.lines /\ new[i] = f.lines[i]
        \/ i = Len(new) /\ new[i].entry = k /\ (i \in DOMAIN f.lines => ~new[i].whole)
    BY PutLines
<1> HIDE DEF new
<1>2. \A i \in DOMAIN f.lines : f.lines[i].entry \in Nat /\ f.lines[i].entry < k
  <2>1. f.lines \in Seq(Lines)
      BY DEF Files
  <2>2. \A i \in DOMAIN f.lines : f.lines[i] \in Lines
      BY <2>1, ElementOfSeq, LenProperties
  <2> QED
      BY <2>2, Bounds DEF Earlier, Lines
<1>3. Earlier(new, k + 1)
    BY <1>1, <1>2 DEF Earlier
<1>4. Distinct(new)
  <2> SUFFICES ASSUME NEW i \in DOMAIN new, NEW j \in DOMAIN new,
                      i # j, new[i].whole, new[j].whole
               PROVE  new[i].entry # new[j].entry
      BY DEF Distinct
  <2> QED
      BY <1>1, <1>2 DEF Distinct
<1>5. ASSUME NEW rows \in Seq(Lines), Earlier(rows, k)
      PROVE  /\ Apart(rows, f.lines) => Apart(rows, new)
             /\ Apart(f.lines, rows) => Apart(new, rows)
  <2>1. \A i \in DOMAIN rows : rows[i] \in Lines
      BY ElementOfSeq, LenProperties
  <2>2. \A i \in DOMAIN rows : rows[i].entry \in Nat /\ rows[i].entry < k
      BY <1>5, <2>1, Bounds DEF Earlier, Lines
  <2> QED
      BY <1>1, <2>2 DEF Apart
<1> QED
    BY <1>3, <1>4, <1>5 DEF new

\* The lines of a file come after the rows.
LEMMA ConcatRows ==
    ASSUME NEW rows \in Seq(Lines), NEW lines \in Seq(Lines), NEW k \in Nat,
           Earlier(rows, k), Earlier(lines, k), Distinct(rows), Distinct(lines),
           Apart(rows, lines)
    PROVE  /\ Earlier(rows \o lines, k) /\ Distinct(rows \o lines)
           /\ \A others : Apart(rows, others) /\ Apart(lines, others)
                           => Apart(rows \o lines, others)
<1> DEFINE all == rows \o lines
<1>1. /\ Len(rows) \in Nat /\ Len(lines) \in Nat
      /\ DOMAIN rows = 1 .. Len(rows) /\ DOMAIN lines = 1 .. Len(lines)
    BY LenProperties
<1>2. /\ all \in Seq(Lines) /\ Len(all) = Len(rows) + Len(lines)
      /\ \A i \in 1 .. Len(rows) + Len(lines) :
           all[i] = IF i <= Len(rows) THEN rows[i] ELSE lines[i - Len(rows)]
    BY ConcatProperties
<1>3. DOMAIN all = 1 .. Len(rows) + Len(lines)
    BY <1>2, LenProperties
<1> HIDE DEF all
<1>4. \A i \in DOMAIN all :
        \/ i \in DOMAIN rows /\ all[i] = rows[i]
        \/ i - Len(rows) \in DOMAIN lines /\ all[i] = lines[i - Len(rows)] /\ i \in Nat
    BY <1>1, <1>2, <1>3
<1>5. Earlier(all, k)
    BY <1>4 DEF Earlier
<1>6. Distinct(all)
  <2> SUFFICES ASSUME NEW i \in DOMAIN all, NEW j \in DOMAIN all,
                      i # j, all[i].whole, all[j].whole
               PROVE  all[i].entry # all[j].entry
      BY DEF Distinct
  <2>1. i - Len(rows) \in DOMAIN lines /\ j - Len(rows) \in DOMAIN lines
        => i - Len(rows) # j - Len(rows)
      BY <1>1, <1>3
  <2> QED
      BY <1>4, <2>1 DEF Distinct, Apart
<1>7. \A others : Apart(rows, others) /\ Apart(lines, others) => Apart(all, others)
    BY <1>4 DEF Apart
<1> QED
    BY <1>5, <1>6, <1>7 DEF all

LEMMA RowsInit == Init => RowsInv
  BY EmptyRows DEF Init, RowsInv, Missing

LEMMA RowsSame ==
    ASSUME RowsInv, cur'.lines = cur.lines, prev'.lines = prev.lines,
           next' = next, reader' = reader
    PROVE  RowsInv'
  BY DEF RowsInv

\* An append to whichever file the process has open.
LEMMA RowsAppend ==
    ASSUME TypeOK, RowsInv, NEW p \in Procs, NEW line \in Lines, NEW n \in Nat,
           line.entry = next, WriteTo(p, line, n), next' = next + 1, reader' = reader
    PROVE  RowsInv'
<1>1. /\ cur \in Files /\ prev \in Files /\ next \in Nat
      /\ cur.lines \in Seq(Lines) /\ prev.lines \in Seq(Lines) /\ reader.rows \in Seq(Lines)
  <2>1. cur \in Files /\ prev \in Files /\ next \in 1 .. (MaxWrites + 1)
      BY DEF TypeOK
  <2>2. reader.rows \in Seq(Lines)
      BY DEF TypeOK
  <2> QED
      BY <2>1, <2>2, Bounds DEF Files
<1>2. \A lines \in Seq(Lines) : Earlier(lines, next) => Earlier(lines, next + 1)
  <2> SUFFICES ASSUME NEW lines \in Seq(Lines), Earlier(lines, next), NEW i \in DOMAIN lines
               PROVE  lines[i].entry < next + 1
      BY DEF Earlier
  <2>1. lines[i] \in Lines
      BY ElementOfSeq, LenProperties
  <2>2. lines[i].entry \in Nat
      BY <2>1, Bounds DEF Lines
  <2> QED
      BY <1>1, <2>2 DEF Earlier
<1>3. RowsInv
    OBVIOUS
<1>4. CASE fd[p] = "cur"
  <2>1. cur' = Put(cur, line, n) /\ prev' = prev
      BY <1>4 DEF WriteTo
  <2>2. /\ Earlier(cur'.lines, next + 1) /\ Distinct(cur'.lines)
        /\ Apart(prev.lines, cur'.lines)
        /\ Apart(reader.rows, cur.lines) => Apart(reader.rows, cur'.lines)
      BY <1>1, <1>3, <2>1, PutRows DEF RowsInv
  <2> QED
      BY <1>1, <1>2, <1>3, <2>1, <2>2 DEF RowsInv
<1>5. CASE fd[p] = "prev"
  <2>1. prev' = Put(prev, line, n) /\ cur' = cur
      BY <1>5 DEF WriteTo
  <2>2. /\ Earlier(prev'.lines, next + 1) /\ Distinct(prev'.lines)
        /\ Apart(prev'.lines, cur.lines)
      BY <1>1, <1>3, <2>1, PutRows DEF RowsInv
  <2> QED
      BY <1>1, <1>2, <1>3, <2>1, <2>2 DEF RowsInv
<1>6. CASE fd[p] \notin {"cur", "prev"}
  <2>1. cur' = cur /\ prev' = prev
      BY <1>6 DEF WriteTo
  <2> QED
      BY <1>1, <1>2, <1>3, <2>1 DEF RowsInv
<1> QED
    BY <1>4, <1>5, <1>6

LEMMA RowsWrite == ASSUME TypeOK, RowsInv, NEW p \in Procs, Write(p) PROVE RowsInv'
<1>1. CASE Begin(p) \/ SyncSize(p) \/ SyncEntries(p) \/ Acquire(p) \/ Skip(p)
           \/ Unlock(p) \/ Exit(p)
  <2>1. UNCHANGED <<cur, prev, next, reader>>
      BY <1>1 DEF Begin, SyncSize, SyncEntries, Acquire, Skip, Unlock, Exit, files
  <2> QED
      BY <2>1, RowsSame
<1>2. CASE Rotate(p)
  <2>1. next' = next /\ reader' = reader
      BY <1>2 DEF Rotate
  <2>2. CASE prev' = cur /\ cur' = Missing
    <3>1. cur'.lines = <<>> /\ prev'.lines = cur.lines
        BY <2>2 DEF Missing
    <3> QED
        BY <2>1, <3>1, EmptyRows DEF RowsInv
  <2>3. CASE UNCHANGED files
      BY <2>1, <2>3, RowsSame DEF files
  <2> QED
      BY <1>2, <2>2, <2>3 DEF Rotate, files
<1>3. CASE Open(p)
  <2>1. cur'.lines = cur.lines /\ UNCHANGED <<prev, next, reader>>
      BY <1>3 DEF Open, File
  <2> QED
      BY <2>1, RowsSame
<1>4. CASE AppendLine(p)
  <2>1. next \in 1 .. MaxWrites
      BY <1>4, NextType DEF AppendLine
  <2>2. Line(next) \in Lines /\ Line(next).entry = next
      BY <2>1 DEF Line, Lines
  <2>3. WriteTo(p, Line(next), size[p]) /\ next' = next + 1 /\ reader' = reader
      BY <1>4 DEF AppendLine
  <2> QED
      BY <2>2, <2>3, SizeType, RowsAppend
<1>5. CASE AppendTorn(p)
  <2>1. next \in 1 .. MaxWrites
      BY <1>5, NextType DEF AppendTorn
  <2>2. Torn(next) \in Lines /\ Torn(next).entry = next
      BY <2>1 DEF Torn, Lines
  <2>3. PICK n \in 1 .. size[p] : WriteTo(p, Torn(next), n)
      BY <1>5 DEF AppendTorn
  <2>4. next' = next + 1 /\ reader' = reader /\ n \in Nat
      BY <1>5, <2>3, SizeType DEF AppendTorn
  <2> QED
      BY <2>2, <2>3, <2>4, RowsAppend
<1> QED
    BY <1>1, <1>2, <1>3, <1>4, <1>5 DEF Write

LEMMA RowsOthers == ASSUME TypeOK, RowsInv, Others PROVE RowsInv'
<1>1. /\ cur.lines \in Seq(Lines) /\ prev.lines \in Seq(Lines) /\ reader.rows \in Seq(Lines)
      /\ next \in Nat
  <2>1. cur \in Files /\ prev \in Files /\ next \in 1 .. (MaxWrites + 1)
      BY DEF TypeOK
  <2>2. reader.rows \in Seq(Lines)
      BY DEF TypeOK
  <2> QED
      BY <2>1, <2>2, Bounds DEF Files
<1>2. CASE ReadRotated
  <2>1. UNCHANGED <<cur, prev, next>> /\ reader.rows = <<>> /\ Read(prev, "between")
      BY <1>2, ReadOrderFiles DEF ReadRotated, files, RowsInv
  <2>2. reader.rows \o prev.lines = prev.lines
      BY <1>1, <2>1, ConcatEmptySeq
  <2>3. \/ reader' = [phase |-> "threw", rows |-> <<>>]
        \/ reader' = [phase |-> "between", rows |-> prev.lines]
      BY <2>1, <2>2 DEF Read
  <2> QED
      BY <2>1, <2>3, EmptyRows DEF RowsInv
<1>3. CASE ReadCurrent
  <2>1. UNCHANGED <<cur, prev, next>> /\ reader.phase = "between" /\ Read(cur, "done")
      BY <1>3, ReadOrderFiles DEF ReadCurrent, files
  <2>2. Earlier(reader.rows \o cur.lines, next) /\ Distinct(reader.rows \o cur.lines)
      BY <1>1, <2>1, ConcatRows DEF RowsInv
  <2>3. CASE Corrupt(cur)
    <3>1. reader'.phase = "threw" /\ reader'.rows = <<>>
        BY <2>1, <2>3 DEF Read
    <3> QED
        BY <2>1, <3>1, EmptyRows DEF RowsInv
  <2>4. CASE ~Corrupt(cur)
    <3>1. reader'.phase = "done" /\ reader'.rows = reader.rows \o cur.lines
        BY <2>1, <2>4 DEF Read
    <3>2. Earlier(reader'.rows, next) /\ Distinct(reader'.rows)
        BY <2>2, <3>1
    <3>3. reader'.phase \notin {"between", "idle", "threw"}
        BY <3>1
    <3> QED
        BY <2>1, <3>2, <3>3 DEF RowsInv
  <2> QED
      BY <2>3, <2>4
<1>4. CASE ShowRows
    BY <1>4, EmptyRows DEF ShowRows, files, RowsInv
<1>5. CASE ClearStat \/ ClearLock
    BY <1>5, RowsSame DEF ClearStat, ClearLock, files
<1>6. CASE ClearCurrent
    BY <1>6, EmptyRows DEF ClearCurrent, RowsInv, Missing
<1>7. CASE ClearRotated
    BY <1>7, EmptyRows DEF ClearRotated, RowsInv, Missing
<1> QED
    BY <1>2, <1>3, <1>4, <1>5, <1>6, <1>7 DEF Others

\* A reader of both files gets no entry twice, however the files are rotated and
\* cleared under it and appends are torn.
THEOREM NoRowTwiceHolds == Spec => []NoRowTwice
<1>1. Init => TypeOK /\ RowsInv
    BY TypeInit, RowsInit
<1>2. (TypeOK /\ RowsInv) /\ [Next]_vars => (TypeOK /\ RowsInv)'
  <2> SUFFICES ASSUME TypeOK, RowsInv, [Next]_vars PROVE (TypeOK /\ RowsInv)'
      OBVIOUS
  <2>1. CASE UNCHANGED vars
      BY <2>1, RowsSame DEF vars, files, logger, TypeOK
  <2> QED
      BY <2>1, Steps, TypeWrite, TypeOthers, RowsWrite, RowsOthers
<1>3. RowsInv => NoRowTwice
    BY DEF RowsInv, Distinct, NoRowTwice
<1> QED
    BY <1>1, <1>2, <1>3, PTL DEF Spec

(***************************************************************************)
(* Rotations.  What a process believes of the file is never more than the  *)
(* file holds, unless the file was moved under it or two lines were glued. *)
(***************************************************************************)

Damaged == \E i \in DOMAIN cur.lines : ~cur.lines[i].whole

Placed(p) == /\ pc[p] \in {"stat", "count"} => ~ready[p]
             /\ pc[p] \notin {"idle", "stat", "count"} => ready[p]
             /\ pc[p] = "append" /\ ~moved[p] => fd[p] = "cur"
             /\ pc[p] = "rotate" => shouldRotate(count[p].bytes, count[p].entries, size[p])
Knows(p) == Counted(p) /\ ~moved[p] =>
              /\ count[p].bytes <= cur.bytes
              /\ count[p].entries <= Len(cur.lines) \/ Damaged
CountInv == \A p \in Procs : Placed(p) /\ Knows(p)

\* The current file only grew.
Grows == /\ cur.bytes <= cur'.bytes
         /\ Len(cur.lines) <= Len(cur'.lines)
         /\ Damaged => Damaged'

LEMMA FileFields == \A f \in Files : f.bytes \in Nat /\ Len(f.lines) \in Nat
  BY LenProperties DEF Files

LEMMA CurType == ASSUME TypeOK PROVE cur \in Files /\ cur.bytes \in Nat /\ Len(cur.lines) \in Nat
  BY FileFields DEF TypeOK

LEMMA CountType ==
    ASSUME TypeOK, NEW p \in Procs PROVE count[p].bytes \in Nat /\ count[p].entries \in Nat
<1>1. count \in [Procs -> [bytes : Nat, entries : Nat]]
    BY DEF TypeOK
<1> QED
    BY <1>1

LEMMA GrowsSame ==
    ASSUME TypeOK, cur'.bytes = cur.bytes, cur'.lines = cur.lines PROVE Grows
  BY CurType DEF Grows, Damaged

LEMMA PutGrows ==
    ASSUME NEW line \in Lines, NEW n \in Nat, TypeOK, cur' = Put(cur, line, n)
    PROVE  /\ Grows /\ cur'.bytes = cur.bytes + n
           /\ Len(cur'.lines) = Len(cur.lines) + 1 \/ Damaged'
<1>1. cur \in Files /\ cur.bytes \in Nat /\ Len(cur.lines) \in Nat
    BY CurType
<1>2. Damaged => Damaged'
    BY <1>1, PutLines DEF Damaged
<1>3. cur'.bytes = cur.bytes + n /\ Len(cur.lines) <= Len(cur'.lines)
    BY <1>1, PutLines
<1>4. Len(cur'.lines) = Len(cur.lines) + 1 \/ Damaged'
    BY <1>1, PutLines DEF Damaged
<1> QED
    BY <1>1, <1>2, <1>3, <1>4 DEF Grows

LEMMA WriteGrows ==
    ASSUME TypeOK, NEW p \in Procs, NEW line \in Lines, NEW n \in Nat, WriteTo(p, line, n)
    PROVE  Grows /\ fd' = [fd EXCEPT ![p] = "closed"]
<1>1. CASE fd[p] = "cur"
    BY <1>1, PutGrows DEF WriteTo
<1>2. CASE fd[p] # "cur"
    BY <1>2, GrowsSame DEF WriteTo
<1> QED
    BY <1>1, <1>2

\* A process that takes no step: either the file grew and its descriptor stays, or
\* the file moved under it.
Still(q) == /\ pc'[q] = pc[q] /\ count'[q] = count[q]
            /\ ready'[q] = ready[q] /\ size'[q] = size[q]

LEMMA Bystander ==
    ASSUME TypeOK, TypeOK', NEW q \in Procs, Placed(q), Knows(q), Still(q),
           \/ Grows /\ moved'[q] = moved[q] /\ fd'[q] = fd[q]
           \/ Counted(q) => moved'[q]
    PROVE  Placed(q)' /\ Knows(q)'
<1>1. Counted(q)' <=> Counted(q)
    BY DEF Counted, Still
<1>2. CASE Counted(q) /\ moved'[q]
    BY <1>1, <1>2 DEF Placed, Knows, Still, Counted, shouldRotate
<1>3. CASE ~Counted(q)
    BY <1>1, <1>3 DEF Placed, Knows, Still, Counted, shouldRotate
<1>4. CASE Grows /\ moved'[q] = moved[q] /\ fd'[q] = fd[q]
  <2>1. Placed(q)'
      BY <1>4 DEF Placed, Still, shouldRotate
  <2>2. ASSUME Counted(q), ~moved[q]
        PROVE  count[q].bytes <= cur'.bytes /\ (count[q].entries <= Len(cur'.lines) \/ Damaged')
    <3>1. count[q].bytes <= cur.bytes /\ (count[q].entries <= Len(cur.lines) \/ Damaged)
        BY <2>2 DEF Knows
    <3>2. cur'.bytes \in Nat /\ Len(cur'.lines) \in Nat
        BY FileFields DEF TypeOK
    <3> QED
        BY <1>4, <3>1, <3>2, CurType, CountType DEF Grows
  <2> QED
      BY <1>1, <1>4, <2>1, <2>2 DEF Knows, Still
<1> QED
    BY <1>2, <1>3, <1>4

LEMMA CountInit == Init => CountInv
  BY DEF Init, CountInv, Placed, Knows, Counted

\* A step that leaves the file's lines alone and changes process p only.
LEMMA CountLocal ==
    ASSUME TypeOK, TypeOK', CountInv, NEW p \in Procs,
           cur'.bytes = cur.bytes, cur'.lines = cur.lines,
           \A q \in Procs \ {p} : Still(q) /\ moved'[q] = moved[q] /\ fd'[q] = fd[q],
           Placed(p)', Knows(p)'
    PROVE  CountInv'
  BY GrowsSame, Bystander DEF CountInv

\* What the writer of process p does.
LEMMA CountWrite == ASSUME TypeOK, TypeOK', CountInv, NEW p \in Procs, Write(p) PROVE CountInv'
<1> USE DEF Goto
<1>0. /\ Placed(p) /\ Knows(p)
      /\ cur.bytes \in Nat /\ Len(cur.lines) \in Nat
      /\ count[p].bytes \in Nat /\ count[p].entries \in Nat /\ size[p] \in Nat
    BY CurType, CountType, SizeType DEF CountInv
<1>1. pc \in [Procs -> Places] /\ ready \in [Procs -> BOOLEAN] /\ moved \in [Procs -> BOOLEAN]
      /\ count \in [Procs -> Counts] /\ fd \in [Procs -> Descriptors]
      /\ size \in [Procs -> Sizes \cup {0}]
    BY DEF TypeOK, Places, Counts, Descriptors
<1>2. CASE Begin(p)
  <2>1. /\ cur' = cur
        /\ \A q \in Procs \ {p} : Still(q) /\ moved'[q] = moved[q] /\ fd'[q] = fd[q]
      BY <1>1, <1>2 DEF Begin, files, Still
  <2>2. Placed(p)' /\ Knows(p)'
      BY <1>0, <1>1, <1>2 DEF Begin, files, Placed, Knows, Counted, Damaged
  <2> QED
      BY <2>1, <2>2, CountLocal
<1>3. CASE SyncSize(p)
  <2>1. /\ cur' = cur
        /\ \A q \in Procs \ {p} : Still(q) /\ moved'[q] = moved[q] /\ fd'[q] = fd[q]
      BY <1>1, <1>3 DEF SyncSize, files, Still
  <2>2. count'[p] = [bytes |-> cur.bytes, entries |-> 0] /\ pc'[p] \in {"lock", "count"}
        /\ (pc'[p] = "lock" <=> ready'[p])
      BY <1>0, <1>1, <1>3 DEF SyncSize, Placed
  <2>3. Placed(p)' /\ Knows(p)'
      BY <1>0, <2>1, <2>2 DEF Placed, Knows, Damaged
  <2> QED
      BY <2>1, <2>3, CountLocal
<1>4. CASE SyncEntries(p)
  <2>1. /\ cur' = cur /\ pc'[p] = "lock" /\ ready'[p] /\ moved' = moved
        /\ \A q \in Procs \ {p} : Still(q) /\ moved'[q] = moved[q] /\ fd'[q] = fd[q]
      BY <1>1, <1>4 DEF SyncEntries, files, Still
  <2>2. Placed(p)'
      BY <2>1 DEF Placed
  <2>3. Knows(p)'
    <3>1. CASE cur.exists
      <4>1. count'[p].bytes = count[p].bytes /\ count'[p].entries = Len(cur.lines)
          BY <1>1, <1>4, <3>1 DEF SyncEntries, Counts
      <4>2. pc[p] = "count"
          BY <1>4 DEF SyncEntries
      <4> QED
          BY <1>0, <2>1, <4>1, <4>2 DEF Knows, Counted
    <3>2. CASE ~cur.exists
      <4>1. count'[p].bytes = 0 /\ count'[p].entries = 0
          BY <1>1, <1>4, <3>2 DEF SyncEntries
      <4> QED
          BY <1>0, <2>1, <4>1 DEF Knows
    <3> QED
        BY <3>1, <3>2
  <2> QED
      BY <2>1, <2>2, <2>3, CountLocal
<1>5. CASE Acquire(p)
  <2>1. /\ cur' = cur
        /\ \A q \in Procs \ {p} : Still(q) /\ moved'[q] = moved[q] /\ fd'[q] = fd[q]
      BY <1>1, <1>5 DEF Acquire, files, Still
  <2>2. Placed(p)' /\ Knows(p)'
      BY <1>0, <1>1, <1>5 DEF Acquire, files, Placed, Knows, Counted, Damaged
  <2> QED
      BY <2>1, <2>2, CountLocal
<1>6. CASE Skip(p)
  <2>1. /\ cur' = cur
        /\ \A q \in Procs \ {p} : Still(q) /\ moved'[q] = moved[q] /\ fd'[q] = fd[q]
      BY <1>1, <1>6 DEF Skip, files, Still
  <2>2. Placed(p)' /\ Knows(p)'
      BY <1>0, <1>1, <1>6 DEF Skip, files, Placed, Knows, Counted, Damaged
  <2> QED
      BY <2>1, <2>2, CountLocal
<1>7. CASE Rotate(p)
  <2>1. count'[p].bytes = 0 /\ count'[p].entries = 0 /\ pc'[p] = "open" /\ ready'[p]
      BY <1>0, <1>1, <1>7 DEF Rotate, Placed
  <2>2. Placed(p)'
      BY <2>1 DEF Placed
  <2>3. Knows(p)'
    <3>1. cur'.bytes \in Nat /\ Len(cur'.lines) \in Nat
        BY FileFields DEF TypeOK
    <3> QED
        BY <2>1, <3>1 DEF Knows
  <2>4. \A q \in Procs \ {p} : Still(q)
      BY <1>1, <1>7 DEF Rotate, Still
  <2>5. \/ \A q \in Procs \ {p} : Counted(q) => moved'[q]
        \/ cur' = cur /\ moved' = moved /\ fd' = fd
      BY <1>7 DEF Rotate, files
  <2>6. CASE \A q \in Procs \ {p} : Counted(q) => moved'[q]
      BY <2>2, <2>3, <2>4, <2>6, Bystander DEF CountInv
  <2>7. CASE cur' = cur /\ moved' = moved /\ fd' = fd
      BY <2>2, <2>3, <2>4, <2>7, CountLocal
  <2> QED
      BY <2>5, <2>6, <2>7
<1>8. CASE Open(p)
  <2>1. /\ cur'.bytes = cur.bytes /\ cur'.lines = cur.lines
        /\ \A q \in Procs \ {p} : Still(q) /\ moved'[q] = moved[q] /\ fd'[q] = fd[q]
      BY <1>1, <1>8 DEF Open, File, Still
  <2>2. fd'[p] = "cur" /\ pc'[p] = "append" /\ ready'[p]
        /\ ready' = ready /\ count' = count /\ moved' = moved
      BY <1>0, <1>1, <1>8 DEF Open, Placed
  <2>3. Placed(p)'
      BY <2>2 DEF Placed
  <2>4. Knows(p)'
      BY <1>0, <2>1, <2>2 DEF Knows, Counted, Damaged
  <2> QED
      BY <2>1, <2>3, <2>4, CountLocal
<1> DEFINE Told == \A q \in Procs \ {p} : Still(q) /\ moved'[q] = moved[q] /\ fd'[q] = fd[q]
<1>9. CASE AppendLine(p)
  <2>1. next \in 1 .. MaxWrites /\ WriteTo(p, Line(next), size[p])
      BY <1>9, NextType DEF AppendLine
  <2>2. Line(next) \in Lines
      BY <2>1 DEF Line, Lines
  <2>3. Grows /\ fd' = [fd EXCEPT ![p] = "closed"]
      BY <1>0, <2>1, <2>2, WriteGrows
  <2>4. Told
      BY <1>1, <1>9, <2>3 DEF AppendLine, Still
  <2>5. /\ pc[p] = "append" /\ pc'[p] = "unlock" /\ ready' = ready /\ moved' = moved
        /\ count'[p].bytes = count[p].bytes + size[p]
        /\ count'[p].entries = count[p].entries + 1
      BY <1>1, <1>9 DEF AppendLine, Counts
  <2>6. Placed(p)'
      BY <1>0, <2>5 DEF Placed
  <2>7. Knows(p)'
    <3> SUFFICES ASSUME ~moved[p]
                 PROVE  /\ count'[p].bytes <= cur'.bytes
                        /\ count'[p].entries <= Len(cur'.lines) \/ Damaged'
        BY <2>5 DEF Knows
    <3>1. count[p].bytes <= cur.bytes /\ (count[p].entries <= Len(cur.lines) \/ Damaged)
        BY <1>0, <2>5 DEF Placed, Knows, Counted
    <3>2. cur' = Put(cur, Line(next), size[p])
        BY <1>0, <2>1, <2>5 DEF Placed, WriteTo
    <3>3. cur'.bytes = cur.bytes + size[p]
          /\ (Len(cur'.lines) = Len(cur.lines) + 1 \/ Damaged')
        BY <1>0, <2>2, <3>2, PutGrows
    <3> QED
        BY <1>0, <2>3, <2>5, <3>1, <3>3 DEF Grows
  <2> QED
      BY <2>3, <2>4, <2>6, <2>7, Bystander DEF CountInv
<1>10. CASE AppendTorn(p)
  <2>1. next \in 1 .. MaxWrites
      BY <1>10, NextType DEF AppendTorn
  <2>2. Torn(next) \in Lines
      BY <2>1 DEF Torn, Lines
  <2>3. PICK n \in 1 .. size[p] : WriteTo(p, Torn(next), n)
      BY <1>10 DEF AppendTorn
  <2>4. Grows /\ fd' = [fd EXCEPT ![p] = "closed"]
      BY <1>0, <2>2, <2>3, WriteGrows
  <2>5. Told
      BY <1>1, <1>10, <2>4 DEF AppendTorn, Still
  <2>6. /\ pc[p] = "append" /\ pc'[p] = "unlock" /\ ready' = ready /\ moved' = moved
        /\ count' = count
      BY <1>1, <1>10 DEF AppendTorn
  <2>7. Placed(p)'
      BY <1>0, <2>6 DEF Placed
  <2>8. Knows(p)'
    <3>1. cur'.bytes \in Nat /\ Len(cur'.lines) \in Nat
        BY FileFields DEF TypeOK
    <3> QED
        BY <1>0, <2>4, <2>6, <3>1 DEF Knows, Counted, Grows
  <2> QED
      BY <2>4, <2>5, <2>7, <2>8, Bystander DEF CountInv
<1>11. CASE Unlock(p)
  <2>1. cur' = cur /\ Told
      BY <1>1, <1>11 DEF Unlock, files, Still
  <2>2. Placed(p)' /\ Knows(p)'
      BY <1>0, <1>1, <1>11 DEF Unlock, files, Placed, Knows, Counted, Damaged
  <2> QED
      BY <2>1, <2>2, CountLocal
<1>12. CASE Exit(p)
  <2>1. cur' = cur /\ Told
      BY <1>1, <1>12 DEF Exit, files, Still
  <2>2. Placed(p)' /\ Knows(p)'
      BY <1>0, <1>1, <1>12 DEF Exit, files, Placed, Knows, Counted
  <2> QED
      BY <2>1, <2>2, CountLocal
<1> QED
    BY <1>2, <1>3, <1>4, <1>5, <1>6, <1>7, <1>8, <1>9, <1>10, <1>11, <1>12 DEF Write

\* What the reader and `audit clear' do.
LEMMA CountOthers == ASSUME TypeOK, TypeOK', CountInv, Others PROVE CountInv'
<1>1. CASE ReadRotated \/ ReadCurrent \/ ShowRows \/ ClearStat \/ ClearRotated \/ ClearLock
  <2>1. cur' = cur /\ moved' = moved /\ \A q \in Procs : Still(q)
      BY <1>1 DEF ReadRotated, ReadCurrent, ShowRows, ClearStat, ClearRotated, ClearLock,
                  files, logger, Still
  <2>2. \A q \in Procs : fd'[q] = fd[q] \/ fd[q] = "prev"
      BY <1>1 DEF ReadRotated, ReadCurrent, ShowRows, ClearStat, ClearRotated, ClearLock,
                  files, logger, Removed
  <2> QED
      BY <2>1, <2>2 DEF CountInv, Placed, Knows, Counted, Damaged, Still, shouldRotate
<1>2. CASE ClearCurrent
  <2>1. \A q \in Procs : Still(q) /\ (Counted(q) => moved'[q])
      BY <1>2 DEF ClearCurrent, Still
  <2> QED
      BY <2>1, Bystander DEF CountInv
<1> QED
    BY <1>1, <1>2 DEF Others

\* A file that is not full is rotated only by a process that has had it moved or
\* cleared under its count, or after a line was glued to a torn one.
THEOREM PrematureOnlyIfMovedHolds == Spec => PrematureOnlyIfMoved
<1>1. Init => TypeOK /\ CountInv
    BY TypeInit, CountInit
<1>2. (TypeOK /\ CountInv) /\ [Next]_vars => (TypeOK /\ CountInv)'
  <2> SUFFICES ASSUME TypeOK, CountInv, [Next]_vars PROVE (TypeOK /\ CountInv)'
      OBVIOUS
  <2>1. CASE UNCHANGED vars
      BY <2>1 DEF vars, files, logger, TypeOK, CountInv, Placed, Knows, Counted, Damaged,
                  shouldRotate
  <2>2. CASE Next
      BY <2>2, Steps, TypeWrite, TypeOthers, CountWrite, CountOthers
  <2> QED
      BY <2>1, <2>2
<1>3. TypeOK /\ CountInv =>
        \A p \in Procs : RotationStep(p) => FullFor(p) \/ moved[p] \/ Damaged
  <2> SUFFICES ASSUME TypeOK, CountInv, NEW p \in Procs, pc[p] = "rotate", ~moved[p]
               PROVE  FullFor(p) \/ Damaged
      BY DEF RotationStep
  <2>1. Placed(p) /\ Knows(p)
      BY DEF CountInv
  <2>2. /\ shouldRotate(count[p].bytes, count[p].entries, size[p])
        /\ count[p].bytes <= cur.bytes
        /\ count[p].entries <= Len(cur.lines) \/ Damaged
      BY <2>1 DEF Placed, Knows, Counted
  <2> QED
      BY <2>2, CurType, CountType, SizeType, Bounds DEF shouldRotate, FullFor
<1>4. TypeOK /\ CountInv /\ [Next]_vars =>
        [\A p \in Procs : RotationStep(p) =>
            \/ FullFor(p)
            \/ moved[p]
            \/ \E i \in DOMAIN cur.lines : ~cur.lines[i].whole]_vars
    BY <1>3 DEF Damaged
<1> QED
    BY <1>1, <1>2, <1>4, PTL DEF Spec, PrematureOnlyIfMoved

(***************************************************************************)
(* Growth.  Every process may put MaxEntries lines into the file under one *)
(* count; what it has put there it has counted.  A process that has not    *)
(* counted the file yet will find all of it.                               *)
(***************************************************************************)

Spent(p) == IF ready[p] THEN count[p].entries ELSE Len(cur.lines)
Slots == Procs \X (1 .. MaxEntries)
SpentSlots == {s \in Slots : s[2] <= Spent(s[1])}

Room == \A p \in Procs : pc[p] \in {"open", "append"} => count[p].entries < MaxEntries
Empty == ~cur.exists => Len(cur.lines) = 0
Covered == Len(cur.lines) <= Cardinality(SpentSlots) + faults * MaxEntries
GrowthInv == Room /\ Empty /\ Covered

LEMMA Caps == MaxEntries \in Nat /\ 1 <= MaxEntries /\ Cardinality(Procs) \in Nat
  BY LogAssumption, FS_CardinalityType

LEMMA SlotsFinite ==
    /\ IsFiniteSet(Slots)
    /\ Cardinality(Slots) = Cardinality(Procs) * MaxEntries
<1>1. IsFiniteSet(1 .. MaxEntries) /\ Cardinality(1 .. MaxEntries) = MaxEntries
  <2>1. 1 \in Int /\ MaxEntries \in Int /\ ~(1 > MaxEntries)
      BY Caps
  <2> QED
      BY <2>1, FS_Interval
<1>2. IsFiniteSet(Procs)
    BY LogAssumption
<1> QED
    BY <1>1, <1>2, FS_Product DEF Slots

LEMMA SomeSlots ==
    ASSUME NEW S \in SUBSET Slots
    PROVE  IsFiniteSet(S) /\ Cardinality(S) \in Nat /\ Cardinality(S) <= Cardinality(Slots)
  BY SlotsFinite, FS_Subset, FS_CardinalityType

LEMMA MoreSlots ==
    ASSUME NEW S \in SUBSET Slots, NEW T \in SUBSET Slots, S \subseteq T
    PROVE  Cardinality(S) <= Cardinality(T)
  BY SomeSlots, FS_Subset

LEMMA CoverTwo ==
    ASSUME NEW S \in SUBSET Slots, NEW T \in SUBSET Slots, NEW U \in SUBSET Slots,
           S \subseteq T \cup U
    PROVE  Cardinality(S) <= Cardinality(T) + Cardinality(U)
<1>1. /\ IsFiniteSet(T) /\ IsFiniteSet(U) /\ IsFiniteSet(T \cup U) /\ IsFiniteSet(T \cap U)
      /\ Cardinality(S) \in Nat /\ Cardinality(T) \in Nat /\ Cardinality(U) \in Nat
      /\ Cardinality(T \cup U) \in Nat /\ Cardinality(T \cap U) \in Nat
  <2>1. T \cup U \in SUBSET Slots /\ T \cap U \in SUBSET Slots
      OBVIOUS
  <2> QED
      BY <2>1, SomeSlots
<1>2. Cardinality(S) <= Cardinality(T \cup U)
    BY <1>1, FS_Subset
<1>3. Cardinality(T \cup U) = Cardinality(T) + Cardinality(U) - Cardinality(T \cap U)
    BY <1>1, FS_Union
<1> QED
    BY <1>1, <1>2, <1>3

\* The slots of one process.
Row(p, n) == {p} \X (1 .. n)

LEMMA RowSlots ==
    ASSUME NEW p \in Procs, NEW n \in 0 .. MaxEntries
    PROVE  Row(p, n) \in SUBSET Slots /\ Cardinality(Row(p, n)) = n
<1>1. n \in Nat /\ n <= MaxEntries
    BY Caps
<1>2. IsFiniteSet(1 .. n) /\ Cardinality(1 .. n) = n
    BY <1>1, FS_Interval
<1>3. IsFiniteSet({p}) /\ Cardinality({p}) = 1
    BY FS_Singleton
<1>4. Cardinality(Row(p, n)) = n
  <2>1. Cardinality(Row(p, n)) = Cardinality({p}) * Cardinality(1 .. n)
      BY <1>2, <1>3, FS_Product DEF Row
  <2> QED
      BY <1>1, <1>2, <1>3, <2>1
<1>5. Row(p, n) \in SUBSET Slots
    BY <1>1, Caps DEF Row, Slots
<1> QED
    BY <1>1, <1>4, <1>5

LEMMA Products == \A f, m \in Nat : f * m \in Nat /\ (f + 1) * m = f * m + m
  OBVIOUS

\* One more of f faults pays for a row of m slots.
LEMMA Paying ==
    ASSUME NEW l \in Nat, NEW k \in Nat, NEW c \in Nat, NEW d \in Nat,
           NEW f \in Nat, NEW m \in Nat, l <= c + f * m, k + c <= l + d + m
    PROVE  k <= d + (f + 1) * m
<1> DEFINE x == f * m
<1>1. x \in Nat /\ (f + 1) * m = x + m /\ l <= c + x
    BY Products
<1> HIDE DEF x
<1>2. k <= d + (x + m)
    BY <1>1
<1> QED
    BY <1>1, <1>2

LEMMA FaultRoom ==
    ASSUME TypeOK
    PROVE  /\ faults \in Nat /\ faults * MaxEntries \in Nat
           /\ (faults + 1) * MaxEntries = faults * MaxEntries + MaxEntries
<1>1. faults \in 0 .. MaxFaults
    BY DEF TypeOK
<1>2. faults \in Nat
    BY <1>1, Bounds
<1> QED
    BY <1>2, Caps

\* A file without lines is covered; and it stays covered as long as no slot is given
\* back and no line comes.
LEMMA EmptyCovered == ASSUME TypeOK, Len(cur.lines) = 0 PROVE Covered
<1>1. SpentSlots \in SUBSET Slots
    BY DEF SpentSlots
<1> QED
    BY <1>1, SomeSlots, FaultRoom DEF Covered

LEMMA StillCovered ==
    ASSUME TypeOK, TypeOK', Covered, SpentSlots \subseteq SpentSlots',
           Len(cur'.lines) <= Len(cur.lines), faults' = faults
    PROVE  Covered'
<1>1. SpentSlots \in SUBSET Slots /\ SpentSlots' \in SUBSET Slots
    BY DEF SpentSlots, Slots
<1>2. Cardinality(SpentSlots) <= Cardinality(SpentSlots')
    BY <1>1, MoreSlots
<1>3. Cardinality(SpentSlots) \in Nat /\ Cardinality(SpentSlots') \in Nat
    BY <1>1, SomeSlots
<1>4. Len(cur.lines) \in Nat /\ Len(cur'.lines) \in Nat
  <2>1. cur \in Files /\ cur' \in Files
      BY DEF TypeOK
  <2> QED
      BY <2>1, FileFields
<1>5. Len(cur.lines) <= Cardinality(SpentSlots) + faults * MaxEntries
    BY DEF Covered
<1>6. Len(cur'.lines) <= Cardinality(SpentSlots') + faults * MaxEntries
    BY <1>2, <1>3, <1>4, <1>5, FaultRoom
<1> QED
    BY <1>6 DEF Covered

LEMMA GrowthInit == Init => GrowthInv
<1> SUFFICES ASSUME Init PROVE GrowthInv
    OBVIOUS
<1>1. Len(cur.lines) = 0
    BY EmptySeq DEF Init, Missing
<1> QED
    BY <1>1, TypeInit, EmptyCovered DEF Init, GrowthInv, Room, Empty

\* A step that leaves the file's lines and what was counted alone.
LEMMA GrowthSame ==
    ASSUME TypeOK, TypeOK', GrowthInv, cur'.lines = cur.lines, cur.exists => cur'.exists,
           faults' = faults, \A q \in Procs : Spent(q)' = Spent(q), Room'
    PROVE  GrowthInv'
<1>1. SpentSlots' = SpentSlots
    BY DEF SpentSlots, Slots
<1>2. Len(cur'.lines) <= Len(cur.lines)
    BY CurType
<1>3. Covered'
    BY <1>1, <1>2, StillCovered DEF GrowthInv
<1> QED
    BY <1>3 DEF GrowthInv, Empty

\* A step that leaves no line in the file.
LEMMA GrowthEmpty ==
    ASSUME TypeOK', Len(cur'.lines) = 0, Room' PROVE GrowthInv'
<1>1. Covered'
  <2>1. SpentSlots' \in SUBSET Slots
      BY DEF SpentSlots, Slots
  <2>2. Cardinality(SpentSlots') \in Nat
      BY <2>1, SomeSlots
  <2>3. faults' * MaxEntries \in Nat
    <3>1. faults' \in 0 .. MaxFaults
        BY DEF TypeOK
    <3>2. faults' \in Nat
        BY <3>1, Bounds
    <3> QED
        BY <3>2, Caps, Products
  <2> QED
      BY <2>2, <2>3 DEF Covered
<1> QED
    BY <1>1 DEF GrowthInv, Empty

\* An append: at most one line more.
LEMMA PutLength ==
    ASSUME TypeOK, NEW p \in Procs, NEW line \in Lines, NEW n \in Nat, WriteTo(p, line, n)
    PROVE  /\ Len(cur.lines) <= Len(cur'.lines) /\ Len(cur'.lines) <= Len(cur.lines) + 1
           /\ Len(cur'.lines) \in Nat /\ Len(cur.lines) \in Nat
           /\ cur.exists => cur'.exists
           /\ fd[p] = "cur" => cur'.exists
           /\ fd[p] # "cur" => cur' = cur
<1>1. cur \in Files /\ Len(cur.lines) \in Nat
    BY CurType
<1>2. CASE fd[p] = "cur"
  <2>1. cur' = Put(cur, line, n)
      BY <1>2 DEF WriteTo
  <2>2. cur'.exists
      BY <2>1 DEF Put, File
  <2>3. /\ Len(cur'.lines) \in Nat
        /\ Len(cur'.lines) = Len(cur.lines) + 1 \/ Len(cur'.lines) = Len(cur.lines)
      BY <1>1, <2>1, PutLines
  <2> QED
      BY <1>1, <1>2, <2>2, <2>3
<1>3. CASE fd[p] # "cur"
    BY <1>1, <1>3 DEF WriteTo
<1> QED
    BY <1>2, <1>3

\* What the writer of process p does.
LEMMA GrowthWrite ==
    ASSUME TypeOK, TypeOK', CountInv, GrowthInv, NEW p \in Procs, Write(p) PROVE GrowthInv'
<1> USE DEF Goto
<1>0. /\ pc[p] \in {"stat", "count"} => ~ready[p]
      /\ pc[p] \notin {"idle", "stat", "count"} => ready[p]
      /\ Len(cur.lines) \in Nat /\ count[p].entries \in Nat
      /\ Room /\ Empty /\ Covered
    BY CurType, CountType DEF CountInv, Placed, GrowthInv
<1>1. pc \in [Procs -> Places] /\ ready \in [Procs -> BOOLEAN]
      /\ count \in [Procs -> Counts]
    BY DEF TypeOK, Places, Counts
<1>2. CASE Begin(p) \/ Skip(p) \/ Unlock(p)
  <2>1. cur' = cur /\ faults' = faults /\ count' = count /\ ready' = ready
      BY <1>2 DEF Begin, Skip, Unlock, files
  <2>2. Room'
      BY <1>0, <1>1, <1>2, <2>1 DEF Begin, Skip, Unlock, Room
  <2> QED
      BY <2>1, <2>2, GrowthSame DEF Spent
<1>3. CASE SyncSize(p) /\ cur.exists
  <2>1. cur' = cur /\ faults' = faults /\ ready' = ready /\ ~ready[p] /\ pc'[p] = "count"
      BY <1>0, <1>1, <1>3 DEF SyncSize, files
  <2>2. \A q \in Procs : q # p => count'[q] = count[q] /\ pc'[q] = pc[q]
      BY <1>1, <1>3 DEF SyncSize
  <2>3. Room'
      BY <1>0, <2>1, <2>2 DEF Room
  <2>4. \A q \in Procs : Spent(q)' = Spent(q)
      BY <2>1, <2>2 DEF Spent
  <2> QED
      BY <2>1, <2>3, <2>4, GrowthSame
<1>4. CASE SyncSize(p) /\ ~cur.exists
  <2>1. cur' = cur /\ pc'[p] = "lock"
      BY <1>1, <1>4 DEF SyncSize, files
  <2>2. \A q \in Procs : q # p => count'[q] = count[q] /\ pc'[q] = pc[q]
      BY <1>1, <1>4 DEF SyncSize
  <2>3. Room'
      BY <1>0, <2>1, <2>2 DEF Room
  <2> QED
      BY <1>0, <1>4, <2>1, <2>3, GrowthEmpty DEF Empty
<1>5. CASE SyncEntries(p)
  <2>1. /\ cur' = cur /\ faults' = faults /\ pc'[p] = "lock" /\ ~ready[p] /\ ready'[p]
        /\ \A q \in Procs : q # p => ready'[q] = ready[q]
      BY <1>0, <1>1, <1>5 DEF SyncEntries, files
  <2>2. \A q \in Procs : q # p => count'[q] = count[q] /\ pc'[q] = pc[q]
      BY <1>1, <1>5 DEF SyncEntries
  <2>3. Room'
      BY <1>0, <2>1, <2>2 DEF Room
  <2>4. CASE cur.exists
    <3>1. count'[p].entries = Len(cur.lines)
        BY <1>1, <1>5, <2>4 DEF SyncEntries, Counts
    <3>2. \A q \in Procs : Spent(q)' = Spent(q)
        BY <2>1, <2>2, <3>1 DEF Spent
    <3> QED
        BY <2>1, <2>3, <3>2, GrowthSame
  <2>5. CASE ~cur.exists
      BY <1>0, <2>1, <2>3, <2>5, GrowthEmpty DEF Empty
  <2> QED
      BY <2>4, <2>5
<1>6. CASE Acquire(p)
  <2>1. cur' = cur /\ faults' = faults /\ count' = count /\ ready' = ready
      BY <1>6 DEF Acquire, files
  <2>2. \A q \in Procs : q # p => pc'[q] = pc[q]
      BY <1>1, <1>6 DEF Acquire
  <2>3. pc'[p] = "open" => count[p].entries < MaxEntries
    <3>1. pc'[p] = "open" => ~shouldRotate(count[p].bytes, count[p].entries, size[p])
        BY <1>1, <1>6 DEF Acquire
    <3> QED
        BY <1>0, <3>1, Caps DEF shouldRotate
  <2>4. pc'[p] # "append"
      BY <1>1, <1>6 DEF Acquire
  <2>5. Room'
      BY <1>0, <2>1, <2>2, <2>3, <2>4 DEF Room
  <2> QED
      BY <2>1, <2>5, GrowthSame DEF Spent
<1>7. CASE Open(p)
  <2>1. /\ cur'.lines = cur.lines /\ cur'.exists /\ faults' = faults
        /\ count' = count /\ ready' = ready
      BY <1>7 DEF Open, File
  <2>2. Room'
      BY <1>0, <1>1, <1>7, <2>1 DEF Open, Room
  <2> QED
      BY <2>1, <2>2, GrowthSame DEF Spent
<1>8. CASE Rotate(p)
  <2>1. /\ pc[p] = "rotate" /\ pc'[p] = "open" /\ count'[p].entries = 0 /\ ready' = ready
        /\ \A q \in Procs : q # p => count'[q] = count[q] /\ pc'[q] = pc[q]
      BY <1>1, <1>8 DEF Rotate, Counts
  <2>2. Room'
      BY <1>0, <2>1, Caps DEF Room
  <2>3. CASE cur' = Missing
    <3>1. Len(cur'.lines) = 0
        BY <2>3, EmptySeq DEF Missing
    <3> QED
        BY <2>2, <3>1, GrowthEmpty
  <2>4. CASE ~cur.exists /\ cur' = cur
      BY <1>0, <2>2, <2>4, GrowthEmpty DEF Empty
  <2>5. CASE cur.exists /\ cur' = cur /\ faults' = faults + 1
      \* The slots of p are given back, and the fault pays for them.
    <3>1. SpentSlots \subseteq SpentSlots' \cup Row(p, MaxEntries)
      <4>1. \A q \in Procs : q # p => Spent(q)' = Spent(q)
          BY <2>1, <2>5 DEF Spent
      <4> QED
          BY <4>1 DEF SpentSlots, Slots, Row
    <3>2. SpentSlots \in SUBSET Slots /\ SpentSlots' \in SUBSET Slots
        BY DEF SpentSlots, Slots
    <3>3. Row(p, MaxEntries) \in SUBSET Slots /\ Cardinality(Row(p, MaxEntries)) = MaxEntries
        BY Caps, RowSlots
    <3>4. Cardinality(SpentSlots) <= Cardinality(SpentSlots') + MaxEntries
        BY <3>1, <3>2, <3>3, CoverTwo
    <3>5. Cardinality(SpentSlots) \in Nat /\ Cardinality(SpentSlots') \in Nat
        BY <3>2, SomeSlots
    <3>6. Len(cur.lines) <= Cardinality(SpentSlots) + faults * MaxEntries
        BY <1>0 DEF Covered
    <3>7. Len(cur'.lines) <= Cardinality(SpentSlots') + (faults + 1) * MaxEntries
      <4>1. Len(cur'.lines) + Cardinality(SpentSlots)
              <= Len(cur.lines) + Cardinality(SpentSlots') + MaxEntries
          BY <1>0, <2>5, <3>4, <3>5, Caps
      <4> QED
          BY <1>0, <2>5, <3>5, <3>6, <4>1, FaultRoom, Caps, Paying
    <3>8. Covered'
        BY <2>5, <3>7 DEF Covered
    <3> QED
        BY <2>2, <2>5, <3>8 DEF GrowthInv, Empty
  <2> QED
      BY <1>8, <2>3, <2>4, <2>5 DEF Rotate, files
<1>9. CASE AppendLine(p)
  <2>1. next \in 1 .. MaxWrites /\ size[p] \in Nat
      BY <1>9, NextType, SizeType DEF AppendLine
  <2>2. Line(next) \in Lines
      BY <2>1 DEF Line, Lines
  <2>3. /\ Len(cur.lines) <= Len(cur'.lines) /\ Len(cur'.lines) <= Len(cur.lines) + 1
        /\ Len(cur'.lines) \in Nat
        /\ cur.exists => cur'.exists
        /\ fd[p] = "cur" => cur'.exists
        /\ fd[p] # "cur" => cur' = cur
      BY <1>9, <2>1, <2>2, PutLength DEF AppendLine
  <2>4. /\ pc[p] = "append" /\ pc'[p] = "unlock" /\ ready' = ready /\ ready[p]
        /\ count'[p].entries = count[p].entries + 1 /\ faults' = faults
        /\ \A q \in Procs : q # p => count'[q] = count[q] /\ pc'[q] = pc[q]
      BY <1>0, <1>1, <1>9 DEF AppendLine, Counts
  <2>5. Room' /\ count[p].entries < MaxEntries
      BY <1>0, <2>4 DEF Room
  <2>6. Empty'
      BY <1>0, <2>3 DEF Empty
  <2>7. SpentSlots \cup {<<p, count[p].entries + 1>>} \subseteq SpentSlots'
    <3>1. \A q \in Procs : q # p => Spent(q)' >= Spent(q)
        BY <1>0, <2>3, <2>4, CountType DEF Spent
    <3>2. Spent(p) = count[p].entries /\ Spent(p)' = count[p].entries + 1
        BY <2>4 DEF Spent
    <3>3. \A q \in Procs : Spent(q) \in Nat
        BY <1>0, CountType DEF Spent
    <3>4. \A q \in Procs : Spent(q)' \in Nat
        BY <1>0, <2>3, <2>4, CountType DEF Spent
    <3>5. \A q \in Procs, k \in 1 .. MaxEntries : k <= Spent(q) => k <= Spent(q)'
        BY <1>0, <3>1, <3>2, <3>3, <3>4, Caps
    <3>6. count[p].entries + 1 \in 1 .. MaxEntries
        BY <1>0, <2>5, Caps
    <3>7. <<p, count[p].entries + 1>> \in SpentSlots'
        BY <3>2, <3>6, <1>0 DEF SpentSlots, Slots
    <3> QED
        BY <3>5, <3>7 DEF SpentSlots, Slots
  <2>8. <<p, count[p].entries + 1>> \notin SpentSlots
      BY <1>0, <2>4 DEF SpentSlots, Spent
  <2>9. SpentSlots \in SUBSET Slots /\ SpentSlots' \in SUBSET Slots
      BY DEF SpentSlots, Slots
  <2>10. Cardinality(SpentSlots) + 1 <= Cardinality(SpentSlots')
    <3>1. Cardinality(SpentSlots \cup {<<p, count[p].entries + 1>>}) = Cardinality(SpentSlots) + 1
        BY <2>8, <2>9, SomeSlots, FS_AddElement
    <3> QED
        BY <2>7, <2>9, <3>1, MoreSlots
  <2>11. Cardinality(SpentSlots) \in Nat /\ Cardinality(SpentSlots') \in Nat
      BY <2>9, SomeSlots
  <2>12. Covered'
    <3>1. Len(cur.lines) <= Cardinality(SpentSlots) + faults * MaxEntries
        BY <1>0 DEF Covered
    <3>2. Len(cur'.lines) <= Cardinality(SpentSlots') + faults * MaxEntries
        BY <1>0, <2>3, <2>10, <2>11, <3>1, FaultRoom
    <3> QED
        BY <2>4, <3>2 DEF Covered
  <2> QED
      BY <2>5, <2>6, <2>12 DEF GrowthInv
<1>10. CASE AppendTorn(p)
  <2>1. next \in 1 .. MaxWrites /\ size[p] \in Nat
      BY <1>10, NextType, SizeType DEF AppendTorn
  <2>2. Torn(next) \in Lines
      BY <2>1 DEF Torn, Lines
  <2>3. PICK n \in 1 .. size[p] : WriteTo(p, Torn(next), n)
      BY <1>10 DEF AppendTorn
  <2>4. n \in Nat
      BY <2>1
  <2>5. /\ Len(cur.lines) <= Len(cur'.lines) /\ Len(cur'.lines) <= Len(cur.lines) + 1
        /\ Len(cur'.lines) \in Nat
        /\ cur.exists => cur'.exists
        /\ fd[p] = "cur" => cur'.exists
        /\ fd[p] # "cur" => cur' = cur
      BY <2>2, <2>3, <2>4, PutLength
  <2>6. /\ pc'[p] = "unlock" /\ ready' = ready /\ count' = count /\ faults' = faults + 1
        /\ \A q \in Procs : q # p => pc'[q] = pc[q]
      BY <1>1, <1>10 DEF AppendTorn
  <2>7. Room' /\ Empty'
      BY <1>0, <2>5, <2>6 DEF Room, Empty
  <2>8. SpentSlots \subseteq SpentSlots'
    <3>1. \A q \in Procs, k \in 1 .. MaxEntries : k <= Spent(q) => k <= Spent(q)'
        BY <1>0, <2>5, <2>6, CountType, Caps DEF Spent
    <3> QED
        BY <3>1 DEF SpentSlots, Slots
  <2>9. SpentSlots \in SUBSET Slots /\ SpentSlots' \in SUBSET Slots
      BY DEF SpentSlots, Slots
  <2>10. /\ Cardinality(SpentSlots) <= Cardinality(SpentSlots')
         /\ Cardinality(SpentSlots) \in Nat /\ Cardinality(SpentSlots') \in Nat
      BY <2>8, <2>9, MoreSlots, SomeSlots
  <2>11. Covered'
    <3>1. Len(cur.lines) <= Cardinality(SpentSlots) + faults * MaxEntries
        BY <1>0 DEF Covered
    <3>2. Len(cur'.lines) <= Cardinality(SpentSlots') + (faults + 1) * MaxEntries
      <4>1. Len(cur'.lines) + Cardinality(SpentSlots)
              <= Len(cur.lines) + Cardinality(SpentSlots') + MaxEntries
          BY <1>0, <2>5, <2>10, Caps
      <4> QED
          BY <1>0, <2>5, <2>10, <3>1, <4>1, FaultRoom, Caps, Paying
    <3> QED
        BY <2>6, <3>2 DEF Covered
  <2> QED
      BY <2>7, <2>11 DEF GrowthInv
<1>11. CASE Exit(p)
  <2>1. /\ cur' = cur /\ faults' = faults /\ pc'[p] = "idle" /\ ~ready'[p]
        /\ \A q \in Procs : q # p => /\ count'[q] = count[q] /\ pc'[q] = pc[q]
                                     /\ ready'[q] = ready[q]
      BY <1>1, <1>11 DEF Exit, files
  <2>2. Room' /\ Empty'
      BY <1>0, <2>1 DEF Room, Empty
  <2>3. SpentSlots \in SUBSET Slots /\ SpentSlots' \in SUBSET Slots
      BY DEF SpentSlots, Slots
  <2>4. \A q \in Procs : q # p => Spent(q)' = Spent(q)
      BY <2>1 DEF Spent
  <2>5. Spent(p)' = Len(cur.lines)
      BY <2>1 DEF Spent
  <2>6. CASE MaxEntries <= Len(cur.lines)
    <3>1. SpentSlots \subseteq SpentSlots'
        BY <1>0, <2>4, <2>5, <2>6, Caps DEF SpentSlots, Slots
    <3>2. Len(cur'.lines) <= Len(cur.lines)
        BY <1>0, <2>1
    <3>3. Covered'
        BY <1>0, <2>1, <3>1, <3>2, StillCovered
    <3> QED
        BY <2>2, <3>3 DEF GrowthInv
  <2>7. CASE Len(cur.lines) < MaxEntries
      \* All the lines there are fit into the slots of p.
    <3>1. Len(cur.lines) \in 0 .. MaxEntries
        BY <1>0, <2>7, Caps
    <3>2. Row(p, Len(cur.lines)) \in SUBSET Slots
          /\ Cardinality(Row(p, Len(cur.lines))) = Len(cur.lines)
        BY <3>1, RowSlots
    <3>3. Row(p, Len(cur.lines)) \subseteq SpentSlots'
        BY <2>5, <3>2 DEF Row, SpentSlots
    <3>4. Len(cur.lines) <= Cardinality(SpentSlots') /\ Cardinality(SpentSlots') \in Nat
        BY <2>3, <3>2, <3>3, MoreSlots, SomeSlots
    <3>5. Len(cur'.lines) <= Cardinality(SpentSlots') + faults * MaxEntries
        BY <1>0, <2>1, <3>4, FaultRoom
    <3>6. Covered'
        BY <2>1, <3>5 DEF Covered
    <3> QED
        BY <2>2, <3>6 DEF GrowthInv
  <2> QED
      BY <1>0, <2>6, <2>7, Caps
<1> QED
    BY <1>2, <1>3, <1>4, <1>5, <1>6, <1>7, <1>8, <1>9, <1>10, <1>11 DEF Write

\* What the reader and `audit clear' do.
LEMMA GrowthOthers ==
    ASSUME TypeOK, TypeOK', GrowthInv, Others PROVE GrowthInv'
<1>1. Room'
    BY DEF Others, ReadRotated, ReadCurrent, ShowRows, ClearStat, ClearCurrent, ClearRotated,
           ClearLock, logger, GrowthInv, Room
<1>2. CASE ClearCurrent
  <2>1. Len(cur'.lines) = 0
      BY <1>2, EmptySeq DEF ClearCurrent, Missing
  <2> QED
      BY <1>1, <2>1, GrowthEmpty
<1>3. CASE ~ClearCurrent
  <2>1. cur' = cur /\ faults' = faults /\ count' = count /\ ready' = ready
      BY <1>3 DEF Others, ReadRotated, ReadCurrent, ShowRows, ClearStat, ClearRotated,
                  ClearLock, files, logger
  <2> QED
      BY <1>1, <2>1, GrowthSame DEF Spent
<1> QED
    BY <1>2, <1>3

\* The file that N processes append to, each with its own count, holds N times the
\* entry cap at most, and one cap more for every append or rename that failed.
THEOREM SegmentBoundHolds == Spec => []SegmentBound
<1>1. Init => TypeOK /\ CountInv /\ GrowthInv
    BY TypeInit, CountInit, GrowthInit
<1>2. (TypeOK /\ CountInv /\ GrowthInv) /\ [Next]_vars => (TypeOK /\ CountInv /\ GrowthInv)'
  <2> SUFFICES ASSUME TypeOK, CountInv, GrowthInv, [Next]_vars
               PROVE  (TypeOK /\ CountInv /\ GrowthInv)'
      OBVIOUS
  <2>1. CASE UNCHANGED vars
      BY <2>1 DEF vars, files, logger, TypeOK, CountInv, Placed, Knows, Counted, Damaged,
                  shouldRotate, GrowthInv, Room, Empty, Covered, SpentSlots, Spent
  <2>2. CASE Next
      BY <2>2, Steps, TypeWrite, TypeOthers, CountWrite, CountOthers, GrowthWrite, GrowthOthers
  <2> QED
      BY <2>1, <2>2
<1>3. TypeOK /\ GrowthInv => SegmentBound
  <2> SUFFICES ASSUME TypeOK, GrowthInv PROVE SegmentBound
      OBVIOUS
  <2>1. SpentSlots \in SUBSET Slots
      BY DEF SpentSlots
  <2>2. /\ Cardinality(SpentSlots) \in Nat
        /\ Cardinality(SpentSlots) <= Cardinality(Procs) * MaxEntries
      BY <2>1, SomeSlots, SlotsFinite
  <2>3. Len(cur.lines) <= Cardinality(SpentSlots) + faults * MaxEntries
      BY DEF GrowthInv, Covered
  <2>4. /\ (Cardinality(Procs) + faults) * MaxEntries
             = Cardinality(Procs) * MaxEntries + faults * MaxEntries
        /\ Cardinality(Procs) * MaxEntries \in Nat
      BY Caps, FaultRoom
  <2> QED
      BY <2>2, <2>3, <2>4, CurType, FaultRoom DEF SegmentBound
<1> QED
    BY <1>1, <1>2, <1>3, PTL DEF Spec
=============================================================================
