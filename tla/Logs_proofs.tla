----------------------------- MODULE Logs_proofs -----------------------------
(***************************************************************************)
(* Theorems about the two logs that are written line by line: who may      *)
(* write the audit log (the lockfile, AuditLock), for any set of           *)
(* processes, any retry budget and any staleness threshold; and what the   *)
(* log of the proxy tells of a session (Proxy), for any set of clients and *)
(* any number of messages and of failed writes.                            *)
(***************************************************************************)
EXTENDS AuditLock, Proxy, SequenceTheorems, FiniteSetTheorems, WellFoundedInduction, TLAPS

(***************************************************************************)
(* The audit lockfile: type correctness.                                   *)
(***************************************************************************)

LEMMA OlderType ==
    ASSUME NEW limit \in Nat, NEW age \in 0 .. (limit + 1)
    PROVE  Older(age, limit) \in 0 .. (limit + 1)
  BY DEF Older

LEMMA FileType ==
    /\ NoFile \in Files
    /\ \A p \in Procs, w \in BOOLEAN, a \in Ages : File(p, w, a) \in Files
  BY DEF Files

LEMMA FileCases ==
    ASSUME NEW f \in Files, f.exists
    PROVE  f.owner \in Procs /\ f.written \in BOOLEAN /\ f.age \in Ages
<1>1. f # NoFile
    BY DEF NoFile
<1>2. PICK p \in Procs, w \in BOOLEAN, a \in Ages : f = File(p, w, a)
    BY <1>1 DEF Files
<1> QED
    BY <1>2 DEF File

LEMMA ZeroAge == 0 \in Ages /\ 0 \in 0 .. (Budget + 1)
  BY TimingAssumption DEF Ages

LEMMA TypeInit == Init => TypeOK
<1> SUFFICES ASSUME Init PROVE TypeOK
    OBVIOUS
<1>1. lockfile \in Files
    BY FileType DEF Init
<1> QED
    BY <1>1, ZeroAge DEF Init, TypeOK

LEMMA TypeStep == TypeOK /\ [Next]_vars => TypeOK'
<1> SUFFICES ASSUME TypeOK, [Next]_vars PROVE TypeOK'
    OBVIOUS
<1> USE TimingAssumption DEF TypeOK, Goto, Trying, Holding
<1>1. ASSUME NEW p \in Procs, Begin(p) PROVE TypeOK'
    BY <1>1 DEF Begin
<1>2. ASSUME NEW p \in Procs, CheckBudget(p) PROVE TypeOK'
    BY <1>2 DEF CheckBudget
<1>3. ASSUME NEW p \in Procs, CheckExists(p) PROVE TypeOK'
    BY <1>3, ZeroAge DEF CheckExists
<1>4. ASSUME NEW p \in Procs, ReadLock(p) PROVE TypeOK'
    BY <1>4, FileCases DEF ReadLock
<1>5. ASSUME NEW p \in Procs, JudgeAge(p) PROVE TypeOK'
    BY <1>5, ZeroAge DEF JudgeAge
<1>6. ASSUME NEW p \in Procs, RemoveStale(p) PROVE TypeOK'
  <2>1. stamp' \in [Procs -> Ages]
    BY <1>6, ZeroAge DEF RemoveStale
  <2> QED
    BY <1>6, <2>1, FileType DEF RemoveStale
<1>7. ASSUME NEW p \in Procs, CreateLock(p) PROVE TypeOK'
  <2>1. lockfile' \in Files
    <3>1. File(p, FALSE, stamp[p]) \in Files
      BY FileType
    <3> QED
      BY <1>7, <3>1 DEF CreateLock
  <2> QED
    BY <1>7, <2>1, ZeroAge DEF CreateLock
<1>8. ASSUME NEW p \in Procs, WriteLock(p) PROVE TypeOK'
  <2>1. lockfile' \in Files
    BY <1>8, FileType, FileCases DEF WriteLock
  <2> QED
    BY <1>8, <2>1, ZeroAge DEF WriteLock
<1>9. ASSUME NEW p \in Procs, AttemptFails(p) PROVE TypeOK'
    BY <1>9, ZeroAge DEF AttemptFails
<1>10. ASSUME NEW p \in Procs, Finish(p) PROVE TypeOK'
    BY <1>10 DEF Finish
<1>11. ASSUME NEW p \in Procs, Release(p) PROVE TypeOK'
    BY <1>11, FileType DEF Release
<1>12. ASSUME NEW p \in Procs, Wake(p) PROVE TypeOK'
    BY <1>12 DEF Wake
<1>13. ASSUME NEW p \in Procs, Crash(p) PROVE TypeOK'
    BY <1>13, ZeroAge DEF Crash
<1>14. CASE Tick
  <2>1. lockfile' \in Files
    BY <1>14, OlderType, FileType, FileCases DEF Tick, Ages
  <2>2. elapsed' \in [Procs -> 0 .. (Budget + 1)]
    BY <1>14, OlderType DEF Tick
  <2>3. seen' \in [Procs -> Ages] /\ stamp' \in [Procs -> Ages]
    BY <1>14, OlderType DEF Tick, Ages
  <2> QED
    BY <1>14, <2>1, <2>2, <2>3 DEF Tick
<1>15. CASE UNCHANGED vars
    BY <1>15 DEF vars
<1> QED
    BY <1>1, <1>2, <1>3, <1>4, <1>5, <1>6, <1>7, <1>8, <1>9, <1>10, <1>11,
       <1>12, <1>13, <1>14, <1>15 DEF Next, Step

\* The variables keep their types: among other things, every age stays within
\* its saturation bound.
THEOREM TypeCorrect == Spec => []TypeOK
<1>1. TypeOK /\ [Next]_vars => TypeOK'
    BY TypeStep
<1> QED
    BY TypeInit, <1>1, PTL DEF Spec

(***************************************************************************)
(* Mutual exclusion until the first takeover.  What makes it inductive is  *)
(* that a process between open('wx') and rm is the creator of the file     *)
(* that is at the path now: nobody but a process that has found a lockfile *)
(* stale removes a file it did not create.                                 *)
(***************************************************************************)

OwnerHolds == \A p \in Procs : pc[p] \in Holding => lockfile.exists /\ lockfile.owner = p

OwnershipInv == ~takeover => /\ \A p \in Procs : pc[p] # "remove"
                             /\ OwnerHolds

LEMMA OwnershipInit == Init => OwnershipInv
  BY DEF Init, OwnershipInv, OwnerHolds, Holding

LEMMA OwnershipStep == TypeOK /\ OwnershipInv /\ [Next]_vars => OwnershipInv'
<1> SUFFICES ASSUME TypeOK, OwnershipInv, [Next]_vars, ~takeover' PROVE OwnershipInv'
    BY DEF OwnershipInv
<1> USE DEF TypeOK, OwnershipInv, OwnerHolds, Goto, Holding
<1>1. ASSUME NEW p \in Procs, Begin(p) PROVE OwnershipInv'
    BY <1>1 DEF Begin
<1>2. ASSUME NEW p \in Procs, CheckBudget(p) PROVE OwnershipInv'
    BY <1>2 DEF CheckBudget
<1>3. ASSUME NEW p \in Procs, CheckExists(p) PROVE OwnershipInv'
    BY <1>3 DEF CheckExists
<1>4. ASSUME NEW p \in Procs, ReadLock(p) PROVE OwnershipInv'
    BY <1>4 DEF ReadLock
<1>5. ASSUME NEW p \in Procs, JudgeAge(p) PROVE OwnershipInv'
    BY <1>5 DEF JudgeAge
<1>6. ASSUME NEW p \in Procs, RemoveStale(p) PROVE OwnershipInv'
    BY <1>6 DEF RemoveStale
<1>7. ASSUME NEW p \in Procs, CreateLock(p) PROVE OwnershipInv'
    BY <1>7 DEF CreateLock, File
<1>8. ASSUME NEW p \in Procs, WriteLock(p) PROVE OwnershipInv'
    BY <1>8 DEF WriteLock, File
<1>9. ASSUME NEW p \in Procs, AttemptFails(p) PROVE OwnershipInv'
    BY <1>9 DEF AttemptFails
<1>10. ASSUME NEW p \in Procs, Finish(p) PROVE OwnershipInv'
    BY <1>10 DEF Finish
<1>11. ASSUME NEW p \in Procs, Release(p) PROVE OwnershipInv'
    BY <1>11 DEF Release
<1>12. ASSUME NEW p \in Procs, Wake(p) PROVE OwnershipInv'
    BY <1>12 DEF Wake
<1>13. ASSUME NEW p \in Procs, Crash(p) PROVE OwnershipInv'
    BY <1>13 DEF Crash
<1>14. CASE Tick
    BY <1>14 DEF Tick, File
<1>15. CASE UNCHANGED vars
    BY <1>15 DEF vars
<1> QED
    BY <1>1, <1>2, <1>3, <1>4, <1>5, <1>6, <1>7, <1>8, <1>9, <1>10, <1>11,
       <1>12, <1>13, <1>14, <1>15 DEF Next, Step

\* Audit writes exclude each other as long as no lockfile has been found stale.
THEOREM ExclusionUntilTakeoverHolds == Spec => []ExclusionUntilTakeover
<1>1. TypeOK /\ OwnershipInv /\ [Next]_vars => OwnershipInv'
    BY OwnershipStep
<1>2. OwnershipInv => ExclusionUntilTakeover
    BY DEF OwnershipInv, OwnerHolds, ExclusionUntilTakeover, Holding
<1> QED
    BY OwnershipInit, TypeCorrect, <1>1, <1>2, PTL DEF Spec

(***************************************************************************)
(* Mutual exclusion when everyone is prompt.  A complete lockfile then has *)
(* a holder, and a held lockfile is not stale, so none is ever found stale.*)
(***************************************************************************)

TimelyInv ==
    /\ ~takeover
    /\ \A p \in Procs : pc[p] # "remove"
    /\ OwnerHolds
    /\ \A p \in Procs : pc[p] = "write" => ~lockfile.written
    /\ lockfile.exists /\ lockfile.written => pc[lockfile.owner] \in Holding
    /\ lockfile.exists /\ pc[lockfile.owner] \in Holding => lockfile.age <= Stale
    /\ \A p \in Procs : pc[p] = "judge" => seen[p] <= Stale
    /\ \A p \in Procs : pc[p] = "create" => stamp[p] <= Stale

LEMMA TimelyNextIsNext == TimelyNext => Next
  BY DEF TimelyNext, TimelyStep, Next

LEMMA TimelyInit == Init => TimelyInv
  BY DEF Init, TimelyInv, OwnerHolds, Holding, NoFile

LEMMA TimelyInvStep == TypeOK /\ TimelyInv /\ [TimelyNext]_vars => TimelyInv'
<1> SUFFICES ASSUME TypeOK, TimelyInv, [TimelyNext]_vars PROVE TimelyInv'
    OBVIOUS
<1> USE TimingAssumption DEF TypeOK, TimelyInv, OwnerHolds, Goto, Holding
<1>1. ASSUME NEW p \in Procs, Begin(p) PROVE TimelyInv'
    BY <1>1, FileCases DEF Begin
<1>2. ASSUME NEW p \in Procs, CheckBudget(p) PROVE TimelyInv'
    BY <1>2, FileCases DEF CheckBudget
<1>3. ASSUME NEW p \in Procs, CheckExists(p) PROVE TimelyInv'
    BY <1>3, FileCases DEF CheckExists
<1>4. ASSUME NEW p \in Procs, ReadLock(p) PROVE TimelyInv'
    BY <1>4, FileCases DEF ReadLock
<1>5. ASSUME NEW p \in Procs, JudgeAge(p) PROVE TimelyInv'
    BY <1>5, FileCases DEF JudgeAge, Ages
<1>6. ASSUME NEW p \in Procs, RemoveStale(p) PROVE TimelyInv'
    BY <1>6 DEF RemoveStale
<1>7. ASSUME NEW p \in Procs, CreateLock(p) PROVE TimelyInv'
    BY <1>7, FileCases DEF CreateLock, File
<1>8. ASSUME NEW p \in Procs, WriteLock(p) PROVE TimelyInv'
    BY <1>8, FileCases DEF WriteLock, File
<1>9. ASSUME NEW p \in Procs, AttemptFails(p) PROVE TimelyInv'
    BY <1>9, FileCases DEF AttemptFails
<1>10. ASSUME NEW p \in Procs, Finish(p) PROVE TimelyInv'
    BY <1>10, FileCases DEF Finish
<1>11. ASSUME NEW p \in Procs, Release(p), ~lockfile'.exists PROVE TimelyInv'
    BY <1>11, FileCases DEF Release
<1>12. ASSUME NEW p \in Procs, Wake(p) PROVE TimelyInv'
    BY <1>12, FileCases DEF Wake
<1>13. CASE Prompt /\ Tick
  <2>1. lockfile.exists => /\ lockfile'.exists
                           /\ lockfile'.owner = lockfile.owner
                           /\ lockfile'.written = lockfile.written
                           /\ lockfile'.age = Older(lockfile.age, Stale)
    BY <1>13 DEF Tick, File
  <2>2. ~lockfile.exists => lockfile' = lockfile
    BY <1>13 DEF Tick
  <2>3. lockfile'.exists /\ pc'[lockfile'.owner] \in Holding => lockfile'.age <= Stale
    BY <1>13, <2>1, <2>2, FileCases DEF Tick, Prompt, Older, Ages
  <2>4. \A p \in Procs : /\ pc'[p] = "judge" => seen'[p] <= Stale
                         /\ pc'[p] = "create" => stamp'[p] <= Stale
    BY <1>13 DEF Tick, Prompt, Older, Ages
  <2> QED
    BY <1>13, <2>1, <2>2, <2>3, <2>4 DEF Tick
<1>14. CASE UNCHANGED vars
    BY <1>14 DEF vars
<1>15. ASSUME NEW p \in Procs, Release(p), TimelyStep(p) PROVE TimelyInv'
    BY <1>11, <1>15 DEF Release, TimelyStep
<1> QED
    BY <1>1, <1>2, <1>3, <1>4, <1>5, <1>6, <1>7, <1>8, <1>9, <1>10, <1>12,
       <1>13, <1>14, <1>15 DEF TimelyNext, TimelyStep, Step

\* JudgeAge: no lockfile of a prompt process is ever found stale.
THEOREM NoTakeoverHolds == TimelySpec => []NoTakeover
<1>1. TypeOK /\ [TimelyNext]_vars => TypeOK'
    BY TypeStep, TimelyNextIsNext
<1>2. TypeOK /\ TimelyInv /\ [TimelyNext]_vars => TimelyInv'
    BY TimelyInvStep
<1>3. TimelyInv => NoTakeover
    BY DEF TimelyInv, NoTakeover
<1> QED
    BY TypeInit, TimelyInit, <1>1, <1>2, <1>3, PTL DEF TimelySpec

(***************************************************************************)
(* Refinement: prompt processes implement Mutex.                           *)
(***************************************************************************)

LEMMA InsideInit == Init => Lock!Init
  BY DEF Init, Lock!Init, Holding

\* Only CreateLock, which needs an empty path, enters; the other steps of the
\* holder keep it inside or let it leave.
LEMMA InsideStep ==
    ASSUME TypeOK, TimelyInv, TypeOK', TimelyInv', [TimelyNext]_vars
    PROVE  [Lock!Next]_{p \in Procs : pc[p] \in Holding}
<1> DEFINE Inside == {p \in Procs : pc[p] \in Holding}
<1>1. \A p \in Procs : p \in Inside => Inside = {p}
    BY DEF TimelyInv, OwnerHolds
<1>2. \A p \in Procs : p \in Inside' => Inside' = {p}
    BY DEF TimelyInv, OwnerHolds
<1>3. ASSUME NEW p \in Procs, \A q \in Procs \ {p} : pc'[q] = pc[q]
      PROVE  \/ Inside' = Inside
             \/ Inside = {} /\ Inside' = {p}
             \/ Inside = {p} /\ Inside' = {}
  <2>1. CASE p \in Inside /\ p \in Inside'
      BY <1>1, <1>2, <2>1
  <2>2. CASE p \in Inside /\ p \notin Inside'
      BY <1>1, <1>3, <2>2
  <2>3. CASE p \notin Inside /\ p \in Inside'
      BY <1>2, <1>3, <2>3
  <2>4. CASE p \notin Inside /\ p \notin Inside'
      BY <1>3, <2>4
  <2> QED
      BY <2>1, <2>2, <2>3, <2>4
<1>4. ASSUME NEW p \in Procs, TimelyStep(p)
      PROVE  \A q \in Procs \ {p} : pc'[q] = pc[q]
    BY <1>4 DEF TypeOK, TimelyStep, Step, Goto, Begin, CheckBudget, CheckExists, ReadLock,
       JudgeAge, RemoveStale, CreateLock, WriteLock, AttemptFails, Finish, Release, Wake
<1>5. ASSUME pc' = pc PROVE Inside' = Inside
    BY <1>5
<1>6. CASE \E p \in Procs : TimelyStep(p)
    BY <1>3, <1>4, <1>6 DEF Lock!Next, Lock!Enter, Lock!Leave
<1>7. CASE Prompt /\ Tick
    BY <1>5, <1>7 DEF Tick
<1>8. CASE UNCHANGED vars
    BY <1>5, <1>8 DEF vars
<1> QED
    BY <1>6, <1>7, <1>8 DEF TimelyNext

\* The lockfile of prompt processes is a mutual exclusion lock.
THEOREM TimelyImplementsMutex == TimelySpec => ImplementsMutex
<1>1. TypeOK /\ [TimelyNext]_vars => TypeOK'
    BY TypeStep, TimelyNextIsNext
<1>2. TypeOK /\ TimelyInv /\ [TimelyNext]_vars => TimelyInv'
    BY TimelyInvStep
<1>3. TypeOK /\ TimelyInv /\ TypeOK' /\ TimelyInv' /\ [TimelyNext]_vars
      => [Lock!Next]_{p \in Procs : pc[p] \in Holding}
    BY InsideStep
<1> QED
    BY TypeInit, TimelyInit, InsideInit, <1>1, <1>2, <1>3, PTL
       DEF TimelySpec, ImplementsMutex, Lock!Spec

(***************************************************************************)
(* The retry budget: what can be proved of WithLockReturns.  That a        *)
(* process takes its next step and that time passes are fairness; the rest *)
(* is that either brings it closer to the end.                             *)
(***************************************************************************)

Acquiring == Trying \cup {"write"}

\* How many steps there are at most from a place to the head of the retry loop, and out.
StepsLeft(place) ==
    CASE place = "exists" -> 8 [] place = "read" -> 7 [] place = "judge" -> 6
      [] place = "remove" -> 5 [] place = "create" -> 4 [] place = "write" -> 3
      [] place \in {"sleep", "critical"} -> 2
      [] place \in {"budget", "release"} -> 1 [] place = "idle" -> 0

\* acquireLock and releaseLock: each step but the beginning of another attempt within
\* the budget brings withLock closer to its return; until it has the lock, a process
\* is never given back what it has spent of the budget, and time always takes more of
\* it.  So with the budget spent, eight steps of its own are left at most.
BudgetIsKept ==
    [][\A p \in Procs :
         /\ Step(p) /\ ~(pc[p] = "budget" /\ elapsed[p] <= Budget)
              => StepsLeft(pc'[p]) < StepsLeft(pc[p])
         /\ pc[p] \in Acquiring /\ pc'[p] \in Acquiring => elapsed[p] <= elapsed'[p]
         /\ pc[p] \in Acquiring /\ Tick => elapsed'[p] > elapsed[p] \/ elapsed[p] > Budget]_vars

LEMMA StepsLeftAt ==
    /\ StepsLeft("exists") = 8 /\ StepsLeft("read") = 7 /\ StepsLeft("judge") = 6
    /\ StepsLeft("remove") = 5 /\ StepsLeft("create") = 4 /\ StepsLeft("write") = 3
    /\ StepsLeft("sleep") = 2 /\ StepsLeft("critical") = 2
    /\ StepsLeft("budget") = 1 /\ StepsLeft("release") = 1 /\ StepsLeft("idle") = 0
BY DEF StepsLeft

LEMMA BudgetStep ==
    ASSUME TypeOK, [Next]_vars, NEW p \in Procs
    PROVE  /\ Step(p) /\ ~(pc[p] = "budget" /\ elapsed[p] <= Budget)
                => StepsLeft(pc'[p]) < StepsLeft(pc[p])
           /\ pc[p] \in Acquiring /\ pc'[p] \in Acquiring => elapsed[p] <= elapsed'[p]
           /\ pc[p] \in Acquiring /\ Tick => elapsed'[p] > elapsed[p] \/ elapsed[p] > Budget
<1>1. /\ pc \in [Procs -> {"idle"} \cup Trying \cup Holding] /\ elapsed \in [Procs -> 0 .. (Budget + 1)]
      /\ Budget \in Nat
    BY TimingAssumption DEF TypeOK
<1>2. elapsed[p] \in 0 .. (Budget + 1) /\ elapsed[p] \in Nat
    BY <1>1
<1>3. ASSUME Step(p), ~(pc[p] = "budget" /\ elapsed[p] <= Budget)
      PROVE  StepsLeft(pc'[p]) < StepsLeft(pc[p])
  <2> USE <1>1, <1>2, <1>3, StepsLeftAt DEF Goto
  <2>1. CASE CheckBudget(p)
      BY <2>1 DEF CheckBudget
  <2>2. CASE CheckExists(p)
      BY <2>2 DEF CheckExists
  <2>3. CASE ReadLock(p)
      BY <2>3 DEF ReadLock
  <2>4. CASE JudgeAge(p)
      BY <2>4 DEF JudgeAge
  <2>5. CASE RemoveStale(p)
      BY <2>5 DEF RemoveStale
  <2>6. CASE CreateLock(p)
    <3>1. pc[p] = "create" /\ pc'[p] \in {"write", "sleep"}
        BY ONLY <1>1, <2>6 DEF CreateLock, Goto
    <3> QED
        BY ONLY <3>1, StepsLeftAt
  <2>7. CASE WriteLock(p)
      BY <2>7 DEF WriteLock
  <2>8. CASE AttemptFails(p)
      BY <2>8 DEF AttemptFails
  <2>9. CASE Finish(p)
      BY <2>9 DEF Finish
  <2>10. CASE Release(p)
    <3>1. pc[p] = "release" /\ pc'[p] = "idle"
        BY ONLY <1>1, <2>10 DEF Release, Goto
    <3> QED
        BY ONLY <3>1, StepsLeftAt
  <2>11. CASE Wake(p)
      BY <2>11 DEF Wake
  <2> QED
      BY <2>1, <2>2, <2>3, <2>4, <2>5, <2>6, <2>7, <2>8, <2>9, <2>10, <2>11 DEF Step
<1>4. ASSUME NEW q \in Procs, Begin(q) \/ Step(q) \/ Crash(q), pc[p] \in Acquiring, pc'[p] \in Acquiring
      PROVE  elapsed'[p] = elapsed[p]
  <2> USE <1>1, <1>4 DEF Goto, Acquiring, Trying
  <2>1. CASE Begin(q)
      BY <2>1 DEF Begin
  <2>2. CASE CheckBudget(q)
      BY <2>2 DEF CheckBudget
  <2>3. CASE WriteLock(q)
      BY <2>3 DEF WriteLock
  <2>4. CASE Crash(q)
      BY <2>4 DEF Crash
  <2>5. CASE \/ CheckExists(q) \/ ReadLock(q) \/ JudgeAge(q) \/ RemoveStale(q) \/ CreateLock(q)
             \/ AttemptFails(q) \/ Finish(q) \/ Release(q) \/ Wake(q)
      BY <2>5 DEF CheckExists, ReadLock, JudgeAge, RemoveStale, CreateLock, AttemptFails,
         Finish, Release, Wake
  <2> QED
      BY <2>1, <2>2, <2>3, <2>4, <2>5 DEF Step
<1>5. ASSUME pc[p] \in Acquiring, Tick
      PROVE  /\ elapsed[p] <= elapsed'[p]
             /\ elapsed'[p] > elapsed[p] \/ elapsed[p] > Budget
  <2>1. elapsed'[p] = Older(elapsed[p], Budget)
      BY <1>5 DEF Tick, Acquiring
  <2> QED
      BY <1>1, <1>2, <2>1 DEF Older
<1>6. CASE UNCHANGED vars
    BY <1>2, <1>3, <1>5, <1>6 DEF vars
<1> QED
    BY <1>2, <1>3, <1>4, <1>5, <1>6 DEF Next

\* BudgetIsKept, for any budget and any number of processes that contend or are killed.
THEOREM BudgetIsKeptHolds == Spec => BudgetIsKept
<1>1. TypeOK /\ [Next]_vars =>
        [\A p \in Procs :
           /\ Step(p) /\ ~(pc[p] = "budget" /\ elapsed[p] <= Budget)
                => StepsLeft(pc'[p]) < StepsLeft(pc[p])
           /\ pc[p] \in Acquiring /\ pc'[p] \in Acquiring => elapsed[p] <= elapsed'[p]
           /\ pc[p] \in Acquiring /\ Tick => elapsed'[p] > elapsed[p] \/ elapsed[p] > Budget]_vars
    BY BudgetStep
<1> QED
    BY TypeCorrect, <1>1, PTL DEF Spec, BudgetIsKept

(***************************************************************************)
(* What can be proved of OrphanRecovered.  That somebody comes, is not     *)
(* killed and meets no error is its assumption; the rest is that an orphan *)
(* cannot change, and that whoever comes once it is old enough goes        *)
(* straight to removing it, unless a call rejects.                         *)
(***************************************************************************)

RemovesIt(p) ==
    /\ pc[p] = "exists" => pc'[p] = "read"
    /\ pc[p] = "read" => pc'[p] = "judge" /\ seen'[p] > Stale
    /\ pc[p] = "judge" /\ seen[p] > Stale => pc'[p] = "remove"
    /\ pc[p] = "remove" => ~lockfile'.exists

\* tryAcquireLock: nobody takes an orphan for his own, writes to it or makes it younger, a
\* process that was given its name again included; it ages until it is past the threshold,
\* and from then on each step of an attempt is one towards removing it, or a call that
\* rejects and ends the attempt; an age that was read never gets younger before it is
\* judged.
OrphanIsDoomed ==
    [][Orphan =>
         /\ lockfile'.exists =>
              /\ Orphan' /\ lockfile'.owner = lockfile.owner
              /\ lockfile.age <= lockfile'.age
              /\ Tick => lockfile'.age > lockfile.age \/ lockfile.age > Stale
         /\ lockfile.age > Stale => \A p \in Procs : Step(p) => RemovesIt(p) \/ AttemptFails(p)
         /\ \A p \in Procs : pc[p] = "judge" /\ pc'[p] = "judge" => seen[p] <= seen'[p]]_vars

\* A step of a process leaves an orphan alone or removes it.
LEMMA OrphanStays ==
    ASSUME TypeOK, Orphan, NEW p \in Procs, Begin(p) \/ Step(p) \/ Crash(p)
    PROVE  lockfile' = lockfile \/ ~lockfile'.exists
<1> USE DEF Goto, Orphan, Holding
<1>1. ~NoFile.exists
    BY DEF NoFile
<1>2. CASE WriteLock(p)
    BY <1>2 DEF WriteLock
<1>3. CASE RemoveStale(p) \/ Release(p)
    BY <1>1, <1>3 DEF RemoveStale, Release
<1>4. CASE CreateLock(p)
    BY <1>4 DEF CreateLock
<1>5. CASE Begin(p) \/ Crash(p)
    BY <1>5 DEF Begin, Crash
<1>6. CASE CheckBudget(p) \/ CheckExists(p) \/ ReadLock(p) \/ JudgeAge(p)
    BY <1>6 DEF CheckBudget, CheckExists, ReadLock, JudgeAge
<1>7. CASE AttemptFails(p) \/ Finish(p) \/ Wake(p)
    BY <1>7 DEF AttemptFails, Finish, Wake
<1> QED
    BY <1>2, <1>3, <1>4, <1>5, <1>6, <1>7 DEF Step

\* Its owner does not come by it again.
LEMMA OwnerStaysAway ==
    ASSUME TypeOK, Orphan, NEW p \in Procs, Begin(p) \/ Step(p) \/ Crash(p)
    PROVE  pc'[lockfile.owner] \notin Holding
<1>1. lockfile.owner \in Procs /\ pc[lockfile.owner] \notin Holding /\ lockfile.exists
    BY FileCases DEF Orphan, TypeOK
<1> DEFINE o == lockfile.owner
<1>2. pc \in [Procs -> {"idle"} \cup Trying \cup Holding]
    BY DEF TypeOK
<1> HIDE DEF o
<1>3. ASSUME NEW place, NEW next, next \notin Holding,
             Goto(p, place, next) \/ pc' = [pc EXCEPT ![p] = next]
      PROVE  pc'[o] \notin Holding
    BY <1>1, <1>2, <1>3 DEF Goto, o
<1>4. ASSUME NEW place \in Holding, NEW next, Goto(p, place, next)
      PROVE  pc'[o] \notin Holding
    BY <1>1, <1>2, <1>4 DEF Goto, o
<1>5. CASE CreateLock(p)
  <2>1. Goto(p, "create", "sleep")
      BY <1>1, <1>5 DEF CreateLock
  <2> QED
      BY <2>1, <1>3 DEF Holding, o
<1>6. CASE WriteLock(p) \/ Finish(p) \/ Release(p)
    BY <1>4, <1>6 DEF WriteLock, Finish, Release, Holding, o
<1>7. CASE Begin(p) \/ Crash(p) \/ CheckBudget(p) \/ CheckExists(p)
    BY <1>3, <1>7 DEF Begin, Crash, CheckBudget, CheckExists, Holding, o
<1>8. CASE ReadLock(p) \/ JudgeAge(p) \/ RemoveStale(p) \/ Wake(p)
    BY <1>3, <1>8 DEF ReadLock, JudgeAge, RemoveStale, Wake, Holding, o
<1>9. CASE AttemptFails(p)
    BY <1>3, <1>9 DEF AttemptFails, Holding, o
<1> QED
    BY <1>5, <1>6, <1>7, <1>8, <1>9 DEF Step

LEMMA OrphanAges ==
    ASSUME TypeOK, Orphan, Tick
    PROVE  /\ Orphan' /\ lockfile'.owner = lockfile.owner
           /\ lockfile.age <= lockfile'.age
           /\ lockfile'.age > lockfile.age \/ lockfile.age > Stale
<1>1. lockfile.owner \in Procs /\ lockfile.age \in Nat /\ Stale \in Nat
    BY FileCases, TimingAssumption DEF Orphan, TypeOK, Ages
<1>2. lockfile' = File(lockfile.owner, lockfile.written, Older(lockfile.age, Stale)) /\ pc' = pc
    BY DEF Tick, Orphan
<1>3. /\ lockfile'.exists /\ lockfile'.owner = lockfile.owner
      /\ lockfile'.written = lockfile.written /\ lockfile'.age = Older(lockfile.age, Stale)
    BY <1>2 DEF File
<1>4. Orphan'
    BY <1>2, <1>3 DEF Orphan
<1>5. lockfile.age <= lockfile'.age /\ (lockfile'.age > lockfile.age \/ lockfile.age > Stale)
  <2>1. lockfile'.age = IF lockfile.age > Stale THEN lockfile.age ELSE lockfile.age + 1
      BY <1>3 DEF Older
  <2> QED
      BY ONLY <1>1, <2>1
<1> QED
    BY <1>3, <1>4, <1>5

\* An attempt that finds it past the threshold.
LEMMA AttemptRemoves ==
    ASSUME TypeOK, Orphan, lockfile.age > Stale, NEW p \in Procs, Step(p)
    PROVE  RemovesIt(p) \/ AttemptFails(p)
<1>1. pc \in [Procs -> {"idle"} \cup Trying \cup Holding] /\ seen \in [Procs -> Ages]
    BY DEF TypeOK
<1>2. ~NoFile.exists /\ lockfile.exists /\ lockfile.written
    BY DEF NoFile, Orphan
<1>3. /\ Stale \in Nat
      /\ seen[p] \in Int
    BY <1>1, TimingAssumption DEF Ages
<1> USE DEF Goto, RemovesIt
<1>4. CASE CheckExists(p)
    BY <1>1, <1>2, <1>4 DEF CheckExists
<1>5. CASE ReadLock(p)
    BY <1>1, <1>2, <1>5 DEF ReadLock
<1>6. CASE JudgeAge(p)
    BY <1>1, <1>3, <1>6 DEF JudgeAge
<1>7. CASE RemoveStale(p)
    BY <1>1, <1>2, <1>7 DEF RemoveStale
<1>8. CASE \/ CheckBudget(p) \/ CreateLock(p) \/ WriteLock(p) \/ Finish(p)
           \/ Release(p) \/ Wake(p)
  <2>1. pc[p] \notin {"exists", "read", "judge", "remove"}
      BY <1>8 DEF CheckBudget, CreateLock, WriteLock, Finish, Release, Wake
  <2> QED
      BY <2>1
<1> QED
    BY <1>4, <1>5, <1>6, <1>7, <1>8 DEF Step

\* What was read of it waits to be judged, and only gets older.
LEMMA ReadingAges ==
    ASSUME TypeOK, [Next]_vars, NEW p \in Procs, pc[p] = "judge", pc'[p] = "judge"
    PROVE  seen[p] <= seen'[p]
<1>1. pc \in [Procs -> {"idle"} \cup Trying \cup Holding] /\ seen \in [Procs -> Ages]
    BY DEF TypeOK
<1>2. seen[p] \in Nat /\ Stale \in Nat
    BY <1>1, TimingAssumption DEF Ages
<1>3. CASE Tick
  <2>1. seen'[p] = Older(seen[p], Stale)
      BY <1>3 DEF Tick
  <2> QED
      BY <1>2, <2>1 DEF Older
<1>4. ASSUME NEW q \in Procs, Begin(q) \/ Step(q) \/ Crash(q)
      PROVE  seen'[p] = seen[p]
  <2> USE <1>1, <1>4 DEF Goto
  <2>1. CASE JudgeAge(q) \/ ReadLock(q)
      BY <2>1 DEF JudgeAge, ReadLock
  <2>2. CASE Crash(q)
      BY <2>2 DEF Crash
  <2>3. CASE Begin(q) \/ CheckBudget(q) \/ CheckExists(q) \/ RemoveStale(q) \/ CreateLock(q)
      BY <2>3 DEF Begin, CheckBudget, CheckExists, RemoveStale, CreateLock
  <2>4. CASE WriteLock(q) \/ AttemptFails(q) \/ Finish(q) \/ Release(q) \/ Wake(q)
      BY <2>4 DEF WriteLock, AttemptFails, Finish, Release, Wake
  <2> QED
      BY <2>1, <2>2, <2>3, <2>4 DEF Step
<1>5. CASE UNCHANGED vars
    BY <1>2, <1>5 DEF vars
<1> QED
    BY <1>2, <1>3, <1>4, <1>5 DEF Next

LEMMA OrphanStep ==
    ASSUME TypeOK, [Next]_vars, Orphan, lockfile'.exists
    PROVE  /\ Orphan' /\ lockfile'.owner = lockfile.owner
           /\ lockfile.age <= lockfile'.age
           /\ Tick => lockfile'.age > lockfile.age \/ lockfile.age > Stale
<1>1. lockfile.age \in Nat
    BY FileCases DEF Orphan, TypeOK, Ages
<1>2. CASE Tick
    BY <1>2, OrphanAges
<1>3. CASE ~Tick /\ UNCHANGED vars
    BY <1>1, <1>3 DEF vars, Orphan
<1>4. CASE ~Tick /\ Next
  <2>1. PICK p \in Procs : Begin(p) \/ Step(p) \/ Crash(p)
      BY <1>4 DEF Next
  <2>2. lockfile' = lockfile
      BY <2>1, OrphanStays
  <2>3. pc'[lockfile.owner] \notin Holding
      BY <2>1, OwnerStaysAway
  <2> QED
      BY <1>1, <1>4, <2>2, <2>3 DEF Orphan
<1> QED
    BY <1>2, <1>3, <1>4

\* OrphanIsDoomed, for any thresholds and any number of processes, killed or not.
THEOREM OrphanIsDoomedHolds == Spec => OrphanIsDoomed
<1>1. TypeOK /\ [Next]_vars =>
        [Orphan =>
           /\ lockfile'.exists =>
                /\ Orphan' /\ lockfile'.owner = lockfile.owner
                /\ lockfile.age <= lockfile'.age
                /\ Tick => lockfile'.age > lockfile.age \/ lockfile.age > Stale
           /\ lockfile.age > Stale => \A p \in Procs : Step(p) => RemovesIt(p) \/ AttemptFails(p)
           /\ \A p \in Procs : pc[p] = "judge" /\ pc'[p] = "judge" => seen[p] <= seen'[p]]_vars
    BY OrphanStep, AttemptRemoves, ReadingAges
<1> QED
    BY TypeCorrect, <1>1, PTL DEF Spec, OrphanIsDoomed
----------------------------------------------------------------------------

(***************************************************************************)
(* Induction.  A set of naturals is well-founded, so a set that holds 0    *)
(* and the successor of each of its elements holds them all.               *)
(***************************************************************************)

LEMMA LeastElement ==
    ASSUME NEW B \in SUBSET Nat, B # {}
    PROVE  \E m \in B : \A b \in B : ~(b < m)
<1>1. \E m \in B : \A b \in B : ~(<<b, m>> \in OpToRel(<, Nat))
    BY NatLessThanWellFounded, WFMin
<1>2. \A b, m \in Nat : b < m => <<b, m>> \in OpToRel(<, Nat)
    BY DEF OpToRel
<1> QED
    BY <1>1, <1>2

LEMMA NaturalsOf ==
    ASSUME NEW B \in SUBSET Nat, 0 \in B, \A n \in B : n + 1 \in B
    PROVE  B = Nat
<1> SUFFICES ASSUME Nat \ B # {} PROVE FALSE
    OBVIOUS
<1>1. PICK m \in Nat \ B : \A b \in Nat \ B : ~(b < m)
    BY LeastElement
<1>2. m # 0 /\ m - 1 \in Nat /\ m - 1 < m
    BY <1>1
<1>3. m - 1 \in B
    BY <1>1, <1>2
<1>4. (m - 1) + 1 = m
    BY <1>1
<1> QED
    BY <1>1, <1>3, <1>4

(***************************************************************************)
(* Relay: the recursion is well-defined, so what every relayed message     *)
(* preserves is preserved by relaying all of them.                         *)
(***************************************************************************)

LEMMA RelaySteps ==
    ASSUME NEW k, NEW early \in Seq(Messages)
    PROVE  \E f : /\ f[0] = k
                  /\ \A n \in 1 .. Len(early) : f[n] = FromClient(f[n - 1], early[n])
                  /\ Relay(k, early) = f[Len(early)]
<1> DEFINE L == Len(early)
           Is(f, m) == f = [n \in 0 .. m |-> IF n = 0 THEN k ELSE FromClient(f[n - 1], early[n])]
           B == {m \in Nat : \E f : Is(f, m)}
<1>1. L \in Nat
    BY LenProperties
<1>2. 0 \in B
  <2> DEFINE f == [n \in 0 .. 0 |-> k]
  <2>1. f = [n \in 0 .. 0 |-> IF n = 0 THEN k ELSE FromClient(f[n - 1], early[n])]
      OBVIOUS
  <2> QED
      BY <2>1
<1>3. ASSUME NEW m \in B PROVE m + 1 \in B
  <2>1. PICK f : Is(f, m)
      OBVIOUS
  <2> DEFINE g == [n \in 0 .. m + 1 |-> IF n = m + 1 THEN FromClient(f[m], early[m + 1]) ELSE f[n]]
  <2>2. ASSUME NEW n \in 0 .. m + 1
        PROVE  g[n] = IF n = 0 THEN k ELSE FromClient(g[n - 1], early[n])
    <3>1. CASE n = m + 1
        BY <3>1
    <3>2. CASE n # m + 1
      <4>1. n \in 0 .. m /\ g[n] = f[n]
          BY <3>2
      <4>2. f[n] = IF n = 0 THEN k ELSE FromClient(f[n - 1], early[n])
          BY <2>1, <4>1
      <4>3. n # 0 => g[n - 1] = f[n - 1]
          BY <4>1
      <4> QED
          BY <4>1, <4>2, <4>3
    <3> QED
        BY <3>1, <3>2
  <2>3. Is(g, m + 1)
      BY <2>2
  <2>4. m + 1 \in Nat /\ \E h : Is(h, m + 1)
    <3>1. m \in Nat
        OBVIOUS
    <3> HIDE DEF g, Is
    <3> QED
        BY <2>3, <3>1
  <2> HIDE DEF Is
  <2> QED
      BY <2>4
<1>4. B = Nat
    BY <1>2, <1>3, NaturalsOf
<1> DEFINE relayed == CHOOSE f : Is(f, L)
<1>5. Is(relayed, L)
    BY <1>1, <1>4
<1>6. Relay(k, early) = relayed[L]
    BY DEF Relay
<1> HIDE DEF relayed
<1>7. relayed[0] = k
    BY <1>1, <1>5
<1>8. \A n \in 1 .. L : relayed[n] = FromClient(relayed[n - 1], early[n])
    BY <1>1, <1>5
<1> QED
    BY <1>6, <1>7, <1>8

\* A family of sets that the messages lead through, one after the other.
LEMMA RelayKeeps ==
    ASSUME NEW k, NEW early \in Seq(Messages), NEW S, k \in S[0],
           \A n \in 1 .. Len(early) : \A x \in S[n - 1] : FromClient(x, early[n]) \in S[n]
    PROVE  Relay(k, early) \in S[Len(early)]
<1> DEFINE L == Len(early)
<1>1. PICK f : /\ f[0] = k
               /\ \A n \in 1 .. L : f[n] = FromClient(f[n - 1], early[n])
               /\ Relay(k, early) = f[L]
    BY RelaySteps
<1> DEFINE B == {n \in Nat : n <= L => f[n] \in S[n]}
<1>2. L \in Nat
    BY LenProperties
<1> HIDE DEF L
<1>3. 0 \in B
    BY <1>1
<1>4. ASSUME NEW n \in B PROVE n + 1 \in B
  <2> SUFFICES ASSUME n + 1 <= L PROVE f[n + 1] \in S[n + 1]
      OBVIOUS
  <2>1. n + 1 \in 1 .. L /\ (n + 1) - 1 = n /\ n <= L
      BY <1>2
  <2>2. f[n] \in S[n] /\ f[n + 1] = FromClient(f[n], early[n + 1])
      BY <1>1, <2>1
  <2>3. \A x \in S[n] : FromClient(x, early[n + 1]) \in S[n + 1]
      BY <2>1 DEF L
  <2> QED
      BY <2>2, <2>3
<1>5. B = Nat
    BY <1>3, <1>4, NaturalsOf
<1> QED
    BY <1>1, <1>2, <1>5 DEF L

(***************************************************************************)
(* The inductive invariant.  It speaks of everything a session has asked   *)
(* to be written: the lines of its log, and after them its chain.          *)
(***************************************************************************)

Connections ==
    [phase : {"none", "connecting", "live", "failed", "refused"},
     client : Sockets, upstream : Sockets, early : Seq(Messages), wire : Seq(Nat),
     awaiting : BOOLEAN, active : Nat, counter : Nat, chain : Seq(Events),
     log : Seq(Events), queries : Nat, pipelined : BOOLEAN, unended : SUBSET Nat,
     leftEarly : BOOLEAN]

Written(k) == Range(k.log) \cup Range(k.chain)

\* What may precede what.
Precedes(a, b) ==
    /\ a.id = b.id /\ a.id # 0 /\ (Answer(a) \/ Answer(b)) => a.type = "observed"
    /\ a.type = "observed" /\ b.type = "observed" => a.id < b.id
    /\ ~(a.type = "started" /\ b.type = "started")

InOrder(s) == \A i, j \in DOMAIN s : i < j => Precedes(s[i], s[j])

RecordInOrder(k) ==
    /\ InOrder(k.log) /\ InOrder(k.chain)
    /\ \A a \in Range(k.log), b \in Range(k.chain) : Precedes(a, b)

\* Numbers are taken in order, and the active query is awaited and not yet answered.
Numbered(k) ==
    /\ \A e \in Written(k) : e.id <= k.counter
    /\ k.active <= k.counter
    /\ k.active # 0 => k.awaiting
    /\ k.active # 0 => \A e \in Written(k) : e.id = k.active => e.type = "observed"

\* The answer is the response to its query, or that was none and this is to no query.
OwnAnswer(e, unended) == e.id = e.reply \/ (e.reply = 0 /\ e.id \in unended)

\* A client that waits for each response has one message on the wire at most, and it
\* is the active query if it is a query; an active query that is not on the wire was
\* left active by the response to it.
OneAtATime(k) ==
    ~k.pipelined =>
      /\ Len(k.wire) <= 1
      /\ k.wire = <<>> => k.active = 0 \/ k.active \in k.unended
      /\ k.wire # <<>> =>
           k.active = k.wire[1] \/ (k.wire[1] = 0 /\ k.active \in k.unended)
      /\ \A e \in Written(k) : Answer(e) => OwnAnswer(e, k.unended)

Session(k) == k \in Connections /\ RecordInOrder(k) /\ Numbered(k) /\ OneAtATime(k)

\* The phases of a connection.
Phases(k) ==
    /\ k.early # <<>> => k.phase \in {"connecting", "failed"}
    /\ k.phase = "connecting" /\ ~k.pipelined => Len(k.early) <= 1
    /\ k.phase # "live" => k.upstream = "none"
    /\ k.phase \in {"none", "refused", "connecting"} =>
         /\ k.log = <<>> /\ k.chain = <<>> /\ k.wire = <<>>
         /\ k.counter = 0 /\ k.active = 0 /\ ~k.awaiting

Observed(k) == {n \in Nat : \E e \in Written(k) : e.type = "observed" /\ e.id = n}

QueriesIn(early, n) == {i \in 1 .. n : early[i] = "query"}

\* What holds of a record of which nothing was lost.
Complete(k) ==
    /\ k.phase = "connecting" => k.queries = Cardinality(QueriesIn(k.early, Len(k.early)))
    /\ k.phase = "live" => IsFiniteSet(Observed(k)) /\ Cardinality(Observed(k)) = k.queries
    /\ k.phase \in {"live", "failed"} => \E e \in Written(k) : e.type = "started"
    /\ k.phase = "connecting" /\ k.client \in {"broken", "closed"} => k.leftEarly
    /\ k.phase = "live" /\ k.client = "closed" /\ ~k.leftEarly
         => \E e \in Written(k) : e.type = "ended"
    /\ k.phase = "failed"
         => Then("endFailed") \in Range(k.chain) \/ \E e \in Written(k) : e.type = "ended"

SessionsInv ==
    /\ conn \in [Clients -> Connections]
    /\ writeFailed = (failures > 0)
    /\ messages \in 0 .. MaxMessages /\ failures \in 0 .. MaxFailures
    /\ \A c \in Clients : Session(conn[c]) /\ Phases(conn[c])
    /\ ~writeFailed => \A c \in Clients : Complete(conn[c])

(***************************************************************************)
(* Sequences of events.                                                    *)
(***************************************************************************)

LEMMA RangeAppend ==
    ASSUME NEW S, NEW s \in Seq(S), NEW e \in S
    PROVE  /\ Append(s, e) \in Seq(S)
           /\ Range(Append(s, e)) = Range(s) \cup {e}
<1>1. Append(s, e) \in Seq(S)
    OBVIOUS
<1>2. Range(s) = {s[i] : i \in 1 .. Len(s)}
    BY RangeEquality
<1>3. Range(Append(s, e)) = {Append(s, e)[i] : i \in 1 .. Len(Append(s, e))}
    BY <1>1, RangeEquality
<1>4. Len(s) \in Nat /\ Len(Append(s, e)) = Len(s) + 1
    OBVIOUS
<1>5. \A i \in 1 .. Len(s) + 1 : Append(s, e)[i] = IF i <= Len(s) THEN s[i] ELSE e
    OBVIOUS
<1> QED
    BY <1>1, <1>2, <1>3, <1>4, <1>5

LEMMA RangeTail ==
    ASSUME NEW S, NEW s \in Seq(S), s # <<>>
    PROVE  /\ Tail(s) \in Seq(S) /\ Head(s) \in S
           /\ Range(s) = Range(Tail(s)) \cup {Head(s)}
<1>1. /\ Tail(s) \in Seq(S) /\ Head(s) \in S /\ Head(s) = s[1]
      /\ Len(s) \in Nat /\ Len(s) > 0 /\ Len(Tail(s)) = Len(s) - 1
      /\ \A i \in 1 .. Len(s) - 1 : Tail(s)[i] = s[i + 1]
    BY HeadTailProperties, EmptySeq
<1>2. Range(s) = {s[i] : i \in 1 .. Len(s)}
    BY RangeEquality
<1>3. Range(Tail(s)) = {Tail(s)[i] : i \in 1 .. Len(Tail(s))}
    BY <1>1, RangeEquality
<1>4. ASSUME NEW i \in 1 .. Len(s)
      PROVE  s[i] \in Range(Tail(s)) \cup {Head(s)}
  <2>1. CASE i = 1
      BY <1>1, <2>1
  <2>2. CASE i # 1
    <3>1. i - 1 \in 1 .. Len(s) - 1 /\ (i - 1) + 1 = i
        BY <1>1, <2>2
    <3>2. Tail(s)[i - 1] = s[i]
        BY <1>1, <3>1
    <3> QED
        BY <1>1, <1>3, <3>1, <3>2
  <2> QED
      BY <2>1, <2>2
<1>5. ASSUME NEW i \in 1 .. Len(s) - 1 PROVE Tail(s)[i] \in Range(s)
  <2>1. i + 1 \in 1 .. Len(s)
      BY <1>1
  <2> QED
      BY <1>1, <1>2, <2>1
<1>6. 1 \in 1 .. Len(s)
    BY <1>1
<1>7. Head(s) \in Range(s)
    BY <1>1, <1>2, <1>6
<1>8. Range(s) \subseteq Range(Tail(s)) \cup {Head(s)}
    BY <1>2, <1>4
<1>9. Range(Tail(s)) \subseteq Range(s)
    BY <1>1, <1>3, <1>5
<1> QED
    BY <1>1, <1>7, <1>8, <1>9

LEMMA OrderAppend ==
    ASSUME NEW s \in Seq(Events), NEW e \in Events, InOrder(s),
           \A a \in Range(s) : Precedes(a, e)
    PROVE  InOrder(Append(s, e))
<1>1. DOMAIN Append(s, e) = 1 .. Len(s) + 1 /\ DOMAIN s = 1 .. Len(s) /\ Len(s) \in Nat
    OBVIOUS
<1>2. \A i \in 1 .. Len(s) + 1 : Append(s, e)[i] = IF i <= Len(s) THEN s[i] ELSE e
    OBVIOUS
<1>3. \A i \in 1 .. Len(s) : Precedes(s[i], e)
    BY RangeEquality
<1> SUFFICES ASSUME NEW i \in 1 .. Len(s) + 1, NEW j \in 1 .. Len(s) + 1, i < j
             PROVE  Precedes(Append(s, e)[i], Append(s, e)[j])
    BY <1>1 DEF InOrder
<1>4. i \in 1 .. Len(s) /\ Append(s, e)[i] = s[i]
    BY <1>1, <1>2
<1>5. CASE j <= Len(s)
  <2>1. j \in 1 .. Len(s) /\ Append(s, e)[j] = s[j]
      BY <1>1, <1>2, <1>5
  <2>2. Precedes(s[i], s[j])
      BY <1>1, <1>4, <2>1 DEF InOrder
  <2> QED
      BY <1>4, <2>1, <2>2
<1>6. CASE ~(j <= Len(s))
    BY <1>2, <1>3, <1>4, <1>6
<1> QED
    BY <1>5, <1>6

LEMMA OrderTail ==
    ASSUME NEW s \in Seq(Events), s # <<>>, InOrder(s)
    PROVE  InOrder(Tail(s)) /\ \A b \in Range(Tail(s)) : Precedes(Head(s), b)
<1>1. /\ Tail(s) \in Seq(Events) /\ Head(s) = s[1]
      /\ Len(s) \in Nat /\ Len(s) > 0 /\ Len(Tail(s)) = Len(s) - 1
      /\ \A i \in 1 .. Len(s) - 1 : Tail(s)[i] = s[i + 1]
    BY HeadTailProperties, EmptySeq
<1>2. DOMAIN s = 1 .. Len(s) /\ DOMAIN Tail(s) = 1 .. Len(s) - 1
    BY <1>1
<1>3. \A i, j \in 1 .. Len(s) : i < j => Precedes(s[i], s[j])
    BY <1>2 DEF InOrder
<1>4. ASSUME NEW i \in 1 .. Len(s) - 1, NEW j \in 1 .. Len(s) - 1, i < j
      PROVE  Precedes(Tail(s)[i], Tail(s)[j])
  <2>1. i + 1 \in 1 .. Len(s) /\ j + 1 \in 1 .. Len(s) /\ i + 1 < j + 1
      BY <1>1, <1>4
  <2> QED
      BY <1>1, <1>3, <2>1
<1>5. ASSUME NEW j \in 1 .. Len(s) - 1 PROVE Precedes(Head(s), Tail(s)[j])
  <2>1. 1 \in 1 .. Len(s) /\ j + 1 \in 1 .. Len(s) /\ 1 < j + 1
      BY <1>1
  <2> QED
      BY <1>1, <1>3, <2>1
<1>6. Range(Tail(s)) = {Tail(s)[i] : i \in 1 .. Len(s) - 1}
    BY <1>1, RangeEquality
<1> QED
    BY <1>2, <1>4, <1>5, <1>6 DEF InOrder

(***************************************************************************)
(* Asking for an event to be written.                                      *)
(***************************************************************************)

LEMMA WrittenEvents ==
    ASSUME NEW k \in Connections PROVE Written(k) \subseteq Events
<1>1. k.log \in Seq(Events) /\ k.chain \in Seq(Events)
    BY DEF Connections
<1>2. Range(k.log) \in SUBSET Events /\ Range(k.chain) \in SUBSET Events
    BY <1>1, RangeOfSeq
<1> QED
    BY <1>2 DEF Written

LEMMA SameRecord ==
    ASSUME NEW k, NEW x, x.log = k.log, x.chain = k.chain
    PROVE  /\ Written(x) = Written(k)
           /\ RecordInOrder(x) = RecordInOrder(k)
           /\ Observed(x) = Observed(k)
BY DEF Written, RecordInOrder, Observed

\* x is k, apart from the record and what goes with it.
SameCourse(k, x) ==
    /\ x.phase = k.phase /\ x.client = k.client /\ x.upstream = k.upstream
    /\ x.early = k.early /\ x.queries = k.queries
    /\ x.pipelined = k.pipelined /\ x.leftEarly = k.leftEarly

SameTraffic(k, x) ==
    /\ x.wire = k.wire /\ x.awaiting = k.awaiting
    /\ x.active = k.active /\ x.counter = k.counter /\ x.unended = k.unended

LEMMA Put ==
    ASSUME NEW k \in Connections, NEW e \in Events
    PROVE  LET x == Enqueue(k, <<e>>) IN
             /\ x \in Connections
             /\ SameCourse(k, x) /\ SameTraffic(k, x)
             /\ x.log = k.log /\ x.chain = Append(k.chain, e)
             /\ Range(x.chain) = Range(k.chain) \cup {e}
             /\ Written(x) = Written(k) \cup {e}
             /\ RecordInOrder(k) /\ (\A a \in Written(k) : Precedes(a, e)) => RecordInOrder(x)
<1> DEFINE x == Enqueue(k, <<e>>)
<1>1. k.chain \in Seq(Events) /\ k.log \in Seq(Events)
    BY DEF Connections
<1>2. k.chain \o <<e>> = Append(k.chain, e)
    BY <1>1, AppendIsConcat
<1>3. x = [k EXCEPT !.chain = Append(k.chain, e)]
    BY <1>2 DEF Enqueue
<1>4. Append(k.chain, e) \in Seq(Events) /\ Range(Append(k.chain, e)) = Range(k.chain) \cup {e}
    BY <1>1, RangeAppend
<1>5. x \in Connections
    BY <1>3, <1>4 DEF Connections
<1>6. /\ SameCourse(k, x) /\ SameTraffic(k, x)
      /\ x.log = k.log /\ x.chain = Append(k.chain, e)
    BY <1>3 DEF Connections, SameCourse, SameTraffic
<1> HIDE DEF x
<1>7. Written(x) = Written(k) \cup {e}
    BY <1>4, <1>6 DEF Written
<1>8. ASSUME RecordInOrder(k), \A a \in Written(k) : Precedes(a, e)
      PROVE  RecordInOrder(x)
  <2>1. InOrder(x.log) /\ \A a \in Range(x.log), b \in Range(k.chain) : Precedes(a, b)
      BY <1>6, <1>8 DEF RecordInOrder
  <2>2. InOrder(k.chain) /\ \A a \in Range(k.chain) : Precedes(a, e)
      BY <1>8 DEF RecordInOrder, Written
  <2>3. InOrder(x.chain)
      BY <1>1, <1>6, <2>2, OrderAppend
  <2>4. \A a \in Range(x.log) : Precedes(a, e)
      BY <1>6, <1>8 DEF Written
  <2> QED
      BY <1>4, <1>6, <2>1, <2>3, <2>4 DEF RecordInOrder
<1> QED
    BY <1>4, <1>5, <1>6, <1>7, <1>8 DEF x

LEMMA PutTwo ==
    ASSUME NEW k \in Connections, NEW a \in Events, NEW b \in Events
    PROVE  Enqueue(k, <<a, b>>) = Enqueue(Enqueue(k, <<a>>), <<b>>)
<1>1. k.chain \in Seq(Events) /\ <<a>> \in Seq(Events) /\ <<b>> \in Seq(Events)
    BY DEF Connections
<1>2. <<a>> \o <<b>> = <<a, b>>
  <2>1. <<a>> \o <<b>> = Append(<<a>>, b)
      BY <1>1, AppendIsConcat
  <2>2. /\ Append(<<a>>, b) \in Seq(Events) /\ Len(Append(<<a>>, b)) = 2
        /\ Append(<<a>>, b)[1] = a /\ Append(<<a>>, b)[2] = b
      BY <1>1
  <2>3. <<a, b>> \in Seq(Events) /\ Len(<<a, b>>) = 2
        /\ <<a, b>>[1] = a /\ <<a, b>>[2] = b
      OBVIOUS
  <2>4. Append(<<a>>, b) = <<a, b>>
      BY <2>2, <2>3, SeqEqual, \A i \in 1 .. 2 : i = 1 \/ i = 2
  <2> QED
      BY <2>1, <2>4
<1>3. (k.chain \o <<a>>) \o <<b>> = k.chain \o (<<a>> \o <<b>>)
    BY <1>1, ConcatAssociative
<1>4. Enqueue(k, <<a>>).chain = k.chain \o <<a>>
    BY DEF Enqueue, Connections
<1> QED
    BY <1>2, <1>3, <1>4 DEF Enqueue, Connections

(***************************************************************************)
(* What each handler does to a session.                                    *)
(***************************************************************************)

\* An event of no query that is not the start: the end, or what waits for it.
Closing(e) == e \in Events /\ e.id = 0 /\ e.type \in {"ended"} \cup Continuations

LEMMA PutClosing ==
    ASSUME NEW k, Session(k), NEW e, Closing(e)
    PROVE  LET x == Enqueue(k, <<e>>) IN
             /\ Session(x) /\ SameCourse(k, x) /\ SameTraffic(k, x)
             /\ x.log = k.log /\ Written(x) = Written(k) \cup {e}
             /\ Range(x.chain) = Range(k.chain) \cup {e}
             /\ Observed(x) = Observed(k)
<1> DEFINE x == Enqueue(k, <<e>>)
<1>1. k \in Connections /\ e \in Events
    BY DEF Session, Closing
<1>2. e.id = 0 /\ e.type # "observed" /\ e.type # "started" /\ ~Answer(e)
    BY DEF Closing, Continuations, Answer
<1>3. /\ x \in Connections /\ SameCourse(k, x) /\ SameTraffic(k, x)
      /\ x.log = k.log /\ Written(x) = Written(k) \cup {e}
      /\ Range(x.chain) = Range(k.chain) \cup {e}
      /\ RecordInOrder(k) /\ (\A a \in Written(k) : Precedes(a, e)) => RecordInOrder(x)
    BY <1>1, Put
<1> HIDE DEF x
<1>4. \A a \in Written(k) : Precedes(a, e)
    BY <1>2 DEF Precedes
<1>5. RecordInOrder(x)
    BY <1>3, <1>4 DEF Session
<1>6. k.counter \in Nat /\ Numbered(k) /\ OneAtATime(k)
    BY <1>1 DEF Session, Connections
<1>7. Numbered(x)
  <2>1. \A b \in Written(x) : b.id <= x.counter
      BY <1>2, <1>3, <1>6 DEF Numbered, SameTraffic
  <2>2. x.active # 0 => \A b \in Written(x) : b.id = x.active => b.type = "observed"
      BY <1>2, <1>3, <1>6 DEF Numbered, SameTraffic
  <2> QED
      BY <1>3, <1>6, <2>1, <2>2 DEF Numbered, SameTraffic
<1>8. OneAtATime(x)
    BY <1>2, <1>3, <1>6 DEF OneAtATime, SameTraffic, SameCourse
<1>9. Observed(x) = Observed(k)
    BY <1>2, <1>3 DEF Observed
<1> QED
    BY <1>3, <1>5, <1>7, <1>8, <1>9 DEF Session, x

LEMMA EndSession ==
    ASSUME NEW k, Session(k), NEW what \in Continuations
    PROVE  LET x == End(k, what) IN
             /\ Session(x) /\ SameCourse(k, x) /\ SameTraffic(k, x) /\ x.log = k.log
             /\ Written(x) = Written(k) \cup {Event("ended", 0, 0), Then(what)}
             /\ Range(k.chain) \subseteq Range(x.chain)
             /\ Observed(x) = Observed(k)
<1> DEFINE a == Event("ended", 0, 0)
           b == Then(what)
           y == Enqueue(k, <<a>>)
           x == Enqueue(y, <<b>>)
<1>1. Closing(a) /\ Closing(b)
    BY DEF Closing, Event, Then, Events, Types
<1>2. End(k, what) = x
    BY <1>1, PutTwo DEF End, Closing, Session
<1>3. /\ Session(y) /\ SameCourse(k, y) /\ SameTraffic(k, y) /\ y.log = k.log
      /\ Written(y) = Written(k) \cup {a}
      /\ Range(y.chain) = Range(k.chain) \cup {a}
      /\ Observed(y) = Observed(k)
    BY <1>1, PutClosing
<1> HIDE DEF y
<1>4. /\ Session(x) /\ SameCourse(y, x) /\ SameTraffic(y, x) /\ x.log = y.log
      /\ Written(x) = Written(y) \cup {b}
      /\ Range(x.chain) = Range(y.chain) \cup {b}
      /\ Observed(x) = Observed(y)
    BY <1>1, <1>3, PutClosing
<1> HIDE DEF x, a, b
<1>5. SameCourse(k, x) /\ SameTraffic(k, x)
    BY <1>3, <1>4 DEF SameCourse, SameTraffic
<1> QED
    BY <1>2, <1>3, <1>4, <1>5 DEF a, b

LEMMA StartSession ==
    ASSUME NEW k, Session(k), \A a \in Written(k) : a.type # "started"
    PROVE  LET x == Enqueue(k, <<Event("started", 0, 0)>>) IN
             /\ Session(x) /\ SameCourse(k, x) /\ SameTraffic(k, x) /\ x.log = k.log
             /\ Written(x) = Written(k) \cup {Event("started", 0, 0)}
             /\ Observed(x) = Observed(k)
<1> DEFINE e == Event("started", 0, 0)
           x == Enqueue(k, <<e>>)
<1>1. k \in Connections /\ e \in Events
    BY DEF Session, Event, Events, Types
<1>2. e.id = 0 /\ e.type = "started" /\ ~Answer(e)
    BY DEF Event, Answer
<1> HIDE DEF e
<1>3. /\ x \in Connections /\ SameCourse(k, x) /\ SameTraffic(k, x)
      /\ x.log = k.log /\ Written(x) = Written(k) \cup {e}
      /\ RecordInOrder(k) /\ (\A a \in Written(k) : Precedes(a, e)) => RecordInOrder(x)
    BY <1>1, Put
<1> HIDE DEF x
<1>4. \A a \in Written(k) : Precedes(a, e)
    BY <1>2 DEF Precedes
<1>5. RecordInOrder(x)
    BY <1>3, <1>4 DEF Session
<1>6. k.counter \in Nat /\ Numbered(k) /\ OneAtATime(k)
    BY <1>1 DEF Session, Connections
<1>7. Numbered(x)
  <2>1. \A b \in Written(x) : b.id <= x.counter
      BY <1>2, <1>3, <1>6 DEF Numbered, SameTraffic
  <2>2. x.active # 0 => \A b \in Written(x) : b.id = x.active => b.type = "observed"
      BY <1>2, <1>3, <1>6 DEF Numbered, SameTraffic
  <2> QED
      BY <1>3, <1>6, <2>1, <2>2 DEF Numbered, SameTraffic
<1>8. OneAtATime(x)
    BY <1>2, <1>3, <1>6 DEF OneAtATime, SameTraffic, SameCourse
<1>9. Observed(x) = Observed(k)
    BY <1>2, <1>3 DEF Observed
<1> QED
    BY <1>3, <1>5, <1>7, <1>8, <1>9 DEF Session, x, e

\* A message is forwarded: a query takes the next number and becomes active.
LEMMA FromClientSession ==
    ASSUME NEW k, Session(k), NEW message \in Messages, k.pipelined \/ k.wire = <<>>
    PROVE  LET x == FromClient(k, message) IN
             /\ Session(x) /\ SameCourse(k, x) /\ x.log = k.log
             /\ \A e \in Written(x) \ Written(k) : e.type = "observed"
             /\ Written(k) \subseteq Written(x)
             /\ IF message = "query"
                  THEN Observed(x) = Observed(k) \cup {k.counter + 1}
                  ELSE Observed(x) = Observed(k)
<1> DEFINE x == FromClient(k, message)
           n == k.counter + 1
<1>1. /\ k \in Connections /\ k.counter \in Nat /\ k.active \in Nat /\ k.wire \in Seq(Nat)
      /\ RecordInOrder(k) /\ Numbered(k) /\ OneAtATime(k)
    BY DEF Session, Connections
<1>2. CASE message = "query"
  <2> DEFINE y == [k EXCEPT !.counter = n, !.active = n, !.awaiting = TRUE,
                            !.wire = Append(k.wire, n)]
             e == Event("observed", n, 0)
  <2>1. x = Enqueue(y, <<e>>)
      BY <1>2 DEF FromClient
  <2>2. n \in Nat /\ n # 0 /\ k.counter < n /\ Append(k.wire, n) \in Seq(Nat)
      BY <1>1
  <2>3. /\ y \in Connections /\ SameCourse(k, y) /\ y.log = k.log /\ y.chain = k.chain
        /\ y.counter = n /\ y.active = n /\ y.awaiting = TRUE /\ y.wire = Append(k.wire, n)
        /\ y.unended = k.unended
      BY <1>1, <2>2 DEF Connections, SameCourse
  <2>4. e \in Events /\ e.type = "observed" /\ e.id = n /\ ~Answer(e)
      BY <2>2 DEF Event, Events, Types, Answer
  <2> HIDE DEF x, y, e, n
  <2>5. Written(y) = Written(k) /\ RecordInOrder(y) /\ Observed(y) = Observed(k)
      BY <1>1, <2>3, SameRecord
  <2>6. \A a \in Written(k) : a.id <= k.counter /\ a.id \in Nat
      BY <1>1, WrittenEvents DEF Numbered, Events
  <2>7. \A a \in Written(k) : Precedes(a, e)
      BY <1>1, <2>2, <2>4, <2>6 DEF Precedes
  <2>8. /\ x \in Connections /\ SameCourse(y, x) /\ SameTraffic(y, x)
        /\ x.log = k.log /\ Written(x) = Written(k) \cup {e} /\ RecordInOrder(x)
      BY <2>1, <2>3, <2>4, <2>5, <2>7, Put
  <2>9. /\ SameCourse(k, x) /\ x.counter = n /\ x.active = n /\ x.awaiting
        /\ x.wire = Append(k.wire, n) /\ x.unended = k.unended
      BY <2>3, <2>8 DEF SameCourse, SameTraffic
  <2>10. Numbered(x)
    <3>1. \A b \in Written(x) : b.id <= n
        BY <1>1, <2>2, <2>4, <2>6, <2>8
    <3>2. \A b \in Written(x) : b.id = n => b.type = "observed"
        BY <1>1, <2>2, <2>4, <2>6, <2>8
    <3> QED
        BY <2>2, <2>9, <3>1, <3>2 DEF Numbered
  <2>11. OneAtATime(x)
    <3> SUFFICES ASSUME ~x.pipelined PROVE OneAtATime(x)
        BY DEF OneAtATime
    <3>1. ~k.pipelined /\ k.wire = <<>>
        BY <2>9 DEF SameCourse
    <3>2. /\ Append(k.wire, n) \in Seq(Nat) /\ Len(Append(k.wire, n)) = 1
          /\ Append(k.wire, n)[1] = n /\ Append(k.wire, n) # <<>>
        BY <2>2, <3>1
    <3>3. \A b \in Written(x) : Answer(b) => OwnAnswer(b, x.unended)
        BY <1>1, <2>4, <2>8, <2>9, <3>1 DEF OneAtATime
    <3> QED
        BY <2>9, <3>2, <3>3 DEF OneAtATime
  <2>12. Observed(x) = Observed(k) \cup {n}
      BY <2>2, <2>4, <2>8 DEF Observed
  <2> QED
      BY <1>2, <2>4, <2>8, <2>9, <2>10, <2>11, <2>12 DEF Session, x, n
<1>3. CASE message # "query"
  <2>1. Append(k.wire, 0) \in Seq(Nat)
      BY <1>1
  <2>2. x = IF message = "execute" THEN [k EXCEPT !.awaiting = TRUE, !.wire = Append(k.wire, 0)]
                                   ELSE [k EXCEPT !.wire = Append(k.wire, 0)]
      BY <1>3 DEF FromClient
  <2>3. /\ x \in Connections /\ SameCourse(k, x) /\ x.log = k.log /\ x.chain = k.chain
        /\ x.counter = k.counter /\ x.active = k.active /\ x.wire = Append(k.wire, 0)
        /\ x.unended = k.unended
        /\ k.awaiting => x.awaiting
    <3>1. CASE message = "execute"
      <4>1. x = [k EXCEPT !.awaiting = TRUE, !.wire = Append(k.wire, 0)]
          BY <2>2, <3>1
      <4> HIDE DEF x
      <4>2. x \in Connections
          BY <1>1, <2>1, <4>1 DEF Connections
      <4> QED
          BY <1>1, <4>1, <4>2 DEF Connections, SameCourse
    <3>2. CASE message # "execute"
      <4>1. x = [k EXCEPT !.wire = Append(k.wire, 0)]
          BY <2>2, <3>2
      <4> HIDE DEF x
      <4>2. x \in Connections
          BY <1>1, <2>1, <4>1 DEF Connections
      <4> QED
          BY <1>1, <4>1, <4>2 DEF Connections, SameCourse
    <3> QED
        BY <3>1, <3>2
  <2> HIDE DEF x
  <2>4. Written(x) = Written(k) /\ RecordInOrder(x) /\ Observed(x) = Observed(k)
      BY <1>1, <2>3, SameRecord
  <2>5. Numbered(x)
      BY <1>1, <2>3, <2>4 DEF Numbered
  <2>6. OneAtATime(x)
    <3> SUFFICES ASSUME ~x.pipelined PROVE OneAtATime(x)
        BY DEF OneAtATime
    <3>1. ~k.pipelined /\ k.wire = <<>>
        BY <2>3 DEF SameCourse
    <3>2. /\ Len(Append(k.wire, 0)) = 1 /\ Append(k.wire, 0)[1] = 0 /\ Append(k.wire, 0) # <<>>
        BY <3>1
    <3> QED
        BY <1>1, <2>3, <2>4, <3>1, <3>2 DEF OneAtATime
  <2> QED
      BY <1>3, <2>3, <2>4, <2>5, <2>6 DEF Session, x
<1> QED
    BY <1>2, <1>3

\* A response is forwarded: it answers the active query, or none.
LEMMA FromUpstreamSession ==
    ASSUME NEW k, Session(k), k.wire # <<>>, NEW response \in Responses
    PROVE  LET x == FromUpstream(k, response) IN
             /\ Session(x) /\ SameCourse(k, x) /\ x.log = k.log
             /\ Written(k) \subseteq Written(x) /\ Observed(x) = Observed(k)
<1> DEFINE x == FromUpstream(k, response)
           rest == Tail(k.wire)
           reply == Head(k.wire)
           unended == IF response = "other" THEN k.unended \cup {reply} ELSE k.unended
<1>1. /\ k \in Connections /\ k.counter \in Nat /\ k.active \in Nat /\ k.wire \in Seq(Nat)
      /\ k.unended \in SUBSET Nat
      /\ RecordInOrder(k) /\ Numbered(k) /\ OneAtATime(k)
    BY DEF Session, Connections
<1>2. /\ rest \in Seq(Nat) /\ reply \in Nat /\ reply = k.wire[1]
      /\ Len(rest) = Len(k.wire) - 1 /\ Len(k.wire) \in Nat /\ Len(rest) \in Nat
    BY <1>1, HeadTailProperties, EmptySeq, LenProperties
<1>3. ~k.pipelined =>
        /\ rest = <<>>
        /\ k.active = reply \/ (reply = 0 /\ k.active \in k.unended)
    BY <1>1, <1>2, EmptySeq DEF OneAtATime
<1>4. \A a \in Written(k) : a.id <= k.counter /\ a.id \in Nat
    BY <1>1, WrittenEvents DEF Numbered, Events
<1> HIDE DEF rest, reply
<1>5. CASE ~k.awaiting \/ response = "other"
  <2>1. unended \in SUBSET Nat /\ k.unended \subseteq unended
      BY <1>1, <1>2
  <2>2. x = [k EXCEPT !.wire = rest, !.unended = unended]
      BY <1>5 DEF FromUpstream, Forwarded, rest, reply
  <2>3. k.active = 0 \/ response = "other"
      BY <1>1, <1>5 DEF Numbered
  <2>4. ~k.pipelined => k.active = 0 \/ k.active \in unended
      BY <1>3, <2>1, <2>3
  <2> HIDE DEF unended, x
  <2>5. /\ x \in Connections /\ SameCourse(k, x) /\ x.log = k.log /\ x.chain = k.chain
        /\ x.counter = k.counter /\ x.active = k.active /\ x.wire = rest
        /\ x.awaiting = k.awaiting /\ x.unended = unended
      BY <1>1, <1>2, <2>1, <2>2 DEF Connections, SameCourse
  <2>6. Written(x) = Written(k) /\ RecordInOrder(x) /\ Observed(x) = Observed(k)
      BY <1>1, <2>5, SameRecord
  <2>7. Numbered(x)
      BY <1>1, <2>5, <2>6 DEF Numbered
  <2>8. OneAtATime(x)
    <3> SUFFICES ASSUME ~x.pipelined PROVE OneAtATime(x)
        BY DEF OneAtATime
    <3>1. ~k.pipelined /\ rest = <<>>
        BY <1>3, <2>5 DEF SameCourse
    <3>2. \A a \in Written(x) : Answer(a) => OwnAnswer(a, x.unended)
        BY <1>1, <2>1, <2>5, <2>6, <3>1 DEF OneAtATime, OwnAnswer
    <3> QED
        BY <2>4, <2>5, <3>1, <3>2, EmptySeq DEF OneAtATime
  <2> QED
      BY <2>5, <2>6, <2>7, <2>8 DEF Session, x
<1>6. ASSUME k.awaiting, NEW c \in Nat, k.counter <= c
      PROVE  LET y == [k EXCEPT !.wire = rest, !.awaiting = FALSE, !.active = 0, !.counter = c] IN
               /\ Session(y) /\ SameCourse(k, y) /\ y.log = k.log /\ y.chain = k.chain
               /\ y.active = 0 /\ y.wire = rest /\ y.counter = c /\ y.unended = k.unended
               /\ Written(y) = Written(k) /\ Observed(y) = Observed(k)
  <2> DEFINE y == [k EXCEPT !.wire = rest, !.awaiting = FALSE, !.active = 0, !.counter = c]
  <2>1. /\ y \in Connections /\ SameCourse(k, y) /\ y.log = k.log /\ y.chain = k.chain
        /\ y.counter = c /\ y.active = 0 /\ y.wire = rest /\ y.awaiting = FALSE
        /\ y.unended = k.unended
      BY <1>1, <1>2 DEF Connections, SameCourse
  <2> HIDE DEF y
  <2>2. Written(y) = Written(k) /\ RecordInOrder(y) /\ Observed(y) = Observed(k)
      BY <1>1, <2>1, SameRecord
  <2>3. Numbered(y)
    <3>1. \A a \in Written(y) : a.id <= c
        BY <1>1, <1>4, <1>6, <2>2
    <3> QED
        BY <2>1, <3>1 DEF Numbered
  <2>4. OneAtATime(y)
      BY <1>1, <1>3, <2>1, <2>2, EmptySeq DEF OneAtATime, SameCourse
  <2> QED
      BY <2>1, <2>2, <2>3, <2>4 DEF Session, y
<1>7. ASSUME NEW y, Session(y), SameCourse(k, y), y.log = k.log, y.active = 0, y.wire = rest,
             y.unended = k.unended, Written(y) = Written(k), Observed(y) = Observed(k), y.counter >= k.counter,
             NEW type \in {"completed", "errored"},
             x = Enqueue(y, <<Event(type, k.active, reply)>>)
      PROVE  /\ Session(x) /\ SameCourse(k, x) /\ x.log = k.log
             /\ Written(k) \subseteq Written(x) /\ Observed(x) = Observed(k)
  <2> DEFINE e == Event(type, k.active, reply)
  <2>1. /\ e \in Events /\ e.id = k.active /\ e.reply = reply /\ Answer(e)
        /\ e.type # "observed" /\ e.type # "started"
      BY <1>1, <1>2, <1>7 DEF Event, Events, Types, Answer
  <2>2. y \in Connections /\ x = Enqueue(y, <<e>>)
      BY <1>7 DEF Session
  <2>3. /\ RecordInOrder(y) /\ Numbered(y) /\ OneAtATime(y) /\ y.counter \in Nat
      BY <1>7, <2>2 DEF Session, Connections
  <2> HIDE DEF e, x
  <2>4. \A a \in Written(k) : Precedes(a, e)
      BY <1>1, <2>1 DEF Precedes, Numbered
  <2>5. /\ x \in Connections /\ SameCourse(y, x) /\ SameTraffic(y, x)
        /\ x.log = y.log /\ Written(x) = Written(k) \cup {e} /\ RecordInOrder(x)
      BY <1>7, <2>1, <2>2, <2>3, <2>4, Put
  <2>6. SameCourse(k, x)
      BY <1>7, <2>5 DEF SameCourse
  <2>7. Numbered(x)
    <3>1. e.id <= k.counter /\ k.counter <= y.counter /\ e.id \in Nat
        BY <1>1, <1>7, <2>1 DEF Numbered
    <3>2. \A a \in Written(x) : a.id <= y.counter
        BY <1>1, <1>4, <2>3, <2>5, <3>1
    <3> QED
        BY <1>7, <2>3, <2>5, <3>2 DEF Numbered, SameTraffic
  <2>8. OneAtATime(x)
    <3> SUFFICES ASSUME ~x.pipelined PROVE OneAtATime(x)
        BY DEF OneAtATime
    <3>1. ~k.pipelined /\ rest = <<>> /\ OwnAnswer(e, k.unended)
        BY <1>3, <2>1, <2>6 DEF SameCourse, OwnAnswer
    <3>2. x.unended = k.unended
        BY <1>7, <2>5 DEF SameTraffic
    <3>3. \A a \in Written(x) : Answer(a) => OwnAnswer(a, x.unended)
        BY <1>1, <2>5, <3>1, <3>2 DEF OneAtATime
    <3> QED
        BY <1>7, <2>5, <3>1, <3>3, EmptySeq DEF OneAtATime, SameTraffic
  <2>9. Observed(x) = Observed(k)
    <3>1. Observed(y) = Observed(x)
        BY <1>7, <2>1, <2>5 DEF Observed
    <3> QED
        BY <1>7, <3>1
  <2> QED
      BY <1>7, <2>5, <2>6, <2>7, <2>8, <2>9 DEF Session
<1>8. CASE k.awaiting /\ response = "error"
  <2> DEFINE c == IF k.active = 0 THEN k.counter + 1 ELSE k.counter
             y == [k EXCEPT !.wire = rest, !.awaiting = FALSE, !.active = 0, !.counter = c]
  <2>1. c \in Nat /\ k.counter <= c
      BY <1>1
  <2>2. x = Enqueue(y, <<Event("errored", k.active, reply)>>)
      BY <1>1, <1>8 DEF FromUpstream, Forwarded, rest, reply, Connections
  <2> HIDE DEF c
  <2>3. /\ Session(y) /\ SameCourse(k, y) /\ y.log = k.log
        /\ y.active = 0 /\ y.wire = rest /\ y.counter = c /\ y.unended = k.unended
        /\ Written(y) = Written(k) /\ Observed(y) = Observed(k)
      BY <1>6, <1>8, <2>1
  <2> HIDE DEF x, y
  <2> QED
      BY <1>7, <2>1, <2>2, <2>3 DEF x
<1>9. CASE k.awaiting /\ response = "end"
  <2> DEFINE y == [k EXCEPT !.wire = rest, !.awaiting = FALSE, !.active = 0, !.counter = k.counter]
  <2>1. /\ Session(y) /\ SameCourse(k, y) /\ y.log = k.log /\ y.chain = k.chain
        /\ y.active = 0 /\ y.wire = rest /\ y.counter = k.counter
        /\ y.unended = k.unended
        /\ Written(y) = Written(k) /\ Observed(y) = Observed(k)
    <3>1. k.awaiting /\ k.counter \in Nat /\ k.counter <= k.counter
        BY <1>1, <1>9
    <3> QED
        BY ONLY <1>6, <3>1
  <2>2. y = [k EXCEPT !.wire = rest, !.awaiting = FALSE, !.active = 0]
      BY <1>1 DEF Connections
  <2>3. x = IF k.active = 0 THEN y ELSE Enqueue(y, <<Event("completed", k.active, reply)>>)
      BY <1>9, <2>2 DEF FromUpstream, Forwarded, rest, reply
  <2> HIDE DEF x, y
  <2>4. CASE k.active = 0
      BY <2>1, <2>3, <2>4 DEF x
  <2>5. CASE k.active # 0
      BY <1>1, <1>7, <2>1, <2>3, <2>5 DEF x
  <2> QED
      BY <2>4, <2>5
<1> QED
    BY <1>5, <1>8, <1>9 DEF Responses

\* What came early is relayed to a session that has written nothing yet.
LEMMA RelaySession ==
    ASSUME NEW k, Session(k), k.wire = <<>>, Written(k) = {},
           NEW early \in Seq(Messages), k.pipelined \/ Len(early) <= 1
    PROVE  LET x == Relay(k, early) IN
             /\ Session(x) /\ SameCourse(k, x) /\ x.log = k.log
             /\ \A e \in Written(x) : e.type = "observed"
             /\ IsFiniteSet(Observed(x))
             /\ Cardinality(Observed(x)) = Cardinality(QueriesIn(early, Len(early)))
<1> DEFINE Seen(x, n) ==
             /\ Session(x) /\ SameCourse(k, x) /\ x.log = k.log
             /\ n = 0 => x.wire = <<>>
             /\ \A e \in Written(x) : e.type = "observed"
             /\ IsFiniteSet(Observed(x)) /\ IsFiniteSet(QueriesIn(early, n))
             /\ Cardinality(Observed(x)) = Cardinality(QueriesIn(early, n))
           S == [n \in Nat |-> {x \in Connections : Seen(x, n)}]
<1>1. Len(early) \in Nat /\ \A n \in 1 .. Len(early) : early[n] \in Messages
    BY LenProperties, ElementOfSeq
<1>2. Seen(k, 0)
  <2>1. Observed(k) = {} /\ QueriesIn(early, 0) = {}
      BY DEF Observed, QueriesIn
  <2> QED
      BY <2>1, FS_EmptySet DEF SameCourse
<1>3. ASSUME NEW n \in 1 .. Len(early), NEW x \in Connections, Seen(x, n - 1)
      PROVE  Seen(FromClient(x, early[n]), n)
  <2> DEFINE y == FromClient(x, early[n])
  <2>1. n \in Nat /\ n - 1 \in Nat /\ n # 0 /\ early[n] \in Messages
      BY <1>1
  <2>2. x.pipelined \/ x.wire = <<>>
    <3>1. x.pipelined = k.pipelined
        BY <1>3 DEF SameCourse
    <3>2. k.pipelined \/ n - 1 = 0
        BY <1>1
    <3> QED
        BY <1>3, <3>1, <3>2
  <2>3. /\ Session(y) /\ SameCourse(x, y) /\ y.log = x.log
        /\ \A e \in Written(y) \ Written(x) : e.type = "observed"
        /\ IF early[n] = "query" THEN Observed(y) = Observed(x) \cup {x.counter + 1}
                                 ELSE Observed(y) = Observed(x)
      BY <1>3, <2>1, <2>2, FromClientSession
  <2> HIDE DEF y
  <2>4. SameCourse(k, y) /\ y.log = k.log /\ \A e \in Written(y) : e.type = "observed"
      BY <1>3, <2>3 DEF SameCourse
  <2>5. CASE early[n] = "query"
    <3>1. QueriesIn(early, n) = QueriesIn(early, n - 1) \cup {n} /\ n \notin QueriesIn(early, n - 1)
        BY <2>1, <2>5 DEF QueriesIn
    <3>2. x.counter + 1 \notin Observed(x)
      <4>1. Numbered(x) /\ x.counter \in Nat
          BY <1>3 DEF Session, Connections
      <4> QED
          BY <4>1 DEF Numbered, Observed
    <3>3. /\ IsFiniteSet(Observed(y)) /\ Cardinality(Observed(y)) = Cardinality(Observed(x)) + 1
        BY <1>3, <2>3, <2>5, <3>2, FS_AddElement
    <3>4. /\ IsFiniteSet(QueriesIn(early, n))
          /\ Cardinality(QueriesIn(early, n)) = Cardinality(QueriesIn(early, n - 1)) + 1
        BY <1>3, <3>1, FS_AddElement
    <3> QED
        BY <1>3, <2>1, <2>3, <2>4, <3>3, <3>4 DEF y
  <2>6. CASE early[n] # "query"
    <3>1. QueriesIn(early, n) = QueriesIn(early, n - 1)
        BY <2>1, <2>6 DEF QueriesIn
    <3> QED
        BY <1>3, <2>1, <2>3, <2>4, <2>6, <3>1 DEF y
  <2> QED
      BY <2>5, <2>6
<1>4. k \in S[0]
    BY <1>2 DEF Session
<1>5. ASSUME NEW n \in 1 .. Len(early), NEW x \in S[n - 1]
      PROVE  FromClient(x, early[n]) \in S[n]
  <2>1. n \in Nat /\ n - 1 \in Nat
      BY <1>1
  <2>2. x \in Connections /\ Seen(x, n - 1)
      BY <2>1
  <2>3. Seen(FromClient(x, early[n]), n)
      BY <1>3, <2>2
  <2>4. FromClient(x, early[n]) \in Connections
      BY <2>3 DEF Session
  <2> HIDE DEF Seen
  <2> QED
      BY <2>1, <2>3, <2>4
<1> HIDE DEF S
<1>6. Relay(k, early) \in S[Len(early)]
    BY <1>4, <1>5, RelayKeeps
<1>7. Seen(Relay(k, early), Len(early))
  <2> HIDE DEF Seen
  <2> QED
      BY <1>1, <1>6 DEF S
<1> QED
    BY <1>7

\* An event leaves the chain, for the log or lost.
LEMMA DropSession ==
    ASSUME NEW k, Session(k), k.chain # <<>>
    PROVE  LET x == [k EXCEPT !.chain = Tail(@)] IN
             /\ Session(x) /\ SameCourse(k, x) /\ SameTraffic(k, x) /\ x.log = k.log
             /\ Range(k.chain) = Range(x.chain) \cup {Head(k.chain)}
             /\ Written(k) = Written(x) \cup {Head(k.chain)}
<1> DEFINE x == [k EXCEPT !.chain = Tail(@)]
<1>1. /\ k \in Connections /\ k.chain \in Seq(Events) /\ k.log \in Seq(Events)
      /\ RecordInOrder(k) /\ Numbered(k) /\ OneAtATime(k)
    BY DEF Session, Connections
<1>2. /\ Tail(k.chain) \in Seq(Events)
      /\ Range(k.chain) = Range(Tail(k.chain)) \cup {Head(k.chain)}
    BY <1>1, RangeTail
<1>3. /\ x \in Connections /\ SameCourse(k, x) /\ SameTraffic(k, x)
      /\ x.log = k.log /\ x.chain = Tail(k.chain)
    BY <1>1, <1>2 DEF Connections, SameCourse, SameTraffic
<1> HIDE DEF x
<1>4. Written(k) = Written(x) \cup {Head(k.chain)}
    BY <1>2, <1>3 DEF Written
<1>5. RecordInOrder(x)
    BY <1>1, <1>2, <1>3, OrderTail DEF RecordInOrder
<1>6. Numbered(x)
    BY <1>1, <1>3, <1>4 DEF Numbered, SameTraffic
<1>7. OneAtATime(x)
    BY <1>1, <1>3, <1>4 DEF OneAtATime, SameTraffic, SameCourse
<1> QED
    BY <1>2, <1>3, <1>4, <1>5, <1>6, <1>7 DEF Session, x

LEMMA LogSession ==
    ASSUME NEW k, Session(k), k.chain # <<>>
    PROVE  LET x == [k EXCEPT !.chain = Tail(@), !.log = Append(@, Head(k.chain))] IN
             /\ Session(x) /\ SameCourse(k, x) /\ SameTraffic(k, x)
             /\ Range(k.chain) = Range(x.chain) \cup {Head(k.chain)}
             /\ Written(k) = Written(x) /\ Observed(x) = Observed(k)
<1> DEFINE h == Head(k.chain)
           x == [k EXCEPT !.chain = Tail(@), !.log = Append(@, h)]
<1>1. /\ k \in Connections /\ k.chain \in Seq(Events) /\ k.log \in Seq(Events)
      /\ RecordInOrder(k) /\ Numbered(k) /\ OneAtATime(k)
    BY DEF Session, Connections
<1>2. /\ Tail(k.chain) \in Seq(Events) /\ h \in Events
      /\ Range(k.chain) = Range(Tail(k.chain)) \cup {h}
    BY <1>1, RangeTail
<1>3. /\ Append(k.log, h) \in Seq(Events) /\ Range(Append(k.log, h)) = Range(k.log) \cup {h}
    BY <1>1, <1>2, RangeAppend
<1> HIDE DEF h
<1>4. /\ x \in Connections /\ SameCourse(k, x) /\ SameTraffic(k, x)
      /\ x.log = Append(k.log, h) /\ x.chain = Tail(k.chain)
    BY <1>1, <1>2, <1>3 DEF Connections, SameCourse, SameTraffic
<1> HIDE DEF x
<1>5. Written(k) = Written(x) /\ Observed(x) = Observed(k)
    BY <1>2, <1>3, <1>4 DEF Written, Observed
<1>6. RecordInOrder(x)
  <2>1. InOrder(Tail(k.chain)) /\ \A b \in Range(Tail(k.chain)) : Precedes(h, b)
      BY <1>1, OrderTail DEF RecordInOrder, h
  <2>2. \A a \in Range(k.log) : Precedes(a, h)
      BY <1>1, <1>2 DEF RecordInOrder
  <2>3. InOrder(Append(k.log, h))
      BY <1>1, <1>2, <2>2, OrderAppend DEF RecordInOrder
  <2> QED
      BY <1>1, <1>2, <1>3, <1>4, <2>1, <2>3 DEF RecordInOrder
<1>7. Numbered(x)
    BY <1>1, <1>4, <1>5 DEF Numbered, SameTraffic
<1>8. OneAtATime(x)
    BY <1>1, <1>4, <1>5 DEF OneAtATime, SameTraffic, SameCourse
<1> QED
    BY <1>2, <1>4, <1>5, <1>6, <1>7, <1>8 DEF Session, x, h

(***************************************************************************)
(* What each handler does to a connection.                                 *)
(***************************************************************************)

LEMMA SameSession ==
    ASSUME NEW k, Session(k), NEW x \in Connections, SameTraffic(k, x),
           x.log = k.log, x.chain = k.chain, k.pipelined => x.pipelined
    PROVE  Session(x) /\ Written(x) = Written(k) /\ Observed(x) = Observed(k)
<1>1. /\ Written(x) = Written(k) /\ Observed(x) = Observed(k)
      /\ RecordInOrder(x) = RecordInOrder(k)
    BY SameRecord
<1>2. RecordInOrder(k) /\ Numbered(k) /\ OneAtATime(k)
    BY DEF Session
<1>3. Numbered(x)
    BY <1>1, <1>2 DEF Numbered, SameTraffic
<1>4. OneAtATime(x)
    BY <1>1, <1>2 DEF OneAtATime, SameTraffic
<1> QED
    BY <1>1, <1>2, <1>3, <1>4 DEF Session

Sound(k) == Session(k) /\ Phases(k)

LEMMA NothingSession ==
    ASSUME NEW x \in Connections,
           x.phase \in {"none", "refused", "connecting"}, x.early = <<>>, x.upstream = "none",
           x.wire = <<>>, ~x.awaiting, x.active = 0, x.counter = 0,
           x.chain = <<>>, x.log = <<>>, x.queries = 0, x.client \in {"none", "open", "ending"}
    PROVE  Sound(x) /\ Complete(x) /\ Written(x) = {}
<1>1. Range(<<>>) = {}
    BY DEF Range
<1>2. Written(x) = {}
    BY <1>1 DEF Written
<1>3. InOrder(<<>>)
    BY DEF InOrder
<1>4. RecordInOrder(x)
    BY <1>1, <1>3 DEF RecordInOrder
<1>5. Numbered(x) /\ OneAtATime(x)
    BY <1>2 DEF Numbered, OneAtATime
<1>6. Phases(x)
    BY DEF Phases
<1>7. QueriesIn(x.early, Len(x.early)) = {}
    BY DEF QueriesIn
<1>8. Complete(x)
    BY <1>7, FS_EmptySet DEF Complete
<1> QED
    BY <1>2, <1>4, <1>5, <1>6, <1>8 DEF Sound, Session

LEMMA Connected ==
    ASSUME NEW k, Sound(k), k.phase = "connecting"
    PROVE  LET live == [k EXCEPT !.phase = "live", !.upstream = "open", !.early = <<>>]
               x == Enqueue(Relay(live, k.early), <<Event("started", 0, 0)>>)
           IN  Sound(x) /\ (Complete(k) => Complete(x))
<1> DEFINE live == [k EXCEPT !.phase = "live", !.upstream = "open", !.early = <<>>]
           relayed == Relay(live, k.early)
           start == Event("started", 0, 0)
           x == Enqueue(relayed, <<start>>)
<1>1. /\ k \in Connections /\ k.early \in Seq(Messages) /\ Session(k) /\ Phases(k)
      /\ k.log = <<>> /\ k.chain = <<>> /\ k.wire = <<>>
      /\ k.pipelined \/ Len(k.early) <= 1
    BY DEF Sound, Session, Phases, Connections
<1>2. /\ live \in Connections /\ SameTraffic(k, live)
      /\ live.log = k.log /\ live.chain = k.chain /\ live.pipelined = k.pipelined
      /\ live.phase = "live" /\ live.upstream = "open" /\ live.early = <<>>
      /\ live.client = k.client /\ live.queries = k.queries /\ live.leftEarly = k.leftEarly
    <2>1. <<>> \in Seq(Messages)
        OBVIOUS
    <2> QED
        BY <1>1, <2>1 DEF Connections, SameTraffic, Sockets
<1> HIDE DEF live
<1>3. Session(live) /\ live.wire = <<>> /\ Written(live) = {}
  <2>1. Session(live)
      BY <1>1, <1>2, SameSession
  <2> QED
      BY <1>1, <1>2, <2>1 DEF SameTraffic, Written, Range
<1>4. /\ Session(relayed) /\ SameCourse(live, relayed) /\ relayed.log = live.log
      /\ \A e \in Written(relayed) : e.type = "observed"
      /\ IsFiniteSet(Observed(relayed))
      /\ Cardinality(Observed(relayed)) = Cardinality(QueriesIn(k.early, Len(k.early)))
    BY <1>1, <1>2, <1>3, RelaySession
<1> HIDE DEF relayed
<1>5. /\ Session(x) /\ SameCourse(relayed, x)
      /\ Written(x) = Written(relayed) \cup {start} /\ Observed(x) = Observed(relayed)
    BY <1>4, StartSession
<1> HIDE DEF x
<1>6. /\ x.phase = "live" /\ x.upstream = "open" /\ x.early = <<>> /\ x.client = k.client
      /\ x.queries = k.queries /\ x.leftEarly = k.leftEarly
    BY <1>2, <1>4, <1>5 DEF SameCourse
<1>7. Phases(x)
    BY <1>6 DEF Phases
<1>8. ASSUME Complete(k) PROVE Complete(x)
  <2>1. Cardinality(Observed(x)) = x.queries /\ IsFiniteSet(Observed(x))
      BY <1>4, <1>5, <1>6, <1>8 DEF Complete
  <2>2. \E e \in Written(x) : e.type = "started"
    <3>1. start.type = "started"
        BY DEF Event
    <3> HIDE DEF start
    <3> QED
        BY <1>5, <3>1
  <2>3. x.client = "closed" => x.leftEarly
      BY <1>6, <1>8 DEF Complete
  <2> QED
      BY <1>6, <2>1, <2>2, <2>3 DEF Complete
<1> QED
    BY <1>5, <1>7, <1>8 DEF Sound, x, relayed, live

LEMMA Unreachable ==
    ASSUME NEW k, Sound(k), k.phase = "connecting"
    PROVE  LET x == Enqueue([k EXCEPT !.phase = "failed"],
                            <<Event("started", 0, 0), Then("endFailed")>>)
           IN  Sound(x) /\ Complete(x)
<1> DEFINE failed == [k EXCEPT !.phase = "failed"]
           start == Event("started", 0, 0)
           wait == Then("endFailed")
           y == Enqueue(failed, <<start>>)
           x == Enqueue(y, <<wait>>)
<1>1. /\ k \in Connections /\ Session(k) /\ Phases(k) /\ k.log = <<>> /\ k.chain = <<>>
    BY DEF Sound, Session, Phases
<1>2. /\ failed \in Connections /\ SameTraffic(k, failed)
      /\ failed.log = k.log /\ failed.chain = k.chain /\ failed.pipelined = k.pipelined
      /\ failed.phase = "failed" /\ failed.upstream = k.upstream /\ failed.early = k.early
    BY <1>1 DEF Connections, SameTraffic
<1> HIDE DEF failed
<1>3. Session(failed) /\ Written(failed) = {}
  <2>1. Session(failed)
      BY <1>1, <1>2, SameSession
  <2> QED
      BY <1>1, <1>2, <2>1 DEF Written, Range
<1>4. /\ Session(y) /\ SameCourse(failed, y) /\ Written(y) = Written(failed) \cup {start}
    BY <1>3, StartSession
<1>5. Closing(wait)
    BY DEF Closing, Event, Then, Events, Continuations
<1>6. start \in Events
    BY DEF Event, Events, Types
<1>7. Enqueue(failed, <<start, wait>>) = x
    BY <1>2, <1>5, <1>6, PutTwo DEF Closing
<1>8. start.type = "started"
    BY DEF Event
<1> HIDE DEF y, start, wait
<1>9. /\ Session(x) /\ SameCourse(y, x) /\ Written(x) = Written(y) \cup {wait}
      /\ Range(x.chain) = Range(y.chain) \cup {wait}
    BY <1>4, <1>5, PutClosing
<1> HIDE DEF x
<1>10. /\ x.phase = "failed" /\ x.upstream = "none" /\ x.early = k.early
    BY <1>1, <1>2, <1>4, <1>9 DEF SameCourse, Phases
<1>11. Phases(x)
    BY <1>10 DEF Phases
<1>12. Complete(x)
    BY <1>4, <1>8, <1>9, <1>10 DEF Complete, wait
<1> QED
    BY <1>7, <1>9, <1>11, <1>12 DEF Sound, failed, start, wait

LEMMA EventWritten ==
    ASSUME NEW k, Sound(k), k.chain # <<>>, Head(k.chain).type \in Types
    PROVE  /\ LET x == [k EXCEPT !.chain = Tail(@), !.log = Append(@, Head(k.chain))]
               IN  Sound(x) /\ (Complete(k) => Complete(x))
           /\ Sound([k EXCEPT !.chain = Tail(@)])
<1> DEFINE x == [k EXCEPT !.chain = Tail(@), !.log = Append(@, Head(k.chain))]
           y == [k EXCEPT !.chain = Tail(@)]
<1>1. Session(k) /\ Phases(k) /\ k.phase \in {"live", "failed"}
    BY DEF Sound, Session, Phases, Connections
<1>2. /\ Session(x) /\ SameCourse(k, x) /\ SameTraffic(k, x)
      /\ Range(k.chain) = Range(x.chain) \cup {Head(k.chain)}
      /\ Written(k) = Written(x) /\ Observed(x) = Observed(k)
    BY <1>1, LogSession
<1>3. /\ Session(y) /\ SameCourse(k, y) /\ SameTraffic(k, y)
    BY <1>1, DropSession
<1> HIDE DEF x, y
<1>4. Phases(x) /\ Phases(y)
    BY <1>1, <1>2, <1>3 DEF Phases, SameCourse
<1>5. ASSUME Complete(k) PROVE Complete(x)
  <2>1. Head(k.chain) # Then("endFailed")
      BY DEF Types, Then, Event
  <2> QED
      BY <1>1, <1>2, <1>5, <2>1 DEF Complete, SameCourse
<1> QED
    BY <1>2, <1>3, <1>4, <1>5 DEF Sound, x, y

LEMMA Ending ==
    ASSUME NEW s \in Sockets
    PROVE  /\ Ended(s) \in Sockets
           /\ s \in {"none", "broken", "closed"} => Ended(s) = s
           /\ Ended(s) \in {"none", "broken", "closed"} => Ended(s) = s
BY DEF Ended, Sockets

LEMMA Continued ==
    ASSUME NEW k, Sound(k), k.chain # <<>>, Head(k.chain).type \in Continuations
    PROVE  LET y == [k EXCEPT !.chain = Tail(@)]
               a == [y EXCEPT !.client = Ended(@)]
               b == [y EXCEPT !.upstream = Ended(@)]
               x == End(y, "endClient")
           IN  /\ Head(k.chain) = Then("endClient") => Sound(a) /\ (Complete(k) => Complete(a))
               /\ Head(k.chain) = Then("endUpstream") => Sound(b) /\ (Complete(k) => Complete(b))
               /\ Sound(x) /\ (Complete(k) => Complete(x))
<1> DEFINE y == [k EXCEPT !.chain = Tail(@)]
           a == [y EXCEPT !.client = Ended(@)]
           b == [y EXCEPT !.upstream = Ended(@)]
           x == End(y, "endClient")
           h == Head(k.chain)
<1>1. Session(k) /\ Phases(k) /\ k.phase \in {"live", "failed"}
    BY DEF Sound, Session, Phases, Connections
<1>2. /\ h.type # "observed" /\ h.type # "started" /\ h.type # "ended"
    BY DEF Continuations
<1>3. /\ Session(y) /\ SameCourse(k, y) /\ SameTraffic(k, y) /\ y.log = k.log
      /\ Range(k.chain) = Range(y.chain) \cup {h}
      /\ Written(k) = Written(y) \cup {h}
    BY <1>1, DropSession
<1>4. y \in Connections
    BY <1>3 DEF Session
<1> HIDE DEF y, h
<1>5. Observed(y) = Observed(k)
    BY <1>2, <1>3 DEF Observed
<1>6. Phases(y)
    BY <1>1, <1>3 DEF Phases, SameCourse
<1>7. ASSUME Complete(k), h # Then("endFailed") PROVE Complete(y)
  <2>1. k.phase \in {"live", "failed"} => \E e \in Written(y) : e.type = "started"
      BY <1>2, <1>3, <1>7 DEF Complete
  <2>2. (\E e \in Written(k) : e.type = "ended") => \E e \in Written(y) : e.type = "ended"
      BY <1>2, <1>3
  <2>3. Then("endFailed") \in Range(k.chain) => Then("endFailed") \in Range(y.chain)
      BY <1>3, <1>7
  <2> QED
      BY <1>1, <1>3, <1>5, <1>7, <2>1, <2>2, <2>3 DEF Complete, SameCourse
<1>8. ASSUME h = Then("endClient") PROVE Sound(a) /\ (Complete(k) => Complete(a))
  <2>1. y.client \in Sockets /\ Ended(y.client) \in Sockets
        /\ (Ended(y.client) \in {"none", "broken", "closed"} => Ended(y.client) = y.client)
      BY <1>4, Ending DEF Connections
  <2>2. /\ a \in Connections /\ SameTraffic(y, a) /\ a.log = y.log /\ a.chain = y.chain
        /\ a.phase = y.phase /\ a.upstream = y.upstream /\ a.early = y.early
        /\ a.queries = y.queries /\ a.pipelined = y.pipelined /\ a.leftEarly = y.leftEarly
        /\ a.client = Ended(y.client)
      BY <1>4, <2>1 DEF Connections, SameTraffic
  <2> HIDE DEF a
  <2>3. Session(a) /\ Written(a) = Written(y) /\ Observed(a) = Observed(y)
      BY <1>3, <2>2, SameSession
  <2>4. Phases(a)
      BY <1>6, <2>2 DEF Phases, SameTraffic
  <2>5. ASSUME Complete(k) PROVE Complete(a)
    <3>1. Complete(y)
      <4>1. h # Then("endFailed")
          BY <1>8 DEF Then, Event
      <4> QED
          BY <1>7, <2>5, <4>1
    <3>2. a.client \in {"broken", "closed"} => a.client = y.client
        BY <2>1, <2>2
    <3> QED
        BY <2>2, <2>3, <3>1, <3>2 DEF Complete
  <2> QED
      BY <2>3, <2>4, <2>5 DEF Sound, a
<1>9. ASSUME h = Then("endUpstream") PROVE Sound(b) /\ (Complete(k) => Complete(b))
  <2>1. y.upstream \in Sockets /\ Ended(y.upstream) \in Sockets
        /\ (y.upstream = "none" => Ended(y.upstream) = "none")
      BY <1>4, Ending DEF Connections
  <2>2. /\ b \in Connections /\ SameTraffic(y, b) /\ b.log = y.log /\ b.chain = y.chain
        /\ b.phase = y.phase /\ b.client = y.client /\ b.early = y.early
        /\ b.queries = y.queries /\ b.pipelined = y.pipelined /\ b.leftEarly = y.leftEarly
        /\ b.upstream = Ended(y.upstream)
      BY <1>4, <2>1 DEF Connections, SameTraffic
  <2> HIDE DEF b
  <2>3. Session(b) /\ Written(b) = Written(y) /\ Observed(b) = Observed(y)
      BY <1>3, <2>2, SameSession
  <2>4. Phases(b)
      BY <1>6, <2>1, <2>2 DEF Phases, SameTraffic
  <2>5. ASSUME Complete(k) PROVE Complete(b)
    <3>1. Complete(y)
      <4>1. h # Then("endFailed")
          BY <1>9 DEF Then, Event
      <4> QED
          BY <1>7, <2>5, <4>1
    <3> QED
        BY <2>2, <2>3, <3>1 DEF Complete
  <2> QED
      BY <2>3, <2>4, <2>5 DEF Sound, b
<1>10. Sound(x) /\ (Complete(k) => Complete(x))
  <2>1. /\ Session(x) /\ SameCourse(y, x)
        /\ Written(x) = Written(y) \cup {Event("ended", 0, 0), Then("endClient")}
        /\ Observed(x) = Observed(y)
      BY <1>3, EndSession DEF Continuations
  <2> HIDE DEF x
  <2>2. Phases(x)
      BY <1>1, <1>3, <1>6, <2>1 DEF Phases, SameCourse
  <2>3. \E e \in Written(x) : e.type = "ended"
    <3>1. Event("ended", 0, 0).type = "ended" /\ Event("ended", 0, 0) \in Written(x)
        BY <2>1 DEF Event
    <3> QED
        BY <3>1
  <2>4. ASSUME Complete(k) PROVE Complete(x)
    <3>1. k.phase \in {"live", "failed"} => \E e \in Written(x) : e.type = "started"
        BY <1>2, <1>3, <2>1, <2>4 DEF Complete
    <3>2. x.phase = k.phase /\ x.queries = k.queries /\ Observed(x) = Observed(k)
        BY <1>3, <1>5, <2>1 DEF SameCourse
    <3> QED
        BY <1>1, <2>3, <2>4, <3>1, <3>2 DEF Complete
  <2> QED
      BY <2>1, <2>2, <2>4 DEF Sound
<1> QED
    BY <1>8, <1>9, <1>10 DEF y, h

LEMMA QueriesAppend ==
    ASSUME NEW early \in Seq(Messages), NEW message \in Messages
    PROVE  /\ Cardinality(QueriesIn(early, Len(early))) \in Nat
           /\ Cardinality(QueriesIn(Append(early, message), Len(Append(early, message))))
              = Cardinality(QueriesIn(early, Len(early))) + (IF message = "query" THEN 1 ELSE 0)
<1> DEFINE n == Len(early)
           more == Append(early, message)
           Q == QueriesIn(early, n)
           R == QueriesIn(more, n + 1)
<1>1. /\ n \in Nat /\ Len(more) = n + 1 /\ more[n + 1] = message
      /\ \A i \in 1 .. n : more[i] = early[i]
    OBVIOUS
<1> HIDE DEF n, more
<1>2. IsFiniteSet(Q)
  <2>1. IsFiniteSet(1 .. n)
      BY <1>1, FS_Interval
  <2>2. Q \subseteq 1 .. n
      BY DEF QueriesIn
  <2> QED
      BY <2>1, <2>2, FS_Subset
<1>3. Cardinality(Q) \in Nat
    BY <1>2, FS_CardinalityType
<1>4. CASE message = "query"
  <2>1. R = Q \cup {n + 1} /\ n + 1 \notin Q
      BY <1>1, <1>4 DEF QueriesIn
  <2> QED
      BY <1>1, <1>2, <1>3, <1>4, <2>1, FS_AddElement DEF n, more
<1>5. CASE message # "query"
  <2>1. R = Q
      BY <1>1, <1>5 DEF QueriesIn
  <2> QED
      BY <1>1, <1>3, <1>5, <2>1 DEF n, more
<1> QED
    BY <1>4, <1>5

LEMMA Sent ==
    ASSUME NEW k, Sound(k), k.phase \in {"connecting", "live"}, NEW message \in Messages
    PROVE  LET y == [k EXCEPT !.queries = IF message = "query" THEN @ + 1 ELSE @,
                              !.pipelined = @ \/ k.wire # <<>> \/ k.early # <<>>]
               x == IF y.phase = "live" THEN FromClient(y, message)
                                        ELSE [y EXCEPT !.early = Append(@, message)]
           IN  Sound(x) /\ (Complete(k) => Complete(x))
<1> DEFINE sent == IF message = "query" THEN k.queries + 1 ELSE k.queries
           busy == k.pipelined \/ k.wire # <<>> \/ k.early # <<>>
           y == [k EXCEPT !.queries = IF message = "query" THEN @ + 1 ELSE @,
                          !.pipelined = @ \/ k.wire # <<>> \/ k.early # <<>>]
<1>1. k \in Connections /\ Session(k) /\ Phases(k) /\ k.queries \in Nat /\ k.pipelined \in BOOLEAN
    BY DEF Sound, Session, Connections
<1>2. sent \in Nat /\ busy \in BOOLEAN /\ (~busy <=> ~k.pipelined /\ k.wire = <<>> /\ k.early = <<>>)
    BY <1>1
<1>3. y = [k EXCEPT !.queries = sent, !.pipelined = busy]
    OBVIOUS
<1> HIDE DEF sent, busy, y
<1>4. /\ y \in Connections /\ SameTraffic(k, y) /\ y.log = k.log /\ y.chain = k.chain
      /\ y.phase = k.phase /\ y.client = k.client /\ y.upstream = k.upstream
      /\ y.early = k.early /\ y.leftEarly = k.leftEarly
      /\ y.queries = sent /\ y.pipelined = busy
    BY <1>1, <1>2, <1>3 DEF Connections, SameTraffic
<1>5. Session(y) /\ Written(y) = Written(k) /\ Observed(y) = Observed(k)
    BY <1>1, <1>2, <1>4, SameSession
<1>6. CASE k.phase = "live"
  <2> DEFINE x == FromClient(y, message)
  <2>1. y.pipelined \/ y.wire = <<>>
      BY <1>2, <1>4 DEF SameTraffic
  <2>2. /\ Session(x) /\ SameCourse(y, x) /\ Written(y) \subseteq Written(x)
        /\ IF message = "query" THEN Observed(x) = Observed(y) \cup {y.counter + 1}
                                ELSE Observed(x) = Observed(y)
      BY <1>5, <2>1, FromClientSession
  <2> HIDE DEF x
  <2>3. Phases(x)
      BY <1>1, <1>4, <1>6, <2>2 DEF Phases, SameCourse
  <2>4. ASSUME Complete(k) PROVE Complete(x)
    <3>1. y.counter + 1 \notin Observed(y)
      <4>1. Numbered(y) /\ y.counter \in Nat
          BY <1>5 DEF Session, Connections
      <4> QED
          BY <4>1 DEF Numbered, Observed
    <3>2. IsFiniteSet(Observed(y)) /\ Cardinality(Observed(y)) = k.queries
        BY <1>5, <1>6, <2>4 DEF Complete
    <3>3. IsFiniteSet(Observed(x)) /\ Cardinality(Observed(x)) = sent
        BY <2>2, <3>1, <3>2, FS_AddElement DEF sent
    <3> QED
        BY <1>4, <1>5, <1>6, <2>2, <2>4, <3>3 DEF Complete, SameCourse
  <2> QED
      BY <1>4, <1>6, <2>2, <2>3, <2>4 DEF Sound, x, y
<1>7. CASE k.phase = "connecting"
  <2> DEFINE x == [y EXCEPT !.early = Append(y.early, message)]
  <2>1. k.early \in Seq(Messages) /\ Append(k.early, message) \in Seq(Messages)
      BY <1>1 DEF Connections
  <2>2. /\ x \in Connections /\ SameTraffic(y, x) /\ x.log = y.log /\ x.chain = y.chain
        /\ x.phase = "connecting" /\ x.client = k.client /\ x.upstream = k.upstream
        /\ x.early = Append(k.early, message) /\ x.leftEarly = k.leftEarly
        /\ x.queries = sent /\ x.pipelined = busy
      BY <1>4, <1>7, <2>1 DEF Connections, SameTraffic
  <2> HIDE DEF x
  <2>3. Session(x)
      BY <1>4, <1>5, <2>2, SameSession
  <2>4. Phases(x)
    <3>1. ~busy => Len(Append(k.early, message)) <= 1
        BY <1>2
    <3> QED
        BY <1>1, <1>4, <1>7, <2>2, <3>1 DEF Phases, SameTraffic
  <2>5. ASSUME Complete(k) PROVE Complete(x)
    <3>1. k.queries = Cardinality(QueriesIn(k.early, Len(k.early)))
        BY <1>7, <2>5 DEF Complete
    <3>2. sent = Cardinality(QueriesIn(x.early, Len(x.early)))
        BY <1>1, <2>1, <2>2, <3>1, QueriesAppend DEF sent
    <3>3. x.client \in {"broken", "closed"} => x.leftEarly
        BY <1>7, <2>2, <2>5 DEF Complete
    <3> QED
        BY <2>2, <3>2, <3>3 DEF Complete
  <2>6. y.phase # "live"
      BY <1>4, <1>7
  <2> QED
      BY <2>3, <2>4, <2>5, <2>6 DEF Sound, x, y
<1> QED
    BY <1>6, <1>7

LEMMA Responded ==
    ASSUME NEW k, Sound(k), k.phase = "live", k.wire # <<>>, NEW response \in Responses
    PROVE  LET x == FromUpstream(k, response) IN Sound(x) /\ (Complete(k) => Complete(x))
<1> DEFINE x == FromUpstream(k, response)
<1>1. Session(k) /\ Phases(k) /\ k.phase = "live"
    BY DEF Sound
<1>2. /\ Session(x) /\ SameCourse(k, x) /\ x.log = k.log
      /\ Written(k) \subseteq Written(x) /\ Observed(x) = Observed(k)
    BY <1>1, FromUpstreamSession
<1> HIDE DEF x
<1>3. Phases(x)
    BY <1>1, <1>2 DEF Phases, SameCourse
<1>4. ASSUME Complete(k) PROVE Complete(x)
  <2>1. (\E e \in Written(k) : e.type = "ended") => \E e \in Written(x) : e.type = "ended"
      BY <1>2
  <2> QED
      BY <1>1, <1>2, <1>4, <2>1 DEF Complete, SameCourse
<1> QED
    BY <1>2, <1>3, <1>4 DEF Sound, x

LEMMA Left ==
    ASSUME NEW k, Sound(k), NEW s \in {"broken", "closed"}
    PROVE  LET x == ClientGone([k EXCEPT !.client = s])
           IN  Sound(x) /\ (Complete(k) => Complete(x))
<1> DEFINE y == [k EXCEPT !.client = s]
           x == ClientGone(y)
<1>1. Session(k) /\ Phases(k) /\ k \in Connections
    BY DEF Sound, Session
<1>2. /\ y \in Connections /\ SameTraffic(k, y) /\ y.log = k.log /\ y.chain = k.chain
      /\ y.phase = k.phase /\ y.upstream = k.upstream /\ y.early = k.early
      /\ y.queries = k.queries /\ y.pipelined = k.pipelined /\ y.leftEarly = k.leftEarly
      /\ y.client = s
    BY <1>1 DEF Connections, SameTraffic, Sockets
<1> HIDE DEF y
<1>3. Session(y) /\ Written(y) = Written(k) /\ Observed(y) = Observed(k)
    BY <1>1, <1>2, SameSession
<1>4. Phases(y)
    BY <1>1, <1>2 DEF Phases, SameTraffic
<1>5. CASE k.phase = "live"
  <2>1. x = End(y, "endUpstream")
      BY <1>2, <1>5 DEF ClientGone
  <2>2. /\ Session(x) /\ SameCourse(y, x)
        /\ Written(x) = Written(y) \cup {Event("ended", 0, 0), Then("endUpstream")}
        /\ Observed(x) = Observed(y)
      BY <1>3, <2>1, EndSession DEF Continuations
  <2> HIDE DEF x
  <2>3. Phases(x)
      BY <1>2, <1>4, <1>5, <2>2 DEF Phases, SameCourse
  <2>4. \E e \in Written(x) : e.type = "ended"
    <3>1. Event("ended", 0, 0).type = "ended" /\ Event("ended", 0, 0) \in Written(x)
        BY <2>2 DEF Event
    <3> QED
        BY <3>1
  <2>5. ASSUME Complete(k) PROVE Complete(x)
    <3>1. x.phase = "live" /\ x.queries = k.queries
        BY <1>2, <1>5, <2>2 DEF SameCourse
    <3> QED
        BY <1>3, <1>5, <2>2, <2>4, <2>5, <3>1 DEF Complete
  <2> QED
      BY <2>2, <2>3, <2>5 DEF Sound, x, y
<1>6. CASE k.phase = "connecting"
  <2>1. x = [y EXCEPT !.leftEarly = TRUE]
      BY <1>2, <1>6 DEF ClientGone
  <2>2. /\ x \in Connections /\ SameTraffic(y, x) /\ x.log = y.log /\ x.chain = y.chain
        /\ x.phase = k.phase /\ x.upstream = k.upstream /\ x.early = k.early
        /\ x.queries = k.queries /\ x.pipelined = k.pipelined /\ x.leftEarly = TRUE
      BY <1>2, <2>1 DEF Connections, SameTraffic
  <2> HIDE DEF x
  <2>3. Session(x)
      BY <1>2, <1>3, <2>2, SameSession
  <2>4. Phases(x)
      BY <1>1, <1>2, <2>2 DEF Phases, SameTraffic
  <2>5. ASSUME Complete(k) PROVE Complete(x)
      BY <1>6, <2>2, <2>5 DEF Complete
  <2> QED
      BY <2>3, <2>4, <2>5 DEF Sound, x, y
<1>7. CASE k.phase \notin {"live", "connecting"}
  <2>1. x = y
      BY <1>2, <1>7 DEF ClientGone
  <2>2. Complete(k) => Complete(y)
      BY <1>2, <1>3, <1>7 DEF Complete
  <2> QED
      BY <1>3, <1>4, <2>1, <2>2 DEF Sound, x, y
<1> QED
    BY <1>5, <1>6, <1>7

LEMMA UpstreamLeft ==
    ASSUME NEW k, Sound(k), k.phase = "live", NEW s \in {"broken", "closed"}
    PROVE  LET x == End([k EXCEPT !.upstream = s], "endClient")
           IN  Sound(x) /\ (Complete(k) => Complete(x))
<1> DEFINE y == [k EXCEPT !.upstream = s]
           x == End(y, "endClient")
<1>1. Session(k) /\ Phases(k) /\ k \in Connections
    BY DEF Sound, Session
<1>2. /\ y \in Connections /\ SameTraffic(k, y) /\ y.log = k.log /\ y.chain = k.chain
      /\ y.phase = k.phase /\ y.client = k.client /\ y.early = k.early
      /\ y.queries = k.queries /\ y.pipelined = k.pipelined /\ y.leftEarly = k.leftEarly
    BY <1>1 DEF Connections, SameTraffic, Sockets
<1> HIDE DEF y
<1>3. Session(y) /\ Written(y) = Written(k) /\ Observed(y) = Observed(k)
    BY <1>1, <1>2, SameSession
<1>4. /\ Session(x) /\ SameCourse(y, x)
      /\ Written(x) = Written(y) \cup {Event("ended", 0, 0), Then("endClient")}
      /\ Observed(x) = Observed(y)
    BY <1>3, EndSession DEF Continuations
<1> HIDE DEF x
<1>5. Phases(x)
    BY <1>1, <1>2, <1>4 DEF Phases, SameCourse
<1>6. \E e \in Written(x) : e.type = "ended"
  <2>1. Event("ended", 0, 0).type = "ended" /\ Event("ended", 0, 0) \in Written(x)
      BY <1>4 DEF Event
  <2> QED
      BY <2>1
<1>7. ASSUME Complete(k) PROVE Complete(x)
  <2>1. x.phase = "live" /\ x.queries = k.queries
      BY <1>2, <1>4 DEF SameCourse
  <2> QED
      BY <1>3, <1>4, <1>6, <1>7, <2>1 DEF Complete
<1> QED
    BY <1>4, <1>5, <1>7 DEF Sound, x, y

(***************************************************************************)
(* The invariant holds.                                                    *)
(***************************************************************************)

LEMMA NewConnection ==
    ASSUME SessionsInv, NEW c \in Clients, NEW x, Sound(x), Becomes(c, x),
           writeFailed' = (failures' > 0),
           messages' \in 0 .. MaxMessages, failures' \in 0 .. MaxFailures,
           ~writeFailed' => ~writeFailed /\ (Complete(conn[c]) => Complete(x))
    PROVE  SessionsInv'
<1>1. x \in Connections
    BY DEF Sound, Session
<1>2. conn' \in [Clients -> Connections]
    BY <1>1 DEF SessionsInv, Becomes
<1>3. \A d \in Clients : conn'[d] = IF d = c THEN x ELSE conn[d]
    BY DEF SessionsInv, Becomes
<1>4. \A d \in Clients : Session(conn'[d]) /\ Phases(conn'[d])
    BY <1>3 DEF SessionsInv, Sound
<1>5. ~writeFailed' => \A d \in Clients : Complete(conn'[d])
    BY <1>3 DEF SessionsInv
<1> QED
    BY <1>2, <1>4, <1>5 DEF SessionsInv

LEMMA SessionsInit == ProxyInit => SessionsInv
<1> SUFFICES ASSUME ProxyInit PROVE SessionsInv
    OBVIOUS
<1>1. <<>> \in Seq(Messages) /\ <<>> \in Seq(Nat) /\ <<>> \in Seq(Events)
    OBVIOUS
<1>2. NoConnection \in Connections
    BY <1>1 DEF NoConnection, Connections, Sockets
<1>3. Sound(NoConnection) /\ Complete(NoConnection)
    BY <1>2, NothingSession DEF NoConnection
<1>4. MaxMessages \in Nat /\ MaxFailures \in Nat
    BY ProxyAssumption
<1>5. conn \in [Clients -> Connections] /\ \A c \in Clients : conn[c] = NoConnection
    BY <1>2 DEF ProxyInit
<1>6. /\ messages \in 0 .. MaxMessages /\ failures \in 0 .. MaxFailures
      /\ writeFailed = (failures > 0)
  <2>1. messages = 0 /\ failures = 0 /\ writeFailed = FALSE
      BY DEF ProxyInit
  <2>2. 0 \in 0 .. MaxMessages /\ 0 \in 0 .. MaxFailures /\ ~(0 > 0)
      BY <1>4
  <2>3. writeFailed = (failures > 0)
    <3>1. (failures > 0) = FALSE
        BY <2>1, <2>2
    <3> QED
        BY <2>1, <3>1
  <2> QED
      BY <2>1, <2>2, <2>3
<1> QED
    BY <1>3, <1>5, <1>6 DEF SessionsInv, Sound

LEMMA SessionsConnect ==
    ASSUME SessionsInv, NEW c \in Clients, Connect(c) PROVE SessionsInv'
<1>1. <<>> \in Seq(Messages) /\ <<>> \in Seq(Nat) /\ <<>> \in Seq(Events)
    OBVIOUS
<1>2. ASSUME NEW p \in {"refused", "connecting"}, NEW s \in {"open", "ending"}
      PROVE  LET x == [NoConnection EXCEPT !.phase = p, !.client = s]
             IN  Sound(x) /\ Complete(x)
  <2> DEFINE x == [NoConnection EXCEPT !.phase = p, !.client = s]
  <2>1. /\ x \in Connections
        /\ x.phase \in {"none", "refused", "connecting"} /\ x.early = <<>> /\ x.upstream = "none"
        /\ x.wire = <<>> /\ ~x.awaiting /\ x.active = 0 /\ x.counter = 0
        /\ x.chain = <<>> /\ x.log = <<>> /\ x.queries = 0 /\ x.client \in {"none", "open", "ending"}
      BY <1>1 DEF NoConnection, Connections, Sockets
  <2> QED
      BY <2>1, NothingSession
<1>3. /\ writeFailed' = (failures' > 0) /\ messages' \in 0 .. MaxMessages
      /\ failures' \in 0 .. MaxFailures /\ writeFailed' = writeFailed
    BY DEF Connect, SessionsInv
<1>4. CASE writeFailed
  <2>1. Becomes(c, [NoConnection EXCEPT !.phase = "refused", !.client = "ending"])
      BY <1>4 DEF Connect
  <2> QED
      BY <1>2, <1>3, <2>1, NewConnection
<1>5. CASE ~writeFailed
  <2>1. Becomes(c, [NoConnection EXCEPT !.phase = "connecting", !.client = "open"])
      BY <1>5 DEF Connect
  <2> QED
      BY <1>2, <1>3, <2>1, NewConnection
<1> QED
    BY <1>4, <1>5

LEMMA SessionsWrite ==
    ASSUME SessionsInv, NEW c \in Clients, NEW ok \in BOOLEAN, WriteEvent(c, ok)
    PROVE  SessionsInv'
<1> DEFINE k == conn[c]
<1>1. Sound(k) /\ k.chain # <<>> /\ Head(k.chain).type \in Types
    BY DEF SessionsInv, Sound, WriteEvent
<1>2. /\ failures \in Nat /\ MaxFailures \in Nat /\ failures \in 0 .. MaxFailures
      /\ writeFailed = (failures > 0)
    BY ProxyAssumption DEF SessionsInv
<1>3. messages' \in 0 .. MaxMessages
    BY DEF SessionsInv, WriteEvent
<1>4. CASE ok
  <2>1. failures' = failures /\ writeFailed' = writeFailed
    <3>1. writeFailed \in BOOLEAN
        BY <1>2
    <3>2. failures' = failures /\ writeFailed' = (writeFailed \/ ~ok)
        BY <1>4 DEF WriteEvent
    <3> QED
        BY <1>4, <3>1, <3>2
  <2>2. Becomes(c, [k EXCEPT !.chain = Tail(@), !.log = Append(@, Head(k.chain))])
      BY <1>4 DEF WriteEvent
  <2>3. LET x == [k EXCEPT !.chain = Tail(@), !.log = Append(@, Head(k.chain))]
        IN  Sound(x) /\ (Complete(k) => Complete(x))
      BY <1>1, EventWritten
  <2> QED
      BY <1>2, <1>3, <2>1, <2>2, <2>3, NewConnection
<1>5. CASE ~ok
  <2>1. failures' = failures + 1 /\ writeFailed' = TRUE /\ failures < MaxFailures
      BY <1>5 DEF WriteEvent
  <2>2. failures' \in 0 .. MaxFailures /\ writeFailed' = (failures' > 0)
    <3>1. failures \in Nat /\ MaxFailures \in Nat
        BY <1>2
    <3>2. failures + 1 \in 0 .. MaxFailures /\ failures + 1 > 0
        BY <2>1, <3>1
    <3>3. (failures' > 0) = TRUE
        BY <2>1, <3>2
    <3> QED
        BY <2>1, <3>2, <3>3
  <2>3. Becomes(c, [k EXCEPT !.chain = Tail(@)])
    <3>1. k \in Connections
        BY DEF SessionsInv
    <3>2. [k EXCEPT !.chain = Tail(@), !.log = @] = [k EXCEPT !.chain = Tail(@)]
        BY <3>1 DEF Connections
    <3> QED
        BY <1>5, <3>2 DEF WriteEvent
  <2>4. Sound([k EXCEPT !.chain = Tail(@)])
      BY <1>1, EventWritten
  <2> QED
      BY <1>3, <2>1, <2>2, <2>3, <2>4, NewConnection
<1> QED
    BY <1>4, <1>5

LEMMA SessionsNext == SessionsInv /\ [ProxyNext]_proxyVars => SessionsInv'
<1> SUFFICES ASSUME SessionsInv, [ProxyNext]_proxyVars PROVE SessionsInv'
    OBVIOUS
<1> USE DEF Sound
<1>1. CASE UNCHANGED proxyVars
    BY <1>1 DEF SessionsInv, proxyVars
<1> SUFFICES ASSUME NEW c \in Clients, Peer(c) \/ Proxy(c) PROVE SessionsInv'
    BY <1>1 DEF ProxyNext
<1> DEFINE k == conn[c]
<1>2. Sound(k) /\ k \in Connections
    BY DEF SessionsInv
<1>3. /\ messages \in 0 .. MaxMessages /\ failures \in 0 .. MaxFailures
      /\ writeFailed = (failures > 0)
    BY DEF SessionsInv
<1>4. ASSUME UNCHANGED <<writeFailed, messages, failures>>,
             NEW x, Sound(x), Complete(k) => Complete(x), Becomes(c, x)
      PROVE  SessionsInv'
    BY <1>3, <1>4, NewConnection
<1>5. k.upstream # "none" => k.phase = "live"
    BY <1>2 DEF Phases
<1> HIDE DEF k, Sound
<1>6. CASE Connect(c)
    BY <1>6, SessionsConnect
<1>7. CASE UpstreamConnects(c)
    BY <1>2, <1>4, <1>7, Connected DEF UpstreamConnects, k
<1>8. CASE UpstreamFails(c)
    BY <1>2, <1>4, <1>8, Unreachable DEF UpstreamFails, k
<1>9. CASE Write(c)
    BY <1>9, SessionsWrite DEF Write
<1>10. CASE Continue(c)
    BY <1>2, <1>4, <1>10, Continued DEF Continue, k
<1>11. CASE ClientSends(c)
  <2>1. PICK message \in Messages :
          LET y == [k EXCEPT !.queries = IF message = "query" THEN @ + 1 ELSE @,
                             !.pipelined = @ \/ k.wire # <<>> \/ k.early # <<>>]
          IN  Becomes(c, IF y.phase = "live" THEN FromClient(y, message)
                                             ELSE [y EXCEPT !.early = Append(@, message)])
      BY <1>11 DEF ClientSends, k
  <2>2. /\ k.phase \in {"connecting", "live"} /\ messages < MaxMessages
        /\ messages' = messages + 1 /\ UNCHANGED <<writeFailed, failures>>
      BY <1>11 DEF ClientSends, k
  <2>3. messages' \in 0 .. MaxMessages
      BY <1>3, <2>2, ProxyAssumption
  <2> QED
      BY <1>2, <1>3, <2>1, <2>2, <2>3, Sent, NewConnection DEF k
<1>12. CASE UpstreamResponds(c)
  <2>1. k.phase = "live"
      BY <1>5, <1>12 DEF UpstreamResponds, k
  <2> QED
      BY <1>2, <1>4, <1>12, <2>1, Responded DEF UpstreamResponds, k
<1>13. CASE ClientCloses(c)
    BY <1>2, <1>4, <1>13, Left DEF ClientCloses, k
<1>14. CASE ClientErrors(c)
    BY <1>2, <1>4, <1>14, Left DEF ClientErrors, k
<1>15. CASE UpstreamCloses(c)
  <2>1. k.phase = "live"
      BY <1>5, <1>15 DEF UpstreamCloses, k
  <2> QED
      BY <1>2, <1>4, <1>15, <2>1, UpstreamLeft DEF UpstreamCloses, k
<1>16. CASE UpstreamErrors(c)
  <2>1. k.phase = "live"
      BY <1>5, <1>16 DEF UpstreamErrors, k
  <2> QED
      BY <1>2, <1>4, <1>16, <2>1, UpstreamLeft DEF UpstreamErrors, k
<1> QED
    BY <1>6, <1>7, <1>8, <1>9, <1>10, <1>11, <1>12, <1>13, <1>14, <1>15, <1>16 DEF Peer, Proxy

LEMMA SessionsHold == ProxySpec => []SessionsInv
<1> QED
    BY SessionsInit, SessionsNext, PTL DEF ProxySpec

\* The proxy's state has its types, and failed writes are remembered.
THEOREM ProxyTypeCorrect == ProxySpec => []ProxyTypeOK
<1>1. SessionsInv => ProxyTypeOK
    BY DEF SessionsInv, ProxyTypeOK, Connections, Phases
<1> QED
    BY <1>1, SessionsHold, PTL

LEMMA LogOf ==
    ASSUME NEW k \in Connections
    PROVE  /\ DOMAIN k.log = 1 .. Len(k.log) /\ Len(k.log) \in Nat
           /\ \A i \in DOMAIN k.log : k.log[i] \in Events /\ k.log[i] \in Written(k)
           /\ Range(k.log) = {k.log[i] : i \in DOMAIN k.log}
<1>1. k.log \in Seq(Events)
    BY DEF Connections
<1>2. Range(k.log) = {k.log[i] : i \in 1 .. Len(k.log)}
    BY <1>1, RangeEquality
<1> QED
    BY <1>1, <1>2, LenProperties, ElementOfSeq DEF Written

\* AnsweredOnce (session.ts, beginQuery to errorQuery): a query is answered once at
\* most in the log, and after it was observed, whatever is lost, pipelined or in error.
THEOREM AnsweredOnceHolds == ProxySpec => []AnsweredOnce
<1>1. ASSUME SessionsInv PROVE AnsweredOnce
  <2> SUFFICES ASSUME NEW c \in Clients, NEW i \in DOMAIN conn[c].log, NEW j \in DOMAIN conn[c].log,
                      Answer(conn[c].log[j]), conn[c].log[j].id # 0,
                      conn[c].log[i].id = conn[c].log[j].id, i # j
               PROVE  conn[c].log[i].type = "observed" /\ i < j
      BY DEF AnsweredOnce
  <2> DEFINE k == conn[c]
  <2>1. k \in Connections /\ InOrder(k.log)
      BY <1>1 DEF SessionsInv, Session, RecordInOrder
  <2>2. i \in Int /\ j \in Int
      BY <2>1, LogOf
  <2>3. CASE i < j
    <3>1. Precedes(k.log[i], k.log[j])
        BY <2>1, <2>3 DEF InOrder
    <3> QED
        BY <2>3, <3>1 DEF Precedes
  <2>4. CASE j < i
    <3>1. Precedes(k.log[j], k.log[i])
        BY <2>1, <2>4 DEF InOrder
    <3> QED
        BY <3>1 DEF Precedes, Answer
  <2> QED
      BY <2>2, <2>3, <2>4
<1> QED
    BY <1>1, SessionsHold, PTL

\* AnswerIsItsOwn (session.ts, completeQuery and errorQuery; the analyzers'
\* awaitingResponse): without pipelining, a response answers the query it is for, or one
\* that its own response has left active.
THEOREM AnswerIsItsOwnHolds == ProxySpec => []AnswerIsItsOwn
<1>1. ASSUME SessionsInv PROVE AnswerIsItsOwn
  <2> SUFFICES ASSUME NEW c \in Clients, ~conn[c].pipelined,
                      NEW i \in DOMAIN conn[c].log, Answer(conn[c].log[i])
               PROVE  \/ conn[c].log[i].id = conn[c].log[i].reply
                      \/ /\ conn[c].log[i].reply = 0
                         /\ conn[c].log[i].id \in conn[c].unended
      BY DEF AnswerIsItsOwn
  <2>1. conn[c] \in Connections /\ OneAtATime(conn[c])
      BY <1>1 DEF SessionsInv, Session
  <2>2. conn[c].log[i] \in Written(conn[c])
      BY <2>1, LogOf
  <2> QED
      BY <2>1, <2>2 DEF OneAtATime, OwnAnswer
<1> QED
    BY <1>1, SessionsHold, PTL

\* RecordIsComplete (server.ts, handleConnection; session.ts; events.ts): a log of
\* which no line was lost, and that waits for none, tells the whole session.
THEOREM RecordIsCompleteHolds == ProxySpec => []RecordIsComplete
<1>1. ASSUME SessionsInv PROVE RecordIsComplete
  <2> SUFFICES ASSUME NEW c \in Clients, ~writeFailed, conn[c].chain = <<>>,
                      conn[c].phase \in {"live", "failed"}
               PROVE  LET k == conn[c] IN
                        /\ Cardinality(Lines(k, "started")) = 1
                        /\ k.phase = "live" =>
                             /\ Cardinality(Lines(k, "observed")) = k.queries
                             /\ \A i, j \in Lines(k, "observed") : i < j => k.log[i].id < k.log[j].id
                        /\ k.phase = "failed" \/ (k.client = "closed" /\ ~k.leftEarly)
                             => Lines(k, "ended") # {}
      BY DEF RecordIsComplete
  <2> DEFINE k == conn[c]
             O == Lines(k, "observed")
  <2>1. k \in Connections /\ InOrder(k.log) /\ Complete(k)
      BY <1>1 DEF SessionsInv, Session, RecordInOrder
  <2>2. Written(k) = Range(k.log) /\ Range(k.chain) = {}
      BY DEF Written, Range
  <2>3. /\ DOMAIN k.log = 1 .. Len(k.log) /\ Len(k.log) \in Nat
        /\ \A i \in DOMAIN k.log : k.log[i] \in Events /\ k.log[i] \in Written(k)
        /\ Written(k) = {k.log[i] : i \in DOMAIN k.log}
      BY <2>1, <2>2, LogOf
  <2> HIDE DEF k
  <2>4. Cardinality(Lines(k, "started")) = 1
    <3>1. PICK i \in DOMAIN k.log : k.log[i].type = "started"
        BY <2>1, <2>3 DEF Complete, k
    <3>2. \A j \in DOMAIN k.log : k.log[j].type = "started" => j = i
      <4> SUFFICES ASSUME NEW j \in DOMAIN k.log, k.log[j].type = "started", j # i PROVE FALSE
          OBVIOUS
      <4>1. j < i \/ i < j
          BY <2>3
      <4>2. Precedes(k.log[i], k.log[j]) \/ Precedes(k.log[j], k.log[i])
          BY <2>1, <4>1 DEF InOrder
      <4> QED
          BY <3>1, <4>2 DEF Precedes
    <3>3. Lines(k, "started") = {i}
        BY <3>1, <3>2 DEF Lines
    <3> QED
        BY <3>3, FS_Singleton
  <2>5. \A i, j \in O : i < j => k.log[i].id < k.log[j].id
      BY <2>1 DEF Lines, InOrder, Precedes
  <2>6. ASSUME k.phase = "live" PROVE Cardinality(O) = k.queries
    <3> DEFINE f == [i \in O |-> k.log[i].id]
    <3>1. IsFiniteSet(Observed(k)) /\ Cardinality(Observed(k)) = k.queries
        BY <2>1, <2>6 DEF Complete
    <3>2. f \in [O -> Observed(k)]
        BY <2>3 DEF Lines, Observed, Events
    <3>3. ASSUME NEW i \in O, NEW j \in O, i # j PROVE f[i] # f[j]
      <4>1. i < j \/ j < i
        <5>1. i \in DOMAIN k.log /\ j \in DOMAIN k.log
            BY DEF Lines
        <5>2. i \in Int /\ j \in Int
            BY <2>3, <5>1
        <5> QED
            BY <3>3, <5>2
      <4>2. k.log[i].id \in Nat /\ k.log[j].id \in Nat
          BY <2>3 DEF Lines, Events
      <4> QED
          BY <2>5, <4>1, <4>2
    <3>4. \A n \in Observed(k) : \E i \in O : f[i] = n
        BY <2>3 DEF Lines, Observed
    <3>5. f \in Injection(O, Observed(k)) /\ f \in Surjection(O, Observed(k))
      <4> HIDE DEF f, O
      <4> QED
          BY <3>2, <3>3, <3>4 DEF Injection, Surjection, IsInjective
    <3> QED
        BY <3>1, <3>5, FS_Injection
  <2>7. ASSUME k.phase = "failed" \/ (k.client = "closed" /\ ~k.leftEarly)
        PROVE  Lines(k, "ended") # {}
    <3>1. \E e \in Written(k) : e.type = "ended"
        BY <2>1, <2>2, <2>7 DEF Complete, k
    <3> QED
        BY <2>3, <3>1 DEF Lines
  <2> QED
      BY <2>4, <2>5, <2>6, <2>7 DEF k
<1> QED
    BY <1>1, SessionsHold, PTL

(***************************************************************************)
(* What can be proved of SocketsFollow.  That the chain moves on, and that *)
(* a socket that was ended is closed, are fairness; the rest is that the   *)
(* closing of the other side is never forgotten.                           *)
(***************************************************************************)

Gone == {"broken", "closed"}
Leaving == Gone \cup {"ending"}

\* server.ts, handleConnection: when a side of a live session has gone, the other one is
\* already on its way out, or the chain holds what will end it, whatever writes fail and
\* whichever handlers were installed when it went.
OtherSideIsToldTo(k) ==
    /\ k.phase = "live" /\ k.client = "closed" /\ ~k.leftEarly
         => Then("endUpstream") \in Range(k.chain) \/ k.upstream \in Leaving
    /\ k.upstream = "closed" => Then("endClient") \in Range(k.chain) \/ k.client \in Leaving

NoneIsForgotten == \A c \in Clients : OtherSideIsToldTo(conn[c])

\* The same from the error of a socket on, and what the early handlers leave.
Following(k) ==
    /\ k.phase = "live" => k.upstream # "none"
    /\ k.phase # "none" => k.client # "none"
    /\ k.phase = "connecting" /\ k.client \in Gone => k.leftEarly
    /\ k.phase = "live" /\ k.client \in Gone /\ ~k.leftEarly
         => Then("endUpstream") \in Range(k.chain) \/ k.upstream \in Leaving
    /\ k.upstream \in Gone => Then("endClient") \in Range(k.chain) \/ k.client \in Leaving

SameSockets(k, x) == /\ x.phase = k.phase /\ x.client = k.client /\ x.upstream = k.upstream
                     /\ x.leftEarly = k.leftEarly

LEMMA StillFollowing ==
    ASSUME NEW k, NEW x, Following(k), SameSockets(k, x),
           \A e \in Range(k.chain) : e.type \in Continuations => e \in Range(x.chain)
    PROVE  Following(x)
<1>1. Then("endUpstream").type \in Continuations /\ Then("endClient").type \in Continuations
    BY DEF Then, Event, Continuations
<1> QED
    BY <1>1 DEF Following, SameSockets

\* A handler that appends to the chain.
LEMMA ChainGrows ==
    ASSUME NEW k, k.chain \in Seq(Events), NEW e \in Events
    PROVE  Range(k.chain \o <<e>>) = Range(k.chain) \cup {e}
<1> DEFINE s == k.chain
<1>1. s \in Seq(Events)
    OBVIOUS
<1> HIDE DEF s
<1>2. s \o <<e>> = Append(s, e)
    BY <1>1, AppendIsConcat
<1>3. Range(Append(s, e)) = Range(s) \cup {e}
    BY <1>1, RangeAppend
<1> QED
    BY <1>2, <1>3 DEF s

LEMMA FromClientFollowing ==
    ASSUME NEW k \in Connections, NEW message \in Messages, Following(k)
    PROVE  Following(FromClient(k, message))
<1> DEFINE x == FromClient(k, message)
           e == Event("observed", k.counter + 1, 0)
<1>1. k.chain \in Seq(Events) /\ k.counter \in Nat
    BY DEF Connections
<1>2. e \in Events
    BY <1>1 DEF Event, Events, Types
<1>3. SameSockets(k, x) /\ (x.chain = k.chain \/ x.chain = k.chain \o <<e>>)
    BY DEF FromClient, Enqueue, Connections, SameSockets, Messages
<1>4. Range(k.chain) \subseteq Range(x.chain)
  <2> HIDE DEF x, e
  <2> QED
      BY <1>1, <1>2, <1>3, ChainGrows
<1> HIDE DEF x
<1> QED
    BY <1>3, <1>4, StillFollowing DEF x

LEMMA FromUpstreamFollowing ==
    ASSUME NEW k \in Connections, k.wire # <<>>, NEW response \in Responses, Following(k)
    PROVE  Following(FromUpstream(k, response))
<1> DEFINE x == FromUpstream(k, response)
           reply == Head(k.wire)
           a == Event("errored", k.active, reply)
           b == Event("completed", k.active, reply)
<1>1. k.chain \in Seq(Events) /\ k.active \in Nat /\ k.wire \in Seq(Nat)
    BY DEF Connections
<1>2. reply \in Nat
    BY <1>1, HeadTailProperties
<1> HIDE DEF reply
<1>3. a \in Events /\ b \in Events
    BY <1>1, <1>2 DEF Event, Events, Types
<1>4. /\ SameSockets(k, x)
      /\ x.chain = k.chain \/ x.chain = k.chain \o <<a>> \/ x.chain = k.chain \o <<b>>
    BY DEF FromUpstream, Forwarded, Enqueue, Connections, SameSockets, Responses, reply
<1>5. Range(k.chain) \subseteq Range(x.chain)
  <2> HIDE DEF x, a, b
  <2> QED
      BY <1>1, <1>3, <1>4, ChainGrows
<1> HIDE DEF x
<1> QED
    BY <1>4, <1>5, StillFollowing DEF x

\* Upstream is connected: who has gone by then has left early.
LEMMA ConnectedFollowing ==
    ASSUME NEW k, Sound(k), Following(k), k.phase = "connecting"
    PROVE  LET live == [k EXCEPT !.phase = "live", !.upstream = "open", !.early = <<>>]
           IN  Following(Enqueue(Relay(live, k.early), <<Event("started", 0, 0)>>))
<1> DEFINE live == [k EXCEPT !.phase = "live", !.upstream = "open", !.early = <<>>]
           x == Relay(live, k.early)
           y == Enqueue(x, <<Event("started", 0, 0)>>)
<1>1. /\ k \in Connections /\ k.early \in Seq(Messages)
      /\ k.wire = <<>> /\ k.log = <<>> /\ k.chain = <<>>
      /\ k.pipelined \/ Len(k.early) <= 1
    BY DEF Sound, Session, Phases, Connections
<1>2. /\ live \in Connections /\ live.phase = "live" /\ live.upstream = "open"
      /\ live.client = k.client /\ live.leftEarly = k.leftEarly
      /\ live.pipelined = k.pipelined /\ SameTraffic(k, live)
      /\ live.log = k.log /\ live.chain = k.chain
  <2>1. <<>> \in Seq(Messages)
      OBVIOUS
  <2> QED
      BY <1>1, <2>1 DEF Connections, Sockets, SameTraffic
<1> HIDE DEF live
<1>3. Session(live) /\ Written(live) = {} /\ live.wire = <<>>
  <2>1. Session(live)
      BY <1>2, SameSession DEF Sound
  <2>2. Written(live) = {}
      BY <1>1, <1>2 DEF Written, Range
  <2> QED
      BY <1>1, <1>2, <2>1, <2>2 DEF SameTraffic
<1>4. Session(x) /\ SameCourse(live, x)
    BY <1>1, <1>2, <1>3, RelaySession
<1> HIDE DEF x
<1>5. SameCourse(x, y)
  <2>1. Event("started", 0, 0) \in Events
      BY DEF Event, Events, Types
  <2> QED
      BY <1>4, <2>1, Put DEF Session
<1> HIDE DEF y
<1>6. /\ y.phase = "live" /\ y.upstream = "open" /\ y.client = k.client
      /\ y.leftEarly = k.leftEarly
    BY <1>2, <1>4, <1>5 DEF SameCourse
<1> QED
    BY <1>6 DEF Following, Gone, y, x, live

\* A side goes: what will end the other one is put behind what is to be written.
LEMMA EndFollowing ==
    ASSUME NEW k, Session(k), NEW what \in Continuations
    PROVE  LET x == End(k, what) IN
             /\ SameSockets(k, x)
             /\ Range(k.chain) \subseteq Range(x.chain)
             /\ Then(what) \in Range(x.chain)
<1> DEFINE a == Event("ended", 0, 0)
           b == Then(what)
           x == End(k, what)
           y == Enqueue(k, <<a>>)
<1>1. k \in Connections /\ a \in Events /\ b \in Events
    BY DEF Session, Event, Then, Events, Types
<1>2. x = Enqueue(y, <<b>>)
    BY <1>1, PutTwo DEF End
<1>3. y \in Connections /\ SameCourse(k, y) /\ Range(y.chain) = Range(k.chain) \cup {a}
    BY <1>1, Put
<1> HIDE DEF y
<1>4. SameCourse(y, x) /\ Range(x.chain) = Range(y.chain) \cup {b}
    BY <1>1, <1>2, <1>3, Put
<1> QED
    BY <1>3, <1>4 DEF SameCourse, SameSockets

LEMMA ClientGoneFollowing ==
    ASSUME NEW k, Sound(k), Following(k), k.client \in {"open", "ending", "broken"},
           NEW gone \in Gone
    PROVE  Following(ClientGone([k EXCEPT !.client = gone]))
<1> DEFINE y == [k EXCEPT !.client = gone]
           x == ClientGone(y)
<1>1. k \in Connections
    BY DEF Sound, Session
<1>2. /\ y \in Connections /\ y.phase = k.phase /\ y.client = gone /\ y.upstream = k.upstream
      /\ y.leftEarly = k.leftEarly /\ y.chain = k.chain /\ y.log = k.log /\ SameTraffic(k, y)
      /\ y.pipelined = k.pipelined
    BY <1>1 DEF Connections, Sockets, Gone, SameTraffic
<1> HIDE DEF y
<1>3. Session(y)
    BY <1>2, SameSession DEF Sound
<1>4. k.phase # "live" => k.upstream = "none"
    BY DEF Sound, Phases
<1>5. CASE k.phase = "live"
  <2>1. x = End(y, "endUpstream")
      BY <1>2, <1>5 DEF ClientGone
  <2>2. /\ SameSockets(y, x) /\ Range(k.chain) \subseteq Range(x.chain)
        /\ Then("endUpstream") \in Range(x.chain)
      BY <1>2, <1>3, <2>1, EndFollowing DEF Continuations
  <2> HIDE DEF x
  <2> QED
      BY <1>2, <1>5, <2>2 DEF Following, SameSockets, Gone, Leaving, x, y
<1>6. CASE k.phase = "connecting"
  <2>1. x = [y EXCEPT !.leftEarly = TRUE]
      BY <1>2, <1>6 DEF ClientGone
  <2>2. x.phase = "connecting" /\ x.client = gone /\ x.upstream = "none" /\ x.leftEarly
      BY <1>2, <1>4, <1>6, <2>1 DEF Connections
  <2> HIDE DEF x
  <2> QED
      BY <2>2 DEF Following, Gone, Leaving, x, y
<1>7. CASE k.phase \notin {"live", "connecting"}
  <2>1. x = y
      BY <1>2, <1>7 DEF ClientGone
  <2> HIDE DEF x
  <2> QED
      BY <1>2, <1>4, <1>7, <2>1 DEF Following, Gone, Leaving, x, y
<1> QED
    BY <1>5, <1>6, <1>7

LEMMA UpstreamGoneFollowing ==
    ASSUME NEW k, Sound(k), Following(k), k.phase = "live", NEW gone \in Gone
    PROVE  Following(End([k EXCEPT !.upstream = gone], "endClient"))
<1> DEFINE y == [k EXCEPT !.upstream = gone]
           x == End(y, "endClient")
<1>1. k \in Connections
    BY DEF Sound, Session
<1>2. /\ y \in Connections /\ y.phase = k.phase /\ y.client = k.client /\ y.upstream = gone
      /\ y.leftEarly = k.leftEarly /\ y.chain = k.chain /\ y.log = k.log /\ SameTraffic(k, y)
      /\ y.pipelined = k.pipelined
    BY <1>1 DEF Connections, Sockets, Gone, SameTraffic
<1> HIDE DEF y
<1>3. Session(y)
    BY <1>2, SameSession DEF Sound
<1>4. /\ SameSockets(y, x) /\ Range(k.chain) \subseteq Range(x.chain)
      /\ Then("endClient") \in Range(x.chain)
    BY <1>2, <1>3, EndFollowing DEF Continuations
<1> HIDE DEF x
<1> QED
    BY <1>2, <1>4 DEF Following, SameSockets, Gone, Leaving, x, y

\* An event is written or lost: no continuation leaves the chain.
LEMMA WriteFollowing ==
    ASSUME NEW k, Sound(k), Following(k), k.chain # <<>>, Head(k.chain).type \in Types,
           NEW x, SameSockets(k, x), x.chain = Tail(k.chain)
    PROVE  Following(x)
<1>1. k.chain \in Seq(Events)
    BY DEF Sound, Session, Connections
<1>2. Range(k.chain) = Range(x.chain) \cup {Head(k.chain)}
    BY <1>1, RangeTail
<1>3. Head(k.chain).type \notin Continuations
    BY DEF Types, Continuations
<1> QED
    BY <1>2, <1>3, StillFollowing

\* A continuation is taken from the chain and done.
LEMMA ContinueFollowing ==
    ASSUME NEW k, Sound(k), Following(k), k.chain # <<>>, NEW x,
           LET y == [k EXCEPT !.chain = Tail(@)] IN
             \/ Head(k.chain) = Then("endClient") /\ x = [y EXCEPT !.client = Ended(@)]
             \/ Head(k.chain) = Then("endUpstream") /\ x = [y EXCEPT !.upstream = Ended(@)]
             \/ Head(k.chain) = Then("endFailed") /\ x = End(y, "endClient")
    PROVE  Following(x)
<1> DEFINE y == [k EXCEPT !.chain = Tail(@)]
           up == Then("endUpstream")
           down == Then("endClient")
<1>1. /\ Session(k) /\ k \in Connections /\ k.client \in Sockets /\ k.upstream \in Sockets
      /\ k.phase # "live" => k.upstream = "none"
    BY DEF Sound, Session, Phases, Connections
<1>2. /\ Session(y) /\ SameCourse(k, y)
      /\ Range(k.chain) = Range(y.chain) \cup {Head(k.chain)}
    BY <1>1, DropSession
<1>3. y \in Connections
    BY <1>2 DEF Session
<1>4. up # down /\ up # Then("endFailed") /\ down # Then("endFailed")
    BY DEF Then, Event
<1> HIDE DEF y, up, down
<1>5. /\ y.phase = k.phase /\ y.client = k.client /\ y.upstream = k.upstream
      /\ y.leftEarly = k.leftEarly
    BY <1>2 DEF SameCourse
<1>6. /\ k.phase = "live" => k.upstream # "none"
      /\ k.phase # "none" => k.client # "none"
      /\ k.phase = "connecting" /\ k.client \in Gone => k.leftEarly
      /\ k.phase = "live" /\ k.client \in Gone /\ ~k.leftEarly
           => up \in Range(k.chain) \/ k.upstream \in Leaving
      /\ k.upstream \in Gone => down \in Range(k.chain) \/ k.client \in Leaving
    BY DEF Following, up, down
<1> SUFFICES /\ x.phase = "live" => x.upstream # "none"
             /\ x.phase # "none" => x.client # "none"
             /\ x.phase = "connecting" /\ x.client \in Gone => x.leftEarly
             /\ x.phase = "live" /\ x.client \in Gone /\ ~x.leftEarly
                  => up \in Range(x.chain) \/ x.upstream \in Leaving
             /\ x.upstream \in Gone => down \in Range(x.chain) \/ x.client \in Leaving
    BY DEF Following, up, down
<1>7. CASE Head(k.chain) = down /\ x = [y EXCEPT !.client = Ended(@)]
  <2>1. /\ x.phase = k.phase /\ x.client = Ended(k.client) /\ x.upstream = k.upstream
        /\ x.leftEarly = k.leftEarly /\ x.chain = y.chain
      BY <1>3, <1>5, <1>7 DEF Connections
  <2>2. up \in Range(k.chain) => up \in Range(x.chain)
      BY <1>2, <1>4, <1>7, <2>1
  <2>3. /\ k.client # "none" => Ended(k.client) \in Leaving
        /\ Ended(k.client) \in Gone => k.client \in Gone
        /\ k.client # "none" => Ended(k.client) # "none"
      BY <1>1 DEF Ended, Leaving, Gone, Sockets
  <2>4. k.upstream \in Gone => k.phase = "live"
      BY <1>1 DEF Gone
  <2> QED
      BY <1>6, <2>1, <2>2, <2>3, <2>4
<1>8. CASE Head(k.chain) = up /\ x = [y EXCEPT !.upstream = Ended(@)]
  <2>1. /\ x.phase = k.phase /\ x.client = k.client /\ x.upstream = Ended(k.upstream)
        /\ x.leftEarly = k.leftEarly /\ x.chain = y.chain
      BY <1>3, <1>5, <1>8 DEF Connections
  <2>2. down \in Range(k.chain) => down \in Range(x.chain)
      BY <1>2, <1>4, <1>8, <2>1
  <2>3. /\ k.upstream # "none" => Ended(k.upstream) \in Leaving /\ Ended(k.upstream) # "none"
        /\ Ended(k.upstream) \in Gone => k.upstream \in Gone
      BY <1>1 DEF Ended, Leaving, Gone, Sockets
  <2> QED
      BY <1>6, <2>1, <2>2, <2>3
<1>9. CASE Head(k.chain) = Then("endFailed") /\ x = End(y, "endClient")
  <2>1. SameSockets(y, x) /\ Range(y.chain) \subseteq Range(x.chain)
      BY <1>2, <1>9, EndFollowing DEF Continuations
  <2>2. /\ up \in Range(k.chain) => up \in Range(x.chain)
        /\ down \in Range(k.chain) => down \in Range(x.chain)
      BY <1>2, <1>4, <1>9, <2>1
  <2> QED
      BY <1>5, <1>6, <2>1, <2>2 DEF SameSockets
<1> QED
    BY <1>7, <1>8, <1>9 DEF y, up, down

FollowingInv == SessionsInv /\ \A c \in Clients : Following(conn[c])

LEMMA FollowingInit == ProxyInit => FollowingInv
<1> SUFFICES ASSUME ProxyInit PROVE FollowingInv
    OBVIOUS
<1>1. NoConnection.phase = "none" /\ NoConnection.client = "none" /\ NoConnection.upstream = "none"
    BY DEF NoConnection
<1>2. Following(NoConnection)
    BY <1>1 DEF Following, Gone
<1>3. \A c \in Clients : conn[c] = NoConnection
    BY DEF ProxyInit
<1> QED
    BY <1>2, <1>3, SessionsInit DEF FollowingInv

LEMMA FollowingStep ==
    ASSUME FollowingInv, NEW c \in Clients, Peer(c) \/ Proxy(c)
    PROVE  \A d \in Clients : Following(conn'[d])
<1> DEFINE k == conn[c]
<1>1. /\ Sound(k) /\ k \in Connections /\ Following(k)
      /\ k.upstream # "none" => k.phase = "live"
    BY DEF FollowingInv, SessionsInv, Sound, Session, Phases
<1>2. ASSUME NEW x, Following(x), Becomes(c, x)
      PROVE  \A d \in Clients : Following(conn'[d])
  <2>1. \A d \in Clients : conn'[d] = IF d = c THEN x ELSE conn[d]
      BY <1>2 DEF Becomes, FollowingInv, SessionsInv
  <2> QED
      BY <1>2, <2>1 DEF FollowingInv
<1> HIDE DEF k, Sound
<1>3. CASE Connect(c)
  <2>1. ASSUME NEW p \in {"refused", "connecting"}, NEW s \in {"open", "ending"}
        PROVE  Following([NoConnection EXCEPT !.phase = p, !.client = s])
    <3> DEFINE x == [NoConnection EXCEPT !.phase = p, !.client = s]
    <3>1. x.phase = p /\ x.client = s /\ x.upstream = "none"
        BY DEF NoConnection
    <3> HIDE DEF x
    <3>2. Following(x)
        BY <3>1 DEF Following, Gone
    <3> QED
        BY <3>2 DEF x
  <2>2. \/ Becomes(c, [NoConnection EXCEPT !.phase = "refused", !.client = "ending"])
        \/ Becomes(c, [NoConnection EXCEPT !.phase = "connecting", !.client = "open"])
      BY <1>3 DEF Connect
  <2> QED
      BY <1>2, <2>1, <2>2
<1>4. CASE UpstreamConnects(c)
    BY <1>1, <1>2, <1>4, ConnectedFollowing DEF UpstreamConnects, k
<1>5. CASE UpstreamFails(c)
  <2> DEFINE y == [k EXCEPT !.phase = "failed"]
             x == Enqueue(y, <<Event("started", 0, 0), Then("endFailed")>>)
  <2>1. k.phase = "connecting" /\ Becomes(c, x)
      BY <1>5 DEF UpstreamFails, k
  <2>2. x.phase = "failed" /\ x.client = k.client /\ x.upstream = "none"
      BY <1>1, <2>1 DEF Enqueue, Connections
  <2> HIDE DEF x
  <2>3. Following(x)
      BY <1>1, <2>1, <2>2 DEF Following, Gone
  <2> QED
      BY <1>2, <2>1, <2>3
<1>6. ASSUME NEW ok \in BOOLEAN, WriteEvent(c, ok)
      PROVE  \A d \in Clients : Following(conn'[d])
  <2> DEFINE x == [k EXCEPT !.chain = Tail(@), !.log = IF ok THEN Append(@, Head(k.chain)) ELSE @]
  <2>1. k.chain # <<>> /\ Head(k.chain).type \in Types /\ Becomes(c, x)
      BY <1>6 DEF WriteEvent, k
  <2>2. SameSockets(k, x) /\ x.chain = Tail(k.chain)
      BY <1>1 DEF Connections, SameSockets
  <2> HIDE DEF x
  <2>3. Following(x)
      BY <1>1, <2>1, <2>2, WriteFollowing
  <2> QED
      BY <1>2, <2>1, <2>3
<1>7. CASE Continue(c)
    BY <1>1, <1>2, <1>7, ContinueFollowing DEF Continue, k
<1>8. CASE ClientSends(c)
  <2>1. PICK message \in Messages :
          LET y == [k EXCEPT !.queries = IF message = "query" THEN @ + 1 ELSE @,
                             !.pipelined = @ \/ k.wire # <<>> \/ k.early # <<>>]
          IN  Becomes(c, IF y.phase = "live" THEN FromClient(y, message)
                                             ELSE [y EXCEPT !.early = Append(@, message)])
      BY <1>8 DEF ClientSends, k
  <2> DEFINE n == IF message = "query" THEN k.queries + 1 ELSE k.queries
             late == k.pipelined \/ k.wire # <<>> \/ k.early # <<>>
             y == [k EXCEPT !.queries = n, !.pipelined = late]
             z == [y EXCEPT !.early = Append(@, message)]
  <2>2. n \in Nat /\ late \in BOOLEAN
      BY <1>1 DEF Connections
  <2>3. Becomes(c, IF y.phase = "live" THEN FromClient(y, message) ELSE z)
      BY <2>1
  <2> HIDE DEF n, late
  <2>4. y \in Connections /\ SameSockets(k, y) /\ y.chain = k.chain
      BY <1>1, <2>2 DEF Connections, SameSockets
  <2>5. SameSockets(k, z) /\ z.chain = k.chain
      BY <1>1 DEF Connections, SameSockets
  <2> HIDE DEF y, z
  <2>6. Following(y) /\ Following(z)
      BY <1>1, <2>4, <2>5, StillFollowing
  <2>7. Following(FromClient(y, message))
      BY <2>4, <2>6, FromClientFollowing
  <2> QED
      BY <1>2, <2>3, <2>6, <2>7
<1>9. CASE UpstreamResponds(c)
    BY <1>1, <1>2, <1>9, FromUpstreamFollowing DEF UpstreamResponds, k
<1>10. CASE ClientCloses(c)
    BY <1>1, <1>2, <1>10, ClientGoneFollowing DEF ClientCloses, Gone, k
<1>11. CASE ClientErrors(c)
    BY <1>1, <1>2, <1>11, ClientGoneFollowing DEF ClientErrors, Gone, k
<1>12. CASE UpstreamCloses(c)
    BY <1>1, <1>2, <1>12, UpstreamGoneFollowing DEF UpstreamCloses, Gone, k
<1>13. CASE UpstreamErrors(c)
    BY <1>1, <1>2, <1>13, UpstreamGoneFollowing DEF UpstreamErrors, Gone, k
<1> QED
    BY <1>3, <1>4, <1>5, <1>6, <1>7, <1>8, <1>9, <1>10, <1>11, <1>12, <1>13
    DEF Peer, Proxy, Write

\* NoneIsForgotten, for any clients, messages and failed writes.
THEOREM NoneIsForgottenHolds == ProxySpec => []NoneIsForgotten
<1>1. FollowingInv /\ [ProxyNext]_proxyVars => FollowingInv'
  <2> SUFFICES ASSUME FollowingInv, [ProxyNext]_proxyVars PROVE FollowingInv'
      OBVIOUS
  <2>1. SessionsInv'
      BY SessionsNext DEF FollowingInv
  <2>2. CASE UNCHANGED proxyVars
      BY <2>1, <2>2 DEF FollowingInv, proxyVars
  <2>3. ASSUME NEW c \in Clients, Peer(c) \/ Proxy(c) PROVE FollowingInv'
      BY <2>1, <2>3, FollowingStep DEF FollowingInv
  <2> QED
      BY <2>2, <2>3 DEF ProxyNext
<1>2. FollowingInv => NoneIsForgotten
    BY DEF FollowingInv, Following, NoneIsForgotten, OtherSideIsToldTo, Gone
<1> QED
    BY <1>1, <1>2, FollowingInit, PTL DEF ProxySpec
==============================================================================
