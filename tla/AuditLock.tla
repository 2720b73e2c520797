----------------------------- MODULE AuditLock -----------------------------
(***************************************************************************)
(* The audit lockfile: core/audit/lock.ts, AuditLockManager.               *)
(*                                                                         *)
(* Several dbcli processes append to one audit file.  Each write runs      *)
(* withLock: it tries to create `<audit file>.lock' with O_EXCL, removes   *)
(* a lockfile whose timestamp is older than a threshold, sleeps and        *)
(* retries until a budget is spent, and removes the lockfile BY PATH when  *)
(* the operation ends.  Every await of the source is a step here, so the   *)
(* steps of two processes, a crash between any two of them and the passing *)
(* of time interleave freely.                                              *)
(*                                                                         *)
(* Time is kept as ages (how long since a timestamp was taken), saturated  *)
(* just beyond the thresholds the code compares with; the age of a         *)
(* timestamp no step will read again stays 0.                              *)
(***************************************************************************)
EXTENDS Naturals

CONSTANTS Procs,       \* the processes that write to one audit file
          Budget,      \* LOCK_RETRY_BUDGET_MS
          Stale        \* LOCK_RETRY_BUDGET_MS * STALE_LOCK_MULTIPLIER

ASSUME TimingAssumption == /\ Budget \in Nat
                           /\ Stale \in Nat
                           /\ Budget < Stale

VARIABLES lockfile,    \* NoFile, or the lockfile and what was written to it
          pc,          \* where each process stands in withLock
          elapsed,     \* Date.now() - startTime of acquireLock
          seen,        \* lockContent.timestamp, as an age
          stamp,       \* lockData.timestamp, as an age
          takeover     \* history: has any process found a lockfile stale?

vars == <<lockfile, pc, elapsed, seen, stamp, takeover>>

NoFile == [exists |-> FALSE]

\* A lockfile, the process that created it (its pid field, which the code never
\* reads back), whether its JSON has been written, and the age of its timestamp.
File(owner, written, age) ==
    [exists |-> TRUE, owner |-> owner, written |-> written, age |-> age]

Ages == 0 .. (Stale + 1)
Files == {NoFile} \cup {File(p, w, a) : p \in Procs, w \in BOOLEAN, a \in Ages}

\* One tick of the clock for an age compared with a limit.
Older(age, limit) == IF age > limit THEN age ELSE age + 1

\* The process has created the lockfile and has not come back from removing it.
Holding == {"write", "critical", "release"}
\* The process is inside acquireLock, without the lockfile.
Trying  == {"budget", "exists", "read", "judge", "remove", "create", "sleep"}

----------------------------------------------------------------------------

Init == /\ lockfile = NoFile
        /\ pc = [p \in Procs |-> "idle"]
        /\ elapsed = [p \in Procs |-> 0]
        /\ seen = [p \in Procs |-> 0]
        /\ stamp = [p \in Procs |-> 0]
        /\ takeover = FALSE

Goto(p, from, to) == pc[p] = from /\ pc' = [pc EXCEPT ![p] = to]

\* withLock is called: acquireLock notes startTime.
Begin(p) ==
    /\ Goto(p, "idle", "budget")
    /\ elapsed' = [elapsed EXCEPT ![p] = 0]
    /\ UNCHANGED <<lockfile, seen, stamp, takeover>>

\* Mutant: the retry loop without its budget.
CheckBudget_Unbounded(p) ==
    /\ Goto(p, "budget", "exists")
    /\ UNCHANGED <<lockfile, elapsed, seen, stamp, takeover>>

\* The head of the retry loop: over budget, the operation is skipped.
CheckBudget(p) ==
    /\ \/ /\ elapsed[p] > Budget
          /\ Goto(p, "budget", "idle")
          /\ elapsed' = [elapsed EXCEPT ![p] = 0]
       \/ /\ elapsed[p] <= Budget
          /\ Goto(p, "budget", "exists")
          /\ UNCHANGED elapsed
    /\ UNCHANGED <<lockfile, seen, stamp, takeover>>

\* tryAcquireLock: mkdir, then lockFile.exists().  Without a lockfile, lockData
\* takes its timestamp at once.
CheckExists(p) ==
    /\ \/ lockfile.exists /\ Goto(p, "exists", "read")
       \/ ~lockfile.exists /\ Goto(p, "exists", "create")
    /\ stamp' = [stamp EXCEPT ![p] = 0]
    /\ UNCHANGED <<lockfile, elapsed, seen, takeover>>

\* Mutant: a lockfile that vanished is read as one with timestamp 0.
ReadLock_Vanished(p) ==
    /\ lockfile.exists => lockfile.written
    /\ Goto(p, "read", "judge")
    /\ seen' = [seen EXCEPT ![p] = IF lockfile.exists THEN lockfile.age ELSE Stale + 2]
    /\ UNCHANGED <<lockfile, elapsed, stamp, takeover>>

\* lockFile.json(): a vanished or an empty lockfile throws, and the catch
\* makes that a failed attempt, like any other call that rejects (AttemptFails).
ReadLock(p) ==
    /\ \/ /\ lockfile.exists /\ lockfile.written
          /\ Goto(p, "read", "judge")
          /\ seen' = [seen EXCEPT ![p] = lockfile.age]
       \/ /\ lockfile.exists => ~lockfile.written
          /\ Goto(p, "read", "sleep")
          /\ UNCHANGED seen
    /\ UNCHANGED <<lockfile, elapsed, stamp, takeover>>

\* Mutant: no lockfile is ever stale.
JudgeAge_Never(p) ==
    /\ Goto(p, "judge", "sleep")
    /\ seen' = [seen EXCEPT ![p] = 0]
    /\ UNCHANGED <<lockfile, elapsed, stamp, takeover>>

\* Mutant: the threshold is the budget, without STALE_LOCK_MULTIPLIER.
JudgeAge_Budget(p) ==
    /\ \/ /\ seen[p] > Budget
          /\ Goto(p, "judge", "remove")
          /\ takeover' = TRUE
       \/ /\ seen[p] <= Budget
          /\ Goto(p, "judge", "sleep")
          /\ UNCHANGED takeover
    /\ seen' = [seen EXCEPT ![p] = 0]
    /\ UNCHANGED <<lockfile, elapsed, stamp>>

\* Date.now() - lockContent.timestamp against the threshold.
JudgeAge(p) ==
    /\ \/ /\ seen[p] > Stale
          /\ Goto(p, "judge", "remove")
          /\ takeover' = TRUE
       \/ /\ seen[p] <= Stale
          /\ Goto(p, "judge", "sleep")
          /\ UNCHANGED takeover
    /\ seen' = [seen EXCEPT ![p] = 0]
    /\ UNCHANGED <<lockfile, elapsed, stamp>>

\* rm(lockPath, { force: true }): by path, whatever file is there by now.  Then
\* lockData takes its timestamp.
RemoveStale(p) ==
    /\ Goto(p, "remove", "create")
    /\ lockfile' = NoFile
    /\ stamp' = [stamp EXCEPT ![p] = 0]
    /\ UNCHANGED <<elapsed, seen, takeover>>

\* Mutant: open(lockPath, 'w'), which replaces a lockfile that is there.
CreateLock_Replaces(p) ==
    /\ Goto(p, "create", "write")
    /\ lockfile' = File(p, FALSE, stamp[p])
    /\ stamp' = [stamp EXCEPT ![p] = 0]
    /\ UNCHANGED <<elapsed, seen, takeover>>

\* open(lockPath, 'wx'): creates the file, empty, or fails if there is one.
CreateLock(p) ==
    /\ \/ /\ ~lockfile.exists
          /\ Goto(p, "create", "write")
          /\ lockfile' = File(p, FALSE, stamp[p])
       \/ /\ lockfile.exists
          /\ Goto(p, "create", "sleep")
          /\ UNCHANGED lockfile
    /\ stamp' = [stamp EXCEPT ![p] = 0]
    /\ UNCHANGED <<elapsed, seen, takeover>>

\* handle.writeFile and close, through the handle: it reaches the file this
\* process created, not one another process has put at the path since.
WriteLock(p) ==
    /\ Goto(p, "write", "critical")
    /\ lockfile' = IF lockfile.exists /\ lockfile.owner = p
                     THEN File(p, TRUE, lockfile.age) ELSE lockfile
    /\ elapsed' = [elapsed EXCEPT ![p] = 0]
    /\ UNCHANGED <<seen, stamp, takeover>>

\* mkdir, json, rm, open or writeFile rejects (no permission, no space, I/O error)
\* and tryAcquireLock catches it: the attempt has failed, and a lockfile, stale or
\* just created and still empty, stays where it is.
AttemptFails(p) ==
    /\ \E place \in {"exists", "read", "remove", "create", "write"} : Goto(p, place, "sleep")
    /\ stamp' = [stamp EXCEPT ![p] = 0]
    /\ UNCHANGED <<lockfile, elapsed, seen, takeover>>

\* The operation returns or throws; `finally' calls releaseLock.
Finish(p) ==
    /\ Goto(p, "critical", "release")
    /\ UNCHANGED <<lockfile, elapsed, seen, stamp, takeover>>

\* releaseLock: rm by path; an error is swallowed and leaves the file.
Release(p) ==
    /\ Goto(p, "release", "idle")
    /\ lockfile' \in {NoFile, lockfile}
    /\ UNCHANGED <<elapsed, seen, stamp, takeover>>

\* The backoff timer fires.
Wake(p) ==
    /\ Goto(p, "sleep", "budget")
    /\ UNCHANGED <<lockfile, elapsed, seen, stamp, takeover>>

\* The process is killed, and another with its role may start at any time.
Crash(p) ==
    /\ pc[p] # "idle"
    /\ pc' = [pc EXCEPT ![p] = "idle"]
    /\ elapsed' = [elapsed EXCEPT ![p] = 0]
    /\ seen' = [seen EXCEPT ![p] = 0]
    /\ stamp' = [stamp EXCEPT ![p] = 0]
    /\ UNCHANGED <<lockfile, takeover>>

\* Time passes for everyone.
Tick ==
    /\ lockfile' = IF lockfile.exists
                     THEN File(lockfile.owner, lockfile.written, Older(lockfile.age, Stale))
                     ELSE lockfile
    /\ elapsed' = [p \in Procs |-> IF pc[p] \in Trying \cup {"write"}
                                     THEN Older(elapsed[p], Budget) ELSE elapsed[p]]
    /\ seen' = [p \in Procs |-> IF pc[p] = "judge" THEN Older(seen[p], Stale) ELSE seen[p]]
    /\ stamp' = [p \in Procs |-> IF pc[p] = "create" THEN Older(stamp[p], Stale) ELSE stamp[p]]
    /\ UNCHANGED <<pc, takeover>>

Step(p) == \/ CheckBudget(p) \/ CheckExists(p) \/ ReadLock(p) \/ JudgeAge(p)
           \/ RemoveStale(p) \/ CreateLock(p)
           \/ WriteLock(p) \/ AttemptFails(p) \/ Finish(p) \/ Release(p) \/ Wake(p)

Next == \/ \E p \in Procs : Begin(p) \/ Step(p) \/ Crash(p)
        \/ Tick

Spec == Init /\ [][Next]_vars

\* A process that is not killed keeps running, and time passes.  Nothing obliges
\* a process to start a write.
FairSpec == Spec /\ (\A p \in Procs : WF_vars(Step(p))) /\ WF_vars(Tick)

\* The lock's timing assumption.  No process is killed, rm does not reject, and no
\* process stays a whole threshold between taking a timestamp (its own, or the
\* one it read) and being done with it.
Prompt == /\ (lockfile.exists /\ pc[lockfile.owner] \in Holding) => lockfile.age < Stale
          /\ \A p \in Procs : /\ pc[p] = "judge" => seen[p] < Stale
                              /\ pc[p] = "create" => stamp[p] < Stale

TimelyStep(p) == /\ Begin(p) \/ Step(p)
                 /\ pc[p] = "release" => ~lockfile'.exists

TimelyNext == \/ \E p \in Procs : TimelyStep(p)
              \/ Prompt /\ Tick

TimelySpec == Init /\ [][TimelyNext]_vars
----------------------------------------------------------------------------
(***************************************************************************)
(* Properties                                                              *)
(***************************************************************************)

\* Every variable has its type.
TypeOK == /\ lockfile \in Files
          /\ pc \in [Procs -> {"idle"} \cup Trying \cup Holding]
          /\ elapsed \in [Procs -> 0 .. (Budget + 1)]
          /\ seen \in [Procs -> Ages]
          /\ stamp \in [Procs -> Ages]
          /\ takeover \in BOOLEAN

\* As long as no process has ever found a lockfile stale, audit writes exclude
\* each other, whatever processes were killed and whatever calls have failed:
\* O_EXCL is a sound lock, and only stale takeover can break it.
ExclusionUntilTakeover ==
    ~takeover => \A p, q \in Procs : pc[p] = "critical" /\ pc[q] = "critical" => p = q

\* When every process is prompt, no lockfile is ever taken over.
NoTakeover == ~takeover

\* When every process is prompt the lockfile is a lock: the processes between a
\* successful open('wx') and the end of rm enter one at a time, and a process that
\* has not left is not replaced by another.
Lock == INSTANCE Mutex WITH inside <- {p \in Procs : pc[p] \in Holding}
ImplementsMutex == Lock!Spec

\* withLock always returns: the caller of an audit write, which is a user's
\* command, is never held up for good by the lock (D-07).
WithLockReturns == \A p \in Procs : pc[p] # "idle" ~> pc[p] = "idle"

\* A complete lockfile whose creator is no longer in withLock does not stay, if
\* processes keep attempting to take the lock and, from some point on, no attempt
\* that meets such a lockfile is killed or ended by a call that rejects.
Orphan == lockfile.exists /\ lockfile.written /\ pc[lockfile.owner] \notin Holding
OrphanRecovered ==
    (/\ []<>(\E p \in Procs : pc[p] = "exists")
     /\ <>[][Orphan => \A p \in Procs :
                /\ pc[p] \in {"exists", "read", "judge", "remove"} => pc'[p] # "idle"
                /\ pc[p] \in {"exists", "read", "remove"} => pc'[p] # "sleep"]_vars)
    => (Orphan ~> ~Orphan)
=============================================================================
