---------------------------- MODULE Verification ----------------------------
(***************************************************************************)
(* Verification: `verify' (commands/verify.ts over core/verify) runs a     *)
(* scenario's guards and reads the database back, first as a preflight,    *)
(* and again after an agent has written; `assert' (commands/assert.ts)     *)
(* compares one query.  Neither writes to the database.  What they found   *)
(* is published as an artifact, one file of .dbcli/verification each,      *)
(* written under a temporary name and linked into place                    *)
(* (core/verification/artifact-writer.ts).  `verification list', `show'    *)
(* and `summary' read the directory (reader.ts), and `verification prune'  *)
(* deletes from it what is old (retention.ts).                             *)
(*                                                                         *)
(* They are processes of their own, may be killed at any time, and read    *)
(* and delete a directory that the others change under them.  Others       *)
(* change the database at any time, so that a query may find anything.     *)
(* Time passes in days.                                                    *)
(***************************************************************************)
EXTENDS Naturals, FiniteSets

CONSTANTS Verifiers,      \* runs of verify and assert: naturals, the order of the names
                          \* that their artifacts are given
          Old,            \* artifacts of earlier runs, naturals as well
          Stray,          \* a file named like an artifact which is none
          Readers,        \* runs of list, show, summary and prune
          Keep,           \* prune --keep-latest
          OlderThan,      \* prune --older-than, in days
          Guards,         \* how many guards a scenario has
          MaxViolations,  \* bound: rows a constraint is violated by; 0 is also what the
                          \* read-back of another scenario expects
          MaxDays         \* bound: days that pass

Names == Verifiers \cup Old \cup {Stray}

ASSUME VerificationAssumption ==
    /\ Verifiers \cup Old \subseteq Nat /\ Verifiers \cap Old = {}
    /\ Stray \in Nat \ (Verifiers \cup Old)
    /\ IsFiniteSet(Verifiers \cup Old)
    /\ Keep \in Nat /\ OlderThan \in Nat \ {0}
    /\ {Guards, MaxViolations, MaxDays} \subseteq Nat

VARIABLES run,          \* the runs of verify and assert
          temp,         \* their temporary files
          file,         \* the files of the directory
          made,         \* what an artifact says: when it was made, and its status
          reader,       \* the runs that read the directory
          pruned,       \* history: the files that prune has deleted
          today

vars == <<run, temp, file, made, reader, pruned, today>>

\* backfill goes on after a guard has failed; staged, which is migration and rollback,
\* and constraint stop.
Scenarios == {"backfill", "staged", "constraint"}
Kinds == Scenarios \cup {"assert"}
Statuses == {"verified", "not_verified", "indeterminate", "blocked"}
Contents == {"absent", "partial", "whole"}

\* after: it is the run after the write; guards: how many have passed; failed: one has
\* not.  threshold: --baseline, when preexisting violations are allowed.  found, seen:
\* what the preflight counted, and what the run after the write.
Unknown == MaxViolations + 1

\* A run that holds nothing of what it has read but the files it is to delete.
Reads(pc, todo) == [pc |-> pc, began |-> 0, names |-> {}, valid |-> {}, invalid |-> {},
                    todo |-> todo]

Init == /\ run = [v \in Verifiers |->
                    [kind |-> "assert", after |-> FALSE, pc |-> "start", guards |-> 0,
                     failed |-> FALSE, threshold |-> 0, found |-> 0, seen |-> Unknown,
                     status |-> "indeterminate", stored |-> "no", exit |-> "no"]]
        /\ temp = [v \in Verifiers |-> "absent"]
        /\ file = [n \in Names |-> IF n \in Old THEN "whole"
                                   ELSE IF n = Stray THEN "partial" ELSE "absent"]
        /\ made \in [Names -> [on : {0}, status : {"verified", "not_verified"}]]
        /\ \A n \in Names \ Old : made[n].status = "not_verified"
        /\ reader = [p \in Readers |-> Reads("start", {})]
        /\ pruned = {} /\ today = 0
----------------------------------------------------------------------------
(***************************************************************************)
(* verify and assert                                                       *)
(***************************************************************************)

At(v, pc) == run[v].pc = pc
Go(v, pc) == run' = [run EXCEPT ![v].pc = pc]
End(v, code) == run' = [run EXCEPT ![v].pc = "ended", ![v].exit = code]

Directory == UNCHANGED <<file, pruned, reader, today>>

\* The input is checked before there is a connection, and the two may fail.  The agent
\* may have had no preflight.
Begin(v) ==
    /\ At(v, "start") /\ UNCHANGED <<temp, made>> /\ Directory
    /\ \/ End(v, "error")
       \/ \E kind \in Kinds, after \in BOOLEAN :
            /\ kind = "assert" => after
            /\ run' = [run EXCEPT ![v].kind = kind, ![v].after = after,
                                  ![v].pc = IF kind = "assert" THEN "read" ELSE "guard"]

\* Mutant: the guards that were run are counted, and not what they said.
AllPassed_Counts(v) == run[v].guards = Guards

\* allGuardsPassed: as many as expected, and all of them.
AllPassed(v) == ~run[v].failed /\ run[v].guards = Guards

\* runGuardSequence: a guard passes, or fails, which ends the sequence except for a
\* backfill; one that throws is the end of the run.
Guard(v) ==
    /\ At(v, "guard") /\ run[v].guards < Guards
    /\ run[v].failed => run[v].kind = "backfill"
    /\ UNCHANGED <<temp, made>> /\ Directory
    /\ \/ run' = [run EXCEPT ![v].guards = @ + 1]
       \/ run' = [run EXCEPT ![v].guards = IF run[v].kind = "backfill" THEN @ + 1 ELSE @,
                             ![v].failed = TRUE]
       \/ End(v, "error")

\* The guards are done.  A scenario that is blocked after the write has an artifact that
\* says so; a preflight that is ready counts the violations when it is a constraint's.
Judge(v) ==
    /\ At(v, "guard")
    /\ run[v].guards = Guards \/ (run[v].failed /\ run[v].kind # "backfill")
    /\ UNCHANGED <<temp, made>> /\ Directory
    /\ IF AllPassed(v)
         THEN IF run[v].after \/ run[v].kind = "constraint" THEN Go(v, "read")
                                                            ELSE End(v, "ok")
         ELSE IF run[v].after
                THEN run' = [run EXCEPT ![v].pc = "make", ![v].status = "blocked"]
                ELSE End(v, "error")

\* The query has its answer.  A preflight names it as the baseline.
Counted(v, count) ==
    run' = IF run[v].after
             THEN [run EXCEPT ![v].seen = count, ![v].pc = "make",
                              ![v].status = IF count =< run[v].threshold THEN "verified"
                                                                          ELSE "not_verified"]
             ELSE [run EXCEPT ![v].found = count, ![v].pc = "ended", ![v].exit = "ok"]

\* It fails, or what it returns cannot be judged.  The preflight is ready all the same and
\* names no baseline, a scenario is indeterminate, and assert has no verdict.
Uncounted(v) ==
    IF ~run[v].after THEN End(v, "ok")
    ELSE IF run[v].kind = "assert" THEN End(v, "error")
    ELSE Go(v, "make")

\* The query is run.
Read(v) ==
    /\ At(v, "read") /\ UNCHANGED <<temp, made>> /\ Directory
    /\ Uncounted(v) \/ \E count \in 0 .. MaxViolations : Counted(v, count)

\* afterWriteCommand: the agent writes, and runs the command the preflight gave it, which
\* allows for the violations that there were.
NextRun(v) ==
    /\ At(v, "ended") /\ ~run[v].after /\ run[v].exit = "ok"
    /\ UNCHANGED <<temp, made>> /\ Directory
    /\ run' = [run EXCEPT ![v].pc = "guard", ![v].exit = "no", ![v].after = TRUE,
                          ![v].guards = 0, ![v].failed = FALSE, ![v].threshold = run[v].found]

\* The artifact is made, and with that its date and its name; assert has to be asked.
Make(v) ==
    /\ At(v, "make") /\ UNCHANGED temp /\ Directory
    /\ \/ /\ made' = [made EXCEPT ![v] = [on |-> today, status |-> run[v].status]]
          /\ Go(v, "write")
       \/ run[v].kind = "assert" /\ Go(v, "receipt") /\ UNCHANGED made

\* Mutant: it is written under its own name.
WriteTemp_InPlace(v) ==
    /\ At(v, "write") /\ UNCHANGED <<temp, made, reader, pruned, today>>
    /\ file' = [file EXCEPT ![v] = "partial"]
    /\ Go(v, "link")

\* It is written under a temporary name, or not: the error is kept for the exit code.
WriteTemp(v) ==
    /\ At(v, "write") /\ UNCHANGED made /\ Directory
    /\ \/ temp' = [temp EXCEPT ![v] = "whole"] /\ Go(v, "link")
       \/ /\ UNCHANGED temp
          /\ run' = [run EXCEPT ![v].pc = "receipt", ![v].stored = "error"]

\* Mutant: an artifact that could not be linked counts as stored.
Link_Swallows(v) ==
    /\ At(v, "link") /\ UNCHANGED <<made, pruned, reader, today>>
    /\ temp' = [temp EXCEPT ![v] = "absent"]
    /\ file' \in {file, [file EXCEPT ![v] = "whole"]}
    /\ run' = [run EXCEPT ![v].pc = "receipt", ![v].stored = "ok"]

\* It is linked into place, where nothing may be yet, and the temporary name is removed.
Link(v) ==
    /\ At(v, "link") /\ UNCHANGED <<made, pruned, reader, today>>
    /\ temp' = [temp EXCEPT ![v] = "absent"]
    /\ \E linked \in BOOLEAN :
         /\ file' = IF linked THEN [file EXCEPT ![v] = "whole"] ELSE file
         /\ run' = [run EXCEPT ![v].pc = "receipt", ![v].stored = IF linked THEN "ok" ELSE "error"]

\* The receipt is written, when one is asked for: an error is one of the run.  The exit
\* code of verify depends on all of it, that of assert on its verdict or --no-fail.
Finish(v) ==
    /\ At(v, "receipt") /\ UNCHANGED <<temp, made>> /\ Directory
    /\ \/ End(v, "error")
       \/ End(v, "no fail") /\ run[v].kind = "assert"
       \/ /\ run[v].status = "verified"
          /\ run[v].kind = "assert" \/ run[v].stored = "ok"
          /\ End(v, "ok")

Kill(v) == /\ ~At(v, "ended") /\ End(v, "killed")
           /\ UNCHANGED <<temp, made>> /\ Directory
----------------------------------------------------------------------------
(***************************************************************************)
(* list, show, summary and prune                                           *)
(***************************************************************************)

Runs == UNCHANGED <<run, temp, made, today>>
Reading(p, pc) == reader[p].pc = pc

\* The names are read at once.
ReadDir(p) ==
    /\ Reading(p, "start") /\ Runs /\ UNCHANGED <<file, pruned>>
    /\ reader' = [reader EXCEPT ![p].pc = "read", ![p].began = today,
                                ![p].names = {n \in Names : file[n] # "absent"}]

\* Then each file in its turn, which may be gone by now, and is invalid then as when it is malformed.
ReadFile(p) ==
    /\ Reading(p, "read") /\ Runs /\ UNCHANGED <<file, pruned>>
    /\ \E n \in reader[p].names :
         /\ \A m \in reader[p].names : n =< m
         /\ reader' = [reader EXCEPT
           ![p].names = @ \ {n},
           ![p].valid = IF file[n] = "whole" THEN @ \cup {n} ELSE @,
           ![p].invalid = IF file[n] = "whole" THEN @ ELSE @ \cup {n}]

\* Latest first, and by name when two are of one date.
Later(m, n) == \/ made[m].on > made[n].on
               \/ made[m].on = made[n].on /\ m < n

Latest(S, n) == Cardinality({m \in S : Later(m, n)}) < Keep

\* The filter of --status or --subject.
Filters == {Statuses, {"verified"}}
IsOld(p, n) == made[n].on + OlderThan < reader[p].began

\* Mutant: the latest are counted among all the files there are.
selectPrunePlan_Counts(p, filter, invalidToo) ==
    LET eligible == {n \in reader[p].valid :
                       Cardinality(reader[p].valid \cup reader[p].invalid) > Keep}
    IN {n \in eligible : made[n].status \in filter /\ IsOld(p, n)}

\* selectPrunePlan: the latest are put aside before the filters; a malformed file goes by
\* the time it was last changed, and one that is gone has none.
selectPrunePlan(p, filter, invalidToo) ==
    LET eligible == {n \in reader[p].valid : ~Latest(reader[p].valid, n)}
        stale == {n \in reader[p].invalid : file[n] # "absent" /\ IsOld(p, n)}
    IN {n \in eligible : made[n].status \in filter /\ IsOld(p, n)}
         \cup (IF invalidToo THEN stale ELSE {})

\* Without --execute --force nothing is deleted, as list, show and summary delete nothing.
Select(p) ==
    /\ Reading(p, "read") /\ reader[p].names = {} /\ Runs /\ UNCHANGED <<file, pruned>>
    /\ \/ reader' = [reader EXCEPT ![p] = Reads("ended", {})]
       \/ \E filter \in Filters, invalidToo \in BOOLEAN :
            reader' = [reader EXCEPT
              ![p] = Reads("delete", selectPrunePlan(p, filter, invalidToo))]

\* safeDeleteCandidate: what is no longer there is passed over, and so is an error.
Delete(p) ==
    /\ Reading(p, "delete") /\ Runs
    /\ \E n \in reader[p].todo :
         /\ reader' = [reader EXCEPT ![p].todo = @ \ {n}]
         /\ \/ UNCHANGED <<file, pruned>>
            \/ /\ file[n] # "absent"
               /\ file' = [file EXCEPT ![n] = "absent"]
               /\ pruned' = pruned \cup {n}

PruneEnds(p) ==
    /\ Reading(p, "delete") /\ reader[p].todo = {} /\ Runs /\ UNCHANGED <<file, pruned>>
    /\ reader' = [reader EXCEPT ![p] = Reads("ended", {})]
----------------------------------------------------------------------------
Tick == /\ today < MaxDays /\ today' = today + 1
        /\ UNCHANGED <<run, temp, file, made, reader, pruned>>

Verify(v) == \/ Begin(v) \/ Guard(v) \/ Judge(v) \/ Read(v) \/ NextRun(v) \/ Make(v)
             \/ WriteTemp(v) \/ Link(v) \/ Finish(v) \/ Kill(v)
Prune(p) == ReadDir(p) \/ ReadFile(p) \/ Select(p) \/ Delete(p) \/ PruneEnds(p)

Next == \/ \E v \in Verifiers : Verify(v)
        \/ \E p \in Readers : Prune(p)
        \/ Tick

Spec == Init /\ [][Next]_vars
----------------------------------------------------------------------------
(***************************************************************************)
(* Properties                                                              *)
(***************************************************************************)

TypeOK ==
    /\ run \in [Verifiers -> [kind : Kinds, after : BOOLEAN,
                              pc : {"start", "guard", "read", "make", "write", "link",
                                    "receipt", "ended"},
                              guards : 0 .. Guards, failed : BOOLEAN,
                              threshold : 0 .. MaxViolations, found : 0 .. MaxViolations,
                              seen : 0 .. Unknown, status : Statuses,
                              stored : {"no", "ok", "error"},
                              exit : {"no", "ok", "no fail", "error", "killed"}]]
    /\ temp \in [Verifiers -> Contents]
    /\ file \in [Names -> Contents]
    /\ made \in [Names -> [on : 0 .. MaxDays, status : Statuses]]
    /\ reader \in [Readers -> [pc : {"start", "read", "delete", "ended"},
                               began : 0 .. MaxDays, names : SUBSET Names,
                               valid : SUBSET Names, invalid : SUBSET Names,
                               todo : SUBSET Names]]
    /\ pruned \subseteq Names
    /\ today \in 0 .. MaxDays

\* What verify says is earned.  An artifact that says verified, and a run after the write
\* that exits with 0, means that every guard had passed and that the database was read
\* and had no more violations than the preflight had found; and whoever is told 0 by
\* verify finds the artifact, unless it was pruned since.
VerifiedIsEarned ==
    \A v \in Verifiers :
      LET earned == /\ run[v].kind = "assert" \/ (run[v].guards = Guards /\ ~run[v].failed)
                    /\ run[v].seen =< run[v].found
      IN /\ file[v] # "absent" /\ made[v].status = "verified" => earned
         /\ run[v].after /\ run[v].exit = "ok" =>
              earned /\ (run[v].kind = "assert" \/ file[v] = "whole" \/ v \in pruned)

\* A name in the directory is never that of half an artifact: whoever reads it while
\* artifacts are written, writers are killed and others prune, takes for malformed only
\* what is so or has been deleted in the meantime.
ReadersSeeWhole ==
    \A p \in Readers : \A n \in reader[p].invalid : n = Stray \/ n \in pruned

\* --keep-latest: however many prunes run at the same time, with whatever filters, and
\* whatever is published meanwhile, the latest artifacts there ever were are still there.
LatestAreKept ==
    LET published == {n \in Names \ {Stray} : file[n] = "whole" \/ n \in pruned}
    IN \A n \in published : Latest(published, n) => file[n] = "whole"
=============================================================================
