------------------------ MODULE Verification_proofs ------------------------
(***************************************************************************)
(* Theorems about verification artifacts, for any numbers of runs, of old  *)
(* artifacts, of readers and of guards, and any retention.                 *)
(*                                                                         *)
(* The invariant has a part for each run, over the values of its own       *)
(* record, its file and its artifact alone, and a part for each reader.    *)
(***************************************************************************)
EXTENDS Verification, FiniteSetTheorems, TLAPS

RunType == [kind : Kinds, after : BOOLEAN,
            pc : {"start", "guard", "read", "make", "write", "link", "receipt", "ended"},
            guards : 0 .. Guards, failed : BOOLEAN,
            threshold : 0 .. MaxViolations, found : 0 .. MaxViolations,
            seen : 0 .. Unknown, status : Statuses,
            stored : {"no", "ok", "error"},
            exit : {"no", "ok", "no fail", "error", "killed"}]
MadeType == [on : 0 .. MaxDays, status : Statuses]
ReaderType == [pc : {"start", "read", "delete", "ended"}, began : 0 .. MaxDays,
               names : SUBSET Names, valid : SUBSET Names, invalid : SUBSET Names,
               todo : SUBSET Names]

LEMMA TypeParts ==
    TypeOK <=> /\ run \in [Verifiers -> RunType]
               /\ temp \in [Verifiers -> Contents]
               /\ file \in [Names -> Contents]
               /\ made \in [Names -> MadeType]
               /\ reader \in [Readers -> ReaderType]
               /\ pruned \subseteq Names
               /\ today \in 0 .. MaxDays
  BY DEF TypeOK, RunType, MadeType, ReaderType

LEMMA Constants ==
    /\ Guards \in Nat /\ MaxViolations \in Nat /\ MaxDays \in Nat /\ Keep \in Nat
    /\ OlderThan \in Nat
    /\ Verifiers \subseteq Names /\ Old \subseteq Names /\ Stray \in Names
    /\ Verifiers \cap Old = {} /\ Stray \notin Verifiers /\ Stray \notin Old
    /\ IsFiniteSet(Names)
<1>1. IsFiniteSet(Names)
  <2>1. IsFiniteSet({Stray}) /\ IsFiniteSet(Verifiers \cup Old)
      BY FS_Singleton, VerificationAssumption
  <2> QED
      BY <2>1, FS_Union DEF Names
<1> QED
    BY <1>1, VerificationAssumption DEF Names

(***************************************************************************)
(* One run of verify or assert.                                            *)
(***************************************************************************)

\* Every guard had passed, and the database had no more violations than before.
Earned(r) == /\ r.kind = "assert" \/ (r.guards = Guards /\ ~r.failed)
             /\ r.seen =< r.found

\* r is the run, f its file, s the status of its artifact, and gone that it was pruned.
RunOK(r, f, s, gone) ==
    /\ r.pc \in {"start", "guard", "read"} => r.status = "indeterminate"
    /\ r.pc \in {"make", "write", "link", "receipt"} => r.after
    /\ r.pc = "start" => ~r.after
    /\ r.pc \in {"start", "guard", "read", "make", "write", "link"} => r.stored = "no"
    /\ r.pc = "read" => r.kind = "assert" \/ (r.guards = Guards /\ ~r.failed)
    /\ ~r.after => r.threshold = 0 /\ r.status = "indeterminate" /\ r.stored = "no"
    /\ r.threshold =< r.found
    /\ r.status = "verified" => Earned(r)
    /\ r.pc \in {"write", "link"} \/ r.stored = "ok" => s = r.status
    /\ r.stored # "ok" => f = "absent" /\ ~gone
    /\ r.stored = "ok" => f = "whole" \/ gone
    /\ gone => f = "absent"
    /\ f \in {"absent", "whole"}
    /\ r.exit # "no" <=> r.pc = "ended"
    /\ r.after /\ r.exit = "ok" =>
         r.status = "verified" /\ (r.kind = "assert" \/ r.stored = "ok")

RunsOK == \A v \in Verifiers : RunOK(run[v], file[v], made[v].status, v \in pruned)

LEMMA GoFacts ==
    ASSUME run \in [Verifiers -> RunType], NEW v \in Verifiers,
           NEW pc \in {"start", "guard", "read", "make", "write", "link", "receipt"},
           Go(v, pc)
    PROVE  /\ run' = [run EXCEPT ![v] = [run[v] EXCEPT !.pc = pc]]
           /\ [run[v] EXCEPT !.pc = pc] \in RunType
  BY ZenonT(60) DEF RunType, Go

LEMMA EndFacts ==
    ASSUME run \in [Verifiers -> RunType], NEW v \in Verifiers,
           NEW code \in {"ok", "no fail", "error", "killed"}, End(v, code)
    PROVE  /\ run' = [run EXCEPT ![v] = [run[v] EXCEPT !.pc = "ended", !.exit = code]]
           /\ [run[v] EXCEPT !.pc = "ended", !.exit = code] \in RunType
<1>1. [run[v] EXCEPT !.pc = "ended", !.exit = code] \in RunType
    BY ZenonT(60) DEF RunType
<1>2. run' = [run EXCEPT ![v] = [run[v] EXCEPT !.pc = "ended", !.exit = code]]
    BY DEF End
<1> QED
    BY <1>1, <1>2

\* A run goes on: this is all that the rest of the proof has to know of its step.
Steps(v, r) == /\ r \in RunType
               /\ run' = [run EXCEPT ![v] = r]
               /\ RunOK(r, file'[v], made'[v].status, v \in pruned)

LEMMA EndedFields ==
    ASSUME NEW s \in RunType, NEW code
    PROVE  LET r == [s EXCEPT !.pc = "ended", !.exit = code]
           IN /\ r.pc = "ended" /\ r.exit = code /\ r.kind = s.kind /\ r.after = s.after
              /\ r.guards = s.guards /\ r.failed = s.failed
              /\ r.threshold = s.threshold /\ r.found = s.found /\ r.seen = s.seen
              /\ r.status = s.status /\ r.stored = s.stored
  BY DEF RunType

\* A run that is killed, or ends with an error of its own.
LEMMA EndsBadly ==
    ASSUME run \in [Verifiers -> RunType], NEW v \in Verifiers, RunsOK,
           UNCHANGED <<file, made>>, NEW code \in {"no fail", "error", "killed"}, End(v, code)
    PROVE  \E r : Steps(v, r)
<1> DEFINE r == [run[v] EXCEPT !.pc = "ended", !.exit = code]
<1>1. run' = [run EXCEPT ![v] = r] /\ r \in RunType
    BY EndFacts
<1>2. /\ r.pc = "ended" /\ r.exit = code /\ r.kind = run[v].kind /\ r.after = run[v].after
      /\ r.guards = run[v].guards /\ r.failed = run[v].failed
      /\ r.threshold = run[v].threshold /\ r.found = run[v].found /\ r.seen = run[v].seen
      /\ r.status = run[v].status /\ r.stored = run[v].stored
    BY EndedFields
<1> HIDE DEF r
<1>3. RunOK(run[v], file[v], made[v].status, v \in pruned)
    BY DEF RunsOK
<1>4. RunOK(r, file[v], made[v].status, v \in pruned)
    BY <1>2, <1>3 DEF RunOK, Earned
<1> QED
    BY <1>1, <1>4 DEF Steps

\* The guards, and the query.
LEMMA ReadsOn ==
    ASSUME TypeOK, NEW v \in Verifiers, RunsOK,
           Begin(v) \/ Guard(v) \/ Judge(v) \/ Read(v) \/ NextRun(v)
    PROVE  \E s : Steps(v, s)
<1>1. run \in [Verifiers -> RunType] /\ RunOK(run[v], file[v], made[v].status, v \in pruned)
      /\ run[v] \in RunType
    BY TypeParts DEF RunsOK
<1>2. UNCHANGED <<file, made>>
    BY DEF Begin, Guard, Judge, Read, NextRun, Directory
<1>3. ASSUME NEW r \in RunType, run' = [run EXCEPT ![v] = r],
             RunOK(r, file[v], made[v].status, v \in pruned)
      PROVE  \E s : Steps(v, s)
    BY <1>2, <1>3 DEF Steps
<1>4. CASE Begin(v)
  <2>1. CASE End(v, "error")
      BY <1>1, <1>2, <2>1, EndsBadly
  <2>2. ASSUME NEW kind \in Kinds, NEW after \in BOOLEAN, kind = "assert" => after,
               run' = [run EXCEPT ![v].kind = kind, ![v].after = after,
                                  ![v].pc = IF kind = "assert" THEN "read" ELSE "guard"]
        PROVE  \E s : Steps(v, s)
    <3> DEFINE p == IF kind = "assert" THEN "read" ELSE "guard"
               r == [run[v] EXCEPT !.kind = kind, !.after = after, !.pc = p]
    <3>1. run' = [run EXCEPT ![v] = r]
        BY <1>1, <2>2
    <3>2. p \in {"read", "guard"} /\ (p = "read" => kind = "assert")
        OBVIOUS
    <3> HIDE DEF p
    <3>3. /\ r \in RunType
          /\ r.pc = p /\ r.exit = run[v].exit /\ r.kind = kind /\ r.after = after
          /\ r.guards = run[v].guards /\ r.failed = run[v].failed
          /\ r.threshold = run[v].threshold /\ r.found = run[v].found /\ r.seen = run[v].seen
          /\ r.status = run[v].status /\ r.stored = run[v].stored
        BY <1>1, <3>2 DEF RunType
    <3> HIDE DEF r
    <3>4. run[v].pc = "start"
        BY <1>4 DEF Begin, At
    <3>5. RunOK(r, file[v], made[v].status, v \in pruned)
        BY <1>1, <3>2, <3>3, <3>4 DEF RunOK, Earned
    <3> QED
        BY <1>3, <3>1, <3>3, <3>5
  <2> QED
      BY <1>4, <2>1, <2>2 DEF Begin
<1>5. CASE Guard(v)
  <2>1. run[v].pc = "guard" /\ run[v].guards < Guards
      BY <1>5 DEF Guard, At
  <2>2. CASE End(v, "error")
      BY <1>1, <1>2, <2>2, EndsBadly
  <2>3. ASSUME NEW n \in {run[v].guards, run[v].guards + 1}, NEW b \in BOOLEAN,
               run' = [run EXCEPT ![v] = [run[v] EXCEPT !.guards = n, !.failed = b]]
        PROVE  \E s : Steps(v, s)
    <3> DEFINE r == [run[v] EXCEPT !.guards = n, !.failed = b]
    <3>1. n \in 0 .. Guards
      <4>1. run[v].guards \in 0 .. Guards
          BY <1>1 DEF RunType
      <4> QED
          BY <2>1, <4>1, Constants
    <3>2. /\ r \in RunType
          /\ r.pc = run[v].pc /\ r.exit = run[v].exit /\ r.kind = run[v].kind
          /\ r.after = run[v].after
          /\ r.threshold = run[v].threshold /\ r.found = run[v].found /\ r.seen = run[v].seen
          /\ r.status = run[v].status /\ r.stored = run[v].stored
        BY <1>1, <3>1 DEF RunType
    <3> HIDE DEF r
    <3>3. RunOK(r, file[v], made[v].status, v \in pruned)
        BY <1>1, <2>1, <3>2 DEF RunOK, Earned
    <3> QED
        BY <1>3, <2>3, <3>2, <3>3 DEF r
  <2>4. CASE run' = [run EXCEPT ![v].guards = @ + 1]
    <3>1. run' = [run EXCEPT ![v] = [run[v] EXCEPT !.guards = run[v].guards + 1,
                                                   !.failed = run[v].failed]]
        BY <1>1, <2>4 DEF RunType
    <3> QED
        BY <1>1, <2>3, <3>1 DEF RunType
  <2>5. CASE run' = [run EXCEPT ![v].guards = IF run[v].kind = "backfill" THEN @ + 1 ELSE @,
                                ![v].failed = TRUE]
    <3>1. run' = [run EXCEPT ![v] = [run[v] EXCEPT
                    !.guards = IF run[v].kind = "backfill" THEN run[v].guards + 1
                                                           ELSE run[v].guards,
                    !.failed = TRUE]]
        BY <1>1, <2>5
    <3> QED
        BY <2>3, <3>1
  <2> QED
      BY <1>5, <2>2, <2>4, <2>5 DEF Guard
<1>6. ASSUME NEW pc \in {"read", "make"}, Go(v, pc), run[v].after \/ pc = "read",
             run[v].pc \in {"guard", "read"},
             pc = "read" => run[v].kind = "assert" \/ (run[v].guards = Guards /\ ~run[v].failed)
      PROVE  \E s : Steps(v, s)
  <2> DEFINE r == [run[v] EXCEPT !.pc = pc]
  <2>1. run' = [run EXCEPT ![v] = r] /\ r \in RunType
      BY <1>1, <1>6, GoFacts
  <2>2. /\ r.pc = pc /\ r.exit = run[v].exit /\ r.kind = run[v].kind /\ r.after = run[v].after
        /\ r.guards = run[v].guards /\ r.failed = run[v].failed
        /\ r.threshold = run[v].threshold /\ r.found = run[v].found /\ r.seen = run[v].seen
        /\ r.status = run[v].status /\ r.stored = run[v].stored
      BY <1>1 DEF RunType
  <2> HIDE DEF r
  <2>3. RunOK(r, file[v], made[v].status, v \in pruned)
      BY <1>1, <1>6, <2>2 DEF RunOK, Earned
  <2> QED
      BY <1>3, <2>1, <2>3
<1>7. ASSUME End(v, "ok"), ~run[v].after, run[v].pc \in {"guard", "read"}
      PROVE  \E s : Steps(v, s)
  <2> DEFINE r == [run[v] EXCEPT !.pc = "ended", !.exit = "ok"]
  <2>1. run' = [run EXCEPT ![v] = r] /\ r \in RunType
      BY <1>1, <1>7, EndFacts
  <2>2. /\ r.pc = "ended" /\ r.exit = "ok" /\ r.kind = run[v].kind /\ r.after = run[v].after
        /\ r.guards = run[v].guards /\ r.failed = run[v].failed
        /\ r.threshold = run[v].threshold /\ r.found = run[v].found /\ r.seen = run[v].seen
        /\ r.status = run[v].status /\ r.stored = run[v].stored
      BY <1>1 DEF RunType
  <2> HIDE DEF r
  <2>3. RunOK(r, file[v], made[v].status, v \in pruned)
      BY <1>1, <1>7, <2>2 DEF RunOK, Earned
  <2> QED
      BY <1>3, <2>1, <2>3
<1>8. CASE Judge(v)
  <2>1. run[v].pc = "guard"
      BY <1>8 DEF Judge, At
  <2>2. CASE End(v, "error")
      BY <1>1, <1>2, <2>2, EndsBadly
  <2>3. CASE run[v].after /\ run' = [run EXCEPT ![v].pc = "make", ![v].status = "blocked"]
    <3> DEFINE r == [run[v] EXCEPT !.pc = "make", !.status = "blocked"]
    <3>1. run' = [run EXCEPT ![v] = r]
        BY <1>1, <2>3
    <3>2. /\ r \in RunType
          /\ r.pc = "make" /\ r.exit = run[v].exit /\ r.kind = run[v].kind
          /\ r.after = run[v].after
          /\ r.guards = run[v].guards /\ r.failed = run[v].failed
          /\ r.threshold = run[v].threshold /\ r.found = run[v].found /\ r.seen = run[v].seen
          /\ r.status = "blocked" /\ r.stored = run[v].stored
        BY <1>1 DEF RunType, Statuses
    <3> HIDE DEF r
    <3>3. RunOK(r, file[v], made[v].status, v \in pruned)
        BY <1>1, <2>1, <2>3, <3>2 DEF RunOK, Earned
    <3> QED
        BY <1>3, <3>1, <3>2, <3>3
  <2>4. \/ AllPassed(v) /\ Go(v, "read")
        \/ ~run[v].after /\ End(v, "ok")
        \/ run[v].after /\ run' = [run EXCEPT ![v].pc = "make", ![v].status = "blocked"]
        \/ End(v, "error")
      BY <1>8 DEF Judge
  <2> QED
      BY <1>6, <1>7, <2>1, <2>2, <2>3, <2>4 DEF AllPassed
<1>9. CASE Read(v)
  <2>1. run[v].pc = "read"
      BY <1>9 DEF Read, At
  <2>2. CASE Uncounted(v)
    <3>1. \/ ~run[v].after /\ End(v, "ok")
          \/ End(v, "error")
          \/ run[v].after /\ Go(v, "make")
        BY <2>2 DEF Uncounted
    <3> QED
        BY <1>1, <1>2, <1>6, <1>7, <2>1, <3>1, EndsBadly
  <2>3. ASSUME NEW count \in 0 .. MaxViolations, Counted(v, count), run[v].after
        PROVE  \E s : Steps(v, s)
    <3> DEFINE status == IF count =< run[v].threshold THEN "verified" ELSE "not_verified"
               r == [run[v] EXCEPT !.seen = count, !.pc = "make", !.status = status]
    <3>1. run' = [run EXCEPT ![v] = r]
        BY <1>1, <2>3 DEF Counted
    <3>2. status \in Statuses /\ count \in 0 .. Unknown
        BY Constants DEF Statuses, Unknown
    <3>3. status = "verified" => count =< run[v].threshold
        OBVIOUS
    <3> HIDE DEF status
    <3>4. /\ r \in RunType
          /\ r.pc = "make" /\ r.exit = run[v].exit /\ r.kind = run[v].kind
          /\ r.after = run[v].after
          /\ r.guards = run[v].guards /\ r.failed = run[v].failed
          /\ r.threshold = run[v].threshold /\ r.found = run[v].found /\ r.seen = count
          /\ r.status = status /\ r.stored = run[v].stored
        BY <1>1, <3>2 DEF RunType
    <3>5. run[v].threshold \in Nat /\ run[v].found \in Nat /\ count \in Nat
          /\ run[v].threshold =< run[v].found
      <4>1. run[v].threshold \in 0 .. MaxViolations /\ run[v].found \in 0 .. MaxViolations
          BY <1>1 DEF RunType
      <4>2. run[v].threshold =< run[v].found
          BY <1>1 DEF RunOK
      <4> QED
          BY <4>1, <4>2, Constants
    <3> HIDE DEF r
    <3>6. status = "verified" => Earned(r)
      <4>1. run[v].kind = "assert" \/ (run[v].guards = Guards /\ ~run[v].failed)
          BY <1>1, <2>1 DEF RunOK
      <4>2. status = "verified" => r.seen =< r.found
          BY <3>3, <3>4, <3>5
      <4> QED
          BY <3>4, <4>1, <4>2 DEF Earned
    <3>7. RunOK(r, file[v], made[v].status, v \in pruned)
        BY <1>1, <2>1, <2>3, <3>4, <3>6 DEF RunOK
    <3> QED
        BY <1>3, <3>1, <3>4, <3>7
  <2>4. ASSUME NEW count \in 0 .. MaxViolations, Counted(v, count), ~run[v].after
        PROVE  \E s : Steps(v, s)
    <3> DEFINE r == [run[v] EXCEPT !.found = count, !.pc = "ended", !.exit = "ok"]
    <3>1. run' = [run EXCEPT ![v] = r]
        BY <1>1, <2>4 DEF Counted
    <3>2. /\ r \in RunType
          /\ r.pc = "ended" /\ r.exit = "ok" /\ r.kind = run[v].kind /\ r.after = run[v].after
          /\ r.threshold = run[v].threshold /\ r.found = count
          /\ r.status = run[v].status /\ r.stored = run[v].stored
        BY <1>1 DEF RunType
    <3>3. r.threshold = 0 /\ r.threshold =< r.found
        BY <1>1, <2>4, <3>2, Constants DEF RunOK
    <3> HIDE DEF r
    <3>4. RunOK(r, file[v], made[v].status, v \in pruned)
        BY <1>1, <2>1, <2>4, <3>2, <3>3 DEF RunOK
    <3> QED
        BY <1>3, <3>1, <3>2, <3>4
  <2> QED
      BY <1>9, <2>2, <2>3, <2>4 DEF Read
<1>10. CASE NextRun(v)
  <2> DEFINE r == [run[v] EXCEPT !.pc = "guard", !.exit = "no", !.after = TRUE, !.guards = 0,
                                 !.failed = FALSE, !.threshold = run[v].found]
  <2>1. run' = [run EXCEPT ![v] = r]
      BY <1>1, <1>10 DEF NextRun
  <2>2. run[v].pc = "ended" /\ ~run[v].after
      BY <1>10 DEF NextRun, At
  <2>3. 0 \in 0 .. Guards /\ run[v].found \in 0 .. MaxViolations /\ run[v].found =< run[v].found
    <3>1. run[v].found \in 0 .. MaxViolations
        BY <1>1 DEF RunType
    <3> QED
        BY <3>1, Constants
  <2>4. /\ r \in RunType
        /\ r.pc = "guard" /\ r.exit = "no" /\ r.after = TRUE /\ r.threshold = run[v].found
        /\ r.found = run[v].found /\ r.status = run[v].status /\ r.stored = run[v].stored
      BY <1>1, <2>3 DEF RunType
  <2> HIDE DEF r
  <2>5. RunOK(r, file[v], made[v].status, v \in pruned)
      BY <1>1, <2>2, <2>3, <2>4 DEF RunOK
  <2> QED
      BY <1>3, <2>1, <2>4, <2>5
<1> QED
    BY <1>4, <1>5, <1>8, <1>9, <1>10

\* The artifact is made, written and linked, and the run ends.
LEMMA Publishes ==
    ASSUME TypeOK, NEW v \in Verifiers, RunsOK,
           Make(v) \/ WriteTemp(v) \/ Link(v) \/ Finish(v) \/ Kill(v)
    PROVE  /\ \E r : Steps(v, r)
           /\ temp' \in [Verifiers -> Contents]
           /\ UNCHANGED <<reader, pruned, today>>
           /\ \/ UNCHANGED made
              \/ /\ file[v] = "absent" /\ v \notin pruned
                 /\ made' = [made EXCEPT ![v] = [on |-> today, status |-> run[v].status]]
           /\ UNCHANGED file \/ file' = [file EXCEPT ![v] = "whole"]
<1>1. run \in [Verifiers -> RunType] /\ RunOK(run[v], file[v], made[v].status, v \in pruned)
      /\ run[v] \in RunType /\ temp \in [Verifiers -> Contents] /\ file \in [Names -> Contents]
      /\ made \in [Names -> MadeType] /\ v \in Names
    BY TypeParts, Constants DEF RunsOK
<1>2. UNCHANGED <<reader, pruned, today>> /\ temp' \in [Verifiers -> Contents]
    BY <1>1 DEF Make, WriteTemp, Link, Finish, Kill, Directory, Contents
<1>3. ASSUME NEW pc \in {"write", "receipt"}, run[v].pc = "make", Go(v, pc), file' = file,
             \/ pc = "receipt" /\ run[v].kind = "assert" /\ made' = made
             \/ pc = "write" /\ made' = [made EXCEPT ![v] = [on |-> today, status |-> run[v].status]]
      PROVE  \E r : Steps(v, r)
  <2> DEFINE r == [run[v] EXCEPT !.pc = pc]
  <2>1. run' = [run EXCEPT ![v] = r] /\ r \in RunType
      BY <1>1, <1>3, GoFacts
  <2>2. /\ r.pc = pc /\ r.exit = run[v].exit /\ r.kind = run[v].kind /\ r.after = run[v].after
        /\ r.guards = run[v].guards /\ r.failed = run[v].failed
        /\ r.threshold = run[v].threshold /\ r.found = run[v].found /\ r.seen = run[v].seen
        /\ r.status = run[v].status /\ r.stored = run[v].stored
      BY <1>1 DEF RunType
  <2> HIDE DEF r
  <2>3. pc = "write" => made'[v].status = run[v].status
      BY <1>1, <1>3
  <2>4. RunOK(r, file'[v], made'[v].status, v \in pruned)
      BY <1>1, <1>3, <2>2, <2>3 DEF RunOK, Earned
  <2> QED
      BY <2>1, <2>4 DEF Steps
<1>4. CASE Make(v)
  <2>1. run[v].pc = "make" /\ file' = file /\ file[v] = "absent" /\ v \notin pruned
      BY <1>1, <1>4 DEF Make, At, Directory, RunOK
  <2> QED
      BY <1>2, <1>3, <1>4, <2>1 DEF Make
<1>5. ASSUME NEW stored \in {"ok", "error"}, run[v].pc \in {"write", "link"}, made' = made,
             run' = [run EXCEPT ![v] = [run[v] EXCEPT !.pc = "receipt", !.stored = stored]],
             stored = "ok" => file'[v] = "whole",
             stored = "error" => file' = file
      PROVE  \E r : Steps(v, r)
  <2> DEFINE r == [run[v] EXCEPT !.pc = "receipt", !.stored = stored]
  <2>1. /\ r \in RunType
        /\ r.pc = "receipt" /\ r.exit = run[v].exit /\ r.kind = run[v].kind
        /\ r.after = run[v].after
        /\ r.guards = run[v].guards /\ r.failed = run[v].failed
        /\ r.threshold = run[v].threshold /\ r.found = run[v].found /\ r.seen = run[v].seen
        /\ r.status = run[v].status /\ r.stored = stored
      BY <1>1 DEF RunType
  <2>2. run' = [run EXCEPT ![v] = r]
      BY <1>5
  <2> HIDE DEF r
  <2>3. RunOK(r, file'[v], made'[v].status, v \in pruned)
      BY <1>1, <1>5, <2>1 DEF RunOK, Earned
  <2> QED
      BY <2>1, <2>2, <2>3 DEF Steps
<1>6. CASE WriteTemp(v)
  <2>1. run[v].pc = "write" /\ made' = made /\ file' = file
      BY <1>6 DEF WriteTemp, At, Directory
  <2>2. CASE Go(v, "link")
    <3> DEFINE r == [run[v] EXCEPT !.pc = "link"]
    <3>1. run' = [run EXCEPT ![v] = r] /\ r \in RunType
        BY <1>1, <2>2, GoFacts
    <3>2. /\ r.pc = "link" /\ r.exit = run[v].exit /\ r.kind = run[v].kind
          /\ r.after = run[v].after
          /\ r.guards = run[v].guards /\ r.failed = run[v].failed
          /\ r.threshold = run[v].threshold /\ r.found = run[v].found /\ r.seen = run[v].seen
          /\ r.status = run[v].status /\ r.stored = run[v].stored
        BY <1>1 DEF RunType
    <3> HIDE DEF r
    <3>3. RunOK(r, file'[v], made'[v].status, v \in pruned)
        BY <1>1, <2>1, <3>2 DEF RunOK, Earned
    <3> QED
        BY <1>2, <2>1, <3>1, <3>3 DEF Steps
  <2>3. CASE run' = [run EXCEPT ![v].pc = "receipt", ![v].stored = "error"]
    <3>1. run' = [run EXCEPT ![v] = [run[v] EXCEPT !.pc = "receipt", !.stored = "error"]]
        BY <1>1, <2>3
    <3> QED
        BY <1>2, <1>5, <2>1, <3>1
  <2> QED
      BY <1>6, <2>2, <2>3 DEF WriteTemp
<1>7. CASE Link(v)
  <2>1. run[v].pc = "link" /\ made' = made
      BY <1>7 DEF Link, At
  <2>2. PICK linked \in BOOLEAN :
          /\ file' = IF linked THEN [file EXCEPT ![v] = "whole"] ELSE file
          /\ run' = [run EXCEPT ![v].pc = "receipt",
                                ![v].stored = IF linked THEN "ok" ELSE "error"]
      BY <1>7 DEF Link
  <2>3. run' = [run EXCEPT ![v] = [run[v] EXCEPT !.pc = "receipt",
                                                 !.stored = IF linked THEN "ok" ELSE "error"]]
      BY <1>1, <2>2
  <2>4. (linked => file'[v] = "whole") /\ (~linked => file' = file)
      BY <1>1, <2>2
  <2> QED
      BY <1>2, <1>5, <2>1, <2>2, <2>3, <2>4
<1>8. CASE Finish(v) \/ Kill(v)
  <2>1. UNCHANGED <<file, made>>
      BY <1>8 DEF Finish, Kill, Directory
  <2>2. \/ End(v, "error") \/ End(v, "no fail") \/ End(v, "killed")
        \/ /\ run[v].pc = "receipt" /\ run[v].status = "verified" /\ End(v, "ok")
           /\ run[v].kind = "assert" \/ run[v].stored = "ok"
      BY <1>8 DEF Finish, Kill, At
  <2>3. CASE End(v, "error") \/ End(v, "no fail") \/ End(v, "killed")
      BY <1>1, <1>2, <2>1, <2>3, EndsBadly
  <2>4. CASE /\ run[v].pc = "receipt" /\ run[v].status = "verified" /\ End(v, "ok")
             /\ run[v].kind = "assert" \/ run[v].stored = "ok"
    <3> DEFINE r == [run[v] EXCEPT !.pc = "ended", !.exit = "ok"]
    <3>1. run' = [run EXCEPT ![v] = r] /\ r \in RunType
        BY <1>1, <2>4, EndFacts
    <3>2. /\ r.pc = "ended" /\ r.exit = "ok" /\ r.kind = run[v].kind /\ r.after = run[v].after
          /\ r.guards = run[v].guards /\ r.failed = run[v].failed
          /\ r.threshold = run[v].threshold /\ r.found = run[v].found /\ r.seen = run[v].seen
          /\ r.status = run[v].status /\ r.stored = run[v].stored
        BY <1>1 DEF RunType
    <3> HIDE DEF r
    <3>3. RunOK(r, file'[v], made'[v].status, v \in pruned)
        BY <1>1, <2>1, <2>4, <3>2 DEF RunOK, Earned
    <3> QED
        BY <1>2, <2>1, <3>1, <3>3 DEF Steps
  <2> QED
      BY <2>2, <2>3, <2>4
<1> QED
    BY <1>4, <1>6, <1>7, <1>8

(***************************************************************************)
(* The directory and its readers.                                          *)
(***************************************************************************)

\* Every artifact there ever was in the directory.
Published == {n \in Names \ {Stray} : file[n] = "whole" \/ n \in pruned}

\* d says when each artifact was made: Keep others of S are later than n.
Behind(d, S, n) ==
    ~(Cardinality({m \in S : \/ d[m].on > d[n].on
                             \/ d[m].on = d[n].on /\ m < n}) < Keep)

\* What comes after an artifact only grows.
LEMMA StaysBehind ==
    ASSUME NEW d, NEW e, NEW S, NEW T, NEW n, S \subseteq T, T \subseteq Names,
           \A m \in S \cup {n} : e[m] = d[m],
           Behind(d, S, n)
    PROVE  Behind(e, T, n)
<1> DEFINE A == {m \in S : d[m].on > d[n].on \/ (d[m].on = d[n].on /\ m < n)}
           B == {m \in T : e[m].on > e[n].on \/ (e[m].on = e[n].on /\ m < n)}
<1>1. A \subseteq B
    OBVIOUS
<1>2. IsFiniteSet(B)
  <2>1. B \subseteq Names
      OBVIOUS
  <2> QED
      BY <2>1, Constants, FS_Subset
<1>3. Cardinality(A) =< Cardinality(B) /\ Cardinality(A) \in Nat /\ Cardinality(B) \in Nat
    BY <1>1, <1>2, FS_Subset, FS_CardinalityType
<1>4. ~(Cardinality(A) < Keep)
    BY DEF Behind
<1>5. ~(Cardinality(B) < Keep)
    BY <1>3, <1>4, Constants
<1> QED
    BY <1>5 DEF Behind

FilesOK ==
    /\ \A n \in Names \ {Stray} : /\ file[n] \in {"absent", "whole"}
                                  /\ n \in pruned => file[n] = "absent"
                                  /\ n \in pruned => Behind(made, Published, n)
    /\ file[Stray] # "whole"

ReadersOK ==
    \A p \in Readers :
       /\ reader[p].names \subseteq Published \cup {Stray}
       /\ reader[p].valid \subseteq Published
       /\ \A n \in reader[p].invalid : n = Stray \/ n \in pruned
       /\ \A n \in reader[p].todo :
            n = Stray \/ (n \in Published /\ Behind(made, Published, n))

Inv == TypeOK /\ RunsOK /\ FilesOK /\ ReadersOK

LEMMA InvInit == Init => Inv
<1> SUFFICES ASSUME Init PROVE Inv
    OBVIOUS
<1> DEFINE first == [kind |-> "assert", after |-> FALSE, pc |-> "start", guards |-> 0,
                     failed |-> FALSE, threshold |-> 0, found |-> 0, seen |-> Unknown,
                     status |-> "indeterminate", stored |-> "no", exit |-> "no"]
<1>1. first \in RunType
  <2>1. 0 \in 0 .. Guards /\ 0 \in 0 .. MaxViolations /\ Unknown \in 0 .. Unknown
      BY Constants DEF Unknown
  <2> QED
      BY <2>1 DEF RunType, Kinds, Statuses
<1>2. run = [v \in Verifiers |-> first]
    BY DEF Init
<1>3. file \in [Names -> Contents] /\ temp \in [Verifiers -> Contents]
      /\ \A v \in Verifiers : file[v] = "absent"
    BY Constants DEF Init, Contents
<1>4. made \in [Names -> MadeType] /\ today \in 0 .. MaxDays /\ pruned = {}
    BY Constants DEF Init, MadeType, Statuses
<1>5. \A p \in Readers : reader[p] = Reads("start", {})
    BY DEF Init
<1>6. reader \in [Readers -> ReaderType]
  <2>1. Reads("start", {}) \in ReaderType
      BY Constants DEF Reads, ReaderType
  <2> QED
      BY <2>1 DEF Init
<1>7. TypeOK
    BY <1>1, <1>2, <1>3, <1>4, <1>6, TypeParts
<1>8. RunsOK
  <2>1. RunOK(first, "absent", "not_verified", FALSE)
      BY DEF RunOK
  <2>2. ASSUME NEW v \in Verifiers
        PROVE  RunOK(run[v], file[v], made[v].status, v \in pruned)
    <3>1. made[v].status = "not_verified"
        BY Constants DEF Init
    <3> QED
        BY <1>2, <1>3, <1>4, <2>1, <3>1 DEF RunOK
  <2> QED
      BY <2>2 DEF RunsOK
<1>9. FilesOK
    BY <1>4, Constants DEF FilesOK, Init
<1>10. ReadersOK
    BY <1>5 DEF ReadersOK, Reads
<1> QED
    BY <1>7, <1>8, <1>9, <1>10 DEF Inv

\* A step of a run: its own part of the invariant moves on, and those of the others stay.
LEMMA OthersStay ==
    ASSUME TypeOK, RunsOK, NEW v \in Verifiers, NEW r, Steps(v, r),
           UNCHANGED pruned,
           \A w \in Verifiers \ {v} : file'[w] = file[w] /\ made'[w] = made[w]
    PROVE  RunsOK' /\ run' \in [Verifiers -> RunType]
<1>1. run \in [Verifiers -> RunType]
    BY TypeParts
<1>2. run' \in [Verifiers -> RunType] /\ run'[v] = r
      /\ \A w \in Verifiers \ {v} : run'[w] = run[w]
    BY <1>1 DEF Steps
<1>3. ASSUME NEW w \in Verifiers
      PROVE  RunOK(run'[w], file'[w], made'[w].status, w \in pruned')
    BY <1>2 DEF Steps, RunsOK
<1> QED
    BY <1>2, <1>3 DEF RunsOK

LEMMA VerifyInv ==
    ASSUME Inv, NEW v \in Verifiers, Verify(v)
    PROVE  Inv'
<1>1. TypeOK /\ RunsOK /\ v \in Names /\ v # Stray
    BY Constants DEF Inv
<1>2. /\ run \in [Verifiers -> RunType] /\ temp \in [Verifiers -> Contents]
      /\ file \in [Names -> Contents] /\ made \in [Names -> MadeType]
      /\ reader \in [Readers -> ReaderType] /\ pruned \subseteq Names /\ today \in 0 .. MaxDays
    BY <1>1, TypeParts
<1>3. /\ \E r : Steps(v, r)
      /\ temp' \in [Verifiers -> Contents] /\ UNCHANGED <<reader, pruned, today>>
      /\ \/ UNCHANGED made
         \/ /\ file[v] = "absent" /\ v \notin pruned
            /\ made' = [made EXCEPT ![v] = [on |-> today, status |-> run[v].status]]
      /\ UNCHANGED file \/ file' = [file EXCEPT ![v] = "whole"]
  <2>1. CASE Begin(v) \/ Guard(v) \/ Judge(v) \/ Read(v) \/ NextRun(v)
    <3>1. \E r : Steps(v, r)
        BY <1>1, <2>1, ReadsOn
    <3>2. UNCHANGED <<temp, made, file, reader, pruned, today>>
        BY <2>1 DEF Begin, Guard, Judge, Read, NextRun, Directory
    <3> QED
        BY <1>2, <3>1, <3>2
  <2>2. CASE Make(v) \/ WriteTemp(v) \/ Link(v) \/ Finish(v) \/ Kill(v)
      BY <1>1, <2>2, Publishes
  <2> QED
      BY <2>1, <2>2 DEF Verify
<1>4. PICK r : Steps(v, r)
    BY <1>3
<1>5. \A n \in Names \ {v} : file'[n] = file[n] /\ made'[n] = made[n]
    BY <1>2, <1>3
<1>6. RunsOK' /\ run' \in [Verifiers -> RunType]
    BY <1>1, <1>3, <1>4, <1>5, Constants, OthersStay
<1>7. file' \in [Names -> Contents] /\ made' \in [Names -> MadeType]
  <2>1. run[v].status \in Statuses
      BY <1>2 DEF RunType
  <2> QED
      BY <1>2, <1>3, <2>1 DEF Contents, MadeType
<1>8. TypeOK'
    BY <1>2, <1>3, <1>6, <1>7 DEF TypeOK, RunType, MadeType, ReaderType
<1>9. Published \subseteq Published' /\ Published' \subseteq Names
    BY <1>2, <1>3 DEF Published
<1>10. \A m \in Published : made'[m] = made[m]
    BY <1>3, <1>5 DEF Published
<1>11. ASSUME NEW n \in Published, Behind(made, Published, n)
       PROVE  Behind(made', Published', n)
    BY <1>9, <1>10, <1>11, StaysBehind
<1>12. FilesOK'
  <2>1. ASSUME NEW n \in Names \ {Stray}
        PROVE  /\ file'[n] \in {"absent", "whole"}
               /\ n \in pruned' => file'[n] = "absent"
               /\ n \in pruned' => Behind(made', Published', n)
    <3>1. file'[n] \in {"absent", "whole"}
        BY <1>2, <1>3 DEF Inv, FilesOK
    <3>2. n \in pruned' => n \in pruned /\ n \in Published /\ Behind(made, Published, n)
        BY <1>3 DEF Inv, FilesOK, Published
    <3>3. n \in pruned' => file'[n] = "absent"
      <4>1. CASE n = v
          BY <1>6, <4>1 DEF RunsOK, RunOK
      <4>2. CASE n # v
          BY <1>3, <1>5, <4>2 DEF Inv, FilesOK
      <4> QED
          BY <4>1, <4>2
    <3> QED
        BY <1>11, <3>1, <3>2, <3>3
  <2>2. file'[Stray] # "whole"
      BY <1>1, <1>5, Constants DEF Inv, FilesOK
  <2> QED
      BY <2>1, <2>2 DEF FilesOK
<1>13. ReadersOK'
    BY <1>3, <1>9, <1>11 DEF Inv, ReadersOK
<1> QED
    BY <1>6, <1>8, <1>12, <1>13 DEF Inv

\* What prune selects is behind Keep others, or the stray file.
LEMMA SelectsBehind ==
    ASSUME Inv, NEW p \in Readers, NEW filter \in Filters, NEW invalidToo \in BOOLEAN,
           NEW n \in selectPrunePlan(p, filter, invalidToo)
    PROVE  n \in Names /\ (n = Stray \/ (n \in Published /\ Behind(made, Published, n)))
<1>1. CASE n \in reader[p].valid /\ ~Latest(reader[p].valid, n)
  <2>1. reader[p].valid \subseteq Published /\ Published \subseteq Names
      BY DEF Inv, ReadersOK, Published
  <2>2. Behind(made, reader[p].valid, n)
      BY <1>1 DEF Latest, Later, Behind
  <2>3. Behind(made, Published, n)
      BY <2>1, <2>2, StaysBehind
  <2> QED
      BY <1>1, <2>1, <2>3
<1>2. CASE n \in reader[p].invalid /\ file[n] # "absent"
  <2>1. n \in Names
      BY <1>2, TypeParts DEF Inv, ReaderType
  <2>2. n = Stray \/ n \in pruned
      BY <1>2 DEF Inv, ReadersOK
  <2>3. n # Stray /\ n \in pruned => file[n] = "absent"
      BY <2>1 DEF Inv, FilesOK
  <2> QED
      BY <1>2, <2>1, <2>2, <2>3
<1> QED
    BY <1>1, <1>2 DEF selectPrunePlan

\* A reader goes on, and the directory stays.
LEMMA ReaderGoesOn ==
    ASSUME Inv, NEW p \in Readers, NEW r \in ReaderType, reader' = [reader EXCEPT ![p] = r],
           UNCHANGED <<run, temp, made, today, file, pruned>>,
           r.names \subseteq Published \cup {Stray}, r.valid \subseteq Published,
           \A n \in r.invalid : n = Stray \/ n \in pruned,
           \A n \in r.todo : n = Stray \/ (n \in Published /\ Behind(made, Published, n))
    PROVE  Inv'
<1>1. reader \in [Readers -> ReaderType]
    BY TypeParts DEF Inv
<1>2. reader' \in [Readers -> ReaderType] /\ reader'[p] = r
      /\ \A q \in Readers \ {p} : reader'[q] = reader[q]
    BY <1>1
<1>3. Published' = Published
    BY DEF Published
<1>4. TypeOK'
    BY <1>2, TypeParts DEF Inv, TypeOK, ReaderType, RunType, MadeType
<1>5. RunsOK'
    BY DEF Inv, RunsOK
<1>6. FilesOK'
    BY <1>3 DEF Inv, FilesOK
<1>7. ReadersOK'
  <2>1. ASSUME NEW q \in Readers
        PROVE  /\ reader'[q].names \subseteq Published \cup {Stray}
               /\ reader'[q].valid \subseteq Published
               /\ \A n \in reader'[q].invalid : n = Stray \/ n \in pruned
               /\ \A n \in reader'[q].todo :
                    n = Stray \/ (n \in Published /\ Behind(made, Published, n))
    <3>1. CASE q = p
        BY <1>2, <3>1
    <3>2. CASE q # p
        BY <1>2, <3>2 DEF Inv, ReadersOK
    <3> QED
        BY <3>1, <3>2
  <2> QED
      BY <1>3, <2>1 DEF ReadersOK
<1> QED
    BY <1>4, <1>5, <1>6, <1>7 DEF Inv

LEMMA ReadsType ==
    ASSUME NEW pc \in {"start", "read", "delete", "ended"}, NEW todo \in SUBSET Names
    PROVE  /\ Reads(pc, todo) \in ReaderType
           /\ Reads(pc, todo).names = {} /\ Reads(pc, todo).valid = {}
           /\ Reads(pc, todo).invalid = {} /\ Reads(pc, todo).todo = todo
  BY Constants DEF Reads, ReaderType

\* A step of a reader.
LEMMA PruneInv ==
    ASSUME Inv, NEW p \in Readers, Prune(p)
    PROVE  Inv'
<1>1. /\ run \in [Verifiers -> RunType] /\ temp \in [Verifiers -> Contents]
      /\ file \in [Names -> Contents] /\ made \in [Names -> MadeType]
      /\ reader \in [Readers -> ReaderType] /\ pruned \subseteq Names /\ today \in 0 .. MaxDays
    BY TypeParts DEF Inv
<1>2. /\ reader[p] \in ReaderType
      /\ reader[p].names \subseteq Published \cup {Stray}
      /\ reader[p].valid \subseteq Published
      /\ \A n \in reader[p].invalid : n = Stray \/ n \in pruned
      /\ \A n \in reader[p].todo :
           n = Stray \/ (n \in Published /\ Behind(made, Published, n))
    BY <1>1 DEF Inv, ReadersOK
<1>3. UNCHANGED <<run, temp, made, today>>
    BY DEF Prune, ReadDir, ReadFile, Select, Delete, PruneEnds, Runs
<1>4. CASE ReadDir(p)
  <2> DEFINE names == {n \in Names : file[n] # "absent"}
             r == [reader[p] EXCEPT !.pc = "read", !.began = today, !.names = names]
  <2>1. reader' = [reader EXCEPT ![p] = r] /\ UNCHANGED <<file, pruned>>
      BY <1>1, <1>4 DEF ReadDir
  <2>2. names \subseteq Published \cup {Stray} /\ names \in SUBSET Names
    <3>1. ASSUME NEW n \in Names \ {Stray}, file[n] # "absent" PROVE n \in Published
        BY <3>1 DEF Inv, FilesOK, Published
    <3> QED
        BY <3>1
  <2> HIDE DEF names
  <2>3. /\ r \in ReaderType /\ r.names = names /\ r.valid = reader[p].valid
        /\ r.invalid = reader[p].invalid /\ r.todo = reader[p].todo
      BY <1>1, <1>2, <2>2 DEF ReaderType
  <2> HIDE DEF r
  <2> QED
      BY <1>2, <1>3, <2>1, <2>2, <2>3, ReaderGoesOn
<1>5. CASE ReadFile(p)
  <2>1. PICK n \in reader[p].names :
          reader' = [reader EXCEPT
           ![p].names = @ \ {n},
           ![p].valid = IF file[n] = "whole" THEN @ \cup {n} ELSE @,
           ![p].invalid = IF file[n] = "whole" THEN @ ELSE @ \cup {n}]
      BY <1>5 DEF ReadFile
  <2> DEFINE valid == IF file[n] = "whole" THEN reader[p].valid \cup {n} ELSE reader[p].valid
             invalid == IF file[n] = "whole" THEN reader[p].invalid
                                             ELSE reader[p].invalid \cup {n}
             r == [reader[p] EXCEPT !.names = reader[p].names \ {n}, !.valid = valid,
                                    !.invalid = invalid]
  <2>2. reader' = [reader EXCEPT ![p] = r] /\ UNCHANGED <<file, pruned>>
      BY <1>1, <1>5, <2>1 DEF ReadFile
  <2>3. n \in Names /\ reader[p].names \in SUBSET Names /\ reader[p].valid \in SUBSET Names
        /\ reader[p].invalid \in SUBSET Names
      BY <1>2 DEF ReaderType
  <2>4. n \in Published \/ n = Stray
      BY <1>2
  <2>5. valid \subseteq Published /\ valid \in SUBSET Names
    <3>1. file[n] = "whole" => n \in Published
        BY <2>4 DEF Inv, FilesOK
    <3> QED
        BY <1>2, <2>3, <3>1
  <2>6. invalid \in SUBSET Names /\ \A m \in invalid : m = Stray \/ m \in pruned
    <3>1. file[n] # "whole" => n = Stray \/ n \in pruned
        BY <2>4 DEF Published
    <3> QED
        BY <1>2, <2>3, <3>1
  <2> HIDE DEF valid, invalid
  <2>7. /\ r \in ReaderType /\ r.names = reader[p].names \ {n} /\ r.valid = valid
        /\ r.invalid = invalid /\ r.todo = reader[p].todo
      BY <1>2, <2>3, <2>5, <2>6 DEF ReaderType
  <2> HIDE DEF r
  <2> QED
      BY <1>2, <1>3, <2>2, <2>5, <2>6, <2>7, ReaderGoesOn
<1>6. CASE Select(p) \/ PruneEnds(p)
  <2>1. UNCHANGED <<file, pruned>>
      BY <1>6 DEF Select, PruneEnds
  <2>2. CASE reader' = [reader EXCEPT ![p] = Reads("ended", {})]
      BY <1>3, <2>1, <2>2, ReadsType, ReaderGoesOn
  <2>3. ASSUME NEW filter \in Filters, NEW invalidToo \in BOOLEAN,
               reader' = [reader EXCEPT
                 ![p] = Reads("delete", selectPrunePlan(p, filter, invalidToo))]
        PROVE  Inv'
    <3> DEFINE todo == selectPrunePlan(p, filter, invalidToo)
               r == Reads("delete", todo)
    <3>1. \A n \in todo : /\ n \in Names
                          /\ n = Stray \/ (n \in Published /\ Behind(made, Published, n))
        BY SelectsBehind
    <3>2. reader' = [reader EXCEPT ![p] = r]
        BY <2>3
    <3> HIDE DEF todo
    <3>3. /\ r \in ReaderType /\ r.names = {} /\ r.valid = {} /\ r.invalid = {}
          /\ r.todo = todo
        BY <3>1, ReadsType
    <3> HIDE DEF r
    <3> QED
        BY <1>3, <2>1, <3>1, <3>2, <3>3, ReaderGoesOn
  <2> QED
      BY <1>6, <2>2, <2>3 DEF Select, PruneEnds
<1>7. CASE Delete(p)
  <2>1. PICK n \in reader[p].todo :
          /\ reader' = [reader EXCEPT ![p].todo = @ \ {n}]
          /\ \/ UNCHANGED <<file, pruned>>
             \/ /\ file[n] # "absent"
                /\ file' = [file EXCEPT ![n] = "absent"]
                /\ pruned' = pruned \cup {n}
      BY <1>7 DEF Delete
  <2> DEFINE r == [reader[p] EXCEPT !.todo = reader[p].todo \ {n}]
  <2>2. reader' = [reader EXCEPT ![p] = r]
      BY <1>1, <2>1
  <2>3. /\ r \in ReaderType /\ r.names = reader[p].names /\ r.valid = reader[p].valid
        /\ r.invalid = reader[p].invalid /\ r.todo = reader[p].todo \ {n}
      BY <1>2 DEF ReaderType
  <2> HIDE DEF r
  <2>4. CASE UNCHANGED <<file, pruned>>
      BY <1>2, <1>3, <2>2, <2>3, <2>4, ReaderGoesOn
  <2>5. CASE /\ file[n] # "absent" /\ file' = [file EXCEPT ![n] = "absent"]
             /\ pruned' = pruned \cup {n}
    <3>1. n \in Names /\ (n = Stray \/ (n \in Published /\ Behind(made, Published, n)))
        BY <1>2, <2>1 DEF ReaderType
    <3>2. /\ file'[n] = "absent" /\ \A m \in Names \ {n} : file'[m] = file[m]
          /\ file' \in [Names -> Contents] /\ pruned' \subseteq Names
        BY <1>1, <2>5, <3>1 DEF Contents
    <3>3. Published' = Published
      <4>1. ASSUME NEW m \in Names \ {Stray}
            PROVE  (file'[m] = "whole" \/ m \in pruned') <=> (file[m] = "whole" \/ m \in pruned)
        <5>1. CASE m = n
          <6>1. file[m] = "whole"
              BY <2>5, <5>1 DEF Inv, FilesOK
          <6> QED
              BY <2>5, <5>1, <6>1
        <5>2. CASE m # n
            BY <2>5, <3>2, <5>2
        <5> QED
            BY <5>1, <5>2
      <4> QED
          BY <4>1 DEF Published
    <3>4. \A q \in Readers :
            /\ reader'[q] \in ReaderType
            /\ reader'[q].names = reader[q].names /\ reader'[q].valid = reader[q].valid
            /\ reader'[q].invalid = reader[q].invalid /\ reader'[q].todo \subseteq reader[q].todo
        BY <1>1, <2>2, <2>3
    <3>5. TypeOK'
      <4>1. reader' \in [Readers -> ReaderType]
          BY <1>1, <2>2, <2>3
      <4> QED
          BY <1>1, <1>3, <3>2, <4>1 DEF TypeOK, ReaderType, RunType, MadeType
    <3>6. RunsOK'
      <4>1. ASSUME NEW v \in Verifiers
            PROVE  RunOK(run[v], file'[v], made[v].status, v \in pruned')
        <5>1. RunOK(run[v], file[v], made[v].status, v \in pruned) /\ v \in Names
            BY Constants DEF Inv, RunsOK
        <5>2. CASE v = n
          <6>1. file[v] = "whole" /\ run[v].stored = "ok"
              BY <2>5, <5>1, <5>2 DEF RunOK
          <6>2. file'[v] = "absent" /\ v \in pruned'
              BY <2>5, <3>2, <5>2
          <6> QED
              BY <5>1, <6>1, <6>2 DEF RunOK
        <5>3. CASE v # n
          <6>1. file'[v] = file[v] /\ (v \in pruned' <=> v \in pruned)
              BY <2>5, <3>2, <5>1, <5>3
          <6> QED
              BY <5>1, <6>1 DEF RunOK
        <5> QED
            BY <5>2, <5>3
      <4> QED
          BY <1>3, <4>1 DEF RunsOK
    <3>7. FilesOK'
      <4>1. ASSUME NEW m \in Names \ {Stray}
            PROVE  /\ file'[m] \in {"absent", "whole"}
                   /\ m \in pruned' => file'[m] = "absent"
                   /\ m \in pruned' => Behind(made, Published, m)
        <5>1. CASE m = n
            BY <3>1, <3>2, <5>1
        <5>2. CASE m # n
            BY <2>5, <3>2, <5>2 DEF Inv, FilesOK
        <5> QED
            BY <5>1, <5>2
      <4>2. file'[Stray] # "whole"
          BY <3>2, Constants DEF Inv, FilesOK
      <4> QED
          BY <1>3, <3>3, <4>1, <4>2 DEF FilesOK
    <3>8. ReadersOK'
        BY <1>3, <2>5, <3>3, <3>4 DEF Inv, ReadersOK
    <3> QED
        BY <3>5, <3>6, <3>7, <3>8 DEF Inv
  <2> QED
      BY <2>1, <2>4, <2>5
<1> QED
    BY <1>4, <1>5, <1>6, <1>7 DEF Prune

LEMMA InvStep == Inv /\ [Next]_vars => Inv'
<1> SUFFICES ASSUME Inv, [Next]_vars PROVE Inv'
    OBVIOUS
<1>1. CASE Tick \/ UNCHANGED vars
  <2>1. UNCHANGED <<run, temp, file, made, reader, pruned>>
      BY <1>1 DEF Tick, vars
  <2>2. today' \in 0 .. MaxDays
    <3>1. today \in 0 .. MaxDays
        BY DEF Inv, TypeOK
    <3> QED
        BY <1>1, <3>1, Constants DEF Tick, vars
  <2>3. TypeOK'
      BY <2>1, <2>2 DEF Inv, TypeOK
  <2>4. Published' = Published
      BY <2>1 DEF Published
  <2> QED
      BY <2>1, <2>3, <2>4 DEF Inv, RunsOK, FilesOK, ReadersOK
<1> QED
    BY <1>1, VerifyInv, PruneInv DEF Next

LEMMA InvHolds == Spec => []Inv
  BY InvInit, InvStep, PTL DEF Spec

\* Every variable keeps its type, with any number of runs and readers.
THEOREM TypeCorrect == Spec => []TypeOK
<1>1. Inv => TypeOK
    BY DEF Inv
<1> QED
    BY <1>1, InvHolds, PTL

\* verify and assert: an artifact says verified, and verify exits with 0, only when every
\* guard had passed and the database was found no worse than before the write.
THEOREM VerifiedIsEarnedHolds == Spec => []VerifiedIsEarned
<1>1. Inv => VerifiedIsEarned
  <2> SUFFICES ASSUME Inv, NEW v \in Verifiers
               PROVE  /\ file[v] # "absent" /\ made[v].status = "verified" => Earned(run[v])
                      /\ run[v].after /\ run[v].exit = "ok" =>
                           /\ Earned(run[v])
                           /\ run[v].kind = "assert" \/ file[v] = "whole" \/ v \in pruned
      BY DEF VerifiedIsEarned, Earned
  <2>1. RunOK(run[v], file[v], made[v].status, v \in pruned)
      BY DEF Inv, RunsOK
  <2> QED
      BY <2>1 DEF RunOK
<1> QED
    BY <1>1, InvHolds, PTL

\* The reader of the directory: whatever is written and deleted meanwhile, it calls
\* malformed only what is malformed or was pruned.
THEOREM ReadersSeeWholeHolds == Spec => []ReadersSeeWhole
<1>1. Inv => ReadersSeeWhole
    BY DEF Inv, ReadersOK, ReadersSeeWhole
<1> QED
    BY <1>1, InvHolds, PTL

\* --keep-latest, for any number of prunes at the same time: what they delete has Keep
\* later artifacts, which none of them may delete before it is behind as many.
THEOREM LatestAreKeptHolds == Spec => []LatestAreKept
<1>1. Inv => LatestAreKept
  <2> SUFFICES ASSUME Inv, NEW n \in Published, Latest(Published, n)
               PROVE  file[n] = "whole"
      BY DEF LatestAreKept, Published
  <2>1. ~Behind(made, Published, n)
      BY DEF Latest, Later, Behind
  <2>2. n \notin pruned
      BY <2>1 DEF Inv, FilesOK, Published
  <2> QED
      BY <2>2 DEF Published
<1> QED
    BY <1>1, InvHolds, PTL
=============================================================================
