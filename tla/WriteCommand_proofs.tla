------------------------ MODULE WriteCommand_proofs ------------------------
(***************************************************************************)
(* Theorems about a run of a writing command next to a run of migrate, for *)
(* operations of any number of statements and any number of rows that are  *)
(* not written.                                                            *)
(***************************************************************************)
EXTENDS WriteCommand, TLAPS

(***************************************************************************)
(* Type correctness.                                                       *)
(***************************************************************************)

RunType == [pc : Places, after : {"none", "end", "refused", "row", "failed", "caught"},
            loaded : BOOLEAN, audited : BOOLEAN, seen : {"nothing", "unique", "wide"},
            decision : Decisions \cup {"none"},
            result : {"none", "success", "dry_run", "cancelled", "error"},
            effects : Nat, wide : BOOLEAN, envelope : BOOLEAN,
            exit : {"no", "ok", "error", "killed"}]
RowType == [outcome : Outcomes, success : BOOLEAN, written : BOOLEAN]
MigrationType == [op : Operations, execute : BOOLEAN, force : BOOLEAN,
                  pc : {"start", "confirm", "statement", "ended"}, applied : Nat,
                  exit : {"no", "ok", "error", "cancelled"}]

\* What holds of the place the run is at: before the statement, nothing has taken effect;
\* a connection is closed on the way to somewhere; a decision is recorded when there is
\* one, and a row is about a result.
Placed ==
    /\ run.pc = "disconnect" => /\ run.after # "none"
                                /\ run.after = "row" => run.result # "none"
    /\ run.pc = "record" => run.decision # "none"
    /\ run.pc = "row" => run.result # "none"

Typed == TypeOK /\ Placed

LEMMA TypeParts ==
    TypeOK <=> /\ request \in Requests
               /\ run \in RunType
               /\ rows \in Seq(RowType)
               /\ unique \in BOOLEAN
               /\ migration \in MigrationType
               /\ missed \in 0 .. MaxMissed
  BY DEF TypeOK, RunType, RowType, MigrationType

LEMMA ConstantsAreNat == MaxStatements \in Nat /\ MaxMissed \in Nat
  BY WriteAssumption

\* A row that is asked for is the last one of the rows.
LEMMA RowAppends ==
    ASSUME rows \in Seq(RowType), missed \in 0 .. MaxMissed,
           NEW outcome \in Outcomes, NEW written \in BOOLEAN, Row(outcome, written)
    PROVE  /\ rows' \in Seq(RowType) /\ missed' \in 0 .. MaxMissed
           /\ Len(rows) \in Nat
           /\ DOMAIN rows = 1 .. Len(rows) /\ DOMAIN rows' = 1 .. Len(rows) + 1
           /\ \A i \in DOMAIN rows : rows'[i] = rows[i]
           /\ rows'[Len(rows) + 1] = [outcome |-> outcome, success |-> Succeeded(outcome),
                                      written |-> written]
<1> DEFINE row == [outcome |-> outcome, success |-> Succeeded(outcome),
                   written |-> written]
<1>1. row \in RowType
    BY DEF RowType, Succeeded
<1>2. rows' = Append(rows, row)
    BY DEF Row
<1>3. missed' \in 0 .. MaxMissed
    BY ConstantsAreNat DEF Row
<1> HIDE DEF row
<1>4. /\ rows' \in Seq(RowType) /\ Len(rows) \in Nat
      /\ DOMAIN rows = 1 .. Len(rows) /\ DOMAIN rows' = 1 .. Len(rows) + 1
      /\ \A i \in DOMAIN rows : rows'[i] = rows[i]
      /\ rows'[Len(rows) + 1] = row
    BY <1>1, <1>2
<1> QED
    BY <1>3, <1>4 DEF row

LEMMA TypeInit == Init => Typed
<1> SUFFICES ASSUME Init PROVE Typed
    OBVIOUS
<1>1. request \in Requests /\ run \in RunType /\ Placed
    BY DEF Init, RunType, Places, Decisions, Placed
<1>2. rows \in Seq(RowType) /\ unique \in BOOLEAN
    BY DEF Init
<1>3. migration \in MigrationType
    BY DEF Init, MigrationType
<1>4. missed \in 0 .. MaxMissed
    BY ConstantsAreNat DEF Init
<1> QED
    BY <1>1, <1>2, <1>3, <1>4, TypeParts DEF Typed

\* A place to go to.
LEMMA GoType ==
    ASSUME run \in RunType, NEW p \in Places, Go(p)
    PROVE  run' \in RunType /\ (p \notin {"disconnect", "record", "row"} => Placed')
  BY DEF RunType, Go, Placed

LEMMA CloseThenType ==
    ASSUME run \in RunType, NEW p \in {"end", "refused", "failed", "caught"},
           CloseThen(p)
    PROVE  run' \in RunType /\ Placed'
  BY ZenonT(60) DEF RunType, CloseThen, Placed, Places

LEMMA EndType ==
    ASSUME run \in RunType, NEW code \in {"ok", "error", "killed"}, End(code)
    PROVE  run' \in RunType /\ Placed'
<1>1. run' = [run EXCEPT !.pc = "ended", !.exit = code] /\ code \in {"ok", "error", "killed"}
    BY DEF End
<1>2. "ended" \in Places
    BY DEF Places
<1>3. run' \in RunType
    BY <1>1, <1>2 DEF RunType
<1> QED
    BY <1>1, <1>3 DEF RunType, Placed

\* The steps that ask for a row.
LEMMA RowsType ==
    ASSUME Typed, Rows
    PROVE  Typed'
<1>1. PICK written \in BOOLEAN :
        \/ Plan(written) \/ Unsupported(written) \/ Record(written)
        \/ Report(written) \/ Failed(written) \/ Caught(written)
    BY DEF Rows
<1>2. /\ request \in Requests /\ run \in RunType /\ rows \in Seq(RowType) /\ unique \in BOOLEAN
      /\ migration \in MigrationType /\ missed \in 0 .. MaxMissed /\ Placed
    BY TypeParts DEF Typed
<1>3. UNCHANGED <<request, unique, migration>>
    BY <1>1 DEF Plan, Unsupported, Record, Report, Failed, Caught, World
<1>4. \A outcome \in Outcomes : Row(outcome, written)
                                  => rows' \in Seq(RowType) /\ missed' \in 0 .. MaxMissed
    BY <1>2, RowAppends
<1>5. NoRow => rows' \in Seq(RowType) /\ missed' \in 0 .. MaxMissed
    BY <1>2 DEF NoRow
<1>6. {"plan", "error"} \cup Decisions \subseteq Outcomes
    BY DEF Outcomes
<1>7. (rows' \in Seq(RowType) /\ missed' \in 0 .. MaxMissed) /\ run' \in RunType /\ Placed'
  <2>1. CASE Plan(written)
    <3>1. rows' \in Seq(RowType) /\ missed' \in 0 .. MaxMissed
        BY <2>1, <1>4, <1>5, <1>6 DEF Plan
    <3> QED
        BY <2>1, <3>1, <1>2, EndType, GoType DEF Plan, Places
  <2>2. CASE Unsupported(written)
    <3>1. rows' \in Seq(RowType) /\ missed' \in 0 .. MaxMissed
        BY <2>2, <1>4, <1>6 DEF Unsupported
    <3> QED
        BY <2>2, <3>1, <1>2, EndType DEF Unsupported
  <2>3. CASE Record(written)
    <3>1. run.decision \in Decisions
        BY <2>3, <1>2 DEF Record, At, Placed, RunType
    <3>2. rows' \in Seq(RowType) /\ missed' \in 0 .. MaxMissed
        BY <2>3, <3>1, <1>4, <1>6 DEF Record
    <3>3. ASSUME Decided PROVE run' \in RunType /\ Placed'
      <4>1. CASE run.decision = "allowed"
          BY <4>1, <3>3, <1>2, GoType DEF Decided, Places
      <4>2. CASE run.decision = "declined"
        <5>1. \/ End("ok")
              \/ run' = [run EXCEPT !.pc = "row", !.result = "cancelled"]
            BY <4>2, <3>3 DEF Decided
        <5>2. CASE run' = [run EXCEPT !.pc = "row", !.result = "cancelled"]
          <6>1. "row" \in Places
              BY DEF Places
          <6> QED
              BY <5>2, <6>1, <1>2 DEF RunType, Placed
        <5> QED
            BY <5>1, <5>2, <1>2, EndType
      <4>3. CASE run.decision = "refused"
          BY <4>3, <3>3, <1>2, EndType, CloseThenType DEF Decided
      <4> QED
          BY <4>1, <4>2, <4>3, <3>1 DEF Decisions
    <3> QED
        BY <2>3, <3>2, <3>3, <1>2, GoType, CloseThenType DEF Record, Places
  <2>4. CASE Report(written)
    <3>1. run.result \in Outcomes
        BY <2>4, <1>2 DEF Report, At, Placed, RunType, Outcomes
    <3>2. rows' \in Seq(RowType) /\ missed' \in 0 .. MaxMissed
        BY <2>4, <3>1, <1>4 DEF Report
    <3>3. Go("emit") \/ End("error") \/ Go("present") \/ End("ok") \/ CloseThen("end")
        BY <2>4 DEF Report
    <3> QED
        BY <3>2, <3>3, <1>2, EndType, GoType, CloseThenType DEF Places
  <2>5. CASE Failed(written)
    <3>1. rows' \in Seq(RowType) /\ missed' \in 0 .. MaxMissed
        BY <2>5, <1>4, <1>5, <1>6 DEF Failed
    <3>2. request.recovery \in BOOLEAN
        BY <1>2 DEF Requests
    <3> QED
        BY <2>5, <3>1, <3>2, <1>2, ZenonT(60) DEF Failed, RunType, Placed, Places
  <2>6. CASE Caught(written)
    <3>1. rows' \in Seq(RowType) /\ missed' \in 0 .. MaxMissed
        BY <2>6, <1>4, <1>5, <1>6 DEF Caught
    <3> QED
        BY <2>6, <3>1, <1>2, EndType, GoType DEF Caught, Places
  <2> QED
      BY <1>1, <2>1, <2>2, <2>3, <2>4, <2>5, <2>6
<1> QED
    BY <1>2, <1>3, <1>7 DEF Typed, TypeOK, RunType, RowType, MigrationType

\* A place and one or two other fields.
LEMMA FieldsType ==
    ASSUME run \in RunType, NEW p \in Places, p \notin {"disconnect"}
    PROVE  /\ \A r \in {"none", "success", "dry_run", "cancelled", "error"} :
                [run EXCEPT !.pc = p, !.result = r] \in RunType
           /\ \A d \in Decisions : [run EXCEPT !.pc = p, !.decision = d] \in RunType
           /\ \A s \in {"nothing", "unique", "wide"}, d \in Decisions \cup {"none"} :
                [run EXCEPT !.seen = s, !.pc = p, !.decision = d] \in RunType
           /\ \A b \in BOOLEAN : /\ [run EXCEPT !.pc = p, !.loaded = b] \in RunType
                                 /\ [run EXCEPT !.pc = p, !.envelope = b, !.exit = "error"]
                                      \in RunType
  BY ZenonT(60) DEF RunType

\* The steps that ask for none.
LEMMA CommandType ==
    ASSUME Typed, Command
    PROVE  Typed'
<1>1. /\ request \in Requests /\ run \in RunType /\ rows \in Seq(RowType) /\ unique \in BOOLEAN
      /\ migration \in MigrationType /\ missed \in 0 .. MaxMissed /\ Placed
    BY TypeParts DEF Typed
<1>2. UNCHANGED <<request, unique, migration, rows, missed>>
    BY DEF Command, Begin, Admit, Gate, Preflight, Connect, ReadSchema, Phrase, Executor,
           Confirm, Execute, Present, Disconnect, Emit, World, NoRow
<1>3. run' \in RunType /\ Placed'
  <2>1. CASE Begin
    <3>1. Entry \in Places \ {"disconnect", "record", "row"}
        BY DEF Entry, Places
    <3>2. Go("caught") \/ run' = [run EXCEPT !.pc = Entry, !.loaded = TRUE]
        BY <2>1 DEF Begin
    <3>3. CASE Go("caught")
        BY <3>3, <1>1, GoType DEF Places
    <3>4. CASE run' = [run EXCEPT !.pc = Entry, !.loaded = TRUE]
      <4>1. run' \in RunType
          BY <3>1, <3>4, <1>1, FieldsType
      <4>2. run'.pc = Entry
          BY <3>4, <1>1 DEF RunType
      <4> QED
          BY <3>1, <4>1, <4>2 DEF Placed
    <3> QED
        BY <3>2, <3>3, <3>4
  <2>2. CASE Admit
    <3>1. CASE Go("caught") \/ Go("connect")
        BY <3>1, <1>1, GoType DEF Places
    <3>2. CASE run' = [run EXCEPT !.pc = "row", !.result = "dry_run"]
      <4>1. run' \in RunType
          BY <3>2, <1>1, FieldsType DEF Places
      <4> QED
          BY <3>2, <4>1, <1>1 DEF RunType, Placed
    <3>3. CASE \/ run' = [run EXCEPT !.pc = "connect"]
               \/ run' = [run EXCEPT !.pc = "confirm"]
        BY <3>3, <1>1, GoType DEF Places, Go
    <3> QED
        BY <2>2, <3>1, <3>2, <3>3 DEF Admit
  <2>3. CASE Gate
    <3>1. CASE Go("preflight") \/ Go("caught") \/ Go("confirm") \/ Go("phrase")
        BY <3>1, <1>1, GoType DEF Places
    <3>2. CASE run' = [run EXCEPT !.pc = "record", !.decision = "refused"]
      <4>1. run' \in RunType
          BY <3>2, <1>1, FieldsType DEF Places, Decisions
      <4> QED
          BY <3>2, <4>1, <1>1 DEF RunType, Placed
    <3>3. request.tier \in {"none", "one", "two"}
        BY <1>1 DEF Requests
    <3> QED
        BY <2>3, <3>1, <3>2, <3>3 DEF Gate
  <2>4. CASE Preflight \/ Connect
    <3>1. Go("connect") \/ Go("caught") \/ Go("failed") \/ Go("schema") \/ Go("execute")
        BY <2>4 DEF Preflight, Connect, Thrown
    <3> QED
        BY <3>1, <1>1, GoType DEF Places
  <2>5. CASE ReadSchema
    <3>1. CASE CloseThen("caught")
        BY <3>1, <1>1, CloseThenType
    <3>2. ASSUME NEW gated \in BOOLEAN,
                 run' = [run EXCEPT !.seen = IF unique THEN "unique" ELSE "wide",
                             !.pc = IF ~gated THEN "executor"
                                    ELSE IF request.attended THEN "phrase" ELSE "record",
                             !.decision = IF gated /\ ~request.attended THEN "refused" ELSE @]
          PROVE  run' \in RunType /\ Placed'
      <4> DEFINE p == IF ~gated THEN "executor"
                      ELSE IF request.attended THEN "phrase" ELSE "record"
                 d == IF gated /\ ~request.attended THEN "refused" ELSE run.decision
                 s == IF unique THEN "unique" ELSE "wide"
      <4>1. p \in Places /\ p # "disconnect" /\ s \in {"nothing", "unique", "wide"}
          BY DEF Places
      <4>2. d \in Decisions \cup {"none"} /\ (p = "record" => d = "refused") /\ p # "row"
          BY <1>1 DEF Decisions, RunType
      <4>3. run' = [run EXCEPT !.seen = s, !.pc = p, !.decision = d]
          BY <3>2
      <4> HIDE DEF p, d, s
      <4>4. run' \in RunType
          BY <4>1, <4>2, <4>3, <1>1, FieldsType
      <4>5. run'.pc = p /\ run'.decision = d
          BY <4>3, <1>1 DEF RunType
      <4> QED
          BY <4>1, <4>2, <4>4, <4>5 DEF Placed
    <3>3. \A b \in {request.verb = "update" /\ ~request.dryRun /\ ~unique} : b \in BOOLEAN
        OBVIOUS
    <3> QED
        BY <2>5, <3>1, <3>2, <3>3 DEF ReadSchema
  <2>6. CASE Phrase
    <3>1. CASE Go("caught") \/ CloseThen("caught")
        BY <3>1, <1>1, GoType, CloseThenType DEF Places
    <3>2. ASSUME NEW answer \in {"allowed", "declined"},
                 run' = [run EXCEPT !.pc = "record", !.decision = answer]
          PROVE  run' \in RunType /\ Placed'
      <4>1. run' \in RunType
          BY <3>2, <1>1, FieldsType DEF Places, Decisions
      <4> QED
          BY <3>2, <4>1, <1>1 DEF RunType, Placed
    <3> QED
        BY <2>6, <3>1, <3>2 DEF Phrase
  <2>7. CASE Executor \/ Confirm
    <3>1. CASE CloseThen("caught")
        BY <3>1, <1>1, CloseThenType
    <3>2. ASSUME NEW r \in {"error", "dry_run", "cancelled"},
                 run' = [run EXCEPT !.pc = "row", !.result = r]
          PROVE  run' \in RunType /\ Placed'
      <4>1. run' \in RunType
          BY <3>2, <1>1, FieldsType DEF Places
      <4> QED
          BY <3>2, <4>1, <1>1 DEF RunType, Placed
    <3>3. CASE run' = [run EXCEPT !.pc = "record", !.decision = "declined"]
      <4>1. run' \in RunType
          BY <3>3, <1>1, FieldsType DEF Places, Decisions
      <4> QED
          BY <3>3, <4>1, <1>1 DEF RunType, Placed
    <3>4. CASE Go("execute") \/ Go("confirm") \/ Go("preflight") \/ Go("connect") \/ Go("caught")
        BY <3>4, <1>1, GoType DEF Places
    <3>5. CASE Executor
        BY <3>5, <3>1, <3>2, <3>4 DEF Executor
    <3>6. CASE Confirm
        BY <3>6, <3>2, <3>3, <3>4 DEF Confirm
    <3> QED
        BY <2>7, <3>5, <3>6
  <2>8. CASE Execute
    <3>1. PICK effect \in BOOLEAN, answered \in BOOLEAN :
            run' = [run EXCEPT
              !.effects = IF effect THEN @ + 1 ELSE @,
              !.wide = effect /\ (IF request.verb = "update" THEN ~unique
                                  ELSE request.verb = "query" /\ request.tier = "two"),
              !.result = IF answered THEN "success" ELSE "error",
              !.pc = IF request.verb \in Structured THEN "row"
                     ELSE IF answered /\ request.verb = "document" THEN "row"
                     ELSE "disconnect",
              !.after = IF answered THEN "row" ELSE Thrown]
        BY <2>8 DEF Execute
    <3> DEFINE n == IF effect THEN run.effects + 1 ELSE run.effects
               w == effect /\ (IF request.verb = "update" THEN ~unique
                               ELSE request.verb = "query" /\ request.tier = "two")
               r == IF answered THEN "success" ELSE "error"
               p == IF request.verb \in Structured THEN "row"
                    ELSE IF answered /\ request.verb = "document" THEN "row"
                    ELSE "disconnect"
               a == IF answered THEN "row" ELSE Thrown
    <3>2. /\ n \in Nat /\ w \in BOOLEAN /\ r \in {"success", "error"}
          /\ p \in {"row", "disconnect"} /\ a \in {"row", "failed", "caught"}
        BY <1>1 DEF RunType, Thrown
    <3>3. run' = [run EXCEPT !.effects = n, !.wide = w, !.result = r, !.pc = p, !.after = a]
        BY <3>1
    <3>4. "row" \in Places /\ "disconnect" \in Places
        BY DEF Places
    <3> HIDE DEF n, w, r, p, a
    <3> QED
        BY <3>2, <3>3, <3>4, <1>1 DEF RunType, Placed
  <2>9. CASE Present
      BY <2>9, <1>1, GoType, EndType DEF Present, Places
  <2>10. CASE Disconnect
    <3>1. run.after \in {"end", "refused", "row", "failed", "caught"}
        BY <2>10, <1>1 DEF Disconnect, At, Placed, RunType
    <3>2. CASE End("ok") \/ End("error")
        BY <3>2, <1>1, EndType
    <3>3. CASE Go("failed") \/ Go("caught")
        BY <3>3, <1>1, GoType DEF Places
    <3>4. CASE Go("row") /\ run.after = "row"
      <4>1. run' \in RunType
          BY <3>4, <1>1, GoType DEF Places
      <4>2. run.result # "none"
          BY <2>10, <3>4, <1>1 DEF Disconnect, At, Placed
      <4> QED
          BY <3>4, <4>1, <4>2, <1>1 DEF Placed, Go, RunType
    <3> QED
        BY <2>10, <3>1, <3>2, <3>3, <3>4 DEF Disconnect
  <2>11. CASE Emit
    <3>1. run' = [run EXCEPT !.pc = "ended", !.envelope = TRUE, !.exit = "error"]
        BY <2>11 DEF Emit
    <3>2. run' \in RunType
        BY <3>1, <1>1, FieldsType DEF Places
    <3> QED
        BY <3>1, <3>2, <1>1 DEF RunType, Placed
  <2> QED
      BY <2>1, <2>2, <2>3, <2>4, <2>5, <2>6, <2>7, <2>8, <2>9, <2>10, <2>11 DEF Command
<1> QED
    BY <1>1, <1>2, <1>3 DEF Typed, TypeOK, RunType, RowType, MigrationType

LEMMA OperationType == \A op \in Operations : op.statements \in Nat
<1>1. \A op \in [kind : {"alterColumn"}, statements : 0 .. MaxStatements] :
        op.statements \in Nat
    BY ConstantsAreNat
<1>2. \A op \in [kind : {"dropIndex"}, statements : {1}] : op.statements \in Nat
    OBVIOUS
<1> QED
    BY <1>1, <1>2 DEF Operations

\* The run of migrate goes on, or is ended with a code.
LEMMA MigrationGoes ==
    ASSUME migration \in MigrationType,
           NEW p \in {"start", "confirm", "statement", "ended"}, NEW n \in Nat,
           NEW code \in {"no", "ok", "error", "cancelled"}
    PROVE  [migration EXCEPT !.pc = p, !.applied = n, !.exit = code] \in MigrationType
  BY DEF MigrationType

\* What a statement of the operation leaves.
LEMMA StatementStep ==
    ASSUME migration \in MigrationType, unique \in BOOLEAN, MigrateStatement
    PROVE  \E effect, answered \in BOOLEAN :
             LET n == IF effect THEN migration.applied + 1 ELSE migration.applied
                 on == answered /\ migration.applied + 1 < migration.op.statements
                 code == IF ~answered THEN "error"
                         ELSE IF migration.applied + 1 = migration.op.statements THEN "ok"
                         ELSE migration.exit
             IN /\ answered => effect
                /\ unique' = (unique /\ ~(effect /\ migration.op.kind = "dropIndex"))
                /\ migration' = [migration EXCEPT !.pc = IF on THEN "statement" ELSE "ended",
                                                  !.applied = n, !.exit = code]
<1>1. migration.pc = "statement"
    BY DEF MigrateStatement
<1>2. PICK effect \in BOOLEAN, answered \in BOOLEAN :
        /\ answered => effect
        /\ unique' = (unique /\ ~(effect /\ migration.op.kind = "dropIndex"))
        /\ migration' = [migration EXCEPT
             !.applied = IF effect THEN @ + 1 ELSE @,
             !.pc = IF answered /\ migration.applied + 1 < migration.op.statements
                      THEN @ ELSE "ended",
             !.exit = IF ~answered THEN "error"
                      ELSE IF migration.applied + 1 = migration.op.statements THEN "ok"
                      ELSE @]
    BY DEF MigrateStatement
<1>3. migration' = [migration EXCEPT
             !.pc = IF answered /\ migration.applied + 1 < migration.op.statements
                      THEN "statement" ELSE "ended",
             !.applied = IF effect THEN migration.applied + 1 ELSE migration.applied,
             !.exit = IF ~answered THEN "error"
                      ELSE IF migration.applied + 1 = migration.op.statements THEN "ok"
                      ELSE migration.exit]
    BY <1>1, <1>2 DEF MigrationType
<1> QED
    BY <1>2, <1>3

LEMMA MigrateType ==
    ASSUME Typed, Migrate
    PROVE  Typed'
<1>1. /\ request \in Requests /\ run \in RunType /\ rows \in Seq(RowType) /\ unique \in BOOLEAN
      /\ migration \in MigrationType /\ missed \in 0 .. MaxMissed /\ Placed
    BY TypeParts DEF Typed
<1>2. UNCHANGED <<request, run, rows, missed>>
    BY DEF Migrate, MigrateBegin, MigrateConfirm, MigrateStatement, Others
<1>3. migration' \in MigrationType /\ unique' \in BOOLEAN
  <2>1. CASE MigrateBegin
      BY <2>1, <1>1 DEF MigrateBegin, MigrationType
  <2>2. CASE MigrateConfirm
      BY <2>2, <1>1 DEF MigrateConfirm, MigrationType
  <2>3. CASE MigrateStatement
    <3>1. PICK effect \in BOOLEAN, answered \in BOOLEAN :
            LET n == IF effect THEN migration.applied + 1 ELSE migration.applied
                on == answered /\ migration.applied + 1 < migration.op.statements
                code == IF ~answered THEN "error"
                        ELSE IF migration.applied + 1 = migration.op.statements THEN "ok"
                        ELSE migration.exit
            IN /\ unique' = (unique /\ ~(effect /\ migration.op.kind = "dropIndex"))
               /\ migration' = [migration EXCEPT !.pc = IF on THEN "statement" ELSE "ended",
                                                 !.applied = n, !.exit = code]
        BY <2>3, <1>1, StatementStep
    <3> DEFINE n == IF effect THEN migration.applied + 1 ELSE migration.applied
               p == IF answered /\ migration.applied + 1 < migration.op.statements
                      THEN "statement" ELSE "ended"
               code == IF ~answered THEN "error"
                       ELSE IF migration.applied + 1 = migration.op.statements THEN "ok"
                       ELSE migration.exit
    <3>2. /\ n \in Nat /\ p \in {"statement", "ended"}
          /\ code \in {"no", "ok", "error", "cancelled"}
        BY <1>1 DEF MigrationType
    <3>3. migration' = [migration EXCEPT !.pc = p, !.applied = n, !.exit = code]
        BY <3>1
    <3> HIDE DEF n, p, code
    <3>4. migration' \in MigrationType
        BY <3>2, <3>3, <1>1, MigrationGoes
    <3> QED
        BY <3>1, <3>4, <1>1
  <2> QED
      BY <2>1, <2>2, <2>3 DEF Migrate
<1> QED
    BY <1>1, <1>2, <1>3 DEF Typed, TypeOK, RunType, RowType, MigrationType, Placed

LEMMA KillType ==
    ASSUME Typed, Kill
    PROVE  Typed'
<1>1. /\ request \in Requests /\ run \in RunType /\ rows \in Seq(RowType) /\ unique \in BOOLEAN
      /\ migration \in MigrationType /\ missed \in 0 .. MaxMissed /\ Placed
    BY TypeParts DEF Typed
<1>2. run' \in RunType /\ Placed' /\ UNCHANGED <<request, unique, migration, rows, missed>>
    BY <1>1, EndType DEF Kill, NoRow, World
<1> QED
    BY <1>1, <1>2 DEF Typed, TypeOK, RunType, RowType, MigrationType

LEMMA TypeStep == Typed /\ [Next]_vars => Typed'
<1> SUFFICES ASSUME Typed, [Next]_vars PROVE Typed'
    OBVIOUS
<1>1. CASE UNCHANGED vars
    BY <1>1 DEF vars, Typed, TypeOK, Placed
<1> QED
    BY <1>1, RowsType, CommandType, MigrateType, KillType DEF Next

\* Every variable keeps its type, in a run of any length.
THEOREM TypeCorrect == Spec => []TypeOK
<1>1. Init => Typed
    BY TypeInit
<1>2. Typed /\ [Next]_vars => Typed'
    BY TypeStep
<1>3. Typed => TypeOK
    BY DEF Typed
<1> QED
    BY <1>1, <1>2, <1>3, PTL DEF Spec

(***************************************************************************)
(* migrate.                                                                *)
(***************************************************************************)

\* The operation is sent only with --execute, and statement by statement; a run that has
\* not ended has reported nothing.
Counted ==
    /\ migration.pc # "ended" => migration.exit = "no"
    /\ migration.pc \in {"start", "confirm"} => migration.applied = 0
    /\ migration.pc \in {"confirm", "statement"} =>
         migration.execute /\ migration.applied < migration.op.statements

\* migrate: what a run reports is what it applied, however many statements the operation
\* stands for and whichever of them fails.
THEOREM MigrationIsWholeHolds == Spec => []MigrationIsWhole
<1> DEFINE Inv == Typed /\ Counted /\ MigrationIsWhole
<1>1. Init => Inv
  <2> SUFFICES ASSUME Init PROVE Inv
      OBVIOUS
  <2>1. /\ migration.pc = "start" /\ migration.applied = 0 /\ migration.exit = "no"
      BY DEF Init
  <2> QED
      BY <2>1, TypeInit DEF Counted, MigrationIsWhole
<1>2. Inv /\ [Next]_vars => Inv'
  <2> SUFFICES ASSUME Inv, [Next]_vars PROVE Inv'
      OBVIOUS
  <2>1. Typed'
      BY TypeStep
  <2>2. migration \in MigrationType /\ migration.op \in Operations
        /\ migration.op.statements \in Nat /\ migration.applied \in Nat /\ unique \in BOOLEAN
      BY OperationType, TypeParts DEF Typed, MigrationType
  <2>3. CASE UNCHANGED migration
    <3>1. Counted' /\ MigrationIsWhole'
        BY <2>3 DEF Counted, MigrationIsWhole
    <3> QED
        BY <2>1, <3>1
  <2>4. CASE MigrateBegin
    <3>1. \/ migration' = [migration EXCEPT !.pc = "ended", !.exit = "error"]
          \/ /\ ~migration.execute \/ migration.op.statements = 0
             /\ migration' = [migration EXCEPT !.pc = "ended", !.exit = "ok"]
          \/ /\ migration.execute /\ migration.op.statements > 0
             /\ \/ migration' = [migration EXCEPT !.pc = "confirm"]
                \/ migration' = [migration EXCEPT !.pc = "statement"]
        BY <2>2, <2>4 DEF MigrateBegin
    <3>2. migration.applied = 0 /\ migration.exit = "no"
        BY <2>4 DEF MigrateBegin, Counted
    <3>3. /\ migration'.op = migration.op /\ migration'.execute = migration.execute
          /\ migration'.applied = 0
          /\ \/ migration'.pc = "ended" /\ migration'.exit = "error"
             \/ /\ migration'.pc = "ended" /\ migration'.exit = "ok"
                /\ ~migration.execute \/ migration.op.statements = 0
             \/ /\ migration'.pc \in {"confirm", "statement"} /\ migration'.exit = "no"
                /\ migration.execute /\ migration.op.statements > 0
        BY <2>2, <3>1, <3>2 DEF MigrationType
    <3>4. Counted' /\ MigrationIsWhole'
        BY <2>2, <3>3 DEF Counted, MigrationIsWhole
    <3> QED
        BY <2>1, <3>4
  <2>5. CASE MigrateConfirm
    <3>1. /\ migration.applied = 0 /\ migration.exit = "no" /\ migration.execute
          /\ migration.applied < migration.op.statements
        BY <2>5 DEF MigrateConfirm, Counted
    <3>2. /\ migration'.op = migration.op /\ migration'.execute = migration.execute
          /\ migration'.applied = migration.applied
          /\ \/ migration'.pc = "statement" /\ migration'.exit = "no"
             \/ migration'.pc = "ended" /\ migration'.exit = "cancelled"
        BY <2>2, <2>5, <3>1 DEF MigrateConfirm, MigrationType
    <3>3. Counted' /\ MigrationIsWhole'
        BY <2>2, <3>1, <3>2 DEF Counted, MigrationIsWhole
    <3> QED
        BY <2>1, <3>3
  <2>6. CASE MigrateStatement
    <3>1. PICK effect \in BOOLEAN, answered \in BOOLEAN :
            LET n == IF effect THEN migration.applied + 1 ELSE migration.applied
                on == answered /\ migration.applied + 1 < migration.op.statements
                code == IF ~answered THEN "error"
                        ELSE IF migration.applied + 1 = migration.op.statements THEN "ok"
                        ELSE migration.exit
            IN /\ answered => effect
               /\ migration' = [migration EXCEPT !.pc = IF on THEN "statement" ELSE "ended",
                                                 !.applied = n, !.exit = code]
        BY <2>2, <2>6, StatementStep
    <3>2. /\ migration.pc = "statement" /\ migration.exit = "no" /\ migration.execute
          /\ migration.applied < migration.op.statements
        BY <2>6 DEF MigrateStatement, Counted
    <3>3. /\ migration'.op = migration.op /\ migration'.execute = migration.execute
          /\ migration'.applied = IF effect THEN migration.applied + 1 ELSE migration.applied
          /\ migration'.pc = IF answered /\ migration.applied + 1 < migration.op.statements
                               THEN "statement" ELSE "ended"
          /\ migration'.exit = IF ~answered THEN "error"
                               ELSE IF migration.applied + 1 = migration.op.statements
                                      THEN "ok" ELSE migration.exit
        BY <2>2, <3>1 DEF MigrationType
    <3>4. Counted' /\ MigrationIsWhole'
        BY <2>2, <3>1, <3>2, <3>3 DEF Counted, MigrationIsWhole
    <3> QED
        BY <2>1, <3>4
  <2>7. Rows \/ Command \/ Kill \/ UNCHANGED vars => UNCHANGED migration
      BY DEF Rows, Command, Kill, vars, World, Plan, Unsupported, Record, Report, Failed,
             Caught, Begin, Admit, Gate, Preflight, Connect, ReadSchema, Phrase, Executor,
             Confirm, Execute, Present, Disconnect, Emit
  <2> QED
      BY <2>1, <2>3, <2>4, <2>5, <2>6, <2>7 DEF Next, Migrate
<1>3. Inv => MigrationIsWhole
    OBVIOUS
<1> QED
    BY <1>1, <1>2, <1>3, PTL DEF Spec

(***************************************************************************)
(* The run of the command.  The invariant says, for each place, what the   *)
(* run has done already and what allows it to go on to the statement.      *)
(***************************************************************************)

Before == {"start", "admit", "plan", "unsupported", "gate", "preflight", "connect", "schema",
           "phrase", "record", "executor", "confirm", "execute"}

\* Which commands come to which place; nothing takes effect twice, or before its time.
Located ==
    /\ run.pc \in {"gate", "preflight", "present", "failed"} => request.verb = "query"
    /\ run.pc = "disconnect" /\ run.after = "failed" => request.verb = "query"
    /\ run.pc \in {"schema", "executor"} => request.verb \in Structured
    /\ run.pc \in {"phrase", "record"} => request.verb \in Structured \cup {"query"}
    /\ run.pc = "phrase" => request.attended
    /\ run.pc = "record" /\ run.decision = "allowed" => request.attended
    /\ run.pc = "confirm" /\ request.verb = "query" => request.tier = "one"
    /\ run.pc \in Before => run.effects = 0
    /\ run.effects \in {0, 1}
    /\ run.wide => run.effects = 1
    /\ run.result = "success" => run.effects = 1
    /\ run.result = "dry_run" => request.dryRun

\* What was asked of the gate on the way to the statement.
Judged ==
    /\ run.pc = "executor" /\ request.verb = "update" =>
         request.dryRun \/ run.seen = "unique" \/ Allowed
    /\ run.pc \in {"confirm", "execute"} /\ request.verb = "update" =>
         run.seen = "unique" \/ Allowed
    /\ run.pc \in {"preflight", "connect", "execute"} /\ request.verb = "query"
         /\ request.tier = "two" => Allowed

\* A statement that took effect without a row is on its way to one, or was killed.
Accounted ==
    /\ run.audited => Accounts # {}
    /\ run.pc \notin {"start", "caught", "emit", "ended"} => run.loaded
    /\ run.effects = 1 => run.loaded
    /\ run.pc = "ended" <=> run.exit # "no"
    /\ run.effects = 1 /\ Accounts = {} =>
         \/ run.pc \in {"row", "failed", "caught"}
         \/ run.pc = "disconnect" /\ run.after \in {"row", "failed", "caught"}
         \/ run.pc = "ended" /\ run.exit = "killed"

Careful == Typed /\ Located /\ Judged /\ WideIsConfirmed /\ Accounted /\ SuccessRowIsTrue

LEMMA GoFields ==
    ASSUME run \in RunType, NEW p, Go(p)
    PROVE  /\ run'.pc = p /\ run'.after = run.after /\ run'.loaded = run.loaded
           /\ run'.audited = run.audited /\ run'.seen = run.seen
           /\ run'.decision = run.decision /\ run'.result = run.result
           /\ run'.effects = run.effects /\ run'.wide = run.wide /\ run'.exit = run.exit
  BY DEF RunType, Go

LEMMA CloseThenFields ==
    ASSUME run \in RunType, NEW p, CloseThen(p)
    PROVE  /\ run'.pc = "disconnect" /\ run'.after = p /\ run'.loaded = run.loaded
           /\ run'.audited = run.audited /\ run'.seen = run.seen
           /\ run'.decision = run.decision /\ run'.result = run.result
           /\ run'.effects = run.effects /\ run'.wide = run.wide /\ run'.exit = run.exit
  BY DEF RunType, CloseThen

LEMMA EndFields ==
    ASSUME run \in RunType, NEW code, End(code)
    PROVE  /\ run'.pc = "ended" /\ run'.after = run.after /\ run'.loaded = run.loaded
           /\ run'.audited = run.audited /\ run'.seen = run.seen
           /\ run'.decision = run.decision /\ run'.result = run.result
           /\ run'.effects = run.effects /\ run'.wide = run.wide /\ run'.exit = code
  BY DEF RunType, End

\* No row: what the rows say of the run stays true while nothing is undone.
LEMMA NoRowKeeps ==
    ASSUME rows' = rows, request' = request, SuccessRowIsTrue,
           run.effects = 1 => run'.effects = 1
    PROVE  /\ OnRecord' <=> OnRecord
           /\ Accounts' = Accounts
           /\ SuccessRowIsTrue'
  BY DEF OnRecord, Accounts, SuccessRowIsTrue

\* A row: an honest one keeps the rows true.
LEMMA RowKeeps ==
    ASSUME Typed, request' = request, SuccessRowIsTrue, run'.effects = run.effects,
           NEW outcome \in Outcomes, NEW written \in BOOLEAN, Row(outcome, written),
           outcome = "success" => run.effects = 1,
           outcome = "dry_run" => request.dryRun
    PROVE  /\ OnRecord => OnRecord'
           /\ outcome = "allowed" /\ written => OnRecord'
           /\ Accounts # {} => Accounts' # {}
           /\ outcome \notin Decisions => Accounts' # {}
           /\ SuccessRowIsTrue'
<1>1. /\ Len(rows) \in Nat
      /\ DOMAIN rows = 1 .. Len(rows) /\ DOMAIN rows' = 1 .. Len(rows) + 1
      /\ \A i \in DOMAIN rows : rows'[i] = rows[i]
      /\ rows'[Len(rows) + 1] = [outcome |-> outcome, success |-> Succeeded(outcome),
                                 written |-> written]
    BY RowAppends, TypeParts DEF Typed
<1> DEFINE last == Len(rows) + 1
<1>2. /\ last \in DOMAIN rows' /\ rows'[last].outcome = outcome
      /\ rows'[last].success = Succeeded(outcome) /\ rows'[last].written = written
    BY <1>1
<1>3. \A i \in DOMAIN rows' : i = last \/ i \in DOMAIN rows
    BY <1>1
<1>4. \A i \in DOMAIN rows : i \in DOMAIN rows' /\ rows'[i] = rows[i]
    BY <1>1
<1> HIDE DEF last
<1>5. (OnRecord => OnRecord') /\ (outcome = "allowed" /\ written => OnRecord')
    BY <1>2, <1>4 DEF OnRecord
<1>6. (Accounts # {} => Accounts' # {}) /\ (outcome \notin Decisions => Accounts' # {})
    BY <1>2, <1>4 DEF Accounts
<1>7. ASSUME NEW i \in DOMAIN rows', rows'[i].success
      PROVE  run'.effects = 1 \/ rows'[i].outcome \in {"plan", "allowed"} \/ request'.dryRun
  <2>1. CASE i \in DOMAIN rows
      BY <2>1, <1>4, <1>7 DEF SuccessRowIsTrue
  <2>2. CASE i = last
    <3>1. outcome \in {"success", "dry_run", "plan", "allowed"}
        BY <2>2, <1>2, <1>7 DEF Succeeded
    <3> QED
        BY <2>2, <3>1, <1>2
  <2> QED
      BY <1>3, <2>1, <2>2
<1>8. SuccessRowIsTrue'
    BY <1>7 DEF SuccessRowIsTrue
<1> QED
    BY <1>5, <1>6, <1>8

LEMMA CarefulInit == Init => Careful
<1> SUFFICES ASSUME Init PROVE Careful
    OBVIOUS
<1>1. /\ run.pc = "start" /\ run.effects = 0 /\ run.wide = FALSE /\ run.exit = "no"
      /\ run.audited = FALSE /\ run.result = "none" /\ rows = <<>>
    BY DEF Init
<1>2. Located /\ Judged /\ WideIsConfirmed
    BY <1>1 DEF Located, Judged, WideIsConfirmed
<1>3. Accounted
    BY <1>1 DEF Accounted
<1>4. SuccessRowIsTrue
    BY <1>1 DEF SuccessRowIsTrue
<1> QED
    BY <1>2, <1>3, <1>4, TypeInit DEF Careful

\* The steps that ask for a row.
LEMMA RowsCareful ==
    ASSUME Careful, Rows
    PROVE  Careful'
<1>1. PICK written \in BOOLEAN :
        \/ Plan(written) \/ Unsupported(written) \/ Record(written)
        \/ Report(written) \/ Failed(written) \/ Caught(written)
    BY DEF Rows
<1>2. Typed /\ run \in RunType /\ request \in Requests /\ Placed /\ SuccessRowIsTrue
    BY TypeParts DEF Careful, Typed
<1>3. request' = request /\ unique' = unique
    BY <1>1 DEF Plan, Unsupported, Record, Report, Failed, Caught, World
<1>4. Typed'
    BY <1>2, RowsType
<1>5. {"plan", "error"} \cup Decisions \subseteq Outcomes
    BY DEF Outcomes
<1>6. ASSUME NoRow, run'.effects = run.effects
      PROVE  (OnRecord' <=> OnRecord) /\ Accounts' = Accounts /\ SuccessRowIsTrue'
    BY <1>2, <1>3, <1>6, NoRowKeeps DEF NoRow
<1>7. CASE Plan(written) \/ Unsupported(written)
  <2>1. \/ Go("caught") /\ NoRow
        \/ End("ok") /\ Row("plan", written)
        \/ End("error") /\ Row("error", written)
      BY <1>7 DEF Plan, Unsupported
  <2>2. /\ run'.pc \in {"caught", "ended"} /\ run'.loaded = run.loaded
        /\ run'.audited = run.audited /\ run'.seen = run.seen /\ run'.decision = run.decision
        /\ run'.result = run.result /\ run'.effects = run.effects /\ run'.wide = run.wide
        /\ run'.pc = "ended" => run'.exit # "no"
        /\ run'.pc = "caught" => run'.exit = run.exit
      BY <2>1, <1>2, GoFields, EndFields
  <2>3. run.effects = 0 /\ run.pc # "ended" /\ run.wide = FALSE
      BY <1>2, <1>7 DEF Plan, Unsupported, At, Before, Careful, Located, RunType
  <2>4. SuccessRowIsTrue' /\ (Accounts # {} => Accounts' # {})
    <3>1. CASE NoRow
        BY <3>1, <2>2, <1>6
    <3>2. CASE Row("plan", written)
        BY <3>2, <2>2, <1>2, <1>3, <1>5, RowKeeps
    <3>3. CASE Row("error", written)
        BY <3>3, <2>2, <1>2, <1>3, <1>5, RowKeeps
    <3> QED
        BY <2>1, <3>1, <3>2, <3>3
  <2>5. Located' /\ Judged' /\ WideIsConfirmed'
      BY <2>2, <2>3, <1>3 DEF Careful, Located, Judged, WideIsConfirmed, Before
  <2>6. Accounted'
      BY <2>2, <2>3, <2>4 DEF Careful, Accounted
  <2> QED
      BY <1>4, <2>4, <2>5, <2>6 DEF Careful
<1>8. CASE Record(written)
  <2>1. /\ run.pc = "record" /\ run.decision \in Decisions /\ Row(run.decision, written)
        /\ run.effects = 0 /\ run.wide = FALSE /\ run.loaded /\ run.exit = "no"
        /\ request.verb \in Structured \cup {"query"}
        /\ run.decision = "allowed" => request.attended
    <3>1. run.pc = "record" /\ Row(run.decision, written)
        BY <1>8 DEF Record, At
    <3>2. run.decision \in Decisions
        BY <3>1, <1>2 DEF Placed, RunType
    <3>3. run.exit = "no"
        BY <3>1 DEF Careful, Accounted
    <3> QED
        BY <3>1, <3>2, <3>3, <1>2 DEF Careful, Located, Before, Accounted, RunType
  <2>2. ASSUME run'.effects = run.effects
        PROVE  /\ OnRecord => OnRecord'
               /\ run.decision = "allowed" /\ written => OnRecord'
               /\ Accounts # {} => Accounts' # {}
               /\ SuccessRowIsTrue'
      BY <2>1, <2>2, <1>2, <1>3, <1>5, RowKeeps DEF Decisions
  <2>3. CASE Go("caught") \/ CloseThen("caught") \/ CloseThen("refused") \/ End("ok") \/ End("error")
    <3>1. /\ run'.pc \in {"caught", "disconnect", "ended"}
          /\ run'.pc = "disconnect" => run'.after \in {"caught", "refused"}
          /\ run'.loaded = run.loaded /\ run'.audited = run.audited /\ run'.result = run.result
          /\ run'.effects = run.effects /\ run'.wide = run.wide
          /\ run'.pc = "ended" <=> run'.exit # "no"
      <4>1. run \in RunType /\ run.exit = "no"
          BY <2>1, <1>2
      <4>2. CASE Go("caught")
          BY <4>1, <4>2, GoFields
      <4>3. CASE CloseThen("caught")
          BY <4>1, <4>3, CloseThenFields
      <4>4. CASE CloseThen("refused")
          BY <4>1, <4>4, CloseThenFields
      <4>5. CASE End("ok") \/ End("error")
          BY <4>1, <4>5, EndFields
      <4> QED
          BY <2>3, <4>2, <4>3, <4>4, <4>5
    <3>2. Located' /\ Judged' /\ WideIsConfirmed'
        BY <3>1, <2>1, <1>3 DEF Careful, Located, Judged, WideIsConfirmed, Before
    <3>3. Accounted'
        BY <3>1, <2>1, <2>2 DEF Careful, Accounted
    <3> QED
        BY <1>4, <2>2, <3>1, <3>2, <3>3 DEF Careful
  <2>4. CASE run' = [run EXCEPT !.pc = "row", !.result = "cancelled"]
    <3>1. /\ run'.pc = "row" /\ run'.loaded = run.loaded /\ run'.audited = run.audited
          /\ run'.result = "cancelled" /\ run'.exit = run.exit
          /\ run'.effects = run.effects /\ run'.wide = run.wide
        BY <2>4, <1>2 DEF RunType
    <3>2. Located' /\ Judged' /\ WideIsConfirmed'
        BY <3>1, <2>1, <1>3 DEF Careful, Located, Judged, WideIsConfirmed, Before
    <3>3. Accounted'
        BY <3>1, <2>1, <2>2 DEF Careful, Accounted
    <3> QED
        BY <1>4, <2>2, <3>1, <3>2, <3>3 DEF Careful
  <2>5. CASE /\ run.decision = "allowed" /\ (request.strict => written)
             /\ Go(IF request.verb = "query" THEN "preflight" ELSE "executor")
    <3>1. /\ run'.pc = IF request.verb = "query" THEN "preflight" ELSE "executor"
          /\ run'.loaded = run.loaded /\ run'.audited = run.audited
          /\ run'.decision = "allowed" /\ run'.result = run.result /\ run'.exit = run.exit
          /\ run'.effects = run.effects /\ run'.wide = run.wide
        BY <2>5, <1>2, GoFields
    <3>2. Allowed'
        BY <3>1, <2>1, <2>2, <2>5, <1>3 DEF Allowed
    <3>3. Located' /\ Judged' /\ WideIsConfirmed'
        BY <3>1, <3>2, <2>1, <1>3 DEF Careful, Located, Judged, WideIsConfirmed, Before
    <3>4. Accounted'
        BY <3>1, <2>1, <2>2 DEF Careful, Accounted
    <3> QED
        BY <1>4, <2>2, <3>1, <3>3, <3>4 DEF Careful
  <2> QED
      BY <1>8, <2>1, <2>3, <2>4, <2>5 DEF Record, Decided, Decisions
<1>9. CASE Report(written)
  <2>1. run.pc = "row" /\ run.result \in {"success", "dry_run", "cancelled", "error"}
        /\ Row(run.result, written) /\ run.loaded
        /\ run.result \in Outcomes /\ run.result \notin Decisions
    <3>1. run.pc = "row" /\ Row(run.result, written)
        BY <1>9 DEF Report, At
    <3>2. run.result \in {"success", "dry_run", "cancelled", "error"}
        BY <3>1, <1>2 DEF Placed, RunType
    <3> QED
        BY <3>1, <3>2 DEF Careful, Accounted, Outcomes, Decisions
  <2>2. \/ Go("emit") \/ End("error") \/ End("ok") \/ CloseThen("end")
        \/ Go("present") /\ request.verb = "query"
      BY <1>9 DEF Report
  <2>3. /\ run'.pc \in {"emit", "ended", "present", "disconnect"}
        /\ run'.pc = "present" => request.verb = "query"
        /\ run'.pc = "disconnect" => run'.after = "end"
        /\ run'.loaded = run.loaded /\ run'.audited = run.audited
        /\ run'.decision = run.decision /\ run'.seen = run.seen /\ run'.result = run.result
        /\ run'.effects = run.effects /\ run'.wide = run.wide
        /\ run'.pc = "ended" <=> run'.exit # "no"
    <3>1. run.exit = "no"
        BY <2>1 DEF Careful, Accounted
    <3> QED
        BY <2>2, <3>1, <1>2, GoFields, CloseThenFields, EndFields
  <2>4. (OnRecord => OnRecord') /\ Accounts' # {} /\ SuccessRowIsTrue'
      BY <2>1, <2>3, <1>2, <1>3, RowKeeps DEF Careful, Located
  <2>5. Located' /\ Judged' /\ WideIsConfirmed'
    <3>1. Located' /\ Judged'
        BY <2>3, <2>1, <1>3 DEF Careful, Located, Judged, Before
    <3>2. WideIsConfirmed'
        BY <2>3, <2>4, <1>3 DEF Careful, WideIsConfirmed, Allowed
    <3> QED
        BY <3>1, <3>2
  <2>6. Accounted'
      BY <2>1, <2>3, <2>4 DEF Careful, Accounted
  <2> QED
      BY <1>4, <2>4, <2>5, <2>6 DEF Careful
<1>10. CASE Failed(written)
  <2>1. /\ run.pc = "failed" /\ run.loaded
        /\ run' = [run EXCEPT !.pc = "caught", !.audited = ~request.recovery]
        /\ IF request.recovery THEN NoRow ELSE Row("error", written)
      BY <1>10 DEF Failed, At, Careful, Accounted
  <2>2. /\ run'.pc = "caught" /\ run'.loaded = run.loaded /\ run'.audited = ~request.recovery
        /\ run'.decision = run.decision /\ run'.seen = run.seen /\ run'.result = run.result
        /\ run'.effects = run.effects /\ run'.wide = run.wide /\ run'.exit = run.exit
        /\ request.recovery \in BOOLEAN
      BY <2>1, <1>2 DEF RunType, Requests
  <2>3. /\ OnRecord => OnRecord'
        /\ ~request.recovery => Accounts' # {}
        /\ SuccessRowIsTrue'
    <3>1. CASE request.recovery
        BY <3>1, <2>1, <2>2, <1>6
    <3>2. CASE ~request.recovery
        BY <3>2, <2>1, <2>2, <1>2, <1>3, <1>5, RowKeeps DEF Decisions
    <3> QED
        BY <2>2, <3>1, <3>2
  <2>4. Located' /\ Judged'
      BY <2>1, <2>2, <1>3 DEF Careful, Located, Judged, Before
  <2>5. WideIsConfirmed'
      BY <2>2, <2>3, <1>3 DEF Careful, WideIsConfirmed, Allowed
  <2>6. Accounted'
      BY <2>1, <2>2, <2>3 DEF Careful, Accounted
  <2> QED
      BY <1>4, <2>3, <2>4, <2>5, <2>6 DEF Careful
<1>11. CASE Caught(written)
  <2>1. /\ run.pc = "caught"
        /\ Go("emit") \/ End("error")
        /\ IF run.loaded /\ ~run.audited THEN Row("error", written) ELSE NoRow
      BY <1>11 DEF Caught, At
  <2>2. /\ run'.pc \in {"emit", "ended"}
        /\ run'.loaded = run.loaded /\ run'.audited = run.audited
        /\ run'.decision = run.decision /\ run'.seen = run.seen /\ run'.result = run.result
        /\ run'.effects = run.effects /\ run'.wide = run.wide
        /\ run'.pc = "ended" <=> run'.exit # "no"
    <3>1. run.exit = "no"
        BY <2>1 DEF Careful, Accounted
    <3> QED
        BY <2>1, <3>1, <1>2, GoFields, EndFields
  <2>3. /\ OnRecord => OnRecord'
        /\ Accounts # {} => Accounts' # {}
        /\ run.loaded /\ ~run.audited => Accounts' # {}
        /\ SuccessRowIsTrue'
    <3>1. CASE run.loaded /\ ~run.audited
        BY <3>1, <2>1, <2>2, <1>2, <1>3, <1>5, RowKeeps DEF Decisions
    <3>2. CASE ~(run.loaded /\ ~run.audited)
        BY <3>2, <2>1, <2>2, <1>6
    <3> QED
        BY <3>1, <3>2
  <2>4. Located' /\ Judged'
      BY <2>1, <2>2, <1>3 DEF Careful, Located, Judged, Before
  <2>5. WideIsConfirmed'
      BY <2>2, <2>3, <1>3 DEF Careful, WideIsConfirmed, Allowed
  <2>6. run.effects = 1 => Accounts' # {}
      BY <2>3 DEF Careful, Accounted
  <2>7. Accounted'
      BY <2>1, <2>2, <2>3, <2>6 DEF Careful, Accounted
  <2> QED
      BY <1>4, <2>3, <2>4, <2>5, <2>7 DEF Careful
<1> QED
    BY <1>1, <1>7, <1>8, <1>9, <1>10, <1>11

\* The run goes nowhere near the statement: to a handler, to the end, or to a row.
LEMMA LeavesCareful ==
    ASSUME Careful, Typed', rows' = rows, request' = request, unique' = unique,
           run.effects = 0, run'.effects = 0, run.wide = FALSE, run'.wide = FALSE,
           run'.pc \in {"caught", "failed", "ended", "disconnect", "row"},
           run'.pc = "disconnect" => run'.after = "caught",
           run'.pc = "failed" => request.verb = "query",
           run'.pc \notin {"caught", "ended"} => run'.loaded,
           run'.audited => run.audited,
           run'.pc = "ended" <=> run'.exit # "no",
           run'.result # "success",
           run'.result = "dry_run" => request.dryRun
    PROVE  Careful'
<1>1. (OnRecord' <=> OnRecord) /\ Accounts' = Accounts /\ SuccessRowIsTrue'
    BY NoRowKeeps DEF Careful
<1>2. Located' /\ Judged' /\ WideIsConfirmed'
    BY DEF Located, Judged, WideIsConfirmed, Before
<1>3. Accounted'
    BY <1>1 DEF Careful, Accounted
<1> QED
    BY <1>1, <1>2, <1>3 DEF Careful

\* The run goes on to another place, with nothing sent yet and nothing else changed.
LEMMA GoesCareful ==
    ASSUME Careful, Typed', rows' = rows, request' = request, unique' = unique,
           NEW p \in Places, Go(p), run.effects = 0, run.wide = FALSE, run.loaded,
           run.exit = "no", p \notin {"ended", "disconnect"},
           p \in {"gate", "preflight", "present", "failed"} => request.verb = "query",
           p \in {"schema", "executor"} => request.verb \in Structured,
           p \in {"phrase", "record"} => request.verb \in Structured \cup {"query"},
           p = "phrase" => request.attended,
           p = "confirm" /\ request.verb = "query" => request.tier = "one",
           p # "record",
           p = "executor" /\ request.verb = "update" =>
             request.dryRun \/ run.seen = "unique" \/ Allowed,
           p \in {"confirm", "execute"} /\ request.verb = "update" =>
             run.seen = "unique" \/ Allowed,
           p \in {"preflight", "connect", "execute"} /\ request.verb = "query"
             /\ request.tier = "two" => Allowed
    PROVE  Careful'
<1>1. run \in RunType
    BY TypeParts DEF Careful, Typed
<1>2. /\ run'.pc = p /\ run'.after = run.after /\ run'.loaded = run.loaded
      /\ run'.audited = run.audited /\ run'.seen = run.seen
      /\ run'.decision = run.decision /\ run'.result = run.result
      /\ run'.effects = run.effects /\ run'.wide = run.wide /\ run'.exit = run.exit
    BY <1>1, GoFields
<1>3. (OnRecord' <=> OnRecord) /\ Accounts' = Accounts /\ SuccessRowIsTrue'
    BY <1>2, NoRowKeeps DEF Careful
<1>4. Allowed' <=> Allowed
    BY <1>2, <1>3 DEF Allowed
<1>5. Located' /\ WideIsConfirmed'
    BY <1>2 DEF Careful, Located, WideIsConfirmed, Before
<1>6. Judged'
    BY <1>2, <1>4 DEF Judged
<1>7. Accounted'
    BY <1>2, <1>3 DEF Careful, Accounted
<1> QED
    BY <1>3, <1>5, <1>6, <1>7 DEF Careful

\* What holds at every place before the statement is done.
LEMMA BeforeFacts ==
    ASSUME Careful, run.pc \in Before
    PROVE  /\ run \in RunType /\ request \in Requests
           /\ run.effects = 0 /\ run.wide = FALSE /\ run.exit = "no"
           /\ run.result # "success"
           /\ run.result = "dry_run" => request.dryRun
           /\ run.pc # "start" => run.loaded
<1>1. run \in RunType /\ request \in Requests
    BY TypeParts DEF Careful, Typed
<1>2. run.effects = 0 /\ (run.wide => run.effects = 1)
    BY DEF Careful, Located
<1>3. run.wide \in BOOLEAN
    BY <1>1 DEF RunType
<1>4. run.exit = "no"
    BY DEF Careful, Accounted, Before
<1>5. run.pc # "start" => run.loaded
    BY DEF Careful, Accounted, Before
<1> QED
    BY <1>1, <1>2, <1>3, <1>4, <1>5 DEF Careful, Located

\* An exception, or Ctrl-C, before the statement.
LEMMA ThrowsCareful ==
    ASSUME Careful, Typed', rows' = rows, request' = request, unique' = unique,
           run.pc \in Before,
           Go("caught") \/ (CloseThen("caught") /\ run.loaded)
             \/ (Go("failed") /\ request.verb = "query" /\ run.loaded)
    PROVE  Careful'
<1>1. run \in RunType /\ run.effects = 0 /\ run.wide = FALSE /\ run.exit = "no"
      /\ run.result # "success" /\ (run.result = "dry_run" => request.dryRun)
    BY BeforeFacts
<1>2. CASE Go("caught")
  <2>1. /\ run'.pc = "caught" /\ run'.audited = run.audited /\ run'.result = run.result
        /\ run'.effects = run.effects /\ run'.wide = run.wide /\ run'.exit = run.exit
      BY <1>1, <1>2, GoFields
  <2> QED
      BY <1>1, <2>1, LeavesCareful
<1>3. CASE CloseThen("caught") /\ run.loaded
  <2>1. /\ run'.pc = "disconnect" /\ run'.after = "caught" /\ run'.loaded = run.loaded
        /\ run'.audited = run.audited /\ run'.result = run.result
        /\ run'.effects = run.effects /\ run'.wide = run.wide /\ run'.exit = run.exit
      BY <1>1, <1>3, CloseThenFields
  <2> QED
      BY <1>1, <1>3, <2>1, LeavesCareful
<1>4. CASE Go("failed") /\ request.verb = "query" /\ run.loaded
  <2>1. /\ run'.pc = "failed" /\ run'.loaded = run.loaded
        /\ run'.audited = run.audited /\ run'.result = run.result
        /\ run'.effects = run.effects /\ run'.wide = run.wide /\ run'.exit = run.exit
      BY <1>1, <1>4, GoFields
  <2> QED
      BY <1>1, <1>4, <2>1, LeavesCareful
<1> QED
    BY <1>2, <1>3, <1>4

\* A result that is no success, on the way to its row.
LEMMA ResultCareful ==
    ASSUME Careful, Typed', rows' = rows, request' = request, unique' = unique,
           run.pc \in Before, run.pc # "start",
           NEW result \in {"error", "cancelled", "dry_run"},
           result = "dry_run" => request.dryRun,
           run' = [run EXCEPT !.pc = "row", !.result = result]
    PROVE  Careful'
<1>1. run \in RunType /\ run.effects = 0 /\ run.wide = FALSE /\ run.exit = "no" /\ run.loaded
    BY BeforeFacts
<1>2. /\ run'.pc = "row" /\ run'.result = result /\ run'.loaded = run.loaded
      /\ run'.audited = run.audited /\ run'.effects = run.effects /\ run'.wide = run.wide
      /\ run'.exit = run.exit
    BY <1>1 DEF RunType
<1> QED
    BY <1>1, <1>2, LeavesCareful

\* A decision of the gate, on the way to its row.
LEMMA DecisionCareful ==
    ASSUME Careful, Typed', rows' = rows, request' = request, unique' = unique,
           run.pc \in Before, run.pc # "start",
           request.verb \in Structured \cup {"query"},
           NEW decision \in Decisions, decision = "allowed" => request.attended,
           NEW seen,
           run' = [run EXCEPT !.seen = seen, !.pc = "record", !.decision = decision]
    PROVE  Careful'
<1>1. run \in RunType /\ run.effects = 0 /\ run.wide = FALSE /\ run.exit = "no" /\ run.loaded
      /\ run.result # "success" /\ (run.result = "dry_run" => request.dryRun)
    BY BeforeFacts
<1>2. /\ run'.pc = "record" /\ run'.result = run.result /\ run'.loaded = run.loaded
      /\ run'.audited = run.audited /\ run'.effects = run.effects /\ run'.wide = run.wide
      /\ run'.exit = run.exit /\ run'.decision = decision
    BY <1>1 DEF RunType
<1>3. (OnRecord' <=> OnRecord) /\ Accounts' = Accounts /\ SuccessRowIsTrue'
    BY <1>1, <1>2, NoRowKeeps DEF Careful
<1>4. Located' /\ Judged' /\ WideIsConfirmed'
    BY <1>1, <1>2 DEF Located, Judged, WideIsConfirmed, Before
<1>5. Accounted'
    BY <1>1, <1>2, <1>3 DEF Careful, Accounted
<1> QED
    BY <1>3, <1>4, <1>5 DEF Careful

\* The schema is read: what the WHERE matches on is known.
LEMMA SchemaCareful ==
    ASSUME Careful, Typed', rows' = rows, request' = request, unique' = unique, ReadSchema
    PROVE  Careful'
<1>1. run.pc = "schema" /\ run.pc \in Before /\ request.verb \in Structured /\ unique \in BOOLEAN
    BY TypeParts DEF ReadSchema, At, Before, Careful, Located, Typed
<1>2. run \in RunType /\ run.effects = 0 /\ run.wide = FALSE /\ run.exit = "no" /\ run.loaded
      /\ run.result # "success" /\ (run.result = "dry_run" => request.dryRun)
    BY <1>1, BeforeFacts
<1>3. CASE CloseThen("caught")
    BY <1>1, <1>2, <1>3, ThrowsCareful
<1> DEFINE gated == request.verb = "update" /\ ~request.dryRun /\ ~unique
           seen == IF unique THEN "unique" ELSE "wide"
<1>4. CASE gated /\ ~request.attended
           /\ run' = [run EXCEPT !.seen = seen, !.pc = "record", !.decision = "refused"]
    BY <1>1, <1>4, DecisionCareful DEF Decisions
<1>5. ASSUME NEW p \in {"executor", "phrase"}, p = "phrase" => gated /\ request.attended,
             p = "executor" => ~gated,
             run' = [run EXCEPT !.seen = seen, !.pc = p]
      PROVE  Careful'
  <2>1. /\ run'.pc = p /\ run'.result = run.result /\ run'.loaded = run.loaded
        /\ run'.audited = run.audited /\ run'.effects = run.effects /\ run'.wide = run.wide
        /\ run'.exit = run.exit /\ run'.seen = seen
      BY <1>2, <1>5 DEF RunType
  <2>2. (OnRecord' <=> OnRecord) /\ Accounts' = Accounts /\ SuccessRowIsTrue'
      BY <1>2, <2>1, NoRowKeeps DEF Careful
  <2>3. request.verb = "update" /\ p = "executor" => request.dryRun \/ seen = "unique"
      BY <1>5
  <2>4. Located' /\ Judged' /\ WideIsConfirmed'
      BY <1>1, <1>2, <1>5, <2>1, <2>3 DEF Located, Judged, WideIsConfirmed, Before
  <2>5. Accounted'
      BY <1>2, <2>1, <2>2 DEF Careful, Accounted
  <2> QED
      BY <2>2, <2>4, <2>5 DEF Careful
<1>6. \/ CloseThen("caught")
      \/ run' = [run EXCEPT !.seen = seen,
                            !.pc = IF ~gated THEN "executor"
                                   ELSE IF request.attended THEN "phrase" ELSE "record",
                            !.decision = IF gated /\ ~request.attended
                                           THEN "refused" ELSE run.decision]
    BY DEF ReadSchema
<1>7. CASE ~gated /\ run' = [run EXCEPT !.seen = seen, !.pc = "executor",
                                        !.decision = run.decision]
  <2>1. run' = [run EXCEPT !.seen = seen, !.pc = "executor"]
      BY <1>2, <1>7 DEF RunType
  <2> QED
      BY <1>5, <1>7, <2>1
<1>8. CASE gated /\ request.attended
           /\ run' = [run EXCEPT !.seen = seen, !.pc = "phrase", !.decision = run.decision]
  <2>1. run' = [run EXCEPT !.seen = seen, !.pc = "phrase"]
      BY <1>2, <1>8 DEF RunType
  <2> QED
      BY <1>5, <1>8, <2>1
<1> QED
    BY <1>3, <1>4, <1>6, <1>7, <1>8

\* The statement is sent, and takes effect or not.
LEMMA ExecuteCareful ==
    ASSUME Careful, Typed', rows' = rows, request' = request, unique' = unique, Execute
    PROVE  Careful'
<1>1. run.pc = "execute" /\ run.pc \in Before /\ unique \in BOOLEAN
    BY TypeParts DEF Execute, At, Before, Careful, Typed
<1>2. run \in RunType /\ run.effects = 0 /\ run.wide = FALSE /\ run.exit = "no" /\ run.loaded
      /\ request \in Requests
    BY <1>1, BeforeFacts
<1>3. PICK effect \in BOOLEAN, answered \in BOOLEAN :
        /\ answered => effect
        /\ run' = [run EXCEPT
              !.effects = IF effect THEN @ + 1 ELSE @,
              !.wide = effect /\ (IF request.verb = "update" THEN ~unique
                                  ELSE request.verb = "query" /\ request.tier = "two"),
              !.result = IF answered THEN "success" ELSE "error",
              !.pc = IF request.verb \in Structured THEN "row"
                     ELSE IF answered /\ request.verb = "document" THEN "row"
                     ELSE "disconnect",
              !.after = IF answered THEN "row" ELSE Thrown]
    BY DEF Execute
<1>4. /\ run'.effects = IF effect THEN 1 ELSE 0
      /\ run'.wide = (effect /\ (IF request.verb = "update" THEN ~unique
                                 ELSE request.verb = "query" /\ request.tier = "two"))
      /\ run'.result = IF answered THEN "success" ELSE "error"
      /\ run'.pc = IF request.verb \in Structured THEN "row"
                   ELSE IF answered /\ request.verb = "document" THEN "row"
                   ELSE "disconnect"
      /\ run'.after = IF answered THEN "row" ELSE Thrown
      /\ run'.loaded = run.loaded /\ run'.audited = run.audited /\ run'.exit = run.exit
      /\ run'.seen = run.seen /\ run'.decision = run.decision
  <2> DEFINE n == IF effect THEN run.effects + 1 ELSE run.effects
             w == effect /\ (IF request.verb = "update" THEN ~unique
                             ELSE request.verb = "query" /\ request.tier = "two")
             r == IF answered THEN "success" ELSE "error"
             p == IF request.verb \in Structured THEN "row"
                  ELSE IF answered /\ request.verb = "document" THEN "row"
                  ELSE "disconnect"
             a == IF answered THEN "row" ELSE Thrown
  <2>1. run' = [run EXCEPT !.effects = n, !.wide = w, !.result = r, !.pc = p, !.after = a]
      BY <1>3
  <2> HIDE DEF n, w, r, p, a
  <2>2. /\ run'.effects = n /\ run'.wide = w /\ run'.result = r /\ run'.pc = p
        /\ run'.after = a /\ run'.loaded = run.loaded /\ run'.audited = run.audited
        /\ run'.exit = run.exit /\ run'.seen = run.seen /\ run'.decision = run.decision
      BY <1>2, <2>1 DEF RunType
  <2>3. n = IF effect THEN 1 ELSE 0
      BY <1>2 DEF n
  <2> QED
      BY <2>2, <2>3 DEF w, r, p, a
<1>5. (OnRecord' <=> OnRecord) /\ Accounts' = Accounts /\ SuccessRowIsTrue'
    BY <1>2, <1>4, NoRowKeeps DEF Careful
<1>6. run'.pc \in {"row", "disconnect"} /\ run'.after \in {"row", "failed", "caught"}
    BY <1>4 DEF Thrown
<1>7. Located' /\ Judged'
  <2>1. run'.effects \in {0, 1} /\ (run'.wide => run'.effects = 1)
        /\ (run'.result = "success" => run'.effects = 1) /\ run'.result # "dry_run"
      BY <1>3, <1>4
  <2> QED
      BY <1>4, <1>6, <2>1 DEF Located, Judged, Before, Thrown
<1>8. WideIsConfirmed'
  <2> SUFFICES ASSUME run'.wide PROVE WideIsConfirmed'
      BY DEF WideIsConfirmed
  <2>1. \/ request.verb = "update" /\ ~unique
        \/ request.verb = "query" /\ request.tier = "two"
      BY <1>4
  <2>2. Allowed \/ (run.seen = "unique" /\ ~unique)
      BY <1>1, <2>1 DEF Careful, Judged
  <2>3. Allowed => Allowed'
      BY <1>4, <1>5 DEF Allowed
  <2> QED
      BY <1>4, <2>2, <2>3 DEF WideIsConfirmed, Allowed, OnRecord
<1>9. Accounted'
    BY <1>2, <1>4, <1>5, <1>6 DEF Careful, Accounted
<1> QED
    BY <1>5, <1>7, <1>8, <1>9 DEF Careful

\* The other steps of the command.
LEMMA CommandCareful ==
    ASSUME Careful, Command
    PROVE  Careful'
<1>1. UNCHANGED <<request, unique, migration, rows, missed>>
    BY DEF Command, Begin, Admit, Gate, Preflight, Connect, ReadSchema, Phrase, Executor,
           Confirm, Execute, Present, Disconnect, Emit, World, NoRow
<1>2. Typed' /\ rows' = rows /\ request' = request /\ unique' = unique
    BY <1>1, CommandType DEF Careful
<1>3. run \in RunType /\ request \in Requests
    BY TypeParts DEF Careful, Typed
<1>4. CASE Begin
  <2>1. run.pc = "start" /\ run.pc \in Before
      BY <1>4 DEF Begin, At, Before
  <2>2. CASE Go("caught")
      BY <1>2, <2>1, <2>2, ThrowsCareful
  <2>3. CASE run' = [run EXCEPT !.pc = Entry, !.loaded = TRUE]
    <3>1. run.effects = 0 /\ run.wide = FALSE /\ run.exit = "no" /\ run.result # "success"
          /\ (run.result = "dry_run" => request.dryRun)
        BY <2>1, BeforeFacts
    <3>2. /\ run'.pc = Entry /\ run'.loaded = TRUE /\ run'.audited = run.audited
          /\ run'.effects = run.effects /\ run'.wide = run.wide /\ run'.exit = run.exit
          /\ run'.result = run.result
        BY <1>3, <2>3 DEF RunType
    <3>3. Entry \in {"connect", "admit", "plan", "unsupported", "gate"}
          /\ (Entry = "gate" => request.verb = "query")
          /\ (Entry = "connect" => request.verb # "query")
        BY <1>3 DEF Entry, Requests, Verbs, Structured
    <3>4. (OnRecord' <=> OnRecord) /\ Accounts' = Accounts /\ SuccessRowIsTrue'
        BY <1>2, <3>1, <3>2, NoRowKeeps DEF Careful
    <3>5. Located' /\ Judged' /\ WideIsConfirmed'
        BY <1>2, <3>1, <3>2, <3>3 DEF Located, Judged, WideIsConfirmed, Before
    <3>6. Accounted'
        BY <3>1, <3>2, <3>3, <3>4 DEF Careful, Accounted
    <3> QED
        BY <1>2, <3>4, <3>5, <3>6 DEF Careful
  <2> QED
      BY <1>4, <2>2, <2>3 DEF Begin
<1>5. CASE Admit
  <2>1. run.pc = "admit" /\ run.pc \in Before
      BY <1>5 DEF Admit, At, Before
  <2>2. CASE Go("caught")
      BY <1>2, <2>1, <2>2, ThrowsCareful
  <2>3. CASE request.verb = "document" /\ request.dryRun
             /\ run' = [run EXCEPT !.pc = "row", !.result = "dry_run"]
      BY <1>2, <2>1, <2>3, ResultCareful
  <2>4. CASE \/ request.verb \in {"update", "document"} /\ Go("connect")
             \/ request.verb = "document" /\ Go("confirm")
      BY <1>2, <2>1, <2>4, BeforeFacts, GoesCareful DEF Places
  <2> QED
      BY <1>5, <2>2, <2>3, <2>4 DEF Admit, Go
<1>6. CASE Gate
  <2>1. run.pc = "gate" /\ run.pc \in Before /\ request.verb = "query"
      BY <1>6 DEF Gate, At, Before, Careful, Located
  <2>2. CASE Go("caught")
      BY <1>2, <2>1, <2>2, ThrowsCareful
  <2>3. CASE run' = [run EXCEPT !.pc = "record", !.decision = "refused"]
    <3>1. run' = [run EXCEPT !.seen = run.seen, !.pc = "record", !.decision = "refused"]
        BY <1>3, <2>3 DEF RunType
    <3> QED
        BY <1>2, <2>1, <3>1, DecisionCareful DEF Decisions
  <2>4. CASE \/ request.tier \in {"none", "one"} /\ Go("preflight")
             \/ request.tier = "one" /\ Go("confirm")
             \/ request.attended /\ Go("phrase")
      BY <1>2, <2>1, <2>4, BeforeFacts, GoesCareful DEF Places
  <2>5. request.tier \in {"none", "one", "two"}
      BY <1>3 DEF Requests
  <2> QED
      BY <1>6, <2>2, <2>3, <2>4, <2>5 DEF Gate
<1>7. CASE Preflight
  <2>1. run.pc = "preflight" /\ run.pc \in Before /\ request.verb = "query"
        /\ (request.tier = "two" => Allowed)
      BY <1>7 DEF Preflight, At, Before, Careful, Located, Judged
  <2>2. CASE Go("caught")
      BY <1>2, <2>1, <2>2, ThrowsCareful
  <2>3. CASE Go("connect")
      BY <1>2, <2>1, <2>3, BeforeFacts, GoesCareful DEF Places
  <2> QED
      BY <1>7, <2>2, <2>3 DEF Preflight
<1>8. CASE Connect
  <2>1. run.pc = "connect" /\ run.pc \in Before /\ run.loaded
        /\ (request.verb = "query" /\ request.tier = "two" => Allowed)
      BY <1>8, BeforeFacts DEF Connect, At, Before, Careful, Judged
  <2>2. CASE Go(Thrown)
      BY <1>2, <2>1, <2>2, ThrowsCareful DEF Thrown
  <2>3. CASE \/ request.verb \in Structured /\ Go("schema")
             \/ request.verb \notin Structured /\ Go("execute")
      BY <1>2, <2>1, <2>3, BeforeFacts, GoesCareful DEF Places, Structured
  <2> QED
      BY <1>8, <2>2, <2>3 DEF Connect
<1>9. CASE ReadSchema
    BY <1>2, <1>9, SchemaCareful
<1>10. CASE Phrase
  <2>1. run.pc = "phrase" /\ run.pc \in Before /\ request.attended /\ run.loaded
        /\ request.verb \in Structured \cup {"query"}
      BY <1>10, BeforeFacts DEF Phrase, At, Before, Careful, Located
  <2>2. CASE Go("caught") \/ CloseThen("caught")
      BY <1>2, <2>1, <2>2, ThrowsCareful
  <2>3. ASSUME NEW answer \in {"allowed", "declined"},
               run' = [run EXCEPT !.pc = "record", !.decision = answer]
        PROVE  Careful'
    <3>1. run' = [run EXCEPT !.seen = run.seen, !.pc = "record", !.decision = answer]
        BY <1>3, <2>3 DEF RunType
    <3> QED
        BY <1>2, <2>1, <3>1, DecisionCareful DEF Decisions
  <2> QED
      BY <1>10, <2>2, <2>3 DEF Phrase
<1>11. CASE Executor
  <2>1. run.pc = "executor" /\ run.pc \in Before /\ request.verb \in Structured /\ run.loaded
        /\ (request.verb = "update" => request.dryRun \/ run.seen = "unique" \/ Allowed)
      BY <1>11, BeforeFacts DEF Executor, At, Before, Careful, Located, Judged
  <2>2. CASE CloseThen("caught")
      BY <1>2, <2>1, <2>2, ThrowsCareful
  <2>3. CASE \/ run' = [run EXCEPT !.pc = "row", !.result = "error"]
             \/ request.dryRun /\ run' = [run EXCEPT !.pc = "row", !.result = "dry_run"]
      BY <1>2, <2>1, <2>3, ResultCareful
  <2>4. CASE ~request.dryRun /\ (Go("execute") \/ Go("confirm"))
      BY <1>2, <2>1, <2>4, BeforeFacts, GoesCareful DEF Places, Structured
  <2> QED
      BY <1>11, <2>2, <2>3, <2>4 DEF Executor
<1>12. CASE Confirm
  <2>1. run.pc = "confirm" /\ run.pc \in Before /\ run.loaded
        /\ (request.verb = "query" => request.tier = "one")
        /\ (request.verb = "update" => run.seen = "unique" \/ Allowed)
      BY <1>12, BeforeFacts DEF Confirm, At, Before, Careful, Located, Judged
  <2>2. CASE Go("caught")
      BY <1>2, <2>1, <2>2, ThrowsCareful
  <2>3. CASE \/ run' = [run EXCEPT !.pc = "row", !.result = "cancelled"]
             \/ run' = [run EXCEPT !.pc = "row", !.result = "error"]
      BY <1>2, <2>1, <2>3, ResultCareful
  <2>4. CASE request.verb = "query" /\ run' = [run EXCEPT !.pc = "record", !.decision = "declined"]
    <3>1. run' = [run EXCEPT !.seen = run.seen, !.pc = "record", !.decision = "declined"]
        BY <1>3, <2>4 DEF RunType
    <3> QED
        BY <1>2, <2>1, <2>4, <3>1, DecisionCareful DEF Decisions
  <2>5. CASE \/ request.verb = "query" /\ Go("preflight")
             \/ request.verb = "document" /\ Go("connect")
             \/ request.verb \notin {"query", "document"} /\ Go("execute")
      BY <1>2, <2>1, <2>5, BeforeFacts, GoesCareful DEF Places
  <2> QED
      BY <1>12, <2>2, <2>3, <2>4, <2>5 DEF Confirm
<1>13. CASE Execute
    BY <1>2, <1>13, ExecuteCareful
<1>14. CASE Present \/ Disconnect \/ Emit
  <2>1. /\ run'.loaded = run.loaded /\ run'.audited = run.audited
        /\ run'.seen = run.seen /\ run'.decision = run.decision /\ run'.result = run.result
        /\ run'.effects = run.effects /\ run'.wide = run.wide
        /\ \/ /\ run'.pc = "ended" /\ run'.exit \in {"ok", "error"}
              /\ run.pc = "disconnect" => run.after \in {"end", "refused"}
           \/ run'.pc = "caught" /\ run'.exit = run.exit
           \/ /\ run.pc = "disconnect" /\ run.after \in {"row", "failed", "caught"}
              /\ run'.pc = run.after /\ run'.exit = run.exit
    <3>1. CASE Present
        BY <1>3, <3>1, GoFields, EndFields DEF Present, At
    <3>2. CASE Emit
        BY <1>3, <3>2 DEF Emit, At, RunType
    <3>3. CASE Disconnect
      <4>1. run.after \in {"end", "refused", "row", "failed", "caught"}
          BY <1>3, <3>3 DEF Disconnect, At, Careful, Typed, Placed, RunType
      <4>2. \/ End("ok") /\ run.after \in {"end", "refused"}
            \/ End("error") /\ run.after \in {"end", "refused"}
            \/ Go("caught")
            \/ /\ Go(run.after) /\ run.after \in {"row", "failed", "caught"}
               /\ run.pc = "disconnect"
          BY <3>3, <4>1 DEF Disconnect, At
      <4> QED
          BY <1>3, <4>2, GoFields, EndFields
    <3> QED
        BY <1>14, <3>1, <3>2, <3>3
  <2>2. run.pc \in {"present", "disconnect", "emit"} /\ run.exit = "no"
      BY <1>14 DEF Present, Disconnect, Emit, At, Careful, Accounted
  <2>3. (OnRecord' <=> OnRecord) /\ Accounts' = Accounts /\ SuccessRowIsTrue'
      BY <1>2, <2>1, NoRowKeeps DEF Careful
  <2>4. run'.pc = "failed" => request.verb = "query"
    <3>1. CASE run'.pc # "failed"
        BY <3>1
    <3>2. CASE run'.pc = "failed"
        BY <1>14, <2>1, <3>2 DEF Careful, Located
    <3> QED
        BY <3>1, <3>2
  <2>5. Located' /\ Judged'
      BY <1>2, <2>1, <2>2, <2>4 DEF Careful, Located, Judged, Before
  <2>6. WideIsConfirmed'
      BY <1>2, <2>1, <2>3 DEF Careful, WideIsConfirmed, Allowed
  <2>7. Accounted'
    <3>1. run.effects = 1 /\ Accounts = {} =>
            run.pc = "disconnect" /\ run.after \in {"row", "failed", "caught"}
        BY <2>2 DEF Careful, Accounted
    <3>2. /\ run.audited => Accounts # {}
          /\ run.pc \in {"present", "disconnect"} => run.loaded
          /\ run.effects = 1 => run.loaded
        BY <2>2 DEF Careful, Accounted
    <3>3. run.effects = 1 /\ Accounts = {} => run'.pc \in {"row", "failed", "caught"}
        BY <2>1, <3>1
    <3> QED
        BY <2>1, <2>2, <2>3, <3>1, <3>2, <3>3 DEF Accounted
  <2> QED
      BY <1>2, <2>3, <2>5, <2>6, <2>7 DEF Careful
<1> QED
    BY <1>4, <1>5, <1>6, <1>7, <1>8, <1>9, <1>10, <1>11, <1>12, <1>13, <1>14 DEF Command

\* migrate changes nothing of the run but the index under it, which it never puts back.
LEMMA MigrateCareful ==
    ASSUME Careful, Migrate
    PROVE  Careful'
<1>1. UNCHANGED <<request, run, rows, missed>>
    BY DEF Migrate, MigrateBegin, MigrateConfirm, MigrateStatement, Others
<1>2. Typed'
    BY MigrateType DEF Careful
<1>3. unique' => unique
  <2>1. unique \in BOOLEAN /\ migration \in MigrationType
      BY TypeParts DEF Careful, Typed
  <2>2. MigrateStatement => (unique' => unique)
      BY <2>1, StatementStep
  <2> QED
      BY <2>2 DEF Migrate, MigrateBegin, MigrateConfirm
<1>4. (OnRecord' <=> OnRecord) /\ Accounts' = Accounts /\ SuccessRowIsTrue'
    BY <1>1, NoRowKeeps DEF Careful
<1>5. Allowed' <=> Allowed
    BY <1>1, <1>4 DEF Allowed
<1>6. Located'
    BY <1>1 DEF Careful, Located
<1>7. Judged'
    BY <1>1, <1>5 DEF Careful, Judged
<1>8. WideIsConfirmed'
    BY <1>1, <1>3, <1>5 DEF Careful, WideIsConfirmed
<1>9. Accounted'
    BY <1>1, <1>4 DEF Careful, Accounted
<1> QED
    BY <1>2, <1>4, <1>6, <1>7, <1>8, <1>9 DEF Careful

LEMMA KillCareful ==
    ASSUME Careful, Kill
    PROVE  Careful'
<1>1. run.pc # "ended" /\ End("killed") /\ rows' = rows /\ request' = request /\ unique' = unique
    BY DEF Kill, At, NoRow, World
<1>2. Typed' /\ run \in RunType
    BY KillType, TypeParts DEF Careful, Typed
<1>3. /\ run'.pc = "ended" /\ run'.exit = "killed" /\ run'.loaded = run.loaded
      /\ run'.audited = run.audited /\ run'.seen = run.seen
      /\ run'.decision = run.decision /\ run'.result = run.result
      /\ run'.effects = run.effects /\ run'.wide = run.wide
    BY <1>1, <1>2, EndFields
<1>4. (OnRecord' <=> OnRecord) /\ Accounts' = Accounts /\ SuccessRowIsTrue'
    BY <1>1, <1>3, NoRowKeeps DEF Careful
<1>5. Located' /\ Judged'
    BY <1>1, <1>3 DEF Careful, Located, Judged, Before
<1>6. WideIsConfirmed'
    BY <1>1, <1>3, <1>4 DEF Careful, WideIsConfirmed, Allowed
<1>7. Accounted'
    BY <1>3, <1>4 DEF Careful, Accounted
<1> QED
    BY <1>2, <1>4, <1>5, <1>6, <1>7 DEF Careful

LEMMA CarefulStep == Careful /\ [Next]_vars => Careful'
<1> SUFFICES ASSUME Careful, [Next]_vars PROVE Careful'
    OBVIOUS
<1>1. CASE UNCHANGED vars
  <2>1. UNCHANGED <<request, run, rows, unique, migration, missed>>
      BY <1>1 DEF vars
  <2>2. Typed'
      BY <1>1, TypeStep DEF Careful
  <2>3. (OnRecord' <=> OnRecord) /\ Accounts' = Accounts /\ SuccessRowIsTrue'
      BY <2>1, NoRowKeeps DEF Careful
  <2>4. Allowed' <=> Allowed
      BY <2>1, <2>3 DEF Allowed
  <2>5. Located' /\ Judged' /\ Accounted' /\ WideIsConfirmed'
      BY <2>1, <2>3, <2>4 DEF Careful, Located, Judged, Accounted, WideIsConfirmed
  <2> QED
      BY <2>2, <2>3, <2>5 DEF Careful
<1> QED
    BY <1>1, RowsCareful, CommandCareful, MigrateCareful, KillCareful DEF Next

LEMMA CarefulHolds == Spec => []Careful
  BY CarefulInit, CarefulStep, PTL DEF Spec

\* The write gate of insert, update, delete and query: no statement reaches more rows than
\* one without the phrase, whatever --force says and whatever migrate does meanwhile short
\* of dropping the index after the gate has looked.
THEOREM WideIsConfirmedHolds == Spec => []WideIsConfirmed
<1>1. Careful => WideIsConfirmed
    BY DEF Careful
<1> QED
    BY <1>1, CarefulHolds, PTL

\* The audit rows of the commands: none says success of a statement that failed.
THEOREM SuccessRowIsTrueHolds == Spec => []SuccessRowIsTrue
<1>1. Careful => SuccessRowIsTrue
    BY DEF Careful
<1> QED
    BY <1>1, CarefulHolds, PTL

(***************************************************************************)
(* Refinement: a run implements AuditedEffect.  Besides Careful, a run has *)
(* no row about its statement before the statement was sent.               *)
(***************************************************************************)

Over == IF run.exit \in {"ok", "error"} THEN "returned" ELSE run.exit
view == <<JudgedWide => Allowed, run.effects, Accounts # {}, Over>>

Unaccounted == run.pc \in Before => Accounts = {}

\* A row about a decision accounts for nothing, and only one that allows it allows it.
LEMMA RowIsAbout ==
    ASSUME Careful, NEW outcome \in Outcomes, NEW written \in BOOLEAN, Row(outcome, written)
    PROVE  /\ outcome \in Decisions => Accounts' = Accounts
           /\ outcome \notin Decisions => Accounts' # {} /\ (OnRecord' <=> OnRecord)
<1>1. /\ Len(rows) \in Nat
      /\ DOMAIN rows = 1 .. Len(rows) /\ DOMAIN rows' = 1 .. Len(rows) + 1
      /\ \A i \in DOMAIN rows : rows'[i] = rows[i]
      /\ rows'[Len(rows) + 1] = [outcome |-> outcome, success |-> Succeeded(outcome),
                                 written |-> written]
    BY RowAppends, TypeParts DEF Careful, Typed
<1> DEFINE last == Len(rows) + 1
<1>2. last \in DOMAIN rows' /\ rows'[last].outcome = outcome
    BY <1>1
<1>3. \A i \in DOMAIN rows' : i = last \/ i \in DOMAIN rows
    BY <1>1
<1>4. \A i \in DOMAIN rows : i \in DOMAIN rows' /\ rows'[i] = rows[i]
    BY <1>1
<1> HIDE DEF last
<1>5. ASSUME outcome \in Decisions PROVE Accounts' = Accounts
    BY <1>2, <1>3, <1>4, <1>5 DEF Accounts
<1>6. ASSUME outcome \notin Decisions PROVE Accounts' # {}
    BY <1>2, <1>6 DEF Accounts
<1>7. ASSUME outcome \notin Decisions PROVE OnRecord' <=> OnRecord
  <2>1. outcome # "allowed"
      BY <1>7 DEF Decisions
  <2> QED
      BY <2>1, <1>2, <1>3, <1>4 DEF OnRecord
<1> QED
    BY <1>5, <1>6, <1>7

\* Before the statement, a step only chooses where to go.
LEMMA EarlySteps ==
    ASSUME Careful, Command, run.pc \in Before, run.pc # "execute"
    PROVE  run'.effects = 0 /\ run'.exit = "no" /\ rows' = rows
<1>1. run \in RunType /\ run.effects = 0 /\ run.exit = "no"
    BY BeforeFacts
<1>2. rows' = rows
    BY DEF Command, Begin, Admit, Gate, Preflight, Connect, ReadSchema, Phrase, Executor,
           Confirm, Execute, Present, Disconnect, Emit, NoRow
<1>3. request.tier \in {"none", "one", "two"} /\ request.verb \in Verbs
    BY <1>1, BeforeFacts DEF Requests
<1>4. ASSUME Begin \/ Admit PROVE run'.effects = 0 /\ run'.exit = "no"
    BY <1>1, <1>4 DEF Begin, Admit, Go, RunType
<1>5. ASSUME Preflight \/ Connect PROVE run'.effects = 0 /\ run'.exit = "no"
    BY <1>1, <1>5 DEF Preflight, Connect, Go, RunType
<1>6. ASSUME Phrase PROVE run'.effects = 0 /\ run'.exit = "no"
    BY <1>1, <1>6 DEF Phrase, Go, CloseThen, RunType
<1>7. ASSUME Gate PROVE run'.effects = 0 /\ run'.exit = "no"
    BY <1>1, <1>3, <1>7 DEF Gate, Go, RunType
<1>8. ASSUME ReadSchema PROVE run'.effects = 0 /\ run'.exit = "no"
    BY <1>1, <1>8 DEF ReadSchema, CloseThen, RunType
<1>9. ASSUME Executor \/ Confirm PROVE run'.effects = 0 /\ run'.exit = "no"
    BY <1>1, <1>9 DEF Executor, Confirm, Go, CloseThen, RunType
<1>10. ~(Execute \/ Present \/ Disconnect \/ Emit)
    BY DEF Execute, Present, Disconnect, Emit, At, Before
<1> QED
    BY <1>2, <1>4, <1>5, <1>6, <1>7, <1>8, <1>9, <1>10 DEF Command

LEMMA RecordSteps ==
    ASSUME Careful, NEW written \in BOOLEAN, Record(written)
    PROVE  /\ run.pc \in Before /\ Accounts' = Accounts
           /\ run'.effects = 0 /\ run'.exit \in {"no", "ok", "error"}
<1>1. run.pc = "record" /\ run.pc \in Before /\ Row(run.decision, written)
    BY DEF Record, At, Before
<1>2. run \in RunType /\ run.effects = 0 /\ run.exit = "no"
    BY <1>1, BeforeFacts
<1>3. run.decision \in Decisions /\ run.decision \in Outcomes
    BY <1>1, <1>2 DEF Careful, Typed, Placed, RunType, Outcomes
<1>4. Accounts' = Accounts
    BY <1>1, <1>3, RowIsAbout
<1>5. ASSUME NEW p, Go(p) \/ CloseThen(p) \/ run' = [run EXCEPT !.pc = "row", !.result = p]
      PROVE  run'.effects = 0 /\ run'.exit = "no"
  <2>1. CASE run' = [run EXCEPT !.pc = "row", !.result = p]
      BY <1>2, <2>1 DEF RunType
  <2> QED
      BY <1>2, <1>5, <2>1, GoFields, CloseThenFields
<1>6. ASSUME NEW code \in {"ok", "error"}, End(code)
      PROVE  run'.effects = 0 /\ run'.exit \in {"ok", "error"}
    BY <1>2, <1>6, EndFields
<1> QED
    BY <1>1, <1>3, <1>4, <1>5, <1>6 DEF Record, Decided, Decisions

\* Plan, Unsupported, Report, Failed and Caught ask for a row about the run, or for none.
LEMMA AccountSteps ==
    ASSUME Careful, NEW written \in BOOLEAN,
           \/ Plan(written) \/ Unsupported(written) \/ Report(written) \/ Failed(written)
           \/ Caught(written)
    PROVE  /\ rows' = rows \/ (Accounts' # {} /\ (OnRecord' <=> OnRecord))
           /\ run'.effects = run.effects /\ run'.seen = run.seen
           /\ run'.decision = run.decision
           /\ run.exit = "no" /\ run'.exit \in {"no", "ok", "error"}
           /\ run'.pc \notin Before
           /\ rows' = rows /\ run'.exit # "no" => run.effects = 0 \/ Accounts # {}
<1>1. run \in RunType /\ Placed
    BY TypeParts DEF Careful, Typed
<1>2. run.exit = "no"
    BY DEF Plan, Unsupported, Report, Failed, Caught, At, Careful, Accounted
<1>3. {"plan", "error"} \subseteq Outcomes \ Decisions
    BY DEF Outcomes, Decisions
<1>4. rows' = rows \/ (Accounts' # {} /\ (OnRecord' <=> OnRecord))
  <2>1. CASE Report(written)
    <3>1. run.pc = "row" /\ Row(run.result, written)
        BY <2>1 DEF Report, At
    <3>2. run.result \in Outcomes \ Decisions
        BY <1>1, <3>1 DEF Placed, RunType, Outcomes, Decisions
    <3> QED
        BY <3>1, <3>2, RowIsAbout
  <2>2. CASE Plan(written) \/ Unsupported(written)
    <3>1. Row("plan", written) \/ Row("error", written) \/ rows' = rows
        BY <2>2 DEF Plan, Unsupported, NoRow
    <3> QED
        BY <3>1, <1>3, RowIsAbout
  <2>3. CASE Failed(written) \/ Caught(written)
    <3>1. Row("error", written) \/ rows' = rows
        BY <2>3 DEF Failed, Caught, NoRow
    <3> QED
        BY <3>1, <1>3, RowIsAbout
  <2> QED
      BY <2>1, <2>2, <2>3
<1>5. \/ \E p \in {"caught", "emit", "present"} : Go(p)
      \/ \E p \in {"end"} : CloseThen(p)
      \/ \E code \in {"ok", "error"} : End(code)
      \/ run' = [run EXCEPT !.pc = "caught", !.audited = ~request.recovery]
    BY DEF Plan, Unsupported, Report, Failed, Caught
<1>6. /\ run'.effects = run.effects /\ run'.seen = run.seen /\ run'.decision = run.decision
      /\ run'.exit \in {"no", "ok", "error"}
      /\ run'.pc \in {"caught", "emit", "present", "disconnect", "ended"}
  <2>1. CASE \E p \in {"caught", "emit", "present"} : Go(p)
      BY <1>1, <1>2, <2>1, GoFields
  <2>2. CASE \E p \in {"end"} : CloseThen(p)
      BY <1>1, <1>2, <2>2, CloseThenFields
  <2>3. CASE \E code \in {"ok", "error"} : End(code)
      BY <1>1, <1>2, <2>3, EndFields
  <2>4. CASE run' = [run EXCEPT !.pc = "caught", !.audited = ~request.recovery]
      BY <1>1, <1>2, <2>4 DEF RunType
  <2> QED
      BY <1>5, <2>1, <2>2, <2>3, <2>4
<1>7. ASSUME rows' = rows, run'.exit # "no" PROVE run.effects = 0 \/ Accounts # {}
  <2>1. ASSUME NEW outcome, Row(outcome, written) PROVE FALSE
    <3>1. rows' = Append(rows, [outcome |-> outcome, success |-> Succeeded(outcome),
                                written |-> written])
        BY <2>1 DEF Row
    <3>2. rows \in Seq(RowType)
        BY TypeParts DEF Careful, Typed
    <3>3. Len(rows') = Len(rows) + 1 /\ Len(rows) \in Nat
        BY <3>1, <3>2
    <3> QED
        BY <3>3, <1>7
  <2>2. CASE Plan(written) \/ Unsupported(written)
    <3>1. run.pc \in Before
        BY <2>2 DEF Plan, Unsupported, At, Before
    <3> QED
        BY <3>1, BeforeFacts
  <2>3. CASE Report(written)
      BY <2>1, <2>3 DEF Report
  <2>4. CASE Failed(written)
      BY <1>1, <1>2, <1>7, <2>4 DEF Failed, RunType
  <2>5. CASE Caught(written)
    <3>1. ~run.loaded \/ run.audited
        BY <2>1, <2>5 DEF Caught
    <3>2. run.effects \in {0, 1}
        BY DEF Careful, Located
    <3> QED
        BY <3>1, <3>2 DEF Careful, Accounted
  <2> QED
      BY <2>2, <2>3, <2>4, <2>5
<1> QED
    BY <1>2, <1>4, <1>6, <1>7 DEF Before

\* After the statement, a step without a row ends the run only when there is one already.
LEMMA LateSteps ==
    ASSUME Careful, Present \/ Disconnect \/ Emit
    PROVE  /\ rows' = rows /\ run'.effects = run.effects /\ run'.seen = run.seen
           /\ run'.decision = run.decision
           /\ run.exit = "no" /\ run'.exit \in {"no", "ok", "error"}
           /\ run'.pc \notin Before
           /\ run'.exit # "no" => run.effects = 0 \/ Accounts # {}
<1>1. run \in RunType /\ Placed
    BY TypeParts DEF Careful, Typed
<1>2. run.exit = "no" /\ run.pc \in {"present", "disconnect", "emit"}
    BY DEF Present, Disconnect, Emit, At, Careful, Accounted
<1>3. \/ run' = [run EXCEPT !.pc = "ended", !.envelope = TRUE, !.exit = "error"]
           /\ run.pc = "emit"
      \/ \E code \in {"ok", "error"} :
           End(code) /\ (run.pc = "disconnect" => run.after \in {"end", "refused"})
      \/ \E p \in {"row", "failed", "caught"} : Go(p)
    BY <1>1, <1>2 DEF Present, Disconnect, Emit, At, Placed, RunType
<1>4. /\ run'.effects = run.effects /\ run'.seen = run.seen /\ run'.decision = run.decision
      /\ run'.exit \in {"no", "ok", "error"}
      /\ run'.pc \in {"row", "failed", "caught", "ended"}
  <2>1. CASE run' = [run EXCEPT !.pc = "ended", !.envelope = TRUE, !.exit = "error"]
      BY <1>1, <2>1 DEF RunType
  <2>2. CASE \E code \in {"ok", "error"} : End(code)
      BY <1>1, <2>2, EndFields
  <2>3. CASE \E p \in {"row", "failed", "caught"} : Go(p)
      BY <1>1, <1>2, <2>3, GoFields
  <2> QED
      BY <1>3, <2>1, <2>2, <2>3
<1>5. ASSUME run'.exit # "no" PROVE run.effects = 0 \/ Accounts # {}
  <2>1. ~\E p \in {"row", "failed", "caught"} : Go(p)
      BY <1>1, <1>2, <1>5, GoFields
  <2>2. run.pc = "disconnect" => run.after \in {"end", "refused"}
      BY <1>2, <1>3, <2>1
  <2>3. run.effects \in {0, 1}
      BY DEF Careful, Located
  <2> QED
      BY <1>2, <2>2, <2>3 DEF Careful, Accounted
<1>6. rows' = rows
    BY DEF Present, Disconnect, Emit, NoRow
<1> QED
    BY <1>2, <1>4, <1>5, <1>6 DEF Before

LEMMA ExecuteSteps ==
    ASSUME Careful, Execute
    PROVE  /\ rows' = rows /\ run.effects = 0 /\ run'.effects \in {0, 1}
           /\ run'.seen = run.seen /\ run'.decision = run.decision
           /\ run.exit = "no" /\ run'.exit = "no"
           /\ run.pc = "execute" /\ run'.pc \notin Before
<1>1. run.pc = "execute" /\ run.pc \in Before /\ rows' = rows
    BY DEF Execute, At, Before, NoRow
<1>2. run \in RunType /\ run.effects = 0 /\ run.exit = "no"
    BY <1>1, BeforeFacts
<1>3. ASSUME NEW n, NEW w, NEW r, NEW p, NEW a,
             run' = [run EXCEPT !.effects = n, !.wide = w, !.result = r, !.pc = p, !.after = a]
      PROVE  /\ run'.effects = n /\ run'.pc = p /\ run'.seen = run.seen
             /\ run'.decision = run.decision /\ run'.exit = run.exit
    BY <1>2, <1>3 DEF RunType
<1>4. \E n \in {run.effects, run.effects + 1}, w \in BOOLEAN, r \in {"success", "error"},
         p \in {"row", "disconnect"}, a \in {"row", "failed", "caught"} :
         run' = [run EXCEPT !.effects = n, !.wide = w, !.result = r, !.pc = p, !.after = a]
  <2>1. PICK effect \in BOOLEAN, answered \in BOOLEAN :
          run' = [run EXCEPT
              !.effects = IF effect THEN @ + 1 ELSE @,
              !.wide = effect /\ (IF request.verb = "update" THEN ~unique
                                  ELSE request.verb = "query" /\ request.tier = "two"),
              !.result = IF answered THEN "success" ELSE "error",
              !.pc = IF request.verb \in Structured THEN "row"
                     ELSE IF answered /\ request.verb = "document" THEN "row"
                     ELSE "disconnect",
              !.after = IF answered THEN "row" ELSE Thrown]
      BY DEF Execute
  <2> DEFINE n == IF effect THEN run.effects + 1 ELSE run.effects
             w == effect /\ (IF request.verb = "update" THEN ~unique
                             ELSE request.verb = "query" /\ request.tier = "two")
             r == IF answered THEN "success" ELSE "error"
             p == IF request.verb \in Structured THEN "row"
                  ELSE IF answered /\ request.verb = "document" THEN "row"
                  ELSE "disconnect"
             a == IF answered THEN "row" ELSE Thrown
  <2>2. run' = [run EXCEPT !.effects = n, !.wide = w, !.result = r, !.pc = p, !.after = a]
      BY <2>1
  <2>3. n \in {run.effects, run.effects + 1} /\ r \in {"success", "error"}
        /\ p \in {"row", "disconnect"} /\ a \in {"row", "failed", "caught"}
      BY DEF Thrown
  <2>4. w \in BOOLEAN
    <3>1. unique \in BOOLEAN
        BY TypeParts DEF Careful, Typed
    <3> QED
        BY <3>1
  <2> HIDE DEF n, w, r, p, a
  <2> QED
      BY <2>2, <2>3, <2>4, ZenonT(60)
<1>5. /\ run'.effects \in {run.effects, run.effects + 1} /\ run'.pc \in {"row", "disconnect"}
      /\ run'.seen = run.seen /\ run'.decision = run.decision /\ run'.exit = run.exit
  <2>1. PICK n \in {run.effects, run.effects + 1}, w \in BOOLEAN, r \in {"success", "error"},
             p \in {"row", "disconnect"}, a \in {"row", "failed", "caught"} :
          run' = [run EXCEPT !.effects = n, !.wide = w, !.result = r, !.pc = p, !.after = a]
      BY <1>4
  <2>2. /\ run'.effects = n /\ run'.pc = p /\ run'.seen = run.seen
        /\ run'.decision = run.decision /\ run'.exit = run.exit
      BY <2>1, <1>3
  <2> QED
      BY <2>2
<1> QED
    BY <1>1, <1>2, <1>5 DEF Before

\* The verdict stands: it is about the request, the schema seen, and the decision.
LEMMA VerdictStays ==
    ASSUME request' = request, run'.seen = run.seen, run'.decision = run.decision,
           OnRecord' <=> OnRecord
    PROVE  (JudgedWide => Allowed)' <=> (JudgedWide => Allowed)
  BY DEF JudgedWide, Allowed

LEMMA ViewStays ==
    ASSUME request' = request, rows' = rows, run'.seen = run.seen,
           run'.decision = run.decision, run'.effects = run.effects, run'.exit = run.exit
    PROVE  UNCHANGED view
  BY DEF view, JudgedWide, Allowed, OnRecord, Accounts, Over

\* No row is asked for, and the run goes on, or ends if there is nothing to account for.
LEMMA ViewEnds ==
    ASSUME request' = request, rows' = rows, run'.seen = run.seen,
           run'.decision = run.decision, run'.effects = run.effects, run.exit = "no",
           run'.exit \in {"no", "ok", "error"},
           run'.exit # "no" => run.effects = 0 \/ Accounts # {}
    PROVE  Audited!Finish \/ UNCHANGED view
<1>1. CASE run'.exit = "no"
    BY <1>1, ViewStays
<1>2. CASE run'.exit # "no"
  <2>1. ((JudgedWide => Allowed)' <=> (JudgedWide => Allowed)) /\ Accounts' = Accounts
      BY VerdictStays DEF OnRecord, Accounts
  <2> QED
      BY <1>2, <2>1 DEF Audited!Finish, Audited!Settled
<1> QED
    BY <1>1, <1>2

LEMMA ViewBegins ==
    ASSUME run.exit = "no", run.effects = 0, run'.effects = 0, Accounts' = {},
           run'.exit \in {"no", "ok", "error"}
    PROVE  Audited!Begin
  BY DEF Audited!Begin, Audited!Settled

LEMMA AuditedStep ==
    ASSUME Careful, Unaccounted, [Next]_vars
    PROVE  (Audited!Next \/ UNCHANGED view) /\ Unaccounted'
<1>1. ASSUME Rows PROVE (Audited!Next \/ UNCHANGED view) /\ Unaccounted'
  <2>1. PICK written \in BOOLEAN :
          \/ Plan(written) \/ Unsupported(written) \/ Record(written)
          \/ Report(written) \/ Failed(written) \/ Caught(written)
      BY <1>1 DEF Rows
  <2>2. request' = request
      BY <2>1 DEF Plan, Unsupported, Record, Report, Failed, Caught, World
  <2>3. CASE Record(written)
    <3>1. /\ run.pc \in Before /\ Accounts' = Accounts
          /\ run'.effects = 0 /\ run'.exit \in {"no", "ok", "error"}
        BY <2>3, RecordSteps
    <3>2. Accounts' = {} /\ run.effects = 0 /\ run.exit = "no"
        BY <3>1, BeforeFacts DEF Unaccounted
    <3> QED
        BY <3>1, <3>2, ViewBegins DEF Audited!Next, Unaccounted
  <2>4. CASE ~Record(written)
    <3>1. /\ rows' = rows \/ (Accounts' # {} /\ (OnRecord' <=> OnRecord))
          /\ run'.effects = run.effects /\ run'.seen = run.seen
          /\ run'.decision = run.decision
          /\ run.exit = "no" /\ run'.exit \in {"no", "ok", "error"}
          /\ run'.pc \notin Before
          /\ rows' = rows /\ run'.exit # "no" => run.effects = 0 \/ Accounts # {}
        BY <2>1, <2>4, AccountSteps
    <3>2. CASE rows' = rows
        BY <2>2, <3>1, <3>2, ViewEnds DEF Audited!Next, Unaccounted
    <3>3. CASE rows' # rows
      <4>1. (JudgedWide => Allowed)' <=> (JudgedWide => Allowed)
          BY <2>2, <3>1, <3>3, VerdictStays
      <4>2. Audited!Account
          BY <3>1, <3>3, <4>1 DEF Audited!Account
      <4> QED
          BY <3>1, <4>2 DEF Audited!Next, Unaccounted
    <3> QED
        BY <3>2, <3>3
  <2> QED
      BY <2>3, <2>4
<1>2. ASSUME Command PROVE (Audited!Next \/ UNCHANGED view) /\ Unaccounted'
  <2>1. request' = request
      BY <1>2 DEF Command, Begin, Admit, Gate, Preflight, Connect, ReadSchema, Phrase, Executor,
                  Confirm, Execute, Present, Disconnect, Emit, World
  <2>2. CASE Execute
    <3>1. /\ rows' = rows /\ run.effects = 0 /\ run'.effects \in {0, 1}
          /\ run'.seen = run.seen /\ run'.decision = run.decision
          /\ run.exit = "no" /\ run'.exit = "no"
          /\ run.pc = "execute" /\ run'.pc \notin Before
        BY <2>2, ExecuteSteps
    <3>2. Unaccounted'
        BY <3>1 DEF Unaccounted
    <3>3. CASE run'.effects = 0
        BY <2>1, <3>1, <3>2, <3>3, ViewStays
    <3>4. CASE run'.effects = 1
      <4>1. Accounts = {} /\ Accounts' = Accounts /\ (OnRecord' <=> OnRecord)
          BY <3>1 DEF Unaccounted, Before, Accounts, OnRecord
      <4>2. (JudgedWide => Allowed)' <=> (JudgedWide => Allowed)
          BY <2>1, <3>1, <4>1, VerdictStays
      <4>3. JudgedWide => Allowed
          BY <3>1 DEF JudgedWide, Careful, Judged
      <4>4. Audited!Effect
          BY <3>1, <3>4, <4>1, <4>2, <4>3 DEF Audited!Effect
      <4> QED
          BY <3>2, <4>4 DEF Audited!Next
    <3> QED
        BY <3>1, <3>3, <3>4
  <2>3. CASE run.pc \in Before /\ run.pc # "execute"
    <3>1. run'.effects = 0 /\ run'.exit = "no" /\ rows' = rows
        BY <1>2, <2>3, EarlySteps
    <3>2. Accounts' = {} /\ run.effects = 0 /\ run.exit = "no"
        BY <2>3, <3>1, BeforeFacts DEF Unaccounted, Accounts
    <3> QED
        BY <3>1, <3>2, ViewBegins DEF Audited!Next, Unaccounted
  <2>4. CASE Present \/ Disconnect \/ Emit
    <3>1. /\ rows' = rows /\ run'.effects = run.effects /\ run'.seen = run.seen
          /\ run'.decision = run.decision
          /\ run.exit = "no" /\ run'.exit \in {"no", "ok", "error"}
          /\ run'.pc \notin Before
          /\ run'.exit # "no" => run.effects = 0 \/ Accounts # {}
        BY <2>4, LateSteps
    <3> QED
        BY <2>1, <3>1, ViewEnds DEF Audited!Next, Unaccounted
  <2> QED
      BY <1>2, <2>2, <2>3, <2>4
      DEF Command, Begin, Admit, Gate, Preflight, Connect, ReadSchema, Phrase, Executor,
          Confirm, At, Before
<1>3. ASSUME Migrate \/ UNCHANGED vars PROVE (Audited!Next \/ UNCHANGED view) /\ Unaccounted'
  <2>1. UNCHANGED <<request, run, rows>>
      BY <1>3 DEF Migrate, MigrateBegin, MigrateConfirm, MigrateStatement, Others, vars
  <2> QED
      BY <2>1, ViewStays DEF Unaccounted, Accounts
<1>4. ASSUME Kill PROVE (Audited!Next \/ UNCHANGED view) /\ Unaccounted'
  <2>1. run.pc # "ended" /\ End("killed") /\ rows' = rows /\ request' = request
      BY <1>4 DEF Kill, At, NoRow, World
  <2>2. run \in RunType /\ run.exit = "no"
      BY <2>1, TypeParts DEF Careful, Typed, Accounted
  <2>3. /\ run'.pc = "ended" /\ run'.exit = "killed" /\ run'.seen = run.seen
        /\ run'.decision = run.decision /\ run'.effects = run.effects
      BY <2>1, <2>2, EndFields
  <2>4. ((JudgedWide => Allowed)' <=> (JudgedWide => Allowed)) /\ Accounts' = Accounts
      BY <2>1, <2>3, VerdictStays DEF OnRecord, Accounts
  <2>5. Audited!Kill
      BY <2>2, <2>3, <2>4 DEF Audited!Kill
  <2> QED
      BY <2>3, <2>5 DEF Audited!Next, Unaccounted, Before
<1> QED
    BY <1>1, <1>2, <1>3, <1>4 DEF Next

\* insert, update, delete and query implement AuditedEffect: a statement that the gate
\* calls wide takes effect only once it was confirmed, and a run that ends of itself
\* after its statement took effect leaves a row about it, whichever step failed.
THEOREM ImplementsAuditedEffectHolds == Spec => ImplementsAuditedEffect
<1>1. Init => Unaccounted /\ Audited!Init
    BY DEF Init, Unaccounted, Accounts, Audited!Init
<1>2. Careful /\ Unaccounted /\ [Next]_vars => Unaccounted'
    BY AuditedStep
<1>3. Careful /\ Unaccounted /\ [Next]_vars
        => [Audited!Next]_<<JudgedWide => Allowed, run.effects, Accounts # {},
                           IF run.exit \in {"ok", "error"} THEN "returned" ELSE run.exit>>
    BY AuditedStep DEF view, Over
<1> QED
    BY <1>1, <1>2, <1>3, CarefulHolds, PTL DEF Spec, ImplementsAuditedEffect, Audited!Spec
=============================================================================
