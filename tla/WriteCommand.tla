---------------------------- MODULE WriteCommand ----------------------------
(***************************************************************************)
(* One run of a command that sends a statement: `insert', `update' and     *)
(* `delete' (commands/insert.ts, update.ts, delete.ts with core/           *)
(* data-executor.ts) and `query' (commands/query.ts), next to a run of     *)
(* `migrate' (commands/migrate.ts with core/ddl-executor.ts) of another    *)
(* process, which changes the table that the write was judged by.          *)
(*                                                                         *)
(* The write gate calls a write wide (tier two) when its WHERE matches on  *)
(* nothing unique.  A structured write is judged by the schema read from   *)
(* the database, a query by its text.  A wide write has to be confirmed    *)
(* with a phrase, --force or not; a decision has an audit row of its own,  *)
(* written before the effect, and audit.strict is enforced on that row.    *)
(* The row about what the statement did follows the effect.  Any step may  *)
(* fail, the last one included, and an exception goes to the handler       *)
(* around the whole command, which writes a row and, with --recovery, an   *)
(* envelope.                                                               *)
(***************************************************************************)
EXTENDS Naturals, Sequences, SequencesExt

CONSTANTS MaxStatements,  \* bound: statements of one DDL operation
          MaxMissed       \* bound: audit rows that cannot be written

ASSUME WriteAssumption == {MaxStatements, MaxMissed} \subseteq Nat

VARIABLES request,    \* what the command was asked for, and by whom
          run,        \* where the run is and what it knows
          rows,       \* the audit rows it has asked for
          unique,     \* the database: the WHERE matches on a unique index
          migration,  \* the run of migrate
          missed      \* history: how many audit rows could not be written

vars == <<request, run, rows, unique, migration, missed>>

Structured == {"insert", "update"}      \* "update" is delete, too
Verbs == Structured \cup {"query", "document", "plan", "unsupported"}

\* document: the write goes to MongoDB or Redis; plan: --plan; unsupported: a write
\* to Elasticsearch.  tier: what the gate says of the text of a query.  force:
\* --force, or --yes of query; attended: a terminal on stdin and stdout.
Requests ==
    {r \in [verb : Verbs, tier : {"none", "one", "two"}, force : BOOLEAN, dryRun : BOOLEAN,
            recovery : BOOLEAN, attended : BOOLEAN, strict : BOOLEAN] :
       /\ r.verb # "query" => r.tier = "one"
       /\ r.verb \in {"query", "plan", "unsupported"} => ~r.dryRun}

\* Statements that a DDL operation stands for: a change of a column is one for each
\* option it was given, and the removal of the index is one.
Operations == [kind : {"alterColumn"}, statements : 0 .. MaxStatements]
                \cup [kind : {"dropIndex"}, statements : {1}]

Init == /\ request \in Requests
        /\ run = [pc |-> "start", after |-> "none", loaded |-> FALSE, audited |-> FALSE,
                  seen |-> "nothing", decision |-> "none", result |-> "none",
                  effects |-> 0, wide |-> FALSE, envelope |-> FALSE, exit |-> "no"]
        /\ rows = <<>>
        /\ unique \in BOOLEAN
        /\ migration \in [op : Operations, execute : BOOLEAN, force : BOOLEAN,
                          pc : {"start"}, applied : {0}, exit : {"no"}]
        /\ missed = 0

At(p) == run.pc = p
Go(p) == run' = [run EXCEPT !.pc = p]
End(code) == run' = [run EXCEPT !.pc = "ended", !.exit = code]

\* The connection is closed, and then the command goes on to p.
CloseThen(p) == run' = [run EXCEPT !.pc = "disconnect", !.after = p]

\* An exception out of a step while the adapter is connected: the finally block first.
\* query.ts has a handler of its own inside.
Thrown == IF request.verb = "query" THEN "failed" ELSE "caught"

\* Only the MongoDB adapter lets an error of its disconnect through.
CloseMayFail == request.verb = "document"

\* Mutant: the row of a write somebody declined is a success.
Succeeded_Declined(outcome) == outcome \in {"success", "dry_run", "plan", "allowed", "cancelled"}

\* mutation-audit.ts: the boolean of a row.
Succeeded(outcome) == outcome \in {"success", "dry_run", "plan", "allowed"}

Decisions == {"allowed", "declined", "refused"}

\* An audit row is asked for, and written or not.
Row(outcome, written) ==
    /\ rows' = Append(rows, [outcome |-> outcome, success |-> Succeeded(outcome),
                             written |-> written])
    /\ IF written THEN UNCHANGED missed
                  ELSE missed < MaxMissed /\ missed' = missed + 1

NoRow == UNCHANGED <<rows, missed>>
World == UNCHANGED <<request, unique, migration>>
----------------------------------------------------------------------------
(***************************************************************************)
(* Before anything is sent.                                                *)
(***************************************************************************)

\* Where a command goes once it has its configuration.
Entry == CASE request.verb = "insert"      -> "connect"
           [] request.verb = "update"      -> "admit"
           [] request.verb = "document"    -> "admit"
           [] request.verb = "plan"        -> "plan"
           [] request.verb = "unsupported" -> "unsupported"
           [] OTHER                        -> "gate"

\* The arguments are checked and the configuration is read.
Begin == /\ At("start") /\ NoRow /\ World
         /\ \/ Go("caught")
            \/ run' = [run EXCEPT !.pc = Entry, !.loaded = TRUE]

\* --plan connects to nothing.
Plan(written) == /\ At("plan") /\ World
                 /\ \/ Row("plan", written) /\ End("ok")
                    \/ NoRow /\ Go("caught")

Unsupported(written) == /\ At("unsupported") /\ World
                        /\ Row("error", written)
                        /\ End("error")

\* Permission, and for a document the blacklist, before there is a connection.
Admit == /\ At("admit") /\ NoRow /\ World
         /\ \/ Go("caught")
            \/ request.verb = "update" /\ Go("connect")
            \/ /\ request.verb = "document"
               /\ run' = IF request.dryRun
                           THEN [run EXCEPT !.pc = "row", !.result = "dry_run"]
                           ELSE [run EXCEPT !.pc = IF request.force THEN "connect"
                                                                    ELSE "confirm"]

\* query: the gate judges the text, and whoever may not write is told so first.
Gate == /\ At("gate") /\ NoRow /\ World
        /\ CASE request.tier = "none" -> Go("preflight")
             [] request.tier = "one" ->
                  \/ Go("caught")
                  \/ Go(IF request.force \/ ~request.attended THEN "preflight" ELSE "confirm")
             [] request.tier = "two" ->
                  \/ Go("caught")
                  \/ request.attended /\ Go("phrase")
                  \/ /\ ~request.attended
                     /\ run' = [run EXCEPT !.pc = "record", !.decision = "refused"]

\* query: the size guard, which may read schemas over a connection of its own.
Preflight == /\ At("preflight") /\ NoRow /\ World
             /\ Go("connect") \/ Go("caught")

Connect == /\ At("connect") /\ NoRow /\ World
           /\ \/ Go(Thrown)
              \/ Go(IF request.verb \in Structured THEN "schema" ELSE "execute")

\* Mutant: --force goes past the gate.
ReadSchema_Forced ==
    /\ At("schema") /\ NoRow /\ World
    /\ \/ CloseThen("caught")
       \/ \E gated \in {request.verb = "update" /\ ~request.dryRun /\ ~request.force
                          /\ ~unique} :
            run' = [run EXCEPT !.seen = IF unique THEN "unique" ELSE "wide",
                               !.pc = IF ~gated THEN "executor"
                                      ELSE IF request.attended THEN "phrase" ELSE "record",
                               !.decision = IF gated /\ ~request.attended THEN "refused" ELSE @]

\* update and delete: the gate judges the WHERE by the schema just read.
ReadSchema ==
    /\ At("schema") /\ NoRow /\ World
    /\ \/ CloseThen("caught")
       \/ \E gated \in {request.verb = "update" /\ ~request.dryRun /\ ~unique} :
            run' = [run EXCEPT !.seen = IF unique THEN "unique" ELSE "wide",
                               !.pc = IF ~gated THEN "executor"
                                      ELSE IF request.attended THEN "phrase" ELSE "record",
                               !.decision = IF gated /\ ~request.attended THEN "refused" ELSE @]

\* The phrase is typed, or something else is, or Ctrl-C.
Phrase == /\ At("phrase") /\ NoRow /\ World
          /\ \/ \E answer \in {"allowed", "declined"} :
                  run' = [run EXCEPT !.pc = "record", !.decision = answer]
             \/ IF request.verb = "query" THEN Go("caught") ELSE CloseThen("caught")

\* What the decision leads to, once it is on record.
Decided == CASE run.decision = "allowed" ->
                  Go(IF request.verb = "query" THEN "preflight" ELSE "executor")
             [] run.decision = "declined" ->
                  IF request.verb = "query"
                    THEN End("ok")
                    ELSE run' = [run EXCEPT !.pc = "row", !.result = "cancelled"]
             [] run.decision = "refused" ->
                  IF request.verb = "query" THEN End("error") ELSE CloseThen("refused")

\* Mutant: the row about the decision is written as every other row.
Record_Lenient(written) ==
    /\ At("record") /\ World
    /\ Row(run.decision, written)
    /\ Decided

\* recordGateDecision: with audit.strict a decision that cannot be written is an
\* exception.
Record(written) ==
    /\ At("record") /\ World
    /\ Row(run.decision, written)
    /\ IF request.strict /\ ~written
         THEN IF request.verb = "query" THEN Go("caught") ELSE CloseThen("caught")
         ELSE Decided
----------------------------------------------------------------------------
(***************************************************************************)
(* The statement.                                                          *)
(***************************************************************************)

\* DataExecutor: blacklist, permission, dry run, question.
Executor ==
    /\ At("executor") /\ NoRow /\ World
    /\ \/ CloseThen("caught")
       \/ run' = [run EXCEPT !.pc = "row", !.result = "error"]
       \/ IF request.dryRun
            THEN run' = [run EXCEPT !.pc = "row", !.result = "dry_run"]
            ELSE Go(IF request.force THEN "execute" ELSE "confirm")

\* The question, which a piped answer may answer as well; Ctrl-C is an exception.
Confirm ==
    /\ At("confirm") /\ NoRow /\ World
    /\ \/ Go(CASE request.verb = "query" -> "preflight"
               [] request.verb = "document" -> "connect"
               [] OTHER -> "execute")
       \/ run' = IF request.verb = "query"
                   THEN [run EXCEPT !.pc = "record", !.decision = "declined"]
                   ELSE [run EXCEPT !.pc = "row", !.result = "cancelled"]
       \/ IF request.verb \in Structured
            THEN run' = [run EXCEPT !.pc = "row", !.result = "error"]
            ELSE Go("caught")

\* The statement takes effect or not, and its answer arrives or not.
Execute ==
    /\ At("execute") /\ NoRow /\ World
    /\ \E effect, answered \in BOOLEAN :
         /\ answered => effect
         /\ run' = [run EXCEPT
              !.effects = IF effect THEN @ + 1 ELSE @,
              !.wide = effect /\ (IF request.verb = "update" THEN ~unique
                                  ELSE request.verb = "query" /\ request.tier = "two"),
              !.result = IF answered THEN "success" ELSE "error",
              !.pc = IF request.verb \in Structured THEN "row"
                     ELSE IF answered /\ request.verb = "document" THEN "row"
                     ELSE "disconnect",
              !.after = IF answered THEN "row" ELSE Thrown]

\* The row about what was done, and the result of a mutation is printed.
Report(written) ==
    /\ At("row") /\ World
    /\ Row(run.result, written)
    /\ CASE run.result = "error" -> IF request.recovery THEN Go("emit") ELSE End("error")
         [] request.verb = "query" -> Go("present")
         [] request.verb = "document" /\ run.result # "success" -> End("ok")
         [] OTHER -> CloseThen("end")

\* query: the result is printed, or rendered into a file.
Present == /\ At("present") /\ NoRow /\ World
           /\ End("ok") \/ Go("caught")

Disconnect ==
    /\ At("disconnect") /\ NoRow /\ World
    /\ \/ CASE run.after = "end"     -> End("ok")
            [] run.after = "refused" -> End("error")
            [] OTHER                 -> Go(run.after)
       \/ CloseMayFail /\ Go("caught")

\* Mutant: the error is marked as recorded when its row was left to the outer handler.
Failed_Marks(written) ==
    /\ At("failed") /\ World
    /\ IF request.recovery THEN NoRow ELSE Row("error", written)
    /\ run' = [run EXCEPT !.pc = "caught", !.audited = TRUE]

\* query: the handler around the connection leaves the row to the outer one when an
\* envelope has to be linked to it.
Failed(written) ==
    /\ At("failed") /\ World
    /\ IF request.recovery THEN NoRow ELSE Row("error", written)
    /\ run' = [run EXCEPT !.pc = "caught", !.audited = ~request.recovery]

\* The handler around the whole command.
Caught(written) ==
    /\ At("caught") /\ World
    /\ IF run.loaded /\ ~run.audited
         THEN Row("error", written)
         ELSE NoRow
    /\ IF request.recovery THEN Go("emit") ELSE End("error")

\* The recovery envelope is written and printed, and the process exits.
Emit == /\ At("emit") /\ NoRow /\ World
        /\ run' = [run EXCEPT !.pc = "ended", !.envelope = TRUE, !.exit = "error"]

Kill == /\ ~At("ended") /\ NoRow /\ World
        /\ End("killed")
----------------------------------------------------------------------------
(***************************************************************************)
(* migrate                                                                 *)
(***************************************************************************)

Others == UNCHANGED <<request, run, rows, missed>>

\* Not permitted, blacklisted or without SQL: an error.  Without --execute, or when
\* the operation comes to no statement at all, nothing is sent.
MigrateBegin ==
    /\ migration.pc = "start" /\ Others /\ UNCHANGED unique
    /\ \/ migration' = [migration EXCEPT !.pc = "ended", !.exit = "error"]
       \/ migration' =
            IF ~migration.execute \/ migration.op.statements = 0
              THEN [migration EXCEPT !.pc = "ended", !.exit = "ok"]
              ELSE [migration EXCEPT !.pc = IF migration.op.kind = "dropIndex" /\ ~migration.force
                                              THEN "confirm" ELSE "statement"]

MigrateConfirm ==
    /\ migration.pc = "confirm" /\ Others /\ UNCHANGED unique
    /\ \/ migration' = [migration EXCEPT !.pc = "statement"]
       \/ migration' = [migration EXCEPT !.pc = "ended", !.exit = "cancelled"]

\* Mutant: a statement that fails is passed over.
MigrateStatement_Continues ==
    /\ migration.pc = "statement" /\ Others
    /\ LET last == migration.applied + 1 = migration.op.statements
       IN \/ /\ migration' = [migration EXCEPT !.applied = @ + 1,
                                               !.pc = IF last THEN "ended" ELSE @,
                                               !.exit = IF last THEN "ok" ELSE @]
             /\ unique' = (unique /\ migration.op.kind # "dropIndex")
          \/ /\ migration' = [migration EXCEPT !.pc = "ended", !.exit = "ok"]
             /\ UNCHANGED unique

\* The statements are sent one after the other, in no transaction.  One that fails is
\* the end, and those before it stay; one whose answer is lost has taken effect.
MigrateStatement ==
    /\ migration.pc = "statement" /\ Others
    /\ \E effect, answered \in BOOLEAN :
         /\ answered => effect
         /\ unique' = (unique /\ ~(effect /\ migration.op.kind = "dropIndex"))
         /\ migration' = [migration EXCEPT
              !.applied = IF effect THEN @ + 1 ELSE @,
              !.pc = IF answered /\ migration.applied + 1 < migration.op.statements
                       THEN @ ELSE "ended",
              !.exit = IF ~answered THEN "error"
                       ELSE IF migration.applied + 1 = migration.op.statements THEN "ok"
                       ELSE @]

Rows == \E written \in BOOLEAN :
          \/ Plan(written) \/ Unsupported(written) \/ Record(written)
          \/ Report(written) \/ Failed(written) \/ Caught(written)
Command == \/ Begin \/ Admit \/ Gate \/ Preflight \/ Connect \/ ReadSchema \/ Phrase
           \/ Executor \/ Confirm \/ Execute \/ Present \/ Disconnect \/ Emit
Migrate == MigrateBegin \/ MigrateConfirm \/ MigrateStatement

Next == Rows \/ Command \/ Migrate \/ Kill

Spec == Init /\ [][Next]_vars
----------------------------------------------------------------------------
(***************************************************************************)
(* Properties                                                              *)
(***************************************************************************)

Places == {"start", "admit", "plan", "unsupported", "gate", "preflight", "connect", "schema",
           "phrase", "record", "executor", "confirm", "execute", "row", "present",
           "disconnect", "failed", "caught", "emit", "ended"}
Outcomes == {"success", "dry_run", "cancelled", "error", "plan"} \cup Decisions

TypeOK ==
    /\ request \in Requests
    /\ run \in [pc : Places, after : {"none", "end", "refused", "row", "failed", "caught"},
                loaded : BOOLEAN, audited : BOOLEAN, seen : {"nothing", "unique", "wide"},
                decision : Decisions \cup {"none"},
                result : {"none", "success", "dry_run", "cancelled", "error"},
                effects : Nat, wide : BOOLEAN, envelope : BOOLEAN,
                exit : {"no", "ok", "error", "killed"}]
    /\ rows \in Seq([outcome : Outcomes, success : BOOLEAN, written : BOOLEAN])
    /\ unique \in BOOLEAN
    /\ migration \in [op : Operations, execute : BOOLEAN, force : BOOLEAN,
                      pc : {"start", "confirm", "statement", "ended"}, applied : Nat,
                      exit : {"no", "ok", "error", "cancelled"}]
    /\ missed \in 0 .. MaxMissed

\* The rows of the run which are not about a decision of the gate.
Accounts == {i \in DOMAIN rows : rows[i].outcome \notin Decisions}

OnRecord == \E i \in DOMAIN rows : rows[i].outcome = "allowed" /\ rows[i].written

\* The write was confirmed with the phrase; with audit.strict the decision is on record,
\* should the process be killed at once.
Allowed == /\ run.decision = "allowed"
           /\ request.attended
           /\ request.strict => OnRecord

\* ADR-0010: a write that reached more rows than one was confirmed with the phrase, with
\* --force as without it, unless the index was dropped after the gate had looked.
WideIsConfirmed == run.wide => Allowed \/ (run.seen = "unique" /\ ~unique)

\* mutation-audit.ts: a row says that a statement succeeded only when it took effect,
\* once; the others that say success are of dry runs, plans and decisions.
SuccessRowIsTrue ==
    \A i \in DOMAIN rows : rows[i].success =>
       \/ run.effects = 1
       \/ rows[i].outcome \in {"plan", "allowed"}
       \/ request.dryRun

\* The gate calls the statement wide: an update by the schema, a query by its text.
JudgedWide == \/ request.verb = "update" /\ run.seen = "wide"
              \/ request.verb = "query" /\ request.tier = "two"

Audited == INSTANCE AuditedEffect
             WITH cleared   <- JudgedWide => Allowed,
                  effects   <- run.effects,
                  accounted <- Accounts # {},
                  over      <- IF run.exit \in {"ok", "error"} THEN "returned" ELSE run.exit

\* query.ts, insert.ts, update.ts, delete.ts: a statement that the gate calls wide takes
\* effect only once it was confirmed; and whatever fails after a statement took effect,
\* the rest of the connection, the presentation or a handler, a run that ends of itself
\* has a row about it.
ImplementsAuditedEffect == Audited!Spec

\* A run of migrate that reports success has applied all of its operation, and one that
\* was cancelled or only previewed nothing of it.
MigrationIsWhole ==
    /\ migration.exit = "ok" => migration.applied = IF migration.execute
                                                      THEN migration.op.statements ELSE 0
    /\ migration.exit = "cancelled" => migration.applied = 0
=============================================================================
