----------------------------- MODULE SchemaCache -----------------------------
(***************************************************************************)
(* The schema cache: `schema', `schema --refresh' and `schema --reset'     *)
(* (commands/schema.ts) read the tables of the database and store what     *)
(* they saw twice, in layered files (core/schema-writer.ts: an index, a    *)
(* file for the hot tables and one for the cold ones) and in config.json   *)
(* (core/schema-cache-persistence.ts).  Every command reads the cache      *)
(* with its configuration (core/config.ts with core/schema-loader.ts): a   *)
(* v2 configuration prefers the layered files, a v1 configuration does     *)
(* not know them.                                                          *)
(*                                                                         *)
(* Nothing locks the cache.  A command may fail at any table and any file, *)
(* or be killed, and the next one finds what it left: an index without     *)
(* its files, hot tables that are cold by now.  Tables change while they   *)
(* are read.                                                               *)
(***************************************************************************)
EXTENDS Naturals, FiniteSets

CONSTANTS Tables,
          Commands,     \* those that run schema, one run after the other
          MaxVersion,   \* bound: versions of a table
          MaxRuns,      \* bound: runs of schema
          MaxChanges    \* bound: changes of the database

ASSUME CacheAssumption == {MaxVersion, MaxRuns, MaxChanges} \subseteq Nat

VARIABLES layout,       \* the version of the configuration
          db,           \* the version of each table in the database
          index,        \* index.json
          hot,          \* hot-schemas.json
          cold,         \* the files of cold/
          config,       \* the schema in config.json
          command,      \* the runs of schema
          expected,     \* history: what the cache should say, if that is known
          left          \* how many runs and changes are still to come

files == <<index, hot, cold, config>>
vars == <<layout, db, index, hot, cold, config, command, expected, left>>

\* A schema gives each table its version, or 0 when there is no such table.
Schema == [Tables -> 0 .. MaxVersion]
Empty == [t \in Tables |-> 0]
Has(s) == {t \in Tables : s[t] # 0}

NoIndex == [state |-> "none", hot |-> {}, cold |-> {}]

\* stores: there was no cache, or --force; before: the schema a refresh has read; todo: the
\* tables still to be scanned; seen: what was scanned; largest: the tables it calls hot;
\* listed (history): the tables there were when it asked; disturbed (history): another
\* command has written since this one read the configuration.
Idle == [pc |-> "start", kind |-> "scan", stores |-> FALSE, before |-> Empty, todo |-> {},
         seen |-> Empty, largest |-> {}, listed |-> {}, disturbed |-> FALSE]

Init == /\ layout \in {1, 2}
        /\ db \in Schema
        /\ index = NoIndex /\ hot = Empty /\ cold = Empty /\ config = Empty
        /\ command = [c \in Commands |-> Idle]
        /\ expected = [known |-> TRUE, refreshed |-> FALSE, says |-> Empty, listed |-> {}]
        /\ left = [runs |-> MaxRuns, changes |-> MaxChanges]

\* Others create tables, drop them and change them.
Change == /\ left.changes > 0 /\ left' = [left EXCEPT !.changes = @ - 1]
          /\ \E t \in Tables, v \in 0 .. MaxVersion : db[t] # v /\ db' = [db EXCEPT ![t] = v]
          /\ UNCHANGED <<layout, command, expected>> /\ UNCHANGED files
----------------------------------------------------------------------------
(***************************************************************************)
(* Reading the cache                                                       *)
(***************************************************************************)

\* getTableSchema: the hot tables first, then the file the index names.
Layered == [t \in Tables |->
              IF index.state # "whole" \/ t \notin index.hot \cup index.cold THEN 0
              ELSE IF hot[t] # 0 THEN hot[t]
              ELSE IF t \in index.cold THEN cold[t] ELSE 0]

\* An index that is not there or does not parse, and one that leads to nothing, leave it
\* to config.json.
Cached == IF layout = 2 /\ Has(Layered) # {} THEN Layered ELSE config
----------------------------------------------------------------------------
(***************************************************************************)
(* A run of schema                                                         *)
(***************************************************************************)

At(c, pc) == command[c].pc = pc
Set(c, pc) == command' = [command EXCEPT ![c].pc = pc]
End(c) == command' = [command EXCEPT ![c] = Idle]
World == UNCHANGED <<layout, db, left>>
Quiet == UNCHANGED files /\ UNCHANGED expected

Unknown == [known |-> FALSE, refreshed |-> FALSE, says |-> Empty, listed |-> {}]

Disturb(c, next) == command' = [d \in Commands |->
                                  IF d = c THEN next
                                  ELSE IF At(d, "start") THEN Idle
                                  ELSE [command[d] EXCEPT !.disturbed = TRUE]]

\* The command writes: what the cache says is unknown until it is done, and others that
\* are under way have been disturbed.
Write(c, pc) == /\ Disturb(c, [command[c] EXCEPT !.pc = pc])
                /\ expected' = Unknown

\* It was the last write, and the cache says what the command has seen.
Stored(c, next, refreshed, says) ==
    /\ Disturb(c, next)
    /\ expected' = IF command[c].disturbed
                     THEN Unknown
                     ELSE [known |-> TRUE, refreshed |-> refreshed, says |-> says,
                           listed |-> command[c].listed]

\* The configuration is read, at once: a refresh starts from the cache, the others ask
\* config.json whether there is one.
Begin(c) ==
    /\ At(c, "start") /\ UNCHANGED <<layout, db>> /\ Quiet
    /\ left.runs > 0 /\ left' = [left EXCEPT !.runs = @ - 1]
    /\ \E kind \in {"scan", "refresh", "reset"}, force \in BOOLEAN :
         LET there == IF kind = "refresh" THEN Cached ELSE config
         IN /\ kind = "reset" /\ ~force => Has(there) = {}
            /\ command' = [command EXCEPT
                 ![c].kind = kind, ![c].stores = force \/ Has(there) = {},
                 ![c].before = IF kind = "refresh" THEN there ELSE Empty,
                 ![c].pc = IF kind = "reset" THEN "clear" ELSE "list"]

\* --reset empties config.json first, so that at least what is stale is gone.
ClearConfig(c) ==
    /\ At(c, "clear") /\ World /\ UNCHANGED <<index, hot, cold>>
    /\ config' = Empty
    /\ Write(c, "remove")

\* Then rm removes the layered files; it may leave some, and nobody looks at how it ended.
RemoveLayers(c) ==
    /\ At(c, "remove") /\ World /\ UNCHANGED config
    /\ index' \in {NoIndex, index} /\ hot' \in {Empty, hot} /\ cold' \in {Empty, cold}
    /\ IF index' = NoIndex /\ hot' = Empty /\ cold' = Empty
         THEN Stored(c, [command[c] EXCEPT !.pc = "list"], FALSE, Empty)
         ELSE Write(c, "list")

\* The tables are listed.
List(c) ==
    /\ At(c, "list") /\ World /\ Quiet
    /\ command' = [command EXCEPT ![c].pc = "scanning", ![c].todo = Has(db),
                                  ![c].listed = Has(db)]

See(c, t) == /\ db[t] # 0
             /\ command' = [command EXCEPT ![c].todo = @ \ {t}, ![c].seen[t] = db[t]]

\* Mutant: a table that cannot be read is left out, and the others go on.
Answer_Skips(c) ==
    /\ At(c, "scanning") /\ World /\ Quiet
    /\ \E t \in command[c].todo : See(c, t) \/ command' = [command EXCEPT ![c].todo = @ \ {t}]

\* mapWithConcurrency: the answers come in any order.  A table is seen as it is then; one
\* that has been dropped is an error, and an error of one is the end of them all.
Answer(c) ==
    /\ At(c, "scanning") /\ World /\ Quiet
    /\ \E t \in command[c].todo : See(c, t) \/ End(c)

\* What it has seen is stored, unless there was a cache already and nobody said --force; a
\* refresh that has found no difference stores the date.
Scanned(c) ==
    /\ At(c, "scanning") /\ command[c].todo = {} /\ World /\ Quiet
    /\ LET run == command[c]
       IN IF run.kind = "refresh" /\ run.seen = run.before THEN Set(c, "config")
          ELSE IF ~run.stores THEN End(c)
          ELSE command' = [command EXCEPT ![c].pc = "index",
                                          ![c].kind = IF @ = "refresh" THEN @ ELSE "scan"]

\* SchemaWriter.save: the index is written in place ...
OpenIndex(c) ==
    /\ At(c, "index") /\ World /\ UNCHANGED <<hot, cold, config>>
    /\ index' = [NoIndex EXCEPT !.state = "torn"]
    /\ Write(c, "tables")

\* ... and says of each table whether it is hot, which the largest fifth is, rounded up.
WriteIndex(c) ==
    /\ At(c, "tables") /\ World /\ UNCHANGED <<hot, cold, config>>
    /\ \E largest \in SUBSET Has(command[c].seen) :
         /\ Cardinality(largest) = (Cardinality(Has(command[c].seen)) + 4) \div 5
         /\ index' = [state |-> "whole", hot |-> largest,
                      cold |-> Has(command[c].seen) \ largest]
         /\ Disturb(c, [command[c] EXCEPT !.pc = "hot", !.largest = largest])
    /\ expected' = Unknown

Part(s, S) == [t \in Tables |-> IF t \in S THEN s[t] ELSE 0]

\* Mutant: the file is updated, not replaced.
WriteHot_Updates(c) ==
    /\ At(c, "hot") /\ World /\ UNCHANGED <<index, cold, config>>
    /\ hot' = [t \in Tables |-> IF t \in command[c].largest THEN command[c].seen[t] ELSE hot[t]]
    /\ Write(c, "cold")

\* AtomicFileWriter replaces the file.
WriteHot(c) ==
    /\ At(c, "hot") /\ World /\ UNCHANGED <<index, cold, config>>
    /\ hot' = Part(command[c].seen, command[c].largest)
    /\ Write(c, "cold")

\* A file of cold tables is written only when there are some.
WriteCold(c) ==
    /\ At(c, "cold") /\ World /\ UNCHANGED <<index, hot, config>>
    /\ LET rest == Has(command[c].seen) \ command[c].largest
       IN cold' = IF rest = {} THEN cold ELSE Part(command[c].seen, rest)
    /\ Write(c, "config")

\* configModule.merge keeps every table that there was, dropped or not.
Merged(c) == [t \in Tables |-> IF command[c].kind = "refresh" /\ command[c].seen[t] = 0
                                 THEN command[c].before[t] ELSE command[c].seen[t]]

\* persistSchemaCache: the cache fields of config.json, and nothing else of it.
WriteConfig(c) ==
    /\ At(c, "config") /\ World /\ UNCHANGED <<index, hot, cold>>
    /\ config' = Merged(c)
    /\ Stored(c, Idle, command[c].kind = "refresh", command[c].seen)

\* Any step may fail, which ends the command where it is, as does a kill.
Fail(c) == /\ ~At(c, "start") /\ End(c)
           /\ World /\ Quiet

Run(c) == \/ Begin(c) \/ ClearConfig(c) \/ RemoveLayers(c) \/ List(c)
          \/ Answer(c) \/ Scanned(c) \/ OpenIndex(c) \/ WriteIndex(c) \/ WriteHot(c)
          \/ WriteCold(c) \/ WriteConfig(c) \/ Fail(c)

Next == Change \/ \E c \in Commands : Run(c)

Spec == Init /\ [][Next]_vars
----------------------------------------------------------------------------
(***************************************************************************)
(* Properties                                                              *)
(***************************************************************************)

TypeOK ==
    /\ layout \in {1, 2}
    /\ {db, hot, cold, config} \subseteq Schema
    /\ index \in [state : {"none", "torn", "whole"}, hot : SUBSET Tables, cold : SUBSET Tables]
    /\ command \in [Commands -> [pc : {"start", "clear", "remove", "list", "scanning",
                                       "index", "tables", "hot", "cold", "config"},
                                 kind : {"scan", "refresh", "reset"}, stores : BOOLEAN,
                                 before : Schema, todo : SUBSET Tables, seen : Schema,
                                 largest : SUBSET Tables, listed : SUBSET Tables,
                                 disturbed : BOOLEAN]]
    /\ expected \in [known : BOOLEAN, refreshed : BOOLEAN, says : Schema,
                     listed : SUBSET Tables]
    /\ left \in [runs : 0 .. MaxRuns, changes : 0 .. MaxChanges]

\* What the next command reads is what the last one stored: each of its tables as it was
\* seen, and no other; nothing after a reset that could not scan.  That holds whatever
\* commands have failed or were killed before, of which the next finds the remains, and
\* until another begins to write.  Dropped tables apart, which a refresh may keep.
LastStoreIsRead ==
    expected.known => \A t \in Tables :
        \/ Cached[t] = expected.says[t]
        \/ expected.refreshed /\ expected.says[t] = 0

\* A cache is of the whole database or is not stored: each table that was there when the
\* tables were listed is found in it, whichever of them could not be read or had been
\* dropped by then.
NoneIsSkipped == expected.known => \A t \in expected.listed : Cached[t] # 0

\* commands/schema.ts:579: a table that was dropped is removed by a refresh.
RefreshRemoves == expected.known => \A t \in Tables : expected.says[t] = 0 => Cached[t] = 0
=============================================================================
