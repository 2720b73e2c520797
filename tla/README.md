# dbcli: TLA+ models and proofs

dbcli is a command line client for MySQL, PostgreSQL, SQLite, MongoDB, Redis and
Elasticsearch, made to be run by people and by coding agents. One invocation is one
process. What makes it more than a sequence of calls is what the processes share and
survive: an audit file several of them append to, a configuration several of them rewrite
and agents have to trust, a schema cache in four files, an envelope of the last failure,
artifacts that say what was verified, an interactive shell whose input does not wait for
it, writes that have to be confirmed and recorded whatever fails, and a proxy that watches
many connections at once. This directory models those parts, checks them with TLC and
proves the central properties with TLAPS.

1. Inventory
2. Modules
3. Runs
4. Proofs
5. What disagrees with the documentation
6. What is not modelled
7. Plan

## 1. Inventory

The sources are under `src/src/`. "Hard" names what a unit test hardly reaches;
"correct" what would make the component right.

| Component | State | Operations and interactions | Hard | Correct |
|---|---|---|---|---|
| Audit lock (`core/audit/lock.ts`) | one lockfile beside the audit file; the deadline of an attempt | `withLock` = acquire, operation, release; used by every audit write | takeover of a stale lockfile, release by path, a kill between create and write | mutual exclusion of prompt processes, every call returns, an orphan goes away |
| Audit log (`core/audit/logger.ts`, `utils/jsonl-rotation.ts`, `core/audit/reader.ts`, `commands/audit.ts`) | `<conn>.jsonl` and `.1`; counters private to each process | append, rotate, read both files, `audit clear` | counters that do not see other writers, torn lines, a rotation between two reads | growth bounded, nothing read twice, rotated only when full |
| Configuration store (`core/config-integrity.ts`, `core/schema-cache-persistence.ts`, `core/config.ts`) | `config.json`, the record beside it, a detached anchor | admin write, schema cache write, agent read and verification, rollback | several renames without a lock, rollback over another writer, edits by hand | an agent goes by approved settings, a write is all or nothing |
| SQL shell (`commands/shell.ts`, `core/repl/repl-engine.ts`, `commands/shell-*.ts`, `commands/write-gate-guard.ts`) | submit queue, buffer, the question readline holds, the statement under way | lines, Ctrl-C, Ctrl-D, confirmation, send, reconnect, audit rows | readline does not wait; lost connections; closing in the middle | confirmed before sent, rows around every send, no replay of what is unsafe, drain and exit |
| Proxy (`proxy/*.ts`) | a session per client, the active query, a chain of event writes, two sockets | accept, connect upstream, relay, record, close | pipelining, either socket failing at any time, a write failing in the chain | the record is complete and consistent, neither socket is left behind |
| Audit integration (`core/audit/integration-helper.ts`, `commands/mutation-audit.ts`) | a cached logger | one row per decision and outcome; strict form throws | a row that cannot be written | as in the shell |
| One-shot commands (`commands/query.ts`, `insert.ts`, `update.ts`, `delete.ts`, `core/data-executor.ts`) | none that outlives the command, except rows and the recovery envelope | permission, gate, decision row, effect, row, disconnect, handlers | any step failing after the effect; a kill; a schema that changes between verdict and effect | a wide write is confirmed, an effect has a row, a row that says success is true |
| Write gate, permission guard (`commands/write-gate.ts`, `core/permission/*`) | none | verdict on one statement | SQL text | pure |
| Migrations (`commands/migrate.ts`, `core/ddl-executor.ts`) | database schema | dry run or a list of statements | no transaction, lost answers | success means all of it |
| Schema refresh (`core/schema-updater.ts`, `core/concurrent-lock.ts`, `core/error-recovery.ts`, `core/atomic-writer.ts`) | its own lockfile, a backup | lock, diff, write, restore | lockfile published by `mv`; configuration read before the lock | no refresh lost; no command uses it yet |
| Schema cache (`commands/schema.ts`, `core/schema-cache-persistence.ts`, `schema-writer.ts`, `schema-loader.ts`) | `index.json`, hot and cold tables, `config.json` | scan, refresh, reset; read by every command | a failure or kill between two files, left-overs of earlier runs, two commands at once | the next command reads what the last one stored |
| Recovery (`core/recovery/*`, `commands/recover.ts`) | last envelope, the run of a plan, a cursor the agent keeps | write envelope, apply under a gate, verify, walk with `--next` | one temporary name for all writers; timeouts of children; an envelope replaced in the middle of a walk | nothing runs beyond its leave, a plan is walked whole, apply ends |
| Verification (`commands/verify.ts`, `assert.ts`, `core/verify/*`, `core/verification/*`) | artifact files, the baseline the agent carries | preflight, run after the write, link into place, list, prune | kills and failed links, prunes from old readings at once | "verified" is earned, no half artifact is read, the latest are kept |
| Fan-out and reports (`core/query-fanout.ts`, `core/report/*`, `utils/bounded-parallel.ts`) | a worker pool | map with a limit, timeout race | a rejected worker; a timed-out query that goes on | order kept, limit kept |
| Other shells (`commands/es-shell.ts`, Redis and MongoDB adapters) | as the SQL shell | as the SQL shell | as the SQL shell | as the SQL shell |
| Adapters (`adapters/*`) | a connection | execute, map errors | lost replies | `retrySafe` is said when it must be |
| Blacklist, projection (`core/blacklist-*.ts`, `core/field-projection.ts`) | none | match, mask | strings | pure |
| Credentials, `.env` (`core/env-file-writer.ts`, `commands/credential.ts`) | one file | read, modify, write | two writers | nothing lost |
| Hints and history (`utils/update-hint-state.ts`, `core/repl/history-manager.ts`) | side files, a third lockfile | best effort | as the audit lock | losing it is allowed |
| Saved queries, analysis, presentation | none over time | read, compute, print | data, not behaviour | pure |

The audit log is written under the audit lock; the shell, the one-shot commands and
`audit clear` write or remove the audit log; the shell and the commands read the
configuration the store keeps. A command that fails leaves the envelope `recover` works
from; the steps of its plan are commands again. `schema` writes the cache into the files the
configuration is read from. The proxy shares with the rest only the JSONL rotation.
`PROJECT.json` has the same list with the status of every component, and the hazards,
each at its line with the properties that would catch it, or with a note where the code
has the defect and the properties leave it out.

## 2. Modules

| Module | Models | Used by |
|---|---|---|
| `Mutex` | a lock: enter when nobody is inside, leave | the abstract specification `AuditLock` implements |
| `AuditLock` | `AuditLockManager` | `MCAuditLock`, `Logs_proofs` |
| `AuditedEffect` | a statement that is cleared, takes effect, and is accounted for | the abstract specification `Shell` and `WriteCommand` implement |
| `AuditLog` | `AuditLogger`, `shouldRotate`, `rotate`, `readEntries`, `audit clear` | `MCAuditLog`, `AuditLog_proofs` |
| `ConfigStore` | writes, rollback and verification of `config.json` | `MCConfigStore`, `ConfigStore_proofs` |
| `Shell` | one session of `dbcli shell` on SQL | `Shell_proofs` |
| `Proxy` | `ProxyServer` and `ProxySession` | `Logs_proofs` |
| `WriteCommand` | one run of `insert`, `update`, `delete` or `query`, beside a run of `migrate` | `WriteCommand_proofs` |
| `Recovery` | the last envelope, `recover --apply`, `recover --next` | `MCRecovery`, `Recovery_proofs` |
| `Verification` | `verify`, `assert`, the artifact directory, `verification prune` | `MCVerification`, `Verification_proofs` |
| `SchemaCache` | `schema`, `--refresh`, `--reset` and reading the cache | `MCSchemaCache`, `SchemaCache_proofs` |

The MC modules only add symmetry sets, and `MCRecovery` three plans. `Shell`, `Proxy` and
`WriteCommand` need none and are checked directly. `Logs_proofs` extends `AuditLock` and
`Proxy` both, which is why the names of `Proxy` that every module has carry its name
(`ProxyInit`, `ProxyNext`, `ProxySpec`, `ProxyTypeOK`, `proxyVars`). A definition whose name has a suffix,
such as `JudgeAge_Never`, is a plausible mistake in that operation; it is in no behaviour
of the specification, and `PROJECT.json` pairs every checked property with one that breaks
it.

### AuditLock and Mutex

One action per `await` of `lock.ts`, so a step of another process, a crash or a tick of the
clock can fall between any two. The program counter names the next one: `budget` (the
check of the deadline), `exists`, `read`, `judge` (the age), `remove`, `create`
(`open(..., 'wx')`), `write`, `critical`, `release`, `sleep`. The lockfile has a creator, an
age, and a flag that says whether its JSON was written: between `open` and `writeFile` it
is empty, and a reader then fails to parse it. Any call of an attempt may reject, the `rm`
of a stale lockfile included (`AttemptFails`): `tryAcquireLock` catches that, the process
sleeps, and the lockfile stays as it is. `Release` removes whatever file is at the path, or
nothing when its `rm` fails. Time is an age per timestamp, saturated one beyond the threshold it is compared
with, so that the clock needs no bound.

`Mutex` is what the users of a lock rely on. `ImplementsMutex` maps its `inside` to the
processes between a successful `open` and the end of `rm`. It holds of `TimelySpec`, where
nobody is killed, `rm` does not fail and no process sits for a whole stale threshold (ten
times the budget in the code) between taking a timestamp and being done with it. Without
those assumptions it does not hold, and `ExclusionUntilTakeover` says exactly what is left.
`OrphanRecovered` cannot hold while the `rm` fails each time; it assumes that from some
point on no attempt that meets a complete orphan is killed or ended by a call that rejects.

### AuditedEffect

What an operator can rely on, at the prompt as with a one-shot command: a statement takes
effect only once it is `cleared`, never after it was `accounted` for by an audit row, and
neither the handler nor the process lets go of one that took effect without such a row,
except when killed. In `Shell` cleared means permitted, not blacklisted and, in tier two,
confirmed for this very statement; the row is the outcome row; the next statement starts
anew. In `WriteCommand` it means that what the gate called wide was confirmed with the
phrase, at a terminal, with a row on record if `audit.strict` asks for it; the row is any
that is not about a decision. What permission and blacklist say of a one-shot command is an
input of the model, so that nothing is claimed of it there.

### AuditLog

Built on the lock as an abstraction (`holder`, at most one), except that `audit clear`
deletes the lockfile and so frees the lock under its holder. A file is its lines and its
number of bytes. Each process has its own `count`, taken by `SyncSize` and `SyncEntries`
outside the lock before its first write and updated by its own lines only, and a
descriptor, which follows the file when it is renamed or removed: `appendFile` opens and
writes in two steps. An append may stop half way; the next line then lands on the torn one
and neither parses. `rotate` swallows errors and the counters are reset all the same. The
reader reads `.1`, then the current file, in two steps, and rejects a file with a line that
does not parse unless it is the last.

### ConfigStore

A document is its settings and its schema cache; a record stands for the document it
hashes to. A process is doing one of four jobs: an agent-mode command (`agent read`),
`dbcli schema` in agent mode (`agent cache`) or out of it (`cache`), or a command that
changes settings (`admin`). An agent reads `config.json` first and the records after it;
a writer snapshots the records, renames each file into place (anchor, record, document),
and on a failed rename puts the records back from its snapshot in further steps. There is
no lock in the code, and none in the model. `Edit` is a person with an editor: he may
change `config.json` and the record beside it, not the anchor.

### Shell

`Deliver` brings a chunk of up to `MaxChunk` lines, as a paste or type-ahead does: readline
emits them all although the first one paused the interface. `queue` is the submit queue,
`pc` the place of the handler of the line under way: `ask` (the gate waits for the typed
phrase), `decide`, `refuse`, `attempt` (the row before), `send`, `sent`, `reconnect`,
`outcome` (the row after), `done`, `child` (a subcommand has the terminal). `question` is
readline holding a callback. `Interrupt` is Ctrl-C, `Hangup` Ctrl-D. Statements are a
read, a write, one of tier two (`drop`, which has to be confirmed), one on a blacklisted
table, and one that is half typed; the classification of SQL text is represented by that.
The session starts with any of terminal or pipe, `audit.strict` or not, query-only or not.

### Proxy

Every event handler of `server.ts` is one action on the record of its connection, because
JavaScript runs it to its end; what it leaves for later is in `chain`, the promise chain
of `events.ts`, in which an event write and a continuation of `flush()` are steps of their
own. `early` keeps what the client sent before the upstream connection was there. A
message is a query, an execute or anything else, as far as the analyzers tell them apart; a
response has an end (`CommandComplete`), an error, or neither, as those to an empty query
and to a `Parse` alone, after which the query stays active and its response awaited. Which
query the server really answered is history (`reply`) the proxy does not see, as is which
queries had a response without end (`unended`).

### WriteCommand

A request is what was asked for and by whom (`verb`, `tier`, `force`, `dryRun`, `recovery`,
`attended`, `strict`); every one of them is an initial state. `pc` is the place of the
command: `gate` (text of a query), `schema` (the verdict on a WHERE by the schema just read),
`phrase`, `record` (the row about the decision), `executor`, `confirm`, `execute`, `row`,
`present`, `disconnect`, and the two handlers `failed` (query's own) and `caught` (around
everything), then `emit`. Every step may throw, after the effect as well; an answer may be
lost after the effect. `migration` is another process that may drop the index the verdict
went by, one statement after the other without a transaction; DDL operations that are one
statement are represented by that removal. Verdicts on text are inputs.

### Recovery

An envelope is the command that wrote it. `emitter` has one inode each; `OpenTemp`,
`WriteTemp` and `RenameTemp` are the three system calls of `writeLastEnvelopeSync`, on
whatever the fixed temporary name stands for at the time, so that an emitter may cut a
file another holds open. `user` is one `recover --apply` or one agent that walks with
`--next`, reading the envelope anew at each turn. A step is what the gate tells apart: the
shape of its command, the risk the envelope declares, whether it needs a person. `child` is
its process: alive, with an exit code, with pipes open, and perhaps with an heir that
inherited them; `Timeout` kills the child, not the heir.

### Verification

A verifier makes two runs, as an agent does: the preflight, and the run after the write with
`--baseline` set to what the preflight counted. Others write to the database at any time, so
each count is any number. `made` is date and status inside an artifact; its name is a number,
since names break ties of dates. A file is absent, half written or whole. `Readers` read the
directory name by name while others link and delete, choose with `selectPrunePlan`, and
delete one file at a time. What a guard accepts of a SQL text is an input (passes, fails,
throws).

### SchemaCache

A schema gives each table a version, or 0 when it is not there. `Layered` is
`getTableSchema` over the layered files, `Cached` the choice of `loadConfig` between them
and `config.json`, which depends on `layout`, the version of the configuration. A run
scans the tables in any order while `Change` alters the database, then writes `index.json`
(not atomically), the hot file (a fifth of the tables, rounded up), the cold file and
`config.json`, any of which may fail. `expected` (history) is what the last command stored
and which tables there were when it asked for them; it is unknown from the first write of
a command until its last, and after two commands wrote at the same time.

## 3. Runs

| Run | Instance | Shows |
|---|---|---|
| `lock_fair` | 2 processes, budget 1, stale 2, any crashes and rejecting calls; 13,684 states | exclusion until the first takeover; every `withLock` returns; a complete orphan lockfile goes away once attempts succeed |
| `lock_timely` | 3 processes, symmetric, `TimelySpec`; 18,877 states | no takeover, implements `Mutex`, which is exclusion |
| `log_two` | 2 processes, caps of 1 entry and 3 bytes, 4 writes, 1 fault, a reader, one `audit clear`; 2.4 million states | growth bounded by the number of writers and faults; no row twice; causes of an early rotation |
| `config_agents` | 2 processes with any job, 2 settings, 2 caches, 2 writes, 1 edit, 1 crash or failed rollback, with and without anchor; 2.9 million states | approved settings; all or nothing; a cache write is narrow |
| `shell_session` | 3 lines in chunks of up to 2, 2 lost connections, 1 row that cannot be written; 275,428 states | confirmation, rows, replay and the end of a session; implements `AuditedEffect` |
| `shell_strict` | 1 line | *violated*: `audit.strict` does not hold back a statement without attempt row |
| `proxy_sessions` | a client that reconnects, 2 messages, responses with an end, an error or neither, 1 failed write; 196,387 states | record complete and consistent; sockets follow each other |
| `write_commands` | every request, operations of up to 3 statements, 2 rows that cannot be written; 1.3 million states | a wide write is confirmed; rows are true; a migration is whole; implements `AuditedEffect` |
| `recovery` | 2 commands that fail, 3 plans (one that reads, one that forks, one whose envelope calls a write harmless), every `--allow-write`; 142,704 states | envelopes are whole; apply keeps to its leave and ends; a walk is complete |
| `verification` | 1 verifier with its two runs, 2 older artifacts, 1 file that is none, 2 readers or prunes, 2 guards, 2 days; 2.8 million states | what is verified is earned; readers see whole artifacts; the latest are kept |
| `schema_cache` | 2 tables of 2 versions, 2 commands, 3 runs, 1 change of the database, both layouts; 2.9 million states | the next command reads what the last one stored; no table that was listed is missing |
| `cache_removed` | 1 command, 2 runs, 1 change | *violated*: a refresh keeps a table that was dropped |

**Why the bounds are enough.** Two processes are what a stale takeover, a stale counter
and overlapping writes take; the lock has a third in `lock_timely`, so that one can wait
while another releases to a third. The budget and the stale threshold need only be in the
order of the code (`TimingAssumption`), and the ages saturate beyond them. With a cap of one
entry every line but the first finds the file full, so four writes contain rotations by
both processes, in any order, with one torn append or failed rename and a clear between
any of them; the cap of bytes alone decides nothing there (lines of two sizes are beyond
five minutes), and the proofs are what covers it: they lift all of this to any numbers. In `config_agents` two settings and two
caches tell apart what was approved, what was edited and what a lost update would bring
back; one fault is a crash or a failed rollback in every place. Three lines in chunks of
two put a line in the queue ahead of a question, behind it and as its answer; two losses
send one statement three times. In the proxy sessions share nothing but the writer and
`writeFailed`, so one client whose connection may be replaced by another reaches what
two would; two messages are what pipelining takes.

`write_commands` has one command, because a run shares with others only the log (in
`AuditLog`) and the table (here with the migration); two lost rows are a decision row and
the row about the effect; three statements are a first, a middle and a last. In `recovery` two
emitters are what it takes to meet at the temporary name, and to replace an envelope in
the middle of a walk; the plans contain every shape, a fork, a step for a person and a
verifying step that the gate lets through and one that it does not. In `verification` two prunes
delete from different readings while a third process publishes; with `Keep` 1 and three
artifacts there is one to keep, one to delete and one that becomes the latest in between;
the days make an artifact old after it was read. In `schema_cache` two tables are a hot and
a cold one; the second of three runs finds the remains of the first, and the third shows
what it stored over them, with two commands at once in any two of them. The theorems lift
all four to any bounds, except for the liveness property `ApplyEnds`.

`CHECK_DEADLOCK FALSE` stands where the system may stop: a log whose writes are used up, a
session that has ended, a proxy whose client is done.

**Fairness.** `AuditLock`: `WF(Step(p))` for each process, since a process that is not killed
gets its next event-loop turn, and `WF(Tick)`. Starting a write is not fair and crashing
is not fair. `OrphanRecovered` assumes in its own statement that processes keep trying
and that, from some point on, those that meet an orphan are not killed and their calls do
not reject.
`Shell`: `WF(Process)`, which says that the event loop runs and that the database, a
subcommand and the audit log come back with something, be it an error; the operator owes
nothing, so `ClosedEnds` may not assume that a question is answered. `Proxy`: `WF(Proxy(c))`
(event writes and connection attempts come back) and `WF(Hangup(c))` (a socket that was ended
is closed); clients and the server owe nothing. `Recovery`: `WF(Apply)`, recover's own
steps, and `WF(Timeout)`, its timer; a child, and what a child has started, owe nothing,
which is why `ApplyEnds` names the heir that keeps the pipes open. The other modules have
safety properties only and no fairness.

## 4. Proofs

Everything below holds for any number of processes, any caps, sizes, budgets and bounds
allowed by the named assumptions (`TimingAssumption`, `LogAssumption`, `StoreAssumption`,
`ShellAssumption`, `ProxyAssumption`, `WriteAssumption`, `PlanAssumption`,
`VerificationAssumption`, `CacheAssumption`), which mostly say that numbers are numbers,
that `NoOne` is no process, and that the stale threshold is above the budget.
`LogAssumption` also says that there are finitely many processes and that the cap of entries
is positive, which the bound of the file needs: with a cap of zero entries every process
would still write one. `PlanAssumption` is the schema of an envelope;
`VerificationAssumption` also says that there are finitely many artifacts, with distinct
names.

| Module | Theorem | Argument |
|---|---|---|
| `Logs_proofs` | `TypeCorrect`, `ExclusionUntilTakeoverHolds` | Exclusion is not inductive: it needs that, before any takeover, whoever is between `create` and the end of `release` owns the lockfile that exists. A takeover is the one step that separates the two. |
| | `NoTakeoverHolds`, `TimelyImplementsMutex` | The timestamp of a holder and what a reader has seen of it are younger than the threshold as long as everybody is prompt, so `JudgeAge` never finds it stale. Each step then maps to `Enter`, `Leave` or a stutter of `Mutex`. |
| | `BudgetIsKeptHolds` | The safety half of `WithLockReturns`: every step but the beginning of another attempt within the budget lowers `StepsLeft`; what was spent of the budget is not given back before the lock is held, and `Tick` always takes more of it. |
| | `OrphanIsDoomedHolds` | The safety half of `OrphanRecovered`. Only the owner writes to a lockfile or takes it for his own, and an orphan's owner holds nothing, so that no step but a removal and `Tick` changes it. What a reader has seen of its age only grows, so that an attempt that begins once it is past the threshold ends at `RemoveStale`, unless a call of it rejects. |
| | `ProxyTypeCorrect`, `AnsweredOnceHolds`, `AnswerIsItsOwnHolds`, `RecordIsCompleteHolds` | `SessionsInv` speaks of the lines of a log and of the chain behind it as one sequence: what may precede what in it (`Precedes`), which number is taken (`Numbered`), what is on the wire of a client that waits, and which query that is not on it may still be active, namely one whose response had no end (`OneAtATime`), and, while no write is lost, how many queries it holds (`Complete`, by cardinalities). The messages that came early are relayed in one step by recursion over them; a set of naturals with 0 and all successors is `Nat` (`NaturalsOf`), from which `RelayKeeps` follows: what every message preserves, all of them do. |
| | `NoneIsForgottenHolds` | The safety half of `SocketsFollow`. `Following`: from the close or error of one side on, the other is ending, or the chain holds the step that ends it, also where the handlers of a connection in the making had to do with it. |
| `AuditLog_proofs` | `TypeCorrect`, `NoRowTwiceHolds` | `RowsInv`: both files and the rows read so far have distinct whole entries older than the next one; the two files have none in common; and, between the two reads, the rows and the *current* file have none in common. Reading `.1` first is what makes the last part true: entries only move from the current file to `.1`. |
| | `PrematureOnlyIfMovedHolds` | `CountInv`: unless the file was moved under it or two lines were glued, what a process has counted is at most what the file holds, and a process about to rotate has seen its count meet a cap. |
| | `SegmentBoundHolds` | `GrowthInv`: the entries of the file have as many slots as the product of the processes with one cap; the slots a process has used are those below its own count, and it takes a new one with each line. The sum over the processes is the cardinality of that set, so that it needs no induction. |
| `ConfigStore_proofs` | `TypeCorrect`, `AgentSettingsApprovedHolds` | `TrustInv`: the record that decides (the anchor where there is one, else the one beside `config.json`) holds approved settings or nothing, and so do a writer's snapshot of it, the document it writes, and the document an agent has accepted. |
| | `WriteIsAtomicHolds`, `CacheWriteIsNarrowHolds` | `WriteInv`: as long as nobody else has touched a file, a writer's place determines which records hold its document and which still, or again, its snapshot. |
| `Shell_proofs` | `TypeCorrect` and one theorem per safety and action property of `shell_session` | `Inv`: what was sent, written and confirmed of the statement under way follows from where its handler is (`Fresh`, `Gated`, `Recorded`, `Closed`, `Ended`, `HeldBack`). |
| | `ImplementsAuditedEffectHolds` | `Permitted` is added to `Inv`: from the gate to the answer of the database the statement was let through, and one that has not been sent took no effect. Each step is then one of `AuditedEffect` or a stutter; a handler that throws is `Begin`, since it throws before anything was sent. |
| | `DrainIsFiniteHolds` | The safety half of `ClosedEnds`: `Left`, 12 for each line that waits, 10 for each connection that may still be lost and the way of the handler to the prompt, is lowered by every step of the shell, and raised by nobody once the interface is closed. |
| `WriteCommand_proofs` | `TypeCorrect`, `MigrationIsWholeHolds`, `WideIsConfirmedHolds`, `SuccessRowIsTrueHolds` | `Careful`: where a run is says which verbs get there and whether there was an effect (`Located`), what the gate was asked on the way (`Judged`), and that an effect without a row is still on its way to a handler that writes one (`Accounted`). The last is the point: after `disconnect` the run goes on to whatever it came from. |
| | `ImplementsAuditedEffectHolds` | `Unaccounted` is added to `Careful`: there is no row about a statement before it was sent. The steps before the statement, the steps that ask for a row and those after it are each one action of `AuditedEffect` or a stutter. |
| `Recovery_proofs` | `CrashLeavesItWholeHolds` | `Sole`: until two emitters overlap, the one at the file is alone, has the temporary file open, and that is not the published inode. A kill leaves the temporary file; the next emitter cuts it and is alone again. |
| | `TypeCorrect`, `AppliesWithinItsLeaveHolds` | `ApplyOK` carries `Within`, the same statement about the results so far, over each step, and `GateIsTight` about the one under way, for plans of any length. |
| | `ApplyIsFiniteHolds` | The safety half of `ApplyEnds`: `Left`, 6 for each step to come and what may still happen to the child of this one, is lowered by every step of `recover`, of a child and of its timer; a step whose time is up waits for an heir of the pipes or not at all. |
| | `WalkIsCompleteHolds` | `WalkOK`: an agent at step n has been given exactly the steps 1 to n, or those to the fork and n of the branch; a lemma about sequences adds one more. |
| `Verification_proofs` | `TypeCorrect`, `VerifiedIsEarnedHolds` | `RunOK` ties a run to its file and to the status in it: verified is earned, and the file is there exactly when the run knows that it stored it, unless it was pruned. |
| | `ReadersSeeWholeHolds` | No name ever stands for half an artifact, so what a reader takes for malformed is the stray file or was deleted. |
| | `LatestAreKeptHolds` | What a prune may delete stays behind at least `Keep` artifacts of its reading. All of those were published, whether or not they are there still, so that it cannot become one of the latest again (`StaysBehind`, by cardinalities). Dates are fixed when an artifact is made. |
| `SchemaCache_proofs` | `TypeCorrect`, `LastStoreIsReadHolds`, `NoneIsSkippedHolds` | `RunOK`: as long as nobody has disturbed a run, it knows what each file it has written says, and each table it has listed was seen or is still to be asked for. Whoever writes disturbs every other run under way, so only the writer has to be looked at. |

Every safety invariant, every action property and every refinement a passing run checks is
a theorem. Only model-checked are the five liveness properties, since they rest on fairness
and so on ENABLED, which the prover cannot treat. The part of each that is about steps is
proved: there are only so many of them (`BudgetIsKeptHolds`, `DrainIsFiniteHolds`,
`ApplyIsFiniteHolds`), what has to be done is never lost (`NoneIsForgottenHolds`), or every
step that is taken leads there (`OrphanIsDoomedHolds`). That the next step is taken is what
TLC adds, for the bounds of the runs.

## 5. What disagrees with the documentation

Two have a run that finds them and a finding in `PROJECT.json` with the quoted line.

- `shell_strict`: with `audit.strict`, a statement typed at the SQL prompt is sent although
  its attempt row could not be written, except in tier two.
- `cache_removed`: a refresh takes dropped tables out of its copy, and the merge with the
  configuration it has read puts them back (`schema.ts:580`).

The models contain the following as well. The properties that hold say where they stop;
these statements are left out of them because the code does not keep them.

- An audit lockfile whose creator was killed between creating and writing it is empty, does
  not parse, and is never judged stale (`lock.ts:147`); later audit writes are skipped.
  `OrphanRecovered` is about lockfiles that were written.
- A long-lived process does not see another's rotation and rotates a nearly empty file over
  the previous segment (`logger.ts:128`, against `jsonl-rotation.ts:7-9`). `PrematureOnlyIfMoved`
  says that it takes such a move, or a glued line.
- The reader recommends `dbcli audit clear` for a corrupted file (`reader.ts:48`), and the
  command takes a corrupted file for none (`audit.ts:412`).
- Two configuration writes that overlap, both successful, can leave a record that does not
  match the document (`config-integrity.ts:142`); agents then refuse the configuration.
- A query whose exchange ends without `CommandComplete` or an error stays active in the
  proxy's session (`postgresql.ts:55-79`), and the end of a later message, which is no query,
  is logged as its own: rightly when a statement was prepared and is then executed, wrongly
  after an empty query. `AnswerIsItsOwn` says that it takes such an exchange, or a client
  that does not wait.
- A client that disconnects while its upstream connection is being made leaves that
  connection open (`server.ts:115`); `SocketsFollow` excludes it.
- A run of `query` whose presentation fails has a row that says success and another that
  says error, where `core/audit/types.ts:5` speaks of exactly one.
- The last envelope is written "atomically" according to `docs/user/en/index.md:1929`; two
  commands that fail at the same time may publish a mixed or an empty file.
  `CrashLeavesItWhole` says that it takes such an overlap.

`ReturnsWithOutcome` and `ClosedEnds` state an exception each, which is in the code as well: a
gate that throws because the interface has closed ends its statement without an outcome
row, and Ctrl-D at a confirmation leaves a drain that waits for a callback readline has
dropped. `shell.ts` says that lines queued behind `.quit` are not run; `isClosing` stops
lines from being queued, and those that came in the same chunk are run, on the closed
interface, before the session ends. The model has this, and the properties of confirmation
and of the rows hold of such lines too. A session of the proxy normally writes two
`session_ended` events.

## 6. What is not modelled

In the modelled components: the legacy single-file configuration, `.env.local`, directory
bindings, migration to version 2 and the defaults an agent gets where there is no
configuration; the audit subcommands that only print, session ids, and the warning that
is shown once; meta commands other than `.quit`, completion, history and output in
the shell; `stop()`, `parse_error`, byte counts, responses cut into packets and the rotation
of the event file in the proxy; queries over several connections and `export`; which plan an
error leads to, the artifact `recover` writes itself and a second `recover` beside the first;
evidence receipts, except that writing one may fail; cold tables in more than one file and
the LRU tier of the schema cache.

Schema refresh by `SchemaUpdater` (`core/schema-updater.ts`, `concurrent-lock.ts`,
`error-recovery.ts`) is exported and tested, but no command calls it. Fan-out, reports and
the diagnostic timeouts start reads in parallel and put the answers in order; no state
outlives them. The hint lock guards a side file whose loss costs a hint.

Of the rest, `PROJECT.json` gives the reason for each: it is pure computation on strings or
syntax trees that the repository tests with examples and that a bounded model would only
repeat (SQL classification, lint, drift, blacklists, projection), or it is output. Most of
the repository by lines is of these kinds.

## 7. Plan

The order is by how much depends on a component and how little a test can say of it.
Done: lock, log, store, shell, proxy, write commands and migrations, the audited effect both
shell and commands implement, recovery, verification, schema cache. Next:

1. `Shell` for the Elasticsearch loop and for Redis and MongoDB, whose permission checks are
   their own.
2. The three lockfiles side by side: the hint lock and the lock of `SchemaUpdater` against
   `Mutex`, once a command uses the latter.
3. `.env.local`, bindings and the legacy mode in `ConfigStore`.

Theorems to come: an abstract specification of a document that is replaced as a whole, for
the writes of `ConfigStore` and of `Verification`.
