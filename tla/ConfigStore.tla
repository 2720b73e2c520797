---------------------------- MODULE ConfigStore ----------------------------
(***************************************************************************)
(* config.json and its integrity records: core/config-integrity.ts,        *)
(* core/schema-cache-persistence.ts and the directory mode of              *)
(* configModule.write in core/config.ts.  There is no lock.                *)
(*                                                                         *)
(* A write replaces up to three files by rename: the detached anchor (when *)
(* one is configured), the record next to config.json, and config.json.    *)
(* When a rename fails, the records published so far are put back from     *)
(* snapshots.  An agent-mode process reads config.json first and the       *)
(* records after it, and refuses a document they do not hash to.  `dbcli   *)
(* schema' reads the document, replaces its schema cache and writes it     *)
(* back, in agent mode too.  Anyone may edit config.json by hand.          *)
(*                                                                         *)
(* A document is its settings (connections, permission, everything that is *)
(* not the cache) and its schema cache.  A record is represented by the    *)
(* document whose hash it holds.                                           *)
(***************************************************************************)
EXTENDS Naturals

CONSTANTS Procs,       \* dbcli processes
          Settings,    \* what the settings of a document may be
          Caches,      \* what its schema cache may be
          NoCache,     \* the cache of a document that has none yet
          MaxWrites,   \* bound: writes in a behaviour
          MaxEdits,    \* bound: edits by hand in a behaviour
          MaxFaults    \* bound: crashes and failed rollbacks in a behaviour

ASSUME StoreAssumption == /\ NoCache \in Caches
                          /\ {MaxWrites, MaxEdits, MaxFaults} \subseteq Nat

VARIABLES file,        \* what each of the three files holds
          anchored,    \* DBCLI_CONFIG_INTEGRITY_ANCHOR_DIR is set
          proc,        \* what each process does
          approved,    \* history: settings written by a process outside agent mode
          writes,      \* history: how many writes were started
          edits,       \* history: how many edits by hand there were
          faults,      \* history: how many crashes and failed rollbacks
          moved        \* history: what changed, since a writer read config.json,
                       \* other than by its own completed steps

vars == <<file, anchored, proc, approved, moved, writes, edits, faults>>

Documents == [settings : Settings, cache : Caches]
Missing == [settings |-> "missing"]
Unread  == [settings |-> "unread"]

Records == {"anchor", "local"}
Files == Records \cup {"config"}

Jobs == {"agent read", "agent cache", "cache", "admin"}

\* pc: where it stands; doc: the document it has read, then the one it writes;
\* snap: its snapshot of the records.
NoSnapshot == [r \in Records |-> Unread]
Idle == [pc |-> "idle", job |-> "admin", doc |-> Missing, snap |-> NoSnapshot]

AgentJobs == {"agent read", "agent cache"}
AgentMode(p) == proc[p].job \in AgentJobs

----------------------------------------------------------------------------

\* A project without records (and perhaps without config.json), or one that has
\* been set up.
Init == /\ anchored \in BOOLEAN
        /\ \/ \E d \in Documents \cup {Missing} :
                /\ file = [f \in Files |-> IF f = "config" THEN d ELSE Missing]
                /\ approved = {}
           \/ \E d \in Documents :
                /\ file = [f \in Files |-> IF f = "anchor" /\ ~anchored THEN Missing ELSE d]
                /\ approved = {d.settings}
        /\ proc = [p \in Procs |-> Idle]
        /\ moved = [p \in Procs |-> {}]
        /\ writes = 0 /\ edits = 0 /\ faults = 0

At(p, pc) == proc[p].pc = pc
Goto(p, pc) == proc' = [proc EXCEPT ![p].pc = pc]
Return(p) == proc' = [proc EXCEPT ![p] = Idle]

\* f changes, not by a step of q's own: for the writers under way, it has moved.
What(f) == IF f = "config" THEN "config" ELSE "records"
Moved(q, f) == IF proc[q].pc = "idle" \/ proc[q].job = "agent read"
                 THEN moved[q] ELSE moved[q] \cup {What(f)}

Replace(p, f, content) ==
    /\ file' = [file EXCEPT ![f] = content]
    /\ moved' = [q \in Procs |-> IF q = p THEN moved[q] ELSE Moved(q, f)]

\* Mutant: a cache write goes on without a document.
ReadConfig_Creates(p, j) ==
    /\ At(p, "idle")
    /\ file["config"] = Missing => j \in {"admin", "cache"}
    /\ proc' = [proc EXCEPT ![p] =
                  [Idle EXCEPT !.job = j, !.doc = file["config"],
                               !.pc = IF j \notin AgentJobs THEN "compose"
                                      ELSE IF anchored THEN "check anchor" ELSE "check local"]]
    /\ moved' = [moved EXCEPT ![p] = {}]
    /\ UNCHANGED <<file, anchored, approved, writes, edits, faults>>

\* A command starts and reads the document.  Without one, only an admin command
\* goes on (init).  In agent mode the document has to be verified.
ReadConfig(p, j) ==
    /\ At(p, "idle")
    /\ file["config"] = Missing => j = "admin"
    /\ proc' = [proc EXCEPT ![p] =
                  [Idle EXCEPT !.job = j, !.doc = file["config"],
                               !.pc = IF j \notin AgentJobs THEN "compose"
                                      ELSE IF anchored THEN "check anchor" ELSE "check local"]]
    /\ moved' = [moved EXCEPT ![p] = {}]
    /\ UNCHANGED <<file, anchored, approved, writes, edits, faults>>

\* Mutant: an anchor that is not there yet is skipped.
CheckAnchor_Optional(p) ==
    /\ At(p, "check anchor")
    /\ \/ file["anchor"] \in {proc[p].doc, Missing} /\ Goto(p, "check local")
       \/ file["anchor"] \notin {proc[p].doc, Missing} /\ Return(p)
    /\ UNCHANGED <<file, anchored, approved, moved, writes, edits, faults>>

\* verifyRecord on the anchor: a missing one, or another hash, is refused.
CheckAnchor(p) ==
    /\ At(p, "check anchor")
    /\ \/ file["anchor"] = proc[p].doc /\ Goto(p, "check local")
       \/ file["anchor"] # proc[p].doc /\ Return(p)
    /\ UNCHANGED <<file, anchored, approved, moved, writes, edits, faults>>

\* The record next to the config may be missing when the anchor vouches.
CheckLocal(p) ==
    /\ At(p, "check local")
    /\ \/ /\ file["local"] = proc[p].doc \/ (file["local"] = Missing /\ anchored)
          /\ Goto(p, "compose")
       \/ /\ file["local"] # proc[p].doc
          /\ file["local"] = Missing => ~anchored
          /\ Return(p)
    /\ UNCHANGED <<file, anchored, approved, moved, writes, edits, faults>>

\* A command that only reads has what it needs; one that would write is refused
\* (approval, validation, the shape of the document) or cancelled.
Use(p) ==
    /\ At(p, "compose")
    /\ Return(p)
    /\ UNCHANGED <<file, anchored, approved, moved, writes, edits, faults>>

\* writeProtectedFileWithIntegrity is called with d.
Stage(p, d) ==
    /\ writes < MaxWrites /\ writes' = writes + 1
    /\ proc' = [proc EXCEPT ![p] =
                  [pc |-> "stage", job |-> proc[p].job, doc |-> d,
                   snap |-> [r \in Records |-> IF r = "local" \/ anchored THEN Unread ELSE Missing]]]

\* An admin command writes settings of its own and keeps the rest.
ComposeAdmin(p) ==
    /\ At(p, "compose") /\ proc[p].job = "admin"
    /\ \E s \in Settings :
         /\ Stage(p, [settings |-> s,
                      cache |-> IF proc[p].doc = Missing THEN NoCache ELSE proc[p].doc.cache])
         /\ approved' = approved \cup {s}
    /\ UNCHANGED <<file, anchored, moved, edits, faults>>

\* Mutant: the candidate document is made from some other settings.
ComposeCache_Defaults(p) ==
    /\ At(p, "compose") /\ proc[p].job \in {"cache", "agent cache"}
    /\ \E c \in Caches : \E s \in Settings : Stage(p, [settings |-> s, cache |-> c])
    /\ approved' = IF AgentMode(p) THEN approved ELSE approved \cup {proc[p].doc.settings}
    /\ UNCHANGED <<file, anchored, moved, edits, faults>>

\* persistSchemaCache replaces the cache of the document it has read.
ComposeCache(p) ==
    /\ At(p, "compose") /\ proc[p].job \in {"cache", "agent cache"}
    /\ \E c \in Caches : Stage(p, [proc[p].doc EXCEPT !.cache = c])
    /\ approved' = IF AgentMode(p) THEN approved ELSE approved \cup {proc[p].doc.settings}
    /\ UNCHANGED <<file, anchored, moved, edits, faults>>

\* The snapshots are read concurrently, in any order.  With both, and the
\* temporaries written, the renames start.
Snapshot(p, r) ==
    /\ At(p, "stage") /\ proc[p].snap[r] = Unread
    /\ \E next \in {"stage", "anchor", "local"} :
         /\ next = "stage" <=> \E q \in Records \ {r} : proc[p].snap[q] = Unread
         /\ next = "anchor" => anchored
         /\ next = "local" => ~anchored
         /\ proc' = [proc EXCEPT ![p] = [proc[p] EXCEPT !.pc = next,
                                          !.snap = [proc[p].snap EXCEPT ![r] = file[r]]]]
    /\ UNCHANGED <<file, anchored, approved, moved, writes, edits, faults>>

\* A snapshot or a temporary fails: nothing has been published.
StageFails(p) ==
    /\ At(p, "stage")
    /\ Return(p)
    /\ UNCHANGED <<file, anchored, approved, moved, writes, edits, faults>>

\* publish: rename the temporary over the file.
Publish(p, f) ==
    /\ At(p, f)
    /\ Replace(p, f, proc[p].doc)
    /\ CASE f = "anchor" -> Goto(p, "local")
         [] f = "local"  -> Goto(p, "config")
         [] f = "config" -> Return(p)
    /\ UNCHANGED <<anchored, approved, writes, edits, faults>>

\* Mutant: only the record published last is put back.
PublishFails_Last(p, f) ==
    /\ At(p, f)
    /\ IF f = "config" /\ ~anchored THEN Goto(p, "undo local")
       ELSE IF f = "local" /\ anchored THEN Goto(p, "undo anchor")
       ELSE Return(p)
    /\ UNCHANGED <<file, anchored, approved, moved, writes, edits, faults>>

\* The rename fails: what was published is restored, last first.
PublishFails(p, f) ==
    /\ At(p, f)
    /\ IF f = "config" THEN Goto(p, "undo local")
       ELSE IF f = "local" /\ anchored THEN Goto(p, "undo anchor")
       ELSE Return(p)
    /\ UNCHANGED <<file, anchored, approved, moved, writes, edits, faults>>

\* restore, whose errors are swallowed.
Undo(p, r) ==
    /\ At(p, IF r = "local" THEN "undo local" ELSE "undo anchor")
    /\ \/ /\ Replace(p, r, proc[p].snap[r])
          /\ UNCHANGED faults
       \/ /\ faults < MaxFaults /\ faults' = faults + 1
          /\ moved' = [moved EXCEPT ![p] = @ \cup {What(r)}]
          /\ UNCHANGED file
    /\ IF r = "local" /\ anchored THEN Goto(p, "undo anchor") ELSE Return(p)
    /\ UNCHANGED <<anchored, approved, writes, edits>>

\* The process is killed.
Crash(p) ==
    /\ ~At(p, "idle")
    /\ Return(p)
    /\ faults < MaxFaults /\ faults' = faults + 1
    /\ moved' = [moved EXCEPT ![p] = {"config", "records"}]
    /\ UNCHANGED <<file, anchored, approved, writes, edits>>

\* Somebody edits config.json; the record beside it may be deleted, and, where an
\* anchor makes it secondary, replaced.  The anchor is out of reach.
Edit ==
    /\ edits < MaxEdits /\ edits' = edits + 1
    /\ \E f \in {"config", "local"}, d \in Documents \cup {Missing} :
         /\ f = "config" => d # Missing
         /\ f = "local" => d = Missing \/ anchored
         /\ file' = [file EXCEPT ![f] = d]
         /\ moved' = [q \in Procs |-> Moved(q, f)]
    /\ UNCHANGED <<anchored, proc, approved, writes, faults>>

Step(p) == \/ \E j \in Jobs : ReadConfig(p, j)
           \/ CheckAnchor(p) \/ CheckLocal(p) \/ Use(p)
           \/ ComposeAdmin(p) \/ ComposeCache(p)
           \/ \E r \in Records : Snapshot(p, r) \/ Undo(p, r)
           \/ StageFails(p)
           \/ \E f \in Files : Publish(p, f) \/ PublishFails(p, f)
           \/ Crash(p)

Next == (\E p \in Procs : Step(p)) \/ Edit

Spec == Init /\ [][Next]_vars
----------------------------------------------------------------------------
(***************************************************************************)
(* Properties                                                              *)
(***************************************************************************)

Steps == {"idle", "check anchor", "check local", "compose", "stage",
          "undo local", "undo anchor"} \cup Files

\* Every variable has its type.
ProcType == [pc : Steps, job : Jobs, doc : Documents \cup {Missing},
             snap : [Records -> Documents \cup {Missing, Unread}]]
TypeOK ==
    /\ file \in [Files -> Documents \cup {Missing}]
    /\ anchored \in BOOLEAN
    /\ proc \in [Procs -> ProcType]
    /\ approved \subseteq Settings
    /\ writes \in 0 .. MaxWrites /\ edits \in 0 .. MaxEdits /\ faults \in 0 .. MaxFaults
    /\ moved \in [Procs -> SUBSET {"config", "records"}]

\* The process has accepted the document it read.
Accepted == {"compose", "stage", "undo local", "undo anchor"} \cup Files

\* What an agent-mode process goes by, and what it writes with a schema cache,
\* are settings that some process outside agent mode has written: an edit by
\* hand, however it falls among the steps, rollbacks and crashes of any number
\* of writers, does not become an agent's configuration.
AgentSettingsApproved ==
    \A p \in Procs : AgentMode(p) /\ proc[p].pc \in Accepted
                       => proc[p].doc.settings \in approved

Writing == {"stage", "undo local", "undo anchor"} \cup Files
Leaves(p) == proc[p].pc \in Writing /\ proc'[p].pc = "idle"
Live == IF anchored THEN Files ELSE Files \ {"anchor"}

\* A write that was not killed, whose rollback did not fail and during which
\* nobody else changed a file, has replaced all the files or none.
WriteIsAtomic ==
    [][\A p \in Procs : Leaves(p) /\ moved'[p] = {} =>
         \/ \A f \in Live : file'[f] = proc[p].doc
         \/ /\ file'["config"] = file["config"]
            /\ \A r \in Records : file'[r] = proc[p].snap[r] \/ proc[p].snap[r] = Unread]_vars

\* Storing a schema cache changes nothing else of the document that is on disk,
\* as long as that is the document it was read from.
CacheWriteIsNarrow ==
    [][\A p \in Procs :
         /\ At(p, "config") /\ file'["config"] # file["config"]
         /\ proc'[p].pc = "idle" /\ proc[p].job \in {"cache", "agent cache"}
         /\ "config" \notin moved[p]
         => file'["config"].settings = file["config"].settings]_vars
=============================================================================
