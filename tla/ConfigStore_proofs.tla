------------------------- MODULE ConfigStore_proofs -------------------------
(***************************************************************************)
(* Theorems about config.json and its integrity records, for any number of *)
(* processes, any settings and caches, any number of writes, edits by hand *)
(* and faults.                                                             *)
(***************************************************************************)
EXTENDS ConfigStore, TLAPS

(***************************************************************************)
(* Documents and the placeholders are different things.                    *)
(***************************************************************************)

LEMMA MissingIsNoDocument == Missing \notin Documents /\ Unread \notin Documents
<1>1. \A d \in Documents : DOMAIN d = {"settings", "cache"}
    BY DEF Documents
<1>2. DOMAIN Missing = {"settings"} /\ DOMAIN Unread = {"settings"}
    BY DEF Missing, Unread
<1>3. {"settings", "cache"} # {"settings"}
    OBVIOUS
<1> QED
    BY <1>1, <1>2, <1>3

LEMMA UnreadIsNotMissing == Unread # Missing
  BY DEF Missing, Unread

(***************************************************************************)
(* Type correctness, together with what each step of a process has behind  *)
(* it: TypeOK alone is not inductive, since a cache write needs a document *)
(* and a rollback needs snapshots.                                         *)
(***************************************************************************)

WellFormed(x) ==
    /\ x.pc \in {"check anchor", "check local"} => x.job \in AgentJobs /\ x.doc \in Documents
    /\ x.pc = "compose" /\ x.job # "admin" => x.doc \in Documents
    /\ x.pc \in Writing => x.doc \in Documents
    /\ x.pc \in Writing \ {"stage"} => \A r \in Records : x.snap[r] # Unread
    /\ x.pc \in {"check anchor", "anchor", "undo anchor"} => anchored

ShapeInv == TypeOK /\ \A p \in Procs : WellFormed(proc[p])

LEMMA IdleShape == Idle \in ProcType /\ WellFormed(Idle)
  BY DEF Idle, ProcType, Steps, Jobs, NoSnapshot, WellFormed, Writing, Files, Records

LEMMA ShapeInit == Init => ShapeInv
<1> SUFFICES ASSUME Init PROVE ShapeInv
    OBVIOUS
<1>1. file \in [Files -> Documents \cup {Missing}]
    BY DEF Init
<1>2. approved \subseteq Settings
    BY DEF Init, Documents
<1> QED
    BY <1>1, <1>2, IdleShape, StoreAssumption DEF Init, TypeOK, ShapeInv

\* One process changes to x, and nobody notices.
LEMMA ShapeUpdate ==
    ASSUME ShapeInv, NEW p \in Procs, NEW x \in ProcType, WellFormed(x),
           proc' = [proc EXCEPT ![p] = x], anchored' = anchored
    PROVE  proc' \in [Procs -> ProcType] /\ (\A q \in Procs : WellFormed(proc[q]))'
  BY DEF ShapeInv, TypeOK, WellFormed

LEMMA ShapeReturn ==
    ASSUME ShapeInv, NEW p \in Procs, Return(p), anchored' = anchored
    PROVE  proc' \in [Procs -> ProcType] /\ (\A q \in Procs : WellFormed(proc[q]))'
  BY IdleShape, ShapeUpdate DEF Return

LEMMA ShapeGoto ==
    ASSUME ShapeInv, NEW p \in Procs, NEW pc \in Steps, Goto(p, pc), anchored' = anchored,
           WellFormed([proc[p] EXCEPT !.pc = pc])
    PROVE  proc' \in [Procs -> ProcType] /\ (\A q \in Procs : WellFormed(proc[q]))'
<1>1. [proc[p] EXCEPT !.pc = pc] \in ProcType
    BY DEF ShapeInv, TypeOK, ProcType
<1>2. proc' = [proc EXCEPT ![p] = [proc[p] EXCEPT !.pc = pc]]
    BY DEF Goto
<1> QED
    BY <1>1, <1>2, ShapeUpdate

\* A writer with its snapshots goes on publishing or undoing.
LEMMA ShapeWriting ==
    ASSUME ShapeInv, NEW p \in Procs, proc[p].pc \in Writing \ {"stage"},
           NEW to \in Writing \ {"stage"}, to \in {"anchor", "undo anchor"} => anchored,
           Goto(p, to), anchored' = anchored
    PROVE  proc' \in [Procs -> ProcType] /\ (\A q \in Procs : WellFormed(proc[q]))'
<1>1. to \in Steps
    BY DEF Writing, Steps
<1> DEFINE x == [proc[p] EXCEPT !.pc = to]
<1>2. x.pc = to /\ x.doc = proc[p].doc /\ x.snap = proc[p].snap
    BY DEF ShapeInv, TypeOK, ProcType
<1>3. proc[p].doc \in Documents /\ \A r \in Records : proc[p].snap[r] # Unread
    BY DEF ShapeInv, WellFormed
<1>a. to # "compose" /\ to # "check anchor" /\ to # "check local"
    BY DEF Writing, Files, Records
<1> HIDE DEF x
<1>4. WellFormed(x)
    BY <1>2, <1>3, <1>a DEF WellFormed
<1> QED
    BY <1>1, <1>4, ShapeGoto DEF x

LEMMA MovedType ==
    ASSUME TypeOK, NEW f \in Files
    PROVE  /\ \A q \in Procs : Moved(q, f) \in SUBSET {"config", "records"}
           /\ What(f) \in {"config", "records"}
  BY DEF TypeOK, Moved, What

LEMMA ReplaceType ==
    ASSUME TypeOK, NEW p \in Procs, NEW f \in Files, NEW d \in Documents \cup {Missing},
           Replace(p, f, d)
    PROVE  /\ file' \in [Files -> Documents \cup {Missing}]
           /\ moved' \in [Procs -> SUBSET {"config", "records"}]
  BY MovedType DEF TypeOK, Replace

LEMMA StageShape ==
    ASSUME ShapeInv, NEW p \in Procs, NEW d \in Documents, Stage(p, d), anchored' = anchored
    PROVE  /\ proc' \in [Procs -> ProcType] /\ (\A q \in Procs : WellFormed(proc[q]))'
           /\ writes' \in 0 .. MaxWrites
<1> DEFINE none == [r \in Records |-> IF r = "local" \/ anchored THEN Unread ELSE Missing]
           x == [pc |-> "stage", job |-> proc[p].job, doc |-> d, snap |-> none]
<1>1. writes' \in 0 .. MaxWrites
    BY StoreAssumption DEF ShapeInv, TypeOK, Stage
<1>2. none \in [Records -> Documents \cup {Missing, Unread}]
    OBVIOUS
<1>3. x \in ProcType
    BY <1>2 DEF ShapeInv, TypeOK, ProcType, Steps
<1>4. proc' = [proc EXCEPT ![p] = x]
    BY DEF Stage
<1>5. WellFormed(x)
    BY DEF WellFormed, Writing, Files, Records
<1> HIDE DEF x
<1> QED
    BY <1>1, <1>3, <1>4, <1>5, ShapeUpdate

LEMMA ShapeStep == ShapeInv /\ [Next]_vars => ShapeInv'
<1> SUFFICES ASSUME ShapeInv, [Next]_vars PROVE ShapeInv'
    OBVIOUS
<1> USE StoreAssumption DEF At, ShapeInv
<1>1. ASSUME NEW p \in Procs, NEW j \in Jobs, ReadConfig(p, j) PROVE ShapeInv'
  <2> DEFINE x == [Idle EXCEPT !.job = j, !.doc = file["config"],
                               !.pc = IF j \notin AgentJobs THEN "compose"
                                      ELSE IF anchored THEN "check anchor" ELSE "check local"]
  <2>1. x \in ProcType
    BY <1>1 DEF ReadConfig, TypeOK, Idle, ProcType, Steps, NoSnapshot, Files
  <2>2. WellFormed(x)
    BY <1>1 DEF ReadConfig, TypeOK, Idle, WellFormed, Writing, Files, Records, AgentJobs
  <2>3. proc' = [proc EXCEPT ![p] = x]
    BY <1>1 DEF ReadConfig
  <2> HIDE DEF x
  <2> QED
    BY <1>1, <2>1, <2>2, <2>3, ShapeUpdate DEF ReadConfig, TypeOK
<1>2. ASSUME NEW p \in Procs, CheckAnchor(p) PROVE ShapeInv'
  <2> DEFINE x == [proc[p] EXCEPT !.pc = "check local"]
  <2>1. proc[p].pc = "check anchor" /\ proc[p] \in ProcType /\ WellFormed(proc[p])
    BY <1>2 DEF CheckAnchor, TypeOK
  <2>2. x.pc = "check local" /\ x.job = proc[p].job /\ x.doc = proc[p].doc
    BY <2>1 DEF ProcType
  <2>3. proc[p].job \in AgentJobs /\ proc[p].doc \in Documents
    BY <2>1 DEF WellFormed
  <2>4. "check local" \in Steps /\ "check local" \notin Writing
    BY DEF Steps, Writing, Files, Records
  <2> HIDE DEF x
  <2>5. WellFormed(x)
    BY <2>2, <2>3, <2>4 DEF WellFormed
  <2> QED
    BY <1>2, <2>4, <2>5, ShapeGoto, ShapeReturn DEF CheckAnchor, TypeOK, x
<1>3. ASSUME NEW p \in Procs, CheckLocal(p) PROVE ShapeInv'
  <2> DEFINE x == [proc[p] EXCEPT !.pc = "compose"]
  <2>1. proc[p].pc = "check local" /\ proc[p] \in ProcType /\ WellFormed(proc[p])
    BY <1>3 DEF CheckLocal, TypeOK
  <2>2. x.pc = "compose" /\ x.job = proc[p].job /\ x.doc = proc[p].doc
    BY <2>1 DEF ProcType
  <2>3. proc[p].job \in AgentJobs /\ proc[p].doc \in Documents
    BY <2>1 DEF WellFormed
  <2>4. "compose" \in Steps /\ "compose" \notin Writing
    BY DEF Steps, Writing, Files, Records
  <2> HIDE DEF x
  <2>5. WellFormed(x)
    BY <2>2, <2>3, <2>4 DEF WellFormed
  <2> QED
    BY <1>3, <2>4, <2>5, ShapeGoto, ShapeReturn DEF CheckLocal, TypeOK, x
<1>4. ASSUME NEW p \in Procs, Use(p) PROVE ShapeInv'
    BY <1>4, ShapeReturn DEF Use, TypeOK
<1>5. ASSUME NEW p \in Procs, ComposeAdmin(p) PROVE ShapeInv'
  <2>1. PICK s \in Settings :
           /\ Stage(p, [settings |-> s,
                        cache |-> IF proc[p].doc = Missing THEN NoCache ELSE proc[p].doc.cache])
           /\ approved' = approved \cup {s}
    BY <1>5 DEF ComposeAdmin
  <2>2. [settings |-> s,
         cache |-> IF proc[p].doc = Missing THEN NoCache ELSE proc[p].doc.cache] \in Documents
    BY DEF TypeOK, ProcType, Documents
  <2> QED
    BY <1>5, <2>1, <2>2, StageShape DEF ComposeAdmin, TypeOK
<1>6. ASSUME NEW p \in Procs, ComposeCache(p) PROVE ShapeInv'
  <2>1. proc[p].doc \in Documents
    BY <1>6 DEF ComposeCache, WellFormed
  <2>2. PICK c \in Caches : Stage(p, [proc[p].doc EXCEPT !.cache = c])
    BY <1>6 DEF ComposeCache
  <2>3. [proc[p].doc EXCEPT !.cache = c] \in Documents /\ proc[p].doc.settings \in Settings
    BY <2>1 DEF Documents
  <2> QED
    BY <1>6, <2>2, <2>3, StageShape DEF ComposeCache, TypeOK
<1>7. ASSUME NEW p \in Procs, NEW r \in Records, Snapshot(p, r) PROVE ShapeInv'
  <2>1. PICK next \in {"stage", "anchor", "local"} :
          /\ next = "stage" <=> \E q \in Records \ {r} : proc[p].snap[q] = Unread
          /\ next = "anchor" => anchored
          /\ next = "local" => ~anchored
          /\ proc' = [proc EXCEPT ![p] = [proc[p] EXCEPT !.pc = next,
                                           !.snap = [proc[p].snap EXCEPT ![r] = file[r]]]]
    BY <1>7 DEF Snapshot
  <2> DEFINE taken == [proc[p].snap EXCEPT ![r] = file[r]]
             x == [proc[p] EXCEPT !.pc = next, !.snap = taken]
  <2>2. file[r] \in Documents \cup {Missing} /\ file[r] # Unread
    BY MissingIsNoDocument, UnreadIsNotMissing DEF TypeOK, Files
  <2>3. proc[p].snap \in [Records -> Documents \cup {Missing, Unread}]
    BY DEF TypeOK, ProcType
  <2>4. taken \in [Records -> Documents \cup {Missing, Unread}]
    BY <2>2, <2>3
  <2>5. next # "stage" => \A q \in Records : taken[q] # Unread
    BY <2>1, <2>2, <2>3
  <2>6. proc[p].doc \in Documents
    BY <1>7 DEF Snapshot, WellFormed, Writing
  <2>7. proc' = [proc EXCEPT ![p] = x]
    BY <2>1
  <2> HIDE DEF taken
  <2>a. proc[p] \in ProcType /\ next \in Steps
    BY DEF TypeOK, Steps, Files, Records
  <2>b. x \in ProcType
    BY <2>4, <2>a DEF ProcType
  <2>c. x.pc = next /\ x.snap = taken /\ x.doc = proc[p].doc
    BY <2>a DEF ProcType
  <2>8. x \in ProcType /\ x.pc = next /\ x.snap = taken /\ x.doc = proc[p].doc
    BY <2>b, <2>c
  <2> HIDE DEF x
  <2>9. WellFormed(x)
    BY <2>1, <2>5, <2>6, <2>8 DEF WellFormed
  <2> QED
    BY <1>7, <2>7, <2>8, <2>9, ShapeUpdate DEF Snapshot, TypeOK
<1>8. ASSUME NEW p \in Procs, StageFails(p) PROVE ShapeInv'
    BY <1>8, ShapeReturn DEF StageFails, TypeOK
<1>9. ASSUME NEW p \in Procs, NEW f \in Files, Publish(p, f) PROVE ShapeInv'
  <2>1. proc[p].doc \in Documents \cup {Missing}
    BY DEF TypeOK, ProcType
  <2>2. CASE f = "config"
    BY <1>9, <2>1, <2>2, ShapeReturn, ReplaceType DEF Publish, TypeOK, Files, Records
  <2>3. ASSUME f # "config", NEW to \in {"local", "config"}, Goto(p, to) PROVE ShapeInv'
    BY <1>9, <2>1, <2>3, ShapeWriting, ReplaceType DEF Publish, TypeOK, Writing, Files, Records
  <2> QED
    BY <1>9, <2>2, <2>3 DEF Publish, Files, Records
<1>10. ASSUME NEW p \in Procs, NEW f \in Files, PublishFails(p, f) PROVE ShapeInv'
  <2>1. proc[p].pc \in Writing \ {"stage"}
    BY <1>10 DEF PublishFails, Writing, Files, Records
  <2>2. CASE f = "config"
    BY <1>10, <2>1, <2>2, ShapeWriting DEF PublishFails, TypeOK, Writing
  <2>3. CASE f = "local" /\ anchored
    BY <1>10, <2>1, <2>3, ShapeWriting DEF PublishFails, TypeOK, Writing
  <2>4. CASE ~(f = "config") /\ ~(f = "local" /\ anchored)
    BY <1>10, <2>4, ShapeReturn DEF PublishFails, TypeOK
  <2> QED
    BY <2>2, <2>3, <2>4
<1>11. ASSUME NEW p \in Procs, NEW r \in Records, Undo(p, r) PROVE ShapeInv'
  <2>1. proc[p].pc \in Writing \ {"stage"}
    BY <1>11 DEF Undo, Writing
  <2>2. proc[p].snap[r] \in Documents \cup {Missing}
    <3>1. proc[p].snap \in [Records -> Documents \cup {Missing, Unread}]
      BY DEF TypeOK, ProcType
    <3>2. \A q \in Records : proc[p].snap[q] # Unread
      BY <2>1 DEF WellFormed
    <3> QED
      BY <3>1, <3>2
  <2>3. /\ file' \in [Files -> Documents \cup {Missing}]
        /\ moved' \in [Procs -> SUBSET {"config", "records"}]
        /\ faults' \in 0 .. MaxFaults
    <3>1. CASE Replace(p, r, proc[p].snap[r]) /\ UNCHANGED faults
      BY <2>2, <3>1, ReplaceType DEF TypeOK, Files
    <3>2. CASE /\ faults < MaxFaults /\ faults' = faults + 1
               /\ moved' = [moved EXCEPT ![p] = @ \cup {What(r)}]
               /\ UNCHANGED file
      BY <3>2, MovedType DEF TypeOK, Files
    <3> QED
      BY <1>11, <3>1, <3>2 DEF Undo
  <2>4. CASE r = "local" /\ anchored
    BY <1>11, <2>1, <2>3, <2>4, ShapeWriting DEF Undo, TypeOK, Writing
  <2>5. CASE ~(r = "local" /\ anchored)
    BY <1>11, <2>3, <2>5, ShapeReturn DEF Undo, TypeOK
  <2> QED
    BY <2>4, <2>5
<1>12. ASSUME NEW p \in Procs, Crash(p) PROVE ShapeInv'
    BY <1>12, ShapeReturn DEF Crash, TypeOK
<1>13. CASE Edit
  <2>1. file' \in [Files -> Documents \cup {Missing}]
    BY <1>13 DEF Edit, TypeOK
  <2>2. moved' \in [Procs -> SUBSET {"config", "records"}]
    BY <1>13, MovedType DEF Edit, TypeOK, Files, Records
  <2>3. edits' \in 0 .. MaxEdits
    BY <1>13 DEF Edit, TypeOK
  <2>4. (\A p \in Procs : WellFormed(proc[p]))'
    BY <1>13 DEF Edit, WellFormed
  <2> QED
    BY <1>13, <2>1, <2>2, <2>3, <2>4 DEF Edit, TypeOK
<1>14. CASE UNCHANGED vars
    BY <1>14 DEF vars, TypeOK, WellFormed
<1> QED
    BY <1>1, <1>2, <1>3, <1>4, <1>5, <1>6, <1>7, <1>8, <1>9, <1>10, <1>11,
       <1>12, <1>13, <1>14 DEF Next, Step

\* The variables keep their types.
THEOREM TypeCorrect == Spec => []TypeOK
<1>1. ShapeInv => TypeOK
    BY DEF ShapeInv
<1> QED
    BY ShapeInit, ShapeStep, <1>1, PTL DEF Spec

(***************************************************************************)
(* Agents go by approved settings.  The record that decides is the anchor, *)
(* or without one the record beside config.json: it vouches for approved   *)
(* settings only, and so do the snapshots a rollback would put back there. *)
(***************************************************************************)

Decides(anch) == IF anch THEN "anchor" ELSE "local"
Vouched(d, ok) == d \in Documents => d.settings \in ok

TrustedProc(x, ok, anch) ==
    /\ x.pc \in Writing => Vouched(x.doc, ok) /\ Vouched(x.snap[Decides(anch)], ok)
    /\ x.job \in AgentJobs /\ x.pc = "compose" => Vouched(x.doc, ok)
    /\ x.job \in AgentJobs /\ x.pc = "check local" /\ anch => Vouched(x.doc, ok)

TrustInv == /\ Vouched(file[Decides(anchored)], approved)
            /\ \A p \in Procs : TrustedProc(proc[p], approved, anchored)

LEMMA IdleTrusted == \A ok, anch : TrustedProc(Idle, ok, anch)
  BY DEF TrustedProc, Idle, Writing, Files, Records

LEMMA PlaceholdersVouched == \A ok : Vouched(Missing, ok) /\ Vouched(Unread, ok)
  BY MissingIsNoDocument DEF Vouched

LEMMA VouchedGrows ==
    ASSUME NEW ok, NEW more, ok \subseteq more
    PROVE  /\ \A d : Vouched(d, ok) => Vouched(d, more)
           /\ \A x, anch : TrustedProc(x, ok, anch) => TrustedProc(x, more, anch)
  BY DEF Vouched, TrustedProc

LEMMA TrustInit == Init => TrustInv
<1> SUFFICES ASSUME Init PROVE TrustInv
    OBVIOUS
<1>1. Vouched(file[Decides(anchored)], approved)
    BY PlaceholdersVouched DEF Init, Vouched, Decides, Files, Records
<1> QED
    BY <1>1, IdleTrusted DEF Init, TrustInv

\* One process changes to x, and nothing that was approved is forgotten.
LEMMA TrustUpdate ==
    ASSUME ShapeInv, TrustInv, NEW p \in Procs, NEW x, TrustedProc(x, approved', anchored),
           proc' = [proc EXCEPT ![p] = x], anchored' = anchored, approved \subseteq approved'
    PROVE  \A q \in Procs : TrustedProc(proc'[q], approved', anchored')
  BY VouchedGrows DEF ShapeInv, TypeOK, TrustInv

LEMMA TrustReturn ==
    ASSUME ShapeInv, TrustInv, NEW p \in Procs, Return(p), UNCHANGED <<anchored, approved>>
    PROVE  \A q \in Procs : TrustedProc(proc'[q], approved', anchored')
  BY IdleTrusted, TrustUpdate DEF Return

\* A writer goes on publishing or undoing.
LEMMA TrustWriting ==
    ASSUME ShapeInv, TrustInv, NEW p \in Procs, proc[p].pc \in Writing, NEW to \in Writing,
           Goto(p, to), UNCHANGED <<anchored, approved>>
    PROVE  \A q \in Procs : TrustedProc(proc'[q], approved', anchored')
<1> DEFINE x == [proc[p] EXCEPT !.pc = to]
<1>1. /\ x.pc = to /\ x.doc = proc[p].doc /\ x.snap = proc[p].snap
    BY DEF ShapeInv, TypeOK, ProcType
<1>2. proc' = [proc EXCEPT ![p] = x]
    BY DEF Goto
<1>3. TrustedProc(proc[p], approved, anchored)
    BY DEF TrustInv
<1> HIDE DEF x
<1>4. TrustedProc(x, approved', anchored)
    BY <1>1, <1>3 DEF TrustedProc, Writing, Files, Records
<1> QED
    BY <1>2, <1>4, TrustUpdate

\* A process in agent mode has its document vouched for.
LEMMA TrustChecked ==
    ASSUME ShapeInv, TrustInv, NEW p \in Procs, NEW to \in {"check local", "compose"},
           Vouched(proc[p].doc, approved), Goto(p, to), UNCHANGED <<anchored, approved>>
    PROVE  \A q \in Procs : TrustedProc(proc'[q], approved', anchored')
<1> DEFINE x == [proc[p] EXCEPT !.pc = to]
<1>1. x.pc = to /\ x.doc = proc[p].doc
    BY DEF ShapeInv, TypeOK, ProcType
<1>2. proc' = [proc EXCEPT ![p] = x]
    BY DEF Goto
<1> HIDE DEF x
<1>3. TrustedProc(x, approved', anchored)
    BY <1>1 DEF TrustedProc, Writing, Files, Records
<1> QED
    BY <1>2, <1>3, TrustUpdate

LEMMA TrustStage ==
    ASSUME ShapeInv, TrustInv, NEW p \in Procs, NEW d \in Documents, Stage(p, d),
           d.settings \in approved', anchored' = anchored, approved \subseteq approved'
    PROVE  \A q \in Procs : TrustedProc(proc'[q], approved', anchored')
<1> DEFINE none == [r \in Records |-> IF r = "local" \/ anchored THEN Unread ELSE Missing]
           x == [pc |-> "stage", job |-> proc[p].job, doc |-> d, snap |-> none]
<1>1. Vouched(none[Decides(anchored)], approved')
    BY PlaceholdersVouched DEF Decides, Records
<1>2. x.pc = "stage" /\ x.doc = d /\ x.snap = none
    OBVIOUS
<1>3. proc' = [proc EXCEPT ![p] = x]
    BY DEF Stage
<1> HIDE DEF x, none
<1>4. TrustedProc(x, approved', anchored)
    BY <1>1, <1>2 DEF TrustedProc, Vouched, Writing, Files, Records
<1> QED
    BY <1>3, <1>4, TrustUpdate

\* A file that is not the deciding record changes, or it changes to something
\* that is vouched for.
LEMMA TrustReplace ==
    ASSUME TypeOK, TrustInv, NEW f \in Files, NEW d, file' = [file EXCEPT ![f] = d],
           f = Decides(anchored) => Vouched(d, approved), UNCHANGED <<anchored, approved>>
    PROVE  Vouched(file'[Decides(anchored')], approved')
  BY DEF TypeOK, TrustInv, Decides, Files, Records

LEMMA TrustStep == ShapeInv /\ TrustInv /\ [Next]_vars => TrustInv'
<1> SUFFICES ASSUME ShapeInv, TrustInv, [Next]_vars PROVE TrustInv'
    OBVIOUS
<1> USE DEF At
<1>a. TypeOK /\ \A p \in Procs : WellFormed(proc[p]) /\ TrustedProc(proc[p], approved, anchored)
    BY DEF ShapeInv, TrustInv
<1>b. ASSUME NEW more, file' = file, anchored' = anchored, approved' = approved \cup more
      PROVE  Vouched(file'[Decides(anchored')], approved')
    BY <1>b, VouchedGrows DEF TrustInv
<1>1. ASSUME NEW p \in Procs, NEW j \in Jobs, ReadConfig(p, j) PROVE TrustInv'
  <2> DEFINE x == [Idle EXCEPT !.job = j, !.doc = file["config"],
                               !.pc = IF j \notin AgentJobs THEN "compose"
                                      ELSE IF anchored THEN "check anchor" ELSE "check local"]
  <2>1. TrustedProc(x, approved', anchored)
    BY <1>1 DEF ReadConfig, TrustedProc, Idle, Writing, Files, Records
  <2>2. proc' = [proc EXCEPT ![p] = x]
    BY <1>1 DEF ReadConfig
  <2> HIDE DEF x
  <2> QED
    BY <1>1, <1>b, <2>1, <2>2, TrustUpdate DEF ReadConfig, TrustInv
<1>2. ASSUME NEW p \in Procs, CheckAnchor(p) PROVE TrustInv'
  <2>1. anchored
    BY <1>a, <1>2 DEF CheckAnchor, WellFormed
  <2>2. file["anchor"] = proc[p].doc => Vouched(proc[p].doc, approved)
    BY <2>1 DEF TrustInv, Decides
  <2> QED
    BY <1>2, <1>b, <2>2, TrustChecked, TrustReturn DEF CheckAnchor, TrustInv
<1>3. ASSUME NEW p \in Procs, CheckLocal(p) PROVE TrustInv'
  <2>1. anchored => Vouched(proc[p].doc, approved)
    BY <1>a, <1>3 DEF CheckLocal, WellFormed, TrustedProc
  <2>2. ~anchored /\ file["local"] = proc[p].doc => Vouched(proc[p].doc, approved)
    BY DEF TrustInv, Decides
  <2> QED
    BY <1>3, <1>b, <2>1, <2>2, TrustChecked, TrustReturn DEF CheckLocal, TrustInv
<1>4. ASSUME NEW p \in Procs, Use(p) PROVE TrustInv'
    BY <1>4, <1>b, TrustReturn DEF Use, TrustInv
<1>5. ASSUME NEW p \in Procs, ComposeAdmin(p) PROVE TrustInv'
  <2>1. PICK s \in Settings :
           /\ Stage(p, [settings |-> s,
                        cache |-> IF proc[p].doc = Missing THEN NoCache ELSE proc[p].doc.cache])
           /\ approved' = approved \cup {s}
    BY <1>5 DEF ComposeAdmin
  <2> DEFINE d == [settings |-> s,
                   cache |-> IF proc[p].doc = Missing THEN NoCache ELSE proc[p].doc.cache]
  <2>2. d \in Documents /\ d.settings \in approved'
    BY <1>a, <2>1, StoreAssumption DEF TypeOK, ProcType, Documents
  <2> HIDE DEF d
  <2>3. \A q \in Procs : TrustedProc(proc'[q], approved', anchored')
    BY <1>5, <2>1, <2>2, TrustStage DEF ComposeAdmin, d
  <2> QED
    BY <1>5, <1>b, <2>1, <2>3 DEF ComposeAdmin, TrustInv
<1>6. ASSUME NEW p \in Procs, ComposeCache(p) PROVE TrustInv'
  <2>1. proc[p].doc \in Documents
    BY <1>a, <1>6 DEF ComposeCache, WellFormed
  <2>2. PICK c \in Caches : Stage(p, [proc[p].doc EXCEPT !.cache = c])
    BY <1>6 DEF ComposeCache
  <2>3. [proc[p].doc EXCEPT !.cache = c] \in Documents
        /\ [proc[p].doc EXCEPT !.cache = c].settings = proc[p].doc.settings
    BY <2>1 DEF Documents
  <2>4. proc[p].doc.settings \in approved'
    BY <1>a, <1>6, <2>1 DEF ComposeCache, TrustedProc, AgentMode, Vouched
  <2>5. \E more : approved' = approved \cup more
    BY <1>6 DEF ComposeCache
  <2>6. \A q \in Procs : TrustedProc(proc'[q], approved', anchored')
    BY <1>6, <2>2, <2>3, <2>4, <2>5, TrustStage DEF ComposeCache
  <2> QED
    BY <1>6, <1>b, <2>5, <2>6 DEF ComposeCache, TrustInv
<1>7. ASSUME NEW p \in Procs, NEW r \in Records, Snapshot(p, r) PROVE TrustInv'
  <2>1. PICK next \in {"stage", "anchor", "local"} :
          proc' = [proc EXCEPT ![p] = [proc[p] EXCEPT !.pc = next,
                                        !.snap = [proc[p].snap EXCEPT ![r] = file[r]]]]
    BY <1>7 DEF Snapshot
  <2> DEFINE taken == [proc[p].snap EXCEPT ![r] = file[r]]
             x == [proc[p] EXCEPT !.pc = next, !.snap = taken]
  <2>2. x.pc = next /\ x.snap = taken /\ x.doc = proc[p].doc
    BY <1>a DEF TypeOK, ProcType
  <2>3. taken[Decides(anchored)] = IF r = Decides(anchored) THEN file[r]
                                   ELSE proc[p].snap[Decides(anchored)]
    BY <1>a DEF TypeOK, ProcType, Decides, Records
  <2>4. Vouched(taken[Decides(anchored)], approved) /\ Vouched(proc[p].doc, approved)
    BY <1>a, <1>7, <2>3 DEF Snapshot, TrustedProc, Writing, TrustInv
  <2>5. proc' = [proc EXCEPT ![p] = x]
    BY <2>1
  <2> HIDE DEF taken, x
  <2>6. TrustedProc(x, approved', anchored)
    BY <1>7, <2>2, <2>4 DEF Snapshot, TrustedProc
  <2> QED
    BY <1>7, <1>b, <2>5, <2>6, TrustUpdate DEF Snapshot, TrustInv
<1>8. ASSUME NEW p \in Procs, StageFails(p) PROVE TrustInv'
    BY <1>8, <1>b, TrustReturn DEF StageFails, TrustInv
<1>9. ASSUME NEW p \in Procs, NEW f \in Files, Publish(p, f) PROVE TrustInv'
  <2>1. proc[p].pc \in Writing /\ Vouched(proc[p].doc, approved)
    BY <1>a, <1>9 DEF Publish, TrustedProc, Writing
  <2>2. Vouched(file'[Decides(anchored')], approved')
    BY <1>a, <1>9, <2>1, TrustReplace DEF Publish, Replace
  <2>3. \A q \in Procs : TrustedProc(proc'[q], approved', anchored')
    BY <1>9, <2>1, TrustWriting, TrustReturn DEF Publish, Writing, Files, Records
  <2> QED
    BY <2>2, <2>3 DEF TrustInv
<1>10. ASSUME NEW p \in Procs, NEW f \in Files, PublishFails(p, f) PROVE TrustInv'
    BY <1>10, <1>b, TrustWriting, TrustReturn DEF PublishFails, TrustInv, Writing
<1>11. ASSUME NEW p \in Procs, NEW r \in Records, Undo(p, r) PROVE TrustInv'
  <2>1. proc[p].pc \in Writing
    BY <1>11 DEF Undo, Writing
  <2>2. r = Decides(anchored) => Vouched(proc[p].snap[r], approved)
    BY <1>a, <2>1 DEF TrustedProc
  <2>3. Vouched(file'[Decides(anchored')], approved')
    BY <1>a, <1>11, <2>2, TrustReplace DEF Undo, Replace, Files, TrustInv
  <2>4. \A q \in Procs : TrustedProc(proc'[q], approved', anchored')
    BY <1>11, <2>1, TrustWriting, TrustReturn DEF Undo, Writing
  <2> QED
    BY <2>3, <2>4 DEF TrustInv
<1>12. ASSUME NEW p \in Procs, Crash(p) PROVE TrustInv'
    BY <1>12, <1>b, TrustReturn DEF Crash, TrustInv
<1>13. CASE Edit
  <2>1. PICK f \in {"config", "local"}, d \in Documents \cup {Missing} :
          /\ f = "local" => d = Missing \/ anchored
          /\ file' = [file EXCEPT ![f] = d]
    BY <1>13 DEF Edit
  <2>2. Vouched(file'[Decides(anchored')], approved')
    BY <1>a, <1>13, <2>1, TrustReplace, PlaceholdersVouched DEF Edit, Decides, Files, Records
  <2> QED
    BY <1>13, <2>2 DEF Edit, TrustInv
<1>14. CASE UNCHANGED vars
    BY <1>14 DEF vars, TrustInv
<1> QED
    BY <1>1, <1>2, <1>3, <1>4, <1>5, <1>6, <1>7, <1>8, <1>9, <1>10, <1>11,
       <1>12, <1>13, <1>14 DEF Next, Step

\* However many writers, edits, crashes and failed rollbacks there are, an agent
\* goes by settings that a process outside agent mode has written.
THEOREM AgentSettingsApprovedHolds == Spec => []AgentSettingsApproved
<1>1. ShapeInv /\ TrustInv => AgentSettingsApproved
  <2> SUFFICES ASSUME ShapeInv, TrustInv, NEW p \in Procs,
                      AgentMode(p), proc[p].pc \in Accepted
               PROVE  proc[p].doc.settings \in approved
      BY DEF AgentSettingsApproved
  <2>1. proc[p].doc \in Documents
      BY DEF ShapeInv, WellFormed, Accepted, Writing, AgentMode, AgentJobs
  <2>2. Vouched(proc[p].doc, approved)
      BY DEF TrustInv, TrustedProc, Accepted, Writing, AgentMode
  <2> QED
      BY <2>1, <2>2 DEF Vouched
<1> QED
    BY ShapeInit, TrustInit, ShapeStep, TrustStep, <1>1, PTL DEF Spec

(***************************************************************************)
(* Writes that nobody disturbs: how far the files are from the snapshots   *)
(* and from the document at each step, as long as nothing has moved; and   *)
(* that the settings of a cache write are those on disk.                   *)
(***************************************************************************)

CacheJobs == {"cache", "agent cache"}

Progress(x, fl, anch) ==
    /\ x.pc = "stage" => \A r \in Records : x.snap[r] \in {Unread, fl[r]}
    /\ x.pc = "anchor" => \A r \in Records : x.snap[r] = fl[r]
    /\ x.pc = "local" => x.snap["local"] = fl["local"] /\ (anch => fl["anchor"] = x.doc)
    /\ x.pc = "config" => fl["local"] = x.doc /\ (anch => fl["anchor"] = x.doc)
    /\ x.pc = "undo anchor" => fl["local"] = x.snap["local"]

WriterInv(x, m, fl, anch) ==
    /\ x.pc \in Writing => /\ x.job # "agent read"
                           /\ ~anch => x.snap["anchor"] = Missing
                           /\ m = {} => Progress(x, fl, anch)
    /\ x.job \in CacheJobs /\ x.pc # "idle" /\ "config" \notin m
         => fl["config"] \in Documents /\ fl["config"].settings = x.doc.settings

WriteInv == /\ ~anchored => file["anchor"] = Missing
            /\ \A p \in Procs : WriterInv(proc[p], moved[p], file, anchored)

LEMMA IdleWriter == \A m, fl, anch : WriterInv(Idle, m, fl, anch)
  BY DEF WriterInv, Idle, Writing, Files, Records, CacheJobs

LEMMA WriteInit == Init => WriteInv
  BY IdleWriter DEF Init, WriteInv, Files, Records

\* What somebody else does to a file leaves a process alone, or is noted.
LEMMA Noted ==
    ASSUME ShapeInv, WriteInv, NEW p \in Procs, NEW f \in Files, NEW d,
           file' = [file EXCEPT ![f] = d]
    PROVE  WriterInv(proc[p], Moved(p, f), file', anchored)
<1>1. WriterInv(proc[p], moved[p], file, anchored)
    BY DEF WriteInv
<1>2. CASE proc[p].pc = "idle" \/ proc[p].job = "agent read"
    BY <1>1, <1>2 DEF WriterInv, Writing, Files, Records, CacheJobs
<1>3. CASE ~(proc[p].pc = "idle" \/ proc[p].job = "agent read")
  <2>1. Moved(p, f) = moved[p] \cup {What(f)} /\ Moved(p, f) # {}
      BY <1>3 DEF Moved
  <2>2. "config" \notin Moved(p, f) => /\ "config" \notin moved[p]
                                       /\ file'["config"] = file["config"]
      BY <2>1 DEF What, ShapeInv, TypeOK, Files
  <2> QED
      BY <1>1, <2>1, <2>2 DEF WriterInv
<1> QED
    BY <1>2, <1>3

\* A step that changes no file, of a process that becomes x.
LEMMA WriteUpdate ==
    ASSUME ShapeInv, WriteInv, NEW p \in Procs, NEW x, proc' = [proc EXCEPT ![p] = x],
           UNCHANGED <<file, anchored>>, \A q \in Procs \ {p} : moved'[q] = moved[q],
           WriterInv(x, moved'[p], file, anchored)
    PROVE  WriteInv'
  BY DEF ShapeInv, TypeOK, WriteInv

LEMMA WriteReturn ==
    ASSUME ShapeInv, WriteInv, NEW p \in Procs, Return(p),
           UNCHANGED <<file, anchored>>, \A q \in Procs \ {p} : moved'[q] = moved[q]
    PROVE  WriteInv'
  BY IdleWriter, WriteUpdate DEF Return

\* The process goes on to another step, without a change to any file.
LEMMA WriteGoto ==
    ASSUME ShapeInv, WriteInv, NEW p \in Procs, NEW to \in Steps, Goto(p, to),
           UNCHANGED <<file, anchored>>, \A q \in Procs \ {p} : moved'[q] = moved[q],
           proc[p].pc # "idle",
           to \in Writing => proc[p].pc \in Writing,
           moved[p] \subseteq moved'[p],
           moved'[p] = {} => to \notin {"stage", "anchor", "local", "config", "undo anchor"}
                             \/ Progress([proc[p] EXCEPT !.pc = to], file, anchored)
    PROVE  WriteInv'
<1> DEFINE x == [proc[p] EXCEPT !.pc = to]
<1>1. x.pc = to /\ x.job = proc[p].job /\ x.doc = proc[p].doc /\ x.snap = proc[p].snap
    BY DEF ShapeInv, TypeOK, ProcType
<1>2. proc' = [proc EXCEPT ![p] = x]
    BY DEF Goto
<1>3. WriterInv(proc[p], moved[p], file, anchored)
    BY DEF WriteInv
<1>4. moved'[p] = {} => Progress(x, file, anchored)
    BY <1>1 DEF Progress
<1> HIDE DEF x
<1>5. WriterInv(x, moved'[p], file, anchored)
    BY <1>1, <1>3, <1>4 DEF WriterInv
<1> QED
    BY <1>2, <1>5, WriteUpdate

LEMMA WriteStage ==
    ASSUME ShapeInv, WriteInv, NEW p \in Procs, NEW d \in Documents, Stage(p, d),
           UNCHANGED <<file, anchored, moved>>, proc[p].job # "agent read",
           proc[p].pc # "idle",
           proc[p].job \in CacheJobs => d.settings = proc[p].doc.settings
    PROVE  WriteInv'
<1> DEFINE none == [r \in Records |-> IF r = "local" \/ anchored THEN Unread ELSE Missing]
           x == [pc |-> "stage", job |-> proc[p].job, doc |-> d, snap |-> none]
<1>1. \A r \in Records : none[r] \in {Unread, file[r]}
    BY DEF WriteInv, Records
<1>2. ~anchored => none["anchor"] = Missing
    BY DEF Records
<1>3. proc' = [proc EXCEPT ![p] = x]
    BY DEF Stage
<1>4. x.pc = "stage" /\ x.job = proc[p].job /\ x.doc = d /\ x.snap = none
    OBVIOUS
<1>5. WriterInv(proc[p], moved[p], file, anchored)
    BY DEF WriteInv
<1> HIDE DEF none, x
<1>6. WriterInv(x, moved'[p], file, anchored)
    BY <1>1, <1>2, <1>4, <1>5 DEF WriterInv, Progress
<1> QED
    BY <1>3, <1>6, WriteUpdate

\* A step that replaces a file, of a process that becomes x.
LEMMA WriteReplace ==
    ASSUME ShapeInv, WriteInv, NEW p \in Procs, NEW x, proc' = [proc EXCEPT ![p] = x],
           NEW f \in Files, NEW d, Replace(p, f, d), f = "anchor" => anchored,
           anchored' = anchored,
           WriterInv(x, moved[p], file', anchored)
    PROVE  WriteInv'
<1>1. file' = [file EXCEPT ![f] = d] /\ moved'[p] = moved[p]
    BY DEF Replace, ShapeInv, TypeOK
<1>2. \A q \in Procs \ {p} : proc'[q] = proc[q] /\ moved'[q] = Moved(q, f)
    BY DEF Replace, ShapeInv, TypeOK
<1>3. \A q \in Procs \ {p} : WriterInv(proc'[q], moved'[q], file', anchored')
    BY <1>1, <1>2, Noted
<1>4. WriterInv(proc'[p], moved'[p], file', anchored')
    BY <1>1 DEF ShapeInv, TypeOK
<1>5. ~anchored' => file'["anchor"] = Missing
    BY <1>1 DEF WriteInv, ShapeInv, TypeOK, Files, Records
<1> QED
    BY <1>3, <1>4, <1>5 DEF WriteInv

LEMMA WriteStep == ShapeInv /\ WriteInv /\ [Next]_vars => WriteInv'
<1> SUFFICES ASSUME ShapeInv, WriteInv, [Next]_vars PROVE WriteInv'
    OBVIOUS
<1> USE DEF At
<1>a. /\ TypeOK
      /\ \A p \in Procs : /\ WellFormed(proc[p])
                          /\ WriterInv(proc[p], moved[p], file, anchored)
    BY DEF ShapeInv, WriteInv
<1>1. ASSUME NEW p \in Procs, NEW j \in Jobs, ReadConfig(p, j) PROVE WriteInv'
  <2> DEFINE x == [Idle EXCEPT !.job = j, !.doc = file["config"],
                               !.pc = IF j \notin AgentJobs THEN "compose"
                                      ELSE IF anchored THEN "check anchor" ELSE "check local"]
  <2>1. x.pc \notin Writing /\ x.job = j /\ x.doc = file["config"]
    BY DEF Idle, Writing, Files, Records
  <2>2. j \in CacheJobs => file["config"] \in Documents
    BY <1>a, <1>1 DEF ReadConfig, TypeOK, Files, CacheJobs
  <2>3. proc' = [proc EXCEPT ![p] = x]
    BY <1>1 DEF ReadConfig
  <2> HIDE DEF x
  <2>4. WriterInv(x, moved'[p], file, anchored)
    BY <2>1, <2>2 DEF WriterInv
  <2>5. \A q \in Procs \ {p} : moved'[q] = moved[q]
    BY <1>a, <1>1 DEF ReadConfig, TypeOK
  <2> QED
    BY <1>1, <2>3, <2>4, <2>5, WriteUpdate DEF ReadConfig
<1>2. ASSUME NEW p \in Procs, CheckAnchor(p) PROVE WriteInv'
    BY <1>2, WriteGoto, WriteReturn DEF CheckAnchor, Steps, Writing, Files, Records
<1>3. ASSUME NEW p \in Procs, CheckLocal(p) PROVE WriteInv'
    BY <1>3, WriteGoto, WriteReturn DEF CheckLocal, Steps, Writing, Files, Records
<1>4. ASSUME NEW p \in Procs, Use(p) PROVE WriteInv'
    BY <1>4, WriteReturn DEF Use
<1>5. ASSUME NEW p \in Procs, ComposeAdmin(p) PROVE WriteInv'
  <2>1. PICK s \in Settings :
           Stage(p, [settings |-> s,
                     cache |-> IF proc[p].doc = Missing THEN NoCache ELSE proc[p].doc.cache])
    BY <1>5 DEF ComposeAdmin
  <2>2. [settings |-> s,
         cache |-> IF proc[p].doc = Missing THEN NoCache ELSE proc[p].doc.cache] \in Documents
    BY <1>a, StoreAssumption DEF TypeOK, ProcType, Documents
  <2> QED
    BY <1>5, <2>1, <2>2, WriteStage DEF ComposeAdmin, CacheJobs
<1>6. ASSUME NEW p \in Procs, ComposeCache(p) PROVE WriteInv'
  <2>1. proc[p].doc \in Documents
    BY <1>a, <1>6 DEF ComposeCache, WellFormed
  <2>2. PICK c \in Caches : Stage(p, [proc[p].doc EXCEPT !.cache = c])
    BY <1>6 DEF ComposeCache
  <2>3. [proc[p].doc EXCEPT !.cache = c] \in Documents
        /\ [proc[p].doc EXCEPT !.cache = c].settings = proc[p].doc.settings
    BY <2>1 DEF Documents
  <2> QED
    BY <1>6, <2>2, <2>3, WriteStage DEF ComposeCache
<1>7. ASSUME NEW p \in Procs, NEW r \in Records, Snapshot(p, r) PROVE WriteInv'
  <2>1. PICK next \in {"stage", "anchor", "local"} :
          /\ next = "stage" <=> \E q \in Records \ {r} : proc[p].snap[q] = Unread
          /\ next = "anchor" => anchored
          /\ next = "local" => ~anchored
          /\ proc' = [proc EXCEPT ![p] = [proc[p] EXCEPT !.pc = next,
                                           !.snap = [proc[p].snap EXCEPT ![r] = file[r]]]]
    BY <1>7 DEF Snapshot
  <2> DEFINE taken == [proc[p].snap EXCEPT ![r] = file[r]]
             x == [proc[p] EXCEPT !.pc = next, !.snap = taken]
  <2>2. x.pc = next /\ x.snap = taken /\ x.doc = proc[p].doc /\ x.job = proc[p].job
    BY <1>a DEF TypeOK, ProcType
  <2>3. \A q \in Records : taken[q] = IF q = r THEN file[r] ELSE proc[p].snap[q]
    BY <1>a DEF TypeOK, ProcType
  <2>4. proc' = [proc EXCEPT ![p] = x] /\ moved' = moved /\ proc[p].pc = "stage"
    BY <1>7, <2>1 DEF Snapshot
  <2>5. ~anchored => taken["anchor"] = Missing
    BY <1>a, <2>3, <2>4 DEF WriterInv, Writing, WriteInv, Records
  <2>6. moved[p] = {} => \A q \in Records : taken[q] \in {Unread, file[q]}
    BY <1>a, <2>3, <2>4 DEF WriterInv, Writing, Progress
  <2>7. next # "stage" => \A q \in Records \ {r} : taken[q] # Unread
    BY <2>1, <2>3
  <2>8. moved[p] = {} /\ next # "stage" => \A q \in Records : taken[q] = file[q]
    BY <2>3, <2>6, <2>7
  <2> HIDE DEF taken, x
  <2>9. moved[p] = {} => Progress(x, file, anchored)
    BY <2>1, <2>2, <2>6, <2>8 DEF Progress, Records
  <2>10. WriterInv(x, moved'[p], file, anchored)
    BY <1>a, <2>2, <2>4, <2>5, <2>9 DEF WriterInv, Writing
  <2> QED
    BY <1>7, <2>4, <2>10, WriteUpdate DEF Snapshot
<1>8. ASSUME NEW p \in Procs, StageFails(p) PROVE WriteInv'
    BY <1>8, WriteReturn DEF StageFails
<1>9. ASSUME NEW p \in Procs, NEW f \in Files, Publish(p, f) PROVE WriteInv'
  <2>1. proc[p].pc = f /\ f \in Writing /\ proc[p].pc # "idle"
    BY <1>9 DEF Publish, Writing, Files, Records
  <2>2. f = "anchor" => anchored
    BY <1>a, <2>1 DEF WellFormed
  <2>3. file' = [file EXCEPT ![f] = proc[p].doc]
    BY <1>9 DEF Publish, Replace
  <2>4. CASE f = "config"
    BY <1>9, <2>4, IdleWriter, WriteReplace DEF Publish, Return
  <2>5. ASSUME f # "config", NEW to \in {"local", "config"}, Goto(p, to),
               f = "anchor" <=> to = "local"
        PROVE  WriteInv'
    <3> DEFINE x == [proc[p] EXCEPT !.pc = to]
    <3>1. x.pc = to /\ x.job = proc[p].job /\ x.doc = proc[p].doc /\ x.snap = proc[p].snap
      BY <1>a DEF TypeOK, ProcType
    <3>2. proc' = [proc EXCEPT ![p] = x]
      BY <2>5 DEF Goto
    <3> HIDE DEF x
    <3>3. moved[p] = {} => Progress(x, file', anchored)
      BY <1>a, <2>1, <2>3, <2>5, <3>1 DEF WriterInv, Progress, TypeOK, Files, Records
    <3>4. WriterInv(x, moved[p], file', anchored)
      BY <1>a, <2>1, <2>3, <2>5, <3>1, <3>3 DEF WriterInv, TypeOK, Files
    <3> QED
      BY <1>9, <2>2, <3>2, <3>4, WriteReplace DEF Publish
  <2> QED
    BY <1>9, <2>4, <2>5 DEF Publish, Files, Records
<1>10. ASSUME NEW p \in Procs, NEW f \in Files, PublishFails(p, f) PROVE WriteInv'
  <2>1. proc[p].pc = f /\ f \in Writing /\ proc[p].pc # "idle" /\ moved' = moved
    BY <1>10 DEF PublishFails, Writing, Files, Records
  <2>2. CASE f = "config"
    BY <1>10, <2>1, <2>2, WriteGoto DEF PublishFails, Steps, Writing
  <2>3. CASE f = "local" /\ anchored
    <3>1. moved[p] = {} => proc[p].snap["local"] = file["local"]
      BY <1>a, <2>1, <2>3 DEF WriterInv, Progress
    <3>2. moved[p] = {} => Progress([proc[p] EXCEPT !.pc = "undo anchor"], file, anchored)
      BY <1>a, <3>1 DEF Progress, TypeOK, ProcType
    <3> QED
      BY <1>10, <2>1, <2>3, <3>2, WriteGoto DEF PublishFails, Steps, Writing
  <2>4. CASE ~(f = "config") /\ ~(f = "local" /\ anchored)
    BY <1>10, <2>4, WriteReturn DEF PublishFails
  <2> QED
    BY <2>2, <2>3, <2>4
<1>11. ASSUME NEW p \in Procs, NEW r \in Records, Undo(p, r) PROVE WriteInv'
  <2>1. /\ proc[p].pc = IF r = "local" THEN "undo local" ELSE "undo anchor"
        /\ proc[p].pc \in Writing /\ proc[p].pc # "idle" /\ r \in Files
    BY <1>11 DEF Undo, Writing, Files
  <2>2. r = "anchor" => anchored
    BY <1>a, <2>1 DEF WellFormed
  <2>3. CASE Replace(p, r, proc[p].snap[r]) /\ r = "local" /\ anchored
    <3> DEFINE x == [proc[p] EXCEPT !.pc = "undo anchor"]
    <3>1. x.pc = "undo anchor" /\ x.job = proc[p].job /\ x.doc = proc[p].doc
          /\ x.snap = proc[p].snap
      BY <1>a DEF TypeOK, ProcType
    <3>2. proc' = [proc EXCEPT ![p] = x]
      BY <1>11, <2>3 DEF Undo, Goto
    <3>3. file' = [file EXCEPT !["local"] = proc[p].snap["local"]]
      BY <2>3 DEF Replace
    <3> HIDE DEF x
    <3>4. Progress(x, file', anchored)
      BY <1>a, <3>1, <3>3 DEF Progress, TypeOK, Files, Records
    <3>5. WriterInv(x, moved[p], file', anchored)
      BY <1>a, <2>1, <3>1, <3>3, <3>4 DEF WriterInv, TypeOK, Files, Records
    <3> QED
      BY <1>11, <2>1, <2>2, <2>3, <3>2, <3>5, WriteReplace DEF Undo
  <2>4. CASE Replace(p, r, proc[p].snap[r]) /\ ~(r = "local" /\ anchored)
    BY <1>11, <2>1, <2>2, <2>4, IdleWriter, WriteReplace DEF Undo, Return
  <2>5. CASE moved' = [moved EXCEPT ![p] = @ \cup {What(r)}] /\ UNCHANGED file
    <3>1. /\ moved[p] \subseteq moved'[p] /\ moved'[p] # {}
          /\ \A q \in Procs \ {p} : moved'[q] = moved[q]
      BY <1>a, <2>5 DEF TypeOK
    <3>2. CASE r = "local" /\ anchored
      BY <1>11, <2>1, <2>5, <3>1, <3>2, WriteGoto DEF Undo, Steps
    <3>3. CASE ~(r = "local" /\ anchored)
      BY <1>11, <2>5, <3>1, <3>3, WriteReturn DEF Undo
    <3> QED
      BY <3>2, <3>3
  <2> QED
    BY <1>11, <2>3, <2>4, <2>5 DEF Undo
<1>12. ASSUME NEW p \in Procs, Crash(p) PROVE WriteInv'
  <2>1. \A q \in Procs \ {p} : moved'[q] = moved[q]
    BY <1>a, <1>12 DEF Crash, TypeOK
  <2> QED
    BY <1>12, <2>1, WriteReturn DEF Crash
<1>13. CASE Edit
  <2>1. PICK f \in {"config", "local"}, d \in Documents \cup {Missing} :
          /\ file' = [file EXCEPT ![f] = d]
          /\ moved' = [q \in Procs |-> Moved(q, f)]
    BY <1>13 DEF Edit
  <2>2. f \in Files
    BY DEF Files, Records
  <2>3. \A q \in Procs : WriterInv(proc[q], Moved(q, f), file', anchored)
    BY <2>1, <2>2, Noted
  <2>4. ~anchored => file'["anchor"] = Missing
    BY <1>a, <2>1 DEF WriteInv, TypeOK, Files, Records
  <2> QED
    BY <1>13, <2>1, <2>3, <2>4 DEF Edit, WriteInv
<1>14. CASE UNCHANGED vars
    BY <1>14 DEF vars, WriteInv
<1> QED
    BY <1>1, <1>2, <1>3, <1>4, <1>5, <1>6, <1>7, <1>8, <1>9, <1>10, <1>11,
       <1>12, <1>13, <1>14 DEF Next, Step

\* A process changes its place only by its own steps.
LEMMA OwnStep ==
    ASSUME TypeOK, [Next]_vars, NEW p \in Procs, proc'[p].pc # proc[p].pc
    PROVE  Step(p)
<1> USE DEF TypeOK, Goto, Return
<1>1. ASSUME NEW q \in Procs, Step(q), q # p PROVE proc'[p] = proc[p]
  <2>1. ASSUME NEW j \in Jobs, ReadConfig(q, j) PROVE proc'[p] = proc[p]
      BY <1>1, <2>1 DEF ReadConfig
  <2>2. CheckAnchor(q) \/ CheckLocal(q) \/ Use(q) => proc'[p] = proc[p]
      BY <1>1 DEF CheckAnchor, CheckLocal, Use
  <2>3. ComposeAdmin(q) \/ ComposeCache(q) => proc'[p] = proc[p]
      BY <1>1 DEF ComposeAdmin, ComposeCache, Stage
  <2>4. ASSUME NEW r \in Records, Snapshot(q, r) \/ Undo(q, r) PROVE proc'[p] = proc[p]
      BY <1>1, <2>4 DEF Snapshot, Undo
  <2>5. StageFails(q) \/ Crash(q) => proc'[p] = proc[p]
      BY <1>1 DEF StageFails, Crash
  <2>6. ASSUME NEW f \in Files, Publish(q, f) \/ PublishFails(q, f) PROVE proc'[p] = proc[p]
      BY <1>1, <2>6 DEF Publish, PublishFails, Files, Records
  <2> QED
      BY <1>1, <2>1, <2>2, <2>3, <2>4, <2>5, <2>6 DEF Step
<1>2. Edit \/ UNCHANGED vars => proc' = proc
    BY DEF Edit, vars
<1> QED
    BY <1>1, <1>2 DEF Next

\* An undisturbed write replaces all the files or none.
LEMMA WriteEnds ==
    ASSUME ShapeInv, WriteInv, [Next]_vars, NEW p \in Procs, Leaves(p), moved'[p] = {}
    PROVE  \/ \A f \in Live : file'[f] = proc[p].doc
           \/ /\ file'["config"] = file["config"]
              /\ \A r \in Records : file'[r] = proc[p].snap[r] \/ proc[p].snap[r] = Unread
<1> USE DEF At
<1>a. /\ TypeOK /\ WellFormed(proc[p]) /\ WriterInv(proc[p], moved[p], file, anchored)
      /\ ~anchored => file["anchor"] = Missing
    BY DEF ShapeInv, WriteInv
<1>b. proc[p].pc \in Writing /\ proc'[p].pc = "idle"
    BY DEF Leaves
<1>c. ASSUME NEW to \in {"local", "config", "undo local", "undo anchor"}, Goto(p, to)
      PROVE  FALSE
  <2>1. proc' = [proc EXCEPT ![p] = [proc[p] EXCEPT !.pc = to]]
      BY <1>c DEF Goto
  <2>2. proc[p] \in ProcType /\ proc'[p] = [proc[p] EXCEPT !.pc = to]
      BY <1>a, <2>1 DEF TypeOK
  <2>3. proc'[p].pc = to
      BY <2>2 DEF ProcType
  <2> QED
      BY <1>b, <2>3
<1>1. Step(p)
    BY <1>a, <1>b, OwnStep DEF Writing, Files, Records
<1>2. CASE StageFails(p)
    BY <1>a, <1>b, <1>2 DEF StageFails, WriterInv, Progress
<1>3. ASSUME NEW f \in Files, Publish(p, f)
      PROVE  \A g \in Live : file'[g] = proc[p].doc
  <2>1. f = "config"
    <3>1. f = "anchor" => Goto(p, "local")
        BY <1>3 DEF Publish
    <3>2. f = "local" => Goto(p, "config")
        BY <1>3 DEF Publish
    <3> QED
        BY <1>c, <3>1, <3>2 DEF Files, Records
  <2>2. moved[p] = {} /\ file' = [file EXCEPT !["config"] = proc[p].doc]
      BY <1>a, <1>3, <2>1 DEF Publish, Replace, TypeOK
  <2> QED
      BY <1>a, <1>b, <1>3, <2>1, <2>2 DEF Publish, WriterInv, Progress, Live, TypeOK, Files, Records
<1>4. ASSUME NEW f \in Files, PublishFails(p, f)
      PROVE  /\ file'["config"] = file["config"]
             /\ \A r \in Records : file'[r] = proc[p].snap[r]
  <2>1. ~(f = "config") /\ ~(f = "local" /\ anchored)
      BY <1>b, <1>c, <1>4 DEF PublishFails
  <2> QED
      BY <1>a, <1>b, <1>4, <2>1 DEF PublishFails, WriterInv, Progress, Files, Records
<1>5. ASSUME NEW r \in Records, Undo(p, r)
      PROVE  /\ file'["config"] = file["config"]
             /\ \A q \in Records : file'[q] = proc[p].snap[q]
  <2>1. ~(r = "local" /\ anchored)
      BY <1>b, <1>c, <1>5 DEF Undo
  <2>2. /\ file' = [file EXCEPT ![r] = proc[p].snap[r]] /\ moved[p] = {}
      BY <1>a, <1>5 DEF Undo, Replace, TypeOK
  <2>3. CASE r = "anchor"
      BY <1>a, <1>b, <1>5, <2>2, <2>3 DEF Undo, WriterInv, Progress, TypeOK, Files, Records
  <2>4. CASE r = "local" /\ ~anchored
      BY <1>a, <1>b, <2>2, <2>4 DEF WriterInv, TypeOK, Files, Records
  <2> QED
      BY <2>1, <2>3, <2>4 DEF Records
<1>6. ~Crash(p)
    BY <1>a DEF Crash, TypeOK
<1>7. /\ ~(\E j \in Jobs : ReadConfig(p, j)) /\ ~CheckAnchor(p) /\ ~CheckLocal(p) /\ ~Use(p)
      /\ ~ComposeAdmin(p) /\ ~ComposeCache(p)
    BY <1>b DEF ReadConfig, CheckAnchor, CheckLocal, Use, ComposeAdmin, ComposeCache,
       Writing, Files, Records
<1>8. ASSUME NEW r \in Records, Snapshot(p, r) PROVE FALSE
  <2>1. PICK next \in {"stage", "anchor", "local"} :
          proc' = [proc EXCEPT ![p] = [proc[p] EXCEPT !.pc = next,
                                        !.snap = [proc[p].snap EXCEPT ![r] = file[r]]]]
      BY <1>8 DEF Snapshot
  <2> QED
      BY <1>a, <1>b, <2>1 DEF TypeOK, ProcType
<1> QED
    BY <1>1, <1>2, <1>3, <1>4, <1>5, <1>6, <1>7, <1>8 DEF Step

\* A write that was not killed, whose rollback did not fail and that nobody
\* disturbed has replaced all the files or none.
THEOREM WriteIsAtomicHolds == Spec => WriteIsAtomic
<1>1. ShapeInv /\ WriteInv /\ [Next]_vars
      => [\A p \in Procs : Leaves(p) /\ moved'[p] = {} =>
            \/ \A f \in Live : file'[f] = proc[p].doc
            \/ /\ file'["config"] = file["config"]
               /\ \A r \in Records : file'[r] = proc[p].snap[r] \/ proc[p].snap[r] = Unread]_vars
    BY WriteEnds
<1> QED
    BY ShapeInit, WriteInit, ShapeStep, WriteStep, <1>1, PTL DEF Spec, WriteIsAtomic

\* A cache write changes nothing but the cache of a document that has not moved.
THEOREM CacheWriteIsNarrowHolds == Spec => CacheWriteIsNarrow
<1>1. ASSUME ShapeInv, WriteInv, [Next]_vars, NEW p \in Procs,
             At(p, "config"), file'["config"] # file["config"], proc'[p].pc = "idle",
             proc[p].job \in {"cache", "agent cache"}, "config" \notin moved[p]
      PROVE  file'["config"].settings = file["config"].settings
  <2> USE DEF At
  <2>1. TypeOK /\ WriterInv(proc[p], moved[p], file, anchored)
      BY <1>1 DEF ShapeInv, WriteInv
  <2>2. Step(p)
      BY <1>1, <2>1, OwnStep
  <2>3. file["config"].settings = proc[p].doc.settings
      BY <1>1, <2>1 DEF WriterInv, CacheJobs
  <2>4. ASSUME NEW f \in Files, Publish(p, f)
        PROVE  file'["config"] = proc[p].doc
      BY <1>1, <2>1, <2>4 DEF Publish, Replace, TypeOK
  <2>5. \E f \in Files : Publish(p, f)
    <3>1. UNCHANGED file => FALSE
        BY <1>1
    <3>2. ASSUME NEW r \in Records, Undo(p, r) PROVE FALSE
        BY <1>1, <3>2 DEF Undo
    <3> QED
        BY <1>1, <2>2, <3>1, <3>2 DEF Step, ReadConfig, CheckAnchor, CheckLocal, Use,
           ComposeAdmin, ComposeCache, Snapshot, StageFails, PublishFails, Crash
  <2> QED
      BY <2>3, <2>4, <2>5
<1>2. ShapeInv /\ WriteInv /\ [Next]_vars
      => [\A p \in Procs :
            /\ At(p, "config") /\ file'["config"] # file["config"]
            /\ proc'[p].pc = "idle" /\ proc[p].job \in {"cache", "agent cache"}
            /\ "config" \notin moved[p]
            => file'["config"].settings = file["config"].settings]_vars
    BY <1>1
<1> QED
    BY ShapeInit, WriteInit, ShapeStep, WriteStep, <1>2, PTL DEF Spec, CacheWriteIsNarrow
=============================================================================
