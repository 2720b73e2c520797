------------------------- MODULE SchemaCache_proofs -------------------------
(***************************************************************************)
(* Theorems about the schema cache, for any tables, commands, versions and *)
(* numbers of runs.  A run that nobody has disturbed knows what is in the  *)
(* files it has written; one that is disturbed leaves a cache of which     *)
(* nothing is said.                                                        *)
(***************************************************************************)
EXTENDS SchemaCache, TLAPS

Places == {"start", "clear", "remove", "list", "scanning", "index", "tables", "hot", "cold",
           "config"}
RunType == [pc : Places, kind : {"scan", "refresh", "reset"}, stores : BOOLEAN,
            before : Schema, todo : SUBSET Tables, seen : Schema,
            largest : SUBSET Tables, listed : SUBSET Tables, disturbed : BOOLEAN]
IndexType == [state : {"none", "torn", "whole"}, hot : SUBSET Tables, cold : SUBSET Tables]
ExpectedType == [known : BOOLEAN, refreshed : BOOLEAN, says : Schema, listed : SUBSET Tables]
LeftType == [runs : 0 .. MaxRuns, changes : 0 .. MaxChanges]

Types == /\ layout \in {1, 2}
         /\ db \in Schema /\ hot \in Schema /\ cold \in Schema /\ config \in Schema
         /\ index \in IndexType
         /\ command \in [Commands -> RunType]
         /\ expected \in ExpectedType
         /\ left \in LeftType

LEMMA TypeParts == TypeOK <=> Types
  BY DEF TypeOK, Types, Places, RunType, IndexType, ExpectedType, LeftType

LEMMA Bounds == MaxVersion \in Nat /\ MaxRuns \in Nat /\ MaxChanges \in Nat
  BY CacheAssumption

LEMMA EmptyType == Empty \in Schema /\ \A t \in Tables : Empty[t] = 0
<1>1. 0 \in 0 .. MaxVersion
    BY Bounds
<1> QED
    BY <1>1 DEF Empty, Schema

LEMMA LiteralTypes == Idle \in RunType /\ NoIndex \in IndexType /\ Unknown \in ExpectedType
<1>1. "start" \in Places
    BY DEF Places
<1> QED
    BY <1>1, EmptyType DEF Idle, RunType, NoIndex, IndexType, Unknown, ExpectedType

LEMMA CachedType ==
    ASSUME Types
    PROVE  Layered \in Schema /\ Cached \in Schema
<1>1. 0 \in 0 .. MaxVersion
    BY Bounds
<1>2. Layered \in Schema
  <2>1. \A t \in Tables : hot[t] \in 0 .. MaxVersion /\ cold[t] \in 0 .. MaxVersion
      BY DEF Types, Schema
  <2> QED
      BY <1>1, <2>1 DEF Layered, Schema
<1> QED
    BY <1>2 DEF Cached, Types

LEMMA PartType ==
    ASSUME NEW s \in Schema, NEW S
    PROVE  /\ Part(s, S) \in Schema
           /\ \A t \in Tables : Part(s, S)[t] = IF t \in S THEN s[t] ELSE 0
<1>1. 0 \in 0 .. MaxVersion
    BY Bounds
<1> QED
    BY <1>1 DEF Part, Schema

(***************************************************************************)
(* Types.                                                                  *)
(***************************************************************************)

LEMMA TypesInit == Init => Types
<1>1. Init => expected \in ExpectedType
    BY EmptyType DEF Init, ExpectedType
<1>2. Init => left \in LeftType
    BY Bounds DEF Init, LeftType
<1> QED
    BY <1>1, <1>2, EmptyType, LiteralTypes DEF Init, Types

\* Others are disturbed, or begin anew.
LEMMA DisturbType ==
    ASSUME command \in [Commands -> RunType], NEW c \in Commands, NEW next \in RunType,
           Disturb(c, next)
    PROVE  /\ command' \in [Commands -> RunType] /\ command'[c] = next
           /\ \A d \in Commands \ {c} : command'[d] = Idle \/ command'[d].disturbed
<1>1. \A d \in Commands : [command[d] EXCEPT !.disturbed = TRUE] \in RunType
                          /\ [command[d] EXCEPT !.disturbed = TRUE].disturbed
    BY DEF RunType
<1> QED
    BY <1>1, LiteralTypes DEF Disturb

LEMMA MoveType ==
    ASSUME NEW run \in RunType, NEW pc \in Places
    PROVE  [run EXCEPT !.pc = pc] \in RunType
  BY DEF RunType

\* What a run has in mind is kept while it writes.
Keeps(next, run, pc) == /\ next.pc = pc /\ next.kind = run.kind /\ next.before = run.before
                        /\ next.seen = run.seen /\ next.largest = run.largest
                        /\ next.listed = run.listed /\ next.disturbed = run.disturbed

LEMMA KeepsMoved ==
    ASSUME NEW run \in RunType, NEW pc \in Places
    PROVE  Keeps([run EXCEPT !.pc = pc], run, pc)
  BY DEF Keeps, RunType

LEMMA WriteType ==
    ASSUME Types, NEW c \in Commands, NEW pc \in Places, Write(c, pc)
    PROVE  /\ command' \in [Commands -> RunType] /\ Keeps(command'[c], command[c], pc)
           /\ \A d \in Commands \ {c} : command'[d] = Idle \/ command'[d].disturbed
           /\ expected' \in ExpectedType /\ ~expected'.known
<1>1. command \in [Commands -> RunType] /\ command[c] \in RunType
    BY DEF Types
<1>2. [command[c] EXCEPT !.pc = pc] \in RunType
    BY <1>1, MoveType
<1>3. Disturb(c, [command[c] EXCEPT !.pc = pc]) /\ expected' = Unknown
    BY DEF Write
<1>4. ~Unknown.known
    BY DEF Unknown
<1>5. /\ command' \in [Commands -> RunType]
      /\ command'[c] = [command[c] EXCEPT !.pc = pc]
      /\ \A d \in Commands \ {c} : command'[d] = Idle \/ command'[d].disturbed
    BY <1>1, <1>2, <1>3, DisturbType
<1>6. Keeps(command'[c], command[c], pc)
    BY <1>1, <1>5, KeepsMoved
<1> QED
    BY <1>3, <1>4, <1>5, <1>6, LiteralTypes

LEMMA StoredType ==
    ASSUME Types, NEW c \in Commands, NEW next \in RunType, NEW refreshed \in BOOLEAN,
           NEW says \in Schema, Stored(c, next, refreshed, says)
    PROVE  /\ command' \in [Commands -> RunType] /\ command'[c] = next
           /\ \A d \in Commands \ {c} : command'[d] = Idle \/ command'[d].disturbed
           /\ expected' \in ExpectedType
           /\ expected'.known => /\ ~command[c].disturbed
                                 /\ expected'.refreshed = refreshed /\ expected'.says = says
                                 /\ expected'.listed = command[c].listed
<1>1. /\ command \in [Commands -> RunType] /\ command[c].disturbed \in BOOLEAN
      /\ command[c].listed \in SUBSET Tables
    BY DEF Types, RunType
<1>2. ~Unknown.known
    BY DEF Unknown
<1>3. [known |-> TRUE, refreshed |-> refreshed, says |-> says,
       listed |-> command[c].listed] \in ExpectedType
    BY <1>1 DEF ExpectedType
<1> QED
    BY <1>1, <1>2, <1>3, DisturbType, LiteralTypes DEF Stored

(***************************************************************************)
(* The invariant.                                                          *)
(***************************************************************************)

\* What a run knows of the files that nobody has written since it began.
RunOK(run) ==
    ~run.disturbed =>
      /\ run.pc \in {"clear", "remove"} => run.kind = "reset"
      /\ run.pc \in {"start", "clear", "remove"} => run.listed = {}
      /\ run.pc = "scanning" => run.listed \subseteq run.todo \cup Has(run.seen)
      /\ run.pc \in {"index", "tables", "hot", "cold", "config"} =>
           run.listed \subseteq Has(run.seen)
      /\ run.pc = "remove" => config = Empty
      /\ run.pc \in {"list", "scanning"} /\ run.kind = "refresh" => run.before = Cached
      /\ run.pc \in {"hot", "cold"} =>
           /\ run.largest \subseteq Has(run.seen)
           /\ index = [state |-> "whole", hot |-> run.largest,
                       cold |-> Has(run.seen) \ run.largest]
      /\ run.pc = "cold" => hot = Part(run.seen, run.largest)
      /\ run.pc = "config" =>
           \/ Layered = run.seen
           \/ run.kind = "refresh" /\ run.seen = run.before /\ run.before = Cached

\* What is read: it is what was stored, and nothing that was listed is missing.
CacheOK == LastStoreIsRead /\ NoneIsSkipped

Inv == Types /\ (\A c \in Commands : RunOK(command[c])) /\ CacheOK

LEMMA CacheKept ==
    ASSUME UNCHANGED <<layout, index, hot, cold, config>>
    PROVE  Layered' = Layered /\ Cached' = Cached
<1>1. Layered' = Layered
    BY DEF Layered
<1> QED
    BY <1>1 DEF Cached

\* A run that is over, or has not begun, claims nothing.
LEMMA IdleOK == RunOK(Idle)
  BY DEF RunOK, Idle

\* A step of c that writes nothing.
LEMMA QuietStep ==
    ASSUME Inv, NEW c \in Commands, layout' = layout, UNCHANGED files, UNCHANGED expected,
           db' \in Schema, left' \in LeftType,
           NEW run \in RunType, command' = [command EXCEPT ![c] = run], RunOK(run)
    PROVE  Inv'
<1>1. Types /\ \A d \in Commands : RunOK(command[d])
    BY DEF Inv
<1>2. command' \in [Commands -> RunType] /\ command'[c] = run
      /\ \A d \in Commands \ {c} : command'[d] = command[d]
    BY <1>1 DEF Types
<1>3. Types'
    BY <1>1, <1>2 DEF Types, files
<1>4. Layered' = Layered /\ Cached' = Cached
    BY CacheKept DEF files
<1>5. \A d \in Commands : RunOK(command[d])'
    BY <1>1, <1>2, <1>4 DEF RunOK, files
<1>6. CacheOK'
    BY <1>4 DEF Inv, CacheOK, LastStoreIsRead, NoneIsSkipped
<1> QED
    BY <1>3, <1>5, <1>6 DEF Inv

\* A step of c that writes: every other run begins anew or has been disturbed.
LEMMA WrittenStep ==
    ASSUME Types', NEW c \in Commands,
           \A d \in Commands \ {c} : command'[d] = Idle \/ command'[d].disturbed,
           RunOK(command[c])', CacheOK'
    PROVE  Inv'
<1>1. \A d \in Commands \ {c} : RunOK(command[d])'
    BY DEF RunOK, Idle
<1> QED
    BY <1>1 DEF Inv

LEMMA ChangeStep ==
    ASSUME Inv, Change
    PROVE  Inv'
<1>1. Types /\ (\A d \in Commands : RunOK(command[d])) /\ CacheOK
    BY DEF Inv
<1>2. left' \in LeftType
    BY <1>1, Bounds DEF Change, Types, LeftType
<1>3. db' \in Schema
  <2>1. PICK t \in Tables, v \in 0 .. MaxVersion : db' = [db EXCEPT ![t] = v]
      BY DEF Change
  <2> QED
      BY <1>1, <2>1 DEF Types, Schema
<1>4. UNCHANGED <<layout, command, expected, index, hot, cold, config>>
    BY DEF Change, files
<1>5. Layered' = Layered /\ Cached' = Cached
    BY <1>4, CacheKept
<1>6. Types'
    BY <1>1, <1>2, <1>3, <1>4 DEF Types
<1>7. \A d \in Commands : RunOK(command[d])'
    BY <1>1, <1>4, <1>5 DEF RunOK
<1>8. CacheOK'
    BY <1>1, <1>4, <1>5 DEF CacheOK, LastStoreIsRead, NoneIsSkipped
<1> QED
    BY <1>6, <1>7, <1>8 DEF Inv

LEMMA BeginStep ==
    ASSUME Inv, NEW c \in Commands, Begin(c)
    PROVE  Inv'
<1>1. Types /\ command[c] \in RunType /\ RunOK(command[c])
    BY DEF Inv, Types
<1>2. PICK kind \in {"scan", "refresh", "reset"}, force \in BOOLEAN :
        LET there == IF kind = "refresh" THEN Cached ELSE config
        IN  /\ kind = "reset" /\ ~force => Has(there) = {}
            /\ command' = [command EXCEPT
                 ![c].kind = kind, ![c].stores = force \/ Has(there) = {},
                 ![c].before = IF kind = "refresh" THEN there ELSE Empty,
                 ![c].pc = IF kind = "reset" THEN "clear" ELSE "list"]
    BY DEF Begin
<1> DEFINE stores == force \/ Has(IF kind = "refresh" THEN Cached ELSE config) = {}
           before == IF kind = "refresh" THEN Cached ELSE Empty
           pc == IF kind = "reset" THEN "clear" ELSE "list"
           run == [command[c] EXCEPT !.kind = kind, !.stores = stores, !.before = before,
                                     !.pc = pc]
<1>3. before \in Schema
    BY <1>1, CachedType, EmptyType
<1>4. stores \in BOOLEAN /\ pc \in Places /\ pc \in {"clear", "list"}
    BY DEF Places
<1>5. command' = [command EXCEPT ![c] = run]
    BY <1>1, <1>2 DEF Types
<1>6. (kind = "refresh" => before = Cached) /\ (pc = "clear" => kind = "reset")
    OBVIOUS
<1> HIDE DEF stores, before, pc
<1>7. /\ run \in RunType /\ run.pc = pc /\ run.before = before /\ run.kind = kind
      /\ run.listed = command[c].listed /\ run.disturbed = command[c].disturbed
    BY <1>1, <1>3, <1>4 DEF RunType
<1>8. RunOK(run)
    BY <1>1, <1>4, <1>6, <1>7 DEF RunOK, Begin, At
<1>9. left' \in LeftType
  <2>1. left.runs \in 0 .. MaxRuns /\ left.changes \in 0 .. MaxChanges /\ left \in LeftType
      BY <1>1 DEF Types, LeftType
  <2>2. left.runs > 0 /\ left' = [left EXCEPT !.runs = left.runs - 1]
      BY DEF Begin
  <2>3. left.runs - 1 \in 0 .. MaxRuns
      BY <2>1, <2>2, Bounds
  <2> QED
      BY <2>1, <2>2, <2>3 DEF LeftType
<1>10. layout' = layout /\ UNCHANGED files /\ UNCHANGED expected /\ db' \in Schema
    BY <1>1 DEF Begin, Quiet, Types
<1> HIDE DEF run
<1> QED
    BY <1>5, <1>7, <1>8, <1>9, <1>10, QuietStep

LEMMA ReadStep ==
    ASSUME Inv, NEW c \in Commands, List(c) \/ Answer(c) \/ Scanned(c) \/ Fail(c)
    PROVE  Inv'
<1>1. Types /\ command[c] \in RunType /\ RunOK(command[c]) /\ command \in [Commands -> RunType]
    BY DEF Inv, Types
<1>2. layout' = layout /\ UNCHANGED files /\ UNCHANGED expected /\ db' \in Schema
      /\ left' \in LeftType
    BY <1>1 DEF List, Answer, Scanned, Fail, World, Quiet, Types
<1>3. CASE End(c)
    BY <1>2, <1>3, IdleOK, LiteralTypes, QuietStep DEF End
<1>4. CASE List(c)
  <2> DEFINE run == [command[c] EXCEPT !.pc = "scanning", !.todo = Has(db), !.listed = Has(db)]
  <2>1. command' = [command EXCEPT ![c] = run] /\ command[c].pc = "list"
      BY <1>1, <1>4 DEF List, At
  <2>2. Has(db) \in SUBSET Tables /\ "scanning" \in Places
      BY DEF Has, Places
  <2>3. /\ run \in RunType /\ run.pc = "scanning" /\ run.kind = command[c].kind
        /\ run.before = command[c].before /\ run.disturbed = command[c].disturbed
        /\ run.todo = run.listed
      BY <1>1, <2>2 DEF RunType
  <2>4. RunOK(run)
      BY <1>1, <2>1, <2>3 DEF RunOK
  <2> HIDE DEF run
  <2> QED
      BY <1>2, <2>1, <2>3, <2>4, QuietStep
<1>5. CASE Answer(c) /\ ~End(c)
  <2>1. PICK t \in command[c].todo : See(c, t)
      BY <1>5 DEF Answer
  <2>2. t \in Tables
      BY <1>1, <2>1 DEF RunType
  <2> DEFINE todo == command[c].todo \ {t}
             seen == [command[c].seen EXCEPT ![t] = db[t]]
             run == [command[c] EXCEPT !.todo = todo, !.seen = seen]
  <2>3. command' = [command EXCEPT ![c] = run] /\ command[c].pc = "scanning"
    <3>1. command[c].pc = "scanning"
        BY <1>5 DEF Answer, At
    <3>2. command' = [command EXCEPT ![c].todo = @ \ {t}, ![c].seen[t] = db[t]]
        BY <2>1 DEF See
    <3>3. [command EXCEPT ![c].todo = @ \ {t}, ![c].seen[t] = db[t]]
            = [command EXCEPT ![c] = [command[c] EXCEPT !.todo = @ \ {t}, !.seen[t] = db[t]]]
        BY <1>1
    <3>4. [command[c] EXCEPT !.todo = @ \ {t}, !.seen[t] = db[t]] = run
        BY <1>1 DEF RunType
    <3> QED
        BY <3>1, <3>2, <3>3, <3>4
  <2>4. todo \in SUBSET Tables
      BY <1>1 DEF RunType
  <2>5. seen \in Schema
    <3>1. command[c].seen \in Schema /\ db \in Schema
        BY <1>1 DEF RunType, Types
    <3> QED
        BY <2>2, <3>1 DEF Schema
  <2> HIDE DEF todo, seen
  <2>6. /\ run \in RunType /\ run.pc = "scanning" /\ run.kind = command[c].kind
        /\ run.before = command[c].before /\ run.disturbed = command[c].disturbed
        /\ run.listed = command[c].listed /\ run.todo = todo /\ run.seen = seen
      BY <1>1, <2>3, <2>4, <2>5 DEF RunType
  <2>7. command[c].todo \cup Has(command[c].seen) \subseteq todo \cup Has(seen)
    <3>1. db[t] # 0
        BY <2>1 DEF See
    <3>2. command[c].seen \in Schema
        BY <1>1 DEF RunType
    <3> QED
        BY <2>2, <3>1, <3>2 DEF Has, Schema, todo, seen
  <2>8. RunOK(run)
      BY <1>1, <2>3, <2>6, <2>7 DEF RunOK
  <2> HIDE DEF run
  <2> QED
      BY <1>2, <2>3, <2>6, <2>8, QuietStep
<1>6. CASE Scanned(c) /\ ~End(c)
  <2>1. command[c].pc = "scanning" /\ command[c].todo = {}
      BY <1>6 DEF Scanned, At
  <2>2. CASE command[c].kind = "refresh" /\ command[c].seen = command[c].before /\ Set(c, "config")
    <3> DEFINE run == [command[c] EXCEPT !.pc = "config"]
    <3>1. command' = [command EXCEPT ![c] = run]
        BY <1>1, <2>2 DEF Set
    <3>2. "config" \in Places
        BY DEF Places
    <3>3. /\ run \in RunType /\ run.pc = "config" /\ run.kind = command[c].kind
          /\ run.before = command[c].before /\ run.disturbed = command[c].disturbed
          /\ run.seen = command[c].seen /\ run.listed = command[c].listed
        BY <1>1, <3>2 DEF RunType
    <3>4. RunOK(run)
        BY <1>1, <2>1, <2>2, <3>3 DEF RunOK
    <3> HIDE DEF run
    <3> QED
        BY <1>2, <3>1, <3>3, <3>4, QuietStep
  <2>3. CASE command' = [command EXCEPT ![c].pc = "index",
                                        ![c].kind = IF @ = "refresh" THEN @ ELSE "scan"]
    <3> DEFINE kind == IF command[c].kind = "refresh" THEN command[c].kind ELSE "scan"
               run == [command[c] EXCEPT !.pc = "index", !.kind = kind]
    <3>1. command' = [command EXCEPT ![c] = run]
        BY <1>1, <2>3
    <3>2. kind \in {"scan", "refresh", "reset"} /\ "index" \in Places
        BY DEF Places
    <3> HIDE DEF kind
    <3>3. /\ run \in RunType /\ run.pc = "index" /\ run.disturbed = command[c].disturbed
          /\ run.seen = command[c].seen /\ run.listed = command[c].listed
        BY <1>1, <3>2 DEF RunType
    <3>4. RunOK(run)
        BY <1>1, <2>1, <3>3 DEF RunOK
    <3> HIDE DEF run
    <3> QED
        BY <1>2, <3>1, <3>3, <3>4, QuietStep
  <2> QED
      BY <1>6, <2>2, <2>3 DEF Scanned
<1> QED
    BY <1>3, <1>4, <1>5, <1>6 DEF Fail

\* A step of c that leaves it unknown what the cache says.
LEMMA UnknownStep ==
    ASSUME Types, NEW c \in Commands, NEW pc \in Places, Write(c, pc),
           layout' = layout, db' = db, left' = left, index' \in IndexType,
           hot' \in Schema, cold' \in Schema, config' \in Schema,
           Keeps(command'[c], command[c], pc) => RunOK(command[c])'
    PROVE  Inv'
<1>1. /\ command' \in [Commands -> RunType] /\ Keeps(command'[c], command[c], pc)
      /\ \A d \in Commands \ {c} : command'[d] = Idle \/ command'[d].disturbed
      /\ expected' \in ExpectedType /\ ~expected'.known
    BY WriteType
<1>2. Types'
    BY <1>1 DEF Types
<1>3. CacheOK'
    BY <1>1 DEF CacheOK, LastStoreIsRead, NoneIsSkipped
<1> QED
    BY <1>1, <1>2, <1>3, WrittenStep

LEMMA ClearStep ==
    ASSUME Inv, NEW c \in Commands, ClearConfig(c)
    PROVE  Inv'
<1>1. Types /\ RunOK(command[c])
    BY DEF Inv
<1>2. /\ Write(c, "remove") /\ config' = Empty /\ "remove" \in Places
      /\ layout' = layout /\ db' = db /\ left' = left
      /\ index' = index /\ hot' = hot /\ cold' = cold /\ command[c].pc = "clear"
    BY DEF ClearConfig, World, Places, At
<1>3. index' \in IndexType /\ hot' \in Schema /\ cold' \in Schema /\ config' \in Schema
    BY <1>1, <1>2, EmptyType DEF Types
<1>4. Keeps(command'[c], command[c], "remove") => RunOK(command[c])'
    BY <1>1, <1>2 DEF RunOK, Keeps
<1> QED
    BY <1>1, <1>2, <1>3, <1>4, UnknownStep

\* When rm has left nothing, the cache is empty; otherwise nothing is said of it.
LEMMA RemoveStep ==
    ASSUME Inv, NEW c \in Commands, RemoveLayers(c)
    PROVE  Inv'
<1>1. Types /\ command[c] \in RunType /\ command \in [Commands -> RunType] /\ RunOK(command[c])
    BY DEF Inv, Types
<1>2. /\ index' \in {NoIndex, index} /\ hot' \in {Empty, hot} /\ cold' \in {Empty, cold}
      /\ layout' = layout /\ db' = db /\ left' = left /\ config' = config
      /\ "list" \in Places /\ command[c].pc = "remove"
    BY DEF RemoveLayers, World, Places, At
<1>3. index' \in IndexType /\ hot' \in Schema /\ cold' \in Schema /\ config' \in Schema
    BY <1>1, <1>2, EmptyType, LiteralTypes DEF Types
<1> DEFINE next == [command[c] EXCEPT !.pc = "list"]
<1>4. next \in RunType /\ Keeps(next, command[c], "list")
    BY <1>1, <1>2, MoveType, KeepsMoved
<1>5. CASE /\ index' = NoIndex /\ hot' = Empty /\ cold' = Empty
           /\ Stored(c, next, FALSE, Empty)
  <2> HIDE DEF next
  <2>1. /\ command' \in [Commands -> RunType] /\ command'[c] = next
        /\ \A d \in Commands \ {c} : command'[d] = Idle \/ command'[d].disturbed
        /\ expected' \in ExpectedType
        /\ expected'.known => /\ ~command[c].disturbed /\ expected'.says = Empty
                              /\ expected'.listed = command[c].listed
      BY <1>1, <1>4, <1>5, EmptyType, StoredType
  <2>2. Types'
      BY <1>1, <1>2, <1>3, <2>1 DEF Types
  <2>3. Layered' = Empty
      BY <1>5 DEF Layered, NoIndex, Empty
  <2>4. Has(Empty) = {}
      BY EmptyType DEF Has
  <2>5. Cached' = config
    <3>1. Has(Layered') = {}
        BY <2>3, <2>4
    <3>2. Has(Layered)' = Has(Layered')
        BY DEF Has
    <3> QED
        BY <1>2, <3>1, <3>2 DEF Cached
  <2>6. ~command[c].disturbed => config = Empty /\ command[c].listed = {}
      BY <1>1, <1>2 DEF RunOK
  <2>7. CacheOK'
      BY <2>1, <2>5, <2>6 DEF CacheOK, LastStoreIsRead, NoneIsSkipped
  <2>8. RunOK(command[c])'
      BY <1>1, <1>2, <1>4, <2>1 DEF RunOK, Keeps
  <2> QED
      BY <2>1, <2>2, <2>7, <2>8, WrittenStep
<1>6. CASE Write(c, "list")
  <2>1. Keeps(command'[c], command[c], "list") => RunOK(command[c])'
      BY <1>1, <1>2 DEF RunOK, Keeps
  <2> QED
      BY <1>1, <1>2, <1>3, <1>6, <2>1, UnknownStep
<1> QED
    BY <1>5, <1>6 DEF RemoveLayers

\* SchemaWriter.save.
LEMMA OpenIndexStep ==
    ASSUME Inv, NEW c \in Commands, OpenIndex(c)
    PROVE  Inv'
<1>1. Types /\ RunOK(command[c])
    BY DEF Inv
<1>2. /\ Write(c, "tables") /\ index' = [NoIndex EXCEPT !.state = "torn"]
      /\ layout' = layout /\ db' = db /\ left' = left /\ "tables" \in Places
      /\ hot' = hot /\ cold' = cold /\ config' = config /\ command[c].pc = "index"
    BY DEF OpenIndex, World, Places, At
<1>3. index' \in IndexType /\ hot' \in Schema /\ cold' \in Schema /\ config' \in Schema
    BY <1>1, <1>2 DEF Types, IndexType, NoIndex
<1>4. Keeps(command'[c], command[c], "tables") => RunOK(command[c])'
    BY <1>1, <1>2 DEF RunOK, Keeps, Has
<1> QED
    BY <1>1, <1>2, <1>3, <1>4, UnknownStep

LEMMA WriteIndexStep ==
    ASSUME Inv, NEW c \in Commands, WriteIndex(c)
    PROVE  Inv'
<1>1. Types /\ command[c] \in RunType /\ command \in [Commands -> RunType] /\ RunOK(command[c])
    BY DEF Inv, Types
<1>2. /\ layout' = layout /\ db' = db /\ left' = left /\ command[c].pc = "tables"
      /\ hot' = hot /\ cold' = cold /\ config' = config /\ expected' = Unknown
    BY DEF WriteIndex, World, At
<1>3. PICK largest \in SUBSET Has(command[c].seen) :
        /\ index' = [state |-> "whole", hot |-> largest,
                     cold |-> Has(command[c].seen) \ largest]
        /\ Disturb(c, [command[c] EXCEPT !.pc = "hot", !.largest = largest])
    BY DEF WriteIndex
<1>4. Has(command[c].seen) \subseteq Tables /\ largest \subseteq Tables
    BY DEF Has
<1> DEFINE next == [command[c] EXCEPT !.pc = "hot", !.largest = largest]
<1>5. /\ next \in RunType /\ next.pc = "hot" /\ next.largest = largest
      /\ next.seen = command[c].seen /\ next.listed = command[c].listed
      /\ next.disturbed = command[c].disturbed
    BY <1>1, <1>4 DEF RunType, Places
<1> HIDE DEF next
<1>6. /\ command' \in [Commands -> RunType] /\ command'[c] = next
      /\ \A d \in Commands \ {c} : command'[d] = Idle \/ command'[d].disturbed
    BY <1>1, <1>3, <1>5, DisturbType DEF next
<1>7. index' \in IndexType
    BY <1>3, <1>4 DEF IndexType
<1>8. Types'
    BY <1>1, <1>2, <1>6, <1>7, LiteralTypes DEF Types
<1>9. RunOK(command[c])'
    BY <1>1, <1>2, <1>3, <1>5, <1>6 DEF RunOK, Has
<1>10. CacheOK'
    BY <1>2 DEF CacheOK, LastStoreIsRead, NoneIsSkipped, Unknown
<1> QED
    BY <1>6, <1>8, <1>9, <1>10, WrittenStep

LEMMA WriteHotStep ==
    ASSUME Inv, NEW c \in Commands, WriteHot(c)
    PROVE  Inv'
<1>1. Types /\ RunOK(command[c]) /\ command[c] \in RunType
    BY DEF Inv, Types
<1>2. /\ Write(c, "cold") /\ hot' = Part(command[c].seen, command[c].largest)
      /\ layout' = layout /\ db' = db /\ left' = left /\ "cold" \in Places
      /\ index' = index /\ cold' = cold /\ config' = config /\ command[c].pc = "hot"
    BY DEF WriteHot, World, Places, At
<1>3. command[c].seen \in Schema
    BY <1>1 DEF RunType
<1>4. index' \in IndexType /\ hot' \in Schema /\ cold' \in Schema /\ config' \in Schema
    BY <1>1, <1>2, <1>3, PartType DEF Types
<1>5. Keeps(command'[c], command[c], "cold") => RunOK(command[c])'
    BY <1>1, <1>2 DEF RunOK, Keeps, Has, Part
<1> QED
    BY <1>1, <1>2, <1>4, <1>5, UnknownStep

\* The three files of a run that nobody has disturbed say what it has seen.
LEMMA LayersAgree ==
    ASSUME NEW seen \in Schema, NEW largest \in SUBSET Has(seen),
           index' = [state |-> "whole", hot |-> largest, cold |-> Has(seen) \ largest],
           hot' = Part(seen, largest),
           \A t \in Has(seen) \ largest : cold'[t] = seen[t]
    PROVE  Layered' = seen
<1>1. Has(seen) = {t \in Tables : seen[t] # 0}
    BY DEF Has
<1>2. \A t \in Tables : hot'[t] = IF t \in largest THEN seen[t] ELSE 0
    BY PartType
<1>3. seen = [t \in Tables |-> seen[t]]
    BY DEF Schema
<1>4. \A t \in Tables :
        (IF index'.state # "whole" \/ t \notin index'.hot \cup index'.cold THEN 0
         ELSE IF hot'[t] # 0 THEN hot'[t]
         ELSE IF t \in index'.cold THEN cold'[t] ELSE 0) = seen[t]
    BY <1>1, <1>2
<1> QED
    BY <1>3, <1>4 DEF Layered

LEMMA WriteColdStep ==
    ASSUME Inv, NEW c \in Commands, WriteCold(c)
    PROVE  Inv'
<1>1. Types /\ RunOK(command[c]) /\ command[c] \in RunType
    BY DEF Inv, Types
<1> DEFINE run == command[c]
           rest == Has(run.seen) \ run.largest
<1>2. /\ Write(c, "config") /\ cold' = IF rest = {} THEN cold ELSE Part(run.seen, rest)
      /\ layout' = layout /\ db' = db /\ left' = left /\ "config" \in Places
      /\ index' = index /\ hot' = hot /\ config' = config /\ run.pc = "cold"
    BY DEF WriteCold, World, Places, At
<1>3. run.seen \in Schema
    BY <1>1 DEF RunType
<1>4. index' \in IndexType /\ hot' \in Schema /\ cold' \in Schema /\ config' \in Schema
    BY <1>1, <1>2, <1>3, PartType DEF Types
<1>5. \A t \in rest : cold'[t] = run.seen[t]
  <2>1. rest \subseteq Tables
      BY DEF Has
  <2> QED
      BY <1>2, <1>3, <2>1, PartType
<1>6. ~run.disturbed => Layered' = run.seen
  <2> SUFFICES ASSUME ~run.disturbed PROVE Layered' = run.seen
      OBVIOUS
  <2>1. /\ run.largest \in SUBSET Has(run.seen) /\ hot = Part(run.seen, run.largest)
        /\ index = [state |-> "whole", hot |-> run.largest, cold |-> rest]
      BY <1>1, <1>2 DEF RunOK
  <2> QED
      BY <1>2, <1>3, <1>5, <2>1, LayersAgree
<1>7. Keeps(command'[c], command[c], "config") => RunOK(command[c])'
    BY <1>1, <1>2, <1>6 DEF RunOK, Keeps, Has
<1> QED
    BY <1>1, <1>2, <1>4, <1>7, UnknownStep

\* The last write: from here on the cache says what the run has seen.
LEMMA WriteConfigStep ==
    ASSUME Inv, NEW c \in Commands, WriteConfig(c)
    PROVE  Inv'
<1>1. Types /\ RunOK(command[c]) /\ command[c] \in RunType
    BY DEF Inv, Types
<1> DEFINE run == command[c]
           refreshed == run.kind = "refresh"
<1>2. /\ Stored(c, Idle, refreshed, run.seen) /\ config' = Merged(c)
      /\ layout' = layout /\ db' = db /\ left' = left
      /\ index' = index /\ hot' = hot /\ cold' = cold /\ run.pc = "config"
    BY DEF WriteConfig, World, At
<1>3. run.seen \in Schema /\ run.before \in Schema
    BY <1>1 DEF RunType
<1>4. config' \in Schema
    BY <1>2, <1>3 DEF Merged, Schema
<1>5. \A t \in Tables : config'[t] = run.seen[t] \/ (refreshed /\ run.seen[t] = 0)
    BY <1>2 DEF Merged
<1> HIDE DEF refreshed
<1>6. refreshed \in BOOLEAN
    BY DEF refreshed
<1>7. /\ command' \in [Commands -> RunType] /\ command'[c] = Idle
      /\ \A d \in Commands \ {c} : command'[d] = Idle \/ command'[d].disturbed
      /\ expected' \in ExpectedType
      /\ expected'.known => /\ ~run.disturbed /\ expected'.refreshed = refreshed
                            /\ expected'.says = run.seen /\ expected'.listed = run.listed
    BY <1>1, <1>2, <1>3, <1>6, LiteralTypes, StoredType
<1>8. Layered' = Layered
    BY <1>2 DEF Layered
<1>9. ~run.disturbed => Layered = run.seen \/ run.seen = Cached
    BY <1>1, <1>2 DEF RunOK
<1>10. Has(Layered)' = Has(Layered)
    BY <1>8 DEF Has
<1>11. Cached' = Layered \/ Cached' = config'
    BY <1>8 DEF Cached
<1>12. Cached' = Layered => Cached' = config' \/ Cached = Layered
    BY <1>2, <1>8, <1>10 DEF Cached
<1>13. ~run.disturbed => \A t \in Tables : Cached'[t] = run.seen[t]
                                           \/ (refreshed /\ run.seen[t] = 0)
    BY <1>5, <1>9, <1>11, <1>12
<1>14. CacheOK'
  <2>1. ~run.disturbed => \A t \in run.listed : t \in Tables /\ run.seen[t] # 0
      BY <1>1, <1>2 DEF RunOK, Has
  <2> QED
      BY <1>7, <1>13, <2>1 DEF CacheOK, LastStoreIsRead, NoneIsSkipped
<1>15. Types'
    BY <1>1, <1>2, <1>4, <1>7 DEF Types
<1>16. RunOK(command[c])'
    BY <1>7 DEF RunOK, Idle
<1> QED
    BY <1>7, <1>14, <1>15, <1>16, WrittenStep

LEMMA InvInit == Init => Inv
<1> SUFFICES ASSUME Init PROVE Inv
    OBVIOUS
<1>1. \A d \in Commands : RunOK(command[d])
    BY IdleOK DEF Init
<1>2. Cached = Empty /\ expected.says = Empty /\ expected.listed = {}
  <2>1. Layered = Empty
      BY DEF Init, Layered, NoIndex, Empty
  <2>2. Has(Empty) = {}
      BY EmptyType DEF Has
  <2> QED
      BY <2>1, <2>2 DEF Init, Cached
<1>3. CacheOK
    BY <1>2 DEF CacheOK, LastStoreIsRead, NoneIsSkipped
<1> QED
    BY <1>1, <1>3, TypesInit DEF Inv

LEMMA InvStep == Inv /\ [Next]_vars => Inv'
<1> SUFFICES ASSUME Inv, [Next]_vars PROVE Inv'
    OBVIOUS
<1>1. CASE UNCHANGED vars
  <2>1. Layered' = Layered /\ Cached' = Cached
      BY <1>1, CacheKept DEF vars, files
  <2>2. Types'
      BY <1>1 DEF Inv, Types, vars, files
  <2>3. \A d \in Commands : RunOK(command[d])'
      BY <1>1, <2>1 DEF Inv, RunOK, vars, files
  <2>4. CacheOK'
      BY <1>1, <2>1 DEF Inv, CacheOK, LastStoreIsRead, NoneIsSkipped, vars
  <2> QED
      BY <2>2, <2>3, <2>4 DEF Inv
<1>2. CASE Change
    BY <1>2, ChangeStep
<1>3. ASSUME NEW c \in Commands, Run(c) PROVE Inv'
  <2>1. CASE Begin(c)
      BY <2>1, BeginStep
  <2>2. CASE List(c) \/ Answer(c) \/ Scanned(c) \/ Fail(c)
      BY <2>2, ReadStep
  <2>3. CASE ClearConfig(c)
      BY <2>3, ClearStep
  <2>4. CASE RemoveLayers(c)
      BY <2>4, RemoveStep
  <2>5. CASE OpenIndex(c)
      BY <2>5, OpenIndexStep
  <2>6. CASE WriteIndex(c)
      BY <2>6, WriteIndexStep
  <2>7. CASE WriteHot(c)
      BY <2>7, WriteHotStep
  <2>8. CASE WriteCold(c)
      BY <2>8, WriteColdStep
  <2>9. CASE WriteConfig(c)
      BY <2>9, WriteConfigStep
  <2> QED
      BY <1>3, <2>1, <2>2, <2>3, <2>4, <2>5, <2>6, <2>7, <2>8, <2>9 DEF Run
<1> QED
    BY <1>1, <1>2, <1>3 DEF Next

LEMMA InvHolds == Spec => []Inv
  BY InvInit, InvStep, PTL DEF Spec

\* Every variable keeps its type.
THEOREM TypeCorrect == Spec => []TypeOK
<1>1. Inv => TypeOK
    BY TypeParts DEF Inv
<1> QED
    BY <1>1, InvHolds, PTL

\* schema.ts, schema-writer.ts, schema-loader.ts: however many commands store, fail or are
\* killed, and whatever they leave behind, what the last one stored undisturbed is what the
\* next one reads, in either layout.
THEOREM LastStoreIsReadHolds == Spec => []LastStoreIsRead
<1>1. Inv => LastStoreIsRead
    BY DEF Inv, CacheOK
<1> QED
    BY <1>1, InvHolds, PTL

\* bounded-parallel.ts, schema.ts: a table that cannot be read ends the scan, so that a cache
\* nobody has disturbed has each table there was when the tables were listed.
THEOREM NoneIsSkippedHolds == Spec => []NoneIsSkipped
<1>1. Inv => NoneIsSkipped
    BY DEF Inv, CacheOK
<1> QED
    BY <1>1, InvHolds, PTL
=============================================================================
