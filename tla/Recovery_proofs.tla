-------------------------- MODULE Recovery_proofs --------------------------
(***************************************************************************)
(* Theorems about the recovery protocol, for any number of commands that   *)
(* fail and any plans.  The invariant has a part about the files, one      *)
(* about apply and one about the walk with --next.                         *)
(***************************************************************************)
EXTENDS Recovery, SequenceTheorems, TLAPS

EmitterType == [pc : {"fails", "opened", "written", "ended"},
                inode : Emitters \cup {NoFile}]
UserType == [pc : {"start", "apply", "step", "verify", "agent", "ended"},
             allow : AllowWrite, walking : BOOLEAN, noVerify : BOOLEAN,
             envelope : Emitters \cup {NoFile},
             results : Seq({"ok", "failed", "skipped"}),
             verify : {"none", "passed", "failed", "indeterminate"},
             exit : {"no", "malformed", "failed", "ok", "skipped-only", "done"},
             order : Nat, branch : BOOLEAN, given : Seq(BOOLEAN \X Nat),
             first : Emitters \cup {NoFile}, moved : BOOLEAN]
ChildType == [alive : BOOLEAN, code : {"none", "zero", "other"}, pipes : BOOLEAN,
              heir : BOOLEAN, timedOut : BOOLEAN]

FilesType == /\ emitter \in [Emitters -> EmitterType]
             /\ temp \in Emitters \cup {NoFile} /\ last \in Emitters \cup {NoFile}
             /\ content \in [Emitters -> Contents]
             /\ plan \in [Emitters -> Plans]
             /\ overlapped \in BOOLEAN

LEMMA TypeParts == TypeOK <=> FilesType /\ user \in UserType /\ child \in ChildType
  BY DEF TypeOK, FilesType, EmitterType, UserType, ChildType

(***************************************************************************)
(* The files.                                                              *)
(***************************************************************************)

\* As long as no two emitters have been at the file at once: the one that is has the
\* temporary file open, which is not the one that is published, and what is published is
\* whole.
Sole ==
    /\ \A e, f \in Emitters : AtFile(e) /\ AtFile(f) => e = f
    /\ \A e \in Emitters : AtFile(e) => temp = emitter[e].inode /\ temp # NoFile
    /\ \A e \in Emitters : emitter[e].pc = "opened" => content[emitter[e].inode] = "nothing"
    /\ \A e \in Emitters : emitter[e].pc = "written" => content[emitter[e].inode] \in Emitters
    /\ temp # NoFile => temp # last
    /\ last # NoFile => content[last] \in Emitters

\* An inode is there only once its emitter has opened it.
Created == \A e \in Emitters : temp = e \/ last = e => emitter[e].pc # "fails"

\* Who is at the file has it open.
Open == \A e \in Emitters : AtFile(e) => emitter[e].inode \in Emitters

FilesOK == FilesType /\ Created /\ Open /\ (~overlapped => Sole)

LEMMA PlanFacts == NoFile \notin Emitters /\ "nothing" \in Contents /\ "mixed" \in Contents
  BY PlanAssumption DEF Contents

LEMMA OpenFiles ==
    ASSUME FilesOK, NEW e \in Emitters, OpenTemp(e)
    PROVE  FilesOK'
<1>1. /\ emitter \in [Emitters -> EmitterType]
      /\ temp \in Emitters \cup {NoFile} /\ last \in Emitters \cup {NoFile}
      /\ content \in [Emitters -> Contents] /\ plan \in [Emitters -> Plans]
      /\ overlapped \in BOOLEAN
    BY DEF FilesOK, FilesType
<1> DEFINE inode == IF temp = NoFile THEN e ELSE temp
<1>2. /\ emitter[e].pc = "fails"
      /\ emitter' = [emitter EXCEPT ![e] = [pc |-> "opened", inode |-> inode]]
      /\ temp' = inode
      /\ content' = [content EXCEPT ![inode] = "nothing"]
      /\ overlapped' = (overlapped \/ \E f \in Emitters \ {e} : AtFile(f))
      /\ last' = last /\ plan' = plan
    BY DEF OpenTemp, Overlap
<1>3. inode \in Emitters /\ inode # NoFile
    BY <1>1, PlanFacts
<1>4. emitter'[e] = [pc |-> "opened", inode |-> inode]
      /\ \A f \in Emitters \ {e} : emitter'[f] = emitter[f]
    BY <1>1, <1>2
<1>5. content'[inode] = "nothing" /\ \A i \in Emitters \ {inode} : content'[i] = content[i]
    BY <1>1, <1>2, <1>3
<1>6. last # inode \/ overlapped
  <2>1. CASE temp = NoFile
    <3>1. last # e
        BY <1>2 DEF FilesOK, Created
    <3> QED
        BY <2>1, <3>1
  <2>2. CASE temp # NoFile
      BY <2>2 DEF FilesOK, Sole
  <2> QED
      BY <2>1, <2>2
<1> HIDE DEF inode
<1>7. FilesType'
  <2>1. [pc |-> "opened", inode |-> inode] \in EmitterType
      BY <1>3 DEF EmitterType
  <2> QED
      BY <1>1, <1>2, <1>3, <2>1, PlanFacts DEF FilesType
<1>8. Created'
  <2>1. ASSUME NEW f \in Emitters, temp' = f \/ last' = f
        PROVE  emitter'[f].pc # "fails"
    <3>1. CASE f = e
        BY <1>4, <3>1
    <3>2. CASE f # e /\ (temp = f \/ last = f)
        BY <1>4, <3>2 DEF FilesOK, Created
    <3>3. CASE f # e /\ inode = f
        BY <1>4, <3>2, <3>3 DEF inode
    <3> QED
        BY <1>2, <2>1, <3>1, <3>2, <3>3
  <2> QED
      BY <2>1 DEF Created
<1>9. Open'
    BY <1>3, <1>4 DEF FilesOK, Open, AtFile
<1>10. ASSUME ~overlapped' PROVE Sole'
  <2>1. ~overlapped /\ Sole /\ \A f \in Emitters \ {e} : ~AtFile(f)
      BY <1>2, <1>10 DEF FilesOK
  <2>2. \A f \in Emitters \ {e} : ~(AtFile(f))' /\ emitter'[f].pc \notin {"opened", "written"}
      BY <1>4, <2>1 DEF AtFile
  <2>3. last # inode
      BY <1>6, <2>1
  <2>4. last' # NoFile => content'[last'] \in Emitters
      BY <1>1, <1>2, <1>5, <2>1, <2>3 DEF Sole
  <2>5. temp' # last' /\ temp' # NoFile /\ temp' = emitter'[e].inode
      BY <1>2, <1>3, <1>4, <2>3
  <2>6. content'[emitter'[e].inode] = "nothing" /\ emitter'[e].pc = "opened"
      BY <1>4, <1>5
  <2> QED
      BY <2>2, <2>4, <2>5, <2>6 DEF Sole, AtFile
<1> QED
    BY <1>7, <1>8, <1>9, <1>10 DEF FilesOK

LEMMA WriteFiles ==
    ASSUME FilesOK, NEW e \in Emitters, WriteTemp(e)
    PROVE  FilesOK'
<1>1. /\ emitter \in [Emitters -> EmitterType]
      /\ temp \in Emitters \cup {NoFile} /\ last \in Emitters \cup {NoFile}
      /\ content \in [Emitters -> Contents] /\ plan \in [Emitters -> Plans]
      /\ overlapped \in BOOLEAN
    BY DEF FilesOK, FilesType
<1> DEFINE inode == emitter[e].inode
<1>2. /\ emitter[e].pc = "opened" /\ inode \in Emitters
      /\ emitter' = [emitter EXCEPT ![e].pc = "written"]
      /\ UNCHANGED <<temp, last, plan, overlapped>>
    BY DEF WriteTemp, Step2, FilesOK, Open, AtFile
<1>3. PICK result \in {e} \cup (IF content[inode] = "nothing" THEN {} ELSE {"mixed"}) :
        content' = [content EXCEPT ![inode] = result]
    BY DEF WriteTemp
<1>4. /\ emitter' \in [Emitters -> EmitterType]
      /\ emitter'[e].pc = "written" /\ emitter'[e].inode = inode
      /\ \A f \in Emitters \ {e} : emitter'[f] = emitter[f]
    BY <1>1, <1>2 DEF EmitterType
<1>5. content'[inode] = result /\ \A i \in Emitters \ {inode} : content'[i] = content[i]
    BY <1>1, <1>2, <1>3
<1>6. result \in Contents /\ (content[inode] = "nothing" => result = e)
    BY <1>3, PlanFacts DEF Contents
<1> HIDE DEF inode
<1>7. FilesType'
    BY <1>1, <1>2, <1>3, <1>4, <1>6 DEF FilesType
<1>8. Created'
    BY <1>2, <1>4 DEF FilesOK, Created
<1>9. Open'
    BY <1>2, <1>4 DEF FilesOK, Open, AtFile
<1>10. ASSUME ~overlapped' PROVE Sole'
  <2>1. Sole /\ AtFile(e) /\ \A f \in Emitters \ {e} : ~AtFile(f)
      BY <1>2, <1>10 DEF FilesOK, Sole, AtFile
  <2>2. \A f \in Emitters \ {e} : ~(AtFile(f))' /\ emitter'[f].pc \notin {"opened", "written"}
      BY <1>4, <2>1 DEF AtFile
  <2>3. temp = inode /\ temp # NoFile /\ last # inode /\ content[inode] = "nothing"
      BY <1>2, <2>1 DEF Sole, inode
  <2>4. last' # NoFile => content'[last'] \in Emitters
      BY <1>1, <1>2, <1>5, <2>1, <2>3 DEF Sole
  <2>5. content'[emitter'[e].inode] \in Emitters /\ temp' = emitter'[e].inode /\ temp' # NoFile
        /\ temp' # last'
      BY <1>2, <1>4, <1>5, <1>6, <2>3
  <2> QED
      BY <1>4, <2>2, <2>4, <2>5 DEF Sole, AtFile
<1> QED
    BY <1>7, <1>8, <1>9, <1>10 DEF FilesOK

LEMMA EndsFiles ==
    ASSUME FilesOK, NEW e \in Emitters, RenameTemp(e) \/ KillEmitter(e)
    PROVE  FilesOK'
<1>1. /\ emitter \in [Emitters -> EmitterType]
      /\ temp \in Emitters \cup {NoFile} /\ last \in Emitters \cup {NoFile}
      /\ content \in [Emitters -> Contents] /\ plan \in [Emitters -> Plans]
      /\ overlapped \in BOOLEAN
    BY DEF FilesOK, FilesType
<1>2. /\ emitter' = [emitter EXCEPT ![e].pc = "ended"]
      /\ UNCHANGED <<content, plan, overlapped>>
    BY DEF RenameTemp, KillEmitter, Step2
<1>3. \/ temp' = temp /\ last' = last
      \/ emitter[e].pc = "written" /\ temp # NoFile /\ last' = temp /\ temp' = NoFile
    BY DEF RenameTemp, KillEmitter
<1>4. /\ emitter' \in [Emitters -> EmitterType]
      /\ emitter'[e].pc = "ended" /\ emitter'[e].inode = emitter[e].inode
      /\ \A f \in Emitters \ {e} : emitter'[f] = emitter[f]
    BY <1>1, <1>2 DEF EmitterType
<1>5. FilesType'
    BY <1>1, <1>2, <1>3, <1>4 DEF FilesType
<1>6. Created'
    BY <1>3, <1>4, PlanFacts DEF FilesOK, Created
<1>7. Open'
    BY <1>4 DEF FilesOK, Open, AtFile
<1>8. ASSUME ~overlapped' PROVE Sole'
  <2>1. Sole
      BY <1>2, <1>8 DEF FilesOK
  <2>2. CASE temp' = temp /\ last' = last
      BY <1>2, <1>4, <2>1, <2>2 DEF Sole, AtFile
  <2>3. CASE emitter[e].pc = "written" /\ temp # NoFile /\ last' = temp /\ temp' = NoFile
    <3>1. temp = emitter[e].inode /\ content[temp] \in Emitters
          /\ \A f \in Emitters \ {e} : ~AtFile(f)
        BY <2>1, <2>3 DEF Sole, AtFile
    <3>2. \A f \in Emitters : emitter'[f].pc \notin {"opened", "written"}
        BY <1>4, <3>1 DEF AtFile
    <3> QED
        BY <1>2, <2>3, <3>1, <3>2 DEF Sole, AtFile
  <2> QED
      BY <1>3, <2>2, <2>3
<1> QED
    BY <1>5, <1>6, <1>7, <1>8 DEF FilesOK

LEMMA FilesInit == Init => FilesOK
<1> SUFFICES ASSUME Init PROVE FilesOK
    OBVIOUS
<1>1. \A e \in Emitters : emitter[e].pc = "fails"
    BY DEF Init
<1>2. temp = NoFile /\ last = NoFile
    BY DEF Init
<1>3. FilesType
    BY PlanFacts DEF Init, FilesType, EmitterType
<1> QED
    BY <1>1, <1>2, <1>3, PlanFacts DEF FilesOK, Created, Open, Sole, AtFile

LEMMA FilesStep == FilesOK /\ [Next]_vars => FilesOK'
<1> SUFFICES ASSUME FilesOK, [Next]_vars PROVE FilesOK'
    OBVIOUS
<1>1. CASE Emit
    BY <1>1, OpenFiles, WriteFiles, EndsFiles DEF Emit
<1>2. CASE UNCHANGED <<emitter, temp, last, content, plan, overlapped>>
    BY <1>2 DEF FilesOK, FilesType, Created, Open, Sole, AtFile
<1>3. Emit \/ UNCHANGED <<emitter, temp, last, content, plan, overlapped>>
    BY DEF Next, vars, Files, Resolve, Apply, ApplyStep, StepEnds, Verify, VerifyEnds,
           Processes, ChildStep, ChildExits, Overflow, HeirExits, Timeout, NextTurn
<1> QED
    BY <1>1, <1>2, <1>3

\* writeLastEnvelopeSync: however many emitters are killed wherever they are, a reader
\* finds a whole envelope or none, unless two of them were at the file at the same time.
THEOREM CrashLeavesItWholeHolds == Spec => []CrashLeavesItWhole
<1>1. FilesOK => CrashLeavesItWhole
    BY DEF FilesOK, FilesType, Sole, CrashLeavesItWhole
<1> QED
    BY <1>1, FilesInit, FilesStep, PTL DEF Spec

(***************************************************************************)
(* recover --apply.                                                        *)
(***************************************************************************)

LEMMA PlanType ==
    ASSUME plan \in [Emitters -> Plans], user.envelope \in Emitters
    PROVE  Plan.steps \in Seq(Step) /\ Plan.verify \in Seq(Step)
  BY PlanAssumption DEF Plan

LEMMA StepReach ==
    ASSUME NEW step \in Step
    PROVE  Reach(step) \in {0, 1, 2}
  BY DEF Step, Shapes, Reach

LEMMA LeaveType == \A allow \in AllowWrite : Leave(allow) \in {0, 1, 2}
  BY DEF AllowWrite, Leave

\* The gate lets nothing through that reaches further than it has leave to.
LEMMA GateIsTight ==
    ASSUME NEW step \in Step, NEW allow \in AllowWrite, classifyStep(step, allow) = "run"
    PROVE  Reach(step) =< Leave(allow)
<1>1. step.shape # "unknown" /\ step.shape \in Shapes
    BY DEF classifyStep, Step
<1>2. CASE step.shape \in {"readonly", "dry-run"}
  <2>1. Reach(step) = 0
      BY <1>2 DEF Reach
  <2>2. Leave(allow) \in {0, 1, 2}
      BY LeaveType
  <2> QED
      BY <2>1, <2>2
<1>3. CASE step.shape = "local-write"
  <2>1. Reach(step) = 1 /\ allow # "none"
      BY <1>3 DEF Reach, classifyStep
  <2>2. Leave(allow) \in {1, 2}
      BY <2>1 DEF Leave, AllowWrite
  <2> QED
      BY <2>1, <2>2
<1>4. CASE step.shape = "db-write"
  <2>1. Reach(step) = 2 /\ allow = "write-cmd"
      BY <1>4 DEF Reach, classifyStep
  <2>2. Leave(allow) = 2
      BY <2>1 DEF Leave
  <2> QED
      BY <2>1, <2>2
<1> QED
    BY <1>1, <1>2, <1>3, <1>4 DEF Shapes

\* results: those of the steps so far of the plan p.  None after a failure.
Within(results, p, allow) ==
    /\ \A i \in DOMAIN results : results[i] # "skipped" => Reach(p.steps[i]) =< Leave(allow)
    /\ \A i \in DOMAIN results : results[i] = "failed" => i = Len(results)

NoFailure(results) == \A i \in DOMAIN results : results[i] # "failed"

ApplyOK ==
    /\ user.pc \notin {"start", "ended"} => user.envelope \in Emitters
    /\ user.pc \in {"start", "agent"} => user.results = <<>>
    /\ Within(user.results, Plan, user.allow)
    /\ user.pc = "step" => /\ NoFailure(user.results)
                           /\ Reach(Plan.steps[Len(user.results) + 1]) =< Leave(user.allow)
    /\ user.pc = "verify" => Reach(Plan.verify[1]) = 0 /\ finalStatus = "ok"

Typed == plan \in [Emitters -> Plans] /\ user \in UserType /\ child \in ChildType

\* A result is added to those there are.
LEMMA ResultIsAdded ==
    ASSUME NEW results \in Seq({"ok", "failed", "skipped"}), NEW p, NEW allow,
           NEW status \in {"ok", "failed", "skipped"},
           Within(results, p, allow), NoFailure(results),
           status # "skipped" => Reach(p.steps[Len(results) + 1]) =< Leave(allow)
    PROVE  /\ Append(results, status) \in Seq({"ok", "failed", "skipped"})
           /\ Within(Append(results, status), p, allow)
<1> DEFINE longer == Append(results, status)
<1>1. /\ longer \in Seq({"ok", "failed", "skipped"}) /\ Len(longer) = Len(results) + 1
      /\ DOMAIN longer = 1 .. Len(results) + 1 /\ DOMAIN results = 1 .. Len(results)
      /\ Len(results) \in Nat
      /\ longer[Len(results) + 1] = status
      /\ \A i \in DOMAIN results : longer[i] = results[i]
    OBVIOUS
<1> HIDE DEF longer
<1>2. ASSUME NEW i \in DOMAIN longer
      PROVE  /\ longer[i] # "skipped" => Reach(p.steps[i]) =< Leave(allow)
             /\ longer[i] = "failed" => i = Len(longer)
  <2>1. i \in DOMAIN results \/ i = Len(results) + 1
      BY <1>1, <1>2
  <2>2. CASE i \in DOMAIN results
      BY <1>1, <2>2 DEF Within, NoFailure
  <2>3. CASE i = Len(results) + 1
      BY <1>1, <2>3
  <2> QED
      BY <2>1, <2>2, <2>3
<1>3. Within(longer, p, allow)
    BY <1>2 DEF Within
<1> QED
    BY <1>1, <1>3 DEF longer

LEMMA SpawnType == ASSUME child \in ChildType, Spawn PROVE child' \in ChildType
  BY DEF Spawn, NoChild, ChildType

\* user goes on to a place with what it knows.
LEMMA GoesOn ==
    ASSUME Typed, ApplyOK, plan' = plan, child' \in ChildType,
           NEW pc \in {"apply", "step", "verify"},
           NEW results \in Seq({"ok", "failed", "skipped"}),
           user' = [user EXCEPT !.pc = pc, !.results = results],
           user.envelope \in Emitters,
           Within(results, Plan, user.allow),
           pc = "step" => /\ NoFailure(results)
                          /\ Reach(Plan.steps[Len(results) + 1]) =< Leave(user.allow),
           pc = "verify" => /\ Reach(Plan.verify[1]) = 0
                            /\ finalStatus = "ok" /\ results = user.results
    PROVE  Typed' /\ ApplyOK'
<1>1. /\ user' \in UserType /\ user'.pc = pc /\ user'.results = results
      /\ user'.envelope = user.envelope /\ user'.allow = user.allow
    BY DEF Typed, UserType
<1>2. Plan' = Plan
    BY <1>1 DEF Plan
<1>3. pc = "verify" => (finalStatus = "ok")'
    BY <1>1 DEF finalStatus, Ran
<1> QED
    BY <1>1, <1>2, <1>3 DEF Typed, ApplyOK

\* It ends, with the results there are.
LEMMA Ends ==
    ASSUME Typed, ApplyOK, plan' = plan, child' \in ChildType, user' \in UserType,
           user'.pc = "ended", user'.results = user.results, user'.allow = user.allow,
           user'.envelope = user.envelope \/ user.results = <<>>
    PROVE  Typed' /\ ApplyOK'
<1>1. Within(user'.results, Plan', user'.allow)
  <2>1. CASE user'.envelope = user.envelope
    <3>1. Plan' = Plan
        BY <2>1 DEF Plan
    <3> QED
        BY <3>1 DEF ApplyOK
  <2>2. CASE user.results = <<>>
      BY <2>2 DEF Within
  <2> QED
      BY <2>1, <2>2
<1> QED
    BY <1>1 DEF Typed, ApplyOK

LEMMA EndType ==
    ASSUME user \in UserType,
           NEW code \in {"malformed", "failed", "ok", "skipped-only", "done"}, End(code)
    PROVE  /\ user' \in UserType /\ user'.pc = "ended" /\ user'.results = user.results
           /\ user'.allow = user.allow /\ user'.envelope = user.envelope
  BY DEF UserType, End

LEMMA FinalType == finalStatus \in {"failed", "ok", "skipped-only"}
  BY DEF finalStatus

LEMMA ApplyOKStep ==
    ASSUME Typed, ApplyOK, plan' = plan, Apply
    PROVE  Typed' /\ ApplyOK'
<1>1. user \in UserType /\ child \in ChildType /\ plan \in [Emitters -> Plans]
      /\ user.allow \in AllowWrite /\ user.results \in Seq({"ok", "failed", "skipped"})
      /\ Len(user.results) \in Nat /\ Within(user.results, Plan, user.allow)
    BY DEF Typed, UserType, ApplyOK
<1>2. NoChild \in ChildType
    BY DEF NoChild, ChildType
<1>3. CASE ApplyStep
  <2>1. user.pc = "apply" /\ user.envelope \in Emitters /\ Len(user.results) < Len(Plan.steps)
        /\ NoFailure(user.results)
      BY <1>3 DEF ApplyStep, At, ApplyOK, NoFailure
  <2>2. Plan.steps[Len(user.results) + 1] \in Step
    <3>1. Plan.steps \in Seq(Step)
        BY <1>1, <2>1, PlanType
    <3> QED
        BY <1>1, <2>1, <3>1
  <2>3. CASE /\ classifyStep(Plan.steps[Len(user.results) + 1], user.allow) = "run"
             /\ Spawn /\ user' = [user EXCEPT !.pc = "step"]
    <3>1. Reach(Plan.steps[Len(user.results) + 1]) =< Leave(user.allow)
        BY <1>1, <2>2, <2>3, GateIsTight
    <3>2. user' = [user EXCEPT !.pc = "step", !.results = user.results]
        BY <1>1, <2>3 DEF UserType
    <3>3. child' \in ChildType
        BY <1>1, <2>3, SpawnType
    <3> QED
        BY <1>1, <2>1, <3>1, <3>2, <3>3, GoesOn
  <2>4. CASE /\ user' = [user EXCEPT !.results = Append(@, "skipped")]
             /\ UNCHANGED child
    <3> DEFINE results == Append(user.results, "skipped")
    <3>1. user' = [user EXCEPT !.pc = "apply", !.results = results]
        BY <1>1, <2>1, <2>4 DEF UserType
    <3>2. results \in Seq({"ok", "failed", "skipped"}) /\ Within(results, Plan, user.allow)
        BY <1>1, <2>1, ResultIsAdded
    <3> HIDE DEF results
    <3> QED
        BY <1>1, <2>1, <2>4, <3>1, <3>2, GoesOn
  <2> QED
      BY <1>3, <2>3, <2>4 DEF ApplyStep
<1>4. CASE StepEnds
  <2>1. user.pc = "step" /\ user.envelope \in Emitters /\ NoFailure(user.results)
        /\ Reach(Plan.steps[Len(user.results) + 1]) =< Leave(user.allow)
      BY <1>4 DEF StepEnds, At, ApplyOK
  <2> DEFINE status == IF child.code = "zero" /\ ~child.timedOut THEN "ok" ELSE "failed"
             results == Append(user.results, status)
  <2>2. user' = [user EXCEPT !.pc = "apply", !.results = results] /\ child' = NoChild
      BY <1>4 DEF StepEnds
  <2>3. status \in {"ok", "failed"}
      OBVIOUS
  <2> HIDE DEF status
  <2>4. results \in Seq({"ok", "failed", "skipped"}) /\ Within(results, Plan, user.allow)
      BY <1>1, <2>1, <2>3, ResultIsAdded
  <2> HIDE DEF results
  <2> QED
      BY <1>2, <2>1, <2>2, <2>4, GoesOn
<1>5. CASE Verify
  <2>1. user.pc = "apply" /\ user.envelope \in Emitters
      BY <1>5 DEF Verify, At, ApplyOK
  <2>2. \/ End(finalStatus) /\ UNCHANGED child
        \/ /\ finalStatus = "ok" /\ Plan.verify # <<>>
           /\ classifyStep(Plan.verify[1], "none") = "run"
           /\ Spawn /\ user' = [user EXCEPT !.pc = "verify"]
        \/ /\ user' = [user EXCEPT !.pc = "ended", !.exit = "ok", !.verify = "indeterminate"]
           /\ UNCHANGED child
      BY <1>5 DEF Verify
  <2>3. CASE End(finalStatus) /\ UNCHANGED child
      BY <1>1, <2>3, EndType, FinalType, Ends
  <2>4. CASE /\ finalStatus = "ok" /\ Plan.verify # <<>>
             /\ classifyStep(Plan.verify[1], "none") = "run"
             /\ Spawn /\ user' = [user EXCEPT !.pc = "verify"]
    <3>1. Plan.verify \in Seq(Step) /\ Plan.verify[1] \in Step
      <4>1. Plan.verify \in Seq(Step)
          BY <1>1, <2>1, PlanType
      <4> QED
          BY <2>4, <4>1
    <3>2. Reach(Plan.verify[1]) =< Leave("none") /\ Leave("none") = 0
        BY <2>4, <3>1, GateIsTight DEF AllowWrite, Leave
    <3>3. Reach(Plan.verify[1]) = 0
        BY <3>1, <3>2, StepReach
    <3>4. user' = [user EXCEPT !.pc = "verify", !.results = user.results]
        BY <1>1, <2>4 DEF UserType
    <3>5. child' \in ChildType
        BY <1>1, <2>4, SpawnType
    <3> QED
        BY <1>1, <2>1, <2>4, <3>3, <3>4, <3>5, GoesOn
  <2>5. CASE /\ user' = [user EXCEPT !.pc = "ended", !.exit = "ok", !.verify = "indeterminate"]
             /\ UNCHANGED child
    <3>1. /\ user' \in UserType /\ user'.pc = "ended" /\ user'.results = user.results
          /\ user'.allow = user.allow /\ user'.envelope = user.envelope
        BY <1>1, <2>5 DEF UserType
    <3> QED
        BY <1>1, <2>5, <3>1, Ends
  <2> QED
      BY <2>2, <2>3, <2>4, <2>5
<1>6. CASE VerifyEnds
  <2>1. PICK verdict \in {"failed", "passed", "indeterminate"} :
          user' = [user EXCEPT !.pc = "ended", !.exit = finalStatus, !.verify = verdict]
    <3>1. (IF child.timedOut \/ child.code # "zero" THEN {"failed"} ELSE {"passed", "indeterminate"})
            \subseteq {"failed", "passed", "indeterminate"}
        OBVIOUS
    <3> QED
        BY <1>6, <3>1 DEF VerifyEnds
  <2>2. child' = NoChild
      BY <1>6 DEF VerifyEnds
  <2>3. /\ user' \in UserType /\ user'.pc = "ended" /\ user'.results = user.results
        /\ user'.allow = user.allow /\ user'.envelope = user.envelope
    <3> DEFINE status == finalStatus
    <3>1. status \in {"failed", "ok", "skipped-only"}
        BY FinalType
    <3> HIDE DEF status
    <3>2. user' = [user EXCEPT !.pc = "ended", !.exit = status, !.verify = verdict]
        BY <2>1 DEF status
    <3> QED
        BY <1>1, <3>1, <3>2 DEF UserType
  <2> QED
      BY <1>1, <1>2, <2>2, <2>3, Ends
<1> QED
    BY <1>3, <1>4, <1>5, <1>6 DEF Apply

\* Only a child moves.
LEMMA ChildMoves ==
    ASSUME Typed, ApplyOK, plan' = plan, user' = user, child' \in ChildType
    PROVE  Typed' /\ ApplyOK'
<1>1. Plan' = Plan
    BY DEF Plan
<1>2. finalStatus' = finalStatus
    BY DEF finalStatus, Ran
<1> QED
    BY <1>1, <1>2 DEF Typed, ApplyOK

LEMMA ChildStepType ==
    ASSUME child \in ChildType, Processes \/ Timeout
    PROVE  child' \in ChildType /\ user' = user
<1>1. user' = user
    BY DEF Processes, ChildExits, Overflow, HeirExits, Timeout, ChildStep
<1>2. ChildExits => child' \in ChildType
    BY DEF ChildExits, ChildType
<1>3. Overflow \/ HeirExits => child' \in ChildType
    BY DEF Overflow, HeirExits, ChildType
<1>4. Timeout => child' \in ChildType
    BY DEF Timeout, ChildType
<1> QED
    BY <1>1, <1>2, <1>3, <1>4 DEF Processes

(***************************************************************************)
(* recover --next.                                                         *)
(***************************************************************************)

\* The first n steps of the plan, or of its branch.
Handed(branch, n) == [i \in 1 .. n |-> <<branch, i>>]

\* What the agent has been given when it is at a step.
GivenTo(p, branch, n) == IF branch THEN Handed(FALSE, p.fork) \o Handed(TRUE, n)
                                   ELSE Handed(FALSE, n)

LEMMA HandedType ==
    ASSUME NEW branch \in BOOLEAN, NEW n \in Nat
    PROVE  /\ Handed(branch, n) \in Seq(BOOLEAN \X Nat) /\ Len(Handed(branch, n)) = n
           /\ \A i \in 1 .. n : Handed(branch, n)[i] = <<branch, i>>
<1>1. Handed(branch, n) \in [1 .. n -> BOOLEAN \X Nat]
    BY DEF Handed
<1>2. Handed(branch, n) \in Seq(BOOLEAN \X Nat)
    BY <1>1, SeqDef
<1>3. Len(Handed(branch, n)) = n
  <2>1. Len(Handed(branch, n)) \in Nat /\ DOMAIN Handed(branch, n) = 1 .. Len(Handed(branch, n))
      BY <1>2, LenProperties
  <2>2. DOMAIN Handed(branch, n) = 1 .. n
      BY DEF Handed
  <2> DEFINE k == Len(Handed(branch, n))
  <2>3. 1 .. k = 1 .. n /\ k \in Nat
      BY <2>1, <2>2
  <2> HIDE DEF k
  <2>4. k = n
    <3>1. ASSUME k < n PROVE FALSE
      <4>1. n \in 1 .. n /\ n \notin 1 .. k
          BY <2>3, <3>1
      <4> QED
          BY <2>3, <4>1
    <3>2. ASSUME n < k PROVE FALSE
      <4>1. k \in 1 .. k /\ k \notin 1 .. n
          BY <2>3, <3>2
      <4> QED
          BY <2>3, <4>1
    <3> QED
        BY <2>3, <3>1, <3>2
  <2> QED
      BY <2>4 DEF k
<1> QED
    BY <1>2, <1>3 DEF Handed

\* One step more is handed out.
LEMMA HandedNext ==
    ASSUME NEW branch \in BOOLEAN, NEW n \in Nat
    PROVE  Append(Handed(branch, n), <<branch, n + 1>>) = Handed(branch, n + 1)
<1> DEFINE s == Handed(branch, n)
           x == <<branch, n + 1>>
           t == Handed(branch, n + 1)
<1>1. s \in Seq(BOOLEAN \X Nat) /\ Len(s) = n /\ \A i \in 1 .. n : s[i] = <<branch, i>>
    BY HandedType
<1>2. /\ t \in Seq(BOOLEAN \X Nat) /\ Len(t) = n + 1
      /\ \A i \in 1 .. n + 1 : t[i] = <<branch, i>>
  <2>1. n + 1 \in Nat
      OBVIOUS
  <2> QED
      BY <2>1, HandedType
<1>3. x \in BOOLEAN \X Nat
    OBVIOUS
<1> HIDE DEF s, t
<1>4. /\ Append(s, x) \in Seq(BOOLEAN \X Nat) /\ Len(Append(s, x)) = n + 1
      /\ \A i \in 1 .. n : Append(s, x)[i] = s[i]
      /\ Append(s, x)[n + 1] = x
    BY <1>1, <1>3
<1>5. \A i \in 1 .. n + 1 : Append(s, x)[i] = t[i]
  <2>1. \A i \in 1 .. n + 1 : i \in 1 .. n \/ i = n + 1
      OBVIOUS
  <2> QED
      BY <1>1, <1>2, <1>4, <2>1
<1>6. Append(s, x) = t
    BY <1>2, <1>4, <1>5, SeqEqual
<1> QED
    BY <1>6 DEF s, t

LEMMA GivenNext ==
    ASSUME NEW p, p.fork \in Nat, NEW n \in Nat
    PROVE  /\ \A branch \in BOOLEAN :
                Append(GivenTo(p, branch, n), <<branch, n + 1>>) = GivenTo(p, branch, n + 1)
           /\ Append(GivenTo(p, FALSE, p.fork), <<TRUE, 1>>) = GivenTo(p, TRUE, 1)
<1> DEFINE main == Handed(FALSE, p.fork)
<1>1. main \in Seq(BOOLEAN \X Nat)
    BY HandedType
<1>2. ASSUME NEW k \in Nat
      PROVE  Append(main \o Handed(TRUE, k), <<TRUE, k + 1>>) = main \o Handed(TRUE, k + 1)
  <2> DEFINE x == <<TRUE, k + 1>>
             t == Handed(TRUE, k)
  <2>1. t \in Seq(BOOLEAN \X Nat)
      BY HandedType
  <2>2. x \in BOOLEAN \X Nat
    <3>1. k + 1 \in Nat
        BY <1>2
    <3> QED
        BY <3>1
  <2>3. Append(t, x) = Handed(TRUE, k + 1)
      BY HandedNext
  <2> HIDE DEF main, t, x
  <2>4. main \o t \in Seq(BOOLEAN \X Nat) /\ <<x>> \in Seq(BOOLEAN \X Nat)
      BY <1>1, <2>1, <2>2
  <2>5. Append(main \o t, x) = (main \o t) \o <<x>>
      BY <2>2, <2>4, AppendIsConcat
  <2>6. (main \o t) \o <<x>> = main \o (t \o <<x>>)
      BY <1>1, <2>1, <2>4, ConcatAssociative, SMTT(30)
  <2>7. t \o <<x>> = Append(t, x)
      BY <2>1, <2>2, AppendIsConcat
  <2> QED
      BY <2>3, <2>5, <2>6, <2>7 DEF t, x
<1>3. main \o Handed(TRUE, 0) = main
  <2>1. Handed(TRUE, 0) = <<>>
    <3>1. Handed(TRUE, 0) \in Seq(BOOLEAN \X Nat) /\ Len(Handed(TRUE, 0)) = 0
        BY HandedType
    <3> QED
        BY <3>1, EmptySeq
  <2> QED
      BY <1>1, <2>1, ConcatEmptySeq
<1>4. Append(main, <<TRUE, 1>>) = main \o Handed(TRUE, 1)
  <2>1. Append(main \o Handed(TRUE, 0), <<TRUE, 0 + 1>>) = main \o Handed(TRUE, 0 + 1)
      BY <1>2
  <2>2. 0 + 1 = 1
      OBVIOUS
  <2> HIDE DEF main
  <2>3. Append(main \o Handed(TRUE, 0), <<TRUE, 1>>) = main \o Handed(TRUE, 1)
      BY <2>1, <2>2
  <2> QED
      BY <1>3, <2>3
<1>5. Append(Handed(FALSE, n), <<FALSE, n + 1>>) = Handed(FALSE, n + 1)
    BY HandedNext
<1>6. Append(main \o Handed(TRUE, n), <<TRUE, n + 1>>) = main \o Handed(TRUE, n + 1)
    BY <1>2
<1> QED
    BY <1>4, <1>5, <1>6 DEF GivenTo

\* The first step.
LEMMA HandedFirst ==
    /\ <<<<FALSE, 1>>>> \in Seq(BOOLEAN \X Nat)
    /\ Handed(FALSE, 1) = <<<<FALSE, 1>>>>
<1> DEFINE x == <<FALSE, 1>>
           t == Handed(FALSE, 1)
<1>1. x \in BOOLEAN \X Nat
    OBVIOUS
<1>2. /\ t \in Seq(BOOLEAN \X Nat) /\ Len(t) = 1
      /\ \A i \in 1 .. 1 : t[i] = <<FALSE, i>>
    BY HandedType
<1>3. t[1] = x
  <2>1. 1 \in 1 .. 1
      OBVIOUS
  <2> QED
      BY <1>2, <2>1
<1> HIDE DEF x, t
<1>4. <<x>> \in Seq(BOOLEAN \X Nat) /\ Len(<<x>>) = 1 /\ <<x>>[1] = x
    BY <1>1
<1>5. \A i \in 1 .. Len(t) : t[i] = <<x>>[i]
    BY <1>2, <1>3, <1>4
<1>6. t = <<x>>
    BY <1>2, <1>4, <1>5, SeqEqual
<1> QED
    BY <1>4, <1>6 DEF x, t

\* Where a walk is, and what it has been given.
WalkOK ==
    /\ user.exit # "no" => user.pc = "ended"
    /\ user.pc = "start" => ~user.moved /\ ~user.branch
    /\ user.pc = "agent" => user.first \in Emitters
    /\ user.pc = "agent" /\ ~user.moved =>
         user.given = GivenTo(plan[user.first], user.branch, user.order)
    /\ user.exit = "done" =>
         /\ user.first \in Emitters
         /\ ~user.moved =>
              LET p == plan[user.first]
              IN user.given = GivenTo(p, user.branch,
                                      IF user.branch THEN Len(p.branch) ELSE Len(p.steps))

LEMMA WalkIsGiven == WalkOK => WalkIsComplete
  BY DEF WalkOK, WalkIsComplete, GivenTo, Handed

LEMMA PlanShape ==
    ASSUME plan \in [Emitters -> Plans], NEW e \in Emitters
    PROVE  /\ plan[e].fork \in Nat /\ Len(plan[e].steps) \in Nat /\ Len(plan[e].branch) \in Nat
           /\ plan[e].steps \in Seq(Step) /\ plan[e].branch \in Seq(Step)
<1>1. /\ plan[e].steps \in Seq(Step) /\ plan[e].branch \in Seq(Step)
      /\ plan[e].fork \in 0 .. Len(plan[e].steps)
    BY PlanAssumption
<1>2. Len(plan[e].steps) \in Nat /\ Len(plan[e].branch) \in Nat
    BY <1>1
<1>3. plan[e].fork \in Nat
    BY <1>1, <1>2
<1> QED
    BY <1>1, <1>2, <1>3

\* What nextStep answers: the step after this one, the first of the branch at the fork, or
\* that this was the last.
LEMMA NextStepIs ==
    ASSUME NEW p, NEW branch \in BOOLEAN, NEW after \in Nat, NEW n \in nextStep(p, branch, after)
    PROVE  \/ /\ n = [kind |-> "step", branch |-> branch, order |-> after + 1]
           \/ /\ n = [kind |-> "done", branch |-> branch, order |-> after]
              /\ after = IF branch THEN Len(p.branch) ELSE Len(p.steps)
           \/ /\ n = [kind |-> "step", branch |-> TRUE, order |-> 1]
              /\ ~branch /\ p.fork = after
  BY DEF nextStep, Linear

LEMMA ResolveStep ==
    ASSUME Typed, ApplyOK, WalkOK, FilesType, Resolve
    PROVE  Typed' /\ ApplyOK' /\ WalkOK'
<1>1. /\ user \in UserType /\ child \in ChildType /\ child' = child /\ plan' = plan
      /\ plan \in [Emitters -> Plans] /\ user.pc = "start" /\ user.results = <<>>
      /\ ~user.moved
    BY DEF Typed, Resolve, Files, At, ApplyOK, WalkOK
<1>2. CASE End("malformed")
  <2>1. Typed' /\ ApplyOK'
      BY <1>1, <1>2, EndType, Ends
  <2>2. user'.pc = "ended" /\ user'.exit = "malformed"
      BY <1>1, <1>2 DEF UserType, End
  <2> QED
      BY <2>1, <2>2 DEF WalkOK
<1>3. CASE /\ Readable
           /\ user' = [user EXCEPT !.envelope = content[last], !.first = content[last],
                                   !.pc = IF user.walking THEN "agent" ELSE "apply",
                                   !.order = 1, !.given = <<<<FALSE, 1>>>>]
  <2> DEFINE e == content[last]
             pc == IF user.walking THEN "agent" ELSE "apply"
             given == <<<<FALSE, 1>>>>
  <2>1. e \in Emitters /\ pc \in {"agent", "apply"}
      BY <1>3 DEF Readable
  <2>2. given \in Seq(BOOLEAN \X Nat)
      BY HandedFirst
  <2>3. user' = [user EXCEPT !.envelope = e, !.first = e, !.pc = pc, !.order = 1,
                             !.given = given]
      BY <1>3
  <2> HIDE DEF e, pc, given
  <2>4. /\ user' \in UserType /\ user'.pc = pc /\ user'.results = <<>>
        /\ user'.envelope = e /\ user'.first = e /\ user'.order = 1 /\ user'.given = given
        /\ user'.exit = user.exit /\ user'.moved = user.moved /\ user'.branch = user.branch
    <3>1. pc \in {"start", "apply", "step", "verify", "agent", "ended"}
        BY <2>1
    <3> QED
        BY <1>1, <2>1, <2>2, <2>3, <3>1 DEF UserType
  <2>5. ApplyOK'
    <3>1. Within(user'.results, Plan', user'.allow)
        BY <2>4 DEF Within
    <3> QED
        BY <2>1, <2>4, <3>1 DEF ApplyOK
  <2>6. user.branch = FALSE /\ user.exit = "no"
    <3>1. user.branch \in BOOLEAN /\ ~user.branch
        BY <1>1 DEF WalkOK, UserType
    <3>2. user.exit = "no"
        BY <1>1 DEF WalkOK
    <3> QED
        BY <3>1, <3>2
  <2>7. given = GivenTo(plan[e], FALSE, 1)
      BY HandedFirst DEF given, GivenTo
  <2>8. WalkOK'
      BY <1>1, <2>1, <2>4, <2>6, <2>7 DEF WalkOK
  <2> QED
      BY <1>1, <2>4, <2>5, <2>8 DEF Typed
<1> QED
    BY <1>2, <1>3 DEF Resolve

LEMMA NextTurnStep ==
    ASSUME Typed, ApplyOK, WalkOK, NextTurn
    PROVE  Typed' /\ ApplyOK' /\ WalkOK'
<1>1. /\ user \in UserType /\ child \in ChildType /\ child' = child /\ plan' = plan
      /\ plan \in [Emitters -> Plans] /\ user.pc = "agent" /\ user.results = <<>>
      /\ user.first \in Emitters /\ user.exit = "no" /\ user.order \in Nat
      /\ user.branch \in BOOLEAN /\ user.moved \in BOOLEAN
      /\ user.given \in Seq(BOOLEAN \X Nat)
    BY DEF Typed, NextTurn, Files, At, ApplyOK, WalkOK, UserType
<1>2. CASE End("malformed")
  <2>1. Typed' /\ ApplyOK'
      BY <1>1, <1>2, EndType, Ends
  <2>2. user'.pc = "ended" /\ user'.exit = "malformed"
      BY <1>1, <1>2 DEF UserType, End
  <2> QED
      BY <2>1, <2>2 DEF WalkOK
<1>3. CASE Readable /\ ~End("malformed")
  <2> DEFINE e == content[last]
  <2>1. e \in Emitters
      BY <1>3 DEF Readable
  <2>2. PICK n \in nextStep(plan[e], user.branch, user.order) :
          user' = [user EXCEPT
            !.envelope = e, !.moved = @ \/ e # user.first,
            !.order = n.order, !.branch = n.branch,
            !.given = IF n.kind = "step" THEN Append(@, <<n.branch, n.order>>) ELSE @,
            !.pc = IF n.kind = "done" THEN "ended" ELSE @,
            !.exit = IF n.kind = "done" THEN "done" ELSE @]
      BY <1>3 DEF NextTurn
  <2>3. \/ n = [kind |-> "step", branch |-> user.branch, order |-> user.order + 1]
        \/ /\ n = [kind |-> "done", branch |-> user.branch, order |-> user.order]
           /\ user.order = IF user.branch THEN Len(plan[e].branch) ELSE Len(plan[e].steps)
        \/ /\ n = [kind |-> "step", branch |-> TRUE, order |-> 1]
           /\ ~user.branch /\ plan[e].fork = user.order
      BY <1>1, <2>2, NextStepIs
  <2>4. n.kind \in {"step", "done"} /\ n.branch \in BOOLEAN /\ n.order \in Nat
    <3>1. user.order + 1 \in Nat /\ 1 \in Nat
        BY <1>1
    <3>2. n.kind \in {"step", "done"}
        BY <2>3
    <3>3. n.branch \in BOOLEAN
      <4>1. n.branch = user.branch \/ n.branch = TRUE
          BY <2>3
      <4> QED
          BY <1>1, <4>1
    <3>4. n.order \in Nat
        BY <1>1, <2>3, <3>1
    <3> QED
        BY <3>2, <3>3, <3>4
  <2> DEFINE given == IF n.kind = "step" THEN Append(user.given, <<n.branch, n.order>>)
                                         ELSE user.given
             moved == user.moved \/ e # user.first
             pc == IF n.kind = "done" THEN "ended" ELSE "agent"
             exit == IF n.kind = "done" THEN "done" ELSE "no"
  <2>5. given \in Seq(BOOLEAN \X Nat) /\ moved \in BOOLEAN
    <3>1. <<n.branch, n.order>> \in BOOLEAN \X Nat
        BY <2>4
    <3> QED
        BY <1>1, <3>1
  <2>6. pc \in {"agent", "ended"} /\ exit \in {"done", "no"}
      OBVIOUS
  <2>7. user' = [user EXCEPT !.envelope = e, !.moved = moved, !.order = n.order,
                             !.branch = n.branch, !.given = given, !.pc = pc, !.exit = exit]
    <3>1. user.pc = "agent" /\ user.exit = "no" /\ user \in UserType
        BY <1>1
    <3> QED
        BY <2>2, <3>1 DEF UserType
  <2> HIDE DEF e, given, moved, pc, exit
  <2>8. /\ user' \in UserType /\ user'.pc = pc /\ user'.exit = exit /\ user'.given = given
        /\ user'.moved = moved /\ user'.branch = n.branch /\ user'.order = n.order
        /\ user'.first = user.first /\ user'.envelope = e /\ user'.results = <<>>
      BY <1>1, <2>1, <2>4, <2>5, <2>6, <2>7 DEF UserType
  <2>9. ApplyOK'
    <3>1. Within(user'.results, Plan', user'.allow)
        BY <2>8 DEF Within
    <3> QED
        BY <2>1, <2>6, <2>8, <3>1 DEF ApplyOK
  <2>10. WalkOK'
    <3> DEFINE p == plan[user.first]
    <3>1. /\ exit # "no" => pc = "ended"
          /\ pc = "agent" <=> n.kind = "step"
          /\ exit = "done" <=> n.kind = "done"
        BY <2>4 DEF exit, pc
    <3>2. ASSUME ~moved
          PROVE  given = IF n.kind = "step" THEN GivenTo(p, n.branch, n.order)
                         ELSE GivenTo(p, n.branch, IF n.branch THEN Len(p.branch) ELSE Len(p.steps))
      <4>1. e = user.first /\ user.given = GivenTo(p, user.branch, user.order)
          BY <1>1, <3>2 DEF moved, WalkOK
      <4>2. p.fork \in Nat
          BY <1>1, PlanShape
      <4> HIDE DEF p
      <4>3. CASE n = [kind |-> "step", branch |-> user.branch, order |-> user.order + 1]
        <5>1. Append(GivenTo(p, user.branch, user.order), <<user.branch, user.order + 1>>)
                = GivenTo(p, user.branch, user.order + 1)
            BY <1>1, <4>2, GivenNext
        <5>2. n.kind = "step" /\ n.branch = user.branch /\ n.order = user.order + 1
            BY <4>3
        <5>3. given = Append(user.given, <<user.branch, user.order + 1>>)
            BY <5>2 DEF given
        <5> QED
            BY <4>1, <5>1, <5>2, <5>3
      <4>4. CASE /\ n = [kind |-> "done", branch |-> user.branch, order |-> user.order]
                 /\ user.order = IF user.branch THEN Len(plan[e].branch) ELSE Len(plan[e].steps)
        <5>1. n.kind = "done" /\ n.branch = user.branch
              /\ user.order = IF n.branch THEN Len(p.branch) ELSE Len(p.steps)
            BY <4>1, <4>4 DEF p
        <5>2. given = user.given
            BY <5>1 DEF given
        <5> QED
            BY <4>1, <5>1, <5>2
      <4>5. CASE /\ n = [kind |-> "step", branch |-> TRUE, order |-> 1]
                 /\ ~user.branch /\ plan[e].fork = user.order
        <5>1. user.order = p.fork /\ user.branch = FALSE
            BY <1>1, <4>1, <4>5 DEF p
        <5>2. n.kind = "step" /\ n.branch = TRUE /\ n.order = 1
            BY <4>5
        <5>3. given = Append(GivenTo(p, FALSE, p.fork), <<TRUE, 1>>)
            BY <4>1, <5>1, <5>2 DEF given
        <5> QED
            BY <4>2, <5>2, <5>3, GivenNext
      <4> QED
          BY <2>3, <4>3, <4>4, <4>5
    <3> QED
        BY <1>1, <2>6, <2>8, <3>1, <3>2 DEF WalkOK
  <2> QED
      BY <1>1, <2>8, <2>9, <2>10 DEF Typed
<1> QED
    BY <1>2, <1>3 DEF NextTurn

(***************************************************************************)
(* The whole.                                                              *)
(***************************************************************************)

Inv == FilesOK /\ Typed /\ ApplyOK /\ WalkOK

LEMMA InvInit == Init => Inv
<1> SUFFICES ASSUME Init PROVE Inv
    OBVIOUS
<1>1. FilesOK
    BY FilesInit
<1>2. user.results = <<>> /\ user.pc = "start" /\ user.exit = "no" /\ ~user.moved
      /\ ~user.branch
    BY DEF Init
<1>3. child \in ChildType
    BY DEF Init, NoChild, ChildType
<1>4. user \in UserType
  <2> DEFINE none == <<>>
  <2>1. none \in Seq({"ok", "failed", "skipped"}) /\ none \in Seq(BOOLEAN \X Nat)
      OBVIOUS
  <2>2. PICK allow \in AllowWrite, walking \in BOOLEAN, noVerify \in BOOLEAN :
          user = [pc |-> "start", allow |-> allow, walking |-> walking,
                  noVerify |-> noVerify, envelope |-> NoFile, results |-> none,
                  verify |-> "none", exit |-> "no", order |-> 0, branch |-> FALSE,
                  given |-> none, first |-> NoFile, moved |-> FALSE]
      BY DEF Init
  <2> HIDE DEF none
  <2> QED
      BY <2>1, <2>2 DEF UserType
<1>5. ApplyOK
    BY <1>2 DEF ApplyOK, Within
<1>6. WalkOK
    BY <1>2 DEF WalkOK
<1> QED
    BY <1>1, <1>3, <1>4, <1>5, <1>6 DEF Inv, Typed, FilesOK, FilesType

\* What only reads and writes user.results and the rest of apply leaves a walk alone.
LEMMA ApplyWalk ==
    ASSUME Typed, WalkOK, plan' = plan, Apply
    PROVE  WalkOK'
<1>1. user \in UserType /\ user.pc \in {"apply", "step", "verify"} /\ user.exit = "no"
    BY DEF Typed, WalkOK, Apply, ApplyStep, StepEnds, Verify, VerifyEnds, At
<1> DEFINE skipped == Append(user.results, "skipped")
           settled == Append(user.results, IF child.code = "zero" /\ ~child.timedOut
                                             THEN "ok" ELSE "failed")
<1>2. ApplyStep => user.pc = "apply" /\ \/ user' = [user EXCEPT !.pc = "step"]
                                        \/ user' = [user EXCEPT !.results = skipped]
    BY DEF ApplyStep, At
<1>3. StepEnds => user' = [user EXCEPT !.pc = "apply", !.results = settled]
    BY DEF StepEnds
<1> HIDE DEF skipped, settled
<1>4. user'.exit # "no" => user'.pc = "ended"
  <2>1. CASE user'.exit = user.exit
      BY <1>1, <2>1
  <2>2. CASE user'.pc = "ended"
      BY <2>2
  <2>3. ApplyStep \/ StepEnds => user'.exit = user.exit
      BY <1>1, <1>2, <1>3 DEF UserType
  <2>4. Verify \/ VerifyEnds => user'.exit = user.exit \/ user'.pc = "ended"
      BY <1>1 DEF Verify, VerifyEnds, End, UserType
  <2> QED
      BY <2>1, <2>2, <2>3, <2>4 DEF Apply
<1>5. user'.pc \notin {"start", "agent"} /\ user'.exit # "done"
  <2>1. ApplyStep \/ StepEnds => user'.pc \in {"apply", "step"} /\ user'.exit = "no"
      BY <1>1, <1>2, <1>3 DEF UserType
  <2>2. finalStatus # "done"
      BY FinalType
  <2>3. Verify => user'.pc \in {"verify", "ended"} /\ user'.exit # "done"
      BY <1>1, <2>2 DEF Verify, End, UserType
  <2>4. VerifyEnds => user'.pc = "ended" /\ user'.exit # "done"
      BY <1>1, <2>2 DEF VerifyEnds, UserType
  <2> QED
      BY <2>1, <2>3, <2>4 DEF Apply
<1> QED
    BY <1>4, <1>5 DEF WalkOK

LEMMA InvStep == Inv /\ [Next]_vars => Inv'
<1> SUFFICES ASSUME Inv, [Next]_vars PROVE Inv'
    OBVIOUS
<1>1. FilesOK /\ Typed /\ ApplyOK /\ WalkOK /\ FilesType /\ child \in ChildType
    BY DEF Inv, FilesOK, Typed
<1>2. FilesOK'
    BY <1>1, FilesStep
<1>3. CASE plan' = plan /\ user' = user /\ child' \in ChildType
  <2>1. Typed' /\ ApplyOK'
      BY <1>1, <1>3, ChildMoves
  <2>2. WalkOK'
      BY <1>1, <1>3 DEF WalkOK
  <2> QED
      BY <1>2, <2>1, <2>2 DEF Inv
<1>4. CASE Apply
  <2>1. plan' = plan
      BY <1>4 DEF Apply, ApplyStep, StepEnds, Verify, VerifyEnds, Files
  <2> QED
      BY <1>1, <1>2, <1>4, <2>1, ApplyOKStep, ApplyWalk DEF Inv
<1>5. CASE Resolve
    BY <1>1, <1>2, <1>5, ResolveStep DEF Inv
<1>6. CASE NextTurn
    BY <1>1, <1>2, <1>6, NextTurnStep DEF Inv
<1>7. CASE Processes \/ Timeout
  <2>1. plan' = plan
      BY <1>7 DEF Processes, ChildExits, Overflow, HeirExits, Timeout, ChildStep, Files
  <2> QED
      BY <1>1, <1>3, <1>7, <2>1, ChildStepType
<1>8. CASE Emit
  <2>1. plan' = plan /\ user' = user /\ child' = child
      BY <1>8 DEF Emit, OpenTemp, WriteTemp, RenameTemp, KillEmitter, Reader
  <2> QED
      BY <1>1, <1>3, <2>1
<1>9. CASE UNCHANGED vars
    BY <1>1, <1>3, <1>9 DEF vars
<1> QED
    BY <1>4, <1>5, <1>6, <1>7, <1>8, <1>9 DEF Next

LEMMA InvHolds == Spec => []Inv
  BY InvInit, InvStep, PTL DEF Spec

\* Every variable keeps its type.
THEOREM TypeCorrect == Spec => []TypeOK
<1>1. Inv => TypeOK
    BY TypeParts DEF Inv, FilesOK, Typed
<1> QED
    BY <1>1, InvHolds, PTL

\* runApply and classifyStep: nothing that runs, and nothing that has run, reaches further
\* than --allow-write gives leave to; after a failure nothing runs.
THEOREM AppliesWithinItsLeaveHolds == Spec => []AppliesWithinItsLeave
<1>1. Inv => AppliesWithinItsLeave
  <2> SUFFICES ASSUME Inv PROVE AppliesWithinItsLeave
      OBVIOUS
  <2>1. /\ Within(user.results, Plan, user.allow)
        /\ user.pc = "step" => /\ NoFailure(user.results)
                               /\ Reach(Plan.steps[Len(user.results) + 1]) =< Leave(user.allow)
        /\ user.pc = "verify" => Reach(Plan.verify[1]) = 0 /\ finalStatus = "ok"
      BY DEF Inv, ApplyOK
  <2>2. \A i \in Ran : Reach(Plan.steps[i]) =< Leave(user.allow)
      BY <2>1 DEF Within, Ran
  <2>3. \A i \in DOMAIN user.results :
          user.results[i] = "failed" => i = Len(user.results) /\ ~At("step")
      BY <2>1 DEF Within, NoFailure, At
  <2> QED
      BY <2>1, <2>2, <2>3 DEF AppliesWithinItsLeave, At
<1> QED
    BY <1>1, InvHolds, PTL

\* nextStepFromEnvelope: who is told that the plan is done was handed out every step of it,
\* or of the branch it took, each once and in order, however long the plan is.
THEOREM WalkIsCompleteHolds == Spec => []WalkIsComplete
<1>1. Inv => WalkIsComplete
    BY WalkIsGiven DEF Inv
<1> QED
    BY <1>1, InvHolds, PTL

(***************************************************************************)
(* What can be proved of ApplyEnds.  That recover takes its next step and  *)
(* that its timer fires are fairness; the rest is that there are only so   *)
(* many steps to take, and that nothing but a process that inherited the   *)
(* pipes can keep a step whose time is up from its end.                    *)
(***************************************************************************)

Applying == user.pc \in {"apply", "step", "verify"}

One(b) == IF b THEN 1 ELSE 0

\* What may still happen to a child: its exit, its pipes closed, the exit of what it
\* started, its timeout.
Pending(c) == One(c.alive) + One(c.pipes) + One(c.heir) + One(~c.timedOut)

Remaining(steps, results, place, c) ==
    6 * (steps - results) + CASE place = "apply" -> 6
                              [] place \in {"step", "verify"} -> 1 + Pending(c)
                              [] OTHER -> 0

\* What is left to do of an apply.
Left == Remaining(Len(Plan.steps), Len(user.results), user.pc, child)

\* runApply and executeStep: whatever a step's processes do, and however its timeout
\* falls, an apply has less left to do after each of its steps, and no other command
\* adds to it; once its time is up, what a step waits for is a process that it started.
ApplyIsFinite ==
    /\ [](Applying => Left \in Nat)
    /\ [](Waiting /\ child.timedOut /\ ~Settled => ~child.alive /\ child.heir)
    /\ [][Applying => /\ Apply \/ Processes \/ Timeout => Left' < Left
                      /\ Left' =< Left]_vars

\* The child holds its pipes, or what it started does; the timeout has killed it.
ChildOK(c) == /\ c.pipes => c.alive \/ c.heir
              /\ c.timedOut => ~c.alive

CountOK == /\ Applying => Len(user.results) =< Len(Plan.steps)
           /\ user.pc = "step" => Len(user.results) < Len(Plan.steps)
           /\ ChildOK(child)

LEMMA PendingType == \A c \in ChildType : Pending(c) \in 0 .. 4
  BY DEF ChildType, Pending, One

LEMMA Sums ==
    ASSUME NEW n \in Nat, NEW k \in Nat, NEW a \in 0 .. 4
    PROVE  /\ 6 * (n - k) \in Int /\ 6 * (n - k) + 6 \in Int /\ 6 * (n - k) + (1 + a) \in Int
           /\ 6 * (n - (k + 1)) + 6 \in Int
           /\ 6 * (n - k) + (1 + a) < 6 * (n - k) + 6
           /\ 6 * (n - (k + 1)) + 6 < 6 * (n - k) + 6
           /\ 6 * (n - (k + 1)) + 6 < 6 * (n - k) + (1 + a)
           /\ 6 * (n - k) < 6 * (n - k) + (1 + a) /\ 6 * (n - k) < 6 * (n - k) + 6
           /\ k =< n => /\ 6 * (n - k) + 6 \in Nat /\ 6 * (n - k) + (1 + a) \in Nat
  OBVIOUS

LEMMA ApplyTypes ==
    ASSUME Inv, Applying
    PROVE  /\ user \in UserType /\ child \in ChildType /\ Pending(child) \in 0 .. 4
           /\ user.results \in Seq({"ok", "failed", "skipped"})
           /\ Len(user.results) \in Nat /\ Len(Plan.steps) \in Nat
           /\ Left \in Int /\ (Len(user.results) =< Len(Plan.steps) => Left \in Nat)
<1>1. user \in UserType /\ child \in ChildType /\ plan \in [Emitters -> Plans]
    BY DEF Inv, Typed
<1>2. user.envelope \in Emitters
    BY DEF Inv, ApplyOK, Applying
<1>3. Len(Plan.steps) \in Nat
    BY <1>1, <1>2, PlanType, LenProperties
<1>4. user.results \in Seq({"ok", "failed", "skipped"})
    BY <1>1 DEF UserType
<1>5. Pending(child) \in 0 .. 4 /\ Len(user.results) \in Nat
    BY <1>1, <1>4, PendingType, LenProperties
<1> DEFINE n == 6 * (Len(Plan.steps) - Len(user.results))
<1>6. Left = n + 6 \/ Left = n + (1 + Pending(child))
    BY DEF Left, Remaining, Applying
<1>7. Left \in Int /\ (Len(user.results) =< Len(Plan.steps) => Left \in Nat)
    BY <1>3, <1>5, <1>6, Sums
<1> QED
    BY <1>1, <1>3, <1>4, <1>5, <1>7

\* A step of the processes, or of the timer.
LEMMA ChildSpends ==
    ASSUME NEW c \in ChildType, NEW d \in ChildType, ChildOK(c),
           \/ c.alive /\ \E code \in {"zero", "other"} :
                d = [c EXCEPT !.alive = FALSE, !.code = code,
                              !.pipes = IF c.heir THEN @ ELSE FALSE]
           \/ c.pipes /\ d = [c EXCEPT !.pipes = FALSE]
           \/ c.heir /\ ~c.alive /\ d = [c EXCEPT !.heir = FALSE, !.pipes = FALSE]
           \/ ~c.timedOut /\ d = [c EXCEPT !.timedOut = TRUE, !.alive = FALSE,
                                           !.code = IF c.alive THEN "other" ELSE @,
                                           !.pipes = IF c.heir THEN @ ELSE FALSE]
    PROVE  ChildOK(d) /\ Pending(d) < Pending(c)
<1>1. /\ c.alive \in BOOLEAN /\ c.pipes \in BOOLEAN /\ c.heir \in BOOLEAN
      /\ c.timedOut \in BOOLEAN
    BY DEF ChildType
<1>2. \/ /\ c.alive /\ ~d.alive /\ d.heir = c.heir /\ d.timedOut = c.timedOut
         /\ d.pipes = (IF c.heir THEN c.pipes ELSE FALSE)
      \/ /\ c.pipes /\ d.alive = c.alive /\ d.heir = c.heir /\ d.timedOut = c.timedOut
         /\ ~d.pipes
      \/ /\ c.heir /\ ~d.heir /\ ~c.alive /\ ~d.alive /\ d.timedOut = c.timedOut
         /\ ~d.pipes
      \/ /\ ~c.timedOut /\ d.timedOut /\ ~d.alive /\ d.heir = c.heir
         /\ d.pipes = (IF c.heir THEN c.pipes ELSE FALSE)
    BY DEF ChildType
<1>3. ChildOK(d)
    BY <1>1, <1>2 DEF ChildOK
<1>4. Pending(d) < Pending(c)
  <2>1. /\ d.alive \in BOOLEAN /\ d.pipes \in BOOLEAN /\ d.heir \in BOOLEAN
        /\ d.timedOut \in BOOLEAN
      BY DEF ChildType
  <2>2. \A x, y \in BOOLEAN : /\ One(x) \in {0, 1} /\ ((x => y) => One(x) =< One(y))
                              /\ (~x /\ y => One(x) < One(y))
      BY DEF One
  <2>3. /\ d.alive => c.alive
        /\ d.pipes => c.pipes
        /\ d.heir => c.heir
        /\ ~d.timedOut => ~c.timedOut
      BY ONLY <1>1, <1>2, <2>1
  <2>4. \/ ~d.alive /\ c.alive
        \/ ~d.pipes /\ c.pipes
        \/ ~d.heir /\ c.heir
        \/ ~(~d.timedOut) /\ ~c.timedOut
      BY ONLY <1>1, <1>2, <2>1
  <2>5. /\ {One(d.alive), One(d.pipes), One(d.heir), One(~d.timedOut)} \subseteq {0, 1}
        /\ {One(c.alive), One(c.pipes), One(c.heir), One(~c.timedOut)} \subseteq {0, 1}
      BY ONLY <1>1, <2>1, <2>2
  <2>6. /\ One(d.alive) =< One(c.alive) /\ One(d.pipes) =< One(c.pipes)
        /\ One(d.heir) =< One(c.heir) /\ One(~d.timedOut) =< One(~c.timedOut)
      BY ONLY <1>1, <2>1, <2>2, <2>3
  <2>7. \/ One(d.alive) < One(c.alive) \/ One(d.pipes) < One(c.pipes)
        \/ One(d.heir) < One(c.heir) \/ One(~d.timedOut) < One(~c.timedOut)
      BY ONLY <1>1, <2>1, <2>2, <2>4
  <2> QED
      BY ONLY <2>5, <2>6, <2>7 DEF Pending
<1> QED
    BY <1>3, <1>4

LEMMA SpawnOK == ASSUME Spawn PROVE ChildOK(child') /\ child' \in ChildType
  BY DEF Spawn, NoChild, ChildOK, ChildType

\* Who waits.
LEMMA MovesOn ==
    ASSUME Inv, CountOK, Processes \/ Timeout
    PROVE  CountOK' /\ Left' < Left /\ Left' \in Int /\ Applying
<1>1. /\ user' = user /\ plan' = plan /\ user.pc \in {"step", "verify"}
    BY DEF Processes, ChildExits, Overflow, HeirExits, Timeout, ChildStep, Files, Waiting, At
<1>2. child \in ChildType /\ child' \in ChildType
    BY ChildStepType DEF Inv, Typed
<1>3. ChildOK(child') /\ Pending(child') < Pending(child)
  <2>1. \/ child.alive /\ \E code \in {"zero", "other"} :
             child' = [child EXCEPT !.alive = FALSE, !.code = code,
                                    !.pipes = IF child.heir THEN @ ELSE FALSE]
        \/ child.pipes /\ child' = [child EXCEPT !.pipes = FALSE]
        \/ child.heir /\ ~child.alive /\ child' = [child EXCEPT !.heir = FALSE, !.pipes = FALSE]
        \/ ~child.timedOut /\ child' = [child EXCEPT !.timedOut = TRUE, !.alive = FALSE,
                                          !.code = IF child.alive THEN "other" ELSE @,
                                          !.pipes = IF child.heir THEN @ ELSE FALSE]
      BY DEF Processes, ChildExits, Overflow, HeirExits, Timeout
  <2> QED
      BY <1>2, <2>1, ChildSpends DEF CountOK
<1>4. Plan' = Plan /\ Applying
    BY <1>1 DEF Plan, Applying
<1>5. Pending(child') \in 0 .. 4 /\ Pending(child) \in 0 .. 4
    BY <1>2, PendingType
<1>6. CountOK'
    BY <1>1, <1>3, <1>4 DEF CountOK, Applying
<1>7. Left' < Left /\ Left' \in Int
  <2> DEFINE n == 6 * (Len(Plan.steps) - Len(user.results))
  <2>1. n \in Int
      BY <1>4, ApplyTypes
  <2>2. Left = n + (1 + Pending(child)) /\ Left' = n + (1 + Pending(child'))
      BY <1>1, <1>4 DEF Left, Remaining
  <2> HIDE DEF n
  <2> QED
      BY <1>3, <1>5, <2>1, <2>2
<1> QED
    BY <1>4, <1>6, <1>7

\* recover itself takes a step.
LEMMA AppliesOn ==
    ASSUME Inv, CountOK, Inv', Apply
    PROVE  CountOK' /\ Left' < Left /\ Left' \in Int /\ Applying
<1>1. Applying
    BY DEF Apply, ApplyStep, StepEnds, Verify, VerifyEnds, At, Applying
<1>2. /\ user \in UserType /\ child \in ChildType /\ Pending(child) \in 0 .. 4
      /\ user.results \in Seq({"ok", "failed", "skipped"})
      /\ Len(user.results) \in Nat /\ Len(Plan.steps) \in Nat
    BY <1>1, ApplyTypes
<1>3. plan' = plan /\ child' \in ChildType /\ Pending(child') \in 0 .. 4
  <2>1. plan' = plan
      BY DEF Apply, ApplyStep, StepEnds, Verify, VerifyEnds, Files
  <2> QED
      BY <2>1, PendingType DEF Inv, Typed
<1>4. ChildOK(NoChild)
    BY DEF ChildOK, NoChild
<1> DEFINE total == Len(Plan.steps)
           done == Len(user.results)
<1>5. user'.envelope = user.envelope => Len(Plan.steps)' = total
    BY <1>3 DEF Plan
<1>6. CASE ApplyStep
  <2>1. user.pc = "apply" /\ done < total
      BY <1>6 DEF ApplyStep, At
  <2>2. CASE Spawn /\ user' = [user EXCEPT !.pc = "step"]
    <3>1. user'.pc = "step" /\ user'.results = user.results /\ user'.envelope = user.envelope
        BY <1>2, <2>2 DEF UserType
    <3>2. ChildOK(child')
        BY <2>2, SpawnOK
    <3>3. CountOK'
        BY <1>5, <2>1, <3>1, <3>2, <1>2 DEF CountOK
    <3>4. Left = 6 * (total - done) + 6 /\ Left' = 6 * (total - done) + (1 + Pending(child'))
        BY <1>5, <2>1, <3>1 DEF Left, Remaining
    <3>5. Left' < Left /\ Left' \in Int
        BY ONLY <1>2, <1>3, <3>4, Sums
    <3> QED
        BY <1>1, <3>3, <3>5
  <2>3. CASE user' = [user EXCEPT !.results = Append(@, "skipped")] /\ UNCHANGED child
    <3>1. /\ user'.pc = "apply" /\ user'.results = Append(user.results, "skipped")
          /\ user'.envelope = user.envelope
        BY <1>2, <2>1, <2>3 DEF UserType
    <3>2. Len(user'.results) = done + 1
        BY <1>2, <3>1
    <3>3. CountOK'
        BY <1>2, <1>5, <2>1, <2>3, <3>1, <3>2 DEF CountOK
    <3>4. Left = 6 * (total - done) + 6 /\ Left' = 6 * (total - (done + 1)) + 6
        BY <1>5, <2>1, <3>1, <3>2 DEF Left, Remaining
    <3>5. Left' < Left /\ Left' \in Int
        BY ONLY <1>2, <3>4, Sums
    <3> QED
        BY <1>1, <3>3, <3>5
  <2> QED
      BY <1>6, <2>2, <2>3 DEF ApplyStep
<1>7. CASE StepEnds
  <2> DEFINE status == IF child.code = "zero" /\ ~child.timedOut THEN "ok" ELSE "failed"
  <2>1. /\ user.pc = "step" /\ child' = NoChild
        /\ user' = [user EXCEPT !.pc = "apply", !.results = Append(@, status)]
      BY <1>7 DEF StepEnds, At
  <2>2. status \in {"ok", "failed", "skipped"}
      OBVIOUS
  <2> HIDE DEF status
  <2>3. /\ user'.pc = "apply" /\ user'.results = Append(user.results, status)
        /\ user'.envelope = user.envelope
      BY <1>2, <2>1 DEF UserType
  <2>4. Len(user'.results) = done + 1 /\ done < total
      BY <1>2, <2>1, <2>2, <2>3 DEF CountOK
  <2>5. CountOK'
      BY <1>2, <1>4, <1>5, <2>1, <2>3, <2>4 DEF CountOK
  <2>6. Left = 6 * (total - done) + (1 + Pending(child)) /\ Left' = 6 * (total - (done + 1)) + 6
      BY <1>5, <2>1, <2>3, <2>4 DEF Left, Remaining
  <2>7. Left' < Left /\ Left' \in Int
      BY ONLY <1>2, <2>6, Sums
  <2> QED
      BY <1>1, <2>5, <2>7
<1>8. CASE Verify \/ VerifyEnds
  <2>1. /\ user.pc \in {"apply", "verify"} /\ user'.results = user.results
        /\ user'.envelope = user.envelope
        /\ \/ user'.pc = "ended" /\ child' \in {child, NoChild}
           \/ user.pc = "apply" /\ user'.pc = "verify" /\ Spawn
      BY <1>2, <1>8 DEF Verify, VerifyEnds, End, At, UserType
  <2>2. done =< total
      BY <1>1 DEF CountOK
  <2>3. ChildOK(child')
      BY <1>4, <2>1, SpawnOK DEF CountOK
  <2>4. CountOK'
      BY <1>2, <1>5, <2>1, <2>2, <2>3 DEF CountOK, Applying
  <2>5. CASE user'.pc = "ended"
    <3>1. Left' = 6 * (total - done)
      <4>1. Left' = 6 * (total - done) + 0
          BY <1>5, <2>1, <2>5 DEF Left, Remaining
      <4> QED
          BY ONLY <1>2, <4>1, Sums
    <3>2. Left = 6 * (total - done) + 6 \/ Left = 6 * (total - done) + (1 + Pending(child))
        BY <2>1 DEF Left, Remaining
    <3>3. Left' < Left /\ Left' \in Int
        BY ONLY <1>2, <3>1, <3>2, Sums
    <3> QED
        BY <1>1, <2>4, <3>3
  <2>6. CASE user.pc = "apply" /\ user'.pc = "verify"
    <3>1. Left = 6 * (total - done) + 6 /\ Left' = 6 * (total - done) + (1 + Pending(child'))
        BY <1>5, <2>1, <2>6 DEF Left, Remaining
    <3>2. Left' < Left /\ Left' \in Int
        BY ONLY <1>2, <1>3, <3>1, Sums
    <3> QED
        BY <1>1, <2>4, <3>2
  <2> QED
      BY <2>1, <2>5, <2>6
<1> QED
    BY <1>6, <1>7, <1>8 DEF Apply

\* What is none of apply's steps.
LEMMA OthersAddNothing ==
    ASSUME Inv, CountOK, Emit \/ Resolve \/ NextTurn \/ UNCHANGED vars
    PROVE  CountOK' /\ (Applying => Left' =< Left)
<1>1. CASE Emit \/ UNCHANGED vars
  <2>1. plan' = plan /\ user' = user /\ child' = child
      BY <1>1 DEF Emit, OpenTemp, WriteTemp, RenameTemp, KillEmitter, Reader, vars
  <2>2. Plan' = Plan
      BY <2>1 DEF Plan
  <2>3. CountOK' /\ Left' = Left
      BY <2>1, <2>2 DEF CountOK, Applying, Left
  <2>4. Applying => Left \in Int
      BY ApplyTypes
  <2> QED
      BY <2>3, <2>4
<1>2. CASE Resolve
  <2>1. /\ ~Applying /\ child' = child /\ plan' = plan /\ user.results = <<>>
        /\ user \in UserType /\ plan \in [Emitters -> Plans]
      BY <1>2 DEF Resolve, At, Applying, Inv, Typed, ApplyOK, Files
  <2>2. /\ user'.results = <<>> /\ user'.pc # "step"
        /\ user'.pc \in {"apply", "step", "verify"} => user'.envelope \in Emitters
      BY <1>2, <2>1, ZenonT(60) DEF Resolve, Readable, End, UserType
  <2>3. Applying' => Len(Plan.steps)' \in Nat
    <3> SUFFICES ASSUME Applying' PROVE Len(plan[user'.envelope].steps) \in Nat
        BY <2>1 DEF Plan
    <3>1. plan[user'.envelope] \in Plans
        BY <2>1, <2>2 DEF Applying
    <3> QED
        BY <3>1, PlanAssumption, LenProperties
  <2>4. Len(user'.results) = 0
      BY <2>2
  <2> QED
      BY <2>1, <2>2, <2>3, <2>4 DEF CountOK
<1>3. CASE NextTurn
  <2>1. ~Applying /\ child' = child /\ user'.pc \in {"agent", "ended"}
      BY <1>3 DEF NextTurn, At, Applying, Inv, Typed, UserType, End
  <2> QED
      BY <2>1 DEF CountOK, Applying
<1> QED
    BY <1>1, <1>2, <1>3

LEMMA CountInit == Init => CountOK
  BY DEF Init, CountOK, Applying, ChildOK, NoChild

LEMMA CountStep ==
    ASSUME Inv, CountOK, [Next]_vars
    PROVE  /\ CountOK'
           /\ Applying => /\ Apply \/ Processes \/ Timeout => Left' < Left
                          /\ Left' =< Left
<1>1. Inv'
    BY InvStep
<1>2. CASE Apply \/ Processes \/ Timeout
  <2>1. CountOK' /\ Left' < Left /\ Left' \in Int /\ Applying
      BY <1>1, <1>2, AppliesOn, MovesOn
  <2>2. Left' =< Left
    <3>1. Left \in Int
        BY <2>1, ApplyTypes
    <3> QED
        BY <2>1, <3>1
  <2> QED
      BY <2>1, <2>2
<1> QED
    BY <1>2, OthersAddNothing DEF Next

\* ApplyIsFinite, for any plan, and whatever other commands fail meanwhile.
THEOREM ApplyIsFiniteHolds == Spec => ApplyIsFinite
<1>1. Init => Inv /\ CountOK
    BY InvInit, CountInit
<1>2. (Inv /\ CountOK) /\ [Next]_vars => (Inv /\ CountOK)'
    BY InvStep, CountStep
<1>3. (Inv /\ CountOK) /\ [Next]_vars =>
        [Applying => /\ Apply \/ Processes \/ Timeout => Left' < Left
                     /\ Left' =< Left]_vars
    BY CountStep
<1>4. Inv /\ CountOK => /\ Applying => Left \in Nat
                        /\ Waiting /\ child.timedOut /\ ~Settled => ~child.alive /\ child.heir
  <2> SUFFICES ASSUME Inv, CountOK
               PROVE  /\ Applying => Left \in Nat
                      /\ Waiting /\ child.timedOut /\ ~Settled => ~child.alive /\ child.heir
      OBVIOUS
  <2>1. ASSUME Applying PROVE Left \in Nat
    <3>1. Len(user.results) =< Len(Plan.steps)
        BY <2>1 DEF CountOK
    <3> QED
        BY <2>1, <3>1, ApplyTypes
  <2>2. Waiting /\ child.timedOut /\ ~Settled => ~child.alive /\ child.heir
      BY DEF CountOK, ChildOK, Settled
  <2> QED
      BY <2>1, <2>2
<1> QED
    BY <1>1, <1>2, <1>3, <1>4, PTL DEF Spec, ApplyIsFinite
=============================================================================
