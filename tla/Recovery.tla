------------------------------ MODULE Recovery ------------------------------
(***************************************************************************)
(* The recovery protocol: commands that fail under --recovery leave an     *)
(* envelope with a plan (core/recovery/emit.ts), and `recover' acts on the *)
(* last one (commands/recover.ts): --apply runs its steps under a risk     *)
(* gate, each in a process of its own with a timeout (core/recovery/       *)
(* apply.ts, apply-gate.ts, apply-exec.ts, apply-verify.ts), and --next    *)
(* hands it to an agent step by step (next-step.ts).                       *)
(*                                                                         *)
(* Every emitter writes .dbcli/last-recovery.json by way of one temporary  *)
(* name, opened, written and renamed in three system calls; a file that    *)
(* another emitter holds open can be renamed, or cut to nothing, under its *)
(* feet.  The reader refuses what does not parse.  The plan is read again  *)
(* at each turn of --next, and another command may have failed meanwhile.  *)
(***************************************************************************)
EXTENDS Naturals, Sequences, SequencesExt

CONSTANTS Emitters,     \* commands that fail under --recovery
          Plans         \* the plans an envelope may carry

NoFile == "no file"

\* shape: the tier of the command's own form in the allowlist, or "unknown"; risk: what
\* the envelope says of it; manual: it is interactive or has a placeholder.
Shapes == {"readonly", "dry-run", "local-write", "db-write", "unknown"}
Step == [shape : Shapes, risk : {"readonly", "write"}, manual : BOOLEAN]

\* steps: envelope.recovery; fork: branchFork.after, 0 without branches; branch: the
\* steps of the branch the resolver chooses; verify: the verifying step, if any.
ASSUME PlanAssumption ==
    /\ NoFile \notin Emitters
    /\ \A p \in Plans : /\ p.steps \in Seq(Step) /\ p.branch \in Seq(Step)
                        /\ p.verify \in Seq(Step) /\ Len(p.verify) =< 1
                        /\ p.fork \in 0 .. Len(p.steps)

VARIABLES emitter,    \* the commands that fail
          temp,       \* last-recovery.json.tmp: the inode it names
          last,       \* last-recovery.json: the inode it names
          content,    \* what is in an inode
          plan,       \* the plan in an emitter's envelope
          overlapped, \* history: two emitters were at the file at the same time
          user,       \* the run of recover, or the agent that walks with --next
          child       \* the process of the step under way

vars == <<emitter, temp, last, content, plan, overlapped, user, child>>

\* An inode is called by the emitter that created it.  "mixed": a short envelope was
\* written over a longer one.
Contents == {"nothing", "mixed"} \cup Emitters

NoChild == [alive |-> FALSE, code |-> "none", pipes |-> FALSE, heir |-> FALSE,
            timedOut |-> FALSE]

AllowWrite == {"none", "readonly-cmd", "write-cmd"}

\* The statuses of the steps so far, and of the verifying step; order, branch: the
\* cursor of a walk; given: the steps it was handed out, as <<branch, order>>; first:
\* the envelope it began with; moved: that it has been given another since.
Init == /\ emitter = [e \in Emitters |-> [pc |-> "fails", inode |-> NoFile]]
        /\ temp = NoFile /\ last = NoFile
        /\ content = [e \in Emitters |-> "nothing"]
        /\ plan \in [Emitters -> Plans]
        /\ overlapped = FALSE
        /\ user \in [pc : {"start"}, allow : AllowWrite, walking : BOOLEAN,
                     noVerify : BOOLEAN, envelope : {NoFile}, results : {<<>>},
                     verify : {"none"}, exit : {"no"}, order : {0}, branch : {FALSE},
                     given : {<<>>}, first : {NoFile}, moved : {FALSE}]
        /\ child = NoChild
----------------------------------------------------------------------------
(***************************************************************************)
(* A command fails.                                                        *)
(***************************************************************************)

Reader == UNCHANGED <<user, child>>
Step2(e, pc) == emitter' = [emitter EXCEPT ![e].pc = pc]

\* The emitter is at the file.
AtFile(e) == emitter[e].pc \in {"opened", "written"}
Overlap(e) == overlapped' = (overlapped \/ \E f \in Emitters \ {e} : AtFile(f))

\* Mutant: the envelope is written in place.
OpenTemp_InPlace(e) ==
    /\ emitter[e].pc = "fails"
    /\ LET inode == IF last = NoFile THEN e ELSE last
       IN /\ emitter' = [emitter EXCEPT ![e] = [pc |-> "opened", inode |-> inode]]
          /\ last' = inode
          /\ content' = [content EXCEPT ![inode] = "nothing"]
    /\ Overlap(e)
    /\ UNCHANGED <<temp, plan>> /\ Reader

\* writeFileSync opens the temporary file, and cuts it when it is there.
OpenTemp(e) ==
    /\ emitter[e].pc = "fails"
    /\ LET inode == IF temp = NoFile THEN e ELSE temp
       IN /\ emitter' = [emitter EXCEPT ![e] = [pc |-> "opened", inode |-> inode]]
          /\ temp' = inode
          /\ content' = [content EXCEPT ![inode] = "nothing"]
    /\ Overlap(e)
    /\ UNCHANGED <<last, plan>> /\ Reader

\* It writes from the beginning of the inode it has open, whatever that is called now.
WriteTemp(e) ==
    /\ emitter[e].pc = "opened" /\ Step2(e, "written")
    /\ \E result \in {e} \cup (IF content[emitter[e].inode] = "nothing" THEN {} ELSE {"mixed"}) :
         content' = [content EXCEPT ![emitter[e].inode] = result]
    /\ UNCHANGED <<temp, last, plan, overlapped>> /\ Reader

\* renameSync renames whatever has the temporary name; an error is swallowed, and the
\* process exits.
RenameTemp(e) ==
    /\ emitter[e].pc = "written" /\ Step2(e, "ended")
    /\ IF temp = NoFile THEN UNCHANGED <<temp, last>>
                        ELSE last' = temp /\ temp' = NoFile
    /\ UNCHANGED <<content, plan, overlapped>> /\ Reader

KillEmitter(e) ==
    /\ emitter[e].pc # "ended" /\ Step2(e, "ended")
    /\ UNCHANGED <<temp, last, content, plan, overlapped>> /\ Reader
----------------------------------------------------------------------------
(***************************************************************************)
(* recover                                                                 *)
(***************************************************************************)

Files == UNCHANGED <<emitter, temp, last, content, plan, overlapped>>
At(pc) == user.pc = pc
Plan == plan[user.envelope]

\* The saved envelope parses and has the schema of one.
Readable == last # NoFile /\ content[last] \in Emitters

End(code) == user' = [user EXCEPT !.pc = "ended", !.exit = code]

\* recover reads the last envelope.  The agent reads the first step of its plan from it.
Resolve ==
    /\ At("start") /\ Files /\ UNCHANGED child
    /\ IF ~Readable
         THEN End("malformed")
         ELSE user' = [user EXCEPT !.envelope = content[last], !.first = content[last],
                                   !.pc = IF user.walking THEN "agent" ELSE "apply",
                                   !.order = 1, !.given = <<<<FALSE, 1>>>>]

\* Mutant: the gate goes by the risk the envelope declares.
classifyStep_Declared(step, allow) ==
    IF step.manual \/ step.shape = "unknown" THEN "skipped"
    ELSE IF step.risk = "readonly" \/ allow # "none" THEN "run" ELSE "skipped"

\* The gate: by the form of the command, never by the risk the envelope declares.
classifyStep(step, allow) ==
    IF step.manual \/ step.shape = "unknown" THEN "skipped"
    ELSE CASE step.shape \in {"readonly", "dry-run"} -> "run"
           [] step.shape = "local-write" -> IF allow = "none" THEN "skipped" ELSE "run"
           [] step.shape = "db-write"    -> IF allow = "write-cmd" THEN "run" ELSE "skipped"

Spawn == \E heir \in BOOLEAN :
           child' = [NoChild EXCEPT !.alive = TRUE, !.pipes = TRUE, !.heir = heir]

Ran == {i \in DOMAIN user.results : user.results[i] # "skipped"}

\* Mutant: a failed step does not stop the plan.
ApplyStep_GoesOn ==
    /\ At("apply") /\ Files
    /\ Len(user.results) < Len(Plan.steps)
    /\ IF classifyStep(Plan.steps[Len(user.results) + 1], user.allow) = "run"
         THEN Spawn /\ user' = [user EXCEPT !.pc = "step"]
         ELSE /\ user' = [user EXCEPT !.results = Append(@, "skipped")]
              /\ UNCHANGED child

\* runApply: the next step is skipped, or started; after a failure none is.
ApplyStep ==
    /\ At("apply") /\ Files
    /\ Len(user.results) < Len(Plan.steps)
    /\ "failed" \notin {user.results[i] : i \in DOMAIN user.results}
    /\ IF classifyStep(Plan.steps[Len(user.results) + 1], user.allow) = "run"
         THEN Spawn /\ user' = [user EXCEPT !.pc = "step"]
         ELSE /\ user' = [user EXCEPT !.results = Append(@, "skipped")]
              /\ UNCHANGED child

\* The child, with whatever it started, has closed its pipes, and is gone.
Settled == ~child.alive /\ ~child.pipes

\* A step is ok when it exited with 0 and its time had not run out until its pipes were
\* closed.
StepEnds ==
    /\ At("step") /\ Files /\ Settled
    /\ user' = [user EXCEPT !.pc = "apply",
                            !.results = Append(@, IF child.code = "zero" /\ ~child.timedOut
                                                    THEN "ok" ELSE "failed")]
    /\ child' = NoChild

PlanDone == \/ Len(user.results) = Len(Plan.steps)
            \/ \E i \in DOMAIN user.results : user.results[i] = "failed"

finalStatus == IF \E i \in DOMAIN user.results : user.results[i] = "failed" THEN "failed"
               ELSE IF Ran # {} THEN "ok" ELSE "skipped-only"

\* Once all of them are ok the verifying step runs, when the gate calls it read-only.
Verify ==
    /\ At("apply") /\ Files /\ PlanDone
    /\ IF finalStatus # "ok" \/ user.noVerify \/ Plan.verify = <<>>
         THEN End(finalStatus) /\ UNCHANGED child
         ELSE IF classifyStep(Plan.verify[1], "none") = "run"
                THEN Spawn /\ user' = [user EXCEPT !.pc = "verify"]
                ELSE /\ user' = [user EXCEPT !.pc = "ended", !.exit = "ok",
                                             !.verify = "indeterminate"]
                     /\ UNCHANGED child

\* Its output may leave it open whether the error is gone; the exit code of apply is
\* that of the plan.
VerifyEnds ==
    /\ At("verify") /\ Files /\ Settled
    /\ \E verdict \in IF child.timedOut \/ child.code # "zero" THEN {"failed"}
                                                               ELSE {"passed", "indeterminate"} :
         user' = [user EXCEPT !.pc = "ended", !.exit = finalStatus, !.verify = verdict]
    /\ child' = NoChild
----------------------------------------------------------------------------
(***************************************************************************)
(* executeStep                                                             *)
(***************************************************************************)

Waiting == At("step") \/ At("verify")
ChildStep == Waiting /\ Files /\ UNCHANGED user

\* The child exits, and its end of the pipes is closed unless a process it started has
\* inherited them.
ChildExits ==
    /\ ChildStep /\ child.alive
    /\ \E code \in {"zero", "other"} :
         child' = [child EXCEPT !.alive = FALSE, !.code = code,
                                !.pipes = IF child.heir THEN @ ELSE FALSE]

\* What it printed is more than is kept: the reader cancels the pipe.
Overflow ==
    /\ ChildStep /\ child.pipes
    /\ child' = [child EXCEPT !.pipes = FALSE]

HeirExits ==
    /\ ChildStep /\ child.heir /\ ~child.alive
    /\ child' = [child EXCEPT !.heir = FALSE, !.pipes = FALSE]

\* Mutant: the time runs out, and nothing is killed.
Timeout_Marks ==
    /\ ChildStep /\ ~child.timedOut /\ ~Settled
    /\ child' = [child EXCEPT !.timedOut = TRUE]

\* The timer fires once, before the pipes are closed, and kills the child.
Timeout ==
    /\ ChildStep /\ ~child.timedOut /\ ~Settled
    /\ child' = [child EXCEPT !.timedOut = TRUE, !.alive = FALSE,
                              !.code = IF child.alive THEN "other" ELSE @,
                              !.pipes = IF child.heir THEN @ ELSE FALSE]
----------------------------------------------------------------------------
(***************************************************************************)
(* recover --next                                                          *)
(***************************************************************************)

\* Mutant: the last step is taken for the end of the plan.
Linear_Short(p, after) ==
    IF after + 1 >= Len(p.steps) THEN [kind |-> "done", branch |-> FALSE, order |-> after]
                                 ELSE [kind |-> "step", branch |-> FALSE, order |-> after + 1]

\* nextStepFromEnvelope: the linear walk.
Linear(p, after) ==
    IF after = Len(p.steps) THEN [kind |-> "done", branch |-> FALSE, order |-> after]
                            ELSE [kind |-> "step", branch |-> FALSE, order |-> after + 1]

\* What may follow a step: in a branch the next of the branch, at the fork the first of
\* the branch when the resolver finds one.
nextStep(p, branch, after) ==
    IF branch
      THEN IF p.fork = 0 \/ after > Len(p.branch) THEN {}
           ELSE {[kind |-> IF after = Len(p.branch) THEN "done" ELSE "step",
                  branch |-> TRUE, order |-> IF after = Len(p.branch) THEN after ELSE after + 1]}
      ELSE IF after > Len(p.steps) THEN {}
           ELSE {Linear(p, after)} \cup
                (IF p.fork = after /\ p.branch # <<>>
                   THEN {[kind |-> "step", branch |-> TRUE, order |-> 1]} ELSE {})

\* A turn of the walk: the agent has executed a step and asks for the one after it, from
\* whatever is the last envelope now.
NextTurn ==
    /\ At("agent") /\ Files /\ UNCHANGED child
    /\ IF ~Readable \/ nextStep(plan[content[last]], user.branch, user.order) = {}
         THEN End("malformed")
         ELSE \E n \in nextStep(plan[content[last]], user.branch, user.order) :
                user' = [user EXCEPT
                  !.envelope = content[last],
                  !.moved = @ \/ content[last] # user.first,
                  !.order = n.order, !.branch = n.branch,
                  !.given = IF n.kind = "step" THEN Append(@, <<n.branch, n.order>>) ELSE @,
                  !.pc = IF n.kind = "done" THEN "ended" ELSE @,
                  !.exit = IF n.kind = "done" THEN "done" ELSE @]

Emit == \E e \in Emitters :
          OpenTemp(e) \/ WriteTemp(e) \/ RenameTemp(e) \/ KillEmitter(e)
Apply == ApplyStep \/ StepEnds \/ Verify \/ VerifyEnds
Processes == ChildExits \/ Overflow \/ HeirExits

Next == Emit \/ Resolve \/ Apply \/ Processes \/ Timeout \/ NextTurn

\* recover goes on as far as it can, and its timer fires; a child, or what a child has
\* started, owes nothing.
Spec == Init /\ [][Next]_vars /\ WF_vars(Apply) /\ WF_vars(Timeout)
----------------------------------------------------------------------------
(***************************************************************************)
(* Properties                                                              *)
(***************************************************************************)

TypeOK ==
    /\ emitter \in [Emitters -> [pc : {"fails", "opened", "written", "ended"},
                                 inode : Emitters \cup {NoFile}]]
    /\ temp \in Emitters \cup {NoFile} /\ last \in Emitters \cup {NoFile}
    /\ content \in [Emitters -> Contents]
    /\ plan \in [Emitters -> Plans]
    /\ overlapped \in BOOLEAN
    /\ user \in [pc : {"start", "apply", "step", "verify", "agent", "ended"},
                 allow : AllowWrite, walking : BOOLEAN, noVerify : BOOLEAN,
                 envelope : Emitters \cup {NoFile},
                 results : Seq({"ok", "failed", "skipped"}),
                 verify : {"none", "passed", "failed", "indeterminate"},
                 exit : {"no", "malformed", "failed", "ok", "skipped-only", "done"},
                 order : Nat, branch : BOOLEAN, given : Seq(BOOLEAN \X Nat),
                 first : Emitters \cup {NoFile}, moved : BOOLEAN]
    /\ child \in [alive : BOOLEAN, code : {"none", "zero", "other"}, pipes : BOOLEAN,
                  heir : BOOLEAN, timedOut : BOOLEAN]

\* Whenever an emitter is killed, a reader finds an envelope that one of them wrote, or
\* none: a half-written one is published only when two write at the same time.
CrashLeavesItWhole == last # NoFile /\ content[last] \notin Emitters => overlapped

\* What a command may change: nothing, local files, or the database as well.
Reach(step) == CASE step.shape = "db-write" -> 2 [] step.shape = "local-write" -> 1 [] OTHER -> 0
Leave(allow) == CASE allow = "write-cmd" -> 2 [] allow = "readonly-cmd" -> 1 [] OTHER -> 0

\* apply runs nothing that changes more than --allow-write gives leave to, whatever
\* the envelope declares; what is under way, the verifying step included, counts.
\* After a failure it runs nothing, and it verifies only when all went well.
AppliesWithinItsLeave ==
    /\ \A i \in Ran : Reach(Plan.steps[i]) =< Leave(user.allow)
    /\ At("step") => Reach(Plan.steps[Len(user.results) + 1]) =< Leave(user.allow)
    /\ At("verify") => Reach(Plan.verify[1]) = 0 /\ finalStatus = "ok"
    /\ \A i \in DOMAIN user.results :
         user.results[i] = "failed" => i = Len(user.results) /\ ~At("step")

\* index.md:1990-2000: a walk that is told it is done was handed out every step of the
\* plan it began with, or the steps to the fork and every step of the branch, each once
\* and in order, unless another command failed in the meantime.
WalkIsComplete ==
    user.exit = "done" /\ ~user.moved =>
      LET p == plan[user.first]
          Main(n) == [i \in 1 .. n |-> <<FALSE, i>>]
          Branch == [i \in 1 .. Len(p.branch) |-> <<TRUE, i>>]
      IN user.given = IF user.branch THEN Main(p.fork) \o Branch ELSE Main(Len(p.steps))

\* Every apply ends: the timeout sees to a step that does not, unless a process the
\* step started lives on and keeps its pipes open.
ApplyEnds == At("apply") ~> (At("ended") \/ (Waiting /\ child.heir))
=============================================================================
