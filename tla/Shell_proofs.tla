---------------------------- MODULE Shell_proofs ----------------------------
(***************************************************************************)
(* Theorems about a session of the shell, for any lines per chunk and per  *)
(* session, any number of lost connections and of rows not written.        *)
(***************************************************************************)
EXTENDS Shell, SequenceTheorems, TLAPS

(***************************************************************************)
(* Type correctness.                                                       *)
(***************************************************************************)

LEMMA BoundedIsSeq ==
    ASSUME NEW S, NEW n \in Nat, NEW s \in BoundedSeq(S, n)
    PROVE  s \in Seq(S) /\ Len(s) \in Nat
<1>1. PICK m \in 0 .. n : s \in [1 .. m -> S]
    BY DEF BoundedSeq, SeqOf
<1>2. s \in Seq(S)
    BY <1>1, SeqDef
<1> QED
    BY <1>2, LenProperties

Counts == [kind : Terminated \cup {"none"}, confirmed : BOOLEAN, unsafe : BOOLEAN,
           sends : Nat, effects : Nat, attempts : Nat, onRecord : Nat, outcomes : Nat]

LEMMA StatementType ==
    \A kind \in Terminated \cup {"none"} : Statement(kind) \in Counts
  BY DEF Statement, Counts

\* A counter of the statement is set.
LEMMA CountType ==
    ASSUME NEW s \in Counts, NEW n \in Nat
    PROVE  /\ [s EXCEPT !.sends = n] \in Counts /\ [s EXCEPT !.effects = n] \in Counts
           /\ [s EXCEPT !.outcomes = n] \in Counts
           /\ \A k \in Nat : [s EXCEPT !.attempts = n, !.onRecord = k] \in Counts
           /\ \A b \in BOOLEAN : [s EXCEPT !.effects = n, !.unsafe = b] \in Counts
  BY DEF Counts

LEMMA TypeInit == Init => TypeOK
<1> SUFFICES ASSUME Init PROVE TypeOK
    OBVIOUS
<1>1. PICK input \in BoundedSeq(Lines, IF mode.tty THEN 0 ELSE MaxLines) :
        queue = input /\ typed = Len(input)
    BY DEF Init
<1> DEFINE bound == IF mode.tty THEN 0 ELSE MaxLines
<1>2. bound \in Nat /\ bound =< MaxLines /\ MaxLosses \in Nat /\ MaxMissed \in Nat
    BY ShellAssumption
<1>3. PICK m \in 0 .. bound : input \in [1 .. m -> Lines]
    BY <1>1, <1>2 DEF BoundedSeq, SeqOf
<1>4. input \in Seq(Lines) /\ Len(input) \in Nat /\ Len(input) =< m
  <2>1. input \in Seq(Lines)
      BY <1>3, <1>2, SeqDef
  <2>2. DOMAIN input = 1 .. Len(input) /\ Len(input) \in Nat
      BY <2>1, LenProperties
  <2>3. DOMAIN input = 1 .. m /\ m \in Nat
      BY <1>3, <1>2
  <2>4. ASSUME Len(input) > m PROVE FALSE
    <3>1. Len(input) \in 1 .. Len(input)
        BY <2>2, <2>3, <2>4
    <3>2. Len(input) \in 1 .. m
        BY <2>2, <2>3, <3>1
    <3> QED
        BY <2>3, <2>4, <3>2
  <2> QED
      BY <2>1, <2>2, <2>3, <2>4
<1>5. typed \in 0 .. MaxLines /\ queue \in Seq(Lines) /\ Len(queue) =< typed
    BY <1>1, <1>2, <1>3, <1>4
<1>6. stmt \in Counts
    BY StatementType DEF Init, NoStatement
<1>7. closed \in BOOLEAN
    BY DEF Init, Modes
<1>8. /\ pc \in Places /\ mode \in Modes /\ ended \in {"no", "exit", "abort", "killed"}
      /\ losses \in 0 .. MaxLosses /\ missed \in 0 .. MaxMissed
    BY <1>2 DEF Init, Places
<1>9. /\ buffer \in BOOLEAN /\ question \in BOOLEAN /\ connected \in BOOLEAN
      /\ quit \in BOOLEAN
    BY DEF Init
<1> QED
    BY <1>5, <1>6, <1>7, <1>8, <1>9 DEF TypeOK, Counts

\* What Return and Throw leave.
LEMMA ReturnType ==
    ASSUME TypeOK, Return
    PROVE  pc' \in Places /\ stmt' \in Counts
  BY StatementType DEF Return, NoStatement, Places

\* What Take leaves.
LEMMA TakeType ==
    ASSUME TypeOK, NEW line, Take(line)
    PROVE  /\ line \in Lines
           /\ queue' \in Seq(Lines) /\ Len(queue') =< typed
<1>1. queue \in Seq(Lines) /\ queue # <<>> /\ typed \in Nat /\ Len(queue) =< typed
    BY DEF TypeOK, Take
<1>2. Head(queue) \in Lines /\ Tail(queue) \in Seq(Lines) /\ Len(Tail(queue)) = Len(queue) - 1
    BY <1>1, HeadTailProperties
<1>3. Len(queue) \in Nat
    BY <1>1, LenProperties
<1> QED
    BY <1>1, <1>2, <1>3 DEF Take

\* What Row leaves.
LEMMA RowType ==
    ASSUME TypeOK, NEW written \in BOOLEAN, Row(written)
    PROVE  missed' \in 0 .. MaxMissed
<1>1. MaxMissed \in Nat /\ missed \in 0 .. MaxMissed
    BY ShellAssumption DEF TypeOK
<1> QED
    BY <1>1 DEF Row

LEMMA TypeStep == TypeOK /\ [Next]_vars => TypeOK'
<1> SUFFICES ASSUME TypeOK, [Next]_vars PROVE TypeOK'
    OBVIOUS
<1>a. MaxLines \in Nat /\ MaxLosses \in Nat /\ MaxMissed \in Nat /\ MaxChunk - 1 \in Nat
    BY ShellAssumption
<1>b. typed \in Nat /\ Len(queue) \in Nat
    BY <1>a, LenProperties DEF TypeOK
<1>d. stmt \in Counts
    BY DEF TypeOK, Counts
<1>e. /\ stmt.sends \in Nat /\ stmt.effects \in Nat /\ stmt.attempts \in Nat
      /\ stmt.onRecord \in Nat /\ stmt.outcomes \in Nat
    BY <1>d DEF Counts
<1>c. /\ stmt \in Counts
      /\ stmt.sends + 1 \in Nat /\ stmt.effects \in Nat /\ stmt.effects + 1 \in Nat
      /\ stmt.attempts + 1 \in Nat /\ stmt.onRecord \in Nat /\ stmt.onRecord + 1 \in Nat
      /\ stmt.outcomes + 1 \in Nat
    BY <1>d, <1>e
<1> USE <1>a, <1>b DEF At, Places
<1>1. ASSUME Deliver PROVE TypeOK'
  <2>1. PICK chunk \in Chunks, eof \in BOOLEAN :
          /\ typed + Len(chunk) =< MaxLines /\ typed' = typed + Len(chunk)
          /\ queue' = chunk
          /\ closed' = eof
      BY <1>1 DEF Deliver
  <2>2. chunk \in Seq(Lines) /\ Len(chunk) \in Nat
      BY <2>1, BoundedIsSeq, ShellAssumption DEF Chunks
  <2> QED
      BY <1>1, <2>1, <2>2 DEF Deliver, TypeOK
<1>2. ASSUME Answer PROVE TypeOK'
  <2>1. PICK rest \in BoundedSeq(Lines, MaxChunk - 1), eof \in BOOLEAN, matches \in BOOLEAN :
          /\ typed + 1 + Len(rest) =< MaxLines /\ typed' = typed + 1 + Len(rest)
          /\ queue' = queue \o rest
          /\ closed' = eof
          /\ stmt' = [stmt EXCEPT !.confirmed = matches]
      BY <1>2 DEF Answer
  <2>2. rest \in Seq(Lines) /\ Len(rest) \in Nat
      BY <2>1, BoundedIsSeq
  <2>3. queue' \in Seq(Lines) /\ Len(queue') = Len(queue) + Len(rest)
      BY <2>1, <2>2, ConcatProperties DEF TypeOK
  <2>4. stmt' \in Counts
      BY <2>1 DEF TypeOK, Counts
  <2>5. typed' \in 0 .. MaxLines /\ Len(queue') =< typed'
    <3>1. Len(queue) =< typed
        BY DEF TypeOK
    <3> QED
        BY <2>1, <2>2, <2>3, <3>1
  <2>6. closed' \in BOOLEAN /\ question' \in BOOLEAN /\ pc' \in Places
      BY <1>2, <2>1 DEF Answer
  <2> QED
      BY <1>2, <2>3, <2>4, <2>5, <2>6 DEF Answer, TypeOK, Counts
<1>3. ASSUME Hangup PROVE TypeOK'
    BY <1>3 DEF Hangup, TypeOK
<1>4. ASSUME Interrupt PROVE TypeOK'
    BY <1>4 DEF Interrupt, TypeOK
<1>5. ASSUME TypeOn PROVE TypeOK'
    BY <1>5, TakeType DEF TypeOn, TypeOK, Take
<1>6. ASSUME Quit PROVE TypeOK'
  <2>1. queue' \in Seq(Lines) /\ Len(queue') =< typed
      BY <1>6, HeadTailProperties, EmptySeq DEF Quit, TypeOK
  <2> QED
      BY <1>6, <2>1 DEF Quit, TypeOK
<1>7. ASSUME Command PROVE TypeOK'
    BY <1>7, TakeType DEF Command, TypeOK, Take
<1>8. ASSUME ChildEnds PROVE TypeOK'
    BY <1>8, ReturnType DEF ChildEnds, TypeOK, Counts
<1>9. ASSUME Execute PROVE TypeOK'
  <2>1. PICK line \in Terminated :
          /\ Take(line)
          /\ buffer' = FALSE
          /\ \/ /\ Refused(Kind(line))
                /\ pc' = "refuse" /\ stmt' = Statement(Kind(line))
                /\ UNCHANGED <<question, ended>>
             \/ /\ ~Refused(Kind(line)) /\ Kind(line) = "drop"
                /\ IF mode.tty /\ closed
                     THEN Throw /\ UNCHANGED question
                     ELSE /\ pc' = (IF mode.tty THEN "ask" ELSE "decide")
                          /\ question' = mode.tty
                          /\ stmt' = Statement("drop")
                          /\ UNCHANGED ended
             \/ /\ ~Refused(Kind(line)) /\ Kind(line) # "drop"
                /\ pc' = "attempt" /\ stmt' = Statement(Kind(line))
                /\ UNCHANGED <<question, ended>>
          /\ UNCHANGED <<mode, connected, closed, quit, typed, losses, missed>>
      BY <1>9 DEF Execute
  <2>2. queue' \in Seq(Lines) /\ Len(queue') =< typed
      BY <2>1, TakeType
  <2>3. Kind(line) \in Terminated /\ "drop" \in Terminated
      BY <2>1 DEF Kind, Terminated
  <2>4. stmt' \in Counts
      BY <2>1, <2>3, StatementType, ReturnType DEF Throw
  <2>5. question' \in BOOLEAN
      BY <2>1 DEF TypeOK, Modes
  <2>6. pc' \in Places
      BY <2>1, ReturnType DEF Throw
  <2>7. ended' \in {"no", "exit", "abort", "killed"}
      BY <2>1 DEF Throw, TypeOK
  <2> QED
      BY <2>1, <2>2, <2>4, <2>5, <2>6, <2>7 DEF TypeOK, Counts
<1>10. ASSUME NEW written \in BOOLEAN, Decide(written) PROVE TypeOK'
  <2>1. stmt' \in Counts /\ pc' \in Places /\ ended' \in {"no", "exit", "abort", "killed"}
      BY <1>10, ReturnType DEF Decide, Throw, TypeOK, Counts
  <2> QED
      BY <1>10, <2>1, RowType DEF Decide, TypeOK, Counts
<1>11. ASSUME NEW written \in BOOLEAN, Refuse(written) PROVE TypeOK'
  <2>1. stmt' \in Counts
      BY <1>11, <1>c, CountType DEF Refuse
  <2>2. missed' \in 0 .. MaxMissed
      BY <1>11, RowType DEF Refuse
  <2> QED
      BY <1>11, <2>1, <2>2 DEF Refuse, TypeOK, Counts
<1>12. ASSUME NEW written \in BOOLEAN, Attempt(written) PROVE TypeOK'
  <2>1. stmt' \in Counts
      BY <1>12, <1>c, CountType DEF Attempt
  <2>2. missed' \in 0 .. MaxMissed
      BY <1>12, RowType DEF Attempt
  <2> QED
      BY <1>12, <2>1, <2>2 DEF Attempt, TypeOK, Counts
<1>13. ASSUME NEW written \in BOOLEAN, Outcome(written) PROVE TypeOK'
  <2>1. stmt' \in Counts
      BY <1>13, <1>c, CountType DEF Outcome
  <2>2. missed' \in 0 .. MaxMissed
      BY <1>13, RowType DEF Outcome
  <2> QED
      BY <1>13, <2>1, <2>2 DEF Outcome, TypeOK, Counts
<1>14. ASSUME Send PROVE TypeOK'
  <2>1. stmt' \in Counts
      BY <1>14, <1>c, CountType DEF Send
  <2> QED
      BY <1>14, <2>1 DEF Send, TypeOK, Counts
<1>15. ASSUME Completes PROVE TypeOK'
  <2>1. stmt' \in Counts
      BY <1>15, <1>c, CountType DEF Completes
  <2> QED
      BY <1>15, <2>1 DEF Completes, TypeOK, Counts
<1>16. ASSUME Fails PROVE TypeOK'
    BY <1>16 DEF Fails, TypeOK
<1>17. ASSUME Loses PROVE TypeOK'
  <2>1. PICK ran \in BOOLEAN, unsafe \in BOOLEAN :
          stmt' = [stmt EXCEPT !.effects = IF ran THEN @ + 1 ELSE @, !.unsafe = unsafe]
      BY <1>17 DEF Loses
  <2>2. stmt' \in Counts
      BY <2>1, <1>c, CountType
  <2>3. losses' \in 0 .. MaxLosses
      BY <1>17 DEF Loses, TypeOK
  <2> QED
      BY <1>17, <2>2, <2>3 DEF Loses, TypeOK, Counts
<1>18. ASSUME Reconnect PROVE TypeOK'
    BY <1>18 DEF Reconnect, TypeOK
<1>19. ASSUME Prompt PROVE TypeOK'
    BY <1>19, ReturnType DEF Prompt, TypeOK, Counts
<1>20. ASSUME Exit PROVE TypeOK'
    BY <1>20 DEF Exit, TypeOK
<1>21. ASSUME Kill PROVE TypeOK'
    BY <1>21 DEF Kill, TypeOK
<1>22. CASE UNCHANGED vars
    BY <1>22 DEF vars, TypeOK
<1> QED
    BY <1>1, <1>2, <1>3, <1>4, <1>5, <1>6, <1>7, <1>8, <1>9, <1>10, <1>11, <1>12, <1>13, <1>14,
       <1>15, <1>16, <1>17, <1>18, <1>19, <1>20, <1>21, <1>22
    DEF Next, Process, Operator, Handle, Rows, Server

\* Every state of a session has its type: whatever is typed, lost or not written.
THEOREM TypeCorrect == Spec => []TypeOK
<1> QED
    BY TypeInit, TypeStep, PTL DEF Spec

(***************************************************************************)
(* The statement under way.  What the properties say of the database, of   *)
(* the rows and of the end follows from where its handler is.              *)
(***************************************************************************)

Fresh == pc \in {"idle", "child"} => stmt = NoStatement

Gated == /\ pc \in {"ask", "decide"} => stmt.sends = 0
         /\ pc \in {"attempt", "send", "sent", "reconnect"} /\ stmt.kind = "drop"
              => stmt.confirmed

Recorded == /\ stmt.sends =< stmt.attempts
            /\ pc = "send" => stmt.sends < stmt.attempts

Closed == stmt.outcomes = IF pc = "done" THEN 1 ELSE 0

Ended == ended \in {"exit", "abort"} => pc = "idle"

HeldBack == stmt.unsafe => pc \in {"reconnect", "outcome", "done"}

Inv == /\ QuestionIsWaitedFor
       /\ Fresh
       /\ Gated
       /\ SentIsConfirmed
       /\ Recorded
       /\ Closed
       /\ HeldBack
       /\ Ended

LEMMA NewStatement ==
    \A kind : /\ Statement(kind).kind = kind
              /\ Statement(kind).confirmed = FALSE /\ Statement(kind).unsafe = FALSE
              /\ Statement(kind).sends = 0 /\ Statement(kind).attempts = 0
              /\ Statement(kind).effects = 0
              /\ Statement(kind).outcomes = 0
  BY DEF Statement

LEMMA InvInit == Init => Inv
  BY NewStatement
  DEF Init, Inv, NoStatement, QuestionIsWaitedFor, Fresh, Gated, SentIsConfirmed, Recorded, Closed,
      HeldBack, Ended

\* A statement begins, or none does: nothing was sent of it, and no row was written.
LEMMA InvBegins ==
    ASSUME Inv, NEW kind, stmt' = Statement(kind),
           pc' \in {"idle", "ask", "decide", "refuse", "attempt"},
           pc' = "idle" => kind = "none",
           pc' = "attempt" => kind # "drop",
           question' => pc' = "ask",
           ended' \in {"exit", "abort"} => pc' = "idle"
    PROVE  Inv'
  BY NewStatement
  DEF Inv, NoStatement, QuestionIsWaitedFor, Fresh, Gated, SentIsConfirmed, Recorded, Closed,
      HeldBack, Ended

LEMMA InvStep == TypeOK /\ Inv /\ [Next]_vars => Inv'
<1> SUFFICES ASSUME TypeOK, Inv, [Next]_vars PROVE Inv'
    OBVIOUS
<1>a. stmt \in Counts
    BY DEF TypeOK, Counts
<1>b. stmt.sends \in Nat /\ stmt.attempts \in Nat /\ stmt.outcomes \in Nat
    BY <1>a DEF Counts
<1>n. NoStatement = Statement("none")
    BY DEF NoStatement
<1>p. /\ NoStatement.kind = "none" /\ NoStatement.unsafe = FALSE /\ NoStatement.sends = 0
      /\ NoStatement.attempts = 0 /\ NoStatement.outcomes = 0
    BY NewStatement DEF NoStatement
<1> USE DEF At, Running, Inv, QuestionIsWaitedFor, Fresh, Gated, SentIsConfirmed, Recorded, Closed,
        HeldBack, Ended
<1>1. ASSUME Deliver PROVE Inv'
    BY <1>1 DEF Deliver
<1>2. ASSUME Answer PROVE Inv'
  <2>1. PICK matches \in BOOLEAN : stmt' = [stmt EXCEPT !.confirmed = matches]
      BY <1>2 DEF Answer
  <2>2. /\ stmt'.kind = stmt.kind /\ stmt'.sends = stmt.sends /\ stmt'.attempts = stmt.attempts
        /\ stmt'.outcomes = stmt.outcomes /\ stmt'.unsafe = stmt.unsafe
      BY <1>a, <2>1 DEF Counts
  <2> QED
      BY <1>2, <2>2 DEF Answer
<1>3. ASSUME Hangup PROVE Inv'
    BY <1>3 DEF Hangup
<1>4. ASSUME Interrupt PROVE Inv'
    BY <1>4 DEF Interrupt
<1>5. ASSUME TypeOn PROVE Inv'
    BY <1>5 DEF TypeOn, Take
<1>6. ASSUME Quit PROVE Inv'
    BY <1>6 DEF Quit
<1>7. ASSUME Command PROVE Inv'
    BY <1>7 DEF Command, Take
<1>8. ASSUME ChildEnds PROVE Inv'
    BY <1>8, <1>n, InvBegins DEF ChildEnds, Return
<1>9. ASSUME Execute PROVE Inv'
  <2>1. PICK line \in Terminated :
          /\ Take(line)
          /\ \/ /\ pc' = "refuse" /\ stmt' = Statement(Kind(line))
                /\ UNCHANGED <<question, ended>>
             \/ /\ Kind(line) = "drop"
                /\ IF mode.tty /\ closed
                     THEN Throw /\ UNCHANGED question
                     ELSE /\ pc' = (IF mode.tty THEN "ask" ELSE "decide")
                          /\ question' = mode.tty
                          /\ stmt' = Statement("drop")
                          /\ UNCHANGED ended
             \/ /\ Kind(line) # "drop"
                /\ pc' = "attempt" /\ stmt' = Statement(Kind(line))
                /\ UNCHANGED <<question, ended>>
      BY <1>9 DEF Execute
  <2>2. ended = "no" /\ ~question
      BY <2>1 DEF Take, TypeOK
  <2>3. CASE stmt' = Statement(Kind(line)) /\ pc' \in {"refuse", "attempt"}
             /\ (pc' = "attempt" => Kind(line) # "drop") /\ UNCHANGED <<question, ended>>
      BY <2>2, <2>3, InvBegins
  <2>4. CASE stmt' = Statement("drop") /\ pc' \in {"ask", "decide"}
             /\ (question' => pc' = "ask") /\ UNCHANGED ended
      BY <2>2, <2>4, InvBegins
  <2>5. CASE Throw /\ UNCHANGED question
      BY <2>2, <2>5, <1>n, InvBegins DEF Throw, Return
  <2> QED
      BY <2>1, <2>3, <2>4, <2>5
<1>10. ASSUME NEW written \in BOOLEAN, Decide(written) PROVE Inv'
  <2>1. CASE Throw /\ UNCHANGED question
      BY <1>10, <2>1, <1>n, InvBegins DEF Throw, Return, Decide
  <2>2. CASE /\ pc' = (IF stmt.confirmed THEN "attempt" ELSE "refuse") /\ stmt' = stmt
             /\ UNCHANGED <<question, ended>>
      BY <1>10, <2>2 DEF Decide
  <2> QED
      BY <1>10, <2>1, <2>2 DEF Decide
<1>11. ASSUME NEW written \in BOOLEAN, Refuse(written) PROVE Inv'
  <2>1. /\ stmt'.kind = stmt.kind /\ stmt'.confirmed = stmt.confirmed /\ stmt'.sends = stmt.sends
        /\ stmt'.attempts = stmt.attempts /\ stmt'.outcomes = 1 /\ stmt'.unsafe = stmt.unsafe
      BY <1>a, <1>b, <1>11 DEF Refuse, Counts
  <2> QED
      BY <1>11, <2>1 DEF Refuse
<1>12. ASSUME NEW written \in BOOLEAN, Attempt(written) PROVE Inv'
  <2>1. /\ stmt'.kind = stmt.kind /\ stmt'.confirmed = stmt.confirmed /\ stmt'.sends = stmt.sends
        /\ stmt'.attempts = stmt.attempts + 1 /\ stmt'.outcomes = stmt.outcomes
        /\ stmt'.unsafe = stmt.unsafe
      BY <1>a, <1>12 DEF Attempt, Counts
  <2> QED
      BY <1>b, <1>12, <2>1 DEF Attempt
<1>13. ASSUME NEW written \in BOOLEAN, Outcome(written) PROVE Inv'
  <2>1. /\ stmt'.kind = stmt.kind /\ stmt'.confirmed = stmt.confirmed /\ stmt'.sends = stmt.sends
        /\ stmt'.attempts = stmt.attempts /\ stmt'.outcomes = 1 /\ stmt'.unsafe = stmt.unsafe
      BY <1>a, <1>b, <1>13 DEF Outcome, Counts
  <2> QED
      BY <1>13, <2>1 DEF Outcome
<1>14. ASSUME Send PROVE Inv'
  <2>1. /\ stmt'.kind = stmt.kind /\ stmt'.confirmed = stmt.confirmed
        /\ stmt'.sends = stmt.sends + 1 /\ stmt'.attempts = stmt.attempts
        /\ stmt'.outcomes = stmt.outcomes /\ stmt'.unsafe = stmt.unsafe
      BY <1>a, <1>14 DEF Send, Counts
  <2> QED
      BY <1>b, <1>14, <2>1 DEF Send
<1>15. ASSUME Completes PROVE Inv'
  <2>1. /\ stmt'.kind = stmt.kind /\ stmt'.confirmed = stmt.confirmed /\ stmt'.sends = stmt.sends
        /\ stmt'.attempts = stmt.attempts /\ stmt'.outcomes = stmt.outcomes
        /\ stmt'.unsafe = stmt.unsafe
      BY <1>a, <1>15 DEF Completes, Counts
  <2> QED
      BY <1>15, <2>1 DEF Completes
<1>16. ASSUME Fails PROVE Inv'
    BY <1>16 DEF Fails
<1>17. ASSUME Loses PROVE Inv'
  <2>1. PICK ran \in BOOLEAN, unsafe \in BOOLEAN :
          stmt' = [stmt EXCEPT !.effects = IF ran THEN @ + 1 ELSE @, !.unsafe = unsafe]
      BY <1>17 DEF Loses
  <2>2. /\ stmt'.kind = stmt.kind /\ stmt'.confirmed = stmt.confirmed /\ stmt'.sends = stmt.sends
        /\ stmt'.attempts = stmt.attempts /\ stmt'.outcomes = stmt.outcomes
      BY <1>a, <2>1 DEF Counts
  <2> QED
      BY <1>17, <2>2 DEF Loses
<1>18. ASSUME Reconnect PROVE Inv'
    BY <1>18 DEF Reconnect
<1>19. ASSUME Prompt PROVE Inv'
    BY <1>19, <1>n, InvBegins DEF Prompt, Return
<1>20. ASSUME Exit PROVE Inv'
    BY <1>20 DEF Exit
<1>21. ASSUME Kill PROVE Inv'
    BY <1>21 DEF Kill
<1>22. CASE UNCHANGED vars
    BY <1>22 DEF vars
<1> QED
    BY <1>1, <1>2, <1>3, <1>4, <1>5, <1>6, <1>7, <1>8, <1>9, <1>10, <1>11, <1>12, <1>13, <1>14,
       <1>15, <1>16, <1>17, <1>18, <1>19, <1>20, <1>21, <1>22
    DEF Next, Process, Operator, Handle, Rows, Server

LEMMA Invariance == Spec => [](TypeOK /\ Inv)
<1>1. Init => TypeOK /\ Inv
    BY TypeInit, InvInit
<1>2. (TypeOK /\ Inv) /\ [Next]_vars => (TypeOK /\ Inv)'
    BY TypeStep, InvStep
<1> QED
    BY <1>1, <1>2, PTL DEF Spec

\* A line typed later is never taken for the answer to a question that was given up
\* (shell-prompt-asker.ts).
THEOREM QuestionIsWaitedForHolds == Spec => []QuestionIsWaitedFor
<1>1. Inv => QuestionIsWaitedFor
    BY DEF Inv
<1> QED
    BY <1>1, Invariance, PTL

\* No tier-two statement reaches the database without its own confirmation, however
\* the lines arrive and however often the connection is lost (repl-engine.ts).
THEOREM SentIsConfirmedHolds == Spec => []SentIsConfirmed
<1>1. Inv => SentIsConfirmed
    BY DEF Inv
<1> QED
    BY <1>1, Invariance, PTL

\* Every send has had an attempt row of its own asked for (repl-engine.ts, ADR-0016).
THEOREM EverySendHasItsRowHolds == Spec => []EverySendHasItsRow
<1>1. Inv => EverySendHasItsRow
    BY DEF Inv, Recorded, EverySendHasItsRow
<1> QED
    BY <1>1, Invariance, PTL

\* What the adapter has said must not be sent again is not (repl-engine.ts).
THEOREM UnsafeIsNotReplayedHolds == Spec => []UnsafeIsNotReplayed
<1>1. Inv => UnsafeIsNotReplayed
    BY DEF Inv, HeldBack, UnsafeIsNotReplayed
<1> QED
    BY <1>1, Invariance, PTL

Returns == stmt.kind # "none" /\ stmt'.kind = "none"
             => stmt.outcomes = 1 \/ (stmt.sends = 0 /\ pc = "decide")

\* Nothing but Prompt, and an exception of Decide, ends a statement.
LEMMA ReturnsStep == TypeOK /\ Inv /\ [Next]_vars => Returns
<1> SUFFICES ASSUME TypeOK, Inv, [Next]_vars, stmt.kind # "none", stmt'.kind = "none"
             PROVE  stmt.outcomes = 1 \/ (stmt.sends = 0 /\ pc = "decide")
    BY DEF Returns
<1>a. stmt \in Counts
    BY DEF TypeOK, Counts
<1>b. pc \notin {"idle", "child"}
    BY NewStatement DEF Inv, Fresh, NoStatement
<1>c. stmt' # stmt
    OBVIOUS
<1> USE <1>a, <1>b, <1>c DEF At
<1>1. ~(Deliver \/ Hangup \/ Interrupt \/ TypeOn \/ Quit \/ Command \/ ChildEnds)
    BY DEF Deliver, Hangup, Interrupt, TypeOn, Quit, Command, ChildEnds, Take
<1>2. ~(Execute \/ Fails \/ Reconnect \/ Exit \/ Kill)
    BY DEF Execute, Take, Fails, Reconnect, Exit, Kill
<1>3. ~Answer
    BY DEF Answer, Counts
<1>4. ~Send /\ ~Completes /\ ~Loses
    BY DEF Send, Completes, Loses, Counts
<1>5. ASSUME NEW written \in BOOLEAN
      PROVE  ~Refuse(written) /\ ~Attempt(written) /\ ~Outcome(written)
    BY DEF Refuse, Attempt, Outcome, Counts
<1>6. ASSUME NEW written \in BOOLEAN, Decide(written)
      PROVE  stmt.sends = 0 /\ pc = "decide"
    BY <1>6 DEF Decide, Inv, Gated
<1>7. ASSUME Prompt PROVE stmt.outcomes = 1
    BY <1>7 DEF Prompt, Inv, Closed
<1>8. ~(UNCHANGED vars)
    BY DEF vars
<1> QED
    BY <1>1, <1>2, <1>3, <1>4, <1>5, <1>6, <1>7, <1>8
    DEF Next, Process, Operator, Handle, Rows, Server

\* A statement is back at the prompt with exactly one outcome row, lost, refused or
\* sent several times (repl-engine.ts, ADR-0016).
THEOREM ReturnsWithOutcomeHolds == Spec => ReturnsWithOutcome
<1>1. TypeOK /\ Inv /\ [Next]_vars => [Returns]_vars
    BY ReturnsStep
<1> QED
    BY <1>1, Invariance, PTL DEF Spec, ReturnsWithOutcome, Returns

(***************************************************************************)
(* Refinement: the shell implements AuditedEffect, one statement after the *)
(* other.  Besides Inv, a statement that is on its way was permitted, and  *)
(* one that has not been sent took no effect.                              *)
(***************************************************************************)

Over == IF ended \in {"exit", "abort"} THEN "returned" ELSE ended
seen == <<Cleared, stmt.effects, stmt.outcomes > 0, Over>>

Permitted == /\ pc \in {"ask", "decide", "attempt", "send", "sent", "reconnect"}
                  => ~Refused(stmt.kind)
             /\ pc \in {"idle", "child", "ask", "decide", "refuse"} => stmt.effects = 0

LEMMA PermittedInit == Init => Permitted
  BY NewStatement DEF Init, Permitted, NoStatement

LEMMA PermittedStep == TypeOK /\ Permitted /\ [Next]_vars => Permitted'
<1> SUFFICES ASSUME TypeOK, Permitted, [Next]_vars PROVE Permitted'
    OBVIOUS
<1>a. stmt \in Counts
    BY DEF TypeOK, Counts
<1>n. NoStatement.effects = 0
    BY NewStatement DEF NoStatement
<1> USE DEF At, Running, Permitted, Refused
<1>1. ASSUME Deliver \/ Hangup \/ Interrupt \/ Kill \/ Exit PROVE Permitted'
    BY <1>1 DEF Deliver, Hangup, Interrupt, Kill, Exit
<1>2. ASSUME TypeOn \/ Quit \/ Command PROVE Permitted'
    BY <1>2 DEF TypeOn, Quit, Command, Take
<1>3. ASSUME ChildEnds \/ Prompt PROVE Permitted'
    BY <1>3, <1>n DEF ChildEnds, Prompt, Return
<1>4. ASSUME Execute PROVE Permitted'
    BY <1>4, <1>n, NewStatement DEF Execute, Throw, Return
<1>5. ASSUME Answer PROVE Permitted'
  <2>1. stmt'.kind = stmt.kind /\ stmt'.effects = stmt.effects
      BY <1>5, <1>a DEF Answer, Counts
  <2> QED
      BY <1>5, <2>1 DEF Answer
<1>6. ASSUME NEW written \in BOOLEAN, Decide(written) PROVE Permitted'
    BY <1>6, <1>n DEF Decide, Throw, Return
<1>7. ASSUME NEW written \in BOOLEAN, Refuse(written) \/ Attempt(written) \/ Outcome(written)
      PROVE  Permitted'
  <2>1. stmt'.kind = stmt.kind /\ stmt'.effects = stmt.effects
      BY <1>7, <1>a DEF Refuse, Attempt, Outcome, Counts
  <2> QED
      BY <1>7, <2>1 DEF Refuse, Attempt, Outcome
<1>8. ASSUME Send \/ Completes \/ Fails \/ Loses PROVE Permitted'
  <2>1. stmt'.kind = stmt.kind
      BY <1>8, <1>a DEF Send, Completes, Fails, Loses, Counts
  <2> QED
      BY <1>8, <2>1 DEF Send, Completes, Fails, Loses
<1>9. ASSUME Reconnect PROVE Permitted'
    BY <1>9 DEF Reconnect
<1>10. CASE UNCHANGED vars
    BY <1>10 DEF vars
<1> QED
    BY <1>1, <1>2, <1>3, <1>4, <1>5, <1>6, <1>7, <1>8, <1>9, <1>10
    DEF Next, Process, Operator, Handle, Rows, Server

LEMMA SeenStays ==
    ASSUME mode' = mode, stmt'.kind = stmt.kind, stmt'.confirmed = stmt.confirmed,
           stmt'.effects = stmt.effects, stmt'.outcomes = stmt.outcomes, ended' = ended
    PROVE  UNCHANGED seen
  BY DEF seen, Cleared, Refused, Over

\* A statement begins, or is judged, or its handler throws, while nothing became of it.
LEMMA SeenBegins ==
    ASSUME Running, stmt.effects = 0, stmt'.effects = 0, stmt'.outcomes = 0,
           ended' = ended \/ ended' \in {"exit", "abort"}
    PROVE  Audited!Begin
  BY DEF Running, Audited!Begin, Audited!Settled, Cleared, Over

LEMMA AuditedStep == TypeOK /\ Inv /\ Permitted /\ [Next]_vars => [Audited!Next]_seen
<1> SUFFICES ASSUME TypeOK, Inv, Permitted, [Next]_vars
             PROVE  Audited!Next \/ UNCHANGED seen
    OBVIOUS
<1>a. stmt \in Counts
    BY DEF TypeOK, Counts
<1>b. stmt.outcomes \in Nat /\ stmt.effects \in Nat
    BY <1>a DEF Counts
<1>c. stmt.outcomes = IF pc = "done" THEN 1 ELSE 0
    BY DEF Inv, Closed
<1>n. NoStatement.effects = 0 /\ NoStatement.outcomes = 0
    BY NewStatement DEF NoStatement
<1>1. ASSUME Deliver \/ Hangup \/ Interrupt \/ TypeOn \/ Quit \/ Command PROVE UNCHANGED seen
    BY <1>1, SeenStays DEF Deliver, Hangup, Interrupt, TypeOn, Quit, Command
<1>2. ASSUME Fails \/ Reconnect \/ UNCHANGED vars PROVE UNCHANGED seen
    BY <1>2, SeenStays DEF Fails, Reconnect, vars
<1>3. ASSUME Send PROVE UNCHANGED seen
  <2>1. /\ stmt'.kind = stmt.kind /\ stmt'.confirmed = stmt.confirmed
        /\ stmt'.effects = stmt.effects /\ stmt'.outcomes = stmt.outcomes
      BY <1>3, <1>a DEF Send, Counts
  <2> QED
      BY <1>3, <2>1, SeenStays DEF Send
<1>4. ASSUME NEW written \in BOOLEAN, Attempt(written) PROVE UNCHANGED seen
  <2>1. /\ stmt'.kind = stmt.kind /\ stmt'.confirmed = stmt.confirmed
        /\ stmt'.effects = stmt.effects /\ stmt'.outcomes = stmt.outcomes
      BY <1>4, <1>a DEF Attempt, Counts
  <2> QED
      BY <1>4, <2>1, SeenStays DEF Attempt
<1>5. ASSUME ChildEnds PROVE Audited!Begin
    BY <1>5, <1>n, SeenBegins DEF ChildEnds, At, Return, Permitted
<1>6. ASSUME Execute PROVE Audited!Begin
    BY <1>6, <1>n, NewStatement, SeenBegins DEF Execute, Take, At, Throw, Return, Permitted
<1>7. ASSUME Answer PROVE Audited!Begin
  <2>1. stmt'.effects = stmt.effects /\ stmt'.outcomes = stmt.outcomes
      BY <1>7, <1>a DEF Answer, Counts
  <2> QED
      BY <1>7, <2>1, <1>c, SeenBegins DEF Answer, At, Permitted
<1>8. ASSUME NEW written \in BOOLEAN, Decide(written) PROVE Audited!Next \/ UNCHANGED seen
  <2>1. CASE stmt' = stmt /\ ended' = ended
      BY <1>8, <2>1, SeenStays DEF Decide
  <2>2. CASE stmt' = NoStatement
    <3>1. ended' = ended \/ ended' \in {"exit", "abort"}
        BY <1>8 DEF Decide, Throw
    <3> QED
        BY <1>8, <2>2, <3>1, <1>n, SeenBegins DEF Decide, At, Permitted, Audited!Next
  <2> QED
      BY <1>8, <2>1, <2>2 DEF Decide, Throw, Return
<1>9. ASSUME NEW written \in BOOLEAN, Refuse(written) \/ Outcome(written) PROVE Audited!Account
  <2>1. /\ stmt'.kind = stmt.kind /\ stmt'.confirmed = stmt.confirmed
        /\ stmt'.effects = stmt.effects /\ stmt'.outcomes = stmt.outcomes + 1
      BY <1>9, <1>a DEF Refuse, Outcome, Counts
  <2>2. mode' = mode /\ ended' = ended /\ ended = "no"
      BY <1>9 DEF Refuse, Outcome, At, Running
  <2>3. stmt'.outcomes > 0
      BY <2>1, <1>b
  <2> QED
      BY <2>1, <2>2, <2>3 DEF Audited!Account, Cleared, Refused, Over
<1>10. ASSUME Prompt PROVE Audited!Begin
  <2>1. stmt.outcomes > 0
      BY <1>10, <1>c DEF Prompt, At
  <2>2. stmt'.effects = 0 /\ stmt'.outcomes = 0 /\ ended' = ended /\ ended = "no"
      BY <1>10, <1>n DEF Prompt, Return, At, Running
  <2> QED
      BY <2>1, <2>2 DEF Audited!Begin, Audited!Settled, Cleared, Over
<1>11. ASSUME Completes \/ Loses PROVE Audited!Next \/ UNCHANGED seen
  <2>1. /\ stmt'.kind = stmt.kind /\ stmt'.confirmed = stmt.confirmed
        /\ stmt'.outcomes = stmt.outcomes
        /\ stmt'.effects \in {stmt.effects, stmt.effects + 1}
      BY <1>11, <1>a DEF Completes, Loses, Counts
  <2>2. mode' = mode /\ ended' = ended /\ ended = "no" /\ pc = "sent"
      BY <1>11 DEF Completes, Loses, At, Running
  <2>3. CASE stmt'.effects = stmt.effects
      BY <2>1, <2>2, <2>3, SeenStays
  <2>4. CASE stmt'.effects = stmt.effects + 1
    <3>1. Cleared /\ stmt.outcomes = 0
        BY <2>2, <1>c DEF Cleared, Permitted, Inv, Gated
    <3>2. Cleared' <=> Cleared
        BY <2>1, <2>2 DEF Cleared, Refused
    <3>3. Audited!Effect
        BY <2>1, <2>2, <2>4, <3>1, <3>2 DEF Audited!Effect, Over
    <3> QED
        BY <3>3 DEF Audited!Next
  <2> QED
      BY <2>1, <2>3, <2>4
<1>12. ASSUME Exit PROVE Audited!Finish
    BY <1>12 DEF Exit, At, Running, Permitted, Audited!Finish, Audited!Settled, Cleared,
                 Refused, Over
<1>13. ASSUME Kill PROVE Audited!Kill
    BY <1>13 DEF Kill, Running, Audited!Kill, Cleared, Refused, Over
<1> QED
    BY <1>1, <1>2, <1>3, <1>4, <1>5, <1>6, <1>7, <1>8, <1>9, <1>10, <1>11, <1>12, <1>13
    DEF Next, Process, Operator, Handle, Rows, Server, Audited!Next

\* The shell implements AuditedEffect: of any number of statements, none takes effect
\* before it was permitted and confirmed, and none that did is left behind without its
\* outcome row (repl-engine.ts, shell-submit-queue.ts).
THEOREM ImplementsAuditedEffectHolds == Spec => ImplementsAuditedEffect
<1>1. Init => Audited!Init
    BY NewStatement DEF Init, NoStatement, Audited!Init, Cleared, Over
<1>2. Spec => []Permitted
  <2>1. TypeOK /\ Permitted /\ [Next]_vars => Permitted'
      BY PermittedStep
  <2> QED
      BY <2>1, PermittedInit, TypeCorrect, PTL DEF Spec
<1>3. TypeOK /\ Inv /\ Permitted /\ [Next]_vars
        => [Audited!Next]_<<Cleared, stmt.effects, stmt.outcomes > 0,
                           IF ended \in {"exit", "abort"} THEN "returned" ELSE ended>>
    BY AuditedStep DEF seen, Over
<1> QED
    BY <1>1, <1>2, <1>3, Invariance, PTL DEF Spec, ImplementsAuditedEffect, Audited!Spec

(***************************************************************************)
(* The end of a session: what can be proved of ClosedEnds.  That the event *)
(* loop takes its next step is fairness; the rest is that there are only   *)
(* so many steps to take.                                                  *)
(***************************************************************************)

\* How far the handler is from the prompt; between a send and the next one a
\* connection is lost.
Rank(place) ==
    CASE place = "ask" -> 11 [] place = "decide" -> 10 [] place = "reconnect" -> 9
      [] place = "attempt" -> 8 [] place = "send" -> 7 [] place = "sent" -> 6
      [] place = "refuse" -> 5 [] place = "outcome" -> 4 [] place = "done" -> 3
      [] place = "child" -> 2 [] place = "idle" -> 1

Measure(end, lines, lost, place) ==
    IF end = "no" THEN 12 * lines + 10 * (MaxLosses - lost) + Rank(place) ELSE 0

\* What is left to do of a session: the lines that wait, the connections that may still
\* be lost under a statement, and the way back to the prompt.
Left == Measure(ended, Len(queue), losses, pc)

\* shell-submit-queue.ts: every step of the shell leaves less to do, and once the
\* interface is closed it stays so and nothing adds to it: neither the queue nor the
\* reconnecting goes on for ever.
DrainIsFinite ==
    /\ []( Left \in Nat )
    /\ [][/\ Process => Left' < Left
          /\ closed => closed' /\ Left' =< Left]_vars

LEMMA RankAt ==
    /\ Rank("ask") = 11 /\ Rank("decide") = 10 /\ Rank("reconnect") = 9
    /\ Rank("attempt") = 8 /\ Rank("send") = 7 /\ Rank("sent") = 6 /\ Rank("refuse") = 5
    /\ Rank("outcome") = 4 /\ Rank("done") = 3 /\ Rank("child") = 2 /\ Rank("idle") = 1
  BY DEF Rank

LEMMA RankType == \A place \in Places : Rank(place) \in 1 .. 11
  BY RankAt DEF Places

\* A step to an earlier place in the handling of a line, with a line less, or with a
\* connection less to lose.
LEMMA MeasureFalls ==
    ASSUME NEW lines \in Nat, NEW lines2 \in Nat, NEW lost \in 0 .. MaxLosses,
           NEW lost2 \in 0 .. MaxLosses, NEW place \in Places, NEW place2 \in Places, NEW end,
           \/ end # "no"
           \/ lines2 = lines /\ lost2 = lost /\ Rank(place2) < Rank(place)
           \/ lines2 < lines /\ lost2 = lost
           \/ lines2 = lines /\ lost2 = lost + 1 /\ place = "sent"
                /\ place2 \in {"reconnect", "outcome"}
    PROVE  /\ Measure("no", lines, lost, place) \in Nat
           /\ Measure(end, lines2, lost2, place2) < Measure("no", lines, lost, place)
<1>1. Rank(place) \in 1 .. 11 /\ Rank(place2) \in 1 .. 11 /\ MaxLosses \in Nat
    BY RankType, ShellAssumption
<1>2. place = "sent" => Rank(place) = 6
    BY RankAt
<1>3. place2 \in {"reconnect", "outcome"} => Rank(place2) =< 9
    BY RankAt
<1> QED
    BY <1>1, <1>2, <1>3 DEF Measure

LEMMA LeftType == TypeOK => Left \in Nat
<1> SUFFICES ASSUME TypeOK PROVE Left \in Nat
    OBVIOUS
<1>1. Rank(pc) \in 1 .. 11 /\ MaxLosses \in Nat /\ losses \in 0 .. MaxLosses
    BY RankType, ShellAssumption DEF TypeOK
<1>2. Len(queue) \in Nat
    BY LenProperties DEF TypeOK
<1> QED
    BY <1>1, <1>2 DEF Left, Measure

\* A line is taken.
LEMMA TakeShortens ==
    ASSUME TypeOK, queue # <<>>, queue' \in {Tail(queue), <<>>}
    PROVE  Len(queue') \in Nat /\ Len(queue') < Len(queue)
<1>1. queue \in Seq(Lines) /\ Len(queue) \in Nat /\ Len(queue) > 0
    BY LenProperties, EmptySeq DEF TypeOK
<1>2. Len(Tail(queue)) = Len(queue) - 1
    BY <1>1, HeadTailProperties
<1> QED
    BY <1>1, <1>2, EmptySeq

LEMMA ProcessSpends ==
    ASSUME TypeOK, TypeOK', Process
    PROVE  Left' < Left
<1>1. /\ Len(queue) \in Nat /\ Len(queue') \in Nat
      /\ losses \in 0 .. MaxLosses /\ losses' \in 0 .. MaxLosses
      /\ pc \in Places /\ pc' \in Places
    BY LenProperties DEF TypeOK
<1>2. ended = "no"
    BY DEF Process, Handle, TypeOn, Quit, Command, Execute, Take, ChildEnds, Rows, Decide, Refuse,
           Attempt, Outcome, Send, Server, Completes, Fails, Loses, Reconnect, Prompt, Exit,
           At, Running
<1> SUFFICES \/ ended' # "no"
             \/ Len(queue') = Len(queue) /\ losses' = losses /\ Rank(pc') < Rank(pc)
             \/ Len(queue') < Len(queue) /\ losses' = losses
             \/ Len(queue') = Len(queue) /\ losses' = losses + 1 /\ pc = "sent"
                  /\ pc' \in {"reconnect", "outcome"}
  <2> QED
      BY <1>1, <1>2, MeasureFalls DEF Left
<1>3. CASE Handle
  <2>1. queue # <<>> /\ queue' \in {Tail(queue), <<>>} /\ losses' = losses
      BY <1>3 DEF Handle, TypeOn, Quit, Command, Execute, Take
  <2> QED
      BY <2>1, TakeShortens
<1>4. CASE ChildEnds
    BY <1>4, RankAt DEF ChildEnds, At, Return
<1>5. ASSUME NEW written \in BOOLEAN, Decide(written)
      PROVE  Len(queue') = Len(queue) /\ losses' = losses /\ Rank(pc') < Rank(pc)
  <2>1. pc = "decide" /\ pc' \in {"idle", "attempt", "refuse"} /\ queue' = queue /\ losses' = losses
      BY <1>5 DEF Decide, At, Throw, Return
  <2> QED
      BY <2>1, RankAt
<1>6. ASSUME NEW written \in BOOLEAN, Refuse(written) \/ Attempt(written) \/ Outcome(written)
      PROVE  Len(queue') = Len(queue) /\ losses' = losses /\ Rank(pc') < Rank(pc)
  <2>1. /\ queue' = queue /\ losses' = losses
        /\ \/ pc = "refuse" /\ pc' = "done"
           \/ pc = "attempt" /\ pc' = "send"
           \/ pc = "outcome" /\ pc' = "done"
      BY <1>6 DEF Refuse, Attempt, Outcome, At
  <2> QED
      BY <2>1, RankAt
<1>7. CASE Send
    BY <1>7, RankAt DEF Send, At
<1>8. CASE Completes \/ Fails
  <2>1. queue' = queue /\ losses' = losses /\ pc = "sent" /\ pc' = "outcome"
      BY <1>8 DEF Completes, Fails, At
  <2> QED
      BY <2>1, RankAt
<1>9. CASE Loses
    BY <1>9 DEF Loses, At
<1>10. CASE Reconnect
  <2>1. queue' = queue /\ losses' = losses /\ pc = "reconnect" /\ pc' \in {"attempt", "outcome"}
      BY <1>10 DEF Reconnect, At
  <2> QED
      BY <2>1, RankAt
<1>11. CASE Prompt
    BY <1>11, RankAt DEF Prompt, At, Return
<1>12. CASE Exit
    BY <1>12 DEF Exit
<1> QED
    BY <1>3, <1>4, <1>5, <1>6, <1>7, <1>8, <1>9, <1>10, <1>11, <1>12 DEF Process, Rows, Server

\* What the operator does to an interface that is closed, and a kill, add nothing.
LEMMA ClosedAddsNothing ==
    ASSUME TypeOK, TypeOK', closed, Operator \/ Kill \/ UNCHANGED vars
    PROVE  closed' /\ Left' =< Left
<1>1. ~Operator
    BY DEF Operator, Deliver, Answer, Hangup, Interrupt
<1>2. Left \in Nat
    BY LeftType
<1>3. CASE Kill
  <2>1. Left' = 0
      BY <1>3 DEF Kill, Left, Measure
  <2> QED
      BY <1>2, <1>3, <2>1 DEF Kill
<1>4. CASE UNCHANGED vars
  <2>1. Left' = Left
      BY <1>4 DEF vars, Left
  <2> QED
      BY <1>2, <1>4, <2>1 DEF vars
<1> QED
    BY <1>1, <1>3, <1>4

LEMMA ProcessKeepsClosed == ASSUME TypeOK, closed, Process PROVE closed'
  BY DEF Process, Handle, TypeOn, Quit, Command, Execute, ChildEnds, Rows, Decide, Refuse,
         Attempt, Outcome, Send, Server, Completes, Fails, Loses, Reconnect, Prompt, Exit

\* DrainIsFinite, for any lines in a session and any number of lost connections.
THEOREM DrainIsFiniteHolds == Spec => DrainIsFinite
<1>1. TypeOK /\ TypeOK' /\ [Next]_vars => [/\ Process => Left' < Left
                                           /\ closed => closed' /\ Left' =< Left]_vars
  <2> SUFFICES ASSUME TypeOK, TypeOK', [Next]_vars
               PROVE  /\ Process => Left' < Left
                      /\ closed => closed' /\ Left' =< Left
      OBVIOUS
  <2>1. Left \in Nat
      BY LeftType
  <2>2. Process => Left' < Left /\ Left' =< Left
    <3>1. Left' \in Nat
      <4>1. Rank(pc)' \in 1 .. 11 /\ MaxLosses \in Nat /\ losses' \in 0 .. MaxLosses
          BY RankType, ShellAssumption DEF TypeOK
      <4>2. Len(queue') \in Nat
          BY LenProperties DEF TypeOK
      <4> QED
          BY <4>1, <4>2, SMTT(30) DEF Left, Measure
    <3> QED
        BY <2>1, <3>1, ProcessSpends
  <2> QED
      BY <2>2, ProcessKeepsClosed, ClosedAddsNothing DEF Next
<1>2. Spec => []TypeOK
    BY TypeCorrect
<1>3. TypeOK => Left \in Nat
    BY LeftType
<1> QED
    BY <1>1, <1>2, <1>3, PTL DEF Spec, DrainIsFinite
=============================================================================
