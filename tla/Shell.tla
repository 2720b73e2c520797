-------------------------------- MODULE Shell --------------------------------
(***************************************************************************)
(* One session of `dbcli shell' on a SQL engine: commands/shell.ts, its    *)
(* submit queue and its prompt asker, core/repl/repl-engine.ts, and the    *)
(* write gate and the audit sink it is given.                              *)
(*                                                                         *)
(* The terminal delivers lines in chunks.  readline does not wait for the  *)
(* 'line' handler, so the lines of a chunk are queued and handled one at a *)
(* time; the interface is paused while one is.  A statement is checked, a  *)
(* destructive one (tier two) has to be confirmed through the same         *)
(* readline interface, an `attempt' row is written, the statement is sent, *)
(* and an `outcome' row is written.  When the connection was lost, the     *)
(* shell reconnects and sends it again.  Ctrl-C withdraws a question or    *)
(* drops a half-typed statement; Ctrl-D closes the interface, which drains *)
(* the queue before the process ends.  With piped input the lines are      *)
(* handled in turn and nobody answers a question.                          *)
(***************************************************************************)
EXTENDS Naturals, Sequences, SequencesExt

CONSTANTS MaxChunk,     \* how many lines the terminal delivers at once
          MaxLines,     \* bound: lines in a session
          MaxLosses,    \* bound: connections lost
          MaxMissed     \* bound: audit rows that cannot be written

ASSUME ShellAssumption == /\ {MaxLines, MaxLosses, MaxMissed} \subseteq Nat
                          /\ MaxChunk \in Nat \ {0}

VARIABLES mode,       \* how the session was configured
          queue,      \* lines delivered and not yet handled
          pc,         \* what the handler of the line under way does next
          buffer,     \* a statement without its semicolon is half typed
          stmt,       \* the statement under way, and what became of it
          question,   \* readline holds the callback of a question
          connected,  \* ReplState.connected
          closed,     \* the interface is closed: its 'close' handler drains the queue
          quit,       \* isClosing: .quit has been handled
          ended,      \* how the process ended
          typed,      \* history: how many lines were delivered
          losses,     \* history: how many connections were lost
          missed      \* history: how many audit rows could not be written

vars == <<mode, queue, pc, buffer, stmt, question, connected, closed, quit, ended,
          typed, losses, missed>>

\* What is typed: a statement with its semicolon (a read, a write, one of tier two,
\* one on a table that is blacklisted), the first line of one of tier two, a
\* subcommand, and .quit.
Lines == {"read", "write", "drop", "barred", "open", "command", ".quit"}

\* tty: stdin is a terminal; strict: audit.strict; queryOnly: the permission.
Modes == [tty : BOOLEAN, strict : BOOLEAN, queryOnly : BOOLEAN]

\* confirmed: the phrase was typed for it; sends: how often it was sent; effects:
\* how often it took effect in the database; attempts, outcomes: rows of each kind
\* the sink was asked for; onRecord: the attempt rows that were written; unsafe: the
\* adapter has said that the statement must not be sent again.
Statement(kind) == [kind |-> kind, confirmed |-> FALSE, sends |-> 0, effects |-> 0,
                    attempts |-> 0, onRecord |-> 0, outcomes |-> 0, unsafe |-> FALSE]
NoStatement == Statement("none")
----------------------------------------------------------------------------

Init == /\ mode \in Modes
        /\ \E input \in BoundedSeq(Lines, IF mode.tty THEN 0 ELSE MaxLines) :
             /\ queue = input
             /\ typed = Len(input)
        /\ closed = ~mode.tty
        /\ pc = "idle" /\ buffer = FALSE /\ stmt = NoStatement /\ question = FALSE
        /\ connected = TRUE /\ quit = FALSE /\ ended = "no"
        /\ losses = 0 /\ missed = 0

Running == ended = "no"
At(p) == Running /\ pc = p

\* A row the sink is asked to write; whether it was is not looked at.
Row(written) == IF written THEN UNCHANGED missed
                           ELSE missed < MaxMissed /\ missed' = missed + 1

\* The handler of a line is done.
Return == pc' = "idle" /\ stmt' = NoStatement

\* An exception out of processInput: handleLine prints it and prompts; a batch dies.
Throw == /\ Return
         /\ ended' = IF mode.tty THEN ended ELSE "abort"
----------------------------------------------------------------------------
(***************************************************************************)
(* The terminal.  The interface listens when no line is being handled, and *)
(* while a question is on the screen.                                      *)
(***************************************************************************)

Chunks == BoundedSeq(Lines, MaxChunk)

\* Lines come in, and possibly Ctrl-D behind them.
Deliver ==
    /\ At("idle") /\ queue = <<>> /\ ~closed
    /\ \E chunk \in Chunks, eof \in BOOLEAN :
         /\ chunk # <<>> \/ eof
         /\ typed + Len(chunk) =< MaxLines /\ typed' = typed + Len(chunk)
         /\ queue' = chunk
         /\ closed' = eof
    /\ UNCHANGED <<mode, pc, buffer, stmt, question, connected, quit, ended, losses, missed>>

\* The first line answers the question, the others are lines.
Answer ==
    /\ At("ask") /\ question /\ ~closed
    /\ \E rest \in BoundedSeq(Lines, MaxChunk - 1), eof, matches \in BOOLEAN :
         /\ typed + 1 + Len(rest) =< MaxLines /\ typed' = typed + 1 + Len(rest)
         /\ queue' = queue \o rest
         /\ closed' = eof
         /\ stmt' = [stmt EXCEPT !.confirmed = matches]
    /\ question' = FALSE
    /\ pc' = "decide"
    /\ UNCHANGED <<mode, buffer, connected, quit, ended, losses, missed>>

\* Ctrl-D at the question closes the interface; the callback is never called.
Hangup ==
    /\ At("ask") /\ ~closed
    /\ closed' = TRUE
    /\ UNCHANGED <<mode, queue, pc, buffer, stmt, question, connected, quit, ended, typed,
                   losses, missed>>

\* Mutant: the question is given up and stays on the screen.
Interrupt_Leaves ==
    /\ ~closed
    /\ \/ At("ask") /\ pc' = "decide" /\ UNCHANGED <<buffer, question>>
       \/ At("idle") /\ queue = <<>> /\ buffer' = FALSE /\ UNCHANGED <<pc, question>>
    /\ UNCHANGED <<mode, queue, stmt, connected, closed, quit, ended, typed, losses, missed>>

\* Mutant: the question is taken down and nothing resolves its promise.
Interrupt_Unsettled ==
    /\ ~closed
    /\ \/ At("ask") /\ pc' = "aborted" /\ question' = FALSE /\ UNCHANGED buffer
       \/ At("idle") /\ queue = <<>> /\ buffer' = FALSE /\ UNCHANGED <<pc, question>>
    /\ UNCHANGED <<mode, queue, stmt, connected, closed, quit, ended, typed, losses, missed>>

\* Ctrl-C.
Interrupt ==
    /\ ~closed
    /\ \/ At("ask") /\ pc' = "decide" /\ question' = FALSE /\ UNCHANGED buffer
       \/ At("idle") /\ queue = <<>> /\ buffer' = FALSE /\ UNCHANGED <<pc, question>>
    /\ UNCHANGED <<mode, queue, stmt, connected, closed, quit, ended, typed, losses, missed>>
----------------------------------------------------------------------------
(***************************************************************************)
(* A line is taken from the queue.                                         *)
(***************************************************************************)

Take(line) == /\ At("idle") /\ queue # <<>>
              /\ line = Head(queue) /\ queue' = Tail(queue)

Terminated == {"read", "write", "drop", "barred"}

\* What the line completes: the half-typed statement, or itself.
Kind(line) == IF buffer THEN "drop" ELSE line

\* Refused by the permission or by the blacklist.
Refused(kind) == \/ kind = "barred"
                 \/ mode.queryOnly /\ kind # "read"

\* The statement goes on: .quit and a subcommand are text inside a literal, or
\* behind a first line.
TypeOn == /\ \E line \in Lines \ Terminated :
               /\ Take(line)
               /\ ~buffer => line = "open"
          /\ buffer' = TRUE
          /\ UNCHANGED <<mode, pc, stmt, question, connected, closed, quit, ended, typed,
                         losses, missed>>

\* .quit, where it is not part of a literal.
Quit == /\ At("idle") /\ queue # <<>> /\ Head(queue) = ".quit"
        /\ queue' = IF mode.tty THEN Tail(queue) ELSE <<>>
        /\ quit' = TRUE /\ closed' = TRUE /\ buffer' = FALSE
        /\ UNCHANGED <<mode, pc, stmt, question, connected, ended, typed, losses, missed>>

\* A subcommand runs in a process of its own.
Command == /\ Take("command") /\ ~buffer
           /\ pc' = "child"
           /\ UNCHANGED <<mode, buffer, stmt, question, connected, closed, quit, ended, typed,
                          losses, missed>>

ChildEnds == /\ At("child")
             /\ Return
             /\ UNCHANGED <<mode, queue, buffer, question, connected, closed, quit, ended,
                            typed, losses, missed>>

\* Mutant: on an interface that is closed, the question waits for its answer.
Execute_Waits ==
    \E line \in Terminated :
      /\ Take(line)
      /\ buffer' = FALSE
      /\ \/ /\ Refused(Kind(line))
            /\ pc' = "refuse" /\ stmt' = Statement(Kind(line))
            /\ UNCHANGED <<question, ended>>
         \/ /\ ~Refused(Kind(line)) /\ Kind(line) = "drop"
            /\ pc' = (IF mode.tty THEN "ask" ELSE "decide")
            /\ question' = mode.tty
            /\ stmt' = Statement("drop")
            /\ UNCHANGED ended
         \/ /\ ~Refused(Kind(line)) /\ Kind(line) # "drop"
            /\ pc' = "attempt" /\ stmt' = Statement(Kind(line))
            /\ UNCHANGED <<question, ended>>
      /\ UNCHANGED <<mode, connected, closed, quit, typed, losses, missed>>

\* A statement is complete: permission, blacklist, write gate.  readline throws when
\* a question is asked on an interface that is closed.
Execute ==
    \E line \in Terminated :
      /\ Take(line)
      /\ buffer' = FALSE
      /\ \/ /\ Refused(Kind(line))
            /\ pc' = "refuse" /\ stmt' = Statement(Kind(line))
            /\ UNCHANGED <<question, ended>>
         \/ /\ ~Refused(Kind(line)) /\ Kind(line) = "drop"
            /\ IF mode.tty /\ closed
                 THEN Throw /\ UNCHANGED question
                 ELSE /\ pc' = (IF mode.tty THEN "ask" ELSE "decide")
                      /\ question' = mode.tty
                      /\ stmt' = Statement("drop")
                      /\ UNCHANGED ended
         \/ /\ ~Refused(Kind(line)) /\ Kind(line) # "drop"
            /\ pc' = "attempt" /\ stmt' = Statement(Kind(line))
            /\ UNCHANGED <<question, ended>>
      /\ UNCHANGED <<mode, connected, closed, quit, typed, losses, missed>>
----------------------------------------------------------------------------
(***************************************************************************)
(* The write gate and the rows.                                            *)
(***************************************************************************)

\* Mutant: the statement goes on whatever was answered, once it is on record.
Decide_Recorded(written) ==
    /\ At("decide") /\ Row(written)
    /\ IF ~written /\ mode.strict
         THEN Throw
         ELSE pc' = (IF stmt.confirmed \/ written THEN "attempt" ELSE "refuse")
              /\ UNCHANGED <<stmt, ended>>
    /\ UNCHANGED <<mode, queue, buffer, question, connected, closed, quit, typed, losses>>

\* recordGateDecision: audit.strict is enforced here.
Decide(written) ==
    /\ At("decide") /\ Row(written)
    /\ IF ~written /\ mode.strict
         THEN Throw
         ELSE pc' = (IF stmt.confirmed THEN "attempt" ELSE "refuse") /\ UNCHANGED <<stmt, ended>>
    /\ UNCHANGED <<mode, queue, buffer, question, connected, closed, quit, typed, losses>>

\* A statement that was refused has an outcome row only.
Refuse(written) ==
    /\ At("refuse") /\ Row(written)
    /\ stmt' = [stmt EXCEPT !.outcomes = @ + 1]
    /\ pc' = "done"
    /\ UNCHANGED <<mode, queue, buffer, question, connected, closed, quit, ended, typed, losses>>

\* The attempt row.
Attempt(written) ==
    /\ At("attempt") /\ Row(written)
    /\ stmt' = [stmt EXCEPT !.attempts = @ + 1, !.onRecord = IF written THEN @ + 1 ELSE @]
    /\ pc' = "send"
    /\ UNCHANGED <<mode, queue, buffer, question, connected, closed, quit, ended, typed, losses>>

\* The statement goes to the adapter, whether its row was written or not.
Send ==
    /\ At("send")
    /\ stmt' = [stmt EXCEPT !.sends = @ + 1]
    /\ pc' = "sent"
    /\ UNCHANGED <<mode, queue, buffer, question, connected, closed, quit, ended, typed, losses,
                   missed>>

\* The outcome row.
Outcome(written) ==
    /\ At("outcome") /\ Row(written)
    /\ stmt' = [stmt EXCEPT !.outcomes = @ + 1]
    /\ pc' = "done"
    /\ UNCHANGED <<mode, queue, buffer, question, connected, closed, quit, ended, typed, losses>>

\* processInput returns, and the prompt is back.
Prompt ==
    /\ At("done")
    /\ Return
    /\ UNCHANGED <<mode, queue, buffer, question, connected, closed, quit, ended, typed,
                   losses, missed>>
----------------------------------------------------------------------------
(***************************************************************************)
(* The connection.                                                         *)
(***************************************************************************)

Completes == /\ At("sent")
             /\ stmt' = [stmt EXCEPT !.effects = @ + 1]
             /\ connected' = TRUE
             /\ pc' = "outcome"
             /\ UNCHANGED <<mode, queue, buffer, question, closed, quit, ended, typed, losses,
                            missed>>

\* The server refuses the statement: it is an error of the statement.
Fails == /\ At("sent")
         /\ pc' = "outcome"
         /\ UNCHANGED <<mode, queue, buffer, stmt, question, connected, closed, quit, ended,
                        typed, losses, missed>>

\* The connection is lost, before the statement took effect or after.  Only when
\* the end of a read-only transaction is lost does the adapter say that the
\* statement must not be sent again.
Loses ==
    /\ At("sent")
    /\ losses < MaxLosses /\ losses' = losses + 1
    /\ \E ran, unsafe \in BOOLEAN :
         /\ unsafe => mode.queryOnly
         /\ stmt' = [stmt EXCEPT !.effects = IF ran THEN @ + 1 ELSE @, !.unsafe = unsafe]
    /\ pc' = (IF connected THEN "reconnect" ELSE "outcome")
    /\ connected' = FALSE
    /\ UNCHANGED <<mode, queue, buffer, question, closed, quit, ended, typed, missed>>

\* Mutant: the statement is sent again whatever the adapter said.
Reconnect_Retries ==
    /\ At("reconnect")
    /\ \E ok \in BOOLEAN :
         /\ connected' = ok
         /\ pc' = (IF ok THEN "attempt" ELSE "outcome")
    /\ UNCHANGED <<mode, queue, buffer, stmt, question, closed, quit, ended, typed, losses,
                   missed>>

\* Mutant: a reconnect that fails returns to the prompt.
Reconnect_Returns ==
    /\ At("reconnect")
    /\ \E ok \in BOOLEAN :
         /\ connected' = ok
         /\ pc' = (IF ~ok THEN "done" ELSE IF stmt.unsafe THEN "outcome" ELSE "attempt")
    /\ UNCHANGED <<mode, queue, buffer, stmt, question, closed, quit, ended, typed, losses,
                   missed>>

\* Mutant: the statement is sent again without a row of its own.
Reconnect_Resends ==
    /\ At("reconnect")
    /\ \E ok \in BOOLEAN :
         /\ connected' = ok
         /\ pc' = (IF ok /\ ~stmt.unsafe THEN "send" ELSE "outcome")
    /\ UNCHANGED <<mode, queue, buffer, stmt, question, closed, quit, ended, typed, losses,
                   missed>>

\* Reconnected, the statement runs again from its attempt row on, as often as its
\* connection is lost; it has been confirmed already.
Reconnect ==
    /\ At("reconnect")
    /\ \E ok \in BOOLEAN :
         /\ connected' = ok
         /\ pc' = (IF ok /\ ~stmt.unsafe THEN "attempt" ELSE "outcome")
    /\ UNCHANGED <<mode, queue, buffer, stmt, question, closed, quit, ended, typed, losses,
                   missed>>
----------------------------------------------------------------------------
(***************************************************************************)
(* The end.                                                                *)
(***************************************************************************)

\* Mutant: the close handler does not wait for the line under way.
Exit_Undrained ==
    /\ Running /\ closed
    /\ ended' = "exit"
    /\ UNCHANGED <<mode, queue, pc, buffer, stmt, question, connected, closed, quit, typed,
                   losses, missed>>

\* The close handler has drained the queue.
Exit ==
    /\ At("idle") /\ closed /\ queue = <<>>
    /\ ended' = "exit"
    /\ UNCHANGED <<mode, queue, pc, buffer, stmt, question, connected, closed, quit, typed,
                   losses, missed>>

\* The process is killed.
Kill ==
    /\ Running
    /\ ended' = "killed"
    /\ UNCHANGED <<mode, queue, pc, buffer, stmt, question, connected, closed, quit, typed,
                   losses, missed>>

Handle == \/ TypeOn \/ Quit \/ Command \/ Execute
Rows == \E written \in BOOLEAN :
          Decide(written) \/ Refuse(written) \/ Attempt(written) \/ Outcome(written)
Server == Completes \/ Fails \/ Loses
Process == Handle \/ ChildEnds \/ Rows \/ Send \/ Server \/ Reconnect \/ Prompt \/ Exit
Operator == Deliver \/ Answer \/ Hangup \/ Interrupt

Next == Process \/ Operator \/ Kill

\* The event loop runs on, and the database, a subcommand and the audit log come
\* back with something; the operator owes nothing.
Spec == Init /\ [][Next]_vars /\ WF_vars(Process)
----------------------------------------------------------------------------
(***************************************************************************)
(* Properties                                                              *)
(***************************************************************************)

Places == {"idle", "ask", "decide", "refuse", "attempt", "send", "sent", "reconnect",
           "outcome", "done", "child"}

\* Every variable has its type.
TypeOK ==
    /\ mode \in Modes
    /\ queue \in Seq(Lines) /\ Len(queue) =< typed
    /\ pc \in Places
    /\ stmt \in [kind : Terminated \cup {"none"}, confirmed : BOOLEAN, unsafe : BOOLEAN,
                 sends : Nat, effects : Nat, attempts : Nat, onRecord : Nat, outcomes : Nat]
    /\ buffer \in BOOLEAN /\ question \in BOOLEAN /\ connected \in BOOLEAN
    /\ closed \in BOOLEAN /\ quit \in BOOLEAN
    /\ ended \in {"no", "exit", "abort", "killed"}
    /\ typed \in 0 .. MaxLines /\ losses \in 0 .. MaxLosses /\ missed \in 0 .. MaxMissed

\* readline holds the callback of a question only while the gate waits for its
\* answer: no line typed later is taken for one.
QuestionIsWaitedFor == question => pc = "ask"

\* A tier-two statement reaches the database only after its own confirmation was
\* typed, in however many pieces it and the lines around it arrive, and however
\* often it is sent.
SentIsConfirmed == stmt.kind = "drop" /\ stmt.sends > 0 => stmt.confirmed

\* ADR-0016: every time a statement reaches the adapter, a row of its own has been
\* asked for before.
EverySendHasItsRow == stmt.sends =< stmt.attempts

\* ADR-0016: a statement that returns to the prompt has its one outcome row, the
\* one that was lost with its connection and the one that was refused included,
\* unless an exception of the gate ended it before it was sent.
ReturnsWithOutcome ==
    [][stmt.kind # "none" /\ stmt'.kind = "none"
         => stmt.outcomes = 1 \/ (stmt.sends = 0 /\ pc = "decide")]_vars

\* docs/user/en/index.md:329-331: a read-only statement whose transaction ended uncertainly
\* is not replayed.
UnsafeIsNotReplayed == stmt.unsafe => pc \notin {"attempt", "send", "sent"}

\* The statement under way is permitted, and confirmed if it has to be.
Cleared == ~Refused(stmt.kind) /\ (stmt.kind = "drop" => stmt.confirmed)

Audited == INSTANCE AuditedEffect
             WITH cleared   <- Cleared,
                  effects   <- stmt.effects,
                  accounted <- stmt.outcomes > 0,
                  over      <- IF ended \in {"exit", "abort"} THEN "returned" ELSE ended

\* shell-submit-queue.ts, repl-engine.ts: a statement takes effect only when it was
\* permitted and confirmed and has no outcome row yet, and however its handler or the
\* process ends of itself, by .quit, Ctrl-D, the end of piped input or an exception, none
\* that took effect is left behind without that row.
ImplementsAuditedEffect == Audited!Spec

\* A session whose interface is closed ends, unless it was closed on a question:
\* its callback is never called, and the drain waits for it.
ClosedEnds == (closed /\ pc # "ask") ~> (ended # "no")

\* ADR-0016:102-105 and CHANGELOG.md:1039: with audit.strict, a statement whose
\* attempt row cannot be written is not sent.
StrictIsOnRecord == mode.strict => stmt.onRecord >= stmt.sends
=============================================================================
