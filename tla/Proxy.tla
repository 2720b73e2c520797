-------------------------------- MODULE Proxy --------------------------------
(***************************************************************************)
(* `dbcli proxy': proxy/server.ts, session.ts, relay.ts, the analyzers and *)
(* the chain of event writes (events.ts).                                  *)
(*                                                                         *)
(* Each client has its own connection to the database server (upstream).   *)
(* Bytes are relayed and watched: a query that is seen becomes the active  *)
(* query of the session, and the next response in which the analyzer finds *)
(* an end or an error completes it.  Everything becomes events, which a    *)
(* promise chain writes one after another to the log; what waits for       *)
(* flush() is a continuation in the same chain.                            *)
(*                                                                         *)
(* A message is what a client sends before it waits, of the kinds the      *)
(* analyzers tell apart: "query" carries SQL (Query, COM_QUERY, Parse with *)
(* what follows it), "execute" only has its response awaited               *)
(* (COM_STMT_EXECUTE, Parse without SQL), "other" is not looked at (Bind,  *)
(* Execute, Sync).  A response is whole, and "other" when it has neither   *)
(* CommandComplete nor an error: EmptyQueryResponse, or ParseComplete and  *)
(* nothing but ReadyForQuery after it.                                     *)
(***************************************************************************)
EXTENDS Naturals, Sequences, FiniteSets

CONSTANTS Clients,       \* the clients of the proxy
          MaxMessages,   \* bound: messages sent in all
          MaxFailures    \* bound: event writes that fail

ASSUME ProxyAssumption == {MaxMessages, MaxFailures} \subseteq Nat

VARIABLES conn,          \* the connection of each client, and its session
          writeFailed,   \* ProxyServer.writeFailed
          messages,      \* history: how many messages were sent
          failures       \* history: how many event writes failed

proxyVars == <<conn, writeFailed, messages, failures>>

Messages == {"query", "execute", "other"}
Responses == {"end", "error", "other"}
Sockets == {"none", "open", "ending", "broken", "closed"}

Event(type, id, reply) == [type |-> type, id |-> id, reply |-> reply]
Then(what) == Event(what, 0, 0)

\* What the chain holds: events and what waits for them to be written.  id: the number
\* of the query in its session, 0 for an error of no query; reply (history): the
\* query the server responded to.
Continuations == {"endClient", "endUpstream", "endFailed"}
Types == {"started", "observed", "completed", "errored", "ended"}

\* phase: how far handleConnection is; early: messages from before upstream was
\* connected; wire: the queries without response, 0 for any other message; awaiting:
\* the analyzer's awaitingResponse; active, counter: the session's active query and
\* queryCounter; chain: the writes to come; log: the session's lines in the log;
\* queries, pipelined, unended, leftEarly: history, how many queries were sent, whether
\* one message was sent before the response to another, the queries whose response had
\* no end and no error, and whether the client had gone before upstream was connected.
NoConnection ==
    [phase |-> "none", client |-> "none", upstream |-> "none", early |-> <<>>,
     wire |-> <<>>, awaiting |-> FALSE, active |-> 0, counter |-> 0, chain |-> <<>>,
     log |-> <<>>, queries |-> 0, pipelined |-> FALSE, unended |-> {}, leftEarly |-> FALSE]
----------------------------------------------------------------------------
(***************************************************************************)
(* What a handler does to its connection k.                                *)
(***************************************************************************)

Enqueue(k, events) == [k EXCEPT !.chain = @ \o events]

\* session.end().then(...)
End(k, what) == Enqueue(k, <<Event("ended", 0, 0), Then(what)>>)

\* Mutant: a query does not replace one that is still active.
FromClient_Keeps(k, message) ==
    CASE message = "query" ->
           Enqueue([k EXCEPT !.counter = @ + 1, !.active = IF @ = 0 THEN k.counter + 1 ELSE @,
                             !.awaiting = TRUE, !.wire = Append(@, k.counter + 1)],
                   <<Event("observed", k.counter + 1, 0)>>)
      [] message = "execute" -> [k EXCEPT !.awaiting = TRUE, !.wire = Append(@, 0)]
      [] OTHER -> [k EXCEPT !.wire = Append(@, 0)]

\* A message of the client is forwarded, and looked at.
FromClient(k, message) ==
    CASE message = "query" ->
           Enqueue([k EXCEPT !.counter = @ + 1, !.active = k.counter + 1, !.awaiting = TRUE,
                             !.wire = Append(@, k.counter + 1)],
                   <<Event("observed", k.counter + 1, 0)>>)
      [] message = "execute" -> [k EXCEPT !.awaiting = TRUE, !.wire = Append(@, 0)]
      [] OTHER -> [k EXCEPT !.wire = Append(@, 0)]

\* Messages are relayed, one after the other.
Relay(k, early) ==
    LET relayed[n \in 0 .. Len(early)] ==
          IF n = 0 THEN k ELSE FromClient(relayed[n - 1], early[n])
    IN  relayed[Len(early)]

\* A response is forwarded, and nothing is found in it.
Forwarded(k, response) ==
    [k EXCEPT !.wire = Tail(@),
              !.unended = IF response = "other" THEN @ \cup {Head(k.wire)} ELSE @]

\* Mutant: an active query that failed stays active.
FromUpstream_Keeps(k, response) ==
    LET next == [Forwarded(k, response) EXCEPT !.awaiting = FALSE]
        answer(type) == Event(type, k.active, Head(k.wire))
    IN  CASE ~k.awaiting \/ response = "other" -> Forwarded(k, response)
          [] k.awaiting /\ response = "error" ->
               Enqueue([next EXCEPT !.counter = IF k.active = 0 THEN @ + 1 ELSE @],
                       <<answer("errored")>>)
          [] k.awaiting /\ response = "end" ->
               IF k.active = 0 THEN next
                               ELSE Enqueue([next EXCEPT !.active = 0], <<answer("completed")>>)

\* A response is forwarded.  When one is awaited, an end or an error in it ends the active
\* query, an error without one has an id of its own, and after any other response the
\* query stays active and awaited.
FromUpstream(k, response) ==
    LET next == [Forwarded(k, response) EXCEPT !.awaiting = FALSE, !.active = 0]
        answer(type) == Event(type, k.active, Head(k.wire))
    IN  CASE ~k.awaiting \/ response = "other" -> Forwarded(k, response)
          [] k.awaiting /\ response = "error" ->
               Enqueue([next EXCEPT !.counter = IF k.active = 0 THEN @ + 1 ELSE @],
                       <<answer("errored")>>)
          [] k.awaiting /\ response = "end" ->
               IF k.active = 0 THEN next ELSE Enqueue(next, <<answer("completed")>>)

\* The client's close and error handlers: the ones that are installed.
ClientGone(k) ==
    CASE k.phase = "live" -> End(k, "endUpstream")
      [] k.phase = "connecting" -> [k EXCEPT !.leftEarly = TRUE]
      [] OTHER -> k
----------------------------------------------------------------------------
(***************************************************************************)
(* The proxy's handlers.                                                   *)
(***************************************************************************)

ProxyInit == /\ conn = [c \in Clients |-> NoConnection]
             /\ writeFailed = FALSE /\ messages = 0 /\ failures = 0

Becomes(c, k) == conn' = [conn EXCEPT ![c] = k]

\* Nothing of the connection is left.
Over(k) == /\ k.client = "closed" /\ k.upstream \in {"none", "closed"}
           /\ k.phase # "connecting" /\ k.chain = <<>>

\* A client connects, for the first time or again; after a write has failed it is
\* turned away.
Connect(c) ==
    /\ conn[c] = NoConnection \/ Over(conn[c])
    /\ IF writeFailed
         THEN Becomes(c, [NoConnection EXCEPT !.phase = "refused", !.client = "ending"])
         ELSE Becomes(c, [NoConnection EXCEPT !.phase = "connecting", !.client = "open"])
    /\ UNCHANGED <<writeFailed, messages, failures>>

\* Mutant: what came before upstream was connected is not relayed.
UpstreamConnects_Drops(c) ==
    /\ conn[c].phase = "connecting"
    /\ LET live == [conn[c] EXCEPT !.phase = "live", !.upstream = "open", !.early = <<>>]
       IN  Becomes(c, Enqueue(live, <<Event("started", 0, 0)>>))
    /\ UNCHANGED <<writeFailed, messages, failures>>

\* Mutant: what came before upstream was connected is relayed and kept.
UpstreamConnects_Keeps(c) ==
    /\ conn[c].phase = "connecting"
    /\ LET live == [conn[c] EXCEPT !.phase = "live", !.upstream = "open"]
       IN  Becomes(c, Enqueue(Relay(live, conn[c].early),
                              <<Event("started", 0, 0)>>))
    /\ UNCHANGED <<writeFailed, messages, failures>>

\* Upstream is connected: the live handlers replace the early ones, what came early
\* is relayed, and the session starts, in one turn of the event loop.
UpstreamConnects(c) ==
    /\ conn[c].phase = "connecting"
    /\ LET live == [conn[c] EXCEPT !.phase = "live", !.upstream = "open", !.early = <<>>]
       IN  Becomes(c, Enqueue(Relay(live, conn[c].early),
                              <<Event("started", 0, 0)>>))
    /\ UNCHANGED <<writeFailed, messages, failures>>

\* Upstream cannot be reached: the session starts and ends, one after the other.
UpstreamFails(c) ==
    /\ conn[c].phase = "connecting"
    /\ Becomes(c, Enqueue([conn[c] EXCEPT !.phase = "failed"],
                          <<Event("started", 0, 0), Then("endFailed")>>))
    /\ UNCHANGED <<writeFailed, messages, failures>>

\* Mutant: a write that fails leaves the chain rejected.
WriteEvent_Wedges(c, ok) ==
    /\ conn[c].chain # <<>> /\ Head(conn[c].chain).type \in Types
    /\ ok \/ failures < MaxFailures
    /\ failures' = IF ok THEN failures ELSE failures + 1
    /\ writeFailed' = (writeFailed \/ ~ok)
    /\ Becomes(c, [conn[c] EXCEPT !.chain = IF ok THEN Tail(@) ELSE <<>>,
                                  !.log = IF ok THEN Append(@, Head(conn[c].chain)) ELSE @])
    /\ UNCHANGED messages

\* The next event of a session is written, or is lost; the chain goes on.
WriteEvent(c, ok) ==
    /\ conn[c].chain # <<>> /\ Head(conn[c].chain).type \in Types
    /\ ok \/ failures < MaxFailures
    /\ failures' = IF ok THEN failures ELSE failures + 1
    /\ writeFailed' = (writeFailed \/ ~ok)
    /\ Becomes(c, [conn[c] EXCEPT !.chain = Tail(@),
                                  !.log = IF ok THEN Append(@, Head(conn[c].chain)) ELSE @])
    /\ UNCHANGED messages

Ended(socket) == IF socket = "open" THEN "ending" ELSE socket

\* What waited for the events before it is done.
Continue(c) ==
    /\ conn[c].chain # <<>> /\ Head(conn[c].chain).type \in Continuations
    /\ LET k == [conn[c] EXCEPT !.chain = Tail(@)]
       IN  \/ /\ Head(conn[c].chain) = Then("endClient")
              /\ Becomes(c, [k EXCEPT !.client = Ended(@)])
           \/ /\ Head(conn[c].chain) = Then("endUpstream")
              /\ Becomes(c, [k EXCEPT !.upstream = Ended(@)])
           \/ /\ Head(conn[c].chain) = Then("endFailed")
              /\ Becomes(c, End(k, "endClient"))
    /\ UNCHANGED <<writeFailed, messages, failures>>
----------------------------------------------------------------------------
(***************************************************************************)
(* The sockets.                                                            *)
(***************************************************************************)

\* A message of the client: it is relayed, or kept until upstream is connected.
ClientSends(c) ==
    /\ conn[c].client \in {"open", "ending"} /\ conn[c].phase \in {"connecting", "live"}
    /\ messages < MaxMessages /\ messages' = messages + 1
    /\ \E message \in Messages :
         LET k == [conn[c] EXCEPT !.queries = IF message = "query" THEN @ + 1 ELSE @,
                                  !.pipelined = @ \/ conn[c].wire # <<>> \/ conn[c].early # <<>>]
         IN  Becomes(c, IF k.phase = "live" THEN FromClient(k, message)
                                            ELSE [k EXCEPT !.early = Append(@, message)])
    /\ UNCHANGED <<writeFailed, failures>>

\* The server responds to the first message without response.
UpstreamResponds(c) ==
    /\ conn[c].upstream \in {"open", "ending"} /\ conn[c].wire # <<>>
    /\ \E response \in Responses : Becomes(c, FromUpstream(conn[c], response))
    /\ UNCHANGED <<writeFailed, messages, failures>>

\* A socket is closed, by its peer or after it was ended.
ClientCloses(c) ==
    /\ conn[c].client \in {"open", "ending", "broken"}
    /\ Becomes(c, ClientGone([conn[c] EXCEPT !.client = "closed"]))
    /\ UNCHANGED <<writeFailed, messages, failures>>

UpstreamCloses(c) ==
    /\ conn[c].upstream \in {"open", "ending", "broken"}
    /\ Becomes(c, End([conn[c] EXCEPT !.upstream = "closed"], "endClient"))
    /\ UNCHANGED <<writeFailed, messages, failures>>

\* A socket has an error; it will be closed.
ClientErrors(c) ==
    /\ conn[c].client \in {"open", "ending"}
    /\ Becomes(c, ClientGone([conn[c] EXCEPT !.client = "broken"]))
    /\ UNCHANGED <<writeFailed, messages, failures>>

UpstreamErrors(c) ==
    /\ conn[c].upstream \in {"open", "ending"}
    /\ Becomes(c, End([conn[c] EXCEPT !.upstream = "broken"], "endClient"))
    /\ UNCHANGED <<writeFailed, messages, failures>>

\* A socket that was ended, or broke, is closed.
Hangup(c) == \/ conn[c].client \in {"ending", "broken"} /\ ClientCloses(c)
             \/ conn[c].upstream \in {"ending", "broken"} /\ UpstreamCloses(c)

Write(c) == \E ok \in BOOLEAN : WriteEvent(c, ok)
Peer(c) == \/ Connect(c) \/ ClientSends(c) \/ UpstreamResponds(c)
           \/ ClientCloses(c) \/ UpstreamCloses(c) \/ ClientErrors(c) \/ UpstreamErrors(c)
Proxy(c) == UpstreamConnects(c) \/ UpstreamFails(c) \/ Write(c) \/ Continue(c)

ProxyNext == \E c \in Clients : Peer(c) \/ Proxy(c)

\* The event loop runs on and every write comes back; connecting comes to an end; a
\* socket that was ended is closed.  Clients and the server owe nothing else.
ProxySpec == /\ ProxyInit /\ [][ProxyNext]_proxyVars
             /\ \A c \in Clients : WF_proxyVars(Proxy(c)) /\ WF_proxyVars(Hangup(c))
----------------------------------------------------------------------------
(***************************************************************************)
(* Properties                                                              *)
(***************************************************************************)

Events == [type : Types \cup Continuations, id : Nat, reply : Nat]

\* Every variable has its type, and what came early is kept only until it is relayed.
ProxyTypeOK ==
    /\ conn \in [Clients ->
         [phase : {"none", "connecting", "live", "failed", "refused"},
          client : Sockets, upstream : Sockets, early : Seq(Messages), wire : Seq(Nat),
          awaiting : BOOLEAN, active : Nat, counter : Nat, chain : Seq(Events),
          log : Seq(Events), queries : Nat, pipelined : BOOLEAN, unended : SUBSET Nat,
          leftEarly : BOOLEAN]]
    /\ writeFailed = (failures > 0)
    /\ messages \in 0 .. MaxMessages /\ failures \in 0 .. MaxFailures
    /\ \A c \in Clients : conn[c].early # <<>> => conn[c].phase \in {"connecting", "failed"}

Answer(e) == e.type \in {"completed", "errored"}

\* In the log, a query is answered once at most, and after it was observed, with
\* writes lost, queries pipelined and errors that belong to no query.
AnsweredOnce ==
    \A c \in Clients : LET log == conn[c].log IN
      \A i, j \in DOMAIN log :
        Answer(log[j]) /\ log[j].id # 0 /\ log[i].id = log[j].id /\ i # j
          => log[i].type = "observed" /\ i < j

\* As long as the client waits for each response, a query is answered in the log by
\* the response to itself; only where that had no end and no error may it be the one to
\* a later message, which is never another query; and no error that is logged under an
\* id of its own belongs to a query.
AnswerIsItsOwn ==
    \A c \in Clients : LET k == conn[c] IN
      ~k.pipelined => \A i \in DOMAIN k.log : Answer(k.log[i]) =>
        \/ k.log[i].id = k.log[i].reply
        \/ k.log[i].reply = 0 /\ k.log[i].id \in k.unended

Lines(k, type) == {i \in DOMAIN k.log : k.log[i].type = type}

\* With no write lost, the log of a session that has nothing more to write is
\* complete: it started once, every query the client sent was observed, in order,
\* and the session has ended once the client has gone.
RecordIsComplete ==
    \A c \in Clients : LET k == conn[c] IN
      ~writeFailed /\ k.chain = <<>> /\ k.phase \in {"live", "failed"} =>
        /\ Cardinality(Lines(k, "started")) = 1
        /\ k.phase = "live" =>
             /\ Cardinality(Lines(k, "observed")) = k.queries
             /\ \A i, j \in Lines(k, "observed") : i < j => k.log[i].id < k.log[j].id
        /\ k.phase = "failed" \/ (k.client = "closed" /\ ~k.leftEarly)
             => Lines(k, "ended") # {}

\* Neither side is left hanging, whatever writes fail: when a client of a live session
\* has gone, its upstream connection is closed, and the other way round.
SocketsFollow ==
    \A c \in Clients :
      /\ conn[c].phase = "live" /\ conn[c].client = "closed" /\ ~conn[c].leftEarly
           ~> conn[c].upstream = "closed"
      /\ conn[c].upstream = "closed" ~> conn[c].client = "closed"
=============================================================================
