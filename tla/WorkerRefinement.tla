-------------------------- MODULE WorkerRefinement --------------------------
(***************************************************************************)
(* The event loop of module Worker implements module Conversation.         *)
(***************************************************************************)
EXTENDS Worker

\* A connection in a backlog is open to its client.  The last answer has begun
\* when it said "Connection: close" and the connection is still there: only a
\* websocket tunnel lasts longer than its answer.
Phase(c) ==
    CASE st[c] = "none"   -> "new"
      [] st[c] = "closed" -> "closed"
      [] OTHER -> IF replies[c] # <<>> /\ ~replies[c][Len(replies[c])].keepAlive
                  THEN "final" ELSE "open"

\* The request an answer belongs to.  One that starts inside a request, at
\* bytes that are no beginning, belongs to none.
Answers(c) ==
    [i \in DOMAIN replies[c] |-> IF replies[c][i].pos = 1 THEN replies[c][i].n ELSE 0]

Promise == INSTANCE Conversation WITH
    MaxAnswers <- IF KeepAliveMax = 0 THEN 1 ELSE KeepAliveMax,
    phase      <- [c \in Conns |-> Phase(c)],
    asked      <- sent,
    answers    <- [c \in Conns |-> Answers(c)]

\* The worker keeps the promise made to HTTP/1.1 clients: in order, at most
\* once, nothing behind a "Connection: close", at most keep_alive_max_requests
\* (handle_client_event's consumption of the buffer, should_keep_alive and every
\* path that closes a connection).
KeepsPromise == Promise!Spec
=============================================================================
