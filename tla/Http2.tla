-------------------------------- MODULE Http2 --------------------------------
(***************************************************************************)
(* HTTP/2 connections (rpsiod_http2_serve_connection, src/src/http2.c).    *)
(* A worker serves one to its end inside accept_clients, and answers each  *)
(* stream by sending a plain HTTP/1.1 request to the http port of the same *)
(* server over the loopback interface.  The http port is shared by all     *)
(* workers with SO_REUSEPORT: the kernel picks the worker that will be     *)
(* asked, whether or not that worker has its thread free.                  *)
(*                                                                         *)
(* Every worker has at most one HTTP/2 connection here, so a connection is *)
(* named by the worker that serves it.  nghttp2 and OpenSSL are external.  *)
(***************************************************************************)
EXTENDS Integers, FiniteSets

CONSTANTS
    Workers,      \* worker processes
    Streams,      \* streams the clients may open
    ConnOf,       \* the worker whose connection carries a stream
    Kinds,        \* requests sent: "get" (or HEAD), "post", "body" (no END_STREAM)
    MaxAttempts,  \* H2_BACKEND_MAX_ATTEMPTS
    IdleTurns,    \* H2_IDLE_TIMEOUT_MS in poll timeouts
    Resets,       \* streams whose client may reset them or break a rule on them
    Torn,         \* whether an answer may end early
    Failures      \* whether starting a loopback request may fail

ASSUME Http2Assumption ==
    /\ IsFiniteSet(Workers) /\ IsFiniteSet(Streams)
    /\ ConnOf \in [Streams -> Workers]
    /\ Kinds \subseteq {"get", "post", "body"}
    /\ MaxAttempts \in Nat \ {0}
    /\ IdleTurns \in Nat \ {0}
    /\ Resets \subseteq Streams /\ Torn \in BOOLEAN /\ Failures \in BOOLEAN

NoFd   == 0
Nobody == "nobody"
NoJob  == <<Nobody, NoFd>>

VARIABLES
    conn,   \* the connection of each worker: "none", "backlog", "open", "ended"
    bye,    \* its client has closed it
    wpc,    \* the worker's thread: "idle" in its event loop, "serving" a
            \* loopback request, or in the HTTP/2 loop: "top", "poll", "read",
            \* "progress"; "crashed"
    job,    \* the loopback request a worker serves
    str,    \* the streams: their h2_stream and what the client has done
    socks,  \* the loopback descriptors that are open, named by their attempt
    active, \* active_backend_streams of each connection
    rset,   \* the streams of poll_streams with revents not yet handled
    idle,   \* poll timeouts counted in idle_ms
    used,   \* history: the workers whose loop has used a stream it had freed
    subs    \* history: responses submitted per stream

vars == <<conn, bye, wpc, job, str, socks, active, rset, idle, used, subs>>

\* st: "none", "sent" (in the TLS receive queue), "open" (an h2_stream exists),
\* "freed".  fault: "sent" when its client has reset it or broken a rule of HTTP/2
\* on it, "queued" when nghttp2 has a RST_STREAM of its own to send for that.
\* backend: H2_BACKEND_..., CONNECTING and WRITING being one.  ans: what the
\* loopback connection has delivered; raw: what has been read of it.
Fresh == [st |-> "none", kind |-> "get", fault |-> "none", backend |-> "NONE", attempts |-> 0, fd |-> NoFd,
          target |-> Nobody, ans |-> "none", raw |-> "none",
          submitted |-> FALSE, resp |-> "none"]

Init ==
    /\ conn = [w \in Workers |-> "none"]
    /\ bye = [w \in Workers |-> FALSE]
    /\ wpc = [w \in Workers |-> "idle"]
    /\ job = [w \in Workers |-> NoJob]
    /\ str = [s \in Streams |-> Fresh]
    /\ socks = {}
    /\ active = [w \in Workers |-> 0]
    /\ rset = [w \in Workers |-> {}]
    /\ idle = [w \in Workers |-> 0]
    /\ used = {}
    /\ subs = [s \in Streams |-> 0]

Mine(w) == {s \in Streams : ConnOf[s] = w /\ str[s].st = "open"}
----------------------------------------------------------------------------
(* The clients. *)

ClientConnects(w) ==
    /\ conn[w] = "none" /\ \E s \in Streams : ConnOf[s] = w
    /\ conn' = [conn EXCEPT ![w] = "backlog"]
    /\ UNCHANGED <<bye, wpc, job, str, socks, active, rset, idle, used, subs>>

ClientRequests(s) ==
    /\ conn[ConnOf[s]] = "open" /\ ~bye[ConnOf[s]]
    /\ str[s].st = "none"
    /\ \E k \in Kinds : str' = [str EXCEPT ![s].st = "sent", ![s].kind = k]
    /\ UNCHANGED <<conn, bye, wpc, job, socks, active, rset, idle, used, subs>>

\* RST_STREAM, or a frame that HTTP/2 does not allow on the stream.
ClientResets(s) ==
    /\ s \in Resets
    /\ str[s].st \in {"sent", "open"} /\ str[s].fault = "none" /\ ~bye[ConnOf[s]]
    /\ str' = [str EXCEPT ![s].fault = "sent"]
    /\ UNCHANGED <<conn, bye, wpc, job, socks, active, rset, idle, used, subs>>

ClientCloses(w) ==
    /\ conn[w] = "open" /\ ~bye[w]
    /\ bye' = [bye EXCEPT ![w] = TRUE]
    /\ UNCHANGED <<conn, wpc, job, str, socks, active, rset, idle, used, subs>>

----------------------------------------------------------------------------
(* Streams and their loopback requests. *)

InProgress(r) == r.backend \in {"CONNECTING", "READING"}

\* close_backend_stream on the streams of S, all of worker w's connection.
\* The counter is guarded against underflow.
Closing(S) == {<<s, str[s].fd>> : s \in {t \in S : str[t].fd # NoFd}}
Lowered(n, k) == IF n > k THEN n - k ELSE 0

\* start_loopback_request_async: a connect to the http port that the kernel
\* gives to worker t.
Started(r, t) ==
    [r EXCEPT !.backend = "CONNECTING", !.attempts = @ + 1, !.fd = r.attempts + 1,
              !.target = t, !.ans = "none", !.raw = "none"]

\* No site for the authority, no http port, no descriptor, or connect refuses.
StartFailed(r) == [r EXCEPT !.backend = "FAILED", !.fd = NoFd]

\* The workers the kernel may choose, or none when the start fails.
Choices == Workers \cup (IF Failures THEN {Nobody} ELSE {})

Starting(r, t) == IF t = Nobody THEN StartFailed(r) ELSE Started(r, t)

\* remove_stream; that its client was at fault is kept as history.
Removed(r) == [Fresh EXCEPT !.st = "freed", !.fault = r.fault]

\* remove_stream on the streams of S, all of worker w's connection.
Frees(w, S) ==
    /\ str' = [s \in Streams |-> IF s \in S THEN Removed(str[s]) ELSE str[s]]
    /\ socks' = socks \ Closing(S)
    /\ active' = [active EXCEPT ![w] = Lowered(@, Cardinality(Closing(S)))]

\* Whether the descriptor that a stream holds is open.
IsOpen(s) == <<s, str[s].fd>> \in socks

\* Mutant: a chunked body that ends early is taken for the whole.
Parsed_lenient(raw) ==
    CASE raw \in {"whole", "torn"} -> "ok" [] raw = "short" -> "short" [] OTHER -> "502"

\* parse_loopback_response: an answer that is empty, or ends early in a chunked
\* body, is replaced by a 502; a body without chunks that ends early is taken
\* for the whole.
Parsed(raw) == CASE raw = "whole" -> "ok" [] raw = "short" -> "short" [] OTHER -> "502"

\* Mutant: a stream is answered as soon as some of its answer has been read.
Ready_early(r) ==
    r.st = "open" /\ ~r.submitted /\ (r.backend \in {"DONE", "FAILED"} \/ r.raw = "part")

Ready(r) == r.st = "open" /\ ~r.submitted /\ r.backend \in {"DONE", "FAILED"}

\* Mutant: a failed stream is answered and not marked.
Submitted_unmarked(r) ==
    IF Ready(r) /\ r.backend = "DONE"
    THEN [r EXCEPT !.submitted = TRUE, !.resp = Parsed(r.raw), !.raw = "none"]
    ELSE r

\* submit_ready_streams on one stream.
Submitted(r) ==
    IF Ready(r)
    THEN [r EXCEPT !.submitted = TRUE,
                   !.resp = IF r.backend = "DONE" THEN Parsed(r.raw) ELSE "502",
                   !.raw = "none"]
    ELSE r

CountSubmits(w) ==
    subs' = [s \in Streams |-> IF s \in Mine(w) /\ Ready(str[s]) THEN subs[s] + 1 ELSE subs[s]]

\* retry_delayed_loopback: no byte of an answer when H2_BACKEND_RETRY_MS have
\* passed since the last attempt.  Time is left to the choice of late in Top.
Retriable(r) == InProgress(r) /\ r.attempts < MaxAttempts /\ r.raw = "none"

\* nghttp2_session_send: any of the submitted responses may be sent to its end,
\* and a RST_STREAM of nghttp2's own may be sent; either closes the stream.  Flow
\* control or a full socket may hold any of them back.
Pending(w) == {s \in Mine(w) : str[s].submitted \/ str[s].fault = "queued"}

\* The same after submit_ready_streams.
Sendable(w) == {s \in Mine(w) : Submitted(str[s]).submitted \/ str[s].fault = "queued"}
----------------------------------------------------------------------------
(* The worker's event loop, as far as HTTP/2 meets it. *)

\* accept_clients takes the connection and ALPN says h2.
Accept(w) ==
    /\ wpc[w] = "idle"
    /\ conn[w] = "backlog"
    /\ conn' = [conn EXCEPT ![w] = "open"]
    /\ wpc' = [wpc EXCEPT ![w] = "top"]
    /\ UNCHANGED <<bye, job, str, socks, active, rset, idle, used, subs>>

\* A worker with its thread free takes a loopback request from its backlog ...
ServeBegins(w, s) ==
    /\ wpc[w] = "idle"
    /\ str[s].fd # NoFd /\ str[s].target = w
    /\ str[s].backend = "READING" /\ str[s].ans = "none"
    /\ wpc' = [wpc EXCEPT ![w] = "serving"]
    /\ job' = [job EXCEPT ![w] = <<s, str[s].fd>>]
    /\ UNCHANGED <<conn, bye, str, socks, active, rset, idle, used, subs>>

\* ... writes some of the answer ...
ServeWrites(w) ==
    /\ wpc[w] = "serving"
    /\ job[w] \in socks
    /\ str[job[w][1]].ans = "none"
    /\ str' = [str EXCEPT ![job[w][1]].ans = "part"]
    /\ UNCHANGED <<conn, bye, wpc, job, socks, active, rset, idle, used, subs>>

\* ... and the rest of it, or fails to, and closes; the requester may have
\* given this attempt up.
ServeEnds(w) ==
    /\ wpc[w] = "serving"
    /\ wpc' = [wpc EXCEPT ![w] = "idle"]
    /\ job' = [job EXCEPT ![w] = NoJob]
    /\ IF job[w] \in socks
       THEN \E a \in {"whole"} \cup (IF Torn THEN {"short", "torn"} ELSE {}) :
              str' = [str EXCEPT ![job[w][1]].ans = a]
       ELSE UNCHANGED str
    /\ UNCHANGED <<conn, bye, socks, active, rset, idle, used, subs>>
----------------------------------------------------------------------------
(* The loop of rpsiod_http2_serve_connection. *)

\* Mutant: the descriptors of unfinished streams are forgotten.
Finish_leaks(w) ==
    /\ wpc' = [wpc EXCEPT ![w] = "idle"]
    /\ conn' = [conn EXCEPT ![w] = "ended"]
    /\ str' = [s \in Streams |-> IF s \in Mine(w) THEN Removed(str[s]) ELSE str[s]]
    /\ active' = [active EXCEPT ![w] = 0]
    /\ UNCHANGED socks

\* free_all_streams, and back to accept_clients.
Finish(w) ==
    /\ wpc' = [wpc EXCEPT ![w] = "idle"]
    /\ conn' = [conn EXCEPT ![w] = "ended"]
    /\ Frees(w, Mine(w))

\* Submit what is ready, retry the streams of late, send, and poll.
TopWith(w, late) ==
    /\ wpc' = [wpc EXCEPT ![w] = "poll"]
    /\ CountSubmits(w)
    /\ \E sent \in SUBSET Sendable(w) : \E to \in [late -> Choices] :
         LET begun == {s \in late \ sent : to[s] # Nobody} IN
         /\ str' = [s \in Streams |->
                      CASE s \in sent -> Removed(str[s])
                        [] s \in late \ sent -> Starting(str[s], to[s])
                        [] s \in Mine(w) \ (sent \cup late) -> Submitted(str[s])
                        [] OTHER -> str[s]]
         /\ socks' = (socks \ Closing(sent \cup late))
                       \cup {<<s, str[s].attempts + 1>> : s \in begun}
         /\ active' = [active EXCEPT ![w] =
                         Lowered(@, Cardinality(Closing(sent \cup late))) + Cardinality(begun)]
    /\ UNCHANGED <<conn, bye, job, rset, idle, used>>

Late(w) == {s \in Mine(w) : Retriable(str[s])}

Top(w) ==
    /\ wpc[w] = "top"
    /\ \E late \in SUBSET Late(w) : TopWith(w, late)

\* The turn in which the attempt of s has become late.
Retry(s) ==
    /\ wpc[ConnOf[s]] = "top"
    /\ \E late \in SUBSET Late(ConnOf[s]) : s \in late /\ TopWith(ConnOf[s], late)

\* The client has gone and there is something to send to it: ssl_send_callback
\* fails and the loop is left.
SendBreaks(w) ==
    /\ bye[w]
    /\ \/ wpc[w] = "top" /\ Sendable(w) # {} /\ CountSubmits(w)
       \/ wpc[w] = "poll" /\ Pending(w) # {} /\ UNCHANGED subs
    /\ Finish(w)
    /\ UNCHANGED <<bye, job, rset, idle, used>>

\* What poll may report: a connect that is done, bytes or the end of an answer, a
\* descriptor that is not open (POLLNVAL).
Eventful(s) ==
    \/ str[s].backend = "CONNECTING"
    \/ str[s].ans # "none" /\ str[s].ans # str[s].raw
    \/ ~IsOpen(s)

\* The streams of poll_streams that poll reports.
Events(w) == {s \in Mine(w) : str[s].fd # NoFd /\ Eventful(s)}

\* The streams whose client has sent what has not been read.
Unread(w) ==
    {s \in Streams : ConnOf[s] = w
       /\ (str[s].st = "sent" \/ (str[s].st = "open" /\ str[s].fault = "sent"))}

Readable(w) == bye[w] \/ Unread(w) # {}

\* poll reports something; what nghttp2 still had to send is sent first if the
\* client's socket has room for it (POLLOUT), before anything is read.
PollReturns(w) ==
    /\ wpc[w] = "poll"
    /\ Readable(w) \/ Events(w) # {} \/ Pending(w) # {}
    /\ rset' = [rset EXCEPT ![w] = Events(w)]
    /\ idle' = [idle EXCEPT ![w] = 0]
    /\ wpc' = [wpc EXCEPT ![w] = "read"]
    /\ \E sent \in SUBSET Pending(w) : Frees(w, sent)
    /\ UNCHANGED <<conn, bye, job, used, subs>>

\* Mutant: the idle time is only counted while there are streams.
Counts_busy(w) == Mine(w) # {}

\* Whether a poll timeout counts as idle time.
Counts(w) == Mine(w) = {}

\* poll times out.  Late attempts are retried at the top of the next turn, where
\* the code does so a second time.
PollTimesOut(w) ==
    /\ wpc[w] = "poll"
    /\ ~Readable(w) /\ Events(w) = {}
    /\ IF Counts(w) /\ idle[w] + 1 >= IdleTurns
       THEN Finish(w) /\ UNCHANGED idle
       ELSE /\ idle' = IF Counts(w) THEN [idle EXCEPT ![w] = @ + 1] ELSE idle
            /\ wpc' = [wpc EXCEPT ![w] = "top"]
            /\ UNCHANGED <<conn, str, socks, active>>
    /\ UNCHANGED <<bye, job, rset, used, subs>>

\* SSL_read and nghttp2_session_mem_recv: the HEADERS of a request.  Only one
\* that ends its stream is acted on: GET and HEAD go to the loopback.
RecvHeaders(w, s) ==
    /\ wpc[w] = "read" /\ ConnOf[s] = w
    /\ str[s].st = "sent"
    /\ LET r == [str[s] EXCEPT !.st = "open"] IN
         \/ /\ str[s].kind = "get"
            /\ \E t \in Choices :
                 /\ str' = [str EXCEPT ![s] = Starting(r, t)]
                 /\ socks' = IF t = Nobody THEN socks ELSE socks \cup {<<s, r.attempts + 1>>}
                 /\ active' = IF t = Nobody THEN active ELSE [active EXCEPT ![w] = @ + 1]
            /\ UNCHANGED subs
         \/ /\ str[s].kind = "post"
            /\ str' = [str EXCEPT ![s] = [r EXCEPT !.submitted = TRUE, !.resp = "405"]]
            /\ subs' = [subs EXCEPT ![s] = @ + 1]
            /\ UNCHANGED <<socks, active>>
         \/ /\ str[s].kind = "body"
            /\ str' = [str EXCEPT ![s] = r]
            /\ UNCHANGED <<socks, active, subs>>
    /\ UNCHANGED <<conn, bye, wpc, job, rset, idle, used>>

\* RST_STREAM: on_stream_close_callback frees the stream at once.  For a frame
\* that breaks a rule nghttp2 queues a RST_STREAM of its own.
RecvReset(w, s) ==
    /\ wpc[w] = "read" /\ s \in Mine(w)
    /\ str[s].fault = "sent"
    /\ \/ Frees(w, {s})
       \/ str' = [str EXCEPT ![s].fault = "queued"] /\ UNCHANGED <<socks, active>>
    /\ UNCHANGED <<conn, bye, wpc, job, rset, idle, used, subs>>

\* Nothing more to read, or the end of the connection.
RecvEnds(w) ==
    /\ wpc[w] = "read"
    /\ Unread(w) = {}
    /\ wpc' = [wpc EXCEPT ![w] = "progress"]
    /\ UNCHANGED <<conn, bye, job, str, socks, active, rset, idle, used, subs>>

\* h2_progress_backend_stream: the request is written, what has come is read.  A
\* descriptor that is not open does not end a connect: POLLNVAL is not looked for.
Progress(w, s) ==
    /\ wpc[w] = "progress"
    /\ s \in rset[w]
    /\ str[s].st = "open"
    /\ rset' = [rset EXCEPT ![w] = @ \ {s}]
    /\ LET r == str[s] IN
         \/ /\ r.backend = "CONNECTING" /\ IsOpen(s)
            /\ str' = [str EXCEPT ![s].backend = "READING"]
            /\ UNCHANGED <<socks, active>>
         \/ /\ r.backend = "CONNECTING" /\ ~IsOpen(s)
            /\ UNCHANGED <<str, socks, active>>
         \/ /\ r.backend = "READING" /\ r.ans = "part" /\ IsOpen(s)
            /\ str' = [str EXCEPT ![s].raw = "part"]
            /\ UNCHANGED <<socks, active>>
         \/ /\ r.backend = "READING" /\ r.ans \in {"whole", "short", "torn"} /\ IsOpen(s)
            /\ str' = [str EXCEPT ![s].raw = r.ans, ![s].fd = NoFd, ![s].backend = "DONE"]
            /\ socks' = socks \ Closing({s})
            /\ active' = [active EXCEPT ![w] = Lowered(@, 1)]
         \/ /\ Failures \/ (r.backend = "READING" /\ ~IsOpen(s))
            \* a refused connect, a read error, an answer too long
            /\ str' = [str EXCEPT ![s].fd = NoFd, ![s].backend = "FAILED"]
            /\ socks' = socks \ Closing({s})
            /\ active' = [active EXCEPT ![w] = Lowered(@, 1)]
    /\ UNCHANGED <<conn, bye, wpc, job, idle, used, subs>>

\* The streams whose loopback request may have been started since the last poll:
\* one of them may have been given the memory or the descriptor of a freed one.
Begun(w) == {s \in Mine(w) \ rset[w] : str[s].backend = "CONNECTING" /\ IsOpen(s)}

\* The same for a stream freed since it was polled.  What was freed still names
\* the descriptor that remove_stream has closed.  Nothing may come of it; the
\* process may crash; the descriptor may be closed a second time, when it may by
\* now be that of another stream, and active_backend_streams lowered again; a
\* request may be written on it, to another stream's connection.
ProgressFreed(w, s) ==
    /\ wpc[w] = "progress"
    /\ s \in rset[w]
    /\ str[s].st = "freed"
    /\ rset' = [rset EXCEPT ![w] = @ \ {s}]
    /\ used' = used \cup {w}
    /\ \/ UNCHANGED <<conn, wpc, str, socks, active>>
       \/ /\ wpc' = [wpc EXCEPT ![w] = "crashed"]
          /\ conn' = [conn EXCEPT ![w] = "ended"]
          /\ Frees(w, Mine(w))
       \/ /\ socks' \in {socks} \cup {socks \ Closing({t}) : t \in Begun(w)}
          /\ active' = [active EXCEPT ![w] = Lowered(@, 1)]
          /\ UNCHANGED <<conn, wpc, str>>
       \/ /\ \E t \in Begun(w) : str' = [str EXCEPT ![t].backend = "READING"]
          /\ UNCHANGED <<conn, wpc, socks, active>>
    /\ UNCHANGED <<bye, job, idle, subs>>

\* Mutant: the end of the connection is noticed and not acted on.
EndTurn_deaf(w) ==
    /\ wpc[w] = "progress"
    /\ rset[w] = {}
    /\ str' = [s \in Streams |-> IF s \in Mine(w) THEN Submitted(str[s]) ELSE str[s]]
    /\ wpc' = [wpc EXCEPT ![w] = "top"]
    /\ CountSubmits(w)
    /\ UNCHANGED <<conn, socks, active, bye, job, rset, idle, used>>

\* The end of a turn: submit and send once more, then leave the loop if the
\* connection has ended.
EndTurn(w) ==
    /\ wpc[w] = "progress"
    /\ rset[w] = {}
    /\ CountSubmits(w)
    /\ IF bye[w] THEN Finish(w)
       ELSE \E sent \in SUBSET Sendable(w) :
              /\ str' = [s \in Streams |->
                           CASE s \in sent -> Removed(str[s])
                             [] s \in Mine(w) \ sent -> Submitted(str[s])
                             [] OTHER -> str[s]]
              /\ socks' = socks \ Closing(sent)
              /\ active' = [active EXCEPT ![w] = Lowered(@, Cardinality(Closing(sent)))]
              /\ wpc' = [wpc EXCEPT ![w] = "top"]
              /\ UNCHANGED conn
    /\ UNCHANGED <<bye, job, rset, idle, used>>
----------------------------------------------------------------------------
WorkerStep(w) ==
    \/ Accept(w)
    \/ \E s \in Streams : ServeBegins(w, s)
    \/ ServeWrites(w) \/ ServeEnds(w)
    \/ Top(w) \/ SendBreaks(w) \/ PollReturns(w) \/ PollTimesOut(w)
    \/ \E s \in Streams : RecvHeaders(w, s) \/ RecvReset(w, s)
    \/ RecvEnds(w)
    \/ \E s \in Streams : Progress(w, s) \/ ProgressFreed(w, s)
    \/ EndTurn(w)

ClientStep ==
    \/ \E w \in Workers : ClientConnects(w) \/ ClientCloses(w)
    \/ \E s \in Streams : ClientRequests(s) \/ ClientResets(s)

Next ==
    \/ \E w \in Workers : WorkerStep(w)
    \/ ClientStep

Spec == Init /\ [][Next]_vars

\* Every worker process is scheduled; nothing is asked of the clients.
FairSpec == Spec /\ \A w \in Workers : WF_vars(WorkerStep(w))

\* The clock advances as well: an attempt that stays without an answer is late in
\* the end.  Nothing is asked of the kernel's choice of a worker.
RetrySpec == FairSpec /\ \A s \in Streams : SF_vars(Retry(s))
----------------------------------------------------------------------------
(* Properties. *)

StreamRecord ==
    [st : {"none", "sent", "open", "freed"}, kind : {"get", "post", "body"},
     fault : {"none", "sent", "queued"},
     backend : {"NONE", "CONNECTING", "READING", "DONE", "FAILED"},
     attempts : 0..MaxAttempts, fd : 0..MaxAttempts, target : Workers \cup {Nobody},
     ans : {"none", "part", "whole", "short", "torn"},
     raw : {"none", "part", "whole", "short", "torn"},
     submitted : BOOLEAN, resp : {"none", "ok", "short", "502", "405"}]

\* Type correctness of connections, streams and loopback attempts.
TypeOK ==
    /\ conn \in [Workers -> {"none", "backlog", "open", "ended"}]
    /\ bye \in [Workers -> BOOLEAN]
    /\ wpc \in [Workers -> {"idle", "serving", "top", "poll", "read", "progress", "crashed"}]
    /\ job \in [Workers -> (Streams \X (0..MaxAttempts)) \cup {NoJob}]
    /\ str \in [Streams -> StreamRecord]
    /\ socks \subseteq Streams \X (1..MaxAttempts)
    /\ active \in [Workers -> 0..Cardinality(Streams)]
    /\ rset \in [Workers -> SUBSET Streams]
    /\ idle \in [Workers -> 0..IdleTurns]
    /\ used \subseteq Workers
    /\ subs \in [Streams -> Nat]

\* A stream holds a descriptor exactly while its loopback request is in progress,
\* and every open descriptor is held; active_backend_streams never counts more
\* than are held.  In a worker whose loop has not used a freed stream the held
\* descriptors are all open and counted: retries, resets, failures and the end of
\* the connection neither leak a descriptor nor close one twice
\* (close_backend_stream, remove_stream, retry_delayed_loopback).
DescriptorsOwned ==
    /\ \A s \in Streams : str[s].fd # NoFd <=> str[s].st = "open" /\ InProgress(str[s])
    /\ socks \subseteq UNION {Closing(Mine(w)) : w \in Workers}
    /\ \A w \in Workers : active[w] <= Cardinality(Closing(Mine(w)))
    /\ \A w \in Workers \ used :
         Closing(Mine(w)) \subseteq socks /\ active[w] = Cardinality(Closing(Mine(w)))

\* poll_streams still points at live streams when their events are handled, after
\* the POLLOUT send and the reads that come between (http2.c:1013-1046), unless
\* the client has reset the stream or broken a rule on it; so only a worker with
\* such a client ever uses a freed stream.
PolledStreamsLive ==
    /\ \A w \in Workers : wpc[w] \in {"read", "progress"} =>
         \A s \in rset[w] : str[s].st = "open" \/ str[s].fault # "none"
    /\ \A w \in used : \E s \in Streams : ConnOf[s] = w /\ str[s].fault # "none"

\* A stream is answered once, and only when no attempt is left running for it:
\* a late answer of an earlier attempt cannot become a second response.
AnsweredOnce ==
    \A s \in Streams :
        /\ subs[s] <= 1
        /\ str[s].submitted => str[s].fd = NoFd /\ subs[s] = 1

\* A response with a success status is built from the bytes of one attempt,
\* and it is whole unless that attempt's answer ended early without chunks; in a
\* worker whose loop has not used a freed stream.
AnswerIsWhole ==
    \A s \in Streams :
        str[s].resp = "ok" /\ ConnOf[s] \notin used => str[s].ans = "whole"

\* When the client of a connection has gone its worker gets its thread back.
ClientGoneFreesWorker ==
    \A w \in Workers : bye[w] ~> conn[w] = "ended"

\* A connection without streams is given up after H2_IDLE_TIMEOUT_MS.
IdleConnectionEnds ==
    \A w \in Workers :
        (conn[w] = "open" /\ Mine(w) = {}) ~>
            (conn[w] = "ended" \/ \E s \in Streams : ConnOf[s] = w /\ str[s].st # "none")

\* A GET that a worker has read is answered, or its stream or connection ends.
RequestsAnswered ==
    \A s \in Streams :
        (str[s].st = "open" /\ str[s].kind = "get") ~>
            (str[s].submitted \/ str[s].st = "freed" \/ bye[ConnOf[s]])
=============================================================================
