------------------------------- MODULE Worker -------------------------------
(***************************************************************************)
(* One worker process of rpsiod: the epoll loop of                         *)
(* rpsiod_server_run_worker (src/src/server.c), the connections it         *)
(* accepts, the fixed request buffer of each client_object, HTTP/1.1       *)
(* keep-alive and pipelining, the idle sweep and the orderly stop.         *)
(*                                                                         *)
(* Bytes are abstracted to units.  A request of kind k is HeaderLen[k]     *)
(* header units followed by BodyLen[k] body units, and a unit knows which  *)
(* request of its connection it belongs to and its place in it.  The       *)
(* unit number HeaderLen[k] holds the blank line that ends the header.     *)
(***************************************************************************)
EXTENDS Integers, Sequences, FiniteSets, FiniteSetsExt

CONSTANTS
    Conns,             \* connections the clients may open
    Listeners,         \* listening sockets of the worker
    TlsListeners,      \* those whose listener_object has tls set
    Kinds,             \* request shapes the clients may send
    HeaderLen,         \* header units of each kind, the blank line included
    BodyLen,           \* its Content-Length
    KeepAlive,         \* kinds parsed with req.keep_alive = true
    Malformed,         \* kinds the parser refuses (-1)
    Proxied,           \* kinds routed to a site with routing type "proxy"
    Upgrades,          \* proxied kinds that become a websocket tunnel
    OverSiteLimit,     \* kinds whose Content-Length exceeds max_body_size
    BufSize,           \* RPSIOD_CLIENT_BUFFER
    RecordMax,         \* the largest TLS record
    MaxEvents,         \* RPSIOD_MAX_EVENTS
    KeepAliveEnabled,  \* keep_alive_enabled
    KeepAliveMax,      \* keep_alive_max_requests
    KeepAliveTimeout,  \* keep_alive_timeout_sec
    MaxReqs            \* bound: requests a client sends on one connection

ASSUME ConstantsAssumption ==
    /\ IsFiniteSet(Conns)
    /\ TlsListeners \subseteq Listeners
    /\ HeaderLen \in [Kinds -> Nat \ {0}]
    /\ BodyLen \in [Kinds -> Nat]
    /\ Upgrades \subseteq Proxied
    /\ BufSize \in Nat \ {0}
    /\ RecordMax \in Nat \ {0}
    /\ MaxEvents \in Nat \ {0}
    /\ KeepAliveEnabled \in BOOLEAN
    /\ KeepAliveMax \in Nat
    /\ KeepAliveTimeout \in Nat \ {0}
    /\ MaxReqs \in Nat

Unit == [n : Nat \ {0}, kind : Kinds, pos : Nat \ {0}]

Size(k) == HeaderLen[k] + BodyLen[k]

\* A client_object: its buffer, the bytes its SSL object has decrypted and not
\* delivered, whether the descriptor blocks, keep_alive_requests, idle_keep_alive
\* and the seconds since last_active_mono.
ClientObject == [buf : Seq(Unit), pending : Seq(Unit), blocking : BOOLEAN,
                 kaReqs : Nat, idle : BOOLEAN, age : 0..KeepAliveTimeout]

\* The value of `cur` while the loop handles no object.
Nobody == "nobody"

VARIABLES
    st,        \* "none", "backlog", "open" (a client_object exists), "closed"
    via,       \* the listener a connection came through
    net,       \* units in the kernel's receive queue of the socket
    fin,       \* the peer has shut down or reset the connection
    sent,      \* requests the client has begun to write
    todo,      \* units of the last of them it has still to write
    cl,        \* the client_object of each connection
    replies,   \* history: the responses started on each connection
    pc,        \* where the worker thread is
    cur,       \* the connection or listener it is handling
    lev,       \* listeners of the current epoll batch not yet handled
    cev,       \* client events of the batch not yet handled
    polled,    \* connections registered with epoll
    clients,   \* the linked list at clients_head
    perf,      \* rpsiod_perf: accepted, active and closed connections
    stop       \* rpsiod_stop_requested

vars   == <<st, via, net, fin, sent, todo, cl, replies, pc, cur, lev, cev,
            polled, clients, perf, stop>>

\* calloc(1, sizeof(*client)) followed by mark_request_start.
FreshClient == [buf |-> <<>>, pending |-> <<>>, blocking |-> FALSE,
                kaReqs |-> 0, idle |-> FALSE, age |-> 0]

Init ==
    /\ st = [c \in Conns |-> "none"]
    /\ via \in [Conns -> Listeners]
    /\ net = [c \in Conns |-> <<>>]
    /\ fin = [c \in Conns |-> FALSE]
    /\ sent = [c \in Conns |-> 0]
    /\ todo = [c \in Conns |-> <<>>]
    /\ cl = [c \in Conns |-> FreshClient]
    /\ replies = [c \in Conns |-> <<>>]
    /\ pc = "top"
    /\ cur = Nobody
    /\ lev = {}
    /\ cev = {}
    /\ polled = {}
    /\ clients = {}
    /\ perf = [accepted |-> 0, active |-> 0, closed |-> 0]
    /\ stop = FALSE

----------------------------------------------------------------------------
(* The clients. *)

\* A client connects: the connection waits in a listener's backlog.
Connect(c) ==
    /\ st[c] = "none"
    /\ pc # "exited"
    /\ st' = [st EXCEPT ![c] = "backlog"]
    /\ UNCHANGED <<via, net, fin, sent, todo, cl, replies, pc, cur, lev, cev,
                   polled, clients, perf, stop>>

\* The client starts its next request, pipelined behind any it has not seen
\* answered.  It writes the units one at a time, so the worker may read after
\* any of them.
BeginRequest(c, k) ==
    /\ st[c] \in {"backlog", "open"}
    /\ ~fin[c]
    /\ todo[c] = <<>>
    /\ sent[c] < MaxReqs
    /\ sent' = [sent EXCEPT ![c] = @ + 1]
    /\ todo' = [todo EXCEPT ![c] =
                   [i \in 1..Size(k) |-> [n |-> sent[c] + 1, kind |-> k, pos |-> i]]]
    /\ UNCHANGED <<st, via, net, fin, cl, replies, pc, cur, lev, cev,
                   polled, clients, perf, stop>>

SendUnit(c) ==
    /\ st[c] \in {"backlog", "open"}
    /\ ~fin[c]
    /\ todo[c] # <<>>
    /\ net' = [net EXCEPT ![c] = Append(@, Head(todo[c]))]
    /\ todo' = [todo EXCEPT ![c] = Tail(@)]
    /\ UNCHANGED <<st, via, fin, sent, cl, replies, pc, cur, lev, cev,
                   polled, clients, perf, stop>>

\* The peer shuts down its side, closes or resets: epoll reports EPOLLRDHUP.
Hangup(c) ==
    /\ st[c] \in {"backlog", "open"}
    /\ ~fin[c]
    /\ fin' = [fin EXCEPT ![c] = TRUE]
    /\ UNCHANGED <<st, via, net, sent, todo, cl, replies, pc, cur, lev, cev,
                   polled, clients, perf, stop>>

\* rpsiod_signal_stop: SIGTERM or SIGINT reaches the worker.
SignalStop ==
    /\ ~stop
    /\ pc # "exited"
    /\ stop' = TRUE
    /\ UNCHANGED <<st, via, net, fin, sent, todo, cl, replies, pc, cur, lev, cev,
                   polled, clients, perf>>

\* CLOCK_MONOTONIC advances past the next second: age is the time since
\* last_active_mono, capped at the timeout it is compared with.
Tick ==
    /\ \E c \in Conns : st[c] = "open" /\ cl[c].age < KeepAliveTimeout
    /\ cl' = [c \in Conns |->
                IF st[c] = "open" /\ cl[c].age < KeepAliveTimeout
                THEN [cl[c] EXCEPT !.age = @ + 1] ELSE cl[c]]
    /\ UNCHANGED <<st, via, net, fin, sent, todo, replies, pc, cur, lev, cev,
                   polled, clients, perf, stop>>
----------------------------------------------------------------------------
(* Connections as the worker sees them. *)

\* The connections of S stop existing: the struct is freed, the socket closed
\* and the two counters moved.  `active` is guarded against underflow.
FreeClients(S) ==
    /\ st' = [c \in Conns |-> IF c \in S THEN "closed" ELSE st[c]]
    /\ net' = [c \in Conns |-> IF c \in S THEN <<>> ELSE net[c]]
    /\ todo' = [c \in Conns |-> IF c \in S THEN <<>> ELSE todo[c]]
    /\ cl' = [c \in Conns |-> IF c \in S THEN FreshClient ELSE cl[c]]

Uncounted(p, k) ==
    [accepted |-> p.accepted,
     active   |-> IF p.active > k THEN p.active - k ELSE 0,
     closed   |-> p.closed + k]

\* close_client on each member of S: EPOLL_CTL_DEL, unlink from the list, free.
close_client(S) ==
    /\ FreeClients(S)
    /\ polled' = polled \ S
    /\ clients' = clients \ S
    /\ perf' = Uncounted(perf, Cardinality(S))

\* Index of the unit with the blank line, if the buffer holds one.
HeaderEnds(b) == {i \in 1..Len(b) : b[i].pos = HeaderLen[b[i].kind]}

\* rpsiod_http_parse_request: 0 until a blank line is in the buffer, -1 for a
\* request it refuses, 1 otherwise.  Bytes of a body taken for the start of a
\* request are a request of their own: that is what a lost boundary would do.
rpsiod_http_parse_request(b) ==
    IF b # <<>> /\ b[1].pos > HeaderLen[b[1].kind]
    THEN [rc |-> 1, kind |-> b[1].kind, header_len |-> 1, content_length |-> 0]
    ELSE IF HeaderEnds(b) = {}
    THEN [rc |-> 0, kind |-> Nobody, header_len |-> 0, content_length |-> 0]
    ELSE LET h == Min(HeaderEnds(b))
             k == b[h].kind
         IN  [rc |-> IF k \in Malformed THEN -1 ELSE 1, kind |-> k,
              header_len |-> h, content_length |-> BodyLen[k]]

\* The body units behind the header of a parsed request.
BodyHave(b, req) == Len(b) - req.header_len

buffered_request_ready(b) ==
    LET req == rpsiod_http_parse_request(b)
    IN  \/ req.rc = -1
        \/ req.rc = 1 /\ BodyHave(b, req) >= req.content_length

Smaller(a, b) == IF a < b THEN a ELSE b

Drop(s, k) == SubSeq(s, k + 1, Len(s))

\* client_read with n > 0.  A plain read takes all that is there and fits; an
\* SSL_read takes one record from the kernel when nothing decrypted is left
\* over, and keeps what does not fit in the SSL object.
ReadInto(c, space) ==
    LET Take(from, rest) ==
            LET n == Smaller(Len(from), space)
            IN  [buf |-> cl[c].buf \o SubSeq(from, 1, n), pending |-> Drop(from, n),
                 net |-> rest]
    IN  IF via[c] \notin TlsListeners
        THEN LET n == Smaller(Len(net[c]), space)
             IN  IF n = 0 THEN {}
                 ELSE {[buf |-> cl[c].buf \o SubSeq(net[c], 1, n), pending |-> <<>>,
                        net |-> Drop(net[c], n)]}
        ELSE IF cl[c].pending # <<>>
        THEN {Take(cl[c].pending, net[c])}
        ELSE {Take(SubSeq(net[c], 1, m), Drop(net[c], m)) :
                m \in 1..Smaller(RecordMax, Len(net[c]))}

\* Mutant: the room left in the buffer is one too large.
client_read_overrun(c) == ReadInto(c, BufSize - Len(cl[c].buf) + 1)

client_read(c) == ReadInto(c, BufSize - Len(cl[c].buf))

\* What the top of handle_client_event's loop leaves in the buffer: nothing is
\* read while a complete request is already there.
Fetched(c) ==
    IF buffered_request_ready(cl[c].buf)
    THEN {[buf |-> cl[c].buf, pending |-> cl[c].pending, net |-> net[c]]}
    ELSE client_read(c)
----------------------------------------------------------------------------
(* The loop of rpsiod_server_run_worker. *)

ReadyListeners == {l \in Listeners : \E c \in Conns : st[c] = "backlog" /\ via[c] = l}
ReadyClients   == {c \in polled : net[c] # <<>> \/ fin[c]}

\* epoll_wait: at most MaxEvents of the ready objects, none after a timeout.
\* The event mask of a client is read here and used when the batch gets to it.
\* EINTR only leads back to the test of rpsiod_stop_requested.
EpollWait ==
    /\ pc = "top"
    /\ ~stop
    /\ \E L \in SUBSET ReadyListeners, S \in SUBSET ReadyClients :
         /\ Cardinality(L) + Cardinality(S) =
              Smaller(MaxEvents, Cardinality(ReadyListeners) + Cardinality(ReadyClients))
         /\ lev' = L
         /\ cev' = {[conn |-> c, hup |-> fin[c]] : c \in S}
    /\ pc' = "batch"
    /\ UNCHANGED <<st, via, net, fin, sent, todo, cl, replies, cur,
                   polled, clients, perf, stop>>

StartAccept(l) ==
    /\ pc = "batch"
    /\ l \in lev
    /\ lev' = lev \ {l}
    /\ pc' = "accept"
    /\ cur' = l
    /\ UNCHANGED <<st, via, net, fin, sent, todo, cl, replies, cev,
                   polled, clients, perf, stop>>

StartClient(e) ==
    /\ pc = "batch"
    /\ e \in cev
    /\ ~e.hup
    /\ cev' = cev \ {e}
    /\ pc' = "client"
    /\ cur' = e.conn
    /\ UNCHANGED <<st, via, net, fin, sent, todo, cl, replies, lev,
                   polled, clients, perf, stop>>

\* EPOLLHUP, EPOLLERR or EPOLLRDHUP: closed without reading what was received.
HangupEvent(e) ==
    /\ pc = "batch"
    /\ e \in cev
    /\ e.hup
    /\ cev' = cev \ {e}
    /\ close_client({e.conn})
    /\ UNCHANGED <<via, fin, sent, replies, pc, cur, lev, stop>>

\* Mutant: the loop forgets to sweep.
EndBatch_unswept ==
    /\ pc = "batch"
    /\ lev = {}
    /\ cev = {}
    /\ pc' = "top"
    /\ UNCHANGED <<st, via, net, fin, sent, todo, cl, replies, cur, lev, cev,
                   polled, clients, perf, stop>>

EndBatch ==
    /\ pc = "batch"
    /\ lev = {}
    /\ cev = {}
    /\ pc' = "sweep"
    /\ UNCHANGED <<st, via, net, fin, sent, todo, cl, replies, cur, lev, cev,
                   polled, clients, perf, stop>>

\* The clients sweep_idle_keep_alive_clients closes.
Sweepable ==
    {c \in clients : /\ KeepAliveEnabled
                     /\ cl[c].idle
                     /\ cl[c].buf = <<>>
                     /\ cl[c].age >= KeepAliveTimeout}

\* Mutant: the sweep runs between two events of a batch.
sweep_inside_batch ==
    /\ pc \in {"batch", "sweep"}
    /\ pc' = IF pc = "sweep" THEN "top" ELSE pc
    /\ close_client(Sweepable)
    /\ UNCHANGED <<via, fin, sent, replies, cur, lev, cev, stop>>

sweep_idle_keep_alive_clients ==
    /\ pc = "sweep"
    /\ pc' = "top"
    /\ close_client(Sweepable)
    /\ UNCHANGED <<via, fin, sent, replies, cur, lev, cev, stop>>

\* Mutant: the worker waits for its clients to leave.
StopWorker_lingers ==
    /\ pc = "top"
    /\ stop
    /\ clients = {}
    /\ pc' = "exited"
    /\ FreeClients({c \in Conns : st[c] = "backlog"})
    /\ UNCHANGED <<via, fin, sent, replies, cur, lev, cev, stop, polled, clients, perf>>

\* After the loop every client is closed, then the listeners and with them the
\* connections still in their backlogs.
CloseAll ==
    /\ pc' = "exited"
    /\ FreeClients(clients \cup {c \in Conns : st[c] = "backlog"})
    /\ polled' = polled \ clients
    /\ clients' = {}
    /\ perf' = Uncounted(perf, Cardinality(clients))
    /\ UNCHANGED <<via, fin, sent, replies, cur, lev, cev, stop>>

StopWorker == pc = "top" /\ stop /\ CloseAll

\* epoll_wait fails with another error than EINTR and the loop is left.
EpollFails == pc = "top" /\ ~stop /\ CloseAll
----------------------------------------------------------------------------
(* accept_clients: one action per turn of its loop. *)

Waiting(l) == {c \in Conns : st[c] = "backlog" /\ via[c] = l}

Counted(p) ==
    [accepted |-> p.accepted + 1, active |-> p.active + 1, closed |-> p.closed]

\* accept4 says EAGAIN, or fails for want of descriptors, or calloc fails: the
\* last closes the socket without ever counting it.
AcceptReturns ==
    /\ pc = "accept"
    /\ pc' = "batch"
    /\ cur' = Nobody
    /\ \/ UNCHANGED <<st, net, todo>>
       \/ \E c \in Waiting(cur) :
            /\ st' = [st EXCEPT ![c] = "closed"]
            /\ net' = [net EXCEPT ![c] = <<>>]
            /\ todo' = [todo EXCEPT ![c] = <<>>]
    /\ UNCHANGED <<via, fin, sent, cl, replies, lev, cev, polled, clients, perf, stop>>

\* The accepted client enters epoll and the list.
AcceptClient(c) ==
    /\ pc = "accept"
    /\ c \in Waiting(cur)
    /\ st' = [st EXCEPT ![c] = "open"]
    /\ perf' = Counted(perf)
    /\ polled' = polled \cup {c}
    /\ clients' = clients \cup {c}
    /\ UNCHANGED <<via, net, fin, sent, todo, cl, replies, pc, cur, lev, cev, stop>>

\* Mutant: a failed handshake closes the socket and forgets the counters.
AcceptDiscards_leaks(c) ==
    /\ pc = "accept"
    /\ c \in Waiting(cur)
    /\ FreeClients({c})
    /\ perf' = Counted(perf)
    /\ UNCHANGED <<via, fin, sent, replies, pc, cur, lev, cev, polled, clients, stop>>

\* SSL_new, the TLS handshake or EPOLL_CTL_ADD fails: discard_accepted_client.
AcceptDiscards(c) ==
    /\ pc = "accept"
    /\ c \in Waiting(cur)
    /\ FreeClients({c})
    /\ perf' = Uncounted(Counted(perf), 1)
    /\ UNCHANGED <<via, fin, sent, replies, pc, cur, lev, cev, polled, clients, stop>>

\* ALPN selected h2: the connection is served to its end inside the loop.
AcceptHttp2(c) ==
    /\ pc = "accept"
    /\ c \in Waiting(cur)
    /\ cur \in TlsListeners
    /\ st' = [st EXCEPT ![c] = "open"]
    /\ perf' = Counted(perf)
    /\ pc' = "h2"
    /\ cur' = c
    /\ UNCHANGED <<via, net, fin, sent, todo, cl, replies, lev, cev,
                   polled, clients, stop>>

\* rpsiod_http2_serve_connection returns and the client is discarded.
Http2Returns ==
    /\ pc = "h2"
    /\ pc' = "accept"
    /\ cur' = via[cur]
    /\ FreeClients({cur})
    /\ perf' = Uncounted(perf, 1)
    /\ UNCHANGED <<via, fin, sent, replies, lev, cev, polled, clients, stop>>
----------------------------------------------------------------------------
(* handle_client_event: one action per turn of its loop. *)

\* A response is started for the request at the front of buffer b.  keepAlive
\* is what its Connection header tells the client.
Reply(c, b, status, keepAlive) ==
    replies' = [replies EXCEPT ![c] =
        Append(@, [n |-> b[1].n, pos |-> b[1].pos, kind |-> b[1].kind,
                   status |-> status, keepAlive |-> keepAlive])]

\* The handler answers once more and closes the connection.
ReplyAndClose(c, b, status, keepAlive) ==
    /\ Reply(c, b, status, keepAlive)
    /\ close_client({c})
    /\ pc' = "batch"
    /\ cur' = Nobody
    /\ UNCHANGED <<via, fin, sent, lev, cev, stop>>

Handling(c) == pc = "client" /\ cur = c

\* EAGAIN: back to the batch.  On a descriptor left in blocking mode the read
\* would not return and the whole worker would hang in it.
ReadWouldBlock(c) ==
    /\ Handling(c)
    /\ Fetched(c) = {}
    /\ ~fin[c]
    /\ ~cl[c].blocking
    /\ pc' = "batch"
    /\ cur' = Nobody
    /\ UNCHANGED <<st, via, net, fin, sent, todo, cl, replies, lev, cev,
                   polled, clients, perf, stop>>

\* End of file or an error; a reset also discards what was still unread.
ReadFails(c) ==
    /\ Handling(c)
    /\ ~buffered_request_ready(cl[c].buf)
    /\ fin[c]
    /\ close_client({c})
    /\ pc' = "batch"
    /\ cur' = Nobody
    /\ UNCHANGED <<via, fin, sent, replies, lev, cev, stop>>

\* Mutant: one byte kept back for a terminator.
BufferFull_early(c) ==
    /\ Handling(c)
    /\ ~buffered_request_ready(cl[c].buf)
    /\ \E f \in client_read(c) :
         /\ Len(f.buf) >= BufSize - 1
         /\ ReplyAndClose(c, f.buf, "400", FALSE)

\* used == sizeof(buf) after a read: refused whatever the buffer holds.
BufferFull(c) ==
    /\ Handling(c)
    /\ ~buffered_request_ready(cl[c].buf)
    /\ \E f \in client_read(c) :
         /\ Len(f.buf) = BufSize
         /\ ReplyAndClose(c, f.buf, "400", FALSE)

\* The turns of the loop that reach the parser.
Parsing(c) ==
    {f \in Fetched(c) : buffered_request_ready(cl[c].buf) \/ Len(f.buf) # BufSize}

\* The buffer cannot hold the request: its body is incomplete and too long, or
\* longer than the site allows.
Refused(b, req) ==
    /\ req.rc = 1
    /\ \/ req.kind \in OverSiteLimit
       \/ /\ BodyHave(b, req) < req.content_length
          /\ req.content_length > BufSize - req.header_len

\* A client_object once a read has added to its buffer.
Filled(r, f) ==
    [buf |-> f.buf, pending |-> f.pending, blocking |-> r.blocking,
     kaReqs |-> r.kaReqs, idle |-> r.idle, age |-> r.age]

\* Neither a whole request nor a reason to refuse one: read again.
ReadMore(c) ==
    /\ Handling(c)
    /\ \E f \in Parsing(c) :
         LET req == rpsiod_http_parse_request(f.buf) IN
         /\ ~buffered_request_ready(f.buf)
         /\ ~Refused(f.buf, req)
         /\ cl' = [cl EXCEPT ![c] = Filled(@, f)]
         /\ net' = [net EXCEPT ![c] = f.net]
    /\ UNCHANGED <<st, via, fin, sent, todo, replies, pc, cur, lev, cev,
                   polled, clients, perf, stop>>

RefuseTooLarge(c) ==
    /\ Handling(c)
    /\ \E f \in Parsing(c) :
         /\ Refused(f.buf, rpsiod_http_parse_request(f.buf))
         /\ ReplyAndClose(c, f.buf, "413", FALSE)

RejectMalformed(c) ==
    /\ Handling(c)
    /\ \E f \in Parsing(c) :
         /\ rpsiod_http_parse_request(f.buf).rc = -1
         /\ ReplyAndClose(c, f.buf, "400", FALSE)

\* should_keep_alive, which also becomes the Connection header.
ShouldKeepAlive(c, k) ==
    /\ KeepAliveEnabled
    /\ k \in KeepAlive
    /\ cl[c].kaReqs + 1 < KeepAliveMax
    /\ k \notin Proxied

\* A whole request is at the front of the buffer and is passed to serve_request.
Servable(b) ==
    LET req == rpsiod_http_parse_request(b)
    IN  req.rc = 1 /\ ~Refused(b, req) /\ BodyHave(b, req) >= req.content_length

\* Mutant: only the header is consumed.
Consumed_header(b) ==
    LET req == rpsiod_http_parse_request(b) IN Drop(b, req.header_len)

\* What is left of the buffer once a request has been served on it.
Consumed(b) ==
    LET req == rpsiod_http_parse_request(b)
    IN  Drop(b, req.header_len + req.content_length)

\* Mutant: the rest of the buffer is never looked at.
GoesOn_never(rest) == FALSE

\* Mutant: the loop goes on while any byte is left.
GoesOn_any(rest) == rest # <<>>

\* The buffered_request_ready test after a kept request.
GoesOn(rest) == buffered_request_ready(rest)

\* serve_request returns 0 and the connection is kept.  With another request
\* complete in the buffer the loop goes on, the descriptor still blocking as
\* set_blocking left it; otherwise it is made non-blocking and epoll waits on it.
ServeAndKeep(c) ==
    /\ Handling(c)
    /\ \E f \in Parsing(c) :
         LET req  == rpsiod_http_parse_request(f.buf)
             rest == Consumed(f.buf)
             more == GoesOn(rest)
         IN  /\ Servable(f.buf)
             /\ ShouldKeepAlive(c, req.kind)
             /\ Reply(c, f.buf, "served", TRUE)
             /\ cl' = [cl EXCEPT ![c] =
                          [buf |-> rest, pending |-> f.pending, blocking |-> more,
                           kaReqs |-> cl[c].kaReqs + 1, idle |-> TRUE, age |-> 0]]
             /\ net' = [net EXCEPT ![c] = f.net]
             /\ pc' = IF more THEN "client" ELSE "batch"
             /\ cur' = IF more THEN c ELSE Nobody
    /\ UNCHANGED <<st, via, fin, sent, todo, lev, cev, polled, clients, perf, stop>>

\* The response says "close", or serve_request or set_nonblocking fails.
ServeAndClose(c) ==
    /\ Handling(c)
    /\ \E f \in Parsing(c) :
         LET req == rpsiod_http_parse_request(f.buf) IN
         /\ Servable(f.buf)
         /\ req.kind \notin Upgrades
         /\ \E failed \in BOOLEAN :
              /\ failed \/ ~ShouldKeepAlive(c, req.kind)
              /\ ReplyAndClose(c, f.buf, IF failed THEN "aborted" ELSE "served",
                               ShouldKeepAlive(c, req.kind))

\* A websocket upgrade: serve_request stays in websocket_tunnel.
OpenTunnel(c) ==
    /\ Handling(c)
    /\ \E f \in Parsing(c) :
         /\ Servable(f.buf)
         /\ rpsiod_http_parse_request(f.buf).kind \in Upgrades
         /\ Reply(c, f.buf, "served", FALSE)
         /\ cl' = [cl EXCEPT ![c] = [buf |-> f.buf, pending |-> f.pending, blocking |-> TRUE,
                                      kaReqs |-> @.kaReqs, idle |-> FALSE, age |-> 0]]
         /\ net' = [net EXCEPT ![c] = f.net]
    /\ pc' = "tunnel"
    /\ UNCHANGED <<st, via, fin, sent, todo, cur, lev, cev, polled, clients, perf, stop>>

\* One side of the tunnel ends; a proxied connection is never kept.
TunnelEnds ==
    /\ pc = "tunnel"
    /\ close_client({cur})
    /\ pc' = "batch"
    /\ cur' = Nobody
    /\ UNCHANGED <<via, fin, sent, replies, lev, cev, stop>>
----------------------------------------------------------------------------
handle_client_event(c) ==
    \/ ReadWouldBlock(c) \/ ReadFails(c) \/ BufferFull(c) \/ ReadMore(c)
    \/ RefuseTooLarge(c) \/ RejectMalformed(c)
    \/ ServeAndKeep(c) \/ ServeAndClose(c) \/ OpenTunnel(c)

accept_clients ==
    \/ AcceptReturns
    \/ \E c \in Conns : AcceptClient(c) \/ AcceptDiscards(c) \/ AcceptHttp2(c)

\* The steps the worker thread takes by itself.  The end of a tunnel or of an
\* HTTP/2 connection depends on the peer.
WorkerStep ==
    \/ EpollWait
    \/ \E l \in Listeners : StartAccept(l)
    \/ \E e \in cev : StartClient(e) \/ HangupEvent(e)
    \/ EndBatch
    \/ sweep_idle_keep_alive_clients
    \/ StopWorker
    \/ EpollFails
    \/ accept_clients
    \/ \E c \in Conns : handle_client_event(c)

PeerStep ==
    \/ \E c \in Conns :
         \/ Connect(c)
         \/ \E k \in Kinds : BeginRequest(c, k)
         \/ SendUnit(c)
         \/ Hangup(c)
    \/ Http2Returns
    \/ TunnelEnds
    \/ SignalStop

Next == WorkerStep \/ PeerStep \/ Tick

Spec == Init /\ [][Next]_vars

\* The worker thread keeps running and the clock advances.  Nothing is asked of
\* the clients but that they take the replies they are sent: a reply is one step
\* here, and ServeRequest says (RequestEnds) when it comes to an end.
FairSpec == Spec /\ WF_vars(WorkerStep) /\ WF_vars(Tick)
----------------------------------------------------------------------------
(* Properties. *)

OpenConns == {c \in Conns : st[c] = "open"}

\* Type correctness of the worker's state; the buffer never outgrows
\* client_object.buf.
TypeOK ==
    /\ st \in [Conns -> {"none", "backlog", "open", "closed"}]
    /\ via \in [Conns -> Listeners]
    /\ net \in [Conns -> Seq(Unit)]
    /\ fin \in [Conns -> BOOLEAN]
    /\ sent \in [Conns -> 0..MaxReqs]
    /\ todo \in [Conns -> Seq(Unit)]
    /\ cl \in [Conns -> ClientObject]
    /\ \A c \in Conns : Len(cl[c].buf) <= BufSize
    /\ pc \in {"top", "batch", "accept", "client", "h2", "tunnel", "sweep", "exited"}
    /\ cur \in Conns \cup Listeners \cup {Nobody}
    /\ lev \subseteq Listeners
    /\ cev \subseteq [conn : Conns, hup : BOOLEAN]
    /\ polled \subseteq Conns
    /\ clients \subseteq Conns
    /\ perf \in [accepted : Nat, active : Nat, closed : Nat]
    /\ stop \in BOOLEAN

\* No dangling pointer: an event the batch has still to handle, and the object
\* being handled, refer to a client_object that has not been freed, and no two
\* events of a batch refer to the same one (server.c, the event loop).
EventsAreLive ==
    /\ \A e \in cev : st[e.conn] = "open" /\ e.conn \in clients
    /\ \A e, f \in cev : e.conn = f.conn => e = f
    /\ pc \in {"client", "tunnel"} => cur \in clients /\ \A e \in cev : e.conn # cur
    /\ pc = "h2" => cur \in OpenConns \ clients

\* The epoll set, the client list and the counters all describe the same
\* connections: none leaks, none is counted twice (close_client,
\* discard_accepted_client, accept_clients).
ConnectionsAccounted ==
    /\ clients = OpenConns \ (IF pc = "h2" THEN {cur} ELSE {})
    /\ polled = clients
    /\ perf.active = Cardinality(OpenConns)
    /\ perf.accepted = perf.closed + perf.active

Parked(c) == c \in clients /\ ~(pc \in {"client", "tunnel"} /\ cur = c)

\* What epoll cannot see must not matter: a client left to epoll is
\* non-blocking, has no whole request in its buffer and no decrypted bytes in
\* its SSL object, for no event would ever report either.
ParkedNeedsInput ==
    \A c \in Conns : Parked(c) =>
        /\ ~cl[c].blocking
        /\ ~buffered_request_ready(cl[c].buf)
        /\ cl[c].pending = <<>>

\* The single thread never calls client_read on a descriptor that
\* set_blocking has left in blocking mode.
ReadNeverBlocks ==
    pc = "client" /\ ~buffered_request_ready(cl[cur].buf) => ~cl[cur].blocking

\* A well-formed request that the site allows and that is shorter than the
\* buffer is refused only when the client pipelined more behind it.
FittingRequestServed ==
    \A c \in Conns : \A i \in DOMAIN replies[c] :
        LET r == replies[c][i] IN
        (/\ r.status \in {"400", "413"}
         /\ r.kind \notin Malformed \cup OverSiteLimit
         /\ Size(r.kind) < BufSize) => sent[c] > r.n

\* Whether the whole n-th request has reached the worker's host.
Arrived(c, n) ==
    \E s \in {cl[c].buf, cl[c].pending, net[c]} : \E i \in DOMAIN s :
        s[i].n = n /\ s[i].pos = Size(s[i].kind)

\* Whether a whole request is waiting for its answer.
Unanswered(c) == \E n \in 1..MaxReqs : Arrived(c, n) /\ Len(replies[c]) < n

\* The requests that have wholly arrived on an open connection are answered or
\* the connection is closed: no event is forgotten, no pipelined request is
\* left behind and no client is starved (handle_client_event, the epoll loop).
RequestsAreAnswered ==
    \A c \in Conns :
        (st[c] = "open" /\ Unanswered(c)) ~> (st[c] = "closed" \/ ~Unanswered(c))

\* A kept connection that stays silent is closed by the idle sweep.
IdleIsSwept ==
    \A c \in Conns :
        (KeepAliveEnabled /\ c \in clients /\ cl[c].idle) ~>
            (st[c] = "closed" \/ cl[c].buf # <<>> \/ net[c] # <<>>)

\* A stop request ends the loop: the worker exits with no connection left open.
StopEndsWorker == stop ~> (pc = "exited" /\ OpenConns = {})
=============================================================================
