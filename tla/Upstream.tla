------------------------------ MODULE Upstream ------------------------------
(***************************************************************************)
(* One request relayed to an upstream: send_php_fpm, which turns FastCGI   *)
(* records into an HTTP response, and serve_proxy, which passes an HTTP    *)
(* response through (src/src/server.c).  The worker thread stays in these  *)
(* functions until they return.                                            *)
(*                                                                         *)
(* Bytes are units: "n" is a CRLF, so that the blank line that ends a      *)
(* header is two of them in a row and may be cut anywhere; "h" is a piece  *)
(* of a header line; the units of BodyUnits are told apart.                *)
(***************************************************************************)
EXTENDS Integers, Sequences, FiniteSets, SequencesExt

CONSTANTS
    Relays,      \* which functions: a subset of {"php", "proxy"}
    Heads,       \* what an upstream may send before the body
    BodyUnits,   \* the longest body, as a sequence of distinct units
    HeldMax,     \* sizeof(header_buffer), or sizeof(first_response)
    ReadMax,     \* the largest record, or sizeof(buf) of serve_proxy
    Misannounce  \* whether an upstream may announce a wrong Content-Length

ASSUME UpstreamAssumption ==
    /\ Relays \subseteq {"php", "proxy"}
    /\ Heads \subseteq Seq({"h", "n"})
    /\ \A h \in Heads : \A i \in 1..(Len(h) - 2) : h[i] # "n" \/ h[i + 1] # "n"   \* ends at a blank line
    /\ BodyUnits \in Seq(STRING) /\ \A i \in DOMAIN BodyUnits : BodyUnits[i] \notin {"h", "n"}
    /\ HeldMax \in Nat \ {0}
    /\ ReadMax \in Nat \ {0}
    /\ Misannounce \in BOOLEAN

Bodies == {SubSeq(BodyUnits, 1, k) : k \in 0..Len(BodyUnits)}

Drop(s, k) == SubSeq(s, k + 1, Len(s))

\* Where "\r\n\r\n" and "\r\n" are found in a buffer by memmem.
BlankLines(b) == {i \in 1..(Len(b) - 1) : b[i] = "n" /\ b[i + 1] = "n"}
LineEnds(b)   == {i \in 1..Len(b) : b[i] = "n"}

\* What a status line tells apart: "204" is any status whose responses have no
\* body (1xx, 204, 304), from a script's Status: line; "bad" is no status line.
Statuses(r) == IF r = "php" THEN {"200", "204"} ELSE {"200", "101", "bad"}

VARIABLES
    relay,    \* the function that runs
    req,      \* head_only, upgrade_websocket (with proxy_websocket), and unix:
              \* php_handler_type is "socket"
    resp,     \* what this upstream means to send
    todo,     \* units it has still to send
    pc,       \* "connect", "relay", "tunnel", "done"
    sock,     \* the upstream socket: "none", "open", "closed"
    held,     \* header_buffer or first_response
    started,  \* response_started, or the negation of first
    chunked,  \* chunked_response
    out,      \* history: what was written to the client
    rc,       \* what the function returned
    client,   \* "reads", "stalls" (does not read, and writes block) or "gone"
    silent,   \* the upstream has stopped: it sends nothing and keeps its
              \* connection, or accepts none (its backlog is full)
    late      \* history: the upstream failed after the response had begun

vars == <<relay, req, resp, todo, pc, sock, held, started, chunked, out, rc,
          client, silent, late>>

Init ==
    /\ relay \in Relays
    /\ req \in [head_only : BOOLEAN,
               upgrade   : IF relay = "proxy" THEN BOOLEAN ELSE {FALSE},
               unix      : IF relay = "php" THEN BOOLEAN ELSE {FALSE}]
    /\ \E h \in Heads, b \in Bodies, s \in Statuses(relay) :
         /\ \E n \in {-1, Len(b)} \cup (IF Misannounce THEN {Len(b) + 1} ELSE {}) :
              resp = [head |-> h, body |-> b, status |-> s, len |-> n]
         /\ todo = h \o b
    /\ pc = "connect"
    /\ sock = "none"
    /\ held = <<>>
    /\ started = FALSE
    /\ chunked = FALSE
    /\ out = <<>>
    /\ rc = "none"
    /\ client = "reads"
    /\ silent = FALSE
    /\ late = FALSE

Item(kind, len, units) == [kind |-> kind, len |-> len, units |-> units]

\* The function returns r; its socket, if it has one, is closed first.
Return(r) ==
    /\ pc' = "done"
    /\ rc' = r
    /\ sock' = IF sock = "none" THEN "none" ELSE "closed"

\* send_error_page: a whole response of its own, with its Content-Length, and
\* the return value of writing it.
ErrorPage ==
    /\ client # "stalls"
    /\ out' = IF client = "reads" THEN Append(out, Item("page", 0, <<>>)) ELSE out
    /\ Return(IF client = "reads" THEN "0" ELSE "-1")

\* The writes `items` to the client all succeed, or the client is gone and the
\* function returns -1.  handle_client_event has made the descriptor blocking: a
\* write to a client that stalls lasts until it reads or goes.  (Where TLS sets
\* a limit, SO_SNDTIMEO, the client is gone when the limit is reached.)
Written(items) == (client = "reads" \/ items = <<>>) /\ out' = out \o items
NotWritten(items) == client = "gone" /\ items # <<>> /\ Return("-1") /\ UNCHANGED out
----------------------------------------------------------------------------
(* The request. *)

\* connect to a unix socket whose backlog stays full: it blocks, and SO_SNDTIMEO
\* is set only on the connected socket.  Other sockets are connected without
\* blocking, within connect_timeout_sec.
ConnectBlocks == pc = "connect" /\ silent /\ req.unix

\* No connection within the timeout, or none at all.
ConnectFails ==
    /\ pc = "connect"
    /\ ~ConnectBlocks
    /\ ErrorPage
    /\ UNCHANGED <<relay, req, resp, silent, todo, held, started, chunked, client, late>>

\* The request cannot be built (name or parameters too long, body beyond one
\* record, no memory) or not be written.
RequestFails ==
    /\ pc = "connect" /\ ~silent
    /\ client # "stalls"
    /\ out' = IF client = "reads" THEN Append(out, Item("page", 0, <<>>)) ELSE out
    /\ pc' = "done"
    /\ rc' = IF client = "reads" THEN "0" ELSE "-1"
    /\ sock' = "closed"
    /\ UNCHANGED <<relay, req, resp, silent, todo, held, started, chunked, client, late>>

\* Connected and the whole request written.
SendRequest ==
    /\ pc = "connect" /\ ~silent
    /\ pc' = "relay"
    /\ sock' = "open"
    /\ UNCHANGED <<relay, req, resp, silent, todo, held, started, chunked, out, rc, client, late>>

\* The client stops reading, goes on, or leaves.
ClientChanges ==
    /\ pc # "done"
    /\ client # "gone"
    /\ client' \in {"reads", "stalls", "gone"} \ {client}
    /\ UNCHANGED <<relay, req, resp, silent, todo, pc, sock, held, started, chunked, out, rc, late>>

\* The upstream hangs: nothing more comes, not even the end of the stream.
UpstreamHangs ==
    /\ pc \in {"connect", "relay"}
    /\ ~silent
    /\ silent' = TRUE
    /\ UNCHANGED <<relay, req, resp, todo, pc, sock, held, started, chunked, out, rc, client, late>>

\* Mutant: a read that times out is tried again.
ReadFails_retries ==
    /\ pc = "relay"
    /\ ~silent
    /\ late' = started
    /\ ErrorPage
    /\ UNCHANGED <<relay, req, resp, silent, todo, held, started, chunked, client>>

\* A read that fails: the upstream closes within a record, resets or is silent
\* for longer than the read timeout.  The page is sent whatever has been sent
\* before.
ReadFails ==
    /\ pc = "relay"
    /\ late' = started
    /\ ErrorPage
    /\ UNCHANGED <<relay, req, resp, silent, todo, held, started, chunked, client>>

\* The next read or record carries k units.
Arrives(k) == SubSeq(todo, 1, k)
Sizes == IF silent THEN {} ELSE 1..(IF ReadMax < Len(todo) THEN ReadMax ELSE Len(todo))
----------------------------------------------------------------------------
(* send_php_fpm: one action per record. *)

\* Mutant: an empty body is a chunk of length zero.
Framed_empty(units, asChunks) ==
    IF req.head_only THEN <<>>
    ELSE <<Item(IF asChunks THEN "chunk" ELSE "data", Len(units), units)>>

\* A piece of the body as it is written: nothing for HEAD or for an empty one.
Framed(units, asChunks) ==
    IF units = <<>> \/ req.head_only THEN <<>>
    ELSE <<Item(IF asChunks THEN "chunk" ELSE "data", Len(units), units)>>

\* Mutant: only the new record is searched for the blank line.
HeaderEnd_record(b, k) ==
    LET fresh == {i \in BlankLines(b) : i > Len(b) - k}
    IN  IF fresh = {} THEN 0 ELSE CHOOSE i \in fresh : \A j \in fresh : i <= j

\* The index of the first blank line of header_buffer, whose last k units are
\* new; 0 if there is none.
HeaderEnd(b, k) ==
    IF BlankLines(b) = {} THEN 0
    ELSE CHOOSE i \in BlankLines(b) : \A j \in BlankLines(b) : i <= j

\* The record does not fit behind what is held.
Overflows(b, k) == k > HeldMax - Len(b)

\* A record of output while the header is incomplete.
PhpHold(k) ==
    /\ pc = "relay" /\ relay = "php" /\ ~started
    /\ todo' = Drop(todo, k)
    /\ IF Overflows(held, k)
       THEN ErrorPage /\ UNCHANGED held
       ELSE /\ held' = held \o Arrives(k)
            /\ HeaderEnd(held', k) = 0
            /\ UNCHANGED <<out, pc, rc, sock>>
    /\ UNCHANGED <<relay, req, resp, silent, started, chunked, client, late>>

\* The record that completes the header: the head is written, then the part of
\* the body that came with it.  No memory for it: the error page.
PhpStart(k) ==
    /\ pc = "relay" /\ relay = "php" /\ ~started
    /\ ~Overflows(held, k)
    /\ todo' = Drop(todo, k)
    /\ held' = held \o Arrives(k)
    /\ HeaderEnd(held', k) # 0
    /\ \/ /\ ErrorPage
          /\ UNCHANGED <<started, chunked>>
       \/ LET asChunks == resp.len < 0 /\ ~req.head_only
              items == <<Item(IF asChunks THEN "chunkedhead" ELSE "head", resp.len, <<>>)>>
                       \o Framed(Drop(held', HeaderEnd(held', k) + 1), asChunks)
          IN  /\ chunked' = asChunks
              /\ \/ /\ Written(items)
                    /\ started' = TRUE
                    /\ UNCHANGED <<pc, rc, sock>>
                 \/ /\ NotWritten(items)
                    /\ UNCHANGED started
    /\ UNCHANGED <<relay, req, resp, silent, client, late>>

\* The head does not fit its buffer of 16384 bytes: nothing is written.
PhpHeadTooBig(k) ==
    /\ pc = "relay" /\ relay = "php" /\ ~started
    /\ ~Overflows(held, k)
    /\ HeaderEnd(held \o Arrives(k), k) # 0
    /\ todo' = Drop(todo, k)
    /\ held' = held \o Arrives(k)
    /\ Return("-1")
    /\ UNCHANGED <<relay, req, resp, silent, started, chunked, out, client, late>>

PhpStream(k) ==
    /\ pc = "relay" /\ relay = "php" /\ started
    /\ todo' = Drop(todo, k)
    /\ \/ Written(Framed(Arrives(k), chunked)) /\ UNCHANGED <<pc, rc, sock>>
       \/ NotWritten(Framed(Arrives(k), chunked))
    /\ UNCHANGED <<relay, req, resp, silent, held, started, chunked, client, late>>

\* Mutant: the end of the stream is handled as if nothing had been sent.
FinalItems_again == <<Item("head", Len(held), <<>>)>> \o Framed(<<>>, FALSE)

\* What is written when FCGI_END_REQUEST arrives: output without a blank line
\* is a body, and a chunked body is terminated.
FinalItems ==
    IF started THEN (IF chunked /\ ~req.head_only THEN <<Item("last", 0, <<>>)>> ELSE <<>>)
    ELSE <<Item("head", Len(held), <<>>)>> \o Framed(held, FALSE)

PhpEnd ==
    /\ pc = "relay" /\ relay = "php"
    /\ todo = <<>> /\ ~silent
    /\ \/ Written(FinalItems) /\ Return("0")
       \/ NotWritten(FinalItems)
    /\ UNCHANGED <<relay, req, resp, silent, todo, held, started, chunked, client, late>>
----------------------------------------------------------------------------
(* serve_proxy: one action per read. *)

\* Nothing is passed on before the status line is complete; a read that does
\* not fit first_response, and a status line that is none, are refused.
ProxyHold(k) ==
    /\ pc = "relay" /\ relay = "proxy" /\ ~started
    /\ todo' = Drop(todo, k)
    /\ IF Overflows(held, k)
       THEN ErrorPage /\ UNCHANGED held
       ELSE /\ held' = held \o Arrives(k)
            /\ IF LineEnds(held') = {} THEN UNCHANGED <<out, pc, rc, sock>>
               ELSE resp.status = "bad" /\ ErrorPage
    /\ UNCHANGED <<relay, req, resp, silent, started, chunked, client, late>>

\* What is written once the status line is complete: all that was held back.
FirstWrite(k) == held \o Arrives(k)

ProxyStart(k) ==
    /\ pc = "relay" /\ relay = "proxy" /\ ~started
    /\ ~Overflows(held, k)
    /\ todo' = Drop(todo, k)
    /\ held' = held \o Arrives(k)
    /\ LineEnds(held') # {}
    /\ resp.status # "bad"
    /\ LET items == <<Item("raw", 0, FirstWrite(k))>>
       IN  \/ /\ Written(items)
              /\ started' = TRUE
              /\ pc' = IF req.upgrade /\ resp.status = "101" THEN "tunnel" ELSE "relay"
              /\ UNCHANGED <<rc, sock>>
           \/ NotWritten(items) /\ UNCHANGED started
    /\ UNCHANGED <<relay, req, resp, silent, chunked, client, late>>

ProxyStream(k) ==
    /\ pc = "relay" /\ relay = "proxy" /\ started
    /\ todo' = Drop(todo, k)
    /\ LET items == <<Item("raw", 0, Arrives(k))>>
       IN  \/ Written(items) /\ UNCHANGED <<pc, rc, sock>>
           \/ NotWritten(items)
    /\ UNCHANGED <<relay, req, resp, silent, held, started, chunked, client, late>>

\* The upstream closes: before a status line that is an error.
ProxyEof ==
    /\ pc = "relay" /\ relay = "proxy"
    /\ todo = <<>> /\ ~silent
    /\ IF started THEN Return("0") /\ UNCHANGED out ELSE ErrorPage
    /\ UNCHANGED <<relay, req, resp, silent, todo, held, started, chunked, client, late>>

\* websocket_tunnel passes on what one side sends ...
TunnelCopies(k) ==
    /\ pc = "tunnel"
    /\ client = "reads"
    /\ todo' = Drop(todo, k)
    /\ out' = Append(out, Item("raw", 0, Arrives(k)))
    /\ UNCHANGED <<relay, req, resp, silent, pc, sock, held, started, chunked, rc, client, late>>

\* ... until one of them closes or fails.
TunnelCloses ==
    /\ pc = "tunnel"
    /\ todo = <<>> \/ client = "gone"
    /\ Return("0")
    /\ UNCHANGED <<relay, req, resp, silent, todo, held, started, chunked, out, client, late>>
----------------------------------------------------------------------------
RelayStep ==
    \/ ConnectFails \/ RequestFails \/ SendRequest
    \/ ReadFails
    \/ \E k \in Sizes :
         \/ PhpHold(k) \/ PhpStart(k) \/ PhpHeadTooBig(k) \/ PhpStream(k)
         \/ ProxyHold(k) \/ ProxyStart(k) \/ ProxyStream(k)
    \/ PhpEnd \/ ProxyEof

Next ==
    \/ RelayStep
    \/ \E k \in Sizes : TunnelCopies(k)
    \/ TunnelCloses
    \/ ClientChanges \/ UpstreamHangs

Spec == Init /\ [][Next]_vars

\* The thread runs: a read ends with data, end of file, an error or, after
\* SO_RCVTIMEO, a timeout (the read timeouts of the site are not 0, which would
\* mean none).
FairSpec == Spec /\ WF_vars(RelayStep)
----------------------------------------------------------------------------
(* Properties. *)

ItemKinds == {"head", "chunkedhead", "data", "chunk", "last", "raw", "page"}

\* Type correctness of the relay; what is held never outgrows its buffer.
TypeOK ==
    /\ relay \in Relays
    /\ pc \in {"connect", "relay", "tunnel", "done"}
    /\ sock \in {"none", "open", "closed"}
    /\ Len(held) <= HeldMax
    /\ started \in BOOLEAN
    /\ chunked \in BOOLEAN
    /\ \A i \in DOMAIN out : out[i].kind \in ItemKinds
    /\ rc \in {"none", "0", "-1"}
    /\ client \in {"reads", "stalls", "gone"}
    /\ late \in BOOLEAN

\* What the client is meant to receive as payload: the body behind the blank
\* line, or everything where there is none or where it is passed through.
Payload ==
    LET sent == resp.head \o resp.body
    IN  IF relay = "proxy" \/ BlankLines(sent) = {} THEN sent
        ELSE Drop(sent, (CHOOSE i \in BlankLines(sent) :
                           \A j \in BlankLines(sent) : i <= j) + 1)

Delivered == FlattenSeq([i \in DOMAIN out |-> out[i].units])

\* However the upstream cuts its output into records or reads, the client gets
\* the payload in order, with no header bytes in it, nothing twice and nothing
\* left out; all of it if the function returns 0 without an error page.
PayloadRelayed ==
    /\ IsPrefix(Delivered, Payload)
    /\ (/\ rc = "0"
        /\ client # "gone"
        /\ ~(relay = "php" /\ req.head_only)
        /\ \A i \in DOMAIN out : out[i].kind # "page") => Delivered = Payload

Starts == {i \in DOMAIN out : out[i].kind \in {"head", "chunkedhead", "page"}}

\* The client is sent one response: the head first, no second head and no error
\* page behind it, unless the upstream failed when the response had begun.
OneResponse ==
    /\ ~late /\ relay = "php" => Starts \subseteq {1}
    /\ ~late /\ relay = "proxy" /\ Starts # {} => Len(out) = 1

\* The script's status line was found and allows no body.
Bodyless == resp.status = "204" /\ BlankLines(resp.head \o resp.body) # {}

\* A PHP response after which the connection may be kept is framed so that the
\* client finds its end: as many bytes as announced, or chunks of which only
\* the last is empty.  An upstream that fails late or announces another length
\* than it sends is excepted, and so is a status without a body, unless it is
\* announced with a length of 0: the client expects nothing behind such a head,
\* but chunked_response is chosen without a look at the status.
FramedExactly ==
    (/\ relay = "php" /\ rc = "0" /\ client # "gone"
     /\ ~late /\ resp.len \in {-1, Len(resp.body)}
     /\ Bodyless => req.head_only \/ resp.len = 0
     /\ out[1].kind # "page") =>
        IF req.head_only THEN Len(out) = 1
        ELSE IF out[1].kind = "head"
        THEN Len(Delivered) = out[1].len
        ELSE \A i \in 2..Len(out) : (out[i].len = 0 <=> i = Len(out))
                                    /\ out[i].kind = IF i = Len(out) THEN "last" ELSE "chunk"

\* The worker gets its thread back, with the upstream socket closed, even from
\* an upstream that hangs.  Three waits have no limit: a tunnel lasts as long as
\* its two sides, a client that stops reading for good may keep the thread, and
\* so does a connect to a unix socket that accepts no connection.
RelayReturns ==
    <>[](client # "stalls") /\ []~ConnectBlocks
        => <>(pc = "tunnel" \/ (pc = "done" /\ sock # "open"))
=============================================================================
