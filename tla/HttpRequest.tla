---------------------------- MODULE HttpRequest -----------------------------
(***************************************************************************)
(* rpsiod_http_parse_request (src/src/http.c): a request header, complete  *)
(* in the buffer, read line by line into an rpsiod_http_request.  Text is  *)
(* abstracted to what the parser tells apart; "bad" stands for every text  *)
(* it refuses (newlines, bytes that may not occur, lengths, numbers that   *)
(* do not parse or overflow).                                              *)
(***************************************************************************)
EXTENDS Integers, Sequences, FiniteSets

CONSTANTS
    Hosts,        \* host names, after parse_host_value has removed the port
    Lengths,      \* values of Content-Length, as written
    MaxHeaders    \* header lines the parser accepts (100)

ASSUME HttpRequestAssumption ==
    /\ "bad" \notin Hosts /\ "bad" \notin Lengths
    /\ MaxHeaders \in Nat \ {0}

VARIABLES
    lines,    \* the header lines read so far
    first,    \* the request line: version, and authority of an absolute target
    have,     \* have_host, have_content_length, have_transfer_encoding, ...
    httpReq,  \* the rpsiod_http_request being filled
    verdict   \* "idle", "reading", 1 as "accepted", -1 as "refused"

parseVars == <<lines, first, have, httpReq, verdict>>

NoHost == "none"
NoLength == "0"

H(name, values) == [name : {name}, value : values]

\* The header lines that the parser treats in different ways.
HeaderLines ==
    H("Host", Hosts \cup {"bad"})
    \cup H("Content-Length", Lengths \cup {"bad"})
    \cup H("Transfer-Encoding", {"chunked", "bad"})
    \cup H("Connection", {"close", "keep-alive", "upgrade", "keep-alive, upgrade"})
    \cup H("Upgrade", {"websocket", "other"})
    \cup H("X-Rpsiod-Internal-Scheme", {"https", "other"})
    \cup H("Range", {"suffix", "span", "bad"})
    \cup H("other", {"good", "bad"})

\* What parse_request_line takes from the first line: the version and, for a target
\* in absolute form, its host.
RequestLines == [version : {"1.0", "1.1"}, authority : Hosts \cup {NoHost}]

NothingYet == [host |-> FALSE, length |-> FALSE, te |-> FALSE, upgrade |-> FALSE,
               websocket |-> FALSE]

EmptyRequest(keepAlive) ==
    [host |-> NoHost, length |-> NoLength, keepAlive |-> keepAlive,
     internal |-> FALSE, range |-> "none", websocket |-> FALSE]

ParseInit ==
    /\ lines = <<>> /\ have = NothingYet
    /\ first = [version |-> "1.1", authority |-> NoHost]
    /\ httpReq = EmptyRequest(TRUE)
    /\ verdict = "idle"

\* parse_request_line; a line it refuses ends the request.
ReadRequestLine(line) ==
    /\ verdict = "idle"
    /\ first' = line
    /\ httpReq' = EmptyRequest(line.version = "1.1")
    /\ verdict' = "reading"
    /\ UNCHANGED <<lines, have>>

\* Mutant: a second Content-Length overwrites the first.
RefusedAtOnce_first(line) ==
    \/ Len(lines) >= MaxHeaders
    \/ line.value = "bad"
    \/ line.name = "Host" /\ have.host

\* A line on which the parser returns -1 at once.
RefusedAtOnce(line) ==
    \/ Len(lines) >= MaxHeaders
    \/ line.value = "bad"
    \/ line.name = "Host" /\ have.host
    \/ line.name = "Content-Length" /\ have.length /\ line.value # httpReq.length

\* header_token_present: the tokens of a Connection line.
Tokens(value) == IF value = "keep-alive, upgrade" THEN {"keep-alive", "upgrade"} ELSE {value}

KeepAliveOf(value, old) ==
    IF "close" \in Tokens(value) THEN FALSE
    ELSE IF "keep-alive" \in Tokens(value) THEN TRUE ELSE old

ReadHeader(line) ==
    /\ verdict = "reading"
    /\ lines' = Append(lines, line)
    /\ IF RefusedAtOnce(line)
       THEN verdict' = "refused" /\ UNCHANGED <<have, httpReq>>
       ELSE /\ have' = [have EXCEPT
                 !.host = @ \/ line.name = "Host",
                 !.length = @ \/ line.name = "Content-Length",
                 !.te = @ \/ line.name = "Transfer-Encoding",
                 !.upgrade = @ \/ (line.name = "Connection" /\ "upgrade" \in Tokens(line.value)),
                 !.websocket = @ \/ (line.name = "Upgrade" /\ line.value = "websocket")]
            /\ httpReq' = CASE
                 line.name = "Host" -> [httpReq EXCEPT !.host = line.value]
              [] line.name = "Content-Length" -> [httpReq EXCEPT !.length = line.value]
              [] line.name = "Connection" ->
                   [httpReq EXCEPT !.keepAlive = KeepAliveOf(line.value, @)]
              [] line.name = "X-Rpsiod-Internal-Scheme" ->
                   [httpReq EXCEPT !.internal = @ \/ line.value = "https"]
              [] line.name = "Range" -> [httpReq EXCEPT !.range = line.value]
              [] OTHER -> httpReq
            /\ UNCHANGED verdict
    /\ UNCHANGED first

\* The checks after the last line.  A Transfer-Encoding is refused with and without
\* a Content-Length, and authority_matches_host compares an absolute target.
EndOfHeader ==
    /\ verdict = "reading"
    /\ verdict' = IF have.te \/ ~have.host
                     \/ (first.authority # NoHost /\ first.authority # httpReq.host)
                  THEN "refused" ELSE "accepted"
    /\ httpReq' = [httpReq EXCEPT !.websocket = have.upgrade /\ have.websocket]
    /\ UNCHANGED <<lines, first, have>>

\* Behind the last line that is allowed every line is refused: one stands for all.
OneTooMany == H("other", {"good"})

ParseNext ==
    \/ \E line \in RequestLines : ReadRequestLine(line)
    \/ \E line \in IF Len(lines) < MaxHeaders THEN HeaderLines ELSE OneTooMany : ReadHeader(line)
    \/ EndOfHeader

-----------------------------------------------------------------------------
(* What a whole header says, without reading it line by line.               *)

Values(name) == {lines[i].value : i \in {j \in DOMAIN lines : lines[j].name = name}}

Unambiguous ==
    /\ Len(lines) <= MaxHeaders
    /\ \A i \in DOMAIN lines : lines[i].value # "bad"
    /\ Cardinality({i \in DOMAIN lines : lines[i].name = "Host"}) = 1
    /\ Cardinality(Values("Content-Length")) <= 1
    /\ Values("Transfer-Encoding") = {}
    /\ first.authority # NoHost => Values("Host") = {first.authority}

\* A header is accepted exactly when it is unambiguous, and then the request has the
\* one host, the one body length and the internal scheme that its lines give, in
\* whatever order and however often they come: server and client must agree where
\* the body ends and whose site is asked.
ParsedAsDeclared ==
    /\ verdict = "accepted" =>
         /\ Unambiguous
         /\ Values("Host") = {httpReq.host}
         /\ {httpReq.length} = IF Values("Content-Length") = {} THEN {NoLength}
                               ELSE Values("Content-Length")
         /\ httpReq.internal <=> "https" \in Values("X-Rpsiod-Internal-Scheme")
         /\ httpReq.websocket =>
              "websocket" \in Values("Upgrade")
              /\ \E v \in Values("Connection") : "upgrade" \in Tokens(v)
    /\ verdict = "refused" => ~Unambiguous
=============================================================================
