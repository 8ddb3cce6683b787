----------------------------- MODULE PageBench ------------------------------
(***************************************************************************)
(* rpsiod bench page (src/src/bench.c): the page is fetched on one         *)
(* connection, then threads take the assets it names, one after another,   *)
(* from a shared index, each on a connection of its own that it keeps      *)
(* while the server lets it.  The counters are shared and guarded by       *)
(* ctx->lock; main reads them when it has joined the threads.              *)
(*                                                                         *)
(* A response is HeaderLen header units and then body units; a read takes  *)
(* any number of the units that have arrived.  The last header unit holds  *)
(* the blank line.                                                         *)
(***************************************************************************)
EXTENDS Integers, FiniteSets, FiniteSetsExt

CONSTANTS
    Threads,        \* args.concurrency
    AssetCount,     \* ctx->asset_count, the page itself included
    HeaderLen, BodyLen,   \* of the response to each asset
    HeaderBuf,      \* sizeof(header) - 1
    ReadMax,        \* the largest read
    MaxBreaks       \* bound: connections that fail or that the server ends

ASSUME PageBenchAssumption ==
    /\ IsFiniteSet(Threads) /\ "main" \notin Threads
    /\ AssetCount \in Nat \ {0}
    /\ HeaderLen \in [0..(AssetCount - 1) -> Nat \ {0}]
    /\ BodyLen \in [0..(AssetCount - 1) -> Nat]
    /\ HeaderBuf \in Nat \ {0} /\ ReadMax \in Nat \ {0} /\ MaxBreaks \in Nat

VARIABLES
    stage,      \* of main: "html", "create", "join", "report", "failed"
    created,    \* threads that pthread_create has started
    at,         \* where each thread is (main fetches the page as the thread "main")
    mine,       \* the asset it fetches
    linked,     \* fd >= 0
    got,        \* units of the response read so far
    headerUsed, \* header_used
    nextAsset,  \* ctx->next_asset
    asset,      \* what the report says of each asset: bytes, failed
    count,      \* accepted_connections, closed_connections, failed_requests
    fetched,    \* history: how often each asset was taken up
    breaks

benchVars == <<stage, created, at, mine, linked, got, headerUsed, nextAsset,
               asset, count, fetched, breaks>>

Assets == 0..(AssetCount - 1)
MainThread == "main"
Actors == Threads \cup {MainThread}

BenchInit ==
    /\ stage = "html" /\ created = {}
    /\ at = [t \in Actors |-> IF t = MainThread THEN "connect" ELSE "none"]
    /\ mine = [t \in Actors |-> 0]
    /\ linked = [t \in Actors |-> FALSE]
    /\ got = [t \in Actors |-> 0] /\ headerUsed = [t \in Actors |-> 0]
    /\ nextAsset = 1
    /\ asset = [a \in Assets |-> [bytes |-> 0, failed |-> FALSE]]
    /\ count = [accepted |-> 0, closed |-> 0, failed |-> 0]
    /\ fetched = [a \in Assets |-> 0]
    /\ breaks = 0

Move(t, there) == at' = [at EXCEPT ![t] = there]

\* idx = ctx->next_asset++ under the lock.
Claim(t) ==
    /\ at[t] = "claim"
    /\ nextAsset' = nextAsset + 1
    /\ mine' = [mine EXCEPT ![t] = nextAsset]
    /\ Move(t, IF nextAsset >= AssetCount THEN "leave"
               ELSE IF linked[t] THEN "send" ELSE "connect")
    /\ UNCHANGED <<stage, created, linked, got, headerUsed, asset, count, fetched, breaks>>

Connect(t) ==
    /\ at[t] = "connect"
    /\ linked' = [linked EXCEPT ![t] = TRUE]
    /\ count' = [count EXCEPT !.accepted = @ + 1]
    /\ Move(t, "send")
    /\ UNCHANGED <<stage, created, mine, got, headerUsed, nextAsset, asset, fetched, breaks>>

\* Without a connection the asset has failed; without one for the page all is over.
ConnectFails(t) ==
    /\ at[t] = "connect" /\ breaks < MaxBreaks
    /\ breaks' = breaks + 1
    /\ IF t = MainThread THEN stage' = "failed" /\ Move(t, "none") ELSE UNCHANGED stage /\ Move(t, "fail")
    /\ fetched' = [fetched EXCEPT ![mine[t]] = @ + 1]
    /\ UNCHANGED <<created, mine, linked, got, headerUsed, nextAsset, asset, count>>

\* fetch_asset_on_fd: the request is written.
Send(t) ==
    /\ at[t] = "send"
    /\ got' = [got EXCEPT ![t] = 0] /\ headerUsed' = [headerUsed EXCEPT ![t] = 0]
    /\ fetched' = [fetched EXCEPT ![mine[t]] = @ + 1]
    /\ Move(t, "read")
    /\ UNCHANGED <<stage, created, mine, linked, nextAsset, asset, count, breaks>>

\* The bytes of one read that belong to the body.  While the header is incomplete
\* they are copied to its buffer, as far as it has room; the read that completes it
\* (before_header_used < header_bytes) may carry the beginning of the body.
Smaller(a, b) == IF a < b THEN a ELSE b

Copied(t, n) == Smaller(n, HeaderBuf - headerUsed[t])

SawHeader(t) == headerUsed[t] >= HeaderLen[mine[t]]

BodyBytes(t, n) ==
    IF SawHeader(t) THEN n
    ELSE IF headerUsed[t] + Copied(t, n) < HeaderLen[mine[t]] THEN 0
    ELSE n - (HeaderLen[mine[t]] - headerUsed[t])

Read(t) ==
    /\ at[t] = "read"
    /\ \E n \in 1..Smaller(ReadMax, HeaderLen[mine[t]] + BodyLen[mine[t]] - got[t]) :
         LET used == headerUsed[t] + IF SawHeader(t) THEN 0 ELSE Copied(t, n)
             bytes == asset[mine[t]].bytes + BodyBytes(t, n)
         IN /\ got' = [got EXCEPT ![t] = @ + n]
            /\ headerUsed' = [headerUsed EXCEPT ![t] = used]
            /\ asset' = [asset EXCEPT ![mine[t]].bytes = bytes]
            /\ Move(t, IF used < HeaderLen[mine[t]]
                       THEN (IF used = HeaderBuf THEN "fail" ELSE "read")
                       ELSE IF bytes >= BodyLen[mine[t]] THEN "got" ELSE "read")
    /\ UNCHANGED <<stage, created, mine, linked, nextAsset, count, fetched, breaks>>

\* The server ends the connection, which counts as the end of the response wherever
\* it comes, or nothing arrives for ten seconds (SO_RCVTIMEO).
EndOfStream(t) ==
    /\ at[t] = "read" /\ breaks < MaxBreaks
    /\ breaks' = breaks + 1
    /\ \/ Move(t, "close")
       \/ Move(t, "fail")
    /\ UNCHANGED <<stage, created, mine, linked, got, headerUsed, nextAsset, asset, count, fetched>>

\* The header said whether the connection is kept.
Got(t) ==
    /\ at[t] = "got"
    /\ Move(t, IF t = MainThread THEN "idle" ELSE "claim") \/ Move(t, "close")
    /\ UNCHANGED <<stage, created, mine, linked, got, headerUsed, nextAsset, asset, count,
                   fetched, breaks>>

\* asset->failed; page_worker closes its connection, if it has one.
Closed(t) == IF linked[t] THEN count.closed + 1 ELSE count.closed

Fail(t) ==
    /\ at[t] = "fail"
    /\ linked' = [linked EXCEPT ![t] = FALSE]
    /\ IF t = MainThread
       THEN /\ count' = [count EXCEPT !.closed = Closed(t)]
            /\ stage' = "failed" /\ Move(t, "none")
            /\ UNCHANGED asset
       ELSE /\ count' = [count EXCEPT !.closed = Closed(t), !.failed = @ + 1]
            /\ asset' = [asset EXCEPT ![mine[t]].failed = TRUE]
            /\ Move(t, "claim") /\ UNCHANGED stage
    /\ UNCHANGED <<created, mine, got, headerUsed, nextAsset, fetched, breaks>>

\* Mutant: a connection the server does not keep is not counted as closed.
Close_uncounted(t) ==
    /\ at[t] = "close"
    /\ linked' = [linked EXCEPT ![t] = FALSE]
    /\ Move(t, IF t = MainThread THEN "idle" ELSE "claim")
    /\ UNCHANGED <<stage, created, mine, got, headerUsed, nextAsset, asset, count, fetched, breaks>>

\* The server does not keep the connection.
Close(t) ==
    /\ at[t] = "close"
    /\ linked' = [linked EXCEPT ![t] = FALSE]
    /\ count' = [count EXCEPT !.closed = Closed(t)]
    /\ Move(t, IF t = MainThread THEN "idle" ELSE "claim")
    /\ UNCHANGED <<stage, created, mine, got, headerUsed, nextAsset, asset, fetched, breaks>>

\* No asset is left.
Leave(t) ==
    /\ at[t] = "leave"
    /\ linked' = [linked EXCEPT ![t] = FALSE]
    /\ count' = [count EXCEPT !.closed = Closed(t)]
    /\ Move(t, "gone")
    /\ UNCHANGED <<stage, created, mine, got, headerUsed, nextAsset, asset, fetched, breaks>>

\* parse_html_assets has found the assets, if there is a body to search; no more
\* threads are started than there are assets.
Parse ==
    /\ stage = "html" /\ at[MainThread] = "idle"
    /\ stage' = IF asset[0].bytes = 0 THEN "failed" ELSE "create"
    /\ UNCHANGED <<created, at, mine, linked, got, headerUsed, nextAsset, asset, count, fetched, breaks>>

ThreadLimit == Smaller(Cardinality(Threads), IF AssetCount > 1 THEN AssetCount - 1 ELSE 1)

\* pthread_create; after a failure the threads that run are enough.
Create ==
    /\ stage = "create"
    /\ IF Cardinality(created) = ThreadLimit
       THEN stage' = "join" /\ UNCHANGED <<created, at, breaks>>
       ELSE \/ /\ \E t \in Threads \ created : created' = created \cup {t} /\ Move(t, "claim")
               /\ UNCHANGED <<stage, breaks>>
            \/ /\ breaks < MaxBreaks /\ breaks' = breaks + 1
               /\ stage' = "join" /\ UNCHANGED <<created, at>>
    /\ UNCHANGED <<mine, linked, got, headerUsed, nextAsset, asset, count, fetched>>

\* pthread_join of all threads, then the connection of the page is closed.
Join ==
    /\ stage = "join" /\ \A t \in created : at[t] = "gone"
    /\ stage' = "report"
    /\ count' = [count EXCEPT !.closed = Closed(MainThread)]
    /\ linked' = [linked EXCEPT ![MainThread] = FALSE]
    /\ UNCHANGED <<created, at, mine, got, headerUsed, nextAsset, asset, fetched, breaks>>

Works(t) == \/ Claim(t) \/ Connect(t) \/ ConnectFails(t) \/ Send(t) \/ Read(t)
            \/ EndOfStream(t) \/ Got(t) \/ Fail(t) \/ Close(t) \/ Leave(t)

BenchNext == (\E t \in Actors : Works(t)) \/ Parse \/ Create \/ Join

\* The body units that arrived for the asset a thread has just read.
Arrived(t) == IF got[t] > HeaderLen[mine[t]] THEN got[t] - HeaderLen[mine[t]] ELSE 0

\* bytes counts the body and nothing of the header, however the response is cut into
\* reads and however full the header buffer is.
BodyCounted ==
    \A t \in Actors :
        at[t] \in {"read", "got"} /\ SawHeader(t) => asset[mine[t]].bytes = Arrived(t)

\* The figures of the report are true: if a thread ran at all, each asset was taken up
\* once and only once, every connection that was opened is closed and counted,
\* failed_requests counts the assets marked as failed (the line that is printed adds
\* the two and shows twice as many), and the bytes are those of the bodies.  A byte
\* too many would also end a fetch before its body and leave the rest of it to be read
\* as the next response of the connection.
ReportIsExact ==
    /\ BodyCounted
    /\ stage = "report" =>
         /\ created # {} => \A a \in Assets : fetched[a] = 1
         /\ count.accepted = count.closed
         /\ count.failed = Cardinality({a \in Assets : asset[a].failed})
         /\ \A t \in Actors : ~linked[t]
=============================================================================
