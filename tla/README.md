# rpsiod in TLA+

rpsiod is a web server for Linux written in C: a parent process forks workers,
each worker is a single thread around epoll that serves static files, hands PHP
requests to PHP-FPM over FastCGI, proxies other sites, and speaks HTTP/2 by
sending each stream as an HTTP/1.1 request to itself. This directory holds
TLA+ modules of these parts, TLC configurations that check them on small
instances, and proofs for every instance.
Line numbers below are those of `src/src/server.c` unless a file is named.

## The system

| Component | State it keeps | Operations | What is hard |
|---|---|---|---|
| supervisor (`rpsiod_server_run`, `signals.c`) | table of pids, configuration, signal flags | fork, restart, reload, stop, waitpid | signals at any moment, children that die meanwhile, one step of a reload failing |
| worker event loop (`rpsiod_server_run_worker`) | epoll set, list of clients, counters, one `client_object` with a fixed buffer per connection | accept, read, parse, serve, keep alive, sweep, stop | pointers in a batch of events, what epoll cannot see (buffered or decrypted bytes), a blocking descriptor, buffer limits |
| serving a request (`serve_request`, `serve_static`, `send_file_fd`, `rate_limit.c`) | rate buckets, metadata cache, position in the response | redirect, limit, choose a file, validate, range, variant, send | files that change while they are sent, validators that do not tell versions apart, partial writes, slow clients, windows that end to the second |
| open-file cache (`static_open_cache_*`) | descriptors with the stat they were stored under | look up, invalidate, store, evict, close | descriptors closed once, entries that have become stale |
| relays (`send_php_fpm`, `serve_proxy`, `websocket_tunnel`) | header buffer, whether the response has begun | connect, send, hold back, stream, end | records cut anywhere, late failure, hanging upstreams, statuses without a body |
| HTTP/2 (`http2.c`) | streams with their loopback request, `active_backend_streams` | receive, start, retry, submit, send, reset | retries racing late answers, freed streams, workers that wait for each other |
| configuration reader (`config.c`) | stack of the keys of the current line, sites | one rule per setting, lists, new sites | rules that look at bare key names, values left over from the previous line of a level |
| route table and site selection (`config.c`, `serve_request`) | open-addressing hash table | build, look up, redirect | collisions in a table that is nearly full, redirects that lead back, requests HTTP/2 sends to the server itself |
| TLS start (`tls.c`) | `cert.pem`, `key.pem` | test, generate, read | workers that start together and rewrite both files, a kill between two writes |
| request parser (`http.c`) | the request built so far, what has been seen | one step per header line | repeated and contradicting lines in any order |
| page benchmark (`bench.c`) | shared counters and the index of the next asset | claim, fetch, count | threads, header buffers that fill, connections that break |
| command line (`main.c`) | the command | dispatch | |
| logging, utilities | descriptors, none | formatting, string helpers | not modelled, see below |

Interactions: the parent and its workers share nothing but signals and exit
statuses. Workers share the listening ports (SO_REUSEPORT), so the kernel
decides which worker gets a connection; this matters when an HTTP/2 worker asks
its own server. Workers also share the two files of the TLS pair, which each of
them may generate. Within a worker everything is a call: the loop calls
`serve_request`, which returns only when the response has been sent, and
`accept_clients` calls the HTTP/2 loop, which returns only when the connection
is over. While such a call lasts nobody else is served.

## The modules

| Module | Models |
|---|---|
| `Worker` | One worker. `pc` is the place in the loop (`top`, `batch`, `accept`, `client`, `h2`, `tunnel`, `sweep`). Bytes are units that know their request and place, so that framing errors show. TLS is the queue `pending` of decrypted bytes epoll cannot see. `serve_request` is one step with the outcomes the loop tells apart. |
| `Conversation` | What an HTTP/1.1 client is promised, without buffers, batches or TLS: answers in the order of the requests, each at most once, none behind the last one, at most `keep_alive_max_requests`. |
| `WorkerRefinement` | EXTENDS `Worker`: the refinement mapping. `Phase(c)` is read off the connection's state and its last answer, `Answers(c)` gives each answer the request whose first byte it was parsed from (or none, if parsing began inside a request); `KeepsPromise` is the specification of `Conversation` under this mapping. |
| `WorkerProofs` | Theorems about `Worker`: connections and events, input, framing and the refinement. |
| `Supervisor` | Parent and children. A fork, a signal, a reaped child, an edit of the configuration and each clause of `reload_workers` are actions; `waitpid` is restarted after a handler, as `signal()` under `_GNU_SOURCE` has it. |
| `OpenFileCache` | The open-file cache of a site against a file system that changes; descriptors are numbers that must be owned by exactly one entry. |
| `StaticFile` | `send_file_fd`: what is answered (304, 206, 416, variant, compressed, plain) and each way of sending it, byte by byte, while the file is rewritten and the client stalls or goes. |
| `ServeRequest` | EXTENDS `StaticFile`: `serve_request` and `serve_static` in the order of their tests, the rate limiter and the metadata cache, for a sequence of requests. |
| `Upstream` | One relayed request: FastCGI records or proxy reads of any size, the header buffer, chunked framing, error pages. |
| `Http2` | Several workers, at most one HTTP/2 connection each, and the loopback requests between them. |
| `Configuration` | `server.yml` and `sites.yml` as lines with a level and a key. The stack of keys and every rule that stores a value are the code's; `applied` is the line just read and the field its value went to. |
| `TlsStart` | `ensure_auto_certificate`, `validate_tls_pair` and the reading of the pair by several workers over two shared files; a worker may be killed between any two steps, writes may fail, and the parent restarts what exits. |
| `HttpRequest` | `rpsiod_http_parse_request`: request line and header lines one by one, in any order and number. |
| `Routing` | The route table, `rpsiod_config_find_site_for_listener` and the redirects of `serve_request`; a browser that follows them, directly or through the HTTP/2 loopback. |
| `PageBench` | The page benchmark: worker threads that claim assets under a mutex and fetch them over connections they keep. |
| `SupervisorProofs`, `OpenFileCacheProofs`, `UpstreamProofs`, `Http2Proofs`, `ServeRequestProofs`, `CommandLineProofs` | Theorems about the module of that name and what it extends. |
| `SequenceFacts` | Lemmas these proofs share: least elements, induction over the naturals, what `FlattenSeq` returns. |
| `CommandLine` | Composes `Configuration`, `TlsStart`, `HttpRequest`, `Routing` and `PageBench` by command: `configtest` reads a configuration, `serve` starts workers, `trace` parses a request and routes what the parser made of it, `bench` runs the benchmark. |

`MC...` modules give the constants that a `.cfg` cannot write. Where a
definition has a name of the source, it models that function; `PROJECT.json`
(`map`) names the lines of every definition. Definitions whose name has a suffix
(`Consumed_header`) and whose comment begins with "Mutant" are deliberate
mistakes: each property is shown to fail when one of them replaces the
definition of that name.

Abstractions worth knowing:

* a header is a sequence of lines with a name and a value; which bytes a value
  may hold is abstracted to good and bad. Percent-decoding, MIME types and
  response headers other than status and length are left out; a path is a name
  with a kind (file, directory, ...);
* a host name is a pair: how often it begins with "www.", and the rest. A Host has
  at most 255 bytes, so that there is a largest number, `MaxWww`;
* a PEM file is empty from `fopen("w")` until `fclose`, which writes it whole or,
  when it fails unnoticed, leaves it empty: the files are far smaller than a
  stdio buffer;
* no port is plain for one site and TLS for another: of two such listeners only
  the first is opened;
* `stamp` stands for the modification time in seconds and the inode, `ver` for
  the content, which the code cannot see. Whoever writes a file may give it any
  modification time up to now; `slip` is history, the last version that did not
  move it on. `read` records which versions the bytes of a response were read
  from, so that a copy of a client is known by its validators and, apart from
  them, by its bytes;
* the output of the compressor is one unit (`Zipped`) without its source, so
  `SourceNeverSent` speaks of the bytes that are sent as they are on disk;
* rate buckets are arrays of the process (`config.h:157`), and every worker has
  its own. `ServeRequest` is one worker: `QuotaHeld` and `RetryAfterHonest` hold
  per worker, a client that reaches n workers may be let in n times as often, and
  the end of one worker's window promises nothing of another's;
* a path of kind "fifo" is a FIFO that nobody opens for writing; status "204"
  stands for every status without a body (1xx, 204, 304);
* descriptors of loopback requests are named by stream and attempt. A freed stream
  that is used may close a descriptor of its own connection a second time
  (`ProgressFreed`), or one the kernel has given the same number since; what is
  then read or written under a number that belongs to somebody else is not
  followed further;
* kernel, OpenSSL, nghttp2, PHP-FPM and clients are nondeterministic; their
  actions are marked external in the map. One fact of OpenSSL is assumed: an
  SSL object with a write pending accepts no other (`SmallFails`).

## The runs

| Run | Bounds | Shows |
|---|---|---|
| `worker_pipeline` | 1 connection, plain or TLS, 3 requests of 8 shapes, buffer of 4 units, records of up to 3 | the worker implements `Conversation` (`KeepsPromise`): framing and order of pipelined answers, nothing behind an answer that says "close"; nothing stranded when a client is handed back to epoll, no read on a blocking descriptor, requests that fit are served; list, epoll set and counters agree. A request may be one unit shorter than, as long as or longer than the buffer, and three in a row exceed `keep_alive_max_requests` = 2. |
| `worker_loop` | 2 connections, 2 requests each, batches of up to 4 events, fairness | no event outlives its client; requests are answered, silent connections are swept, a stop ends the worker. Both connections and the listener can be in one batch, which is enough for one event to close what another refers to. Without HTTP/2 and tunnels, which hold the thread as long as their peers like. |
| `supervisor` | 1 or 2 workers, 2 edits, 2 reloads, 1 crash, 1 failing fork, fairness | pids in the table are children, no worker is forgotten, workers match the configuration, new workers are forked before old ones are stopped, dead workers are replaced. The configuration asks for two workers, then one, then two, so a reload both shrinks and grows the table, and the crash and the failing fork can fall into any step of it. |
| `supervisor_reload` | violation | see findings |
| `supervisor_stop` | violation | see findings |
| `open_file_cache` | 2 slots, 4 paths (one cut when stored, one never cached), 1 failing dup | each descriptor has one owner and the count is right, one entry per path, the least recently used entry is evicted. |
| `upstream` | heads of 0 to 2 lines with a status that has a body or not, bodies of up to 4 units, buffer of 6, records of up to 7; upstreams that hang or accept no connection | the payload arrives once and in order, one response, exact framing where the status allows a body, the relay returns from everything that has a limit. Lines and blank lines are cut at every place and the buffer is met exactly and missed by one. |
| `http2` | 2 workers, 1 connection with 2 streams, of which one may be reset or broken by its client, 2 attempts, torn answers, failing connects, fairness | one owner per descriptor, no event for a freed stream unless its client is at fault, one whole answer per stream; the worker is freed from clients that are gone or idle. Two streams are enough for one to be freed, and to be used after that, while the other holds a descriptor and a place in the counter; the second worker answers while the first polls. |
| `http2_loopback` | violation, 2 connections with 1 stream each | see findings |
| `serve_request` | files of up to 3 bytes, 1 or 2 changes, 17 configurations of a site, 2 addresses in one bucket, limit 2 in 2 s, fairness | the bytes of every response, 304 as honest as the validators can be, no source or blocked file is sent, the quota and Retry-After of a worker, every request ends. A file of 3 bytes is sent in up to three parts, and can be cut or grow between any two. A page or its precompressed variant changes before, while or after a copy is sent; a file that is compressed changes twice, in the same second or with an mtime that goes back. A FIFO is a path of its own and an index before a regular file and before none. |
| `command_line` | documents with 2 sites; 2 workers and 2 faults; headers of up to 3 lines; hosts that begin with "www." not at all, once and three times; 1 or 2 sites, one of them perhaps a default site with a plain port of its own, in a route table of 7 slots; 2 threads, a page and 2 assets, header buffer and reads of 3 units, 2 broken connections | every setting reaches the field of its own path; a served certificate and key belong together; a header is accepted exactly when it is unambiguous, and with one meaning; a request reaches the site that claims its host; redirects end, after five at most where a host may begin with "www." three times; the benchmark's figures are true. Each rule of the reader looks at no more than the stack and the current line, so every pair of lines and a second site show what a line can leave behind; three header lines allow a pair in both orders with a third between; all routes of a port have one hash and two sites fill the table; one response header is larger than the buffer. |
| `tls_start` | violation, 2 workers, no fault | see findings |

`CHECK_DEADLOCK FALSE` is set where a run is over when all clients or requests
are done, or the server has stopped.

`TypeOK` of `Worker` is checked and proved, because the bound of the client
buffer is part of it. The type predicates of the other modules describe their
state for the reader; the runs check what relates parts of it.

### Fairness

Weak fairness of the program's own steps only: `WorkerStep` and the clock in
`Worker`, `ParentStep` and the steps of the children in `Supervisor`,
`RelayStep` in `Upstream`, each worker in `Http2`, `ServeStep` in
`ServeRequest`, the start of each worker in `TlsStart` (which includes the
parent that reaps and restarts it). The operating system schedules runnable
threads, and the calls the steps stand for return: reads from upstreams have
SO_RCVTIMEO (1607, `proxy.c:91`), reads from clients are non-blocking. Two calls
have no limit, and the models have no step for them. `connect` to the unix
socket of PHP-FPM blocks while its backlog is full (1495; SO_SNDTIMEO is set at
1607-1609, on the connected socket): `ConnectFails` is not enabled while
`ConnectBlocks`, and `RelayReturns` is about upstreams that accept in the end.
`openat2` opens a FIFO in the site's root without O_NONBLOCK (`static.c:23`,
first from 1841) and waits for a writer: no step of `serve_static` is enabled
while `Waits`, which `RequestEnds` excepts. Writes to clients are not bounded in
general: the descriptor is made blocking before a request is served (2361), so
the one-second `poll` of `wait_for_fd` and `rpsiod_write_all` is never reached
for plain clients, and only TLS clients have a limit (SO_SNDTIMEO, 2579).
`StaticFile` and `Upstream` model this: a write to a stalled plain client is not
enabled, and `RequestEnds` and `RelayReturns` except such clients. `Worker`
serves a request in one step, so its liveness is for requests that end and
clients that take their replies. For the same reason `ServeRequest` does not ask
that a relay ends (`RelayEnds` is not fair): `RequestEnds` leaves a request that
is handed to a relay to `Upstream`, where a hanging upstream and a tunnel are
seen. `RetrySpec` of `Http2` adds strong fairness of `Retry`, which stands for
the clock passing the retry delay. `DeadWorkerReplaced` excepts reloads and
failed forks: a reload may wait for ever for a worker that has forgotten its
SIGTERM (finding 2), and a slot whose fork failed is never tried again (2829).
Nothing is assumed of clients, upstreams, files or signals.

## The proofs

What is proved holds for every value of the constants that satisfies the named
assumptions of the module. Where a constant only caps a counter for TLC
(`MaxHups`, `MaxStamp`, ...), any cap is covered.

| Theorem | States | Inductive invariant |
|---|---|---|
| `WorkerProofs`: `TypeCorrect`, `EventsStayLive`, `ConnectionsStayAccounted` | `TypeOK`, `EventsAreLive`, `ConnectionsAccounted` | `IInv` |
| `WorkerProofs`: `NothingStranded`, `NoBlockingRead` | `ParkedNeedsInput`, `ReadNeverBlocks` | `InputInv`, on `IInv` |
| `WorkerProofs`: `FittingRequestsServed`, `WorkerKeepsPromise` | `FittingRequestServed`, the refinement `KeepsPromise` | `FrameInv`, on both |
| `SupervisorProofs`: `SignalsOnlyChildren`, `NoWorkerForgotten`, `WorkersServeConfig`, `NewWorkersFirst` | `TableHoldsChildren`, `NoOrphanWorker`, `WorkersMatchConfig`, the action property `ReplacedBeforeStopped` | `ParentInv` |
| `OpenFileCacheProofs`: `EachDescriptorOwned`, `PathsStoredOnce`, `EvictionSparesTheRecent` | `DescriptorsOwned`, `OneEntryPerPath`, the action property `EvictsLeastRecent` | `CacheInv` |
| `Http2Proofs`: `LoopbackDescriptorsOwned`, `PolledAreLive`, `EachAnsweredOnce`, `AnswersAreWhole` | `DescriptorsOwned`, `PolledStreamsLive`, `AnsweredOnce`, `AnswerIsWhole` | `H2Inv` |
| `UpstreamProofs`: `PayloadArrives`, `OneResponseSent`, `ResponsesFramed` | `PayloadRelayed`, `OneResponse`, `FramedExactly` | `RelayInv` |
| `ServeRequestProofs`: `NoSourceSent`, `NotModifiedHonest`, `RetryAfterKept` | `SourceNeverSent`, `NotModifiedIsHonest`, the action property `RetryAfterHonest` | `ServeInv` |
| `ServeRequestProofs`: `ResponsesExact`, `QuotaKept` | `ResponseExact`, `QuotaHeld` | `ExactInv`, `QuotaInv`, each on `ServeInv` |
| `CommandLineProofs`: `TlsPairsMatch`, `HeadersParsedAsDeclared`, `PageReportExact` | `ServedPairMatches`, `ParsedAsDeclared`, `ReportIsExact` | `TlsInv`, `ParseInv`, `BenchInv` |
| `CommandLineProofs`: `RequestsRouted`, `RedirectsStop` | `RoutedAsDeclared`, `RedirectsEnd` | `RouteInv` on `ParseInv`, `RedirectInv` on `RouteInv` |

Each follows the same plan: the invariant holds initially, one lemma per action
or group of actions shows that it is preserved, and the property follows from it.

**Worker, connections.** `IInv == TypeOK /\ EventsAreLive /\ ConnectionsAccounted
/\ BatchOver`. None of its parts is inductive alone. That no event dangles after
a close needs that the closed client has no other event in the batch and that the
list, the epoll set and the open connections are the same set; that the counters
stay right needs that what is closed was counted; the sweep and the stop close
clients that may have events unless the batch is over, which is `BatchOver`. One
lemma per group of actions (`PeerPreserves`, `LoopPreserves`, `AcceptPreserves`,
`HandlerPreserves`) shows that it is preserved; `CloseAccounts` and
`HandledCloses` hold the argument about closing that many actions share.

**Worker, input.** A parked connection must have no decrypted bytes left; the
reason is that SSL keeps bytes back only when the buffer is full, and a full
buffer without a whole request is refused in the same turn. So `pending` is empty
whenever an action is over (`TransferLeavesNothing`), closed objects are as
`calloc` left them, and a descriptor is blocking during a turn only while the
buffer holds a whole request, which is served without a read.

**Worker, framing and refinement.** What a client has written and no answer has
consumed, `Stream(c)`, is always a sequence of whole requests in order that starts
with the first unanswered one (`Framed`). To say this without recursion each unit
is required to have the whole of its request around it (`WholeAround`), and the
unit behind a last one to be the first of the next request; this is local, so that
appending, moving between network, SSL and buffer, and cutting a request off the
front are each shown to keep it. With it a step of the handler that answers is a
step of `Conversation` with the right request, and every other step leaves `Phase`
and `Answers` alone or ends the connection.

**Supervisor.** That the pids of the table are children is not inductive without
`PidsOnce`: a reload has two tables, and a child that is reaped must be in only
one slot of one of them. That nobody is forgotten at the end of a reload or a stop
needs `WaitedFor`: `wait_workers` has left no child behind its index.

**Open-file cache.** Besides the owners of descriptors, `WantedIsAbsent`: between
a lookup that found nothing and the store nobody else stores that path, so the
store may take any slot. A cached name is cut to 511 bytes; the assumption that a
cut name is its own cut (`CacheAssumption`) is what `rpsiod_safe_copy` does.

**HTTP/2.** `Sound(r, n)` holds of each stream by itself: a descriptor is held
exactly while an attempt is in progress and is named by the last attempt; what was
read is whole only if the answer was; a submitted stream has no attempt. From it
`SocksOwned` and `CountRight` are kept by replacing one stream at a time, and by
the end of a turn, which replaces many. `PollSound` carries the reason
`poll_streams` is safe from `poll` to the last event: the send on POLLOUT and the
reads that come between (1013-1046 of `http2.c`) free a polled stream only when
its client has reset it or broken a rule of HTTP/2 on it, because nghttp2 ends no
other stream that has no response. When the client has done so, the loop reads
from the freed stream, may close its descriptor number a second time and lower the
counter again. `used` names the workers this has happened to. In all others every
held descriptor is open and `active_backend_streams` is their number. In those of
`used` the theorems still say that no descriptor is left open without an owner,
that the counter is not above the number of those held, and that no stream is
answered twice.

**Serving.** The received units consist of headers and bytes of sources that may be
sent, which is part of the type of `out`. A 304 is honest because the copy, the
`fstat` and the file on disk come from versions in that order and an equal stamp
means an equal version, unless one in between did not move the modification time
on (`Earlier`); because the bytes of a response were read from versions between its
`fstat` and the file as it is (`ReadSound`), so that a copy whose stamp still stands
holds bytes of one version; because a conditional request is for the path of the
copy, and an entry of the metadata cache is used only when it equals the `fstat`
(`CopyCompares`). Nothing of this is known of the bytes of a precompressed variant:
the validators are those of the file beside it (1022, 1130). A promise by
Retry-After is the end of the window its bucket still counts for that address,
unless another address has taken the bucket. `OperatorAssumption` is about the site, not the program: neither error
pages nor precompressed variants are compared with `blocked_direct_access`, so the
operator must not name a protected file as an error page or keep a protected
variant of a public file.

**Responses.** `AnswerExact` says of the header what `send_file_fd` announces, and
`Progress` of every place in it how far the client has come: which part of the
answer has been received and that the rest is still to be sent from there. Every
way of sending (`writev`, `sendfile`, its fallback, the copy loop) is a step from
one such part to the next, so it does not matter where a write is cut or when one
way takes over from another; a file that shrinks makes the step impossible and the
response one that failed.

**Quota.** A bucket counts from the start of a window, and the property is about
any stretch of the same length, which may meet two windows. `Accounted` says, for
every number k of past seconds in which no other address used the bucket, how the
requests of those seconds are divided: those since the window began are the
bucket's count, those before it are fewer than the limit, because the request
that opened the earlier window has left the stretch when the later one opens.
`Sums` are partial sums of requests per second; `WithinLater`, `WithinCounts` and
`WithinOpens` are what a second, a counted request and a new window do to them.

**Relays.** Until the head is complete nothing is sent, and what is held together
with what is still to come is the whole response (`Holding`); once it has begun,
what the client got together with what is to come is the payload (`PhpBegun`,
`ProxyBegun`), which holds at the end of every turn however the units were cut.
The head ends at the first blank line of the whole response, although the code
sees it only when the last unit of it has arrived: an earlier one cannot appear,
because a prefix has no blank line that the whole has not. `UpstreamAssumption`
says what a head is: lines that end at their first blank line. What a client has
received is a flattened sequence; appending an item appends its units
(`SequenceFacts`, by least counterexample). The status is what the head says, any
that it may say; `ResponsesFramed` excepts those that have no body, which the code
frames like the others.

**Routing.** A table is `Good` after n calls of `add_route_entry` if every entry is
found by probing for its route, comes from one of the calls, and every call has
its entry. `AddKeeps` shows that a call keeps this or fails, and why: another site
has the route, or every slot holds a different route, which makes the routes more
than the slots. `BuildRouteTable` is a recursive function; that it is the last of a
sequence of such tables is shown by constructing the sequence (`BuildsExists`). A
lookup in a good table finds the site that claims the route, for every hash
(`LookupClaims`), and what a site claims is read off its record (`ClaimsHas`).
`RoutingAssumption` has the hash as any function into the slots, and the ports of
plain and TLS listeners as distinct.

**Redirects.** A redirect from apex to "www." puts one in front, one from "www." to
apex takes one away (`Flips`). A default site with the latter takes a host like
`www.www.www.a` apart one redirect at a time: `Nearer(list, r, n)` says that n is at
most the number of those taken away and of what else has happened, and that, as
names of sites begin with "www." at most once (`OneWww`), nobody puts one back in
front of a host that has two. On hosts with at most one, `Calm(list, r, n)` says what n redirects have achieved. A redirect by
a site that has the host leads to that site again, on a host it does not lead away
from. A redirect by a default site may lead to a host or port another site has;
after one redirect the default site does not change the host again (`Kept`), after
two no site does (`Steady`), and after three nobody leads to https. A request that
HTTP/2 sends to the plain port is as calm as the one it stands for
(`LoopbackCalm`), which is where the suppressed redirect and the single address are
needed: the site found there is the same one. The bound is 2 + `MaxWww` and is met:
all but one "www." are taken away first, and three more redirects do happen: a default
site with a plain port of its own leads to the TLS port it shares with a site that
has the name, that site leads to its other host, by its `serveAs` on the plain port,
and from there to https again.

**TLS, parser, page load.** These are proved of the composition, `CommandLine`: the
steps of the other commands leave each part alone. A worker that compares a key has
read a certificate in the same round (`PairRead`); the flags and the request the
parser keeps are functions of the set of values read so far (`HeaderSound`), so
that neither order nor number of the lines matters; threads hold distinct assets,
every asset below the shared index is fetched or in somebody's hand, and the
counters are cardinalities of sets of connections and assets.

Each inductive invariant is an invariant of the instances of the runs too (of a
part of the site lists for `RedirectInv`): TLC checked them there.

Only model-checked, and why:

* all liveness (`DeadWorkerReplaced`, `RelayReturns`, `ClientGoneFreesWorker`,
  `IdleConnectionEnds`, `RequestEnds`, `RequestsAreAnswered`, `IdleIsSwept`,
  `StopEndsWorker`) and the violations: fairness is out of the prover's reach;
* `SettingsReachFields`: it is a fact about a fixed table of rules, one case for
  each documented path and each key that may precede it. The only constant is the
  number of sites, at which no rule looks, so that TLC covers every case.

Every other property of a passing run is proved. Induction over data is written as
induction over a set of naturals (`Induction` in `SequenceFacts`), because a
theorem with an operator for a parameter cannot be instantiated.

## Findings

1. `supervisor_reload`: a SIGHUP to a parent that waits for its children is not
   acted on. `waitpid` at 2818 is written to be interrupted, but `signal()`
   installs handlers with SA_RESTART; the reload happens only when some worker
   dies.
2. `supervisor_stop`: for the same reason a SIGTERM to the parent alone does not
   end the server; and a child that gets its SIGTERM between `fork` and 2715
   forgets it and is waited for for ever.
3. `http2_loopback`: two workers with an HTTP/2 connection each can be given each
   other's (or their own) loopback requests. Retries stop after
   `H2_BACKEND_MAX_ATTEMPTS`, the last attempt has no timeout, and the stream is
   never answered as long as both clients stay.
4. `tls_start`: workers that start together without a certificate generate one
   each and write key and certificate in place, without a lock or a rename. The
   key of one and the certificate of the other may remain; `validate_tls_pair`
   refuses them from then on, and the parent restarts the workers for ever. A
   worker killed between the two files leaves a key alone, with the same effect.

Behaviours that properties have to except, each noted at its hazard in
`PROJECT.json`: a relay sends its error page behind a response that has begun
when the upstream fails late; a plain client that does not read holds its
worker, and so do a PHP-FPM socket whose backlog stays full and a FIFO in the
site's root; a PHP response with a status that has no body (204, 304) and no Content-Length
is sent in chunks with a last chunk behind it, because chunked_response (1759) is
chosen without a look at the status (1740), although `docs/SECURITY.md:19` has no
chunk framing exposed; a stream that
is reset or broken in the turn in which its answer arrives is used after it has
been freed, which may close a descriptor and count it twice; a 304 is given when a
precompressed variant has been rewritten alone, and when a file changes but its
modification time does not move on; a loopback answer without chunks that ends early is
taken for whole; addresses that share a rate bucket reset each other's window; a
failing `dup` leaves the count of the open-file cache one too high; an HTTP/2
request of a site with an address of its own is answered by whatever site
listens on 127.0.0.1, and the www redirects of the two may send a browser to and
fro (`RedirectsEnd` is stated for sites on one address); so may a site that names a
host beginning with "www." twice and a default site that puts it in front
(`OneWww`); the benchmark prints
twice the number of failed requests; a second Range header keeps `range_suffix`
of the first; a mapping that is the first key on a dash line loses its name.

## Not modelled

* The checks of `rpsiod_config_validate` other than the route table: tests of
  single values, assumed to have passed.
* `doctor`, `status`, the load generator of `bench`, and the text `trace`
  prints; logging: sequential programs that print what they read, or append to
  a file nobody reads back.
* String and path helpers of `util.c`: stateless. The write loops are part of the
  modules that use them.
* TLS handshakes and ALPN, dropping of privileges, pid file, systemd
  notification: library and system calls at start-up.
* Percent-decoding and path normalisation, header forwarding, MIME types, the
  compressors of `compress.c`, HPACK and flow control: data without control that
  a property here would tell apart.

## Plan

Done, in this order: `Worker` with its proofs, `Supervisor`, `OpenFileCache`,
`Upstream`, `Http2`, `StaticFile` and `ServeRequest`; `Conversation` and its
refinement by `Worker`; `TlsStart`, `Configuration`, `HttpRequest`, `Routing`,
`PageBench` and their composition `CommandLine`.

Proved, in this order: `Worker` with its refinement, `OpenFileCache`,
`Supervisor`, `Http2`, `TlsStart`, `HttpRequest`, `PageBench`, `ServeRequest`,
`Upstream`, `StaticFile`, the rate limiter, `Routing`.

Next:

1. The composition of `Supervisor` and `Worker`: connections in the backlog of a
   worker that a reload stops.
2. `Upstream` and `StaticFile` below `Worker`, so that the framing of a response and
   the decision to keep the connection are one statement.
