---------------------------- MODULE ServeRequest ----------------------------
(***************************************************************************)
(* serve_request (src/src/server.c): from a parsed request to the response *)
(* of the site it is for.  Redirects and the rate limit come first, then   *)
(* serve_static chooses a file, looks up its metadata and sends it as      *)
(* StaticFile describes.  Requests for PHP or a proxied site are handed to *)
(* the relays that Upstream describes.  One worker serves one request at a *)
(* time; its rate buckets and its metadata cache last.                     *)
(***************************************************************************)
EXTENDS StaticFile, FiniteSets

CONSTANTS
    Config,      \* configurations of a site, with its clients, requests and bounds
    Ips,         \* the clients' addresses
    BucketOf,    \* ip % RPSIOD_RATE_BUCKETS
    MetaSlots,   \* RPSIOD_STATIC_META_CACHE
    Kind,        \* what a path names: "reg", "dir", "dirname" (a directory without the
                 \* slash), "fifo" (one nobody writes to), "other", "bad" or "none"
    Indexes,     \* the paths tried as index of a directory, in order
    Blocked,     \* paths blocked by blocked_direct_access
    Php,         \* paths that rpsiod_php_path_is_php accepts
    SourceLike   \* paths that rpsiod_php_path_is_source_like accepts

\* Requests as the parser leaves them.  cond is the validator they carry, known says
\* that a site has their host, secure that they came by https, big that their body
\* does not fit one FastCGI record.
Requests ==
    [method : STRING, path : DOMAIN Kind,
     range : [suffix : BOOLEAN, start : Nat, end : Int, present : BOOLEAN],
     cond : {"none", "etag", "since"}, accepts : BOOLEAN, tls : BOOLEAN, known : BOOLEAN,
     secure : BOOLEAN, big : BOOLEAN]

\* What may be sent when it is asked for.
Open == Files \ (Blocked \cup SourceLike)

ASSUME SiteAssumption ==
    /\ \A s \in DOMAIN Config :
         /\ Config[s].limit \in Nat /\ Config[s].window \in Nat
         /\ Config[s].requests \subseteq Requests /\ Config[s].clients \subseteq Ips
         /\ Config[s].changing \subseteq Files
         /\ Config[s].fallback \in DOMAIN Kind \cup {NoFile}
    /\ "nobody" \notin Ips
    /\ MetaSlots \in Nat \ {0}
    /\ Php \subseteq SourceLike
    /\ Files = {p \in DOMAIN Kind : Kind[p] = "reg"} /\ "index.php" \in DOMAIN Kind
    /\ \A p \in DOMAIN Indexes : DOMAIN Indexes[p] \subseteq Nat
    /\ \A p \in DOMAIN Indexes : \A k \in DOMAIN Indexes[p] : Indexes[p][k] \in DOMAIN Kind
    /\ VariantOf \in [Files -> Files \cup {NoFile}]
    /\ \A m \in {NoFile, Text, Zipped, "head", "EISDIR", "EACCES", "ENOENT"} : m \notin DOMAIN Kind

\* What the operator sees to: send_error_page and the precompressed variants are not
\* compared with blocked_direct_access, so that no error page may be a file that is
\* kept back, nor the variant of a file that is not.
ASSUME OperatorAssumption ==
    /\ \A s \in DOMAIN Config : \A status \in DOMAIN Config[s].errorPages :
         Config[s].errorPages[status] \in Open
    /\ \A f \in Open : VariantOf[f] \in Open \cup {NoFile}

VARIABLES
    site,     \* the configuration in force
    ip,       \* the address of the client that is served
    bucket,   \* rate_buckets of the site
    slots,    \* static_meta_cache of the site
    clock,    \* static_meta_clock, as the slot it stands for
    admitted, \* history: requests of an address let through so many seconds ago,
              \* up to the number that QuotaHeld forbids
    promise   \* history: when the last Retry-After of an address ends, or 0

serveVars == <<site, ip, bucket, slots, clock, admitted, promise>>
vars == <<fileVars, serveVars>>

NoIp == "nobody"
cfg  == Config[site]

Init ==
    /\ site \in DOMAIN Config
    /\ disk \in [Files -> [size : {MaxSize}, stamp : {0}, ver : {0}, slip : {0}]]
    /\ now = 1 /\ changes = cfg.changes
    /\ pc = "idle" /\ req = NoRequest /\ ip = NoIp
    /\ st = NoStat /\ meta = NoMeta /\ ans = NoAnswer
    /\ cur = 0 /\ rem = 0 /\ out = <<>> /\ read = {} /\ rc = "none"
    /\ net = "ok" /\ copy = NoCopy
    /\ bucket = [b \in {BucketOf[i] : i \in Ips} |-> [ip |-> NoIp, start |-> 0, count |-> 0]]
    /\ slots = [k \in 0..(MetaSlots - 1) |-> NoMeta]
    /\ clock = 0
    /\ admitted = [i \in Ips |-> [age \in 0..(cfg.window - 1) |-> 0]]
    /\ promise = [i \in Ips |-> 0]

\* The next request, from any client.
Arrive(r, i) ==
    /\ pc \in {"idle", "done"}
    /\ r.cond # "none" => copy.path = r.path
    /\ pc' = "route" /\ req' = r /\ ip' = i
    /\ st' = NoStat /\ meta' = NoMeta /\ ans' = NoAnswer
    /\ cur' = 0 /\ rem' = 0 /\ out' = <<>> /\ read' = {} /\ rc' = "none"
    /\ net' = "ok"
    /\ UNCHANGED <<disk, now, changes, copy, site, bucket, slots, clock, admitted, promise>>

\* The second ends between two requests.
Tick ==
    /\ pc \in {"idle", "done"} /\ now < cfg.until
    /\ now' = now + 1
    /\ admitted' = [i \in Ips |-> [age \in DOMAIN admitted[i] |->
                                     IF age = 0 THEN 0 ELSE admitted[i][age - 1]]]
    /\ UNCHANGED <<disk, changes, pc, req, st, meta, ans, cur, rem, out, read, rc, net, copy,
                   site, ip, bucket, slots, clock, promise>>
----------------------------------------------------------------------------
(* rpsiod_rate_limit_exceeded. *)

\* Addresses are IPv4: others are never limited.
Limits == cfg.limit > 0 /\ cfg.window > 0

Mine == bucket[BucketOf[ip]]

\* Mutant: a window lasts a second longer than Retry-After says.
NewWindow_late == Mine.ip # ip \/ now > Mine.start + cfg.window

\* The bucket is another client's, or its window is over.
NewWindow == Mine.ip # ip \/ now >= Mine.start + cfg.window

Exceeded == Limits /\ ~NewWindow /\ Mine.count >= cfg.limit

RetryAfter ==
    LET reset == Mine.start + cfg.window IN IF reset > now THEN reset - now ELSE 1

\* Mutant: the request that opens a window is not counted.
Counted_zero ==
    IF NewWindow THEN [ip |-> ip, start |-> now, count |-> 0] ELSE [Mine EXCEPT !.count = @ + 1]

Counted ==
    IF NewWindow THEN [ip |-> ip, start |-> now, count |-> 1] ELSE [Mine EXCEPT !.count = @ + 1]
----------------------------------------------------------------------------
(* serve_request. *)

\* send_text, send_redirect and send_rate_limited: a body the server made.
SendText(status) == pc' = "headers" /\ ans' = Answer(status, Text, 0, 1) /\ UNCHANGED st

\* send_error_page, and the maintenance page: the site's page for this status, or
\* a text.
SendErrorPage(status) ==
    IF status \in DOMAIN cfg.errorPages
    THEN /\ pc' = "file"
         /\ ans' = Answer(status, NoFile, 0, 0)
         /\ st' = Fstat(cfg.errorPages[status])
    ELSE SendText(status)

\* TRACE and CONNECT, a host no site has, or a redirect (to https or to another
\* host name).  A site found for a listener has its address or 0.0.0.0, so that
\* the 400 for a foreign listen_ip is never given.
Early(status) ==
    \/ status = 405 /\ req.method = "TRACE"
    \/ status = 404 /\ req.method # "TRACE" /\ ~req.known
    \/ status = 301 /\ req.method # "TRACE" /\ req.known /\ cfg.redirect /\ ~req.secure

RouteEarly ==
    /\ pc = "route"
    /\ \E status \in {405, 404, 301} : Early(status) /\ SendText(status)
    /\ UNCHANGED <<disk, now, changes, req, meta, cur, rem, out, read, rc, net, copy, serveVars>>

RouteLimited ==
    /\ pc = "route" /\ \A s \in {405, 404, 301} : ~Early(s)
    /\ Exceeded
    /\ SendText(429)
    /\ promise' = [promise EXCEPT ![ip] = now + RetryAfter]
    /\ UNCHANGED <<disk, now, changes, req, meta, cur, rem, out, read, rc, net, copy,
                   site, ip, bucket, slots, clock, admitted>>

RouteAdmitted ==
    /\ pc = "route" /\ \A s \in {405, 404, 301} : ~Early(s)
    /\ ~Exceeded
    /\ IF Limits
       THEN /\ bucket' = [bucket EXCEPT ![BucketOf[ip]] = Counted]
            /\ admitted' = [admitted EXCEPT ![ip][0] = Min({@ + 1, 2 * cfg.limit})]
            /\ promise' = [promise EXCEPT ![ip] = 0]
       ELSE UNCHANGED <<bucket, admitted, promise>>
    /\ pc' = IF cfg.routing = "proxy" THEN "proxy" ELSE "static"
    /\ UNCHANGED <<disk, now, changes, req, st, meta, ans, cur, rem, out, read, rc, net, copy,
                   site, ip, slots, clock>>

\* rpsiod_site_allows_method.
Allowed(m) == m \in cfg.methods \/ (m = "HEAD" /\ "GET" \in cfg.methods)

\* serve_proxy is called; or the method is not allowed.
RouteProxy ==
    /\ pc = "proxy"
    /\ \/ Allowed(req.method) /\ pc' = "relay" /\ UNCHANGED <<st, ans>>
       \/ ~Allowed(req.method) /\ SendErrorPage(405)
    /\ UNCHANGED <<disk, now, changes, req, meta, cur, rem, out, read, rc, net, copy, serveVars>>

\* serve_proxy or send_php_fpm has returned.
RelayEnds ==
    /\ pc = "relay"
    /\ pc' = "done" /\ rc' \in {"ok", "fail"}
    /\ UNCHANGED <<disk, now, changes, req, st, meta, ans, cur, rem, out, read, net,
                   copy, serveVars>>
----------------------------------------------------------------------------
(* serve_static. *)

\* try_open_static: the path itself when it is a file, or the first index of a
\* directory that is one; or errno.
TryOpen(p) ==
    LET found == IF p \in DOMAIN Indexes
                 THEN {k \in DOMAIN Indexes[p] : Kind[Indexes[p][k]] = "reg"} ELSE {} IN
    CASE Kind[p] = "reg"   -> p
      [] Kind[p] = "dir"   -> IF found = {} THEN "EISDIR" ELSE Indexes[p][Min(found)]
      [] Kind[p] = "other" -> "EACCES"
      [] OTHER             -> "ENOENT"

PhpRouting == cfg.routing = "php"

\* The path that is opened first: where routing is "php" the site's script for every
\* path that is none.
First ==
    LET script == IF cfg.fallback # NoFile THEN cfg.fallback ELSE "index.php" IN
    IF PhpRouting /\ req.path \notin Php THEN script ELSE req.path

\* Elsewhere the site's fallback is opened when the path names nothing.
FallsBack ==
    TryOpen(First) = "ENOENT" /\ ~PhpRouting /\ cfg.fallback # NoFile /\ req.path # "/"

Selected == TryOpen(IF FallsBack THEN cfg.fallback ELSE First)

RunsPhp == (PhpRouting \/ cfg.php) /\ Selected \in Php

\* What keeps serve_static from opening a file: a status, or 0.
Unopened ==
    IF cfg.maintenance THEN 503
    ELSE IF ~Allowed(req.method) THEN 405
    ELSE IF Kind[req.path] = "bad" THEN 400
    ELSE IF req.path \in Blocked THEN 403
    ELSE IF Kind[req.path] = "dirname" THEN 301
    ELSE IF Selected \in {"EISDIR", "EACCES"} THEN 403
    ELSE IF Selected = "ENOENT" THEN 404
    ELSE 0

\* rpsiod_static_open_site_path opens a path, or an index that comes before the first
\* regular file among them, without O_NONBLOCK: for a FIFO it waits for a writer.
OpenWaits(p) ==
    \/ Kind[p] = "fifo"
    \/ /\ Kind[p] = "dir" /\ p \in DOMAIN Indexes
       /\ \E k \in DOMAIN Indexes[p] :
            /\ Kind[Indexes[p][k]] = "fifo"
            /\ \A j \in DOMAIN Indexes[p] : j < k => Kind[Indexes[p][j]] # "reg"

\* So does the worker: in site_path_is_directory, or in try_open_static.
Waits ==
    /\ ~cfg.maintenance /\ Allowed(req.method)
    /\ Kind[req.path] \notin {"bad", "dirname"} /\ req.path \notin Blocked
    /\ \/ Kind[req.path] = "fifo" \/ OpenWaits(First)
       \/ FallsBack /\ OpenWaits(cfg.fallback)

\* Mutant: a source is kept back only where PHP runs.
Unsent_source ==
    IF Selected \in Blocked THEN 403
    ELSE IF RunsPhp THEN (IF req.big THEN 413 ELSE 0)
    ELSE IF PhpRouting THEN 403
    ELSE IF req.method \notin {"GET", "HEAD"} THEN 405
    ELSE 0

\* What keeps it from sending the file it has opened.
Unsent ==
    IF Selected \in Blocked THEN 403
    ELSE IF RunsPhp THEN (IF req.big THEN 413 ELSE 0)
    ELSE IF PhpRouting THEN 403
    ELSE IF req.method \notin {"GET", "HEAD"} THEN 405
    ELSE IF Selected \in SourceLike THEN 403
    ELSE 0

Refusal == IF Unopened # 0 THEN Unopened ELSE Unsent

StaticRefuses ==
    /\ pc = "static" /\ ~Waits
    /\ Refusal # 0
    /\ IF Refusal = 301 THEN SendText(301) ELSE SendErrorPage(Refusal)
    /\ UNCHANGED <<disk, now, changes, req, meta, cur, rem, out, read, rc, net, copy, serveVars>>

\* send_php_fpm is called.
StaticRelays ==
    /\ pc = "static" /\ ~Waits
    /\ Refusal = 0 /\ RunsPhp
    /\ pc' = "relay"
    /\ UNCHANGED <<disk, now, changes, req, st, meta, ans, cur, rem, out, read, rc, net,
                   copy, serveVars>>

\* The file is opened and fstat taken.
StaticOpens ==
    /\ pc = "static" /\ ~Waits
    /\ Refusal = 0 /\ ~RunsPhp
    /\ st' = Fstat(Selected)
    /\ pc' = "meta"
    /\ UNCHANGED <<disk, now, changes, req, meta, ans, cur, rem, out, read, rc, net,
                   copy, serveVars>>

SlotsOf(p) == {k \in DOMAIN slots : slots[k].path = p}

\* Mutant: the stamp is not compared.
MetaHit_stale(m) == m.size = st.size

\* An entry holds for the file as fstat saw it.
MetaHit(m) == m.size = st.size /\ m.stamp = st.stamp

\* static_meta_clock % RPSIOD_STATIC_META_CACHE.
NextSlot == (clock + 1) % MetaSlots

\* static_meta_get: the entry, or a new one in place of the next slot.  Its blocked
\* flag repeats the test that Unsent has made already.
static_meta_get ==
    /\ pc = "meta"
    /\ LET old   == SlotsOf(st.path)
           first == IF old = {} THEN -1 ELSE Min(old)
           fresh == [path |-> st.path, size |-> st.size, stamp |-> st.stamp] IN
         IF old # {} /\ MetaHit(slots[first])
         THEN meta' = slots[first] /\ UNCHANGED <<slots, clock>>
         ELSE /\ meta' = fresh
              /\ slots' = [k \in DOMAIN slots |->
                             IF k = clock THEN fresh ELSE IF k = first THEN NoMeta ELSE slots[k]]
              /\ clock' = NextSlot
    /\ pc' = "file"
    /\ ans' = Answer(200, NoFile, 0, 0)
    /\ UNCHANGED <<disk, now, changes, req, st, cur, rem, out, read, rc, net, copy,
                   site, ip, bucket, admitted, promise>>
----------------------------------------------------------------------------
ServeStep ==
    \/ RouteEarly \/ RouteLimited \/ RouteAdmitted \/ RouteProxy
    \/ StaticRefuses \/ StaticRelays \/ StaticOpens \/ static_meta_get
    \/ SendStep /\ UNCHANGED serveVars

Next ==
    \/ \E r \in cfg.requests, i \in cfg.clients : Arrive(r, i)
    \/ ServeStep
    \/ Tick
    \/ RelayEnds
    \/ (NetChanges \/ \E f \in cfg.changing : FileChanges(f)) /\ UNCHANGED serveVars

Spec == Init /\ [][Next]_vars

\* The worker is scheduled; nothing is asked of the client, which may stay stalled,
\* nor of the relays, which Upstream describes.
FairSpec == Spec /\ WF_vars(ServeStep)
----------------------------------------------------------------------------
(* Properties. *)

\* Type correctness of a worker's state between and during requests.
TypeOK ==
    /\ pc \in {"idle", "route", "proxy", "relay", "static", "meta", "file", "headers", "small",
              "memory", "sendfile", "copy", "done"}
    /\ rc \in {"none", "ok", "fail"} /\ net \in {"ok", "stalled", "gone"}
    /\ \A f \in Files : disk[f].size \in 0..MaxSize /\ disk[f].stamp \in 0..now
    /\ cur \in 0..(MaxSize + 1) /\ rem \in 0..MaxSize
    /\ ans.off \in 0..MaxSize /\ ans.len \in 0..MaxSize
    /\ clock \in DOMAIN slots
    /\ \A k \in DOMAIN slots : slots[k].path \in Files \cup {NoFile}
    /\ \A b \in DOMAIN bucket : bucket[b].count \in 0..cfg.limit /\ bucket[b].start \in 0..now

\* The source of a script and the files of blocked_direct_access are never sent,
\* whether they are asked for, found as an index or reached by the fallback.
SourceNeverSent ==
    \A k \in DOMAIN out :
        out[k][1] \in Files => out[k][1] \notin Blocked \cup SourceLike

\* The sums of the first 0, 1, ..., w values of f.
Sums(f, w) == LET sum[n \in 0..w] == IF n = 0 THEN 0 ELSE sum[n - 1] + f[n - 1] IN sum

\* In any cfg.window seconds an address gets less than twice its quota, unless
\* another address uses the same bucket in that time.
QuotaHeld ==
    Limits => \A i \in Ips :
        LET Total(j) == Sums(admitted[j], cfg.window)[cfg.window]
            rivals == {j \in Ips \ {i} : BucketOf[j] = BucketOf[i] /\ Total(j) > 0} IN
        rivals = {} => Total(i) < 2 * cfg.limit

\* A client that waits as long as Retry-After says is let in.
RetryAfterHonest ==
    [][ans'.status = 429 /\ ans.status # 429 /\ promise[ip] # 0 => now < promise[ip]]_vars

\* Every request ends or is handed to a relay, even when a TLS client stalls for ever.
\* Excepted is what the code waits for without limit: a plain client that does not
\* read, and a FIFO in the site's root that nobody writes to.
RequestEnds ==
    pc = "route" ~> \/ pc \in {"done", "relay"}
                    \/ net = "stalled" /\ ~req.tls
                    \/ pc = "static" /\ Waits
=============================================================================
