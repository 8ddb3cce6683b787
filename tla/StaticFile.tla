----------------------------- MODULE StaticFile -----------------------------
(***************************************************************************)
(* How a response with a file in it is written: send_file_fd and what it   *)
(* calls (src/src/server.c), from the fstat of the descriptor to the last  *)
(* byte.  Other processes may change the file in place at any moment, and  *)
(* the client may stop reading or go.                                      *)
(*                                                                         *)
(* A byte of a file is named by its path and offset.  The header of a      *)
(* response is one unit, which carries its status and Content-Length.      *)
(***************************************************************************)
EXTENDS Integers, Sequences, SequencesExt, FiniteSetsExt

CONSTANTS
    Files,       \* the regular files, variants included
    MaxSize,     \* the size a file may have
    SmallMax,    \* RPSIOD_SMALL_FILE_WRITEV_MAX
    ChunkMax,    \* sizeof(chunk) in copy_file_read_write
    VariantOf    \* the precompressed variant of a file, or NoFile

ASSUME FileAssumption == MaxSize \in Nat /\ SmallMax \in Nat /\ ChunkMax \in Nat \ {0}

NoFile  == "none"
Text    == "text"   \* a body that the server made itself
Zipped  == "zipped" \* the output of the compressor
NoRange == [suffix |-> FALSE, start |-> 0, end |-> 0, present |-> FALSE]
NoRequest ==
    [method |-> "none", path |-> NoFile, range |-> NoRange, cond |-> "none", accepts |-> FALSE,
     tls |-> FALSE, known |-> FALSE, secure |-> FALSE, big |-> FALSE]
NoMeta  == [path |-> NoFile, size |-> 0, stamp |-> 0]
NoStat  == [path |-> NoFile, size |-> 0, stamp |-> 0, ver |-> 0, slip |-> 0]
NoCopy  == [path |-> NoFile, size |-> 0, stamp |-> 0, ver |-> 0, src |-> NoFile, vers |-> {}]

VARIABLES
    disk,    \* files: size, stamp (st_mtime and st_ino), ver (their content), slip (the
             \* last version whose stamp was not later than that of the version before)
    now,     \* time(NULL)
    changes, \* how often files may still change
    pc,      \* where the worker is in serve_request
    req,     \* the request it serves
    st,      \* the fstat result: a path with its size, stamp and content
    meta,    \* the metadata entry passed to send_file_fd, or NoMeta
    ans,     \* status, source, first byte and length of the response
    cur,     \* the next byte to send, or units of a small response sent
    rem,     \* bytes still to send
    out,     \* history: what the client has received of this response
    read,    \* history: the versions of its source that its bytes were read from
    rc,      \* "none" or what serve_request returned: "ok", "fail"
    net,     \* the client: "ok", "stalled" (its window is full), "gone"
    copy     \* the client's copy of a file: the validators it came with (path, size,
             \* stamp) and the version they name, its source, the versions of its bytes

fileVars ==
    <<disk, now, changes, pc, req, st, meta, ans, cur, rem, out, read, rc, net, copy>>

NoAnswer == [status |-> 0, src |-> NoFile, off |-> 0, len |-> 0]
----------------------------------------------------------------------------
(* The surroundings. *)

\* A file is written or truncated in place.  Its mtime is the time of the write, or
\* an earlier one that the writer sets (cp -p, rsync -t).
FileChanges(f) ==
    /\ changes > 0
    /\ \E n \in 0..MaxSize, s \in 0..now :
         disk' = [disk EXCEPT ![f] =
                    [size |-> n, stamp |-> s, ver |-> @.ver + 1,
                     slip |-> IF s > @.stamp THEN @.slip ELSE @.ver + 1]]
    /\ changes' = changes - 1
    /\ UNCHANGED <<now, pc, req, st, meta, ans, cur, rem, out, read, rc, net, copy>>

\* The client's window fills up, opens again, or the client goes.
NetChanges ==
    /\ pc \notin {"idle", "done"}
    /\ \/ net = "ok" /\ net' \in {"stalled", "gone"}
       \/ net = "stalled" /\ net' = "ok"
    /\ UNCHANGED <<disk, now, changes, pc, req, st, meta, ans, cur, rem, out, read, rc, copy>>
----------------------------------------------------------------------------
(* What send_file_fd decides. *)

\* open and fstat: a file as it is now.
Fstat(p) == [path |-> p, size |-> disk[p].size, stamp |-> disk[p].stamp, ver |-> disk[p].ver,
             slip |-> disk[p].slip]

HeadOnly == req.method = "HEAD"

Answer(status, src, off, len) == [status |-> status, src |-> src, off |-> off, len |-> len]

\* request_cache_validator_matches.  The ETag is made of the metadata entry's
\* size and stamp; If-Modified-Since is looked at when there is no If-None-Match.
ValidatorMatches ==
    \/ req.cond = "etag" /\ meta # NoMeta /\ copy.size = meta.size /\ copy.stamp = meta.stamp
    \/ req.cond = "since" /\ st.stamp <= copy.stamp

\* The last byte of a range, which ends at the end of the file or before.
RangeEnd(r, total) == IF r.suffix \/ r.end = -1 \/ r.end >= total THEN total - 1 ELSE r.end

RangeStart(r, total) ==
    IF ~r.suffix THEN r.start ELSE IF r.start >= total THEN 0 ELSE total - r.start

RangeValid(r, total) == total > 0 /\ (r.suffix \/ (r.start < total /\ RangeEnd(r, total) >= r.start))

\* send_file_fd answers a range with 206 or 416.
RangeAnswer(r) ==
    IF RangeValid(r, st.size)
    THEN Answer(206, st.path, RangeStart(r, st.size),
                RangeEnd(r, st.size) - RangeStart(r, st.size) + 1)
    ELSE Answer(416, NoFile, 0, 0)

\* use_br or use_gzip: the client accepts an encoding and the file is worth it
\* (compression_minimum_size is 1 here).
Compresses(status) == status = 200 /\ req.accepts /\ st.size > 0

\* Precompressed variants are neither made nor removed while the server runs.
HasVariant == VariantOf[st.path] # NoFile

\* A request with a cached copy, a range, an encoding, or none of these.
send_file_fd ==
    /\ pc = "file"
    /\ LET status == ans.status
           plain  == Answer(status, st.path, 0, st.size)
           Go(where, a) == pc' = where /\ ans' = a IN
         \/ /\ status = 200 /\ ~req.range.present /\ ValidatorMatches
            /\ Go("headers", Answer(304, NoFile, 0, 0))
         \/ /\ status = 200 /\ req.range.present
            /\ Go("headers", RangeAnswer(req.range))
         \/ /\ status # 200 \/ (~req.range.present /\ ~ValidatorMatches)
            /\ \/ /\ Compresses(status) /\ HasVariant
                  /\ LET v == VariantOf[st.path] IN
                       Go("headers", Answer(200, v, 0, disk[v].size))
               \/ /\ Compresses(status) /\ ~HasVariant
                  /\ disk[st.path].size >= st.size   \* pread gets it all
                  /\ Go("headers", Answer(200, Zipped, 0, 1))
               \/ /\ ~Compresses(status) \/ (~HasVariant /\ disk[st.path].size < st.size)
                  /\ IF ~HeadOnly /\ st.size <= SmallMax /\ disk[st.path].size >= st.size
                     THEN Go("small", plain)
                     ELSE Go("headers", plain)
    \* a body that is in memory before the header is sent was read by pread
    /\ read' = IF pc' = "small" \/ ans'.src = Zipped THEN {disk[st.path].ver} ELSE {}
    /\ cur' = 0
    /\ UNCHANGED <<disk, now, changes, req, st, meta, rem, out, rc, net, copy>>
----------------------------------------------------------------------------
(* How it is written. *)

Header(a) == <<"head", a.status, a.len>>
Bytes(src, from, n) == [i \in 1..n |-> <<src, from + i - 1>>]

\* The copy a client keeps of a 200 that has arrived.  Its validators are those of
\* the file that was asked for, its bytes perhaps those of the variant.
KeepCopy ==
    copy' = IF ans.status = 200 /\ st.path \in Files /\ ~HeadOnly
            THEN [path |-> st.path, size |-> st.size, stamp |-> st.stamp, ver |-> st.ver,
                  src |-> ans.src, vers |-> read']
            ELSE copy

Return(r) ==
    /\ pc' = "done"
    /\ rc' = r
    /\ IF r = "ok" THEN KeepCopy ELSE UNCHANGED copy

\* Mutant: a client that does not read is waited for without limit.
Broken_waits == net = "gone"

\* A write fails.  The descriptor is blocking while a request is served, so a
\* write to a client that has stalled lasts until it reads or goes; only the
\* SO_SNDTIMEO that accept_clients sets for TLS ends it.
Broken == net = "gone" \/ (net = "stalled" /\ req.tls)

\* write_response_headers, then send_file_body or client_writev_all.
WriteHeaders ==
    /\ pc = "headers"
    /\ net = "ok" \/ Broken
    /\ UNCHANGED read
    /\ IF net # "ok"
       THEN Return("fail") /\ UNCHANGED <<out, cur, rem>>
       ELSE /\ out' = Append(out, Header(ans))
            /\ cur' = ans.off
            /\ rem' = ans.len
            /\ IF HeadOnly \/ ans.len = 0
               THEN Return("ok")
               ELSE /\ pc' = IF ans.src \in {Text, Zipped} THEN "memory"
                             ELSE IF req.tls THEN "copy" ELSE "sendfile"
                    /\ UNCHANGED <<rc, copy>>
    /\ UNCHANGED <<disk, now, changes, req, st, meta, ans, net>>

\* n more bytes have been taken by the socket.
Sent(n) ==
    /\ out' = out \o Bytes(ans.src, cur, n)
    /\ read' = IF pc = "memory" THEN read ELSE read \cup {disk[ans.src].ver}
    /\ cur' = cur + n
    /\ rem' = rem - n
    /\ IF rem = n THEN Return("ok") ELSE UNCHANGED <<pc, rc, copy>>

WriteFails ==
    /\ pc \in {"memory", "copy", "sendfile"}
    /\ Broken
    /\ Return("fail")
    /\ UNCHANGED <<disk, now, changes, req, st, meta, ans, cur, rem, out, read, net>>

WriteMemory ==
    /\ pc = "memory" /\ net = "ok"
    /\ \E n \in 1..rem : Sent(n)
    /\ UNCHANGED <<disk, now, changes, req, st, meta, ans, net>>

\* What can be read from the descriptor at the current offset.
Available == {0, disk[ans.src].size - cur}

\* sendfile: some bytes, or none because the file has become shorter.
Sendfile ==
    /\ pc = "sendfile" /\ net = "ok"
    /\ LET left == Max(Available) IN
         IF left = 0 THEN Return("fail") /\ UNCHANGED <<out, cur, rem, read>>
         ELSE \E n \in 1..Min({rem, left}) : Sent(n)
    /\ UNCHANGED <<disk, now, changes, req, st, meta, ans, net>>

\* Mutant: the fallback starts over.
SendfileFallsBack_restart ==
    /\ pc = "sendfile" /\ net = "ok"
    /\ pc' = "copy"
    /\ cur' = ans.off
    /\ UNCHANGED <<disk, now, changes, req, st, meta, ans, rem, out, read, rc, net, copy>>

\* sendfile does not work for this file: copy_file_read_write goes on from current.
SendfileFallsBack ==
    /\ pc = "sendfile" /\ net = "ok"
    /\ pc' = "copy"
    /\ UNCHANGED <<disk, now, changes, req, st, meta, ans, cur, rem, out, read, rc, net, copy>>

\* copy_file_read_write: a read of at most a chunk and its write.
CopyChunk ==
    /\ pc = "copy" /\ net = "ok"
    /\ LET left == Max(Available) IN
         IF left = 0 THEN Return("fail") /\ UNCHANGED <<out, cur, rem, read>>
         ELSE \E n \in 1..Min({rem, left, ChunkMax}) : Sent(n)
    /\ UNCHANGED <<disk, now, changes, req, st, meta, ans, net>>

\* write_small_file_response: header and body in one writev, which may take any
\* part of them at a time ...
WriteSmall ==
    /\ pc = "small" /\ net = "ok"
    /\ UNCHANGED read
    /\ LET all == <<Header(ans)>> \o Bytes(ans.src, 0, ans.len) IN
         \E n \in 1..(Len(all) - cur) :
           /\ out' = out \o SubSeq(all, cur + 1, cur + n)
           /\ cur' = cur + n
           /\ IF cur + n = Len(all) THEN Return("ok") ELSE UNCHANGED <<pc, rc, copy>>
    /\ UNCHANGED <<disk, now, changes, req, st, meta, ans, rem, net>>

\* ... and when it fails send_file_fd goes on to the other way of sending.  That
\* fails too: an SSL object with a write pending takes no other.
SmallFails ==
    /\ pc = "small" /\ Broken
    /\ pc' = "headers"
    /\ net' = "gone"
    /\ UNCHANGED <<disk, now, changes, req, st, meta, ans, cur, rem, out, read, rc, copy>>

SendStep ==
    \/ send_file_fd \/ WriteHeaders \/ WriteFails \/ WriteMemory
    \/ Sendfile \/ SendfileFallsBack \/ CopyChunk
    \/ WriteSmall \/ SmallFails
----------------------------------------------------------------------------
(* Properties. *)

\* The bytes a range asks for, as RFC 9110 defines them.
Wanted(r, total) ==
    {i \in 0..(total - 1) :
        IF r.suffix THEN i >= total - r.start ELSE r.start <= i /\ (r.end # -1 => i <= r.end)}

\* The bytes a response with this answer is to bring: for a range those the range
\* asks for.
Owed(a) == IF a.status = 206 THEN Wanted(req.range, st.size) ELSE 0..(a.len - 1)

\* The client has received a header that announces them all and, unless it asked for
\* the header only, each of them once and in order.
Received(a) ==
    LET bytes == 2..Len(out) IN
    /\ Len(out) = IF HeadOnly THEN 1 ELSE 1 + Cardinality(Owed(a))
    /\ out[1] = <<"head", a.status, Cardinality(Owed(a))>>
    /\ ~HeadOnly => {out[i][2] : i \in bytes} = Owed(a)
    /\ \A i \in bytes : out[i][1] = a.src
    /\ \A i, j \in bytes : i < j => out[i][2] < out[j][2]

\* When send_file_fd reports success the client has received one header and
\* exactly the bytes it announces, in order: for a range those the range asks
\* for; 416 is given when it asks for none.  When it reports failure the client
\* can tell, because bytes are missing.  Partial writes, the fallback from
\* sendfile, the second attempt after a small response and files that change
\* meanwhile do not matter.
ResponseExact ==
    pc = "done" /\ ans # NoAnswer =>
        /\ rc = "ok" => Received(ans)
        /\ rc = "fail" => out = <<>> \/ Len(out) <= ans.len
        /\ ans.status = 416 => Wanted(req.range, st.size) = {}

\* A 304 is given only while the file that was asked for is still the version the
\* client's validators came with, and then the client's copy holds bytes of that
\* version and no other, also when the file changed while the copy was sent; whatever
\* the metadata cache remembers.  Excepted is what the validators cannot tell: a
\* change since the copy that did not move the mtime on, and the bytes of a copy made
\* of the precompressed variant, of which they say nothing.
NotModifiedIsHonest ==
    ans.status = 304 =>
        \/ copy.ver < st.slip
        \/ /\ st.ver = copy.ver
           /\ copy.src = VariantOf[st.path] \/ copy.vers \subseteq {st.ver}
=============================================================================
