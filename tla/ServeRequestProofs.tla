------------------------- MODULE ServeRequestProofs -------------------------
(***************************************************************************)
(* Proofs about static responses and the rate limiter for every site,      *)
(* every set of files and any number of clients: no source is sent, a 304  *)
(* is honest, a response holds exactly the bytes it owes, a client that    *)
(* waits as long as Retry-After says is let in, and no client gets twice   *)
(* its quota in a window.                                                  *)
(***************************************************************************)
EXTENDS ServeRequest, SequenceFacts, FiniteSetTheorems, SequenceTheorems, TLAPS

FileRecord   == [size : Nat, stamp : Nat, ver : Nat, slip : Nat]
StatRecord   == [path : Open \cup {NoFile}, size : Nat, stamp : Nat, ver : Nat, slip : Nat]
MetaRecord   == [path : Files \cup {NoFile}, size : Nat, stamp : Nat]
Sources      == Open \cup {NoFile, Text, Zipped}
AnswerRecord == [status : Nat, src : Sources, off : Nat, len : Nat]
CopyRecord   == [path : Open \cup {NoFile}, size : Nat, stamp : Nat, ver : Nat, src : Sources,
                 vers : SUBSET Nat]
BucketRecord == [ip : Ips \cup {NoIp}, start : Nat, count : Nat]
Buckets      == {BucketOf[i] : i \in Ips}

\* What a client may receive: headers, and bytes of what may be sent.
Units == ({"head"} \X Nat \X Int) \cup (Sources \X Int)

\* Types of a worker's state; that out consists of Units says what is never sent.
ServeTypeOK ==
    /\ site \in DOMAIN Config
    /\ disk \in [Files -> FileRecord] /\ now \in Nat
    /\ pc \in {"idle", "route", "proxy", "relay", "static", "meta", "file", "headers", "small",
               "memory", "sendfile", "copy", "done"}
    /\ pc # "idle" => (req \in Requests /\ ip \in Ips)
    /\ st \in StatRecord /\ meta \in MetaRecord /\ ans \in AnswerRecord /\ copy \in CopyRecord
    /\ cur \in Nat /\ rem \in Int
    /\ out \in Seq(Units) /\ read \in SUBSET Nat
    /\ bucket \in [Buckets -> BucketRecord]
    /\ slots \in [0..(MetaSlots - 1) -> MetaRecord] /\ clock \in 0..(MetaSlots - 1)
    /\ promise \in [Ips -> Nat]

\* r was taken of a file that is now as f says: its mtime tells the version, unless a
\* change in between did not move the mtime on.
Earlier(r, f) ==
    /\ r.ver <= f.ver
    /\ f.slip <= r.ver => (r.stamp <= f.stamp /\ (r.stamp = f.stamp => r.ver = f.ver))

\* Bytes of these versions were read from the file since r was taken of it.
ReadBetween(vers, r, f) == \A v \in vers : r.ver <= v /\ v <= f.ver

\* What fstat returned, the copy and their bytes come from versions of the file that
\* it has had, in this order; the bytes of a variant do not count.
StampsSound ==
    /\ st.path \in Files => Earlier(st, disk[st.path])
    /\ copy.path \in Files =>
         /\ Earlier(copy, disk[copy.path])
         /\ copy.src # VariantOf[copy.path] => ReadBetween(copy.vers, copy, disk[copy.path])

\* So do the bytes of a response that is under way.
ReadSound ==
    (/\ pc \in {"headers", "small", "memory", "sendfile", "copy"}
     /\ ans.status = 200 /\ ans.src # VariantOf[st.path]) =>
        ans.src \in {st.path, Zipped} /\ ReadBetween(read, st, disk[st.path])

\* A copy compared with the file as fstat saw it.
CopyCompares ==
    /\ Earlier(copy, st)
    /\ copy.src # VariantOf[st.path] => ReadBetween(copy.vers, copy, st)

\* Before an answer is chosen there is none, nor metadata; a conditional request is
\* for the file the client has a copy of; the metadata is that of the file; and bytes
\* are read from a file that may be sent.
ChoiceSound ==
    /\ pc \in {"idle", "route", "proxy", "relay", "static", "meta"} => ans = NoAnswer /\ meta = NoMeta
    /\ pc \in {"meta", "file"} => st.path \in Open
    /\ (pc \in {"route", "proxy", "static"} /\ req.cond # "none") => copy.path = req.path
    /\ (pc = "meta" \/ (pc = "file" /\ ans.status = 200)) =>
         (req.cond # "none" => CopyCompares)
    /\ meta # NoMeta => (meta.size = st.size /\ meta.stamp = st.stamp)
    /\ ans.src = NoFile => ans.len = 0
    /\ pc \in {"sendfile", "copy"} => ans.src \in Open

\* A Retry-After that is still owed names the end of the window its bucket counts.
PromisesSound ==
    \A i \in Ips : (promise[i] # 0 /\ bucket[BucketOf[i]].ip = i) =>
        promise[i] = bucket[BucketOf[i]].start + cfg.window

ServeInv ==
    /\ ServeTypeOK
    /\ StampsSound
    /\ ReadSound
    /\ ChoiceSound
    /\ PromisesSound
    /\ NotModifiedIsHonest

\* The fields of a file on disk.
LEMMA FileParts ==
    ASSUME NEW r \in FileRecord
    PROVE  r.size \in Nat /\ r.stamp \in Nat /\ r.ver \in Nat /\ r.slip \in Nat
  BY DEF FileRecord

\* The fields of what fstat returned.
LEMMA StatParts ==
    ASSUME NEW r \in StatRecord
    PROVE  /\ r.path \in Open \cup {NoFile} /\ r.size \in Nat /\ r.stamp \in Nat
           /\ r.ver \in Nat /\ r.slip \in Nat
  BY DEF StatRecord

\* The fields of a client's copy.
LEMMA CopyParts ==
    ASSUME NEW r \in CopyRecord
    PROVE  /\ r.path \in Open \cup {NoFile} /\ r.size \in Nat /\ r.stamp \in Nat
           /\ r.ver \in Nat /\ r.vers \in SUBSET Nat
  BY DEF CopyRecord

\* The fields of an entry of the metadata cache.
LEMMA MetaParts ==
    ASSUME NEW r \in MetaRecord
    PROVE  r.path \in Files \cup {NoFile} /\ r.size \in Nat /\ r.stamp \in Nat
  BY DEF MetaRecord

\* The fields of an answer.
LEMMA AnswerParts ==
    ASSUME NEW r \in AnswerRecord
    PROVE  r.status \in Nat /\ r.src \in Sources /\ r.off \in Nat /\ r.len \in Nat
  BY DEF AnswerRecord

\* An answer is built of typed parts.
LEMMA AnswerType ==
    ASSUME NEW status \in Nat, NEW src \in Sources, NEW off \in Nat, NEW len \in Nat
    PROVE  /\ Answer(status, src, off, len) \in AnswerRecord
           /\ Answer(status, src, off, len).status = status
           /\ Answer(status, src, off, len).src = src /\ Answer(status, src, off, len).len = len
  BY DEF Answer, AnswerRecord

\* The fields of a request.
LEMMA RequestFields ==
    ASSUME NEW r \in Requests
    PROVE  /\ r.path \in DOMAIN Kind /\ r.cond \in {"none", "etag", "since"}
           /\ r.range.start \in Nat /\ r.range.end \in Int /\ r.range.suffix \in BOOLEAN
           /\ r.range.present \in BOOLEAN
  BY DEF Requests

\* The values that stand for nothing are typed.
LEMMA NoneTyped ==
    /\ NoStat \in StatRecord /\ NoMeta \in MetaRecord /\ NoAnswer \in AnswerRecord
    /\ NoCopy \in CopyRecord
    /\ NoStat.path = NoFile /\ NoCopy.path = NoFile /\ NoAnswer.status = 0
  BY DEF NoStat, NoCopy, NoMeta, NoAnswer, StatRecord, CopyRecord, MetaRecord, AnswerRecord, Sources

\* The markers are no paths.
LEMMA MarkersNoFiles ==
    /\ NoFile \notin Files /\ Text \notin Files /\ Zipped \notin Files /\ "head" \notin Files
    /\ NoFile \notin DOMAIN Kind /\ "ENOENT" \notin DOMAIN Kind
    /\ Open \subseteq Files /\ Files \subseteq DOMAIN Kind
  BY SiteAssumption DEF Open

\* open and fstat of a file that may be sent.
LEMMA FstatType ==
    ASSUME ServeTypeOK, NEW p \in Open
    PROVE  /\ Fstat(p) \in StatRecord /\ Fstat(p).path = p
           /\ Earlier(Fstat(p), disk[p])
           /\ \A r : Earlier(r, Fstat(p)) <=> Earlier(r, disk[p])
           /\ \A vers, r : ReadBetween(vers, r, Fstat(p)) <=> ReadBetween(vers, r, disk[p])
<1>1. disk[p] \in FileRecord
  BY MarkersNoFiles DEF ServeTypeOK
<1>2. /\ disk[p].size \in Nat /\ disk[p].stamp \in Nat /\ disk[p].ver \in Nat
      /\ disk[p].slip \in Nat
  BY <1>1, FileParts
<1> QED
  BY <1>2 DEF Fstat, StatRecord, Earlier, ReadBetween

\* A version of a file stays earlier than what the file becomes.
LEMMA EarlierStill ==
    ASSUME NEW r, r.ver \in Nat, r.stamp \in Nat, NEW f \in FileRecord, NEW g \in FileRecord,
           Earlier(r, f), g.ver = f.ver + 1,
           g.slip = IF g.stamp > f.stamp THEN f.slip ELSE f.ver + 1
    PROVE  Earlier(r, g)
<1>1. /\ f.stamp \in Nat /\ f.ver \in Nat /\ f.slip \in Nat
      /\ g.stamp \in Nat /\ g.ver \in Nat /\ g.slip \in Nat
  BY FileParts
<1>2. r.ver <= g.ver
  BY <1>1 DEF Earlier
<1>3. ASSUME g.slip <= r.ver PROVE r.stamp < g.stamp
  BY <1>1, <1>3 DEF Earlier
<1> QED
  BY <1>1, <1>2, <1>3 DEF Earlier

\* Nothing has been asked for at the start.
LEMMA ServeInitHolds == Init => ServeInv
<1> SUFFICES ASSUME Init PROVE ServeInv
  OBVIOUS
<1>1. disk \in [Files -> FileRecord] /\ \A f \in Files : disk[f].stamp = 0
  BY FileAssumption DEF Init, FileRecord
<1>2. bucket \in [Buckets -> BucketRecord]
  BY DEF Init, Buckets, BucketRecord
<1>3. slots \in [0..(MetaSlots - 1) -> MetaRecord] /\ clock \in 0..(MetaSlots - 1)
  BY NoneTyped, SiteAssumption DEF Init
<1>4. out \in Seq(Units) /\ read \in SUBSET Nat
  BY EmptySeq DEF Init
<1>5. promise \in [Ips -> Nat] /\ \A i \in Ips : promise[i] = 0
  BY DEF Init
<1>6. ServeTypeOK
  BY <1>1, <1>2, <1>3, <1>4, <1>5, NoneTyped DEF Init, ServeTypeOK
<1>7. StampsSound
  BY NoneTyped, MarkersNoFiles DEF Init, StampsSound
<1>8. ChoiceSound /\ ReadSound
  BY DEF Init, ChoiceSound, NoAnswer, ReadSound
<1>9. PromisesSound
  BY <1>5 DEF PromisesSound
<1>10. NotModifiedIsHonest
  BY NoneTyped DEF Init, NotModifiedIsHonest
<1> QED
  BY <1>6, <1>7, <1>8, <1>9, <1>10 DEF ServeInv

\* What a response that has arrived whole leaves with the client.
Kept == [path |-> st.path, size |-> st.size, stamp |-> st.stamp, ver |-> st.ver,
         src |-> ans.src, vers |-> read']

CopyKept == copy' = copy \/ (ans.status = 200 /\ st.path \in Files /\ copy' = Kept)

\* Bytes are read of the file as it is now.
ReadNow == read' = read \/ (pc \in {"sendfile", "copy"} /\ read' = read \cup {disk[ans.src].ver})

\* A step that writes to the client or ends the response.
LEMMA WritingHolds ==
    ASSUME ServeInv,
           UNCHANGED <<disk, now, req, st, meta, ans, site, ip, bucket, slots, clock, promise>>,
           pc \in {"headers", "small", "memory", "sendfile", "copy"},
           pc' \in {"headers", "small", "memory", "sendfile", "copy", "done"},
           pc' \in {"sendfile", "copy"} => ans.src \in Open,
           cur' \in Nat, rem' \in Int, out' \in Seq(Units),
           CopyKept, ReadNow
    PROVE  ServeInv'
<1>0. ServeTypeOK /\ StampsSound /\ ChoiceSound /\ PromisesSound /\ NotModifiedIsHonest
      /\ ReadSound
  BY DEF ServeInv
<1>1. ServeTypeOK'
  <2>1. read' \in SUBSET Nat
    <3>1. read \in SUBSET Nat
      BY <1>0 DEF ServeTypeOK
    <3>2. ASSUME pc \in {"sendfile", "copy"} PROVE disk[ans.src].ver \in Nat
      <4>1. disk[ans.src] \in FileRecord
        BY <1>0, <3>2, MarkersNoFiles DEF ServeTypeOK, ChoiceSound
      <4> QED
        BY <4>1, FileParts
    <3> QED
      BY <3>1, <3>2 DEF ReadNow
  <2>2. copy' \in CopyRecord
    <3>1. /\ st.path \in Open \cup {NoFile} /\ st.size \in Nat /\ st.stamp \in Nat
          /\ st.ver \in Nat /\ ans.src \in Sources
      BY <1>0, StatParts, AnswerParts DEF ServeTypeOK
    <3>2. Kept \in CopyRecord
      BY <2>1, <3>1 DEF Kept, CopyRecord
    <3> QED
      BY <1>0, <3>2 DEF CopyKept, ServeTypeOK
  <2> QED
    BY <1>0, <2>1, <2>2 DEF ServeTypeOK
<1>r. ASSUME ans.status = 200, ans.src # VariantOf[st.path]
      PROVE  ans.src \in {st.path, Zipped} /\ ReadBetween(read', st, disk[st.path])
  <2>1. ans.src \in {st.path, Zipped} /\ ReadBetween(read, st, disk[st.path])
    BY <1>0, <1>r DEF ReadSound
  <2>2. CASE read' = read
    BY <2>1, <2>2
  <2>3. CASE pc \in {"sendfile", "copy"} /\ read' = read \cup {disk[ans.src].ver}
    <3>1. ans.src \in Files /\ ans.src = st.path
      BY <1>0, <2>1, <2>3, MarkersNoFiles DEF ChoiceSound
    <3>2. st.ver <= disk[st.path].ver
      BY <1>0, <3>1 DEF StampsSound, Earlier
    <3>3. disk[st.path].ver \in Nat
      BY <1>0, <3>1, FileParts DEF ServeTypeOK
    <3> QED
      BY <2>1, <2>3, <3>1, <3>2, <3>3 DEF ReadBetween
  <2> QED
    BY <2>2, <2>3 DEF ReadNow
<1>2. StampsSound'
  <2>1. CASE copy' = copy
    BY <1>0, <2>1 DEF StampsSound
  <2>2. CASE ans.status = 200 /\ st.path \in Files /\ copy' = Kept
    <3>1. Earlier(st, disk[st.path])
      BY <1>0, <2>2 DEF StampsSound
    <3>2. /\ copy'.path = st.path /\ copy'.stamp = st.stamp /\ copy'.ver = st.ver
          /\ copy'.src = ans.src /\ copy'.vers = read'
      BY <2>2 DEF Kept
    <3>3. Earlier(copy', disk[st.path])
      BY <3>1, <3>2 DEF Earlier
    <3>4. copy'.src # VariantOf[st.path] => ReadBetween(copy'.vers, copy', disk[st.path])
      BY <1>r, <2>2, <3>2 DEF ReadBetween
    <3> QED
      BY <3>1, <3>2, <3>3, <3>4 DEF StampsSound
  <2> QED
    BY <2>1, <2>2 DEF CopyKept
<1>3. ChoiceSound'
  <2>1. pc' \notin {"meta", "file"}
    OBVIOUS
  <2> QED
    BY <1>0, <2>1 DEF ChoiceSound
<1>4. PromisesSound'
  BY <1>0 DEF PromisesSound, cfg
<1>5. NotModifiedIsHonest'
  BY <1>0 DEF NotModifiedIsHonest, CopyKept
<1>6. ReadSound'
  BY <1>r DEF ReadSound
<1> QED
  BY <1>1, <1>2, <1>3, <1>4, <1>5, <1>6 DEF ServeInv

\* n bytes of what may be sent.
LEMMA BytesType ==
    ASSUME NEW src \in Sources, NEW from \in Nat, NEW n \in Nat
    PROVE  Bytes(src, from, n) \in Seq(Units) /\ Len(Bytes(src, from, n)) = n
<1>1. \A i \in 1..n : <<src, from + i - 1>> \in Units
  BY DEF Units
<1> QED
  BY <1>1 DEF Bytes

\* A client keeps a copy of a 200 only.
LEMMA ReturnKeepsCopy ==
    ASSUME NEW r, Return(r)
    PROVE  pc' = "done" /\ CopyKept
  BY DEF Return, KeepCopy, CopyKept, Kept

\* A write appends bytes of the answer's source and no others.
LEMMA SentHolds ==
    ASSUME ServeInv, NEW n \in Nat, Sent(n), pc \in {"memory", "copy", "sendfile"}
    PROVE  /\ cur' \in Nat /\ rem' \in Int /\ out' \in Seq(Units)
           /\ pc' \in {pc, "done"}
           /\ CopyKept /\ ReadNow
<1>0. cur \in Nat /\ rem \in Int /\ out \in Seq(Units) /\ ans.src \in Sources
  BY AnswerParts DEF ServeInv, ServeTypeOK
<1>1. cur' = cur + n /\ rem' = rem - n /\ out' = out \o Bytes(ans.src, cur, n)
  BY DEF Sent
<1>2. out' \in Seq(Units)
  BY <1>0, <1>1, BytesType, ConcatProperties
<1>3. pc' \in {pc, "done"} /\ CopyKept
  BY ReturnKeepsCopy DEF Sent, CopyKept
<1>4. ReadNow
  BY DEF Sent, ReadNow
<1> QED
  BY <1>0, <1>1, <1>2, <1>3, <1>4

\* The smaller and the larger of two integers are integers.
LEMMA TwoIntegers ==
    ASSUME NEW a \in Int, NEW b \in Int
    PROVE  Max({a, b}) \in Int /\ Min({a, b}) \in Int
<1>1. \E x \in {a, b} : \A y \in {a, b} : x >= y
  OBVIOUS
<1>2. \E x \in {a, b} : \A y \in {a, b} : x =< y
  OBVIOUS
<1> QED
  BY <1>1, <1>2 DEF Max, Min

\* So is the smallest of three.
LEMMA ThreeIntegers ==
    ASSUME NEW a \in Int, NEW b \in Int, NEW c \in Int
    PROVE  Min({a, b, c}) \in Int
<1>1. \E x \in {a, b, c} : \A y \in {a, b, c} : x =< y
  OBVIOUS
<1> QED
  BY <1>1 DEF Min

\* Every way of sending, and of failing to, keeps the invariant.
LEMMA WriteStepHolds ==
    ASSUME ServeInv, UNCHANGED serveVars,
           WriteHeaders \/ WriteFails \/ WriteMemory \/ Sendfile \/ SendfileFallsBack
             \/ CopyChunk \/ WriteSmall \/ SmallFails
    PROVE  ServeInv'
<1>0. /\ cur \in Nat /\ rem \in Int /\ out \in Seq(Units) /\ ans \in AnswerRecord
      /\ ans.src \in Sources /\ ans.off \in Nat /\ ans.len \in Nat /\ ans.status \in Nat
      /\ ans.src = NoFile => ans.len = 0
      /\ pc \in {"sendfile", "copy"} => ans.src \in Open
  BY AnswerParts DEF ServeInv, ServeTypeOK, ChoiceSound
<1>1. UNCHANGED <<site, ip, bucket, slots, clock, promise>>
  BY DEF serveVars
<1>2. <<Header(ans)>> \in Seq(Units) /\ Header(ans) \in Units
  BY <1>0 DEF Header, Units
<1>3. CASE WriteHeaders
  <2>1. UNCHANGED <<disk, now, req, st, meta, ans>> /\ pc = "headers"
    BY <1>3 DEF WriteHeaders
  <2>2. out' \in Seq(Units) /\ cur' \in Nat /\ rem' \in Int
    BY <1>0, <1>2, <1>3, AppendProperties, SMTT(30) DEF WriteHeaders
  <2>3. /\ pc' \in {"headers", "small", "memory", "sendfile", "copy", "done"}
        /\ pc' \in {"sendfile", "copy"} => ans.src \in Open
        /\ CopyKept /\ ReadNow
    BY <1>0, <1>3, ReturnKeepsCopy DEF WriteHeaders, Sources, CopyKept, ReadNow
  <2> QED
    BY <1>1, <2>1, <2>2, <2>3, WritingHolds
<1>4. CASE WriteFails
  BY <1>0, <1>1, <1>4, WritingHolds DEF WriteFails, Return, CopyKept, ReadNow
<1>5. CASE WriteMemory
  <2>1. PICK n \in 1..rem : Sent(n)
    BY <1>5 DEF WriteMemory
  <2>2. n \in Nat
    BY <1>0
  <2>3. UNCHANGED <<disk, now, req, st, meta, ans>> /\ pc = "memory"
    BY <1>5 DEF WriteMemory
  <2> QED
    BY <1>1, <2>1, <2>2, <2>3, SentHolds, WritingHolds
<1>6. CASE Sendfile \/ CopyChunk
  <2>1. UNCHANGED <<disk, now, req, st, meta, ans>> /\ pc \in {"sendfile", "copy"}
    BY <1>6 DEF Sendfile, CopyChunk
  <2>2. CASE Return("fail") /\ UNCHANGED <<out, cur, rem, read>>
    BY <1>0, <1>1, <2>1, <2>2, ReturnKeepsCopy, WritingHolds DEF ReadNow
  <2>3. CASE \E n \in Nat : Sent(n)
    BY <1>0, <1>1, <2>1, <2>3, SentHolds, WritingHolds
  <2>4. \/ Return("fail") /\ UNCHANGED <<out, cur, rem, read>>
        \/ \E n \in 1..Min({rem, Max(Available)}) : Sent(n)
        \/ \E n \in 1..Min({rem, Max(Available), ChunkMax}) : Sent(n)
    BY <1>6 DEF Sendfile, CopyChunk
  <2>5. Min({rem, Max(Available)}) \in Int /\ Min({rem, Max(Available), ChunkMax}) \in Int
    <3> DEFINE x == disk[ans.src].size - cur
               m == Max({0, x})
    <3>1. disk[ans.src] \in FileRecord
      BY <1>0, <2>1, MarkersNoFiles DEF ServeInv, ServeTypeOK
    <3>2. x \in Int /\ 0 \in Int /\ ChunkMax \in Int
      BY <1>0, <3>1, FileParts, FileAssumption
    <3>3. m \in Int
      <4> HIDE DEF x
      <4> QED
        BY <3>2, TwoIntegers
    <3>4. Max(Available) = m
      BY DEF Available
    <3> HIDE DEF m
    <3>5. Min({rem, m}) \in Int /\ Min({rem, m, ChunkMax}) \in Int
      BY <1>0, <3>2, <3>3, TwoIntegers, ThreeIntegers
    <3> QED
      BY <3>4, <3>5
  <2>6. \A k \in Int : \A n \in 1..k : n \in Nat
    OBVIOUS
  <2> QED
    BY <2>2, <2>3, <2>4, <2>5, <2>6
<1>7. CASE SendfileFallsBack
  BY <1>0, <1>1, <1>7, WritingHolds DEF SendfileFallsBack, CopyKept, ReadNow
<1>8. CASE SmallFails
  BY <1>0, <1>1, <1>8, WritingHolds DEF SmallFails, CopyKept, ReadNow
<1>9. CASE WriteSmall
  <2> DEFINE b == Bytes(ans.src, 0, ans.len)
             all == <<Header(ans)>> \o b
  <2>1. UNCHANGED <<disk, now, req, st, meta, ans>> /\ pc = "small" /\ rem' = rem /\ ReadNow
    BY <1>9 DEF WriteSmall, ReadNow
  <2>2. PICK n \in 1..(Len(all) - cur) :
           /\ out' = out \o SubSeq(all, cur + 1, cur + n)
           /\ cur' = cur + n
           /\ IF cur + n = Len(all) THEN Return("ok") ELSE UNCHANGED <<pc, rc, copy>>
    BY <1>9 DEF WriteSmall
  <2>3. pc' \in {pc, "done"} /\ CopyKept
    BY <2>2, ReturnKeepsCopy DEF CopyKept
  <2>4. all \in Seq(Units)
    <3>1. ans.len \in Nat
      BY <1>0
    <3>2. b \in Seq(Units)
      BY <1>0, <3>1, BytesType
    <3> HIDE DEF b
    <3> QED
      BY <1>2, <3>2, ConcatProperties
  <2> HIDE DEF all
  <2>5. Len(all) \in Nat /\ n \in Nat \ {0} /\ cur + n <= Len(all)
    BY <1>0, <2>4, LenProperties
  <2>6. SubSeq(all, cur + 1, cur + n) \in Seq(Units)
    BY <1>0, <2>4, <2>5, SubSeqProperties
  <2>7. out' \in Seq(Units)
    BY <1>0, <2>2, <2>6, ConcatProperties
  <2> QED
    BY <1>0, <1>1, <2>1, <2>2, <2>3, <2>5, <2>7, WritingHolds
<1> QED
  BY <1>3, <1>4, <1>5, <1>6, <1>7, <1>8, <1>9

\* The answer to a range.
LEMMA RangeType ==
    ASSUME NEW r, r.start \in Nat, r.end \in Int, r.suffix \in BOOLEAN, NEW total \in Nat,
           RangeValid(r, total)
    PROVE  /\ RangeStart(r, total) \in Nat
           /\ RangeEnd(r, total) - RangeStart(r, total) + 1 \in Nat
  BY DEF RangeValid, RangeStart, RangeEnd

\* What a 304 says of the client's copy.
CopyGood ==
    \/ copy.ver < st.slip
    \/ /\ st.ver = copy.ver
       /\ copy.src = VariantOf[st.path] \/ copy.vers \subseteq {st.ver}

\* send_file_fd chooses an answer for the file that was opened.
LEMMA ChoosesHolds ==
    ASSUME ServeInv, NEW a \in AnswerRecord,
           pc = "file", pc' \in {"headers", "small"}, ans' = a, cur' = 0,
           UNCHANGED <<disk, now, req, st, meta, rem, out, copy,
                       site, ip, bucket, slots, clock, promise>>,
           read' \in {{}, {disk[st.path].ver}},
           a.src = NoFile => a.len = 0,
           a.status = 200 => a.src \in {st.path, Zipped, VariantOf[st.path]},
           a.status = 304 => CopyGood
    PROVE  ServeInv'
<1>0. ServeTypeOK /\ StampsSound /\ ChoiceSound /\ PromisesSound
  BY DEF ServeInv
<1>p. /\ st.path \in Files /\ disk[st.path].ver \in Nat /\ st.ver \in Nat
      /\ st.ver <= disk[st.path].ver
  <2>1. st.path \in Files
    BY <1>0, MarkersNoFiles DEF ChoiceSound
  <2> QED
    BY <1>0, <2>1, StatParts, FileParts DEF ServeTypeOK, StampsSound, Earlier
<1>1. ServeTypeOK'
  <2>1. read' \in SUBSET Nat
    BY <1>p
  <2> QED
    BY <1>0, <2>1 DEF ServeTypeOK
<1>2. StampsSound'
  BY <1>0 DEF StampsSound
<1>3. ChoiceSound'
  BY <1>0 DEF ChoiceSound
<1>4. PromisesSound'
  BY <1>0 DEF PromisesSound, cfg
<1>5. NotModifiedIsHonest'
  BY DEF NotModifiedIsHonest, CopyGood
<1>6. ReadSound'
  BY <1>p DEF ReadSound, ReadBetween
<1> QED
  BY <1>1, <1>2, <1>3, <1>4, <1>5, <1>6 DEF ServeInv

\* Each answer send_file_fd chooses has a source that may be sent, and a 304 is
\* chosen only for a validator that matches the file as it is.
LEMMA SendFileHolds ==
    ASSUME ServeInv, UNCHANGED serveVars, send_file_fd
    PROVE  ServeInv'
<1>0. ServeTypeOK /\ StampsSound /\ ChoiceSound
  BY DEF ServeInv
<1>1. /\ pc = "file" /\ cur' = 0
      /\ UNCHANGED <<disk, now, req, st, meta, rem, out, copy,
                     site, ip, bucket, slots, clock, promise>>
  BY DEF send_file_fd, serveVars
<1>2. /\ st.path \in Open /\ st.path \in Files /\ st.path \in Sources /\ st.path # NoFile
      /\ st.size \in Nat /\ st.stamp \in Nat /\ st.ver \in Nat /\ st.slip \in Nat
      /\ copy.stamp \in Nat /\ copy.ver \in Nat /\ copy.vers \in SUBSET Nat
      /\ ans.status \in Nat
      /\ read' \in {{}, {disk[st.path].ver}}
  <2>1. read' \in {{}, {disk[st.path].ver}}
    BY DEF send_file_fd
  <2> QED
    BY <1>0, <1>1, <2>1, StatParts, CopyParts, AnswerParts, MarkersNoFiles
       DEF ServeTypeOK, ChoiceSound, Sources
<1>3. /\ req.cond \in {"none", "etag", "since"}
      /\ req.range.start \in Nat /\ req.range.end \in Int /\ req.range.suffix \in BOOLEAN
  BY <1>0, <1>1, RequestFields DEF ServeTypeOK
<1>a. 0 \in Nat /\ 1 \in Nat /\ 200 \in Nat /\ 206 \in Nat /\ 304 \in Nat /\ 416 \in Nat
  OBVIOUS
<1>4. NoFile \in Sources /\ Zipped \in Sources /\ Zipped # NoFile
  BY DEF Sources, Zipped, NoFile
<1>5. CASE /\ ans.status = 200 /\ ValidatorMatches
           /\ pc' = "headers" /\ ans' = Answer(304, NoFile, 0, 0)
  <2> DEFINE a == Answer(304, NoFile, 0, 0)
  <2>1. a \in AnswerRecord /\ a.len = 0 /\ a.status = 304
    BY <1>4, <1>a, AnswerType
  <2>2. CopyGood
    <3>1. req.cond # "none"
      BY <1>5 DEF ValidatorMatches
    <3>2. CopyCompares
      BY <1>0, <1>1, <1>5, <3>1 DEF ChoiceSound
    <3>3. st.stamp <= copy.stamp
      <4>1. CASE req.cond = "etag" /\ meta # NoMeta /\ copy.stamp = meta.stamp
        BY <1>0, <1>2, <4>1 DEF ChoiceSound
      <4> QED
        BY <1>5, <4>1 DEF ValidatorMatches
    <3>4. CASE st.slip <= copy.ver
      <4>1. st.ver = copy.ver
        BY <1>2, <3>2, <3>3, <3>4 DEF CopyCompares, Earlier
      <4>2. copy.src # VariantOf[st.path] => copy.vers \subseteq {st.ver}
        BY <1>2, <3>2, <4>1 DEF CopyCompares, ReadBetween
      <4> QED
        BY <4>1, <4>2 DEF CopyGood
    <3> QED
      BY <1>2, <3>4 DEF CopyGood
  <2> HIDE DEF a
  <2>3. ans' = a
    BY <1>5 DEF a
  <2> QED
    BY <1>1, <1>2, <1>5, <2>1, <2>2, <2>3, ChoosesHolds
<1>6. CASE pc' = "headers" /\ ans' = RangeAnswer(req.range)
  <2>1. CASE RangeValid(req.range, st.size)
    <3> DEFINE off == RangeStart(req.range, st.size)
               len == RangeEnd(req.range, st.size) - RangeStart(req.range, st.size) + 1
               a == Answer(206, st.path, off, len)
    <3>1. off \in Nat /\ len \in Nat
      BY <1>2, <1>3, <2>1, RangeType
    <3> HIDE DEF off, len
    <3>2. a \in AnswerRecord /\ a.status = 206 /\ a.src = st.path
      BY <1>2, <1>a, <3>1 DEF Answer, AnswerRecord
    <3>3. ans' = a
      BY <1>6, <2>1 DEF RangeAnswer, off, len
    <3> HIDE DEF a
    <3> QED
      BY <1>1, <1>2, <1>6, <3>2, <3>3, ChoosesHolds
  <2>2. CASE ~RangeValid(req.range, st.size)
    <3> DEFINE a == Answer(416, NoFile, 0, 0)
    <3>1. a \in AnswerRecord /\ a.status = 416 /\ a.len = 0
      BY <1>4, <1>a, AnswerType
    <3>2. ans' = a
      BY <1>6, <2>2 DEF RangeAnswer
    <3> HIDE DEF a
    <3> QED
      BY <1>1, <1>2, <1>6, <3>1, <3>2, ChoosesHolds
  <2> QED
    BY <2>1, <2>2
<1>7. CASE HasVariant /\ pc' = "headers" /\
           ans' = Answer(200, VariantOf[st.path], 0, disk[VariantOf[st.path]].size)
  <2> DEFINE v == VariantOf[st.path]
             n == disk[v].size
             a == Answer(200, v, 0, n)
  <2>1. v \in Open /\ v \in Files /\ v \in Sources /\ v # NoFile
    BY <1>2, <1>7, OperatorAssumption, MarkersNoFiles DEF HasVariant, Sources
  <2>2. n \in Nat
    BY <1>0, <2>1, FileParts DEF ServeTypeOK
  <2>3. ans' = a
    BY <1>7
  <2>5. v = VariantOf[st.path]
    OBVIOUS
  <2> HIDE DEF v, n
  <2>4. a \in AnswerRecord /\ a.status = 200 /\ a.src = v
    BY <1>a, <2>1, <2>2, AnswerType
  <2> HIDE DEF a
  <2> QED
    BY <1>1, <1>2, <1>7, <2>1, <2>3, <2>4, <2>5, ChoosesHolds
<1>8. CASE pc' = "headers" /\ ans' = Answer(200, Zipped, 0, 1)
  <2> DEFINE a == Answer(200, Zipped, 0, 1)
  <2>1. a \in AnswerRecord /\ a.status = 200 /\ a.src = Zipped
    BY <1>4, <1>a, AnswerType
  <2>2. ans' = a
    BY <1>8
  <2> HIDE DEF a
  <2> QED
    BY <1>1, <1>2, <1>4, <1>8, <2>1, <2>2, ChoosesHolds
<1>9. CASE /\ ans.status # 200 \/ ~ValidatorMatches
           /\ pc' \in {"small", "headers"}
           /\ ans' = Answer(ans.status, st.path, 0, st.size)
  <2> DEFINE a == Answer(ans.status, st.path, 0, st.size)
  <2>1. a \in AnswerRecord /\ a.status = ans.status /\ a.src = st.path
    BY <1>2, <1>a DEF Answer, AnswerRecord
  <2>2. ans' = a
    BY <1>9
  <2>3. ans.status = 304 => CopyGood
    BY DEF ServeInv, NotModifiedIsHonest, CopyGood
  <2> HIDE DEF a
  <2> QED
    BY <1>1, <1>2, <1>9, <2>1, <2>2, <2>3, ChoosesHolds
<1> QED
  BY <1>5, <1>6, <1>7, <1>8, <1>9 DEF send_file_fd

\* try_open_static finds a file or says why not.
LEMMA OpensFile ==
    ASSUME NEW p \in DOMAIN Kind
    PROVE  /\ TryOpen(p) \in Files \cup {"EISDIR", "EACCES", "ENOENT"}
           /\ p \in Files => TryOpen(p) = p
<1>1. CASE Kind[p] = "reg"
  BY <1>1, SiteAssumption DEF TryOpen
<1>2. CASE Kind[p] = "dir"
  <2> DEFINE found == IF p \in DOMAIN Indexes
                      THEN {k \in DOMAIN Indexes[p] : Kind[Indexes[p][k]] = "reg"} ELSE {}
  <2>1. TryOpen(p) = IF found = {} THEN "EISDIR" ELSE Indexes[p][Min(found)]
    BY <1>2 DEF TryOpen
  <2>2. ASSUME found # {} PROVE Indexes[p][Min(found)] \in Files
    <3>1. p \in DOMAIN Indexes /\ found \subseteq DOMAIN Indexes[p]
      BY <2>2
    <3>2. found \subseteq Nat
      BY <3>1, SiteAssumption
    <3>3. Min(found) \in found
      <4> HIDE DEF found
      <4> QED
        BY <2>2, <3>2, MinOfNat
    <3>4. Min(found) \in DOMAIN Indexes[p] /\ Kind[Indexes[p][Min(found)]] = "reg"
      BY <3>1, <3>3
    <3> QED
      BY <3>1, <3>4, SiteAssumption
  <2>3. p \notin Files
    BY <1>2, SiteAssumption
  <2> HIDE DEF found
  <2> QED
    BY <2>1, <2>2, <2>3
<1>3. CASE Kind[p] \notin {"reg", "dir"}
  BY <1>3, SiteAssumption DEF TryOpen
<1> QED
  BY <1>1, <1>2, <1>3

\* What serve_static opens to send may be sent, and is what a conditional request
\* asked for.
LEMMA OpensOpen ==
    ASSUME ServeInv, pc = "static", Refusal = 0, ~RunsPhp
    PROVE  Selected \in Open /\ (req.cond # "none" => Selected = copy.path)
<1>0. ServeTypeOK /\ ChoiceSound /\ site \in DOMAIN Config
  BY DEF ServeInv, ServeTypeOK
<1>1. req.path \in DOMAIN Kind
  BY <1>0, RequestFields DEF ServeTypeOK
<1>2. Unopened = 0 /\ Unsent = 0
  BY DEF Refusal
<1>3. Selected \notin {"EISDIR", "EACCES", "ENOENT"}
  BY <1>2 DEF Unopened
<1>4. Selected \notin Blocked /\ ~PhpRouting /\ Selected \notin SourceLike
  BY <1>2 DEF Unsent
<1>5. Selected = IF TryOpen(req.path) = "ENOENT" /\ cfg.fallback # NoFile /\ req.path # "/"
                 THEN TryOpen(cfg.fallback) ELSE TryOpen(req.path)
  BY <1>4, Zenon DEF Selected, FallsBack, First
<1>6. cfg.fallback # NoFile => cfg.fallback \in DOMAIN Kind
  BY <1>0, SiteAssumption DEF cfg
<1>7. Selected \in Files
  BY <1>1, <1>3, <1>5, <1>6, OpensFile
<1>8. ASSUME req.cond # "none" PROVE Selected = copy.path
  <2>1. copy.path = req.path
    BY <1>0, <1>8 DEF ChoiceSound
  <2>2. req.path \in Files
    BY <1>0, <1>1, <2>1, CopyParts, MarkersNoFiles DEF ServeTypeOK
  <2>3. TryOpen(req.path) = req.path /\ req.path # "ENOENT"
    BY <1>1, <2>2, OpensFile, MarkersNoFiles
  <2> QED
    BY <1>5, <2>1, <2>3
<1> QED
  BY <1>4, <1>7, <1>8 DEF Open

\* A text or an error page is chosen as the answer.
LEMMA RefusesHolds ==
    ASSUME ServeInv, pc \in {"route", "proxy", "static"},
           NEW s \in Nat, s # 200, s # 304, SendText(s) \/ SendErrorPage(s),
           UNCHANGED <<disk, now, req, meta, cur, rem, out, read, copy, site, ip, bucket, slots,
                       clock>>,
           promise' \in [Ips -> Nat], PromisesSound'
    PROVE  ServeInv'
<1>0. ServeTypeOK /\ StampsSound /\ ChoiceSound /\ ans = NoAnswer /\ meta = NoMeta
  BY DEF ServeInv, ChoiceSound
<1>1. PICK src \in {Text, NoFile}, n \in {0, 1} :
        /\ ans' = Answer(s, src, 0, n) /\ (src = NoFile => n = 0)
        /\ \/ pc' = "headers" /\ st' = st
           \/ pc' = "file" /\ \E p \in Open : st' = Fstat(p)
  <2>1. CASE SendText(s)
    BY <2>1 DEF SendText, Text, NoFile
  <2>2. CASE s \in DOMAIN cfg.errorPages /\ SendErrorPage(s)
    <3>1. cfg.errorPages[s] \in Open
      BY <1>0, <2>2, OperatorAssumption DEF cfg, ServeTypeOK
    <3> QED
      BY <2>2, <3>1 DEF SendErrorPage
  <2> QED
    BY <2>1, <2>2 DEF SendErrorPage
<1>2. ans' \in AnswerRecord /\ ans'.status = s /\ ans'.src = src /\ ans'.len = n
  BY <1>1 DEF Answer, AnswerRecord, Sources
<1>3. /\ st' \in StatRecord
      /\ st'.path \in Files => Earlier(st', disk[st'.path])
      /\ pc' = "file" => st'.path \in Open
  <2>1. CASE st' = st /\ pc' = "headers"
    BY <1>0, <2>1 DEF ServeTypeOK, StampsSound
  <2>2. CASE \E p \in Open : st' = Fstat(p)
    BY <1>0, <2>2, FstatType
  <2> QED
    BY <1>1, <2>1, <2>2
<1>4. ServeTypeOK'
  BY <1>0, <1>1, <1>2, <1>3 DEF ServeTypeOK
<1>5. StampsSound'
  BY <1>0, <1>3 DEF StampsSound
<1>6. ChoiceSound'
  BY <1>0, <1>1, <1>2, <1>3 DEF ChoiceSound
<1>7. NotModifiedIsHonest'
  BY <1>2 DEF NotModifiedIsHonest
<1>8. ReadSound'
  BY <1>2 DEF ReadSound
<1> QED
  BY <1>4, <1>5, <1>6, <1>7, <1>8 DEF ServeInv

\* The steps before a file is chosen: a window restarts for one address and keeps the
\* promises made to it.
LEMMA RouteHolds ==
    ASSUME ServeInv, RouteEarly \/ RouteLimited \/ RouteAdmitted \/ RouteProxy
    PROVE  ServeInv'
<1>0. /\ ServeTypeOK /\ StampsSound /\ ChoiceSound /\ PromisesSound /\ NotModifiedIsHonest
      /\ site \in DOMAIN Config
      /\ bucket \in [Buckets -> BucketRecord] /\ promise \in [Ips -> Nat] /\ now \in Nat
  BY DEF ServeInv, ServeTypeOK
<1>1. pc \in {"route", "proxy"} => ip \in Ips
  BY <1>0 DEF ServeTypeOK
<1>2. cfg.limit \in Nat /\ cfg.window \in Nat
  BY <1>0, SiteAssumption DEF cfg
<1>3. \A i \in Ips : /\ BucketOf[i] \in Buckets
                     /\ bucket[BucketOf[i]].start \in Nat /\ bucket[BucketOf[i]].count \in Nat
                     /\ bucket[BucketOf[i]] \in BucketRecord
  BY <1>0 DEF Buckets, BucketRecord
<1>4. CASE RouteEarly
  <2>1. PICK s \in {405, 404, 301} : SendText(s)
    BY <1>4 DEF RouteEarly
  <2>2. /\ pc = "route"
        /\ UNCHANGED <<disk, now, req, meta, cur, rem, out, read, copy, site, ip, bucket, slots,
                       clock, promise>>
    BY <1>4 DEF RouteEarly, serveVars
  <2>3. PromisesSound'
    BY <1>0, <2>2 DEF PromisesSound, cfg
  <2>4. s \in Nat /\ s # 200 /\ s # 304
    BY <2>1
  <2> QED
    BY <1>0, <2>1, <2>2, <2>3, <2>4, RefusesHolds
<1>5. CASE RouteLimited
  <2>1. /\ pc = "route" /\ SendText(429) /\ promise' = [promise EXCEPT ![ip] = now + RetryAfter]
        /\ Exceeded
        /\ UNCHANGED <<disk, now, req, meta, cur, rem, out, read, copy, site, ip, bucket, slots,
                       clock>>
    BY <1>5 DEF RouteLimited
  <2>2. Mine.ip = ip /\ now < Mine.start + cfg.window
    BY <1>0, <1>1, <1>2, <1>3, <2>1 DEF Exceeded, NewWindow, Mine
  <2>3. now + RetryAfter = Mine.start + cfg.window /\ now + RetryAfter \in Nat
    BY <1>0, <1>1, <1>2, <1>3, <2>1, <2>2 DEF RetryAfter, Mine
  <2>4. promise' \in [Ips -> Nat]
    BY <1>0, <2>1, <2>3
  <2>5. PromisesSound'
    BY <1>0, <1>1, <2>1, <2>3 DEF PromisesSound, cfg, Mine
  <2>6. 429 \in Nat /\ 429 # 200 /\ 429 # 304
    OBVIOUS
  <2> QED
    BY <2>1, <2>4, <2>5, <2>6, RefusesHolds
<1>6. CASE RouteAdmitted
  <2>1. /\ pc = "route" /\ pc' \in {"proxy", "static"}
        /\ UNCHANGED <<disk, now, req, st, meta, ans, cur, rem, out, read, copy, site, ip, slots,
                       clock>>
    BY <1>6 DEF RouteAdmitted
  <2>2. bucket' \in [Buckets -> BucketRecord] /\ promise' \in [Ips -> Nat] /\ PromisesSound'
    <3>1. CASE UNCHANGED <<bucket, promise>>
      BY <1>0, <2>1, <3>1 DEF PromisesSound, cfg
    <3>2. CASE /\ bucket' = [bucket EXCEPT ![BucketOf[ip]] = Counted]
               /\ promise' = [promise EXCEPT ![ip] = 0]
      <4>1. Counted \in BucketRecord /\ Counted.ip = ip
        <5>1. CASE NewWindow
          BY <1>0, <1>1, <2>1, <5>1 DEF Counted, BucketRecord
        <5>2. CASE ~NewWindow
          <6>1. Mine \in BucketRecord /\ Mine.ip = ip /\ Mine.count + 1 \in Nat
            BY <1>1, <1>3, <2>1, <5>2 DEF NewWindow, Mine
          <6> QED
            BY <5>2, <6>1 DEF Counted, BucketRecord
        <5> QED
          BY <5>1, <5>2
      <4>2. bucket' \in [Buckets -> BucketRecord] /\ promise' \in [Ips -> Nat]
        BY <1>0, <3>2, <4>1
      <4>3. ASSUME NEW i \in Ips, promise'[i] # 0, bucket'[BucketOf[i]].ip = i
            PROVE  promise'[i] = bucket'[BucketOf[i]].start + cfg'.window
        <5>1. i # ip /\ promise'[i] = promise[i]
          BY <1>0, <3>2, <4>3
        <5>2. BucketOf[i] # BucketOf[ip]
          BY <1>0, <1>3, <3>2, <4>1, <4>3, <5>1
        <5>3. bucket'[BucketOf[i]] = bucket[BucketOf[i]]
          BY <1>0, <1>3, <3>2, <5>2
        <5> QED
          BY <1>0, <2>1, <4>3, <5>1, <5>3 DEF PromisesSound, cfg
      <4> QED
        BY <4>2, <4>3 DEF PromisesSound
    <3> QED
      BY <1>6, <3>1, <3>2 DEF RouteAdmitted
  <2>3. ServeTypeOK'
    BY <1>0, <2>1, <2>2 DEF ServeTypeOK
  <2>4. StampsSound' /\ ChoiceSound' /\ NotModifiedIsHonest' /\ ReadSound'
    BY <1>0, <2>1 DEF StampsSound, ChoiceSound, CopyCompares, NotModifiedIsHonest, ReadSound
  <2> QED
    BY <2>2, <2>3, <2>4 DEF ServeInv
<1>7. CASE RouteProxy
  <2>1. /\ pc = "proxy"
        /\ UNCHANGED <<disk, now, req, meta, cur, rem, out, read, copy, site, ip, bucket, slots,
                       clock, promise>>
    BY <1>7 DEF RouteProxy, serveVars
  <2>2. PromisesSound'
    BY <1>0, <2>1 DEF PromisesSound, cfg
  <2>3. CASE pc' = "relay" /\ UNCHANGED <<st, ans>>
    <3>1. ServeTypeOK'
      BY <1>0, <2>1, <2>3 DEF ServeTypeOK
    <3>2. StampsSound' /\ ChoiceSound' /\ NotModifiedIsHonest' /\ ReadSound'
      BY <1>0, <2>1, <2>3 DEF StampsSound, ChoiceSound, CopyCompares, NotModifiedIsHonest, ReadSound
    <3> QED
      BY <2>2, <3>1, <3>2 DEF ServeInv
  <2>4. CASE SendErrorPage(405)
    <3>1. 405 \in Nat /\ 405 # 200 /\ 405 # 304
      OBVIOUS
    <3> QED
      BY <1>0, <2>1, <2>2, <2>4, <3>1, RefusesHolds
  <2> QED
    BY <1>7, <2>3, <2>4 DEF RouteProxy
<1> QED
  BY <1>4, <1>5, <1>6, <1>7

\* What is opened is neither blocked nor like a source.
LEMMA StaticHolds ==
    ASSUME ServeInv, StaticRefuses \/ StaticRelays \/ StaticOpens \/ RelayEnds
    PROVE  ServeInv'
<1>0. ServeTypeOK /\ StampsSound /\ ChoiceSound /\ PromisesSound /\ NotModifiedIsHonest
      /\ ReadSound
  BY DEF ServeInv
<1>1. /\ pc \in {"static", "relay"}
      /\ UNCHANGED <<disk, now, req, meta, cur, rem, out, read, copy, site, ip, bucket, slots, clock,
                     promise>>
  BY DEF StaticRefuses, StaticRelays, StaticOpens, RelayEnds, serveVars
<1>2. PromisesSound'
  BY <1>0, <1>1 DEF PromisesSound, cfg
<1>3. CASE StaticRefuses
  <2>1. Refusal \in {0, 503, 405, 400, 403, 301, 404, 413}
    BY DEF Refusal, Unopened, Unsent
  <2>2. PICK s \in {503, 405, 400, 403, 301, 404, 413} : SendText(s) \/ SendErrorPage(s)
    BY <1>3, <2>1 DEF StaticRefuses
  <2>3. s \in Nat /\ s # 200 /\ s # 304
    BY <2>2
  <2>4. pc = "static"
    BY <1>3 DEF StaticRefuses
  <2> QED
    BY <1>0, <1>1, <1>2, <2>2, <2>3, <2>4, RefusesHolds DEF ServeTypeOK
<1>4. CASE StaticRelays \/ RelayEnds
  <2>1. pc' \in {"relay", "done"} /\ UNCHANGED <<st, ans>>
    BY <1>4 DEF StaticRelays, RelayEnds
  <2>2. ServeTypeOK'
    BY <1>0, <1>1, <2>1 DEF ServeTypeOK
  <2>3. StampsSound' /\ ChoiceSound' /\ NotModifiedIsHonest' /\ ReadSound'
    BY <1>0, <1>1, <2>1 DEF StampsSound, ChoiceSound, CopyCompares, NotModifiedIsHonest, ReadSound
  <2> QED
    BY <1>2, <2>2, <2>3 DEF ServeInv
<1>5. CASE StaticOpens
  <2>1. pc = "static" /\ pc' = "meta" /\ st' = Fstat(Selected) /\ ans' = ans
    BY <1>5 DEF StaticOpens
  <2>2. Selected \in Open /\ (req.cond # "none" => Selected = copy.path)
    BY <1>5, OpensOpen DEF StaticOpens
  <2>3. /\ st' \in StatRecord /\ st'.path = Selected /\ Earlier(st', disk[Selected])
        /\ \A r : Earlier(r, st') <=> Earlier(r, disk[Selected])
        /\ \A vers, r : ReadBetween(vers, r, st') <=> ReadBetween(vers, r, disk[Selected])
    BY <1>0, <2>1, <2>2, FstatType
  <2>4. req.cond # "none" => CopyCompares'
    <3> SUFFICES ASSUME req.cond # "none" PROVE CopyCompares'
      OBVIOUS
    <3>1. copy.path = Selected /\ Selected \in Files
      BY <2>2, MarkersNoFiles
    <3>2. /\ Earlier(copy, disk[Selected])
          /\ copy.src # VariantOf[Selected] => ReadBetween(copy.vers, copy, disk[Selected])
      BY <1>0, <3>1 DEF StampsSound
    <3>3. Earlier(copy, st')
      BY <2>3, <3>2
    <3>4. copy.src # VariantOf[Selected] => ReadBetween(copy.vers, copy, st')
      BY <2>3, <3>2
    <3> QED
      BY <1>1, <2>3, <3>3, <3>4 DEF CopyCompares
  <2>5. ServeTypeOK'
    BY <1>0, <1>1, <2>1, <2>3 DEF ServeTypeOK
  <2>6. StampsSound'
    BY <1>0, <1>1, <2>3 DEF StampsSound
  <2>7. ChoiceSound'
    BY <1>0, <1>1, <2>1, <2>2, <2>3, <2>4 DEF ChoiceSound
  <2>8. NotModifiedIsHonest' /\ ReadSound'
    BY <1>0, <1>1, <2>1, NoneTyped DEF NotModifiedIsHonest, ChoiceSound, ReadSound
  <2> QED
    BY <1>2, <2>5, <2>6, <2>7, <2>8 DEF ServeInv
<1> QED
  BY <1>3, <1>4, <1>5

\* The metadata cache returns what fstat says, found or stored.
LEMMA MetaHolds ==
    ASSUME ServeInv, static_meta_get
    PROVE  ServeInv'
<1>0. ServeTypeOK /\ StampsSound /\ ChoiceSound /\ PromisesSound
  BY DEF ServeInv
<1> DEFINE old   == SlotsOf(st.path)
           first == IF old = {} THEN -1 ELSE Min(old)
           fresh == [path |-> st.path, size |-> st.size, stamp |-> st.stamp]
<1>1. /\ pc = "meta" /\ pc' = "file" /\ ans' = Answer(200, NoFile, 0, 0)
      /\ UNCHANGED <<disk, now, req, st, cur, rem, out, read, copy, site, ip, bucket, promise>>
  BY DEF static_meta_get
<1>2. \/ old # {} /\ MetaHit(slots[first]) /\ meta' = slots[first] /\ UNCHANGED <<slots, clock>>
      \/ /\ meta' = fresh /\ clock' = NextSlot
         /\ slots' = [k \in DOMAIN slots |->
                        IF k = clock THEN fresh ELSE IF k = first THEN NoMeta ELSE slots[k]]
  BY DEF static_meta_get
<1>3. /\ slots \in [0..(MetaSlots - 1) -> MetaRecord] /\ clock \in 0..(MetaSlots - 1)
      /\ MetaSlots \in Nat \ {0} /\ NoMeta \in MetaRecord
  BY <1>0, SiteAssumption, NoneTyped DEF ServeTypeOK
<1>4. fresh \in MetaRecord /\ fresh.size = st.size /\ fresh.stamp = st.stamp
  <2>1. st.path \in Files \cup {NoFile} /\ st.size \in Nat /\ st.stamp \in Nat
    BY <1>0, StatParts, MarkersNoFiles DEF ServeTypeOK
  <2> QED
    BY <2>1 DEF MetaRecord
<1>5. old # {} => slots[first] \in MetaRecord
  <2>1. old \subseteq 0..(MetaSlots - 1) /\ old \subseteq Nat
    BY <1>3 DEF SlotsOf
  <2> HIDE DEF old
  <2>2. old # {} => first \in old
    BY <2>1, MinOfNat
  <2> HIDE DEF first
  <2> QED
    BY <1>3, <2>1, <2>2
<1>6. NextSlot \in 0..(MetaSlots - 1)
  BY <1>3 DEF NextSlot
<1> HIDE DEF old, first, fresh
<1>7. /\ meta' \in MetaRecord /\ meta'.size = st.size /\ meta'.stamp = st.stamp
      /\ slots' \in [0..(MetaSlots - 1) -> MetaRecord] /\ clock' \in 0..(MetaSlots - 1)
  BY <1>2, <1>3, <1>4, <1>5, <1>6 DEF MetaHit
<1>8. ans' \in AnswerRecord /\ ans'.status = 200 /\ ans'.len = 0
  BY <1>1 DEF Answer, AnswerRecord, Sources
<1>9. ServeTypeOK'
  BY <1>0, <1>1, <1>7, <1>8 DEF ServeTypeOK
<1>10. StampsSound'
  BY <1>0, <1>1 DEF StampsSound
<1>11. ChoiceSound'
  BY <1>0, <1>1, <1>7, <1>8 DEF ChoiceSound, CopyCompares
<1>12. PromisesSound'
  BY <1>0, <1>1 DEF PromisesSound, cfg
<1>13. NotModifiedIsHonest' /\ ReadSound'
  BY <1>1, <1>8 DEF NotModifiedIsHonest, ReadSound
<1> QED
  BY <1>9, <1>10, <1>11, <1>12, <1>13 DEF ServeInv

\* A request arrives, a second ends, a file changes.
LEMMA AroundHolds ==
    ASSUME ServeInv,
           \/ \E r \in cfg.requests, i \in cfg.clients : Arrive(r, i)
           \/ Tick
           \/ (\E f \in cfg.changing : FileChanges(f)) /\ UNCHANGED serveVars
    PROVE  ServeInv'
<1>0. ServeTypeOK /\ StampsSound /\ ChoiceSound /\ PromisesSound /\ NotModifiedIsHonest
      /\ ReadSound
  BY DEF ServeInv
<1>1. CASE \E r \in cfg.requests, i \in cfg.clients : Arrive(r, i)
  <2>1. PICK r \in cfg.requests, i \in cfg.clients : Arrive(r, i)
    BY <1>1
  <2>2. r \in Requests /\ i \in Ips
    BY <1>0, SiteAssumption DEF cfg, ServeTypeOK
  <2>3. /\ pc' = "route" /\ req' = r /\ ip' = i /\ (r.cond # "none" => copy.path = r.path)
        /\ st' = NoStat /\ meta' = NoMeta /\ ans' = NoAnswer /\ cur' = 0 /\ rem' = 0
        /\ out' = <<>> /\ read' = {}
        /\ UNCHANGED <<disk, now, copy, site, bucket, slots, clock, promise>>
    BY <2>1 DEF Arrive
  <2>4. out' \in Seq(Units)
    BY <2>3, EmptySeq
  <2>5. ServeTypeOK'
    BY <1>0, <2>2, <2>3, <2>4, NoneTyped DEF ServeTypeOK
  <2>6. StampsSound'
    BY <1>0, <2>3, NoneTyped, MarkersNoFiles DEF StampsSound
  <2>7. ChoiceSound'
    BY <2>3 DEF ChoiceSound, NoAnswer
  <2>8. PromisesSound'
    BY <1>0, <2>3 DEF PromisesSound, cfg
  <2>9. NotModifiedIsHonest' /\ ReadSound'
    BY <2>3, NoneTyped DEF NotModifiedIsHonest, ReadSound
  <2> QED
    BY <2>5, <2>6, <2>7, <2>8, <2>9 DEF ServeInv
<1>2. CASE Tick
  <2>1. /\ now' = now + 1
        /\ UNCHANGED <<disk, pc, req, st, meta, ans, cur, rem, out, read, copy, site, ip, bucket,
                       slots, clock, promise>>
    BY <1>2 DEF Tick
  <2>2. now \in Nat /\ now' \in Nat
    BY <1>0, <2>1 DEF ServeTypeOK
  <2>3. ServeTypeOK'
    BY <1>0, <2>1, <2>2 DEF ServeTypeOK
  <2>4. StampsSound' /\ ReadSound'
    BY <1>0, <2>1 DEF StampsSound, ReadSound
  <2>5. ChoiceSound' /\ PromisesSound' /\ NotModifiedIsHonest'
    BY <1>0, <2>1 DEF ChoiceSound, CopyCompares, PromisesSound, cfg, NotModifiedIsHonest
  <2> QED
    BY <2>3, <2>4, <2>5 DEF ServeInv
<1>3. CASE (\E f \in cfg.changing : FileChanges(f)) /\ UNCHANGED serveVars
  <2>1. PICK f \in cfg.changing : FileChanges(f)
    BY <1>3
  <2>2. PICK n \in 0..MaxSize, s \in 0..now :
          disk' = [disk EXCEPT ![f] =
                     [size |-> n, stamp |-> s, ver |-> @.ver + 1,
                      slip |-> IF s > @.stamp THEN @.slip ELSE @.ver + 1]]
    BY <2>1 DEF FileChanges
  <2>3. UNCHANGED <<now, pc, req, st, meta, ans, cur, rem, out, read, copy, site, ip, bucket, slots,
                    clock, promise>>
    BY <1>3, <2>1 DEF FileChanges, serveVars
  <2>4. f \in Files /\ n \in Nat /\ s \in Nat /\ disk \in [Files -> FileRecord]
    <3>1. f \in Files
      BY <1>0, SiteAssumption DEF cfg, ServeTypeOK
    <3> QED
      BY <1>0, <3>1, FileAssumption DEF ServeTypeOK
  <2>5. /\ disk[f].stamp \in Nat /\ disk[f].ver \in Nat /\ disk[f].slip \in Nat
        /\ disk[f] \in FileRecord
    BY <2>4, FileParts
  <2> DEFINE x == [size |-> n, stamp |-> s, ver |-> disk[f].ver + 1,
                   slip |-> IF s > disk[f].stamp THEN disk[f].slip ELSE disk[f].ver + 1]
  <2>6. /\ x \in FileRecord /\ x.ver = disk[f].ver + 1
        /\ x.slip = IF x.stamp > disk[f].stamp THEN disk[f].slip ELSE disk[f].ver + 1
    BY <2>4, <2>5 DEF FileRecord
  <2>7. disk' = [disk EXCEPT ![f] = x]
    BY <2>2
  <2> HIDE DEF x
  <2>8. /\ disk' \in [Files -> FileRecord]
        /\ \A g \in Files : disk'[g] = IF g = f THEN x ELSE disk[g]
    BY <2>4, <2>6, <2>7
  <2>9. ASSUME NEW g \in Files, NEW r, r.ver \in Nat, r.stamp \in Nat
        PROVE  /\ Earlier(r, disk[g]) => Earlier(r, disk'[g])
               /\ \A vers \in SUBSET Nat :
                    ReadBetween(vers, r, disk[g]) => ReadBetween(vers, r, disk'[g])
    <3>1. CASE g # f
      BY <2>8, <3>1
    <3>2. CASE g = f
      <4>1. disk'[g] = x
        BY <2>8, <3>2
      <4>2. Earlier(r, disk[f]) => Earlier(r, x)
        BY <2>5, <2>6, <2>9, EarlierStill
      <4>3. ASSUME NEW vers \in SUBSET Nat, ReadBetween(vers, r, disk[f])
            PROVE  ReadBetween(vers, r, x)
        <5> SUFFICES ASSUME NEW v \in vers
                     PROVE  r.ver <= v /\ v <= x.ver
          BY DEF ReadBetween
        <5>1. v \in Nat /\ r.ver <= v /\ v <= disk[f].ver
          BY <4>3 DEF ReadBetween
        <5>2. disk[f].ver \in Nat /\ x.ver = disk[f].ver + 1
          BY <2>5, <2>6
        <5> QED
          BY <5>1, <5>2
      <4> QED
        BY <3>2, <4>1, <4>2, <4>3
    <3> QED
      BY <3>1, <3>2
  <2>10. /\ st.ver \in Nat /\ st.stamp \in Nat /\ copy.ver \in Nat /\ copy.stamp \in Nat
         /\ copy.vers \in SUBSET Nat /\ read \in SUBSET Nat
    BY <1>0, StatParts, CopyParts DEF ServeTypeOK
  <2>11. StampsSound'
    <3>1. st.path \in Files => Earlier(st, disk'[st.path])
      BY <1>0, <2>9, <2>10 DEF StampsSound
    <3>2. copy.path \in Files =>
            /\ Earlier(copy, disk'[copy.path])
            /\ copy.src # VariantOf[copy.path] => ReadBetween(copy.vers, copy, disk'[copy.path])
      BY <1>0, <2>9, <2>10 DEF StampsSound
    <3> QED
      BY <2>3, <3>1, <3>2 DEF StampsSound
  <2>12. ReadSound'
    <3> SUFFICES ASSUME pc \in {"headers", "small", "memory", "sendfile", "copy"},
                        ans.status = 200, ans.src # VariantOf[st.path]
                 PROVE  ans.src \in {st.path, Zipped} /\ ReadBetween(read, st, disk'[st.path])
      BY <2>3 DEF ReadSound
    <3>1. ans.src \in {st.path, Zipped} /\ ReadBetween(read, st, disk[st.path])
      BY <1>0 DEF ReadSound
    <3>2. CASE st.path \in Files
      BY <2>9, <2>10, <3>1, <3>2
    <3>3. CASE st.path \notin Files
      <4>1. disk'[st.path] = disk[st.path]
        BY <2>4, <2>7, <3>3
      <4> QED
        BY <3>1, <4>1
    <3> QED
      BY <3>2, <3>3
  <2>13. ServeTypeOK'
    BY <1>0, <2>3, <2>8 DEF ServeTypeOK
  <2>14. ChoiceSound' /\ PromisesSound' /\ NotModifiedIsHonest'
    BY <1>0, <2>3 DEF ChoiceSound, CopyCompares, PromisesSound, cfg, NotModifiedIsHonest
  <2> QED
    BY <2>11, <2>12, <2>13, <2>14 DEF ServeInv
<1> QED
  BY <1>1, <1>2, <1>3

\* Every step keeps the invariant.
LEMMA ServeStepHolds ==
    ASSUME ServeInv, [Next]_vars
    PROVE  ServeInv'
<1>1. CASE \E r \in cfg.requests, i \in cfg.clients : Arrive(r, i)
  BY <1>1, AroundHolds
<1>2. CASE ServeStep
  BY <1>2, RouteHolds, StaticHolds, MetaHolds, SendFileHolds, WriteStepHolds
     DEF ServeStep, SendStep
<1>3. CASE Tick
  BY <1>3, AroundHolds
<1>4. CASE (\E f \in cfg.changing : FileChanges(f)) /\ UNCHANGED serveVars
  BY <1>4, AroundHolds
<1>5. CASE UNCHANGED <<disk, now, pc, req, st, meta, ans, cur, rem, out, read, copy>>
           /\ UNCHANGED serveVars
  <2>1. UNCHANGED <<site, ip, bucket, slots, clock, promise>>
    BY <1>5 DEF serveVars
  <2> QED
    BY <1>5, <2>1 DEF ServeInv, ServeTypeOK, StampsSound, ReadSound, ChoiceSound, CopyCompares,
                      PromisesSound, cfg, NotModifiedIsHonest
<1>6. CASE NetChanges /\ UNCHANGED serveVars
  BY <1>5, <1>6 DEF NetChanges
<1>8. CASE RelayEnds
  BY <1>8, StaticHolds
<1>7. CASE UNCHANGED vars
  BY <1>5, <1>7 DEF vars, fileVars
<1> QED
  BY <1>1, <1>2, <1>3, <1>4, <1>6, <1>7, <1>8 DEF Next

\* Whatever is asked for, found as an index, reached by a fallback or chosen as a
\* variant or an error page, no source of a script and no file of
\* blocked_direct_access is sent (serve_static, send_file_fd).
THEOREM NoSourceSent == Spec => []SourceNeverSent
<1>1. Init => ServeInv
  BY ServeInitHolds
<1>2. ServeInv /\ [Next]_vars => ServeInv'
  BY ServeStepHolds
<1>3. ServeInv => SourceNeverSent
  <2> SUFFICES ASSUME ServeInv, NEW k \in DOMAIN out, out[k][1] \in Files
               PROVE  out[k][1] \notin Blocked \cup SourceLike
    BY DEF SourceNeverSent
  <2>1. out \in Seq(Units)
    BY DEF ServeInv, ServeTypeOK
  <2>2. out[k] \in Units
    BY <2>1, ElementOfSeq
  <2>3. out[k][1] = "head" \/ out[k][1] \in Sources
    BY <2>2 DEF Units
  <2>4. out[k][1] \in Open
    BY <2>3, MarkersNoFiles DEF Sources
  <2> QED
    BY <2>4 DEF Open
<1> QED
  BY <1>1, <1>2, <1>3, PTL DEF Spec

\* A 304 tells the truth whatever the metadata cache remembers and whenever the file
\* changes (static_meta_get, request_cache_validator_matches).
THEOREM NotModifiedHonest == Spec => []NotModifiedIsHonest
<1>1. Init => ServeInv
  BY ServeInitHolds
<1>2. ServeInv /\ [Next]_vars => ServeInv'
  BY ServeStepHolds
<1>3. ServeInv => NotModifiedIsHonest
  BY DEF ServeInv
<1> QED
  BY <1>1, <1>2, <1>3, PTL DEF Spec

\* An address that was told to wait and has waited is not refused again, whichever
\* other addresses use its bucket (rpsiod_rate_limit_exceeded).
THEOREM RetryAfterKept == Spec => RetryAfterHonest
<1>1. Init => ServeInv
  BY ServeInitHolds
<1>2. ServeInv /\ [Next]_vars => ServeInv'
  BY ServeStepHolds
<1>3. ServeInv /\ [Next]_vars =>
        [ans'.status = 429 /\ ans.status # 429 /\ promise[ip] # 0 => now < promise[ip]]_vars
  <2> SUFFICES ASSUME ServeInv, Next, ans'.status = 429, ans.status # 429, promise[ip] # 0
               PROVE  now < promise[ip]
    OBVIOUS
  <2>1. RouteLimited
    <3>1. \A s, src, off, len : Answer(s, src, off, len).status = s
      BY DEF Answer
    <3>2. ans' # ans
      OBVIOUS
    <3>3. ~(\E r \in cfg.requests, i \in cfg.clients : Arrive(r, i))
      BY NoneTyped DEF Arrive
    <3>4. ~Tick /\ ~NetChanges /\ ~(\E f \in cfg.changing : FileChanges(f))
      BY <3>2 DEF Tick, NetChanges, FileChanges
    <3>5. ~RouteEarly
      BY <3>1 DEF RouteEarly, SendText
    <3>6. ~RouteAdmitted /\ ~StaticRelays /\ ~StaticOpens /\ ~RelayEnds
      BY <3>2 DEF RouteAdmitted, StaticRelays, StaticOpens, RelayEnds
    <3>7. \A s \in {503, 405, 400, 403, 301, 404, 413} : ~SendText(s) /\ ~SendErrorPage(s)
      BY <3>1 DEF SendText, SendErrorPage
    <3>8. ~RouteProxy
      BY <3>2, <3>7 DEF RouteProxy
    <3>9. ~StaticRefuses
      <4>1. Refusal \in {0, 503, 405, 400, 403, 301, 404, 413}
        BY DEF Refusal, Unopened, Unsent
      <4> QED
        BY <3>7, <4>1 DEF StaticRefuses
    <3>10. ~static_meta_get
      BY <3>1 DEF static_meta_get
    <3>11. ~send_file_fd
      BY <3>1 DEF send_file_fd, RangeAnswer
    <3>12. ~(WriteHeaders \/ WriteFails \/ WriteMemory \/ Sendfile \/ SendfileFallsBack
              \/ CopyChunk \/ WriteSmall \/ SmallFails)
      BY <3>2 DEF WriteHeaders, WriteFails, WriteMemory, Sendfile, SendfileFallsBack,
                  CopyChunk, WriteSmall, SmallFails
    <3> QED
      BY <3>3, <3>4, <3>5, <3>6, <3>8, <3>9, <3>10, <3>11, <3>12 DEF Next, ServeStep, SendStep
  <2>2. /\ pc = "route" /\ Exceeded
    BY <2>1 DEF RouteLimited
  <2>3. /\ ip \in Ips /\ PromisesSound /\ now \in Nat
        /\ bucket[BucketOf[ip]].start \in Nat /\ cfg.window \in Nat
    BY <2>2, SiteAssumption DEF ServeInv, ServeTypeOK, Buckets, BucketRecord, cfg
  <2>4. Mine.ip = ip /\ now < Mine.start + cfg.window
    BY <2>2, <2>3 DEF Exceeded, NewWindow, Mine
  <2> QED
    BY <2>3, <2>4 DEF PromisesSound, Mine
<1> QED
  BY <1>1, <1>2, <1>3, PTL DEF Spec, RetryAfterHonest

(***************************************************************************)
(* Responses arrive exactly.                                               *)
(***************************************************************************)

\* The answer stands for the bytes that were asked for.
AnswerExact ==
    /\ ans.status = 206 => Wanted(req.range, st.size) = ans.off..(ans.off + ans.len - 1)
    /\ ans.status = 416 => Wanted(req.range, st.size) = {}
    /\ ans.status # 206 => ans.off = 0
    /\ pc = "file" => ans.status \notin {206, 416}

\* The i-th unit of the response, and that n of them have arrived.
UnitAt(i) == IF i = 1 THEN Header(ans) ELSE <<ans.src, ans.off + i - 2>>

Begun(n) == Len(out) = n /\ \A i \in 1..n : out[i] = UnitAt(i)

\* How much has arrived where the worker is: after a failed small response the client
\* is gone, so that no second header follows; while bytes are sent, cur and rem are
\* what has arrived and what has not.
Progress ==
    /\ pc \in {"idle", "route", "proxy", "relay", "static", "meta", "file"} => out = <<>>
    /\ pc = "headers" => out = <<>> \/ (net = "gone" /\ Len(out) <= ans.len)
    /\ pc = "small" => ~HeadOnly /\ ans.off = 0 /\ cur <= ans.len /\ Begun(cur)
    /\ pc \in {"memory", "sendfile", "copy"} =>
         /\ ~HeadOnly /\ rem > 0 /\ ans.off <= cur /\ cur + rem = ans.off + ans.len
         /\ Begun(1 + cur - ans.off)

ExactInv == ServeInv /\ AnswerExact /\ Progress /\ ResponseExact

\* send_file_fd computes the bytes that a range asks for, and refuses one that asks
\* for none.
LEMMA RangeExact ==
    ASSUME NEW r, r.start \in Nat, r.end \in Int, r.suffix \in BOOLEAN, NEW total \in Nat
    PROVE  /\ RangeValid(r, total) =>
                Wanted(r, total) = RangeStart(r, total)..RangeEnd(r, total)
           /\ ~RangeValid(r, total) => Wanted(r, total) = {}
<1>1. CASE r.suffix
  <2>1. Wanted(r, total) = {i \in 0..(total - 1) : i >= total - r.start}
    BY <1>1 DEF Wanted
  <2>2. RangeEnd(r, total) = total - 1 /\ (RangeValid(r, total) <=> total > 0)
    BY <1>1 DEF RangeValid, RangeEnd
  <2>3. RangeStart(r, total) = IF r.start >= total THEN 0 ELSE total - r.start
    BY <1>1 DEF RangeStart
  <2> QED
    BY <2>1, <2>2, <2>3
<1>2. CASE ~r.suffix
  <2>1. Wanted(r, total) = {i \in 0..(total - 1) : r.start <= i /\ (r.end # -1 => i <= r.end)}
    BY <1>2 DEF Wanted
  <2>2. RangeEnd(r, total) = IF r.end = -1 \/ r.end >= total THEN total - 1 ELSE r.end
    BY <1>2 DEF RangeEnd
  <2>3. RangeStart(r, total) = r.start
    BY <1>2 DEF RangeStart
  <2>4. RangeValid(r, total) <=> (total > 0 /\ r.start < total /\ RangeEnd(r, total) >= r.start)
    BY <1>2 DEF RangeValid
  <2> QED
    BY <2>1, <2>2, <2>3, <2>4
<1> QED
  BY <1>1, <1>2

\* What is owed is an interval, of as many bytes as the header announces.
LEMMA OwedIs ==
    ASSUME ServeInv, AnswerExact
    PROVE  /\ ans.off \in Nat /\ ans.len \in Nat
           /\ Owed(ans) = ans.off..(ans.off + ans.len - 1)
           /\ Cardinality(Owed(ans)) = ans.len
<1>1. ans.off \in Nat /\ ans.len \in Nat
  BY AnswerParts DEF ServeInv, ServeTypeOK
<1>2. Owed(ans) = ans.off..(ans.off + ans.len - 1)
  BY <1>1 DEF Owed, AnswerExact
<1>3. PICK lo \in Int, hi \in Int : lo = ans.off /\ hi = ans.off + ans.len - 1
  BY <1>1
<1>4. Cardinality(lo..hi) = IF lo > hi THEN 0 ELSE hi - lo + 1
  BY FS_Interval
<1> QED
  BY <1>1, <1>2, <1>3, <1>4

\* A response of which every unit has arrived is received.
LEMMA Completes ==
    ASSUME ServeInv, AnswerExact, UNCHANGED <<ans, req, st>>,
           Begun(IF HeadOnly THEN 1 ELSE 1 + ans.len)'
    PROVE  Received(ans)'
<1>1. ans.off \in Nat /\ ans.len \in Nat
  BY OwedIs
<1>2. PICK n \in Nat : n = IF HeadOnly THEN 1 ELSE 1 + ans.len
  BY <1>1
<1>3. HeadOnly' = HeadOnly /\ Owed(ans)' = Owed(ans) /\ \A i : UnitAt(i)' = UnitAt(i)
  BY DEF HeadOnly, Owed, UnitAt
<1>4. Len(out') = n /\ \A i \in 1..n : out'[i] = UnitAt(i)
  BY <1>2, <1>3 DEF Begun
<1>5. \A i \in 2..n : out'[i] = <<ans.src, ans.off + i - 2>>
  <2> TAKE i \in 2..n
  <2>1. i \in 1..n /\ i # 1
    BY <1>2
  <2>2. UnitAt(i) = <<ans.src, ans.off + i - 2>>
    BY <2>1, Zenon DEF UnitAt
  <2> QED
    BY <1>4, <2>1, <2>2, Zenon
<1>6. \A i \in 2..n : out'[i][1] = ans.src /\ out'[i][2] = ans.off + i - 2
  BY <1>5
<1>7. out'[1] = <<"head", ans.status, Cardinality(Owed(ans))>>
  <2>1. UnitAt(1) = <<"head", ans.status, ans.len>>
    BY Zenon DEF UnitAt, Header
  <2>2. 1 \in 1..n
    BY <1>1, <1>2
  <2>3. out'[1] = UnitAt(1)
    BY <1>4, <2>2, Zenon
  <2> QED
    BY <2>1, <2>3, OwedIs, Zenon
<1>8. Len(out') = IF HeadOnly THEN 1 ELSE 1 + Cardinality(Owed(ans))
  BY <1>2, <1>4, OwedIs
<1>9. ASSUME ~HeadOnly PROVE {out'[i][2] : i \in 2..n} = Owed(ans)
  <2>1. n = 1 + ans.len
    BY <1>2, <1>9
  <2>2. \A k \in ans.off..(ans.off + ans.len - 1) : \E i \in 2..n : ans.off + i - 2 = k
    <3> TAKE k \in ans.off..(ans.off + ans.len - 1)
    <3>1. k - ans.off + 2 \in 2..n /\ ans.off + (k - ans.off + 2) - 2 = k
      BY <1>1, <2>1
    <3> QED
      BY <3>1
  <2>3. \A i \in 2..n : ans.off + i - 2 \in ans.off..(ans.off + ans.len - 1)
    BY <1>1, <2>1
  <2>4. {out'[i][2] : i \in 2..n} = {ans.off + i - 2 : i \in 2..n}
    BY <1>6
  <2> QED
    BY <2>2, <2>3, <2>4, OwedIs
<1>10. \A i, j \in 2..n : i < j => out'[i][2] < out'[j][2]
  BY <1>1, <1>2, <1>6
<1> QED
  BY <1>3, <1>4, <1>6, <1>7, <1>8, <1>9, <1>10 DEF Received

\* The next units arrive.
LEMMA Extends ==
    ASSUME out \in Seq(Units), NEW n \in Nat, Begun(n), NEW x \in Seq(Units),
           \A j \in 1..Len(x) : x[j] = UnitAt(n + j),
           out' = out \o x, ans' = ans
    PROVE  Begun(n + Len(x))'
<1>1. Len(x) \in Nat /\ Len(out) = n
  BY LenProperties DEF Begun
<1>2. /\ Len(out') = n + Len(x)
      /\ \A i \in 1..(n + Len(x)) : out'[i] = IF i <= n THEN out[i] ELSE x[i - n]
  BY <1>1, ConcatProperties
<1>3. ASSUME NEW i \in 1..(n + Len(x)) PROVE out'[i] = UnitAt(i)
  <2>1. CASE i <= n
    BY <1>1, <1>2, <2>1 DEF Begun
  <2>2. CASE ~(i <= n)
    <3>1. i - n \in 1..Len(x) /\ n + (i - n) = i
      BY <1>1, <2>2
    <3>2. out'[i] = x[i - n] /\ x[i - n] = UnitAt(n + (i - n))
      BY <1>2, <2>2, <3>1
    <3> QED
      BY <3>1, <3>2
  <2> QED
    BY <2>1, <2>2
<1>4. \A i : UnitAt(i)' = UnitAt(i)
  BY DEF UnitAt
<1> QED
  BY <1>2, <1>3, <1>4 DEF Begun

\* What is to hold again after a step besides ServeInv.
ExactAgain == AnswerExact' /\ Progress' /\ ResponseExact'

\* Steps that leave the response alone.
LEMMA ExactQuiet ==
    ASSUME ExactInv, UNCHANGED <<pc, ans, rc, out, req, st, cur, rem>>,
           net' = net \/ net # "gone"
    PROVE  ExactAgain
<1>1. AnswerExact'
  BY DEF ExactInv, AnswerExact
<1>2. HeadOnly' = HeadOnly /\ \A n : Begun(n)' = Begun(n)
  BY DEF HeadOnly, Begun, UnitAt
<1>3. Progress'
  BY <1>2 DEF ExactInv, Progress
<1>4. Received(ans)' = Received(ans)
  BY DEF Received, Owed, HeadOnly
<1>5. ResponseExact'
  BY <1>4 DEF ExactInv, ResponseExact
<1> QED
  BY <1>1, <1>3, <1>5 DEF ExactAgain

\* Steps before anything is sent.
LEMMA ExactBefore ==
    ASSUME \/ pc' \in {"route", "proxy", "relay", "static", "meta", "file", "headers"}
           \/ pc' = "done" /\ ans' = NoAnswer,
           out' = <<>>, ans'.off = 0, ans'.status \notin {206, 416}
    PROVE  ExactAgain
<1>1. AnswerExact'
  BY DEF AnswerExact
<1>2. Progress' /\ ResponseExact'
  BY DEF Progress, ResponseExact
<1> QED
  BY <1>1, <1>2 DEF ExactAgain

\* From the arrival of a request to the choice of a file or a text.
LEMMA ExactRoutes ==
    ASSUME ExactInv,
           \/ RouteEarly \/ RouteLimited \/ RouteAdmitted \/ RouteProxy
           \/ StaticRefuses \/ StaticRelays \/ StaticOpens \/ RelayEnds \/ static_meta_get
           \/ \E r \in cfg.requests, i \in cfg.clients : Arrive(r, i)
    PROVE  ExactAgain
<1>1. \A status, src, off, len : /\ Answer(status, src, off, len).off = off
                                 /\ Answer(status, src, off, len).status = status
  BY DEF Answer
<1>2. NoAnswer.off = 0 /\ NoAnswer.status = 0
  BY DEF NoAnswer
<1>3. ASSUME NEW s, SendText(s) \/ SendErrorPage(s)
      PROVE  pc' \in {"headers", "file"} /\ ans'.off = 0 /\ ans'.status = s
  <2>1. SendText(s) => (pc' = "headers" /\ ans' = Answer(s, Text, 0, 1))
    BY DEF SendText
  <2>2. SendErrorPage(s) => SendText(s) \/ (pc' = "file" /\ ans' = Answer(s, NoFile, 0, 0))
    BY DEF SendErrorPage
  <2> QED
    BY <1>1, <1>3, <2>1, <2>2
<1>4. CASE \E r \in cfg.requests, i \in cfg.clients : Arrive(r, i)
  <2>1. pc' = "route" /\ ans' = NoAnswer /\ out' = <<>>
    BY <1>4 DEF Arrive
  <2> QED
    BY <1>2, <2>1, ExactBefore
<1>5. CASE ~(\E r \in cfg.requests, i \in cfg.clients : Arrive(r, i))
  <2>1. pc \in {"route", "proxy", "relay", "static", "meta"} /\ out' = out
    BY <1>5 DEF RouteEarly, RouteLimited, RouteAdmitted, RouteProxy, StaticRefuses, StaticRelays,
                StaticOpens, RelayEnds, static_meta_get
  <2>2. out' = <<>> /\ ans = NoAnswer
    BY <2>1 DEF ExactInv, Progress, ServeInv, ChoiceSound
  <2>3. CASE ans' = ans /\ pc' \in {"proxy", "relay", "static", "meta", "done"}
    BY <1>2, <2>2, <2>3, ExactBefore
  <2>4. CASE \E s \in {503, 405, 400, 403, 301, 404, 413, 429} : SendText(s) \/ SendErrorPage(s)
    <3>1. PICK s \in {503, 405, 400, 403, 301, 404, 413, 429} : SendText(s) \/ SendErrorPage(s)
      BY <2>4
    <3>2. pc' \in {"headers", "file"} /\ ans'.off = 0 /\ ans'.status = s
      BY <1>3, <3>1
    <3> QED
      BY <2>2, <3>1, <3>2, ExactBefore
  <2>5. CASE pc' = "file" /\ ans' = Answer(200, NoFile, 0, 0)
    <3>1. ans'.off = 0 /\ ans'.status = 200
      BY <1>1, <2>5
    <3> QED
      BY <2>2, <2>5, <3>1, ExactBefore
  <2>6. CASE RouteEarly \/ RouteLimited
    BY <2>4, <2>6 DEF RouteEarly, RouteLimited
  <2>7. CASE RouteAdmitted \/ StaticRelays \/ StaticOpens \/ RelayEnds
    BY <2>3, <2>7 DEF RouteAdmitted, StaticRelays, StaticOpens, RelayEnds
  <2>8. CASE RouteProxy
    BY <2>3, <2>4, <2>8 DEF RouteProxy
  <2>9. CASE StaticRefuses
    <3>1. Refusal \in {0, 503, 405, 400, 403, 301, 404, 413}
      BY DEF Refusal, Unopened, Unsent
    <3>2. \E s \in {503, 405, 400, 403, 301, 404, 413} : SendText(s) \/ SendErrorPage(s)
      BY <2>9, <3>1 DEF StaticRefuses
    <3> QED
      BY <2>4, <3>2
  <2>10. CASE static_meta_get
    BY <2>5, <2>10 DEF static_meta_get
  <2> QED
    BY <1>5, <2>6, <2>7, <2>8, <2>9, <2>10
<1> QED
  BY <1>4, <1>5

\* send_file_fd: the answer chosen stands for what was asked for.
LEMMA ExactChooses ==
    ASSUME ExactInv, send_file_fd
    PROVE  ExactAgain
<1>1. /\ pc = "file" /\ cur' = 0 /\ out' = out /\ req' = req /\ st' = st
  BY DEF send_file_fd
<1>2. out' = <<>> /\ ans.status \notin {206, 416}
  BY <1>1 DEF ExactInv, Progress, AnswerExact
<1>3. /\ st.size \in Nat
      /\ req.range.start \in Nat /\ req.range.end \in Int /\ req.range.suffix \in BOOLEAN
  BY <1>1, StatParts, RequestFields DEF ExactInv, ServeInv, ServeTypeOK
<1>4. \A status, src, off, len : /\ Answer(status, src, off, len).off = off
                                 /\ Answer(status, src, off, len).len = len
                                 /\ Answer(status, src, off, len).status = status
  BY DEF Answer
<1>5. CASE pc' = "headers" /\ ans'.off = 0 /\ ans'.status \notin {206, 416}
  BY <1>2, <1>5, ExactBefore
<1>6. CASE pc' = "small" /\ ~HeadOnly /\ ans' = Answer(ans.status, st.path, 0, st.size)
  <2>1. ans'.off = 0 /\ ans'.status = ans.status /\ ans'.len = st.size
    BY <1>4, <1>6
  <2>2. AnswerExact'
    BY <1>2, <1>6, <2>1 DEF AnswerExact
  <2>3. Begun(0)'
    BY <1>2 DEF Begun
  <2>4. Progress'
    BY <1>1, <1>3, <1>6, <2>1, <2>3 DEF Progress, HeadOnly
  <2>5. ResponseExact'
    BY <1>6 DEF ResponseExact
  <2> QED
    BY <2>2, <2>4, <2>5 DEF ExactAgain
<1>7. CASE pc' = "headers" /\ ans' = RangeAnswer(req.range)
  <2>1. Progress' /\ ResponseExact'
    BY <1>2, <1>7 DEF Progress, ResponseExact
  <2>2. CASE RangeValid(req.range, st.size)
    <3>1. PICK off : off = RangeStart(req.range, st.size)
      OBVIOUS
    <3>2. PICK end : end = RangeEnd(req.range, st.size)
      OBVIOUS
    <3>3. off \in Nat /\ end - off + 1 \in Nat /\ end \in Int
      BY <1>3, <2>2, <3>1, <3>2, RangeType DEF RangeEnd
    <3>4. Wanted(req.range, st.size) = off..end
      BY <1>3, <2>2, <3>1, <3>2, RangeExact
    <3>5. ans' = Answer(206, st.path, off, end - off + 1)
      BY <1>7, <2>2, <3>1, <3>2 DEF RangeAnswer
    <3>6. ans'.status = 206 /\ ans'.off = off /\ ans'.len = end - off + 1
      BY <1>4, <3>5
    <3>7. ans'.off + ans'.len - 1 = end
      BY <3>3, <3>6
    <3>8. AnswerExact'
      BY <1>1, <1>7, <3>4, <3>6, <3>7 DEF AnswerExact
    <3> QED
      BY <2>1, <3>8 DEF ExactAgain
  <2>3. CASE ~RangeValid(req.range, st.size)
    <3>1. ans' = Answer(416, NoFile, 0, 0) /\ Wanted(req.range, st.size) = {}
      BY <1>3, <1>7, <2>3, RangeExact DEF RangeAnswer
    <3>2. ans'.status = 416 /\ ans'.off = 0
      BY <1>4, <3>1
    <3>3. AnswerExact'
      BY <1>1, <1>7, <3>1, <3>2 DEF AnswerExact
    <3> QED
      BY <2>1, <3>3 DEF ExactAgain
  <2> QED
    BY <2>2, <2>3
<1>8. \/ pc' = "headers" /\ ans' = RangeAnswer(req.range)
      \/ pc' = "headers" /\ \E status \in {304, 200, ans.status} :
            \E src, len : ans' = Answer(status, src, 0, len)
      \/ pc' = "small" /\ ~HeadOnly /\ ans' = Answer(ans.status, st.path, 0, st.size)
  BY DEF send_file_fd
<1>9. ASSUME NEW status \in {304, 200, ans.status}, NEW src, NEW len,
             ans' = Answer(status, src, 0, len)
      PROVE  ans'.off = 0 /\ ans'.status \notin {206, 416}
  BY <1>2, <1>4, <1>9
<1> QED
  BY <1>5, <1>6, <1>7, <1>8, <1>9

\* The response ends: with every unit arrived, or with bytes missing.
LEMMA ExactEnds ==
    ASSUME ExactInv, UNCHANGED <<ans, req, st>>, pc' = "done",
           \/ rc' = "ok" /\ Begun(IF HeadOnly THEN 1 ELSE 1 + ans.len)'
           \/ rc' = "fail" /\ (out' = <<>> \/ Len(out') <= ans.len)
    PROVE  ExactAgain
<1>1. AnswerExact'
  BY DEF ExactInv, AnswerExact
<1>2. Progress'
  BY DEF Progress
<1>3. rc' = "ok" => Received(ans)'
  BY Completes DEF ExactInv
<1>4. ResponseExact'
  BY <1>3 DEF ExactInv, AnswerExact, ResponseExact
<1> QED
  BY <1>1, <1>2, <1>4 DEF ExactAgain

\* Nothing has been written of a response with its header in one piece.
LEMMA HeaderFirst ==
    ASSUME ExactInv, ans' = ans, out = <<>>, out' = Append(out, Header(ans))
    PROVE  Begun(1)'
<1>1. out' = <<Header(ans)>>
  OBVIOUS
<1>2. Len(out') = 1 /\ out'[1] = Header(ans)
  BY <1>1
<1>3. UnitAt(1)' = Header(ans)
  BY Zenon DEF UnitAt, Header
<1> QED
  BY <1>2, <1>3 DEF Begun

\* The header is written, and the body follows unless there is none to send.
LEMMA ExactHeaders ==
    ASSUME ExactInv, WriteHeaders
    PROVE  ExactAgain
<1>1. /\ pc = "headers" /\ UNCHANGED <<ans, req, st, net>>
  BY DEF WriteHeaders
<1>2. out = <<>> \/ (net = "gone" /\ Len(out) <= ans.len)
  BY <1>1 DEF ExactInv, Progress
<1>3. ans.off \in Nat /\ ans.len \in Nat
  BY OwedIs DEF ExactInv
<1>4. CASE net # "ok"
  <2>1. pc' = "done" /\ rc' = "fail" /\ out' = out
    BY <1>4 DEF WriteHeaders, Return
  <2> QED
    BY <1>1, <1>2, <2>1, ExactEnds
<1>5. CASE net = "ok"
  <2>1. /\ out = <<>> /\ out' = Append(out, Header(ans)) /\ cur' = ans.off /\ rem' = ans.len
    BY <1>2, <1>5 DEF WriteHeaders
  <2>2. Begun(1)'
    BY <1>1, <2>1, HeaderFirst
  <2>3. CASE HeadOnly \/ ans.len = 0
    <3>1. pc' = "done" /\ rc' = "ok"
      BY <1>5, <2>3 DEF WriteHeaders, Return
    <3>2. (IF HeadOnly THEN 1 ELSE 1 + ans.len) = 1
      BY <2>3
    <3>3. ans' = ans /\ HeadOnly' = HeadOnly
      BY <1>1 DEF HeadOnly
    <3>4. Begun(IF HeadOnly THEN 1 ELSE 1 + ans.len)'
      BY <2>2, <3>2, <3>3
    <3> QED
      BY <1>1, <3>1, <3>4, ExactEnds
  <2>4. CASE ~(HeadOnly \/ ans.len = 0)
    <3>1. pc' \in {"memory", "copy", "sendfile"}
      BY <1>5, <2>4 DEF WriteHeaders
    <3>2. HeadOnly' = HeadOnly
      BY <1>1 DEF HeadOnly
    <3>3. 1 + cur' - ans'.off = 1 /\ rem' > 0 /\ ans'.off <= cur'
          /\ cur' + rem' = ans'.off + ans'.len
      BY <1>1, <1>3, <2>1, <2>4
    <3>4. Begun(1 + cur - ans.off)'
      BY <2>2, <3>3
    <3>5. Progress'
      BY <2>4, <3>1, <3>2, <3>3, <3>4 DEF Progress
    <3>6. AnswerExact' /\ ResponseExact'
      BY <1>1, <3>1 DEF ExactInv, AnswerExact, ResponseExact
    <3> QED
      BY <3>5, <3>6 DEF ExactAgain
  <2> QED
    BY <2>3, <2>4
<1> QED
  BY <1>4, <1>5

\* n more bytes of the body arrive, behind those that have.
LEMMA ExactSent ==
    ASSUME ExactInv, pc \in {"memory", "copy", "sendfile"}, NEW n \in 1..rem, Sent(n),
           UNCHANGED <<ans, req, st>>
    PROVE  ExactAgain
<1>1. /\ ~HeadOnly /\ rem > 0 /\ ans.off <= cur /\ cur + rem = ans.off + ans.len
      /\ Begun(1 + cur - ans.off)
  BY DEF ExactInv, Progress
<1>2. /\ cur \in Nat /\ rem \in Int /\ out \in Seq(Units) /\ ans.src \in Sources
      /\ ans.off \in Nat /\ ans.len \in Nat
  BY AnswerParts DEF ExactInv, ServeInv, ServeTypeOK
<1>3. PICK m \in Nat : m = 1 + cur - ans.off /\ m > 0
  BY <1>1, <1>2
<1>n. n \in Nat /\ n <= rem
  BY <1>2
<1>4. PICK x \in Seq(Units) : x = Bytes(ans.src, cur, n) /\ Len(x) = n
  BY <1>2, <1>n, BytesType
<1>5. \A j \in 1..Len(x) : x[j] = UnitAt(m + j)
  <2> TAKE j \in 1..Len(x)
  <2>1. j \in 1..n /\ m + j # 1 /\ ans.off + (m + j) - 2 = cur + j - 1
    BY <1>2, <1>3, <1>4
  <2>2. x[j] = <<ans.src, cur + j - 1>>
    BY <1>4, <2>1 DEF Bytes
  <2>3. UnitAt(m + j) = <<ans.src, ans.off + (m + j) - 2>>
    BY <2>1, Zenon DEF UnitAt
  <2> QED
    BY <2>1, <2>2, <2>3, Zenon
<1>6. out' = out \o x /\ cur' = cur + n /\ rem' = rem - n
  BY <1>4 DEF Sent
<1>7. Begun(m + n)'
  <2>1. Begun(m)
    BY <1>1, <1>3
  <2> QED
    BY <1>2, <1>4, <1>5, <1>6, <2>1, Extends
<1>8. HeadOnly' = HeadOnly
  BY DEF HeadOnly
<1>9. CASE rem = n
  <2>1. pc' = "done" /\ rc' = "ok"
    BY <1>9 DEF Sent, Return
  <2>2. m + n = 1 + ans.len
    <3>1. PICK c \in Nat, o \in Nat, l \in Nat, k \in Nat :
            c = cur /\ o = ans.off /\ l = ans.len /\ k = n
      BY <1>2, <1>n, Zenon
    <3>2. c + k = o + l /\ m = 1 + c - o
      BY <1>1, <1>3, <1>9, <3>1
    <3>3. m + k = 1 + l
      BY <3>2
    <3> QED
      BY <3>1, <3>3
  <2>3. Begun(IF HeadOnly THEN 1 ELSE 1 + ans.len)'
    BY <1>1, <1>7, <1>8, <2>2
  <2> QED
    BY <2>1, <2>3, ExactEnds
<1>10. CASE rem # n
  <2>1. pc' = pc
    BY <1>10 DEF Sent
  <2>2. /\ 1 + cur' - ans'.off = m + n /\ rem' > 0 /\ ans'.off <= cur'
        /\ cur' + rem' = ans'.off + ans'.len
    <3>1. PICK c \in Nat, o \in Nat, l \in Nat, k \in Nat, r \in Int :
            c = cur /\ o = ans.off /\ l = ans.len /\ k = n /\ r = rem
      BY <1>2, <1>n, Zenon
    <3>2. r # k /\ k <= r /\ c + r = o + l /\ o <= c /\ m = 1 + c - o
      BY <1>1, <1>3, <1>10, <1>n, <3>1
    <3>3. 1 + (c + k) - o = m + k /\ r - k > 0
      BY <3>2
    <3>4. o <= c + k /\ (c + k) + (r - k) = o + l
      BY <3>2
    <3>5. cur' = c + k /\ rem' = r - k /\ ans' = ans
      BY <1>6, <3>1
    <3> QED
      BY <3>1, <3>3, <3>4, <3>5
  <2>3. Begun(1 + cur - ans.off)'
    BY <1>7, <2>2
  <2>4. Progress'
    BY <1>1, <1>8, <2>1, <2>2, <2>3 DEF Progress
  <2>5. AnswerExact' /\ ResponseExact'
    BY <2>1 DEF ExactInv, AnswerExact, ResponseExact
  <2> QED
    BY <2>4, <2>5 DEF ExactAgain
<1> QED
  BY <1>9, <1>10

\* A read is of no more than is still to be sent.
LEMMA AtMostRem ==
    ASSUME NEW a \in Int, NEW b \in Int, NEW c \in Int
    PROVE  Min({a, b}) <= a /\ Min({a, b, c}) <= a
<1>1. \E x \in {a, b} : \A y \in {a, b} : x =< y
  OBVIOUS
<1>2. \E x \in {a, b, c} : \A y \in {a, b, c} : x =< y
  OBVIOUS
<1> QED
  BY <1>1, <1>2 DEF Min

\* Writing a body from memory, by sendfile, by the fallback, and failing to.
LEMMA ExactBody ==
    ASSUME ExactInv, WriteFails \/ WriteMemory \/ Sendfile \/ SendfileFallsBack \/ CopyChunk
    PROVE  ExactAgain
<1>1. pc \in {"memory", "copy", "sendfile"} /\ UNCHANGED <<ans, req, st, net>>
  BY DEF WriteFails, WriteMemory, Sendfile, SendfileFallsBack, CopyChunk
<1>2. /\ ~HeadOnly /\ rem > 0 /\ ans.off <= cur /\ cur + rem = ans.off + ans.len
      /\ Begun(1 + cur - ans.off)
  BY <1>1 DEF ExactInv, Progress
<1>3. /\ cur \in Nat /\ rem \in Int /\ ans.src \in Sources
      /\ ans.off \in Nat /\ ans.len \in Nat
  BY AnswerParts DEF ExactInv, ServeInv, ServeTypeOK
<1>4. CASE Return("fail") /\ out' = out
  <2>1. Len(out') <= ans.len
    BY <1>2, <1>3, <1>4 DEF Begun
  <2> QED
    BY <1>1, <1>4, <2>1, ExactEnds DEF Return
<1>5. CASE SendfileFallsBack
  <2>1. /\ pc' = "copy" /\ UNCHANGED <<cur, rem, out>>
    BY <1>5 DEF SendfileFallsBack
  <2>2. HeadOnly' = HeadOnly /\ \A k : Begun(k)' = Begun(k)
    BY <1>1, <2>1 DEF HeadOnly, Begun, UnitAt
  <2>3. Progress'
    BY <1>1, <1>2, <2>1, <2>2 DEF Progress
  <2>4. AnswerExact' /\ ResponseExact'
    BY <1>1, <2>1 DEF ExactInv, AnswerExact, ResponseExact
  <2> QED
    BY <2>3, <2>4 DEF ExactAgain
<1>6. CASE WriteFails
  BY <1>4, <1>6 DEF WriteFails
<1>7. CASE WriteMemory
  BY <1>1, <1>7, ExactSent DEF WriteMemory
<1>8. CASE Sendfile \/ CopyChunk
  <2>1. PICK left : left = Max(Available)
    OBVIOUS
  <2>2. left \in Int /\ ChunkMax \in Int
    <3>1. pc \in {"sendfile", "copy"}
      BY <1>8 DEF Sendfile, CopyChunk
    <3>2. disk[ans.src] \in FileRecord
      BY <3>1, MarkersNoFiles DEF ExactInv, ServeInv, ServeTypeOK, ChoiceSound
    <3>3. PICK y \in Int : y = disk[ans.src].size - cur
      BY <1>3, <3>2, FileParts
    <3>4. Max({0, y}) \in Int
      BY TwoIntegers
    <3> QED
      BY <2>1, <3>3, <3>4, FileAssumption DEF Available
  <2>3. \/ Return("fail") /\ out' = out
        \/ \E n \in 1..Min({rem, left}) : Sent(n)
        \/ \E n \in 1..Min({rem, left, ChunkMax}) : Sent(n)
    BY <1>8, <2>1 DEF Sendfile, CopyChunk
  <2>4. /\ Min({rem, left}) \in Int /\ Min({rem, left, ChunkMax}) \in Int
        /\ Min({rem, left}) <= rem /\ Min({rem, left, ChunkMax}) <= rem
    BY <1>3, <2>2, TwoIntegers, ThreeIntegers, AtMostRem
  <2>5. \A k \in Int : k <= rem => \A n \in 1..k : n \in 1..rem
    BY <1>3
  <2>6. \/ Return("fail") /\ out' = out
        \/ \E n \in 1..rem : Sent(n)
    BY <2>3, <2>4, <2>5
  <2> QED
    BY <1>1, <1>4, <2>6, ExactSent
<1> QED
  BY <1>5, <1>6, <1>7, <1>8

\* Header and body in one writev, which may take any part of them.
LEMMA ExactSmall ==
    ASSUME ExactInv, WriteSmall \/ SmallFails
    PROVE  ExactAgain
<1>1. pc = "small" /\ UNCHANGED <<ans, req, st>>
  BY DEF WriteSmall, SmallFails
<1>2. ~HeadOnly /\ ans.off = 0 /\ cur <= ans.len /\ Begun(cur)
  BY <1>1 DEF ExactInv, Progress
<1>3. /\ cur \in Nat /\ out \in Seq(Units) /\ ans.src \in Sources /\ ans.len \in Nat
      /\ ans.status \in Nat
  BY AnswerParts DEF ExactInv, ServeInv, ServeTypeOK
<1>4. HeadOnly' = HeadOnly
  BY <1>1 DEF HeadOnly
<1>5. CASE SmallFails
  <2>1. pc' = "headers" /\ net' = "gone" /\ out' = out
    BY <1>5 DEF SmallFails
  <2>2. Len(out') <= ans'.len
    BY <1>1, <1>2, <2>1 DEF Begun
  <2>3. Progress'
    BY <2>1, <2>2 DEF Progress
  <2>4. AnswerExact' /\ ResponseExact'
    BY <1>1, <2>1 DEF ExactInv, AnswerExact, ResponseExact
  <2> QED
    BY <2>3, <2>4 DEF ExactAgain
<1>6. CASE WriteSmall
  <2>1. PICK b \in Seq(Units) : b = Bytes(ans.src, 0, ans.len) /\ Len(b) = ans.len
    BY <1>3, BytesType
  <2>2. PICK h \in Seq(Units) : h = <<Header(ans)>> /\ Len(h) = 1 /\ h[1] = Header(ans)
    <3>0. Header(ans) \in Units
      BY <1>3 DEF Header, Units
    <3>1. PICK u \in Units : u = Header(ans)
      BY <3>0
    <3>2. <<u>> \in Seq(Units) /\ Len(<<u>>) = 1 /\ <<u>>[1] = u
      OBVIOUS
    <3> QED
      BY <3>1, <3>2
  <2>3. PICK all \in Seq(Units) :
          /\ all = h \o b /\ Len(all) = 1 + ans.len
          /\ \A i \in 1..(1 + ans.len) : all[i] = IF i <= 1 THEN h[i] ELSE b[i - 1]
    <3>1. /\ h \o b \in Seq(Units) /\ Len(h \o b) = Len(h) + Len(b)
          /\ \A i \in 1..(Len(h) + Len(b)) :
               (h \o b)[i] = IF i <= Len(h) THEN h[i] ELSE b[i - Len(h)]
      BY ConcatProperties
    <3> QED
      BY <2>1, <2>2, <3>1
  <2>4. ASSUME NEW i \in 1..(1 + ans.len) PROVE all[i] = UnitAt(i)
    <3>1. CASE i = 1
      <4>1. UnitAt(1) = Header(ans)
        BY Zenon DEF UnitAt
      <4>2. all[1] = h[1] /\ h[1] = Header(ans)
        BY <2>2, <2>3, <3>1
      <4> QED
        BY <3>1, <4>1, <4>2
    <3>2. CASE i # 1
      <4>1. i - 1 \in 1..ans.len /\ 0 + (i - 1) - 1 = ans.off + i - 2
        BY <1>2, <1>3, <3>2
      <4>2. UnitAt(i) = <<ans.src, ans.off + i - 2>>
        BY <3>2, Zenon DEF UnitAt
      <4>3. all[i] = b[i - 1]
        <5>1. PICK k \in Nat : k = i /\ k > 1
          BY <1>3, <3>2
        <5>2. ~(k <= 1)
          BY <5>1
        <5>3. all[i] = IF i <= 1 THEN h[i] ELSE b[i - 1]
          BY <2>3, Zenon
        <5> QED
          BY <5>1, <5>2, <5>3, Zenon
      <4>4. b[i - 1] = <<ans.src, 0 + (i - 1) - 1>>
        BY <2>1, <4>1 DEF Bytes
      <4> QED
        BY <4>1, <4>2, <4>3, <4>4, Zenon
    <3> QED
      BY <3>1, <3>2
  <2>5. PICK n \in 1..(Len(all) - cur) :
           /\ out' = out \o SubSeq(all, cur + 1, cur + n)
           /\ cur' = cur + n
           /\ IF cur + n = Len(all) THEN Return("ok") ELSE UNCHANGED <<pc, rc, copy>>
    BY <1>6, <2>1, <2>2, <2>3 DEF WriteSmall
  <2>6. n \in Nat /\ n >= 1 /\ cur + n <= 1 + ans.len
    <3>1. Len(all) = 1 + ans.len
      BY <2>3
    <3> QED
      BY <1>3, <2>5, <3>1
  <2>7. PICK x \in Seq(Units) : /\ x = SubSeq(all, cur + 1, cur + n) /\ Len(x) = n
                                /\ \A j \in 1..n : x[j] = all[cur + j]
    <3>1. \A i \in (cur + 1)..(cur + n) : all[i] \in Units
      <4>1. \A i \in (cur + 1)..(cur + n) : i \in 1..Len(all)
        BY <1>3, <2>3, <2>6
      <4> QED
        BY <4>1, ElementOfSeq
    <3>2. cur + 1 \in Int /\ cur + n \in Int
      BY <1>3, <2>6
    <3>3. /\ SubSeq(all, cur + 1, cur + n) \in Seq(Units)
          /\ Len(SubSeq(all, cur + 1, cur + n)) =
               IF cur + 1 <= cur + n THEN (cur + n) - (cur + 1) + 1 ELSE 0
          /\ \A j \in 1..((cur + n) - (cur + 1) + 1) :
               SubSeq(all, cur + 1, cur + n)[j] = all[(cur + 1) + j - 1]
      BY <3>1, <3>2, SubSeqProperties
    <3>4. PICK y : y = SubSeq(all, cur + 1, cur + n)
      OBVIOUS
    <3>5. y \in Seq(Units) /\ Len(y) = n
      BY <1>3, <2>6, <3>3, <3>4
    <3>6. ASSUME NEW j \in 1..n PROVE y[j] = all[cur + j]
      <4>1. j \in 1..((cur + n) - (cur + 1) + 1) /\ (cur + 1) + j - 1 = cur + j
        BY <1>3, <2>6
      <4>2. y[j] = all[(cur + 1) + j - 1]
        BY <3>3, <3>4, <4>1, Zenon
      <4> QED
        BY <4>1, <4>2, Zenon
    <3> QED
      BY <3>4, <3>5, <3>6, Zenon
  <2>8. \A j \in 1..Len(x) : x[j] = UnitAt(cur + j)
    <3> TAKE j \in 1..Len(x)
    <3>1. j \in 1..n /\ cur + j \in 1..(1 + ans.len)
      BY <1>3, <2>6, <2>7
    <3> QED
      BY <2>4, <2>7, <3>1, Zenon
  <2>m. PICK m \in Nat : m = cur
    BY <1>3
  <2>9. Begun(m + n)'
    BY <1>1, <1>2, <1>3, <2>5, <2>7, <2>8, <2>m, Extends
  <2>10. CASE cur + n = Len(all)
    <3>1. pc' = "done" /\ rc' = "ok"
      BY <2>5, <2>10 DEF Return
    <3>2. cur + n = 1 + ans.len
      BY <2>3, <2>10
    <3>3. Begun(IF HeadOnly THEN 1 ELSE 1 + ans.len)'
      BY <1>1, <1>2, <1>4, <2>9, <2>m, <3>2
    <3> QED
      BY <1>1, <3>1, <3>3, ExactEnds
  <2>11. CASE cur + n # Len(all)
    <3>1. pc' = "small" /\ cur' = cur + n
      BY <1>1, <2>5, <2>11
    <3>2. cur + n <= ans.len
      BY <1>3, <2>3, <2>6, <2>11
    <3>3. Begun(cur)'
      BY <2>9, <2>m, <3>1
    <3>4. Progress'
      BY <1>1, <1>2, <1>4, <3>1, <3>2, <3>3 DEF Progress
    <3>5. AnswerExact' /\ ResponseExact'
      BY <1>1, <3>1 DEF ExactInv, AnswerExact, ResponseExact
    <3> QED
      BY <3>4, <3>5 DEF ExactAgain
  <2> QED
    BY <2>10, <2>11
<1> QED
  BY <1>5, <1>6

\* However a response is written, by whichever way of sending and with whatever
\* partial writes, fallbacks and changes of the file, success means that its header
\* and exactly its bytes have arrived, and failure that bytes are missing
\* (send_file_fd, send_file_body, copy_file_read_write, write_small_file_response).
THEOREM ResponsesExact == Spec => []ResponseExact
<1>1. Init => ExactInv
  <2> SUFFICES ASSUME Init PROVE ExactInv
    OBVIOUS
  <2>1. pc = "idle" /\ out = <<>> /\ ans = NoAnswer
    BY DEF Init
  <2>2. ans.status = 0 /\ ans.off = 0
    BY <2>1 DEF NoAnswer
  <2>3. AnswerExact /\ Progress /\ ResponseExact
    BY <2>1, <2>2 DEF AnswerExact, Progress, ResponseExact
  <2> QED
    BY <2>3, ServeInitHolds DEF ExactInv
<1>2. ExactInv /\ [Next]_vars => ExactInv'
  <2> SUFFICES ASSUME ExactInv, [Next]_vars PROVE ExactInv'
    OBVIOUS
  <2>1. ServeInv'
    BY ServeStepHolds DEF ExactInv
  <2>2. ExactAgain
    <3>1. CASE \E r \in cfg.requests, i \in cfg.clients : Arrive(r, i)
      BY <3>1, ExactRoutes
    <3>2. CASE ServeStep
      BY <3>2, ExactRoutes, ExactChooses, ExactHeaders, ExactBody, ExactSmall
         DEF ServeStep, SendStep
    <3>3. CASE Tick \/ UNCHANGED vars \/ \E f \in cfg.changing : FileChanges(f)
      BY <3>3, ExactQuiet DEF Tick, vars, fileVars, FileChanges
    <3>4. CASE NetChanges
      BY <3>4, ExactQuiet DEF NetChanges
    <3>5. CASE RelayEnds
      BY <3>5, ExactRoutes
    <3> QED
      BY <3>1, <3>2, <3>3, <3>4, <3>5 DEF Next
  <2> QED
    BY <2>1, <2>2 DEF ExactInv, ExactAgain
<1>3. ExactInv => ResponseExact
  BY DEF ExactInv
<1> QED
  BY <1>1, <1>2, <1>3, PTL DEF Spec

(***************************************************************************)
(* The quota.                                                              *)
(***************************************************************************)

\* g holds the sums of the first values of f, up to n of them.
SumsUp(g, f, n) == g = [k \in 0..n |-> IF k = 0 THEN 0 ELSE g[k - 1] + f[k - 1]]

\* Its values one by one.
LEMMA SumsUpAt ==
    ASSUME NEW g, NEW f, NEW n, SumsUp(g, f, n), NEW k \in 0..n
    PROVE  g[k] = IF k = 0 THEN 0 ELSE g[k - 1] + f[k - 1]
<1> DEFINE h == [j \in 0..n |-> IF j = 0 THEN 0 ELSE g[j - 1] + f[j - 1]]
<1>1. g = h
  BY Zenon DEF SumsUp
<1>2. h[k] = IF k = 0 THEN 0 ELSE g[k - 1] + f[k - 1]
  BY Zenon
<1> HIDE DEF h
<1> QED
  BY <1>1, <1>2, Zenon

\* There is such a function for every n.
LEMMA SumsUpExists ==
    ASSUME NEW f, NEW n \in Nat
    PROVE  \E g : SumsUp(g, f, n)
<1> DEFINE S == {k \in Nat : \E g : SumsUp(g, f, k)}
<1>1. 0 \in S
  <2> DEFINE g == [k \in 0..0 |-> 0]
             h == [k \in 0..0 |-> IF k = 0 THEN 0 ELSE g[k - 1] + f[k - 1]]
  <2>1. \A k \in 0..0 : k = 0
    OBVIOUS
  <2>2. g = h
    BY <2>1, Zenon
  <2>3. SumsUp(g, f, 0)
    BY <2>2, Zenon DEF SumsUp
  <2> QED
    BY <2>3
<1>2. ASSUME NEW m \in Nat, m \in S PROVE m + 1 \in S
  <2>1. PICK g : SumsUp(g, f, m)
    BY <1>2
  <2> DEFINE h == [k \in 0..(m + 1) |-> IF k = 0 THEN 0 ELSE g[k - 1] + f[k - 1]]
  <2>2. ASSUME NEW k \in 0..m PROVE h[k] = g[k]
    <3>1. g[k] = IF k = 0 THEN 0 ELSE g[k - 1] + f[k - 1]
      BY <2>1, SumsUpAt
    <3>2. k \in 0..(m + 1)
      OBVIOUS
    <3>3. h[k] = IF k = 0 THEN 0 ELSE g[k - 1] + f[k - 1]
      BY <3>2, Zenon
    <3> QED
      BY <3>1, <3>3, Zenon
  <2> DEFINE hh == [k \in 0..(m + 1) |-> IF k = 0 THEN 0 ELSE h[k - 1] + f[k - 1]]
  <2>3. ASSUME NEW k \in 0..(m + 1) PROVE h[k] = hh[k]
    <3>1. /\ h[k] = IF k = 0 THEN 0 ELSE g[k - 1] + f[k - 1]
          /\ hh[k] = IF k = 0 THEN 0 ELSE h[k - 1] + f[k - 1]
      BY Zenon
    <3>2. k # 0 => k - 1 \in 0..m
      OBVIOUS
    <3>3. k # 0 => h[k - 1] = g[k - 1]
      BY <2>2, <3>2, Zenon
    <3> HIDE DEF h, hh
    <3> QED
      BY <3>1, <3>3, Zenon
  <2>4. h = hh
    <3>1. DOMAIN h = 0..(m + 1) /\ DOMAIN hh = 0..(m + 1)
      BY Zenon
    <3>2. h = [k \in DOMAIN h |-> h[k]] /\ hh = [k \in DOMAIN hh |-> hh[k]]
      OBVIOUS
    <3> HIDE DEF h, hh
    <3> QED
      BY <2>3, <3>1, <3>2
  <2>5. SumsUp(h, f, m + 1)
    BY <2>4, Zenon DEF SumsUp
  <2> QED
    BY <2>5
<1> HIDE DEF S
<1>3. n \in S
  BY <1>1, <1>2, Induction
<1> QED
  BY <1>3 DEF S

\* The sums, one by one.
LEMMA SumsAt ==
    ASSUME NEW w \in Nat, NEW f \in [0..(w - 1) -> Nat]
    PROVE  /\ Sums(f, w)[0] = 0
           /\ \A n \in 0..(w - 1) : Sums(f, w)[n + 1] = Sums(f, w)[n] + f[n]
           /\ \A n \in 0..w : Sums(f, w)[n] \in Nat
<1> DEFINE c == CHOOSE g : SumsUp(g, f, w)
<1>1. SumsUp(c, f, w)
  BY SumsUpExists
<1>2. Sums(f, w) = c
  BY DEF Sums, SumsUp
<1>3. PICK s : s = Sums(f, w) /\ SumsUp(s, f, w)
  BY <1>1, <1>2
<1>4. \A k \in 0..w : s[k] = IF k = 0 THEN 0 ELSE s[k - 1] + f[k - 1]
  BY <1>3, SumsUpAt
<1>5. s[0] = 0
  BY <1>4
<1>6. ASSUME NEW n \in 0..(w - 1) PROVE s[n + 1] = s[n] + f[n]
  <2>1. n + 1 \in 0..w /\ n + 1 # 0 /\ (n + 1) - 1 = n
    OBVIOUS
  <2>2. s[n + 1] = s[(n + 1) - 1] + f[(n + 1) - 1]
    BY <1>4, <2>1
  <2> QED
    BY <2>1, <2>2
<1>7. \A n \in 0..w : s[n] \in Nat
  <2> DEFINE S == {n \in Nat : n \in 0..w => s[n] \in Nat}
  <2>1. 0 \in S
    BY <1>5
  <2>2. ASSUME NEW n \in Nat, n \in S PROVE n + 1 \in S
    <3> SUFFICES ASSUME n + 1 \in 0..w PROVE s[n + 1] \in Nat
      OBVIOUS
    <3>1. n \in 0..(w - 1) /\ n \in 0..w
      OBVIOUS
    <3>2. s[n] \in Nat /\ f[n] \in Nat
      BY <2>2, <3>1
    <3> QED
      BY <1>6, <3>1, <3>2
  <2> HIDE DEF S
  <2>3. Nat \subseteq S
    BY <2>1, <2>2, Induction
  <2> QED
    BY <2>3 DEF S
<1> QED
  BY <1>3, <1>5, <1>6, <1>7

\* A second later every sum reaches one value further.
LEMMA SumsShift ==
    ASSUME NEW w \in Nat, NEW f \in [0..(w - 1) -> Nat], NEW g \in [0..(w - 1) -> Nat],
           \A a \in 0..(w - 1) : g[a] = IF a = 0 THEN 0 ELSE f[a - 1]
    PROVE  \A n \in 0..(w - 1) : Sums(g, w)[n + 1] = Sums(f, w)[n]
<1>1. PICK s : s = Sums(f, w)
  OBVIOUS
<1>2. PICK t : t = Sums(g, w)
  OBVIOUS
<1>3. /\ s[0] = 0 /\ t[0] = 0
      /\ \A n \in 0..(w - 1) : s[n + 1] = s[n] + f[n]
      /\ \A n \in 0..(w - 1) : t[n + 1] = t[n] + g[n]
  BY <1>1, <1>2, SumsAt
<1> DEFINE S == {n \in Nat : n \in 0..(w - 1) => t[n + 1] = s[n]}
<1>4. 0 \in S
  BY <1>3
<1>5. ASSUME NEW n \in Nat, n \in S PROVE n + 1 \in S
  <2> SUFFICES ASSUME n + 1 \in 0..(w - 1) PROVE t[(n + 1) + 1] = s[n + 1]
    OBVIOUS
  <2>1. n \in 0..(w - 1) /\ n + 1 # 0 /\ (n + 1) - 1 = n
    OBVIOUS
  <2>2. t[n + 1] = s[n]
    BY <1>5, <2>1
  <2>3. g[n + 1] = f[n]
    BY <2>1
  <2>4. t[(n + 1) + 1] = t[n + 1] + g[n + 1] /\ s[n + 1] = s[n] + f[n]
    BY <1>3, <2>1
  <2> QED
    BY <2>2, <2>3, <2>4
<1> HIDE DEF S
<1>6. Nat \subseteq S
  BY <1>4, <1>5, Induction
<1> QED
  BY <1>1, <1>2, <1>6 DEF S

\* A request more in this second adds one to every sum but the empty one.
LEMMA SumsBump ==
    ASSUME NEW w \in Nat, NEW f \in [0..(w - 1) -> Nat], NEW g \in [0..(w - 1) -> Nat],
           NEW e \in Nat, w > 0, g[0] = f[0] + e,
           \A a \in 1..(w - 1) : g[a] = f[a]
    PROVE  \A n \in 1..w : Sums(g, w)[n] = Sums(f, w)[n] + e
<1>1. PICK s : s = Sums(f, w)
  OBVIOUS
<1>2. PICK t : t = Sums(g, w)
  OBVIOUS
<1>3. /\ s[0] = 0 /\ t[0] = 0
      /\ \A n \in 0..(w - 1) : s[n + 1] = s[n] + f[n]
      /\ \A n \in 0..(w - 1) : t[n + 1] = t[n] + g[n]
      /\ \A n \in 0..w : s[n] \in Nat
  BY <1>1, <1>2, SumsAt
<1> DEFINE S == {n \in Nat : n + 1 \in 1..w => t[n + 1] = s[n + 1] + e}
<1>4. 0 \in S
  <2>1. 0 \in 0..(w - 1)
    OBVIOUS
  <2>2. s[0 + 1] = s[0] + f[0] /\ t[0 + 1] = t[0] + g[0] /\ f[0] \in Nat
    BY <1>3, <2>1
  <2> QED
    BY <1>3, <2>2
<1>5. ASSUME NEW n \in Nat, n \in S PROVE n + 1 \in S
  <2> SUFFICES ASSUME (n + 1) + 1 \in 1..w PROVE t[(n + 1) + 1] = s[(n + 1) + 1] + e
    OBVIOUS
  <2>1. n + 1 \in 1..w /\ n + 1 \in 0..(w - 1) /\ n + 1 \in 1..(w - 1) /\ n + 1 \in 0..w
    OBVIOUS
  <2>2. t[n + 1] = s[n + 1] + e /\ s[n + 1] \in Nat
    BY <1>3, <1>5, <2>1
  <2>3. g[n + 1] = f[n + 1] /\ f[n + 1] \in Nat
    BY <2>1
  <2>4. t[(n + 1) + 1] = t[n + 1] + g[n + 1] /\ s[(n + 1) + 1] = s[n + 1] + f[n + 1]
    BY <1>3, <2>1
  <2> QED
    BY <2>2, <2>3, <2>4
<1> HIDE DEF S
<1>6. Nat \subseteq S
  BY <1>4, <1>5, Induction
<1>7. ASSUME NEW n \in 1..w PROVE t[n] = s[n] + e
  <2>1. n - 1 \in Nat /\ (n - 1) + 1 = n
    OBVIOUS
  <2>2. n - 1 \in S
    BY <1>6, <2>1
  <2> QED
    BY <2>1, <2>2 DEF S
<1> QED
  BY <1>1, <1>2, <1>7

\* A sum is 0 exactly when its values are.
LEMMA SumsZero ==
    ASSUME NEW w \in Nat, NEW f \in [0..(w - 1) -> Nat], NEW k \in 0..w
    PROVE  Sums(f, w)[k] = 0 <=> \A a \in 0..(k - 1) : f[a] = 0
<1>1. PICK s : s = Sums(f, w)
  OBVIOUS
<1>2. /\ s[0] = 0
      /\ \A n \in 0..(w - 1) : s[n + 1] = s[n] + f[n]
      /\ \A n \in 0..w : s[n] \in Nat
  BY <1>1, SumsAt
<1> DEFINE S == {n \in Nat : n \in 0..w => (s[n] = 0 <=> \A a \in 0..(n - 1) : f[a] = 0)}
<1>3. 0 \in S
  BY <1>2
<1>4. ASSUME NEW n \in Nat, n \in S PROVE n + 1 \in S
  <2> SUFFICES ASSUME n + 1 \in 0..w
               PROVE  s[n + 1] = 0 <=> \A a \in 0..((n + 1) - 1) : f[a] = 0
    OBVIOUS
  <2>1. n \in 0..w /\ n \in 0..(w - 1)
    OBVIOUS
  <2>2. s[n + 1] = s[n] + f[n] /\ s[n] \in Nat /\ f[n] \in Nat
    BY <1>2, <2>1
  <2>3. s[n] = 0 <=> \A a \in 0..(n - 1) : f[a] = 0
    BY <1>4, <2>1
  <2>4. \A a : a \in 0..((n + 1) - 1) <=> (a \in 0..(n - 1) \/ a = n)
    OBVIOUS
  <2> QED
    BY <2>2, <2>3, <2>4
<1> HIDE DEF S
<1>5. Nat \subseteq S
  BY <1>3, <1>4, Induction
<1> QED
  BY <1>1, <1>5 DEF S

Less(a, b) == IF a < b THEN a ELSE b

\* What a bucket of the address itself, opened d seconds ago with so many requests
\* counted, says of the last k seconds: since it was opened no more were let through
\* than counted, one less behind the second it was opened in, less than the limit
\* before, and none after its window of w seconds.
Within(w, limit, f, d, count, k) ==
    LET s == Sums(f, w) IN
    /\ s[Less(k, d + 1)] <= count
    /\ s[Less(k, d)] <= count - 1
    /\ s[k] - s[Less(k, d + 1)] <= limit - 1
    /\ \A a \in 0..(k - 1) : a <= d - w => f[a] = 0

\* No other address has used the bucket in the last k seconds.
Quiet(i, k) ==
    \A j \in Ips \ {i} : BucketOf[j] = BucketOf[i] => \A a \in 0..(k - 1) : admitted[j][a] = 0

\* One address: its bucket, if it is the address's own, accounts for its requests, and
\* if it is not the address has made none since it was last quiet.
Accounted(i) ==
    LET b == bucket[BucketOf[i]] IN
    /\ b.start <= now
    /\ b.ip = i => 1 <= b.count /\ b.count <= cfg.limit
    /\ \A k \in 0..cfg.window : Quiet(i, k) =>
         IF b.ip = i THEN Within(cfg.window, cfg.limit, admitted[i], now - b.start, b.count, k)
         ELSE Sums(admitted[i], cfg.window)[k] = 0

QuotaInv ==
    /\ ServeInv
    /\ admitted \in [Ips -> [0..(cfg.window - 1) -> 0..(2 * cfg.limit)]]
    /\ Limits => \A i \in Ips : Accounted(i)

\* A second passes.
LEMMA WithinLater ==
    ASSUME NEW w \in Nat, NEW limit \in Nat, w > 0, limit > 0,
           NEW f \in [0..(w - 1) -> Nat], NEW g \in [0..(w - 1) -> Nat],
           \A a \in 0..(w - 1) : g[a] = IF a = 0 THEN 0 ELSE f[a - 1],
           NEW d \in Nat, NEW count \in Nat, count >= 1, NEW k \in 0..w,
           k > 0 => Within(w, limit, f, d, count, k - 1)
    PROVE  Within(w, limit, g, d + 1, count, k)
<1>1. PICK s : s = Sums(f, w)
  OBVIOUS
<1>2. PICK t : t = Sums(g, w)
  OBVIOUS
<1>3. /\ t[0] = 0 /\ \A n \in 0..(w - 1) : t[n + 1] = s[n]
  BY <1>1, <1>2, SumsAt, SumsShift
<1>4. CASE k = 0
  <2>1. Less(k, (d + 1) + 1) = 0 /\ Less(k, d + 1) = 0
    BY <1>4 DEF Less
  <2> QED
    BY <1>2, <1>3, <1>4, <2>1 DEF Within
<1>5. CASE k > 0
  <2>1. /\ s[Less(k - 1, d + 1)] <= count
        /\ s[Less(k - 1, d)] <= count - 1
        /\ s[k - 1] - s[Less(k - 1, d + 1)] <= limit - 1
        /\ \A a \in 0..((k - 1) - 1) : a <= d - w => f[a] = 0
    BY <1>1, <1>5 DEF Within
  <2>2. PICK x \in 0..(w - 1) : x = Less(k - 1, d + 1) /\ Less(k, (d + 1) + 1) = x + 1
    BY <1>5 DEF Less
  <2>3. PICK y \in 0..(w - 1) : y = Less(k - 1, d) /\ Less(k, d + 1) = y + 1
    BY <1>5 DEF Less
  <2>4. t[x + 1] = s[x] /\ t[y + 1] = s[y]
    BY <1>3
  <2>5. t[k] = s[k - 1]
    <3>1. PICK z \in 0..(w - 1) : z = k - 1 /\ z + 1 = k
      BY <1>5
    <3> QED
      BY <1>3, <3>1
  <2>6. ASSUME NEW a \in 0..(k - 1), a <= (d + 1) - w PROVE g[a] = 0
    <3>1. CASE a = 0
      BY <3>1
    <3>2. CASE a # 0
      <4>1. PICK z \in 0..((k - 1) - 1) : z = a - 1 /\ z <= d - w
        BY <1>5, <2>6, <3>2
      <4>2. a \in 0..(w - 1) /\ f[z] = 0
        BY <2>1, <4>1
      <4> QED
        BY <3>2, <4>1, <4>2
    <3> QED
      BY <3>1, <3>2
  <2> QED
    BY <1>2, <2>1, <2>2, <2>3, <2>4, <2>5, <2>6 DEF Within
<1> QED
  BY <1>4, <1>5

\* A request more in the window of the bucket.
LEMMA WithinCounts ==
    ASSUME NEW w \in Nat, NEW limit \in Nat, w > 0, limit > 0,
           NEW f \in [0..(w - 1) -> Nat], NEW g \in [0..(w - 1) -> Nat],
           NEW e \in {0, 1}, g[0] = f[0] + e, \A a \in 1..(w - 1) : g[a] = f[a],
           NEW d \in Nat, d < w, NEW count \in Nat, count >= 1, NEW k \in 0..w,
           Within(w, limit, f, d, count, k)
    PROVE  Within(w, limit, g, d, count + 1, k)
<1>1. PICK s : s = Sums(f, w)
  OBVIOUS
<1>2. PICK t : t = Sums(g, w)
  OBVIOUS
<1>3. /\ s[0] = 0 /\ t[0] = 0 /\ \A n \in 1..w : t[n] = s[n] + e
      /\ \A n \in 0..w : s[n] \in Nat
  <2>1. e \in Nat
    OBVIOUS
  <2> QED
    BY <1>1, <1>2, <2>1, SumsAt, SumsBump
<1>4. PICK x \in 0..w : x = Less(k, d + 1) /\ (x = 0 <=> k = 0)
  BY DEF Less
<1>5. PICK y \in 0..w : y = Less(k, d)
  BY DEF Less
<1>6. /\ s[x] <= count /\ s[y] <= count - 1 /\ s[k] - s[x] <= limit - 1
  BY <1>1, <1>4, <1>5 DEF Within
<1>7. e \in Nat /\ e <= 1
  OBVIOUS
<1>8. PICK sx \in Nat, sy \in Nat, sk \in Nat : sx = s[x] /\ sy = s[y] /\ sk = s[k]
  BY <1>3
<1>9. PICK tx \in Nat, ty \in Nat, tk \in Nat :
        /\ tx = t[x] /\ ty = t[y] /\ tk = t[k]
        /\ tx <= sx + e /\ ty <= sy + e /\ tk - tx = sk - sx
  <2>1. (x = 0 /\ k = 0) \/ (x \in 1..w /\ k \in 1..w)
    BY <1>4, SMTT(30)
  <2>2. y = 0 \/ y \in 1..w
    OBVIOUS
  <2>3. /\ t[x] \in Nat /\ t[k] \in Nat /\ t[x] <= sx + e /\ t[k] - t[x] = sk - sx
    <3>1. CASE x = 0 /\ k = 0
      <4>1. t[x] = 0 /\ t[k] = 0 /\ sx = 0 /\ sk = 0
        BY <1>3, <1>8, <3>1, Zenon
      <4> QED
        BY <1>7, <4>1
    <3>2. CASE x \in 1..w /\ k \in 1..w
      <4>1. t[x] = sx + e /\ t[k] = sk + e
        BY <1>3, <1>8, <3>2
      <4> QED
        BY <1>7, <4>1
    <3> QED
      BY <2>1, <3>1, <3>2
  <2>4. t[y] \in Nat /\ t[y] <= sy + e
    <3>1. CASE y = 0
      <4>1. t[y] = 0 /\ sy = 0
        BY <1>3, <1>8, <3>1, Zenon
      <4> QED
        BY <1>7, <4>1
    <3>2. CASE y \in 1..w
      <4>1. t[y] = sy + e
        BY <1>3, <1>8, <3>2
      <4> QED
        BY <1>7, <4>1
    <3> QED
      BY <2>2, <3>1, <3>2
  <2> QED
    BY <2>3, <2>4
<1>10. \A a \in 0..(k - 1) : ~(a <= d - w)
  OBVIOUS
<1> QED
  <2>1. sx <= count /\ sy <= count - 1 /\ sk - sx <= limit - 1
    BY <1>6, <1>8
  <2>2. tx <= count + 1 /\ ty <= (count + 1) - 1 /\ tk - tx <= limit - 1
    <3>1. tx <= sx + e /\ ty <= sy + e /\ tk - tx = sk - sx
      BY <1>9
    <3> QED
      BY <1>7, <3>1, <2>1
  <2> QED
    BY <1>2, <1>4, <1>5, <1>9, <1>10, <2>2 DEF Within

\* A request that opens a window, when the one before is over or no request of the
\* address is in sight.
LEMMA WithinOpens ==
    ASSUME NEW w \in Nat, NEW limit \in Nat, w > 0, limit > 0,
           NEW f \in [0..(w - 1) -> Nat], NEW g \in [0..(w - 1) -> Nat],
           NEW e \in {0, 1}, g[0] = f[0] + e, \A a \in 1..(w - 1) : g[a] = f[a],
           NEW k \in 0..w,
           \/ Sums(f, w)[k] = 0
           \/ \E d \in Nat, count \in Nat :
                d >= w /\ count <= limit /\ Within(w, limit, f, d, count, k)
    PROVE  Within(w, limit, g, 0, 1, k)
<1>1. PICK s : s = Sums(f, w)
  OBVIOUS
<1>2. PICK t : t = Sums(g, w)
  OBVIOUS
<1>3. /\ s[0] = 0 /\ t[0] = 0 /\ \A n \in 1..w : t[n] = s[n] + e
      /\ \A n \in 0..w : s[n] \in Nat
      /\ s[0 + 1] = s[0] + f[0]
  <2>1. e \in Nat /\ 0 \in 0..(w - 1)
    OBVIOUS
  <2> QED
    BY <1>1, <1>2, <2>1, SumsAt, SumsBump
<1>4. k > 0 => f[0] = 0 /\ s[k] <= limit - 1
  <2>1. CASE s[k] = 0
    <3>1. Sums(f, w)[k] = 0
      BY <1>1, <2>1
    <3>2. \A a \in 0..(k - 1) : f[a] = 0
      BY <3>1, SumsZero
    <3> QED
      BY <2>1, <3>2
  <2>2. CASE s[k] # 0
    <3>1. PICK d \in Nat, count \in Nat :
            d >= w /\ count <= limit /\ Within(w, limit, f, d, count, k)
      BY <1>1, <2>2
    <3>2. Less(k, d) = k
      BY <3>1 DEF Less
    <3>3. s[k] <= count - 1 /\ \A a \in 0..(k - 1) : a <= d - w => f[a] = 0
      BY <1>1, <3>1, <3>2 DEF Within
    <3>4. k > 0 => 0 \in 0..(k - 1) /\ 0 <= d - w
      BY <3>1
    <3> QED
      <4>1. PICK sk \in Nat : sk = s[k]
        BY <1>3
      <4>2. sk <= limit - 1
        BY <3>1, <3>3, <4>1
      <4> QED
        BY <3>3, <3>4, <4>1, <4>2
  <2> QED
    BY <2>1, <2>2
<1>5. CASE k = 0
  <2>1. Less(k, 0 + 1) = 0 /\ Less(k, 0) = 0
    BY <1>5 DEF Less
  <2> QED
    BY <1>2, <1>3, <1>5, <2>1 DEF Within
<1>6. CASE k > 0
  <2>1. Less(k, 0 + 1) = 1 /\ Less(k, 0) = 0
    BY <1>6 DEF Less
  <2>2. s[1] = 0 /\ 1 \in 1..w /\ k \in 1..w
    <3>1. s[0 + 1] = 0
      BY <1>3, <1>4, <1>6
    <3>2. 0 + 1 = 1
      OBVIOUS
    <3> QED
      BY <1>6, <3>1, <3>2
  <2>3. PICK sk \in Nat : sk = s[k] /\ sk <= limit - 1
    BY <1>3, <1>4, <1>6
  <2>4. e \in Nat /\ e <= 1
    OBVIOUS
  <2>5. t[1] = 0 + e /\ t[k] = sk + e
    BY <1>3, <2>2, <2>3
  <2>6. \A a \in 0..(k - 1) : ~(a <= 0 - w)
    OBVIOUS
  <2>7. t[1] <= 1 /\ t[0] <= 1 - 1 /\ t[k] - t[1] <= limit - 1
    BY <1>3, <2>3, <2>4, <2>5
  <2> QED
    BY <1>2, <2>1, <2>6, <2>7 DEF Within
<1> QED
  BY <1>5, <1>6

\* The numbers of a site, and the clock and the buckets of a worker.
LEMMA LimitParts ==
    ASSUME QuotaInv
    PROVE  /\ cfg.window \in Nat /\ cfg.limit \in Nat /\ now \in Nat
           /\ \A i \in Ips : /\ bucket[BucketOf[i]].start \in Nat
                             /\ bucket[BucketOf[i]].count \in Nat
                             /\ admitted[i] \in [0..(cfg.window - 1) -> Nat]
<1>1. cfg.window \in Nat /\ cfg.limit \in Nat /\ now \in Nat
  BY SiteAssumption DEF QuotaInv, ServeInv, ServeTypeOK, cfg
<1>2. ASSUME NEW i \in Ips
      PROVE  bucket[BucketOf[i]].start \in Nat /\ bucket[BucketOf[i]].count \in Nat
  <2>1. bucket[BucketOf[i]] \in BucketRecord
    BY DEF QuotaInv, ServeInv, ServeTypeOK, Buckets
  <2> QED
    BY <2>1 DEF BucketRecord
<1>3. ASSUME NEW i \in Ips PROVE admitted[i] \in [0..(cfg.window - 1) -> Nat]
  <2>1. admitted[i] \in [0..(cfg.window - 1) -> 0..(2 * cfg.limit)]
    BY DEF QuotaInv
  <2>2. 0..(2 * cfg.limit) \subseteq Nat
    BY <1>1
  <2> QED
    BY <2>1, <2>2
<1> QED
  BY <1>1, <1>2, <1>3

\* No address has been let in yet.
LEMMA QuotaInitHolds == Init => QuotaInv
<1> SUFFICES ASSUME Init PROVE QuotaInv
  OBVIOUS
<1>1. ServeInv
  BY ServeInitHolds
<1>2. PICK w \in Nat, limit \in Nat : w = cfg.window /\ limit = cfg.limit
  BY SiteAssumption DEF Init, cfg
<1>3. admitted = [i \in Ips |-> [age \in 0..(w - 1) |-> 0]]
  BY <1>2 DEF Init
<1>4. 0 \in 0..(2 * limit)
  OBVIOUS
<1>5. admitted \in [Ips -> [0..(w - 1) -> 0..(2 * limit)]]
  BY <1>3, <1>4
<1>6. ASSUME NEW i \in Ips PROVE Accounted(i)
  <2>1. bucket[BucketOf[i]] = [ip |-> NoIp, start |-> 0, count |-> 0] /\ NoIp # i /\ now = 1
    BY SiteAssumption DEF Init, NoIp
  <2>2. PICK f \in [0..(w - 1) -> Nat] : f = admitted[i] /\ \A a \in 0..(w - 1) : f[a] = 0
    BY <1>3
  <2>3. ASSUME NEW k \in 0..w PROVE Sums(f, w)[k] = 0
    <3>1. \A a \in 0..(k - 1) : f[a] = 0
      BY <2>2
    <3> QED
      BY <3>1, SumsZero
  <2> QED
    BY <1>2, <2>1, <2>2, <2>3 DEF Accounted
<1> QED
  BY <1>1, <1>2, <1>5, <1>6 DEF QuotaInv

\* A second passes between two requests.
LEMMA TickAccounted ==
    ASSUME QuotaInv, Tick, Limits, NEW i \in Ips
    PROVE  Accounted(i)'
<1>1. PICK w \in Nat, limit \in Nat : w = cfg.window /\ limit = cfg.limit /\ w > 0 /\ limit > 0
  BY LimitParts DEF Limits
<1>2. w = cfg'.window /\ limit = cfg'.limit /\ bucket' = bucket /\ now' = now + 1
  BY <1>1 DEF Tick, cfg
<1>3. PICK b : b = bucket[BucketOf[i]] /\ b.start \in Nat /\ b.count \in Nat
  BY LimitParts
<1>4. PICK f \in [0..(w - 1) -> Nat] : f = admitted[i]
  BY <1>1, LimitParts
<1>5. \A j \in Ips : admitted'[j] = [a \in 0..(w - 1) |-> IF a = 0 THEN 0 ELSE admitted[j][a - 1]]
  <2>1. \A j \in Ips : DOMAIN admitted[j] = 0..(w - 1)
    BY <1>1, LimitParts
  <2> QED
    BY <2>1 DEF Tick
<1>6. PICK g \in [0..(w - 1) -> Nat] :
        g = admitted'[i] /\ \A a \in 0..(w - 1) : g[a] = IF a = 0 THEN 0 ELSE f[a - 1]
  <2>1. admitted'[i] = [a \in 0..(w - 1) |-> IF a = 0 THEN 0 ELSE f[a - 1]]
    BY <1>4, <1>5
  <2>2. \A a \in 0..(w - 1) : (IF a = 0 THEN 0 ELSE f[a - 1]) \in Nat
    OBVIOUS
  <2> QED
    BY <2>1, <2>2
<1>7. /\ b.start <= now
      /\ b.ip = i => 1 <= b.count /\ b.count <= limit
      /\ \A k \in 0..w : Quiet(i, k) =>
           IF b.ip = i THEN Within(w, limit, f, now - b.start, b.count, k)
           ELSE Sums(f, w)[k] = 0
  BY <1>1, <1>3, <1>4 DEF QuotaInv, Accounted
<1>8. PICK d \in Nat : d = now - b.start /\ now' - b.start = d + 1
  <2>1. PICK n \in Nat, s \in Nat : n = now /\ s = b.start /\ s <= n
    BY <1>3, <1>7, LimitParts
  <2>2. n - s \in Nat /\ (n + 1) - s = (n - s) + 1
    BY <2>1
  <2>3. now' - b.start = (n + 1) - s /\ now - b.start = n - s
    BY <1>2, <2>1
  <2> QED
    BY <2>2, <2>3
<1>9. ASSUME NEW k \in 0..w, Quiet(i, k)'
      PROVE  IF b.ip = i THEN Within(w, limit, g, d + 1, b.count, k) ELSE Sums(g, w)[k] = 0
  <2>1. ASSUME k > 0 PROVE Quiet(i, k - 1)
    <3> SUFFICES ASSUME NEW j \in Ips \ {i}, BucketOf[j] = BucketOf[i],
                        NEW a \in 0..((k - 1) - 1)
                 PROVE  admitted[j][a] = 0
      BY DEF Quiet
    <3>1. PICK c \in 0..(w - 1) : c = a + 1 /\ c # 0 /\ c - 1 = a /\ c \in 0..(k - 1)
      BY <2>1
    <3>2. admitted'[j][c] = 0
      BY <1>9, <3>1 DEF Quiet
    <3>3. admitted'[j][c] = admitted[j][c - 1]
      <4>1. admitted'[j] = [z \in 0..(w - 1) |-> IF z = 0 THEN 0 ELSE admitted[j][z - 1]]
        BY <1>5
      <4>2. admitted'[j][c] = IF c = 0 THEN 0 ELSE admitted[j][c - 1]
        BY <4>1
      <4> QED
        BY <3>1, <4>2
    <3> QED
      BY <3>1, <3>2, <3>3
  <2>2. k > 0 => k - 1 \in 0..w
    OBVIOUS
  <2>3. CASE b.ip = i
    <3>1. k > 0 => Within(w, limit, f, d, b.count, k - 1)
      BY <1>7, <1>8, <2>1, <2>2, <2>3
    <3>2. b.count \in Nat /\ b.count >= 1
      BY <1>3, <1>7, <2>3
    <3> QED
      BY <1>1, <1>6, <2>3, <3>1, <3>2, WithinLater
  <2>4. CASE b.ip # i /\ k > 0
    <3>1. PICK n \in 0..(w - 1) : n = k - 1 /\ k = n + 1
      BY <2>4
    <3>2. Sums(f, w)[n] = 0
      BY <1>7, <2>1, <2>2, <2>4, <3>1
    <3>3. Sums(g, w)[n + 1] = Sums(f, w)[n]
      BY <1>6, SumsShift
    <3> QED
      BY <2>4, <3>1, <3>2, <3>3
  <2>5. CASE b.ip # i /\ k = 0
    BY <2>5, SumsAt
  <2> QED
    BY <2>3, <2>4, <2>5
<1>10. b.start <= now'
  BY <1>2, <1>3, <1>7, LimitParts
<1> QED
  BY <1>2, <1>3, <1>6, <1>7, <1>8, <1>9, <1>10 DEF Accounted

\* What a request that is let in changes: one bucket, and one history.
LEMMA AdmitChanges ==
    ASSUME QuotaInv, RouteAdmitted, Limits
    PROVE  /\ ip \in Ips /\ site' = site /\ now' = now
           /\ \A i \in Ips : bucket'[BucketOf[i]] =
                               IF BucketOf[i] = BucketOf[ip] THEN Counted ELSE bucket[BucketOf[i]]
           /\ admitted' \in [Ips -> [0..(cfg.window - 1) -> 0..(2 * cfg.limit)]]
           /\ \A i \in Ips \ {ip} : admitted'[i] = admitted[i]
           /\ \E e \in {0, 1} : admitted'[ip][0] = admitted[ip][0] + e
           /\ admitted'[ip][0] # 0
           /\ \A a \in 1..(cfg.window - 1) : admitted'[ip][a] = admitted[ip][a]
<1>1. PICK w \in Nat, limit \in Nat : w = cfg.window /\ limit = cfg.limit /\ w > 0 /\ limit > 0
  BY LimitParts DEF Limits
<1>2. ip \in Ips
  BY DEF QuotaInv, ServeInv, ServeTypeOK, RouteAdmitted
<1>3. bucket' = [bucket EXCEPT ![BucketOf[ip]] = Counted] /\ site' = site /\ now' = now
  BY DEF RouteAdmitted
<1>4. \A i \in Ips : BucketOf[i] \in DOMAIN bucket
  BY DEF QuotaInv, ServeInv, ServeTypeOK, Buckets
<1>5. \A i \in Ips : bucket'[BucketOf[i]] =
                       IF BucketOf[i] = BucketOf[ip] THEN Counted ELSE bucket[BucketOf[i]]
  BY <1>2, <1>3, <1>4
<1>6. admitted \in [Ips -> [0..(w - 1) -> 0..(2 * limit)]] /\ 0 \in 0..(w - 1)
  BY <1>1 DEF QuotaInv
<1>7. PICK x \in 0..(2 * limit) : x = admitted[ip][0]
  BY <1>2, <1>6
<1>8. PICK y \in 0..(2 * limit) : y = Min({x + 1, 2 * limit}) /\ y # 0 /\ (y = x \/ y = x + 1)
  <2>1. {x + 1, 2 * limit} \subseteq Nat /\ {x + 1, 2 * limit} # {}
    OBVIOUS
  <2>2. PICK z : z = Min({x + 1, 2 * limit})
    OBVIOUS
  <2>3. z \in {x + 1, 2 * limit} /\ \A v \in {x + 1, 2 * limit} : z <= v
    BY <2>1, <2>2, MinOfNat
  <2>4. limit \in Nat /\ limit > 0
    BY <1>1
  <2> QED
    BY <2>2, <2>3, <2>4
<1>9. PICK f \in [0..(w - 1) -> 0..(2 * limit)] : f = admitted[ip] /\ x = f[0]
  BY <1>2, <1>6, <1>7
<1>10. admitted' = [admitted EXCEPT ![ip] = [f EXCEPT ![0] = y]]
  <2>1. admitted' = [admitted EXCEPT
                       ![ip] = [admitted[ip] EXCEPT
                                  ![0] = Min({admitted[ip][0] + 1, 2 * cfg.limit})]]
    BY DEF RouteAdmitted
  <2> QED
    BY <1>1, <1>7, <1>8, <1>9, <2>1
<1>11. PICK g \in [0..(w - 1) -> 0..(2 * limit)] :
         g = [f EXCEPT ![0] = y] /\ g[0] = y /\ \A a \in 1..(w - 1) : g[a] = f[a]
  <2>1. PICK g : g = [f EXCEPT ![0] = y]
    OBVIOUS
  <2>2. g \in [0..(w - 1) -> 0..(2 * limit)] /\ g[0] = y
    BY <1>6, <2>1
  <2>3. \A a \in 1..(w - 1) : g[a] = f[a]
    BY <2>1
  <2> QED
    BY <2>1, <2>2, <2>3
<1>12. admitted' = [admitted EXCEPT ![ip] = g]
  BY <1>10, <1>11
<1>13. /\ admitted' \in [Ips -> [0..(w - 1) -> 0..(2 * limit)]] /\ admitted'[ip] = g
       /\ \A i \in Ips \ {ip} : admitted'[i] = admitted[i]
  BY <1>2, <1>6, <1>12
<1>14. \E e \in {0, 1} : y = x + e
  BY <1>8
<1>15. /\ \E e \in {0, 1} : admitted'[ip][0] = admitted[ip][0] + e
       /\ admitted'[ip][0] # 0
  BY <1>7, <1>8, <1>11, <1>13, <1>14
<1>16. \A a \in 1..(w - 1) : admitted'[ip][a] = admitted[ip][a]
  BY <1>9, <1>11, <1>13
<1> QED
  BY <1>1, <1>2, <1>3, <1>5, <1>13, <1>15, <1>16

\* A request is let in: its own bucket counts it, the buckets that share its place
\* hold nothing more, and the others stay.
LEMMA AdmitAccounted ==
    ASSUME QuotaInv, RouteAdmitted, Limits, NEW i \in Ips
    PROVE  Accounted(i)'
<1>1. PICK w \in Nat, limit \in Nat : w = cfg.window /\ limit = cfg.limit /\ w > 0 /\ limit > 0
  BY LimitParts DEF Limits
<1>2. /\ ip \in Ips /\ now' = now /\ now \in Nat
      /\ w = cfg'.window /\ limit = cfg'.limit
  BY <1>1, AdmitChanges, LimitParts DEF cfg
<1>3. PICK b : b = bucket[BucketOf[i]] /\ b.start \in Nat /\ b.count \in Nat
  BY LimitParts
<1>4. PICK f \in [0..(w - 1) -> Nat] : f = admitted[i]
  BY <1>1, LimitParts
<1>5. /\ b.start <= now
      /\ b.ip = i => 1 <= b.count /\ b.count <= limit
      /\ \A k \in 0..w : Quiet(i, k) =>
           IF b.ip = i THEN Within(w, limit, f, now - b.start, b.count, k)
           ELSE Sums(f, w)[k] = 0
  BY <1>1, <1>3, <1>4 DEF QuotaInv, Accounted
<1>6. PICK d \in Nat : d = now - b.start
  BY <1>2, <1>3, <1>5
<1>7. CASE i = ip
  <2>1. PICK e \in {0, 1} : admitted'[i][0] = f[0] + e
    BY <1>4, <1>7, AdmitChanges
  <2>2. PICK g \in [0..(w - 1) -> Nat] :
          g = admitted'[i] /\ g[0] = f[0] + e /\ \A a \in 1..(w - 1) : g[a] = f[a]
    <3>1. admitted'[i] \in [0..(w - 1) -> 0..(2 * limit)]
      BY <1>1, AdmitChanges
    <3>2. 0..(2 * limit) \subseteq Nat
      OBVIOUS
    <3>3. admitted'[i] \in [0..(w - 1) -> Nat]
      BY <3>1, <3>2
    <3> QED
      BY <1>1, <1>4, <1>7, <2>1, <3>3, AdmitChanges
  <2>3. ASSUME NEW k \in 0..w, Quiet(i, k)' PROVE Quiet(i, k)
    BY <1>7, <2>3, AdmitChanges DEF Quiet
  <2>4. bucket'[BucketOf[i]] = Counted /\ Mine = b
    BY <1>3, <1>7, AdmitChanges DEF Mine
  <2>5. CASE NewWindow
    <3>1. PICK c : c = Counted /\ c.ip = i /\ c.start = now /\ c.count = 1
      <4>1. Counted = [ip |-> i, start |-> now, count |-> 1]
        BY <1>7, <2>5 DEF Counted
      <4> QED
        BY <4>1
    <3>2. ASSUME NEW k \in 0..w, Quiet(i, k)' PROVE Within(w, limit, g, 0, 1, k)
      <4>1. CASE b.ip = i
        <5>1. d >= w
          BY <1>1, <1>2, <1>3, <1>6, <1>7, <2>4, <2>5, <4>1 DEF NewWindow
        <5>2. Within(w, limit, f, d, b.count, k) /\ b.count <= limit /\ b.count \in Nat
          BY <1>3, <1>5, <1>6, <2>3, <3>2, <4>1
        <5>3. \E dd \in Nat, count \in Nat :
                dd >= w /\ count <= limit /\ Within(w, limit, f, dd, count, k)
          BY <5>1, <5>2
        <5> QED
          BY <1>1, <2>2, <5>3, WithinOpens
      <4>2. CASE b.ip # i
        <5>1. Sums(f, w)[k] = 0
          BY <1>5, <2>3, <3>2, <4>2
        <5>2. \/ Sums(f, w)[k] = 0
              \/ \E dd \in Nat, count \in Nat :
                   dd >= w /\ count <= limit /\ Within(w, limit, f, dd, count, k)
          BY <5>1
        <5> QED
          BY <1>1, <2>2, <5>2, WithinOpens
      <4> QED
        BY <4>1, <4>2
    <3>3. now - c.start = 0
      BY <1>2, <3>1
    <3> QED
      BY <1>1, <1>2, <2>2, <2>4, <3>1, <3>2, <3>3 DEF Accounted
  <2>6. CASE ~NewWindow
    <3>1. b.ip = i /\ d < w
      BY <1>1, <1>2, <1>3, <1>6, <1>7, <2>4, <2>6, SMTT(30) DEF NewWindow
    <3>2. b.count < limit
      BY <1>1, <1>3, <2>4, <2>6 DEF RouteAdmitted, Exceeded
    <3>3. PICK c : c = Counted /\ c.ip = i /\ c.start = b.start /\ c.count = b.count + 1
      <4>1. b \in BucketRecord
        BY <1>3 DEF QuotaInv, ServeInv, ServeTypeOK, Buckets
      <4>2. Counted = [b EXCEPT !.count = @ + 1]
        BY <2>4, <2>6 DEF Counted
      <4> QED
        BY <3>1, <4>1, <4>2 DEF BucketRecord
    <3>4. ASSUME NEW k \in 0..w, Quiet(i, k)'
          PROVE  Within(w, limit, g, d, b.count + 1, k)
      <4>1. Within(w, limit, f, d, b.count, k) /\ b.count >= 1
        BY <1>5, <1>6, <2>3, <3>1, <3>4
      <4> QED
        BY <1>1, <1>3, <2>2, <3>1, <4>1, WithinCounts
    <3>5. 1 <= c.count /\ c.count <= limit /\ c.start <= now
      BY <1>2, <1>3, <1>5, <3>1, <3>2, <3>3
    <3> QED
      BY <1>2, <1>6, <2>2, <2>4, <3>3, <3>4, <3>5 DEF Accounted
  <2> QED
    BY <2>5, <2>6
<1>8. CASE i # ip /\ BucketOf[i] = BucketOf[ip]
  <2>1. PICK c : c = Counted /\ c = bucket'[BucketOf[i]] /\ c.ip = ip /\ c.start <= now
    <3>1. bucket'[BucketOf[i]] = Counted
      BY <1>8, AdmitChanges
    <3>2. CASE NewWindow
      BY <1>2, <3>1, <3>2 DEF Counted
    <3>3. CASE ~NewWindow
      <4>1. b \in BucketRecord /\ Mine = b
        BY <1>3, <1>8 DEF QuotaInv, ServeInv, ServeTypeOK, Buckets, Mine
      <4>2. Counted = [b EXCEPT !.count = @ + 1] /\ b.ip = ip
        BY <3>3, <4>1 DEF Counted, NewWindow
      <4> QED
        BY <1>5, <3>1, <4>1, <4>2 DEF BucketRecord
    <3> QED
      BY <3>2, <3>3
  <2>2. admitted'[i] = f
    BY <1>4, <1>8, AdmitChanges
  <2>3. ASSUME NEW k \in 0..w, Quiet(i, k)' PROVE Sums(f, w)[k] = 0
    <3>1. CASE k = 0
      BY <3>1, SumsAt
    <3>2. CASE k > 0
      <4>1. admitted'[ip][0] = 0
        BY <1>2, <1>8, <2>3, <3>2 DEF Quiet
      <4> QED
        BY <4>1, AdmitChanges
    <3> QED
      BY <3>1, <3>2
  <2> QED
    BY <1>2, <1>8, <2>1, <2>2, <2>3 DEF Accounted
<1>9. CASE BucketOf[i] # BucketOf[ip]
  <2>1. bucket'[BucketOf[i]] = b /\ admitted'[i] = f
    BY <1>3, <1>4, <1>9, AdmitChanges
  <2>2. ASSUME NEW k \in 0..w, Quiet(i, k)' PROVE Quiet(i, k)
    BY <1>9, <2>2, AdmitChanges DEF Quiet
  <2> QED
    BY <1>2, <1>5, <2>1, <2>2 DEF Accounted
<1> QED
  BY <1>7, <1>8, <1>9

\* Every step keeps the accounts.
LEMMA QuotaStepHolds ==
    ASSUME QuotaInv, [Next]_vars
    PROVE  QuotaInv'
<1>1. ServeInv'
  BY ServeStepHolds DEF QuotaInv
<1>2. CASE UNCHANGED <<site, bucket, admitted, now>>
  <2>1. cfg' = cfg /\ (Limits' <=> Limits)
    BY <1>2 DEF cfg, Limits
  <2>2. \A i \in Ips : Accounted(i)' <=> Accounted(i)
    BY <1>2, <2>1 DEF Accounted, Quiet
  <2> QED
    BY <1>1, <1>2, <2>1, <2>2 DEF QuotaInv
<1>3. CASE Tick
  <2>1. cfg' = cfg /\ (Limits' <=> Limits)
    BY <1>3 DEF Tick, cfg, Limits
  <2>2. PICK w \in Nat, limit \in Nat : w = cfg.window /\ limit = cfg.limit
    BY LimitParts
  <2>3. admitted \in [Ips -> [0..(w - 1) -> 0..(2 * limit)]]
    BY <2>2 DEF QuotaInv
  <2>4. ASSUME NEW i \in Ips PROVE admitted'[i] \in [0..(w - 1) -> 0..(2 * limit)]
    <3>1. PICK f \in [0..(w - 1) -> 0..(2 * limit)] : f = admitted[i]
      BY <2>3
    <3>2. admitted'[i] = [a \in 0..(w - 1) |-> IF a = 0 THEN 0 ELSE f[a - 1]]
      BY <1>3, <3>1 DEF Tick
    <3>3. \A a \in 0..(w - 1) : (IF a = 0 THEN 0 ELSE f[a - 1]) \in 0..(2 * limit)
      OBVIOUS
    <3> QED
      BY <3>2, <3>3
  <2>5. DOMAIN admitted' = Ips /\ admitted' = [i \in Ips |-> admitted'[i]]
    BY <1>3 DEF Tick
  <2>6. admitted' \in [Ips -> [0..(w - 1) -> 0..(2 * limit)]]
    BY <2>4, <2>5
  <2> QED
    BY <1>1, <1>3, <2>1, <2>2, <2>6, TickAccounted DEF QuotaInv
<1>4. CASE RouteAdmitted /\ Limits
  <2>1. cfg' = cfg
    BY <1>4 DEF RouteAdmitted, cfg
  <2> QED
    BY <1>1, <1>4, <2>1, AdmitChanges, AdmitAccounted DEF QuotaInv
<1>5. CASE RouteAdmitted /\ ~Limits
  BY <1>2, <1>5 DEF RouteAdmitted
<1>6. CASE \E r \in cfg.requests, i \in cfg.clients : Arrive(r, i)
  BY <1>2, <1>6 DEF Arrive
<1>7. CASE RouteEarly \/ RouteLimited \/ RouteProxy
  BY <1>2, <1>7 DEF RouteEarly, RouteLimited, RouteProxy, serveVars
<1>8. CASE StaticRefuses \/ StaticRelays \/ StaticOpens \/ static_meta_get \/ RelayEnds
  BY <1>2, <1>8 DEF StaticRefuses, StaticRelays, StaticOpens, static_meta_get, RelayEnds,
                    serveVars
<1>9. CASE SendStep /\ UNCHANGED serveVars
  <2>1. now' = now
    BY <1>9 DEF SendStep, send_file_fd, WriteHeaders, WriteFails, WriteMemory, Sendfile,
                SendfileFallsBack, CopyChunk, WriteSmall, SmallFails
  <2> QED
    BY <1>2, <1>9, <2>1 DEF serveVars
<1>10. CASE (NetChanges \/ \E f \in cfg.changing : FileChanges(f)) /\ UNCHANGED serveVars
  BY <1>2, <1>10 DEF NetChanges, FileChanges, serveVars
<1>11. CASE UNCHANGED vars
  BY <1>2, <1>11 DEF vars, fileVars, serveVars
<1> QED
  BY <1>3, <1>4, <1>5, <1>6, <1>7, <1>8, <1>9, <1>10, <1>11 DEF Next, ServeStep

\* However the requests of all addresses are spread, whichever windows they open and
\* take over, no address that has its bucket to itself for a window gets twice the
\* limit in it (rpsiod_rate_limit_exceeded).
THEOREM QuotaKept == Spec => []QuotaHeld
<1>1. Init => QuotaInv
  BY QuotaInitHolds
<1>2. QuotaInv /\ [Next]_vars => QuotaInv'
  BY QuotaStepHolds
<1>3. QuotaInv => QuotaHeld
  <2> SUFFICES ASSUME QuotaInv, Limits, NEW i \in Ips,
                      \A j \in Ips \ {i} : BucketOf[j] = BucketOf[i] =>
                        ~(Sums(admitted[j], cfg.window)[cfg.window] > 0)
               PROVE  Sums(admitted[i], cfg.window)[cfg.window] < 2 * cfg.limit
    BY DEF QuotaHeld
  <2>1. PICK w \in Nat, limit \in Nat : w = cfg.window /\ limit = cfg.limit /\ w > 0 /\ limit > 0
    BY LimitParts DEF Limits
  <2>2. PICK f \in [0..(w - 1) -> Nat] : f = admitted[i]
    BY <2>1, LimitParts
  <2>3. PICK s : s = Sums(f, w) /\ \A n \in 0..w : s[n] \in Nat
    BY SumsAt
  <2>4. w \in 0..w
    OBVIOUS
  <2>5. Quiet(i, w)
    <3> SUFFICES ASSUME NEW j \in Ips \ {i}, BucketOf[j] = BucketOf[i]
                 PROVE  \A a \in 0..(w - 1) : admitted[j][a] = 0
      BY DEF Quiet
    <3>1. PICK h \in [0..(w - 1) -> Nat] : h = admitted[j]
      BY <2>1, LimitParts
    <3>2. Sums(h, w)[w] \in Nat /\ ~(Sums(h, w)[w] > 0)
      BY <2>1, <2>4, <3>1, SumsAt
    <3>3. Sums(h, w)[w] = 0
      BY <3>2
    <3>4. \A a \in 0..(w - 1) : h[a] = 0
      BY <2>4, <3>3, SumsZero
    <3> QED
      BY <3>1, <3>4
  <2>6. PICK b : b = bucket[BucketOf[i]] /\ b.start \in Nat /\ b.count \in Nat
    BY LimitParts
  <2>7. /\ b.start <= now
        /\ b.ip = i => 1 <= b.count /\ b.count <= limit
        /\ IF b.ip = i THEN Within(w, limit, f, now - b.start, b.count, w)
           ELSE s[w] = 0
    BY <2>1, <2>2, <2>3, <2>4, <2>5, <2>6 DEF QuotaInv, Accounted
  <2>8. PICK d \in Nat : d = now - b.start
    BY <2>6, <2>7, LimitParts
  <2>9. s[w] < 2 * limit
    <3>1. CASE b.ip # i
      BY <2>1, <2>7, <3>1
    <3>2. CASE b.ip = i
      <4>1. PICK x \in 0..w : x = Less(w, d + 1)
        BY DEF Less
      <4>2. s[x] <= b.count /\ s[w] - s[x] <= limit - 1
        BY <2>3, <2>7, <2>8, <3>2, <4>1 DEF Within
      <4>3. PICK sx \in Nat, sw \in Nat : sx = s[x] /\ sw = s[w]
        BY <2>3, <2>4
      <4>4. sx <= limit /\ sw - sx <= limit - 1
        BY <2>6, <2>7, <3>2, <4>2, <4>3
      <4>5. sw < 2 * limit
        BY <4>4
      <4> QED
        BY <4>3, <4>5
    <3> QED
      BY <3>1, <3>2
  <2> QED
    BY <2>1, <2>2, <2>3, <2>9
<1> QED
  BY <1>1, <1>2, <1>3, PTL DEF Spec
=============================================================================
