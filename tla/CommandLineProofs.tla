-------------------------- MODULE CommandLineProofs --------------------------
(***************************************************************************)
(* Proofs about the commands for every number of workers, header lines,    *)
(* sites, table slots, threads and assets: a worker serves TLS with a pair *)
(* that fits, a header is accepted when it is unambiguous, a request goes  *)
(* to the site that claims it, redirects end, and the report of a page     *)
(* load is exact.                                                          *)
(***************************************************************************)
EXTENDS CommandLine, FiniteSetTheorems, SequenceTheorems, SequenceFacts, TLAPS

(***************************************************************************)
(* The certificate and the key (rpsiod_tls_create_context).                *)
(***************************************************************************)

SeenRecord == [cert : Content, key : Content]

\* A worker that compares the key has read a certificate; while it reads pairs it
\* counts them, so that AfterPair is defined.
PairRead ==
    \A w \in Workers :
        /\ pc[w] = "useKey" => seen[w].cert \notin {"absent", "empty"}
        /\ pc[w] \notin {"certExists", "keyExists", "exited"} => round[w] \in 1..3

TlsInv == TlsTypeOK /\ PairRead /\ ServedPairMatches

\* The fields of what a worker has read of the pair.
LEMMA SeenParts ==
    ASSUME NEW r \in SeenRecord
    PROVE  r.cert \in Content /\ r.key \in Content
  BY DEF SeenRecord

\* Reading one file changes one field.
LEMMA SeenChanged ==
    ASSUME NEW r \in SeenRecord, NEW c \in Content
    PROVE  /\ [r EXCEPT !.cert = c] \in SeenRecord /\ [r EXCEPT !.key = c] \in SeenRecord
           /\ [r EXCEPT !.cert = c].cert = c /\ [r EXCEPT !.cert = c].key = r.key
           /\ [r EXCEPT !.key = c].key = c /\ [r EXCEPT !.key = c].cert = r.cert
  BY DEF SeenRecord

\* No worker has read anything at the start.
LEMMA TlsInitHolds == TlsInit => TlsInv
<1> SUFFICES ASSUME TlsInit PROVE TlsInv
  OBVIOUS
<1>1. cert \in Content /\ key \in Content /\ "absent" \in Content
  BY DEF TlsInit, Content
<1>2. faults \in 0..MaxFaults /\ 0 \in 0..3
  BY TlsStartAssumption DEF TlsInit
<1>3. TlsTypeOK
  BY <1>1, <1>2 DEF TlsInit, TlsTypeOK, PCs
<1>4. PairRead /\ ServedPairMatches
  BY DEF TlsInit, PairRead, ServedPairMatches
<1> QED
  BY <1>3, <1>4 DEF TlsInv

\* What one worker does to its own progress; the others keep theirs.
LEMMA WorkerMoves ==
    ASSUME TlsInv, NEW w \in Workers, NEW there \in PCs, NEW n \in 0..3, NEW r \in SeenRecord,
           pc' = [pc EXCEPT ![w] = there], round' = [round EXCEPT ![w] = n],
           seen' = [seen EXCEPT ![w] = r],
           cert' \in Content, key' \in Content, faults' \in 0..MaxFaults,
           there = "useKey" => r.cert \notin {"absent", "empty"},
           there \notin {"certExists", "keyExists", "exited"} => n \in 1..3,
           there = "serving" => r.cert = r.key /\ r.cert \notin {"absent", "empty"}
    PROVE  TlsInv'
<1>0. TlsTypeOK /\ PairRead /\ ServedPairMatches
  BY DEF TlsInv
<1>1. /\ pc' \in [Workers -> PCs] /\ round' \in [Workers -> 0..3]
      /\ seen' \in [Workers -> SeenRecord]
      /\ pc'[w] = there /\ round'[w] = n /\ seen'[w] = r
      /\ \A v \in Workers : v # w => pc'[v] = pc[v] /\ round'[v] = round[v] /\ seen'[v] = seen[v]
  BY <1>0 DEF TlsTypeOK, SeenRecord
<1>2. TlsTypeOK'
  BY <1>1 DEF TlsTypeOK, SeenRecord
<1>3. PairRead'
  BY <1>0, <1>1 DEF PairRead
<1>4. ServedPairMatches'
  BY <1>0, <1>1 DEF ServedPairMatches
<1> QED
  BY <1>2, <1>3, <1>4 DEF TlsInv

\* A worker reaches serving only through the comparison of the pair it read,
\* and a restarted worker reads both files again.
LEMMA TlsStepHolds ==
    ASSUME TlsInv, TlsNext
    PROVE  TlsInv'
<1>0. TlsTypeOK /\ PairRead /\ ServedPairMatches
  BY DEF TlsInv
<1>1. PICK w \in Workers : Starts(w) \/ Killed(w)
  BY DEF TlsNext
<1>2. /\ cert \in Content /\ key \in Content /\ faults \in 0..MaxFaults
      /\ pc \in [Workers -> PCs] /\ round \in [Workers -> 0..3] /\ round[w] \in 0..3
      /\ seen \in [Workers -> SeenRecord] /\ seen[w] \in SeenRecord
      /\ pc = [pc EXCEPT ![w] = pc[w]] /\ round = [round EXCEPT ![w] = round[w]]
      /\ seen = [seen EXCEPT ![w] = seen[w]]
      /\ "empty" \in Content /\ w \in Content
  BY <1>0 DEF TlsTypeOK, SeenRecord, Content
<1>3. /\ pc[w] = "useKey" => seen[w].cert \notin {"absent", "empty"}
      /\ pc[w] \notin {"certExists", "keyExists", "exited"} => round[w] \in 1..3
  BY <1>0 DEF PairRead
<1>4. MaxFaults \in Nat /\ (faults < MaxFaults => faults + 1 \in 0..MaxFaults)
  BY <1>2, TlsStartAssumption
<1>a. 0 \in 0..3 /\ 1 \in 0..3 /\ 1 \in 1..3 /\ 2 \in 0..3 /\ 2 \in 1..3
  OBVIOUS
<1>5. CASE CertExists(w)
  <2> DEFINE r == [seen[w] EXCEPT !.cert = cert]
  <2>1. r \in SeenRecord
    BY <1>2, SeenChanged
  <2>2. /\ pc' = [pc EXCEPT ![w] = "keyExists"] /\ round' = [round EXCEPT ![w] = round[w]]
        /\ seen' = [seen EXCEPT ![w] = r] /\ UNCHANGED <<cert, key, faults>>
    BY <1>2, <1>5 DEF CertExists, Goto
  <2>3. "keyExists" \in PCs
    BY DEF PCs
  <2> HIDE DEF r
  <2> QED
    BY <1>2, <1>a, <2>1, <2>2, <2>3, WorkerMoves
<1>6. CASE KeyExists(w)
  <2> DEFINE r == [seen[w] EXCEPT !.key = key]
             there == LET certThere == seen[w].cert # "absent"
                          keyThere == key # "absent"
                      IN  IF certThere # keyThere THEN "exited"
                          ELSE IF certThere THEN "useCert" ELSE "certReadable"
  <2>1. r \in SeenRecord
    BY <1>2, SeenChanged
  <2>2. there \in {"exited", "useCert", "certReadable"}
    OBVIOUS
  <2>3. /\ pc' = [pc EXCEPT ![w] = there] /\ round' = [round EXCEPT ![w] = 1]
        /\ seen' = [seen EXCEPT ![w] = r] /\ UNCHANGED <<cert, key, faults>>
    BY <1>2, <1>6 DEF KeyExists, Goto
  <2> HIDE DEF r, there
  <2>4. there \in PCs
    BY <2>2 DEF PCs
  <2> QED
    BY <1>2, <1>a, <2>1, <2>2, <2>3, <2>4, WorkerMoves
<1>7. CASE UseCert(w)
  <2> DEFINE r == [seen[w] EXCEPT !.cert = cert]
             there == IF cert \in {"absent", "empty"} THEN "exited" ELSE "useKey"
  <2>1. r \in SeenRecord /\ r.cert = cert
    BY <1>2, SeenChanged, ZenonT(60)
  <2>2. /\ there \in {"exited", "useKey"}
        /\ there = "useKey" => cert \notin {"absent", "empty"}
    OBVIOUS
  <2>3. /\ pc' = [pc EXCEPT ![w] = there] /\ round' = [round EXCEPT ![w] = round[w]]
        /\ seen' = [seen EXCEPT ![w] = r] /\ UNCHANGED <<cert, key, faults>>
        /\ pc[w] = "useCert"
    BY <1>2, <1>7 DEF UseCert, Goto
  <2> HIDE DEF r, there
  <2>4. there \in PCs
    BY <2>2 DEF PCs
  <2> QED
    BY <1>2, <1>3, <2>1, <2>2, <2>3, <2>4, WorkerMoves
<1>8. CASE UseKey(w)
  <2> DEFINE r == [seen[w] EXCEPT !.key = key]
             there == IF KeyFits(seen[w].cert, key) THEN AfterPair(round[w]) ELSE "exited"
             n == IF round[w] < 3 THEN round[w] + 1 ELSE round[w]
  <2>1. r \in SeenRecord /\ r.key = key /\ r.cert = seen[w].cert
    BY <1>2, SeenChanged
  <2>2. /\ pc' = [pc EXCEPT ![w] = there] /\ round' = [round EXCEPT ![w] = n]
        /\ seen' = [seen EXCEPT ![w] = r] /\ UNCHANGED <<cert, key, faults>>
        /\ pc[w] = "useKey"
    BY <1>2, <1>8 DEF UseKey, Goto
  <2>3. round[w] \in 1..3 /\ seen[w].cert \notin {"absent", "empty"}
    BY <1>3, <2>2
  <2>4. n \in 1..3 /\ n \in 0..3
    BY <2>3
  <2>5. round[w] = 1 \/ round[w] = 2 \/ round[w] = 3
    BY <2>3
  <2>6. AfterPair(round[w]) \in {"certReadable", "useCert", "serving"}
    BY <2>5 DEF AfterPair
  <2>7. /\ there \in {"certReadable", "useCert", "serving", "exited"}
        /\ there = "serving" => seen[w].cert = key
    BY <2>6 DEF KeyFits
  <2> HIDE DEF r, there, n
  <2>8. there \in PCs
    BY <2>7 DEF PCs
  <2> QED
    BY <1>2, <2>1, <2>2, <2>3, <2>4, <2>7, <2>8, WorkerMoves
<1>9. CASE CertReadable(w)
  <2> DEFINE there == IF cert # "absent" THEN "keyReadable" ELSE "openKey"
  <2>1. there \in {"keyReadable", "openKey"}
    OBVIOUS
  <2>2. /\ pc' = [pc EXCEPT ![w] = there] /\ round' = [round EXCEPT ![w] = 2]
        /\ seen' = [seen EXCEPT ![w] = seen[w]] /\ UNCHANGED <<cert, key, faults>>
    BY <1>2, <1>9 DEF CertReadable, Goto
  <2> HIDE DEF there
  <2>3. there \in PCs
    BY <2>1 DEF PCs
  <2> QED
    BY <1>2, <1>a, <2>1, <2>2, <2>3, WorkerMoves
<1>10. CASE KeyReadable(w)
  <2> DEFINE there == IF key # "absent" THEN "useCert" ELSE "openKey"
  <2>1. there \in {"useCert", "openKey"}
    OBVIOUS
  <2>2. /\ pc' = [pc EXCEPT ![w] = there] /\ round' = [round EXCEPT ![w] = round[w]]
        /\ seen' = [seen EXCEPT ![w] = seen[w]] /\ UNCHANGED <<cert, key, faults>>
        /\ pc[w] = "keyReadable"
    BY <1>2, <1>10 DEF KeyReadable, Goto
  <2> HIDE DEF there
  <2>3. there \in PCs
    BY <2>1 DEF PCs
  <2> QED
    BY <1>2, <1>3, <2>1, <2>2, <2>3, WorkerMoves
<1>11. CASE OpenKey(w) \/ WriteKey(w) \/ OpenCert(w) \/ WriteCert(w)
  <2>1. PICK there \in {"writeKey", "openCert", "writeCert", "useCert"} :
          pc' = [pc EXCEPT ![w] = there]
    BY <1>11 DEF OpenKey, WriteKey, OpenCert, WriteCert, Goto
  <2>2. /\ round' = [round EXCEPT ![w] = round[w]] /\ seen' = [seen EXCEPT ![w] = seen[w]]
        /\ pc[w] \in {"openKey", "writeKey", "openCert", "writeCert"}
    BY <1>2, <1>11 DEF OpenKey, WriteKey, OpenCert, WriteCert
  <2>3. cert' \in Content /\ key' \in Content /\ faults' \in 0..MaxFaults
    BY <1>2, <1>4, <1>11 DEF OpenKey, WriteKey, OpenCert, WriteCert
  <2>4. there \in PCs
    BY <2>1 DEF PCs
  <2> QED
    BY <1>2, <1>3, <2>1, <2>2, <2>3, <2>4, WorkerMoves
<1>12. CASE Restart(w)
  <2> DEFINE r == [cert |-> "absent", key |-> "absent"]
  <2>1. r \in SeenRecord /\ "certExists" \in PCs
    BY DEF SeenRecord, Content, PCs
  <2>2. /\ pc' = [pc EXCEPT ![w] = "certExists"] /\ round' = [round EXCEPT ![w] = 0]
        /\ seen' = [seen EXCEPT ![w] = r] /\ UNCHANGED <<cert, key, faults>>
    BY <1>12 DEF Restart, Goto
  <2> HIDE DEF r
  <2> QED
    BY <1>2, <1>a, <2>1, <2>2, WorkerMoves
<1>13. CASE Killed(w)
  <2>1. /\ pc' = [pc EXCEPT ![w] = "exited"] /\ round' = [round EXCEPT ![w] = round[w]]
        /\ seen' = [seen EXCEPT ![w] = seen[w]] /\ UNCHANGED <<cert, key>>
        /\ faults' \in 0..MaxFaults /\ "exited" \in PCs
    BY <1>2, <1>4, <1>13 DEF Killed, Goto, PCs
  <2> QED
    BY <1>2, <2>1, WorkerMoves
<1> QED
  BY <1>1, <1>5, <1>6, <1>7, <1>8, <1>9, <1>10, <1>11, <1>12, <1>13 DEF Starts

\* However the workers' reads and writes of the two files interleave, and whichever
\* writes fail, no worker serves TLS with a key that does not belong to its
\* certificate (rpsiod_tls_create_context, ensure_auto_certificate).
THEOREM TlsPairsMatch == Spec => []ServedPairMatches
<1>1. Init => TlsInv
  BY TlsInitHolds DEF Init
<1>2. TlsInv /\ [Next]_vars => TlsInv'
  <2> SUFFICES ASSUME TlsInv, [Next]_vars PROVE TlsInv'
    OBVIOUS
  <2>1. TlsNext \/ UNCHANGED tlsVars
    BY DEF Next, Configtest, Serve, Trace, Bench, vars
  <2>2. CASE TlsNext
    BY <2>2, TlsStepHolds
  <2>3. CASE UNCHANGED tlsVars
    BY <2>3 DEF tlsVars, TlsInv, TlsTypeOK, PairRead, ServedPairMatches
  <2> QED
    BY <2>1, <2>2, <2>3
<1>3. TlsInv => ServedPairMatches
  BY DEF TlsInv
<1> QED
  BY <1>1, <1>2, <1>3, PTL DEF Spec

(***************************************************************************)
(* The request header (rpsiod_http_parse_request).                         *)
(***************************************************************************)

HaveRecord == [host : BOOLEAN, length : BOOLEAN, te : BOOLEAN, upgrade : BOOLEAN,
               websocket : BOOLEAN]

RequestRecord == [host : Hosts \cup {NoHost}, length : Lengths \cup {NoLength},
                  keepAlive : BOOLEAN, internal : BOOLEAN,
                  range : {"none", "suffix", "span"}, websocket : BOOLEAN]

AnyLine == HeaderLines \cup OneTooMany

\* Types of what the parser fills in.
ParseTypeOK ==
    /\ lines \in Seq(AnyLine)
    /\ have \in HaveRecord
    /\ httpReq \in RequestRecord
    /\ verdict \in {"idle", "reading", "accepted", "refused"}

\* What the flags and fields say of the lines read so far, none of which was refused.
HeaderSound ==
    /\ Len(lines) <= MaxHeaders
    /\ \A i \in DOMAIN lines : lines[i].value # "bad"
    /\ \A i, j \in DOMAIN lines : lines[i].name = "Host" /\ lines[j].name = "Host" => i = j
    /\ Values("Host") = IF have.host THEN {httpReq.host} ELSE {}
    /\ Values("Content-Length") = IF have.length THEN {httpReq.length} ELSE {}
    /\ ~have.length => httpReq.length = NoLength
    /\ have.te <=> (Values("Transfer-Encoding") # {})
    /\ httpReq.internal <=> ("https" \in Values("X-Rpsiod-Internal-Scheme"))
    /\ have.upgrade => \E v \in Values("Connection") : "upgrade" \in Tokens(v)
    /\ have.websocket => "websocket" \in Values("Upgrade")

ParseInv ==
    /\ ParseTypeOK
    /\ verdict = "idle" => (lines = <<>> /\ have = NothingYet)
    /\ verdict \in {"reading", "accepted"} => HeaderSound
    /\ verdict = "accepted" =>
         /\ have.host = TRUE /\ have.te = FALSE
         /\ first.authority # NoHost => first.authority = httpReq.host
         /\ httpReq.websocket => (have.upgrade /\ have.websocket)
    /\ verdict = "refused" => ~Unambiguous

\* The fields of what the parser has seen.
LEMMA HaveParts ==
    ASSUME NEW h \in HaveRecord
    PROVE  /\ h.host \in BOOLEAN /\ h.length \in BOOLEAN /\ h.te \in BOOLEAN
           /\ h.upgrade \in BOOLEAN /\ h.websocket \in BOOLEAN
  BY DEF HaveRecord

\* The fields of the request built so far.
LEMMA RequestParts ==
    ASSUME NEW r \in RequestRecord
    PROVE  /\ r.host \in Hosts \cup {NoHost} /\ r.length \in Lengths \cup {NoLength}
           /\ r.keepAlive \in BOOLEAN /\ r.internal \in BOOLEAN
           /\ r.range \in {"none", "suffix", "span"} /\ r.websocket \in BOOLEAN
  BY DEF RequestRecord

\* The values of the lines that one more line adds.
LEMMA LineAdded ==
    ASSUME lines \in Seq(AnyLine), NEW line \in AnyLine, lines' = Append(lines, line)
    PROVE  /\ lines' \in Seq(AnyLine) /\ Len(lines') = Len(lines) + 1 /\ Len(lines) \in Nat
           /\ DOMAIN lines = 1..Len(lines) /\ DOMAIN lines' = 1..(Len(lines) + 1)
           /\ \A i \in DOMAIN lines : i \in DOMAIN lines' /\ lines'[i] = lines[i]
           /\ Len(lines) + 1 \in DOMAIN lines' /\ lines'[Len(lines) + 1] = line
           /\ \A i \in DOMAIN lines' : i \in DOMAIN lines \/ i = Len(lines) + 1
           /\ \A name : Values(name)' = Values(name) \cup
                          IF line.name = name THEN {line.value} ELSE {}
<1>1. /\ lines' \in Seq(AnyLine) /\ Len(lines') = Len(lines) + 1 /\ Len(lines) \in Nat
      /\ DOMAIN lines = 1..Len(lines) /\ DOMAIN lines' = 1..(Len(lines) + 1)
  BY AppendProperties, LenProperties
<1>2. /\ \A i \in DOMAIN lines : i \in DOMAIN lines' /\ lines'[i] = lines[i]
      /\ Len(lines) + 1 \in DOMAIN lines' /\ lines'[Len(lines) + 1] = line
      /\ \A i \in DOMAIN lines' : i \in DOMAIN lines \/ i = Len(lines) + 1
  BY <1>1, AppendProperties
<1>3. \A name : Values(name)' = Values(name) \cup IF line.name = name THEN {line.value} ELSE {}
  BY <1>2 DEF Values
<1> QED
  BY <1>1, <1>2, <1>3

\* Before the first line nothing has been seen.
LEMMA ParseInitHolds ==
    ASSUME lines = <<>>, have = NothingYet, verdict = "idle", NEW k \in BOOLEAN,
           httpReq = EmptyRequest(k)
    PROVE  ParseInv
<1>1. /\ lines \in Seq(AnyLine)
  BY EmptySeq
<1>2. have \in HaveRecord
  BY DEF NothingYet, HaveRecord
<1>3. httpReq \in RequestRecord
  BY DEF EmptyRequest, RequestRecord
<1> QED
  BY <1>1, <1>2, <1>3 DEF ParseInv, ParseTypeOK

\* The request line sets first and leaves the header empty.
LEMMA ReadRequestLineHolds ==
    ASSUME ParseInv, NEW line \in RequestLines, ReadRequestLine(line)
    PROVE  ParseInv'
<1>1. /\ lines = <<>> /\ have = NothingYet /\ lines' = lines /\ have' = have
      /\ verdict' = "reading" /\ httpReq' = EmptyRequest(line.version = "1.1")
      /\ ParseTypeOK
  BY DEF ReadRequestLine, ParseInv
<1>2. httpReq' \in RequestRecord /\ httpReq'.internal = FALSE /\ httpReq'.length = NoLength
  BY <1>1 DEF EmptyRequest, RequestRecord
<1>3. ParseTypeOK'
  BY <1>1, <1>2 DEF ParseTypeOK
<1>4. Len(lines') = 0 /\ DOMAIN lines' = {} /\ \A name : Values(name)' = {}
  BY <1>1, EmptySeq DEF Values
<1>5. /\ have'.host = FALSE /\ have'.length = FALSE /\ have'.te = FALSE
      /\ have'.upgrade = FALSE /\ have'.websocket = FALSE
  BY <1>1 DEF NothingYet
<1>6. 0 <= MaxHeaders
  BY HttpRequestAssumption
<1>7. HeaderSound'
  BY <1>2, <1>4, <1>5, <1>6 DEF HeaderSound
<1> QED
  BY <1>1, <1>3, <1>7 DEF ParseInv

\* The values a line of a given name may have.
LEMMA LineParts ==
    ASSUME NEW line \in AnyLine
    PROVE  /\ line.name = "Host" => line.value \in Hosts \cup {"bad"}
           /\ line.name = "Content-Length" => line.value \in Lengths \cup {"bad"}
           /\ line.name = "Range" => line.value \in {"suffix", "span", "bad"}
  BY DEF AnyLine, HeaderLines, OneTooMany, H

\* A finite set with two members has more than one.
LEMMA TwoMembers ==
    ASSUME NEW S, IsFiniteSet(S), NEW a \in S, NEW b \in S, a # b
    PROVE  Cardinality(S) # 1 /\ ~(Cardinality(S) <= 1)
<1>1. ASSUME Cardinality(S) = 1 PROVE FALSE
  <2>1. PICK x : S = {x}
    BY <1>1, FS_Singleton
  <2> QED
    BY <2>1
<1>2. Cardinality(S) \in Nat /\ Cardinality(S) # 0
  BY FS_CardinalityType, FS_EmptySet
<1> QED
  BY <1>1, <1>2

\* The lines of one name are finitely many.
LEMMA NamesFinite ==
    ASSUME NEW s \in Seq(AnyLine), NEW name
    PROVE  IsFiniteSet({i \in DOMAIN s : s[i].name = name})
<1>1. IsFiniteSet(DOMAIN s)
  BY LenProperties, FS_Interval
<1> QED
  BY <1>1, FS_Subset

\* A line that is refused makes the header ambiguous.
LEMMA RefusedLine ==
    ASSUME ParseTypeOK, HeaderSound, NEW line \in AnyLine, lines' = Append(lines, line),
           RefusedAtOnce(line)
    PROVE  ~Unambiguous'
<1> SUFFICES ASSUME Unambiguous' PROVE FALSE
  OBVIOUS
<1>0. lines \in Seq(AnyLine) /\ have \in HaveRecord
  BY DEF ParseTypeOK
<1>1. /\ lines' \in Seq(AnyLine) /\ Len(lines') = Len(lines) + 1 /\ Len(lines) \in Nat
      /\ DOMAIN lines = 1..Len(lines) /\ DOMAIN lines' = 1..(Len(lines) + 1)
      /\ \A i \in DOMAIN lines : i \in DOMAIN lines' /\ lines'[i] = lines[i]
      /\ Len(lines) + 1 \in DOMAIN lines' /\ lines'[Len(lines) + 1] = line
      /\ \A name : Values(name)' = Values(name) \cup
                          IF line.name = name THEN {line.value} ELSE {}
  BY <1>0, LineAdded
<1>2. CASE Len(lines) >= MaxHeaders
  BY <1>1, <1>2, HttpRequestAssumption DEF Unambiguous
<1>3. CASE line.value = "bad"
  BY <1>1, <1>3 DEF Unambiguous
<1>4. CASE line.name = "Host" /\ have.host
  <2> DEFINE S == {i \in DOMAIN lines' : lines'[i].name = "Host"}
  <2>1. Values("Host") = {httpReq.host}
    BY <1>4 DEF HeaderSound
  <2>2. PICK i \in DOMAIN lines : lines[i].name = "Host"
    BY <2>1 DEF Values
  <2>3. i \in S /\ Len(lines) + 1 \in S /\ i # Len(lines) + 1
    BY <1>1, <1>4, <2>2
  <2>4. Cardinality(S) = 1
    BY DEF Unambiguous
  <2>5. IsFiniteSet(S)
    BY <1>1, NamesFinite
  <2> HIDE DEF S
  <2> QED
    BY <2>3, <2>4, <2>5, TwoMembers
<1>5. CASE line.name = "Content-Length" /\ have.length /\ line.value # httpReq.length
  <2> DEFINE S == Values("Content-Length")'
  <2>1. Values("Content-Length") = {httpReq.length}
    BY <1>5 DEF HeaderSound
  <2>2. httpReq.length \in S /\ line.value \in S
    BY <1>1, <1>5, <2>1
  <2>3. IsFiniteSet(S)
    <3>1. S = {httpReq.length} \cup {line.value}
      BY <1>1, <1>5, <2>1
    <3>2. IsFiniteSet({httpReq.length})
      BY FS_Singleton
    <3>3. IsFiniteSet({httpReq.length} \cup {line.value})
      BY <3>2, FS_AddElement
    <3> QED
      BY <3>1, <3>3
  <2>4. Cardinality(S) <= 1
    BY DEF Unambiguous
  <2> HIDE DEF S
  <2> QED
    BY <1>5, <2>2, <2>3, <2>4, TwoMembers
<1> QED
  BY <1>2, <1>3, <1>4, <1>5 DEF RefusedAtOnce

\* What the request becomes on an accepted line.
LEMMA RequestNext ==
    ASSUME NEW r \in RequestRecord, NEW line \in AnyLine, line.value # "bad"
    PROVE  LET q == CASE
                 line.name = "Host" -> [r EXCEPT !.host = line.value]
              [] line.name = "Content-Length" -> [r EXCEPT !.length = line.value]
              [] line.name = "Connection" ->
                   [r EXCEPT !.keepAlive = KeepAliveOf(line.value, @)]
              [] line.name = "X-Rpsiod-Internal-Scheme" ->
                   [r EXCEPT !.internal = @ \/ line.value = "https"]
              [] line.name = "Range" -> [r EXCEPT !.range = line.value]
              [] OTHER -> r
           IN  /\ q \in RequestRecord
               /\ q.host = IF line.name = "Host" THEN line.value ELSE r.host
               /\ q.length = IF line.name = "Content-Length" THEN line.value ELSE r.length
               /\ q.internal = (r.internal \/ (line.name = "X-Rpsiod-Internal-Scheme"
                                               /\ line.value = "https"))
<1>0. /\ line.name = "Host" => line.value \in Hosts
      /\ line.name = "Content-Length" => line.value \in Lengths
      /\ line.name = "Range" => line.value \in {"suffix", "span"}
  BY LineParts
<1>1. KeepAliveOf(line.value, r.keepAlive) \in BOOLEAN
  BY RequestParts DEF KeepAliveOf
<1>2. CASE line.name = "Host"
  BY <1>0, <1>2 DEF RequestRecord
<1>3. CASE line.name = "Content-Length"
  BY <1>0, <1>3 DEF RequestRecord
<1>4. CASE line.name = "Connection"
  BY <1>1, <1>4 DEF RequestRecord
<1>5. CASE line.name = "X-Rpsiod-Internal-Scheme"
  BY <1>5 DEF RequestRecord
<1>6. CASE line.name = "Range"
  BY <1>0, <1>6 DEF RequestRecord
<1>7. CASE line.name \notin {"Host", "Content-Length", "Connection",
                             "X-Rpsiod-Internal-Scheme", "Range"}
  BY <1>7, RequestParts
<1> QED
  BY <1>2, <1>3, <1>4, <1>5, <1>6, <1>7

\* Each kind of header line keeps the flags and the request in step with the set of
\* lines read, or is refused for a reason the lines show.
LEMMA ReadHeaderHolds ==
    ASSUME ParseInv, NEW line \in AnyLine, ReadHeader(line)
    PROVE  ParseInv'
<1>0. /\ ParseTypeOK /\ HeaderSound /\ verdict = "reading"
      /\ lines \in Seq(AnyLine) /\ have \in HaveRecord /\ httpReq \in RequestRecord
      /\ lines' = Append(lines, line)
  BY DEF ParseInv, ParseTypeOK, ReadHeader
<1>1. /\ lines' \in Seq(AnyLine) /\ Len(lines') = Len(lines) + 1 /\ Len(lines) \in Nat
      /\ DOMAIN lines = 1..Len(lines)
      /\ \A i \in DOMAIN lines : i \in DOMAIN lines' /\ lines'[i] = lines[i]
      /\ Len(lines) + 1 \in DOMAIN lines' /\ lines'[Len(lines) + 1] = line
      /\ \A i \in DOMAIN lines' : i \in DOMAIN lines \/ i = Len(lines) + 1
  BY <1>0, LineAdded
<1>2. \A name : Values(name)' = Values(name) \cup IF line.name = name THEN {line.value} ELSE {}
  BY <1>0, LineAdded
<1>3. CASE RefusedAtOnce(line)
  <2>1. verdict' = "refused" /\ UNCHANGED <<have, httpReq>>
    BY <1>3 DEF ReadHeader
  <2>2. ~Unambiguous'
    BY <1>0, <1>3, RefusedLine
  <2> QED
    BY <1>0, <1>1, <2>1, <2>2 DEF ParseInv, ParseTypeOK
<1>4. CASE ~RefusedAtOnce(line)
  <2>1. /\ Len(lines) < MaxHeaders /\ line.value # "bad"
        /\ line.name = "Host" => ~have.host
        /\ line.name = "Content-Length" /\ have.length => line.value = httpReq.length
    BY <1>1, <1>4, HttpRequestAssumption DEF RefusedAtOnce
  <2> DEFINE a == line.name = "Host"
             b == line.name = "Content-Length"
             c == line.name = "Transfer-Encoding"
             d == line.name = "Connection" /\ "upgrade" \in Tokens(line.value)
             e == line.name = "Upgrade" /\ line.value = "websocket"
  <2>2. /\ verdict' = verdict
        /\ have' = [have EXCEPT !.host = @ \/ a, !.length = @ \/ b, !.te = @ \/ c,
                                !.upgrade = @ \/ d, !.websocket = @ \/ e]
        /\ httpReq' = CASE
                 line.name = "Host" -> [httpReq EXCEPT !.host = line.value]
              [] line.name = "Content-Length" -> [httpReq EXCEPT !.length = line.value]
              [] line.name = "Connection" ->
                   [httpReq EXCEPT !.keepAlive = KeepAliveOf(line.value, @)]
              [] line.name = "X-Rpsiod-Internal-Scheme" ->
                   [httpReq EXCEPT !.internal = @ \/ line.value = "https"]
              [] line.name = "Range" -> [httpReq EXCEPT !.range = line.value]
              [] OTHER -> httpReq
    BY <1>4 DEF ReadHeader
  <2>3. a \in BOOLEAN /\ b \in BOOLEAN /\ c \in BOOLEAN /\ d \in BOOLEAN /\ e \in BOOLEAN
    OBVIOUS
  <2>4. /\ httpReq' \in RequestRecord
        /\ httpReq'.host = IF line.name = "Host" THEN line.value ELSE httpReq.host
        /\ httpReq'.length = IF line.name = "Content-Length" THEN line.value
                             ELSE httpReq.length
        /\ httpReq'.internal = (httpReq.internal \/ (line.name = "X-Rpsiod-Internal-Scheme"
                                                     /\ line.value = "https"))
    BY <1>0, <2>1, <2>2, RequestNext
  <2>5. /\ have' \in HaveRecord
        /\ have'.host = (have.host \/ a) /\ have'.length = (have.length \/ b)
        /\ have'.te = (have.te \/ c)
        /\ have'.upgrade = (have.upgrade \/ d) /\ have'.websocket = (have.websocket \/ e)
    <3>1. have \in HaveRecord
      BY <1>0
    <3>2. have' = [have EXCEPT !.host = @ \/ a, !.length = @ \/ b, !.te = @ \/ c,
                               !.upgrade = @ \/ d, !.websocket = @ \/ e]
      BY <2>2
    <3> HIDE DEF a, b, c, d, e
    <3> QED
      BY <2>3, <3>1, <3>2, ZenonT(60) DEF HaveRecord
  <2>6. /\ have.host \in BOOLEAN /\ have.length \in BOOLEAN /\ have.te \in BOOLEAN
        /\ have.upgrade \in BOOLEAN /\ have.websocket \in BOOLEAN /\ httpReq.internal \in BOOLEAN
    BY <1>0, HaveParts, RequestParts
  <2>7. Len(lines') <= MaxHeaders /\ \A i \in DOMAIN lines' : lines'[i].value # "bad"
    BY <1>0, <1>1, <2>1, HttpRequestAssumption DEF HeaderSound
  <2>8. \A i, j \in DOMAIN lines' : lines'[i].name = "Host" /\ lines'[j].name = "Host" => i = j
    <3>1. ~have.host => \A i \in DOMAIN lines : lines[i].name # "Host"
      BY <1>0, SMTT(60) DEF HeaderSound, Values
    <3> QED
      BY <1>0, <1>1, <2>1, <3>1 DEF HeaderSound
  <2>9. Values("Host")' = IF have'.host THEN {httpReq'.host} ELSE {}
    BY <1>0, <1>2, <2>1, <2>4, <2>5, <2>6 DEF HeaderSound
  <2>10. /\ Values("Content-Length")' = IF have'.length THEN {httpReq'.length} ELSE {}
         /\ ~have'.length => httpReq'.length = NoLength
    BY <1>0, <1>2, <2>1, <2>4, <2>5, <2>6 DEF HeaderSound
  <2>11. have'.te <=> (Values("Transfer-Encoding")' # {})
    BY <1>0, <1>2, <2>5, <2>6 DEF HeaderSound
  <2>12. httpReq'.internal <=> ("https" \in Values("X-Rpsiod-Internal-Scheme")')
    BY <1>0, <1>2, <2>4, <2>6 DEF HeaderSound
  <2>13. have'.upgrade => \E v \in Values("Connection")' : "upgrade" \in Tokens(v)
    BY <1>0, <1>2, <2>5, <2>6 DEF HeaderSound
  <2>14. have'.websocket => "websocket" \in Values("Upgrade")'
    BY <1>0, <1>2, <2>5, <2>6 DEF HeaderSound
  <2>15. HeaderSound'
    BY <2>7, <2>8, <2>9, <2>10, <2>11, <2>12, <2>13, <2>14 DEF HeaderSound
  <2> QED
    BY <1>0, <1>1, <2>2, <2>4, <2>5, <2>15 DEF ParseInv, ParseTypeOK
<1> QED
  BY <1>3, <1>4

\* The tests at the end of the header refuse exactly what the lines leave ambiguous.
LEMMA EndOfHeaderHolds ==
    ASSUME ParseInv, EndOfHeader
    PROVE  ParseInv'
<1>0. /\ ParseTypeOK /\ HeaderSound /\ verdict = "reading"
      /\ lines \in Seq(AnyLine) /\ have \in HaveRecord /\ httpReq \in RequestRecord
      /\ UNCHANGED <<lines, first, have>>
  BY DEF ParseInv, ParseTypeOK, EndOfHeader
<1>1. /\ have.host \in BOOLEAN /\ have.te \in BOOLEAN
      /\ have.upgrade \in BOOLEAN /\ have.websocket \in BOOLEAN
  BY <1>0, HaveParts
<1>2. /\ httpReq' \in RequestRecord
      /\ httpReq'.host = httpReq.host /\ httpReq'.length = httpReq.length
      /\ httpReq'.internal = httpReq.internal
      /\ httpReq'.websocket = (have.upgrade /\ have.websocket)
  BY <1>0, <1>1 DEF EndOfHeader, RequestRecord
<1>3. \A name : Values(name)' = Values(name)
  BY <1>0 DEF Values
<1>4. HeaderSound'
  BY <1>0, <1>2, <1>3 DEF HeaderSound
<1>5. CASE have.te \/ ~have.host \/ (first.authority # NoHost /\ first.authority # httpReq.host)
  <2>1. verdict' = "refused"
    BY <1>5 DEF EndOfHeader
  <2>2. ASSUME Unambiguous' PROVE FALSE
    <3>1. /\ Cardinality({i \in DOMAIN lines : lines[i].name = "Host"}) = 1
          /\ Values("Transfer-Encoding") = {}
          /\ first.authority # NoHost => Values("Host") = {first.authority}
      BY <1>0, <1>3, <2>2 DEF Unambiguous
    <3>2. ~have.te
      BY <1>0, <3>1 DEF HeaderSound
    <3>3. {i \in DOMAIN lines : lines[i].name = "Host"} # {}
      BY <3>1, FS_EmptySet
    <3>4. Values("Host") # {}
      BY <3>3 DEF Values
    <3>5. have.host /\ Values("Host") = {httpReq.host}
      BY <1>0, <3>4 DEF HeaderSound
    <3> QED
      BY <1>5, <3>1, <3>2, <3>5
  <2> QED
    BY <1>0, <1>2, <2>1, <2>2 DEF ParseInv, ParseTypeOK
<1>6. CASE ~(have.te \/ ~have.host
              \/ (first.authority # NoHost /\ first.authority # httpReq.host))
  <2>1. verdict' = "accepted"
    BY <1>6 DEF EndOfHeader
  <2>2. /\ have'.host = TRUE /\ have'.te = FALSE
        /\ first'.authority # NoHost => first'.authority = httpReq'.host
        /\ httpReq'.websocket => (have'.upgrade /\ have'.websocket)
    BY <1>0, <1>1, <1>2, <1>6
  <2> QED
    BY <1>0, <1>2, <1>4, <2>1, <2>2 DEF ParseInv, ParseTypeOK
<1> QED
  BY <1>5, <1>6

\* The parser's steps keep its invariant, and the other commands leave it alone.
LEMMA ParseStepHolds ==
    ASSUME ParseInv, [Next]_vars
    PROVE  ParseInv'
<1>1. ParseNext \/ RouteRequest \/ UNCHANGED parseVars
  BY DEF Next, Configtest, Serve, Trace, Bench, vars
<1>2. CASE \E line \in RequestLines : ReadRequestLine(line)
  BY <1>2, ReadRequestLineHolds
<1>3. CASE \E line \in IF Len(lines) < MaxHeaders THEN HeaderLines ELSE OneTooMany :
             ReadHeader(line)
  <2>1. PICK line \in AnyLine : ReadHeader(line)
    BY <1>3 DEF AnyLine
  <2> QED
    BY <2>1, ReadHeaderHolds
<1>4. CASE EndOfHeader
  BY <1>4, EndOfHeaderHolds
<1>5. CASE RouteRequest
  <2>1. /\ lines' = <<>> /\ have' = NothingYet /\ verdict' = "idle"
        /\ httpReq' = EmptyRequest(TRUE)
    BY <1>5 DEF RouteRequest
  <2>2. lines' \in Seq(AnyLine) /\ have' \in HaveRecord /\ httpReq' \in RequestRecord
    BY <2>1, EmptySeq DEF NothingYet, HaveRecord, EmptyRequest, RequestRecord
  <2> QED
    BY <2>1, <2>2 DEF ParseInv, ParseTypeOK
<1>6. CASE UNCHANGED parseVars
  <2>1. UNCHANGED <<lines, first, have, httpReq, verdict>>
    BY <1>6 DEF parseVars
  <2>2. \A name : Values(name)' = Values(name)
    BY <2>1 DEF Values
  <2>3. HeaderSound' <=> HeaderSound
    BY <2>1, <2>2 DEF HeaderSound
  <2>4. Unambiguous' <=> Unambiguous
    BY <2>1, <2>2 DEF Unambiguous
  <2> QED
    BY <2>1, <2>3, <2>4 DEF ParseInv, ParseTypeOK
<1> QED
  BY <1>1, <1>2, <1>3, <1>4, <1>5, <1>6 DEF ParseNext

\* What the invariant says of an accepted or refused header is the property.
LEMMA ParsedFromInvariant ==
    ASSUME ParseInv
    PROVE  ParsedAsDeclared
<1>1. CASE verdict = "accepted"
  <2>0. /\ ParseTypeOK /\ HeaderSound /\ have.host = TRUE /\ have.te = FALSE
        /\ first.authority # NoHost => first.authority = httpReq.host
        /\ httpReq.websocket => (have.upgrade /\ have.websocket)
    BY <1>1 DEF ParseInv
  <2> DEFINE S == {i \in DOMAIN lines : lines[i].name = "Host"}
             T == Values("Content-Length")
  <2>1. Values("Host") = {httpReq.host} /\ Values("Transfer-Encoding") = {}
    BY <2>0 DEF HeaderSound
  <2>2. Cardinality(S) = 1
    <3>1. PICK i : i \in S
      BY <2>1 DEF Values
    <3>2. S = {i}
      BY <2>0, <3>1 DEF HeaderSound
    <3> QED
      BY <3>2, FS_Singleton
  <2>3. have.length \in BOOLEAN
    BY <2>0, HaveParts DEF ParseTypeOK
  <2>4. /\ {httpReq.length} = IF T = {} THEN {NoLength} ELSE T
        /\ T = {} \/ T = {httpReq.length}
    BY <2>0, <2>3 DEF HeaderSound
  <2>5. Cardinality(T) <= 1
    <3>1. Cardinality({}) = 0 /\ Cardinality({httpReq.length}) = 1
      BY FS_EmptySet, FS_Singleton
    <3> HIDE DEF T
    <3>2. Cardinality(T) = 0 \/ Cardinality(T) = 1
      BY <2>4, <3>1
    <3> QED
      BY <3>2
  <2>6. Unambiguous
    BY <2>0, <2>1, <2>2, <2>5 DEF Unambiguous, HeaderSound
  <2> QED
    BY <1>1, <2>0, <2>1, <2>4, <2>6 DEF ParsedAsDeclared, HeaderSound
<1>2. CASE verdict # "accepted"
  BY <1>2 DEF ParsedAsDeclared, ParseInv
<1> QED
  BY <1>1, <1>2

\* A request header of any number of lines in any order is accepted exactly when it
\* is unambiguous, and the request then has the host, the length and the scheme its
\* lines give (rpsiod_http_parse_request, header by header).
THEOREM HeadersParsedAsDeclared == Spec => []ParsedAsDeclared
<1>1. Init => ParseInv
  BY ParseInitHolds DEF Init, ParseInit
<1>2. ParseInv /\ [Next]_vars => ParseInv'
  BY ParseStepHolds
<1>3. ParseInv => ParsedAsDeclared
  BY ParsedFromInvariant
<1> QED
  BY <1>1, <1>2, <1>3, PTL DEF Spec

(***************************************************************************)
(* The route table (build_route_table, lookup_route).                      *)
(***************************************************************************)

\* A call of add_route_entry, and what a slot of the table holds.
RouteCalls == [route : Routes, site : Nat \ {0}]
Entries    == [used : {TRUE}, route : Routes, site : Nat \ {0}]

\* Probing wraps around once.
LEMMA ProbeWraps ==
    ASSUME NEW h \in Slots, NEW n \in Slots
    PROVE  /\ Probe(h, n) = IF h + n < TableSize THEN h + n ELSE h + n - TableSize
           /\ Probe(h, n) \in Slots
<1>1. TableSize \in Nat /\ TableSize > 0 /\ h \in Int /\ n \in Int
      /\ 0 <= h /\ h < TableSize /\ 0 <= n /\ n < TableSize
  BY RoutingAssumption DEF Slots
<1>2. CASE h + n < TableSize
  <2>1. (h + n) % TableSize = h + n
    BY <1>1, <1>2
  <2> QED
    BY <1>1, <1>2, <2>1 DEF Probe, Slots
<1>3. CASE h + n >= TableSize
  <2>1. (h + n) % TableSize = h + n - TableSize
    BY <1>1, <1>3
  <2> QED
    BY <1>1, <1>3, <2>1 DEF Probe, Slots
<1> QED
  BY <1>1, <1>2, <1>3

\* Probing reaches every slot.
LEMMA ProbeReaches ==
    ASSUME NEW h \in Slots, NEW s \in Slots
    PROVE  \E n \in Slots : Probe(h, n) = s
<1>1. TableSize \in Nat /\ TableSize > 0 /\ h \in Int /\ s \in Int
      /\ 0 <= h /\ h < TableSize /\ 0 <= s /\ s < TableSize
  BY RoutingAssumption DEF Slots
<1>2. CASE s >= h
  <2>1. PICK n \in Slots : n = s - h
    BY <1>1, <1>2 DEF Slots
  <2> QED
    BY <1>1, <2>1, ProbeWraps
<1>3. CASE s < h
  <2>1. PICK n \in Slots : n = s - h + TableSize
    BY <1>1, <1>3 DEF Slots
  <2> QED
    BY <1>1, <2>1, ProbeWraps
<1> QED
  BY <1>1, <1>2, <1>3

\* What ends a search.
Stops(t, route, n) == LET e == t[Probe(Hash[route], n)] IN ~e.used \/ e.route = route

\* A search ends at the first slot that ends it, or nowhere.
LEMMA StopIs ==
    ASSUME NEW t, NEW route
    PROVE  \/ Stop(t, route) = TableSize /\ \A n \in Slots : ~Stops(t, route, n)
           \/ /\ Stop(t, route) \in Slots /\ Stops(t, route, Stop(t, route))
              /\ \A n \in Slots : n < Stop(t, route) => ~Stops(t, route, n)
<1> DEFINE S == {n \in Slots : Stops(t, route, n)}
<1>1. Stop(t, route) = IF S = {} THEN TableSize ELSE CHOOSE n \in S : \A m \in S : n <= m
  BY Zenon DEF Stop, Stops
<1>2. S \in SUBSET Nat
  BY RoutingAssumption DEF Slots
<1>3. CASE S = {}
  BY <1>1, <1>3
<1>4. CASE S # {}
  <2>1. \E n \in S : \A m \in S : n <= m
    BY <1>2, <1>4, LeastNat
  <2>2. PICK n \in S : n = Stop(t, route) /\ \A m \in S : n <= m
    BY <1>1, <1>4, <2>1
  <2>3. \A m \in Slots : m \in Nat
    BY RoutingAssumption DEF Slots
  <2> QED
    BY <2>2, <2>3
<1> QED
  BY <1>3, <1>4

\* It is the only slot of its kind.
LEMMA StopAt ==
    ASSUME NEW t, NEW route, NEW n \in Slots, Stops(t, route, n),
           \A m \in Slots : m < n => ~Stops(t, route, m)
    PROVE  Stop(t, route) = n
<1>1. \A m \in Slots : m \in Nat
  BY RoutingAssumption DEF Slots
<1>2. Stop(t, route) \in Slots /\ Stops(t, route, Stop(t, route))
      /\ \A m \in Slots : m < Stop(t, route) => ~Stops(t, route, m)
  BY StopIs
<1>3. PICK k \in Slots : k = Stop(t, route)
  BY <1>2
<1>4. ~(k < n) /\ ~(n < k)
  BY <1>2, <1>3
<1>5. k = n
  BY <1>1, <1>4
<1> QED
  BY <1>3, <1>5

\* The table after n calls of add_route_entry: every entry is found by probing for its
\* route, it comes from one of the calls, and every call has its entry.
Reached(t, s) ==
    \E k \in Slots : /\ Probe(Hash[t[s].route], k) = s
                     /\ \A m \in Slots : m < k => ~Stops(t, t[s].route, m)

Good(t, calls, n) ==
    /\ t \in [Slots -> Entries \cup {Free}]
    /\ \A s \in Slots : t[s].used => Reached(t, s)
    /\ \A s \in Slots : t[s].used =>
         \E j \in 1..n : calls[j].route = t[s].route /\ calls[j].site = t[s].site
    /\ \A j \in 1..n : \E s \in Slots :
         t[s].used /\ t[s].route = calls[j].route /\ t[s].site = calls[j].site

\* What a slot holds.
LEMMA SlotParts ==
    ASSUME NEW e \in Entries \cup {Free}
    PROVE  /\ e.used \in BOOLEAN
           /\ e.used => e \in Entries /\ e.route \in Routes /\ e.site \in Nat \ {0}
           /\ ~e.used => e = Free
<1>1. CASE e \in Entries
  BY <1>1 DEF Entries
<1>2. CASE e = Free
  <2>1. e.used = FALSE
    BY <1>2 DEF Free
  <2> QED
    BY <1>2, <2>1
<1> QED
  BY <1>1, <1>2

\* A search for the route of an entry ends at the entry.
LEMMA EntryFound ==
    ASSUME NEW t \in [Slots -> Entries \cup {Free}], NEW s \in Slots, t[s].used, Reached(t, s)
    PROVE  Stop(t, t[s].route) \in Slots /\ Probe(Hash[t[s].route], Stop(t, t[s].route)) = s
<1>1. PICK route : route = t[s].route
  OBVIOUS
<1>2. PICK k \in Slots : Probe(Hash[route], k) = s /\ \A m \in Slots : m < k => ~Stops(t, route, m)
  BY <1>1 DEF Reached
<1>3. Stops(t, route, k)
  BY <1>1, <1>2 DEF Stops
<1>4. Stop(t, route) = k
  BY <1>2, <1>3, StopAt
<1> QED
  BY <1>1, <1>2, <1>4

\* No table is the mark of failure.
LEMMA TableNotFailed ==
    ASSUME NEW t \in [Slots -> Entries \cup {Free}]
    PROVE  t # Failed
<1>1. 0 \in DOMAIN t
  BY RoutingAssumption DEF Slots
<1>2. DOMAIN Failed = {}
  BY DEF Failed
<1> QED
  BY <1>1, <1>2

\* One call of add_route_entry.
LEMMA AddKeeps ==
    ASSUME NEW calls, NEW n \in Nat, NEW t, Good(t, calls, n),
           calls[n + 1] \in RouteCalls
    PROVE  LET u == AddRouteEntry(t, calls[n + 1]) IN
           \/ Good(u, calls, n + 1)
           \/ /\ u = Failed
              /\ \E j \in 1..n : /\ calls[j].route = calls[n + 1].route
                                 /\ calls[j].site # calls[n + 1].site
           \/ /\ u = Failed
              /\ \A s \in Slots : t[s].used /\ t[s].route # calls[n + 1].route
<1>1. PICK r \in RouteCalls : r = calls[n + 1]
  OBVIOUS
<1>2. PICK route \in Routes, site \in Nat \ {0} : route = r.route /\ site = r.site
  BY DEF RouteCalls
<1>3. PICK h \in Slots : h = Hash[route]
  BY RoutingAssumption
<1>4. PICK k : k = Stop(t, route)
  OBVIOUS
<1>5. PICK slot : slot = Probe(h, k)
  OBVIOUS
<1>6. t \in [Slots -> Entries \cup {Free}] /\ t # Failed
  BY TableNotFailed DEF Good
<1>7. PICK u : u = AddRouteEntry(t, r)
  OBVIOUS
<1>8. u = IF k = TableSize THEN Failed
          ELSE IF ~t[slot].used
          THEN [t EXCEPT ![slot] = [used |-> TRUE, route |-> route, site |-> site]]
          ELSE IF t[slot].site = site THEN t ELSE Failed
  BY <1>2, <1>3, <1>4, <1>5, <1>6, <1>7, Zenon DEF AddRouteEntry
<1>9. n + 1 \in Nat /\ (\A j : j \in 1..(n + 1) <=> j \in 1..n \/ j = n + 1)
  OBVIOUS
<1>10. CASE k = TableSize
  <2>1. ASSUME NEW s \in Slots PROVE t[s].used /\ t[s].route # route
    <3>1. PICK m \in Slots : Probe(h, m) = s
      BY ProbeReaches
    <3>2. ~Stops(t, route, m)
      <4>1. TableSize \notin Slots
        BY RoutingAssumption DEF Slots
      <4> QED
        BY <1>4, <1>10, <4>1, StopIs
    <3> QED
      BY <1>3, <3>1, <3>2 DEF Stops
  <2> QED
    BY <1>1, <1>2, <1>7, <1>8, <1>10, <2>1
<1>11. CASE k # TableSize
  <2>1. k \in Slots /\ Stops(t, route, k) /\ \A m \in Slots : m < k => ~Stops(t, route, m)
    BY <1>4, <1>11, StopIs
  <2>2. slot \in Slots
    BY <1>5, <2>1, ProbeWraps
  <2>3. ~t[slot].used \/ t[slot].route = route
    BY <1>3, <1>5, <2>1 DEF Stops
  <2>4. CASE t[slot].used /\ t[slot].site = site
    <3>1. u = t
      BY <1>8, <1>11, <2>4
    <3>2. t[slot].route = calls[n + 1].route /\ t[slot].site = calls[n + 1].site
      BY <1>1, <1>2, <2>3, <2>4
    <3>3. Good(t, calls, n + 1)
      BY <1>9, <2>2, <2>4, <3>2 DEF Good
    <3> QED
      BY <1>1, <1>7, <3>1, <3>3
  <2>5. CASE t[slot].used /\ t[slot].site # site
    <3>1. u = Failed
      BY <1>8, <1>11, <2>5
    <3>2. PICK j \in 1..n : calls[j].route = t[slot].route /\ calls[j].site = t[slot].site
      BY <2>2, <2>5 DEF Good
    <3>3. calls[j].route = calls[n + 1].route /\ calls[j].site # calls[n + 1].site
      BY <1>1, <1>2, <2>3, <2>5, <3>2
    <3> QED
      BY <1>1, <1>7, <3>1, <3>3
  <2>6. CASE ~t[slot].used
    <3>1. PICK e \in Entries : e = [used |-> TRUE, route |-> route, site |-> site]
      BY DEF Entries
    <3>2. u = [t EXCEPT ![slot] = e]
      BY <1>8, <1>11, <2>6, <3>1
    <3>3. /\ u \in [Slots -> Entries \cup {Free}] /\ u[slot] = e
          /\ \A s \in Slots : s # slot => u[s] = t[s]
      BY <1>6, <2>2, <3>2
    <3>4. e.used /\ e.route = route /\ e.site = site
      BY <3>1
    <3>5. ASSUME NEW x \in Routes, NEW m \in Slots, ~Stops(t, x, m)
          PROVE  Probe(Hash[x], m) # slot /\ t[Probe(Hash[x], m)] = u[Probe(Hash[x], m)]
      <4>1. PICK q \in Slots : q = Probe(Hash[x], m)
        BY RoutingAssumption, ProbeWraps
      <4>2. t[q].used
        BY <3>5, <4>1 DEF Stops
      <4> QED
        BY <2>6, <3>3, <4>1, <4>2
    <3>6. ASSUME NEW x \in Routes, NEW m \in Slots, ~Stops(t, x, m)
          PROVE  ~Stops(u, x, m)
      BY <3>5, <3>6 DEF Stops
    <3>7. ASSUME NEW s \in Slots, u[s].used PROVE Reached(u, s)
      <4>1. CASE s = slot
        <5>1. u[s].route = route
          BY <3>3, <3>4, <4>1
        <5>2. Probe(Hash[route], k) = s /\ \A m \in Slots : m < k => ~Stops(u, route, m)
          BY <1>3, <1>5, <2>1, <3>6, <4>1
        <5> QED
          BY <2>1, <5>1, <5>2 DEF Reached
      <4>2. CASE s # slot
        <5>1. u[s] = t[s] /\ t[s].used /\ Reached(t, s)
          BY <3>3, <3>7, <4>2 DEF Good
        <5>2. PICK x \in Routes : x = t[s].route /\ x = u[s].route
          BY <1>6, <5>1, SlotParts
        <5>3. PICK l \in Slots : Probe(Hash[x], l) = s /\ \A m \in Slots : m < l => ~Stops(t, x, m)
          BY <5>1, <5>2 DEF Reached
        <5>4. \A m \in Slots : m < l => ~Stops(u, x, m)
          BY <3>6, <5>3
        <5> QED
          BY <5>2, <5>3, <5>4 DEF Reached
      <4> QED
        BY <4>1, <4>2
    <3>8. ASSUME NEW s \in Slots, u[s].used
          PROVE  \E j \in 1..(n + 1) : calls[j].route = u[s].route /\ calls[j].site = u[s].site
      <4>1. CASE s = slot
        BY <1>1, <1>2, <1>9, <3>3, <3>4, <4>1
      <4>2. CASE s # slot
        BY <1>9, <3>3, <3>8, <4>2 DEF Good
      <4> QED
        BY <4>1, <4>2
    <3>9. ASSUME NEW j \in 1..(n + 1)
          PROVE  \E s \in Slots : u[s].used /\ u[s].route = calls[j].route
                                  /\ u[s].site = calls[j].site
      <4>1. CASE j = n + 1
        BY <1>1, <1>2, <2>2, <3>3, <3>4, <4>1
      <4>2. CASE j \in 1..n
        <5>1. PICK s \in Slots : t[s].used /\ t[s].route = calls[j].route
                                 /\ t[s].site = calls[j].site
          BY <4>2 DEF Good
        <5>2. u[s] = t[s]
          BY <2>6, <3>3, <5>1
        <5> QED
          BY <5>1, <5>2
      <4> QED
        BY <1>9, <4>1, <4>2
    <3>10. Good(u, calls, n + 1)
      BY <3>3, <3>7, <3>8, <3>9 DEF Good
    <3> QED
      BY <1>1, <1>7, <3>10
  <2> QED
    BY <2>4, <2>5, <2>6
<1> QED
  BY <1>10, <1>11

\* g holds the tables after 0 to n calls.
Builds(g, calls, n) ==
    g = [k \in 0..n |-> IF k = 0 THEN [s \in Slots |-> Free]
                        ELSE AddRouteEntry(g[k - 1], calls[k])]

\* Its values one by one.
LEMMA BuildsAt ==
    ASSUME NEW g, NEW calls, NEW n, Builds(g, calls, n), NEW k \in 0..n
    PROVE  g[k] = IF k = 0 THEN [s \in Slots |-> Free] ELSE AddRouteEntry(g[k - 1], calls[k])
<1> DEFINE h == [j \in 0..n |-> IF j = 0 THEN [s \in Slots |-> Free]
                                ELSE AddRouteEntry(g[j - 1], calls[j])]
<1>1. g = h
  BY Zenon DEF Builds
<1>2. h[k] = IF k = 0 THEN [s \in Slots |-> Free] ELSE AddRouteEntry(g[k - 1], calls[k])
  BY Zenon
<1> HIDE DEF h
<1> QED
  BY <1>1, <1>2, Zenon

\* There is such a function for every n.
LEMMA BuildsExists ==
    ASSUME NEW calls, NEW n \in Nat
    PROVE  \E g : Builds(g, calls, n)
<1> DEFINE S == {k \in Nat : \E g : Builds(g, calls, k)}
<1>0. PICK empty : empty = [s \in Slots |-> Free]
  OBVIOUS
<1>1. 0 \in S
  <2> DEFINE g == [k \in 0..0 |-> empty]
             h == [k \in 0..0 |-> IF k = 0 THEN [s \in Slots |-> Free]
                                  ELSE AddRouteEntry(g[k - 1], calls[k])]
  <2>1. \A k \in 0..0 : k = 0
    OBVIOUS
  <2>2. g = h
    BY <1>0, <2>1, Zenon
  <2>3. Builds(g, calls, 0)
    BY <2>2, Zenon DEF Builds
  <2> QED
    BY <2>3
<1>2. ASSUME NEW m \in Nat, m \in S PROVE m + 1 \in S
  <2>1. PICK g : Builds(g, calls, m)
    BY <1>2
  <2> DEFINE h == [k \in 0..(m + 1) |-> IF k = 0 THEN [s \in Slots |-> Free]
                                        ELSE AddRouteEntry(g[k - 1], calls[k])]
  <2>2. ASSUME NEW k \in 0..m PROVE h[k] = g[k]
    <3>1. g[k] = IF k = 0 THEN [s \in Slots |-> Free] ELSE AddRouteEntry(g[k - 1], calls[k])
      BY <2>1, BuildsAt
    <3>2. k \in 0..(m + 1)
      OBVIOUS
    <3>3. h[k] = IF k = 0 THEN [s \in Slots |-> Free] ELSE AddRouteEntry(g[k - 1], calls[k])
      BY <3>2, Zenon
    <3> QED
      BY <3>1, <3>3, Zenon
  <2> DEFINE hh == [k \in 0..(m + 1) |-> IF k = 0 THEN [s \in Slots |-> Free]
                                         ELSE AddRouteEntry(h[k - 1], calls[k])]
  <2>3. ASSUME NEW k \in 0..(m + 1) PROVE h[k] = hh[k]
    <3>1. /\ h[k] = IF k = 0 THEN [s \in Slots |-> Free] ELSE AddRouteEntry(g[k - 1], calls[k])
          /\ hh[k] = IF k = 0 THEN [s \in Slots |-> Free] ELSE AddRouteEntry(h[k - 1], calls[k])
      BY Zenon
    <3>2. k # 0 => k - 1 \in 0..m
      OBVIOUS
    <3>3. k # 0 => h[k - 1] = g[k - 1]
      BY <2>2, <3>2, Zenon
    <3> HIDE DEF h, hh
    <3> QED
      BY <3>1, <3>3, Zenon
  <2>4. h = hh
    <3>1. DOMAIN h = 0..(m + 1) /\ DOMAIN hh = 0..(m + 1)
      BY Zenon
    <3>2. h = [k \in DOMAIN h |-> h[k]] /\ hh = [k \in DOMAIN hh |-> hh[k]]
      OBVIOUS
    <3> HIDE DEF h, hh
    <3> QED
      BY <2>3, <3>1, <3>2
  <2>5. Builds(h, calls, m + 1)
    BY <2>4, Zenon DEF Builds
  <2> QED
    BY <2>5
<1> HIDE DEF S
<1>3. n \in S
  BY <1>1, <1>2, Induction
<1> QED
  BY <1>3 DEF S

\* The table is the last of them.
LEMMA BuildIs ==
    ASSUME NEW list, Len(AllRoutes(list)) \in Nat
    PROVE  \E g : /\ BuildRouteTable(list) = g[Len(AllRoutes(list))]
                  /\ g[0] = [s \in Slots |-> Free]
                  /\ \A k \in 1..Len(AllRoutes(list)) :
                       g[k] = AddRouteEntry(g[k - 1], AllRoutes(list)[k])
<1>1. PICK calls : calls = AllRoutes(list)
  OBVIOUS
<1>2. PICK n \in Nat : n = Len(calls)
  BY <1>1
<1> DEFINE c == CHOOSE g : Builds(g, calls, n)
<1>3. Builds(c, calls, n)
  BY BuildsExists
<1>4. BuildRouteTable(list) = c[n]
  BY <1>1, <1>2, Zenon DEF BuildRouteTable, Builds
<1>5. PICK g : g = c /\ Builds(g, calls, n)
  BY <1>3
<1> HIDE DEF c
<1>6. g[0] = [s \in Slots |-> Free]
  <2>1. PICK z \in 0..n : z = 0
    OBVIOUS
  <2>2. g[z] = IF z = 0 THEN [s \in Slots |-> Free] ELSE AddRouteEntry(g[z - 1], calls[z])
    BY <1>5, <2>1, BuildsAt
  <2>3. g[z] = [s \in Slots |-> Free]
    BY <2>1, <2>2, Zenon
  <2> QED
    BY <2>1, <2>3, Zenon
<1>7. ASSUME NEW k \in 1..n PROVE g[k] = AddRouteEntry(g[k - 1], calls[k])
  <2>1. k \in 0..n /\ k # 0
    OBVIOUS
  <2> QED
    <3>1. g[k] = IF k = 0 THEN [s \in Slots |-> Free] ELSE AddRouteEntry(g[k - 1], calls[k])
      BY <1>5, <2>1, BuildsAt
    <3> QED
      BY <2>1, <3>1, Zenon
<1> QED
  BY <1>1, <1>2, <1>4, <1>5, <1>6, <1>7

\* Two calls for one route and different sites, or more routes than slots.
Clash(calls, n) ==
    \E i, j \in 1..n : calls[i].route = calls[j].route /\ calls[i].site # calls[j].site

Crowded(calls, n) ==
    \E t : /\ t \in [Slots -> Entries \cup {Free}]
           /\ \A s \in Slots : t[s].used /\ Reached(t, s)
           /\ \A s \in Slots : \E j \in 1..n : calls[j].route = t[s].route
           /\ \E j \in 1..n : \A s \in Slots : t[s].route # calls[j].route

\* The table is good after every call, or there is a reason why there is none.
LEMMA BuildGood ==
    ASSUME NEW list, AllRoutes(list) \in Seq(RouteCalls)
    PROVE  LET calls == AllRoutes(list) n == Len(AllRoutes(list)) IN
           \/ Good(BuildRouteTable(list), calls, n)
           \/ BuildRouteTable(list) = Failed /\ (Clash(calls, n) \/ Crowded(calls, n))
<1>1. PICK calls \in Seq(RouteCalls) : calls = AllRoutes(list)
  OBVIOUS
<1>2. PICK n \in Nat : n = Len(calls)
  BY LenProperties
<1>3. PICK g : /\ BuildRouteTable(list) = g[n]
               /\ g[0] = [s \in Slots |-> Free]
               /\ \A k \in 1..n : g[k] = AddRouteEntry(g[k - 1], calls[k])
  BY <1>1, <1>2, BuildIs
<1> DEFINE Fine(k) == \/ Good(g[k], calls, k)
                      \/ g[k] = Failed /\ (Clash(calls, n) \/ Crowded(calls, n))
           S == {k \in Nat : k \in 0..n => Fine(k)}
<1>4. 0 \in S
  <2>1. g[0] \in [Slots -> Entries \cup {Free}] /\ \A s \in Slots : ~g[0][s].used
    BY <1>3 DEF Free
  <2>2. Good(g[0], calls, 0)
    BY <2>1 DEF Good
  <2> QED
    BY <2>2
<1>5. ASSUME NEW k \in Nat, k \in S PROVE k + 1 \in S
  <2> SUFFICES ASSUME k + 1 \in 0..n PROVE Fine(k + 1)
    OBVIOUS
  <2>1. k \in 0..n /\ k + 1 \in 1..n /\ (k + 1) - 1 = k /\ (\A j \in 1..k : j \in 1..n)
        /\ (\A j \in 1..(k + 1) : j \in 1..n)
    OBVIOUS
  <2>2. Fine(k)
    BY <1>5, <2>1
  <2>3. g[k + 1] = AddRouteEntry(g[k], calls[k + 1])
    BY <1>3, <2>1
  <2>4. CASE g[k] = Failed /\ (Clash(calls, n) \/ Crowded(calls, n))
    <3>1. g[k + 1] = Failed
      BY <2>3, <2>4, Zenon DEF AddRouteEntry
    <3> QED
      BY <2>4, <3>1
  <2>5. CASE Good(g[k], calls, k)
    <3>1. calls[k + 1] \in RouteCalls
      BY <1>2, <2>1, ElementOfSeq
    <3>2. PICK t : t = g[k] /\ Good(t, calls, k)
      BY <2>5
    <3>3. \/ Good(g[k + 1], calls, k + 1)
          \/ /\ g[k + 1] = Failed
             /\ \E j \in 1..k : /\ calls[j].route = calls[k + 1].route
                                /\ calls[j].site # calls[k + 1].site
          \/ /\ g[k + 1] = Failed
             /\ \A s \in Slots : t[s].used /\ t[s].route # calls[k + 1].route
      <4>1. \/ Good(AddRouteEntry(t, calls[k + 1]), calls, k + 1)
            \/ /\ AddRouteEntry(t, calls[k + 1]) = Failed
               /\ \E j \in 1..k : /\ calls[j].route = calls[k + 1].route
                                  /\ calls[j].site # calls[k + 1].site
            \/ /\ AddRouteEntry(t, calls[k + 1]) = Failed
               /\ \A s \in Slots : t[s].used /\ t[s].route # calls[k + 1].route
        BY <3>1, <3>2, AddKeeps, Zenon
      <4>2. g[k + 1] = AddRouteEntry(t, calls[k + 1])
        BY <2>3, <3>2
      <4> QED
        BY <4>1, <4>2, Zenon
    <3>4. CASE Good(g[k + 1], calls, k + 1)
      BY <3>4
    <3>5. CASE /\ g[k + 1] = Failed
               /\ \E j \in 1..k : /\ calls[j].route = calls[k + 1].route
                                  /\ calls[j].site # calls[k + 1].site
      <4>1. Clash(calls, n)
        BY <2>1, <3>5 DEF Clash
      <4> QED
        BY <3>5, <4>1
    <3>6. CASE /\ g[k + 1] = Failed
               /\ \A s \in Slots : t[s].used /\ t[s].route # calls[k + 1].route
      <4>1. /\ t \in [Slots -> Entries \cup {Free}]
            /\ \A s \in Slots : t[s].used /\ Reached(t, s)
            /\ \A s \in Slots : \E j \in 1..n : calls[j].route = t[s].route
        BY <2>1, <3>2, <3>6 DEF Good
      <4>2. Crowded(calls, n)
        BY <2>1, <3>6, <4>1 DEF Crowded
      <4> QED
        BY <3>6, <4>2
    <3> QED
      BY <3>3, <3>4, <3>5, <3>6
  <2> QED
    BY <2>2, <2>4, <2>5
<1> HIDE DEF S
<1>6. n \in S
  BY <1>4, <1>5, Induction
<1> QED
  BY <1>1, <1>2, <1>3, <1>6 DEF S

\* The routes of all calls.
RouteSet(calls) == {c.route : c \in ToSet(calls)}

\* Different entries have different routes.
LEMMA EntriesDiffer ==
    ASSUME NEW t \in [Slots -> Entries \cup {Free}], NEW s \in Slots, NEW r \in Slots,
           t[s].used, t[r].used, Reached(t, s), Reached(t, r), t[s].route = t[r].route
    PROVE  s = r
  BY EntryFound

\* They are finitely many.
LEMMA RouteSetFinite ==
    ASSUME NEW calls \in Seq(RouteCalls)
    PROVE  IsFiniteSet(RouteSet(calls))
<1>1. Len(calls) \in Nat /\ DOMAIN calls = 1..Len(calls)
  BY LenProperties
<1>2. IsFiniteSet(1..Len(calls))
  BY <1>1, FS_Interval
<1>3. RouteSet(calls) = {calls[i].route : i \in 1..Len(calls)}
  BY <1>1 DEF RouteSet, ToSet
<1>4. IsFiniteSet({calls[i].route : i \in 1..Len(calls)})
  <2>1. PICK T : T = {calls[i].route : i \in 1..Len(calls)}
    OBVIOUS
  <2>2. [i \in 1..Len(calls) |-> calls[i].route] \in Surjection(1..Len(calls), T)
    BY <2>1 DEF Surjection
  <2> QED
    BY <1>2, <2>1, <2>2, FS_Surjection
<1> QED
  BY <1>3, <1>4

\* The slots are as many as they are.
LEMMA SlotsFinite == IsFiniteSet(Slots) /\ Cardinality(Slots) = TableSize
<1>1. PICK z \in Int, b \in Int : z = 0 /\ b = TableSize - 1 /\ ~(z > b) /\ b - z + 1 = TableSize
  BY RoutingAssumption
<1>2. IsFiniteSet(z..b) /\ Cardinality(z..b) = IF z > b THEN 0 ELSE b - z + 1
  BY FS_Interval
<1> QED
  BY <1>1, <1>2 DEF Slots

\* A table that cannot take a route is smaller than the set of routes.
LEMMA CrowdedIsOverfull ==
    ASSUME NEW calls \in Seq(RouteCalls), Crowded(calls, Len(calls))
    PROVE  Cardinality(RouteSet(calls)) > TableSize
<1>1. PICK t : /\ t \in [Slots -> Entries \cup {Free}]
               /\ \A s \in Slots : t[s].used /\ Reached(t, s)
               /\ \A s \in Slots : \E j \in 1..Len(calls) : calls[j].route = t[s].route
               /\ \E j \in 1..Len(calls) : \A s \in Slots : t[s].route # calls[j].route
  BY DEF Crowded
<1>2. RouteSet(calls) = {calls[i].route : i \in 1..Len(calls)}
  BY LenProperties DEF RouteSet, ToSet
<1>3. PICK T : T = RouteSet(calls)
  OBVIOUS
<1>4. IsFiniteSet(T) /\ Cardinality(T) \in Nat
  BY <1>3, RouteSetFinite, FS_CardinalityType
<1>5. IsFiniteSet(Slots) /\ Cardinality(Slots) = TableSize
  BY SlotsFinite
<1>6. PICK f : f = [s \in Slots |-> t[s].route]
  OBVIOUS
<1>7. f \in [Slots -> T]
  BY <1>1, <1>2, <1>3, <1>6
<1>8. \A s, r \in Slots : f[s] = f[r] => s = r
  BY <1>1, <1>6, EntriesDiffer
<1>9. f \in Injection(Slots, T)
  BY <1>7, <1>8 DEF Injection, IsInjective
<1>10. f \notin Surjection(Slots, T)
  <2>1. PICK x \in T : \A s \in Slots : f[s] # x
    BY <1>1, <1>2, <1>3, <1>6
  <2> QED
    BY <2>1 DEF Surjection
<1>11. Cardinality(Slots) <= Cardinality(T) /\ Cardinality(Slots) # Cardinality(T)
  BY <1>4, <1>9, <1>10, FS_Injection
<1> QED
  BY <1>3, <1>4, <1>5, <1>11, RoutingAssumption

\* A table that has taken all routes is large enough, and no route has two sites.
LEMMA GoodFits ==
    ASSUME NEW calls \in Seq(RouteCalls), NEW t, Good(t, calls, Len(calls))
    PROVE  ~(Cardinality(RouteSet(calls)) > TableSize) /\ ~Clash(calls, Len(calls))
<1>1. /\ t \in [Slots -> Entries \cup {Free}]
      /\ \A s \in Slots : t[s].used => Reached(t, s)
      /\ \A j \in 1..Len(calls) : \E s \in Slots :
           t[s].used /\ t[s].route = calls[j].route /\ t[s].site = calls[j].site
  BY DEF Good
<1>2. \A s, r \in Slots : t[s].used /\ t[r].used /\ t[s].route = t[r].route => s = r
  BY <1>1, EntriesDiffer
<1>3. ~Clash(calls, Len(calls))
  BY <1>1, <1>2 DEF Clash
<1>4. PICK T : T = RouteSet(calls)
  OBVIOUS
<1>5. IsFiniteSet(Slots) /\ Cardinality(Slots) = TableSize
  BY SlotsFinite
<1>6. IsFiniteSet(T) /\ Cardinality(T) \in Nat
  BY <1>4, RouteSetFinite, FS_CardinalityType
<1>7. \A x \in T : \E s \in Slots : t[s].used /\ t[s].route = x
  <2>1. RouteSet(calls) = {calls[i].route : i \in 1..Len(calls)}
    BY LenProperties DEF RouteSet, ToSet
  <2> QED
    BY <1>1, <1>4, <2>1
<1>8. PICK f : f = [x \in T |-> CHOOSE s \in Slots : t[s].used /\ t[s].route = x]
  OBVIOUS
<1>9. \A x \in T : f[x] \in Slots /\ t[f[x]].route = x
  BY <1>7, <1>8
<1>10. f \in Injection(T, Slots)
  <2>1. f \in [T -> Slots]
    BY <1>8, <1>9
  <2>2. \A x, y \in T : f[x] = f[y] => x = y
    BY <1>9
  <2> QED
    BY <2>1, <2>2 DEF Injection, IsInjective
<1>11. Cardinality(T) <= TableSize
  BY <1>5, <1>10, FS_Injection
<1> QED
  BY <1>3, <1>4, <1>6, <1>11, RoutingAssumption

\* A host, and the other one.
LEMMA HostIs ==
    ASSUME NEW host \in HostNames
    PROVE  /\ host[1] \in 0..MaxWww /\ host[2] \in Names /\ host # DefaultHost
           /\ Other(host) \in HostNames
           /\ Other(host)[1] = IF host[1] = 0 THEN 1 ELSE host[1] - 1
           /\ Other(host)[2] = host[2]
<1>1. PICK k \in 0..MaxWww, n \in Names : host = <<k, n>>
  BY DEF HostNames
<1>2. host[1] = k /\ host[2] = n
  BY <1>1
<1>3. PICK j \in 0..MaxWww : j = IF k = 0 THEN 1 ELSE k - 1
  BY RoutingAssumption
<1>4. PICK o : o = <<j, n>>
  OBVIOUS
<1>5. o[1] = j /\ o[2] = n /\ o \in HostNames
  BY <1>4 DEF HostNames
<1>6. o = Other(host)
  BY <1>2, <1>3, <1>4 DEF Other
<1>7. host # DefaultHost
  <2>1. DefaultHost[2] = "*"
    BY DEF DefaultHost
  <2> QED
    BY <1>2, <2>1, RoutingAssumption
<1> QED
  BY <1>2, <1>3, <1>5, <1>6, <1>7

\* The hosts of a domain.
LEMMA HostsType ==
    ASSUME NEW site \in Sites, NEW domain \in Domains
    PROVE  HostsOf(site, domain) \in Seq(Domains)
<1>1. CASE domain = DefaultHost
  <2>1. HostsOf(site, domain) = <<domain>>
    BY <1>1 DEF HostsOf
  <2> QED
    BY <2>1
<1>2. CASE domain # DefaultHost
  <2>1. domain \in HostNames
    BY <1>2 DEF Domains
  <2>2. Other(domain) \in HostNames
    BY <2>1, HostIs
  <2>3. <<domain>> \in Seq(Domains) /\ <<domain, Other(domain)>> \in Seq(Domains)
    BY <2>2 DEF Domains
  <2> QED
    BY <2>3 DEF HostsOf
<1> QED
  BY <1>1, <1>2

\* The two calls for one host.
CallsFor(site, i, host) ==
    <<[route |-> Route(host, site.http, site.ip), site |-> i],
      [route |-> Route(host, site.https, site.ip), site |-> i]>>

\* All hosts of a site.
HostList(site) == FlattenSeq([d \in DOMAIN site.domains |-> HostsOf(site, site.domains[d])])

\* They are typed.
LEMMA SiteHosts ==
    ASSUME NEW site \in Sites
    PROVE  /\ [d \in DOMAIN site.domains |-> HostsOf(site, site.domains[d])] \in Seq(Seq(Domains))
           /\ HostList(site) \in Seq(Domains)
<1>1. site.domains \in Seq(Domains)
  BY DEF Sites
<1>2. PICK n \in Nat : n = Len(site.domains) /\ DOMAIN site.domains = 1..n
                       /\ \A d \in 1..n : site.domains[d] \in Domains
  BY <1>1, LenProperties, ElementOfSeq
<1>3. \A d \in 1..n : HostsOf(site, site.domains[d]) \in Seq(Domains)
  BY <1>2, HostsType
<1>4. [d \in 1..n |-> HostsOf(site, site.domains[d])] \in [1..n -> Seq(Domains)]
  BY <1>3
<1>5. [d \in DOMAIN site.domains |-> HostsOf(site, site.domains[d])] \in Seq(Seq(Domains))
  BY <1>2, <1>4, SeqDef
<1> QED
  BY <1>5, FlattenType DEF HostList

\* So are the calls for one site.
LEMMA SiteCalls ==
    ASSUME NEW site \in Sites, NEW i \in Nat \ {0}
    PROVE  /\ [h \in DOMAIN HostList(site) |-> CallsFor(site, i, HostList(site)[h])]
                \in Seq(Seq(RouteCalls))
           /\ FlattenSeq([h \in DOMAIN HostList(site) |-> CallsFor(site, i, HostList(site)[h])])
                \in Seq(RouteCalls)
<1>1. PICK hosts \in Seq(Domains) : hosts = HostList(site)
  BY SiteHosts
<1>2. PICK n \in Nat : n = Len(hosts) /\ DOMAIN hosts = 1..n /\ \A h \in 1..n : hosts[h] \in Domains
  BY <1>1, LenProperties, ElementOfSeq
<1>3. ASSUME NEW h \in 1..n PROVE CallsFor(site, i, hosts[h]) \in Seq(RouteCalls)
  <2>1. /\ site.http \in Ports /\ site.https \in Ports /\ site.ip \in Addresses
        /\ hosts[h] \in Domains
    BY <1>2 DEF Sites
  <2>2. /\ Route(hosts[h], site.http, site.ip) \in Routes
        /\ Route(hosts[h], site.https, site.ip) \in Routes
    BY <2>1 DEF Route, Routes
  <2>3. /\ [route |-> Route(hosts[h], site.http, site.ip), site |-> i] \in RouteCalls
        /\ [route |-> Route(hosts[h], site.https, site.ip), site |-> i] \in RouteCalls
    BY <2>2 DEF RouteCalls
  <2> QED
    BY <2>3 DEF CallsFor
<1>4. [h \in 1..n |-> CallsFor(site, i, hosts[h])] \in Seq(Seq(RouteCalls))
  <2>1. [h \in 1..n |-> CallsFor(site, i, hosts[h])] \in [1..n -> Seq(RouteCalls)]
    BY <1>3
  <2> QED
    BY <2>1, SeqDef
<1> QED
  BY <1>1, <1>2, <1>4, FlattenType

\* They are the calls for its hosts, or none if it is disabled.
LEMMA RoutesOfIs ==
    ASSUME NEW list, NEW i
    PROVE  RoutesOf(list, i) =
             IF list[i].enabled
             THEN FlattenSeq([h \in DOMAIN HostList(list[i]) |->
                                CallsFor(list[i], i, HostList(list[i])[h])])
             ELSE <<>>
  BY DEF RoutesOf, HostList, CallsFor

\* The calls are typed.
LEMMA AllRoutesType ==
    ASSUME NEW list \in Seq(Sites)
    PROVE  /\ [i \in DOMAIN list |-> RoutesOf(list, i)] \in Seq(Seq(RouteCalls))
           /\ AllRoutes(list) \in Seq(RouteCalls)
<1>1. PICK n \in Nat : n = Len(list) /\ DOMAIN list = 1..n /\ \A i \in 1..n : list[i] \in Sites
  BY LenProperties, ElementOfSeq
<1>2. ASSUME NEW i \in 1..n PROVE RoutesOf(list, i) \in Seq(RouteCalls)
  <2>1. i \in Nat \ {0} /\ <<>> \in Seq(RouteCalls)
    OBVIOUS
  <2>2. FlattenSeq([h \in DOMAIN HostList(list[i]) |-> CallsFor(list[i], i, HostList(list[i])[h])])
          \in Seq(RouteCalls)
    BY <1>1, <2>1, SiteCalls
  <2> QED
    BY <2>1, <2>2, RoutesOfIs
<1>3. [i \in 1..n |-> RoutesOf(list, i)] \in Seq(Seq(RouteCalls))
  <2>1. [i \in 1..n |-> RoutesOf(list, i)] \in [1..n -> Seq(RouteCalls)]
    BY <1>2
  <2> QED
    BY <2>1, SeqDef
<1> QED
  BY <1>1, <1>3, FlattenType DEF AllRoutes

\* What lookup_route finds: nothing if no call has the route, and otherwise the one
\* site that all calls with the route have.
LEMMA LookupIs ==
    ASSUME NEW calls, NEW n \in Nat, Good(table, calls, n), NEW route \in Routes
    PROVE  \/ /\ LookupRoute(route) = 0
              /\ \A j \in 1..n : calls[j].route # route
           \/ /\ LookupRoute(route) \in Nat \ {0}
              /\ \E j \in 1..n : calls[j].route = route /\ calls[j].site = LookupRoute(route)
              /\ \A j \in 1..n : calls[j].route = route => calls[j].site = LookupRoute(route)
<1>1. /\ table \in [Slots -> Entries \cup {Free}]
      /\ \A s \in Slots : table[s].used => Reached(table, s)
      /\ \A s \in Slots : table[s].used =>
           \E j \in 1..n : calls[j].route = table[s].route /\ calls[j].site = table[s].site
      /\ \A j \in 1..n : \E s \in Slots :
           table[s].used /\ table[s].route = calls[j].route /\ table[s].site = calls[j].site
  BY DEF Good
<1>2. PICK k : k = Stop(table, route)
  OBVIOUS
<1>3. PICK q : q = Probe(Hash[route], k)
  OBVIOUS
<1>4. LookupRoute(route) = IF k = TableSize \/ ~table[q].used THEN 0 ELSE table[q].site
  BY <1>2, <1>3 DEF LookupRoute
<1>5. TableSize \notin Slots
  BY RoutingAssumption DEF Slots
<1>6. CASE \E s \in Slots : table[s].used /\ table[s].route = route
  <2>1. PICK s \in Slots : table[s].used /\ table[s].route = route
    BY <1>6
  <2>2. k \in Slots /\ q = s
    BY <1>1, <1>2, <1>3, <2>1, EntryFound
  <2>3. LookupRoute(route) = table[s].site
    BY <1>4, <1>5, <2>1, <2>2
  <2>4. table[s].site \in Nat \ {0}
    BY <1>1, <2>1, SlotParts
  <2>5. \E j \in 1..n : calls[j].route = route /\ calls[j].site = table[s].site
    BY <1>1, <2>1
  <2>6. ASSUME NEW j \in 1..n, calls[j].route = route PROVE calls[j].site = table[s].site
    <3>1. PICK r \in Slots : table[r].used /\ table[r].route = route /\ table[r].site = calls[j].site
      BY <1>1, <2>6
    <3>2. r = s
      BY <1>1, <2>1, <3>1, EntriesDiffer
    <3> QED
      BY <3>1, <3>2
  <2> QED
    BY <2>3, <2>4, <2>5, <2>6
<1>7. CASE ~\E s \in Slots : table[s].used /\ table[s].route = route
  <2>1. \A j \in 1..n : calls[j].route # route
    BY <1>1, <1>7
  <2>2. k = TableSize \/ ~table[q].used
    <3>1. CASE k \in Slots
      <4>1. Stops(table, route, k)
        BY <1>2, <1>5, <3>1, StopIs
      <4>2. q \in Slots
        BY <1>3, <3>1, RoutingAssumption, ProbeWraps
      <4> QED
        BY <1>3, <1>7, <4>1, <4>2 DEF Stops
    <3>2. CASE k \notin Slots
      BY <1>2, <3>2, StopIs
    <3> QED
      BY <3>1, <3>2
  <2> QED
    BY <1>4, <2>1, <2>2
<1> QED
  BY <1>6, <1>7

\* The table is the one that was built of the sites.
TableSound ==
    /\ sites \in SiteLists
    /\ Good(table, AllRoutes(sites), Len(AllRoutes(sites)))

\* The sites that claim a route are the one that is found.
LEMMA LookupClaims ==
    ASSUME TableSound, NEW route \in Routes
    PROVE  \/ LookupRoute(route) = 0 /\ Claimants(Claims(sites), route) = {}
           \/ /\ LookupRoute(route) \in Nat \ {0}
              /\ Claimants(Claims(sites), route) = {LookupRoute(route)}
<1>1. PICK calls \in Seq(RouteCalls) : calls = AllRoutes(sites)
  BY RoutingAssumption, AllRoutesType DEF TableSound
<1>2. PICK n \in Nat : n = Len(calls) /\ DOMAIN calls = 1..n
  BY LenProperties
<1>3. Good(table, calls, n)
  BY <1>1, <1>2 DEF TableSound
<1>4. Claims(sites) = {calls[j] : j \in 1..n}
  BY <1>1, <1>2 DEF Claims, ToSet
<1>5. \A x : x \in Claimants(Claims(sites), route) <=>
               \E j \in 1..n : calls[j].route = route /\ calls[j].site = x
  BY <1>4 DEF Claimants
<1>6. \/ /\ LookupRoute(route) = 0
         /\ \A j \in 1..n : calls[j].route # route
      \/ /\ LookupRoute(route) \in Nat \ {0}
         /\ \E j \in 1..n : calls[j].route = route /\ calls[j].site = LookupRoute(route)
         /\ \A j \in 1..n : calls[j].route = route => calls[j].site = LookupRoute(route)
  BY <1>3, LookupIs
<1>7. CASE /\ LookupRoute(route) = 0
           /\ \A j \in 1..n : calls[j].route # route
  BY <1>5, <1>7
<1>8. CASE /\ LookupRoute(route) \in Nat \ {0}
           /\ \E j \in 1..n : calls[j].route = route /\ calls[j].site = LookupRoute(route)
           /\ \A j \in 1..n : calls[j].route = route => calls[j].site = LookupRoute(route)
  BY <1>5, <1>8
<1> QED
  BY <1>6, <1>7, <1>8

\* The first of four searches that finds something.
LEMMA FirstOfFour ==
    ASSUME NEW a, NEW b, NEW c, NEW d
    PROVE  FirstFound(<<a, b, c, d>>) =
             IF a # 0 THEN a ELSE IF b # 0 THEN b ELSE IF c # 0 THEN c ELSE d
<1>1. PICK s : s = <<a, b, c, d>>
  OBVIOUS
<1>2. DOMAIN s = 1..4 /\ s[1] = a /\ s[2] = b /\ s[3] = c /\ s[4] = d
  BY <1>1
<1>3. \A n \in 1..4 : n = 1 \/ n = 2 \/ n = 3 \/ n = 4
  OBVIOUS
<1>5. FirstFound(s) = IF \E n \in DOMAIN s : s[n] # 0
                      THEN s[CHOOSE n \in DOMAIN s : s[n] # 0 /\ \A m \in 1..(n - 1) : s[m] = 0]
                      ELSE 0
  BY Zenon DEF FirstFound
<1>6. ASSUME NEW n \in 1..4, s[n] # 0, \A m \in 1..(n - 1) : s[m] = 0
      PROVE  FirstFound(s) = s[n]
  <2>1. \E x \in DOMAIN s : s[x] # 0 /\ \A m \in 1..(x - 1) : s[m] = 0
    BY <1>2, <1>6
  <2>2. PICK x : x = CHOOSE y \in DOMAIN s : s[y] # 0 /\ \A m \in 1..(y - 1) : s[m] = 0
    OBVIOUS
  <2>3. x \in DOMAIN s /\ s[x] # 0 /\ \A m \in 1..(x - 1) : s[m] = 0
    BY <2>1, <2>2
  <2>4. x \in 1..4 /\ ~(x < n) /\ ~(n < x)
    BY <1>2, <1>6, <2>3
  <2>5. x = n
    BY <2>4
  <2> QED
    BY <1>2, <1>5, <1>6, <2>2, <2>5
<1>7. CASE a # 0
  BY <1>1, <1>2, <1>6, <1>7
<1>8. CASE a = 0 /\ b # 0
  <2>1. \A m \in 1..(2 - 1) : s[m] = 0
    BY <1>2, <1>8
  <2> QED
    BY <1>1, <1>2, <1>6, <1>8, <2>1
<1>9. CASE a = 0 /\ b = 0 /\ c # 0
  <2>1. \A m \in 1..(3 - 1) : s[m] = 0
    BY <1>2, <1>9
  <2> QED
    BY <1>1, <1>2, <1>6, <1>9, <2>1
<1>10. CASE a = 0 /\ b = 0 /\ c = 0 /\ d # 0
  <2>1. \A m \in 1..(4 - 1) : s[m] = 0
    BY <1>2, <1>10
  <2> QED
    BY <1>1, <1>2, <1>6, <1>10, <2>1
<1>11. CASE a = 0 /\ b = 0 /\ c = 0 /\ d = 0
  <2>1. \A n \in DOMAIN s : s[n] = 0
    BY <1>2, <1>3, <1>11
  <2> QED
    BY <1>1, <1>5, <1>11, <2>1
<1> QED
  BY <1>7, <1>8, <1>9, <1>10, <1>11

(***************************************************************************)
(* What the sites claim.                                                   *)
(***************************************************************************)

\* The hosts of a site: its domains, and the ones its www rule leads away from.
HasHost(site, host) ==
    \E d \in DOMAIN site.domains :
        LET domain == site.domains[d] IN
        host = domain \/ (domain # DefaultHost /\ Flips(site, domain) /\ host = Other(domain))

\* The hosts of one domain.
LEMMA HostsOfHas ==
    ASSUME NEW site, NEW domain, NEW h
    PROVE  h \in ToSet(HostsOf(site, domain)) <=>
             h = domain \/ (domain # DefaultHost /\ Flips(site, domain) /\ h = Other(domain))
<1>1. CASE domain # DefaultHost /\ Flips(site, domain)
  <2>1. PICK s : s = <<domain, Other(domain)>>
    OBVIOUS
  <2>2. HostsOf(site, domain) = s
    BY <1>1, <2>1 DEF HostsOf
  <2>3. DOMAIN s = 1..2 /\ s[1] = domain /\ s[2] = Other(domain)
    BY <2>1
  <2>4. \A i : i \in 1..2 <=> i = 1 \/ i = 2
    OBVIOUS
  <2>5. ToSet(s) = {domain, Other(domain)}
    BY <2>3, <2>4 DEF ToSet
  <2> QED
    BY <1>1, <2>2, <2>5
<1>2. CASE ~(domain # DefaultHost /\ Flips(site, domain))
  <2>1. PICK s : s = <<domain>>
    OBVIOUS
  <2>2. HostsOf(site, domain) = s
    BY <1>2, <2>1 DEF HostsOf
  <2>3. DOMAIN s = 1..1 /\ s[1] = domain
    BY <2>1
  <2>4. \A i : i \in 1..1 <=> i = 1
    OBVIOUS
  <2>5. ToSet(s) = {domain}
    BY <2>3, <2>4 DEF ToSet
  <2> QED
    BY <1>2, <2>2, <2>5
<1> QED
  BY <1>1, <1>2

\* The hosts of a site.
LEMMA HostListHas ==
    ASSUME NEW site \in Sites, NEW h
    PROVE  h \in ToSet(HostList(site)) <=> HasHost(site, h)
<1>1. PICK ss \in Seq(Seq(Domains)) :
        ss = [d \in DOMAIN site.domains |-> HostsOf(site, site.domains[d])]
  BY SiteHosts
<1>2. site.domains \in Seq(Domains)
  BY DEF Sites
<1>3. DOMAIN site.domains = 1..Len(ss)
  BY <1>1, <1>2, LenProperties
<1>4. \A d \in 1..Len(ss) : ss[d] = HostsOf(site, site.domains[d])
  BY <1>1, <1>3
<1>5. h \in ToSet(FlattenSeq(ss)) <=> \E d \in 1..Len(ss) : h \in ToSet(ss[d])
  BY FlattenHas
<1>6. \A d \in 1..Len(ss) : h \in ToSet(ss[d]) <=>
         h = site.domains[d]
         \/ /\ site.domains[d] # DefaultHost /\ Flips(site, site.domains[d])
            /\ h = Other(site.domains[d])
  BY <1>4, HostsOfHas
<1> QED
  BY <1>1, <1>3, <1>5, <1>6 DEF HostList, HasHost

\* The two calls for a host.
LEMMA CallsForHas ==
    ASSUME NEW site, NEW i, NEW host, NEW c
    PROVE  c \in ToSet(CallsFor(site, i, host)) <=>
             \E p \in {site.http, site.https} : c = [route |-> Route(host, p, site.ip), site |-> i]
<1>1. PICK a, b : /\ a = [route |-> Route(host, site.http, site.ip), site |-> i]
                  /\ b = [route |-> Route(host, site.https, site.ip), site |-> i]
  OBVIOUS
<1>2. PICK s : s = <<a, b>> /\ s = CallsFor(site, i, host)
  BY <1>1 DEF CallsFor
<1>3. DOMAIN s = 1..2 /\ s[1] = a /\ s[2] = b
  BY <1>2
<1>4. \A k : k \in 1..2 <=> k = 1 \/ k = 2
  OBVIOUS
<1>5. ToSet(s) = {a, b}
  BY <1>3, <1>4 DEF ToSet
<1> QED
  BY <1>1, <1>2, <1>5

\* A claim: an enabled site, one of its hosts, and one of its ports.
Claimed(site, i, c) ==
    /\ site.enabled
    /\ \E h : /\ HasHost(site, h)
              /\ \E p \in {site.http, site.https} :
                   c = [route |-> Route(h, p, site.ip), site |-> i]

\* The calls for one site.
LEMMA RoutesOfHas ==
    ASSUME NEW list \in Seq(Sites), NEW i \in DOMAIN list, NEW c
    PROVE  c \in ToSet(RoutesOf(list, i)) <=> Claimed(list[i], i, c)
<1>1. PICK site \in Sites : site = list[i]
  BY ElementOfSeq, LenProperties
<1>2. i \in Nat \ {0}
  BY LenProperties
<1>3. CASE ~site.enabled
  <2>1. RoutesOf(list, i) = <<>>
    BY <1>1, <1>3, RoutesOfIs
  <2>2. ToSet(RoutesOf(list, i)) = {}
    BY <2>1 DEF ToSet
  <2> QED
    BY <1>1, <1>3, <2>2 DEF Claimed
<1>4. CASE site.enabled
  <2>1. PICK hosts \in Seq(Domains) : hosts = HostList(site)
    BY SiteHosts
  <2>2. PICK ss \in Seq(Seq(RouteCalls)) : ss = [h \in DOMAIN hosts |-> CallsFor(site, i, hosts[h])]
    BY <1>2, <2>1, SiteCalls
  <2>3. DOMAIN hosts = 1..Len(ss)
    BY <2>1, <2>2, LenProperties
  <2>4. RoutesOf(list, i) = FlattenSeq(ss)
    BY <1>1, <1>4, <2>1, <2>2, RoutesOfIs
  <2>5. c \in ToSet(FlattenSeq(ss)) <=> \E k \in 1..Len(ss) : c \in ToSet(ss[k])
    BY FlattenHas
  <2>6. \A k \in 1..Len(ss) : c \in ToSet(ss[k]) <=>
          \E p \in {site.http, site.https} : c = [route |-> Route(hosts[k], p, site.ip), site |-> i]
    BY <2>2, <2>3, CallsForHas
  <2>7. \A h : h \in ToSet(hosts) <=> HasHost(site, h)
    BY <2>1, HostListHas
  <2>8. \A h : h \in ToSet(hosts) <=> \E k \in 1..Len(ss) : h = hosts[k]
    BY <2>3 DEF ToSet
  <2> QED
    <3> DEFINE Q(h) == \E p \in {site.http, site.https} :
                         c = [route |-> Route(h, p, site.ip), site |-> i]
    <3>1. c \in ToSet(RoutesOf(list, i)) <=> \E k \in 1..Len(ss) : Q(hosts[k])
      BY <2>4, <2>5, <2>6, Zenon
    <3>2. Claimed(site, i, c) <=> \E h : HasHost(site, h) /\ Q(h)
      BY <1>4, Zenon DEF Claimed
    <3> HIDE DEF Q
    <3>3. (\E h : HasHost(site, h) /\ Q(h)) <=> \E k \in 1..Len(ss) : Q(hosts[k])
      BY <2>7, <2>8, Zenon
    <3> QED
      BY <1>1, <3>1, <3>2, <3>3, Zenon
<1> QED
  BY <1>3, <1>4

\* The claims of all sites.
LEMMA ClaimsHas ==
    ASSUME NEW list \in Seq(Sites), NEW c
    PROVE  c \in Claims(list) <=> \E i \in DOMAIN list : Claimed(list[i], i, c)
<1>1. PICK ss \in Seq(Seq(RouteCalls)) : ss = [i \in DOMAIN list |-> RoutesOf(list, i)]
  BY AllRoutesType
<1>2. DOMAIN list = 1..Len(ss)
  BY <1>1, LenProperties
<1>3. c \in ToSet(FlattenSeq(ss)) <=> \E i \in 1..Len(ss) : c \in ToSet(ss[i])
  BY FlattenHas
<1>4. \A i \in DOMAIN list : c \in ToSet(ss[i]) <=> Claimed(list[i], i, c)
  BY <1>1, RoutesOfHas
<1> QED
  BY <1>1, <1>2, <1>3, <1>4 DEF Claims, AllRoutes

(***************************************************************************)
(* Requests reach the site that claims them.                               *)
(***************************************************************************)

RoutedRequests == [host : HostNames, port : Ports, ip : Addresses, tls : BOOLEAN, h2 : BOOLEAN,
                   origin : Addresses, local : BOOLEAN, internal : BOOLEAN]

\* A table that is in use was built of the sites, none of which disagree; where there
\* is none there is a reason.
RouteInv ==
    /\ ParseInv
    /\ outcome \in {"none", "rejected", "asked", "refused", "bad gateway", "not found", "served"}
    /\ outcome = "rejected" => Conflict(sites) \/ Overfull(sites)
    /\ outcome \notin {"none", "rejected"} =>
         /\ TableSound /\ asked \in RoutedRequests
         /\ ~Conflict(sites) /\ ~Overfull(sites)

\* What Conflict and Overfull say of the calls.
LEMMA ConflictIs ==
    ASSUME NEW list \in Seq(Sites)
    PROVE  /\ Conflict(list) <=> Clash(AllRoutes(list), Len(AllRoutes(list)))
           /\ Overfull(list) <=> Cardinality(RouteSet(AllRoutes(list))) > TableSize
<1>1. PICK calls \in Seq(RouteCalls) : calls = AllRoutes(list)
  BY AllRoutesType
<1>2. PICK n : n = Len(calls) /\ DOMAIN calls = 1..n
  BY LenProperties
<1>3. Claims(list) = {calls[j] : j \in 1..n} /\ Claims(list) = ToSet(calls)
  BY <1>1, <1>2 DEF Claims, ToSet
<1>4. Conflict(list) <=> Clash(calls, n)
  BY <1>3 DEF Conflict, Clash
<1>5. Overfull(list) <=> Cardinality(RouteSet(calls)) > TableSize
  BY <1>3 DEF Overfull, RouteSet
<1> QED
  BY <1>1, <1>2, <1>4, <1>5

\* build_route_table fails when two sites claim a route or the table is too small, and
\* only then.
LEMMA BuildOutcome ==
    ASSUME NEW list \in SiteLists
    PROVE  \/ BuildRouteTable(list) = Failed /\ (Conflict(list) \/ Overfull(list))
           \/ /\ BuildRouteTable(list) # Failed
              /\ Good(BuildRouteTable(list), AllRoutes(list), Len(AllRoutes(list)))
              /\ ~Conflict(list) /\ ~Overfull(list)
<1>1. list \in Seq(Sites)
  BY RoutingAssumption
<1>2. PICK calls \in Seq(RouteCalls) : calls = AllRoutes(list)
  BY <1>1, AllRoutesType
<1>3. \/ Good(BuildRouteTable(list), calls, Len(calls))
      \/ BuildRouteTable(list) = Failed /\ (Clash(calls, Len(calls)) \/ Crowded(calls, Len(calls)))
  BY <1>2, BuildGood
<1>4. CASE Good(BuildRouteTable(list), calls, Len(calls))
  <2>1. BuildRouteTable(list) # Failed
    BY <1>4, TableNotFailed DEF Good
  <2>2. ~(Cardinality(RouteSet(calls)) > TableSize) /\ ~Clash(calls, Len(calls))
    BY <1>4, GoodFits
  <2> QED
    BY <1>1, <1>2, <1>4, <2>1, <2>2, ConflictIs
<1>5. CASE BuildRouteTable(list) = Failed /\ (Clash(calls, Len(calls)) \/ Crowded(calls, Len(calls)))
  BY <1>1, <1>2, <1>5, ConflictIs, CrowdedIsOverfull
<1> QED
  BY <1>3, <1>4, <1>5

\* The four routes of a request.
LEMMA RouteType ==
    ASSUME NEW host \in HostNames, NEW port \in Ports, NEW addr \in Addresses
    PROVE  /\ Route(host, port, addr) \in Routes /\ Route(host, port, AnyIp) \in Routes
           /\ Route(DefaultHost, port, addr) \in Routes /\ Route(DefaultHost, port, AnyIp) \in Routes
<1>1. DefaultHost \in Domains /\ host \in Domains /\ AnyIp \in Addresses
  BY RoutingAssumption DEF Domains
<1> QED
  BY <1>1 DEF Route, Routes

\* Where a request goes is what the sites claim.
LEMMA RoutedFromInvariant ==
    ASSUME RouteInv
    PROVE  RoutedAsDeclared
<1> SUFFICES ASSUME outcome \notin {"none", "rejected"}
             PROVE  LET claims == Claims(sites)
                        ranks == <<Claimants(claims, Route(asked.host, asked.port, asked.ip)),
                                   Claimants(claims, Route(asked.host, asked.port, AnyIp)),
                                   Claimants(claims, Route(DefaultHost, asked.port, asked.ip)),
                                   Claimants(claims, Route(DefaultHost, asked.port, AnyIp))>>
                        i == FindSite(asked.host, asked.port, asked.ip)
                    IN IF \A n \in 1..4 : ranks[n] = {} THEN i = 0
                       ELSE \E n \in 1..4 : ranks[n] = {i} /\ \A m \in 1..(n - 1) : ranks[m] = {}
  BY DEF RouteInv, RoutedAsDeclared
<1>1. TableSound /\ asked.host \in HostNames /\ asked.port \in Ports /\ asked.ip \in Addresses
  BY DEF RouteInv, RoutedRequests
<1>2. PICK r1 \in Routes, r2 \in Routes, r3 \in Routes, r4 \in Routes :
        /\ r1 = Route(asked.host, asked.port, asked.ip)
        /\ r2 = Route(asked.host, asked.port, AnyIp)
        /\ r3 = Route(DefaultHost, asked.port, asked.ip)
        /\ r4 = Route(DefaultHost, asked.port, AnyIp)
  BY <1>1, RouteType
<1>3. PICK a, b, c, d : /\ a = LookupRoute(r1) /\ b = LookupRoute(r2)
                        /\ c = LookupRoute(r3) /\ d = LookupRoute(r4)
  OBVIOUS
<1>4. PICK A, B, C, D :
        /\ A = Claimants(Claims(sites), r1) /\ B = Claimants(Claims(sites), r2)
        /\ C = Claimants(Claims(sites), r3) /\ D = Claimants(Claims(sites), r4)
  OBVIOUS
<1>5. /\ (a = 0 /\ A = {}) \/ (a # 0 /\ A = {a})
      /\ (b = 0 /\ B = {}) \/ (b # 0 /\ B = {b})
      /\ (c = 0 /\ C = {}) \/ (c # 0 /\ C = {c})
      /\ (d = 0 /\ D = {}) \/ (d # 0 /\ D = {d})
  BY <1>1, <1>3, <1>4, LookupClaims
<1>6. PICK i : i = FindSite(asked.host, asked.port, asked.ip)
               /\ i = IF a # 0 THEN a ELSE IF b # 0 THEN b ELSE IF c # 0 THEN c ELSE d
  BY <1>2, <1>3, FirstOfFour DEF FindSite
<1>7. PICK ranks : ranks = <<A, B, C, D>>
  OBVIOUS
<1>8. ranks[1] = A /\ ranks[2] = B /\ ranks[3] = C /\ ranks[4] = D
  BY <1>7
<1>9. IF \A n \in 1..4 : ranks[n] = {} THEN i = 0
      ELSE \E n \in 1..4 : ranks[n] = {i} /\ \A m \in 1..(n - 1) : ranks[m] = {}
  <2>1. \A n \in 1..4 : n = 1 \/ n = 2 \/ n = 3 \/ n = 4
    OBVIOUS
  <2>2. /\ \A m \in 1..(1 - 1) : FALSE
        /\ \A m \in 1..(2 - 1) : m = 1
        /\ \A m \in 1..(3 - 1) : m = 1 \/ m = 2
        /\ \A m \in 1..(4 - 1) : m = 1 \/ m = 2 \/ m = 3
    OBVIOUS
  <2>3. CASE a # 0
    <3>1. ranks[1] = {i} /\ \A m \in 1..(1 - 1) : ranks[m] = {}
      BY <1>5, <1>6, <1>8, <2>2, <2>3
    <3> QED
      BY <3>1
  <2>4. CASE a = 0 /\ b # 0
    <3>1. ranks[2] = {i} /\ \A m \in 1..(2 - 1) : ranks[m] = {}
      BY <1>5, <1>6, <1>8, <2>2, <2>4
    <3> QED
      BY <3>1
  <2>5. CASE a = 0 /\ b = 0 /\ c # 0
    <3>1. ranks[3] = {i} /\ \A m \in 1..(3 - 1) : ranks[m] = {}
      BY <1>5, <1>6, <1>8, <2>2, <2>5
    <3> QED
      BY <3>1
  <2>6. CASE a = 0 /\ b = 0 /\ c = 0 /\ d # 0
    <3>1. ranks[4] = {i} /\ \A m \in 1..(4 - 1) : ranks[m] = {}
      BY <1>5, <1>6, <1>8, <2>2, <2>6
    <3> QED
      BY <3>1
  <2>7. CASE a = 0 /\ b = 0 /\ c = 0 /\ d = 0
    <3>1. \A n \in 1..4 : ranks[n] = {}
      BY <1>5, <1>8, <2>1, <2>7
    <3> QED
      BY <1>6, <2>7, <3>1
  <2> QED
    BY <2>3, <2>4, <2>5, <2>6, <2>7
<1> QED
  BY <1>2, <1>4, <1>6, <1>7, <1>9

\* The site has the host, on one of its ports.
Serves(site, host, port) ==
    site.enabled /\ HasHost(site, host) /\ port \in {site.http, site.https}

\* The sites that claim a route.
LEMMA ClaimantIs ==
    ASSUME NEW list \in Seq(Sites), NEW host, NEW port, NEW addr, NEW x
    PROVE  x \in Claimants(Claims(list), Route(host, port, addr)) <=>
             x \in DOMAIN list /\ Serves(list[x], host, port) /\ list[x].ip = addr
<1>1. PICK route : route = Route(host, port, addr)
  OBVIOUS
<1>2. PICK claims : claims = Claims(list)
  OBVIOUS
<1>3. x \in Claimants(claims, route) <=> \E c \in claims : c.route = route /\ c.site = x
  BY DEF Claimants
<1>4. ASSUME NEW c \in claims, c.route = route, c.site = x
      PROVE  x \in DOMAIN list /\ Serves(list[x], host, port) /\ list[x].ip = addr
  <2>1. PICK i \in DOMAIN list : Claimed(list[i], i, c)
    BY <1>2, <1>4, ClaimsHas
  <2>2. PICK site : site = list[i]
    OBVIOUS
  <2>3. site.enabled
    BY <2>1, <2>2 DEF Claimed
  <2>4. PICK h : HasHost(site, h) /\ \E p \in {site.http, site.https} :
                   c = [route |-> Route(h, p, site.ip), site |-> i]
    BY <2>1, <2>2 DEF Claimed
  <2>5. PICK p \in {site.http, site.https} : c = [route |-> Route(h, p, site.ip), site |-> i]
    BY <2>4
  <2>6. c.site = i /\ c.route = Route(h, p, site.ip)
    BY <2>5
  <2>7. h = host /\ p = port /\ site.ip = addr
    BY <1>1, <1>4, <2>6 DEF Route
  <2> QED
    BY <1>4, <2>2, <2>3, <2>4, <2>5, <2>6, <2>7 DEF Serves
<1>5. ASSUME x \in DOMAIN list, Serves(list[x], host, port), list[x].ip = addr
      PROVE  \E c \in claims : c.route = route /\ c.site = x
  <2>1. PICK site : site = list[x]
    OBVIOUS
  <2>2. PICK c : c = [route |-> Route(host, port, site.ip), site |-> x]
    OBVIOUS
  <2>3. Claimed(site, x, c)
    BY <1>5, <2>1, <2>2 DEF Claimed, Serves
  <2>4. c \in claims
    BY <1>2, <1>5, <2>1, <2>3, ClaimsHas
  <2> QED
    BY <1>1, <1>5, <2>1, <2>2, <2>4
<1> QED
  BY <1>1, <1>2, <1>3, <1>4, <1>5

\* The site that answers: one that has the host, or a default site where no site in
\* reach has it.
LEMMA SiteFound ==
    ASSUME RouteInv, outcome \notin {"none", "rejected"},
           NEW i, i = FindSite(asked.host, asked.port, asked.ip), i # 0
    PROVE  /\ i \in DOMAIN sites /\ sites[i] \in Sites /\ sites[i].ip \in {asked.ip, AnyIp}
           /\ \/ Serves(sites[i], asked.host, asked.port)
              \/ /\ Serves(sites[i], DefaultHost, asked.port)
                 /\ \A j \in DOMAIN sites :
                      Serves(sites[j], asked.host, asked.port) => sites[j].ip \notin {asked.ip, AnyIp}
<1>1. TableSound /\ asked.host \in HostNames /\ asked.port \in Ports /\ asked.ip \in Addresses
  BY DEF RouteInv, RoutedRequests
<1>2. PICK r1 \in Routes, r2 \in Routes, r3 \in Routes, r4 \in Routes :
        /\ r1 = Route(asked.host, asked.port, asked.ip)
        /\ r2 = Route(asked.host, asked.port, AnyIp)
        /\ r3 = Route(DefaultHost, asked.port, asked.ip)
        /\ r4 = Route(DefaultHost, asked.port, AnyIp)
  BY <1>1, RouteType
<1>3. PICK a, b, c, d : /\ a = LookupRoute(r1) /\ b = LookupRoute(r2)
                        /\ c = LookupRoute(r3) /\ d = LookupRoute(r4)
  OBVIOUS
<1>4. PICK A, B, C, D :
        /\ A = Claimants(Claims(sites), r1) /\ B = Claimants(Claims(sites), r2)
        /\ C = Claimants(Claims(sites), r3) /\ D = Claimants(Claims(sites), r4)
  OBVIOUS
<1>5. /\ (a = 0 /\ A = {}) \/ (a # 0 /\ A = {a})
      /\ (b = 0 /\ B = {}) \/ (b # 0 /\ B = {b})
      /\ (c = 0 /\ C = {}) \/ (c # 0 /\ C = {c})
      /\ (d = 0 /\ D = {}) \/ (d # 0 /\ D = {d})
  BY <1>1, <1>3, <1>4, LookupClaims
<1>6. i = IF a # 0 THEN a ELSE IF b # 0 THEN b ELSE IF c # 0 THEN c ELSE d
  BY <1>2, <1>3, FirstOfFour DEF FindSite
<1>7. sites \in Seq(Sites)
  BY <1>1, RoutingAssumption DEF TableSound
<1>8. /\ \A x : x \in A <=> x \in DOMAIN sites /\ Serves(sites[x], asked.host, asked.port)
                            /\ sites[x].ip = asked.ip
      /\ \A x : x \in B <=> x \in DOMAIN sites /\ Serves(sites[x], asked.host, asked.port)
                            /\ sites[x].ip = AnyIp
      /\ \A x : x \in C <=> x \in DOMAIN sites /\ Serves(sites[x], DefaultHost, asked.port)
                            /\ sites[x].ip = asked.ip
      /\ \A x : x \in D <=> x \in DOMAIN sites /\ Serves(sites[x], DefaultHost, asked.port)
                            /\ sites[x].ip = AnyIp
  BY <1>2, <1>4, <1>7, ClaimantIs
<1>9. \A x \in DOMAIN sites : sites[x] \in Sites
  BY <1>7, ElementOfSeq, LenProperties
<1>10. i \in A \/ i \in B \/ (A = {} /\ B = {} /\ (i \in C \/ i \in D))
  BY <1>5, <1>6
<1> QED
  BY <1>8, <1>9, <1>10

\* The next request of a client keeps its type.
LEMMA AskedTyped ==
    ASSUME NEW r \in RoutedRequests, NEW site \in Sites
    PROVE  /\ Location(site, r) \in RoutedRequests
           /\ [r EXCEPT !.ip = Loopback, !.port = site.http,
                        !.tls = FALSE, !.local = TRUE, !.internal = TRUE] \in RoutedRequests
<1>1. Loopback \in Addresses /\ site.http \in Ports /\ site.https \in Ports
  BY RoutingAssumption DEF Sites
<1>2. r.host \in HostNames /\ r.origin \in Addresses
  BY DEF RoutedRequests
<1>3. Other(r.host) \in HostNames
  BY <1>2, HostIs
<1>4. ASSUME NEW host \in HostNames, NEW port \in Ports, NEW tls \in BOOLEAN
      PROVE  [r EXCEPT !.host = host, !.port = port, !.tls = tls, !.ip = r.origin,
                       !.local = FALSE, !.internal = FALSE] \in RoutedRequests
  BY <1>2 DEF RoutedRequests
<1>5. PICK https \in BOOLEAN : https = (ToHttps(site, r) \/ site.serveAs = "https")
  OBVIOUS
<1>6. PICK host \in HostNames :
        host = IF Flips(site, r.host) THEN Other(r.host) ELSE r.host
  BY <1>2, <1>3
<1>7. PICK port \in Ports : port = IF https THEN site.https ELSE site.http
  BY <1>1
<1>8. Location(site, r) = [r EXCEPT !.host = host, !.port = port, !.tls = https, !.ip = r.origin,
                                    !.local = FALSE, !.internal = FALSE]
  BY <1>5, <1>6, <1>7, Zenon DEF Location
<1>9. Location(site, r) \in RoutedRequests
  <2>1. [r EXCEPT !.host = host, !.port = port, !.tls = https, !.ip = r.origin,
                  !.local = FALSE, !.internal = FALSE] \in RoutedRequests
    BY <1>4
  <2> QED
    BY <1>8, <2>1, Zenon
<1>10. [r EXCEPT !.ip = Loopback, !.port = site.http,
                 !.tls = FALSE, !.local = TRUE, !.internal = TRUE] \in RoutedRequests
  BY <1>1 DEF RoutedRequests
<1> QED
  BY <1>9, <1>10

\* The host of a request that is accepted is one the parser knows.
LEMMA HostKnown ==
    ASSUME ParseInv, verdict = "accepted"
    PROVE  httpReq.host \in Hosts /\ httpReq.internal \in BOOLEAN
<1>1. ParseTypeOK /\ HeaderSound /\ have.host = TRUE
  BY DEF ParseInv
<1>2. Values("Host") = {httpReq.host}
  BY <1>1 DEF HeaderSound
<1>3. PICK k \in DOMAIN lines : lines[k].name = "Host" /\ lines[k].value = httpReq.host
  BY <1>2 DEF Values
<1>4. lines[k] \in AnyLine
  BY <1>1, ElementOfSeq, LenProperties DEF ParseTypeOK
<1>5. lines[k].value # "bad"
  BY <1>1 DEF HeaderSound
<1>6. httpReq.internal \in BOOLEAN
  BY <1>1, RequestParts DEF ParseTypeOK
<1> QED
  BY <1>3, <1>4, <1>5, <1>6, LineParts

\* What a request that arrives asks for.
LEMMA ArrivalTyped ==
    ASSUME ParseInv, verdict = "accepted", NEW a \in Arrivals
    PROVE  [host |-> HostParts[httpReq.host], port |-> a.port, ip |-> a.ip,
            tls |-> a.tls, h2 |-> a.h2, origin |-> a.ip, local |-> FALSE,
            internal |-> httpReq.internal] \in RoutedRequests
<1>1. PICK h \in HostNames, n \in BOOLEAN : h = HostParts[httpReq.host] /\ n = httpReq.internal
  BY HostKnown, CommandLineAssumption
<1>2. a.ip \in Addresses /\ a.port \in Ports /\ a.tls \in BOOLEAN /\ a.h2 \in BOOLEAN
  BY CommandLineAssumption
<1> QED
  BY <1>1, <1>2 DEF RoutedRequests

\* The steps of the routed request, and those that leave it alone.
LEMMA RouteSteppings ==
    ASSUME [Next]_vars
    PROVE  RouteRequest \/ Refuse \/ AskLoopback \/ ServeHere \/ UNCHANGED routeVars
  BY DEF Next, Configtest, Serve, Trace, Bench, RouteSteps, vars

\* A configuration is loaded: what that makes of the request.
LEMMA LoadOutcome ==
    ASSUME RouteInv, RouteRequest
    PROVE  /\ outcome = "none" /\ hops' = hops /\ sites' \in SiteLists
           /\ \/ outcome' = "rejected" /\ (Conflict(sites)' \/ Overfull(sites)')
              \/ /\ outcome' = "asked" /\ TableSound' /\ ~Conflict(sites)' /\ ~Overfull(sites)'
                 /\ asked' \in RoutedRequests /\ asked'.local = FALSE
<1>1. PICK list \in SiteLists, a \in Arrivals :
        LoadRoutes(list, [host |-> HostParts[httpReq.host], port |-> a.port, ip |-> a.ip,
                          tls |-> a.tls, h2 |-> a.h2, origin |-> a.ip, local |-> FALSE,
                          internal |-> httpReq.internal])
  BY DEF RouteRequest
<1>2. PICK r : r = [host |-> HostParts[httpReq.host], port |-> a.port, ip |-> a.ip,
                    tls |-> a.tls, h2 |-> a.h2, origin |-> a.ip, local |-> FALSE,
                    internal |-> httpReq.internal]
  OBVIOUS
<1>3. r \in RoutedRequests /\ r.local = FALSE
  BY <1>2, ArrivalTyped DEF RouteInv, RouteRequest, Routable
<1>4. PICK built : built = BuildRouteTable(list)
  OBVIOUS
<1>5. LoadRoutes(list, r)
  BY <1>1, <1>2
<1>6. /\ outcome = "none" /\ sites' = list /\ hops' = hops
      /\ IF built = Failed THEN outcome' = "rejected"
         ELSE outcome' = "asked" /\ table' = built /\ asked' = r
  BY <1>4, <1>5 DEF LoadRoutes
<1>7. \/ built = Failed /\ (Conflict(list) \/ Overfull(list))
      \/ /\ built # Failed /\ Good(built, AllRoutes(list), Len(AllRoutes(list)))
         /\ ~Conflict(list) /\ ~Overfull(list)
  BY <1>4, BuildOutcome
<1>8. CASE built = Failed /\ (Conflict(list) \/ Overfull(list))
  BY <1>6, <1>8
<1>9. CASE /\ built # Failed /\ Good(built, AllRoutes(list), Len(AllRoutes(list)))
           /\ ~Conflict(list) /\ ~Overfull(list)
  BY <1>3, <1>6, <1>9 DEF TableSound
<1> QED
  BY <1>6, <1>7, <1>8, <1>9

\* Nothing but loading changes the sites or their table.
LEMMA TableStays ==
    ASSUME sites' = sites, table' = table
    PROVE  /\ TableSound => TableSound'
           /\ Conflict(sites)' <=> Conflict(sites)
           /\ Overfull(sites)' <=> Overfull(sites)
  BY DEF TableSound

\* Every step keeps the invariant.
LEMMA RouteStepHolds ==
    ASSUME RouteInv, [Next]_vars
    PROVE  RouteInv'
<1>1. ParseInv'
  BY ParseStepHolds DEF RouteInv
<1>2. CASE RouteRequest
  BY <1>1, <1>2, LoadOutcome DEF RouteInv
<1>3. CASE Refuse
  <2>1. /\ sites' = sites /\ table' = table /\ asked' = asked
        /\ outcome = "asked" /\ outcome' = "refused"
    BY <1>3 DEF Refuse
  <2> QED
    BY <1>1, <2>1, TableStays DEF RouteInv
<1>4. CASE AskLoopback
  <2>1. sites' = sites /\ table' = table /\ outcome = "asked"
    BY <1>4 DEF AskLoopback
  <2>2. PICK i : i = FindSite(asked.host, asked.port, asked.ip)
    OBVIOUS
  <2>3. IF i = 0 THEN outcome' = "bad gateway" /\ asked' = asked
        ELSE /\ asked' = [asked EXCEPT !.ip = Loopback, !.port = sites[i].http,
                                       !.tls = FALSE, !.local = TRUE, !.internal = TRUE]
             /\ outcome' = outcome
    BY <1>4, <2>2 DEF AskLoopback
  <2>4. asked \in RoutedRequests /\ TableSound /\ ~Conflict(sites) /\ ~Overfull(sites)
    BY <2>1 DEF RouteInv
  <2>5. asked' \in RoutedRequests
    <3>1. CASE i # 0
      <4>1. PICK site \in Sites : site = sites[i]
        BY <2>1, <2>2, <3>1, SiteFound
      <4>2. [asked EXCEPT !.ip = Loopback, !.port = site.http,
                          !.tls = FALSE, !.local = TRUE, !.internal = TRUE] \in RoutedRequests
        BY <2>4, AskedTyped
      <4> QED
        BY <2>3, <3>1, <4>1, <4>2
    <3>2. CASE i = 0
      BY <2>3, <2>4, <3>2
    <3> QED
      BY <3>1, <3>2
  <2> QED
    BY <1>1, <2>1, <2>3, <2>4, <2>5, TableStays DEF RouteInv
<1>5. CASE ServeHere
  <2>1. sites' = sites /\ table' = table /\ outcome = "asked"
    BY <1>5 DEF ServeHere
  <2>2. PICK i : i = FindSite(asked.host, asked.port, asked.ip)
    OBVIOUS
  <2>3. IF i = 0 THEN outcome' = "not found" /\ asked' = asked
        ELSE IF ToHttps(sites[i], asked) \/ Flips(sites[i], asked.host)
        THEN asked' = Location(sites[i], asked) /\ outcome' = outcome
        ELSE outcome' = "served" /\ asked' = asked
    BY <1>5, <2>2, Zenon DEF ServeHere
  <2>4. asked \in RoutedRequests /\ TableSound /\ ~Conflict(sites) /\ ~Overfull(sites)
    BY <2>1 DEF RouteInv
  <2>5. asked' \in RoutedRequests
    <3>1. CASE i # 0
      <4>1. PICK site \in Sites : site = sites[i]
        BY <2>1, <2>2, <3>1, SiteFound
      <4>2. PICK next \in RoutedRequests : next = Location(site, asked)
        BY <2>4, AskedTyped
      <4> QED
        BY <2>3, <2>4, <3>1, <4>1, <4>2
    <3>2. CASE i = 0
      BY <2>3, <2>4, <3>2
    <3> QED
      BY <3>1, <3>2
  <2> QED
    BY <1>1, <2>1, <2>3, <2>4, <2>5, TableStays DEF RouteInv
<1>6. CASE UNCHANGED routeVars
  BY <1>1, <1>6, TableStays DEF RouteInv, routeVars
<1> QED
  BY <1>2, <1>3, <1>4, <1>5, <1>6, RouteSteppings

\* The invariant holds from the start.
LEMMA RouteInvariant == Spec => []RouteInv
<1>1. Init => RouteInv
  <2> SUFFICES ASSUME Init PROVE RouteInv
    OBVIOUS
  <2>1. ParseInv
    BY ParseInitHolds DEF Init, ParseInit
  <2> QED
    BY <2>1 DEF Init, RouteInit, RouteInv
<1>2. RouteInv /\ [Next]_vars => RouteInv'
  BY RouteStepHolds
<1> QED
  BY <1>1, <1>2, PTL DEF Spec

\* For every list of sites, every table size and hash: the configuration is refused
\* exactly when two sites claim a route or the table is too small, and a request goes
\* to the site that claims it, by name before by default and on its own address before
\* on all (build_route_table, lookup_route, rpsiod_config_find_site_for_listener).
THEOREM RequestsRouted == Spec => []RoutedAsDeclared
  BY RouteInvariant, RoutedFromInvariant, PTL

(***************************************************************************)
(* Redirects.  Nearer bounds them: while a host begins with "www." more    *)
(* than once no site has it, and a default site takes one off with each    *)
(* redirect or gives none but one to https.  From there on Calm says how   *)
(* far a browser has come: a default site sends it away from a host name   *)
(* at most once, after two redirects no site does so, and after three it   *)
(* is nowhere sent on to https.                                            *)
(***************************************************************************)

\* The sites that have a host on a port.
Having(list, host, port) == {i \in DOMAIN list : Serves(list[i], host, port)}

\* No site that has the host redirects it to the other one.
Firm(list, host, port) == \A j \in Having(list, host, port) : ~Flips(list[j], host)

Unnamed(list, r) == Having(list, r.host, r.port) = {}

\* After one redirect: a default site does not lead to the other host.
Kept(list, r) ==
    Unnamed(list, r) => \A i \in Having(list, DefaultHost, r.port) :
        /\ ~Flips(list[i], r.host)
        /\ ToHttps(list[i], r) => Firm(list, r.host, list[i].https)

\* After two: nor does a site that has the host.
Steady(list, r) ==
    /\ Firm(list, r.host, r.port)
    /\ r.tls /\ Unnamed(list, r) =>
         \A i \in Having(list, DefaultHost, r.port) : Firm(list, r.host, list[i].http)

\* The site that answers.
Picked(list, r, i) ==
    \/ i \in Having(list, r.host, r.port)
    \/ i \in Having(list, DefaultHost, r.port) /\ Unnamed(list, r)

Calm(list, r, n) ==
    /\ r.local => r.internal
    /\ n = 0 => (r.local /\ Unnamed(list, r) =>
                   \A i \in Having(list, DefaultHost, r.port) :
                       Having(list, r.host, list[i].https) = {})
    /\ n \in 1..3 => Kept(list, r)
    /\ n \in 2..3 => Steady(list, r)
    /\ n = 3 => \A i \in DOMAIN list : Picked(list, r, i) => ~ToHttps(list[i], r)

\* No default site redirects the request.
Settled(list, r) ==
    \A i \in Having(list, DefaultHost, r.port) :
        ~Flips(list[i], r.host) /\ ~ToHttps(list[i], r)

\* After n redirects: how many may still follow.
Nearer(list, r, n) ==
    IF r.host[1] <= 1
    THEN \E m \in 0..3 : Calm(list, r, m) /\ n <= m + MaxWww - 1
    ELSE /\ r.local => r.internal
         /\ \/ n + r.host[1] <= MaxWww
            \/ n + r.host[1] <= MaxWww + 1 /\ Settled(list, r)

\* Sites in use that share their address and name no host with "www." twice before it.
Peaceful(list) ==
    /\ list \in SiteLists /\ ~Conflict(list)
    /\ \A i, j \in DOMAIN list : list[i].enabled /\ list[j].enabled => list[i].ip = list[j].ip
    /\ \A i \in DOMAIN list : \A d \in DOMAIN list[i].domains :
         list[i].enabled => list[i].domains[d][1] <= 1

\* Only one of them has a host on a port.
LEMMA OneHas ==
    ASSUME NEW list, Peaceful(list), NEW host, NEW port,
           NEW i \in Having(list, host, port), NEW j \in Having(list, host, port)
    PROVE  i = j
<1>1. list \in Seq(Sites) /\ i \in DOMAIN list /\ j \in DOMAIN list
  BY RoutingAssumption DEF Peaceful, Having
<1>2. Serves(list[i], host, port) /\ Serves(list[j], host, port) /\ list[i].ip = list[j].ip
  BY DEF Having, Peaceful, Serves
<1>3. PICK c, d : /\ c = [route |-> Route(host, port, list[i].ip), site |-> i]
                  /\ d = [route |-> Route(host, port, list[j].ip), site |-> j]
  OBVIOUS
<1>4. Claimed(list[i], i, c) /\ Claimed(list[j], j, d)
  BY <1>2, <1>3 DEF Claimed, Serves
<1>5. c \in Claims(list) /\ d \in Claims(list)
  BY <1>1, <1>4, ClaimsHas
<1>6. c.route = d.route /\ c.site = i /\ d.site = j
  BY <1>2, <1>3
<1>7. ~Conflict(list)
  BY DEF Peaceful
<1> QED
  BY <1>5, <1>6, <1>7 DEF Conflict

\* The other host, and back, where a host begins with "www." at most once.
LEMMA OtherHost ==
    ASSUME NEW host \in HostNames, host[1] <= 1
    PROVE  /\ Other(host)[1] <= 1 /\ Other(Other(host)) = host
           /\ \A site : Flips(site, host) => ~Flips(site, Other(host))
<1>1. PICK k \in {0, 1}, n \in Names : host = <<k, n>> /\ host[1] = k /\ host[2] = n
  <2>1. PICK k \in 0..MaxWww, n \in Names : host = <<k, n>>
    BY DEF HostNames
  <2>2. host[1] = k /\ host[2] = n
    BY <2>1
  <2>3. k = 0 \/ k = 1
    BY <2>2, RoutingAssumption
  <2> QED
    BY <2>1, <2>2, <2>3
<1>2. PICK o : o = Other(host) /\ o[1] = 1 - k /\ o[2] = n
  BY <1>1, HostIs
<1>3. Other(o) = host
  BY <1>1, <1>2 DEF Other
<1>4. ASSUME NEW site, Flips(site, host) PROVE ~Flips(site, o)
  BY <1>1, <1>2, <1>4 DEF Flips
<1> QED
  BY <1>1, <1>2, <1>3, <1>4

\* A site that leads away from one of its hosts has the other one too.
LEMMA FlipsToItsOwn ==
    ASSUME NEW list, Peaceful(list), NEW host \in HostNames, NEW port,
           NEW i \in Having(list, host, port), Flips(list[i], host)
    PROVE  i \in Having(list, Other(host), port)
<1>1. PICK site \in Sites : site = list[i]
  BY RoutingAssumption, ElementOfSeq, LenProperties DEF Having, Peaceful
<1>2. Serves(site, host, port) /\ i \in DOMAIN list
  BY <1>1 DEF Having
<1>3. PICK d \in DOMAIN site.domains :
        LET domain == site.domains[d] IN
        host = domain \/ (domain # DefaultHost /\ Flips(site, domain) /\ host = Other(domain))
  BY <1>2 DEF Serves, HasHost
<1>4. PICK domain \in Domains : domain = site.domains[d] /\ domain[1] <= 1
  BY <1>1, <1>2, ElementOfSeq, LenProperties DEF Sites, Peaceful, Serves
<1>5. host # DefaultHost
  BY HostIs
<1>6. CASE host = domain
  BY <1>1, <1>2, <1>4, <1>5, <1>6 DEF Serves, HasHost, Having
<1>7. CASE domain # DefaultHost /\ Flips(site, domain) /\ host = Other(domain)
  BY <1>1, <1>4, <1>7, OtherHost DEF Domains
<1> QED
  BY <1>3, <1>4, <1>6, <1>7

\* A host that some site has begins with "www." at most once.
LEMMA NamedHost ==
    ASSUME NEW list, Peaceful(list), NEW host \in HostNames, NEW port,
           NEW i \in Having(list, host, port)
    PROVE  host[1] <= 1
<1>1. PICK site \in Sites : site = list[i] /\ i \in DOMAIN list
  BY RoutingAssumption, ElementOfSeq, LenProperties DEF Having, Peaceful
<1>2. Serves(site, host, port)
  BY <1>1 DEF Having
<1>3. PICK d \in DOMAIN site.domains :
        LET domain == site.domains[d] IN
        host = domain \/ (domain # DefaultHost /\ Flips(site, domain) /\ host = Other(domain))
  BY <1>2 DEF Serves, HasHost
<1>4. PICK domain \in Domains : domain = site.domains[d] /\ domain[1] <= 1
  BY <1>1, <1>2, ElementOfSeq, LenProperties DEF Sites, Peaceful, Serves
<1>5. CASE host = domain
  BY <1>4, <1>5
<1>6. CASE domain # DefaultHost /\ host = Other(domain)
  BY <1>4, <1>6, OtherHost DEF Domains
<1> QED
  BY <1>3, <1>4, <1>5, <1>6

\* The two ports of a site belong to it alike, and differ from those of other kinds.
LEMMA BothPorts ==
    ASSUME NEW list, list \in SiteLists, NEW host, NEW port, NEW i \in Having(list, host, port)
    PROVE  /\ i \in DOMAIN list /\ list[i] \in Sites
           /\ i \in Having(list, host, list[i].http) /\ i \in Having(list, host, list[i].https)
           /\ port = list[i].http \/ port = list[i].https
           /\ \A j \in DOMAIN list : list[i].http # list[j].https /\ list[j].http # list[i].https
<1>1. list \in Seq(Sites) /\ i \in DOMAIN list
  BY RoutingAssumption DEF Having
<1>2. list[i] \in Sites
  BY <1>1, ElementOfSeq, LenProperties
<1>3. Serves(list[i], host, port)
  BY DEF Having
<1>4. \A j \in DOMAIN list : list[i].http # list[j].https /\ list[j].http # list[i].https
  BY <1>1, RoutingAssumption
<1> QED
  BY <1>1, <1>2, <1>3, <1>4 DEF Having, Serves

\* Where a redirect leads.
LEMMA LocationIs ==
    ASSUME NEW r \in RoutedRequests, NEW site, NEW next, next = Location(site, r)
    PROVE  /\ next.host = IF Flips(site, r.host) THEN Other(r.host) ELSE r.host
           /\ next.local = FALSE /\ next.internal = FALSE
           /\ \/ /\ ToHttps(site, r) \/ site.serveAs = "https"
                 /\ next.port = site.https /\ next.tls = TRUE
              \/ /\ ~ToHttps(site, r) /\ site.serveAs # "https"
                 /\ next.port = site.http /\ next.tls = FALSE
<1>1. PICK host, port, tls, addr :
        /\ tls = (ToHttps(site, r) \/ site.serveAs = "https")
        /\ host = IF Flips(site, r.host) THEN Other(r.host) ELSE r.host
        /\ port = IF tls THEN site.https ELSE site.http
        /\ addr = r.origin
  OBVIOUS
<1>2. next = [r EXCEPT !.host = host, !.port = port, !.tls = tls, !.ip = addr,
                       !.local = FALSE, !.internal = FALSE]
  BY <1>1, Zenon DEF Location
<1>3. next.host = host /\ next.port = port /\ next.tls = tls /\ next.local = FALSE
      /\ next.internal = FALSE
  BY <1>2 DEF RoutedRequests
<1> QED
  BY <1>1, <1>3

\* A request HTTP/2 sends to the plain port is as calm as the one it stands for.
LEMMA LoopbackCalm ==
    ASSUME NEW list, Peaceful(list), NEW r \in RoutedRequests, NEW i, Picked(list, r, i),
           NEW n \in 0..3, Calm(list, r, n), r.tls, \E k \in DOMAIN list : list[k].https = r.port,
           NEW next, next = [r EXCEPT !.ip = Loopback, !.port = list[i].http,
                                      !.tls = FALSE, !.local = TRUE, !.internal = TRUE]
    PROVE  Calm(list, next, n)
<1>1. list \in SiteLists
  BY DEF Peaceful
<1>2. PICK h, http : h \in HostNames /\ h = r.host /\ http = list[i].http
  BY DEF RoutedRequests
<1>3. /\ next.host = h /\ next.port = http /\ next.tls = FALSE
      /\ next.local = TRUE /\ next.internal = TRUE
  BY <1>2 DEF RoutedRequests
<1>4. \A j : ~ToHttps(list[j], next)
  BY <1>3 DEF ToHttps, Suppressed
<1>5. r.port = list[i].https
  BY <1>1, BothPorts DEF Picked
<1>6. ASSUME Unnamed(list, next), NEW j \in Having(list, DefaultHost, http)
      PROVE  j = i /\ Unnamed(list, r) /\ i \in Having(list, DefaultHost, r.port)
  <2>1. i \notin Having(list, h, r.port)
    BY <1>1, <1>2, <1>3, <1>6, BothPorts DEF Unnamed
  <2>2. i \in Having(list, DefaultHost, r.port) /\ Unnamed(list, r)
    BY <1>2, <2>1 DEF Picked
  <2>3. i \in Having(list, DefaultHost, http)
    BY <1>1, <1>2, <2>2, BothPorts
  <2> QED
    BY <1>6, <2>2, <2>3, OneHas
<1>7. ASSUME n = 0, Unnamed(list, next), NEW j \in Having(list, DefaultHost, http)
      PROVE  Having(list, h, list[j].https) = {}
  BY <1>2, <1>5, <1>6, <1>7 DEF Unnamed
<1>8. ASSUME n \in 1..3 PROVE Kept(list, next)
  <2>1. ASSUME Unnamed(list, next), NEW j \in Having(list, DefaultHost, http)
        PROVE  ~Flips(list[j], h)
    BY <1>2, <1>6, <1>8, <2>1 DEF Calm, Kept
  <2> QED
    BY <1>3, <1>4, <2>1 DEF Kept
<1>9. ASSUME n \in 2..3 PROVE Steady(list, next)
  <2>1. Steady(list, r)
    BY <1>9 DEF Calm
  <2>2. CASE i \in Having(list, h, r.port)
    <3>1. ~Flips(list[i], h) /\ i \in Having(list, h, http)
      BY <1>1, <1>2, <2>1, <2>2, BothPorts DEF Steady, Firm
    <3>2. Firm(list, h, http)
      BY <3>1, OneHas DEF Firm
    <3> QED
      BY <1>3, <3>2 DEF Steady
  <2>3. CASE i \notin Having(list, h, r.port)
    <3>1. Firm(list, h, http)
      BY <1>2, <2>1, <2>3 DEF Steady, Picked
    <3> QED
      BY <1>3, <3>1 DEF Steady
  <2> QED
    BY <2>2, <2>3
<1> QED
  BY <1>3, <1>4, <1>7, <1>8, <1>9 DEF Calm

\* A redirect is calmer than the request it answers, and a request that is calm
\* enough gets none.
LEMMA RedirectCalm ==
    ASSUME NEW list, Peaceful(list), NEW r \in RoutedRequests, NEW i, Picked(list, r, i),
           r.host[1] <= 1, NEW n \in 0..3, Calm(list, r, n),
           ToHttps(list[i], r) \/ Flips(list[i], r.host),
           NEW next, next = Location(list[i], r)
    PROVE  n < 3 /\ Calm(list, next, n + 1)
<1>1. list \in SiteLists
  BY DEF Peaceful
<1>2. PICK h, http, https, p :
        /\ h \in HostNames /\ h = r.host /\ p = r.port
        /\ http = list[i].http /\ https = list[i].https
  BY DEF RoutedRequests
<1>3. PICK k, q : k = next.host /\ q = next.port
  OBVIOUS
<1>4. /\ k = IF Flips(list[i], h) THEN Other(h) ELSE h
      /\ next.local = FALSE /\ next.internal = FALSE
      /\ \/ (ToHttps(list[i], r) \/ list[i].serveAs = "https") /\ q = https
         \/ ~ToHttps(list[i], r) /\ q = http
  BY <1>2, <1>3, LocationIs
<1>5. ~Flips(list[i], k)
  BY <1>2, <1>4, OtherHost
<1>6. /\ i \in DOMAIN list /\ list[i] \in Sites /\ p \in {http, https} /\ http # https
      /\ \A j \in DOMAIN list : http # list[j].https /\ list[j].http # https
  BY <1>1, <1>2, BothPorts DEF Picked
<1>7. ~Suppressed(next)
  BY <1>4 DEF Suppressed
<1>8. ASSUME q = https, NEW j \in DOMAIN list PROVE ~ToHttps(list[j], next)
  BY <1>3, <1>6, <1>8 DEF ToHttps
<1>9. CASE i \in Having(list, h, p)
  <2>1. i \in Having(list, k, q)
    <3>1. i \in Having(list, k, p)
      BY <1>1, <1>2, <1>4, <1>9, FlipsToItsOwn
    <3> QED
      BY <1>1, <1>2, <1>4, <3>1, BothPorts
  <2>2. ~Unnamed(list, next)
    BY <1>3, <2>1 DEF Unnamed
  <2>3. Firm(list, k, q)
    BY <1>5, <2>1, OneHas DEF Firm
  <2>4. Kept(list, next) /\ Steady(list, next)
    BY <1>3, <2>2, <2>3 DEF Kept, Steady
  <2>5. ASSUME n \in 2..3 PROVE ToHttps(list[i], r) /\ q = https
    <3>1. Firm(list, h, p)
      BY <1>2, <2>5 DEF Calm, Steady
    <3> QED
      BY <1>2, <1>4, <1>9, <3>1 DEF Firm
  <2>6. n # 3
    BY <1>6, <2>5 DEF Calm
  <2>7. ASSUME n = 2, NEW j, Picked(list, next, j) PROVE ~ToHttps(list[j], next)
    BY <1>8, <2>5, <2>7 DEF Picked, Having
  <2> QED
    BY <1>4, <2>4, <2>6, <2>7 DEF Calm
<1>10. CASE i \notin Having(list, h, p)
  <2>1. Unnamed(list, r) /\ i \in Having(list, DefaultHost, p) /\ Having(list, h, p) = {}
    BY <1>2, <1>10 DEF Picked, Unnamed
  <2>2. i \in Having(list, DefaultHost, q)
    BY <1>1, <1>2, <1>4, <2>1, BothPorts
  <2>3. \A j \in Having(list, DefaultHost, q) : j = i
    BY <2>2, OneHas
  <2>4. CASE n = 0
    <3>1. ASSUME ToHttps(list[i], next) PROVE Firm(list, k, https)
      <4>1. list[i].toHttps /\ q = http /\ ~ToHttps(list[i], r)
        BY <1>2, <1>3, <1>4, <1>6, <3>1 DEF ToHttps
      <4>2. Flips(list[i], h) /\ k = Other(h)
        BY <1>2, <1>4, <4>1
      <4>3. Having(list, h, https) = {}
        <5>1. CASE p = https
          BY <2>1, <5>1
        <5>2. CASE p # https
          <6>1. Suppressed(r)
            BY <1>2, <1>6, <4>1, <5>2 DEF ToHttps
          <6> QED
            BY <1>2, <2>1, <2>4, <6>1 DEF Calm, Suppressed
        <5> QED
          BY <5>1, <5>2
      <4>4. ASSUME NEW j \in Having(list, k, https), Flips(list[j], k) PROVE FALSE
        <5>1. k \in HostNames /\ Other(k) = h
          BY <1>2, <4>2, HostIs, OtherHost
        <5>2. j \in Having(list, h, https)
          BY <1>1, <4>4, <5>1, FlipsToItsOwn
        <5> QED
          BY <4>3, <5>2
      <4> QED
        BY <4>4 DEF Firm
    <3>2. Kept(list, next)
      BY <1>2, <1>3, <1>5, <2>3, <3>1 DEF Kept
    <3> QED
      BY <1>4, <2>4, <3>2 DEF Calm
  <2>5. CASE n # 0
    <3>1. Kept(list, r)
      BY <2>5 DEF Calm
    <3>2. ~Flips(list[i], h) /\ ToHttps(list[i], r) /\ Firm(list, h, https)
      BY <1>2, <2>1, <3>1 DEF Kept
    <3>3. k = h /\ q = https /\ p = http
      BY <1>2, <1>4, <3>2 DEF ToHttps
    <3>4. Kept(list, next)
      BY <1>3, <1>5, <1>6, <1>8, <2>3, <3>3 DEF Kept
    <3>5. Firm(list, h, http)
      BY <2>1, <3>3 DEF Firm
    <3>6. Steady(list, next)
      BY <1>2, <1>3, <2>3, <3>2, <3>3, <3>5 DEF Steady
    <3>7. n # 3
      BY <1>6, <3>2 DEF Calm
    <3>8. ASSUME NEW j, Picked(list, next, j) PROVE ~ToHttps(list[j], next)
      BY <1>8, <3>3, <3>8 DEF Picked, Having
    <3> QED
      BY <1>4, <2>5, <3>4, <3>6, <3>7, <3>8 DEF Calm
  <2> QED
    BY <2>4, <2>5
<1> QED
  BY <1>9, <1>10

\* The same of a request HTTP/2 sends to the plain port, whatever its host.
LEMMA LoopbackNearer ==
    ASSUME NEW list, Peaceful(list), NEW r \in RoutedRequests, NEW i, Picked(list, r, i),
           NEW n \in Nat, Nearer(list, r, n), r.tls,
           \E k \in DOMAIN list : list[k].https = r.port,
           NEW next, next = [r EXCEPT !.ip = Loopback, !.port = list[i].http,
                                      !.tls = FALSE, !.local = TRUE, !.internal = TRUE]
    PROVE  Nearer(list, next, n)
<1>1. list \in SiteLists
  BY DEF Peaceful
<1>2. PICK h, p, http : h \in HostNames /\ h = r.host /\ p = r.port /\ http = list[i].http
  BY DEF RoutedRequests
<1>3. /\ next.host = h /\ next.port = http /\ next.local = TRUE /\ next.internal = TRUE
  BY <1>2 DEF RoutedRequests
<1>4. CASE h[1] <= 1
  <2>1. PICK m \in 0..3 : Calm(list, r, m) /\ n <= m + MaxWww - 1
    BY <1>2, <1>4 DEF Nearer
  <2>2. Calm(list, next, m)
    BY <2>1, LoopbackCalm
  <2> QED
    BY <1>3, <1>4, <2>1, <2>2 DEF Nearer
<1>5. CASE ~(h[1] <= 1)
  <2>1. i \in Having(list, DefaultHost, p)
    BY <1>2, <1>5, NamedHost DEF Picked
  <2>2. i \in Having(list, DefaultHost, http)
    BY <1>1, <1>2, <2>1, BothPorts
  <2>3. \A j \in Having(list, DefaultHost, http) : j = i
    BY <2>2, OneHas
  <2>4. ~ToHttps(list[i], next)
    BY <1>3 DEF ToHttps, Suppressed
  <2>5. Settled(list, r) => Settled(list, next)
    BY <1>2, <1>3, <2>1, <2>3, <2>4 DEF Settled
  <2>6. \/ n + h[1] <= MaxWww
        \/ n + h[1] <= MaxWww + 1 /\ Settled(list, r)
    BY <1>2, <1>5 DEF Nearer
  <2> QED
    BY <1>3, <1>5, <2>5, <2>6 DEF Nearer
<1> QED
  BY <1>4, <1>5

\* Every redirect counts.
LEMMA RedirectNearer ==
    ASSUME NEW list, Peaceful(list), NEW r \in RoutedRequests, NEW i, Picked(list, r, i),
           NEW n \in Nat, Nearer(list, r, n), ToHttps(list[i], r) \/ Flips(list[i], r.host),
           NEW next, next = Location(list[i], r)
    PROVE  Nearer(list, next, n + 1)
<1>1. list \in SiteLists /\ MaxWww \in Nat
  BY RoutingAssumption DEF Peaceful
<1>2. PICK h, p, http, https :
        /\ h \in HostNames /\ h = r.host /\ p = r.port
        /\ http = list[i].http /\ https = list[i].https
  BY DEF RoutedRequests
<1>3. /\ h[1] \in Nat /\ Other(h)[1] = IF h[1] = 0 THEN 1 ELSE h[1] - 1
  BY <1>2, HostIs
<1>4. /\ next.host = IF Flips(list[i], h) THEN Other(h) ELSE h
      /\ next.local = FALSE
      /\ ToHttps(list[i], r) => next.port = https
  BY <1>2, LocationIs
<1>5. CASE h[1] <= 1
  <2>1. PICK m \in 0..3 : Calm(list, r, m) /\ n <= m + MaxWww - 1
    BY <1>2, <1>5 DEF Nearer
  <2>2. m + 1 \in 0..3 /\ Calm(list, next, m + 1)
    BY <1>2, <1>5, <2>1, RedirectCalm
  <2>3. next.host[1] <= 1
    BY <1>2, <1>4, <1>5, OtherHost
  <2>4. n + 1 <= (m + 1) + MaxWww - 1
    BY <1>1, <2>1
  <2> QED
    BY <2>2, <2>3, <2>4 DEF Nearer
<1>6. CASE ~(h[1] <= 1)
  <2>1. i \in Having(list, DefaultHost, p)
    BY <1>2, <1>6, NamedHost DEF Picked
  <2>2. ~Settled(list, r)
    BY <1>2, <2>1 DEF Settled
  <2>3. n + h[1] <= MaxWww
    BY <1>2, <1>6, <2>2 DEF Nearer
  <2>4. CASE Flips(list[i], h)
    <3>1. PICK k \in Nat : k = next.host[1] /\ k = h[1] - 1
      BY <1>3, <1>4, <1>6, <2>4
    <3>2. CASE k <= 1
      <4>1. Calm(list, next, 0)
        BY <1>4 DEF Calm
      <4>2. n + 1 <= 0 + MaxWww - 1
        BY <1>1, <1>3, <1>6, <2>3, <3>1
      <4> QED
        BY <3>1, <3>2, <4>1, <4>2 DEF Nearer
    <3>3. CASE ~(k <= 1)
      <4>1. n + 1 + k <= MaxWww
        BY <1>1, <1>3, <2>3, <3>1
      <4> QED
        BY <1>4, <3>1, <3>3, <4>1 DEF Nearer
    <3> QED
      BY <3>2, <3>3
  <2>5. CASE ~Flips(list[i], h)
    <3>1. next.host = h /\ next.port = https
      BY <1>2, <1>4, <2>5
    <3>2. i \in Having(list, DefaultHost, https) /\ http # https
      BY <1>1, <1>2, <2>1, BothPorts
    <3>3. \A j \in Having(list, DefaultHost, https) : j = i
      BY <3>2, OneHas
    <3>4. ~ToHttps(list[i], next)
      BY <1>2, <3>1, <3>2 DEF ToHttps
    <3>5. Settled(list, next)
      BY <2>5, <3>1, <3>3, <3>4 DEF Settled
    <3>6. n + 1 + h[1] <= MaxWww + 1
      BY <1>1, <1>3, <2>3
    <3> QED
      BY <1>4, <1>6, <3>1, <3>5, <3>6 DEF Nearer
  <2> QED
    BY <2>4, <2>5
<1> QED
  BY <1>5, <1>6

\* How many redirects there may be.
LEMMA NearerBound ==
    ASSUME NEW list, NEW r \in RoutedRequests, NEW n \in Nat, Nearer(list, r, n)
    PROVE  n <= 2 + MaxWww
<1>1. MaxWww \in Nat /\ r.host[1] \in Nat
  BY RoutingAssumption, HostIs DEF RoutedRequests
<1>2. CASE r.host[1] <= 1
  <2>1. PICK m \in 0..3 : n <= m + MaxWww - 1
    BY <1>2 DEF Nearer
  <2> QED
    BY <1>1, <2>1
<1>3. CASE ~(r.host[1] <= 1)
  <2>1. n + r.host[1] <= MaxWww + 1
    BY <1>1, <1>3 DEF Nearer
  <2> QED
    BY <1>1, <2>1
<1> QED
  BY <1>2, <1>3

\* With every redirect the request that follows is nearer to its answer.
RedirectInv ==
    /\ RouteInv
    /\ outcome \in {"none", "rejected"} => hops = 0
    /\ outcome \notin {"none", "rejected"} /\ OneAddress /\ OneWww =>
         hops \in Nat /\ Nearer(sites, asked, hops)

\* The site that answers is picked as Picked says.
LEMMA FoundIsPicked ==
    ASSUME RedirectInv, outcome \notin {"none", "rejected"}, OneAddress, OneWww,
           NEW i, i = FindSite(asked.host, asked.port, asked.ip), i # 0
    PROVE  Peaceful(sites) /\ Picked(sites, asked, i)
<1>1. RouteInv /\ TableSound /\ ~Conflict(sites)
  BY DEF RedirectInv, RouteInv
<1>2. Peaceful(sites)
  BY <1>1 DEF Peaceful, TableSound, OneAddress, OneWww
<1>3. /\ i \in DOMAIN sites /\ sites[i].ip \in {asked.ip, AnyIp}
      /\ \/ Serves(sites[i], asked.host, asked.port)
         \/ /\ Serves(sites[i], DefaultHost, asked.port)
            /\ \A j \in DOMAIN sites :
                 Serves(sites[j], asked.host, asked.port) => sites[j].ip \notin {asked.ip, AnyIp}
  BY <1>1, SiteFound
<1>4. CASE Serves(sites[i], asked.host, asked.port)
  BY <1>2, <1>3, <1>4 DEF Picked, Having
<1>5. CASE /\ Serves(sites[i], DefaultHost, asked.port)
           /\ \A j \in DOMAIN sites :
                Serves(sites[j], asked.host, asked.port) => sites[j].ip \notin {asked.ip, AnyIp}
  <2>1. \A j \in DOMAIN sites : ~Serves(sites[j], asked.host, asked.port)
    BY <1>3, <1>5 DEF OneAddress, Serves
  <2> QED
    BY <1>2, <1>3, <1>5, <2>1 DEF Picked, Having, Unnamed
<1> QED
  BY <1>3, <1>4, <1>5

\* Every step keeps the invariant.
LEMMA RedirectStepHolds ==
    ASSUME RedirectInv, [Next]_vars
    PROVE  RedirectInv'
<1>1. RouteInv /\ RouteInv'
  BY RouteStepHolds DEF RedirectInv
<1>2. CASE RouteRequest
  <2>1. /\ outcome = "none" /\ hops' = 0
        /\ \/ outcome' = "rejected"
           \/ outcome' = "asked" /\ asked' \in RoutedRequests /\ asked'.local = FALSE
    BY <1>1, <1>2, LoadOutcome DEF RedirectInv
  <2>2. PICK r, list : r = asked' /\ list = sites'
    OBVIOUS
  <2>3. ASSUME outcome' = "asked" PROVE Nearer(list, r, 0)
    <3>1. r \in RoutedRequests /\ r.local = FALSE
      BY <2>1, <2>2, <2>3
    <3>2. MaxWww \in Nat \ {0} /\ r.host[1] \in 0..MaxWww
      BY <3>1, RoutingAssumption, HostIs DEF RoutedRequests
    <3>3. Calm(list, r, 0)
      BY <3>1 DEF Calm
    <3>4. 0 <= 0 + MaxWww - 1 /\ 0 + r.host[1] <= MaxWww
      BY <3>2
    <3> QED
      BY <3>1, <3>3, <3>4 DEF Nearer
  <2> QED
    BY <1>1, <2>1, <2>2, <2>3 DEF RedirectInv
<1>3. CASE Refuse
  <2>1. /\ sites' = sites /\ asked' = asked /\ hops' = hops
        /\ outcome = "asked" /\ outcome' = "refused"
    BY <1>3 DEF Refuse
  <2>2. PICK r, list, n : r = asked /\ list = sites /\ n = hops
    OBVIOUS
  <2>3. (OneAddress /\ OneWww)' <=> (OneAddress /\ OneWww)
    BY <2>1 DEF OneAddress, OneWww
  <2>4. OneAddress /\ OneWww => n \in Nat /\ Nearer(list, r, n)
    BY <2>1, <2>2 DEF RedirectInv
  <2> QED
    BY <1>1, <2>1, <2>2, <2>3, <2>4 DEF RedirectInv
<1>4. CASE AskLoopback
  <2>1. /\ sites' = sites /\ hops' = hops /\ outcome = "asked" /\ asked.tls
        /\ Tls(asked.ip, asked.port)
    BY <1>4 DEF AskLoopback
  <2>2. PICK i : i = FindSite(asked.host, asked.port, asked.ip)
    OBVIOUS
  <2>3. PICK r, list, n, next : r = asked /\ list = sites /\ n = hops /\ next = asked'
    OBVIOUS
  <2>4. IF i = 0 THEN outcome' = "bad gateway" /\ next = r
        ELSE /\ next = [r EXCEPT !.ip = Loopback, !.port = list[i].http,
                                 !.tls = FALSE, !.local = TRUE, !.internal = TRUE]
             /\ outcome' = "asked"
    BY <1>4, <2>1, <2>2, <2>3 DEF AskLoopback
  <2>5. (OneAddress /\ OneWww)' <=> (OneAddress /\ OneWww)
    BY <2>1 DEF OneAddress, OneWww
  <2>6. ASSUME OneAddress, OneWww PROVE n \in Nat /\ Nearer(list, next, n)
    <3>1. n \in Nat /\ Nearer(list, r, n) /\ r \in RoutedRequests
      BY <1>1, <2>1, <2>3, <2>6 DEF RedirectInv, RouteInv
    <3>2. CASE i = 0
      BY <2>4, <3>1, <3>2
    <3>3. CASE i # 0
      <4>1. Peaceful(list) /\ Picked(list, r, i)
        BY <2>1, <2>2, <2>3, <2>6, <3>3, FoundIsPicked
      <4>2. r.tls /\ \E k \in DOMAIN list : list[k].https = r.port
        BY <2>1, <2>3 DEF Tls
      <4>3. Nearer(list, next, n)
        BY <2>4, <3>1, <3>3, <4>1, <4>2, LoopbackNearer
      <4> QED
        BY <3>1, <4>3
    <3> QED
      BY <3>2, <3>3
  <2> QED
    BY <1>1, <2>1, <2>3, <2>4, <2>5, <2>6 DEF RedirectInv
<1>5. CASE ServeHere
  <2>1. sites' = sites /\ outcome = "asked"
    BY <1>5 DEF ServeHere
  <2>2. PICK i : i = FindSite(asked.host, asked.port, asked.ip)
    OBVIOUS
  <2>3. PICK r, list, n, m, next :
          r = asked /\ list = sites /\ n = hops /\ m = hops' /\ next = asked'
    OBVIOUS
  <2>4. IF i = 0 THEN outcome' = "not found" /\ next = r /\ m = n
        ELSE IF ToHttps(list[i], r) \/ Flips(list[i], r.host)
        THEN next = Location(list[i], r) /\ m = More(n) /\ outcome' = "asked"
        ELSE outcome' = "served" /\ next = r /\ m = n
    BY <1>5, <2>1, <2>2, <2>3, Zenon DEF ServeHere
  <2>5. (OneAddress /\ OneWww)' <=> (OneAddress /\ OneWww)
    BY <2>1 DEF OneAddress, OneWww
  <2>6. ASSUME OneAddress, OneWww PROVE m \in Nat /\ Nearer(list, next, m)
    <3>1. n \in Nat /\ Nearer(list, r, n) /\ r \in RoutedRequests
      BY <1>1, <2>1, <2>3, <2>6 DEF RedirectInv, RouteInv
    <3>2. CASE next = r /\ m = n
      BY <3>1, <3>2
    <3>3. CASE /\ i # 0 /\ (ToHttps(list[i], r) \/ Flips(list[i], r.host))
               /\ next = Location(list[i], r) /\ m = More(n)
      <4>1. Peaceful(list) /\ Picked(list, r, i)
        BY <2>1, <2>2, <2>3, <2>6, <3>3, FoundIsPicked
      <4>2. Nearer(list, next, n + 1)
        BY <3>1, <3>3, <4>1, RedirectNearer
      <4>3. m = n + 1
        BY <3>1, <3>3, NearerBound, RoutingAssumption DEF More, ManyHops
      <4> QED
        BY <3>1, <4>2, <4>3
    <3> QED
      BY <2>4, <3>2, <3>3
  <2>7. outcome' \in {"not found", "asked", "served"}
    BY <2>4
  <2> QED
    BY <1>1, <2>1, <2>3, <2>5, <2>6, <2>7 DEF RedirectInv
<1>6. CASE UNCHANGED routeVars
  <2>1. sites' = sites /\ asked' = asked /\ hops' = hops /\ outcome' = outcome
    BY <1>6 DEF routeVars
  <2>2. (OneAddress /\ OneWww)' <=> (OneAddress /\ OneWww)
    BY <2>1 DEF OneAddress, OneWww
  <2>3. PICK r, list, n : r = asked /\ list = sites /\ n = hops
    OBVIOUS
  <2> QED
    BY <1>1, <2>1, <2>2, <2>3 DEF RedirectInv
<1> QED
  BY <1>2, <1>3, <1>4, <1>5, <1>6, RouteSteppings

\* Whatever sites share an address and name hosts with at most one "www.", and whatever
\* their www and https rules, a browser that asks for a host with any number of them is
\* redirected at most two times more than that number may be, over HTTP/1 and over
\* HTTP/2 (rpsiod_route_build_redirect_location, the loopback requests of http2.c).
THEOREM RedirectsStop == Spec => []RedirectsEnd
<1>1. Init => RedirectInv
  <2> SUFFICES ASSUME Init PROVE RedirectInv
    OBVIOUS
  <2>1. ParseInv
    BY ParseInitHolds DEF Init, ParseInit
  <2> QED
    BY <2>1 DEF Init, RouteInit, RouteInv, RedirectInv
<1>2. RedirectInv /\ [Next]_vars => RedirectInv'
  BY RedirectStepHolds
<1>3. RedirectInv => RedirectsEnd
  <2> SUFFICES ASSUME RedirectInv, OneAddress, OneWww PROVE hops <= 2 + MaxWww
    BY DEF RedirectsEnd
  <2>1. CASE outcome \in {"none", "rejected"}
    BY <2>1, RoutingAssumption DEF RedirectInv
  <2>2. CASE outcome \notin {"none", "rejected"}
    <3>1. hops \in Nat /\ Nearer(sites, asked, hops) /\ asked \in RoutedRequests
      BY <2>2 DEF RedirectInv, RouteInv
    <3> QED
      BY <3>1, NearerBound
  <2> QED
    BY <2>1, <2>2
<1> QED
  BY <1>1, <1>2, <1>3, PTL DEF Spec

(***************************************************************************)
(* The page load (rpsiod bench page).                                      *)
(***************************************************************************)

Places == {"none", "claim", "connect", "send", "read", "got", "fail", "close", "leave",
           "gone", "idle"}

AssetRecord == [bytes : Nat, failed : BOOLEAN]

CountRecord == [accepted : Nat, closed : Nat, failed : Nat]

\* Types of what main and the threads share.
BenchTypeOK ==
    /\ stage \in {"html", "create", "join", "report", "failed"}
    /\ created \in SUBSET Threads
    /\ at \in [Actors -> Places]
    /\ mine \in [Actors -> Nat]
    /\ linked \in [Actors -> BOOLEAN]
    /\ got \in [Actors -> Nat] /\ headerUsed \in [Actors -> Nat]
    /\ nextAsset \in Nat \ {0}
    /\ asset \in [Assets -> AssetRecord]
    /\ count \in CountRecord
    /\ fetched \in [Assets -> Nat]

\* Main fetches the page before it creates threads and joins them before it reports;
\* a thread ends when the index has passed the last asset.
StageSound ==
    /\ mine[MainThread] = 0
    /\ at[MainThread] \notin {"claim", "leave", "gone"}
    /\ stage = "html" => at[MainThread] # "none"
    /\ stage = "failed" => at[MainThread] \in {"none", "idle"}
    /\ stage \in {"create", "join", "report"} => at[MainThread] = "idle"
    /\ stage \in {"html", "failed"} => created = {}
    /\ at[MainThread] = "idle" => fetched[0] = 1
    /\ \A t \in Threads : (t \in created <=> at[t] # "none") /\ at[t] # "idle"
    /\ \A t \in created : at[t] \in {"leave", "gone"} => nextAsset > AssetCount
    /\ stage = "report" => (linked[MainThread] = FALSE /\ \A t \in created : at[t] = "gone")

\* An actor that has an asset in hand.
Holding(t) == at[t] \in {"connect", "send", "read", "got", "fail", "close"}

\* Before the end of the header all that was read is in its buffer, which has room;
\* behind it the bytes are those of the body.
ReadSound(t) ==
    IF SawHeader(t)
    THEN asset[mine[t]].bytes = Arrived(t) /\ got[t] >= HeaderLen[mine[t]]
    ELSE asset[mine[t]].bytes = 0 /\ headerUsed[t] = got[t] /\ headerUsed[t] < HeaderBuf

HolderSound(t) ==
    Holding(t) =>
      /\ mine[t] \in Assets /\ mine[t] < nextAsset
      /\ t # MainThread => mine[t] # 0
      /\ fetched[mine[t]] = IF at[t] \in {"connect", "send"} THEN 0 ELSE 1
      /\ asset[mine[t]].failed = FALSE
      /\ at[t] \in {"read", "got"} => ReadSound(t)

\* No two actors hold the same asset.
HoldersDistinct ==
    \A t, u \in Actors : Holding(t) /\ Holding(u) /\ mine[t] = mine[u] => t = u

\* Assets from the index on are untouched; one below it is fetched or in a hand.
AssetsSound ==
    \A a \in Assets :
        /\ fetched[a] = 0 => (asset[a].bytes = 0 /\ asset[a].failed = FALSE)
        /\ a >= nextAsset => fetched[a] = 0
        /\ (a # 0 /\ a < nextAsset) =>
             \/ fetched[a] = 1
             \/ \E t \in Threads : mine[t] = a /\ at[t] \in {"connect", "send"}

LinkedActors == {t \in Actors : linked[t] = TRUE}

FailedAssets == {a \in Assets : asset[a].failed = TRUE}

CountsSound ==
    /\ \A t \in Actors : at[t] \in {"none", "connect", "gone"} => linked[t] = FALSE
    /\ count.accepted = count.closed + Cardinality(LinkedActors)
    /\ count.failed = Cardinality(FailedAssets)

BenchInv ==
    /\ BenchTypeOK
    /\ StageSound
    /\ \A t \in Actors : HolderSound(t)
    /\ HoldersDistinct
    /\ AssetsSound
    /\ CountsSound

\* What the proofs need of the constants.
LEMMA BenchFacts ==
    /\ MainThread \in Actors /\ MainThread \notin Threads
    /\ \A t \in Threads : t \in Actors /\ t # MainThread
    /\ \A t \in Actors : t # MainThread => t \in Threads
    /\ AssetCount \in Nat \ {0} /\ HeaderBuf \in Nat \ {0}
    /\ 0 \in Assets /\ \A a \in Assets : a \in Nat /\ a < AssetCount
    /\ \A n \in Nat : n < AssetCount => n \in Assets
    /\ \A a \in Assets : HeaderLen[a] \in Nat \ {0} /\ BodyLen[a] \in Nat
    /\ IsFiniteSet(Actors) /\ IsFiniteSet(Assets)
<1>1. AssetCount \in Nat \ {0} /\ HeaderBuf \in Nat \ {0}
  BY PageBenchAssumption
<1>2. IsFiniteSet(Assets)
  BY <1>1, FS_Interval DEF Assets
<1>3. IsFiniteSet(Actors)
  BY PageBenchAssumption, FS_AddElement DEF Actors
<1> QED
  BY <1>1, <1>2, <1>3, PageBenchAssumption DEF Actors, MainThread, Assets

\* The fields of an asset's result.
LEMMA AssetParts ==
    ASSUME NEW r \in AssetRecord
    PROVE  r.bytes \in Nat /\ r.failed \in BOOLEAN
  BY DEF AssetRecord

\* The fields of the shared counters.
LEMMA CountParts ==
    ASSUME NEW c \in CountRecord
    PROVE  c.accepted \in Nat /\ c.closed \in Nat /\ c.failed \in Nat
  BY DEF CountRecord

\* The number of open connections when one is opened or closed.
LEMMA LinkedChanged ==
    ASSUME BenchTypeOK, NEW t \in Actors, NEW l \in BOOLEAN,
           linked' = [linked EXCEPT ![t] = l]
    PROVE  /\ Cardinality(LinkedActors) \in Nat
           /\ Cardinality(LinkedActors') = Cardinality(LinkedActors)
                + (IF l = TRUE /\ linked[t] = FALSE THEN 1 ELSE
                   IF l = FALSE /\ linked[t] = TRUE THEN -1 ELSE 0)
<1>0. linked \in [Actors -> BOOLEAN] /\ linked[t] \in BOOLEAN
  BY DEF BenchTypeOK
<1>1. IsFiniteSet(LinkedActors) /\ Cardinality(LinkedActors) \in Nat
  BY BenchFacts, FS_Subset, FS_CardinalityType DEF LinkedActors
<1>2. t \in LinkedActors <=> linked[t] = TRUE
  BY DEF LinkedActors
<1>3. LinkedActors' = IF l = TRUE THEN LinkedActors \cup {t} ELSE LinkedActors \ {t}
  BY <1>0 DEF LinkedActors
<1>4. /\ Cardinality(LinkedActors \cup {t}) = IF linked[t] = TRUE THEN Cardinality(LinkedActors)
                                              ELSE Cardinality(LinkedActors) + 1
      /\ Cardinality(LinkedActors \ {t}) = IF linked[t] = TRUE THEN Cardinality(LinkedActors) - 1
                                           ELSE Cardinality(LinkedActors)
  BY <1>1, <1>2, FS_AddElement, FS_RemoveElement
<1> QED
  BY <1>0, <1>1, <1>3, <1>4

\* At the start the main thread holds the page, and nobody anything else.
LEMMA BenchInitHolds == BenchInit => BenchInv
<1> SUFFICES ASSUME BenchInit PROVE BenchInv
  OBVIOUS
<1>0. MainThread \in Actors /\ MainThread \notin Threads
  BY BenchFacts
<1>1. [bytes |-> 0, failed |-> FALSE] \in AssetRecord
  BY DEF AssetRecord
<1>2. count \in CountRecord /\ count.accepted = 0 /\ count.closed = 0 /\ count.failed = 0
  BY DEF BenchInit, CountRecord
<1>3. at \in [Actors -> Places]
  BY DEF BenchInit, Places
<1>4. BenchTypeOK
  BY <1>1, <1>2, <1>3 DEF BenchInit, BenchTypeOK
<1>5. \A a \in Assets : fetched[a] = 0 /\ asset[a].bytes = 0 /\ asset[a].failed = FALSE
  BY DEF BenchInit
<1>6. /\ at[MainThread] = "connect" /\ mine[MainThread] = 0 /\ nextAsset = 1
      /\ \A t \in Threads : at[t] = "none"
      /\ \A t \in Actors : t # MainThread => at[t] = "none"
      /\ \A t \in Actors : linked[t] = FALSE
  BY <1>0, BenchFacts DEF BenchInit
<1>7. StageSound
  BY <1>6 DEF BenchInit, StageSound
<1>8. \A t \in Actors : HolderSound(t)
  BY <1>5, <1>6, BenchFacts DEF HolderSound, Holding
<1>9. HoldersDistinct
  BY <1>6, BenchFacts DEF HoldersDistinct, Holding
<1>10. AssetsSound
  BY <1>5, <1>6, BenchFacts DEF AssetsSound
<1>11. CountsSound
  <2>1. LinkedActors = {} /\ FailedAssets = {}
    BY <1>5, <1>6 DEF LinkedActors, FailedAssets
  <2>2. Cardinality(LinkedActors) = 0 /\ Cardinality(FailedAssets) = 0
    BY <2>1, FS_EmptySet
  <2> QED
    BY <1>2, <1>6, <2>2 DEF CountsSound
<1> QED
  BY <1>4, <1>7, <1>8, <1>9, <1>10, <1>11 DEF BenchInv

\* What a step of an actor with an asset in hand may do: it goes there, its connection
\* is open afterwards or not, r is what the report says of its asset and n how often
\* that was taken up.
HolderStep(t, there, l, r, n) ==
    /\ at' = [at EXCEPT ![t] = there]
    /\ linked' = [linked EXCEPT ![t] = l]
    /\ asset' = [asset EXCEPT ![mine[t]] = r]
    /\ fetched' = [fetched EXCEPT ![mine[t]] = n]
    /\ UNCHANGED <<created, mine, nextAsset>>
    /\ got' \in [Actors -> Nat] /\ headerUsed' \in [Actors -> Nat]
    /\ \A u \in Actors : u # t => got'[u] = got[u] /\ headerUsed'[u] = headerUsed[u]
    /\ stage' = IF there = "none" THEN "failed" ELSE stage
    /\ count' \in CountRecord
    /\ count'.accepted = count.accepted + (IF l = TRUE /\ linked[t] = FALSE THEN 1 ELSE 0)
    /\ count'.closed = count.closed + (IF l = FALSE /\ linked[t] = TRUE THEN 1 ELSE 0)
    /\ count'.failed = count.failed + (IF r.failed = TRUE THEN 1 ELSE 0)

\* Where an actor that gives up or keeps its asset may go, and with what.
MayMove(t, there, l, r, n) ==
    /\ there \in Places /\ l \in BOOLEAN /\ r \in AssetRecord /\ n \in Nat
    /\ t = MainThread => there \notin {"claim", "leave", "gone"}
    /\ t # MainThread => there \notin {"none", "idle", "leave", "gone"}
    /\ n = IF there \in {"connect", "send"} THEN 0 ELSE 1
    /\ n = 0 => (r.bytes = 0 /\ r.failed = FALSE)
    /\ there \in {"connect", "send", "read", "got", "fail", "close"} => r.failed = FALSE
    /\ there \in {"none", "connect", "gone"} => l = FALSE

\* The argument most actions share: a thread that moves on with the asset in its hand,
\* its connection, the asset's record and the number of fetches disturbs nobody else.
LEMMA HolderMoves ==
    ASSUME BenchInv, NEW t \in Actors, Holding(t),
           NEW there, NEW l, NEW r, NEW n,
           HolderStep(t, there, l, r, n), MayMove(t, there, l, r, n),
           there \in {"read", "got"} => ReadSound(t)'
    PROVE  BenchInv'
<1>a. /\ there \in Places /\ l \in BOOLEAN /\ r \in AssetRecord /\ n \in Nat
      /\ t = MainThread => there \notin {"claim", "leave", "gone"}
      /\ t # MainThread => there \notin {"none", "idle", "leave", "gone"}
      /\ n = IF there \in {"connect", "send"} THEN 0 ELSE 1
      /\ n = 0 => (r.bytes = 0 /\ r.failed = FALSE)
      /\ there \in {"connect", "send", "read", "got", "fail", "close"} => r.failed = FALSE
      /\ there \in {"none", "connect", "gone"} => l = FALSE
  BY DEF MayMove
<1>0. /\ BenchTypeOK /\ StageSound /\ (\A u \in Actors : HolderSound(u))
      /\ HoldersDistinct /\ AssetsSound /\ CountsSound
  BY <1>a DEF BenchInv
<1>1. /\ at \in [Actors -> Places] /\ mine \in [Actors -> Nat] /\ linked \in [Actors -> BOOLEAN]
      /\ asset \in [Assets -> AssetRecord] /\ fetched \in [Assets -> Nat] /\ count \in CountRecord
      /\ nextAsset \in Nat \ {0} /\ created \in SUBSET Threads
  BY <1>a, <1>0 DEF BenchTypeOK
<1>2. /\ mine[t] \in Assets /\ mine[t] < nextAsset
      /\ t # MainThread => mine[t] # 0
      /\ asset[mine[t]].failed = FALSE
  BY <1>a, <1>0 DEF HolderSound
<1>3. /\ at'[t] = there /\ linked'[t] = l /\ asset'[mine[t]] = r /\ fetched'[mine[t]] = n
      /\ \A u \in Actors : u # t => /\ at'[u] = at[u] /\ linked'[u] = linked[u]
                                    /\ got'[u] = got[u] /\ headerUsed'[u] = headerUsed[u]
      /\ \A a \in Assets : a # mine[t] => asset'[a] = asset[a] /\ fetched'[a] = fetched[a]
      /\ mine' = mine /\ nextAsset' = nextAsset /\ created' = created
  BY <1>a, <1>1, <1>2 DEF HolderStep
<1>4. BenchTypeOK'
  <2>1. stage' \in {"html", "create", "join", "report", "failed"}
    BY <1>a, <1>0 DEF HolderStep, BenchTypeOK
  <2>2. /\ at' \in [Actors -> Places] /\ linked' \in [Actors -> BOOLEAN]
        /\ asset' \in [Assets -> AssetRecord] /\ fetched' \in [Assets -> Nat]
    BY <1>a, <1>1, <1>2 DEF HolderStep
  <2> QED
    BY <1>a, <1>1, <1>3, <2>1, <2>2 DEF BenchTypeOK, HolderStep
<1>5. StageSound'
  <2>1. CASE t = MainThread
    <3>1. stage = "html" /\ created = {}
      BY <1>a, <1>0, <2>1 DEF StageSound, Holding, BenchTypeOK
    <3>2. stage' = IF there = "none" THEN "failed" ELSE "html"
      BY <1>a, <3>1 DEF HolderStep
    <3>3. mine[t] = 0 /\ (there = "idle" => fetched'[0] = 1)
      BY <1>a, <1>0, <1>3, <2>1 DEF StageSound
    <3>4. \A u \in Threads : at'[u] = at[u]
      BY <1>a, <1>3, <2>1, BenchFacts
    <3> QED
      BY <1>a, <1>0, <1>3, <2>1, <3>1, <3>2, <3>3, <3>4 DEF StageSound
  <2>2. CASE t # MainThread
    <3>1. t \in Threads /\ t \in created
      BY <1>a, <1>0, <2>2, BenchFacts DEF StageSound, Holding
    <3>2. stage' = stage /\ stage # "report"
      BY <1>a, <1>0, <2>2, <3>1 DEF HolderStep, StageSound, Holding
    <3>3. at'[MainThread] = at[MainThread] /\ fetched'[0] = fetched[0]
      BY <1>a, <1>2, <1>3, <2>2, BenchFacts
    <3>4. \A u \in Threads : (u \in created <=> at'[u] # "none") /\ at'[u] # "idle"
      BY <1>a, <1>0, <1>3, <2>2, <3>1, BenchFacts DEF StageSound
    <3>5. \A u \in created : at'[u] \in {"leave", "gone"} => nextAsset > AssetCount
      BY <1>a, <1>0, <1>1, <1>3, <2>2, BenchFacts DEF StageSound
    <3> QED
      BY <1>a, <1>0, <1>3, <3>2, <3>3, <3>4, <3>5 DEF StageSound
  <2> QED
    BY <1>a, <2>1, <2>2
<1>6. \A u \in Actors : HolderSound(u)'
  <2> SUFFICES ASSUME NEW u \in Actors PROVE HolderSound(u)'
    BY <1>a
  <2>1. CASE u = t
    BY <1>a, <1>2, <1>3, <2>1 DEF HolderSound, Holding
  <2>2. CASE u # t
    <3>1. Holding(u)' => (Holding(u) /\ mine[u] \in Assets /\ mine[u] # mine[t])
      BY <1>a, <1>0, <1>3, <2>2 DEF Holding, HolderSound, HoldersDistinct
    <3>2. Holding(u)' => /\ asset'[mine[u]] = asset[mine[u]]
                         /\ fetched'[mine[u]] = fetched[mine[u]]
      BY <1>a, <1>3, <3>1
    <3>3. Holding(u)' => (ReadSound(u)' <=> ReadSound(u))
      BY <1>a, <1>3, <2>2, <3>2 DEF ReadSound, SawHeader, Arrived
    <3> QED
      BY <1>a, <1>0, <1>3, <2>2, <3>1, <3>2, <3>3 DEF HolderSound
  <2> QED
    BY <1>a, <2>1, <2>2
<1>7. HoldersDistinct'
  BY <1>a, <1>0, <1>3 DEF HoldersDistinct, Holding
<1>8. AssetsSound'
  <2> SUFFICES ASSUME NEW a \in Assets
               PROVE  /\ fetched'[a] = 0 => (asset'[a].bytes = 0 /\ asset'[a].failed = FALSE)
                      /\ a >= nextAsset => fetched'[a] = 0
                      /\ (a # 0 /\ a < nextAsset) =>
                           \/ fetched'[a] = 1
                           \/ \E u \in Threads : mine[u] = a /\ at'[u] \in {"connect", "send"}
    BY <1>a, <1>3 DEF AssetsSound
  <2>1. CASE a = mine[t]
    <3>1. ~(a >= nextAsset)
      BY <1>a, <1>1, <1>2, <2>1, BenchFacts
    <3>2. n = 1 \/ there \in {"connect", "send"}
      BY <1>a
    <3>3. a # 0 => t \in Threads
      BY <1>a, <1>0, <2>1, BenchFacts DEF StageSound
    <3> QED
      BY <1>a, <1>3, <2>1, <3>1, <3>2, <3>3
  <2>2. CASE a # mine[t]
    <3>1. asset'[a] = asset[a] /\ fetched'[a] = fetched[a]
      BY <1>a, <1>3, <2>2
    <3>2. \A u \in Threads : mine[u] = a => at'[u] = at[u]
      BY <1>a, <1>3, <2>2, BenchFacts
    <3> QED
      BY <1>a, <1>0, <3>1, <3>2 DEF AssetsSound
  <2> QED
    BY <1>a, <2>1, <2>2
<1>9. CountsSound'
  <2>1. \A u \in Actors : at'[u] \in {"none", "connect", "gone"} => linked'[u] = FALSE
    BY <1>a, <1>0, <1>3 DEF CountsSound
  <2>2. /\ Cardinality(LinkedActors) \in Nat
        /\ Cardinality(LinkedActors') = Cardinality(LinkedActors)
             + (IF l = TRUE /\ linked[t] = FALSE THEN 1 ELSE
                IF l = FALSE /\ linked[t] = TRUE THEN -1 ELSE 0)
    BY <1>a, <1>0, LinkedChanged DEF HolderStep
  <2>3. count'.accepted = count'.closed + Cardinality(LinkedActors')
    <3>1. /\ count.accepted = count.closed + Cardinality(LinkedActors)
          /\ count.closed \in Nat /\ count.accepted \in Nat
      BY <1>a, <1>0, <1>1, CountParts DEF CountsSound
    <3>2. /\ count'.accepted = count.accepted + (IF l = TRUE /\ linked[t] = FALSE THEN 1 ELSE 0)
          /\ count'.closed = count.closed + (IF l = FALSE /\ linked[t] = TRUE THEN 1 ELSE 0)
      BY <1>a DEF HolderStep
    <3> QED
      BY <1>a, <2>2, <3>1, <3>2
  <2>4. count'.failed = Cardinality(FailedAssets')
    <3>1. count.failed = Cardinality(FailedAssets) /\ count.failed \in Nat
      BY <1>a, <1>0, <1>1, CountParts DEF CountsSound
    <3>2. IsFiniteSet(FailedAssets) /\ mine[t] \notin FailedAssets
      BY <1>a, <1>2, BenchFacts, FS_Subset DEF FailedAssets
    <3>3. r.failed \in BOOLEAN
      BY <1>a, AssetParts
    <3>4. FailedAssets' = IF r.failed = TRUE THEN FailedAssets \cup {mine[t]} ELSE FailedAssets
      BY <1>a, <1>2, <1>3, <3>3 DEF FailedAssets
    <3>5. Cardinality(FailedAssets \cup {mine[t]}) = Cardinality(FailedAssets) + 1
      BY <1>a, <3>2, FS_AddElement
    <3>6. count'.failed = count.failed + (IF r.failed = TRUE THEN 1 ELSE 0)
      BY <1>a DEF HolderStep
    <3> QED
      BY <1>a, <3>1, <3>4, <3>5, <3>6
  <2> QED
    BY <1>a, <2>1, <2>3, <2>4 DEF CountsSound
<1> QED
  BY <1>a, <1>4, <1>5, <1>6, <1>7, <1>8, <1>9 DEF BenchInv

\* What is known of the thread that holds an asset.
LEMMA HolderParts ==
    ASSUME BenchInv, NEW t \in Actors, Holding(t)
    PROVE  /\ mine[t] \in Assets
           /\ asset[mine[t]] \in AssetRecord /\ asset[mine[t]].failed = FALSE
           /\ asset[mine[t]].bytes \in Nat
           /\ linked[t] \in BOOLEAN /\ (at[t] = "connect" => linked[t] = FALSE)
           /\ fetched[mine[t]] = IF at[t] \in {"connect", "send"} THEN 0 ELSE 1
           /\ fetched[mine[t]] = 0 => asset[mine[t]].bytes = 0
           /\ at[t] \in {"read", "got"} => ReadSound(t)
           /\ linked = [linked EXCEPT ![t] = linked[t]]
           /\ asset = [asset EXCEPT ![mine[t]] = asset[mine[t]]]
           /\ fetched = [fetched EXCEPT ![mine[t]] = fetched[mine[t]]]
           /\ got \in [Actors -> Nat] /\ headerUsed \in [Actors -> Nat]
           /\ count \in CountRecord
           /\ t = MainThread => stage = "html"
<1>0. /\ BenchTypeOK /\ StageSound /\ HolderSound(t) /\ AssetsSound /\ CountsSound
  BY DEF BenchInv
<1>1. /\ linked \in [Actors -> BOOLEAN] /\ asset \in [Assets -> AssetRecord]
      /\ fetched \in [Assets -> Nat]
      /\ got \in [Actors -> Nat] /\ headerUsed \in [Actors -> Nat]
      /\ count \in CountRecord /\ stage \in {"html", "create", "join", "report", "failed"}
  BY <1>0 DEF BenchTypeOK
<1>2. /\ mine[t] \in Assets /\ asset[mine[t]].failed = FALSE
      /\ fetched[mine[t]] = IF at[t] \in {"connect", "send"} THEN 0 ELSE 1
      /\ at[t] \in {"read", "got"} => ReadSound(t)
  BY <1>0 DEF HolderSound
<1>3. fetched[mine[t]] = 0 => asset[mine[t]].bytes = 0
  BY <1>0, <1>2 DEF AssetsSound
<1>4. at[t] = "connect" => linked[t] = FALSE
  BY <1>0 DEF CountsSound
<1>5. t = MainThread => stage = "html"
  BY <1>0, <1>1 DEF StageSound, Holding
<1>6. asset[mine[t]] \in AssetRecord /\ asset[mine[t]].bytes \in Nat
  BY <1>1, <1>2, AssetParts
<1> QED
  BY <1>1, <1>2, <1>3, <1>4, <1>5, <1>6

\* The counters after a connection is opened, is closed, and is closed for a failure.
LEMMA CountChanged ==
    ASSUME NEW c \in CountRecord, NEW k \in Nat
    PROVE  /\ [c EXCEPT !.accepted = @ + 1] \in CountRecord
           /\ [c EXCEPT !.accepted = @ + 1].accepted = c.accepted + 1
           /\ [c EXCEPT !.accepted = @ + 1].closed = c.closed
           /\ [c EXCEPT !.accepted = @ + 1].failed = c.failed
           /\ [c EXCEPT !.closed = k] \in CountRecord
           /\ [c EXCEPT !.closed = k].accepted = c.accepted
           /\ [c EXCEPT !.closed = k].closed = k
           /\ [c EXCEPT !.closed = k].failed = c.failed
           /\ [c EXCEPT !.closed = k, !.failed = @ + 1] \in CountRecord
           /\ [c EXCEPT !.closed = k, !.failed = @ + 1].accepted = c.accepted
           /\ [c EXCEPT !.closed = k, !.failed = @ + 1].closed = k
           /\ [c EXCEPT !.closed = k, !.failed = @ + 1].failed = c.failed + 1
<1>1. c.accepted + 1 \in Nat /\ c.failed + 1 \in Nat
  BY CountParts
<1> QED
  BY <1>1 DEF CountRecord

\* Opening a connection, or failing to.
LEMMA ConnectHolds ==
    ASSUME BenchInv, NEW t \in Actors, Connect(t) \/ ConnectFails(t)
    PROVE  BenchInv'
<1> DEFINE r == asset[mine[t]]
<1>0. at[t] = "connect" /\ Holding(t)
  BY DEF Connect, ConnectFails, Holding
<1>1. /\ mine[t] \in Assets /\ r \in AssetRecord /\ r.failed = FALSE /\ r.bytes = 0
      /\ linked[t] = FALSE /\ fetched[mine[t]] = 0
      /\ linked = [linked EXCEPT ![t] = linked[t]]
      /\ asset = [asset EXCEPT ![mine[t]] = r]
      /\ fetched = [fetched EXCEPT ![mine[t]] = 0]
      /\ got \in [Actors -> Nat] /\ headerUsed \in [Actors -> Nat]
      /\ count \in CountRecord /\ count.accepted \in Nat /\ count.closed \in Nat
      /\ count.failed \in Nat
  BY <1>0, HolderParts, CountParts
<1> HIDE DEF r
<1>2. CASE Connect(t)
  <2>1. /\ count' \in CountRecord /\ count'.accepted = count.accepted + 1
        /\ count'.closed = count.closed /\ count'.failed = count.failed
    BY <1>1, <1>2, CountChanged DEF Connect
  <2>2. HolderStep(t, "send", TRUE, r, 0)
    BY <1>1, <1>2, <2>1 DEF Connect, Move, HolderStep
  <2>3. "send" \in Places /\ TRUE \in BOOLEAN /\ 0 \in Nat
    BY DEF Places
  <2>4. MayMove(t, "send", TRUE, r, 0)
    BY <1>1, <2>3 DEF MayMove
  <2> QED
    BY <1>0, <2>2, <2>4, HolderMoves
<1>3. CASE ConnectFails(t)
  <2> DEFINE there == IF t = MainThread THEN "none" ELSE "fail"
  <2>1. /\ there \in Places /\ 1 \in Nat /\ FALSE \in BOOLEAN
        /\ there \notin {"connect", "send", "read", "got", "claim", "leave", "gone", "idle"}
        /\ t # MainThread => there # "none"
    BY DEF Places
  <2>2. /\ at' = [at EXCEPT ![t] = there]
        /\ stage' = IF there = "none" THEN "failed" ELSE stage
    BY <1>3 DEF ConnectFails, Move
  <2>3. fetched' = [fetched EXCEPT ![mine[t]] = 1]
    BY <1>1, <1>3 DEF ConnectFails
  <2> HIDE DEF there
  <2>4. HolderStep(t, there, FALSE, r, 1)
    BY <1>1, <1>3, <2>2, <2>3 DEF ConnectFails, HolderStep
  <2>5. MayMove(t, there, FALSE, r, 1)
    BY <1>1, <2>1 DEF MayMove
  <2> QED
    BY <1>0, <2>1, <2>4, <2>5, HolderMoves
<1> QED
  BY <1>2, <1>3

\* Sending the request: the asset counts as taken up from here.
LEMMA SendHolds ==
    ASSUME BenchInv, NEW t \in Actors, Send(t)
    PROVE  BenchInv'
<1> DEFINE r == asset[mine[t]]
<1>0. at[t] = "send" /\ Holding(t)
  BY DEF Send, Holding
<1>1. /\ mine[t] \in Assets /\ r \in AssetRecord /\ r.failed = FALSE /\ r.bytes = 0
      /\ linked[t] \in BOOLEAN /\ fetched[mine[t]] = 0
      /\ linked = [linked EXCEPT ![t] = linked[t]]
      /\ asset = [asset EXCEPT ![mine[t]] = r]
      /\ got \in [Actors -> Nat] /\ headerUsed \in [Actors -> Nat]
      /\ count \in CountRecord /\ count.accepted \in Nat /\ count.closed \in Nat
      /\ count.failed \in Nat
  BY <1>0, HolderParts, CountParts
<1>2. ReadSound(t)'
  <2>1. /\ got'[t] = 0 /\ headerUsed'[t] = 0 /\ mine' = mine /\ asset' = asset
    BY <1>1 DEF Send
  <2>2. HeaderLen[mine[t]] \in Nat \ {0} /\ HeaderBuf \in Nat \ {0}
    BY <1>1, BenchFacts
  <2> QED
    BY <1>1, <2>1, <2>2 DEF ReadSound, SawHeader
<1> HIDE DEF r
<1>3. HolderStep(t, "read", linked[t], r, 1)
  BY <1>1 DEF Send, Move, HolderStep
<1>4. "read" \in Places /\ 1 \in Nat
  BY DEF Places
<1>5. MayMove(t, "read", linked[t], r, 1)
  BY <1>1, <1>4 DEF MayMove
<1> QED
  BY <1>0, <1>2, <1>3, <1>5, HolderMoves

\* Reading, of a header that may fill its buffer and of the body behind it.
LEMMA ReadHolds ==
    ASSUME BenchInv, NEW t \in Actors, Read(t)
    PROVE  BenchInv'
<1> DEFINE hl == HeaderLen[mine[t]]
           bl == BodyLen[mine[t]]
           b0 == asset[mine[t]].bytes
<1>0. at[t] = "read" /\ Holding(t)
  BY DEF Read, Holding
<1>1. /\ mine[t] \in Assets /\ asset[mine[t]] \in AssetRecord /\ asset[mine[t]].failed = FALSE
      /\ b0 \in Nat /\ ReadSound(t)
      /\ linked[t] \in BOOLEAN /\ fetched[mine[t]] = 1
      /\ linked = [linked EXCEPT ![t] = linked[t]]
      /\ fetched = [fetched EXCEPT ![mine[t]] = 1]
      /\ got \in [Actors -> Nat] /\ headerUsed \in [Actors -> Nat]
      /\ count \in CountRecord /\ count.accepted \in Nat /\ count.closed \in Nat
      /\ count.failed \in Nat
  BY <1>0, HolderParts, CountParts
<1>2. hl \in Nat \ {0} /\ bl \in Nat /\ HeaderBuf \in Nat \ {0} /\ ReadMax \in Nat \ {0}
      /\ got[t] \in Nat /\ headerUsed[t] \in Nat /\ asset \in [Assets -> AssetRecord]
  BY <1>1, BenchFacts, PageBenchAssumption DEF BenchInv, BenchTypeOK
<1>3. PICK n \in 1..Smaller(ReadMax, hl + bl - got[t]) :
         LET used == headerUsed[t] + IF SawHeader(t) THEN 0 ELSE Copied(t, n)
             bytes == asset[mine[t]].bytes + BodyBytes(t, n)
         IN /\ got' = [got EXCEPT ![t] = @ + n]
            /\ headerUsed' = [headerUsed EXCEPT ![t] = used]
            /\ asset' = [asset EXCEPT ![mine[t]].bytes = bytes]
            /\ Move(t, IF used < HeaderLen[mine[t]]
                       THEN (IF used = HeaderBuf THEN "fail" ELSE "read")
                       ELSE IF bytes >= BodyLen[mine[t]] THEN "got" ELSE "read")
  BY DEF Read
<1> DEFINE used == headerUsed[t] + IF SawHeader(t) THEN 0 ELSE Copied(t, n)
           bytes == b0 + BodyBytes(t, n)
           r == [asset[mine[t]] EXCEPT !.bytes = bytes]
           there == IF used < hl THEN (IF used = HeaderBuf THEN "fail" ELSE "read")
                    ELSE IF bytes >= bl THEN "got" ELSE "read"
<1>4. n \in Nat \ {0}
  BY <1>2 DEF Smaller
<1>5. /\ SawHeader(t) => (headerUsed[t] >= hl /\ b0 = Arrived(t) /\ got[t] >= hl)
      /\ ~SawHeader(t) => (headerUsed[t] < hl /\ b0 = 0 /\ headerUsed[t] = got[t]
                           /\ headerUsed[t] < HeaderBuf)
      /\ Arrived(t) = IF got[t] > hl THEN got[t] - hl ELSE 0
  BY <1>1, <1>2 DEF ReadSound, SawHeader, Arrived
<1>6. /\ used \in Nat /\ bytes \in Nat
      /\ used < hl => (bytes = 0 /\ (used # HeaderBuf => (used = got[t] + n /\ used < HeaderBuf)))
      /\ used >= hl => (got[t] + n >= hl /\ bytes = got[t] + n - hl)
  <2>1. CASE SawHeader(t)
    <3>1. used = headerUsed[t] /\ bytes = b0 + n
      BY <1>2, <2>1 DEF BodyBytes
    <3>2. b0 = got[t] - hl
      BY <1>2, <1>5, <2>1
    <3> HIDE DEF used, bytes, hl, b0
    <3> QED
      BY <1>1, <1>2, <1>4, <1>5, <2>1, <3>1, <3>2
  <2>2. CASE ~SawHeader(t)
    <3> DEFINE c == Copied(t, n)
    <3>1. used = got[t] + c /\ c = IF n < HeaderBuf - got[t] THEN n ELSE HeaderBuf - got[t]
      BY <1>5, <2>2 DEF Copied, Smaller
    <3>2. bytes = IF got[t] + c < hl THEN 0 ELSE n - (hl - got[t])
      BY <1>2, <1>4, <1>5, <2>2, <3>1 DEF BodyBytes
    <3>3. got[t] < HeaderBuf /\ got[t] < hl
      BY <1>5, <2>2
    <3> HIDE DEF used, bytes, hl, b0, c
    <3> QED
      BY <1>2, <1>4, <3>1, <3>2, <3>3
  <2> QED
    BY <2>1, <2>2
<1>7. /\ got' = [got EXCEPT ![t] = got[t] + n] /\ headerUsed' = [headerUsed EXCEPT ![t] = used]
      /\ asset' = [asset EXCEPT ![mine[t]] = r] /\ at' = [at EXCEPT ![t] = there]
  BY <1>3 DEF Move
<1>8. r \in AssetRecord /\ r.bytes = bytes /\ r.failed = FALSE
  <2> HIDE DEF bytes
  <2> QED
    BY <1>1, <1>6 DEF AssetRecord
<1>9. /\ there \in {"fail", "read", "got"} /\ (there = "got" => used >= hl)
      /\ there = "read" => (used >= hl \/ used # HeaderBuf)
  <2> HIDE DEF used, bytes, hl, bl
  <2> QED
    BY <1>2, <1>6
<1>10. mine' = mine /\ UNCHANGED <<stage, created, linked, nextAsset, count, fetched>>
  BY DEF Read
<1> HIDE DEF used, bytes, there, r, hl, bl, b0
<1>11. /\ got'[t] = got[t] + n /\ headerUsed'[t] = used /\ asset'[mine[t]] = r
  BY <1>1, <1>2, <1>7
<1>12. there \in {"read", "got"} => ReadSound(t)'
  <2>1. ReadSound(t)' <=> IF used >= hl
                          THEN /\ bytes = (IF got[t] + n > hl THEN got[t] + n - hl ELSE 0)
                               /\ got[t] + n >= hl
                          ELSE bytes = 0 /\ used = got[t] + n /\ used < HeaderBuf
    <3>1. SawHeader(t)' <=> used >= hl
      BY <1>10, <1>11 DEF SawHeader, hl
    <3>2. Arrived(t)' = IF got[t] + n > hl THEN got[t] + n - hl ELSE 0
      <4>1. Arrived(t)' = IF got'[t] > HeaderLen[mine'[t]] THEN got'[t] - HeaderLen[mine'[t]] ELSE 0
        BY DEF Arrived
      <4>2. HeaderLen[mine'[t]] = hl
        BY <1>10 DEF hl
      <4> QED
        BY <1>2, <1>4, <1>11, <4>1, <4>2
    <3>3. asset'[mine'[t]].bytes = bytes /\ HeaderLen[mine'[t]] = hl
      BY <1>8, <1>10, <1>11 DEF hl
    <3> QED
      BY <1>11, <3>1, <3>2, <3>3 DEF ReadSound
  <2> QED
    BY <1>2, <1>4, <1>6, <1>9, <2>1
<1>13. HolderStep(t, there, linked[t], r, 1)
  <2>1. got' \in [Actors -> Nat] /\ headerUsed' \in [Actors -> Nat]
    BY <1>1, <1>2, <1>4, <1>6, <1>7
  <2>2. \A u \in Actors : u # t => got'[u] = got[u] /\ headerUsed'[u] = headerUsed[u]
    BY <1>1, <1>7
  <2> QED
    BY <1>1, <1>7, <1>8, <1>9, <1>10, <2>1, <2>2 DEF HolderStep
<1>14. there \in Places /\ 1 \in Nat
  BY <1>9 DEF Places
<1>15. MayMove(t, there, linked[t], r, 1)
  BY <1>1, <1>8, <1>9, <1>14 DEF MayMove
<1> QED
  BY <1>0, <1>12, <1>13, <1>15, HolderMoves

\* The end of a body, or of the connection.
LEMMA EndHolds ==
    ASSUME BenchInv, NEW t \in Actors, EndOfStream(t) \/ Got(t)
    PROVE  BenchInv'
<1> DEFINE r == asset[mine[t]]
<1>0. at[t] \in {"read", "got"} /\ Holding(t)
  BY DEF EndOfStream, Got, Holding
<1>1. /\ mine[t] \in Assets /\ r \in AssetRecord /\ r.failed = FALSE
      /\ linked[t] \in BOOLEAN
      /\ linked = [linked EXCEPT ![t] = linked[t]]
      /\ asset = [asset EXCEPT ![mine[t]] = r]
      /\ fetched = [fetched EXCEPT ![mine[t]] = 1]
      /\ got \in [Actors -> Nat] /\ headerUsed \in [Actors -> Nat]
      /\ count \in CountRecord /\ count.accepted \in Nat /\ count.closed \in Nat
      /\ count.failed \in Nat
  BY <1>0, HolderParts, CountParts
<1> HIDE DEF r
<1>2. PICK there \in {"close", "fail", "idle", "claim"} :
        /\ at' = [at EXCEPT ![t] = there]
        /\ there = "idle" => t = MainThread
        /\ there = "claim" => t # MainThread
  BY DEF EndOfStream, Got, Move
<1>3. HolderStep(t, there, linked[t], r, 1)
  BY <1>1, <1>2 DEF EndOfStream, Got, HolderStep
<1>4. there \in Places /\ 1 \in Nat
  BY <1>2 DEF Places
<1>5. MayMove(t, there, linked[t], r, 1)
  BY <1>1, <1>2, <1>4 DEF MayMove
<1> QED
  BY <1>0, <1>2, <1>3, <1>5, HolderMoves

\* A failed asset is counted once, and a closed connection once.
LEMMA CloseHolds ==
    ASSUME BenchInv, NEW t \in Actors, Fail(t) \/ Close(t)
    PROVE  BenchInv'
<1> DEFINE r == asset[mine[t]]
<1>0. at[t] \in {"fail", "close"} /\ Holding(t)
  BY DEF Fail, Close, Holding
<1>1. /\ mine[t] \in Assets /\ r \in AssetRecord /\ r.failed = FALSE
      /\ linked[t] \in BOOLEAN
      /\ asset = [asset EXCEPT ![mine[t]] = r]
      /\ fetched = [fetched EXCEPT ![mine[t]] = 1]
      /\ got \in [Actors -> Nat] /\ headerUsed \in [Actors -> Nat]
      /\ count \in CountRecord /\ count.accepted \in Nat /\ count.closed \in Nat
      /\ count.failed \in Nat
  BY <1>0, HolderParts, CountParts
<1>2. /\ Closed(t) \in Nat
      /\ Closed(t) = count.closed + (IF linked[t] = TRUE THEN 1 ELSE 0)
  BY <1>1 DEF Closed
<1>3. 1 \in Nat /\ FALSE \in BOOLEAN /\ "none" \in Places /\ "claim" \in Places
      /\ "idle" \in Places
  BY DEF Places
<1>4. CASE Fail(t) /\ t = MainThread
  <2>1. /\ count' \in CountRecord /\ count'.accepted = count.accepted
        /\ count'.closed = Closed(t) /\ count'.failed = count.failed
    <3>1. count' = [count EXCEPT !.closed = Closed(t)]
      BY <1>4 DEF Fail
    <3> QED
      BY <1>1, <1>2, <3>1, CountChanged, ZenonT(60)
  <2> HIDE DEF r
  <2>2. HolderStep(t, "none", FALSE, r, 1)
    BY <1>1, <1>2, <1>4, <2>1 DEF Fail, Move, HolderStep
  <2>3. MayMove(t, "none", FALSE, r, 1)
    BY <1>1, <1>3, <1>4 DEF MayMove
  <2> QED
    BY <1>0, <2>2, <2>3, HolderMoves
<1>5. CASE Fail(t) /\ t # MainThread
  <2> DEFINE q == [r EXCEPT !.failed = TRUE]
  <2>1. /\ count' \in CountRecord /\ count'.accepted = count.accepted
        /\ count'.closed = Closed(t) /\ count'.failed = count.failed + 1
    <3>1. count' = [count EXCEPT !.closed = Closed(t), !.failed = @ + 1]
      BY <1>5 DEF Fail
    <3> QED
      BY <1>1, <1>2, <3>1, CountChanged
  <2>2. q \in AssetRecord /\ q.failed = TRUE
    <3> HIDE DEF r
    <3> QED
      BY <1>1 DEF AssetRecord
  <2>3. asset' = [asset EXCEPT ![mine[t]] = q]
    BY <1>5 DEF Fail
  <2> HIDE DEF q, r
  <2>4. HolderStep(t, "claim", FALSE, q, 1)
    BY <1>1, <1>2, <1>5, <2>1, <2>2, <2>3 DEF Fail, Move, HolderStep
  <2>5. MayMove(t, "claim", FALSE, q, 1)
    BY <1>3, <1>5, <2>2 DEF MayMove
  <2> QED
    BY <1>0, <2>4, <2>5, HolderMoves
<1>6. CASE Close(t)
  <2> DEFINE there == IF t = MainThread THEN "idle" ELSE "claim"
  <2>1. /\ count' \in CountRecord /\ count'.accepted = count.accepted
        /\ count'.closed = Closed(t) /\ count'.failed = count.failed
    BY <1>1, <1>2, <1>6, CountChanged, ZenonT(60) DEF Close
  <2>2. /\ there \in {"idle", "claim"} /\ (there = "idle" <=> t = MainThread)
        /\ at' = [at EXCEPT ![t] = there]
    BY <1>6 DEF Close, Move
  <2> HIDE DEF r, there
  <2>3. HolderStep(t, there, FALSE, r, 1)
    BY <1>1, <1>2, <1>6, <2>1, <2>2 DEF Close, HolderStep
  <2>4. MayMove(t, there, FALSE, r, 1)
    BY <1>1, <1>3, <2>2 DEF MayMove
  <2> QED
    BY <1>0, <2>2, <2>3, <2>4, HolderMoves
<1> QED
  BY <1>4, <1>5, <1>6

\* The next index is claimed under the mutex: no other thread holds that asset.
LEMMA ClaimHolds ==
    ASSUME BenchInv, NEW t \in Actors, Claim(t)
    PROVE  BenchInv'
<1>0. /\ BenchTypeOK /\ StageSound /\ (\A u \in Actors : HolderSound(u))
      /\ HoldersDistinct /\ AssetsSound /\ CountsSound
  BY DEF BenchInv
<1> DEFINE there == IF nextAsset >= AssetCount THEN "leave"
                    ELSE IF linked[t] THEN "send" ELSE "connect"
<1>1. /\ at[t] = "claim" /\ nextAsset' = nextAsset + 1
      /\ mine' = [mine EXCEPT ![t] = nextAsset] /\ at' = [at EXCEPT ![t] = there]
      /\ UNCHANGED <<stage, created, linked, got, headerUsed, asset, count, fetched>>
  BY DEF Claim, Move
<1>2. /\ at \in [Actors -> Places] /\ mine \in [Actors -> Nat] /\ linked \in [Actors -> BOOLEAN]
      /\ nextAsset \in Nat \ {0} /\ created \in SUBSET Threads
  BY <1>0 DEF BenchTypeOK
<1>3. /\ t # MainThread /\ t \in Threads /\ t \in created
      /\ AssetCount \in Nat \ {0} /\ MainThread \in Actors
  BY <1>0, <1>1, BenchFacts DEF StageSound
<1>4. /\ there \in {"leave", "send", "connect"}
      /\ there = "leave" => nextAsset + 1 > AssetCount
      /\ there # "leave" => (nextAsset < AssetCount /\ nextAsset \in Assets)
      /\ there = "connect" => linked[t] = FALSE
  BY <1>2, <1>3, BenchFacts
<1> HIDE DEF there
<1>5. /\ mine'[t] = nextAsset /\ at'[t] = there
      /\ \A u \in Actors : u # t => mine'[u] = mine[u] /\ at'[u] = at[u]
      /\ nextAsset + 1 \in Nat \ {0} /\ nextAsset < nextAsset + 1
  BY <1>1, <1>2
<1>6. BenchTypeOK'
  <2>1. there \in Places
    BY <1>4 DEF Places
  <2>2. at' \in [Actors -> Places] /\ mine' \in [Actors -> Nat]
    BY <1>1, <1>2, <2>1
  <2> QED
    BY <1>0, <1>1, <1>5, <2>2 DEF BenchTypeOK
<1>7. StageSound'
  <2>1. stage # "report" /\ stage \notin {"html", "failed"}
    BY <1>0, <1>1, <1>3 DEF StageSound
  <2>2. \A u \in Threads : (u \in created <=> at'[u] # "none") /\ at'[u] # "idle"
    BY <1>0, <1>3, <1>4, <1>5, BenchFacts DEF StageSound
  <2>3. \A u \in created : at'[u] \in {"leave", "gone"} => nextAsset' > AssetCount
    <3> SUFFICES ASSUME NEW u \in created, at'[u] \in {"leave", "gone"}
                 PROVE  nextAsset' > AssetCount
      OBVIOUS
    <3>1. CASE u = t
      BY <1>1, <1>4, <1>5, <3>1
    <3>2. CASE u # t
      <4>1. nextAsset > AssetCount
        BY <1>0, <1>2, <1>5, <3>2, BenchFacts DEF StageSound
      <4> QED
        BY <1>1, <1>2, <1>3, <4>1
    <3> QED
      BY <3>1, <3>2
  <2>4. at'[MainThread] = at[MainThread] /\ mine'[MainThread] = mine[MainThread]
    BY <1>3, <1>5
  <2> QED
    BY <1>0, <1>1, <2>1, <2>2, <2>3, <2>4 DEF StageSound
<1>8. \A u \in Actors : u # t /\ Holding(u) => mine[u] \in Assets /\ mine[u] < nextAsset
  BY <1>0 DEF HolderSound
<1>9. \A u \in Actors : HolderSound(u)'
  <2> SUFFICES ASSUME NEW u \in Actors PROVE HolderSound(u)'
    OBVIOUS
  <2>1. CASE u = t
    <3>1. there # "leave" => /\ nextAsset \in Assets /\ fetched[nextAsset] = 0
                             /\ asset[nextAsset].failed = FALSE /\ nextAsset # 0
      BY <1>0, <1>2, <1>4 DEF AssetsSound
    <3> QED
      BY <1>1, <1>4, <1>5, <2>1, <3>1 DEF HolderSound, Holding
  <2>2. CASE u # t
    <3>1. ReadSound(u)' <=> ReadSound(u)
      BY <1>1, <1>5, <2>2 DEF ReadSound, SawHeader, Arrived
    <3>2. Holding(u) => mine[u] < nextAsset + 1
      BY <1>2, <1>8, <2>2, BenchFacts
    <3>3. HolderSound(u) /\ at'[u] = at[u] /\ mine'[u] = mine[u]
      BY <1>0, <1>5, <2>2
    <3> QED
      BY <1>1, <3>1, <3>2, <3>3 DEF HolderSound, Holding
  <2> QED
    BY <2>1, <2>2
<1>10. HoldersDistinct'
  <2>1. \A u \in Actors : u # t /\ Holding(u) => mine[u] # nextAsset
    BY <1>2, <1>8, BenchFacts
  <2> QED
    BY <1>0, <1>5, <2>1 DEF HoldersDistinct, Holding
<1>11. AssetsSound'
  <2> SUFFICES ASSUME NEW a \in Assets
               PROVE  /\ fetched[a] = 0 => (asset[a].bytes = 0 /\ asset[a].failed = FALSE)
                      /\ a >= nextAsset + 1 => fetched[a] = 0
                      /\ (a # 0 /\ a < nextAsset + 1) =>
                           \/ fetched[a] = 1
                           \/ \E u \in Threads : mine'[u] = a /\ at'[u] \in {"connect", "send"}
    BY <1>1 DEF AssetsSound
  <2>1. a \in Nat /\ a < AssetCount
    BY BenchFacts
  <2>2. CASE a = nextAsset
    <3>1. there \in {"connect", "send"} /\ ~(a >= nextAsset + 1)
      BY <1>2, <1>3, <1>4, <2>1, <2>2
    <3> QED
      BY <1>0, <1>3, <1>5, <2>2, <3>1 DEF AssetsSound
  <2>3. CASE a # nextAsset
    <3>1. (a >= nextAsset + 1 <=> a >= nextAsset) /\ (a < nextAsset + 1 <=> a < nextAsset)
      BY <1>2, <2>1, <2>3
    <3>2. \A u \in Threads : (mine[u] = a /\ at[u] \in {"connect", "send"})
                                => (mine'[u] = a /\ at'[u] \in {"connect", "send"})
      BY <1>1, <1>5, BenchFacts
    <3> QED
      BY <1>0, <3>1, <3>2 DEF AssetsSound
  <2> QED
    BY <2>2, <2>3
<1>12. CountsSound'
  <2>1. LinkedActors' = LinkedActors /\ FailedAssets' = FailedAssets
    BY <1>1 DEF LinkedActors, FailedAssets
  <2>2. \A u \in Actors : at'[u] \in {"none", "connect", "gone"} => linked[u] = FALSE
    BY <1>0, <1>4, <1>5 DEF CountsSound
  <2> QED
    BY <1>0, <1>1, <2>1, <2>2 DEF CountsSound
<1> QED
  BY <1>6, <1>7, <1>9, <1>10, <1>11, <1>12 DEF BenchInv

\* The actors that hold no asset may move, and connections be closed, as long as none
\* comes to hold one.
LEMMA NoHolderMoves ==
    ASSUME BenchInv, BenchTypeOK', StageSound', CountsSound',
           UNCHANGED <<mine, got, headerUsed, nextAsset, asset, fetched>>,
           \A u \in Actors : Holding(u)' => at'[u] = at[u],
           \A u \in Actors : Holding(u) => at'[u] = at[u]
    PROVE  BenchInv'
<1>0. /\ BenchTypeOK /\ (\A u \in Actors : HolderSound(u)) /\ HoldersDistinct /\ AssetsSound
  BY DEF BenchInv
<1>1. \A u \in Actors : Holding(u)' <=> Holding(u)
  BY DEF Holding
<1>2. \A u \in Actors : ReadSound(u)' <=> ReadSound(u)
  BY DEF ReadSound, SawHeader, Arrived
<1>3. \A u \in Actors : HolderSound(u)'
  BY <1>0, <1>1, <1>2 DEF HolderSound
<1>4. HoldersDistinct'
  BY <1>0, <1>1 DEF HoldersDistinct
<1>5. AssetsSound'
  <2>1. \A u \in Threads : at[u] \in {"connect", "send"} => at'[u] = at[u]
    BY BenchFacts DEF Holding
  <2> QED
    BY <1>0, <2>1 DEF AssetsSound
<1> QED
  BY <1>3, <1>4, <1>5 DEF BenchInv

\* A thread that finds no asset left closes its connection and ends.
LEMMA LeaveHolds ==
    ASSUME BenchInv, NEW t \in Actors, Leave(t)
    PROVE  BenchInv'
<1>0. /\ BenchTypeOK /\ StageSound /\ CountsSound
  BY DEF BenchInv
<1>1. /\ at[t] = "leave" /\ at' = [at EXCEPT ![t] = "gone"]
      /\ linked' = [linked EXCEPT ![t] = FALSE]
      /\ count' = [count EXCEPT !.closed = Closed(t)]
      /\ UNCHANGED <<stage, created, mine, got, headerUsed, nextAsset, asset, fetched>>
  BY DEF Leave, Move
<1>2. /\ at \in [Actors -> Places] /\ linked \in [Actors -> BOOLEAN] /\ linked[t] \in BOOLEAN
      /\ count \in CountRecord /\ count.accepted \in Nat /\ count.closed \in Nat
      /\ created \in SUBSET Threads
  BY <1>0, CountParts DEF BenchTypeOK
<1>3. t # MainThread /\ t \in Threads /\ t \in created /\ MainThread \in Actors
  BY <1>0, <1>1, BenchFacts DEF StageSound
<1>4. /\ at'[t] = "gone" /\ linked'[t] = FALSE
      /\ \A u \in Actors : u # t => at'[u] = at[u] /\ linked'[u] = linked[u]
  BY <1>1, <1>2
<1>5. /\ Closed(t) \in Nat
      /\ Closed(t) = count.closed + (IF linked[t] = TRUE THEN 1 ELSE 0)
  BY <1>2 DEF Closed
<1>6. /\ count' \in CountRecord /\ count'.accepted = count.accepted
      /\ count'.closed = Closed(t) /\ count'.failed = count.failed
  BY <1>1, <1>2, <1>5, CountChanged
<1>7. BenchTypeOK'
  <2>1. at' \in [Actors -> Places] /\ linked' \in [Actors -> BOOLEAN]
    BY <1>1, <1>2 DEF Places
  <2> QED
    BY <1>0, <1>1, <1>6, <2>1 DEF BenchTypeOK
<1>8. StageSound'
  <2>1. stage \notin {"report", "html", "failed"}
    BY <1>0, <1>1, <1>3 DEF StageSound
  <2>2. \A u \in Threads : (u \in created <=> at'[u] # "none") /\ at'[u] # "idle"
    BY <1>0, <1>3, <1>4, BenchFacts DEF StageSound
  <2>3. \A u \in created : at'[u] \in {"leave", "gone"} => nextAsset > AssetCount
    BY <1>0, <1>1, <1>2, <1>3, <1>4, BenchFacts DEF StageSound
  <2>4. at'[MainThread] = at[MainThread]
    BY <1>3, <1>4
  <2> QED
    BY <1>0, <1>1, <2>1, <2>2, <2>3, <2>4 DEF StageSound
<1>9. CountsSound'
  <2>1. FailedAssets' = FailedAssets
    BY <1>1 DEF FailedAssets
  <2>2. \A u \in Actors : at'[u] \in {"none", "connect", "gone"} => linked'[u] = FALSE
    BY <1>0, <1>4 DEF CountsSound
  <2>3. /\ Cardinality(LinkedActors) \in Nat
        /\ Cardinality(LinkedActors') = Cardinality(LinkedActors)
             + (IF linked[t] = TRUE THEN -1 ELSE 0)
    BY <1>0, <1>1, LinkedChanged
  <2>4. count.accepted = count.closed + Cardinality(LinkedActors)
    BY <1>0 DEF CountsSound
  <2>5. count'.accepted = count'.closed + Cardinality(LinkedActors')
    BY <1>2, <1>5, <1>6, <2>3, <2>4
  <2> QED
    BY <1>0, <1>6, <2>1, <2>2, <2>5 DEF CountsSound
<1>10. /\ \A u \in Actors : Holding(u)' => at'[u] = at[u]
       /\ \A u \in Actors : Holding(u) => at'[u] = at[u]
  BY <1>1, <1>4 DEF Holding
<1> QED
  BY <1>1, <1>7, <1>8, <1>9, <1>10, NoHolderMoves

\* The steps of main behind the fetch of the page: it looks for assets, creates a
\* thread or stops creating, and joins.
LEMMA MainHolds ==
    ASSUME BenchInv, Parse \/ Create \/ Join
    PROVE  BenchInv'
<1>0. /\ BenchTypeOK /\ StageSound /\ CountsSound
  BY DEF BenchInv
<1>1. /\ at \in [Actors -> Places] /\ linked \in [Actors -> BOOLEAN]
      /\ linked[MainThread] \in BOOLEAN /\ MainThread \in Actors /\ MainThread \notin Threads
      /\ count \in CountRecord /\ count.accepted \in Nat /\ count.closed \in Nat
      /\ created \in SUBSET Threads
  BY <1>0, CountParts, BenchFacts DEF BenchTypeOK
<1>2. CASE Parse
  <2>1. /\ stage = "html" /\ at[MainThread] = "idle" /\ stage' \in {"failed", "create"}
        /\ UNCHANGED <<created, at, mine, linked, got, headerUsed, nextAsset, asset, count, fetched>>
    BY <1>2 DEF Parse
  <2>2. BenchTypeOK'
    BY <1>0, <2>1 DEF BenchTypeOK
  <2>3. StageSound'
    BY <1>0, <2>1 DEF StageSound
  <2>4. CountsSound'
    BY <1>0, <2>1 DEF CountsSound, LinkedActors, FailedAssets
  <2> QED
    BY <2>1, <2>2, <2>3, <2>4, NoHolderMoves
<1>3. CASE Create /\ created' = created
  <2>1. /\ stage = "create" /\ stage' = "join"
        /\ UNCHANGED <<created, at, mine, linked, got, headerUsed, nextAsset, asset, count, fetched>>
    BY <1>3 DEF Create
  <2>2. BenchTypeOK'
    BY <1>0, <2>1 DEF BenchTypeOK
  <2>3. StageSound'
    BY <1>0, <2>1 DEF StageSound
  <2>4. CountsSound'
    BY <1>0, <2>1 DEF CountsSound, LinkedActors, FailedAssets
  <2> QED
    BY <2>1, <2>2, <2>3, <2>4, NoHolderMoves
<1>4. CASE Create /\ created' # created
  <2>1. PICK t \in Threads \ created :
          created' = created \cup {t} /\ at' = [at EXCEPT ![t] = "claim"]
    BY <1>4 DEF Create, Move
  <2>2. /\ stage = "create" /\ stage' = "create"
        /\ UNCHANGED <<mine, linked, got, headerUsed, nextAsset, asset, count, fetched>>
    BY <1>4 DEF Create
  <2>3. /\ t \in Actors /\ at[t] = "none" /\ at'[t] = "claim"
        /\ \A u \in Actors : u # t => at'[u] = at[u]
    BY <1>0, <1>1, <2>1, BenchFacts DEF StageSound
  <2>4. BenchTypeOK'
    <3>1. at' \in [Actors -> Places] /\ created' \in SUBSET Threads
      BY <1>1, <2>1 DEF Places
    <3> QED
      BY <1>0, <2>2, <3>1 DEF BenchTypeOK
  <2>5. StageSound'
    <3>1. at'[MainThread] = at[MainThread]
      BY <1>1, <2>1, <2>3
    <3>2. \A u \in Threads : (u \in created' <=> at'[u] # "none") /\ at'[u] # "idle"
      BY <1>0, <2>1, <2>3, BenchFacts DEF StageSound
    <3>3. \A u \in created' : at'[u] \in {"leave", "gone"} => nextAsset > AssetCount
      BY <1>0, <1>1, <2>1, <2>3, BenchFacts DEF StageSound
    <3> QED
      BY <1>0, <2>2, <3>1, <3>2, <3>3 DEF StageSound
  <2>6. CountsSound'
    <3>1. LinkedActors' = LinkedActors /\ FailedAssets' = FailedAssets
      BY <2>2 DEF LinkedActors, FailedAssets
    <3> QED
      BY <1>0, <2>2, <2>3, <3>1 DEF CountsSound
  <2>7. /\ \A u \in Actors : Holding(u)' => at'[u] = at[u]
        /\ \A u \in Actors : Holding(u) => at'[u] = at[u]
    BY <2>3 DEF Holding
  <2> QED
    BY <2>2, <2>4, <2>5, <2>6, <2>7, NoHolderMoves
<1>5. CASE Join
  <2>1. /\ stage = "join" /\ stage' = "report" /\ (\A u \in created : at[u] = "gone")
        /\ linked' = [linked EXCEPT ![MainThread] = FALSE]
        /\ count' = [count EXCEPT !.closed = Closed(MainThread)]
        /\ UNCHANGED <<created, at, mine, got, headerUsed, nextAsset, asset, fetched>>
    BY <1>5 DEF Join
  <2>2. /\ linked'[MainThread] = FALSE /\ linked' \in [Actors -> BOOLEAN]
        /\ \A u \in Actors : u # MainThread => linked'[u] = linked[u]
    BY <1>1, <2>1
  <2>3. /\ Closed(MainThread) \in Nat
        /\ Closed(MainThread) = count.closed + (IF linked[MainThread] = TRUE THEN 1 ELSE 0)
    BY <1>1 DEF Closed
  <2>4. /\ count' \in CountRecord /\ count'.accepted = count.accepted
        /\ count'.closed = Closed(MainThread) /\ count'.failed = count.failed
    BY <1>1, <2>1, <2>3, CountChanged
  <2>5. BenchTypeOK'
    BY <1>0, <2>1, <2>2, <2>4 DEF BenchTypeOK
  <2>6. StageSound'
    BY <1>0, <2>1, <2>2 DEF StageSound
  <2>7. CountsSound'
    <3>1. FailedAssets' = FailedAssets
      BY <2>1 DEF FailedAssets
    <3>2. \A u \in Actors : at'[u] \in {"none", "connect", "gone"} => linked'[u] = FALSE
      BY <1>0, <2>1, <2>2 DEF CountsSound
    <3>3. /\ Cardinality(LinkedActors) \in Nat
          /\ Cardinality(LinkedActors') = Cardinality(LinkedActors)
               + (IF linked[MainThread] = TRUE THEN -1 ELSE 0)
      BY <1>0, <1>1, <2>1, LinkedChanged
    <3>4. count.accepted = count.closed + Cardinality(LinkedActors)
      BY <1>0 DEF CountsSound
    <3>5. count'.accepted = count'.closed + Cardinality(LinkedActors')
      BY <1>1, <2>3, <2>4, <3>3, <3>4
    <3> QED
      BY <1>0, <2>4, <3>1, <3>2, <3>5 DEF CountsSound
  <2> QED
    BY <2>1, <2>5, <2>6, <2>7, NoHolderMoves
<1> QED
  BY <1>2, <1>3, <1>4, <1>5

\* The benchmark's steps keep its invariant, and the other commands leave it alone.
LEMMA BenchStepHolds ==
    ASSUME BenchInv, [Next]_vars
    PROVE  BenchInv'
<1>1. BenchNext \/ UNCHANGED benchVars
  BY DEF Next, Configtest, Serve, Trace, Bench, vars
<1>2. CASE \E t \in Actors : Works(t)
  <2>1. PICK t \in Actors : Works(t)
    BY <1>2
  <2> QED
    BY <2>1, ClaimHolds, ConnectHolds, SendHolds, ReadHolds, EndHolds, CloseHolds, LeaveHolds
       DEF Works
<1>3. CASE Parse \/ Create \/ Join
  BY <1>3, MainHolds
<1>4. CASE UNCHANGED benchVars
  <2>1. UNCHANGED <<stage, created, at, mine, linked, got, headerUsed, nextAsset, asset,
                    count, fetched>>
    BY <1>4 DEF benchVars
  <2>2. BenchTypeOK' /\ StageSound' /\ CountsSound'
    BY <2>1 DEF BenchInv, BenchTypeOK, StageSound, CountsSound, LinkedActors, FailedAssets
  <2> QED
    BY <2>1, <2>2, NoHolderMoves
<1> QED
  BY <1>1, <1>2, <1>3, <1>4 DEF BenchNext

\* When all threads have ended nobody holds an asset or a connection, so that the
\* report is exact.
LEMMA ReportFromInvariant ==
    ASSUME BenchInv
    PROVE  ReportIsExact
<1>0. /\ BenchTypeOK /\ StageSound /\ (\A t \in Actors : HolderSound(t))
      /\ AssetsSound /\ CountsSound
  BY DEF BenchInv
<1>1. BodyCounted
  BY <1>0 DEF BodyCounted, HolderSound, Holding, ReadSound
<1>2. ASSUME stage = "report"
      PROVE  /\ created # {} => \A a \in Assets : fetched[a] = 1
             /\ count.accepted = count.closed
             /\ count.failed = Cardinality({a \in Assets : asset[a].failed})
             /\ \A t \in Actors : ~linked[t]
  <2>1. /\ at[MainThread] = "idle" /\ linked[MainThread] = FALSE /\ fetched[0] = 1
        /\ \A t \in Threads : at[t] = IF t \in created THEN "gone" ELSE "none"
    BY <1>0, <1>2 DEF StageSound
  <2>2. \A t \in Actors : linked[t] = FALSE
    BY <1>0, <2>1, BenchFacts DEF CountsSound
  <2>3. count.accepted = count.closed
    <3>1. LinkedActors = {}
      BY <2>2 DEF LinkedActors
    <3>2. Cardinality(LinkedActors) = 0
      BY <3>1, FS_EmptySet
    <3>3. count.closed \in Nat
      BY <1>0, CountParts DEF BenchTypeOK
    <3> QED
      BY <1>0, <3>2, <3>3 DEF CountsSound
  <2>4. ASSUME created # {}, NEW a \in Assets PROVE fetched[a] = 1
    <3>1. PICK t \in created : TRUE
      BY <2>4
    <3>2. nextAsset > AssetCount /\ nextAsset \in Nat
      BY <1>0, <2>1 DEF StageSound, BenchTypeOK
    <3>3. a < nextAsset
      BY <3>2, BenchFacts
    <3> QED
      BY <1>0, <2>1, <3>3 DEF AssetsSound
  <2>5. {a \in Assets : asset[a].failed} = FailedAssets
    <3>1. \A a \in Assets : asset[a].failed \in BOOLEAN
      BY <1>0, AssetParts DEF BenchTypeOK
    <3> QED
      BY <3>1 DEF FailedAssets
  <2> QED
    BY <1>0, <2>2, <2>3, <2>4, <2>5 DEF CountsSound
<1> QED
  BY <1>1, <1>2 DEF ReportIsExact

\* However many threads take the assets of a page and in whatever order their
\* connections open, end and fail, the report counts every asset once, every
\* connection as closed, and the bytes of the bodies (page_worker, fetch_asset_on_fd).
THEOREM PageReportExact == Spec => []ReportIsExact
<1>1. Init => BenchInv
  BY BenchInitHolds DEF Init
<1>2. BenchInv /\ [Next]_vars => BenchInv'
  BY BenchStepHolds
<1>3. BenchInv => ReportIsExact
  BY ReportFromInvariant
<1> QED
  BY <1>1, <1>2, <1>3, PTL DEF Spec
=============================================================================
