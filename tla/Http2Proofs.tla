----------------------------- MODULE Http2Proofs -----------------------------
(***************************************************************************)
(* Proofs about HTTP/2 connections for every number of workers, streams    *)
(* and attempts: loopback descriptors are owned by the streams that wait   *)
(* on them and counted, poll_streams points at live streams, and a stream  *)
(* is answered once, with a whole answer.                                  *)
(***************************************************************************)
EXTENDS Http2, FiniteSetTheorems, TLAPS

\* What holds of a stream that has been answered n times.  A descriptor is open
\* exactly while an attempt is in progress, and named by the last attempt; the
\* answer is read into raw to its end in the step that ends the attempt.
Sound(r, n) ==
    /\ (r.fd # NoFd) <=> (r.st = "open" /\ InProgress(r))
    /\ r.fd # NoFd => r.fd = r.attempts
    /\ r.st \in {"none", "sent"} => (n = 0 /\ r.attempts = 0)
    /\ r.st # "open" =>
         (r.backend = "NONE" /\ r.submitted = FALSE /\ r.resp = "none" /\ r.raw = "none")
    /\ r.st = "open" => n = IF r.submitted THEN 1 ELSE 0
    /\ n <= 1
    /\ r.submitted => ~InProgress(r)
    /\ InProgress(r) => r.raw \in {"none", "part"}
    /\ r.raw = "whole" => r.ans = "whole"
    /\ r.resp = "ok" => (r.ans = "whole" /\ r.submitted)

StreamsSound == \A s \in Streams : Sound(str[s], subs[s])

\* The descriptors that streams hold.
Held == {<<s, str[s].fd>> : s \in {t \in Streams : str[t].fd # NoFd}}

SocksOwned ==
    /\ socks \subseteq Held
    /\ \A s \in Streams : str[s].fd # NoFd /\ ConnOf[s] \notin used => <<s, str[s].fd>> \in socks

\* The streams of a connection that wait on a descriptor.
Waiting(w) == {s \in Streams : ConnOf[s] = w /\ str[s].fd # NoFd}

CountRight ==
    \A w \in Workers : /\ active[w] <= Cardinality(Waiting(w))
                       /\ w \notin used => active[w] = Cardinality(Waiting(w))

\* What poll reported is of this connection, and waits on a descriptor until it is
\* handled, unless it was freed in between because of what its client did.
PollSound ==
    \A w \in Workers : \A s \in rset[w] :
        /\ ConnOf[s] = w
        /\ wpc[w] \in {"read", "progress"} =>
              \/ str[s].st = "open" /\ str[s].fd # NoFd
              \/ str[s].st = "freed" /\ str[s].fault # "none"

\* The inductive invariant.
H2Inv ==
    /\ TypeOK
    /\ StreamsSound
    /\ SocksOwned
    /\ CountRight
    /\ PollSound

(***************************************************************************)
(* One stream.                                                             *)
(***************************************************************************)

\* What the proofs need of the constants.
LEMMA ConstantFacts ==
    /\ MaxAttempts \in Nat /\ MaxAttempts >= 1 /\ IdleTurns \in Nat /\ IdleTurns >= 1
    /\ ConnOf \in [Streams -> Workers] /\ IsFiniteSet(Streams)
    /\ Kinds \subseteq {"get", "post", "body"}
  BY Http2Assumption

\* The fields of a stream.
LEMMA FieldTypes ==
    ASSUME NEW r \in StreamRecord
    PROVE  /\ r.st \in {"none", "sent", "open", "freed"}
           /\ r.kind \in {"get", "post", "body"} /\ r.fault \in {"none", "sent", "queued"}
           /\ r.backend \in {"NONE", "CONNECTING", "READING", "DONE", "FAILED"}
           /\ r.attempts \in 0..MaxAttempts /\ r.fd \in 0..MaxAttempts
           /\ r.ans \in {"none", "part", "whole", "short", "torn"}
           /\ r.raw \in {"none", "part", "whole", "short", "torn"}
           /\ r.submitted \in BOOLEAN
           /\ r.resp \in {"none", "ok", "short", "502", "405"}
  BY DEF StreamRecord

\* A stream nobody has sent is sound.
LEMMA FreshSound == Fresh \in StreamRecord /\ Sound(Fresh, 0) /\ Fresh.fd = NoFd
  BY ConstantFacts DEF Fresh, StreamRecord, Sound, NoFd, Nobody, InProgress

\* remove_stream leaves nothing of a stream but that it was there, and at fault.
LEMMA RemovedSound ==
    ASSUME NEW r \in StreamRecord, NEW n \in Nat, n <= 1
    PROVE  /\ Removed(r) \in StreamRecord /\ Sound(Removed(r), n)
           /\ Removed(r).fd = NoFd /\ Removed(r).st = "freed" /\ Removed(r).fault = r.fault
<1> DEFINE q == Removed(r)
<1>1. q \in StreamRecord
  <2>1. PICK f \in {"none", "sent", "queued"} : f = r.fault
    BY FieldTypes
  <2>2. q = [Fresh EXCEPT !.st = "freed", !.fault = f]
    BY <2>1 DEF Removed
  <2> HIDE DEF q
  <2> QED
    BY <2>2, FreshSound DEF StreamRecord
<1>2. /\ q.st = "freed" /\ q.fd = NoFd /\ q.backend = "NONE" /\ q.submitted = FALSE
      /\ q.resp = "none" /\ q.raw = "none" /\ q.fault = r.fault
  BY DEF Removed, Fresh
<1> HIDE DEF q
<1>3. Sound(q, n)
  BY <1>2 DEF Sound, InProgress
<1> QED
  BY <1>1, <1>2, <1>3 DEF q

\* A stream is answered when it is ready, and counts as answered then.
LEMMA SubmittedSound ==
    ASSUME NEW r \in StreamRecord, NEW n \in Nat, Sound(r, n)
    PROVE  LET m == IF Ready(r) THEN n + 1 ELSE n IN
           /\ Submitted(r) \in StreamRecord /\ Sound(Submitted(r), m) /\ m <= 1
           /\ Submitted(r).fd = r.fd /\ Submitted(r).st = r.st
<1>1. CASE Ready(r)
  <2>1. /\ r.st = "open" /\ r.submitted = FALSE /\ r.backend \in {"DONE", "FAILED"}
    BY <1>1, FieldTypes DEF Ready
  <2>2. n = 0 /\ r.fd = NoFd /\ ~InProgress(r)
    BY <2>1 DEF Sound, InProgress
  <2> DEFINE q == Submitted(r)
  <2>3. q = [r EXCEPT !.submitted = TRUE,
                      !.resp = IF r.backend = "DONE" THEN Parsed(r.raw) ELSE "502",
                      !.raw = "none"]
    BY <1>1 DEF Submitted
  <2>4. /\ Parsed(r.raw) \in {"ok", "short", "502"}
        /\ (Parsed(r.raw) = "ok" => r.raw = "whole")
    BY DEF Parsed
  <2>5. /\ q.st = r.st /\ q.fd = r.fd /\ q.backend = r.backend /\ q.ans = r.ans
        /\ q.submitted = TRUE /\ q.raw = "none" /\ q.attempts = r.attempts
        /\ q.resp \in {"ok", "short", "502"} /\ (q.resp = "ok" => r.raw = "whole")
    <3>1. PICK v : /\ v = IF r.backend = "DONE" THEN Parsed(r.raw) ELSE "502"
                   /\ v \in {"ok", "short", "502"} /\ (v = "ok" => r.raw = "whole")
      BY <2>4
    <3>2. q = [r EXCEPT !.submitted = TRUE, !.resp = v, !.raw = "none"]
      BY <2>3, <3>1
    <3> HIDE DEF q
    <3>3. /\ q.st = r.st /\ q.fd = r.fd /\ q.backend = r.backend /\ q.ans = r.ans
          /\ q.submitted = TRUE /\ q.raw = "none" /\ q.attempts = r.attempts
          /\ q.resp = v
      BY <3>2, ZenonT(60) DEF StreamRecord
    <3> QED
      BY <3>1, <3>3, Zenon
  <2>6. q \in StreamRecord
    <3>1. PICK v : /\ v = IF r.backend = "DONE" THEN Parsed(r.raw) ELSE "502"
                   /\ v \in {"ok", "short", "502"}
      BY <2>4
    <3>2. q = [r EXCEPT !.submitted = TRUE, !.resp = v, !.raw = "none"]
      BY <2>3, <3>1
    <3> HIDE DEF q
    <3> QED
      BY <3>1, <3>2, ZenonT(60) DEF StreamRecord
  <2>7. Sound(q, 1)
    <3> HIDE DEF q
    <3> QED
      BY <2>1, <2>2, <2>5 DEF Sound, InProgress
  <2> QED
    BY <1>1, <2>2, <2>5, <2>6, <2>7
<1>2. CASE ~Ready(r)
  <2>1. n <= 1
    BY DEF Sound
  <2> QED
    BY <1>2, <2>1 DEF Submitted
<1> QED
  BY <1>1, <1>2

\* A stream without an answer whose last attempt, if any, is over or given up.
LEMMA StartingSound ==
    ASSUME NEW r \in StreamRecord, NEW t \in Choices, r.st = "open",
           r.attempts < MaxAttempts, r.submitted = FALSE, r.resp # "ok",
           r.raw = "none"
    PROVE  LET q == Starting(r, t) IN
           /\ q \in StreamRecord /\ Sound(q, 0) /\ q.st = "open"
           /\ q.fd = IF t = Nobody THEN NoFd ELSE r.attempts + 1
<1>0. r.attempts + 1 \in 1..MaxAttempts
  BY ConstantFacts, FieldTypes
<1>a. NoFd \in 0..MaxAttempts /\ r.attempts + 1 \in 0..MaxAttempts
  BY <1>0, ConstantFacts DEF NoFd
<1>1. CASE t = Nobody
  <2> DEFINE q == StartFailed(r)
  <2>1. q \in StreamRecord
    BY <1>a DEF StartFailed, StreamRecord
  <2>2. /\ q.st = "open" /\ q.fd = NoFd /\ q.backend = "FAILED" /\ q.submitted = FALSE
        /\ q.resp # "ok" /\ q.raw = "none"
    BY DEF StartFailed, StreamRecord
  <2>3. Sound(q, 0)
    <3> HIDE DEF q
    <3> QED
      BY <2>2 DEF Sound, InProgress
  <2> QED
    BY <1>1, <2>1, <2>2, <2>3 DEF Starting
<1>2. CASE t # Nobody
  <2>0. t \in Workers
    BY <1>2 DEF Choices
  <2> DEFINE q == Started(r, t)
  <2>1. q \in StreamRecord
    BY <1>a, <2>0 DEF Started, StreamRecord
  <2>2. /\ q.st = "open" /\ q.fd = r.attempts + 1 /\ q.backend = "CONNECTING"
        /\ q.submitted = FALSE /\ q.attempts = r.attempts + 1
        /\ q.resp # "ok" /\ q.raw = "none"
    BY DEF Started, StreamRecord
  <2>3. q.fd # NoFd
    BY <1>0, <2>2 DEF NoFd
  <2>4. Sound(q, 0)
    <3> HIDE DEF q
    <3> QED
      BY <2>2, <2>3 DEF Sound, InProgress
  <2> QED
    BY <1>2, <2>1, <2>2, <2>4 DEF Starting
<1> QED
  BY <1>1, <1>2

(***************************************************************************)
(* The descriptors.                                                        *)
(***************************************************************************)

\* Streams that wait have a descriptor each.
LEMMA ClosingCounted ==
    ASSUME NEW C \in SUBSET Streams
    PROVE  LET W == {s \in C : str[s].fd # NoFd} IN
           /\ IsFiniteSet(W) /\ Cardinality(Closing(C)) = Cardinality(W)
<1> DEFINE W == {s \in C : str[s].fd # NoFd}
           f == [s \in W |-> <<s, str[s].fd>>]
<1>1. IsFiniteSet(W)
  BY ConstantFacts, FS_Subset
<1>2. f \in Bijection(W, Closing(C))
  <2>1. Closing(C) = {<<s, str[s].fd>> : s \in W}
    BY DEF Closing
  <2>2. f \in [W -> Closing(C)]
    BY <2>1
  <2>3. \A a, b \in W : f[a] = f[b] => a = b
    OBVIOUS
  <2>4. \A t \in Closing(C) : \E s \in W : f[s] = t
    BY <2>1
  <2> HIDE DEF f, W
  <2> QED
    BY <2>2, <2>3, <2>4 DEF Bijection, Injection, Surjection, IsInjective
<1>3. ExistsBijection(W, Closing(C))
  BY <1>2 DEF ExistsBijection
<1> QED
  BY <1>1, <1>3, FS_Bijection

\* No connection has more streams that wait than there are streams.
LEMMA CountInBounds ==
    ASSUME CountRight', active' = [v \in Workers |-> active'[v]],
           \A v \in Workers : active'[v] \in Nat
    PROVE  active' \in [Workers -> 0..Cardinality(Streams)]
<1>1. \A v \in Workers : active'[v] \in 0..Cardinality(Streams)
  <2> TAKE v \in Workers
  <2>1. Waiting(v)' \in SUBSET Streams
    BY DEF Waiting
  <2>2. IsFiniteSet(Waiting(v)') /\ Cardinality(Waiting(v)') <= Cardinality(Streams)
    BY <2>1, ConstantFacts, FS_Subset
  <2>3. Cardinality(Waiting(v)') \in Nat /\ Cardinality(Streams) \in Nat
    BY <2>2, ConstantFacts, FS_CardinalityType
  <2> QED
    BY <2>2, <2>3 DEF CountRight
<1> QED
  BY <1>1

\* A worker closes the descriptors of C, and opens new ones for B.
LEMMA BooksKept ==
    ASSUME H2Inv, NEW w \in Workers, NEW C \in SUBSET Streams, NEW B \in SUBSET Streams,
           str' \in [Streams -> StreamRecord], used \subseteq used',
           \A s \in C \cup B : ConnOf[s] = w,
           \A s \in B : str[s].fd = NoFd \/ s \in C,
           \A s \in Streams : str'[s].fd = IF s \in B THEN str[s].attempts + 1
                                          ELSE IF s \in C THEN NoFd ELSE str[s].fd,
           socks' = (socks \ Closing(C)) \cup {<<s, str[s].attempts + 1>> : s \in B},
           active' = [active EXCEPT ![w] =
                        Lowered(@, Cardinality(Closing(C))) + Cardinality(B)]
    PROVE  /\ SocksOwned' /\ CountRight'
           /\ socks' \subseteq Streams \X (1..MaxAttempts)
           /\ active' \in [Workers -> 0..Cardinality(Streams)]
<1> DEFINE W == {s \in C : str[s].fd # NoFd}
<1>0. TypeOK /\ SocksOwned /\ CountRight
  BY DEF H2Inv
<1>1. \A s \in Streams : /\ str[s] \in StreamRecord /\ str[s].attempts \in Nat
                         /\ str'[s] \in StreamRecord /\ str'[s].fd \in 0..MaxAttempts
                         /\ str[s].attempts + 1 # NoFd
  BY <1>0, FieldTypes, ConstantFacts DEF TypeOK, NoFd
<1>2. SocksOwned'
  <2>1. socks' \subseteq Held'
    <3> SUFFICES ASSUME NEW x \in socks' PROVE x \in Held'
      OBVIOUS
    <3>1. CASE x \in socks \ Closing(C)
      <4>1. PICK s \in Streams : x = <<s, str[s].fd>> /\ str[s].fd # NoFd
        BY <1>0, <3>1 DEF SocksOwned, Held
      <4>2. s \notin C
        BY <3>1, <4>1 DEF Closing
      <4>3. str'[s].fd = str[s].fd
        BY <4>1, <4>2
      <4> QED
        BY <4>1, <4>3 DEF Held
    <3>2. CASE x \in {<<s, str[s].attempts + 1>> : s \in B}
      BY <1>1, <3>2 DEF Held
    <3> QED
      BY <3>1, <3>2
  <2>2. ASSUME NEW s \in Streams, str'[s].fd # NoFd, ConnOf[s] \notin used'
        PROVE  <<s, str'[s].fd>> \in socks'
    <3>1. CASE s \in B
      BY <3>1
    <3>2. CASE s \notin B
      <4>1. s \notin C /\ str'[s].fd = str[s].fd
        BY <2>2, <3>2
      <4>2. <<s, str[s].fd>> \in socks \ Closing(C)
        BY <1>0, <2>2, <4>1 DEF SocksOwned, Closing
      <4> QED
        BY <4>1, <4>2
    <3> QED
      BY <3>1, <3>2
  <2> QED
    BY <2>1, <2>2 DEF SocksOwned
<1>3. \A s \in Streams : str'[s].fd # NoFd => str'[s].fd \in 1..MaxAttempts
  BY <1>1 DEF NoFd
<1>4. socks' \subseteq Streams \X (1..MaxAttempts)
  BY <1>2, <1>3 DEF SocksOwned, Held
<1>5. Waiting(w)' = (Waiting(w) \ W) \cup B
  BY <1>1 DEF Waiting
<1>6. \A v \in Workers : v # w => Waiting(v)' = Waiting(v)
  BY DEF Waiting
<1>7. /\ IsFiniteSet(W) /\ IsFiniteSet(Waiting(w)) /\ IsFiniteSet(B)
      /\ Cardinality(Closing(C)) = Cardinality(W)
  BY ConstantFacts, FS_Subset, ClosingCounted DEF Waiting
<1>8. W \cap Waiting(w) = W /\ Waiting(w) \cap W = W /\ (Waiting(w) \ W) \cap B = {}
      /\ W \subseteq Waiting(w)
  BY DEF Waiting
<1>9. /\ active'[w] \in Nat /\ active'[w] <= Cardinality(Waiting(w)')
      /\ w \notin used => active'[w] = Cardinality(Waiting(w)')
  <2> HIDE DEF W
  <2> DEFINE R == Waiting(w) \ W
  <2>1. /\ Cardinality(Waiting(w)) \in Nat /\ Cardinality(W) \in Nat
        /\ Cardinality(B) \in Nat /\ Cardinality(W) <= Cardinality(Waiting(w))
    BY <1>7, <1>8, FS_CardinalityType, FS_Subset
  <2>2. IsFiniteSet(R) /\ Cardinality(R) = Cardinality(Waiting(w)) - Cardinality(W)
    <3>1. /\ IsFiniteSet(Waiting(w) \ W)
          /\ Cardinality(Waiting(w) \ W)
               = Cardinality(Waiting(w)) - Cardinality(Waiting(w) \cap W)
      BY <1>7, FS_Difference
    <3> QED
      BY <1>8, <3>1
  <2>3. Cardinality(R \cap B) = 0
    BY <1>8, FS_EmptySet
  <2>4. Cardinality(R \cup B) = Cardinality(R) + Cardinality(B) - Cardinality(R \cap B)
    <3> HIDE DEF R
    <3> QED
      BY <1>7, <2>2, FS_Union
  <2>5. /\ active[w] \in Nat /\ active[w] <= Cardinality(Waiting(w))
        /\ w \notin used => active[w] = Cardinality(Waiting(w))
    BY <1>0 DEF CountRight, TypeOK
  <2>6. active'[w] = Lowered(active[w], Cardinality(W)) + Cardinality(B)
    BY <1>0, <1>7 DEF TypeOK
  <2>7. /\ Lowered(active[w], Cardinality(W)) \in Nat
        /\ Lowered(active[w], Cardinality(W)) <= Cardinality(R)
        /\ w \notin used => Lowered(active[w], Cardinality(W)) = Cardinality(R)
    <3> HIDE DEF R
    <3> QED
      BY <2>1, <2>2, <2>5 DEF Lowered
  <2>8. Cardinality(Waiting(w)') = Cardinality(R \cup B)
    BY <1>5
  <2> HIDE DEF R
  <2>9. Cardinality(R) \in Nat
    BY <2>2, FS_CardinalityType
  <2>10. Cardinality(Waiting(w)') = Cardinality(R) + Cardinality(B)
    BY <2>1, <2>3, <2>4, <2>8, <2>9
  <2> QED
    BY <2>1, <2>6, <2>7, <2>9, <2>10
<1>10. \A v \in Workers : v # w => active'[v] = active[v]
  BY <1>0 DEF TypeOK
<1>11. CountRight'
  BY <1>0, <1>6, <1>9, <1>10 DEF CountRight
<1>12. active' \in [Workers -> 0..Cardinality(Streams)]
  <2>1. active' = [v \in Workers |-> active'[v]]
    BY <1>0 DEF TypeOK
  <2>2. \A v \in Workers : active'[v] \in Nat
    BY <1>0, <1>9, <1>10 DEF TypeOK
  <2> QED
    BY <1>11, <2>1, <2>2, CountInBounds
<1> QED
  BY <1>2, <1>4, <1>11, <1>12

\* A worker closes the descriptors of C.
LEMMA BooksClosed ==
    ASSUME H2Inv, NEW w \in Workers, NEW C \in SUBSET Streams, \A s \in C : ConnOf[s] = w,
           str' \in [Streams -> StreamRecord], used \subseteq used',
           \A s \in Streams : str'[s].fd = IF s \in C THEN NoFd ELSE str[s].fd,
           socks' = socks \ Closing(C),
           active' = [active EXCEPT ![w] = Lowered(@, Cardinality(Closing(C)))]
    PROVE  /\ SocksOwned' /\ CountRight'
           /\ socks' \subseteq Streams \X (1..MaxAttempts)
           /\ active' \in [Workers -> 0..Cardinality(Streams)]
<1> DEFINE B == {}
<1>0. TypeOK
  BY DEF H2Inv
<1>1. /\ B \in SUBSET Streams /\ \A u \in C \cup B : ConnOf[u] = w
      /\ \A u \in B : str[u].fd = NoFd \/ u \in C
  OBVIOUS
<1>2. socks' = (socks \ Closing(C)) \cup {<<u, str[u].attempts + 1>> : u \in B}
  OBVIOUS
<1>3. \A u \in Streams : str'[u].fd = IF u \in B THEN str[u].attempts + 1
                                      ELSE IF u \in C THEN NoFd ELSE str[u].fd
  OBVIOUS
<1>4. active' = [active EXCEPT ![w] = Lowered(@, Cardinality(Closing(C))) + Cardinality(B)]
  <2>1. Cardinality(B) = 0
    BY FS_EmptySet
  <2>2. active[w] \in Nat
    BY <1>0 DEF TypeOK
  <2>3. Cardinality(Closing(C)) \in Nat
    <3>1. IsFiniteSet({u \in C : str[u].fd # NoFd})
      BY ConstantFacts, FS_Subset
    <3>2. Cardinality({u \in C : str[u].fd # NoFd}) \in Nat
      BY <3>1, FS_CardinalityType
    <3> QED
      BY <3>2, ClosingCounted
  <2> HIDE DEF B
  <2>4. Lowered(active[w], Cardinality(Closing(C))) \in Int
    BY <2>2, <2>3 DEF Lowered
  <2>5. Lowered(active[w], Cardinality(Closing(C)))
          = Lowered(active[w], Cardinality(Closing(C))) + Cardinality(B)
    BY <2>1, <2>4
  <2> QED
    BY <2>5
<1> HIDE DEF B
<1> QED
  BY <1>1, <1>2, <1>3, <1>4, BooksKept, ZenonT(200)

\* No descriptor is opened or closed.
LEMMA BooksSame ==
    ASSUME H2Inv, \A s \in Streams : str'[s].fd = str[s].fd, UNCHANGED <<socks, active>>,
           used \subseteq used'
    PROVE  /\ SocksOwned' /\ CountRight'
           /\ socks' \subseteq Streams \X (1..MaxAttempts)
           /\ active' \in [Workers -> 0..Cardinality(Streams)]
<1>0. TypeOK /\ SocksOwned /\ CountRight
  BY DEF H2Inv
<1>1. \A v \in Workers : Waiting(v)' = Waiting(v)
  BY DEF Waiting
<1>2. CountRight'
  BY <1>0, <1>1 DEF CountRight
<1>3. SocksOwned'
  BY <1>0 DEF SocksOwned, Held
<1> QED
  BY <1>0, <1>2, <1>3 DEF TypeOK

\* A second close of what a freed stream held takes at most a descriptor of its own
\* connection, and lowers its count once more.
LEMMA BooksLoosened ==
    ASSUME H2Inv, NEW w \in Workers, used' = used \cup {w},
           \A s \in Streams : str'[s].fd = str[s].fd,
           \/ socks' = socks
           \/ \E t \in Streams : ConnOf[t] = w /\ socks' = socks \ Closing({t}),
           active' = [active EXCEPT ![w] = Lowered(@, 1)]
    PROVE  /\ SocksOwned' /\ CountRight'
           /\ socks' \subseteq Streams \X (1..MaxAttempts)
           /\ active' \in [Workers -> 0..Cardinality(Streams)]
<1>0. TypeOK /\ SocksOwned /\ CountRight
  BY DEF H2Inv
<1>1. \A v \in Workers : Waiting(v)' = Waiting(v)
  BY DEF Waiting
<1>2. /\ socks' \subseteq socks
      /\ \A s \in Streams : \A n : ConnOf[s] # w /\ <<s, n>> \in socks => <<s, n>> \in socks'
  BY DEF Closing
<1>3. SocksOwned'
  BY <1>0, <1>2 DEF SocksOwned, Held
<1>4. /\ active[w] \in Nat /\ active'[w] = Lowered(active[w], 1)
      /\ \A v \in Workers : v # w => active'[v] = active[v] /\ active'[v] \in Nat
      /\ active' = [v \in Workers |-> active'[v]]
  <2>1. active \in [Workers -> Nat]
    BY <1>0 DEF TypeOK
  <2> QED
    BY <2>1
<1>5. active'[w] \in Nat /\ active'[w] <= active[w]
  BY <1>4 DEF Lowered
<1>6. Cardinality(Waiting(w)) \in Nat
  BY ConstantFacts, FS_Subset, FS_CardinalityType DEF Waiting
<1>7. CountRight'
  <2>1. active'[w] <= Cardinality(Waiting(w))
    BY <1>0, <1>4, <1>5, <1>6 DEF CountRight
  <2> QED
    BY <1>0, <1>1, <1>4, <2>1 DEF CountRight
<1>8. active' \in [Workers -> 0..Cardinality(Streams)]
  BY <1>4, <1>5, <1>7, CountInBounds
<1> QED
  BY <1>0, <1>2, <1>3, <1>7, <1>8 DEF TypeOK

\* What poll reported stays sound when a worker's own turn keeps it sound and the
\* streams of the other connections stay as they are.
LEMMA PollKept ==
    ASSUME H2Inv, NEW w \in Workers,
           \A s \in Streams : ConnOf[s] # w => str'[s] = str[s],
           \A v \in Workers : v # w => rset'[v] = rset[v] /\ wpc'[v] = wpc[v],
           rset'[w] \subseteq Streams,
           \A s \in rset'[w] :
               /\ ConnOf[s] = w
               /\ wpc'[w] \in {"read", "progress"} =>
                     \/ str'[s].st = "open" /\ str'[s].fd # NoFd
                     \/ str'[s].st = "freed" /\ str'[s].fault # "none"
    PROVE  PollSound'
<1>0. TypeOK /\ PollSound
  BY DEF H2Inv
<1> SUFFICES ASSUME NEW v \in Workers, NEW s \in rset'[v]
             PROVE  /\ ConnOf[s] = v
                    /\ wpc'[v] \in {"read", "progress"} =>
                          \/ str'[s].st = "open" /\ str'[s].fd # NoFd
                          \/ str'[s].st = "freed" /\ str'[s].fault # "none"
  BY DEF PollSound
<1>1. CASE v = w
  BY <1>1
<1>2. CASE v # w
  <2>1. s \in rset[v] /\ s \in Streams
    BY <1>0, <1>2 DEF TypeOK
  <2>2. /\ ConnOf[s] = v
        /\ wpc[v] \in {"read", "progress"} =>
              \/ str[s].st = "open" /\ str[s].fd # NoFd
              \/ str[s].st = "freed" /\ str[s].fault # "none"
    BY <1>0, <2>1 DEF PollSound
  <2> QED
    BY <1>2, <2>1, <2>2
<1> QED
  BY <1>1, <1>2

\* The same when no stream changes its place or descriptor and the turn goes on.
LEMMA PollSame ==
    ASSUME H2Inv,
           \A s \in Streams : /\ str'[s].fd = str[s].fd
                              /\ str[s].st = "open" => str'[s].st = "open"
                              /\ str[s].st = "freed" => str'[s] = str[s],
           UNCHANGED rset,
           \A v \in Workers : wpc'[v] \in {"read", "progress"} => wpc[v] \in {"read", "progress"}
    PROVE  PollSound'
  BY DEF H2Inv, TypeOK, PollSound

(***************************************************************************)
(* Steps that change one stream.                                           *)
(***************************************************************************)

\* The invariant taken apart, with what it says of one stream.
LEMMA InvFacts ==
    ASSUME H2Inv
    PROVE  /\ TypeOK /\ StreamsSound /\ SocksOwned /\ CountRight /\ PollSound
           /\ \A s \in Streams : /\ str[s] \in StreamRecord /\ subs[s] \in Nat
                                /\ Sound(str[s], subs[s]) /\ ConnOf[s] \in Workers
  BY ConstantFacts DEF H2Inv, TypeOK, StreamsSound

\* Replacing one sound stream by another keeps all of them sound.
LEMMA OneStream ==
    ASSUME H2Inv, NEW s \in Streams, NEW q \in StreamRecord, NEW n \in Nat, Sound(q, n),
           str' = [str EXCEPT ![s] = q], subs' = [subs EXCEPT ![s] = n]
    PROVE  /\ str' \in [Streams -> StreamRecord] /\ subs' \in [Streams -> Nat]
           /\ StreamsSound'
           /\ str'[s] = q /\ \A t \in Streams : t # s => str'[t] = str[t]
<1>1. TypeOK /\ \A t \in Streams : Sound(str[t], subs[t])
  BY InvFacts
<1>2. /\ str' \in [Streams -> StreamRecord] /\ subs' \in [Streams -> Nat]
      /\ str'[s] = q /\ subs'[s] = n
      /\ \A t \in Streams : t # s => str'[t] = str[t] /\ subs'[t] = subs[t]
  BY <1>1 DEF TypeOK
<1>3. \A t \in Streams : Sound(str'[t], subs'[t])
  BY <1>1, <1>2
<1>4. StreamsSound'
  BY <1>3 DEF StreamsSound
<1> QED
  BY <1>2, <1>4

\* The count of answers stays.
LEMMA OneStreamUncounted ==
    ASSUME H2Inv, NEW s \in Streams, NEW q \in StreamRecord, Sound(q, subs[s]),
           str' = [str EXCEPT ![s] = q], subs' = subs
    PROVE  /\ str' \in [Streams -> StreamRecord] /\ subs' \in [Streams -> Nat]
           /\ StreamsSound'
           /\ str'[s] = q /\ \A t \in Streams : t # s => str'[t] = str[t]
<1>1. subs \in [Streams -> Nat]
  BY InvFacts DEF TypeOK
<1>2. subs[s] \in Nat /\ subs' = [subs EXCEPT ![s] = subs[s]]
  BY <1>1
<1> QED
  BY <1>2, OneStream

\* A request on its way keeps its stream sound.
LEMMA SentSound ==
    ASSUME NEW r \in StreamRecord, NEW n \in Nat, Sound(r, n), r.st = "none", NEW k \in Kinds
    PROVE  LET q == [r EXCEPT !.st = "sent", !.kind = k] IN
           q \in StreamRecord /\ Sound(q, n) /\ q.fd = r.fd
<1> DEFINE q == [r EXCEPT !.st = "sent", !.kind = k]
<1>1. q \in StreamRecord
  BY ConstantFacts DEF StreamRecord
<1>2. /\ q.st = "sent" /\ q.fd = r.fd /\ q.backend = r.backend /\ q.submitted = r.submitted
      /\ q.attempts = r.attempts /\ q.ans = r.ans /\ q.raw = r.raw /\ q.resp = r.resp
  BY DEF StreamRecord
<1> HIDE DEF q
<1>3. Sound(q, n)
  BY <1>2 DEF Sound, InProgress
<1> QED
  BY <1>1, <1>2, <1>3 DEF q

\* So does a fault of the client, on its way or read.
LEMMA FaultSound ==
    ASSUME NEW r \in StreamRecord, NEW n \in Nat, Sound(r, n), NEW f \in {"sent", "queued"}
    PROVE  LET q == [r EXCEPT !.fault = f] IN
           q \in StreamRecord /\ Sound(q, n) /\ q.fd = r.fd /\ q.st = r.st
<1> DEFINE q == [r EXCEPT !.fault = f]
<1>1. q \in StreamRecord
  BY DEF StreamRecord
<1>2. /\ q.st = r.st /\ q.fd = r.fd /\ q.backend = r.backend /\ q.submitted = r.submitted
      /\ q.attempts = r.attempts /\ q.ans = r.ans /\ q.raw = r.raw /\ q.resp = r.resp
  BY DEF StreamRecord
<1> HIDE DEF q
<1>3. Sound(q, n)
  BY <1>2 DEF Sound, InProgress
<1> QED
  BY <1>1, <1>2, <1>3 DEF q

\* An answer grows only while its stream waits on it.
LEMMA AnswerSound ==
    ASSUME NEW r \in StreamRecord, NEW n \in Nat, Sound(r, n), r.fd # NoFd,
           NEW a \in {"part", "whole", "short", "torn"}
    PROVE  LET q == [r EXCEPT !.ans = a] IN
           q \in StreamRecord /\ Sound(q, n) /\ q.fd = r.fd /\ q.st = r.st
<1> DEFINE q == [r EXCEPT !.ans = a]
<1>1. q \in StreamRecord
  BY DEF StreamRecord
<1>2. /\ q.st = r.st /\ q.fd = r.fd /\ q.backend = r.backend /\ q.submitted = r.submitted
      /\ q.attempts = r.attempts /\ q.raw = r.raw /\ q.resp = r.resp
  BY DEF StreamRecord
<1>3. r.submitted \in BOOLEAN
  BY FieldTypes
<1> HIDE DEF q
<1>4. Sound(q, n)
  BY <1>2, <1>3 DEF Sound, InProgress
<1> QED
  BY <1>1, <1>2, <1>4 DEF q

\* What the clients do.
LEMMA ClientKeeps ==
    ASSUME H2Inv, ClientStep
    PROVE  H2Inv'
<1>0. TypeOK /\ StreamsSound /\ SocksOwned /\ CountRight /\ PollSound
  BY InvFacts
<1>1. ASSUME NEW w \in Workers, ClientConnects(w) \/ ClientCloses(w)
      PROVE  H2Inv'
  <2>1. UNCHANGED <<wpc, job, str, socks, active, rset, idle, used, subs>>
    BY <1>1 DEF ClientConnects, ClientCloses
  <2>2. TypeOK'
    <3>1. /\ conn' \in [Workers -> {"none", "backlog", "open", "ended"}]
          /\ bye' \in [Workers -> BOOLEAN]
      BY <1>0, <1>1 DEF ClientConnects, ClientCloses, TypeOK
    <3> QED
      BY <1>0, <2>1, <3>1 DEF TypeOK
  <2>3. StreamsSound' /\ SocksOwned' /\ CountRight' /\ PollSound'
    BY <1>0, <2>1 DEF StreamsSound, SocksOwned, Held, CountRight, PollSound, Waiting
  <2> QED
    BY <2>2, <2>3 DEF H2Inv
<1>2. ASSUME NEW s \in Streams, ClientRequests(s) \/ ClientResets(s)
      PROVE  H2Inv'
  <2>0. /\ str[s] \in StreamRecord /\ subs[s] \in Nat /\ Sound(str[s], subs[s])
        /\ str \in [Streams -> StreamRecord]
    BY <1>0, InvFacts DEF TypeOK
  <2>1. UNCHANGED <<conn, bye, wpc, job, socks, active, rset, idle, used, subs>>
    BY <1>2 DEF ClientRequests, ClientResets
  <2>2. \E q \in StreamRecord :
          /\ Sound(q, subs[s]) /\ str' = [str EXCEPT ![s] = q] /\ q.fd = str[s].fd
          /\ str[s].st = "open" => q.st = "open"
          /\ str[s].st # "freed"
    <3>1. CASE ClientRequests(s)
      <4>1. PICK k \in Kinds : str' = [str EXCEPT ![s].st = "sent", ![s].kind = k]
        BY <3>1 DEF ClientRequests
      <4> DEFINE q == [str[s] EXCEPT !.st = "sent", !.kind = k]
      <4>2. str' = [str EXCEPT ![s] = q] /\ str[s].st = "none"
        BY <2>0, <3>1, <4>1 DEF ClientRequests
      <4>3. q \in StreamRecord /\ Sound(q, subs[s]) /\ q.fd = str[s].fd
        BY <2>0, <4>2, SentSound
      <4> HIDE DEF q
      <4> QED
        BY <4>2, <4>3
    <3>2. CASE ClientResets(s)
      <4> DEFINE q == [str[s] EXCEPT !.fault = "sent"]
      <4>1. str' = [str EXCEPT ![s] = q] /\ str[s].st # "freed"
        BY <2>0, <3>2 DEF ClientResets
      <4>2. q \in StreamRecord /\ Sound(q, subs[s]) /\ q.fd = str[s].fd /\ q.st = str[s].st
        BY <2>0, FaultSound
      <4> HIDE DEF q
      <4> QED
        BY <4>1, <4>2
    <3> QED
      BY <1>2, <3>1, <3>2
  <2>3. PICK q \in StreamRecord :
          /\ Sound(q, subs[s]) /\ str' = [str EXCEPT ![s] = q] /\ q.fd = str[s].fd
          /\ str[s].st = "open" => q.st = "open"
          /\ str[s].st # "freed"
    BY <2>2
  <2>4. /\ str' \in [Streams -> StreamRecord] /\ subs' \in [Streams -> Nat] /\ StreamsSound'
        /\ str'[s] = q /\ \A t \in Streams : t # s => str'[t] = str[t]
    BY <2>1, <2>3, OneStreamUncounted
  <2>5. \A t \in Streams : /\ str'[t].fd = str[t].fd
                           /\ str[t].st = "open" => str'[t].st = "open"
                           /\ str[t].st = "freed" => str'[t] = str[t]
    BY <2>3, <2>4
  <2>6. SocksOwned' /\ CountRight'
    BY <2>1, <2>5, BooksSame
  <2>7. PollSound'
    BY <2>1, <2>5, PollSame
  <2>8. TypeOK'
    BY <1>0, <2>1, <2>4 DEF TypeOK
  <2> QED
    BY <2>4, <2>6, <2>7, <2>8 DEF H2Inv
<1> QED
  BY <1>1, <1>2 DEF ClientStep

(***************************************************************************)
(* Steps of a worker that leave the streams alone.                         *)
(***************************************************************************)

\* The parts of H2Inv that only depend on the streams and their descriptors.
LEMMA StreamsUntouched ==
    ASSUME H2Inv, UNCHANGED <<str, socks, active, subs>>, used \subseteq used'
    PROVE  StreamsSound' /\ SocksOwned' /\ CountRight'
  BY InvFacts DEF StreamsSound, SocksOwned, Held, CountRight, Waiting

\* The descriptor of a loopback request that is still wanted is that of its stream.
LEMMA JobIsWanted ==
    ASSUME H2Inv, NEW w \in Workers, job[w] \in socks
    PROVE  job[w][1] \in Streams /\ str[job[w][1]].fd # NoFd
  BY InvFacts DEF SocksOwned, Held

\* A worker that serves a loopback request changes only what that attempt is answered.
LEMMA ServingKeeps ==
    ASSUME H2Inv, NEW w \in Workers,
           ServeWrites(w) \/ ServeEnds(w) \/ \E s \in Streams : ServeBegins(w, s)
    PROVE  H2Inv'
<1>0. TypeOK /\ StreamsSound /\ SocksOwned /\ CountRight /\ PollSound
  BY InvFacts
<1>1. UNCHANGED <<conn, bye, socks, active, rset, idle, used, subs>>
  BY DEF ServeWrites, ServeEnds, ServeBegins
<1>2. /\ wpc' \in [Workers -> {"idle", "serving", "top", "poll", "read", "progress", "crashed"}]
      /\ job' \in [Workers -> (Streams \X (0..MaxAttempts)) \cup {NoJob}]
  <2>1. CASE ServeWrites(w)
    BY <1>0, <2>1 DEF ServeWrites, TypeOK
  <2>2. CASE ServeEnds(w)
    BY <1>0, <2>2 DEF ServeEnds, TypeOK
  <2>3. ASSUME NEW s \in Streams, ServeBegins(w, s)
        PROVE  /\ wpc' \in [Workers -> {"idle", "serving", "top", "poll", "read", "progress", "crashed"}]
               /\ job' \in [Workers -> (Streams \X (0..MaxAttempts)) \cup {NoJob}]
    <3>1. <<s, str[s].fd>> \in Streams \X (0..MaxAttempts)
      BY InvFacts, FieldTypes
    <3> QED
      BY <1>0, <2>3, <3>1 DEF ServeBegins, TypeOK
  <2> QED
    BY <2>1, <2>2, <2>3
<1>3. \A v \in Workers : wpc'[v] \in {"read", "progress"} => wpc[v] \in {"read", "progress"}
  BY <1>0 DEF ServeWrites, ServeEnds, ServeBegins, TypeOK
<1>4. CASE str' = str
  <2>1. StreamsSound' /\ SocksOwned' /\ CountRight'
    BY <1>1, <1>4, StreamsUntouched
  <2>2. PollSound'
    BY <1>1, <1>3, <1>4, PollSame
  <2>3. TypeOK'
    BY <1>0, <1>1, <1>2, <1>4 DEF TypeOK
  <2> QED
    BY <2>1, <2>2, <2>3 DEF H2Inv
<1>5. CASE /\ job[w] \in socks
           /\ \E a \in {"part", "whole", "short", "torn"} :
                str' = [str EXCEPT ![job[w][1]].ans = a]
  <2>1. PICK a \in {"part", "whole", "short", "torn"} : str' = [str EXCEPT ![job[w][1]].ans = a]
    BY <1>5
  <2> DEFINE s == job[w][1]
             q == [str[s] EXCEPT !.ans = a]
  <2>2. s \in Streams /\ str[s].fd # NoFd
    BY <1>5, JobIsWanted
  <2>3. str[s] \in StreamRecord /\ subs[s] \in Nat /\ Sound(str[s], subs[s])
    BY <2>2, InvFacts
  <2>4. str' = [str EXCEPT ![s] = q]
    BY <2>1
  <2> HIDE DEF s
  <2>5. q \in StreamRecord /\ Sound(q, subs[s]) /\ q.fd = str[s].fd /\ q.st = str[s].st
    BY <2>2, <2>3, AnswerSound
  <2> HIDE DEF q
  <2>6. /\ str' \in [Streams -> StreamRecord] /\ subs' \in [Streams -> Nat] /\ StreamsSound'
        /\ str'[s] = q /\ \A t \in Streams : t # s => str'[t] = str[t]
    BY <1>1, <2>2, <2>4, <2>5, OneStreamUncounted
  <2>7. \A t \in Streams : /\ str'[t].fd = str[t].fd /\ str'[t].st = str[t].st
                           /\ str[t].st = "freed" => str'[t] = str[t]
    BY <2>2, <2>3, <2>5, <2>6 DEF Sound
  <2>8. SocksOwned' /\ CountRight' /\ PollSound'
    BY <1>1, <1>3, <2>7, BooksSame, PollSame
  <2>9. TypeOK'
    BY <1>0, <1>1, <1>2, <2>6 DEF TypeOK
  <2> QED
    BY <2>6, <2>8, <2>9 DEF H2Inv
<1> QED
  BY <1>4, <1>5 DEF ServeWrites, ServeEnds, ServeBegins

\* Steps of a turn that touch no stream.
LEMMA QuietTurnKeeps ==
    ASSUME H2Inv, NEW w \in Workers, Accept(w) \/ RecvEnds(w)
    PROVE  H2Inv'
<1>0. TypeOK /\ PollSound
  BY InvFacts
<1>1. UNCHANGED <<bye, job, str, socks, active, rset, idle, used, subs>>
  BY DEF Accept, RecvEnds
<1>2. StreamsSound' /\ SocksOwned' /\ CountRight'
  BY <1>1, StreamsUntouched
<1>3. /\ conn' \in [Workers -> {"none", "backlog", "open", "ended"}]
      /\ wpc' \in [Workers -> {"idle", "serving", "top", "poll", "read", "progress", "crashed"}]
      /\ \A v \in Workers : wpc'[v] \in {"read", "progress"} => wpc[v] \in {"read", "progress"}
  BY <1>0 DEF Accept, RecvEnds, TypeOK
<1>4. TypeOK'
  BY <1>0, <1>1, <1>3 DEF TypeOK
<1>5. PollSound'
  BY <1>1, <1>3, PollSame
<1> QED
  BY <1>2, <1>4, <1>5 DEF H2Inv

(***************************************************************************)
(* The end of a connection.                                                *)
(***************************************************************************)

\* A count of answers that a step of worker w may leave behind.
Counted(w) ==
    /\ subs' \in [Streams -> Nat]
    /\ \A s \in Streams : subs'[s] <= 1 /\ (s \notin Mine(w) => subs'[s] = subs[s])

\* submit_ready_streams counts the streams it answers, and answers none twice.
LEMMA SubmitsCounted ==
    ASSUME H2Inv, NEW w \in Workers, CountSubmits(w)
    PROVE  /\ Counted(w)
           /\ \A s \in Mine(w) : /\ Submitted(str[s]) \in StreamRecord
                                 /\ Sound(Submitted(str[s]), subs'[s])
                                 /\ Submitted(str[s]).fd = str[s].fd
                                 /\ Submitted(str[s]).st = str[s].st
<1>0. /\ TypeOK
      /\ \A s \in Streams : /\ str[s] \in StreamRecord /\ subs[s] \in Nat
                           /\ Sound(str[s], subs[s])
  BY InvFacts
<1>1. \A s \in Streams :
        subs'[s] = IF s \in Mine(w) /\ Ready(str[s]) THEN subs[s] + 1 ELSE subs[s]
  BY DEF CountSubmits
<1>2. \A s \in Streams :
        LET m == IF Ready(str[s]) THEN subs[s] + 1 ELSE subs[s] IN
        /\ Submitted(str[s]) \in StreamRecord /\ Sound(Submitted(str[s]), m) /\ m <= 1
        /\ Submitted(str[s]).fd = str[s].fd /\ Submitted(str[s]).st = str[s].st
  BY <1>0, SubmittedSound
<1>3. \A s \in Streams : subs[s] <= 1
  BY <1>0 DEF Sound
<1>4. Counted(w)
  <2>1. subs' \in [Streams -> Nat]
    BY <1>0 DEF CountSubmits, TypeOK
  <2>2. \A s \in Streams : subs'[s] <= 1 /\ (s \notin Mine(w) => subs'[s] = subs[s])
    BY <1>1, <1>2, <1>3
  <2> QED
    BY <2>1, <2>2 DEF Counted
<1>5. \A s \in Mine(w) : s \in Streams
  BY DEF Mine
<1> QED
  BY <1>1, <1>2, <1>4, <1>5

\* remove_stream on some streams of a connection.
LEMMA FreedSome ==
    ASSUME H2Inv, NEW w \in Workers, NEW S \in SUBSET Mine(w), Frees(w, S),
           used \subseteq used', subs' \in [Streams -> Nat],
           \A s \in Streams : subs'[s] <= 1 /\ (s \notin S => subs'[s] = subs[s])
    PROVE  /\ str' \in [Streams -> StreamRecord] /\ StreamsSound'
           /\ SocksOwned' /\ CountRight'
           /\ socks' \subseteq Streams \X (1..MaxAttempts)
           /\ active' \in [Workers -> 0..Cardinality(Streams)]
           /\ \A s \in Streams : /\ s \in S => /\ str'[s].st = "freed"
                                             /\ str'[s].fault = str[s].fault
                                 /\ s \notin S => str'[s] = str[s]
           /\ \A s \in Streams : ConnOf[s] # w => str'[s] = str[s]
<1>0. \A s \in Streams : /\ str[s] \in StreamRecord /\ subs[s] \in Nat
                         /\ Sound(str[s], subs[s])
  BY InvFacts
<1>1. S \in SUBSET Streams /\ \A s \in S : ConnOf[s] = w
  BY DEF Mine
<1>2. \A s \in Streams : /\ s \in S => str'[s] = Removed(str[s])
                         /\ s \notin S => str'[s] = str[s]
  BY DEF Frees
<1>3. \A s \in Streams :
        /\ Removed(str[s]) \in StreamRecord /\ Sound(Removed(str[s]), subs'[s])
        /\ Removed(str[s]).fd = NoFd /\ Removed(str[s]).st = "freed"
        /\ Removed(str[s]).fault = str[s].fault
  BY <1>0, RemovedSound
<1>4. str' \in [Streams -> StreamRecord]
  BY <1>0, <1>3 DEF Frees
<1>5. \A s \in Streams : Sound(str'[s], subs'[s])
  BY <1>0, <1>2, <1>3
<1>6. StreamsSound'
  BY <1>5 DEF StreamsSound
<1>7. \A s \in Streams : str'[s].fd = IF s \in S THEN NoFd ELSE str[s].fd
  BY <1>2, <1>3
<1>8. /\ SocksOwned' /\ CountRight'
      /\ socks' \subseteq Streams \X (1..MaxAttempts)
      /\ active' \in [Workers -> 0..Cardinality(Streams)]
  BY <1>1, <1>4, <1>7, BooksClosed DEF Frees
<1> QED
  BY <1>1, <1>2, <1>3, <1>4, <1>6, <1>8

\* The end of a connection frees its streams and closes their descriptors.
LEMMA FinishKeeps ==
    ASSUME H2Inv, NEW w \in Workers, Counted(w), Finish(w),
           UNCHANGED <<bye, job, rset, idle, used>>
    PROVE  H2Inv'
<1>0. TypeOK /\ PollSound
  BY InvFacts
<1>1. /\ str' \in [Streams -> StreamRecord] /\ subs' \in [Streams -> Nat]
      /\ StreamsSound' /\ SocksOwned' /\ CountRight'
      /\ socks' \subseteq Streams \X (1..MaxAttempts)
      /\ active' \in [Workers -> 0..Cardinality(Streams)]
      /\ \A s \in Streams : ConnOf[s] # w => str'[s] = str[s]
  BY FreedSome DEF Finish, Counted
<1>2. TypeOK'
  <2>1. /\ conn' \in [Workers -> {"none", "backlog", "open", "ended"}]
        /\ wpc' \in [Workers -> {"idle", "serving", "top", "poll", "read", "progress", "crashed"}]
    BY <1>0 DEF Finish, TypeOK
  <2> QED
    BY <1>0, <1>1, <2>1 DEF TypeOK
<1>3. PollSound'
  <2>1. wpc'[w] = "idle" /\ \A v \in Workers : v # w => wpc'[v] = wpc[v]
    BY <1>0 DEF Finish, TypeOK
  <2>2. rset'[w] \subseteq Streams /\ \A s \in rset'[w] : ConnOf[s] = w
    BY <1>0 DEF PollSound, TypeOK
  <2> QED
    BY <1>1, <2>1, <2>2, PollKept
<1> QED
  BY <1>1, <1>2, <1>3 DEF H2Inv

\* A step that answers nothing leaves every stream answered at most once.
LEMMA CountStays ==
    ASSUME H2Inv, NEW w \in Workers, UNCHANGED subs
    PROVE  /\ Counted(w) /\ subs' \in [Streams -> Nat]
           /\ \A s \in Streams : subs'[s] <= 1 /\ subs'[s] = subs[s]
<1>1. \A s \in Streams : subs[s] <= 1
  BY InvFacts DEF Sound
<1> QED
  BY <1>1, InvFacts DEF Counted, TypeOK

\* Sending what was pending frees polled streams only when nghttp2 had a RST_STREAM
\* of its own to send on them.
LEMMA PollReturnsKeeps ==
    ASSUME H2Inv, NEW w \in Workers, PollReturns(w)
    PROVE  H2Inv'
<1>0. /\ TypeOK /\ PollSound
      /\ \A s \in Streams : str[s] \in StreamRecord /\ Sound(str[s], subs[s])
  BY InvFacts
<1>1. UNCHANGED <<conn, bye, job, used, subs>>
  BY DEF PollReturns
<1>2. PICK sent \in SUBSET Pending(w) : Frees(w, sent)
  BY DEF PollReturns
<1>3. sent \in SUBSET Mine(w)
  BY DEF Pending
<1>4. /\ str' \in [Streams -> StreamRecord] /\ StreamsSound'
      /\ SocksOwned' /\ CountRight'
      /\ socks' \subseteq Streams \X (1..MaxAttempts)
      /\ active' \in [Workers -> 0..Cardinality(Streams)]
      /\ \A s \in Streams : /\ s \in sent => /\ str'[s].st = "freed"
                                          /\ str'[s].fault = str[s].fault
                            /\ s \notin sent => str'[s] = str[s]
      /\ \A s \in Streams : ConnOf[s] # w => str'[s] = str[s]
  BY <1>1, <1>2, <1>3, CountStays, FreedSome
<1>5. /\ wpc' \in [Workers -> {"idle", "serving", "top", "poll", "read", "progress", "crashed"}]
      /\ rset' \in [Workers -> SUBSET Streams] /\ rset'[w] = Events(w)
      /\ \A v \in Workers : v # w => rset'[v] = rset[v] /\ wpc'[v] = wpc[v]
  <2>1. Events(w) \in SUBSET Streams
    BY DEF Events, Mine
  <2> QED
    BY <1>0, <2>1 DEF TypeOK, PollReturns
<1>6. idle' \in [Workers -> 0..IdleTurns]
  <2>1. 0 \in 0..IdleTurns
    BY ConstantFacts
  <2> QED
    BY <1>0, <2>1 DEF TypeOK, PollReturns
<1>7. TypeOK'
  BY <1>0, <1>1, <1>4, <1>5, <1>6 DEF TypeOK
<1>8. \A s \in Events(w) : /\ s \in Streams /\ ConnOf[s] = w
                           /\ str[s].st = "open" /\ str[s].fd # NoFd
  BY DEF Events, Mine
<1>9. ASSUME NEW s \in Events(w)
      PROVE  \/ str'[s].st = "open" /\ str'[s].fd # NoFd
             \/ str'[s].st = "freed" /\ str'[s].fault # "none"
  <2>1. CASE s \notin sent
    BY <1>4, <1>8, <1>9, <2>1
  <2>2. CASE s \in sent
    <3>1. str[s].submitted \in BOOLEAN /\ Sound(str[s], subs[s])
      BY <1>0, <1>8, <1>9, FieldTypes
    <3>2. str[s].submitted = FALSE
      BY <1>8, <1>9, <3>1 DEF Sound
    <3>3. str[s].fault = "queued"
      BY <2>2, <3>2 DEF Pending
    <3> QED
      BY <1>4, <1>8, <1>9, <2>2, <3>3
  <2> QED
    BY <2>1, <2>2
<1>10. PollSound'
  BY <1>4, <1>5, <1>8, <1>9, PollKept
<1> QED
  BY <1>4, <1>7, <1>10 DEF H2Inv

\* A write that fails ends the connection.
LEMMA SendBreaksKeeps ==
    ASSUME H2Inv, NEW w \in Workers, SendBreaks(w)
    PROVE  H2Inv'
<1>1. Counted(w) /\ Finish(w) /\ UNCHANGED <<bye, job, rset, idle, used>>
  BY SubmitsCounted, CountStays DEF SendBreaks
<1> QED
  BY <1>1, FinishKeeps

\* A quiet turn is counted, or ends the connection at the idle limit.
LEMMA PollTimesOutKeeps ==
    ASSUME H2Inv, NEW w \in Workers, PollTimesOut(w)
    PROVE  H2Inv'
<1>0. TypeOK
  BY InvFacts
<1>1. UNCHANGED <<bye, job, rset, used, subs>>
  BY DEF PollTimesOut
<1>2. CASE Finish(w) /\ UNCHANGED idle
  BY <1>1, <1>2, CountStays, FinishKeeps
<1>3. CASE /\ ~(Counts(w) /\ idle[w] + 1 >= IdleTurns)
           /\ idle' = IF Counts(w) THEN [idle EXCEPT ![w] = @ + 1] ELSE idle
           /\ wpc' = [wpc EXCEPT ![w] = "top"]
           /\ UNCHANGED <<conn, str, socks, active>>
  <2>1. idle' \in [Workers -> 0..IdleTurns]
    <3>1. idle \in [Workers -> 0..IdleTurns] /\ idle[w] \in 0..IdleTurns
      BY <1>0 DEF TypeOK
    <3>2. Counts(w) => idle[w] + 1 \in 0..IdleTurns
      BY <1>3, <3>1, ConstantFacts
    <3> QED
      BY <1>3, <3>1, <3>2
  <2>2. /\ wpc' \in [Workers -> {"idle", "serving", "top", "poll", "read", "progress", "crashed"}]
        /\ \A v \in Workers : wpc'[v] \in {"read", "progress"} => wpc[v] \in {"read", "progress"}
    BY <1>0, <1>3 DEF TypeOK
  <2>3. StreamsSound' /\ SocksOwned' /\ CountRight'
    BY <1>1, <1>3, StreamsUntouched
  <2>4. PollSound'
    BY <1>1, <1>3, <2>2, PollSame
  <2>5. TypeOK'
    BY <1>0, <1>1, <1>3, <2>1, <2>2 DEF TypeOK
  <2> QED
    BY <2>3, <2>4, <2>5 DEF H2Inv
<1> QED
  BY <1>2, <1>3 DEF PollTimesOut

(***************************************************************************)
(* What a worker reads from its client.                                    *)
(***************************************************************************)

\* A stream whose headers arrive has no descriptor, attempt or answer yet.
LEMMA OpenedSound ==
    ASSUME NEW r \in StreamRecord, Sound(r, 0), r.st = "sent"
    PROVE  LET q == [r EXCEPT !.st = "open"] IN
           /\ q \in StreamRecord /\ Sound(q, 0) /\ q.fd = NoFd /\ r.fd = NoFd /\ q.st = "open"
           /\ q.attempts = 0 /\ q.submitted = FALSE /\ q.resp = "none" /\ q.raw = "none"
           /\ q.backend = "NONE"
<1> DEFINE q == [r EXCEPT !.st = "open"]
<1>1. q \in StreamRecord
  BY DEF StreamRecord
<1>2. /\ q.st = "open" /\ q.fd = r.fd /\ q.backend = r.backend /\ q.submitted = r.submitted
      /\ q.attempts = r.attempts /\ q.ans = r.ans /\ q.raw = r.raw /\ q.resp = r.resp
  BY DEF StreamRecord
<1>3. /\ r.fd = NoFd /\ r.attempts = 0 /\ r.backend = "NONE" /\ r.submitted = FALSE
      /\ r.resp = "none" /\ r.raw = "none"
  BY DEF Sound
<1> HIDE DEF q
<1>4. Sound(q, 0)
  BY <1>2, <1>3 DEF Sound, InProgress
<1> QED
  BY <1>1, <1>2, <1>3, <1>4 DEF q

\* The 405 that a POST is answered with.
LEMMA RefusedSound ==
    ASSUME NEW r \in StreamRecord, Sound(r, 0), r.st = "open", r.backend = "NONE"
    PROVE  LET q == [r EXCEPT !.submitted = TRUE, !.resp = "405"] IN
           q \in StreamRecord /\ Sound(q, 1) /\ q.fd = NoFd /\ q.st = "open"
<1> DEFINE q == [r EXCEPT !.submitted = TRUE, !.resp = "405"]
<1>1. q \in StreamRecord
  BY DEF StreamRecord
<1>2. /\ q.st = "open" /\ q.fd = r.fd /\ q.backend = "NONE" /\ q.submitted = TRUE
      /\ q.ans = r.ans /\ q.raw = r.raw /\ q.resp = "405"
  BY DEF StreamRecord
<1>3. r.fd = NoFd /\ (r.raw = "whole" => r.ans = "whole")
  BY DEF Sound, InProgress
<1> HIDE DEF q
<1>4. Sound(q, 1)
  BY <1>2, <1>3 DEF Sound, InProgress
<1> QED
  BY <1>1, <1>2, <1>3, <1>4 DEF q

\* A stream that has only been sent is not among those that poll reported.
LEMMA SentIsNotPolled ==
    ASSUME H2Inv, NEW w \in Workers, wpc[w] \in {"read", "progress"}, NEW s \in Streams,
           str[s].st = "sent"
    PROVE  s \notin rset[w]
  BY InvFacts DEF PollSound

\* A request is answered with 405, waits, or has its first attempt started.
LEMMA RecvHeadersKeeps ==
    ASSUME H2Inv, NEW w \in Workers, NEW s \in Streams, RecvHeaders(w, s)
    PROVE  H2Inv'
<1> DEFINE r == [str[s] EXCEPT !.st = "open"]
<1>0. /\ TypeOK /\ PollSound /\ str[s] \in StreamRecord /\ subs[s] \in Nat
      /\ Sound(str[s], subs[s])
  BY InvFacts
<1>1. /\ wpc[w] = "read" /\ ConnOf[s] = w /\ str[s].st = "sent"
      /\ UNCHANGED <<conn, bye, wpc, job, rset, idle, used>>
  BY DEF RecvHeaders
<1>2. subs[s] = 0 /\ s \notin rset[w]
  BY <1>0, <1>1, SentIsNotPolled DEF Sound
<1>3. /\ r \in StreamRecord /\ Sound(r, 0) /\ r.fd = NoFd /\ str[s].fd = NoFd /\ r.st = "open"
      /\ r.attempts = 0 /\ r.submitted = FALSE /\ r.resp = "none" /\ r.raw = "none"
      /\ r.backend = "NONE"
  BY <1>0, <1>1, <1>2, OpenedSound
<1>4. str[s].attempts = 0
  BY <1>0, <1>1 DEF Sound
<1> DEFINE Post ==
        /\ str' \in [Streams -> StreamRecord] /\ subs' \in [Streams -> Nat]
        /\ StreamsSound' /\ SocksOwned' /\ CountRight'
        /\ socks' \subseteq Streams \X (1..MaxAttempts)
        /\ active' \in [Workers -> 0..Cardinality(Streams)]
        /\ \A t \in Streams : t # s => str'[t] = str[t]
<1>5. ASSUME NEW t \in Choices, str' = [str EXCEPT ![s] = Starting(r, t)],
             socks' = IF t = Nobody THEN socks ELSE socks \cup {<<s, r.attempts + 1>>},
             active' = IF t = Nobody THEN active ELSE [active EXCEPT ![w] = @ + 1],
             UNCHANGED subs
      PROVE  Post
  <2> DEFINE q == Starting(r, t)
  <2>0. 0 < MaxAttempts
    BY ConstantFacts
  <2>1. /\ q \in StreamRecord /\ Sound(q, 0)
        /\ q.fd = IF t = Nobody THEN NoFd ELSE r.attempts + 1
    <3> HIDE DEF r
    <3> QED
      BY <1>3, <2>0, <1>5, StartingSound
  <2>2. str' = [str EXCEPT ![s] = q]
    BY <1>5
  <2> HIDE DEF q, r
  <2>3. /\ str' \in [Streams -> StreamRecord] /\ subs' \in [Streams -> Nat]
        /\ StreamsSound'
        /\ str'[s] = q /\ \A u \in Streams : u # s => str'[u] = str[u]
    BY <1>2, <1>5, <2>1, <2>2, OneStreamUncounted
  <2>4. /\ SocksOwned' /\ CountRight'
        /\ socks' \subseteq Streams \X (1..MaxAttempts)
        /\ active' \in [Workers -> 0..Cardinality(Streams)]
    <3>1. CASE t = Nobody
      <4>1. UNCHANGED <<socks, active>>
        BY <1>5, <3>1
      <4>2. \A u \in Streams : str'[u].fd = str[u].fd
        BY <1>3, <2>1, <2>3, <3>1
      <4> QED
        BY <1>1, <4>1, <4>2, BooksSame
    <3>2. CASE t # Nobody
      <4> DEFINE C == {}
                 B == {s}
      <4>1. Cardinality(Closing(C)) = 0 /\ Cardinality(B) = 1
        <5>1. Closing(C) = {}
          BY DEF Closing
        <5> QED
          BY <5>1, FS_EmptySet, FS_Singleton
      <4>2. /\ B \in SUBSET Streams /\ C \in SUBSET Streams
            /\ \A u \in C \cup B : ConnOf[u] = w
            /\ \A u \in B : str[u].fd = NoFd \/ u \in C
        BY <1>1, <1>3
      <4>3. socks' = (socks \ Closing(C)) \cup {<<u, str[u].attempts + 1>> : u \in B}
        BY <1>3, <1>4, <1>5, <3>2 DEF Closing
      <4>4. \A u \in Streams : str'[u].fd = IF u \in B THEN str[u].attempts + 1
                                            ELSE IF u \in C THEN NoFd ELSE str[u].fd
        BY <1>3, <1>4, <2>1, <2>3, <3>2
      <4> HIDE DEF C, B
      <4>5. active' = [active EXCEPT ![w] =
                         Lowered(@, Cardinality(Closing(C))) + Cardinality(B)]
        <5>1. active[w] \in Nat
          BY <1>0 DEF TypeOK
        <5>2. Lowered(active[w], 0) = active[w]
          BY <5>1 DEF Lowered
        <5> QED
          BY <1>5, <3>2, <4>1, <5>2
      <4> QED
        BY <1>1, <2>3, <4>2, <4>3, <4>4, <4>5, BooksKept, ZenonT(200)
    <3> QED
      BY <3>1, <3>2
  <2> QED
    BY <2>3, <2>4
<1>6. ASSUME str' = [str EXCEPT ![s] = [r EXCEPT !.submitted = TRUE, !.resp = "405"]],
             subs' = [subs EXCEPT ![s] = @ + 1], UNCHANGED <<socks, active>>
      PROVE  Post
  <2> DEFINE q == [r EXCEPT !.submitted = TRUE, !.resp = "405"]
  <2>1. q \in StreamRecord /\ Sound(q, 1) /\ q.fd = NoFd
    <3> HIDE DEF r
    <3> QED
      BY <1>3, RefusedSound
  <2>2. str' = [str EXCEPT ![s] = q] /\ subs' = [subs EXCEPT ![s] = 1]
    BY <1>2, <1>6
  <2> HIDE DEF q, r
  <2>3. /\ str' \in [Streams -> StreamRecord] /\ subs' \in [Streams -> Nat]
        /\ StreamsSound'
        /\ str'[s] = q /\ \A u \in Streams : u # s => str'[u] = str[u]
    BY <2>1, <2>2, OneStream
  <2>4. \A u \in Streams : str'[u].fd = str[u].fd
    BY <1>3, <2>1, <2>3
  <2> QED
    BY <1>1, <1>6, <2>3, <2>4, BooksSame
<1>7. ASSUME str' = [str EXCEPT ![s] = r], UNCHANGED <<socks, active, subs>>
      PROVE  Post
  <2> HIDE DEF r
  <2>1. /\ str' \in [Streams -> StreamRecord] /\ subs' \in [Streams -> Nat]
        /\ StreamsSound'
        /\ str'[s] = r /\ \A u \in Streams : u # s => str'[u] = str[u]
    BY <1>2, <1>3, <1>7, OneStreamUncounted
  <2>2. \A u \in Streams : str'[u].fd = str[u].fd
    BY <1>3, <2>1
  <2> QED
    BY <1>1, <1>7, <2>1, <2>2, BooksSame
<1>8. Post
  BY <1>5, <1>6, <1>7 DEF RecvHeaders
<1>9. TypeOK'
  BY <1>0, <1>1, <1>8 DEF TypeOK
<1>10. PollSound'
  <2>1. rset'[w] \subseteq Streams
    BY <1>0, <1>1 DEF TypeOK
  <2>2. \A u \in rset'[w] : u # s /\ ConnOf[u] = w /\ str'[u] = str[u]
    BY <1>0, <1>1, <1>2, <1>8, <2>1 DEF PollSound
  <2>3. \A u \in rset'[w] : \/ str'[u].st = "open" /\ str'[u].fd # NoFd
                            \/ str'[u].st = "freed" /\ str'[u].fault # "none"
    BY <1>0, <1>1, <2>2 DEF PollSound
  <2>4. \A u \in Streams : ConnOf[u] # w => str'[u] = str[u]
    BY <1>1, <1>8
  <2> QED
    BY <1>1, <2>1, <2>2, <2>3, <2>4, PollKept
<1> QED
  BY <1>8, <1>9, <1>10 DEF H2Inv

\* close_backend_stream on one stream, whether or not it has a descriptor.
LEMMA ClosedOne ==
    ASSUME H2Inv, NEW s \in Streams, str' \in [Streams -> StreamRecord], UNCHANGED used,
           str'[s].fd = NoFd, \A t \in Streams : t # s => str'[t] = str[t],
           socks' = socks \ Closing({s}),
           active' = [active EXCEPT ![ConnOf[s]] = Lowered(@, Cardinality(Closing({s})))]
    PROVE  /\ SocksOwned' /\ CountRight'
           /\ socks' \subseteq Streams \X (1..MaxAttempts)
           /\ active' \in [Workers -> 0..Cardinality(Streams)]
<1> DEFINE C == {s}
           w == ConnOf[s]
<1>1. /\ w \in Workers /\ C \in SUBSET Streams /\ \A u \in C : ConnOf[u] = w
      /\ \A u \in Streams : str'[u].fd = IF u \in C THEN NoFd ELSE str[u].fd
  BY InvFacts
<1>2. /\ socks' = socks \ Closing(C)
      /\ active' = [active EXCEPT ![w] = Lowered(@, Cardinality(Closing(C)))]
  OBVIOUS
<1> HIDE DEF C, w
<1> QED
  BY <1>1, <1>2, BooksClosed

\* A descriptor that is there counts as one.
LEMMA ClosingOne ==
    ASSUME NEW s \in Streams, str[s].fd # NoFd
    PROVE  Cardinality(Closing({s})) = 1
<1>1. Closing({s}) = {<<s, str[s].fd>>}
  BY DEF Closing
<1> QED
  BY <1>1, FS_Singleton

\* A reset frees the stream and closes the descriptor it owned; a broken rule has
\* nghttp2 queue a RST_STREAM.
LEMMA RecvResetKeeps ==
    ASSUME H2Inv, NEW w \in Workers, NEW s \in Streams, RecvReset(w, s)
    PROVE  H2Inv'
<1>0. /\ TypeOK /\ PollSound /\ str[s] \in StreamRecord /\ subs[s] \in Nat
      /\ Sound(str[s], subs[s])
  BY InvFacts
<1>1. /\ wpc[w] = "read" /\ s \in Mine(w) /\ ConnOf[s] = w /\ str[s].st = "open"
      /\ str[s].fault = "sent"
      /\ UNCHANGED <<conn, bye, wpc, job, rset, idle, used, subs>>
  BY DEF RecvReset, Mine
<1>2. CASE Frees(w, {s})
  <2>1. /\ str' \in [Streams -> StreamRecord] /\ StreamsSound'
        /\ SocksOwned' /\ CountRight'
        /\ socks' \subseteq Streams \X (1..MaxAttempts)
        /\ active' \in [Workers -> 0..Cardinality(Streams)]
        /\ str'[s].st = "freed" /\ str'[s].fault = "sent"
        /\ \A u \in Streams : u # s => str'[u] = str[u]
        /\ \A u \in Streams : ConnOf[u] # w => str'[u] = str[u]
    <3> DEFINE S == {s}
    <3>1. S \in SUBSET Mine(w) /\ s \in S /\ Frees(w, S) /\ \A u : u # s => u \notin S
      BY <1>1, <1>2
    <3> HIDE DEF S
    <3> QED
      BY <1>1, <3>1, CountStays, FreedSome
  <2>2. TypeOK'
    BY <1>0, <1>1, <2>1 DEF TypeOK
  <2>3. rset'[w] \subseteq Streams /\ \A u \in rset'[w] : ConnOf[u] = w
    BY <1>0, <1>1 DEF TypeOK, PollSound
  <2>4. \A u \in rset'[w] : \/ str'[u].st = "open" /\ str'[u].fd # NoFd
                            \/ str'[u].st = "freed" /\ str'[u].fault # "none"
    BY <1>0, <1>1, <2>1, <2>3 DEF PollSound
  <2>5. PollSound'
    BY <1>1, <2>1, <2>3, <2>4, PollKept
  <2> QED
    BY <2>1, <2>2, <2>5 DEF H2Inv
<1>3. CASE str' = [str EXCEPT ![s].fault = "queued"] /\ UNCHANGED <<socks, active>>
  <2> DEFINE q == [str[s] EXCEPT !.fault = "queued"]
  <2>1. q \in StreamRecord /\ Sound(q, subs[s]) /\ q.fd = str[s].fd /\ q.st = str[s].st
    BY <1>0, FaultSound
  <2>2. str' = [str EXCEPT ![s] = q]
    BY <1>0, <1>3 DEF TypeOK
  <2> HIDE DEF q
  <2>3. /\ str' \in [Streams -> StreamRecord] /\ subs' \in [Streams -> Nat] /\ StreamsSound'
        /\ str'[s] = q /\ \A u \in Streams : u # s => str'[u] = str[u]
    BY <1>1, <2>1, <2>2, OneStreamUncounted
  <2>4. \A u \in Streams : /\ str'[u].fd = str[u].fd
                           /\ str[u].st = "open" => str'[u].st = "open"
                           /\ str[u].st = "freed" => str'[u] = str[u]
    BY <1>1, <2>1, <2>3
  <2>5. SocksOwned' /\ CountRight' /\ PollSound'
    BY <1>1, <1>3, <2>4, BooksSame, PollSame
  <2>6. TypeOK'
    BY <1>0, <1>1, <1>3, <2>3 DEF TypeOK
  <2> QED
    BY <2>3, <2>5, <2>6 DEF H2Inv
<1> QED
  BY <1>2, <1>3 DEF RecvReset

(***************************************************************************)
(* What a worker reads from the loopback.                                  *)
(***************************************************************************)

\* The ways in which h2_progress_backend_stream leaves a stream.
Progressed(r, q) ==
    \/ q = r
    \/ r.backend = "CONNECTING" /\ q = [r EXCEPT !.backend = "READING"]
    \/ r.backend = "READING" /\ r.ans = "part" /\ q = [r EXCEPT !.raw = "part"]

Ended(r, q) ==
    \/ /\ r.backend = "READING" /\ r.ans \in {"whole", "short", "torn"}
       /\ q = [r EXCEPT !.raw = r.ans, !.fd = NoFd, !.backend = "DONE"]
    \/ q = [r EXCEPT !.fd = NoFd, !.backend = "FAILED"]

\* An attempt that goes on keeps its descriptor.
LEMMA ProgressedSound ==
    ASSUME NEW r \in StreamRecord, NEW n \in Nat, Sound(r, n), NEW q, Progressed(r, q),
           r.fd # NoFd
    PROVE  q \in StreamRecord /\ Sound(q, n) /\ q.fd = r.fd /\ q.st = r.st
<1>1. q \in StreamRecord
  BY DEF Progressed, StreamRecord
<1>2. /\ q.st = r.st /\ q.fd = r.fd /\ q.submitted = r.submitted /\ q.attempts = r.attempts
      /\ q.ans = r.ans /\ q.resp = r.resp /\ q.backend \in {"READING", r.backend}
      /\ q.raw = r.raw \/ q.raw = "part"
  BY DEF Progressed, StreamRecord
<1>3. r.st = "open" /\ InProgress(r) /\ r.submitted \in BOOLEAN
  BY FieldTypes DEF Sound
<1>4. Sound(q, n)
  BY <1>2, <1>3 DEF Sound, InProgress
<1> QED
  BY <1>1, <1>2, <1>4

\* An attempt that ends gives its descriptor back.
LEMMA EndedSound ==
    ASSUME NEW r \in StreamRecord, NEW n \in Nat, Sound(r, n), NEW q, Ended(r, q),
           r.fd # NoFd
    PROVE  q \in StreamRecord /\ Sound(q, n) /\ q.fd = NoFd /\ q.st = "open"
<1>0. NoFd \in 0..MaxAttempts
  BY ConstantFacts DEF NoFd
<1>1. q \in StreamRecord
  BY <1>0, ZenonT(60) DEF Ended, StreamRecord
<1>2. /\ q.st = r.st /\ q.fd = NoFd /\ q.submitted = r.submitted /\ q.attempts = r.attempts
      /\ q.ans = r.ans /\ q.resp = r.resp /\ q.backend \in {"DONE", "FAILED"}
      /\ q.raw = r.raw \/ q.raw = r.ans
  BY DEF Ended, StreamRecord
<1>3. /\ r.st = "open" /\ InProgress(r) /\ r.submitted \in BOOLEAN
      /\ r.raw \in {"none", "part"}
  BY FieldTypes DEF Sound
<1>4. Sound(q, n)
  BY <1>2, <1>3 DEF Sound, InProgress
<1> QED
  BY <1>1, <1>2, <1>3, <1>4

\* The event of a live stream: at most its own descriptor is closed, and counted.
LEMMA ProgressKeeps ==
    ASSUME H2Inv, NEW w \in Workers, NEW s \in Streams, Progress(w, s)
    PROVE  H2Inv'
<1>0. /\ TypeOK /\ PollSound /\ subs[s] \in Nat /\ Sound(str[s], subs[s])
      /\ str[s] \in StreamRecord
  BY InvFacts
<1>1. /\ wpc[w] = "progress" /\ s \in rset[w] /\ str[s].st = "open"
      /\ rset' = [rset EXCEPT ![w] = @ \ {s}]
      /\ UNCHANGED <<conn, bye, wpc, job, idle, used, subs>>
  BY DEF Progress
<1>2. ConnOf[s] = w /\ str[s].fd # NoFd
  BY <1>0, <1>1 DEF PollSound
<1>3. \E q : /\ str' = [str EXCEPT ![s] = q]
             /\ \/ Progressed(str[s], q) /\ UNCHANGED <<socks, active>>
                \/ /\ Ended(str[s], q) /\ socks' = socks \ Closing({s})
                   /\ active' = [active EXCEPT ![w] = Lowered(@, 1)]
  <2>1. CASE /\ str[s].backend = "CONNECTING"
             /\ str' = [str EXCEPT ![s].backend = "READING"]
             /\ UNCHANGED <<socks, active>>
    <3> WITNESS [str[s] EXCEPT !.backend = "READING"]
    <3> QED
      BY <2>1 DEF Progressed
  <2>2. CASE /\ str[s].backend = "READING" /\ str[s].ans = "part"
             /\ str' = [str EXCEPT ![s].raw = "part"]
             /\ UNCHANGED <<socks, active>>
    <3> WITNESS [str[s] EXCEPT !.raw = "part"]
    <3> QED
      BY <2>2 DEF Progressed
  <2>5. CASE UNCHANGED <<str, socks, active>>
    <3>1. str' = [str EXCEPT ![s] = str[s]]
      BY <1>0, <2>5 DEF TypeOK
    <3> WITNESS str[s]
    <3> QED
      BY <2>5, <3>1 DEF Progressed
  <2>3. CASE /\ str[s].backend = "READING" /\ str[s].ans \in {"whole", "short", "torn"}
             /\ str' = [str EXCEPT ![s].raw = str[s].ans, ![s].fd = NoFd, ![s].backend = "DONE"]
             /\ socks' = socks \ Closing({s})
             /\ active' = [active EXCEPT ![w] = Lowered(@, 1)]
    <3> DEFINE q == [str[s] EXCEPT !.raw = str[s].ans, !.fd = NoFd, !.backend = "DONE"]
    <3>1. str' = [str EXCEPT ![s] = q]
      BY <1>0, <2>3 DEF TypeOK
    <3> WITNESS q
    <3> QED
      BY <2>3, <3>1 DEF Ended
  <2>4. CASE /\ str' = [str EXCEPT ![s].fd = NoFd, ![s].backend = "FAILED"]
             /\ socks' = socks \ Closing({s})
             /\ active' = [active EXCEPT ![w] = Lowered(@, 1)]
    <3> DEFINE q == [str[s] EXCEPT !.fd = NoFd, !.backend = "FAILED"]
    <3>1. str' = [str EXCEPT ![s] = q]
      BY <1>0, <2>4 DEF TypeOK
    <3> WITNESS q
    <3> QED
      BY <2>4, <3>1 DEF Ended
  <2> QED
    BY <2>1, <2>2, <2>3, <2>4, <2>5 DEF Progress
<1>4. PICK q : /\ str' = [str EXCEPT ![s] = q]
               /\ \/ Progressed(str[s], q) /\ UNCHANGED <<socks, active>>
                  \/ /\ Ended(str[s], q) /\ socks' = socks \ Closing({s})
                     /\ active' = [active EXCEPT ![w] = Lowered(@, 1)]
  BY <1>3
<1>5. q \in StreamRecord /\ Sound(q, subs[s])
  BY <1>0, <1>2, <1>4, ProgressedSound, EndedSound
<1>6. /\ str' \in [Streams -> StreamRecord] /\ subs' \in [Streams -> Nat]
      /\ StreamsSound'
      /\ str'[s] = q /\ \A u \in Streams : u # s => str'[u] = str[u]
  BY <1>1, <1>4, <1>5, OneStreamUncounted
<1>7. /\ SocksOwned' /\ CountRight'
      /\ socks' \subseteq Streams \X (1..MaxAttempts)
      /\ active' \in [Workers -> 0..Cardinality(Streams)]
  <2>1. CASE Progressed(str[s], q) /\ UNCHANGED <<socks, active>>
    <3>1. \A u \in Streams : str'[u].fd = str[u].fd
      BY <1>0, <1>2, <1>6, <2>1, ProgressedSound
    <3> QED
      BY <1>1, <2>1, <3>1, BooksSame
  <2>2. CASE /\ Ended(str[s], q) /\ socks' = socks \ Closing({s})
             /\ active' = [active EXCEPT ![w] = Lowered(@, 1)]
    <3>1. str'[s].fd = NoFd
      BY <1>0, <1>2, <1>6, <2>2, EndedSound
    <3>2. active' = [active EXCEPT ![ConnOf[s]] = Lowered(@, Cardinality(Closing({s})))]
      BY <1>2, <2>2, ClosingOne
    <3> QED
      BY <1>1, <1>6, <2>2, <3>1, <3>2, ClosedOne
  <2> QED
    BY <1>4, <2>1, <2>2
<1>8. /\ rset' \in [Workers -> SUBSET Streams] /\ rset'[w] = rset[w] \ {s}
      /\ \A v \in Workers : v # w => rset'[v] = rset[v]
  BY <1>0, <1>1 DEF TypeOK
<1>9. TypeOK'
  BY <1>0, <1>1, <1>6, <1>7, <1>8 DEF TypeOK
<1>10. PollSound'
  <2>1. rset'[w] \subseteq Streams
    BY <1>0, <1>8 DEF TypeOK
  <2>2. \A u \in rset'[w] : u \in rset[w] /\ str'[u] = str[u]
    BY <1>6, <1>8, <2>1
  <2>3. \A u \in rset'[w] : /\ ConnOf[u] = w
                            /\ \/ str'[u].st = "open" /\ str'[u].fd # NoFd
                               \/ str'[u].st = "freed" /\ str'[u].fault # "none"
    BY <1>0, <1>1, <2>2 DEF PollSound
  <2>4. \A u \in Streams : ConnOf[u] # w => str'[u] = str[u]
    BY <1>2, <1>6
  <2> QED
    BY <1>1, <1>8, <2>1, <2>3, <2>4, PollKept
<1> QED
  BY <1>6, <1>7, <1>9, <1>10 DEF H2Inv

\* The event of a stream that has been freed since it was polled.
LEMMA ProgressFreedKeeps ==
    ASSUME H2Inv, NEW w \in Workers, NEW s \in Streams, ProgressFreed(w, s)
    PROVE  H2Inv'
<1>0. TypeOK /\ PollSound
  BY InvFacts
<1>1. /\ rset' = [rset EXCEPT ![w] = @ \ {s}] /\ used' = used \cup {w}
      /\ UNCHANGED <<bye, job, idle, subs>>
  BY DEF ProgressFreed
<1>2. /\ rset' \in [Workers -> SUBSET Streams] /\ rset'[w] = rset[w] \ {s}
      /\ \A v \in Workers : v # w => rset'[v] = rset[v]
      /\ used' \subseteq Workers /\ used \subseteq used'
  BY <1>0, <1>1 DEF TypeOK
<1>3. rset'[w] \subseteq Streams /\ rset'[w] \subseteq rset[w]
  BY <1>0, <1>2 DEF TypeOK
\* Nothing changes the place of a stream, nor what it holds.
<1>4. ASSUME UNCHANGED <<conn, wpc>>, str' \in [Streams -> StreamRecord], StreamsSound',
             SocksOwned', CountRight',
             socks' \subseteq Streams \X (1..MaxAttempts),
             active' \in [Workers -> 0..Cardinality(Streams)],
             \A t \in Streams : /\ ConnOf[t] # w => str'[t] = str[t]
                                /\ str'[t].fd = str[t].fd
                                /\ str'[t].st = str[t].st /\ str'[t].fault = str[t].fault
      PROVE  H2Inv'
  <2>1. TypeOK'
    BY <1>0, <1>1, <1>2, <1>4 DEF TypeOK
  <2>2. \A u \in rset'[w] :
          /\ ConnOf[u] = w
          /\ wpc'[w] \in {"read", "progress"} =>
                \/ str'[u].st = "open" /\ str'[u].fd # NoFd
                \/ str'[u].st = "freed" /\ str'[u].fault # "none"
    BY <1>0, <1>3, <1>4 DEF PollSound
  <2>3. PollSound'
    BY <1>2, <1>3, <1>4, <2>2, PollKept
  <2> QED
    BY <1>4, <2>1, <2>3 DEF H2Inv
<1>5. CASE UNCHANGED <<conn, wpc, str, socks, active>>
  <2>1. StreamsSound' /\ SocksOwned' /\ CountRight'
    BY <1>1, <1>2, <1>5, StreamsUntouched
  <2> QED
    BY <1>0, <1>4, <1>5, <2>1 DEF TypeOK
<1>6. CASE /\ wpc' = [wpc EXCEPT ![w] = "crashed"]
           /\ conn' = [conn EXCEPT ![w] = "ended"]
           /\ Frees(w, Mine(w))
  <2>1. Counted(w)
    BY <1>1, CountStays
  <2>2. /\ str' \in [Streams -> StreamRecord] /\ subs' \in [Streams -> Nat]
        /\ StreamsSound' /\ SocksOwned' /\ CountRight'
        /\ socks' \subseteq Streams \X (1..MaxAttempts)
        /\ active' \in [Workers -> 0..Cardinality(Streams)]
        /\ \A t \in Streams : ConnOf[t] # w => str'[t] = str[t]
    BY <1>2, <1>6, <2>1, FreedSome DEF Counted
  <2>3. /\ conn' \in [Workers -> {"none", "backlog", "open", "ended"}]
        /\ wpc' \in [Workers -> {"idle", "serving", "top", "poll", "read", "progress", "crashed"}]
        /\ wpc'[w] = "crashed" /\ \A v \in Workers : v # w => wpc'[v] = wpc[v]
    BY <1>0, <1>6 DEF TypeOK
  <2>4. TypeOK'
    BY <1>0, <1>1, <1>2, <2>2, <2>3 DEF TypeOK
  <2>5. \A u \in rset'[w] : ConnOf[u] = w
    BY <1>0, <1>3 DEF PollSound
  <2>6. PollSound'
    BY <1>1, <1>2, <1>3, <2>2, <2>3, <2>5, PollKept
  <2> QED
    BY <2>2, <2>4, <2>6 DEF H2Inv
<1>7. CASE /\ socks' \in {socks} \cup {socks \ Closing({t}) : t \in Begun(w)}
           /\ active' = [active EXCEPT ![w] = Lowered(@, 1)]
           /\ UNCHANGED <<conn, wpc, str>>
  <2>1. \/ socks' = socks
        \/ \E t \in Streams : ConnOf[t] = w /\ socks' = socks \ Closing({t})
    BY <1>7 DEF Begun, Mine
  <2>2. /\ SocksOwned' /\ CountRight'
        /\ socks' \subseteq Streams \X (1..MaxAttempts)
        /\ active' \in [Workers -> 0..Cardinality(Streams)]
    BY <1>1, <1>7, <2>1, BooksLoosened
  <2>3. StreamsSound' /\ str' \in [Streams -> StreamRecord]
    BY <1>0, <1>1, <1>7, InvFacts DEF StreamsSound, TypeOK
  <2> QED
    BY <1>4, <1>7, <2>2, <2>3
<1>8. CASE /\ \E t \in Begun(w) : str' = [str EXCEPT ![t].backend = "READING"]
           /\ UNCHANGED <<conn, wpc, socks, active>>
  <2>1. PICK t \in Begun(w) : str' = [str EXCEPT ![t].backend = "READING"]
    BY <1>8
  <2> DEFINE q == [str[t] EXCEPT !.backend = "READING"]
  <2>2. /\ t \in Streams /\ ConnOf[t] = w /\ str[t].st = "open"
        /\ str[t].backend = "CONNECTING"
    BY DEF Begun, Mine
  <2>3. str[t] \in StreamRecord /\ subs[t] \in Nat /\ Sound(str[t], subs[t])
    BY <2>2, InvFacts
  <2>4. str[t].fd # NoFd
    BY <2>2, <2>3 DEF Sound, InProgress
  <2>5. /\ q \in StreamRecord /\ Sound(q, subs[t]) /\ q.fd = str[t].fd
        /\ q.st = str[t].st /\ q.fault = str[t].fault
    <3>1. Progressed(str[t], q) /\ q.fault = str[t].fault
      BY <2>2, <2>3 DEF Progressed, StreamRecord
    <3> HIDE DEF q
    <3> QED
      BY <2>3, <2>4, <3>1, ProgressedSound
  <2>6. str' = [str EXCEPT ![t] = q]
    BY <1>0, <2>1 DEF TypeOK
  <2> HIDE DEF q
  <2>7. /\ str' \in [Streams -> StreamRecord] /\ StreamsSound'
        /\ str'[t] = q /\ \A u \in Streams : u # t => str'[u] = str[u]
    BY <1>1, <2>2, <2>5, <2>6, OneStreamUncounted
  <2>8. \A u \in Streams : str'[u].fd = str[u].fd
    BY <2>5, <2>7
  <2>9. /\ SocksOwned' /\ CountRight'
        /\ socks' \subseteq Streams \X (1..MaxAttempts)
        /\ active' \in [Workers -> 0..Cardinality(Streams)]
    BY <1>2, <1>8, <2>8, BooksSame
  <2>10. \A u \in Streams : /\ ConnOf[u] # w => str'[u] = str[u]
                            /\ str'[u].st = str[u].st /\ str'[u].fault = str[u].fault
    BY <2>2, <2>5, <2>7
  <2> QED
    BY <1>4, <1>8, <2>7, <2>8, <2>9, <2>10
<1> QED
  BY <1>5, <1>6, <1>7, <1>8 DEF ProgressFreed

(***************************************************************************)
(* Submitting, retrying and sending.                                       *)
(***************************************************************************)

\* What may be sent and what may be retried; a stream may be both when nghttp2 has a
\* RST_STREAM to send on it.
LEMMA SentAndLate ==
    ASSUME H2Inv, NEW w \in Workers
    PROVE  /\ Sendable(w) \subseteq Mine(w) /\ Late(w) \subseteq Mine(w)
           /\ \A s \in Late(w) : /\ str[s].st = "open" /\ str[s].attempts < MaxAttempts
                                 /\ str[s].submitted = FALSE /\ str[s].resp # "ok"
                                 /\ str[s].raw = "none" /\ subs[s] = 0 /\ ~Ready(str[s])
<1>0. \A s \in Streams : /\ str[s] \in StreamRecord /\ subs[s] \in Nat
                         /\ Sound(str[s], subs[s])
  BY InvFacts
<1>1. Sendable(w) \subseteq Mine(w) /\ Late(w) \subseteq Mine(w)
  BY DEF Sendable, Late
<1>2. \A s \in Mine(w) : s \in Streams /\ str[s].st = "open"
  BY DEF Mine
<1>3. ASSUME NEW s \in Late(w)
      PROVE  /\ str[s].st = "open" /\ str[s].attempts < MaxAttempts
             /\ str[s].submitted = FALSE /\ str[s].resp # "ok"
             /\ str[s].raw = "none" /\ subs[s] = 0 /\ ~Ready(str[s])
  <2>1. /\ str[s] \in StreamRecord /\ subs[s] \in Nat /\ Sound(str[s], subs[s])
        /\ str[s].st = "open" /\ InProgress(str[s]) /\ str[s].attempts < MaxAttempts
        /\ str[s].raw = "none"
    BY <1>0, <1>1, <1>2, <1>3 DEF Late, Retriable
  <2>2. str[s].submitted = FALSE
    BY <2>1, FieldTypes DEF Sound
  <2>3. subs[s] = 0 /\ str[s].resp # "ok"
    BY <2>1, <2>2 DEF Sound
  <2>4. ~Ready(str[s])
    BY <2>1 DEF Ready, InProgress
  <2> QED
    BY <2>1, <2>2, <2>3, <2>4
<1> QED
  BY <1>1, <1>3

\* The streams of worker w after submit_ready_streams, retries of those in late and
\* nghttp2_session_send.
Turned(w, sent, late, to) ==
    /\ sent \in SUBSET Sendable(w) /\ late \in SUBSET Late(w) /\ to \in [late -> Choices]
    /\ CountSubmits(w)
    /\ str' = [s \in Streams |->
                  CASE s \in sent -> Removed(str[s])
                    [] s \in late \ sent -> Starting(str[s], to[s])
                    [] s \in Mine(w) \ (sent \cup late) -> Submitted(str[s])
                    [] OTHER -> str[s]]

\* What submitting and retrying at the top of a turn do to each stream.
LEMMA TurnStreams ==
    ASSUME H2Inv, NEW w \in Workers, NEW sent, NEW late, NEW to, Turned(w, sent, late, to)
    PROVE  /\ str' \in [Streams -> StreamRecord] /\ subs' \in [Streams -> Nat]
           /\ StreamsSound'
           /\ \A s \in Streams :
                /\ s \in sent => str'[s].fd = NoFd
                /\ s \in late \ sent =>
                     str'[s].fd = IF to[s] = Nobody THEN NoFd ELSE str[s].attempts + 1
                /\ s \notin sent \cup late => str'[s].fd = str[s].fd
           /\ \A s \in Streams : s \notin Mine(w) => str'[s] = str[s]
<1>a. /\ sent \in SUBSET Sendable(w) /\ late \in SUBSET Late(w) /\ to \in [late -> Choices]
      /\ CountSubmits(w)
  BY DEF Turned
<1>b. \A s \in Streams : /\ s \in sent => str'[s] = Removed(str[s])
                         /\ s \in late \ sent => str'[s] = Starting(str[s], to[s])
                         /\ s \in Mine(w) \ (sent \cup late) => str'[s] = Submitted(str[s])
                         /\ s \notin Mine(w) => str'[s] = str[s]
  BY <1>a, SentAndLate DEF Turned
<1>0. \A s \in Streams : /\ str[s] \in StreamRecord /\ subs[s] \in Nat
                         /\ Sound(str[s], subs[s])
  BY InvFacts
<1>1. /\ Counted(w)
      /\ \A s \in Mine(w) : /\ Submitted(str[s]) \in StreamRecord
                            /\ Sound(Submitted(str[s]), subs'[s])
                            /\ Submitted(str[s]).fd = str[s].fd
  BY <1>a, SubmitsCounted
<1>2. /\ subs' \in [Streams -> Nat]
      /\ \A s \in Streams : subs'[s] <= 1 /\ (s \notin Mine(w) => subs'[s] = subs[s])
  BY <1>1 DEF Counted
<1>3. \A s \in sent : s \in Mine(w)
  BY <1>a, SentAndLate
<1>4. \A s \in late : /\ s \in Mine(w) /\ str[s].st = "open" /\ str[s].attempts < MaxAttempts
                      /\ str[s].submitted = FALSE /\ str[s].resp # "ok"
                      /\ str[s].raw = "none" /\ subs[s] = 0 /\ ~Ready(str[s])
  BY <1>a, SentAndLate
<1>5. \A s \in Mine(w) : s \in Streams
  BY DEF Mine
<1>6. ASSUME NEW s \in sent
      PROVE  /\ s \in Streams /\ str'[s] \in StreamRecord /\ Sound(str'[s], subs'[s])
             /\ str'[s].fd = NoFd
  <2>1. s \in Streams /\ str'[s] = Removed(str[s])
    BY <1>b, <1>3, <1>5, <1>6
  <2>2. subs'[s] \in Nat /\ subs'[s] <= 1
    BY <1>2, <2>1
  <2> QED
    BY <1>0, <2>1, <2>2, RemovedSound
<1>7. ASSUME NEW s \in late \ sent
      PROVE  /\ s \in Streams /\ str'[s] \in StreamRecord /\ Sound(str'[s], subs'[s])
             /\ str'[s].fd = IF to[s] = Nobody THEN NoFd ELSE str[s].attempts + 1
  <2>1. s \in Streams /\ str'[s] = Starting(str[s], to[s]) /\ to[s] \in Choices
    BY <1>a, <1>b, <1>4, <1>5, <1>7
  <2>2. subs'[s] = 0
    BY <1>a, <1>4, <1>7, <2>1 DEF CountSubmits
  <2>3. /\ Starting(str[s], to[s]) \in StreamRecord /\ Sound(Starting(str[s], to[s]), 0)
        /\ Starting(str[s], to[s]).fd = IF to[s] = Nobody THEN NoFd ELSE str[s].attempts + 1
    BY <1>0, <1>4, <1>7, <2>1, StartingSound
  <2> QED
    BY <2>1, <2>2, <2>3
<1>8. ASSUME NEW s \in Streams, s \notin sent \cup late
      PROVE  /\ str'[s] \in StreamRecord /\ Sound(str'[s], subs'[s])
             /\ str'[s].fd = str[s].fd
  <2>1. CASE s \in Mine(w)
    <3>1. str'[s] = Submitted(str[s])
      BY <1>b, <1>8, <2>1
    <3> QED
      BY <1>1, <2>1, <3>1
  <2>2. CASE s \notin Mine(w)
    BY <1>b, <1>0, <1>2, <2>2
  <2> QED
    BY <2>1, <2>2
<1>9. \A s \in Streams : str'[s] \in StreamRecord /\ Sound(str'[s], subs'[s])
  BY <1>6, <1>7, <1>8
<1>10. StreamsSound'
  BY <1>9 DEF StreamsSound
<1>11. str' \in [Streams -> StreamRecord]
  BY <1>9 DEF Turned
<1> QED
  BY <1>b, <1>2, <1>3, <1>6, <1>7, <1>8, <1>10, <1>11

\* A worker outside of its read and progress phases has no use for rset.
LEMMA PollLeft ==
    ASSUME H2Inv, NEW w \in Workers, NEW place \in {"top", "poll"},
           wpc' = [wpc EXCEPT ![w] = place], UNCHANGED rset,
           \A s \in Streams : s \notin Mine(w) => str'[s] = str[s]
    PROVE  PollSound'
<1>0. TypeOK /\ PollSound
  BY InvFacts
<1>1. wpc'[w] = place /\ \A v \in Workers : v # w => wpc'[v] = wpc[v]
  BY <1>0 DEF TypeOK
<1>2. rset'[w] \subseteq Streams /\ \A s \in rset'[w] : ConnOf[s] = w
  BY <1>0 DEF TypeOK, PollSound
<1>3. \A s \in Streams : ConnOf[s] # w => str'[s] = str[s]
  BY DEF Mine
<1> QED
  BY <1>1, <1>2, <1>3, PollKept

\* Submission and retries keep descriptors and their count in step.
LEMMA TopKeeps ==
    ASSUME H2Inv, NEW w \in Workers, Top(w)
    PROVE  H2Inv'
<1>0. TypeOK
  BY InvFacts
<1>1. PICK late \in SUBSET Late(w) : TopWith(w, late)
  BY DEF Top
<1>2. /\ wpc' = [wpc EXCEPT ![w] = "poll"] /\ CountSubmits(w)
      /\ UNCHANGED <<conn, bye, job, rset, idle, used>>
  BY <1>1 DEF TopWith
<1>3. PICK sent \in SUBSET Sendable(w), to \in [late -> Choices] :
        LET begun == {s \in late \ sent : to[s] # Nobody} IN
        /\ str' = [s \in Streams |->
                     CASE s \in sent -> Removed(str[s])
                       [] s \in late \ sent -> Starting(str[s], to[s])
                       [] s \in Mine(w) \ (sent \cup late) -> Submitted(str[s])
                       [] OTHER -> str[s]]
        /\ socks' = (socks \ Closing(sent \cup late))
                      \cup {<<s, str[s].attempts + 1>> : s \in begun}
        /\ active' = [active EXCEPT ![w] =
                        Lowered(@, Cardinality(Closing(sent \cup late))) + Cardinality(begun)]
  BY <1>1 DEF TopWith
<1> DEFINE B == {s \in late \ sent : to[s] # Nobody}
           C == sent \cup late
<1>4. /\ sent \subseteq Mine(w) /\ late \subseteq Mine(w)
      /\ Mine(w) \subseteq Streams /\ \A s \in Mine(w) : ConnOf[s] = w
  BY SentAndLate DEF Mine
<1>5. Turned(w, sent, late, to)
  BY <1>2, <1>3 DEF Turned
<1>7. /\ str' \in [Streams -> StreamRecord] /\ subs' \in [Streams -> Nat]
      /\ StreamsSound'
      /\ \A s \in Streams :
           /\ s \in sent => str'[s].fd = NoFd
           /\ s \in late \ sent =>
                str'[s].fd = IF to[s] = Nobody THEN NoFd ELSE str[s].attempts + 1
           /\ s \notin sent \cup late => str'[s].fd = str[s].fd
      /\ \A s \in Streams : s \notin Mine(w) => str'[s] = str[s]
  BY <1>5, TurnStreams
<1>8. /\ B \in SUBSET Streams /\ C \in SUBSET Streams
      /\ \A s \in C \cup B : ConnOf[s] = w
      /\ \A s \in B : str[s].fd = NoFd \/ s \in C
  BY <1>4
<1>9. \A s \in Streams : str'[s].fd = IF s \in B THEN str[s].attempts + 1
                                      ELSE IF s \in C THEN NoFd ELSE str[s].fd
  BY <1>7
<1>10. /\ socks' = (socks \ Closing(C)) \cup {<<s, str[s].attempts + 1>> : s \in B}
       /\ active' = [active EXCEPT ![w] =
                       Lowered(@, Cardinality(Closing(C))) + Cardinality(B)]
  BY <1>3
<1> HIDE DEF B, C
<1>11. /\ SocksOwned' /\ CountRight'
       /\ socks' \subseteq Streams \X (1..MaxAttempts)
       /\ active' \in [Workers -> 0..Cardinality(Streams)]
  BY <1>2, <1>7, <1>8, <1>9, <1>10, BooksKept, ZenonT(200)
<1>12. PollSound'
  BY <1>2, <1>7, PollLeft
<1>13. TypeOK'
  <2>1. wpc' \in [Workers -> {"idle", "serving", "top", "poll", "read", "progress", "crashed"}]
    BY <1>0, <1>2 DEF TypeOK
  <2> QED
    BY <1>0, <1>2, <1>7, <1>11, <2>1 DEF TypeOK
<1> QED
  BY <1>7, <1>11, <1>12, <1>13 DEF H2Inv

\* When all events are handled the turn is over.
LEMMA EndTurnKeeps ==
    ASSUME H2Inv, NEW w \in Workers, EndTurn(w)
    PROVE  H2Inv'
<1>0. TypeOK
  BY InvFacts
<1>1. /\ CountSubmits(w) /\ UNCHANGED <<bye, job, rset, idle, used>>
  BY DEF EndTurn
<1>2. CASE Finish(w)
  <2>1. Counted(w)
    BY <1>1, SubmitsCounted
  <2> QED
    BY <1>1, <1>2, <2>1, FinishKeeps
<1>3. CASE \E sent \in SUBSET Sendable(w) :
             /\ str' = [s \in Streams |->
                          CASE s \in sent -> Removed(str[s])
                            [] s \in Mine(w) \ sent -> Submitted(str[s])
                            [] OTHER -> str[s]]
             /\ socks' = socks \ Closing(sent)
             /\ active' = [active EXCEPT ![w] = Lowered(@, Cardinality(Closing(sent)))]
             /\ wpc' = [wpc EXCEPT ![w] = "top"]
             /\ UNCHANGED conn
  <2>1. PICK sent \in SUBSET Sendable(w) :
             /\ str' = [s \in Streams |->
                          CASE s \in sent -> Removed(str[s])
                            [] s \in Mine(w) \ sent -> Submitted(str[s])
                            [] OTHER -> str[s]]
             /\ socks' = socks \ Closing(sent)
             /\ active' = [active EXCEPT ![w] = Lowered(@, Cardinality(Closing(sent)))]
             /\ wpc' = [wpc EXCEPT ![w] = "top"]
             /\ UNCHANGED conn
    BY <1>3
  <2> DEFINE late == {}
             to == [s \in late |-> Nobody]
  <2>2. late \in SUBSET Late(w) /\ to \in [late -> Choices]
    OBVIOUS
  <2>3. sent \in SUBSET Streams /\ \A s \in sent : ConnOf[s] = w
    BY SentAndLate DEF Mine
  <2>4. str' = [s \in Streams |->
                  CASE s \in sent -> Removed(str[s])
                    [] s \in late \ sent -> Starting(str[s], to[s])
                    [] s \in Mine(w) \ (sent \cup late) -> Submitted(str[s])
                    [] OTHER -> str[s]]
    BY <2>1
  <2>5. Turned(w, sent, late, to)
    BY <1>1, <2>2, <2>4 DEF Turned
  <2>6. \A s \in Streams : s \notin late
    OBVIOUS
  <2> HIDE DEF late, to
  <2>7. /\ str' \in [Streams -> StreamRecord] /\ subs' \in [Streams -> Nat]
        /\ StreamsSound'
        /\ \A s \in Streams :
             /\ s \in sent => str'[s].fd = NoFd
             /\ s \in late \ sent =>
                  str'[s].fd = IF to[s] = Nobody THEN NoFd ELSE str[s].attempts + 1
             /\ s \notin sent \cup late => str'[s].fd = str[s].fd
        /\ \A s \in Streams : s \notin Mine(w) => str'[s] = str[s]
    BY <2>5, TurnStreams
  <2>8. \A s \in Streams : str'[s].fd = IF s \in sent THEN NoFd ELSE str[s].fd
    BY <2>6, <2>7
  <2>9. /\ SocksOwned' /\ CountRight'
        /\ socks' \subseteq Streams \X (1..MaxAttempts)
        /\ active' \in [Workers -> 0..Cardinality(Streams)]
    BY <1>1, <2>1, <2>3, <2>7, <2>8, BooksClosed
  <2>10. PollSound'
    BY <1>1, <2>1, <2>7, PollLeft
  <2>11. TypeOK'
    <3>1. wpc' \in [Workers -> {"idle", "serving", "top", "poll", "read", "progress", "crashed"}]
      BY <1>0, <2>1 DEF TypeOK
    <3> QED
      BY <1>0, <1>1, <2>1, <2>7, <2>9, <3>1 DEF TypeOK
  <2> QED
    BY <2>7, <2>9, <2>10, <2>11 DEF H2Inv
<1> QED
  BY <1>2, <1>3 DEF EndTurn

(***************************************************************************)
(* The theorems.                                                           *)
(***************************************************************************)

\* Nobody is connected at the start.
LEMMA InitHolds == Init => H2Inv
<1> SUFFICES ASSUME Init PROVE H2Inv
  OBVIOUS
<1>0. Cardinality(Streams) \in Nat /\ Cardinality({}) = 0
  BY ConstantFacts, FS_CardinalityType, FS_EmptySet
<1>1. \A s \in Streams : str[s] = Fresh /\ subs[s] = 0
  BY DEF Init
<1>2. StreamsSound
  BY <1>1, FreshSound DEF StreamsSound
<1>3. \A s \in Streams : str[s].fd = NoFd
  BY <1>1, FreshSound
<1>4. SocksOwned
  BY <1>3 DEF SocksOwned, Held, Init
<1>5. \A w \in Workers : Waiting(w) = {}
  BY <1>3 DEF Waiting
<1>6. CountRight
  BY <1>0, <1>5 DEF CountRight, Init
<1>7. PollSound
  BY DEF PollSound, Init
<1>8. TypeOK
  <2>1. str \in [Streams -> StreamRecord]
    BY FreshSound DEF Init
  <2>2. /\ active \in [Workers -> 0..Cardinality(Streams)]
        /\ idle \in [Workers -> 0..IdleTurns]
    BY <1>0, ConstantFacts DEF Init
  <2> QED
    BY <2>1, <2>2 DEF Init, TypeOK
<1> QED
  BY <1>2, <1>4, <1>6, <1>7, <1>8 DEF H2Inv

\* Every step keeps the invariant.
LEMMA NextKeeps == H2Inv /\ [Next]_vars => H2Inv'
<1> SUFFICES ASSUME H2Inv, [Next]_vars PROVE H2Inv'
  OBVIOUS
<1>1. CASE UNCHANGED vars
  <2>1. UNCHANGED <<conn, bye, wpc, job, str, socks, active, rset, idle, used, subs>>
    BY <1>1 DEF vars
  <2>2. StreamsSound' /\ SocksOwned' /\ CountRight'
    BY <2>1, StreamsUntouched
  <2>3. PollSound'
    BY <2>1, PollSame
  <2>4. TypeOK'
    BY <2>1, InvFacts DEF TypeOK
  <2> QED
    BY <2>2, <2>3, <2>4 DEF H2Inv
<1>2. CASE ClientStep
  BY <1>2, ClientKeeps
<1>3. ASSUME NEW w \in Workers, WorkerStep(w)
      PROVE  H2Inv'
  <2>1. CASE Accept(w) \/ PollReturns(w) \/ RecvEnds(w)
    BY <2>1, QuietTurnKeeps, PollReturnsKeeps
  <2>2. CASE ServeWrites(w) \/ ServeEnds(w) \/ \E s \in Streams : ServeBegins(w, s)
    BY <2>2, ServingKeeps
  <2>3. CASE Top(w)
    BY <2>3, TopKeeps
  <2>4. CASE SendBreaks(w)
    BY <2>4, SendBreaksKeeps
  <2>5. CASE PollTimesOut(w)
    BY <2>5, PollTimesOutKeeps
  <2>6. CASE \E s \in Streams : RecvHeaders(w, s) \/ RecvReset(w, s)
    BY <2>6, RecvHeadersKeeps, RecvResetKeeps
  <2>7. CASE \E s \in Streams : Progress(w, s) \/ ProgressFreed(w, s)
    BY <2>7, ProgressKeeps, ProgressFreedKeeps
  <2>8. CASE EndTurn(w)
    BY <2>8, EndTurnKeeps
  <2> QED
    BY <1>3, <2>1, <2>2, <2>3, <2>4, <2>5, <2>6, <2>7, <2>8 DEF WorkerStep
<1> QED
  BY <1>1, <1>2, <1>3 DEF Next

\* The inductive invariant holds throughout every behaviour of the server.
LEMMA InvHolds == Spec => []H2Inv
<1>1. Init => H2Inv
  BY InitHolds
<1>2. H2Inv /\ [Next]_vars => H2Inv'
  BY NextKeeps
<1> QED
  BY <1>1, <1>2, PTL DEF Spec

\* A stream holds a loopback descriptor exactly while its request is in progress,
\* and no descriptor is open that is not held; where no freed stream has been used,
\* those that are held are open and active_backend_streams is their number: neither
\* retries, resets and failures nor the end of a connection leak one or close one
\* twice (close_backend_stream, remove_stream, retry_delayed_loopback).
THEOREM LoopbackDescriptorsOwned == Spec => []DescriptorsOwned
<1>1. H2Inv => DescriptorsOwned
  <2> SUFFICES ASSUME H2Inv PROVE DescriptorsOwned
    OBVIOUS
  <2>1. SocksOwned /\ CountRight /\ \A s \in Streams : Sound(str[s], subs[s])
    BY InvFacts
  <2>2. \A s \in Streams : (str[s].fd # NoFd) <=> (str[s].st = "open" /\ InProgress(str[s]))
    BY <2>1 DEF Sound
  <2>3. \A w \in Workers : Waiting(w) = {s \in Mine(w) : str[s].fd # NoFd}
    BY <2>2 DEF Waiting, Mine
  <2>4. \A w \in Workers : Cardinality(Closing(Mine(w))) = Cardinality(Waiting(w))
    BY <2>3, ClosingCounted DEF Mine
  <2>5. \A w \in Workers : Closing(Mine(w)) = {<<s, str[s].fd>> : s \in Waiting(w)}
    BY <2>3 DEF Closing
  <2>6. Held \subseteq UNION {Closing(Mine(w)) : w \in Workers}
    <3> SUFFICES ASSUME NEW s \in Streams, str[s].fd # NoFd
                 PROVE  \E w \in Workers : <<s, str[s].fd>> \in Closing(Mine(w))
      BY DEF Held
    <3>1. ConnOf[s] \in Workers /\ s \in Waiting(ConnOf[s])
      BY ConstantFacts DEF Waiting
    <3> QED
      BY <2>5, <3>1
  <2>7. \A w \in Workers \ used : Closing(Mine(w)) \subseteq socks
    BY <2>1, <2>5 DEF SocksOwned, Waiting
  <2> QED
    BY <2>1, <2>2, <2>4, <2>6, <2>7 DEF DescriptorsOwned, SocksOwned, CountRight
<1> QED
  BY <1>1, InvHolds, PTL

\* A worker that has used a freed stream has a client that was at fault.
FaultBeforeUse == \A w \in used : \E s \in Streams : ConnOf[s] = w /\ str[s].fault # "none"

\* What a step makes of one stream never hides that its client was at fault.
LEMMA FaultKept ==
    ASSUME NEW r \in StreamRecord, NEW t
    PROVE  /\ Removed(r).fault = r.fault /\ Starting(r, t).fault = r.fault
           /\ Submitted(r).fault = r.fault
<1>1. Removed(r).fault = r.fault
  BY DEF Removed, Fresh
<1>2. Starting(r, t).fault = r.fault
  BY DEF Starting, Started, StartFailed, StreamRecord
<1>3. Submitted(r).fault = r.fault
  BY DEF Submitted, StreamRecord
<1> QED
  BY <1>1, <1>2, <1>3

\* Nor does any step.
LEMMA FaultsStay ==
    ASSUME H2Inv, [Next]_vars, NEW s \in Streams, str[s].fault # "none"
    PROVE  str'[s].fault # "none"
<1>0. str \in [Streams -> StreamRecord] /\ str[s] \in StreamRecord
  BY InvFacts DEF TypeOK
<1>1. /\ Removed(str[s]).fault # "none" /\ Submitted(str[s]).fault # "none"
      /\ \A t : Starting(str[s], t).fault # "none"
  BY <1>0, FaultKept
<1>2. CASE str' = str
  BY <1>2
<1>3. ASSUME NEW w \in Workers, NEW S, Frees(w, S)
      PROVE  str'[s].fault # "none"
  BY <1>1, <1>3 DEF Frees
<1>4. CASE ClientStep
  <2>1. CASE \E w \in Workers : ClientConnects(w) \/ ClientCloses(w)
    BY <2>1 DEF ClientConnects, ClientCloses
  <2>2. ASSUME NEW u \in Streams, ClientRequests(u) \/ ClientResets(u)
        PROVE  str'[s].fault # "none"
    <3>1. \E q : str' = [str EXCEPT ![u] = q] /\ (q.fault = str[u].fault \/ q.fault = "sent")
      <4>0. str[u] \in StreamRecord
        BY <1>0
      <4>1. CASE ClientRequests(u)
        <5>1. PICK k \in Kinds : str' = [str EXCEPT ![u].st = "sent", ![u].kind = k]
          BY <4>1 DEF ClientRequests
        <5> WITNESS [str[u] EXCEPT !.st = "sent", !.kind = k]
        <5> QED
          BY <1>0, <4>0, <5>1 DEF StreamRecord
      <4>2. CASE ClientResets(u)
        <5> WITNESS [str[u] EXCEPT !.fault = "sent"]
        <5> QED
          BY <1>0, <4>0, <4>2 DEF ClientResets, StreamRecord
      <4> QED
        BY <2>2, <4>1, <4>2
    <3> QED
      BY <1>0, <3>1
  <2> QED
    BY <1>4, <2>1, <2>2 DEF ClientStep
<1>6. ASSUME NEW u \in Streams, NEW q, str' = [str EXCEPT ![u] = q],
             q.fault = str[u].fault \/ q.fault \in {"sent", "queued"}
      PROVE  str'[s].fault # "none"
  BY <1>0, <1>6
<1>5. ASSUME NEW w \in Workers, WorkerStep(w)
      PROVE  str'[s].fault # "none"
  <2>1. CASE Accept(w) \/ RecvEnds(w) \/ \E u \in Streams : ServeBegins(w, u)
    BY <2>1 DEF Accept, RecvEnds, ServeBegins
  <2>2. CASE ServeWrites(w) \/ ServeEnds(w)
    <3>1. \/ str' = str
          \/ \E a : str' = [str EXCEPT ![job[w][1]].ans = a]
      BY <2>2 DEF ServeWrites, ServeEnds
    <3>2. ASSUME NEW a, str' = [str EXCEPT ![job[w][1]].ans = a]
          PROVE  str'[s].fault # "none"
      <4>1. CASE s = job[w][1]
        <5>1. str'[s] = [str[s] EXCEPT !.ans = a]
          BY <1>0, <3>2, <4>1
        <5> QED
          BY <1>0, <5>1 DEF StreamRecord
      <4>2. CASE s # job[w][1]
        BY <1>0, <3>2, <4>2
      <4> QED
        BY <4>1, <4>2
    <3> QED
      BY <1>2, <3>1, <3>2
  <2>3. CASE Top(w)
    <3>1. PICK late \in SUBSET Late(w) : TopWith(w, late)
      BY <2>3 DEF Top
    <3>2. PICK sent \in SUBSET Sendable(w), to \in [late -> Choices] :
            str' = [u \in Streams |->
                      CASE u \in sent -> Removed(str[u])
                        [] u \in late \ sent -> Starting(str[u], to[u])
                        [] u \in Mine(w) \ (sent \cup late) -> Submitted(str[u])
                        [] OTHER -> str[u]]
      BY <3>1 DEF TopWith
    <3> QED
      BY <1>1, <3>2
  <2>4. CASE SendBreaks(w) \/ PollReturns(w) \/ PollTimesOut(w)
    BY <1>3, <2>4 DEF SendBreaks, PollReturns, PollTimesOut, Finish
  <2>5. CASE \E u \in Streams : RecvHeaders(w, u)
    <3>1. PICK u \in Streams : RecvHeaders(w, u)
      BY <2>5
    <3> DEFINE r == [str[u] EXCEPT !.st = "open"]
    <3>2. r \in StreamRecord /\ r.fault = str[u].fault
      <4>1. str[u] \in StreamRecord
        BY <1>0
      <4> QED
        BY <4>1 DEF StreamRecord
    <3>3. \/ \E t \in Choices : str' = [str EXCEPT ![u] = Starting(r, t)]
          \/ str' = [str EXCEPT ![u] = [r EXCEPT !.submitted = TRUE, !.resp = "405"]]
          \/ str' = [str EXCEPT ![u] = r]
      BY <3>1 DEF RecvHeaders
    <3>4. /\ \A t : Starting(r, t).fault = str[u].fault
          /\ [r EXCEPT !.submitted = TRUE, !.resp = "405"].fault = str[u].fault
      <4> HIDE DEF r
      <4> QED
        BY <3>2, FaultKept DEF StreamRecord
    <3> HIDE DEF r
    <3> QED
      BY <1>0, <3>2, <3>3, <3>4
  <2>6. CASE \E u \in Streams : RecvReset(w, u)
    <3>1. PICK u \in Streams : RecvReset(w, u)
      BY <2>6
    <3>2. CASE Frees(w, {u})
      BY <1>3, <3>2
    <3>3. CASE str' = [str EXCEPT ![u].fault = "queued"]
      <4> DEFINE q == [str[u] EXCEPT !.fault = "queued"]
      <4>1. str' = [str EXCEPT ![u] = q] /\ q.fault = "queued"
        <5>1. str[u] \in StreamRecord
          BY <1>0
        <5> QED
          BY <1>0, <3>3, <5>1 DEF StreamRecord
      <4> QED
        BY <1>6, <4>1
    <3> QED
      BY <3>1, <3>2, <3>3 DEF RecvReset
  <2>7. CASE \E u \in Streams : Progress(w, u)
    <3>1. PICK u \in Streams : Progress(w, u)
      BY <2>7
    <3>2. str[u] \in StreamRecord
      BY <1>0
    <3>3. \/ str' = str
          \/ str' = [str EXCEPT ![u].backend = "READING"]
          \/ str' = [str EXCEPT ![u].raw = "part"]
          \/ str' = [str EXCEPT ![u].raw = str[u].ans, ![u].fd = NoFd, ![u].backend = "DONE"]
          \/ str' = [str EXCEPT ![u].fd = NoFd, ![u].backend = "FAILED"]
      BY <3>1 DEF Progress
    <3>4. str' = str \/ \E q : str' = [str EXCEPT ![u] = q] /\ q.fault = str[u].fault
      <4>1. ASSUME NEW b, str' = [str EXCEPT ![u].backend = b]
            PROVE  \E q : str' = [str EXCEPT ![u] = q] /\ q.fault = str[u].fault
        <5> WITNESS [str[u] EXCEPT !.backend = b]
        <5> QED
          BY <1>0, <3>2, <4>1 DEF StreamRecord
      <4>2. ASSUME NEW raw, str' = [str EXCEPT ![u].raw = raw]
            PROVE  \E q : str' = [str EXCEPT ![u] = q] /\ q.fault = str[u].fault
        <5> WITNESS [str[u] EXCEPT !.raw = raw]
        <5> QED
          BY <1>0, <3>2, <4>2 DEF StreamRecord
      <4>3. ASSUME NEW raw, NEW fd, NEW b,
                   str' = [str EXCEPT ![u].raw = raw, ![u].fd = fd, ![u].backend = b]
            PROVE  \E q : str' = [str EXCEPT ![u] = q] /\ q.fault = str[u].fault
        <5> WITNESS [str[u] EXCEPT !.raw = raw, !.fd = fd, !.backend = b]
        <5> QED
          BY <1>0, <3>2, <4>3 DEF StreamRecord
      <4>4. ASSUME NEW fd, NEW b, str' = [str EXCEPT ![u].fd = fd, ![u].backend = b]
            PROVE  \E q : str' = [str EXCEPT ![u] = q] /\ q.fault = str[u].fault
        <5> WITNESS [str[u] EXCEPT !.fd = fd, !.backend = b]
        <5> QED
          BY <1>0, <3>2, <4>4 DEF StreamRecord
      <4> QED
        BY <3>3, <4>1, <4>2, <4>3, <4>4
    <3> QED
      BY <1>2, <1>6, <3>4
  <2>8. CASE \E u \in Streams : ProgressFreed(w, u)
    <3>1. PICK u \in Streams : ProgressFreed(w, u)
      BY <2>8
    <3>2. CASE Frees(w, Mine(w))
      BY <1>3, <3>2
    <3>3. ASSUME NEW t \in Streams, str' = [str EXCEPT ![t].backend = "READING"]
          PROVE  str'[s].fault # "none"
      <4> DEFINE q == [str[t] EXCEPT !.backend = "READING"]
      <4>1. str' = [str EXCEPT ![t] = q] /\ q.fault = str[t].fault
        <5>1. str[t] \in StreamRecord
          BY <1>0
        <5> QED
          BY <1>0, <3>3, <5>1 DEF StreamRecord
      <4> QED
        BY <1>6, <4>1
    <3>4. Begun(w) \subseteq Streams
      BY DEF Begun, Mine
    <3> QED
      BY <1>2, <3>1, <3>2, <3>3, <3>4 DEF ProgressFreed
  <2>9. CASE EndTurn(w)
    <3>1. CASE Finish(w)
      BY <1>3, <3>1 DEF Finish
    <3>2. CASE \E sent : str' = [u \in Streams |->
                                   CASE u \in sent -> Removed(str[u])
                                     [] u \in Mine(w) \ sent -> Submitted(str[u])
                                     [] OTHER -> str[u]]
      BY <1>1, <3>2
    <3> QED
      BY <2>9, <3>1, <3>2 DEF EndTurn
  <2> QED
    BY <1>5, <2>1, <2>2, <2>3, <2>4, <2>5, <2>6, <2>7, <2>8, <2>9 DEF WorkerStep
<1> QED
  BY <1>2, <1>4, <1>5 DEF Next, vars

\* Only the event of a freed stream makes a worker one that has used one.
LEMMA UsedGrows ==
    ASSUME [Next]_vars, NEW w \in used' \ used
    PROVE  w \in Workers /\ \E s \in Streams : ProgressFreed(w, s)
<1>1. used' # used
  OBVIOUS
<1>2. ~ClientStep
  BY <1>1 DEF ClientStep, ClientConnects, ClientCloses, ClientRequests, ClientResets
<1>3. ASSUME NEW v \in Workers, WorkerStep(v)
      PROVE  \E s \in Streams : ProgressFreed(v, s)
  BY <1>1, <1>3 DEF WorkerStep, Accept, ServeBegins, ServeWrites, ServeEnds, Top, TopWith,
     SendBreaks, PollReturns, PollTimesOut, RecvHeaders, RecvReset, RecvEnds, Progress, EndTurn
<1>4. PICK v \in Workers : \E s \in Streams : ProgressFreed(v, s)
  <2>1. ~UNCHANGED vars
    BY <1>1 DEF vars
  <2> QED
    BY <2>1, <1>2, <1>3 DEF Next
<1>5. v = w
  BY <1>4 DEF ProgressFreed
<1> QED
  BY <1>4, <1>5

\* The streams that poll reported are there when their events are handled unless
\* their client has reset them or broken a rule on them, whatever is sent and read
\* in between; a worker uses a freed stream only when such a client is its own.
THEOREM PolledAreLive == Spec => []PolledStreamsLive
<1>1. Init => FaultBeforeUse
  BY DEF Init, FaultBeforeUse
<1>2. H2Inv /\ FaultBeforeUse /\ [Next]_vars => FaultBeforeUse'
  <2> SUFFICES ASSUME H2Inv, FaultBeforeUse, [Next]_vars, NEW w \in used'
               PROVE  \E s \in Streams : ConnOf[s] = w /\ str'[s].fault # "none"
    BY DEF FaultBeforeUse
  <2>1. CASE w \in used
    BY <2>1, FaultsStay DEF FaultBeforeUse
  <2>2. CASE w \notin used
    <3>1. PICK s \in Streams : w \in Workers /\ ProgressFreed(w, s)
      BY <2>2, UsedGrows
    <3>2. w \in Workers /\ PollSound
      BY InvFacts, <3>1
    <3>3. ConnOf[s] = w /\ str[s].fault # "none"
      BY <3>1, <3>2 DEF PollSound, ProgressFreed
    <3> QED
      BY <3>3, FaultsStay
  <2> QED
    BY <2>1, <2>2
<1>3. H2Inv /\ FaultBeforeUse => PolledStreamsLive
  BY DEF H2Inv, PollSound, FaultBeforeUse, PolledStreamsLive
<1> QED
  BY <1>1, <1>2, <1>3, InvHolds, PTL DEF Spec

\* submit_ready_streams answers a stream at most once, and only when no attempt is
\* left running for it.
THEOREM EachAnsweredOnce == Spec => []AnsweredOnce
<1>1. H2Inv => AnsweredOnce
  <2> SUFFICES ASSUME H2Inv, NEW s \in Streams
               PROVE  subs[s] <= 1 /\ (str[s].submitted => str[s].fd = NoFd /\ subs[s] = 1)
    BY DEF AnsweredOnce
  <2>1. Sound(str[s], subs[s]) /\ str[s].submitted \in BOOLEAN
    BY InvFacts, FieldTypes
  <2>2. str[s].submitted = TRUE => str[s].st = "open"
    BY <2>1 DEF Sound
  <2> QED
    BY <2>1, <2>2 DEF Sound
<1> QED
  BY <1>1, InvHolds, PTL

\* A 200 is built from one attempt's answer, read to its end: an attempt that was
\* given up, or an answer whose chunks end early, is never passed off as one.
THEOREM AnswersAreWhole == Spec => []AnswerIsWhole
<1>1. H2Inv => AnswerIsWhole
  BY InvFacts DEF Sound, AnswerIsWhole
<1> QED
  BY <1>1, InvHolds, PTL
=============================================================================
