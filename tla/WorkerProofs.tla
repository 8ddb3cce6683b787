---------------------------- MODULE WorkerProofs ----------------------------
(***************************************************************************)
(* Proofs about the worker for every number of connections, every buffer   *)
(* and record size and every set of request shapes.                        *)
(*                                                                         *)
(* Connections: no event refers to a freed client_object, and the epoll    *)
(* set, the client list and the counters describe the same connections.    *)
(*                                                                         *)
(* Input: what epoll cannot see never matters; a connection left to epoll  *)
(* holds neither a whole request nor undelivered decrypted bytes, and no   *)
(* read is made on a descriptor in blocking mode.                          *)
(*                                                                         *)
(* Framing: the worker never loses the boundary between two requests; the  *)
(* answers are the ones module Conversation promises, and a request that   *)
(* fits in the buffer is refused only for what follows it.                 *)
(***************************************************************************)
EXTENDS WorkerRefinement, SequenceFacts, FiniteSetTheorems, SequenceTheorems, TLAPS

(***************************************************************************)
(* Arithmetic and sequences.                                               *)
(***************************************************************************)

\* SubSeq(s, 1, n) and Drop(s, n) cut a sequence of units in two.
LEMMA CutType ==
    ASSUME NEW s \in Seq(Unit), NEW n \in Nat
    PROVE  /\ Drop(s, n) \in Seq(Unit)
           /\ Len(Drop(s, n)) <= Len(s)
           /\ n <= Len(s) => SubSeq(s, 1, n) \in Seq(Unit) /\ Len(SubSeq(s, 1, n)) = n
<1>1. Len(s) \in Nat /\ \A i \in 1..Len(s) : s[i] \in Unit
  BY LenProperties, ElementOfSeq
<1>2. /\ Drop(s, n) \in Seq(Unit)
      /\ Len(Drop(s, n)) <= Len(s)
  <2>1. \A i \in (n + 1)..Len(s) : s[i] \in Unit
    BY <1>1
  <2>2. /\ SubSeq(s, n + 1, Len(s)) \in Seq(Unit)
        /\ Len(SubSeq(s, n + 1, Len(s))) =
             IF n + 1 <= Len(s) THEN Len(s) - (n + 1) + 1 ELSE 0
    BY <1>1, <2>1, SubSeqProperties
  <2> QED
    BY <1>1, <2>2 DEF Drop
<1>3. ASSUME n <= Len(s)
      PROVE  SubSeq(s, 1, n) \in Seq(Unit) /\ Len(SubSeq(s, 1, n)) = n
  BY <1>1, <1>3, SubSeqProperties
<1> QED
  BY <1>2, <1>3

\* A request written by a client is a sequence of units.
LEMMA RequestType ==
    ASSUME NEW n \in Nat \ {0}, NEW k \in Kinds
    PROVE  [i \in 1..Size(k) |-> [n |-> n, kind |-> k, pos |-> i]] \in Seq(Unit)
<1>1. Size(k) \in Nat
  BY ConstantsAssumption DEF Size
<1>2. [i \in 1..Size(k) |-> [n |-> n, kind |-> k, pos |-> i]] \in [1..Size(k) -> Unit]
  BY <1>1 DEF Unit
<1> QED
  BY <1>1, <1>2, SeqDef

\* What rpsiod_http_parse_request returns for a buffer of units: the lengths
\* are naturals, so that the subtraction and the consumption are defined.
LEMMA ParseType ==
    ASSUME NEW b \in Seq(Unit)
    PROVE  LET req == rpsiod_http_parse_request(b)
           IN  /\ req.rc \in {-1, 0, 1}
               /\ req.header_len \in Nat
               /\ req.content_length \in Nat
<1> USE DEF rpsiod_http_parse_request
<1>1. \A i \in 1..Len(b) : b[i] \in Unit
  BY ElementOfSeq
<1>2. CASE b # <<>> /\ b[1].pos > HeaderLen[b[1].kind]
  BY <1>2
<1>3. CASE ~(b # <<>> /\ b[1].pos > HeaderLen[b[1].kind]) /\ HeaderEnds(b) = {}
  BY <1>3
<1>4. CASE ~(b # <<>> /\ b[1].pos > HeaderLen[b[1].kind]) /\ HeaderEnds(b) # {}
  <2> DEFINE h == Min(HeaderEnds(b))
  <2>1. HeaderEnds(b) \in SUBSET Nat
    BY DEF HeaderEnds
  <2>2. h \in HeaderEnds(b)
    BY <1>4, <2>1, MinOfNat
  <2>3. h \in 1..Len(b)
    BY <2>2 DEF HeaderEnds
  <2>4. b[h].kind \in Kinds
    BY <1>1, <2>3 DEF Unit
  <2>5. BodyLen[b[h].kind] \in Nat
    BY <2>4, ConstantsAssumption
  <2> HIDE DEF h
  <2>6. h \in Nat
    BY <2>3
  <2>7. rpsiod_http_parse_request(b) =
          [rc |-> IF b[h].kind \in Malformed THEN -1 ELSE 1, kind |-> b[h].kind,
           header_len |-> h, content_length |-> BodyLen[b[h].kind]]
    BY <1>4 DEF h
  <2> QED
    BY <2>5, <2>6, <2>7
<1> QED
  BY <1>2, <1>3, <1>4

\* One transfer of client_read: at most `space` units move into the buffer.
LEMMA TransferType ==
    ASSUME NEW b \in Seq(Unit), NEW from \in Seq(Unit), NEW space \in Nat
    PROVE  LET n == Smaller(Len(from), space) IN
           /\ b \o SubSeq(from, 1, n) \in Seq(Unit)
           /\ Len(b \o SubSeq(from, 1, n)) <= Len(b) + space
           /\ Drop(from, n) \in Seq(Unit)
<1> DEFINE n == Smaller(Len(from), space)
<1>1. n \in Nat /\ n <= Len(from) /\ n <= space
  BY LenProperties DEF Smaller
<1> HIDE DEF n
<1>2. SubSeq(from, 1, n) \in Seq(Unit) /\ Len(SubSeq(from, 1, n)) = n
  BY <1>1, CutType
<1>3. Drop(from, n) \in Seq(Unit)
  BY <1>1, CutType
<1>4. /\ b \o SubSeq(from, 1, n) \in Seq(Unit)
      /\ Len(b \o SubSeq(from, 1, n)) = Len(b) + n
  BY <1>2, ConcatProperties
<1>5. Len(b \o SubSeq(from, 1, n)) <= Len(b) + space
  BY <1>1, <1>4, LenProperties
<1> QED
  BY <1>3, <1>4, <1>5 DEF n

\* A read keeps the types and never writes past the end of client_object.buf.
LEMMA ReadType ==
    ASSUME TypeOK, NEW c \in Conns, NEW f \in client_read(c)
    PROVE  /\ f.buf \in Seq(Unit) /\ Len(f.buf) <= BufSize
           /\ f.pending \in Seq(Unit)
           /\ f.net \in Seq(Unit)
<1> DEFINE b == cl[c].buf
           space == BufSize - Len(b)
<1>1. /\ b \in Seq(Unit) /\ cl[c].pending \in Seq(Unit) /\ net[c] \in Seq(Unit)
      /\ Len(b) \in Nat /\ space \in Nat /\ Len(b) + space = BufSize
  <2>1. b \in Seq(Unit) /\ cl[c].pending \in Seq(Unit) /\ net[c] \in Seq(Unit)
    BY DEF TypeOK, ClientObject
  <2>2. Len(b) \in Nat /\ Len(b) <= BufSize
    BY <2>1, LenProperties DEF TypeOK
  <2>3. BufSize \in Nat
    BY ConstantsAssumption
  <2> HIDE DEF b
  <2>4. space \in Nat /\ Len(b) + space = BufSize
    BY <2>2, <2>3
  <2> QED
    BY <2>1, <2>2, <2>4
<1>2. f \in ReadInto(c, space)
  BY DEF client_read
<1> HIDE DEF b, space
<1>3. ASSUME NEW from \in Seq(Unit)
      PROVE  LET n == Smaller(Len(from), space) IN
             /\ b \o SubSeq(from, 1, n) \in Seq(Unit)
             /\ Len(b \o SubSeq(from, 1, n)) <= BufSize
             /\ Drop(from, n) \in Seq(Unit)
  BY <1>1, TransferType
<1>4. CASE via[c] \notin TlsListeners
  <2>1. f = [buf |-> b \o SubSeq(net[c], 1, Smaller(Len(net[c]), space)), pending |-> <<>>,
             net |-> Drop(net[c], Smaller(Len(net[c]), space))]
    BY <1>2, <1>4 DEF ReadInto, b
  <2> QED
    BY <1>1, <1>3, <2>1, EmptySeq
<1>5. CASE via[c] \in TlsListeners /\ cl[c].pending # <<>>
  <2>1. f = [buf |-> b \o SubSeq(cl[c].pending, 1, Smaller(Len(cl[c].pending), space)),
             pending |-> Drop(cl[c].pending, Smaller(Len(cl[c].pending), space)),
             net |-> net[c]]
    BY <1>2, <1>5 DEF ReadInto, b
  <2> QED
    BY <1>1, <1>3, <2>1
<1>6. CASE via[c] \in TlsListeners /\ cl[c].pending = <<>>
  <2>1. PICK m \in 1..Smaller(RecordMax, Len(net[c])) :
          f = [buf |-> b \o SubSeq(SubSeq(net[c], 1, m), 1,
                                   Smaller(Len(SubSeq(net[c], 1, m)), space)),
               pending |-> Drop(SubSeq(net[c], 1, m),
                                Smaller(Len(SubSeq(net[c], 1, m)), space)),
               net |-> Drop(net[c], m)]
    BY <1>2, <1>6 DEF ReadInto, b
  <2>2. m \in Nat /\ m <= Len(net[c])
    BY <1>1, LenProperties, ConstantsAssumption DEF Smaller
  <2>3. SubSeq(net[c], 1, m) \in Seq(Unit) /\ Drop(net[c], m) \in Seq(Unit)
    BY <1>1, <2>2, CutType
  <2> HIDE DEF Drop
  <2> QED
    BY <1>3, <2>1, <2>3
<1> QED
  BY <1>4, <1>5, <1>6

\* The same for what a turn of handle_client_event passes to the parser.
LEMMA ParsingType ==
    ASSUME TypeOK, NEW c \in Conns, NEW f \in Parsing(c)
    PROVE  /\ f.buf \in Seq(Unit) /\ Len(f.buf) <= BufSize
           /\ f.pending \in Seq(Unit)
           /\ f.net \in Seq(Unit)
<1>1. CASE buffered_request_ready(cl[c].buf)
  BY <1>1 DEF Parsing, Fetched, TypeOK, ClientObject
<1>2. CASE ~buffered_request_ready(cl[c].buf)
  BY <1>2, ReadType DEF Parsing, Fetched
<1> QED
  BY <1>1, <1>2

\* What is left of a buffer after a request is no longer than the buffer was.
LEMMA ConsumedType ==
    ASSUME NEW b \in Seq(Unit)
    PROVE  Consumed(b) \in Seq(Unit) /\ Len(Consumed(b)) <= Len(b)
<1> DEFINE req == rpsiod_http_parse_request(b)
<1>1. req.header_len + req.content_length \in Nat
  BY ParseType
<1> QED
  BY <1>1, CutType DEF Consumed

(***************************************************************************)
(* The inductive invariant.  Neither EventsAreLive nor                     *)
(* ConnectionsAccounted is inductive by itself: that a closed client has   *)
(* no event left needs both, and the sweep and the stop need the batch to  *)
(* be over.                                                                *)
(***************************************************************************)

\* Outside a batch no event is outstanding; accept_clients runs on a listener.
BatchOver ==
    /\ pc \in {"top", "sweep", "exited"} => cev = {}
    /\ pc = "accept" => cur \in Listeners

IInv == TypeOK /\ EventsAreLive /\ ConnectionsAccounted /\ BatchOver

\* The counters after the connections of S, all counted, are closed.
LEMMA UncountedValue ==
    ASSUME NEW p \in [accepted : Nat, active : Nat, closed : Nat],
           NEW A, IsFiniteSet(A), NEW S, S \subseteq A,
           p.active = Cardinality(A), p.accepted = p.closed + p.active
    PROVE  LET q == Uncounted(p, Cardinality(S)) IN
           /\ q \in [accepted : Nat, active : Nat, closed : Nat]
           /\ q.active = Cardinality(A \ S)
           /\ q.accepted = q.closed + q.active
<1>1. /\ IsFiniteSet(S)
      /\ Cardinality(S) \in Nat /\ Cardinality(A) \in Nat
      /\ Cardinality(S) <= Cardinality(A)
  BY FS_Subset, FS_CardinalityType
<1>2. Cardinality(A \ S) = Cardinality(A) - Cardinality(S)
  <2>1. A \cap S = S
    OBVIOUS
  <2>2. Cardinality(A \ S) = Cardinality(A) - Cardinality(A \cap S)
    BY FS_Difference, Zenon
  <2> QED
    BY <2>1, <2>2
<1>3. ASSUME NEW k \in Nat, k <= p.active
      PROVE  /\ Uncounted(p, k) \in [accepted : Nat, active : Nat, closed : Nat]
             /\ Uncounted(p, k).active = p.active - k
             /\ Uncounted(p, k).accepted = Uncounted(p, k).closed + Uncounted(p, k).active
  BY <1>3 DEF Uncounted
<1> QED
  BY <1>1, <1>2, <1>3

\* Freeing the connections of S leaves the others as they were.
LEMMA FreeType ==
    ASSUME TypeOK, NEW S, FreeClients(S)
    PROVE  /\ st' \in [Conns -> {"none", "backlog", "open", "closed"}]
           /\ net' \in [Conns -> Seq(Unit)]
           /\ todo' \in [Conns -> Seq(Unit)]
           /\ cl' \in [Conns -> ClientObject]
           /\ \A c \in Conns : Len(cl'[c].buf) <= BufSize
           /\ OpenConns' = OpenConns \ S
<1>1. <<>> \in Seq(Unit) /\ Len(<<>>) = 0
  BY EmptySeq
<1>2. FreshClient \in ClientObject
  BY <1>1, ConstantsAssumption DEF FreshClient, ClientObject
<1>3. Len(FreshClient.buf) <= BufSize
  BY <1>1, ConstantsAssumption DEF FreshClient, ClientObject
<1>4. /\ st' \in [Conns -> {"none", "backlog", "open", "closed"}]
      /\ OpenConns' = OpenConns \ S
  BY DEF TypeOK, FreeClients, OpenConns
<1>5. /\ net' \in [Conns -> Seq(Unit)]
      /\ todo' \in [Conns -> Seq(Unit)]
  BY <1>1 DEF TypeOK, FreeClients
<1>6. /\ cl' \in [Conns -> ClientObject]
      /\ \A c \in Conns : Len(cl'[c].buf) <= BufSize
  BY <1>2, <1>3 DEF TypeOK, FreeClients
<1> QED
  BY <1>4, <1>5, <1>6

\* close_client on clients of the list: the epoll set, the list and the
\* counters lose the same connections.
LEMMA CloseAccounts ==
    ASSUME IInv, pc # "h2", NEW S, S \subseteq clients, close_client(S)
    PROVE  /\ OpenConns' = OpenConns \ S
           /\ clients' = OpenConns'
           /\ polled' = clients'
           /\ clients' \subseteq Conns
           /\ perf' \in [accepted : Nat, active : Nat, closed : Nat]
           /\ perf'.active = Cardinality(OpenConns')
           /\ perf'.accepted = perf'.closed + perf'.active
<1>1. OpenConns' = OpenConns \ S
  BY FreeType DEF IInv, close_client
<1>2. clients = OpenConns /\ polled = clients
  BY DEF IInv, ConnectionsAccounted
<1>3. IsFiniteSet(OpenConns)
  BY ConstantsAssumption, FS_Subset DEF OpenConns
<1>4. /\ perf' \in [accepted : Nat, active : Nat, closed : Nat]
      /\ perf'.active = Cardinality(OpenConns \ S)
      /\ perf'.accepted = perf'.closed + perf'.active
  BY <1>2, <1>3, UncountedValue, ZenonT(60) DEF IInv, TypeOK, ConnectionsAccounted, close_client
<1> QED
  BY <1>1, <1>2, <1>4 DEF close_client, OpenConns

\* A step that opens and closes no connection and leaves the loop where it is.
LEMMA QuietStep ==
    ASSUME IInv, TypeOK', OpenConns' = OpenConns,
           UNCHANGED <<pc, cur, cev, clients, polled, perf>>
    PROVE  IInv'
<1>1. EventsAreLive'
  <2>1. \A e \in cev : e.conn \in OpenConns
    BY DEF IInv, EventsAreLive, OpenConns, TypeOK
  <2>2. \A e \in cev : st'[e.conn] = "open"
    BY <2>1 DEF OpenConns
  <2> QED
    BY <2>2 DEF IInv, EventsAreLive
<1>2. ConnectionsAccounted'
  BY DEF IInv, ConnectionsAccounted
<1>3. BatchOver'
  BY DEF IInv, BatchOver
<1> QED
  BY <1>1, <1>2, <1>3 DEF IInv

\* The client being handled is closed and the loop returns to its batch.
LEMMA HandledCloses ==
    ASSUME IInv, NEW c \in Conns, pc \in {"client", "tunnel"}, cur = c,
           close_client({c}), pc' = "batch", cur' = Nobody,
           UNCHANGED <<via, fin, sent, lev, cev, stop>>
    PROVE  IInv'
<1>1. c \in clients /\ \A e \in cev : e.conn # c
  BY DEF IInv, EventsAreLive
<1>2. /\ OpenConns' = OpenConns \ {c}
      /\ clients' = OpenConns'
      /\ polled' = clients'
      /\ clients' \subseteq Conns
      /\ perf' \in [accepted : Nat, active : Nat, closed : Nat]
      /\ perf'.active = Cardinality(OpenConns')
      /\ perf'.accepted = perf'.closed + perf'.active
  BY <1>1, CloseAccounts
<1>3. TypeOK'
  <2>1. FreeClients({c})
    BY DEF close_client
  <2> QED
    BY <1>2, <2>1, FreeType DEF IInv, TypeOK
<1>4. EventsAreLive'
  <2>1. \A e \in cev : e.conn \in OpenConns
    BY DEF IInv, EventsAreLive, OpenConns, TypeOK
  <2>2. \A e \in cev : e.conn \in OpenConns'
    BY <1>1, <1>2, <2>1
  <2> QED
    BY <1>2, <2>2 DEF IInv, EventsAreLive, OpenConns
<1>5. ConnectionsAccounted'
  BY <1>2 DEF ConnectionsAccounted
<1>6. BatchOver'
  BY DEF BatchOver
<1> QED
  BY <1>3, <1>4, <1>5, <1>6 DEF IInv

(***************************************************************************)
(* The invariant holds initially and every action preserves it.            *)
(***************************************************************************)

\* The worker starts in the inductive invariant: no client exists.
LEMMA InitIInv == Init => IInv
<1> SUFFICES ASSUME Init PROVE IInv
  OBVIOUS
<1>1. <<>> \in Seq(Unit) /\ Len(<<>>) = 0
  BY EmptySeq
<1>2. TypeOK
  <2>1. /\ FreshClient \in ClientObject
        /\ Len(FreshClient.buf) <= BufSize
    BY <1>1, ConstantsAssumption DEF FreshClient, ClientObject
  <2>2. /\ cl \in [Conns -> ClientObject]
        /\ \A c \in Conns : Len(cl[c].buf) <= BufSize
    BY <2>1 DEF Init
  <2>3. sent \in [Conns -> 0..MaxReqs]
    BY ConstantsAssumption DEF Init
  <2>4. net \in [Conns -> Seq(Unit)] /\ todo \in [Conns -> Seq(Unit)]
    BY <1>1 DEF Init
  <2>5. perf \in [accepted : Nat, active : Nat, closed : Nat]
    BY DEF Init
  <2> QED
    BY <2>2, <2>3, <2>4, <2>5 DEF Init, TypeOK
<1>3. OpenConns = {}
  BY DEF Init, OpenConns
<1>4. EventsAreLive
  BY DEF Init, EventsAreLive
<1>5. ConnectionsAccounted
  BY <1>3, FS_EmptySet DEF Init, ConnectionsAccounted
<1>6. BatchOver
  BY DEF Init, BatchOver
<1> QED
  BY <1>2, <1>4, <1>5, <1>6 DEF IInv

\* What the peers and the clock do.
LEMMA PeerPreserves ==
    ASSUME IInv, NEW c \in Conns,
           \/ Connect(c) \/ SendUnit(c) \/ Hangup(c) \/ SignalStop \/ Tick
           \/ \E k \in Kinds : BeginRequest(c, k)
    PROVE  IInv'
<1>1. CASE Connect(c)
  <2>1. TypeOK'
    BY <1>1 DEF IInv, TypeOK, Connect
  <2>2. OpenConns' = OpenConns
    BY <1>1 DEF IInv, TypeOK, Connect, OpenConns
  <2> QED
    BY <1>1, <2>1, <2>2, QuietStep DEF Connect
<1>2. CASE SendUnit(c)
  <2>1. Head(todo[c]) \in Unit /\ Tail(todo[c]) \in Seq(Unit)
    BY <1>2, HeadTailProperties DEF IInv, TypeOK, SendUnit
  <2>2. Append(net[c], Head(todo[c])) \in Seq(Unit)
    BY <2>1, AppendProperties DEF IInv, TypeOK
  <2>3. TypeOK'
    BY <1>2, <2>1, <2>2 DEF IInv, TypeOK, SendUnit
  <2> QED
    BY <1>2, <2>3, QuietStep DEF SendUnit, OpenConns
<1>3. CASE Hangup(c)
  <2>1. TypeOK'
    BY <1>3 DEF IInv, TypeOK, Hangup
  <2> QED
    BY <1>3, <2>1, QuietStep DEF Hangup, OpenConns
<1>4. CASE SignalStop
  <2>1. TypeOK'
    BY <1>4 DEF IInv, TypeOK, SignalStop
  <2> QED
    BY <1>4, <2>1, QuietStep DEF SignalStop, OpenConns
<1>5. CASE Tick
  <2>1. ASSUME NEW d \in Conns
        PROVE  /\ cl'[d] \in ClientObject
               /\ Len(cl'[d].buf) <= BufSize
    <3>1. /\ cl[d] \in ClientObject
          /\ Len(cl[d].buf) <= BufSize
      BY DEF IInv, TypeOK
    <3>2. KeepAliveTimeout \in Nat
      BY ConstantsAssumption
    <3>3. \/ cl'[d] = cl[d]
          \/ cl[d].age < KeepAliveTimeout /\ cl'[d] = [cl[d] EXCEPT !.age = @ + 1]
      BY <1>5 DEF Tick
    <3>4. CASE cl[d].age < KeepAliveTimeout /\ cl'[d] = [cl[d] EXCEPT !.age = @ + 1]
      <4>1. cl[d].age + 1 \in 0..KeepAliveTimeout
        BY <3>1, <3>2, <3>4 DEF ClientObject
      <4> QED
        BY <3>1, <3>4, <4>1 DEF ClientObject
    <3> QED
      BY <3>1, <3>3, <3>4
  <2>2. DOMAIN cl' = Conns /\ cl' = [d \in Conns |-> cl'[d]]
    BY <1>5 DEF Tick
  <2>3. TypeOK'
    BY <1>5, <2>1, <2>2 DEF IInv, TypeOK, Tick
  <2> QED
    BY <1>5, <2>3, QuietStep DEF Tick, OpenConns
<1>6. ASSUME NEW k \in Kinds, BeginRequest(c, k) PROVE IInv'
  <2>1. sent[c] + 1 \in 0..MaxReqs /\ sent[c] + 1 \in Nat \ {0}
    <3>1. sent[c] \in 0..MaxReqs
      BY DEF IInv, TypeOK
    <3>2. sent[c] < MaxReqs
      BY <1>6 DEF BeginRequest
    <3>3. MaxReqs \in Nat
      BY ConstantsAssumption
    <3> QED
      BY <3>1, <3>2, <3>3
  <2>2. [i \in 1..Size(k) |-> [n |-> sent[c] + 1, kind |-> k, pos |-> i]] \in Seq(Unit)
    BY <2>1, RequestType
  <2>3. TypeOK'
    BY <1>6, <2>1, <2>2 DEF IInv, TypeOK, BeginRequest
  <2> QED
    BY <1>6, <2>3, QuietStep DEF BeginRequest, OpenConns
<1> QED
  BY <1>1, <1>2, <1>3, <1>4, <1>5, <1>6

\* The epoll loop: waiting, taking events from the batch, sweeping, stopping.
LEMMA LoopPreserves ==
    ASSUME IInv,
           \/ EpollWait \/ EndBatch \/ sweep_idle_keep_alive_clients
           \/ StopWorker \/ EpollFails
           \/ \E l \in Listeners : StartAccept(l)
           \/ \E e \in cev : StartClient(e) \/ HangupEvent(e)
    PROVE  IInv'
<1>1. CASE EpollWait
  <2>1. PICK S \in SUBSET ReadyClients :
          cev' = {[conn |-> c, hup |-> fin[c]] : c \in S}
    BY <1>1 DEF EpollWait
  <2>2. S \subseteq clients /\ clients = OpenConns
    BY <1>1 DEF IInv, ConnectionsAccounted, ReadyClients, EpollWait
  <2>3. lev' \subseteq Listeners
    BY <1>1 DEF EpollWait, ReadyListeners
  <2>4. cev' \subseteq [conn : Conns, hup : BOOLEAN]
    BY <2>1, <2>2 DEF IInv, TypeOK
  <2>5. TypeOK'
    BY <1>1, <2>3, <2>4 DEF IInv, TypeOK, EpollWait
  <2>6. EventsAreLive'
    BY <1>1, <2>1, <2>2 DEF EventsAreLive, EpollWait, OpenConns
  <2>7. ConnectionsAccounted'
    BY <1>1 DEF IInv, ConnectionsAccounted, EpollWait, OpenConns
  <2>8. BatchOver'
    BY <1>1 DEF BatchOver, EpollWait
  <2> QED
    BY <2>5, <2>6, <2>7, <2>8 DEF IInv
<1>2. CASE EndBatch
  <2>1. TypeOK'
    BY <1>2 DEF IInv, TypeOK, EndBatch
  <2>2. EventsAreLive' /\ BatchOver'
    BY <1>2 DEF EventsAreLive, BatchOver, EndBatch
  <2>3. ConnectionsAccounted'
    BY <1>2 DEF IInv, ConnectionsAccounted, EndBatch, OpenConns
  <2> QED
    BY <2>1, <2>2, <2>3 DEF IInv
<1>3. CASE sweep_idle_keep_alive_clients
  <2>1. close_client(Sweepable) /\ Sweepable \subseteq clients /\ pc = "sweep"
    BY <1>3 DEF sweep_idle_keep_alive_clients, Sweepable
  <2>2. /\ clients' = OpenConns'
        /\ polled' = clients'
        /\ clients' \subseteq Conns
        /\ perf' \in [accepted : Nat, active : Nat, closed : Nat]
        /\ perf'.active = Cardinality(OpenConns')
        /\ perf'.accepted = perf'.closed + perf'.active
    BY <2>1, CloseAccounts
  <2>3. TypeOK'
    <3>1. FreeClients(Sweepable)
      BY <2>1 DEF close_client
    <3> QED
      BY <1>3, <2>2, <3>1, FreeType DEF IInv, TypeOK, sweep_idle_keep_alive_clients
  <2>4. cev' = {} /\ pc' = "top"
    BY <1>3 DEF IInv, BatchOver, sweep_idle_keep_alive_clients
  <2>5. EventsAreLive' /\ BatchOver'
    BY <2>4 DEF EventsAreLive, BatchOver
  <2>6. ConnectionsAccounted'
    BY <2>2, <2>4 DEF ConnectionsAccounted
  <2> QED
    BY <2>3, <2>5, <2>6 DEF IInv
<1>4. CASE StopWorker \/ EpollFails
  <2> DEFINE S == clients \cup {c \in Conns : st[c] = "backlog"}
  <2>1. FreeClients(S) /\ pc = "top" /\ pc' = "exited" /\ cev' = cev
    BY <1>4 DEF StopWorker, EpollFails, CloseAll
  <2>2. clients = OpenConns /\ polled = clients /\ cev = {}
    BY <2>1 DEF IInv, ConnectionsAccounted, BatchOver
  <2>3. OpenConns' = {}
    BY <2>1, <2>2, FreeType DEF IInv
  <2>4. IsFiniteSet(OpenConns)
    BY ConstantsAssumption, FS_Subset DEF OpenConns
  <2>5. /\ perf' \in [accepted : Nat, active : Nat, closed : Nat]
        /\ perf'.active = Cardinality(OpenConns \ OpenConns)
        /\ perf'.accepted = perf'.closed + perf'.active
    <3>1. perf' = Uncounted(perf, Cardinality(OpenConns))
      BY <1>4, <2>2 DEF StopWorker, EpollFails, CloseAll
    <3>2. /\ perf \in [accepted : Nat, active : Nat, closed : Nat]
          /\ perf.active = Cardinality(OpenConns)
          /\ perf.accepted = perf.closed + perf.active
      BY DEF IInv, TypeOK, ConnectionsAccounted
    <3> QED
      BY <2>4, <3>1, <3>2, UncountedValue
  <2>6. clients' = {} /\ polled' = {}
    BY <1>4, <2>2 DEF StopWorker, EpollFails, CloseAll
  <2>7. TypeOK'
    BY <1>4, <2>1, <2>5, <2>6, FreeType DEF IInv, TypeOK, StopWorker, EpollFails, CloseAll
  <2>8. EventsAreLive' /\ BatchOver'
    BY <2>1, <2>2 DEF EventsAreLive, BatchOver
  <2>9. ConnectionsAccounted'
    BY <2>1, <2>3, <2>5, <2>6 DEF ConnectionsAccounted
  <2> QED
    BY <2>7, <2>8, <2>9 DEF IInv
<1>5. ASSUME NEW l \in Listeners, StartAccept(l) PROVE IInv'
  <2>1. TypeOK'
    BY <1>5 DEF IInv, TypeOK, StartAccept
  <2>2. EventsAreLive'
    BY <1>5 DEF IInv, EventsAreLive, StartAccept
  <2>3. ConnectionsAccounted'
    BY <1>5 DEF IInv, ConnectionsAccounted, StartAccept, OpenConns
  <2>4. BatchOver'
    BY <1>5 DEF BatchOver, StartAccept
  <2> QED
    BY <2>1, <2>2, <2>3, <2>4 DEF IInv
<1>6. ASSUME NEW e \in cev, StartClient(e) PROVE IInv'
  <2>1. e.conn \in clients /\ e.conn \in Conns
    BY DEF IInv, EventsAreLive, TypeOK
  <2>2. TypeOK'
    BY <1>6, <2>1 DEF IInv, TypeOK, StartClient
  <2>3. EventsAreLive'
    BY <1>6, <2>1 DEF IInv, EventsAreLive, StartClient
  <2>4. ConnectionsAccounted'
    BY <1>6 DEF IInv, ConnectionsAccounted, StartClient, OpenConns
  <2>5. BatchOver'
    BY <1>6 DEF BatchOver, StartClient
  <2> QED
    BY <2>2, <2>3, <2>4, <2>5 DEF IInv
<1>7. ASSUME NEW e \in cev, HangupEvent(e) PROVE IInv'
  <2>1. e.conn \in clients
    BY DEF IInv, EventsAreLive
  <2>2. close_client({e.conn}) /\ pc = "batch" /\ pc' = "batch" /\ cev' = cev \ {e}
    BY <1>7 DEF HangupEvent
  <2>3. /\ OpenConns' = OpenConns \ {e.conn}
        /\ clients' = OpenConns'
        /\ polled' = clients'
        /\ clients' \subseteq Conns
        /\ perf' \in [accepted : Nat, active : Nat, closed : Nat]
        /\ perf'.active = Cardinality(OpenConns')
        /\ perf'.accepted = perf'.closed + perf'.active
    BY <2>1, <2>2, CloseAccounts
  <2>4. TypeOK'
    <3>1. FreeClients({e.conn})
      BY <2>2 DEF close_client
    <3> QED
      BY <1>7, <2>2, <2>3, <3>1, FreeType DEF IInv, TypeOK, HangupEvent
  <2>5. EventsAreLive'
    <3>1. \A f \in cev : f.conn \in OpenConns
      BY DEF IInv, EventsAreLive, OpenConns, TypeOK
    <3>2. \A f \in cev' : f.conn \in OpenConns' /\ st'[f.conn] = "open"
      BY <2>2, <2>3, <3>1 DEF IInv, EventsAreLive, OpenConns
    <3> QED
      BY <2>2, <2>3, <3>2 DEF IInv, EventsAreLive
  <2>6. ConnectionsAccounted'
    BY <2>2, <2>3 DEF ConnectionsAccounted
  <2>7. BatchOver'
    BY <2>2 DEF BatchOver
  <2> QED
    BY <2>4, <2>5, <2>6, <2>7 DEF IInv
<1> QED
  BY <1>1, <1>2, <1>3, <1>4, <1>5, <1>6, <1>7

\* The counters after one connection is accepted.
LEMMA CountedValue ==
    ASSUME NEW p \in [accepted : Nat, active : Nat, closed : Nat],
           p.accepted = p.closed + p.active
    PROVE  LET q == Counted(p) IN
           /\ q \in [accepted : Nat, active : Nat, closed : Nat]
           /\ q.active = p.active + 1
           /\ q.accepted = q.closed + q.active
           /\ Uncounted(q, 1) = [accepted |-> p.accepted + 1, active |-> p.active,
                                 closed |-> p.closed + 1]
BY DEF Counted, Uncounted

\* accept_clients, and the HTTP/2 connections served inside it.
LEMMA AcceptPreserves ==
    ASSUME IInv,
           \/ AcceptReturns \/ Http2Returns
           \/ \E c \in Conns : AcceptClient(c) \/ AcceptDiscards(c) \/ AcceptHttp2(c)
    PROVE  IInv'
<1>1. /\ perf \in [accepted : Nat, active : Nat, closed : Nat]
      /\ perf.active = Cardinality(OpenConns)
      /\ perf.accepted = perf.closed + perf.active
  BY DEF IInv, TypeOK, ConnectionsAccounted
<1>2. IsFiniteSet(OpenConns)
  BY ConstantsAssumption, FS_Subset DEF OpenConns
<1>3. ASSUME NEW c \in Conns, c \notin OpenConns
      PROVE  Cardinality(OpenConns \cup {c}) = Cardinality(OpenConns) + 1
  BY <1>2, <1>3, FS_AddElement
<1>4. \A e \in cev : e.conn \in OpenConns
  BY DEF IInv, EventsAreLive, OpenConns, TypeOK
<1>5. CASE AcceptReturns
  <2>1. <<>> \in Seq(Unit)
    BY EmptySeq
  <2>2. /\ st' \in [Conns -> {"none", "backlog", "open", "closed"}]
        /\ net' \in [Conns -> Seq(Unit)]
        /\ todo' \in [Conns -> Seq(Unit)]
    <3>1. CASE UNCHANGED <<st, net, todo>>
      BY <3>1 DEF IInv, TypeOK
    <3>2. ASSUME NEW c \in Conns,
                 /\ st' = [st EXCEPT ![c] = "closed"]
                 /\ net' = [net EXCEPT ![c] = <<>>]
                 /\ todo' = [todo EXCEPT ![c] = <<>>]
          PROVE  /\ st' \in [Conns -> {"none", "backlog", "open", "closed"}]
                 /\ net' \in [Conns -> Seq(Unit)]
                 /\ todo' \in [Conns -> Seq(Unit)]
      BY <2>1, <3>2 DEF IInv, TypeOK
    <3> QED
      BY <1>5, <3>1, <3>2 DEF AcceptReturns, Waiting
  <2>3. TypeOK'
    BY <1>5, <2>2 DEF IInv, TypeOK, AcceptReturns
  <2>4. OpenConns' = OpenConns
    BY <1>5 DEF IInv, TypeOK, AcceptReturns, Waiting, OpenConns
  <2>5. \A e \in cev : st'[e.conn] = "open"
    BY <1>4, <2>4 DEF OpenConns
  <2>6. EventsAreLive'
    BY <1>5, <2>5 DEF IInv, EventsAreLive, AcceptReturns
  <2>7. ConnectionsAccounted'
    BY <1>5, <2>4 DEF IInv, ConnectionsAccounted, AcceptReturns
  <2>8. BatchOver'
    BY <1>5 DEF BatchOver, AcceptReturns
  <2> QED
    BY <2>6, <2>7, <2>8, <2>3 DEF IInv
<1>6. CASE Http2Returns
  <2>1. cur \in OpenConns /\ cur \notin clients /\ clients = OpenConns \ {cur} /\ polled = clients
    BY <1>6 DEF IInv, EventsAreLive, ConnectionsAccounted, Http2Returns
  <2>2. FreeClients({cur})
    BY <1>6 DEF Http2Returns
  <2>3. OpenConns' = OpenConns \ {cur}
    BY <2>2, FreeType DEF IInv
  <2>4. /\ perf' \in [accepted : Nat, active : Nat, closed : Nat]
        /\ perf'.active = Cardinality(OpenConns')
        /\ perf'.accepted = perf'.closed + perf'.active
    <3>1. perf' = Uncounted(perf, Cardinality({cur}))
      BY <1>6, FS_Singleton DEF Http2Returns
    <3> DEFINE S == {cur}
               q == Uncounted(perf, Cardinality(S))
    <3>2. S \subseteq OpenConns
      BY <2>1
    <3> HIDE DEF S
    <3>3. /\ q \in [accepted : Nat, active : Nat, closed : Nat]
          /\ q.active = Cardinality(OpenConns \ S)
          /\ q.accepted = q.closed + q.active
      BY <1>1, <1>2, <3>2, UncountedValue
    <3> QED
      BY <2>3, <3>1, <3>3 DEF S
  <2>5. cur' \in Listeners /\ pc' = "accept"
    BY <1>6, <2>1 DEF IInv, TypeOK, Http2Returns, OpenConns
  <2>6. TypeOK'
    BY <1>6, <2>2, <2>4, <2>5, FreeType DEF IInv, TypeOK, Http2Returns
  <2>7. \A e \in cev : e.conn \in clients /\ st'[e.conn] = "open"
    BY <2>1, <2>3 DEF IInv, EventsAreLive, OpenConns
  <2>8. EventsAreLive'
    BY <1>6, <2>7 DEF IInv, EventsAreLive, Http2Returns
  <2>9. ConnectionsAccounted'
    BY <1>6, <2>1, <2>3, <2>4 DEF ConnectionsAccounted, Http2Returns
  <2>10. BatchOver'
    BY <2>5 DEF BatchOver
  <2> QED
    BY <2>6, <2>8, <2>9, <2>10 DEF IInv
<1>7. ASSUME NEW c \in Conns, AcceptClient(c) PROVE IInv'
  <2>1. c \notin OpenConns /\ OpenConns' = OpenConns \cup {c}
    BY <1>7 DEF IInv, TypeOK, AcceptClient, Waiting, OpenConns
  <2>2. /\ perf' \in [accepted : Nat, active : Nat, closed : Nat]
        /\ perf'.active = Cardinality(OpenConns')
        /\ perf'.accepted = perf'.closed + perf'.active
    BY <1>1, <1>3, <1>7, <2>1, CountedValue DEF AcceptClient
  <2>3. TypeOK'
    BY <1>7, <2>2 DEF IInv, TypeOK, AcceptClient
  <2>4. \A e \in cev : st'[e.conn] = "open"
    BY <1>4, <2>1 DEF OpenConns
  <2>5. EventsAreLive'
    BY <1>7, <2>4 DEF IInv, EventsAreLive, AcceptClient
  <2>6. ConnectionsAccounted'
    BY <1>7, <2>1, <2>2 DEF IInv, ConnectionsAccounted, AcceptClient
  <2>7. BatchOver'
    BY <1>7 DEF IInv, BatchOver, AcceptClient
  <2> QED
    BY <2>3, <2>5, <2>6, <2>7 DEF IInv
<1>8. ASSUME NEW c \in Conns, AcceptDiscards(c) PROVE IInv'
  <2>1. FreeClients({c}) /\ c \notin OpenConns
    BY <1>8 DEF AcceptDiscards, Waiting, OpenConns
  <2>2. OpenConns' = OpenConns
    <3>1. OpenConns' = OpenConns \ {c}
      BY <2>1, FreeType DEF IInv
    <3> QED
      BY <2>1, <3>1
  <2>3. perf' = [accepted |-> perf.accepted + 1, active |-> perf.active,
                 closed |-> perf.closed + 1]
    BY <1>1, <1>8, CountedValue DEF AcceptDiscards
  <2>4. TypeOK'
    <3>1. perf' \in [accepted : Nat, active : Nat, closed : Nat]
      BY <1>1, <2>3
    <3> QED
      BY <1>8, <2>1, <3>1, FreeType DEF IInv, TypeOK, AcceptDiscards
  <2>5. \A e \in cev : st'[e.conn] = "open"
    BY <1>4, <2>2 DEF OpenConns
  <2>6. EventsAreLive'
    BY <1>8, <2>5 DEF IInv, EventsAreLive, AcceptDiscards
  <2>7. ConnectionsAccounted'
    BY <1>1, <1>8, <2>2, <2>3 DEF IInv, ConnectionsAccounted, AcceptDiscards
  <2>8. BatchOver'
    BY <1>8 DEF IInv, BatchOver, AcceptDiscards
  <2> QED
    BY <2>4, <2>6, <2>7, <2>8 DEF IInv
<1>9. ASSUME NEW c \in Conns, AcceptHttp2(c) PROVE IInv'
  <2>1. c \notin OpenConns /\ OpenConns' = OpenConns \cup {c}
    BY <1>9 DEF IInv, TypeOK, AcceptHttp2, Waiting, OpenConns
  <2>2. /\ perf' \in [accepted : Nat, active : Nat, closed : Nat]
        /\ perf'.active = Cardinality(OpenConns')
        /\ perf'.accepted = perf'.closed + perf'.active
    BY <1>1, <1>3, <1>9, <2>1, CountedValue DEF AcceptHttp2
  <2>3. TypeOK'
    BY <1>9, <2>2 DEF IInv, TypeOK, AcceptHttp2
  <2>4. \A e \in cev : st'[e.conn] = "open"
    BY <1>4, <2>1 DEF OpenConns
  <2>5. clients = OpenConns /\ polled = clients
    BY <1>9 DEF IInv, ConnectionsAccounted, AcceptHttp2
  <2>6. EventsAreLive'
    BY <1>9, <2>1, <2>4, <2>5 DEF IInv, EventsAreLive, AcceptHttp2
  <2>7. ConnectionsAccounted'
    BY <1>9, <2>1, <2>2, <2>5 DEF ConnectionsAccounted, AcceptHttp2
  <2>8. BatchOver'
    BY <1>9 DEF BatchOver, AcceptHttp2
  <2> QED
    BY <2>3, <2>6, <2>7, <2>8 DEF IInv
<1> QED
  BY <1>5, <1>6, <1>7, <1>8, <1>9

\* handle_client_event and the tunnel it may stay in.
LEMMA HandlerPreserves ==
    ASSUME IInv, NEW c \in Conns, handle_client_event(c)
    PROVE  IInv'
<1>1. CASE ReadWouldBlock(c)
  <2>1. TypeOK'
    BY <1>1 DEF IInv, TypeOK, ReadWouldBlock
  <2>2. EventsAreLive'
    BY <1>1 DEF IInv, EventsAreLive, ReadWouldBlock
  <2>3. ConnectionsAccounted'
    BY <1>1 DEF IInv, ConnectionsAccounted, ReadWouldBlock, Handling, OpenConns
  <2>4. BatchOver'
    BY <1>1 DEF BatchOver, ReadWouldBlock
  <2> QED
    BY <2>1, <2>2, <2>3, <2>4 DEF IInv
<1>2. CASE ReadFails(c)
  BY <1>2, HandledCloses DEF ReadFails, Handling
<1>3. CASE BufferFull(c) \/ RefuseTooLarge(c) \/ RejectMalformed(c) \/ ServeAndClose(c)
  BY <1>3, HandledCloses
     DEF BufferFull, RefuseTooLarge, RejectMalformed, ServeAndClose, ReplyAndClose, Handling
<1>4. CASE ReadMore(c)
  <2>1. PICK f \in Parsing(c) :
          /\ cl' = [cl EXCEPT ![c] = Filled(@, f)]
          /\ net' = [net EXCEPT ![c] = f.net]
    BY <1>4 DEF ReadMore
  <2>2. /\ f.buf \in Seq(Unit) /\ Len(f.buf) <= BufSize
        /\ f.pending \in Seq(Unit)
        /\ f.net \in Seq(Unit)
    BY ParsingType DEF IInv
  <2>3. TypeOK'
    <3>1. cl[c] \in ClientObject
      BY DEF IInv, TypeOK
    <3>2. Filled(cl[c], f) \in ClientObject /\ Filled(cl[c], f).buf = f.buf
      BY <2>2, <3>1 DEF Filled, ClientObject
    <3>3. cl' \in [Conns -> ClientObject] /\ \A d \in Conns : Len(cl'[d].buf) <= BufSize
      BY <2>1, <2>2, <3>2 DEF IInv, TypeOK
    <3> QED
      BY <1>4, <2>1, <2>2, <3>3 DEF IInv, TypeOK, ReadMore
  <2> QED
    BY <1>4, <2>3, QuietStep DEF ReadMore, OpenConns
<1>5. CASE ServeAndKeep(c)
  <2>1. PICK f \in Parsing(c) :
          /\ cl' = [cl EXCEPT ![c] =
                      [buf |-> Consumed(f.buf), pending |-> f.pending,
                       blocking |-> GoesOn(Consumed(f.buf)),
                       kaReqs |-> cl[c].kaReqs + 1, idle |-> TRUE, age |-> 0]]
          /\ net' = [net EXCEPT ![c] = f.net]
          /\ pc' = IF GoesOn(Consumed(f.buf)) THEN "client" ELSE "batch"
          /\ cur' = IF GoesOn(Consumed(f.buf)) THEN c ELSE Nobody
    BY <1>5 DEF ServeAndKeep
  <2>2. /\ f.buf \in Seq(Unit) /\ Len(f.buf) <= BufSize
        /\ f.pending \in Seq(Unit)
        /\ f.net \in Seq(Unit)
    BY ParsingType DEF IInv
  <2>3. /\ Consumed(f.buf) \in Seq(Unit)
        /\ Len(Consumed(f.buf)) <= BufSize
    BY <2>2, ConsumedType, LenProperties, ConstantsAssumption
  <2>4. GoesOn(Consumed(f.buf)) \in BOOLEAN
    BY DEF GoesOn, buffered_request_ready
  <2>5. /\ cl' \in [Conns -> ClientObject]
        /\ \A d \in Conns : Len(cl'[d].buf) <= BufSize
    <3> DEFINE r == [buf |-> Consumed(f.buf), pending |-> f.pending,
                     blocking |-> GoesOn(Consumed(f.buf)),
                     kaReqs |-> cl[c].kaReqs + 1, idle |-> TRUE, age |-> 0]
    <3>1. cl[c].kaReqs + 1 \in Nat /\ 0 \in 0..KeepAliveTimeout
      BY ConstantsAssumption, SMTT(60) DEF IInv, TypeOK, ClientObject
    <3>2. r \in ClientObject /\ r.buf = Consumed(f.buf)
      BY <2>2, <2>3, <2>4, <3>1 DEF ClientObject
    <3> QED
      BY <2>1, <2>3, <3>2 DEF IInv, TypeOK
  <2>6. TypeOK'
    BY <1>5, <2>1, <2>2, <2>5 DEF IInv, TypeOK, ServeAndKeep
  <2>7. pc = "client" /\ cur = c
    BY <1>5 DEF ServeAndKeep, Handling
  <2>8. EventsAreLive'
    BY <1>5, <2>1, <2>7 DEF IInv, EventsAreLive, ServeAndKeep
  <2>9. ConnectionsAccounted'
    BY <1>5, <2>1, <2>7 DEF IInv, ConnectionsAccounted, ServeAndKeep, OpenConns
  <2>10. BatchOver'
    BY <2>1 DEF BatchOver
  <2> QED
    BY <2>6, <2>8, <2>9, <2>10 DEF IInv
<1>6. CASE OpenTunnel(c)
  <2>1. PICK f \in Parsing(c) :
          /\ cl' = [cl EXCEPT ![c] =
                      [buf |-> f.buf, pending |-> f.pending, blocking |-> TRUE,
                       kaReqs |-> @.kaReqs, idle |-> FALSE, age |-> 0]]
          /\ net' = [net EXCEPT ![c] = f.net]
    BY <1>6 DEF OpenTunnel
  <2>2. /\ f.buf \in Seq(Unit) /\ Len(f.buf) <= BufSize
        /\ f.pending \in Seq(Unit)
        /\ f.net \in Seq(Unit)
    BY ParsingType DEF IInv
  <2>3. 0 \in 0..KeepAliveTimeout
    BY ConstantsAssumption
  <2>4. TypeOK'
    <3> DEFINE r == [buf |-> f.buf, pending |-> f.pending, blocking |-> TRUE,
                     kaReqs |-> cl[c].kaReqs, idle |-> FALSE, age |-> 0]
    <3>1. cl[c].kaReqs \in Nat
      BY DEF IInv, TypeOK, ClientObject
    <3>2. r \in ClientObject /\ r.buf = f.buf
      BY <2>2, <2>3, <3>1 DEF ClientObject
    <3>3. cl' \in [Conns -> ClientObject] /\ \A d \in Conns : Len(cl'[d].buf) <= BufSize
      BY <2>1, <2>2, <3>2 DEF IInv, TypeOK
    <3> QED
      BY <1>6, <2>1, <2>2, <3>3 DEF IInv, TypeOK, OpenTunnel
  <2>5. pc = "client" /\ pc' = "tunnel" /\ cur' = cur
    BY <1>6 DEF OpenTunnel, Handling
  <2>6. EventsAreLive'
    BY <1>6, <2>5 DEF IInv, EventsAreLive, OpenTunnel
  <2>7. ConnectionsAccounted'
    BY <1>6, <2>5 DEF IInv, ConnectionsAccounted, OpenTunnel, OpenConns
  <2>8. BatchOver'
    BY <2>5 DEF BatchOver
  <2> QED
    BY <2>4, <2>6, <2>7, <2>8 DEF IInv
<1> QED
  BY <1>1, <1>2, <1>3, <1>4, <1>5, <1>6 DEF handle_client_event

\* Every step of the worker, its peers and the clock keeps the inductive invariant.
LEMMA NextIInv == IInv /\ [Next]_vars => IInv'
<1> SUFFICES ASSUME IInv, [Next]_vars PROVE IInv'
  OBVIOUS
<1>1. CASE UNCHANGED vars
  <2>1. TypeOK' /\ EventsAreLive' /\ ConnectionsAccounted' /\ BatchOver'
    BY <1>1 DEF vars, IInv, TypeOK, EventsAreLive, ConnectionsAccounted, BatchOver, OpenConns
  <2> QED
    BY <2>1 DEF IInv
<1>2. CASE TunnelEnds
  <2>1. cur \in Conns
    BY <1>2 DEF IInv, EventsAreLive, TypeOK, TunnelEnds
  <2> QED
    BY <1>2, <2>1, HandledCloses DEF TunnelEnds
<1>3. CASE SignalStop \/ Tick
  <2>1. CASE Conns = {}
    <3>1. ~Tick
      BY <2>1 DEF Tick
    <3>2. TypeOK'
      BY <1>3, <3>1 DEF IInv, TypeOK, SignalStop
    <3> QED
      BY <1>3, <3>1, <3>2, QuietStep DEF SignalStop, OpenConns
  <2>2. CASE Conns # {}
    BY <1>3, <2>2, PeerPreserves
  <2> QED
    BY <2>1, <2>2
<1>4. ASSUME NEW c \in Conns,
             \/ Connect(c) \/ SendUnit(c) \/ Hangup(c)
             \/ \E k \in Kinds : BeginRequest(c, k)
      PROVE  IInv'
  BY <1>4, PeerPreserves
<1>5. CASE Http2Returns \/ accept_clients
  BY <1>5, AcceptPreserves DEF accept_clients
<1>6. CASE \/ EpollWait \/ EndBatch \/ sweep_idle_keep_alive_clients
           \/ StopWorker \/ EpollFails
           \/ \E l \in Listeners : StartAccept(l)
           \/ \E e \in cev : StartClient(e) \/ HangupEvent(e)
  BY <1>6, LoopPreserves
<1>7. CASE \E c \in Conns : handle_client_event(c)
  BY <1>7, HandlerPreserves
<1> QED
  BY <1>1, <1>2, <1>3, <1>4, <1>5, <1>6, <1>7 DEF Next, WorkerStep, PeerStep

\* The inductive invariant holds throughout every behaviour of the worker.
LEMMA SpecIInv == Spec => []IInv
BY InitIInv, NextIInv, PTL DEF Spec

\* Type correctness of the worker, for every instance: in particular the
\* buffer of no client_object ever overflows.
THEOREM TypeCorrect == Spec => []TypeOK
<1>1. IInv => TypeOK
  BY DEF IInv
<1> QED
  BY <1>1, SpecIInv, PTL

\* No event of a batch refers to a freed client_object, however the closes of
\* the handlers, of the sweep and of the stop interleave with the batches.
THEOREM EventsStayLive == Spec => []EventsAreLive
<1>1. IInv => EventsAreLive
  BY DEF IInv
<1> QED
  BY <1>1, SpecIInv, PTL

\* The epoll set, the client list and the connection counters always describe
\* the same connections.
THEOREM ConnectionsStayAccounted == Spec => []ConnectionsAccounted
<1>1. IInv => ConnectionsAccounted
  BY DEF IInv
<1> QED
  BY <1>1, SpecIInv, PTL

-----------------------------------------------------------------------------
(* Input.                                                                  *)

\* The inductive strengthening: an object that is not open is as calloc made
\* it, and SSL keeps bytes back only when the buffer is full, in which case the
\* connection is refused in the same turn.
InputInv ==
    /\ \A c \in Conns : st[c] # "open" => cl[c] = FreshClient
    /\ \A c \in Conns : cl[c].pending = <<>>
    /\ \A c \in Conns : Parked(c) => ~cl[c].blocking /\ ~buffered_request_ready(cl[c].buf)
    /\ pc = "client" /\ cl[cur].blocking => buffered_request_ready(cl[cur].buf)

\* A new client_object passes for a parked one.
LEMMA FreshIsIdle ==
    /\ FreshClient.pending = <<>>
    /\ ~FreshClient.blocking
    /\ ~buffered_request_ready(FreshClient.buf)
<1>1. FreshClient.buf = <<>> /\ FreshClient.pending = <<>> /\ ~FreshClient.blocking
  BY DEF FreshClient
<1>2. HeaderEnds(<<>>) = {}
  BY EmptySeq DEF HeaderEnds
<1>3. rpsiod_http_parse_request(<<>>).rc = 0
  BY <1>2 DEF rpsiod_http_parse_request
<1> QED
  BY <1>1, <1>3 DEF buffered_request_ready

\* A record that did not fit has filled the buffer.
LEMMA TransferLeavesNothing ==
    ASSUME NEW b \in Seq(Unit), NEW from \in Seq(Unit), NEW space \in Nat,
           Len(b \o SubSeq(from, 1, Smaller(Len(from), space))) < Len(b) + space
    PROVE  Drop(from, Smaller(Len(from), space)) = <<>>
<1> DEFINE n == Smaller(Len(from), space)
<1>1. n \in Nat /\ n <= Len(from) /\ (n = Len(from) \/ n = space) /\ Len(from) \in Nat
  BY LenProperties DEF Smaller
<1>2. Len(b \o SubSeq(from, 1, n)) < Len(b) + space
  OBVIOUS
<1> HIDE DEF n
<1>3. SubSeq(from, 1, n) \in Seq(Unit) /\ Len(SubSeq(from, 1, n)) = n
  BY <1>1, CutType
<1>4. Len(b \o SubSeq(from, 1, n)) = Len(b) + n
  BY <1>3, ConcatProperties
<1>5. n = Len(from)
  BY <1>1, <1>2, <1>4, LenProperties
<1>6. SubSeq(from, n + 1, Len(from)) = <<>>
  BY <1>1, <1>5, SubSeqEmpty
<1> QED
  BY <1>6 DEF Drop, n

\* What reaches the parser leaves nothing in the SSL object.
LEMMA ParsingTakesAll ==
    ASSUME TypeOK, NEW c \in Conns, cl[c].pending = <<>>, NEW f \in Parsing(c)
    PROVE  f.pending = <<>>
<1>1. CASE buffered_request_ready(cl[c].buf)
  BY <1>1 DEF Parsing, Fetched
<1>2. CASE ~buffered_request_ready(cl[c].buf)
  <2> DEFINE b == cl[c].buf
             space == BufSize - Len(b)
  <2>1. f \in ReadInto(c, space) /\ Len(f.buf) < BufSize
    <3>1. f \in client_read(c) /\ Len(f.buf) # BufSize
      BY <1>2 DEF Parsing, Fetched
    <3>2. Len(f.buf) \in Nat /\ Len(f.buf) <= BufSize
      BY <3>1, ReadType, LenProperties
    <3>3. Len(f.buf) < BufSize
      BY <3>1, <3>2, ConstantsAssumption
    <3> QED
      BY <3>1, <3>3 DEF client_read
  <2>2. /\ b \in Seq(Unit) /\ net[c] \in Seq(Unit)
        /\ Len(b) \in Nat /\ space \in Nat /\ Len(b) + space = BufSize
    <3>1. b \in Seq(Unit) /\ net[c] \in Seq(Unit)
      BY DEF TypeOK, ClientObject
    <3>2. Len(b) \in Nat /\ Len(b) <= BufSize
      BY <3>1, LenProperties DEF TypeOK
    <3>3. BufSize \in Nat
      BY ConstantsAssumption
    <3> QED
      BY <3>1, <3>2, <3>3
  <2> HIDE DEF b, space
  <2>3. CASE via[c] \notin TlsListeners
    BY <2>1, <2>3 DEF ReadInto
  <2>4. CASE via[c] \in TlsListeners
    <3>1. PICK m \in 1..Smaller(RecordMax, Len(net[c])) :
            f = [buf |-> b \o SubSeq(SubSeq(net[c], 1, m), 1,
                                     Smaller(Len(SubSeq(net[c], 1, m)), space)),
                 pending |-> Drop(SubSeq(net[c], 1, m),
                                  Smaller(Len(SubSeq(net[c], 1, m)), space)),
                 net |-> Drop(net[c], m)]
      BY <2>1, <2>4 DEF ReadInto, b
    <3>2. m \in Nat /\ m <= Len(net[c])
      BY <2>2, LenProperties, ConstantsAssumption DEF Smaller
    <3>3. SubSeq(net[c], 1, m) \in Seq(Unit)
      BY <2>2, <3>2, CutType
    <3> DEFINE from == SubSeq(net[c], 1, m)
    <3>4. /\ f.pending = Drop(from, Smaller(Len(from), space))
          /\ f.buf = b \o SubSeq(from, 1, Smaller(Len(from), space))
      BY <3>1
    <3> HIDE DEF from
    <3>5. Len(b \o SubSeq(from, 1, Smaller(Len(from), space))) < Len(b) + space
      BY <2>1, <2>2, <3>4
    <3>6. Drop(from, Smaller(Len(from), space)) = <<>>
      BY <2>2, <3>3, <3>5, TransferLeavesNothing DEF from
    <3> QED
      BY <3>4, <3>6
  <2> QED
    BY <2>3, <2>4
<1> QED
  BY <1>1, <1>2

\* Freed objects are new ones again; the others are untouched.
LEMMA FreeKeepsInput ==
    ASSUME TypeOK, InputInv, NEW S, FreeClients(S)
    PROVE  /\ \A c \in Conns : st'[c] # "open" => cl'[c] = FreshClient
           /\ \A c \in Conns : cl'[c].pending = <<>>
           /\ \A c \in Conns : c \notin S => cl'[c] = cl[c]
<1>1. \A c \in Conns : cl'[c] = IF c \in S THEN FreshClient ELSE cl[c]
  BY DEF FreeClients
<1>2. \A c \in Conns : st'[c] = IF c \in S THEN "closed" ELSE st[c]
  BY DEF FreeClients
<1> QED
  BY <1>1, <1>2, FreshIsIdle DEF InputInv

\* The handled client is closed and the loop returns to its batch.
LEMMA HandledClosesInput ==
    ASSUME IInv, InputInv, NEW c \in Conns, pc \in {"client", "tunnel"}, cur = c,
           close_client({c}), pc' = "batch"
    PROVE  InputInv'
<1>1. FreeClients({c}) /\ clients' = clients \ {c}
  BY DEF close_client
<1>2. /\ \A d \in Conns : st'[d] # "open" => cl'[d] = FreshClient
      /\ \A d \in Conns : cl'[d].pending = <<>>
      /\ \A d \in Conns : d \notin {c} => cl'[d] = cl[d]
  BY <1>1, FreeKeepsInput DEF IInv
<1>3. ASSUME NEW d \in Conns, Parked(d)'
      PROVE  ~cl'[d].blocking /\ ~buffered_request_ready(cl'[d].buf)
  <2>1. d # c /\ d \in clients
    BY <1>1, <1>3 DEF Parked
  <2>2. Parked(d)
    BY <2>1 DEF Parked
  <2> QED
    BY <1>2, <2>1, <2>2 DEF InputInv
<1> QED
  BY <1>2, <1>3 DEF InputInv

\* Steps that leave the client_objects and the list alone and start no handler.
LEMMA UntouchedInput ==
    ASSUME TypeOK, InputInv, cl' = cl, clients' = clients,
           \A c \in Conns : st'[c] # "open" => st[c] # "open",
           \/ pc' = pc /\ cur' = cur
           \/ {pc, pc'} \cap {"client", "tunnel"} = {}
    PROVE  InputInv'
<1>1. \A c \in Conns : Parked(c)' => Parked(c)
  BY DEF Parked
<1> QED
  BY <1>1 DEF InputInv

\* Initially nothing is parked, so nothing can be stranded.
LEMMA InitInput == Init => InputInv
<1> SUFFICES ASSUME Init PROVE InputInv
  OBVIOUS
<1>1. \A c \in Conns : cl[c] = FreshClient
  BY DEF Init
<1>2. pc # "client"
  BY DEF Init
<1> QED
  BY <1>1, <1>2, FreshIsIdle DEF InputInv

\* The peers, the clock and the loop outside the handlers.
LEMMA LoopKeepsInput ==
    ASSUME IInv, InputInv,
           \/ \E c \in Conns :
                \/ Connect(c) \/ SendUnit(c) \/ Hangup(c)
                \/ \E k \in Kinds : BeginRequest(c, k)
           \/ SignalStop \/ Tick
           \/ EpollWait \/ EndBatch \/ sweep_idle_keep_alive_clients
           \/ StopWorker \/ EpollFails
           \/ \E l \in Listeners : StartAccept(l)
           \/ \E e \in cev : StartClient(e) \/ HangupEvent(e)
    PROVE  InputInv'
<1>0. TypeOK
  BY DEF IInv
<1>1. CASE \/ \E c \in Conns :
                \/ Connect(c) \/ SendUnit(c) \/ Hangup(c)
                \/ \E k \in Kinds : BeginRequest(c, k)
           \/ SignalStop
  <2>1. UNCHANGED <<cl, clients, pc, cur>>
    BY <1>1 DEF Connect, SendUnit, Hangup, BeginRequest, SignalStop
  <2>2. \A d \in Conns : st'[d] # "open" => st[d] # "open"
    BY <1>0, <1>1 DEF TypeOK, Connect, SendUnit, Hangup, BeginRequest, SignalStop
  <2> QED
    BY <1>0, <2>1, <2>2, UntouchedInput
<1>2. CASE EpollWait \/ EndBatch \/ \E l \in Listeners : StartAccept(l)
  <2>1. /\ UNCHANGED <<cl, clients, st>>
        /\ {pc, pc'} \cap {"client", "tunnel"} = {}
    BY <1>2 DEF EpollWait, EndBatch, StartAccept
  <2> QED
    BY <1>0, <2>1, UntouchedInput
<1>3. CASE Tick
  <2>1. ASSUME NEW d \in Conns
        PROVE  /\ cl'[d].buf = cl[d].buf
               /\ cl'[d].pending = cl[d].pending
               /\ cl'[d].blocking = cl[d].blocking
               /\ st[d] # "open" => cl'[d] = cl[d]
    BY <1>0, <1>3 DEF TypeOK, ClientObject, Tick
  <2>2. UNCHANGED <<st, clients, pc, cur>>
    BY <1>3 DEF Tick
  <2>3. pc = "client" => cur \in Conns
    BY DEF IInv, EventsAreLive, TypeOK
  <2>4. \A d \in Conns : Parked(d)' => Parked(d)
    BY <2>2 DEF Parked
  <2> QED
    BY <2>1, <2>2, <2>3, <2>4 DEF InputInv
<1>4. CASE \/ sweep_idle_keep_alive_clients \/ StopWorker \/ EpollFails
           \/ \E e \in cev : HangupEvent(e)
  <2>1. PICK S : FreeClients(S) /\ clients' = clients \ S
    <3>1. CASE sweep_idle_keep_alive_clients
      BY <3>1 DEF sweep_idle_keep_alive_clients, close_client
    <3>2. CASE StopWorker \/ EpollFails
      <4>1. FreeClients(clients \cup {c \in Conns : st[c] = "backlog"}) /\ clients' = {}
        BY <3>2 DEF StopWorker, EpollFails, CloseAll
      <4>2. clients' = clients \ (clients \cup {c \in Conns : st[c] = "backlog"})
        BY <4>1
      <4> QED
        BY <4>1, <4>2
    <3>3. CASE \E e \in cev : HangupEvent(e)
      BY <3>3 DEF HangupEvent, close_client
    <3> QED
      BY <1>4, <3>1, <3>2, <3>3
  <2>2. {pc, pc'} \cap {"client", "tunnel"} = {}
    BY <1>4 DEF sweep_idle_keep_alive_clients, StopWorker, EpollFails, CloseAll, HangupEvent
  <2>3. /\ \A d \in Conns : st'[d] # "open" => cl'[d] = FreshClient
        /\ \A d \in Conns : cl'[d].pending = <<>>
        /\ \A d \in Conns : d \notin S => cl'[d] = cl[d]
    BY <1>0, <2>1, FreeKeepsInput
  <2>4. ASSUME NEW d \in Conns, Parked(d)' PROVE Parked(d) /\ d \notin S
    BY <2>1, <2>2, <2>4 DEF Parked
  <2> QED
    BY <2>2, <2>3, <2>4 DEF InputInv
<1>5. ASSUME NEW e \in cev, StartClient(e) PROVE InputInv'
  <2>1. e.conn \in clients /\ e.conn \in Conns
    BY <1>0 DEF IInv, EventsAreLive, TypeOK
  <2>2. /\ UNCHANGED <<cl, clients, st>>
        /\ pc = "batch" /\ pc' = "client" /\ cur' = e.conn
    BY <1>5 DEF StartClient
  <2>3. \A d \in Conns : Parked(d)' => Parked(d)
    BY <2>2 DEF Parked
  <2>4. ~cl[e.conn].blocking
    BY <2>1, <2>2 DEF InputInv, Parked
  <2> QED
    BY <2>2, <2>3, <2>4 DEF InputInv
<1> QED
  BY <1>1, <1>2, <1>3, <1>4, <1>5

\* accept_clients and the HTTP/2 connections inside it.
LEMMA AcceptKeepsInput ==
    ASSUME IInv, InputInv,
           \/ AcceptReturns \/ Http2Returns
           \/ \E c \in Conns : AcceptClient(c) \/ AcceptDiscards(c) \/ AcceptHttp2(c)
    PROVE  InputInv'
<1>0. TypeOK
  BY DEF IInv
<1>1. CASE AcceptReturns
  <2>1. cl' = cl /\ clients' = clients /\ {pc, pc'} \cap {"client", "tunnel"} = {}
    BY <1>1 DEF AcceptReturns
  <2>2. \A d \in Conns : st'[d] # "open" => st[d] # "open"
    BY <1>0, <1>1 DEF TypeOK, AcceptReturns, Waiting
  <2> QED
    BY <1>0, <2>1, <2>2, UntouchedInput
<1>2. CASE Http2Returns \/ \E c \in Conns : AcceptDiscards(c)
  <2>1. PICK S : FreeClients(S) /\ S \cap clients = {} /\ clients' = clients
    <3>1. CASE Http2Returns
      <4>1. {cur} \cap clients = {}
        BY <3>1 DEF IInv, EventsAreLive, Http2Returns
      <4> QED
        BY <3>1, <4>1 DEF Http2Returns
    <3>2. ASSUME NEW c \in Conns, AcceptDiscards(c)
          PROVE  FreeClients({c}) /\ {c} \cap clients = {} /\ clients' = clients
      <4>1. clients \subseteq OpenConns /\ c \notin OpenConns
        BY <3>2 DEF IInv, ConnectionsAccounted, AcceptDiscards, Waiting, OpenConns
      <4> QED
        BY <3>2, <4>1 DEF AcceptDiscards
    <3> QED
      BY <1>2, <3>1, <3>2
  <2>2. {pc, pc'} \cap {"client", "tunnel"} = {}
    BY <1>2 DEF Http2Returns, AcceptDiscards
  <2>3. /\ \A d \in Conns : st'[d] # "open" => cl'[d] = FreshClient
        /\ \A d \in Conns : cl'[d].pending = <<>>
        /\ \A d \in Conns : d \notin S => cl'[d] = cl[d]
    BY <1>0, <2>1, FreeKeepsInput
  <2>4. ASSUME NEW d \in Conns, Parked(d)' PROVE Parked(d) /\ d \notin S
    BY <2>1, <2>2, <2>4 DEF Parked
  <2> QED
    BY <2>2, <2>3, <2>4 DEF InputInv
<1>3. ASSUME NEW c \in Conns, AcceptClient(c) \/ AcceptHttp2(c) PROVE InputInv'
  <2>1. /\ cl' = cl /\ clients' \subseteq clients \cup {c}
        /\ {pc, pc'} \cap {"client", "tunnel"} = {}
    BY <1>3 DEF AcceptClient, AcceptHttp2
  <2>2. \A d \in Conns : st'[d] # "open" => st[d] # "open"
    BY <1>0, <1>3 DEF TypeOK, AcceptClient, AcceptHttp2, Waiting
  <2>3. cl[c] = FreshClient
    BY <1>3 DEF InputInv, AcceptClient, AcceptHttp2, Waiting
  <2>4. ASSUME NEW d \in Conns, Parked(d)' PROVE d = c \/ Parked(d)
    BY <2>1, <2>4 DEF Parked
  <2> QED
    BY <2>1, <2>2, <2>3, <2>4, FreshIsIdle DEF InputInv
<1> QED
  BY <1>1, <1>2, <1>3

\* handle_client_event.
LEMMA HandlerKeepsInput ==
    ASSUME IInv, InputInv, NEW c \in Conns, handle_client_event(c)
    PROVE  InputInv'
<1>0. TypeOK
  BY DEF IInv
<1>1. pc = "client" /\ cur = c /\ c \in clients /\ st[c] = "open"
  <2>1. pc = "client" /\ cur = c
    BY DEF handle_client_event, Handling, ReadWouldBlock, ReadFails, BufferFull, ReadMore,
           RefuseTooLarge, RejectMalformed, ServeAndKeep, ServeAndClose, OpenTunnel
  <2>2. c \in clients /\ clients \subseteq OpenConns
    BY <2>1 DEF IInv, EventsAreLive, ConnectionsAccounted
  <2> QED
    BY <2>1, <2>2 DEF OpenConns
<1>2. cl[c].pending = <<>> /\ (cl[c].blocking => buffered_request_ready(cl[c].buf))
  BY <1>1 DEF InputInv
<1>3. \A f \in Parsing(c) : f.pending = <<>>
  BY <1>0, <1>2, ParsingTakesAll
<1>4. CASE ReadWouldBlock(c)
  <2>1. ~buffered_request_ready(cl[c].buf)
    BY <1>4 DEF ReadWouldBlock, Fetched
  <2>2. UNCHANGED <<cl, clients, st>> /\ pc' = "batch"
    BY <1>4 DEF ReadWouldBlock
  <2>3. \A d \in Conns : Parked(d)' => d = c \/ Parked(d)
    BY <1>1, <2>2 DEF Parked
  <2> QED
    BY <1>2, <2>1, <2>2, <2>3 DEF InputInv
<1>5. CASE ReadFails(c)
  BY <1>1, <1>5, HandledClosesInput DEF ReadFails
<1>6. CASE BufferFull(c) \/ RefuseTooLarge(c) \/ RejectMalformed(c) \/ ServeAndClose(c)
  BY <1>1, <1>6, HandledClosesInput
     DEF BufferFull, RefuseTooLarge, RejectMalformed, ServeAndClose, ReplyAndClose
<1>7. ASSUME NEW r, cl' = [cl EXCEPT ![c] = r], r.pending = <<>>,
             UNCHANGED <<st, clients>>,
             \/ /\ pc' = "client" /\ cur' = c
                /\ r.blocking => buffered_request_ready(r.buf)
             \/ pc' = "tunnel" /\ cur' = c
             \/ pc' = "batch" /\ ~r.blocking /\ ~buffered_request_ready(r.buf)
      PROVE  InputInv'
  <2>1. cl'[c] = r /\ \A d \in Conns : d # c => cl'[d] = cl[d]
    BY <1>0, <1>7 DEF TypeOK
  <2>2. ASSUME NEW d \in Conns, Parked(d)'
        PROVE  ~cl'[d].blocking /\ ~buffered_request_ready(cl'[d].buf)
    <3>1. CASE d = c
      BY <1>7, <2>1, <2>2, <3>1 DEF Parked
    <3>2. CASE d # c
      <4>1. Parked(d)
        BY <1>1, <1>7, <2>2, <3>2 DEF Parked
      <4> QED
        BY <2>1, <3>2, <4>1 DEF InputInv
    <3> QED
      BY <3>1, <3>2
  <2>3. \A d \in Conns : st'[d] # "open" => cl'[d] = FreshClient
    BY <1>1, <1>7, <2>1 DEF InputInv
  <2>4. \A d \in Conns : cl'[d].pending = <<>>
    BY <1>7, <2>1 DEF InputInv
  <2>5. pc' = "client" /\ cl'[cur'].blocking => buffered_request_ready(cl'[cur'].buf)
    BY <1>7, <2>1
  <2> QED
    BY <2>2, <2>3, <2>4, <2>5 DEF InputInv
<1>8. CASE ReadMore(c)
  <2>1. PICK f \in Parsing(c) :
          /\ ~buffered_request_ready(f.buf)
          /\ cl' = [cl EXCEPT ![c] = Filled(@, f)]
    BY <1>8 DEF ReadMore
  <2>2. ~buffered_request_ready(cl[c].buf)
    BY <2>1 DEF Parsing, Fetched
  <2>3. Filled(cl[c], f).pending = <<>> /\ ~Filled(cl[c], f).blocking
    BY <1>2, <1>3, <2>2 DEF Filled
  <2>4. cl' = [cl EXCEPT ![c] = Filled(cl[c], f)]
    BY <1>0, <2>1 DEF TypeOK
  <2> QED
    BY <1>1, <1>7, <1>8, <2>3, <2>4 DEF ReadMore
<1>9. CASE ServeAndKeep(c)
  <2>1. PICK f \in Parsing(c) :
          /\ cl' = [cl EXCEPT ![c] =
                      [buf |-> Consumed(f.buf), pending |-> f.pending,
                       blocking |-> GoesOn(Consumed(f.buf)),
                       kaReqs |-> cl[c].kaReqs + 1, idle |-> TRUE, age |-> 0]]
          /\ pc' = IF GoesOn(Consumed(f.buf)) THEN "client" ELSE "batch"
          /\ cur' = IF GoesOn(Consumed(f.buf)) THEN c ELSE Nobody
    BY <1>9 DEF ServeAndKeep
  <2> DEFINE rest == Consumed(f.buf)
             r == [buf |-> rest, pending |-> f.pending, blocking |-> GoesOn(rest),
                   kaReqs |-> cl[c].kaReqs + 1, idle |-> TRUE, age |-> 0]
  <2>2. r.pending = <<>> /\ r.buf = rest /\ r.blocking = GoesOn(rest)
    BY <1>3
  <2>3. GoesOn(rest) <=> buffered_request_ready(rest)
    BY DEF GoesOn
  <2>4. cl' = [cl EXCEPT ![c] = r] /\ UNCHANGED <<st, clients>>
    BY <1>9, <2>1 DEF ServeAndKeep
  <2>5. /\ pc' = IF GoesOn(rest) THEN "client" ELSE "batch"
        /\ cur' = IF GoesOn(rest) THEN c ELSE Nobody
    BY <2>1
  <2> HIDE DEF r, rest
  <2>6. CASE GoesOn(rest)
    BY <1>7, <2>2, <2>3, <2>4, <2>5, <2>6
  <2>7. CASE ~GoesOn(rest)
    BY <1>7, <2>2, <2>3, <2>4, <2>5, <2>7
  <2> QED
    BY <2>6, <2>7
<1>10. CASE OpenTunnel(c)
  <2>1. PICK f \in Parsing(c) :
          cl' = [cl EXCEPT ![c] =
                   [buf |-> f.buf, pending |-> f.pending, blocking |-> TRUE,
                    kaReqs |-> @.kaReqs, idle |-> FALSE, age |-> 0]]
    BY <1>10 DEF OpenTunnel
  <2> DEFINE r == [buf |-> f.buf, pending |-> f.pending, blocking |-> TRUE,
                   kaReqs |-> cl[c].kaReqs, idle |-> FALSE, age |-> 0]
  <2>2. r.pending = <<>>
    BY <1>3
  <2>3. cl' = [cl EXCEPT ![c] = r]
    BY <1>0, <2>1 DEF TypeOK
  <2>4. pc' = "tunnel" /\ cur' = c /\ UNCHANGED <<st, clients>>
    BY <1>1, <1>10 DEF OpenTunnel
  <2> HIDE DEF r
  <2> QED
    BY <1>7, <2>2, <2>3, <2>4
<1> QED
  BY <1>4, <1>5, <1>6, <1>8, <1>9, <1>10 DEF handle_client_event

\* Every step keeps parked clients non-blocking and without undetected input.
LEMMA NextInput == IInv /\ InputInv /\ [Next]_vars => InputInv'
<1> SUFFICES ASSUME IInv, InputInv, [Next]_vars PROVE InputInv'
  OBVIOUS
<1>1. CASE UNCHANGED vars
  BY <1>1 DEF vars, InputInv, Parked
<1>2. CASE TunnelEnds
  <2>1. cur \in Conns
    BY <1>2 DEF IInv, EventsAreLive, TypeOK, TunnelEnds
  <2> QED
    BY <1>2, <2>1, HandledClosesInput DEF TunnelEnds
<1>3. CASE Http2Returns \/ accept_clients
  BY <1>3, AcceptKeepsInput DEF accept_clients
<1>4. CASE \E c \in Conns : handle_client_event(c)
  BY <1>4, HandlerKeepsInput
<1>5. CASE \/ \E c \in Conns :
                \/ Connect(c) \/ SendUnit(c) \/ Hangup(c)
                \/ \E k \in Kinds : BeginRequest(c, k)
           \/ SignalStop \/ Tick
           \/ EpollWait \/ EndBatch \/ sweep_idle_keep_alive_clients
           \/ StopWorker \/ EpollFails
           \/ \E l \in Listeners : StartAccept(l)
           \/ \E e \in cev : StartClient(e) \/ HangupEvent(e)
  BY <1>5, LoopKeepsInput
<1> QED
  BY <1>1, <1>2, <1>3, <1>4, <1>5 DEF Next, WorkerStep, PeerStep

\* The input invariant holds throughout every behaviour of the worker.
LEMMA SpecInput == Spec => [](IInv /\ InputInv)
BY InitIInv, NextIInv, InitInput, NextInput, PTL DEF Spec

\* A client left to epoll never has a whole request in its buffer, decrypted
\* bytes in its SSL object or a blocking descriptor: nothing is left behind
\* that no event would report.
THEOREM NothingStranded == Spec => []ParkedNeedsInput
<1>1. InputInv => ParkedNeedsInput
  BY DEF InputInv, ParkedNeedsInput
<1> QED
  BY <1>1, SpecInput, PTL

\* The worker's only thread never reads from a descriptor that would make it
\* wait for one client while the others are left alone.
THEOREM NoBlockingRead == Spec => []ReadNeverBlocks
<1>1. InputInv => ReadNeverBlocks
  BY DEF InputInv, ReadNeverBlocks
<1> QED
  BY <1>1, SpecInput, PTL

-----------------------------------------------------------------------------
(* Framing, and the refinement of Conversation.                            *)

\* What a client has written and no answer has consumed.
Stream(c) == (cl[c].buf \o net[c]) \o todo[c]

\* Unit u is the p-th unit of request n, which is of kind k.
Is(u, n, k, p) == u.n = n /\ u.kind = k /\ u.pos = p

\* The whole request of the i-th unit of s is in s, around that unit.
WholeAround(s, i) ==
    /\ s[i].pos <= i
    /\ i - s[i].pos + Size(s[i].kind) <= Len(s)
    /\ s[i].pos <= Size(s[i].kind)
    /\ \A p \in 1..Size(s[i].kind) : Is(s[(i - s[i].pos) + p], s[i].n, s[i].kind, p)

\* Stream s is made of the requests first..last, whole and in order.
Framed(s, first, last) ==
    /\ s = <<>> => first = last + 1
    /\ s # <<>> => s[1].pos = 1 /\ s[1].n = first /\ s[Len(s)].n = last
    /\ \A i \in 1..Len(s) : WholeAround(s, i) /\ s[i].n <= last
    /\ \A i \in 1..(Len(s) - 1) :
         s[i].pos = Size(s[i].kind) => s[i + 1].pos = 1 /\ s[i + 1].n = s[i].n + 1

AnswerRecord == [n : Nat, pos : Nat, kind : Kinds,
                 status : {"served", "aborted", "400", "413"}, keepAlive : BOOLEAN]

InTunnel(c) == pc = "tunnel" /\ cur = c

\* The answers so far said that the connection goes on.
SaidKept(c) == replies[c] # <<>> => replies[c][Len(replies[c])].keepAlive = TRUE

\* Every live connection is at a boundary: the next unanswered request is at the
\* front of its stream.  A tunnel does not return to the parser.
AtBoundary(c) ==
    /\ Framed(Stream(c), Len(replies[c]) + 1, sent[c])
    /\ cl[c].kaReqs = Len(replies[c])
    /\ SaidKept(c)

\* The inductive invariant, on top of IInv and InputInv.
FrameInv ==
    /\ replies \in [Conns -> Seq(AnswerRecord)]
    /\ \A c \in Conns : st[c] = "none" => replies[c] = <<>>
    /\ \A c \in Conns : st[c] # "closed" /\ ~InTunnel(c) => AtBoundary(c)
    /\ FittingRequestServed

(***************************************************************************)
(* Sequences of units.                                                     *)
(***************************************************************************)

\* Every request has a header of at least one unit.
LEMMA SizeValue ==
    ASSUME NEW k \in Kinds
    PROVE  /\ Size(k) \in Nat /\ Size(k) >= 1 /\ Size(k) >= HeaderLen[k]
           /\ HeaderLen[k] \in Nat /\ HeaderLen[k] >= 1 /\ BodyLen[k] \in Nat
           /\ Size(k) = HeaderLen[k] + BodyLen[k]
<1>1. HeaderLen[k] \in Nat \ {0} /\ BodyLen[k] \in Nat
  BY ConstantsAssumption
<1> QED
  BY <1>1 DEF Size

\* The units of a sequence and their fields.
LEMMA UnitsOf ==
    ASSUME NEW s \in Seq(Unit)
    PROVE  /\ Len(s) \in Nat /\ (s = <<>> <=> Len(s) = 0)
           /\ \A i \in 1..Len(s) : /\ s[i] \in Unit
                                   /\ s[i].n \in Nat /\ s[i].n >= 1
                                   /\ s[i].pos \in Nat /\ s[i].pos >= 1
                                   /\ s[i].kind \in Kinds /\ Size(s[i].kind) \in Nat
                                   /\ Size(s[i].kind) >= 1
<1>1. Len(s) \in Nat /\ (s = <<>> <=> Len(s) = 0)
  BY EmptySeq
<1>2. ASSUME NEW i \in 1..Len(s)
      PROVE  /\ s[i] \in Unit
             /\ s[i].n \in Nat /\ s[i].n >= 1 /\ s[i].pos \in Nat /\ s[i].pos >= 1
             /\ s[i].kind \in Kinds
  <2>1. s[i] \in Unit
    BY <1>2, ElementOfSeq
  <2>2. s[i].n \in Nat \ {0} /\ s[i].pos \in Nat \ {0} /\ s[i].kind \in Kinds
    BY <2>1 DEF Unit
  <2> QED
    BY <2>1, <2>2
<1> QED
  BY <1>1, <1>2, SizeValue

\* Concatenation of sequences of units.
LEMMA UnitsConcat ==
    ASSUME NEW s \in Seq(Unit), NEW t \in Seq(Unit), NEW u \in Seq(Unit)
    PROVE  s \o t \in Seq(Unit) /\ (s \o t) \o u = s \o (t \o u)
<1>1. s \o t \in Seq(Unit)
  BY ConcatProperties
<1>2. (s \o t) \o u = s \o (t \o u)
  BY ConcatAssociative
<1> QED
  BY <1>1, <1>2

\* What Drop leaves.
LEMMA DropValue ==
    ASSUME NEW s \in Seq(Unit), NEW k \in 0..Len(s)
    PROVE  /\ Drop(s, k) \in Seq(Unit) /\ Len(Drop(s, k)) = Len(s) - k
           /\ \A i \in 1..(Len(s) - k) : Drop(s, k)[i] = s[i + k]
<1>1. Len(s) \in Nat /\ \A i \in (k + 1)..Len(s) : s[i] \in Unit
  BY UnitsOf
<1>2. /\ SubSeq(s, k + 1, Len(s)) \in Seq(Unit)
      /\ Len(SubSeq(s, k + 1, Len(s))) =
           IF k + 1 <= Len(s) THEN Len(s) - (k + 1) + 1 ELSE 0
      /\ \A i \in 1..(Len(s) - (k + 1) + 1) :
           SubSeq(s, k + 1, Len(s))[i] = s[(k + 1) + i - 1]
  BY <1>1, SubSeqProperties
<1>3. k \in Nat /\ k <= Len(s)
  BY <1>1
<1>4. \A i \in 1..(Len(s) - k) : (k + 1) + i - 1 = i + k
  BY <1>1, <1>3
<1>5. Len(s) - (k + 1) + 1 = Len(s) - k /\ (~(k + 1 <= Len(s)) => Len(s) - k = 0)
  BY <1>1, <1>3
<1> QED
  BY <1>2, <1>4, <1>5 DEF Drop

\* The two parts of a cut make the sequence again.
LEMMA CutJoins ==
    ASSUME NEW s \in Seq(Unit), NEW k \in 0..Len(s)
    PROVE  SubSeq(s, 1, k) \o Drop(s, k) = s
<1>1. Len(s) \in Nat
  BY UnitsOf
<1>2. 1 \in 1..(Len(s) + 1) /\ k \in (1 - 1)..Len(s) /\ Len(s) \in k..Len(s)
  BY <1>1
<1>3. SubSeq(s, 1, k) \o SubSeq(s, k + 1, Len(s)) = SubSeq(s, 1, Len(s))
  BY <1>2, ConcatAdjacentSubSeq
<1> QED
  BY <1>3, SubSeqFull DEF Drop

\* A unit that is sent moves inside the stream.
LEMMA SendJoins ==
    ASSUME NEW b \in Seq(Unit), NEW m \in Seq(Unit), NEW t \in Seq(Unit), t # <<>>
    PROVE  (b \o Append(m, Head(t))) \o Tail(t) = (b \o m) \o t
<1> DEFINE h == Head(t)
           r == Tail(t)
<1>1. h \in Unit /\ r \in Seq(Unit) /\ <<h>> \in Seq(Unit)
  BY HeadTailProperties
<1>2. t = <<h>> \o r
  <2>1. Len(t) \in Nat /\ Len(t) >= 1 /\ Len(r) = Len(t) - 1
        /\ \A i \in 1..Len(r) : r[i] = t[i + 1]
    BY HeadTailProperties, EmptySeq
  <2>2. h = t[1] /\ Len(<<h>>) = 1 /\ <<h>>[1] = h
    OBVIOUS
  <2> HIDE DEF h, r
  <2>3. /\ <<h>> \o r \in Seq(Unit)
        /\ Len(<<h>> \o r) = 1 + Len(r)
        /\ \A i \in 1..(1 + Len(r)) :
             (<<h>> \o r)[i] = IF i <= 1 THEN <<h>>[i] ELSE r[i - 1]
    BY <1>1, <2>2, ConcatProperties
  <2>4. ASSUME NEW i \in 1..Len(t) PROVE t[i] = (<<h>> \o r)[i]
    <3>1. CASE i = 1
      BY <2>1, <2>2, <2>3, <3>1
    <3>2. CASE i # 1
      <4>1. i - 1 \in 1..Len(r) /\ ~(i <= 1) /\ (i - 1) + 1 = i /\ i \in 1..(1 + Len(r))
        BY <2>1, <3>2
      <4> QED
        BY <2>1, <2>3, <4>1
    <3> QED
      BY <3>1, <3>2
  <2>5. Len(t) = Len(<<h>> \o r)
    BY <2>1, <2>3
  <2> QED
    BY <2>3, <2>4, <2>5, SeqEqual
<1>3. Append(m, h) = m \o <<h>>
  BY <1>1, AppendIsConcat
<1> HIDE DEF h, r
<1>4. /\ b \o m \in Seq(Unit) /\ m \o <<h>> \in Seq(Unit)
      /\ b \o (m \o <<h>>) = (b \o m) \o <<h>>
  BY <1>1, ConcatProperties, ConcatAssociative
<1>5. ((b \o m) \o <<h>>) \o r = (b \o m) \o (<<h>> \o r)
  BY <1>1, <1>4, ConcatAssociative
<1> QED
  BY <1>2, <1>3, <1>4, <1>5 DEF h, r

\* Consuming the front of the buffer is consuming the front of the stream.
LEMMA DropJoins ==
    ASSUME NEW b \in Seq(Unit), NEW m \in Seq(Unit), NEW k \in 0..Len(b)
    PROVE  Drop(b, k) \o m = Drop(b \o m, k)
<1>1. Len(b) \in Nat /\ Len(m) \in Nat
  BY UnitsOf
<1>2. /\ Drop(b, k) \in Seq(Unit) /\ Len(Drop(b, k)) = Len(b) - k
      /\ \A i \in 1..(Len(b) - k) : Drop(b, k)[i] = b[i + k]
  BY DropValue
<1>3. /\ b \o m \in Seq(Unit) /\ Len(b \o m) = Len(b) + Len(m)
      /\ \A i \in 1..(Len(b) + Len(m)) :
           (b \o m)[i] = IF i <= Len(b) THEN b[i] ELSE m[i - Len(b)]
  BY ConcatProperties
<1>4. k \in 0..Len(b \o m)
  BY <1>1, <1>3
<1>5. /\ Drop(b \o m, k) \in Seq(Unit) /\ Len(Drop(b \o m, k)) = Len(b \o m) - k
      /\ \A i \in 1..(Len(b \o m) - k) : Drop(b \o m, k)[i] = (b \o m)[i + k]
  BY <1>3, <1>4, DropValue
<1>6. /\ Drop(b, k) \o m \in Seq(Unit) /\ Len(Drop(b, k) \o m) = Len(b) - k + Len(m)
      /\ \A i \in 1..(Len(b) - k + Len(m)) :
           (Drop(b, k) \o m)[i] = IF i <= Len(b) - k THEN Drop(b, k)[i]
                                  ELSE m[i - (Len(b) - k)]
  <2>1. /\ Drop(b, k) \o m \in Seq(Unit)
        /\ Len(Drop(b, k) \o m) = Len(Drop(b, k)) + Len(m)
        /\ \A i \in 1..(Len(Drop(b, k)) + Len(m)) :
             (Drop(b, k) \o m)[i] = IF i <= Len(Drop(b, k)) THEN Drop(b, k)[i]
                                    ELSE m[i - Len(Drop(b, k))]
    BY <1>2, ConcatProperties, Zenon
  <2> QED
    BY <1>2, <2>1, Zenon
<1>7. Len(Drop(b, k) \o m) = Len(Drop(b \o m, k))
  BY <1>1, <1>3, <1>5, <1>6
<1>8. ASSUME NEW i \in 1..Len(Drop(b, k) \o m)
      PROVE  (Drop(b, k) \o m)[i] = Drop(b \o m, k)[i]
  <2>1. /\ i \in 1..(Len(b) - k + Len(m)) /\ i \in 1..(Len(b \o m) - k)
        /\ i + k \in 1..(Len(b) + Len(m))
        /\ i <= Len(b) - k <=> i + k <= Len(b)
        /\ i - (Len(b) - k) = (i + k) - Len(b)
    BY <1>1, <1>3, <1>6
  <2>2. CASE i <= Len(b) - k
    <3>1. i \in 1..(Len(b) - k)
      BY <1>1, <2>1, <2>2
    <3> QED
      BY <1>2, <1>3, <1>5, <1>6, <2>1, <2>2, <3>1
  <2>3. CASE ~(i <= Len(b) - k)
    BY <1>3, <1>5, <1>6, <2>1, <2>3
  <2> QED
    BY <2>2, <2>3
<1> QED
  BY <1>5, <1>6, <1>7, <1>8, SeqEqual

(***************************************************************************)
(* Framed streams.                                                         *)
(***************************************************************************)

\* A connection begins with an empty stream.
LEMMA FramedNothing == Framed(<<>>, 1, 0)
<1>1. Len(<<>>) = 0
  OBVIOUS
<1> QED
  BY <1>1 DEF Framed

\* The client writes its next request behind the others.
LEMMA FramedGrows ==
    ASSUME NEW s \in Seq(Unit), NEW first \in Nat, NEW last \in Nat, Framed(s, first, last),
           NEW k \in Kinds, NEW r \in Seq(Unit), Len(r) = Size(k),
           \A i \in 1..Size(k) : Is(r[i], last + 1, k, i)
    PROVE  Framed(s \o r, first, last + 1)
<1> DEFINE z == Size(k)
           L == Len(s)
           t == s \o r
<1>1. z \in Nat /\ z >= 1 /\ L \in Nat
  BY SizeValue, UnitsOf
<1>2. /\ t \in Seq(Unit) /\ Len(t) = L + z
      /\ \A i \in 1..(L + z) : t[i] = IF i <= L THEN s[i] ELSE r[i - L]
  BY ConcatProperties
<1>3. /\ \A i \in 1..L : t[i] = s[i]
      /\ \A i \in 1..z : t[L + i] = r[i] /\ Is(t[L + i], last + 1, k, i)
  <2>1. \A i \in 1..L : i \in 1..(L + z) /\ i <= L
    BY <1>1
  <2>2. \A i \in 1..z : L + i \in 1..(L + z) /\ ~(L + i <= L) /\ (L + i) - L = i
    BY <1>1
  <2>3. \A i \in 1..z : t[L + i] = r[i]
    BY <1>2, <2>2
  <2> QED
    BY <1>2, <2>1, <2>3
<1>4. \A i \in 1..L : /\ s[i].pos \in Nat /\ s[i].n \in Nat /\ s[i].kind \in Kinds
                      /\ s[i].pos >= 1 /\ Size(s[i].kind) \in Nat
  BY UnitsOf
<1> HIDE DEF z, L, t
<1>5. t # <<>> /\ (s = <<>> <=> L = 0)
  BY <1>1, <1>2, UnitsOf DEF L
<1>6. t[1].pos = 1 /\ t[1].n = first
  <2>1. CASE L = 0
    <3>1. 1 \in 1..z /\ L + 1 = 1
      BY <1>1, <2>1
    <3>2. first = last + 1
      BY <1>5, <2>1, UnitsOf DEF Framed, L
    <3> QED
      BY <1>3, <3>1, <3>2 DEF Is
  <2>2. CASE L # 0
    <3>1. 1 \in 1..L /\ s # <<>>
      BY <1>1, <2>2, UnitsOf DEF L
    <3> QED
      BY <1>3, <3>1 DEF Framed
  <2> QED
    BY <2>1, <2>2
<1>7. t[Len(t)].n = last + 1
  <2>1. z \in 1..z
    BY <1>1
  <2> QED
    BY <1>2, <1>3, <2>1 DEF Is
<1>8. ASSUME NEW i \in 1..Len(t)
      PROVE  WholeAround(t, i) /\ t[i].n <= last + 1
  <2>1. CASE i \in 1..L
    <3>1. t[i] = s[i] /\ WholeAround(s, i) /\ s[i].n <= last
      BY <1>3, <2>1 DEF Framed, L
    <3>2. t[i].n <= last + 1
      BY <1>4, <2>1, <3>1
    <3>3. /\ s[i].pos <= i /\ i - s[i].pos + Size(s[i].kind) <= L
          /\ s[i].pos <= Size(s[i].kind)
          /\ \A p \in 1..Size(s[i].kind) : Is(s[(i - s[i].pos) + p], s[i].n, s[i].kind, p)
      BY <3>1 DEF WholeAround, L
    <3>4. i - s[i].pos + Size(s[i].kind) <= Len(t)
      BY <1>1, <1>2, <1>4, <2>1, <3>3, SMTT(30)
    <3>5. ASSUME NEW p \in 1..Size(s[i].kind)
          PROVE  t[(i - s[i].pos) + p] = s[(i - s[i].pos) + p]
      <4>1. (i - s[i].pos) + p \in 1..L
        <5> DEFINE q == s[i].pos
                   y == Size(s[i].kind)
        <5>1. q \in Nat /\ y \in Nat /\ q <= i /\ i - q + y <= L /\ p \in 1..y
          BY <1>4, <2>1, <3>3, <3>5
        <5> HIDE DEF q, y
        <5>2. (i - q) + p \in 1..L
          BY <1>1, <5>1, <2>1
        <5> QED
          BY <5>2 DEF q
      <4> QED
        BY <1>3, <4>1
    <3> QED
      BY <3>1, <3>2, <3>3, <3>4, <3>5 DEF WholeAround
  <2>2. CASE ~(i \in 1..L)
    <3>1. i - L \in 1..z /\ L + (i - L) = i
      BY <1>1, <1>2, <2>2
    <3>2. Is(t[i], last + 1, k, i - L)
      BY <1>3, <3>1
    <3>3. t[i].pos = i - L /\ t[i].kind = k /\ t[i].n = last + 1
      BY <3>2 DEF Is
    <3>4. i - t[i].pos = L /\ t[i].pos <= i /\ t[i].pos <= z /\ L + z <= Len(t)
      BY <1>1, <1>2, <3>1, <3>3
    <3> QED
      BY <1>3, <3>3, <3>4 DEF WholeAround, z
  <2> QED
    BY <2>1, <2>2
<1>9. ASSUME NEW i \in 1..(Len(t) - 1), t[i].pos = Size(t[i].kind)
      PROVE  t[i + 1].pos = 1 /\ t[i + 1].n = t[i].n + 1
  <2>1. CASE i \in 1..(L - 1)
    <3>1. i \in 1..L /\ i + 1 \in 1..L
      BY <1>1, <2>1
    <3>2. t[i] = s[i] /\ t[i + 1] = s[i + 1]
      BY <1>3, <3>1
    <3> QED
      BY <1>9, <2>1, <3>2 DEF Framed, L
  <2>2. CASE i = L
    <3>1. 1 \in 1..z /\ L \in 1..L /\ s # <<>>
      BY <1>1, <1>2, <2>2, UnitsOf DEF L
    <3>2. t[i].n = last
      BY <1>3, <2>2, <3>1 DEF Framed, L
    <3> QED
      BY <1>3, <2>2, <3>1, <3>2 DEF Is
  <2>3. CASE ~(i \in 1..(L - 1)) /\ i # L
    <3>1. i - L \in 1..z /\ L + (i - L) = i /\ i - L < z
      BY <1>1, <1>2, <2>3
    <3>2. t[i].pos = i - L /\ t[i].kind = k
      BY <1>3, <3>1 DEF Is
    <3>3. Size(t[i].kind) = z
      BY <3>2 DEF z
    <3>4. i - L = z
      BY <1>9, <3>2, <3>3
    <3>5. FALSE
      BY <1>1, <3>1, <3>4
    <3> QED
      BY <3>5
  <2> QED
    BY <2>1, <2>2, <2>3
<1> QED
  BY <1>5, <1>6, <1>7, <1>8, <1>9 DEF Framed, t

\* The first request of a framed stream is there as a whole.
LEMMA FramedFront ==
    ASSUME NEW s \in Seq(Unit), NEW first, NEW last \in Nat, Framed(s, first, last), s # <<>>
    PROVE  /\ Len(s) \in Nat /\ s[1].kind \in Kinds
           /\ first = s[1].n /\ first \in Nat /\ first <= last
           /\ Size(s[1].kind) <= Len(s)
           /\ \A p \in 1..Size(s[1].kind) : Is(s[p], first, s[1].kind, p)
           /\ Len(s) > Size(s[1].kind) => first < last
<1> DEFINE k == s[1].kind
           z == Size(k)
<1>1. /\ Len(s) \in Nat /\ Len(s) >= 1 /\ 1 \in 1..Len(s)
      /\ s[1].n \in Nat /\ k \in Kinds /\ z \in Nat /\ z >= 1
  BY UnitsOf
<1>2. s[1].pos = 1 /\ s[1].n = first /\ WholeAround(s, 1) /\ s[1].n <= last
  BY <1>1 DEF Framed
<1>3. z <= Len(s) /\ \A p \in 1..z : Is(s[p], first, k, p)
  <2>1. 1 - 1 + z <= Len(s) /\ \A p \in 1..z : Is(s[(1 - 1) + p], first, k, p)
    BY <1>2 DEF WholeAround
  <2>2. 1 - 1 + z = z /\ \A p \in 1..z : (1 - 1) + p = p
    BY <1>1
  <2> QED
    BY <2>1, <2>2
<1>4. ASSUME Len(s) > z PROVE first < last
  <2> HIDE DEF z, k
  <2>1. z \in 1..(Len(s) - 1) /\ z + 1 \in 1..Len(s) /\ z \in 1..z
    BY <1>1, <1>4
  <2>2. s[z].pos = z /\ s[z].kind = k /\ s[z].n = first
    BY <1>3, <2>1 DEF Is
  <2>3. s[z + 1].n = first + 1
    BY <2>1, <2>2 DEF Framed, z
  <2>4. s[z + 1].n <= last
    BY <2>1 DEF Framed
  <2> QED
    BY <1>1, <1>2, <2>3, <2>4
<1> QED
  BY <1>1, <1>2, <1>3, <1>4

\* A request that was answered and consumed leaves the next one at the front.
LEMMA FramedDrops ==
    ASSUME NEW s \in Seq(Unit), NEW first, NEW last \in Nat, Framed(s, first, last), s # <<>>
    PROVE  Framed(Drop(s, Size(s[1].kind)), first + 1, last)
<1> DEFINE k == s[1].kind
           z == Size(k)
           L == Len(s)
           t == Drop(s, z)
<1>1. /\ L \in Nat /\ k \in Kinds /\ first \in Nat /\ first <= last /\ z <= L
      /\ \A p \in 1..z : Is(s[p], first, k, p)
  BY FramedFront
<1>2. z \in Nat /\ z >= 1 /\ z \in 1..z /\ z \in 1..L /\ z \in 0..L
  BY <1>1, SizeValue
<1>3. /\ t \in Seq(Unit) /\ Len(t) = L - z
      /\ \A i \in 1..(L - z) : t[i] = s[i + z]
  BY <1>2, DropValue
<1>4. s[z].pos = z /\ s[z].kind = k /\ s[z].n = first
  BY <1>1, <1>2 DEF Is
<1>5. \A i \in 1..L : /\ s[i].pos \in Nat /\ s[i].n \in Nat /\ s[i].kind \in Kinds
                      /\ s[i].pos >= 1 /\ Size(s[i].kind) \in Nat
                      /\ WholeAround(s, i) /\ s[i].n <= last
  BY UnitsOf DEF Framed
<1>6. \A i \in 1..(L - 1) :
        s[i].pos = Size(s[i].kind) => s[i + 1].pos = 1 /\ s[i + 1].n = s[i].n + 1
  BY DEF Framed
<1>7. s[L].n = last
  BY DEF Framed
<1>8. Size(s[z].kind) = z
  BY <1>4
<1> HIDE DEF z, L, t, k
<1>9. t = <<>> <=> L = z
  BY <1>1, <1>2, <1>3, UnitsOf
<1>10. t = <<>> => first + 1 = last + 1
  BY <1>4, <1>7, <1>9
<1>11. ASSUME t # <<>>
       PROVE  t[1].pos = 1 /\ t[1].n = first + 1 /\ t[Len(t)].n = last
  <2>1. z \in 1..(L - 1) /\ 1 \in 1..(L - z) /\ L - z \in 1..(L - z) /\ (L - z) + z = L
        /\ 1 + z = z + 1
    BY <1>1, <1>2, <1>9, <1>11
  <2>2. t[1] = s[z + 1] /\ t[Len(t)] = s[L]
    BY <1>3, <2>1
  <2> QED
    BY <1>4, <1>6, <1>7, <1>8, <2>1, <2>2
<1>12. ASSUME NEW i \in 1..Len(t)
       PROVE  WholeAround(t, i) /\ t[i].n <= last
  <2> DEFINE u == s[i + z]
             q == u.pos
             y == Size(u.kind)
  <2>1. i \in 1..(L - z) /\ i + z \in 1..L /\ t[i] = u
    BY <1>1, <1>2, <1>3, <1>12
  <2>2. /\ q \in Nat /\ q >= 1 /\ y \in Nat /\ u.n <= last
        /\ q <= i + z /\ (i + z) - q + y <= L /\ q <= y
        /\ \A p \in 1..y : Is(s[((i + z) - q) + p], u.n, u.kind, p)
    BY <1>5, <2>1 DEF WholeAround, L
  <2> HIDE DEF u, q, y
  <2>3. q <= i
    <3> SUFFICES ASSUME q > i PROVE FALSE
      BY <2>1, <2>2
    <3> DEFINE j == ((i + z) - q) + 1
    <3>1. j \in 1..z /\ 1 \in 1..y
      BY <1>2, <2>1, <2>2
    <3>2. Is(s[j], first, k, j) /\ Is(s[j], u.n, u.kind, 1)
      BY <1>1, <2>2, <3>1
    <3>3. j = 1 /\ u.kind = k
      BY <3>2 DEF Is
    <3>4. y = z
      BY <3>3 DEF y, z
    <3> QED
      BY <1>2, <2>1, <2>2, <3>3, <3>4
  <2>4. i - q + y <= Len(t)
    BY <1>1, <1>2, <1>3, <2>1, <2>2
  <2>5. ASSUME NEW p \in 1..y
        PROVE  Is(t[(i - q) + p], u.n, u.kind, p)
    <3>1. (i - q) + p \in 1..(L - z) /\ ((i - q) + p) + z = ((i + z) - q) + p
      BY <1>1, <1>2, <2>1, <2>2, <2>3, <2>5
    <3> QED
      BY <1>3, <2>2, <3>1
  <2>6. t[i].pos = q /\ Size(t[i].kind) = y /\ t[i].n = u.n /\ t[i].kind = u.kind
    BY <2>1 DEF q, y
  <2> QED
    BY <2>2, <2>3, <2>4, <2>5, <2>6 DEF WholeAround
<1>13. ASSUME NEW i \in 1..(Len(t) - 1), t[i].pos = Size(t[i].kind)
       PROVE  t[i + 1].pos = 1 /\ t[i + 1].n = t[i].n + 1
  <2>1. /\ i \in 1..(L - z) /\ i + 1 \in 1..(L - z) /\ i + z \in 1..(L - 1)
        /\ (i + 1) + z = (i + z) + 1
    BY <1>1, <1>2, <1>3, <1>13
  <2>2. t[i] = s[i + z] /\ t[i + 1] = s[(i + z) + 1]
    BY <1>3, <2>1
  <2> QED
    BY <1>6, <1>13, <2>1, <2>2
<1>14. Framed(t, first + 1, last)
  BY <1>10, <1>11, <1>12, <1>13 DEF Framed
<1> QED
  BY <1>14 DEF t, z, k

\* What the parser makes of a buffer that begins with a request: nothing until
\* the blank line is there, then that request with its own lengths.
LEMMA ParseFront ==
    ASSUME NEW b \in Seq(Unit), b # <<>>, NEW n, NEW k \in Kinds,
           \A p \in 1..Size(k) : p <= Len(b) => Is(b[p], n, k, p)
    PROVE  LET req == rpsiod_http_parse_request(b) IN
           /\ Len(b) < HeaderLen[k] => req.rc = 0
           /\ Len(b) >= HeaderLen[k] =>
                /\ req.rc = IF k \in Malformed THEN -1 ELSE 1
                /\ req.kind = k
                /\ req.header_len = HeaderLen[k]
                /\ req.content_length = BodyLen[k]
<1> DEFINE h == HeaderLen[k]
<1>1. /\ Len(b) \in Nat /\ Len(b) >= 1 /\ h \in Nat /\ h >= 1
      /\ Size(k) \in Nat /\ h <= Size(k)
  BY UnitsOf, SizeValue
<1>2. \A p \in 1..Len(b) : p <= h => b[p].pos = p /\ b[p].kind = k
  BY <1>1 DEF Is
<1> HIDE DEF h
<1>3. ~(b # <<>> /\ b[1].pos > HeaderLen[b[1].kind])
  <2>1. b[1].pos = 1 /\ HeaderLen[b[1].kind] = h
    BY <1>1, <1>2 DEF h
  <2> QED
    BY <1>1, <2>1
<1>4. \A p \in 1..Len(b) : p < h => p \notin HeaderEnds(b)
  BY <1>1, <1>2 DEF HeaderEnds, h
<1>5. CASE Len(b) < h
  <2>1. \A p \in 1..Len(b) : p < h
    BY <1>1, <1>5
  <2>2. HeaderEnds(b) = {}
    BY <1>4, <2>1 DEF HeaderEnds
  <2>3. rpsiod_http_parse_request(b).rc = 0
    BY <1>3, <2>2 DEF rpsiod_http_parse_request
  <2> QED
    BY <1>1, <1>5, <2>3 DEF h
<1>6. CASE Len(b) >= h
  <2>1. h \in HeaderEnds(b)
    BY <1>1, <1>2, <1>6 DEF HeaderEnds, h
  <2>2. HeaderEnds(b) \in SUBSET Nat
    BY DEF HeaderEnds
  <2>3. Min(HeaderEnds(b)) \in HeaderEnds(b) /\ Min(HeaderEnds(b)) <= h
    BY <2>1, <2>2, MinOfNat
  <2>4. Min(HeaderEnds(b)) = h
    <3>1. Min(HeaderEnds(b)) \in 1..Len(b)
      BY <2>3 DEF HeaderEnds
    <3> QED
      BY <1>1, <1>4, <2>3, <3>1
  <2>5. b[h].kind = k
    BY <1>1, <1>2, <1>6
  <2>6. rpsiod_http_parse_request(b) =
          [rc |-> IF k \in Malformed THEN -1 ELSE 1, kind |-> k,
           header_len |-> h, content_length |-> BodyLen[k]]
    BY <1>3, <2>1, <2>4, <2>5 DEF rpsiod_http_parse_request
  <2> QED
    BY <1>1, <1>6, <2>6 DEF h
<1> QED
  BY <1>1, <1>5, <1>6

(***************************************************************************)
(* Reads and answers.                                                      *)
(***************************************************************************)

\* A read moves units from the socket to the buffer, through the SSL object or
\* not, and neither loses nor reorders any.
LEMMA ReadKeepsStream ==
    ASSUME TypeOK, NEW c \in Conns, cl[c].pending = <<>>, NEW f \in client_read(c)
    PROVE  (f.buf \o f.pending) \o f.net = cl[c].buf \o net[c]
<1> DEFINE b == cl[c].buf
           w == net[c]
           space == BufSize - Len(b)
<1>1. b \in Seq(Unit) /\ w \in Seq(Unit) /\ Len(w) \in Nat /\ space \in Nat
  <2>1. b \in Seq(Unit) /\ w \in Seq(Unit) /\ Len(b) <= BufSize
    BY DEF TypeOK, ClientObject
  <2>2. Len(b) \in Nat /\ Len(w) \in Nat /\ BufSize \in Nat
    BY <2>1, UnitsOf, ConstantsAssumption
  <2> QED
    BY <2>1, <2>2
<1>2. f \in ReadInto(c, space)
  BY DEF client_read
<1>3. ASSUME NEW from \in Seq(Unit), NEW rest \in Seq(Unit), from \o rest = w,
             NEW n \in 0..Len(from)
      PROVE  ((b \o SubSeq(from, 1, n)) \o Drop(from, n)) \o rest = b \o w
  <2> DEFINE x == SubSeq(from, 1, n)
             y == Drop(from, n)
  <2>1. Len(from) \in Nat /\ n \in Nat /\ n <= Len(from)
    BY UnitsOf
  <2>2. x \in Seq(Unit) /\ y \in Seq(Unit) /\ x \o y = from
    BY <2>1, CutType, CutJoins
  <2> HIDE DEF x, y, b, w
  <2>3. (b \o x) \o y = b \o from
    <3>1. b \in Seq(Unit) /\ x \in Seq(Unit) /\ y \in Seq(Unit)
      BY <1>1, <2>2
    <3>2. (b \o x) \o y = b \o (x \o y)
      BY <3>1, UnitsConcat, SMTT(60)
    <3> QED
      BY <2>2, <3>2
  <2>4. (b \o from) \o rest = b \o (from \o rest)
    <3>1. b \in Seq(Unit)
      BY <1>1
    <3> QED
      BY <3>1, UnitsConcat, Zenon
  <2> QED
    BY <1>3, <2>3, <2>4 DEF x, y
<1>4. ASSUME NEW m \in Nat PROVE Smaller(m, space) \in 0..m
  BY <1>1 DEF Smaller
<1> HIDE DEF space
<1>5. CASE via[c] \notin TlsListeners
  <2> DEFINE n == Smaller(Len(w), space)
  <2>1. f = [buf |-> b \o SubSeq(w, 1, n), pending |-> <<>>, net |-> Drop(w, n)]
    BY <1>2, <1>5 DEF ReadInto
  <2>2. n \in 0..Len(w)
    BY <1>1, <1>4
  <2> HIDE DEF n
  <2>3. f.buf = b \o SubSeq(w, 1, n) /\ f.pending = <<>> /\ f.net = Drop(w, n)
    BY <2>1
  <2> HIDE DEF b, w
  <2>4. n \in Nat /\ n <= Len(w)
    BY <1>1, <2>2
  <2>5. SubSeq(w, 1, n) \in Seq(Unit) /\ Drop(w, n) \in Seq(Unit)
    BY <1>1, <2>4, CutType
  <2>6. b \o SubSeq(w, 1, n) \in Seq(Unit)
    BY <1>1, <2>5, ConcatProperties
  <2>7. (b \o SubSeq(w, 1, n)) \o <<>> = b \o SubSeq(w, 1, n)
    BY <2>6, ConcatEmptySeq
  <2>8. (b \o SubSeq(w, 1, n)) \o Drop(w, n) = b \o (SubSeq(w, 1, n) \o Drop(w, n))
    <3>1. b \in Seq(Unit)
      BY <1>1
    <3> QED
      BY <2>5, <3>1, UnitsConcat, Zenon
  <2>9. SubSeq(w, 1, n) \o Drop(w, n) = w
    BY <1>1, <2>2, CutJoins
  <2>10. (f.buf \o f.pending) \o f.net = b \o w
    BY <2>3, <2>7, <2>8, <2>9
  <2> QED
    BY <2>10 DEF b, w
<1>6. CASE via[c] \in TlsListeners
  <2>1. PICK m \in 1..Smaller(RecordMax, Len(w)) :
          f = [buf |-> b \o SubSeq(SubSeq(w, 1, m), 1,
                                   Smaller(Len(SubSeq(w, 1, m)), space)),
               pending |-> Drop(SubSeq(w, 1, m),
                                Smaller(Len(SubSeq(w, 1, m)), space)),
               net |-> Drop(w, m)]
    BY <1>2, <1>6 DEF ReadInto
  <2> HIDE DEF b, w
  <2>2. m \in 0..Len(w) /\ m \in Nat /\ m <= Len(w)
    BY <1>1, ConstantsAssumption DEF Smaller
  <2> DEFINE from == SubSeq(w, 1, m)
             n == Smaller(Len(from), space)
  <2>3. from \in Seq(Unit) /\ Drop(w, m) \in Seq(Unit) /\ from \o Drop(w, m) = w
    BY <1>1, <2>2, CutType, CutJoins
  <2>4. f.buf = b \o SubSeq(from, 1, n) /\ f.pending = Drop(from, n) /\ f.net = Drop(w, m)
    BY <2>1
  <2> HIDE DEF from
  <2>5. n \in 0..Len(from)
    BY <1>4, <2>3, UnitsOf
  <2> HIDE DEF n
  <2>6. ((b \o SubSeq(from, 1, n)) \o Drop(from, n)) \o Drop(w, m) = b \o w
    BY <1>3, <2>3, <2>5
  <2>7. (f.buf \o f.pending) \o f.net = b \o w
    BY <2>4, <2>6
  <2> QED
    BY <2>7 DEF b, w
<1> QED
  BY <1>5, <1>6

\* The same for a turn of the loop that reaches the parser.
LEMMA ParsingKeepsStream ==
    ASSUME TypeOK, NEW c \in Conns, cl[c].pending = <<>>, NEW f \in Parsing(c)
    PROVE  /\ f.buf \in Seq(Unit) /\ f.net \in Seq(Unit)
           /\ f.buf \o f.net = cl[c].buf \o net[c]
<1>1. f.buf \in Seq(Unit) /\ f.net \in Seq(Unit) /\ f.pending = <<>>
  BY ParsingType, ParsingTakesAll
<1>2. CASE buffered_request_ready(cl[c].buf)
  <2>1. f.buf = cl[c].buf /\ f.net = net[c]
    BY <1>2 DEF Parsing, Fetched
  <2> QED
    BY <1>1, <2>1
<1>3. CASE ~buffered_request_ready(cl[c].buf)
  <2>1. f \in client_read(c)
    BY <1>3 DEF Parsing, Fetched
  <2>2. (f.buf \o f.pending) \o f.net = cl[c].buf \o net[c]
    BY <2>1, ReadKeepsStream
  <2>3. f.buf \o f.pending = f.buf
    BY <1>1, ConcatEmptySeq
  <2> QED
    BY <1>1, <2>2, <2>3
<1> QED
  BY <1>2, <1>3

\* The types of a connection's stream.
LEMMA StreamType ==
    ASSUME TypeOK, NEW c \in Conns
    PROVE  /\ cl[c].buf \in Seq(Unit) /\ net[c] \in Seq(Unit) /\ todo[c] \in Seq(Unit)
           /\ cl[c].buf \o net[c] \in Seq(Unit)
           /\ Stream(c) \in Seq(Unit) /\ sent[c] \in Nat
<1>1. cl[c].buf \in Seq(Unit) /\ net[c] \in Seq(Unit) /\ todo[c] \in Seq(Unit)
  BY DEF TypeOK, ClientObject
<1>2. cl[c].buf \o net[c] \in Seq(Unit)
  BY <1>1, ConcatProperties
<1>3. Stream(c) \in Seq(Unit)
  BY <1>1, <1>2, ConcatProperties DEF Stream
<1>4. sent[c] \in 0..MaxReqs
  BY DEF TypeOK
<1> QED
  BY <1>1, <1>2, <1>3, <1>4, ConstantsAssumption

\* What a handler finds in its buffer: the next unanswered request from its
\* first unit on, and when there is more, the beginning of another.
LEMMA FrontOfBuffer ==
    ASSUME TypeOK, NEW c \in Conns, AtBoundary(c), replies[c] \in Seq(AnswerRecord),
           NEW b \in Seq(Unit), NEW x \in Seq(Unit), b \o x = cl[c].buf \o net[c], b # <<>>
    PROVE  /\ b[1].kind \in Kinds /\ b[1].pos = 1
           /\ b[1].n = Len(replies[c]) + 1 /\ b[1].n <= sent[c]
           /\ \A p \in 1..Size(b[1].kind) : p <= Len(b) => Is(b[p], b[1].n, b[1].kind, p)
           /\ Len(b) > Size(b[1].kind) => sent[c] > b[1].n
<1> DEFINE s == Stream(c)
           y == x \o todo[c]
           first == Len(replies[c]) + 1
<1>1. s \in Seq(Unit) /\ todo[c] \in Seq(Unit) /\ sent[c] \in Nat
  BY StreamType
<1>2. s = (b \o x) \o todo[c]
  BY DEF Stream
<1>3. y \in Seq(Unit) /\ s = b \o y
  <2>1. x \o todo[c] \in Seq(Unit) /\ (b \o x) \o todo[c] = b \o (x \o todo[c])
    BY <1>1, UnitsConcat, ZenonT(60)
  <2> QED
    BY <1>2, <2>1
<1>4. /\ Len(b) \in Nat /\ Len(b) >= 1 /\ Len(y) \in Nat
      /\ Len(s) = Len(b) + Len(y)
      /\ \A p \in 1..(Len(b) + Len(y)) : s[p] = IF p <= Len(b) THEN b[p] ELSE y[p - Len(b)]
  BY <1>3, UnitsOf, ConcatProperties
<1>5. Framed(s, first, sent[c])
  BY DEF AtBoundary
<1>6. first \in Nat
  BY LenProperties
<1> HIDE DEF s, y, first
<1>7. s # <<>>
  BY <1>1, <1>4, UnitsOf
<1>8. \A p \in 1..Len(b) : s[p] = b[p]
  BY <1>4
<1>9. /\ s[1].kind \in Kinds /\ first = s[1].n /\ first <= sent[c]
      /\ Size(s[1].kind) <= Len(s)
      /\ \A p \in 1..Size(s[1].kind) : Is(s[p], first, s[1].kind, p)
      /\ Len(s) > Size(s[1].kind) => first < sent[c]
  BY <1>1, <1>5, <1>7, FramedFront
<1>10. s[1] = b[1] /\ s[1].pos = 1
  BY <1>4, <1>5, <1>7, <1>8 DEF Framed
<1>11. Size(b[1].kind) \in Nat
  BY <1>9, <1>10, SizeValue
<1>12. \A p \in 1..Size(b[1].kind) : p <= Len(b) => Is(b[p], b[1].n, b[1].kind, p)
  BY <1>4, <1>8, <1>9, <1>10, <1>11
<1>13. Len(b) > Size(b[1].kind) => sent[c] > b[1].n
  BY <1>1, <1>4, <1>6, <1>9, <1>10, <1>11
<1> QED
  BY <1>9, <1>10, <1>12, <1>13 DEF first

(***************************************************************************)
(* Steps that answer nothing.                                              *)
(***************************************************************************)

\* A step that answers nothing, begins no request and leaves the streams of the
\* connections that stay alone.
LEMMA StreamsKept ==
    ASSUME TypeOK, FrameInv, replies' = replies, sent' = sent,
           \A c \in Conns : st'[c] # "closed" =>
               /\ st[c] # "closed"
               /\ st'[c] = "none" => st[c] = "none"
               /\ InTunnel(c) => InTunnel(c)'
               /\ Stream(c)' = Stream(c)
               /\ cl'[c].kaReqs = cl[c].kaReqs
    PROVE  FrameInv'
<1>1. \A c \in Conns : st'[c] = "none" => replies'[c] = <<>>
  BY DEF FrameInv
<1>2. ASSUME NEW c \in Conns, st'[c] # "closed", ~InTunnel(c)'
      PROVE  AtBoundary(c)'
  <2>1. AtBoundary(c)
    BY <1>2 DEF FrameInv
  <2> QED
    BY <1>2, <2>1 DEF AtBoundary, SaidKept
<1>3. FittingRequestServed'
  BY DEF FrameInv, FittingRequestServed
<1> QED
  BY <1>1, <1>2, <1>3 DEF FrameInv

\* The abstract state depends on three variables only.
LEMMA PromiseStutters ==
    ASSUME replies' = replies, sent' = sent,
           \A c \in Conns : \/ st'[c] = st[c]
                            \/ {st[c], st'[c]} \subseteq {"backlog", "open"}
    PROVE  UNCHANGED Promise!vars
<1>1. \A c \in Conns : Phase(c)' = Phase(c)
  BY DEF Phase
<1>2. \A c \in Conns : Answers(c)' = Answers(c)
  BY DEF Answers
<1> QED
  BY <1>1, <1>2 DEF Promise!vars

\* Connections that are closed without an answer.
LEMMA PromiseCloses ==
    ASSUME TypeOK, replies' = replies, sent' = sent, NEW S,
           \A c \in Conns : st'[c] = IF c \in S THEN "closed" ELSE st[c],
           \A c \in Conns : c \in S => st[c] \in {"backlog", "open"}
    PROVE  Promise!Next
<1> DEFINE T == S \cap Conns
<1>1. \A c \in T : Phase(c) \in {"open", "final"}
  BY DEF Phase
<1>2. \A c \in Conns : Phase(c)' = IF c \in T THEN "closed" ELSE Phase(c)
  BY DEF Phase
<1>3. \A c \in Conns : Answers(c)' = Answers(c)
  BY DEF Answers
<1>4. Promise!Close(T)
  BY <1>1, <1>2, <1>3 DEF Promise!Close
<1> QED
  BY <1>4 DEF Promise!Next

\* FreeClients on connections that are there.
LEMMA FreedConnections ==
    ASSUME IInv, InputInv, FrameInv, NEW S, FreeClients(S), replies' = replies, sent' = sent,
           \A c \in Conns : c \in S => st[c] \in {"backlog", "open"},
           \A c \in Conns : c \notin S /\ InTunnel(c) => InTunnel(c)'
    PROVE  FrameInv' /\ Promise!Next
<1>1. /\ \A c \in Conns : st'[c] = IF c \in S THEN "closed" ELSE st[c]
      /\ \A c \in Conns : c \notin S =>
           net'[c] = net[c] /\ todo'[c] = todo[c] /\ cl'[c] = cl[c]
  BY DEF FreeClients
<1>2. \A c \in Conns : c \notin S => Stream(c)' = Stream(c)
  BY <1>1 DEF Stream
<1>3. FrameInv'
  BY <1>1, <1>2, StreamsKept DEF IInv
<1>4. Promise!Next
  BY <1>1, PromiseCloses DEF IInv
<1> QED
  BY <1>3, <1>4

\* The peers, the clock and the loop outside the handlers.
LEMMA LoopKeepsFrames ==
    ASSUME IInv, InputInv, FrameInv,
           \/ \E c \in Conns : SendUnit(c) \/ Hangup(c)
           \/ SignalStop \/ Tick
           \/ EpollWait \/ EndBatch
           \/ \E l \in Listeners : StartAccept(l)
           \/ \E e \in cev : StartClient(e)
           \/ \E c \in Conns : AcceptClient(c) \/ AcceptHttp2(c)
           \/ \E c \in Conns : ReadWouldBlock(c)
    PROVE  FrameInv' /\ UNCHANGED Promise!vars
<1>0. TypeOK
  BY DEF IInv
<1>1. CASE \/ \E c \in Conns : Hangup(c)
           \/ SignalStop \/ EpollWait \/ EndBatch
           \/ \E l \in Listeners : StartAccept(l)
           \/ \E e \in cev : StartClient(e)
           \/ \E c \in Conns : ReadWouldBlock(c)
  <2>1. UNCHANGED <<st, net, todo, cl, replies, sent>>
    BY <1>1 DEF Hangup, SignalStop, EpollWait, EndBatch, StartAccept, StartClient,
                ReadWouldBlock
  <2>2. \A c \in Conns : Stream(c)' = Stream(c)
    BY <2>1 DEF Stream
  <2>3. \A c \in Conns : InTunnel(c) => InTunnel(c)'
    BY <1>1 DEF InTunnel, Hangup, SignalStop, EpollWait, EndBatch, StartAccept, StartClient,
                ReadWouldBlock, Handling
  <2>4. FrameInv'
    BY <1>0, <2>1, <2>2, <2>3, StreamsKept
  <2> QED
    BY <2>1, <2>4, PromiseStutters
<1>2. CASE Tick
  <2>1. UNCHANGED <<st, net, todo, replies, sent, pc, cur>>
    BY <1>2 DEF Tick
  <2>2. \A c \in Conns : cl'[c].buf = cl[c].buf /\ cl'[c].kaReqs = cl[c].kaReqs
    BY <1>0, <1>2 DEF Tick, TypeOK, ClientObject
  <2>3. \A c \in Conns : Stream(c)' = Stream(c)
    BY <2>1, <2>2 DEF Stream
  <2>4. FrameInv'
    BY <1>0, <2>1, <2>2, <2>3, StreamsKept DEF InTunnel
  <2> QED
    BY <2>1, <2>4, PromiseStutters
<1>3. ASSUME NEW c \in Conns, AcceptClient(c) \/ AcceptHttp2(c)
      PROVE  FrameInv' /\ UNCHANGED Promise!vars
  <2>1. UNCHANGED <<net, todo, cl, replies, sent>> /\ pc = "accept"
    BY <1>3 DEF AcceptClient, AcceptHttp2
  <2>2. st[c] = "backlog" /\ st'[c] = "open" /\ \A d \in Conns : d # c => st'[d] = st[d]
    BY <1>0, <1>3 DEF AcceptClient, AcceptHttp2, Waiting, TypeOK
  <2>3. \A d \in Conns : Stream(d)' = Stream(d)
    BY <2>1 DEF Stream
  <2>4. FrameInv'
    BY <1>0, <2>1, <2>2, <2>3, StreamsKept DEF InTunnel
  <2>5. \A d \in Conns : \/ st'[d] = st[d]
                         \/ {st[d], st'[d]} \subseteq {"backlog", "open"}
    BY <2>2
  <2> QED
    BY <2>1, <2>4, <2>5, PromiseStutters
<1>4. ASSUME NEW c \in Conns, SendUnit(c)
      PROVE  FrameInv' /\ UNCHANGED Promise!vars
  <2>1. UNCHANGED <<st, cl, replies, sent, pc, cur>>
    BY <1>4 DEF SendUnit
  <2>2. /\ todo[c] # <<>>
        /\ net'[c] = Append(net[c], Head(todo[c])) /\ todo'[c] = Tail(todo[c])
        /\ \A d \in Conns : d # c => net'[d] = net[d] /\ todo'[d] = todo[d]
    BY <1>0, <1>4 DEF SendUnit, TypeOK
  <2>3. Stream(c)' = Stream(c)
    <3>1. cl[c].buf \in Seq(Unit) /\ net[c] \in Seq(Unit) /\ todo[c] \in Seq(Unit)
      BY <1>0, StreamType
    <3>2. (cl[c].buf \o Append(net[c], Head(todo[c]))) \o Tail(todo[c]) =
            (cl[c].buf \o net[c]) \o todo[c]
      BY <2>2, <3>1, SendJoins
    <3> QED
      BY <2>1, <2>2, <3>2 DEF Stream
  <2>4. \A d \in Conns : Stream(d)' = Stream(d)
    BY <2>1, <2>2, <2>3 DEF Stream
  <2>5. FrameInv'
    BY <1>0, <2>1, <2>4, StreamsKept DEF InTunnel
  <2> QED
    BY <2>1, <2>5, PromiseStutters
<1> QED
  BY <1>1, <1>2, <1>3, <1>4

\* Every path that closes connections without an answer.
LEMMA ClosesKeepFrames ==
    ASSUME IInv, InputInv, FrameInv,
           \/ sweep_idle_keep_alive_clients \/ StopWorker \/ EpollFails
           \/ \E e \in cev : HangupEvent(e)
           \/ \E c \in Conns : AcceptDiscards(c)
           \/ Http2Returns \/ TunnelEnds
           \/ \E c \in Conns : ReadFails(c)
    PROVE  FrameInv' /\ Promise!Next
<1>0. TypeOK /\ \A c \in clients : c \in Conns /\ st[c] = "open"
  BY DEF IInv, TypeOK, ConnectionsAccounted, OpenConns
<1>1. PICK S : FreeClients(S) /\ \A c \in Conns : c \in S => st[c] \in {"backlog", "open"}
  <2>1. CASE sweep_idle_keep_alive_clients
    BY <1>0, <2>1 DEF sweep_idle_keep_alive_clients, close_client, Sweepable
  <2>2. CASE StopWorker \/ EpollFails
    <3>1. FreeClients(clients \cup {c \in Conns : st[c] = "backlog"})
      BY <2>2 DEF StopWorker, EpollFails, CloseAll
    <3>2. \A c \in clients \cup {c \in Conns : st[c] = "backlog"} :
            st[c] \in {"backlog", "open"}
      BY <1>0
    <3> QED
      BY <3>1, <3>2
  <2>3. ASSUME NEW e \in cev, HangupEvent(e)
        PROVE  FreeClients({e.conn}) /\ st[e.conn] = "open"
    BY <2>3 DEF HangupEvent, close_client, IInv, EventsAreLive
  <2>4. ASSUME NEW c \in Conns, AcceptDiscards(c)
        PROVE  FreeClients({c}) /\ st[c] = "backlog"
    BY <2>4 DEF AcceptDiscards, Waiting
  <2>5. CASE Http2Returns
    <3>1. FreeClients({cur}) /\ st[cur] = "open"
      BY <2>5 DEF Http2Returns, IInv, EventsAreLive, OpenConns
    <3> QED
      BY <3>1
  <2>6. CASE TunnelEnds
    <3>1. FreeClients({cur}) /\ st[cur] = "open"
      BY <1>0, <2>6 DEF TunnelEnds, close_client, IInv, EventsAreLive
    <3> QED
      BY <3>1
  <2>7. ASSUME NEW c \in Conns, ReadFails(c)
        PROVE  FreeClients({c}) /\ st[c] = "open"
    BY <1>0, <2>7 DEF ReadFails, Handling, close_client, IInv, EventsAreLive
  <2>8. ASSUME NEW c, FreeClients({c}), st[c] \in {"backlog", "open"}
        PROVE  \E S : FreeClients(S) /\ \A d \in Conns : d \in S => st[d] \in {"backlog", "open"}
    BY <2>8
  <2> QED
    BY <2>1, <2>2, <2>3, <2>4, <2>5, <2>6, <2>7, <2>8
<1>2. replies' = replies /\ sent' = sent
  BY DEF sweep_idle_keep_alive_clients, StopWorker, EpollFails, CloseAll, HangupEvent,
         AcceptDiscards, Http2Returns, TunnelEnds, ReadFails
<1>3. CASE TunnelEnds
  <2>1. FreeClients({cur}) /\ cur \in clients /\ pc = "tunnel"
    BY <1>3 DEF TunnelEnds, close_client, IInv, EventsAreLive
  <2>2. \A c \in Conns : c \notin {cur} => ~InTunnel(c)
    BY DEF InTunnel
  <2> QED
    BY <1>0, <1>2, <2>1, <2>2, FreedConnections
<1>4. CASE ~TunnelEnds
  <2>1. pc # "tunnel"
    BY <1>4 DEF sweep_idle_keep_alive_clients, StopWorker, EpollFails, HangupEvent,
                AcceptDiscards, Http2Returns, ReadFails, Handling
  <2>2. \A c \in Conns : ~InTunnel(c)
    BY <2>1 DEF InTunnel
  <2> QED
    BY <1>1, <1>2, <2>2, FreedConnections
<1> QED
  BY <1>3, <1>4

\* accept_clients returns, perhaps after it dropped a connection.
LEMMA AcceptReturnsKeeps ==
    ASSUME IInv, InputInv, FrameInv, AcceptReturns
    PROVE  FrameInv' /\ [Promise!Next]_(Promise!vars)
<1>0. TypeOK
  BY DEF IInv
<1>1. UNCHANGED <<cl, replies, sent>> /\ pc = "accept"
  BY DEF AcceptReturns
<1>2. \A d \in Conns : ~InTunnel(d)
  BY <1>1 DEF InTunnel
<1>3. CASE UNCHANGED <<st, net, todo>>
  <2>1. \A d \in Conns : Stream(d)' = Stream(d)
    BY <1>1, <1>3 DEF Stream
  <2> QED
    BY <1>0, <1>1, <1>2, <1>3, <2>1, StreamsKept, PromiseStutters
<1>4. ASSUME NEW c \in Waiting(cur),
             st' = [st EXCEPT ![c] = "closed"],
             net' = [net EXCEPT ![c] = <<>>],
             todo' = [todo EXCEPT ![c] = <<>>]
      PROVE  FrameInv' /\ [Promise!Next]_(Promise!vars)
  <2>1. c \in Conns /\ st[c] = "backlog"
    BY <1>4 DEF Waiting
  <2>2. /\ \A d \in Conns : st'[d] = IF d \in {c} THEN "closed" ELSE st[d]
        /\ \A d \in Conns : d # c => net'[d] = net[d] /\ todo'[d] = todo[d]
    BY <1>0, <1>4 DEF TypeOK
  <2>3. \A d \in Conns : d # c => Stream(d)' = Stream(d)
    BY <1>1, <2>2 DEF Stream
  <2>4. FrameInv'
    BY <1>0, <1>1, <1>2, <2>1, <2>2, <2>3, StreamsKept
  <2>5. Promise!Next
    BY <1>0, <1>1, <2>1, <2>2, PromiseCloses
  <2> QED
    BY <2>4, <2>5
<1> QED
  BY <1>3, <1>4 DEF AcceptReturns

\* A new connection has asked and been answered nothing.
LEMMA ConnectKeeps ==
    ASSUME IInv, InputInv, FrameInv, NEW c \in Conns, Connect(c)
    PROVE  FrameInv' /\ Promise!Next
<1>0. TypeOK
  BY DEF IInv
<1>1. UNCHANGED <<net, todo, cl, replies, sent, pc, cur>>
  BY DEF Connect
<1>2. st[c] = "none" /\ st'[c] = "backlog" /\ \A d \in Conns : d # c => st'[d] = st[d]
  BY <1>0 DEF Connect, TypeOK
<1>3. \A d \in Conns : Stream(d)' = Stream(d)
  BY <1>1 DEF Stream
<1>4. FrameInv'
  BY <1>0, <1>1, <1>2, <1>3, StreamsKept DEF InTunnel
<1>5. replies[c] = <<>>
  BY <1>2 DEF FrameInv
<1>6. Phase(c) = "new" /\ Phase(c)' = "open" /\ \A d \in Conns : d # c => Phase(d)' = Phase(d)
  BY <1>1, <1>2, <1>5 DEF Phase
<1>7. \A d \in Conns : Answers(d)' = Answers(d)
  BY <1>1 DEF Answers
<1>8. Promise!Open(c)
  BY <1>1, <1>6, <1>7 DEF Promise!Open
<1> QED
  BY <1>4, <1>8 DEF Promise!Next

\* The client begins its next request.
LEMMA BeginRequestKeeps ==
    ASSUME IInv, InputInv, FrameInv, NEW c \in Conns, NEW k \in Kinds, BeginRequest(c, k)
    PROVE  FrameInv' /\ Promise!Next
<1> DEFINE r == [i \in 1..Size(k) |-> [n |-> sent[c] + 1, kind |-> k, pos |-> i]]
<1>0. TypeOK /\ replies \in [Conns -> Seq(AnswerRecord)]
  BY DEF IInv, FrameInv
<1>1. UNCHANGED <<st, net, cl, replies, pc, cur>> /\ st[c] \in {"backlog", "open"} /\ todo[c] = <<>>
  BY DEF BeginRequest
<1>2. /\ sent'[c] = sent[c] + 1 /\ todo'[c] = r
      /\ \A d \in Conns : d # c => sent'[d] = sent[d] /\ todo'[d] = todo[d]
      /\ sent' = [sent EXCEPT ![c] = sent[c] + 1]
  BY <1>0 DEF BeginRequest, TypeOK
<1>3. sent[c] \in Nat /\ \A d \in Conns : sent[d] \in Nat
  BY <1>0, StreamType
<1>4. r \in Seq(Unit) /\ Len(r) = Size(k) /\ \A i \in 1..Size(k) : Is(r[i], sent[c] + 1, k, i)
  <2>1. Size(k) \in Nat
    BY SizeValue
  <2>2. r \in Seq(Unit)
    BY <1>3, RequestType
  <2>3. DOMAIN r = 1..Len(r) /\ Len(r) \in Nat /\ DOMAIN r = 1..Size(k)
    BY <2>2, LenProperties
  <2>4. Len(r) = Size(k)
    BY <2>1, <2>3
  <2> QED
    BY <2>2, <2>4 DEF Is
<1> HIDE DEF r
<1>5. ASSUME Framed(Stream(c), Len(replies[c]) + 1, sent[c])
      PROVE  Framed(Stream(c), Len(replies[c]) + 1, sent[c])'
  <2>1. cl[c].buf \o net[c] \in Seq(Unit) /\ Stream(c) = cl[c].buf \o net[c]
    BY <1>0, <1>1, StreamType, ConcatEmptySeq DEF Stream
  <2>2. Len(replies[c]) + 1 \in Nat
    BY <1>0, LenProperties
  <2>3. Framed((cl[c].buf \o net[c]) \o r, Len(replies[c]) + 1, sent[c] + 1)
    BY <1>3, <1>4, <1>5, <2>1, <2>2, FramedGrows
  <2> QED
    BY <1>1, <1>2, <2>3 DEF Stream
<1>6. ASSUME NEW d \in Conns, st'[d] # "closed", ~InTunnel(d)'
      PROVE  AtBoundary(d)'
  <2>1. AtBoundary(d)
    BY <1>1, <1>6 DEF FrameInv, InTunnel
  <2>2. Framed(Stream(d), Len(replies[d]) + 1, sent[d])'
    <3>1. CASE d = c
      BY <1>5, <2>1, <3>1 DEF AtBoundary
    <3>2. CASE d # c
      BY <1>1, <1>2, <2>1, <3>2 DEF AtBoundary, Stream
    <3> QED
      BY <3>1, <3>2
  <2> QED
    BY <1>1, <2>1, <2>2 DEF AtBoundary, SaidKept
<1>7. FittingRequestServed'
  <2>1. ASSUME NEW d \in Conns, NEW i \in DOMAIN replies[d], sent[d] > replies[d][i].n
        PROVE  sent'[d] > replies[d][i].n
    <3>1. replies[d][i] \in AnswerRecord
      BY <1>0, LenProperties, ElementOfSeq
    <3>2. replies[d][i].n \in Nat
      BY <3>1 DEF AnswerRecord
    <3>3. sent'[d] = sent[d] \/ sent'[d] = sent[d] + 1
      BY <1>2
    <3> QED
      BY <1>3, <2>1, <3>2, <3>3
  <2> QED
    BY <1>1, <2>1 DEF FrameInv, FittingRequestServed
<1>8. FrameInv'
  BY <1>0, <1>1, <1>6, <1>7 DEF FrameInv
<1>9. Promise!Ask(c)
  <2>1. Phase(c) \in {"open", "final"} /\ \A d \in Conns : Phase(d)' = Phase(d)
    BY <1>1 DEF Phase
  <2>2. \A d \in Conns : Answers(d)' = Answers(d)
    BY <1>1 DEF Answers
  <2> QED
    BY <1>2, <2>1, <2>2 DEF Promise!Ask
<1> QED
  BY <1>8, <1>9 DEF Promise!Next

\* Neither a whole request nor a reason to refuse one.
LEMMA ReadMoreKeeps ==
    ASSUME IInv, InputInv, FrameInv, NEW c \in Conns, ReadMore(c)
    PROVE  FrameInv' /\ UNCHANGED Promise!vars
<1>0. TypeOK /\ cl[c].pending = <<>>
  BY DEF IInv, InputInv
<1>1. UNCHANGED <<st, todo, replies, sent, pc, cur>>
  BY DEF ReadMore
<1>2. PICK f \in Parsing(c) :
        cl' = [cl EXCEPT ![c] = Filled(@, f)] /\ net' = [net EXCEPT ![c] = f.net]
  BY DEF ReadMore
<1>3. /\ cl'[c] = Filled(cl[c], f) /\ net'[c] = f.net
      /\ \A d \in Conns : d # c => cl'[d] = cl[d] /\ net'[d] = net[d]
  BY <1>0, <1>2 DEF TypeOK
<1>4. cl'[c].buf = f.buf /\ cl'[c].kaReqs = cl[c].kaReqs
  BY <1>3 DEF Filled
<1>5. f.buf \o f.net = cl[c].buf \o net[c]
  BY <1>0, ParsingKeepsStream
<1>6. \A d \in Conns : Stream(d)' = Stream(d) /\ cl'[d].kaReqs = cl[d].kaReqs
  BY <1>1, <1>3, <1>4, <1>5 DEF Stream
<1>7. FrameInv'
  BY <1>0, <1>1, <1>6, StreamsKept DEF InTunnel
<1> QED
  BY <1>1, <1>7, PromiseStutters

(***************************************************************************)
(* Steps that answer.                                                      *)
(***************************************************************************)

\* The requests that a sequence of answers belongs to, as WorkerRefinement!Answers.
Numbers(r) == [i \in DOMAIN r |-> IF r[i].pos = 1 THEN r[i].n ELSE 0]

\* An answer that starts at a request's first unit adds that request.
LEMMA NumbersGrow ==
    ASSUME NEW r \in Seq(AnswerRecord), NEW a \in AnswerRecord, a.pos = 1, a.n = Len(r) + 1
    PROVE  /\ Len(Numbers(r)) = Len(r)
           /\ Numbers(Append(r, a)) = Append(Numbers(r), Len(Numbers(r)) + 1)
<1>1. ASSUME NEW q \in Seq(AnswerRecord)
      PROVE  /\ Numbers(q) \in Seq(Nat) /\ Len(Numbers(q)) = Len(q) /\ Len(q) \in Nat
             /\ \A i \in 1..Len(q) : Numbers(q)[i] = IF q[i].pos = 1 THEN q[i].n ELSE 0
  <2>1. Len(q) \in Nat /\ DOMAIN q = 1..Len(q) /\ \A i \in 1..Len(q) : q[i] \in AnswerRecord
    BY LenProperties, ElementOfSeq
  <2>2. \A i \in 1..Len(q) : q[i].n \in Nat
    BY <2>1 DEF AnswerRecord
  <2>3. \A i \in 1..Len(q) : (IF q[i].pos = 1 THEN q[i].n ELSE 0) \in Nat
    BY <2>2
  <2>4. Numbers(q) = [i \in 1..Len(q) |-> IF q[i].pos = 1 THEN q[i].n ELSE 0]
    BY <2>1 DEF Numbers
  <2>5. Numbers(q) \in Seq(Nat)
    BY <2>1, <2>3, <2>4, IsASeq
  <2>6. DOMAIN Numbers(q) = 1..Len(Numbers(q)) /\ Len(Numbers(q)) \in Nat
    BY <2>5, LenProperties
  <2>7. Len(Numbers(q)) = Len(q)
    BY <2>1, <2>4, <2>6
  <2> QED
    BY <2>1, <2>4, <2>5, <2>7
<1> DEFINE t == Append(r, a)
           m == Len(r) + 1
           u == Append(Numbers(r), m)
<1>2. /\ t \in Seq(AnswerRecord) /\ Len(t) = m /\ t[m] = a
      /\ \A i \in 1..Len(r) : t[i] = r[i]
  BY AppendProperties
<1>3. Len(r) \in Nat /\ m \in Nat
  BY <1>1
<1>4. /\ u \in Seq(Nat) /\ Len(u) = m /\ u[m] = m
      /\ \A i \in 1..Len(r) : u[i] = Numbers(r)[i]
  BY <1>1, <1>3, AppendProperties
<1>5. /\ Numbers(t) \in Seq(Nat) /\ Len(Numbers(t)) = m
      /\ \A i \in 1..m : Numbers(t)[i] = IF t[i].pos = 1 THEN t[i].n ELSE 0
  BY <1>1, <1>2
<1> HIDE DEF t, u
<1>6. ASSUME NEW i \in 1..m PROVE Numbers(t)[i] = u[i]
  <2>1. CASE i = m
    BY <1>2, <1>4, <1>5, <2>1
  <2>2. CASE i # m
    <3>1. i \in 1..Len(r)
      BY <1>3, <2>2
    <3> QED
      <4>1. Numbers(r)[i] = IF r[i].pos = 1 THEN r[i].n ELSE 0
        BY <1>1, <3>1
      <4>2. Numbers(t)[i] = IF t[i].pos = 1 THEN t[i].n ELSE 0
        BY <1>5, <1>6
      <4>3. t[i] = r[i] /\ u[i] = Numbers(r)[i]
        BY <1>2, <1>4, <3>1
      <4> QED
        BY <4>1, <4>2, <4>3
  <2> QED
    BY <2>1, <2>2
<1>7. Numbers(t) = u
  BY <1>4, <1>5, <1>6, SeqEqual
<1> QED
  BY <1>1, <1>7 DEF t, u

\* One more answer in order is a step of the promise.
LEMMA PromiseAnswers ==
    ASSUME TypeOK, FrameInv, NEW c \in Conns, st[c] = "open", SaidKept(c),
           NEW a \in AnswerRecord, a.pos = 1, a.n = Len(replies[c]) + 1, a.n <= sent[c],
           replies' = [replies EXCEPT ![c] = Append(replies[c], a)], sent' = sent,
           \A d \in Conns : d # c => st'[d] = st[d],
           \/ st'[c] = "closed"
           \/ st'[c] = "open" /\ a.keepAlive = TRUE /\ Len(replies[c]) + 1 < KeepAliveMax
           \/ st'[c] = "open" /\ a.keepAlive = FALSE
    PROVE  Promise!Next
<1> DEFINE r == replies[c]
           M == IF KeepAliveMax = 0 THEN 1 ELSE KeepAliveMax
           then == IF st'[c] = "closed" THEN "closed"
                   ELSE IF a.keepAlive = TRUE THEN "open" ELSE "final"
<1>1. replies \in [Conns -> Seq(AnswerRecord)] /\ r \in Seq(AnswerRecord)
  BY DEF FrameInv
<1>2. replies'[c] = Append(r, a) /\ \A d \in Conns : d # c => replies'[d] = replies[d]
  BY <1>1
<1>3. /\ Append(r, a) # <<>> /\ Len(r) \in Nat /\ Len(Append(r, a)) = Len(r) + 1
      /\ Append(r, a)[Len(r) + 1] = a
  BY <1>1, AppendProperties, LenProperties
<1>4. Phase(c) = "open"
  BY DEF Phase, SaidKept
<1>5. Phase(c)' = then
  <2>1. CASE st'[c] = "closed"
    BY <2>1 DEF Phase
  <2>2. CASE st'[c] = "open"
    <3>1. replies'[c] # <<>> /\ replies'[c][Len(replies'[c])] = a
      BY <1>2, <1>3
    <3>2. a.keepAlive \in BOOLEAN
      BY DEF AnswerRecord
    <3> QED
      BY <2>2, <3>1, <3>2 DEF Phase
  <2> QED
    BY <2>1, <2>2
<1>6. \A d \in Conns : d # c => Phase(d)' = Phase(d) /\ Answers(d)' = Answers(d)
  BY <1>2 DEF Phase, Answers
<1>7. Answers(c) = Numbers(r) /\ Answers(c)' = Numbers(Append(r, a))
  BY <1>2 DEF Answers, Numbers
<1>8. /\ Len(Numbers(r)) = Len(r)
      /\ Numbers(Append(r, a)) = Append(Numbers(r), Len(Numbers(r)) + 1)
  BY <1>1, NumbersGrow
<1>9. /\ Answers(c)' = Append(Answers(c), Len(Answers(c)) + 1)
      /\ Len(Answers(c)) = Len(r)
  BY <1>7, <1>8
<1>10. Len(r) < sent[c]
  <2>1. sent[c] \in Nat
    BY StreamType
  <2> QED
    BY <1>3, <2>1
<1>11. then = "open" => Len(r) + 1 < M
  <2>1. ASSUME then = "open" PROVE Len(r) + 1 < KeepAliveMax
    BY <2>1
  <2> QED
    BY <1>3, <2>1, ConstantsAssumption
<1>12. then \in {"open", "final", "closed"}
  OBVIOUS
<1> HIDE DEF then
<1>13. Promise!Answer(c, then)
  <2>1. [d \in Conns |-> Phase(d)][c] = "open"
    BY <1>4
  <2>2. Len([d \in Conns |-> Answers(d)][c]) = Len(r)
    BY <1>9
  <2>3. [d \in Conns |-> Answers(d)]' =
          [[d \in Conns |-> Answers(d)] EXCEPT ![c] =
             Append(Answers(c), Len(Answers(c)) + 1)]
    BY <1>6, <1>9
  <2>4. [d \in Conns |-> Phase(d)]' = [[d \in Conns |-> Phase(d)] EXCEPT ![c] = then]
    BY <1>5, <1>6
  <2> QED
    BY <1>10, <1>11, <2>1, <2>2, <2>3, <2>4 DEF Promise!Answer
<1> QED
  BY <1>12, <1>13 DEF Promise!Next

\* Only requests with something behind them were refused for their length, also
\* after one more answer.
LEMMA FittingKept ==
    ASSUME FrameInv, NEW c \in Conns, NEW a \in AnswerRecord,
           replies' = [replies EXCEPT ![c] = Append(replies[c], a)], sent' = sent,
           (/\ a.status \in {"400", "413"}
            /\ a.kind \notin Malformed \cup OverSiteLimit
            /\ Size(a.kind) < BufSize) => sent[c] > a.n
    PROVE  /\ replies' \in [Conns -> Seq(AnswerRecord)]
           /\ FittingRequestServed'
<1>1. replies \in [Conns -> Seq(AnswerRecord)] /\ replies[c] \in Seq(AnswerRecord)
  BY DEF FrameInv
<1>2. /\ Append(replies[c], a) \in Seq(AnswerRecord)
      /\ Len(Append(replies[c], a)) = Len(replies[c]) + 1
      /\ \A i \in 1..Len(replies[c]) : Append(replies[c], a)[i] = replies[c][i]
      /\ Append(replies[c], a)[Len(replies[c]) + 1] = a
  BY <1>1, AppendProperties
<1>3. replies' \in [Conns -> Seq(AnswerRecord)]
  BY <1>1, <1>2
<1>4. replies'[c] = Append(replies[c], a) /\ \A d \in Conns : d # c => replies'[d] = replies[d]
  BY <1>1
<1>5. ASSUME NEW d \in Conns, NEW i \in DOMAIN replies'[d]
      PROVE  (/\ replies'[d][i].status \in {"400", "413"}
              /\ replies'[d][i].kind \notin Malformed \cup OverSiteLimit
              /\ Size(replies'[d][i].kind) < BufSize) => sent'[d] > replies'[d][i].n
  <2>1. CASE d # c \/ i \in DOMAIN replies[d]
    <3>1. i \in DOMAIN replies[d] /\ replies'[d][i] = replies[d][i]
      <4>1. CASE d # c
        BY <1>4, <1>5, <4>1
      <4>2. CASE d = c
        BY <1>1, <1>2, <1>4, <2>1, <4>2, LenProperties
      <4> QED
        BY <4>1, <4>2
    <3> QED
      BY <3>1 DEF FrameInv, FittingRequestServed
  <2>2. CASE d = c /\ i \notin DOMAIN replies[d]
    <3>1. /\ DOMAIN replies[c] = 1..Len(replies[c]) /\ Len(replies[c]) \in Nat
          /\ DOMAIN replies'[c] = 1..(Len(replies[c]) + 1)
      BY <1>1, <1>2, <1>4, LenProperties
    <3>2. i = Len(replies[c]) + 1
      BY <1>5, <2>2, <3>1
    <3>3. replies'[d][i] = a
      BY <1>2, <1>4, <2>2, <3>2
    <3> QED
      BY <2>2, <3>3
  <2> QED
    BY <2>1, <2>2
<1>6. FittingRequestServed'
  BY <1>5 DEF FittingRequestServed
<1> QED
  BY <1>3, <1>6

\* What a handler knows of the connection it works on.
LEMMA HandledFacts ==
    ASSUME IInv, InputInv, FrameInv, NEW c \in Conns, Handling(c)
    PROVE  /\ TypeOK /\ cl[c].pending = <<>> /\ st[c] = "open"
           /\ AtBoundary(c) /\ SaidKept(c) /\ replies[c] \in Seq(AnswerRecord)
           /\ \A d \in Conns : ~InTunnel(d)
<1>1. TypeOK /\ cl[c].pending = <<>>
  BY DEF IInv, InputInv
<1>2. pc = "client" /\ cur = c
  BY DEF Handling
<1>3. st[c] = "open"
  BY <1>2 DEF IInv, EventsAreLive, ConnectionsAccounted, OpenConns
<1>4. \A d \in Conns : ~InTunnel(d)
  BY <1>2 DEF InTunnel
<1>5. AtBoundary(c) /\ replies[c] \in Seq(AnswerRecord)
  BY <1>3, <1>4 DEF FrameInv
<1> QED
  BY <1>1, <1>3, <1>4, <1>5 DEF AtBoundary

\* The handler answers the request at the front of its buffer and closes.
LEMMA LastAnswer ==
    ASSUME IInv, InputInv, FrameInv, NEW c \in Conns, Handling(c),
           NEW b \in Seq(Unit), NEW x \in Seq(Unit), b \o x = cl[c].buf \o net[c], b # <<>>,
           NEW status \in {"served", "aborted", "400", "413"}, NEW keepAlive \in BOOLEAN,
           ReplyAndClose(c, b, status, keepAlive),
           (/\ status \in {"400", "413"}
            /\ b[1].kind \notin Malformed \cup OverSiteLimit
            /\ Size(b[1].kind) < BufSize) => Len(b) > Size(b[1].kind)
    PROVE  FrameInv' /\ Promise!Next
<1> DEFINE a == [n |-> b[1].n, pos |-> b[1].pos, kind |-> b[1].kind,
                 status |-> status, keepAlive |-> keepAlive]
<1>0. /\ TypeOK /\ cl[c].pending = <<>> /\ st[c] = "open"
      /\ AtBoundary(c) /\ SaidKept(c) /\ replies[c] \in Seq(AnswerRecord)
      /\ \A d \in Conns : ~InTunnel(d)
  BY HandledFacts
<1>1. /\ b[1].kind \in Kinds /\ b[1].pos = 1
      /\ b[1].n = Len(replies[c]) + 1 /\ b[1].n <= sent[c]
      /\ Len(b) > Size(b[1].kind) => sent[c] > b[1].n
  BY <1>0, FrontOfBuffer
<1>2. Len(replies[c]) + 1 \in Nat
  BY <1>0, LenProperties
<1>3. /\ a \in AnswerRecord /\ a.pos = 1 /\ a.n = Len(replies[c]) + 1 /\ a.n <= sent[c]
      /\ a.n = b[1].n /\ a.status = status /\ a.kind = b[1].kind
  BY <1>1, <1>2 DEF AnswerRecord
<1>4. /\ replies' = [replies EXCEPT ![c] = Append(replies[c], a)] /\ sent' = sent
      /\ FreeClients({c}) /\ pc' = "batch"
  BY <1>0 DEF ReplyAndClose, Reply, close_client, FrameInv
<1> HIDE DEF a
<1>5. /\ st'[c] = "closed" /\ \A d \in Conns : d # c => st'[d] = st[d]
      /\ \A d \in Conns : d # c => cl'[d] = cl[d] /\ net'[d] = net[d] /\ todo'[d] = todo[d]
  BY <1>4 DEF FreeClients
<1>6. Promise!Next
  BY <1>0, <1>3, <1>4, <1>5, PromiseAnswers
<1>7. replies' \in [Conns -> Seq(AnswerRecord)] /\ FittingRequestServed'
  BY <1>1, <1>3, <1>4, FittingKept
<1>8. \A d \in Conns : d # c => replies'[d] = replies[d]
  BY <1>4 DEF FrameInv
<1>9. \A d \in Conns : st'[d] = "none" => replies'[d] = <<>>
  BY <1>5, <1>8 DEF FrameInv
<1>10. ASSUME NEW d \in Conns, st'[d] # "closed" PROVE AtBoundary(d)'
  <2>1. d # c /\ AtBoundary(d)
    BY <1>0, <1>5, <1>10 DEF FrameInv
  <2>2. Stream(d)' = Stream(d)
    BY <1>5, <2>1 DEF Stream
  <2> QED
    BY <1>4, <1>5, <1>8, <2>1, <2>2 DEF AtBoundary, SaidKept
<1>11. FrameInv'
  BY <1>7, <1>9, <1>10 DEF FrameInv
<1> QED
  BY <1>6, <1>11

\* The handler answers and the connection lives on, as a kept connection or as
\* a tunnel.
LEMMA MoreToCome ==
    ASSUME IInv, InputInv, FrameInv, NEW c \in Conns, Handling(c),
           NEW b \in Seq(Unit), NEW x \in Seq(Unit), b \o x = cl[c].buf \o net[c], b # <<>>,
           NEW keepAlive \in BOOLEAN, Reply(c, b, "served", keepAlive),
           UNCHANGED <<st, sent, todo>>,
           \A d \in Conns : d # c => cl'[d] = cl[d] /\ net'[d] = net[d],
           \/ /\ keepAlive = TRUE /\ pc' # "tunnel"
              /\ Len(replies[c]) + 1 < KeepAliveMax
              /\ Size(b[1].kind) <= Len(b)
              /\ cl'[c].buf = Drop(b, Size(b[1].kind)) /\ net'[c] = x
              /\ cl'[c].kaReqs = cl[c].kaReqs + 1
           \/ keepAlive = FALSE /\ pc' = "tunnel" /\ cur' = c
    PROVE  FrameInv' /\ Promise!Next
<1> DEFINE a == [n |-> b[1].n, pos |-> b[1].pos, kind |-> b[1].kind,
                 status |-> "served", keepAlive |-> keepAlive]
           k == b[1].kind
<1>0. /\ TypeOK /\ st[c] = "open"
      /\ AtBoundary(c) /\ SaidKept(c) /\ replies[c] \in Seq(AnswerRecord)
      /\ \A d \in Conns : ~InTunnel(d)
  BY HandledFacts
<1>1. b[1].kind \in Kinds /\ b[1].pos = 1 /\ b[1].n = Len(replies[c]) + 1 /\ b[1].n <= sent[c]
  BY <1>0, FrontOfBuffer
<1>2. Len(replies[c]) \in Nat /\ Len(replies[c]) + 1 \in Nat
  BY <1>0, LenProperties
<1>3. /\ a \in AnswerRecord /\ a.pos = 1 /\ a.n = Len(replies[c]) + 1 /\ a.n <= sent[c]
      /\ a.status = "served" /\ a.keepAlive = keepAlive
  BY <1>1, <1>2 DEF AnswerRecord
<1>4. replies' = [replies EXCEPT ![c] = Append(replies[c], a)]
  BY <1>0 DEF Reply, FrameInv
<1> HIDE DEF a
<1>5. Promise!Next
  BY <1>0, <1>3, <1>4, PromiseAnswers
<1>6. replies' \in [Conns -> Seq(AnswerRecord)] /\ FittingRequestServed'
  BY <1>3, <1>4, FittingKept
<1>7. replies'[c] = Append(replies[c], a) /\ \A d \in Conns : d # c => replies'[d] = replies[d]
  BY <1>4 DEF FrameInv
<1>8. \A d \in Conns : st'[d] = "none" => replies'[d] = <<>>
  BY <1>0, <1>7 DEF FrameInv
<1>9. /\ Len(replies'[c]) = Len(replies[c]) + 1
      /\ replies'[c][Len(replies[c]) + 1] = a
  BY <1>0, <1>3, <1>7, AppendProperties
<1>10. ASSUME keepAlive = TRUE, pc' # "tunnel", Size(k) <= Len(b),
              cl'[c].buf = Drop(b, Size(k)), net'[c] = x, cl'[c].kaReqs = cl[c].kaReqs + 1
       PROVE  AtBoundary(c)'
  <2> DEFINE y == x \o todo[c]
             z == Size(k)
  <2>1. todo[c] \in Seq(Unit) /\ Stream(c) \in Seq(Unit) /\ sent[c] \in Nat
    BY <1>0, StreamType
  <2>2. y \in Seq(Unit) /\ (b \o x) \o todo[c] = b \o y
    BY <2>1, UnitsConcat
  <2>3. Stream(c) = b \o y
    BY <2>2 DEF Stream
  <2>4. z \in Nat /\ Len(b) \in Nat /\ z \in 0..Len(b) /\ Len(b) >= 1
    BY <1>1, <1>10, SizeValue, UnitsOf
  <2>5. Drop(b, z) \in Seq(Unit) /\ Drop(b, z) \o y = Drop(b \o y, z)
    BY <2>2, <2>4, DropValue, DropJoins
  <2>6. Stream(c)' = Drop(Stream(c), z)
    <3>1. Stream(c)' = (Drop(b, z) \o x) \o todo[c]
      BY <1>10 DEF Stream
    <3>2. (Drop(b, z) \o x) \o todo[c] = Drop(b, z) \o y
      BY <2>1, <2>5, UnitsConcat
    <3> QED
      BY <2>3, <2>5, <3>1, <3>2
  <2>7. Stream(c) # <<>> /\ Stream(c)[1] = b[1]
    <3>1. /\ Len(b \o y) = Len(b) + Len(y) /\ Len(y) \in Nat
          /\ \A i \in 1..(Len(b) + Len(y)) :
               (b \o y)[i] = IF i <= Len(b) THEN b[i] ELSE y[i - Len(b)]
      BY <2>2, ConcatProperties, UnitsOf
    <3>2. 1 \in 1..(Len(b) + Len(y)) /\ 1 <= Len(b) /\ Len(b) + Len(y) # 0
      BY <2>4, <3>1
    <3> QED
      BY <2>1, <2>3, <3>1, <3>2, UnitsOf
  <2>8. Framed(Drop(Stream(c), z), (Len(replies[c]) + 1) + 1, sent[c])
    <3>1. Framed(Stream(c), Len(replies[c]) + 1, sent[c])
      BY <1>0 DEF AtBoundary
    <3>2. Framed(Drop(Stream(c), Size(Stream(c)[1].kind)), (Len(replies[c]) + 1) + 1, sent[c])
      BY <2>1, <2>7, <3>1, FramedDrops
    <3> QED
      BY <2>7, <3>2
  <2>9. Framed(Stream(c), Len(replies[c]) + 1, sent[c])'
    BY <1>9, <2>6, <2>8
  <2>10. cl'[c].kaReqs = Len(replies'[c])
    BY <1>0, <1>9, <1>10 DEF AtBoundary
  <2>11. SaidKept(c)'
    BY <1>3, <1>9, <1>10 DEF SaidKept
  <2> QED
    BY <2>9, <2>10, <2>11 DEF AtBoundary
<1>11. ASSUME NEW d \in Conns, st'[d] # "closed", ~InTunnel(d)' PROVE AtBoundary(d)'
  <2>1. CASE d = c
    <3>1. ~(pc' = "tunnel" /\ cur' = c)
      BY <1>11, <2>1 DEF InTunnel
    <3> QED
      BY <1>10, <2>1, <3>1
  <2>2. CASE d # c
    <3>1. AtBoundary(d)
      BY <1>0, <1>11 DEF FrameInv
    <3>2. Stream(d)' = Stream(d)
      BY <2>2 DEF Stream
    <3> QED
      BY <1>7, <2>2, <3>1, <3>2 DEF AtBoundary, SaidKept
  <2> QED
    BY <2>1, <2>2
<1>12. FrameInv'
  BY <1>6, <1>8, <1>11 DEF FrameInv
<1> QED
  BY <1>5, <1>12

\* The request that a turn of the loop parses is the next unanswered one.
LEMMA ParsedIsNext ==
    ASSUME IInv, InputInv, FrameInv, NEW c \in Conns, Handling(c), NEW f \in Parsing(c),
           rpsiod_http_parse_request(f.buf).rc # 0
    PROVE  /\ f.buf \in Seq(Unit) /\ f.net \in Seq(Unit) /\ f.buf # <<>>
           /\ f.buf \o f.net = cl[c].buf \o net[c]
           /\ f.buf[1].kind \in Kinds
           /\ rpsiod_http_parse_request(f.buf).rc
                = IF f.buf[1].kind \in Malformed THEN -1 ELSE 1
           /\ rpsiod_http_parse_request(f.buf).kind = f.buf[1].kind
           /\ rpsiod_http_parse_request(f.buf).header_len = HeaderLen[f.buf[1].kind]
           /\ rpsiod_http_parse_request(f.buf).content_length = BodyLen[f.buf[1].kind]
<1> DEFINE b == f.buf
           k == b[1].kind
<1>0. /\ TypeOK /\ cl[c].pending = <<>> /\ AtBoundary(c)
      /\ replies[c] \in Seq(AnswerRecord)
  BY HandledFacts
<1>1. b \in Seq(Unit) /\ f.net \in Seq(Unit) /\ b \o f.net = cl[c].buf \o net[c]
  BY <1>0, ParsingKeepsStream
<1>2. b # <<>>
  <2>1. HeaderEnds(<<>>) = {}
    BY EmptySeq DEF HeaderEnds
  <2>2. rpsiod_http_parse_request(<<>>).rc = 0
    BY <2>1 DEF rpsiod_http_parse_request
  <2> QED
    BY <2>2
<1>3. /\ k \in Kinds
      /\ \A p \in 1..Size(k) : p <= Len(b) => Is(b[p], b[1].n, k, p)
  BY <1>0, <1>1, <1>2, FrontOfBuffer
<1> HIDE DEF b, k
<1>4. LET req == rpsiod_http_parse_request(b) IN
      /\ Len(b) < HeaderLen[k] => req.rc = 0
      /\ Len(b) >= HeaderLen[k] =>
           /\ req.rc = IF k \in Malformed THEN -1 ELSE 1
           /\ req.kind = k
           /\ req.header_len = HeaderLen[k]
           /\ req.content_length = BodyLen[k]
  BY <1>1, <1>2, <1>3, ParseFront, ZenonT(60)
<1>5. Len(b) >= HeaderLen[k]
  <2>1. Len(b) \in Nat /\ HeaderLen[k] \in Nat
    BY <1>1, <1>3, UnitsOf, SizeValue
  <2>2. ~(Len(b) < HeaderLen[k])
    BY <1>4 DEF b
  <2> QED
    BY <2>1, <2>2
<1> QED
  BY <1>1, <1>2, <1>3, <1>4, <1>5 DEF b, k

\* handle_client_event.
LEMMA HandlerKeepsFrames ==
    ASSUME IInv, InputInv, FrameInv, NEW c \in Conns, handle_client_event(c)
    PROVE  FrameInv' /\ [Promise!Next]_(Promise!vars)
<1>0. Handling(c)
  BY DEF handle_client_event, ReadWouldBlock, ReadFails, BufferFull, ReadMore,
         RefuseTooLarge, RejectMalformed, ServeAndKeep, ServeAndClose, OpenTunnel
<1>1. /\ TypeOK /\ cl[c].pending = <<>> /\ st[c] = "open"
      /\ AtBoundary(c) /\ replies[c] \in Seq(AnswerRecord)
  BY <1>0, HandledFacts
<1>2. BufSize \in Nat /\ BufSize >= 1
  BY ConstantsAssumption
<1>3. CASE ReadWouldBlock(c)
  BY <1>3, LoopKeepsFrames
<1>4. CASE ReadFails(c)
  BY <1>4, ClosesKeepFrames
<1>5. CASE ReadMore(c)
  BY <1>5, ReadMoreKeeps
<1>6. CASE BufferFull(c)
  <2>1. PICK f \in client_read(c) :
          Len(f.buf) = BufSize /\ ReplyAndClose(c, f.buf, "400", FALSE)
    BY <1>6 DEF BufferFull
  <2> DEFINE x == f.pending \o f.net
  <2>2. f.buf \in Seq(Unit) /\ f.pending \in Seq(Unit) /\ f.net \in Seq(Unit)
    BY <1>1, ReadType
  <2>3. x \in Seq(Unit) /\ (f.buf \o f.pending) \o f.net = f.buf \o x
    BY <2>2, UnitsConcat, ZenonT(60)
  <2>4. f.buf \o x = cl[c].buf \o net[c]
    BY <1>1, <2>3, ReadKeepsStream
  <2>5. f.buf # <<>>
    BY <1>2, <2>1, <2>2, UnitsOf
  <2>6. Size(f.buf[1].kind) < BufSize => Len(f.buf) > Size(f.buf[1].kind)
    <3>1. Size(f.buf[1].kind) \in Nat
      BY <1>2, <2>1, <2>2, UnitsOf
    <3> QED
      BY <1>2, <2>1, <3>1
  <2> HIDE DEF x
  <2> QED
    BY <1>0, <2>1, <2>2, <2>3, <2>4, <2>5, <2>6, LastAnswer
<1>7. CASE RefuseTooLarge(c)
  <2>1. PICK f \in Parsing(c) :
          /\ Refused(f.buf, rpsiod_http_parse_request(f.buf))
          /\ ReplyAndClose(c, f.buf, "413", FALSE)
    BY <1>7 DEF RefuseTooLarge
  <2> DEFINE b == f.buf
             k == b[1].kind
             req == rpsiod_http_parse_request(b)
  <2>2. req.rc = 1
    BY <2>1 DEF Refused
  <2>a. rpsiod_http_parse_request(f.buf).rc # 0
    BY <2>2
  <2>3. /\ b \in Seq(Unit) /\ f.net \in Seq(Unit) /\ b # <<>>
        /\ b \o f.net = cl[c].buf \o net[c] /\ k \in Kinds
        /\ req.kind = k /\ req.header_len = HeaderLen[k] /\ req.content_length = BodyLen[k]
    BY <1>0, <2>a, ParsedIsNext
  <2>4. k \in OverSiteLimit \/ BodyLen[k] > BufSize - HeaderLen[k]
    BY <2>1, <2>3 DEF Refused
  <2>5. k \in OverSiteLimit \/ ~(Size(k) < BufSize)
    BY <1>2, <2>3, <2>4, SizeValue
  <2> HIDE DEF req
  <2> QED
    BY <1>0, <2>1, <2>3, <2>5, LastAnswer
<1>8. CASE RejectMalformed(c)
  <2>1. PICK f \in Parsing(c) :
          /\ rpsiod_http_parse_request(f.buf).rc = -1
          /\ ReplyAndClose(c, f.buf, "400", FALSE)
    BY <1>8 DEF RejectMalformed
  <2>a. rpsiod_http_parse_request(f.buf).rc # 0
    BY <2>1
  <2>b. /\ f.buf \in Seq(Unit) /\ f.net \in Seq(Unit) /\ f.buf # <<>>
        /\ f.buf \o f.net = cl[c].buf \o net[c]
        /\ rpsiod_http_parse_request(f.buf).rc
             = IF f.buf[1].kind \in Malformed THEN -1 ELSE 1
    BY <1>0, <2>a, ParsedIsNext
  <2>2. /\ f.buf \in Seq(Unit) /\ f.net \in Seq(Unit) /\ f.buf # <<>>
        /\ f.buf \o f.net = cl[c].buf \o net[c]
        /\ f.buf[1].kind \in Malformed
    BY <2>1, <2>b
  <2> QED
    BY <1>0, <2>1, <2>2, LastAnswer
<1>9. ASSUME NEW f \in Parsing(c), Servable(f.buf)
      PROVE  LET b == f.buf
                 req == rpsiod_http_parse_request(b)
             IN  /\ b \in Seq(Unit) /\ f.net \in Seq(Unit) /\ b # <<>>
                 /\ b \o f.net = cl[c].buf \o net[c] /\ b[1].kind \in Kinds
                 /\ req.kind = b[1].kind
                 /\ Size(b[1].kind) <= Len(b)
                 /\ Consumed(b) = Drop(b, Size(b[1].kind))
  <2> DEFINE b == f.buf
             k == b[1].kind
             req == rpsiod_http_parse_request(b)
  <2>1. req.rc = 1 /\ BodyHave(b, req) >= req.content_length
    BY <1>9 DEF Servable
  <2>a. rpsiod_http_parse_request(f.buf).rc # 0
    BY <2>1
  <2>2. /\ b \in Seq(Unit) /\ f.net \in Seq(Unit) /\ b # <<>>
        /\ b \o f.net = cl[c].buf \o net[c] /\ k \in Kinds
        /\ req.kind = k /\ req.header_len = HeaderLen[k] /\ req.content_length = BodyLen[k]
    BY <1>0, <1>9, <2>a, ParsedIsNext
  <2>3. /\ Len(b) \in Nat /\ HeaderLen[k] \in Nat /\ BodyLen[k] \in Nat
        /\ Size(k) = HeaderLen[k] + BodyLen[k]
    BY <2>2, UnitsOf, SizeValue
  <2>4. Len(b) - HeaderLen[k] >= BodyLen[k]
    BY <2>1, <2>2 DEF BodyHave
  <2>5. Size(k) <= Len(b)
    BY <2>3, <2>4
  <2>6. Consumed(b) = Drop(b, Size(k))
    BY <2>2, <2>3 DEF Consumed
  <2> QED
    BY <2>2, <2>5, <2>6
<1>10. CASE ServeAndClose(c)
  <2>1. PICK f \in Parsing(c), failed \in BOOLEAN :
          /\ Servable(f.buf)
          /\ ReplyAndClose(c, f.buf, IF failed THEN "aborted" ELSE "served",
                           ShouldKeepAlive(c, rpsiod_http_parse_request(f.buf).kind))
    BY <1>10 DEF ServeAndClose
  <2> DEFINE status == IF failed THEN "aborted" ELSE "served"
             keepAlive == ShouldKeepAlive(c, rpsiod_http_parse_request(f.buf).kind)
  <2>2. status \in {"served", "aborted", "400", "413"} /\ status \notin {"400", "413"}
    OBVIOUS
  <2>3. keepAlive \in BOOLEAN
    BY DEF ShouldKeepAlive
  <2>4. ReplyAndClose(c, f.buf, status, keepAlive)
    BY <2>1
  <2>5. /\ f.buf \in Seq(Unit) /\ f.net \in Seq(Unit) /\ f.buf # <<>>
        /\ f.buf \o f.net = cl[c].buf \o net[c]
    BY <1>9, <2>1
  <2> HIDE DEF status, keepAlive
  <2> QED
    BY <1>0, <2>2, <2>3, <2>4, <2>5, LastAnswer
<1>11. CASE ServeAndKeep(c)
  <2>1. PICK f \in Parsing(c) :
          /\ Servable(f.buf)
          /\ ShouldKeepAlive(c, rpsiod_http_parse_request(f.buf).kind)
          /\ Reply(c, f.buf, "served", TRUE)
          /\ cl' = [cl EXCEPT ![c] =
                      [buf |-> Consumed(f.buf), pending |-> f.pending,
                       blocking |-> GoesOn(Consumed(f.buf)),
                       kaReqs |-> cl[c].kaReqs + 1, idle |-> TRUE, age |-> 0]]
          /\ net' = [net EXCEPT ![c] = f.net]
          /\ pc' = IF GoesOn(Consumed(f.buf)) THEN "client" ELSE "batch"
    BY <1>11 DEF ServeAndKeep
  <2>2. UNCHANGED <<st, sent, todo>>
    BY <1>11 DEF ServeAndKeep
  <2>3. /\ f.buf \in Seq(Unit) /\ f.net \in Seq(Unit) /\ f.buf # <<>>
        /\ f.buf \o f.net = cl[c].buf \o net[c]
        /\ Size(f.buf[1].kind) <= Len(f.buf)
        /\ Consumed(f.buf) = Drop(f.buf, Size(f.buf[1].kind))
    BY <1>9, <2>1
  <2>4. /\ cl'[c].buf = Consumed(f.buf) /\ cl'[c].kaReqs = cl[c].kaReqs + 1
        /\ net'[c] = f.net
        /\ \A d \in Conns : d # c => cl'[d] = cl[d] /\ net'[d] = net[d]
    BY <1>1, <2>1 DEF TypeOK
  <2>5. Len(replies[c]) + 1 < KeepAliveMax
    BY <1>1, <2>1 DEF ShouldKeepAlive, AtBoundary
  <2>6. pc' # "tunnel"
    BY <2>1
  <2>7. Reply(c, f.buf, "served", TRUE) /\ TRUE \in BOOLEAN
    BY <2>1
  <2> QED
    BY <1>0, <2>2, <2>3, <2>4, <2>5, <2>6, <2>7, MoreToCome
<1>12. CASE OpenTunnel(c)
  <2>1. PICK f \in Parsing(c) :
          /\ Servable(f.buf)
          /\ Reply(c, f.buf, "served", FALSE)
          /\ cl' = [cl EXCEPT ![c] =
                      [buf |-> f.buf, pending |-> f.pending, blocking |-> TRUE,
                       kaReqs |-> @.kaReqs, idle |-> FALSE, age |-> 0]]
          /\ net' = [net EXCEPT ![c] = f.net]
    BY <1>12 DEF OpenTunnel
  <2>2. UNCHANGED <<st, sent, todo>> /\ pc' = "tunnel" /\ cur' = c
    BY <1>0, <1>12 DEF OpenTunnel, Handling
  <2>3. /\ f.buf \in Seq(Unit) /\ f.net \in Seq(Unit) /\ f.buf # <<>>
        /\ f.buf \o f.net = cl[c].buf \o net[c]
    BY <1>9, <2>1
  <2>4. \A d \in Conns : d # c => cl'[d] = cl[d] /\ net'[d] = net[d]
    BY <1>1, <2>1 DEF TypeOK
  <2>5. Reply(c, f.buf, "served", FALSE) /\ FALSE \in BOOLEAN
    BY <2>1
  <2> QED
    BY <1>0, <2>2, <2>3, <2>4, <2>5, MoreToCome
<1> QED
  BY <1>3, <1>4, <1>5, <1>6, <1>7, <1>8, <1>10, <1>11, <1>12 DEF handle_client_event

(***************************************************************************)
(* The theorems.                                                           *)
(***************************************************************************)

\* Nothing has been sent or answered at the start.
LEMMA InitFrames == Init => FrameInv /\ Promise!Init
<1> SUFFICES ASSUME Init PROVE FrameInv /\ Promise!Init
  OBVIOUS
<1>1. \A c \in Conns : /\ st[c] = "none" /\ net[c] = <<>> /\ todo[c] = <<>> /\ sent[c] = 0
                       /\ cl[c] = FreshClient /\ replies[c] = <<>>
  BY DEF Init
<1>2. FreshClient.buf = <<>> /\ FreshClient.kaReqs = 0
  BY DEF FreshClient
<1>3. (<<>> \o <<>>) \o <<>> = <<>> /\ Len(<<>>) = 0
  <2>1. <<>> \in Seq(Unit)
    BY EmptySeq
  <2> QED
    BY <2>1, ConcatEmptySeq
<1>4. \A c \in Conns : Stream(c) = <<>>
  BY <1>1, <1>2, <1>3 DEF Stream
<1>5. \A c \in Conns : AtBoundary(c)
  <2>1. 0 + 1 = 1
    OBVIOUS
  <2> QED
    BY <1>1, <1>2, <1>3, <1>4, <2>1, FramedNothing DEF AtBoundary, SaidKept
<1>6. replies \in [Conns -> Seq(AnswerRecord)]
  BY EmptySeq DEF Init
<1>7. FittingRequestServed
  BY <1>1 DEF FittingRequestServed
<1>8. FrameInv
  BY <1>1, <1>5, <1>6, <1>7 DEF FrameInv
<1>9. \A c \in Conns : Phase(c) = "new" /\ Answers(c) = <<>>
  BY <1>1 DEF Phase, Answers
<1>10. Promise!Init
  BY <1>9 DEF Promise!Init, Init
<1> QED
  BY <1>8, <1>10

\* Every step keeps the frames, and is a step of the promise or none.
LEMMA NextFrames ==
    IInv /\ InputInv /\ FrameInv /\ [Next]_vars =>
        FrameInv' /\ [Promise!Next]_(Promise!vars)
<1> SUFFICES ASSUME IInv, InputInv, FrameInv, [Next]_vars
             PROVE  FrameInv' /\ [Promise!Next]_(Promise!vars)
  OBVIOUS
<1>1. CASE UNCHANGED vars
  <2>1. UNCHANGED <<st, net, todo, cl, replies, sent, pc, cur>>
    BY <1>1 DEF vars
  <2>2. \A c \in Conns : Stream(c)' = Stream(c)
    BY <2>1 DEF Stream
  <2>3. FrameInv'
    BY <2>1, <2>2, StreamsKept DEF IInv, InTunnel
  <2> QED
    BY <2>1, <2>3, PromiseStutters
<1>2. CASE \/ \E c \in Conns : SendUnit(c) \/ Hangup(c)
           \/ SignalStop \/ Tick
           \/ EpollWait \/ EndBatch
           \/ \E l \in Listeners : StartAccept(l)
           \/ \E e \in cev : StartClient(e)
           \/ \E c \in Conns : AcceptClient(c) \/ AcceptHttp2(c)
  BY <1>2, LoopKeepsFrames
<1>3. CASE \/ sweep_idle_keep_alive_clients \/ StopWorker \/ EpollFails
           \/ \E e \in cev : HangupEvent(e)
           \/ \E c \in Conns : AcceptDiscards(c)
           \/ Http2Returns \/ TunnelEnds
  BY <1>3, ClosesKeepFrames
<1>4. CASE AcceptReturns
  BY <1>4, AcceptReturnsKeeps
<1>5. CASE \E c \in Conns : Connect(c) \/ \E k \in Kinds : BeginRequest(c, k)
  BY <1>5, ConnectKeeps, BeginRequestKeeps
<1>6. CASE \E c \in Conns : handle_client_event(c)
  BY <1>6, HandlerKeepsFrames
<1> QED
  BY <1>1, <1>2, <1>3, <1>4, <1>5, <1>6 DEF Next, WorkerStep, PeerStep, accept_clients

\* The framing invariant holds throughout every behaviour of the worker.
LEMMA SpecFrames == Spec => [](IInv /\ InputInv /\ FrameInv)
BY InitFrames, NextFrames, SpecInput, PTL DEF Spec

\* A well-formed request that the site allows and that is shorter than the
\* buffer is refused only when the client has pipelined more behind it,
\* whatever the sizes of the buffer, of the records and of the requests.
THEOREM FittingRequestsServed == Spec => []FittingRequestServed
<1>1. FrameInv => FittingRequestServed
  BY DEF FrameInv
<1> QED
  BY <1>1, SpecFrames, PTL

\* The event loop, with its buffers, records, batches and sweeps, implements the
\* promise of module Conversation: answers in order, one per request, none after
\* the last, and no more than keep_alive_max_requests of them.
THEOREM WorkerKeepsPromise == Spec => KeepsPromise
<1>1. Init => Promise!Init
  BY InitFrames
<1>2. IInv /\ InputInv /\ FrameInv /\ [Next]_vars => [Promise!Next]_(Promise!vars)
  BY NextFrames
<1> QED
  BY <1>1, <1>2, SpecFrames, PTL DEF Spec, KeepsPromise, Promise!Spec
=============================================================================
