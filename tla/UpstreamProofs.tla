--------------------------- MODULE UpstreamProofs ---------------------------
(***************************************************************************)
(* Proofs about relayed responses for every head and body, every size of   *)
(* the header buffer and every way the upstream cuts its output: the       *)
(* client gets the payload in order, one response, framed so that its end  *)
(* is found.                                                               *)
(***************************************************************************)
EXTENDS Upstream, SequenceFacts, SequenceTheorems, TLAPS

Unit == {"h", "n"} \cup {BodyUnits[i] : i \in DOMAIN BodyUnits}

Units == Seq(Unit)

Items == [kind : ItemKinds, len : Int, units : Units]

\* What the upstream means to send, and the first blank line in it.
Meant == resp.head \o resp.body

First(b) == CHOOSE i \in BlankLines(b) : \A j \in BlankLines(b) : i <= j

\* The payload of what was written.
Got(o) == FlattenSeq([i \in DOMAIN o |-> o[i].units])

\* Types of a relay's state.
RelayTypeOK ==
    /\ relay \in {"php", "proxy"}
    /\ req \in [head_only : BOOLEAN, upgrade : BOOLEAN, unix : BOOLEAN]
    /\ resp \in [head : Heads, body : Bodies, status : {"200", "204", "101", "bad"}, len : Int]
    /\ pc \in {"connect", "relay", "tunnel", "done"}
    /\ todo \in Units /\ held \in Units
    /\ started \in BOOLEAN /\ chunked \in BOOLEAN /\ late \in BOOLEAN
    /\ out \in Seq(Items)
    /\ client \in {"reads", "stalls", "gone"}

\* Before the response begins everything that has come is held back, and in PHP's
\* output no blank line has.
Holding ==
    /\ pc \in {"connect", "relay"}
    /\ out = <<>>
    /\ held \o todo = Meant
    /\ relay = "php" => BlankLines(held) = {}

\* Once PHP's response has begun its head is out, and what was written and what is
\* still to come is the payload; to HEAD nothing but the head is written.
PhpBegun ==
    /\ pc = "relay"
    /\ BlankLines(Meant) # {}
    /\ chunked = (resp.len < 0 /\ ~req.head_only)
    /\ Len(out) >= 1 /\ out[1].len = resp.len
    /\ out[1].kind = IF chunked THEN "chunkedhead" ELSE "head"
    /\ \A i \in 2..Len(out) : /\ out[i].kind = IF chunked THEN "chunk" ELSE "data"
                              /\ out[i].len > 0
    /\ IF req.head_only THEN Len(out) = 1 /\ Got(out) = <<>> ELSE Got(out) \o todo = Payload

ProxyBegun ==
    /\ pc \in {"relay", "tunnel"}
    /\ \A i \in DOMAIN out : out[i].kind = "raw"
    /\ Got(out) \o todo = Meant

\* The inductive invariant.
RelayInv ==
    /\ RelayTypeOK
    /\ pc # "done" => /\ rc = "none" /\ late = FALSE
                      /\ ~started => Holding
                      /\ started /\ relay = "php" => PhpBegun
                      /\ started /\ relay = "proxy" => ProxyBegun
    /\ pc = "done" => PayloadRelayed /\ OneResponse /\ FramedExactly

(***************************************************************************)
(* Sequences of units.                                                     *)
(***************************************************************************)

\* A read takes the first k units and leaves the others.
LEMMA Cut ==
    ASSUME NEW s \in Units, NEW k \in 0..Len(s)
    PROVE  /\ SubSeq(s, 1, k) \in Units /\ Len(SubSeq(s, 1, k)) = k
           /\ Drop(s, k) \in Units /\ Len(Drop(s, k)) = Len(s) - k
           /\ SubSeq(s, 1, k) \o Drop(s, k) = s
           /\ \A i \in 1..(Len(s) - k) : Drop(s, k)[i] = s[k + i]
<1>1. Len(s) \in Nat /\ \A i \in 1..Len(s) : s[i] \in Unit
  BY LenProperties, ElementOfSeq DEF Units
<1>2. k \in Nat /\ k <= Len(s) /\ k + 1 \in Int /\ 1 \in Int
  BY <1>1
<1>3. SubSeq(s, 1, k) \in Seq(Unit) /\ Len(SubSeq(s, 1, k)) = IF 1 <= k THEN k - 1 + 1 ELSE 0
  <2>1. \A i \in 1..k : s[i] \in Unit
    BY <1>1, <1>2
  <2> QED
    BY <1>2, <2>1, SubSeqProperties
<1>4. /\ SubSeq(s, k + 1, Len(s)) \in Seq(Unit)
      /\ Len(SubSeq(s, k + 1, Len(s))) = IF k + 1 <= Len(s) THEN Len(s) - (k + 1) + 1 ELSE 0
      /\ \A i \in 1..(Len(s) - (k + 1) + 1) : SubSeq(s, k + 1, Len(s))[i] = s[(k + 1) + i - 1]
  <2>1. \A i \in (k + 1)..Len(s) : s[i] \in Unit
    BY <1>1, <1>2
  <2>2. Len(s) \in Int
    BY <1>1
  <2> QED
    BY <1>2, <2>1, <2>2, SubSeqProperties
<1>5. SubSeq(s, 1, k) \o SubSeq(s, k + 1, Len(s)) = SubSeq(s, 1, Len(s))
  <2>1. 1 \in 1..(Len(s) + 1) /\ k \in (1 - 1)..Len(s) /\ Len(s) \in k..Len(s)
    BY <1>1, <1>2
  <2> QED
    BY <2>1, ConcatAdjacentSubSeq DEF Units
<1>6. SubSeq(s, 1, Len(s)) = s
  BY SubSeqFull DEF Units
<1>7. \A i \in 1..(Len(s) - k) : i \in 1..(Len(s) - (k + 1) + 1) /\ (k + 1) + i - 1 = k + i
  BY <1>1, <1>2
<1>8. Len(SubSeq(s, 1, k)) = k /\ Len(SubSeq(s, k + 1, Len(s))) = Len(s) - k
  BY <1>1, <1>2, <1>3, <1>4
<1>9. \A i \in 1..(Len(s) - k) : SubSeq(s, k + 1, Len(s))[i] = s[k + i]
  <2> TAKE i \in 1..(Len(s) - k)
  <2>1. i \in 1..(Len(s) - (k + 1) + 1) /\ (k + 1) + i - 1 = k + i
    BY <1>7
  <2>2. SubSeq(s, k + 1, Len(s))[i] = s[(k + 1) + i - 1]
    BY <1>4, <2>1, Zenon
  <2> QED
    BY <2>1, <2>2, Zenon
<1> QED
  BY <1>3, <1>4, <1>5, <1>6, <1>8, <1>9, Zenon DEF Units, Drop

\* Cutting inside the first of two sequences.
LEMMA DropConcat ==
    ASSUME NEW s \in Units, NEW t \in Units, NEW k \in 0..Len(s)
    PROVE  Drop(s \o t, k) = Drop(s, k) \o t
<1>1. Len(s) \in Nat /\ Len(t) \in Nat
  BY LenProperties DEF Units
<1>2. /\ s \o t \in Units /\ Len(s \o t) = Len(s) + Len(t)
      /\ \A i \in 1..(Len(s) + Len(t)) : (s \o t)[i] = IF i <= Len(s) THEN s[i] ELSE t[i - Len(s)]
  BY ConcatProperties DEF Units
<1>3. PICK c \in Units : c = s \o t
  BY <1>2
<1>4. PICK a : a = Drop(c, k)
  OBVIOUS
<1>5. PICK d : d = Drop(s, k)
  OBVIOUS
<1>6. /\ a \in Units /\ Len(a) = (Len(s) + Len(t)) - k
      /\ \A i \in 1..((Len(s) + Len(t)) - k) : a[i] = c[k + i]
  <2>1. Len(c) = Len(s) + Len(t) /\ k \in 0..Len(c)
    BY <1>1, <1>2, <1>3
  <2>2. /\ a \in Units /\ Len(a) = Len(c) - k
        /\ \A i \in 1..(Len(c) - k) : a[i] = c[k + i]
    BY <1>4, <2>1, Cut, Zenon
  <2> QED
    BY <2>1, <2>2
<1>7. /\ d \in Units /\ Len(d) = Len(s) - k
      /\ \A i \in 1..(Len(s) - k) : d[i] = s[k + i]
  BY <1>5, Cut
<1>8. /\ d \o t \in Units /\ Len(d \o t) = Len(d) + Len(t)
      /\ \A i \in 1..(Len(d) + Len(t)) : (d \o t)[i] = IF i <= Len(d) THEN d[i] ELSE t[i - Len(d)]
  BY <1>7, ConcatProperties DEF Units
<1>9. Len(a) = Len(d \o t)
  BY <1>1, <1>6, <1>7, <1>8
<1>10. ASSUME NEW i \in 1..Len(a) PROVE a[i] = (d \o t)[i]
  <2>1. i \in 1..((Len(s) + Len(t)) - k) /\ k + i \in 1..(Len(s) + Len(t))
        /\ i \in 1..(Len(d) + Len(t))
    BY <1>1, <1>6, <1>7
  <2>2. a[i] = IF k + i <= Len(s) THEN s[k + i] ELSE t[(k + i) - Len(s)]
    BY <1>2, <1>3, <1>6, <2>1
  <2>3. CASE k + i <= Len(s)
    <3>1. i <= Len(d) /\ i \in 1..(Len(s) - k)
      BY <1>1, <1>7, <2>1, <2>3
    <3> QED
      BY <1>7, <1>8, <2>1, <2>2, <2>3, <3>1
  <2>4. CASE ~(k + i <= Len(s))
    <3>1. ~(i <= Len(d)) /\ (k + i) - Len(s) = i - Len(d)
      BY <1>1, <1>7, <2>1, <2>4
    <3> QED
      BY <1>8, <2>1, <2>2, <2>4, <3>1
  <2> QED
    BY <2>3, <2>4
<1> QED
  BY <1>3, <1>4, <1>5, <1>6, <1>8, <1>9, <1>10, SeqEqual DEF Units

\* What comes first is a prefix.
LEMMA PrefixOfConcat ==
    ASSUME NEW s \in Units, NEW t \in Units
    PROVE  IsPrefix(s, s \o t)
<1>1. Len(s) \in Nat /\ Len(t) \in Nat
  BY LenProperties DEF Units
<1>2. Len(s \o t) = Len(s) + Len(t) /\ s \o t \in Units
  BY ConcatProperties DEF Units
<1>3. CASE Len(s) = 0
  <2>1. SubSeq(s, 1, 0) = <<>> /\ SubSeq(s \o t, 1, 0) = <<>>
    BY SubSeqEmpty
  <2> QED
    BY <1>1, <1>2, <1>3, <2>1 DEF IsPrefix
<1>4. CASE Len(s) # 0
  <2>1. 1 \in 1..Len(s) /\ Len(s) \in 1..Len(s)
    BY <1>1, <1>4
  <2>2. SubSeq(s \o t, 1, Len(s)) = SubSeq(s, 1, Len(s))
    BY <2>1, SubSeqOfConcat1 DEF Units
  <2> QED
    BY <1>1, <1>2, <2>2 DEF IsPrefix
<1> QED
  BY <1>3, <1>4

(***************************************************************************)
(* Blank lines.                                                            *)
(***************************************************************************)

\* The first blank line is there when there is one.
LEMMA FirstIsFirst ==
    ASSUME NEW b \in Units, BlankLines(b) # {}
    PROVE  First(b) \in BlankLines(b) /\ \A j \in BlankLines(b) : First(b) <= j
<1>1. Len(b) \in Nat
  BY LenProperties DEF Units
<1>2. BlankLines(b) \in SUBSET Nat
  BY <1>1 DEF BlankLines
<1>3. \E i \in BlankLines(b) : \A j \in BlankLines(b) : i <= j
  BY <1>2, LeastNat
<1> QED
  BY <1>3 DEF First

\* A blank line found in what has come is one of the whole, and one of the whole that
\* has come is found.
LEMMA BlankLinesOfPrefix ==
    ASSUME NEW s \in Units, NEW t \in Units
    PROVE  /\ BlankLines(s) \subseteq BlankLines(s \o t)
           /\ \A i \in BlankLines(s \o t) : i < Len(s) => i \in BlankLines(s)
<1>1. Len(s) \in Nat /\ Len(t) \in Nat
  BY LenProperties DEF Units
<1>2. /\ Len(s \o t) = Len(s) + Len(t)
      /\ \A i \in 1..(Len(s) + Len(t)) : (s \o t)[i] = IF i <= Len(s) THEN s[i] ELSE t[i - Len(s)]
  BY ConcatProperties DEF Units
<1>3. \A i \in 1..Len(s) : (s \o t)[i] = s[i]
  BY <1>1, <1>2
<1>4. ASSUME NEW i \in 1..(Len(s) - 1)
      PROVE  (s \o t)[i] = s[i] /\ (s \o t)[i + 1] = s[i + 1] /\ i \in 1..(Len(s \o t) - 1)
  <2>1. i \in 1..Len(s) /\ i + 1 \in 1..Len(s)
    BY <1>1
  <2>2. i \in 1..(Len(s \o t) - 1)
    BY <1>1, <1>2
  <2> QED
    BY <1>3, <2>1, <2>2
<1>5. ASSUME NEW i \in 1..(Len(s \o t) - 1), i < Len(s) PROVE i \in 1..(Len(s) - 1)
  BY <1>1, <1>2, <1>5
<1> QED
  BY <1>4, <1>5 DEF BlankLines

\* More units do not change which blank line is the first.
LEMMA FirstOfPrefix ==
    ASSUME NEW s \in Units, NEW t \in Units, BlankLines(s) # {}
    PROVE  BlankLines(s \o t) # {} /\ First(s \o t) = First(s)
<1>1. s \o t \in Units /\ Len(s) \in Nat
  BY ConcatProperties, LenProperties DEF Units
<1>2. BlankLines(s \o t) # {}
  BY BlankLinesOfPrefix
<1>3. /\ First(s) \in BlankLines(s) /\ \A j \in BlankLines(s) : First(s) <= j
      /\ First(s \o t) \in BlankLines(s \o t) /\ \A j \in BlankLines(s \o t) : First(s \o t) <= j
  BY <1>1, <1>2, FirstIsFirst
<1>4. /\ First(s) \in BlankLines(s \o t) /\ First(s) \in Nat /\ First(s) < Len(s)
      /\ First(s \o t) \in Nat
  <2>1. First(s) \in 1..(Len(s) - 1) /\ First(s \o t) \in 1..(Len(s \o t) - 1)
    BY <1>3 DEF BlankLines
  <2> QED
    BY <1>1, <1>3, <2>1, BlankLinesOfPrefix
<1>5. First(s \o t) <= First(s)
  BY <1>3, <1>4
<1>6. First(s \o t) \in BlankLines(s)
  BY <1>1, <1>3, <1>4, <1>5, BlankLinesOfPrefix
<1> QED
  BY <1>2, <1>3, <1>4, <1>5, <1>6

(***************************************************************************)
(* What was written.                                                       *)
(***************************************************************************)

\* The units of the items written, one sequence each.
LEMMA UnitsOf ==
    ASSUME NEW o \in Seq(Items)
    PROVE  [i \in DOMAIN o |-> o[i].units] \in Seq(Units)
<1>1. Len(o) \in Nat /\ DOMAIN o = 1..Len(o) /\ \A i \in 1..Len(o) : o[i] \in Items
  BY LenProperties, ElementOfSeq
<1>2. \A i \in 1..Len(o) : o[i].units \in Units
  BY <1>1 DEF Items
<1>3. [i \in 1..Len(o) |-> o[i].units] \in [1..Len(o) -> Units]
  BY <1>2
<1> QED
  BY <1>1, <1>3, SeqDef

\* Nothing written has no payload.
LEMMA GotNothing == Got(<<>>) = <<>>
<1>1. [i \in DOMAIN <<>> |-> <<>>[i].units] = <<>>
  OBVIOUS
<1> QED
  BY <1>1, FlattenEmpty DEF Got

\* The payload is a sequence of units.
LEMMA GotType ==
    ASSUME NEW o \in Seq(Items)
    PROVE  Got(o) \in Units
BY UnitsOf, FlattenType DEF Got, Units

\* An item adds its units at the end.
LEMMA GotAppend ==
    ASSUME NEW o \in Seq(Items), NEW x \in Items
    PROVE  Got(Append(o, x)) = Got(o) \o x.units
<1> DEFINE F(p) == [i \in DOMAIN p |-> p[i].units]
<1>1. x.units \in Units
  BY DEF Items
<1>2. /\ Len(o) \in Nat /\ DOMAIN o = 1..Len(o)
      /\ Append(o, x) \in Seq(Items) /\ Len(Append(o, x)) = Len(o) + 1
      /\ DOMAIN Append(o, x) = 1..(Len(o) + 1)
      /\ \A i \in 1..Len(o) : Append(o, x)[i] = o[i]
      /\ Append(o, x)[Len(o) + 1] = x
  BY LenProperties, AppendProperties
<1>3. F(o) \in Seq(Units) /\ F(Append(o, x)) \in Seq(Units)
  BY <1>2, UnitsOf
<1>4. Len(F(o)) = Len(o) /\ Len(F(Append(o, x))) = Len(o) + 1
  BY <1>2
<1>5. F(Append(o, x)) = Append(F(o), x.units)
  <2>1. /\ Append(F(o), x.units) \in Seq(Units) /\ Len(Append(F(o), x.units)) = Len(o) + 1
        /\ \A i \in 1..Len(o) : Append(F(o), x.units)[i] = F(o)[i]
        /\ Append(F(o), x.units)[Len(o) + 1] = x.units
    <3> HIDE DEF F
    <3> QED
      BY <1>1, <1>3, <1>4, AppendProperties
  <2>2. \A i \in 1..(Len(o) + 1) : F(Append(o, x))[i] = Append(F(o), x.units)[i]
    <3>1. \A i \in 1..Len(o) : F(Append(o, x))[i] = F(o)[i]
      BY <1>2
    <3>2. F(Append(o, x))[Len(o) + 1] = x.units
      BY <1>2
    <3> HIDE DEF F
    <3> QED
      BY <1>2, <2>1, <3>1, <3>2
  <2> HIDE DEF F
  <2> QED
    BY <1>3, <1>4, <2>1, <2>2, SeqEqual
<1>6. FlattenSeq(Append(F(o), x.units)) = FlattenSeq(F(o)) \o x.units
  <2> HIDE DEF F
  <2> QED
    BY <1>1, <1>3, FlattenAppend DEF Units
<1> QED
  BY <1>5, <1>6 DEF Got

\* Nothing more, or one item more, was written.
LEMMA MoreItems ==
    ASSUME NEW o \in Seq(Items), NEW x \in Items
    PROVE  /\ o \o <<>> = o
           /\ o \o <<x>> = Append(o, x)
           /\ <<>> \o o = o
           /\ <<x>> \in Seq(Items) /\ Append(o, x) \in Seq(Items)
           /\ <<>> \in Seq(Items)
<1>1. o \o <<>> = o /\ <<>> \o o = o
  BY ConcatEmptySeq
<1>2. <<x>> \in Seq(Items) /\ Append(o, x) \in Seq(Items) /\ <<>> \in Seq(Items)
  OBVIOUS
<1>3. o \o <<x>> = Append(o, x)
  BY AppendIsConcat
<1> QED
  BY <1>1, <1>2, <1>3

(***************************************************************************)
(* What is meant to arrive.                                                *)
(***************************************************************************)

\* A body is a sequence of units, none of which belongs to a header.
LEMMA BodyType ==
    ASSUME NEW b \in Bodies
    PROVE  b \in Units /\ \A i \in 1..Len(b) : b[i] \notin {"h", "n"}
<1>1. \A i \in DOMAIN BodyUnits : BodyUnits[i] \notin {"h", "n"}
  BY UpstreamAssumption
<1>2. Len(BodyUnits) \in Nat /\ DOMAIN BodyUnits = 1..Len(BodyUnits)
  BY UpstreamAssumption, LenProperties
<1>3. PICK k \in 0..Len(BodyUnits) : b = SubSeq(BodyUnits, 1, k)
  BY DEF Bodies
<1>4. \A i \in 1..k : BodyUnits[i] \in Unit
  BY <1>2 DEF Unit
<1>5. k \in Int /\ 1 \in Int
  BY <1>2
<1>6. /\ b \in Seq(Unit) /\ Len(b) = IF 1 <= k THEN k - 1 + 1 ELSE 0
      /\ \A i \in 1..(k - 1 + 1) : b[i] = BodyUnits[1 + i - 1]
  BY <1>3, <1>4, <1>5, SubSeqProperties
<1>7. \A i \in 1..Len(b) : b[i] \in {BodyUnits[j] : j \in DOMAIN BodyUnits}
  <2> TAKE i \in 1..Len(b)
  <2>1. i \in 1..(k - 1 + 1) /\ 1 + i - 1 = i /\ i \in DOMAIN BodyUnits
    BY <1>2, <1>5, <1>6
  <2>2. b[i] = BodyUnits[i]
    BY <1>6, <2>1
  <2> QED
    BY <2>1, <2>2
<1> QED
  BY <1>1, <1>6, <1>7 DEF Units

\* What is meant is a sequence of units, and so is the payload.
LEMMA MeantType ==
    ASSUME RelayTypeOK
    PROVE  /\ resp.head \in Heads /\ resp.head \in Units
           /\ resp.body \in Bodies /\ resp.body \in Units
           /\ Meant \in Units
           /\ Payload = IF relay = "proxy" \/ BlankLines(Meant) = {} THEN Meant
                        ELSE Drop(Meant, First(Meant) + 1)
           /\ Payload \in Units
<1>1. resp.head \in Heads /\ resp.body \in Bodies
  BY DEF RelayTypeOK
<1>2. resp.head \in Units
  <2>1. resp.head \in Seq({"h", "n"})
    BY <1>1, UpstreamAssumption
  <2>2. {"h", "n"} \subseteq Unit
    BY DEF Unit
  <2>3. Len(resp.head) \in Nat /\ resp.head \in [1..Len(resp.head) -> {"h", "n"}]
    BY <2>1, LenProperties
  <2>4. resp.head \in [1..Len(resp.head) -> Unit]
    BY <2>2, <2>3
  <2> QED
    BY <2>3, <2>4, SeqDef DEF Units
<1>3. resp.body \in Units
  BY <1>1, BodyType
<1>4. Meant \in Units
  BY <1>2, <1>3, ConcatProperties DEF Meant, Units
<1>5. Payload = IF relay = "proxy" \/ BlankLines(Meant) = {} THEN Meant
                ELSE Drop(Meant, First(Meant) + 1)
  BY Zenon DEF Payload, Meant, First
<1>6. ASSUME BlankLines(Meant) # {} PROVE Drop(Meant, First(Meant) + 1) \in Units
  <2>1. First(Meant) \in 1..(Len(Meant) - 1)
    BY <1>4, <1>6, FirstIsFirst DEF BlankLines
  <2>2. First(Meant) + 1 \in 0..Len(Meant)
    BY <1>4, <2>1, LenProperties DEF Units
  <2> QED
    BY <1>4, <2>2, Cut
<1> QED
  BY <1>1, <1>2, <1>3, <1>4, <1>5, <1>6

\* The first blank line of a head with a body ends the head, so that the payload is as
\* long as the body.
LEMMA PayloadLen ==
    ASSUME RelayTypeOK, relay = "php", BlankLines(Meant) # {}
    PROVE  Len(Payload) = Len(resp.body)
<1>1. PICK h \in Units : h = resp.head
  BY MeantType
<1>2. PICK b \in Units : b = resp.body
  BY MeantType
<1>3. PICK m \in Units : m = Meant
  BY MeantType
<1>4. Len(h) \in Nat /\ Len(b) \in Nat
  BY LenProperties DEF Units
<1>5. /\ Len(m) = Len(h) + Len(b)
      /\ \A i \in 1..(Len(h) + Len(b)) : m[i] = IF i <= Len(h) THEN h[i] ELSE b[i - Len(h)]
  BY <1>1, <1>2, <1>3, ConcatProperties, ZenonT(60) DEF Units, Meant
<1>6. PICK f : f = First(m)
  OBVIOUS
<1>7. f \in 1..(Len(m) - 1) /\ m[f] = "n" /\ m[f + 1] = "n"
  BY <1>3, <1>6, FirstIsFirst DEF BlankLines
<1>8. f + 1 <= Len(h)
  <2> SUFFICES ASSUME ~(f + 1 <= Len(h)) PROVE FALSE
    OBVIOUS
  <2>1. f + 1 \in 1..(Len(h) + Len(b)) /\ (f + 1) - Len(h) \in 1..Len(b)
    BY <1>4, <1>5, <1>7
  <2>2. m[f + 1] = b[(f + 1) - Len(h)]
    BY <1>5, <2>1
  <2>3. b[(f + 1) - Len(h)] \notin {"h", "n"}
    BY <1>2, <2>1, MeantType, BodyType
  <2> QED
    BY <1>7, <2>2, <2>3
<1>9. h[f] = "n" /\ h[f + 1] = "n"
  <2>1. f \in 1..(Len(h) + Len(b)) /\ f + 1 \in 1..(Len(h) + Len(b)) /\ f <= Len(h)
    BY <1>4, <1>7, <1>8
  <2> QED
    BY <1>5, <1>7, <1>8, <2>1
<1>10. f + 1 = Len(h)
  <2>1. \A i \in 1..(Len(h) - 2) : h[i] # "n" \/ h[i + 1] # "n"
    BY <1>1, MeantType, UpstreamAssumption
  <2>2. f \notin 1..(Len(h) - 2)
    BY <1>9, <2>1
  <2> QED
    BY <1>4, <1>5, <1>7, <1>8, <2>2
<1>11. Payload = Drop(m, Len(h))
  <2>1. Payload = Drop(m, f + 1)
    BY <1>3, <1>6, MeantType
  <2> QED
    BY <1>10, <2>1
<1>12. Len(h) \in 0..Len(m)
  BY <1>4, <1>5
<1>13. Len(Drop(m, Len(h))) = Len(m) - Len(h)
  BY <1>12, Cut
<1> QED
  BY <1>2, <1>4, <1>5, <1>11, <1>13

\* Once the blank line has come, the payload is what came behind it and what is still
\* to come: HeaderEnd finds the blank line that ends the head of the whole.
LEMMA PayloadAt ==
    ASSUME RelayTypeOK, relay = "php", NEW b \in Units, NEW t \in Units, NEW k,
           b \o t = Meant, HeaderEnd(b, k) # 0
    PROVE  /\ BlankLines(Meant) # {}
           /\ Drop(b, HeaderEnd(b, k) + 1) \in Units
           /\ Payload = Drop(b, HeaderEnd(b, k) + 1) \o t
<1>1. BlankLines(b) # {} /\ HeaderEnd(b, k) = First(b)
  BY DEF HeaderEnd, First
<1>2. BlankLines(Meant) # {} /\ First(Meant) = First(b)
  BY <1>1, FirstOfPrefix
<1>3. First(b) + 1 \in 0..Len(b)
  <2>1. First(b) \in 1..(Len(b) - 1)
    BY <1>1, FirstIsFirst DEF BlankLines
  <2> QED
    BY <2>1, LenProperties DEF Units
<1>4. Payload = Drop(b \o t, First(b) + 1)
  BY <1>2, MeantType
<1>5. Drop(b \o t, First(b) + 1) = Drop(b, First(b) + 1) \o t /\ Drop(b, First(b) + 1) \in Units
  BY <1>3, DropConcat, Cut
<1> QED
  BY <1>1, <1>2, <1>4, <1>5

(***************************************************************************)
(* Where a response can end.                                               *)
(***************************************************************************)

\* The properties of a relay that has not ended: what was written is the beginning of
\* the payload and of one response.
LEMMA Underway ==
    ASSUME RelayInv, pc # "done"
    PROVE  /\ IsPrefix(Got(out), Payload)
           /\ OneResponse
           /\ ~started => out = <<>>
           /\ relay = "php" => \A i \in DOMAIN out : out[i].kind # "page"
<1>1. RelayTypeOK /\ out \in Seq(Items) /\ Got(out) \in Units /\ todo \in Units /\ Payload \in Units
  BY GotType, MeantType DEF RelayInv, RelayTypeOK
<1>2. DOMAIN out = 1..Len(out) /\ Len(out) \in Nat
  BY <1>1, LenProperties
<1>3. IsPrefix(<<>>, Payload)
  <2>1. <<>> \in Units /\ <<>> \o Payload = Payload
    BY <1>1, ConcatEmptySeq DEF Units
  <2> QED
    BY <1>1, <2>1, PrefixOfConcat
<1>4. CASE ~started
  <2>1. out = <<>>
    BY <1>4 DEF RelayInv, Holding
  <2>2. Got(out) = <<>>
    BY <2>1, GotNothing
  <2> QED
    BY <1>3, <1>4, <2>1, <2>2 DEF OneResponse, Starts
<1>5. CASE started /\ relay = "php"
  <2>1. PhpBegun
    BY <1>5 DEF RelayInv
  <2>2. IsPrefix(Got(out), Payload)
    BY <1>1, <1>3, <2>1, PrefixOfConcat DEF PhpBegun
  <2>3. \A i \in DOMAIN out : (i # 1 => out[i].kind \in {"chunk", "data"}) /\ out[i].kind # "page"
    BY <1>2, <2>1 DEF PhpBegun
  <2>4. OneResponse
    BY <1>5, <2>3 DEF OneResponse, Starts
  <2> QED
    BY <1>5, <2>2, <2>3, <2>4
<1>6. CASE started /\ relay = "proxy"
  <2>1. ProxyBegun
    BY <1>6 DEF RelayInv
  <2>2. Payload = Meant
    BY <1>1, <1>6, MeantType
  <2>3. IsPrefix(Got(out), Payload)
    BY <1>1, <2>1, <2>2, PrefixOfConcat DEF ProxyBegun
  <2>4. Starts = {}
    BY <2>1 DEF Starts, ProxyBegun
  <2> QED
    BY <1>6, <2>3, <2>4 DEF OneResponse
<1> QED
  BY <1>1, <1>4, <1>5, <1>6 DEF RelayTypeOK

\* The parts of the state that no step of the function changes.
Fixed == relay' = relay /\ req' = req /\ resp' = resp

\* The primed payload is the payload.
LEMMA FixedMeant ==
    ASSUME Fixed
    PROVE  Payload' = Payload /\ Meant' = Meant
BY DEF Fixed, Payload, Meant

\* The function gives up with nothing more written: -1, or 0 where the client has gone
\* and the relay is a tunnel.
LEMMA GivesUp ==
    ASSUME RelayInv, pc # "done", Fixed, RelayTypeOK',
           pc' = "done", out' = out, late' = late, client' = client,
           rc' = "-1" \/ (rc' = "0" /\ client = "gone")
    PROVE  RelayInv'
<1>1. IsPrefix(Got(out), Payload) /\ OneResponse
  BY Underway
<1>2. Payload' = Payload
  BY FixedMeant
<1>3. Delivered' = Got(out) /\ Starts' = Starts
  BY DEF Delivered, Got, Starts
<1>4. PayloadRelayed'
  <2>1. ~(rc' = "0" /\ client' # "gone")
    OBVIOUS
  <2> QED
    BY <1>1, <1>2, <1>3, <2>1 DEF PayloadRelayed
<1>5. OneResponse'
  BY <1>1, <1>3 DEF OneResponse, Fixed
<1>6. FramedExactly'
  <2>1. ~(rc' = "0" /\ client' # "gone")
    OBVIOUS
  <2> QED
    BY <2>1 DEF FramedExactly
<1> QED
  BY <1>4, <1>5, <1>6 DEF RelayInv

\* The error page: the whole response where none has begun, and marked late otherwise.
LEMMA PageSent ==
    ASSUME RelayInv, pc # "done", Fixed, client' = client, pc' = "done",
           todo' \in Units, held' \in Units, started' = started, chunked' = chunked,
           out' = (IF client = "reads" THEN Append(out, Item("page", 0, <<>>)) ELSE out),
           rc' = (IF client = "reads" THEN "0" ELSE "-1"),
           late' = started
    PROVE  RelayInv'
<1>1. RelayTypeOK /\ late = FALSE /\ started \in BOOLEAN /\ out \in Seq(Items) /\ Payload \in Units
  BY MeantType DEF RelayInv, RelayTypeOK
<1>2. PICK x \in Items : x = Item("page", 0, <<>>) /\ x.units = <<>> /\ x.kind = "page"
  <2>1. Item("page", 0, <<>>) \in Items
    BY DEF Item, Items, ItemKinds, Units
  <2> QED
    BY <2>1 DEF Item
<1>3. Append(out, x) \in Seq(Items)
  BY <1>1, <1>2, MoreItems
<1>4. RelayTypeOK'
  BY <1>1, <1>2, <1>3 DEF RelayTypeOK, Fixed
<1>5. CASE client # "reads"
  <2>1. out' = out /\ rc' = "-1"
    BY <1>5
  <2>2. IsPrefix(Got(out), Payload) /\ OneResponse
    BY Underway
  <2>3. Payload' = Payload /\ Delivered' = Got(out) /\ Starts' = Starts
    BY <2>1, FixedMeant DEF Delivered, Got, Starts
  <2>4. PayloadRelayed' /\ FramedExactly'
    BY <2>1, <2>2, <2>3 DEF PayloadRelayed, FramedExactly
  <2>5. OneResponse'
    BY <1>1, <2>1, <2>2, <2>3 DEF OneResponse, Fixed
  <2> QED
    BY <1>4, <2>4, <2>5 DEF RelayInv
<1>6. CASE client = "reads"
  <2>1. out' = Append(out, x) /\ rc' = "0"
    BY <1>2, <1>6
  <2>2. Got(out') = Got(out)
    <3>1. Got(out') = Got(out) \o <<>> /\ Got(out) \in Units
      BY <1>1, <1>2, <2>1, GotAppend, GotType
    <3> QED
      BY <3>1, ConcatEmptySeq DEF Units
  <2>3. Delivered' = Got(out) /\ Payload' = Payload /\ IsPrefix(Got(out), Payload)
    BY <2>2, FixedMeant, Underway DEF Delivered, Got
  <2>4. Len(out) \in Nat /\ Len(out') = Len(out) + 1 /\ out'[Len(out) + 1] = x
        /\ DOMAIN out' = 1..(Len(out) + 1)
    BY <1>1, <1>2, <2>1, LenProperties, AppendProperties
  <2>5. PayloadRelayed'
    <3>1. \E i \in DOMAIN out' : out'[i].kind = "page"
      BY <1>2, <2>4
    <3> QED
      BY <2>3, <3>1 DEF PayloadRelayed
  <2>6. ASSUME ~late' PROVE Len(out') = 1 /\ out'[1].kind = "page" /\ Starts' \subseteq {1}
    <3>1. out = <<>>
      BY <2>6, Underway
    <3>2. Len(out) = 0
      BY <3>1
    <3> QED
      BY <1>2, <2>4, <3>2 DEF Starts
  <2>7. OneResponse' /\ FramedExactly'
    BY <2>6 DEF OneResponse, FramedExactly
  <2> QED
    BY <1>4, <2>5, <2>7 DEF RelayInv
<1> QED
  BY <1>5, <1>6

(***************************************************************************)
(* The steps.                                                              *)
(***************************************************************************)

\* A read or record takes at least one unit off what is still to come.
LEMMA ReadTaken ==
    ASSUME RelayTypeOK, NEW k \in Sizes, NEW a \in Units
    PROVE  /\ Arrives(k) \in Units /\ Arrives(k) # <<>> /\ Len(Arrives(k)) > 0
           /\ Drop(todo, k) \in Units
           /\ a \o Arrives(k) \in Units
           /\ (a \o Arrives(k)) \o Drop(todo, k) = a \o todo
<1>1. todo \in Units /\ Len(todo) \in Nat
  BY LenProperties DEF RelayTypeOK, Units
<1>2. k \in 0..Len(todo) /\ k > 0
  BY <1>1, UpstreamAssumption DEF Sizes
<1>3. /\ Arrives(k) \in Units /\ Len(Arrives(k)) = k /\ Drop(todo, k) \in Units
      /\ Arrives(k) \o Drop(todo, k) = todo
  BY <1>1, <1>2, Cut DEF Arrives
<1>4. Arrives(k) # <<>> /\ Len(Arrives(k)) > 0
  BY <1>2, <1>3
<1>5. a \o Arrives(k) \in Units
  BY <1>3, ConcatProperties DEF Units
<1>6. (a \o Arrives(k)) \o Drop(todo, k) = a \o (Arrives(k) \o Drop(todo, k))
  <2>1. PICK x \in Seq(Unit) : x = Arrives(k)
    BY <1>3 DEF Units
  <2>2. PICK y \in Seq(Unit) : y = Drop(todo, k)
    BY <1>3 DEF Units
  <2>3. (a \o x) \o y = a \o (x \o y)
    BY ConcatAssociative, SMTT(30) DEF Units
  <2> QED
    BY <2>1, <2>2, <2>3
<1> QED
  BY <1>3, <1>4, <1>5, <1>6

\* The beginning: nothing held, everything still to come.
LEMMA InitKeeps ==
    ASSUME Init
    PROVE  RelayInv
<1>1. PICK h \in Heads, b \in Bodies, s \in {"200", "204", "101", "bad"} :
        /\ \E n \in {-1, Len(b)} \cup (IF Misannounce THEN {Len(b) + 1} ELSE {}) :
             resp = [head |-> h, body |-> b, status |-> s, len |-> n]
        /\ todo = h \o b
  BY DEF Init, Statuses
<1>2. b \in Units /\ Len(b) \in Nat
  BY BodyType, LenProperties DEF Units
<1>3. resp \in [head : Heads, body : Bodies, status : {"200", "204", "101", "bad"}, len : Int]
      /\ resp.head = h /\ resp.body = b
  BY <1>1, <1>2
<1>4. h \in Units
  <2>1. h \in Seq({"h", "n"}) /\ {"h", "n"} \subseteq Unit
    BY UpstreamAssumption DEF Unit
  <2>2. Len(h) \in Nat /\ h \in [1..Len(h) -> {"h", "n"}]
    BY <2>1, LenProperties
  <2>3. h \in [1..Len(h) -> Unit]
    BY <2>1, <2>2
  <2> QED
    BY <2>2, <2>3, SeqDef DEF Units
<1>5. todo \in Units /\ todo = Meant /\ <<>> \o todo = todo /\ <<>> \in Units
  <2>1. todo \in Units
    BY <1>1, <1>2, <1>4, ConcatProperties DEF Units
  <2> QED
    BY <1>1, <1>3, <2>1, ConcatEmptySeq DEF Units, Meant
<1>6. RelayTypeOK
  <2>1. req \in [head_only : BOOLEAN, upgrade : BOOLEAN, unix : BOOLEAN]
    BY DEF Init
  <2>2. relay \in {"php", "proxy"}
    BY UpstreamAssumption DEF Init
  <2>3. held \in Units /\ out \in Seq(Items)
    BY <1>5 DEF Init
  <2> QED
    BY <1>3, <1>5, <2>1, <2>2, <2>3 DEF Init, RelayTypeOK
<1>7. Holding
  <2>1. BlankLines(<<>>) = {}
    BY DEF BlankLines
  <2> QED
    BY <1>5, <2>1 DEF Init, Holding
<1> QED
  BY <1>6, <1>7 DEF Init, RelayInv

\* A failed connection or request, and a read that fails: the error page.
LEMMA FailsKeep ==
    ASSUME RelayInv, ConnectFails \/ RequestFails \/ ReadFails
    PROVE  RelayInv'
<1>1. todo \in Units /\ held \in Units /\ pc # "done"
  BY DEF RelayInv, RelayTypeOK, ConnectFails, RequestFails, ReadFails
<1>2. late' = started
  <2>1. CASE ReadFails
    BY <2>1 DEF ReadFails
  <2>2. CASE ConnectFails \/ RequestFails
    <3>1. pc = "connect" /\ late' = late
      BY <2>2 DEF ConnectFails, RequestFails
    <3>2. late = FALSE /\ ~started
      BY <3>1 DEF RelayInv, RelayTypeOK, PhpBegun, ProxyBegun
    <3> QED
      BY <3>1, <3>2 DEF RelayInv, RelayTypeOK
  <2> QED
    BY <2>1, <2>2
<1>3. /\ out' = (IF client = "reads" THEN Append(out, Item("page", 0, <<>>)) ELSE out)
      /\ rc' = (IF client = "reads" THEN "0" ELSE "-1")
      /\ pc' = "done"
  BY DEF ConnectFails, RequestFails, ReadFails, ErrorPage, Return
<1>4. /\ Fixed /\ client' = client /\ started' = started /\ chunked' = chunked
      /\ todo' = todo /\ held' = held
  BY DEF ConnectFails, RequestFails, ReadFails, Fixed
<1> QED
  BY <1>1, <1>2, <1>3, <1>4, PageSent

\* Steps that leave the data alone: the request is sent, the client reads or stalls or
\* leaves, the upstream hangs.
LEMMA QuietKeeps ==
    ASSUME RelayInv, SendRequest \/ ClientChanges \/ UpstreamHangs
    PROVE  RelayInv'
<1>1. /\ Fixed /\ todo' = todo /\ held' = held /\ started' = started /\ chunked' = chunked
      /\ out' = out /\ rc' = rc /\ late' = late
  BY DEF SendRequest, ClientChanges, UpstreamHangs, Fixed
<1>2. pc # "done" /\ pc' # "done" /\ (pc' = pc \/ (pc = "connect" /\ pc' = "relay"))
  BY DEF SendRequest, ClientChanges, UpstreamHangs
<1>3. RelayTypeOK'
  <2>1. client' \in {"reads", "stalls", "gone"}
    BY DEF SendRequest, ClientChanges, UpstreamHangs, RelayInv, RelayTypeOK
  <2> QED
    BY <1>1, <1>2, <2>1 DEF RelayInv, RelayTypeOK, Fixed
<1>4. Meant' = Meant /\ Payload' = Payload
  BY <1>1, FixedMeant
<1>5. rc' = "none" /\ late' = FALSE
  BY <1>1, <1>2 DEF RelayInv
<1>6. ASSUME ~started' PROVE Holding'
  <2>1. Holding
    BY <1>1, <1>2, <1>6 DEF RelayInv
  <2> QED
    BY <1>1, <1>2, <1>4, <2>1 DEF Holding, Fixed
<1>7. ASSUME started', relay' = "php" PROVE PhpBegun'
  <2>1. PhpBegun
    BY <1>1, <1>2, <1>7 DEF RelayInv, Fixed
  <2>2. pc' = "relay"
    BY <1>2, <2>1 DEF PhpBegun
  <2> QED
    BY <1>1, <1>4, <2>1, <2>2 DEF PhpBegun, Fixed
<1>8. ASSUME started', relay' = "proxy" PROVE ProxyBegun'
  <2>1. ProxyBegun
    BY <1>1, <1>2, <1>8 DEF RelayInv, Fixed
  <2>2. pc' \in {"relay", "tunnel"}
    BY <1>2, <2>1 DEF ProxyBegun
  <2> QED
    BY <1>1, <1>4, <2>1, <2>2 DEF ProxyBegun, Fixed
<1> QED
  BY <1>2, <1>3, <1>5, <1>6, <1>7, <1>8 DEF RelayInv

\* Output that does not complete a header, and reads that do not complete a status
\* line, are held; too much of it, or a status line that is none, ends in a page.
LEMMA HoldKeeps ==
    ASSUME RelayInv, NEW k \in Sizes, PhpHold(k) \/ ProxyHold(k)
    PROVE  RelayInv'
<1>1. /\ RelayTypeOK /\ held \in Units /\ ~started /\ pc = "relay" /\ late = FALSE /\ rc = "none"
      /\ Holding
  BY DEF RelayInv, RelayTypeOK, PhpHold, ProxyHold
<1>2. /\ Drop(todo, k) \in Units /\ held \o Arrives(k) \in Units
      /\ (held \o Arrives(k)) \o Drop(todo, k) = held \o todo
  BY <1>1, ReadTaken
<1>3. /\ todo' = Drop(todo, k) /\ Fixed /\ started' = started /\ chunked' = chunked
      /\ client' = client /\ late' = late
  BY DEF PhpHold, ProxyHold, Fixed
<1>4. held' \in Units
  BY <1>1, <1>2 DEF PhpHold, ProxyHold
<1>5. CASE ErrorPage
  <2>1. late' = started
    BY <1>1, <1>3 DEF RelayTypeOK
  <2> QED
    BY <1>1, <1>2, <1>3, <1>4, <1>5, <2>1, PageSent DEF ErrorPage, Return
<1>6. CASE /\ held' = held \o Arrives(k) /\ UNCHANGED <<out, pc, rc, sock>>
           /\ relay = "php" => BlankLines(held') = {}
  <2>1. RelayTypeOK'
    BY <1>1, <1>2, <1>3, <1>4, <1>6 DEF RelayTypeOK, Fixed
  <2>2. held' \o todo' = Meant'
    BY <1>1, <1>2, <1>3, <1>6, FixedMeant DEF Holding
  <2>3. Holding'
    BY <1>1, <1>3, <1>6, <2>2 DEF Holding, Fixed
  <2> QED
    BY <1>1, <1>3, <1>6, <2>1, <2>3 DEF RelayInv
<1>7. ErrorPage \/ (/\ held' = held \o Arrives(k) /\ UNCHANGED <<out, pc, rc, sock>>
                    /\ relay = "php" => BlankLines(held') = {})
  <2>1. CASE PhpHold(k)
    <3>1. ASSUME HeaderEnd(held', k) = 0 PROVE BlankLines(held') = {}
      <4>1. SUFFICES ASSUME BlankLines(held') # {} PROVE FALSE
        OBVIOUS
      <4>2. First(held') = 0
        BY <3>1, <4>1 DEF HeaderEnd, First
      <4>3. First(held') \in 1..(Len(held') - 1)
        BY <1>4, <4>1, FirstIsFirst DEF BlankLines
      <4> QED
        BY <4>2, <4>3
    <3> QED
      BY <2>1, <3>1 DEF PhpHold
  <2>2. CASE ProxyHold(k)
    BY <2>2 DEF ProxyHold
  <2> QED
    BY <2>1, <2>2
<1> QED
  BY <1>5, <1>6, <1>7

\* A piece of the body is written as one item, or not at all to HEAD or when empty.
LEMMA FramedIs ==
    ASSUME RelayTypeOK, NEW u \in Units, NEW c \in BOOLEAN
    PROVE  \/ (req.head_only \/ u = <<>>) /\ Framed(u, c) = <<>>
           \/ /\ ~req.head_only /\ u # <<>>
              /\ \E x \in Items : /\ Framed(u, c) = <<x>> /\ x.units = u
                                  /\ x.len = Len(u) /\ x.len > 0
                                  /\ x.kind = IF c THEN "chunk" ELSE "data"
<1>1. req.head_only \in BOOLEAN
  BY DEF RelayTypeOK
<1>2. CASE u = <<>> \/ req.head_only
  BY <1>1, <1>2 DEF Framed
<1>3. CASE ~(u = <<>> \/ req.head_only)
  <2>1. PICK x : x = Item(IF c THEN "chunk" ELSE "data", Len(u), u)
    OBVIOUS
  <2>2. Len(u) \in Nat /\ Len(u) > 0
    BY <1>3, LenProperties, EmptySeq DEF Units
  <2>3. x.units = u /\ x.len = Len(u) /\ x.kind = IF c THEN "chunk" ELSE "data"
    BY <2>1 DEF Item
  <2>4. x \in Items
    BY <2>1, <2>2 DEF Item, Items, ItemKinds
  <2>5. Framed(u, c) = <<x>>
    BY <1>3, <2>1 DEF Framed
  <2> QED
    BY <1>3, <2>2, <2>3, <2>4, <2>5
<1> QED
  BY <1>2, <1>3

\* The head goes out, with the body that came behind it.
LEMMA PhpStartKeeps ==
    ASSUME RelayInv, NEW k \in Sizes, PhpStart(k)
    PROVE  RelayInv'
<1>1. /\ RelayTypeOK /\ held \in Units /\ ~started /\ pc = "relay" /\ late = FALSE /\ rc = "none"
      /\ Holding /\ relay = "php" /\ out = <<>>
  BY DEF RelayInv, RelayTypeOK, PhpStart, Holding
<1>2. /\ Drop(todo, k) \in Units /\ held \o Arrives(k) \in Units
      /\ (held \o Arrives(k)) \o Drop(todo, k) = held \o todo
  BY <1>1, ReadTaken
<1>3. /\ todo' = Drop(todo, k) /\ held' = held \o Arrives(k) /\ Fixed
      /\ client' = client /\ late' = late /\ HeaderEnd(held', k) # 0
  BY DEF PhpStart, Fixed
<1>4. PICK b \in Units : b = held'
  BY <1>2, <1>3
<1>5. PICK t \in Units : t = todo'
  BY <1>2, <1>3
<1>6. b \o t = Meant
  BY <1>1, <1>2, <1>3, <1>4, <1>5 DEF Holding
<1>7. PICK u \in Units : u = Drop(b, HeaderEnd(b, k) + 1)
  BY <1>1, <1>3, <1>4, <1>6, PayloadAt
<1>8. BlankLines(Meant) # {} /\ Payload = u \o t
  BY <1>1, <1>3, <1>4, <1>6, <1>7, PayloadAt, ZenonT(60)
<1>9. CASE ErrorPage /\ UNCHANGED <<started, chunked>>
  <2>1. late' = started
    BY <1>1, <1>3 DEF RelayTypeOK
  <2> QED
    BY <1>1, <1>2, <1>3, <1>9, <2>1, PageSent DEF ErrorPage, Return
<1>10. PICK c \in BOOLEAN : c = (resp.len < 0 /\ ~req.head_only)
  OBVIOUS
<1>11. PICK x \in Items : /\ x = Item(IF c THEN "chunkedhead" ELSE "head", resp.len, <<>>)
                          /\ x.units = <<>> /\ x.len = resp.len
                          /\ x.kind = IF c THEN "chunkedhead" ELSE "head"
  <2>1. resp.len \in Int
    BY <1>1 DEF RelayTypeOK
  <2>2. Item(IF c THEN "chunkedhead" ELSE "head", resp.len, <<>>) \in Items
    BY <2>1 DEF Item, Items, ItemKinds, Units
  <2> QED
    BY <2>2 DEF Item
<1>12. \/ ErrorPage /\ UNCHANGED <<started, chunked>>
       \/ /\ chunked' = c
          /\ \/ Written(<<x>> \o Framed(u, c)) /\ started' = TRUE /\ UNCHANGED <<pc, rc, sock>>
             \/ NotWritten(<<x>> \o Framed(u, c)) /\ UNCHANGED started
  BY <1>4, <1>7, <1>10, <1>11 DEF PhpStart
<1>13. CASE chunked' = c /\ NotWritten(<<x>> \o Framed(u, c)) /\ UNCHANGED started
  <2>1. RelayTypeOK'
    BY <1>1, <1>2, <1>3, <1>13 DEF RelayTypeOK, Fixed, NotWritten, Return
  <2> QED
    BY <1>1, <1>3, <1>13, <2>1, GivesUp DEF NotWritten, Return
<1>14. CASE /\ chunked' = c /\ Written(<<x>> \o Framed(u, c))
            /\ started' = TRUE /\ UNCHANGED <<pc, rc, sock>>
  <2>1. <<x>> \in Seq(Items) /\ <<x>> = Append(<<>>, x) /\ Got(<<x>>) = <<>>
    <3>1. <<x>> \in Seq(Items) /\ <<x>> = Append(<<>>, x) /\ <<>> \in Seq(Items)
      OBVIOUS
    <3>2. Got(Append(<<>>, x)) = <<>> \o <<>>
      BY <1>11, <3>1, GotNothing, GotAppend
    <3> QED
      BY <3>1, <3>2
  <2>2. CASE (req.head_only \/ u = <<>>) /\ Framed(u, c) = <<>>
    <3>1. out' = <<x>>
      <4>1. out' = <<>> \o (<<x>> \o <<>>)
        BY <1>1, <1>14, <2>2 DEF Written
      <4>2. <<x>> \o <<>> = <<x>> /\ <<>> \o <<x>> = <<x>>
        BY <1>11, <2>1, MoreItems
      <4> QED
        BY <4>1, <4>2
    <3>2. Got(out') = <<>>
      BY <2>1, <3>1
    <3>3. ASSUME ~req.head_only PROVE Got(out') \o t = Payload
      <4>1. u = <<>>
        BY <2>2, <3>3
      <4> QED
        BY <1>8, <3>2, <4>1
    <3>4. Len(out') = 1 /\ out'[1] = x
      BY <3>1
    <3>5. PhpBegun'
      <4>1. Payload' = Payload /\ Meant' = Meant /\ req' = req /\ resp' = resp
        BY <1>3, FixedMeant DEF Fixed
      <4>2. Got(out)' = Got(out')
        BY DEF Got
      <4> QED
        BY <1>1, <1>5, <1>8, <1>10, <1>11, <1>14, <3>2, <3>3, <3>4, <4>1, <4>2 DEF PhpBegun
    <3>6. RelayTypeOK'
      BY <1>1, <1>2, <1>3, <1>14, <2>1, <3>1 DEF RelayTypeOK, Fixed
    <3> QED
      BY <1>1, <1>3, <1>14, <3>5, <3>6 DEF RelayInv, Fixed
  <2>3. CASE ~req.head_only /\ u # <<>> /\ \E y \in Items :
                  /\ Framed(u, c) = <<y>> /\ y.units = u /\ y.len = Len(u) /\ y.len > 0
                  /\ y.kind = IF c THEN "chunk" ELSE "data"
    <3>1. PICK y \in Items : /\ Framed(u, c) = <<y>> /\ y.units = u /\ y.len > 0
                             /\ y.kind = IF c THEN "chunk" ELSE "data"
      BY <2>3
    <3>2. out' = Append(<<x>>, y)
      <4>1. out' = <<>> \o (<<x>> \o <<y>>)
        BY <1>1, <1>14, <3>1 DEF Written
      <4>2. <<x>> \o <<y>> = Append(<<x>>, y) /\ Append(<<x>>, y) \in Seq(Items)
        BY <2>1, MoreItems
      <4>3. <<>> \o Append(<<x>>, y) = Append(<<x>>, y)
        BY <4>2, ConcatEmptySeq
      <4> QED
        BY <4>1, <4>2, <4>3
    <3>3. out' \in Seq(Items) /\ Len(out') = 2 /\ out'[1] = x /\ out'[2] = y
      BY <2>1, <3>2
    <3>4. Got(out') = u
      <4>1. Got(out') = <<>> \o u
        BY <2>1, <3>1, <3>2, GotAppend
      <4> QED
        BY <4>1, ConcatEmptySeq DEF Units
    <3>5. PhpBegun'
      <4>1. Payload' = Payload /\ Meant' = Meant /\ req' = req /\ resp' = resp
        BY <1>3, FixedMeant DEF Fixed
      <4>2. Got(out)' = u
        BY <3>4 DEF Got
      <4>3. \A i \in 2..Len(out') : out'[i] = y
        BY <3>3
      <4> QED
        BY <1>1, <1>5, <1>8, <1>10, <1>11, <1>14, <2>3, <3>1, <3>3, <4>1, <4>2, <4>3 DEF PhpBegun
    <3>6. RelayTypeOK'
      BY <1>1, <1>2, <1>3, <1>14, <3>3 DEF RelayTypeOK, Fixed
    <3> QED
      BY <1>1, <1>3, <1>14, <3>5, <3>6 DEF RelayInv, Fixed
  <2> QED
    BY <1>1, <2>2, <2>3, FramedIs
<1> QED
  BY <1>9, <1>12, <1>13, <1>14

\* A head that does not fit its buffer: the function returns -1.
LEMMA PhpHeadTooBigKeeps ==
    ASSUME RelayInv, NEW k \in Sizes, PhpHeadTooBig(k)
    PROVE  RelayInv'
<1>1. RelayTypeOK /\ held \in Units /\ pc = "relay"
  BY DEF RelayInv, RelayTypeOK, PhpHeadTooBig
<1>2. Drop(todo, k) \in Units /\ held \o Arrives(k) \in Units
  BY <1>1, ReadTaken
<1>3. /\ Fixed /\ out' = out /\ late' = late /\ client' = client /\ rc' = "-1" /\ pc' = "done"
      /\ todo' \in Units /\ held' \in Units /\ started' = started /\ chunked' = chunked
  BY <1>2 DEF PhpHeadTooBig, Return, Fixed
<1>4. RelayTypeOK'
  BY <1>1, <1>3 DEF RelayTypeOK, Fixed
<1> QED
  BY <1>1, <1>3, <1>4, GivesUp

\* A record behind the header is written as it comes.
LEMMA PhpStreamKeeps ==
    ASSUME RelayInv, NEW k \in Sizes, PhpStream(k)
    PROVE  RelayInv'
<1>1. /\ RelayTypeOK /\ started /\ pc = "relay" /\ relay = "php" /\ late = FALSE /\ rc = "none"
      /\ PhpBegun /\ out \in Seq(Items) /\ Got(out) \in Units /\ chunked \in BOOLEAN
      /\ Len(out) \in Nat /\ req.head_only \in BOOLEAN
  BY GotType, LenProperties DEF RelayInv, RelayTypeOK, PhpStream
<1>2. PICK u \in Units : u = Arrives(k) /\ u # <<>>
  BY <1>1, ReadTaken
<1>3. Drop(todo, k) \in Units /\ (Got(out) \o u) \o Drop(todo, k) = Got(out) \o todo
  BY <1>1, <1>2, ReadTaken
<1>4. /\ Fixed /\ todo' = Drop(todo, k) /\ held' = held /\ started' = started
      /\ chunked' = chunked /\ client' = client /\ late' = late
  BY DEF PhpStream, Fixed
<1>5. CASE NotWritten(Framed(u, chunked))
  <2>1. RelayTypeOK'
    BY <1>1, <1>3, <1>4, <1>5 DEF RelayTypeOK, Fixed, NotWritten, Return
  <2> QED
    BY <1>1, <1>4, <1>5, <2>1, GivesUp DEF NotWritten, Return
<1>6. CASE Written(Framed(u, chunked)) /\ UNCHANGED <<pc, rc, sock>>
  <2>1. Payload' = Payload /\ Meant' = Meant
    BY <1>4, FixedMeant
  <2>2. CASE req.head_only
    <3>1. Framed(u, chunked) = <<>>
      BY <2>2 DEF Framed
    <3>2. out' = out
      BY <1>1, <1>6, <3>1, ConcatEmptySeq DEF Written
    <3>3. RelayTypeOK'
      BY <1>1, <1>3, <1>4, <1>6, <3>2 DEF RelayTypeOK, Fixed
    <3>4. PhpBegun'
      BY <1>1, <1>4, <1>6, <2>1, <2>2, <3>2 DEF PhpBegun, Fixed
    <3> QED
      BY <1>1, <1>4, <1>6, <3>3, <3>4 DEF RelayInv, Fixed
  <2>3. CASE ~req.head_only
    <3>1. PICK y \in Items : /\ Framed(u, chunked) = <<y>> /\ y.units = u /\ y.len > 0
                             /\ y.kind = IF chunked THEN "chunk" ELSE "data"
      BY <1>1, <1>2, <2>3, FramedIs
    <3>2. out' = Append(out, y) /\ out' \in Seq(Items)
      BY <1>1, <1>6, <3>1, MoreItems DEF Written
    <3>3. /\ Len(out') = Len(out) + 1 /\ out'[Len(out) + 1] = y
          /\ \A i \in 1..Len(out) : out'[i] = out[i]
      BY <1>1, <3>2, AppendProperties
    <3>4. Got(out)' = Got(out) \o u
      <4>1. Got(out') = Got(out) \o u
        BY <1>1, <3>1, <3>2, GotAppend
      <4> QED
        BY <4>1 DEF Got
    <3>5. Got(out)' \o todo' = Payload'
      BY <1>1, <1>3, <1>4, <2>1, <2>3, <3>4 DEF PhpBegun
    <3>6. \A i \in 2..Len(out') : /\ out'[i].kind = IF chunked THEN "chunk" ELSE "data"
                                  /\ out'[i].len > 0
      <4> TAKE i \in 2..Len(out')
      <4>1. CASE i = Len(out) + 1
        BY <3>1, <3>3, <4>1
      <4>2. CASE i # Len(out) + 1
        <5>1. i \in 2..Len(out) /\ i \in 1..Len(out)
          BY <1>1, <3>3, <4>2
        <5> QED
          BY <1>1, <3>3, <5>1 DEF PhpBegun
      <4> QED
        BY <4>1, <4>2
    <3>7. Len(out') >= 1 /\ out'[1] = out[1]
      BY <1>1, <3>3 DEF PhpBegun
    <3>8. PhpBegun'
      BY <1>1, <1>4, <1>6, <2>1, <2>3, <3>5, <3>6, <3>7 DEF PhpBegun, Fixed
    <3>9. RelayTypeOK'
      BY <1>1, <1>3, <1>4, <1>6, <3>2 DEF RelayTypeOK, Fixed
    <3> QED
      BY <1>1, <1>4, <1>6, <3>8, <3>9 DEF RelayInv, Fixed
  <2> QED
    BY <1>1, <2>2, <2>3
<1> QED
  BY <1>2, <1>5, <1>6 DEF PhpStream

\* The end of a response that had begun: the payload is complete, and a chunked body is
\* terminated.
LEMMA PhpEndStarted ==
    ASSUME RelayInv, PhpEnd, started, Written(FinalItems), Return("0")
    PROVE  RelayInv'
<1>1. /\ RelayTypeOK /\ pc = "relay" /\ relay = "php" /\ late = FALSE /\ todo = <<>>
      /\ PhpBegun /\ out \in Seq(Items) /\ Got(out) \in Units /\ chunked \in BOOLEAN
      /\ Len(out) \in Nat /\ req.head_only \in BOOLEAN /\ Payload \in Units /\ resp.len \in Int
      /\ DOMAIN out = 1..Len(out)
  BY GotType, MeantType, LenProperties DEF RelayInv, RelayTypeOK, PhpEnd
<1>2. /\ Fixed /\ todo' = todo /\ held' = held /\ started' = started
      /\ chunked' = chunked /\ client' = client /\ late' = late /\ pc' = "done" /\ rc' = "0"
      /\ Payload' = Payload
  BY FixedMeant DEF PhpEnd, Fixed, Return
<1>3. ~req.head_only => Got(out) = Payload /\ Len(Payload) = Len(resp.body)
  <2>1. Got(out) \o <<>> = Got(out)
    BY <1>1, ConcatEmptySeq DEF Units
  <2> QED
    BY <1>1, <2>1, PayloadLen DEF PhpBegun
<1>4. CASE chunked /\ ~req.head_only
  <2>1. PICK x \in Items : x = Item("last", 0, <<>>) /\ x.units = <<>> /\ x.kind = "last" /\ x.len = 0
    <3>1. Item("last", 0, <<>>) \in Items
      BY DEF Item, Items, ItemKinds, Units
    <3> QED
      BY <3>1 DEF Item
  <2>2. out' = Append(out, x) /\ out' \in Seq(Items)
    BY <1>1, <1>4, <2>1, MoreItems DEF Written, FinalItems
  <2>3. /\ Len(out') = Len(out) + 1 /\ out'[Len(out) + 1] = x /\ DOMAIN out' = 1..(Len(out) + 1)
        /\ \A i \in 1..Len(out) : out'[i] = out[i]
    BY <1>1, <2>2, AppendProperties
  <2>4. Delivered' = Payload'
    <3>1. Got(out') = Got(out) \o <<>>
      BY <1>1, <2>1, <2>2, GotAppend
    <3>2. Got(out) \o <<>> = Got(out)
      BY <1>1, ConcatEmptySeq DEF Units
    <3> QED
      BY <1>2, <1>3, <1>4, <3>1, <3>2 DEF Delivered, Got
  <2>5. /\ out'[1].kind = "chunkedhead"
        /\ \A i \in 2..Len(out) : out'[i].kind = "chunk" /\ out'[i].len > 0
    <3>1. 1 \in 1..Len(out) /\ \A i \in 2..Len(out) : i \in 1..Len(out)
      BY <1>1 DEF PhpBegun
    <3> QED
      BY <1>1, <1>4, <2>3, <3>1 DEF PhpBegun
  <2>6. PayloadRelayed'
    <3>1. IsPrefix(Payload, Payload)
      <4>1. Payload \o <<>> = Payload /\ <<>> \in Units
        BY <1>1, ConcatEmptySeq DEF Units
      <4> QED
        BY <1>1, <4>1, PrefixOfConcat
    <3> QED
      BY <1>2, <2>4, <3>1 DEF PayloadRelayed
  <2>7. OneResponse'
    <3>1. \A i \in DOMAIN out' : i # 1 => out'[i].kind \in {"chunk", "last"}
      BY <1>1, <2>1, <2>3, <2>5
    <3> QED
      BY <1>1, <1>2, <3>1 DEF OneResponse, Starts, Fixed
  <2>8. FramedExactly'
    <3>1. \A i \in 2..Len(out') : (out'[i].len = 0 <=> i = Len(out'))
                                  /\ out'[i].kind = IF i = Len(out') THEN "last" ELSE "chunk"
      <4> TAKE i \in 2..Len(out')
      <4>1. CASE i = Len(out')
        BY <2>1, <2>3, <4>1
      <4>2. CASE i # Len(out')
        <5>1. i \in 2..Len(out)
          BY <1>1, <2>3, <4>2
        <5>2. out'[i].kind = "chunk" /\ out'[i].len # 0
          <6>1. out'[i] \in Items
            BY <1>1, <2>2, <2>3, ElementOfSeq
          <6> QED
            BY <2>5, <5>1, <6>1 DEF Items
        <5> QED
          BY <4>2, <5>2
      <4> QED
        BY <4>1, <4>2
    <3>2. req'.head_only = FALSE
      BY <1>1, <1>2, <1>4 DEF Fixed
    <3> QED
      BY <2>5, <3>1, <3>2 DEF FramedExactly
  <2>9. RelayTypeOK'
    BY <1>1, <1>2, <2>2 DEF RelayTypeOK, Fixed
  <2> QED
    BY <1>2, <2>6, <2>7, <2>8, <2>9 DEF RelayInv
<1>5. CASE ~(chunked /\ ~req.head_only)
  <2>1. out' = out
    BY <1>1, <1>5, ConcatEmptySeq DEF Written, FinalItems
  <2>2. Delivered' = Got(out) /\ Starts' = Starts
    BY <2>1 DEF Delivered, Got, Starts
  <2>3. IsPrefix(Got(out), Payload) /\ OneResponse
    BY <1>1, Underway
  <2>4. PayloadRelayed'
    BY <1>1, <1>2, <1>3, <2>2, <2>3 DEF PayloadRelayed, Fixed
  <2>5. OneResponse'
    BY <1>1, <1>2, <2>1, <2>2, <2>3 DEF OneResponse, Fixed
  <2>6. FramedExactly'
    <3>1. out'[1].kind = "head" /\ out'[1].len = resp.len /\ (req.head_only => Len(out') = 1)
      BY <1>1, <1>5, <2>1 DEF PhpBegun
    <3>2. ASSUME ~req.head_only, resp.len \in {-1, Len(resp.body)} PROVE Len(Delivered') = resp.len
      <4>1. ~(resp.len < 0)
        BY <1>1, <1>5, <3>2 DEF PhpBegun
      <4> QED
        BY <1>1, <1>3, <2>2, <3>2, <4>1
    <3> QED
      BY <1>1, <1>2, <3>1, <3>2 DEF FramedExactly, Fixed
  <2>7. RelayTypeOK'
    BY <1>1, <1>2, <2>1 DEF RelayTypeOK, Fixed
  <2> QED
    BY <1>2, <2>4, <2>5, <2>6, <2>7 DEF RelayInv
<1> QED
  BY <1>4, <1>5

\* The end of output without a blank line: all of it is the body, with its length.
LEMMA PhpEndHeld ==
    ASSUME RelayInv, PhpEnd, ~started, Written(FinalItems), Return("0")
    PROVE  RelayInv'
<1>1. /\ RelayTypeOK /\ pc = "relay" /\ relay = "php" /\ late = FALSE /\ todo = <<>>
      /\ Holding /\ out = <<>> /\ held \in Units /\ req.head_only \in BOOLEAN /\ Payload \in Units
      /\ Len(held) \in Nat
  BY MeantType, LenProperties DEF RelayInv, RelayTypeOK, PhpEnd, Holding, Units
<1>2. /\ Fixed /\ todo' = todo /\ held' = held /\ started' = started
      /\ chunked' = chunked /\ client' = client /\ late' = late /\ pc' = "done" /\ rc' = "0"
      /\ Payload' = Payload
  BY FixedMeant DEF PhpEnd, Fixed, Return
<1>3. Payload = held
  <2>1. held = Meant
    BY <1>1, ConcatEmptySeq DEF Holding, Units
  <2> QED
    BY <1>1, <2>1, MeantType DEF Holding
<1>4. PICK x \in Items : x = Item("head", Len(held), <<>>) /\ x.units = <<>> /\ x.kind = "head"
                         /\ x.len = Len(held)
  <2>1. Item("head", Len(held), <<>>) \in Items
    BY <1>1 DEF Item, Items, ItemKinds, Units
  <2> QED
    BY <2>1 DEF Item
<1>5. out' = <<>> \o (<<x>> \o Framed(held, FALSE))
  BY <1>1, <1>4 DEF Written, FinalItems
<1>6. <<x>> \in Seq(Items) /\ Got(<<x>>) = <<>>
  <2>1. <<x>> \in Seq(Items) /\ <<x>> = Append(<<>>, x) /\ <<>> \in Seq(Items)
    OBVIOUS
  <2>2. Got(Append(<<>>, x)) = <<>> \o <<>>
    BY <1>4, <2>1, GotNothing, GotAppend
  <2> QED
    BY <2>1, <2>2
<1>7. /\ out' \in Seq(Items) /\ DOMAIN out' = 1..Len(out') /\ out'[1] = x
      /\ \A i \in DOMAIN out' : i # 1 => out'[i].kind = "data"
      /\ req.head_only => Len(out') = 1 /\ Got(out') = <<>>
      /\ ~req.head_only => Got(out') = held
  <2>1. CASE (req.head_only \/ held = <<>>) /\ Framed(held, FALSE) = <<>>
    <3>1. out' = <<x>>
      <4>1. <<x>> \o <<>> = <<x>> /\ <<>> \o <<x>> = <<x>>
        BY <1>4, <1>6, MoreItems
      <4> QED
        BY <1>5, <2>1, <4>1
    <3> QED
      BY <1>4, <1>6, <2>1, <3>1
  <2>2. CASE ~req.head_only /\ held # <<>> /\ \E y \in Items :
                  /\ Framed(held, FALSE) = <<y>> /\ y.units = held /\ y.len = Len(held)
                  /\ y.len > 0 /\ y.kind = IF FALSE THEN "chunk" ELSE "data"
    <3>1. PICK y \in Items : Framed(held, FALSE) = <<y>> /\ y.units = held /\ y.kind = "data"
      BY <2>2
    <3>2. out' = Append(<<x>>, y)
      <4>1. <<x>> \o <<y>> = Append(<<x>>, y) /\ Append(<<x>>, y) \in Seq(Items)
        BY <1>6, MoreItems
      <4>2. <<>> \o Append(<<x>>, y) = Append(<<x>>, y)
        BY <4>1, ConcatEmptySeq
      <4> QED
        BY <1>5, <3>1, <4>1, <4>2
    <3>3. out' \in Seq(Items) /\ Len(out') = 2 /\ DOMAIN out' = 1..2 /\ out'[1] = x /\ out'[2] = y
      BY <1>6, <3>2
    <3>4. Got(out') = <<>> \o held
      BY <1>6, <3>1, <3>2, GotAppend
    <3>5. Got(out') = held
      BY <1>1, <3>4, ConcatEmptySeq DEF Units
    <3> QED
      BY <2>2, <3>1, <3>3, <3>5
  <2>3. PICK c \in BOOLEAN : c = FALSE
    OBVIOUS
  <2>4. \/ (req.head_only \/ held = <<>>) /\ Framed(held, c) = <<>>
        \/ /\ ~req.head_only /\ held # <<>>
           /\ \E y \in Items : /\ Framed(held, c) = <<y>> /\ y.units = held
                               /\ y.len = Len(held) /\ y.len > 0
                               /\ y.kind = IF c THEN "chunk" ELSE "data"
    BY <1>1, FramedIs
  <2>5. Framed(held, c) = Framed(held, FALSE)
    BY <2>3
  <2> QED
    BY <2>1, <2>2, <2>3, <2>4, <2>5
<1>8. Delivered' = Got(out')
  BY DEF Delivered, Got
<1>9. PayloadRelayed'
  <2>1. IsPrefix(<<>>, Payload) /\ IsPrefix(Payload, Payload)
    <3>1. Payload \o <<>> = Payload /\ <<>> \o Payload = Payload /\ <<>> \in Units
      BY <1>1, ConcatEmptySeq DEF Units
    <3> QED
      BY <1>1, <3>1, PrefixOfConcat
  <2> QED
    BY <1>1, <1>2, <1>3, <1>7, <1>8, <2>1 DEF PayloadRelayed, Fixed
<1>10. OneResponse'
  BY <1>1, <1>2, <1>7 DEF OneResponse, Starts, Fixed
<1>11. FramedExactly'
  BY <1>1, <1>2, <1>4, <1>7, <1>8 DEF FramedExactly, Fixed
<1>12. RelayTypeOK'
  BY <1>1, <1>2, <1>7 DEF RelayTypeOK, Fixed
<1> QED
  BY <1>2, <1>9, <1>10, <1>11, <1>12 DEF RelayInv

\* FCGI_END_REQUEST.
LEMMA PhpEndKeeps ==
    ASSUME RelayInv, PhpEnd
    PROVE  RelayInv'
<1>1. CASE Written(FinalItems) /\ Return("0")
  BY <1>1, PhpEndStarted, PhpEndHeld
<1>2. CASE NotWritten(FinalItems)
  <2>1. /\ Fixed /\ pc # "done" /\ todo' = todo /\ held' = held /\ started' = started
        /\ chunked' = chunked /\ client' = client /\ late' = late
    BY DEF PhpEnd, Fixed
  <2>2. RelayTypeOK'
    BY <1>2, <2>1 DEF RelayInv, RelayTypeOK, Fixed, NotWritten, Return
  <2> QED
    BY <1>2, <2>1, <2>2, GivesUp DEF NotWritten, Return
<1> QED
  BY <1>1, <1>2 DEF PhpEnd

\* A piece passed through is one item of the kind "raw".
LEMMA RawItem ==
    ASSUME NEW u \in Units
    PROVE  /\ Item("raw", 0, u) \in Items
           /\ Item("raw", 0, u).units = u /\ Item("raw", 0, u).kind = "raw"
BY DEF Item, Items, ItemKinds

\* What a write through the proxy leaves: everything meant is written or to come.
LEMMA RawWritten ==
    ASSUME RelayInv, relay = "proxy", pc # "done", NEW u \in Units, Fixed,
           out' = Append(out, Item("raw", 0, u)),
           \A i \in DOMAIN out : out[i].kind = "raw",
           todo' \in Units, (Got(out) \o u) \o todo' = Meant,
           pc' \in {"relay", "tunnel"}, started', started' \in BOOLEAN, held' \in Units,
           chunked' = chunked, rc' = rc, late' = late, client' = client
    PROVE  RelayInv'
<1>1. /\ RelayTypeOK /\ out \in Seq(Items) /\ Len(out) \in Nat /\ DOMAIN out = 1..Len(out)
      /\ rc = "none" /\ late = FALSE
  BY LenProperties DEF RelayInv, RelayTypeOK
<1>2. PICK x \in Items : x = Item("raw", 0, u) /\ x.units = u /\ x.kind = "raw"
  BY RawItem
<1>3. /\ out' \in Seq(Items) /\ DOMAIN out' = 1..(Len(out) + 1) /\ out'[Len(out) + 1] = x
      /\ \A i \in 1..Len(out) : out'[i] = out[i]
  BY <1>1, <1>2, AppendProperties
<1>4. Got(out)' = Got(out) \o u
  <2>1. Got(out') = Got(out) \o u
    BY <1>1, <1>2, GotAppend
  <2> QED
    BY <2>1 DEF Got
<1>5. \A i \in DOMAIN out' : out'[i].kind = "raw"
  BY <1>1, <1>2, <1>3
<1>6. ProxyBegun'
  BY <1>4, <1>5, FixedMeant DEF ProxyBegun
<1>7. RelayTypeOK'
  BY <1>1, <1>3 DEF RelayTypeOK, Fixed
<1> QED
  BY <1>1, <1>6, <1>7 DEF RelayInv, Fixed

\* The first write of the proxy, and each read behind it.
LEMMA ProxyWritesKeep ==
    ASSUME RelayInv, NEW k \in Sizes, ProxyStart(k) \/ ProxyStream(k) \/ TunnelCopies(k)
    PROVE  RelayInv'
<1>1. /\ RelayTypeOK /\ held \in Units /\ todo \in Units /\ out \in Seq(Items)
      /\ Got(out) \in Units /\ pc # "done" /\ chunked \in BOOLEAN
  BY GotType DEF RelayInv, RelayTypeOK, ProxyStart, ProxyStream, TunnelCopies
<1>2. PICK u \in Units : u = Arrives(k)
  BY <1>1, ReadTaken
<1>3. /\ Drop(todo, k) \in Units /\ held \o u \in Units
      /\ (held \o u) \o Drop(todo, k) = held \o todo
      /\ (Got(out) \o u) \o Drop(todo, k) = Got(out) \o todo
  BY <1>1, <1>2, ReadTaken
<1>4. /\ Fixed /\ todo' = Drop(todo, k) /\ chunked' = chunked /\ client' = client /\ late' = late
  BY DEF ProxyStart, ProxyStream, TunnelCopies, Fixed
<1>5. CASE ProxyStart(k)
  <2>1. relay = "proxy" /\ pc = "relay" /\ ~started /\ Holding /\ out = <<>>
    BY <1>5 DEF ProxyStart, RelayInv, Holding
  <2>2. PICK w \in Units : w = held \o u
    BY <1>3
  <2>3. held' = w /\ FirstWrite(k) = w
    BY <1>2, <1>5, <2>2 DEF ProxyStart, FirstWrite
  <2>4. CASE NotWritten(<<Item("raw", 0, w)>>) /\ UNCHANGED started
    <3>1. RelayTypeOK'
      BY <1>1, <1>3, <1>4, <2>3, <2>4 DEF RelayTypeOK, Fixed, NotWritten, Return
    <3> QED
      BY <1>1, <1>4, <2>4, <3>1, GivesUp DEF NotWritten, Return
  <2>5. CASE /\ Written(<<Item("raw", 0, w)>>) /\ started' = TRUE
             /\ pc' \in {"relay", "tunnel"} /\ UNCHANGED <<rc, sock>>
    <3>1. out' = Append(out, Item("raw", 0, w))
      BY <1>1, <2>5, RawItem, MoreItems DEF Written
    <3>2. (Got(out) \o w) \o todo' = Meant
      <4>1. Got(out) \o w = w
        BY <2>1, GotNothing, ConcatEmptySeq DEF Units
      <4> QED
        BY <1>3, <1>4, <2>1, <2>2, <4>1 DEF Holding
    <3>3. \A i \in DOMAIN out : out[i].kind = "raw"
      BY <2>1
    <3> QED
      BY <1>1, <1>3, <1>4, <2>1, <2>3, <2>5, <3>1, <3>2, <3>3, RawWritten
  <2> QED
    BY <1>5, <2>3, <2>4, <2>5 DEF ProxyStart
<1>6. CASE ProxyStream(k) \/ TunnelCopies(k)
  <2>1. relay = "proxy" /\ started /\ ProxyBegun /\ pc \in {"relay", "tunnel"} /\ started \in BOOLEAN
    <3>1. CASE ProxyStream(k)
      BY <3>1 DEF ProxyStream, RelayInv, RelayTypeOK
    <3>2. CASE TunnelCopies(k)
      <4>1. pc = "tunnel"
        BY <3>2 DEF TunnelCopies
      <4> QED
        BY <1>1, <4>1 DEF RelayInv, Holding, PhpBegun, RelayTypeOK
    <3> QED
      BY <1>6, <3>1, <3>2
  <2>2. held' = held /\ started' = started
    BY <1>6 DEF ProxyStream, TunnelCopies
  <2>3. CASE NotWritten(<<Item("raw", 0, u)>>)
    <3>1. RelayTypeOK'
      BY <1>1, <1>3, <1>4, <2>2, <2>3 DEF RelayTypeOK, Fixed, NotWritten, Return
    <3> QED
      BY <1>1, <1>4, <2>3, <3>1, GivesUp DEF NotWritten, Return
  <2>4. CASE out' = Append(out, Item("raw", 0, u)) /\ UNCHANGED <<pc, rc, sock>>
    BY <1>1, <1>3, <1>4, <2>1, <2>2, <2>4, RawWritten DEF ProxyBegun
  <2>5. CASE Written(<<Item("raw", 0, u)>>) /\ UNCHANGED <<pc, rc, sock>>
    <3>1. out' = Append(out, Item("raw", 0, u))
      BY <1>1, <2>5, RawItem, MoreItems DEF Written
    <3> QED
      BY <2>4, <2>5, <3>1
  <2> QED
    BY <1>2, <1>6, <2>3, <2>4, <2>5 DEF ProxyStream, TunnelCopies
<1> QED
  BY <1>5, <1>6

\* The upstream closes, or a side of the tunnel does.
LEMMA ProxyEndsKeep ==
    ASSUME RelayInv, ProxyEof \/ TunnelCloses
    PROVE  RelayInv'
<1>1. /\ RelayTypeOK /\ held \in Units /\ todo \in Units /\ out \in Seq(Items)
      /\ Got(out) \in Units /\ pc # "done" /\ late = FALSE /\ relay = "proxy"
  <2>1. CASE ProxyEof
    BY <2>1, GotType DEF RelayInv, RelayTypeOK, ProxyEof
  <2>2. CASE TunnelCloses
    BY <2>2, GotType DEF RelayInv, RelayTypeOK, TunnelCloses, Holding, PhpBegun
  <2> QED
    BY <2>1, <2>2
<1>2. /\ Fixed /\ todo' = todo /\ held' = held /\ started' = started /\ chunked' = chunked
      /\ client' = client /\ late' = late /\ pc' = "done"
  BY DEF ProxyEof, TunnelCloses, Fixed, ErrorPage, Return
<1>3. CASE ErrorPage /\ ~started
  <2>1. late' = started
    BY <1>1, <1>2, <1>3 DEF RelayTypeOK
  <2> QED
    BY <1>1, <1>2, <1>3, <2>1, PageSent DEF ErrorPage, Return
<1>4. CASE client = "gone" /\ out' = out /\ rc' = "0"
  <2>1. RelayTypeOK'
    BY <1>1, <1>2, <1>4 DEF RelayTypeOK, Fixed
  <2> QED
    BY <1>1, <1>2, <1>4, <2>1, GivesUp
<1>5. CASE todo = <<>> /\ started /\ out' = out /\ rc' = "0"
  <2>1. ProxyBegun
    BY <1>1, <1>5 DEF RelayInv
  <2>2. Got(out) = Payload
    <3>1. Got(out) \o <<>> = Got(out)
      BY <1>1, ConcatEmptySeq DEF Units
    <3> QED
      BY <1>1, <1>5, <2>1, <3>1, MeantType DEF ProxyBegun
  <2>3. Delivered' = Got(out) /\ Payload' = Payload /\ Starts' = Starts
    BY <1>2, <1>5, FixedMeant DEF Delivered, Got, Starts
  <2>4. IsPrefix(Got(out), Payload) /\ OneResponse
    BY <1>1, Underway
  <2>5. PayloadRelayed'
    BY <2>2, <2>3, <2>4 DEF PayloadRelayed
  <2>6. OneResponse'
    BY <1>1, <1>2, <1>5, <2>3, <2>4 DEF OneResponse, Fixed
  <2>7. FramedExactly'
    BY <1>1, <1>2 DEF FramedExactly, Fixed
  <2>8. RelayTypeOK'
    BY <1>1, <1>2, <1>5 DEF RelayTypeOK, Fixed
  <2> QED
    BY <1>2, <2>5, <2>6, <2>7, <2>8 DEF RelayInv
<1>6. CASE ProxyEof
  BY <1>3, <1>5, <1>6 DEF ProxyEof, Return
<1>7. CASE TunnelCloses
  <2>1. started
    BY <1>1, <1>7 DEF TunnelCloses, RelayInv, Holding
  <2> QED
    BY <1>4, <1>5, <1>7, <2>1 DEF TunnelCloses, Return
<1> QED
  BY <1>6, <1>7

\* Every step keeps the invariant, and none follows the return.
LEMMA NextKeeps ==
    ASSUME RelayInv, [Next]_vars
    PROVE  RelayInv'
<1>1. CASE UNCHANGED vars
  <2>1. RelayTypeOK' = RelayTypeOK /\ Holding' = Holding /\ PhpBegun' = PhpBegun
        /\ ProxyBegun' = ProxyBegun
    BY <1>1 DEF vars, RelayTypeOK, Holding, PhpBegun, ProxyBegun, Payload, Meant, Got
  <2>2. PayloadRelayed' = PayloadRelayed /\ OneResponse' = OneResponse
        /\ FramedExactly' = FramedExactly
    BY <1>1 DEF vars, PayloadRelayed, OneResponse, FramedExactly, Bodyless, Delivered, Payload, Starts
  <2> QED
    BY <1>1, <2>1, <2>2 DEF vars, RelayInv
<1>2. CASE RelayStep
  BY <1>2, FailsKeep, QuietKeeps, HoldKeeps, PhpStartKeeps, PhpHeadTooBigKeeps, PhpStreamKeeps,
     ProxyWritesKeep, PhpEndKeeps, ProxyEndsKeep DEF RelayStep
<1>3. CASE \E k \in Sizes : TunnelCopies(k)
  BY <1>3, ProxyWritesKeep
<1>4. CASE TunnelCloses
  BY <1>4, ProxyEndsKeep
<1>5. CASE ClientChanges \/ UpstreamHangs
  BY <1>5, QuietKeeps
<1> QED
  BY <1>1, <1>2, <1>3, <1>4, <1>5 DEF Next

\* The invariant implies the three properties in every state.
LEMMA InvImplies ==
    ASSUME RelayInv
    PROVE  PayloadRelayed /\ OneResponse /\ FramedExactly
<1>1. CASE pc = "done"
  BY <1>1 DEF RelayInv
<1>2. CASE pc # "done"
  <2>1. rc = "none" /\ IsPrefix(Got(out), Payload) /\ OneResponse
    BY <1>2, Underway DEF RelayInv
  <2> QED
    BY <2>1 DEF PayloadRelayed, FramedExactly, Delivered, Got
<1> QED
  BY <1>1, <1>2

\* Every reachable state of a relay satisfies the invariant.
LEMMA RelayInvariant == Spec => []RelayInv
<1>1. Init => RelayInv
  BY InitKeeps
<1>2. RelayInv /\ [Next]_vars => RelayInv'
  BY NextKeeps
<1> QED
  BY <1>1, <1>2, PTL DEF Spec

\* For every head, body, buffer size and cutting of the upstream's output into records
\* or reads, send_php_fpm and serve_proxy pass the payload on in order, without header
\* bytes, without repeating and without losing any; all of it when they return 0
\* without an error page.
THEOREM PayloadArrives == Spec => []PayloadRelayed
<1>1. RelayInv => PayloadRelayed
  BY InvImplies
<1> QED
  BY <1>1, RelayInvariant, PTL

\* Unless the upstream fails after the response has begun, the client is sent one
\* response: no second head, and no error page behind a head (src/src/server.c,
\* send_php_fpm and serve_proxy).
THEOREM OneResponseSent == Spec => []OneResponse
<1>1. RelayInv => OneResponse
  BY InvImplies
<1> QED
  BY <1>1, RelayInvariant, PTL

\* The client finds the end of every PHP response after which send_php_fpm returns 0:
\* the announced number of bytes is sent, or chunks of which only the last is empty.
THEOREM ResponsesFramed == Spec => []FramedExactly
<1>1. RelayInv => FramedExactly
  BY InvImplies
<1> QED
  BY <1>1, RelayInvariant, PTL
=============================================================================
