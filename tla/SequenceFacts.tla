---------------------------- MODULE SequenceFacts ----------------------------
(***************************************************************************)
(* Facts about numbers and sequences that the proofs of several modules    *)
(* need.  Induction is by least counterexample: a set of naturals that is  *)
(* not empty has a least element.                                          *)
(***************************************************************************)
EXTENDS Integers, SequencesExt, SequenceTheorems, WellFoundedInduction, TLAPS

\* A non-empty set of naturals has a least element.
LEMMA LeastNat ==
    ASSUME NEW S \in SUBSET Nat, S # {}
    PROVE  \E x \in S : \A y \in S : x <= y
<1>1. PICK x \in S : \A y \in S : <<y, x>> \notin OpToRel(<, Nat)
  BY NatLessThanWellFounded, WFMin, Zenon
<1>2. \A y \in S : ~(y < x)
  BY <1>1, Zenon DEF OpToRel
<1> QED
  BY <1>2

\* Min returns it: what every search for a first slot or a first blank line relies on.
LEMMA MinOfNat ==
    ASSUME NEW S \in SUBSET Nat, S # {}
    PROVE  Min(S) \in S /\ \A y \in S : Min(S) <= y
BY LeastNat DEF Min

\* What holds of 0, and of n + 1 if it holds of n, holds of every natural: the set of
\* those it holds of is all of Nat.
LEMMA Induction ==
    ASSUME NEW S, 0 \in S, \A n \in Nat : n \in S => n + 1 \in S
    PROVE  Nat \subseteq S
<1> DEFINE T == Nat \ S
<1> SUFFICES ASSUME T # {} PROVE FALSE
  OBVIOUS
<1>1. PICK x \in T : \A y \in T : x <= y
  BY LeastNat
<1>2. x \in Nat /\ x # 0
  BY <1>1
<1>3. x - 1 \in Nat /\ x - 1 \in S
  BY <1>1, <1>2
<1> QED
  BY <1>1, <1>2, <1>3

(***************************************************************************)
(* FlattenSeq.                                                             *)
(***************************************************************************)

\* g holds what FlattenSeq makes of the first i sequences, for i up to n.
Flattens(g, ss, n) == g = [i \in 1..n |-> IF i = 1 THEN ss[i] ELSE g[i - 1] \o ss[i]]

\* Its values one by one.
LEMMA FlattensAt ==
    ASSUME NEW g, NEW ss, NEW n, Flattens(g, ss, n), NEW i \in 1..n
    PROVE  g[i] = IF i = 1 THEN ss[i] ELSE g[i - 1] \o ss[i]
<1> DEFINE f == [j \in 1..n |-> IF j = 1 THEN ss[j] ELSE g[j - 1] \o ss[j]]
<1>1. g = f
  BY Zenon DEF Flattens
<1>2. f[i] = IF i = 1 THEN ss[i] ELSE g[i - 1] \o ss[i]
  BY Zenon
<1> HIDE DEF f
<1> QED
  BY <1>1, <1>2, Zenon

\* There is such a function for every n.
LEMMA FlattensExists ==
    ASSUME NEW ss, NEW n \in Nat
    PROVE  \E g : Flattens(g, ss, n)
<1> DEFINE S == {k \in Nat : \E g : Flattens(g, ss, k)}
<1>1. 0 \in S
  <2>1. Flattens([i \in 1..0 |-> 0], ss, 0)
    BY DEF Flattens
  <2> QED
    BY <2>1
<1>2. ASSUME NEW k \in Nat, k \in S PROVE k + 1 \in S
  <2>1. PICK g : Flattens(g, ss, k)
    BY <1>2
  <2> DEFINE h == [i \in 1..(k + 1) |-> IF i = 1 THEN ss[i] ELSE g[i - 1] \o ss[i]]
  <2>2. ASSUME NEW i \in 1..k PROVE h[i] = g[i]
    <3>1. g[i] = IF i = 1 THEN ss[i] ELSE g[i - 1] \o ss[i]
      BY <2>1, FlattensAt
    <3>2. i \in 1..(k + 1)
      OBVIOUS
    <3>3. h[i] = IF i = 1 THEN ss[i] ELSE g[i - 1] \o ss[i]
      BY <3>2, Zenon
    <3> QED
      BY <3>1, <3>3, Zenon
  <2> DEFINE hh == [i \in 1..(k + 1) |-> IF i = 1 THEN ss[i] ELSE h[i - 1] \o ss[i]]
  <2>3. ASSUME NEW i \in 1..(k + 1) PROVE h[i] = hh[i]
    <3>1. /\ h[i] = IF i = 1 THEN ss[i] ELSE g[i - 1] \o ss[i]
          /\ hh[i] = IF i = 1 THEN ss[i] ELSE h[i - 1] \o ss[i]
      BY Zenon
    <3>2. i # 1 => i - 1 \in 1..k
      OBVIOUS
    <3>3. i # 1 => h[i - 1] = g[i - 1]
      BY <2>2, <3>2, Zenon
    <3> HIDE DEF h, hh
    <3> QED
      BY <3>1, <3>3, Zenon
  <2>4. h = hh
    <3>1. DOMAIN h = 1..(k + 1) /\ DOMAIN hh = 1..(k + 1)
      BY Zenon
    <3>2. h = [i \in DOMAIN h |-> h[i]] /\ hh = [i \in DOMAIN hh |-> hh[i]]
      OBVIOUS
    <3> HIDE DEF h, hh
    <3> QED
      BY <2>3, <3>1, <3>2
  <2>5. Flattens(h, ss, k + 1)
    BY <2>4, Zenon DEF Flattens
  <2> QED
    BY <2>5
<1> HIDE DEF S
<1>3. n \in S
  BY <1>1, <1>2, Induction
<1> QED
  BY <1>3 DEF S

\* Two of them agree on the sequences they have in common.
LEMMA FlattensAgree ==
    ASSUME NEW ss, NEW tt, NEW n \in Nat, NEW m \in Nat, n <= m,
           \A i \in 1..n : ss[i] = tt[i],
           NEW g, Flattens(g, ss, n), NEW h, Flattens(h, tt, m)
    PROVE  \A i \in 1..n : g[i] = h[i]
<1> DEFINE A == {k \in Nat : k \in 1..n => g[k] = h[k]}
<1>1. 0 \in A
  OBVIOUS
<1>2. ASSUME NEW k \in Nat, k \in A PROVE k + 1 \in A
  <2> SUFFICES ASSUME k + 1 \in 1..n PROVE g[k + 1] = h[k + 1]
    OBVIOUS
  <2>1. /\ g[k + 1] = IF k + 1 = 1 THEN ss[k + 1] ELSE g[(k + 1) - 1] \o ss[k + 1]
        /\ h[k + 1] = IF k + 1 = 1 THEN tt[k + 1] ELSE h[(k + 1) - 1] \o tt[k + 1]
    <3>1. k + 1 \in 1..m
      OBVIOUS
    <3> QED
      BY <3>1, FlattensAt
  <2>2. (k + 1) - 1 = k /\ ss[k + 1] = tt[k + 1]
    OBVIOUS
  <2>3. k + 1 # 1 => g[k] = h[k]
    BY <1>2
  <2> QED
    BY <2>1, <2>2, <2>3
<1> HIDE DEF A
<1>3. Nat \subseteq A
  BY <1>1, <1>2, Induction
<1> QED
  BY <1>3 DEF A

\* FlattenSeq is the last value of such a function.
LEMMA FlattenIs ==
    ASSUME NEW S, NEW ss \in Seq(S), ss # <<>>
    PROVE  \E g : Flattens(g, ss, Len(ss)) /\ FlattenSeq(ss) = g[Len(ss)]
<1>1. Len(ss) \in Nat /\ Len(ss) # 0
  BY LenProperties, EmptySeq
<1> DEFINE f == CHOOSE g : Flattens(g, ss, Len(ss))
<1>2. Flattens(f, ss, Len(ss))
  BY <1>1, FlattensExists
<1>3. FlattenSeq(ss) = f[Len(ss)]
  BY <1>1 DEF FlattenSeq, Flattens
<1> QED
  BY <1>2, <1>3

\* Nothing flattened is nothing.
LEMMA FlattenEmpty == FlattenSeq(<<>>) = <<>>
BY DEF FlattenSeq

\* One more sequence adds one concatenation.
LEMMA FlattensOneMore ==
    ASSUME NEW ss, NEW tt, NEW n \in Nat \ {0}, \A i \in 1..n : ss[i] = tt[i],
           NEW g, Flattens(g, ss, n), NEW h, Flattens(h, tt, n + 1)
    PROVE  h[n + 1] = g[n] \o tt[n + 1]
<1>1. n <= n + 1 /\ n + 1 \in Nat /\ n \in 1..n /\ n + 1 \in 1..(n + 1)
      /\ n + 1 # 1 /\ (n + 1) - 1 = n
  OBVIOUS
<1>2. g[n] = h[n]
  BY <1>1, FlattensAgree
<1>3. PICK m \in Nat : m = n + 1
  BY <1>1
<1>4. Flattens(h, tt, m) /\ m \in 1..m /\ m # 1 /\ m - 1 = n
  BY <1>1, <1>3
<1>5. h[m] = h[m - 1] \o tt[m]
  <2>1. h[m] = IF m = 1 THEN tt[m] ELSE h[m - 1] \o tt[m]
    <3> DEFINE f == [j \in 1..m |-> IF j = 1 THEN tt[j] ELSE h[j - 1] \o tt[j]]
    <3>1. h = f
      BY <1>4, Zenon DEF Flattens
    <3>2. f[m] = IF m = 1 THEN tt[m] ELSE h[m - 1] \o tt[m]
      BY <1>4, Zenon
    <3> HIDE DEF f
    <3> QED
      BY <3>1, <3>2, Zenon
  <2> QED
    BY <1>4, <2>1
<1> QED
  BY <1>2, <1>3, <1>4, <1>5

\* One more sequence at the end goes to the end.
LEMMA FlattenAppend ==
    ASSUME NEW S, NEW ss \in Seq(Seq(S)), NEW s \in Seq(S)
    PROVE  FlattenSeq(Append(ss, s)) = FlattenSeq(ss) \o s
<1>0. PICK tt : tt = Append(ss, s)
  OBVIOUS
<1>1. /\ tt \in Seq(Seq(S)) /\ tt # <<>> /\ Len(ss) \in Nat /\ Len(tt) = Len(ss) + 1
      /\ \A i \in 1..Len(ss) : tt[i] = ss[i]
      /\ tt[Len(ss) + 1] = s
  BY <1>0, AppendProperties, LenProperties
<1>2. PICK n \in Nat : n = Len(ss)
  BY <1>1
<1>3. PICK h : Flattens(h, tt, n + 1) /\ FlattenSeq(tt) = h[n + 1]
  BY <1>1, <1>2, FlattenIs
<1>4. CASE ss = <<>>
  <2>1. n = 0 /\ FlattenSeq(ss) = <<>>
    BY <1>2, <1>4, FlattenEmpty
  <2>2. h[1] = tt[1]
    <3>1. h[1] = IF 1 = 1 THEN tt[1] ELSE h[1 - 1] \o tt[1]
      BY <1>3, <2>1, FlattensAt
    <3> QED
      BY <3>1
  <2>3. <<>> \o s = s
    BY ConcatEmptySeq
  <2> QED
    BY <1>0, <1>1, <1>2, <1>3, <2>1, <2>2, <2>3
<1>5. CASE ss # <<>>
  <2>1. n \in Nat \ {0}
    BY <1>2, <1>5, EmptySeq
  <2>2. PICK g : Flattens(g, ss, n) /\ FlattenSeq(ss) = g[n]
    BY <1>2, <1>5, FlattenIs
  <2>3. \A i \in 1..n : ss[i] = tt[i]
    BY <1>1, <1>2
  <2>4. h[n + 1] = g[n] \o tt[n + 1]
    BY <1>3, <2>1, <2>2, <2>3, FlattensOneMore, ZenonT(60)
  <2> QED
    BY <1>0, <1>1, <1>2, <1>3, <2>2, <2>4
<1> QED
  BY <1>4, <1>5

\* What is flattened is a sequence of the elements.
LEMMA FlattenType ==
    ASSUME NEW S, NEW ss \in Seq(Seq(S))
    PROVE  FlattenSeq(ss) \in Seq(S)
<1>1. CASE ss = <<>>
  BY <1>1, FlattenEmpty, EmptySeq
<1>2. CASE ss # <<>>
  <2>1. Len(ss) \in Nat /\ Len(ss) # 0 /\ \A i \in 1..Len(ss) : ss[i] \in Seq(S)
    BY <1>2, LenProperties, EmptySeq, ElementOfSeq
  <2>2. PICK g : Flattens(g, ss, Len(ss)) /\ FlattenSeq(ss) = g[Len(ss)]
    BY <1>2, FlattenIs
  <2> DEFINE A == {k \in Nat : k \in 1..Len(ss) => g[k] \in Seq(S)}
  <2>3. 0 \in A
    OBVIOUS
  <2>4. ASSUME NEW k \in Nat, k \in A PROVE k + 1 \in A
    <3> SUFFICES ASSUME k + 1 \in 1..Len(ss) PROVE g[k + 1] \in Seq(S)
      OBVIOUS
    <3>1. g[k + 1] = IF k + 1 = 1 THEN ss[k + 1] ELSE g[(k + 1) - 1] \o ss[k + 1]
      BY <2>2, FlattensAt
    <3>2. k + 1 # 1 => g[k] \in Seq(S)
      BY <2>1, <2>4
    <3>3. (k + 1) - 1 = k /\ ss[k + 1] \in Seq(S)
      BY <2>1
    <3> QED
      BY <3>1, <3>2, <3>3, ConcatProperties
  <2> HIDE DEF A
  <2>5. Nat \subseteq A
    BY <2>3, <2>4, Induction
  <2> QED
    BY <2>1, <2>2, <2>5 DEF A
<1> QED
  BY <1>1, <1>2

\* The members of a concatenation are those of both sequences.
LEMMA ConcatHas ==
    ASSUME NEW S, NEW s \in Seq(S), NEW t \in Seq(S)
    PROVE  ToSet(s \o t) = ToSet(s) \cup ToSet(t)
<1>1. PICK u \in Seq(S) : u = s \o t
  BY ConcatProperties
<1>2. PICK n \in Nat, m \in Nat : n = Len(s) /\ m = Len(t)
  BY LenProperties
<1>3. /\ DOMAIN s = 1..n /\ DOMAIN t = 1..m /\ DOMAIN u = 1..(n + m)
      /\ \A i \in 1..(n + m) : u[i] = IF i <= n THEN s[i] ELSE t[i - n]
  BY <1>1, <1>2, ConcatProperties, LenProperties
<1>4. ASSUME NEW i \in 1..n PROVE i \in 1..(n + m) /\ u[i] = s[i]
  BY <1>3
<1>5. ASSUME NEW i \in 1..m PROVE \E j \in 1..(n + m) : u[j] = t[i]
  <2>1. PICK j \in 1..(n + m) : j = n + i /\ ~(j <= n) /\ j - n = i
    OBVIOUS
  <2> QED
    BY <1>3, <2>1
<1>6. ASSUME NEW i \in 1..(n + m)
      PROVE  (\E j \in 1..n : u[i] = s[j]) \/ (\E j \in 1..m : u[i] = t[j])
  <2>1. CASE i <= n
    BY <1>3, <2>1
  <2>2. CASE ~(i <= n)
    <3>1. PICK j \in 1..m : j = i - n
      BY <2>2
    <3> QED
      BY <1>3, <2>2, <3>1
  <2> QED
    BY <2>1, <2>2
<1>7. /\ ToSet(s) = {s[i] : i \in 1..n} /\ ToSet(t) = {t[i] : i \in 1..m}
      /\ ToSet(u) = {u[i] : i \in 1..(n + m)}
  BY <1>3 DEF ToSet
<1>8. ToSet(u) = ToSet(s) \cup ToSet(t)
  BY <1>4, <1>5, <1>6, <1>7
<1> QED
  BY <1>1, <1>8

\* The members of what is flattened are those of the sequences.
LEMMA FlattenHas ==
    ASSUME NEW S, NEW ss \in Seq(Seq(S)), NEW x
    PROVE  x \in ToSet(FlattenSeq(ss)) <=> \E i \in 1..Len(ss) : x \in ToSet(ss[i])
<1>1. CASE ss = <<>>
  <2>1. FlattenSeq(ss) = <<>> /\ Len(ss) = 0
    BY <1>1, FlattenEmpty
  <2>2. ToSet(FlattenSeq(ss)) = {}
    BY <2>1 DEF ToSet
  <2> QED
    BY <2>1, <2>2
<1>2. CASE ss # <<>>
  <2>1. Len(ss) \in Nat /\ Len(ss) # 0 /\ \A i \in 1..Len(ss) : ss[i] \in Seq(S)
    BY <1>2, LenProperties, EmptySeq, ElementOfSeq
  <2>2. PICK g : Flattens(g, ss, Len(ss)) /\ FlattenSeq(ss) = g[Len(ss)]
    BY <1>2, FlattenIs
  <2> DEFINE A == {k \in Nat : k \in 1..Len(ss) =>
                      /\ g[k] \in Seq(S)
                      /\ x \in ToSet(g[k]) <=> \E i \in 1..k : x \in ToSet(ss[i])}
  <2>3. 0 \in A
    OBVIOUS
  <2>4. ASSUME NEW k \in Nat, k \in A PROVE k + 1 \in A
    <3> SUFFICES ASSUME k + 1 \in 1..Len(ss)
                 PROVE  /\ g[k + 1] \in Seq(S)
                        /\ x \in ToSet(g[k + 1]) <=> \E i \in 1..(k + 1) : x \in ToSet(ss[i])
      OBVIOUS
    <3>1. g[k + 1] = IF k + 1 = 1 THEN ss[k + 1] ELSE g[(k + 1) - 1] \o ss[k + 1]
      BY <2>2, FlattensAt
    <3>2. (k + 1) - 1 = k /\ ss[k + 1] \in Seq(S)
      BY <2>1
    <3>3. \A i : i \in 1..(k + 1) <=> i \in 1..k \/ i = k + 1
      OBVIOUS
    <3>4. CASE k = 0
      <4>1. g[k + 1] = ss[k + 1]
        BY <3>1, <3>4
      <4>2. \A i : i \notin 1..k
        BY <3>4
      <4> QED
        <5>1. g[k + 1] \in Seq(S)
          BY <3>2, <4>1, Zenon
        <5>2. x \in ToSet(g[k + 1]) <=> x \in ToSet(ss[k + 1])
          BY <4>1, Zenon
        <5>3. (\E i \in 1..(k + 1) : x \in ToSet(ss[i])) <=> x \in ToSet(ss[k + 1])
          BY <3>3, <4>2, Zenon
        <5> QED
          BY <5>1, <5>2, <5>3, Zenon
    <3>5. CASE k # 0
      <4>1. g[k] \in Seq(S) /\ (x \in ToSet(g[k]) <=> \E i \in 1..k : x \in ToSet(ss[i]))
        BY <2>4, <3>5
      <4>2. g[k + 1] = g[k] \o ss[k + 1]
        <5>1. k + 1 # 1
          BY <3>5
        <5>2. g[k + 1] = g[(k + 1) - 1] \o ss[k + 1]
          BY <3>1, <5>1, Zenon
        <5> QED
          BY <3>2, <5>2, Zenon
      <4>3. g[k] \o ss[k + 1] \in Seq(S) /\ ToSet(g[k] \o ss[k + 1]) = ToSet(g[k]) \cup ToSet(ss[k + 1])
        BY <3>2, <4>1, ConcatProperties, ConcatHas
      <4> QED
        BY <3>3, <4>1, <4>2, <4>3
    <3> QED
      BY <3>4, <3>5
  <2> HIDE DEF A
  <2>5. Nat \subseteq A
    BY <2>3, <2>4, Induction
  <2> QED
    BY <2>1, <2>2, <2>5 DEF A
<1> QED
  BY <1>1, <1>2
=============================================================================
