----------------------- MODULE StreamPipeline_proofs -----------------------
(***************************************************************************)
(* For any kinds of events, number of events and sizes of queue, batch and    *)
(* channel: the stream from the agent to the caller keeps the promises of     *)
(* Delivery, and its metrics are honest.                                     *)
(***************************************************************************)
EXTENDS StreamPipeline, Integers, FiniteSetTheorems, SequenceTheorems, TLAPS

-----------------------------------------------------------------------------
(* Sequences *)

(* A set of numbers up to n that holds 0, and with a number the next one, holds *)
(* them all: if k were missing, adding 1 would map the part of it below k into  *)
(* itself without 0, which is smaller.                                          *)
LEMMA UpTo ==
    ASSUME NEW n \in Nat, NEW P, 0 \in P, \A i \in 0..n : i \in P /\ i < n => i + 1 \in P
    PROVE  0..n \subseteq P
<1> SUFFICES ASSUME NEW k \in 0..n, k \notin P PROVE FALSE
  OBVIOUS
<1> DEFINE Q == P \cap 0..k
           next == [i \in Q |-> i + 1]
<1>1. IsFiniteSet(Q)
  BY FS_Interval, FS_Subset, 0 \in Int, k \in Int
<1>2. /\ IsFiniteSet(Q \ {0}) /\ Cardinality(Q) \in Nat
      /\ Cardinality(Q \ {0}) = Cardinality(Q) - 1
  <2>1. 0 \in Q
    OBVIOUS
  <2> HIDE DEF Q
  <2> QED BY <1>1, <2>1, FS_RemoveElement, FS_CardinalityType
<1>3. next \in [Q -> Q \ {0}]
  <2>1. ASSUME NEW i \in Q PROVE i + 1 \in Q \ {0}
    <3>1. i # k /\ i \in 0..k /\ i \in P
      OBVIOUS
    <3> QED BY <3>1
  <2> QED BY <2>1
<1>4. \E i, j \in Q : i # j /\ next[i] = next[j]
  <2> HIDE DEF Q, next
  <2> QED BY <1>1, <1>2, <1>3, FS_PigeonHole
<1> QED BY <1>4

LEMMA AppendFacts ==
    ASSUME NEW S, NEW s \in Seq(S), NEW x \in S
    PROVE  /\ Append(s, x) \in Seq(S) /\ Len(Append(s, x)) = Len(s) + 1
           /\ \A i \in 1..Len(s) : Append(s, x)[i] = s[i]
           /\ Append(s, x)[Len(s) + 1] = x
  OBVIOUS

(* The first n elements of a sequence, and the next one. *)
Prefix(s, n) == SubSeq(s, 1, n)

LEMMA PrefixFacts ==
    ASSUME NEW S, NEW s \in Seq(S)
    PROVE  /\ Prefix(s, 0) = <<>> /\ Prefix(s, Len(s)) = s
           /\ \A n \in 0..Len(s) : Prefix(s, n) \in Seq(S)
           /\ \A n \in 0..Len(s) : n < Len(s) =>
                  s[n + 1] \in S /\ Prefix(s, n + 1) = Append(Prefix(s, n), s[n + 1])
<1>1. Prefix(s, 0) = <<>>
  BY SubSeqEmpty, 1 \in Int, 0 \in Int DEF Prefix
<1>2. Prefix(s, Len(s)) = s
  BY SubSeqFull DEF Prefix
<1>3. ASSUME NEW n \in 0..Len(s) PROVE Prefix(s, n) \in Seq(S)
  <2>1. \A i \in 1..n : s[i] \in S
    BY ElementOfSeq
  <2> QED BY <2>1, SubSeqProperties, 1 \in Int, n \in Int DEF Prefix
<1>4. ASSUME NEW n \in 0..Len(s), n < Len(s)
      PROVE  s[n + 1] \in S /\ Prefix(s, n + 1) = Append(Prefix(s, n), s[n + 1])
  <2>1. /\ 1 \in 1..Len(s) /\ n + 1 \in 1..Len(s) /\ (n + 1) - 1 = n
    BY <1>4
  <2>2. SubSeq(s, 1, n + 1) = SubSeq(s, 1, n) \o <<s[n + 1]>>
    BY <2>1, SubSeqRecursiveSecond
  <2>3. s[n + 1] \in S /\ SubSeq(s, 1, n) \in Seq(S)
    BY <1>3, <2>1, ElementOfSeq DEF Prefix
  <2> QED BY <2>2, <2>3, AppendIsConcat DEF Prefix
<1> QED BY <1>1, <1>2, <1>3, <1>4

(* An induction on sequences: what holds of the empty one, and with one of any  *)
(* that is longer by an element, holds of all (P is the set of those of which   *)
(* it holds).                                                                *)
LEMMA BySequence ==
    ASSUME NEW S, NEW P, <<>> \in P,
           \A s \in Seq(S), x \in S : s \in P => Append(s, x) \in P
    PROVE  Seq(S) \subseteq P
<1> SUFFICES ASSUME NEW s \in Seq(S) PROVE s \in P
  OBVIOUS
<1> DEFINE Q == {n \in 0..Len(s) : Prefix(s, n) \in P}
<1>1. Len(s) \in Nat
  OBVIOUS
<1>2. 0 \in Q
  <2>1. 0 \in 0..Len(s)
    BY <1>1
  <2> QED BY <2>1, PrefixFacts
<1>3. ASSUME NEW n \in 0..Len(s), n \in Q, n < Len(s) PROVE n + 1 \in Q
  <2>1. n + 1 \in 0..Len(s)
    BY <1>1, <1>3
  <2>2. /\ s[n + 1] \in S /\ Prefix(s, n + 1) = Append(Prefix(s, n), s[n + 1])
        /\ Prefix(s, n) \in Seq(S)
    BY <1>3, PrefixFacts, Zenon
  <2>3. Prefix(s, n) \in P
    BY <1>3
  <2>4. Append(Prefix(s, n), s[n + 1]) \in P
    BY <2>2, <2>3, Zenon
  <2> QED BY <2>1, <2>2, <2>4
<1>4. 0..Len(s) \subseteq Q
  <2> HIDE DEF Q
  <2> QED BY <1>1, <1>2, <1>3, UpTo
<1>5. Len(s) \in 0..Len(s)
  BY <1>1
<1> QED BY <1>4, <1>5, PrefixFacts

-----------------------------------------------------------------------------
(* What OfKinds selects *)

(* h selects, element by element, the kinds of s. *)
Selects(h, s, kinds) ==
    h = [i \in 0..Len(s) |->
            IF i = 0 THEN <<>>
            ELSE IF s[i].kind \in kinds THEN Append(h[i - 1], s[i])
            ELSE h[i - 1]]

LEMMA SelectsStep ==
    ASSUME NEW h, NEW s, NEW kinds, Len(s) \in Nat, Selects(h, s, kinds)
    PROVE  /\ h[0] = <<>>
           /\ \A i \in 1..Len(s) :
                  h[i] = IF s[i].kind \in kinds THEN Append(h[i - 1], s[i]) ELSE h[i - 1]
<1> DEFINE F == [i \in 0..Len(s) |->
                    IF i = 0 THEN <<>>
                    ELSE IF s[i].kind \in kinds THEN Append(h[i - 1], s[i])
                    ELSE h[i - 1]]
<1>1. h = F
  BY DEF Selects
<1>2. F[0] = <<>>
  <2>1. 0 \in 0..Len(s)
    OBVIOUS
  <2> QED BY <2>1
<1>3. \A i \in 1..Len(s) :
          F[i] = IF s[i].kind \in kinds THEN Append(h[i - 1], s[i]) ELSE h[i - 1]
  <2> TAKE i \in 1..Len(s)
  <2>1. i \in 0..Len(s) /\ i # 0
    OBVIOUS
  <2> QED BY <2>1
<1> HIDE DEF F
<1> QED BY <1>1, <1>2, <1>3

(* There is such a function: one for s gives one for a longer sequence. *)
LEMMA SelectsExtends ==
    ASSUME NEW S, NEW s \in Seq(S), NEW x \in S, NEW kinds, NEW h, Selects(h, s, kinds),
           NEW t \in Seq(S), Len(t) = Len(s) + 1, t[Len(s) + 1] = x,
           \A i \in 1..Len(s) : t[i] = s[i]
    PROVE  \E g : Selects(g, t, kinds) /\ \A i \in 0..Len(s) : g[i] = h[i]
<1> DEFINE g == [i \in 0..Len(t) |->
                    IF i <= Len(s) THEN h[i]
                    ELSE IF x.kind \in kinds THEN Append(h[Len(s)], x) ELSE h[Len(s)]]
           G == [i \in 0..Len(t) |->
                    IF i = 0 THEN <<>>
                    ELSE IF t[i].kind \in kinds THEN Append(g[i - 1], t[i])
                    ELSE g[i - 1]]
<1>1. /\ Len(t) = Len(s) + 1 /\ Len(s) \in Nat /\ t[Len(s) + 1] = x
      /\ \A i \in 1..Len(s) : t[i] = s[i]
  OBVIOUS
<1>2. /\ h[0] = <<>>
      /\ \A i \in 1..Len(s) :
             h[i] = IF s[i].kind \in kinds THEN Append(h[i - 1], s[i]) ELSE h[i - 1]
  BY <1>1, SelectsStep
<1>3. /\ \A i \in 0..Len(s) : g[i] = h[i]
      /\ g[Len(s) + 1] = IF x.kind \in kinds THEN Append(h[Len(s)], x) ELSE h[Len(s)]
  BY <1>1
<1>4. ASSUME NEW i \in 0..Len(t) PROVE g[i] = G[i]
  <2>1. CASE i = 0
    <3>1. 0 \in 0..Len(s)
      BY <1>1
    <3> QED BY <1>2, <1>3, <2>1, <3>1
  <2>2. CASE i \in 1..Len(s)
    <3>1. i \in 0..Len(s) /\ i - 1 \in 0..Len(s) /\ i # 0
      BY <1>1, <2>2
    <3>2. G[i] = IF t[i].kind \in kinds THEN Append(g[i - 1], t[i]) ELSE g[i - 1]
      BY <3>1
    <3> HIDE DEF g, G
    <3> QED BY <1>1, <1>2, <1>3, <2>2, <3>1, <3>2, Zenon
  <2>3. CASE i = Len(s) + 1
    <3>1. Len(s) \in 0..Len(s) /\ i # 0 /\ i - 1 = Len(s)
      BY <1>1, <2>3
    <3>2. G[i] = IF t[i].kind \in kinds THEN Append(g[i - 1], t[i]) ELSE g[i - 1]
      BY <3>1
    <3> HIDE DEF g, G
    <3> QED BY <1>1, <1>3, <2>3, <3>1, <3>2, Zenon
  <2> QED BY <1>1, <2>1, <2>2, <2>3
<1>5. g = G
  BY <1>4
<1>6. Selects(g, t, kinds)
  <2> HIDE DEF g
  <2> QED BY <1>5 DEF Selects
<1> HIDE DEF g
<1> QED BY <1>3, <1>6

LEMMA SelectsExists ==
    ASSUME NEW S, NEW kinds
    PROVE  \A s \in Seq(S) : \E h : Selects(h, s, kinds)
<1> DEFINE P == {s \in Seq(S) : \E h : Selects(h, s, kinds)}
<1>1. <<>> \in P
  <2> DEFINE h == [i \in 0..0 |-> <<>>]
  <2>1. h = [i \in 0..Len(<<>>) |->
                IF i = 0 THEN <<>>
                ELSE IF <<>>[i].kind \in kinds THEN Append(h[i - 1], <<>>[i])
                ELSE h[i - 1]]
    OBVIOUS
  <2>2. Selects(h, <<>>, kinds)
    BY <2>1 DEF Selects
  <2>3. <<>> \in Seq(S)
    OBVIOUS
  <2> QED BY <2>2, <2>3
<1>2. ASSUME NEW s \in Seq(S), NEW x \in S, s \in P PROVE Append(s, x) \in P
  <2>1. PICK h : Selects(h, s, kinds)
    BY <1>2
  <2>2. \E g : Selects(g, Append(s, x), kinds)
    <3> DEFINE t == Append(s, x)
    <3>1. /\ t \in Seq(S) /\ Len(t) = Len(s) + 1 /\ t[Len(s) + 1] = x
          /\ \A i \in 1..Len(s) : t[i] = s[i]
      BY AppendFacts
    <3> HIDE DEF t
    <3>2. \E g : Selects(g, t, kinds)
      BY <2>1, <3>1, SelectsExtends
    <3> QED BY <3>2, Zenon DEF t
  <2>3. Append(s, x) \in Seq(S)
    OBVIOUS
  <2> QED BY <2>2, <2>3
<1>3. Seq(S) \subseteq P
  <2> HIDE DEF P
  <2> QED BY <1>1, <1>2, BySequence
<1> QED BY <1>3

(* And only one. *)
LEMMA SelectsUnique ==
    ASSUME NEW s, NEW kinds, Len(s) \in Nat, NEW g, NEW h,
           Selects(g, s, kinds), Selects(h, s, kinds)
    PROVE  \A i \in 0..Len(s) : g[i] = h[i]
<1> DEFINE P == {i \in 0..Len(s) : g[i] = h[i]}
<1>1. 0 \in P
  <2>1. 0 \in 0..Len(s)
    OBVIOUS
  <2> QED BY <2>1, SelectsStep
<1>2. ASSUME NEW i \in 0..Len(s), i \in P, i < Len(s) PROVE i + 1 \in P
  <2>1. i + 1 \in 1..Len(s) /\ (i + 1) - 1 = i /\ i + 1 \in 0..Len(s)
    BY <1>2
  <2>2. g[i] = h[i]
    BY <1>2
  <2>3. /\ g[i + 1] = IF s[i + 1].kind \in kinds THEN Append(g[i], s[i + 1]) ELSE g[i]
        /\ h[i + 1] = IF s[i + 1].kind \in kinds THEN Append(h[i], s[i + 1]) ELSE h[i]
    BY <2>1, SelectsStep
  <2>4. g[i + 1] = h[i + 1]
    <3>1. CASE s[i + 1].kind \in kinds
      BY <2>2, <2>3, <3>1, Zenon
    <3>2. CASE s[i + 1].kind \notin kinds
      BY <2>2, <2>3, <3>2, Zenon
    <3> QED BY <3>1, <3>2
  <2> QED BY <2>1, <2>4
<1>3. 0..Len(s) \subseteq P
  <2> HIDE DEF P
  <2> QED BY <1>1, <1>2, UpTo
<1> QED BY <1>3

LEMMA OfKindsIs ==
    ASSUME NEW S, NEW s \in Seq(S), NEW kinds, NEW h, Selects(h, s, kinds)
    PROVE  OfKinds(s, kinds) = h[Len(s)]
<1> DEFINE f == CHOOSE f : Selects(f, s, kinds)
<1>1. OfKinds(s, kinds) = f[Len(s)]
  BY DEF OfKinds, Selects
<1>2. Selects(f, s, kinds)
  OBVIOUS
<1>3. Len(s) \in Nat /\ Len(s) \in 0..Len(s)
  OBVIOUS
<1> HIDE DEF f
<1> QED BY <1>1, <1>2, <1>3, SelectsUnique

LEMMA OfKindsAppend ==
    ASSUME NEW S, NEW kinds
    PROVE  /\ OfKinds(<<>>, kinds) = <<>>
           /\ \A s \in Seq(S), x \in S :
                  /\ x.kind \in kinds =>
                         OfKinds(Append(s, x), kinds) = Append(OfKinds(s, kinds), x)
                  /\ x.kind \notin kinds =>
                         OfKinds(Append(s, x), kinds) = OfKinds(s, kinds)
<1>1. OfKinds(<<>>, kinds) = <<>>
  <2>1. <<>> \in Seq(S) /\ Len(<<>>) = 0 /\ Len(<<>>) \in Nat
    OBVIOUS
  <2>2. PICK h : Selects(h, <<>>, kinds)
    BY <2>1, SelectsExists
  <2>3. h[0] = <<>>
    BY <2>1, <2>2, SelectsStep
  <2> QED BY <2>1, <2>2, <2>3, OfKindsIs
<1>2. ASSUME NEW s \in Seq(S), NEW x \in S
      PROVE  /\ x.kind \in kinds =>
                    OfKinds(Append(s, x), kinds) = Append(OfKinds(s, kinds), x)
             /\ x.kind \notin kinds =>
                    OfKinds(Append(s, x), kinds) = OfKinds(s, kinds)
  <2> DEFINE t == Append(s, x)
  <2>1. /\ t \in Seq(S) /\ Len(t) = Len(s) + 1 /\ t[Len(s) + 1] = x
        /\ \A i \in 1..Len(s) : t[i] = s[i]
    BY AppendFacts
  <2> HIDE DEF t
  <2>2. PICK h : Selects(h, s, kinds)
    BY SelectsExists
  <2>3. PICK g : Selects(g, t, kinds) /\ \A i \in 0..Len(s) : g[i] = h[i]
    BY <2>1, <2>2, SelectsExtends
  <2>4. /\ Len(s) \in 0..Len(s) /\ Len(s) \in Nat /\ Len(t) \in Nat
        /\ Len(t) \in 1..Len(t) /\ Len(t) - 1 = Len(s) /\ t[Len(t)] = x
    BY <2>1
  <2>5. OfKinds(s, kinds) = h[Len(s)] /\ OfKinds(t, kinds) = g[Len(t)]
    BY <2>1, <2>2, <2>3, OfKindsIs
  <2>6. g[Len(t)] = IF t[Len(t)].kind \in kinds
                    THEN Append(g[Len(t) - 1], t[Len(t)]) ELSE g[Len(t) - 1]
    BY <2>3, <2>4, SelectsStep
  <2>7. g[Len(t)] = IF x.kind \in kinds THEN Append(h[Len(s)], x) ELSE h[Len(s)]
    BY <2>3, <2>4, <2>6, Zenon
  <2>8. CASE x.kind \in kinds
    BY <2>5, <2>7, <2>8, Zenon DEF t
  <2>9. CASE x.kind \notin kinds
    <3>1. g[Len(t)] = h[Len(s)]
      BY <2>7, <2>9
    <3> QED BY <2>5, <2>9, <3>1, Zenon DEF t
  <2> QED BY <2>8, <2>9
<1> QED BY <1>1, <1>2

LEMMA OfKindsTakes ==
    ASSUME NEW S, NEW kinds, NEW s \in Seq(S), NEW x \in S, x.kind \in kinds
    PROVE  OfKinds(Append(s, x), kinds) = Append(OfKinds(s, kinds), x)
  BY OfKindsAppend, ZenonT(30)

LEMMA OfKindsSkips ==
    ASSUME NEW S, NEW kinds, NEW s \in Seq(S), NEW x \in S, x.kind \notin kinds
    PROVE  OfKinds(Append(s, x), kinds) = OfKinds(s, kinds)
  BY OfKindsAppend, ZenonT(30)

LEMMA ConcatAppend ==
    ASSUME NEW S, NEW s \in Seq(S), NEW t \in Seq(S), NEW x \in S
    PROVE  s \o Append(t, x) = Append(s \o t, x)
<1>1. s \o t \in Seq(S) /\ <<x>> \in Seq(S)
  OBVIOUS
<1>2. Append(t, x) = t \o <<x>> /\ Append(s \o t, x) = (s \o t) \o <<x>>
  BY <1>1, AppendIsConcat
<1>3. s \o (t \o <<x>>) = (s \o t) \o <<x>>
  BY <1>1, ConcatAssociative
<1> QED BY <1>2, <1>3

LEMMA OfKindsTyped ==
    ASSUME NEW S, NEW s \in Seq(S), NEW kinds
    PROVE  /\ OfKinds(s, kinds) \in Seq(S)
           /\ \A i \in 1..Len(OfKinds(s, kinds)) : OfKinds(s, kinds)[i].kind \in kinds
<1> DEFINE P == {t \in Seq(S) : /\ OfKinds(t, kinds) \in Seq(S)
                                /\ \A i \in 1..Len(OfKinds(t, kinds)) :
                                       OfKinds(t, kinds)[i].kind \in kinds}
<1>1. <<>> \in P
  <2>1. OfKinds(<<>>, kinds) = <<>>
    BY OfKindsAppend
  <2>2. <<>> \in Seq(S) /\ Len(<<>>) = 0
    OBVIOUS
  <2>3. \A i \in 1..Len(OfKinds(<<>>, kinds)) : OfKinds(<<>>, kinds)[i].kind \in kinds
    BY <2>1, <2>2
  <2> QED BY <2>1, <2>2, <2>3, Zenon
<1>2. ASSUME NEW t \in Seq(S), NEW x \in S, t \in P PROVE Append(t, x) \in P
  <2> DEFINE u == OfKinds(t, kinds)
             v == OfKinds(Append(t, x), kinds)
  <2>1. u \in Seq(S) /\ \A i \in 1..Len(u) : u[i].kind \in kinds
    BY <1>2
  <2>2. (x.kind \in kinds => v = Append(u, x)) /\ (x.kind \notin kinds => v = u)
    <3>1. x.kind \in kinds => v = Append(u, x)
      BY OfKindsTakes, Zenon
    <3>2. x.kind \notin kinds => v = u
      BY OfKindsSkips, Zenon
    <3> QED BY <3>1, <3>2
  <2> HIDE DEF u, v
  <2>3. CASE x.kind \in kinds
    <3>1. /\ Append(u, x) \in Seq(S) /\ Len(Append(u, x)) = Len(u) + 1
          /\ \A i \in 1..Len(u) : Append(u, x)[i] = u[i]
          /\ Append(u, x)[Len(u) + 1] = x
      BY <2>1, AppendFacts
    <3>2. v = Append(u, x)
      BY <2>2, <2>3, Zenon
    <3>3. v \in Seq(S) /\ Len(v) = Len(u) + 1 /\ (\A i \in 1..Len(u) : v[i] = u[i]) /\ v[Len(u) + 1] = x
      BY <3>1, <3>2, Zenon
    <3>4. \A i \in 1..Len(v) : v[i].kind \in kinds
      BY <2>1, <2>3, <3>3
    <3>5. Append(t, x) \in Seq(S)
      OBVIOUS
    <3> QED BY <3>3, <3>4, <3>5 DEF v
  <2>4. CASE x.kind \notin kinds
    <3>1. v = u /\ Append(t, x) \in Seq(S)
      BY <2>2, <2>4
    <3> QED BY <2>1, <3>1 DEF v
  <2> QED BY <2>3, <2>4
<1>3. Seq(S) \subseteq P
  <2> HIDE DEF P
  <2> QED BY <1>1, <1>2, BySequence
<1> QED BY <1>3

LEMMA OfKindsAll ==
    ASSUME NEW S, NEW s \in Seq(S), NEW kinds, \A i \in 1..Len(s) : s[i].kind \in kinds
    PROVE  OfKinds(s, kinds) = s
<1> DEFINE All(t) == \A i \in 1..Len(t) : t[i].kind \in kinds
           P == {t \in Seq(S) : All(t) => OfKinds(t, kinds) = t}
<1>1. <<>> \in P
  BY OfKindsAppend
<1>2. ASSUME NEW t \in Seq(S), NEW x \in S, t \in P PROVE Append(t, x) \in P
  <2>1. /\ Append(t, x) \in Seq(S) /\ Len(Append(t, x)) = Len(t) + 1 /\ Len(t) \in Nat
        /\ \A i \in 1..Len(t) : Append(t, x)[i] = t[i]
        /\ Append(t, x)[Len(t) + 1] = x
    BY AppendFacts
  <2>2. ASSUME All(Append(t, x)) PROVE OfKinds(Append(t, x), kinds) = Append(t, x)
    <3>1. All(t) /\ x.kind \in kinds
      <4> DEFINE u == Append(t, x)
      <4>1. /\ All(u) /\ Len(u) = Len(t) + 1 /\ Len(t) \in Nat /\ u[Len(t) + 1] = x
            /\ \A i \in 1..Len(t) : u[i] = t[i]
        BY <2>1, <2>2
      <4> HIDE DEF u
      <4> QED BY <4>1
    <3>2. OfKinds(t, kinds) = t
      <4> HIDE DEF All
      <4> QED BY <1>2, <3>1
    <3>3. OfKinds(Append(t, x), kinds) = Append(OfKinds(t, kinds), x)
      BY <3>1, OfKindsTakes, Zenon
    <3> QED BY <3>2, <3>3, Zenon
  <2> HIDE DEF All
  <2> QED BY <2>1, <2>2
<1>3. Seq(S) \subseteq P
  <2> HIDE DEF P
  <2> QED BY <1>1, <1>2, BySequence
<1> QED BY <1>3

LEMMA OfKindsTwice ==
    ASSUME NEW S, NEW s \in Seq(S), NEW kinds, NEW few, few \subseteq kinds
    PROVE  OfKinds(OfKinds(s, kinds), few) = OfKinds(s, few)
<1> DEFINE P == {t \in Seq(S) : OfKinds(OfKinds(t, kinds), few) = OfKinds(t, few)}
<1>1. <<>> \in P
  <2>1. OfKinds(<<>>, kinds) = <<>> /\ OfKinds(<<>>, few) = <<>> /\ <<>> \in Seq(S)
    BY OfKindsAppend
  <2> QED BY <2>1
<1>2. ASSUME NEW t \in Seq(S), NEW x \in S, t \in P PROVE Append(t, x) \in P
  <2>1. OfKinds(OfKinds(t, kinds), few) = OfKinds(t, few) /\ OfKinds(t, kinds) \in Seq(S)
    BY <1>2, OfKindsTyped
  <2>2. Append(t, x) \in Seq(S)
    BY AppendFacts, Zenon
  <2>3. CASE x.kind \in few
    <3>0. x.kind \in kinds
      BY <2>3
    <3>1. OfKinds(Append(t, x), kinds) = Append(OfKinds(t, kinds), x)
      BY <3>0, OfKindsTakes, ZenonT(30)
    <3>2. OfKinds(Append(OfKinds(t, kinds), x), few) = Append(OfKinds(OfKinds(t, kinds), few), x)
      <4> DEFINE u == OfKinds(t, kinds)
      <4>1. u \in Seq(S)
        BY <2>1
      <4> HIDE DEF u
      <4>2. OfKinds(Append(u, x), few) = Append(OfKinds(u, few), x)
        BY <2>3, <4>1, OfKindsTakes, ZenonT(30)
      <4> QED BY <4>2, Zenon DEF u
    <3>3. OfKinds(Append(t, x), few) = Append(OfKinds(t, few), x)
      BY <2>3, OfKindsTakes, Zenon
    <3>4. OfKinds(OfKinds(Append(t, x), kinds), few) = OfKinds(Append(t, x), few)
      BY <2>1, <3>1, <3>2, <3>3, Zenon
    <3> QED BY <2>2, <3>4
  <2>4. CASE x.kind \notin few /\ x.kind \in kinds
    <3>0. x.kind \in kinds
      BY <2>4
    <3>1. OfKinds(Append(t, x), kinds) = Append(OfKinds(t, kinds), x)
      BY <3>0, OfKindsTakes, ZenonT(30)
    <3>2. OfKinds(Append(OfKinds(t, kinds), x), few) = OfKinds(OfKinds(t, kinds), few)
      BY <2>1, <2>4, OfKindsSkips, Zenon
    <3>3. OfKinds(Append(t, x), few) = OfKinds(t, few)
      BY <2>4, OfKindsSkips, Zenon
    <3>4. OfKinds(OfKinds(Append(t, x), kinds), few) = OfKinds(Append(t, x), few)
      BY <2>1, <3>1, <3>2, <3>3, Zenon
    <3> QED BY <2>2, <3>4
  <2>5. CASE x.kind \notin few /\ x.kind \notin kinds
    <3>1. OfKinds(Append(t, x), kinds) = OfKinds(t, kinds)
      BY <2>5, OfKindsSkips, Zenon
    <3>2. OfKinds(Append(t, x), few) = OfKinds(t, few)
      BY <2>5, OfKindsSkips, Zenon
    <3>3. OfKinds(OfKinds(Append(t, x), kinds), few) = OfKinds(Append(t, x), few)
      BY <2>1, <3>1, <3>2, Zenon
    <3> QED BY <2>2, <3>3
  <2> QED BY <2>3, <2>4, <2>5
<1>3. Seq(S) \subseteq P
  <2> HIDE DEF P
  <2> QED BY <1>1, <1>2, BySequence
<1> QED BY <1>3

LEMMA OfKindsConcat ==
    ASSUME NEW S, NEW s \in Seq(S), NEW t \in Seq(S), NEW kinds
    PROVE  OfKinds(s \o t, kinds) = OfKinds(s, kinds) \o OfKinds(t, kinds)
<1> DEFINE P == {u \in Seq(S) : OfKinds(s \o u, kinds) = OfKinds(s, kinds) \o OfKinds(u, kinds)}
<1>1. <<>> \in P
  <2>1. OfKinds(s, kinds) \in Seq(S) /\ <<>> \in Seq(S)
    BY OfKindsTyped
  <2>2. s \o <<>> = s /\ OfKinds(s, kinds) \o <<>> = OfKinds(s, kinds)
    BY <2>1, ConcatEmptySeq
  <2>3. OfKinds(<<>>, kinds) = <<>>
    BY OfKindsAppend
  <2>4. OfKinds(s \o <<>>, kinds) = OfKinds(s, kinds) \o OfKinds(<<>>, kinds)
    BY <2>2, <2>3, Zenon
  <2> QED BY <2>1, <2>4
<1>2. ASSUME NEW u \in Seq(S), NEW x \in S, u \in P PROVE Append(u, x) \in P
  <2>1. /\ OfKinds(s \o u, kinds) = OfKinds(s, kinds) \o OfKinds(u, kinds)
        /\ OfKinds(s, kinds) \in Seq(S) /\ OfKinds(u, kinds) \in Seq(S)
    BY <1>2, OfKindsTyped
  <2>2. Append(u, x) \in Seq(S) /\ s \o u \in Seq(S)
    OBVIOUS
  <2>3. s \o Append(u, x) = Append(s \o u, x)
    BY ConcatAppend
  <2>4. CASE x.kind \in kinds
    <3>0. \A v \in Seq(S) : OfKinds(Append(v, x), kinds) = Append(OfKinds(v, kinds), x)
      BY <2>4, OfKindsTakes, SMT
    <3>1. /\ OfKinds(Append(s \o u, x), kinds) = Append(OfKinds(s \o u, kinds), x)
          /\ OfKinds(Append(u, x), kinds) = Append(OfKinds(u, kinds), x)
      BY <2>2, <3>0, Zenon
    <3>2. OfKinds(s, kinds) \o Append(OfKinds(u, kinds), x)
              = Append(OfKinds(s, kinds) \o OfKinds(u, kinds), x)
      BY <2>1, ConcatAppend
    <3>3. OfKinds(s \o Append(u, x), kinds) = OfKinds(s, kinds) \o OfKinds(Append(u, x), kinds)
      BY <2>1, <2>3, <3>1, <3>2, Zenon
    <3> QED BY <2>2, <3>3
  <2>5. CASE x.kind \notin kinds
    <3>1. /\ OfKinds(Append(s \o u, x), kinds) = OfKinds(s \o u, kinds)
          /\ OfKinds(Append(u, x), kinds) = OfKinds(u, kinds)
      BY <2>2, <2>5, OfKindsSkips, Zenon
    <3>2. OfKinds(s \o Append(u, x), kinds) = OfKinds(s, kinds) \o OfKinds(Append(u, x), kinds)
      BY <2>1, <2>3, <3>1, Zenon
    <3> QED BY <2>2, <3>2
  <2> QED BY <2>4, <2>5
<1>3. Seq(S) \subseteq P
  <2> HIDE DEF P
  <2> QED BY <1>1, <1>2, BySequence
<1> QED BY <1>3

LEMMA OfKindsOne ==
    ASSUME NEW S, NEW x \in S, NEW kinds
    PROVE  OfKinds(<<x>>, kinds) = IF x.kind \in kinds THEN <<x>> ELSE <<>>
<1>1. <<>> \in Seq(S) /\ Append(<<>>, x) = <<x>>
  OBVIOUS
<1>2. OfKinds(<<>>, kinds) = <<>>
  BY OfKindsAppend
<1>3. CASE x.kind \in kinds
  <2>1. OfKinds(Append(<<>>, x), kinds) = Append(OfKinds(<<>>, kinds), x)
    BY <1>1, <1>3, OfKindsTakes, Zenon
  <2> QED BY <1>1, <1>2, <1>3, <2>1, Zenon
<1>4. CASE x.kind \notin kinds
  <2>1. OfKinds(Append(<<>>, x), kinds) = OfKinds(<<>>, kinds)
    BY <1>1, <1>4, OfKindsSkips, Zenon
  <2>2. OfKinds(<<x>>, kinds) = <<>>
    BY <1>1, <1>2, <2>1, Zenon
  <2> QED BY <1>4, <2>2
<1> QED BY <1>3, <1>4

-----------------------------------------------------------------------------
(* The first token, and the events of the wire *)

Known == AllKinds \ {"unknown"}
Framed == [event : Event, whole : BOOLEAN]

LEMMA FirstFacts ==
    ASSUME NEW s \in Seq(Event)
    PROVE  /\ OfKinds(s, {"token"}) \in Seq(Event)
           /\ FirstTokenOf(s) = IF OfKinds(s, {"token"}) = <<>> THEN 0
                                ELSE OfKinds(s, {"token"})[1].id
           /\ FirstTokenOf(s) \in 0..MaxEvents
           /\ FirstTokenOf(s) = 0 <=> OfKinds(s, {"token"}) = <<>>
<1> DEFINE t == OfKinds(s, {"token"})
<1>1. t \in Seq(Event)
  BY OfKindsTyped
<1>2. FirstTokenOf(s) = IF t = <<>> THEN 0 ELSE t[1].id
  BY DEF FirstTokenOf
<1> HIDE DEF t
<1>3. t # <<>> => t[1].id \in 1..MaxEvents
  <2>1. t # <<>> => t[1] \in Event
    BY <1>1, ElementOfSeq
  <2> QED BY <2>1 DEF Event
<1>4. MaxEvents \in Nat
  BY BoundsAssumption
<1>5. FirstTokenOf(s) \in 0..MaxEvents /\ (FirstTokenOf(s) = 0 <=> t = <<>>)
  BY <1>2, <1>3, <1>4
<1> QED BY <1>1, <1>2, <1>5 DEF t

LEMMA FirstConcat ==
    ASSUME NEW s \in Seq(Event), NEW t \in Seq(Event)
    PROVE  FirstTokenOf(s \o t) = IF FirstTokenOf(s) # 0 THEN FirstTokenOf(s) ELSE FirstTokenOf(t)
<1> DEFINE a == OfKinds(s, {"token"})
           b == OfKinds(t, {"token"})
           c == OfKinds(s \o t, {"token"})
<1>1. s \o t \in Seq(Event)
  OBVIOUS
<1>2. /\ a \in Seq(Event) /\ FirstTokenOf(s) = IF a = <<>> THEN 0 ELSE a[1].id
      /\ FirstTokenOf(s) = 0 <=> a = <<>>
  BY FirstFacts
<1>3. b \in Seq(Event) /\ FirstTokenOf(t) = IF b = <<>> THEN 0 ELSE b[1].id
  BY FirstFacts
<1>4. FirstTokenOf(s \o t) = IF c = <<>> THEN 0 ELSE c[1].id
  <2> DEFINE u == s \o t
  <2> SUFFICES FirstTokenOf(u) = IF OfKinds(u, {"token"}) = <<>> THEN 0
                                 ELSE OfKinds(u, {"token"})[1].id
    OBVIOUS
  <2>1. u \in Seq(Event)
    BY <1>1
  <2> HIDE DEF u
  <2> QED BY <2>1, FirstFacts
<1>5. c = a \o b
  BY OfKindsConcat
<1> HIDE DEF a, b, c
<1>6. CASE a = <<>>
  <2>1. c = b
    BY <1>3, <1>5, <1>6, ConcatEmptySeq
  <2> QED BY <1>2, <1>3, <1>4, <1>6, <2>1
<1>7. CASE a # <<>>
  <2>1. c # <<>> /\ c[1] = a[1]
    BY <1>2, <1>3, <1>5, <1>7
  <2> QED BY <1>2, <1>4, <1>7, <2>1
<1> QED BY <1>6, <1>7

LEMMA FirstOne ==
    ASSUME NEW e \in Event
    PROVE  FirstTokenOf(<<e>>) = IF e.kind = "token" THEN e.id ELSE 0
<1>1. <<e>> \in Seq(Event) /\ <<e>> # <<>> /\ <<e>>[1] = e
  OBVIOUS
<1>2. OfKinds(<<e>>, {"token"}) = IF e.kind \in {"token"} THEN <<e>> ELSE <<>>
  BY OfKindsOne
<1>3. CASE e.kind = "token"
  <2>1. OfKinds(<<e>>, {"token"}) = <<e>>
    BY <1>2, <1>3
  <2> QED BY <1>1, <1>3, <2>1 DEF FirstTokenOf
<1>4. CASE e.kind # "token"
  <2>1. OfKinds(<<e>>, {"token"}) = <<>>
    BY <1>2, <1>4
  <2> QED BY <1>4, <2>1 DEF FirstTokenOf
<1> QED BY <1>3, <1>4

LEMMA FirstOfKnown ==
    ASSUME NEW s \in Seq(Event)
    PROVE  FirstTokenOf(OfKinds(s, Known)) = FirstTokenOf(s)
<1>1. {"token"} \subseteq Known
  BY DEF Known, AllKinds
<1>2. OfKinds(OfKinds(s, Known), {"token"}) = OfKinds(s, {"token"})
  BY <1>1, OfKindsTwice
<1> QED BY <1>2 DEF FirstTokenOf

LEMMA CarriedOfKnown ==
    ASSUME NEW s \in Seq(Event)
    PROVE  OfKinds(OfKinds(s, Known), Carried) = OfKinds(s, Carried)
<1>1. Carried \subseteq Known
  BY DEF Known, AllKinds, Carried
<1> QED BY <1>1, OfKindsTwice

EventsOf(w) == [i \in 1..Len(w) |-> w[i].event]

LEMMA EventsFacts ==
    ASSUME NEW w \in Seq(Framed)
    PROVE  /\ EventsOf(w) \in Seq(Event) /\ Len(EventsOf(w)) = Len(w)
           /\ \A i \in 1..Len(w) : EventsOf(w)[i] = w[i].event
<1>1. \A i \in 1..Len(w) : w[i].event \in Event
  <2>1. \A i \in 1..Len(w) : w[i] \in Framed
    BY ElementOfSeq
  <2> QED BY <2>1 DEF Framed
<1> QED BY <1>1 DEF EventsOf

LEMMA EventsConcat ==
    ASSUME NEW w \in Seq(Framed), NEW s \in Seq(Event)
    PROVE  /\ w \o Frames(s) \in Seq(Framed)
           /\ EventsOf(w \o Frames(s)) = EventsOf(w) \o OfKinds(s, Known)
<1> DEFINE known == OfKinds(s, Known)
           v == [i \in 1..Len(known) |-> Whole(known[i])]
           u == w \o v
<1>1. known \in Seq(Event) /\ Len(known) \in Nat /\ Len(w) \in Nat
  BY OfKindsTyped
<1>2. Frames(s) = v
  BY DEF Frames, Known
<1> HIDE DEF known
<1>3. /\ v \in Seq(Framed) /\ Len(v) = Len(known)
      /\ \A i \in 1..Len(known) : v[i].event = known[i]
  <2>1. \A i \in 1..Len(known) : Whole(known[i]) \in Framed /\ Whole(known[i]).event = known[i]
    <3>1. \A i \in 1..Len(known) : known[i] \in Event
      BY <1>1, ElementOfSeq
    <3> QED BY <3>1 DEF Whole, Framed
  <2> QED BY <1>1, <2>1
<1> HIDE DEF v
<1>4. /\ u \in Seq(Framed) /\ Len(u) = Len(w) + Len(known)
      /\ \A i \in 1..Len(w) : u[i] = w[i]
      /\ \A i \in 1..Len(known) : u[Len(w) + i] = v[i]
  <2>1. /\ u \in Seq(Framed) /\ Len(u) = Len(w) + Len(v)
        /\ \A i \in 1..Len(w) : u[i] = w[i]
        /\ \A i \in 1..Len(v) : u[Len(w) + i] = v[i]
    BY <1>3
  <2> HIDE DEF u
  <2> QED BY <1>3, <2>1
<1> HIDE DEF u
<1>5. /\ EventsOf(w) \in Seq(Event) /\ Len(EventsOf(w)) = Len(w)
      /\ \A i \in 1..Len(w) : EventsOf(w)[i] = w[i].event
  BY EventsFacts
<1>6. /\ EventsOf(u) \in Seq(Event) /\ Len(EventsOf(u)) = Len(w) + Len(known)
      /\ \A i \in 1..Len(u) : EventsOf(u)[i] = u[i].event
  BY <1>4, EventsFacts
<1> DEFINE x == EventsOf(w) \o known
<1>7. /\ x \in Seq(Event) /\ Len(x) = Len(w) + Len(known)
      /\ \A i \in 1..Len(w) : x[i] = EventsOf(w)[i]
      /\ \A i \in 1..Len(known) : x[Len(w) + i] = known[i]
  <2> DEFINE z == EventsOf(w)
  <2>1. /\ x \in Seq(Event) /\ Len(x) = Len(z) + Len(known)
        /\ \A i \in 1..Len(z) : x[i] = z[i]
        /\ \A i \in 1..Len(known) : x[Len(z) + i] = known[i]
    <3>1. z \in Seq(Event) /\ x = z \o known
      BY <1>5
    <3> HIDE DEF x, z
    <3> QED BY <1>1, <3>1
  <2>2. Len(z) = Len(w)
    BY <1>5
  <2> HIDE DEF x, z
  <2>3. /\ x \in Seq(Event) /\ Len(x) = Len(w) + Len(known)
        /\ \A i \in 1..Len(w) : x[i] = z[i]
        /\ \A i \in 1..Len(known) : x[Len(w) + i] = known[i]
    BY <2>1, <2>2
  <2> QED BY <2>3 DEF z
<1> HIDE DEF x
<1>8. ASSUME NEW i \in 1..Len(EventsOf(u)) PROVE EventsOf(u)[i] = x[i]
  <2>1. CASE i \in 1..Len(w)
    BY <1>1, <1>4, <1>5, <1>6, <1>7, <2>1, ZenonT(30)
  <2>2. CASE i \notin 1..Len(w)
    <3>1. i - Len(w) \in 1..Len(known) /\ i = Len(w) + (i - Len(w)) /\ i \in 1..Len(u)
      BY <1>1, <1>4, <1>6, <2>2
    <3>2. u[i] = v[i - Len(w)] /\ x[i] = known[i - Len(w)]
      BY <1>4, <1>7, <3>1
    <3> QED BY <1>3, <1>6, <3>1, <3>2
  <2> QED BY <2>1, <2>2
<1>9. EventsOf(u) = x
  BY <1>6, <1>7, <1>8, SeqEqual
<1> QED BY <1>2, <1>4, <1>9, Zenon DEF u, x, known

LEMMA EventsTail ==
    ASSUME NEW w \in Seq(Framed), w # <<>>
    PROVE  /\ w[1] \in Framed /\ w[1].event \in Event /\ Tail(w) \in Seq(Framed)
           /\ EventsOf(w) = <<w[1].event>> \o EventsOf(Tail(w))
<1>1. /\ Tail(w) \in Seq(Framed) /\ Len(Tail(w)) = Len(w) - 1 /\ Len(w) \in Nat /\ Len(w) >= 1
      /\ \A i \in 1..Len(Tail(w)) : Tail(w)[i] = w[i + 1]
  BY HeadTailProperties
<1> DEFINE t == Tail(w)
           e == w[1].event
           x == <<e>> \o EventsOf(t)
<1>2. w[1] \in Framed /\ e \in Event
  <2>1. 1 \in 1..Len(w)
    BY <1>1
  <2>2. w[1] \in Framed
    BY <2>1, ElementOfSeq
  <2> QED BY <2>2 DEF Framed
<1> HIDE DEF t
<1>3. /\ EventsOf(t) \in Seq(Event) /\ Len(EventsOf(t)) = Len(w) - 1
      /\ \A i \in 1..Len(w) - 1 : EventsOf(t)[i] = w[i + 1].event
  <2>1. t \in Seq(Framed) /\ Len(t) = Len(w) - 1 /\ \A i \in 1..Len(w) - 1 : t[i] = w[i + 1]
    BY <1>1 DEF t
  <2> QED BY <2>1, EventsFacts
<1>4. /\ EventsOf(w) \in Seq(Event) /\ Len(EventsOf(w)) = Len(w)
      /\ \A i \in 1..Len(w) : EventsOf(w)[i] = w[i].event
  BY EventsFacts
<1>5. /\ x \in Seq(Event) /\ Len(x) = Len(w) /\ x[1] = e
      /\ \A i \in 1..Len(w) - 1 : x[1 + i] = EventsOf(t)[i]
  <2> DEFINE o == <<e>>
  <2>1. o \in Seq(Event) /\ Len(o) = 1 /\ o[1] = e
    BY <1>2
  <2> HIDE DEF o, e
  <2>2. /\ o \o EventsOf(t) \in Seq(Event) /\ Len(o \o EventsOf(t)) = 1 + Len(EventsOf(t))
        /\ \A i \in 1..1 : (o \o EventsOf(t))[i] = o[i]
        /\ \A i \in 1..Len(EventsOf(t)) : (o \o EventsOf(t))[1 + i] = EventsOf(t)[i]
    <3> DEFINE z == EventsOf(t)
               y == o \o z
    <3>1. /\ y \in Seq(Event) /\ Len(y) = Len(o) + Len(z)
          /\ \A i \in 1..Len(o) : y[i] = o[i]
          /\ \A i \in 1..Len(z) : y[Len(o) + i] = z[i]
      <4>1. z \in Seq(Event) /\ o \in Seq(Event)
        BY <1>3, <2>1
      <4> HIDE DEF z
      <4> QED BY <4>1
    <3> HIDE DEF y, z
    <3>2. /\ y \in Seq(Event) /\ Len(y) = 1 + Len(z)
          /\ \A i \in 1..1 : y[i] = o[i]
          /\ \A i \in 1..Len(z) : y[1 + i] = z[i]
      BY <2>1, <3>1
    <3> QED BY <3>2, Zenon DEF y, z
  <2>3. x = o \o EventsOf(t)
    BY DEF o
  <2> HIDE DEF x
  <2>4. /\ x \in Seq(Event) /\ Len(x) = 1 + Len(EventsOf(t)) /\ x[1] = o[1]
        /\ \A i \in 1..Len(EventsOf(t)) : x[1 + i] = EventsOf(t)[i]
    <3>1. 1 \in 1..1
      OBVIOUS
    <3> QED BY <2>2, <2>3, <3>1, Zenon
  <2> QED BY <1>1, <1>3, <2>1, <2>4
<1> HIDE DEF x
<1>6. ASSUME NEW i \in 1..Len(w) PROVE EventsOf(w)[i] = x[i]
  <2>1. CASE i = 1
    BY <1>4, <1>5, <2>1
  <2>2. CASE i # 1
    <3>1. i - 1 \in 1..Len(w) - 1 /\ 1 + (i - 1) = i /\ (i - 1) + 1 = i
      BY <1>1, <2>2
    <3> QED BY <1>3, <1>4, <1>5, <3>1
  <2> QED BY <2>1, <2>2
<1>7. EventsOf(w) = x
  BY <1>4, <1>5, <1>6, SeqEqual
<1> QED BY <1>1, <1>2, <1>7 DEF x, t

(* What is left of the wire when the connection breaks begins what was on it. *)
LEMMA EventsCut ==
    ASSUME NEW w \in Seq(Framed), NEW n \in 0..Len(w), NEW v,
           v = SubSeq(w, 1, n) \/ (n > 0 /\ v = [SubSeq(w, 1, n) EXCEPT ![n] = Cut(@)])
    PROVE  /\ v \in Seq(Framed)
           /\ \E rest \in Seq(Event) : EventsOf(w) = EventsOf(v) \o rest
<1> DEFINE u == SubSeq(w, 1, n)
<1>0. Len(w) \in Nat /\ n \in Int /\ 1 \in Int
  OBVIOUS
<1>1. u \in Seq(Framed) /\ Len(u) = n /\ \A i \in 1..n : u[i] = w[i]
  <2>1. \A i \in 1..n : w[i] \in Framed
    BY ElementOfSeq
  <2> QED BY <1>0, <2>1, SubSeqProperties
<1> HIDE DEF u
<1>2. v \in Seq(Framed) /\ Len(v) = n /\ \A i \in 1..n : v[i].event = w[i].event
  <2>1. CASE v = u
    BY <1>1, <2>1
  <2>2. CASE n > 0 /\ v = [u EXCEPT ![n] = Cut(@)]
    <3>1. u[n] \in Framed /\ n \in 1..n /\ n \in 1..Len(u)
      BY <1>0, <1>1, <2>2, ElementOfSeq
    <3>2. Cut(u[n]) \in Framed /\ Cut(u[n]).event = u[n].event
      BY <3>1 DEF Cut, Framed
    <3>3. v = [u EXCEPT ![n] = Cut(u[n])]
      BY <2>2
    <3>4. /\ v \in Seq(Framed) /\ Len(v) = n
          /\ \A i \in 1..n : v[i] = IF i = n THEN Cut(u[n]) ELSE u[i]
      BY <1>1, <3>1, <3>2, <3>3, ExceptSeq
    <3> QED BY <1>1, <3>2, <3>4
  <2> QED BY <2>1, <2>2 DEF u
<1> DEFINE a == EventsOf(w)
           rest == SubSeq(a, n + 1, Len(a))
<1>3. a \in Seq(Event) /\ Len(a) = Len(w) /\ \A i \in 1..Len(w) : a[i] = w[i].event
  BY EventsFacts
<1>4. /\ EventsOf(v) \in Seq(Event) /\ Len(EventsOf(v)) = n
      /\ \A i \in 1..n : EventsOf(v)[i] = w[i].event
  BY <1>2, EventsFacts
<1> HIDE DEF a
<1>5. /\ rest \in Seq(Event) /\ Len(rest) = Len(w) - n
      /\ \A i \in 1..Len(w) - n : rest[i] = a[n + i]
  <2>1. \A i \in n + 1..Len(a) : a[i] \in Event
    BY <1>0, <1>3, ElementOfSeq
  <2>2. /\ rest \in Seq(Event)
        /\ Len(rest) = IF n + 1 <= Len(a) THEN Len(a) - (n + 1) + 1 ELSE 0
        /\ \A i \in 1..Len(a) - (n + 1) + 1 : rest[i] = a[n + 1 + i - 1]
    <3>1. n + 1 \in Int /\ Len(a) \in Int
      BY <1>0, <1>3
    <3> QED BY <2>1, <3>1, SubSeqProperties
  <2> HIDE DEF rest
  <2>3. Len(rest) = Len(w) - n
    BY <1>0, <1>3, <2>2
  <2>4. ASSUME NEW i \in 1..Len(w) - n PROVE rest[i] = a[n + i]
    <3>1. i \in 1..Len(a) - (n + 1) + 1 /\ n + 1 + i - 1 = n + i
      BY <1>0, <1>3
    <3> QED BY <2>2, <3>1
  <2> QED BY <2>2, <2>3, <2>4
<1> HIDE DEF rest
<1> DEFINE x == EventsOf(v) \o rest
<1>6. /\ x \in Seq(Event) /\ Len(x) = n + (Len(w) - n)
      /\ \A i \in 1..n : x[i] = EventsOf(v)[i]
      /\ \A i \in 1..Len(w) - n : x[n + i] = rest[i]
  <2> DEFINE z == EventsOf(v)
  <2>1. /\ x \in Seq(Event) /\ Len(x) = Len(z) + Len(rest)
        /\ \A i \in 1..Len(z) : x[i] = z[i]
        /\ \A i \in 1..Len(rest) : x[Len(z) + i] = rest[i]
    <3>1. z \in Seq(Event) /\ rest \in Seq(Event) /\ x = z \o rest
      BY <1>4, <1>5
    <3> HIDE DEF x, z
    <3> QED BY <3>1
  <2>2. Len(z) = n /\ Len(rest) = Len(w) - n
    BY <1>4, <1>5
  <2> HIDE DEF x, z
  <2>3. /\ x \in Seq(Event) /\ Len(x) = n + (Len(w) - n)
        /\ \A i \in 1..n : x[i] = z[i]
        /\ \A i \in 1..Len(w) - n : x[n + i] = rest[i]
    BY <2>1, <2>2
  <2> QED BY <2>3 DEF z
<1> HIDE DEF x
<1>7. Len(x) = Len(a)
  BY <1>0, <1>3, <1>6
<1>8. ASSUME NEW i \in 1..Len(a) PROVE a[i] = x[i]
  <2>1. CASE i \in 1..n
    BY <1>3, <1>4, <1>6, <2>1
  <2>2. CASE i \notin 1..n
    <3>1. i - n \in 1..Len(w) - n /\ n + (i - n) = i
      BY <1>0, <1>3, <2>2
    <3> QED BY <1>5, <1>6, <3>1, ZenonT(30)
  <2> QED BY <2>1, <2>2
<1>9. a = x
  BY <1>3, <1>6, <1>7, <1>8, SeqEqual
<1> QED BY <1>2, <1>5, <1>9 DEF a, x

-----------------------------------------------------------------------------
(* The inductive invariant *)

K(events) == OfKinds(events, Carried)

(* What is on its way, from the caller's end to the agent's. *)
InHand == IF reader.at = "deliver" THEN <<reader.held>> ELSE <<>>
OnWire == IF reader.at = "done" THEN <<>> ELSE EventsOf(wire)
Downstream == Delivered \o (InHand \o OnWire)
Tracked == IF tracker.at = "send" THEN <<tracker.held>> ELSE <<>>
Upstream == batch \o (Tracked \o queue)

Dead == conn = "broken" \/ bodyClosed
Flowing == handler = "serve" /\ ~Dead

AllCarried(events) == \A i \in 1..Len(events) : events[i].kind \in Carried
Past == {sent[j] : j \in 1..Len(sent)}
AllFrom(events, S) == \A i \in 1..Len(events) : events[i] \in S

(* Where the goroutines are, and what they hold there. *)
PlacesOK ==
    /\ tracker.at = "off" <=> ~traced
    /\ tracker.at = "send" => tracker.held \in Event
    /\ tracker.at = "done" => (over /\ queue = <<>>) \/ ctxDone
    /\ reader.at = "deliver" => reader.held \in Event /\ reader.held.kind \in Carried
    /\ AllCarried(Delivered)
    /\ reader.at = "done" <=> ending # "none"
    /\ reader.at = "done" => bodyClosed
    /\ conn = "ended" => handler = "done"
    /\ ctxDone => handler = "done" \/ Dead
    /\ AllFrom(batch, Past) /\ AllFrom(queue, Past)
    /\ tracker.at = "send" => tracker.held \in Past
    /\ Len(sent) <= MaxEvents
    /\ handler = "serve" => Len(batch) < BatchSize
    /\ reader.at \in {"check", "read"} => reader.held = NoEvent

(* While the stream flows nothing is missing; whatever happened, what reaches  *)
(* the caller begins what was sent.                                           *)
Begins(a, b) == \E c \in Seq(Event) : b = a \o c

OrderOK ==
    IF Flowing THEN K(Downstream \o Upstream) = K(sent) ELSE Begins(K(Downstream), K(sent))

(* The handler leaves its loop at the end of the events, or for an error. *)
EndOK ==
    handler # "serve" =>
        \/ Dead
        \/ \E i \in 1..Len(sent) : sent[i].kind = "bad"
        \/ over /\ K(Downstream) = K(sent)

MetricsOK ==
    /\ Len(recorded) = IF traced /\ handler \in {"finish", "done"} THEN 1 ELSE 0
    /\ errType /\ handler \in {"serve", "record"} => Dead
    /\ \A i \in 1..Len(recorded) : recorded[i].error => Dead
    /\ traced =>
          IF Flowing THEN FirstTokenOf(Downstream \o (batch \o Tracked)) = firstToken
          ELSE IF handler \in {"serve", "record"} THEN FirstTokenOf(Downstream) \in {0, firstToken}
          ELSE FirstTokenOf(Downstream) \in {0, recorded[1].firstToken}

IInv == TypeOK /\ PlacesOK /\ OrderOK /\ EndOK /\ MetricsOK

Seqs ==
    /\ Delivered \in Seq(Event) /\ InHand \in Seq(Event) /\ OnWire \in Seq(Event)
    /\ Downstream \in Seq(Event)
    /\ batch \in Seq(Event) /\ Tracked \in Seq(Event) /\ queue \in Seq(Event)
    /\ Upstream \in Seq(Event) /\ sent \in Seq(Event) /\ wire \in Seq(Framed)

LEMMA SeqsTyped == TypeOK /\ PlacesOK => Seqs
<1> SUFFICES ASSUME TypeOK, PlacesOK PROVE Seqs
  OBVIOUS
<1>1. /\ received \in Seq(Event) /\ chan \in Seq(Event) /\ wire \in Seq(Framed)
      /\ batch \in Seq(Event) /\ queue \in Seq(Event) /\ sent \in Seq(Event)
  BY DEF TypeOK, Framed
<1>2. Delivered \in Seq(Event)
  BY <1>1 DEF Delivered
<1>3. InHand \in Seq(Event)
  BY DEF PlacesOK, InHand
<1>4. OnWire \in Seq(Event)
  BY <1>1, EventsFacts DEF OnWire
<1>5. Tracked \in Seq(Event)
  BY DEF PlacesOK, Tracked
<1>6. Downstream \in Seq(Event)
  BY <1>2, <1>3, <1>4 DEF Downstream
<1>7. Upstream \in Seq(Event)
  BY <1>1, <1>5 DEF Upstream
<1> QED BY <1>1, <1>2, <1>3, <1>4, <1>5, <1>6, <1>7 DEF Seqs

LEMMA SeqsTypedNext == TypeOK' /\ PlacesOK' => Seqs'
  BY SeqsTyped, PTL

LEMMA KFacts ==
    /\ \A s \in Seq(Event) : K(s) \in Seq(Event)
    /\ \A s, t \in Seq(Event) : K(s \o t) = K(s) \o K(t)
    /\ K(<<>>) = <<>>
    /\ \A e \in Event : K(<<e>>) = IF e.kind \in Carried THEN <<e>> ELSE <<>>
<1>1. \A s \in Seq(Event) : OfKinds(s, Carried) \in Seq(Event)
  BY OfKindsTyped
<1>2. \A s, t \in Seq(Event) :
          OfKinds(s \o t, Carried) = OfKinds(s, Carried) \o OfKinds(t, Carried)
  BY OfKindsConcat
<1>3. OfKinds(<<>>, Carried) = <<>>
  BY OfKindsAppend
<1>4. \A e \in Event : OfKinds(<<e>>, Carried) = IF e.kind \in Carried THEN <<e>> ELSE <<>>
  BY OfKindsOne
<1> QED BY <1>1, <1>2, <1>3, <1>4 DEF K

LEMMA Assoc ==
    ASSUME NEW a \in Seq(Event), NEW b \in Seq(Event), NEW c \in Seq(Event)
    PROVE  /\ (a \o b) \o c = a \o (b \o c)
           /\ a \o b \in Seq(Event) /\ b \o c \in Seq(Event)
           /\ <<>> \o a = a /\ a \o <<>> = a
  BY ConcatAssociative, ConcatEmptySeq

LEMMA Regroup ==
    ASSUME NEW a \in Seq(Event), NEW b \in Seq(Event), NEW c \in Seq(Event)
    PROVE  a \o (b \o c) = (a \o b) \o c
  OBVIOUS

LEMMA Joined ==
    ASSUME NEW a \in Seq(Event), NEW b \in Seq(Event)
    PROVE  a \o b \in Seq(Event)
  OBVIOUS

LEMMA HeadThenTail ==
    ASSUME NEW s \in Seq(Event), s # <<>>
    PROVE  s = <<Head(s)>> \o Tail(s)
<1>1. Len(s) \in Nat /\ 1 \in 1..Len(s) /\ Len(s) \in 1..Len(s) /\ Head(s) = s[1] /\ 1 + 1 = 2
  OBVIOUS
<1>2. SubSeq(s, 1, Len(s)) = <<s[1]>> \o SubSeq(s, 1 + 1, Len(s))
  BY <1>1, SubSeqRecursiveFirst
<1>3. SubSeq(s, 1, Len(s)) = s /\ Tail(s) = SubSeq(s, 2, Len(s))
  BY SubSeqFull, TailIsSubSeq
<1> QED BY <1>1, <1>2, <1>3, Zenon

(* What the caller loses begins what it lost it from. *)
LEMMA LessBegins ==
    ASSUME NEW a \in Seq(Event), NEW b \in Seq(Event), NEW c \in Seq(Event), Begins(K(a \o b), c)
    PROVE  Begins(K(a), c)
<1>1. PICK d \in Seq(Event) : c = K(a \o b) \o d
  BY DEF Begins
<1>2. K(a) \in Seq(Event) /\ K(b) \in Seq(Event) /\ K(a \o b) = K(a) \o K(b)
  BY KFacts
<1>3. \A x, y \in Seq(Event) : (x \o y) \o d = x \o (y \o d) /\ y \o d \in Seq(Event)
  OBVIOUS
<1>4. K(b) \o d \in Seq(Event) /\ (K(a) \o K(b)) \o d = K(a) \o (K(b) \o d)
  BY <1>2, <1>3, Zenon
<1>5. c = K(a) \o (K(b) \o d)
  BY <1>1, <1>2, <1>4, Zenon
<1> QED BY <1>4, <1>5 DEF Begins

LEMMA LessFirst ==
    ASSUME NEW a \in Seq(Event), NEW b \in Seq(Event)
    PROVE  FirstTokenOf(a) \in {0, FirstTokenOf(a \o b)}
  BY FirstConcat

LEMMA SameFirst ==
    ASSUME NEW a \in Seq(Event), NEW b \in Seq(Event), NEW c \in Seq(Event),
           FirstTokenOf(a) = FirstTokenOf(b)
    PROVE  FirstTokenOf(a \o c) = FirstTokenOf(b \o c)
  BY FirstConcat

(* While the stream flows the caller's end begins what was sent as well. *)
LEMMA DownstreamBegins ==
    ASSUME IInv
    PROVE  Begins(K(Downstream), K(sent))
<1>1. Downstream \in Seq(Event) /\ Upstream \in Seq(Event) /\ sent \in Seq(Event)
  BY SeqsTyped DEF IInv, Seqs
<1>2. CASE Flowing
  <2>1. K(Downstream \o Upstream) = K(sent)
    BY <1>2 DEF IInv, OrderOK
  <2>2. K(Downstream \o Upstream) = K(Downstream) \o K(Upstream) /\ K(Upstream) \in Seq(Event)
    BY <1>1, KFacts
  <2> QED BY <2>1, <2>2 DEF Begins
<1>3. CASE ~Flowing
  BY <1>3 DEF IInv, OrderOK
<1> QED BY <1>2, <1>3

LEMMA DownstreamFirst ==
    ASSUME IInv, traced, handler \in {"serve", "record"}
    PROVE  FirstTokenOf(Downstream) \in {0, firstToken}
<1>1. Downstream \in Seq(Event) /\ batch \o Tracked \in Seq(Event)
  BY SeqsTyped DEF IInv, Seqs
<1>2. CASE Flowing
  <2>1. FirstTokenOf(Downstream \o (batch \o Tracked)) = firstToken
    BY <1>2 DEF IInv, MetricsOK
  <2> QED BY <1>1, <2>1, FirstConcat
<1>3. CASE ~Flowing
  BY <1>3 DEF IInv, MetricsOK
<1> QED BY <1>2, <1>3

-----------------------------------------------------------------------------
(* What a step of each party leaves alone *)

(* A step at the caller's end keeps what is there, or loses the end of it when  *)
(* the stream is dead.                                                        *)
LEMMA DownstreamMoves ==
    ASSUME IInv, TypeOK', PlacesOK', UNCHANGED <<agent, batch, tracker, queue, metrics, handler>>,
           Dead => Dead',
           \/ /\ K(Downstream') = K(Downstream)
              /\ FirstTokenOf(Downstream') = FirstTokenOf(Downstream)
           \/ (Dead' /\ \E c \in Seq(Event) : Downstream = Downstream' \o c)
    PROVE  IInv'
<1>1. /\ Downstream \in Seq(Event) /\ Upstream \in Seq(Event) /\ sent \in Seq(Event)
      /\ batch \o Tracked \in Seq(Event)
  BY SeqsTyped DEF IInv, Seqs
<1>2. Downstream' \in Seq(Event)
  BY SeqsTypedNext DEF Seqs
<1>3. /\ Upstream' = Upstream /\ Tracked' = Tracked /\ batch' = batch /\ sent' = sent
      /\ over' = over /\ handler' = handler /\ traced' = traced /\ recorded' = recorded
      /\ errType' = errType /\ firstToken' = firstToken
  BY DEF agent, metrics, Upstream, Tracked
<1>4. Begins(K(Downstream'), K(sent))
  <2>1. CASE K(Downstream') = K(Downstream)
    BY <2>1, DownstreamBegins
  <2>2. CASE \E c \in Seq(Event) : Downstream = Downstream' \o c
    <3>1. PICK c \in Seq(Event) : Downstream = Downstream' \o c
      BY <2>2
    <3>2. Begins(K(Downstream' \o c), K(sent))
      BY <3>1, DownstreamBegins, Zenon
    <3>3. K(sent) \in Seq(Event)
      BY <1>1, KFacts
    <3> QED BY <1>2, <3>2, <3>3, LessBegins
  <2> QED BY <2>1, <2>2
<1>5. FirstTokenOf(Downstream') \in {0, FirstTokenOf(Downstream)}
  <2>1. CASE FirstTokenOf(Downstream') = FirstTokenOf(Downstream)
    BY <2>1
  <2>2. CASE \E c \in Seq(Event) : Downstream = Downstream' \o c
    <3>1. PICK c \in Seq(Event) : Downstream = Downstream' \o c
      BY <2>2
    <3>2. FirstTokenOf(Downstream') \in {0, FirstTokenOf(Downstream' \o c)}
      BY <1>2, LessFirst, Zenon
    <3> QED BY <3>1, <3>2, Zenon
  <2> QED BY <2>1, <2>2
<1>6. OrderOK'
  <2>1. CASE Flowing'
    <3>1. Flowing
      BY <1>3, <2>1 DEF Flowing
    <3>2. K(Downstream \o Upstream) = K(sent)
      BY <3>1 DEF IInv, OrderOK
    <3>3. K(Downstream') = K(Downstream)
      BY <2>1 DEF Flowing
    <3>4. /\ K(Downstream \o Upstream) = K(Downstream) \o K(Upstream)
          /\ K(Downstream' \o Upstream) = K(Downstream') \o K(Upstream)
      BY <1>1, <1>2, KFacts
    <3>5. K(Downstream' \o Upstream') = K(sent')
      BY <1>3, <3>2, <3>3, <3>4, Zenon
    <3> QED BY <2>1, <3>5 DEF OrderOK
  <2>2. CASE ~Flowing'
    BY <1>3, <1>4, <2>2 DEF OrderOK
  <2> QED BY <2>1, <2>2
<1>7. EndOK'
  <2> SUFFICES ASSUME handler # "serve", ~Dead', ~(\E i \in 1..Len(sent) : sent[i].kind = "bad")
               PROVE  over /\ K(Downstream') = K(sent)
    BY <1>3 DEF EndOK
  <2>1. over /\ K(Downstream) = K(sent)
    BY DEF IInv, EndOK
  <2> QED BY <2>1
<1>8. MetricsOK'
  <2>1. /\ Len(recorded') = IF traced' /\ handler' \in {"finish", "done"} THEN 1 ELSE 0
        /\ errType' /\ handler' \in {"serve", "record"} => Dead'
        /\ \A i \in 1..Len(recorded') : recorded'[i].error => Dead'
    BY <1>3 DEF IInv, MetricsOK
  <2>2. ASSUME traced, Flowing'
        PROVE  FirstTokenOf(Downstream' \o (batch \o Tracked)) = firstToken
    <3>1. Flowing
      BY <1>3, <2>2 DEF Flowing
    <3>2. FirstTokenOf(Downstream \o (batch \o Tracked)) = firstToken
      BY <2>2, <3>1 DEF IInv, MetricsOK
    <3>3. FirstTokenOf(Downstream') = FirstTokenOf(Downstream)
      BY <2>2 DEF Flowing
    <3>4. FirstTokenOf(Downstream' \o (batch \o Tracked)) = FirstTokenOf(Downstream \o (batch \o Tracked))
      BY <1>1, <1>2, <3>3, SameFirst, Zenon
    <3> QED BY <3>2, <3>4, Zenon
  <2>3. ASSUME traced, ~Flowing', handler \in {"serve", "record"}
        PROVE  FirstTokenOf(Downstream') \in {0, firstToken}
    <3>1. FirstTokenOf(Downstream) \in {0, firstToken}
      BY <2>3, DownstreamFirst
    <3> QED BY <1>5, <3>1
  <2>4. ASSUME traced, ~Flowing', handler \notin {"serve", "record"}
        PROVE  FirstTokenOf(Downstream') \in {0, recorded[1].firstToken}
    <3>1. FirstTokenOf(Downstream) \in {0, recorded[1].firstToken}
      BY <2>4 DEF IInv, MetricsOK, Flowing
    <3> QED BY <1>5, <3>1
  <2>5. traced' =>
          IF Flowing' THEN FirstTokenOf(Downstream' \o (batch' \o Tracked')) = firstToken'
          ELSE IF handler' \in {"serve", "record"} THEN FirstTokenOf(Downstream') \in {0, firstToken'}
          ELSE FirstTokenOf(Downstream') \in {0, recorded'[1].firstToken}
    <3>1. CASE Flowing'
      BY <1>3, <2>2, <3>1
    <3>2. CASE ~Flowing' /\ handler \in {"serve", "record"}
      BY <1>3, <2>3, <3>2
    <3>3. CASE ~Flowing' /\ handler \notin {"serve", "record"}
      BY <1>3, <2>4, <3>3
    <3> QED BY <3>1, <3>2, <3>3
  <2> QED BY <2>1, <2>5 DEF MetricsOK
<1> QED BY <1>6, <1>7, <1>8 DEF IInv

(* A step of the tracker that keeps what is on its way while the stream flows. *)
LEMMA TrackerMoves ==
    ASSUME IInv, TypeOK', PlacesOK',
           UNCHANGED <<agent, recorded, batch, handler, network, client>>,
           Flowing => Upstream' = Upstream,
           errType' = errType \/ Dead \/ handler = "done",
           traced /\ Flowing => FirstTokenOf(Downstream \o (batch \o Tracked')) = firstToken',
           firstToken' = firstToken \/ firstToken = 0
    PROVE  IInv'
<1>1. /\ Downstream' = Downstream /\ (Dead' <=> Dead) /\ (Flowing' <=> Flowing)
      /\ traced' = traced /\ sent' = sent /\ over' = over
      /\ recorded' = recorded /\ batch' = batch /\ handler' = handler
  BY DEF agent, network, client, Downstream, Delivered, InHand, OnWire, Dead, Flowing
<1>2. OrderOK'
  <2>1. CASE Flowing
    <3>1. K(Downstream \o Upstream) = K(sent)
      BY <2>1 DEF IInv, OrderOK
    <3>2. K(Downstream' \o Upstream') = K(sent')
      BY <1>1, <2>1, <3>1, Zenon
    <3> QED BY <1>1, <2>1, <3>2 DEF OrderOK
  <2>2. CASE ~Flowing
    <3>1. Begins(K(Downstream), K(sent))
      BY DownstreamBegins
    <3> QED BY <1>1, <2>2, <3>1 DEF OrderOK
  <2> QED BY <2>1, <2>2
<1>3. EndOK'
  <2>1. EndOK
    BY DEF IInv
  <2> QED BY <1>1, <2>1 DEF EndOK
<1>4. MetricsOK'
  <2>1. /\ Len(recorded') = IF traced' /\ handler' \in {"finish", "done"} THEN 1 ELSE 0
        /\ errType' /\ handler' \in {"serve", "record"} => Dead'
        /\ \A i \in 1..Len(recorded') : recorded'[i].error => Dead'
    BY <1>1 DEF IInv, MetricsOK
  <2>2. ASSUME traced, ~Flowing, handler \in {"serve", "record"}
        PROVE  FirstTokenOf(Downstream) \in {0, firstToken'}
    BY <2>2, DownstreamFirst
  <2>3. ASSUME traced, ~Flowing, handler \notin {"serve", "record"}
        PROVE  FirstTokenOf(Downstream) \in {0, recorded[1].firstToken}
    BY <2>3 DEF IInv, MetricsOK
  <2>4. traced' =>
          IF Flowing' THEN FirstTokenOf(Downstream' \o (batch' \o Tracked')) = firstToken'
          ELSE IF handler' \in {"serve", "record"} THEN FirstTokenOf(Downstream') \in {0, firstToken'}
          ELSE FirstTokenOf(Downstream') \in {0, recorded'[1].firstToken}
    <3>1. CASE Flowing
      BY <1>1, <3>1
    <3>2. CASE ~Flowing /\ handler \in {"serve", "record"}
      BY <1>1, <2>2, <3>2
    <3>3. CASE ~Flowing /\ handler \notin {"serve", "record"}
      BY <1>1, <2>3, <3>3
    <3> QED BY <3>1, <3>2, <3>3
  <2> QED BY <2>1, <2>4 DEF MetricsOK
<1> QED BY <1>2, <1>3, <1>4 DEF IInv

-----------------------------------------------------------------------------
(* The agent *)

LEMMA PublishKeeps ==
    ASSUME IInv, NEW kind \in Kinds, Publish(kind)
    PROVE  IInv'
<1> DEFINE e == [id |-> Len(sent) + 1, kind |-> kind]
<1>1. /\ TypeOK /\ PlacesOK /\ OrderOK /\ EndOK /\ MetricsOK /\ Seqs
  BY SeqsTyped DEF IInv
<1>2. /\ ~over /\ Len(sent) < MaxEvents /\ Len(queue) < QueueSize
      /\ sent' = Append(sent, e) /\ queue' = Append(queue, e)
      /\ UNCHANGED <<traced, over, metrics, server, ctxDone, network, client>>
  BY DEF Publish
<1>3. e \in Event
  <2>1. Len(sent) + 1 \in 1..MaxEvents
    BY <1>1, <1>2, BoundsAssumption DEF Seqs
  <2> QED BY <2>1 DEF Event
<1> HIDE DEF e
<1>4. /\ sent' \in Seq(Event) /\ Len(sent') = Len(sent) + 1 /\ Len(sent) \in Nat
      /\ \A i \in 1..Len(sent) : sent'[i] = sent[i]
      /\ sent'[Len(sent) + 1] = e
  BY <1>1, <1>2, <1>3 DEF Seqs
<1>5. /\ queue' \in Seq(Event) /\ Len(queue') = Len(queue) + 1 /\ Len(queue) \in Nat
      /\ \A i \in 1..Len(queue) : queue'[i] = queue[i]
      /\ queue'[Len(queue) + 1] = e
  BY <1>1, <1>2, <1>3 DEF Seqs
<1>6. /\ Downstream' = Downstream /\ Tracked' = Tracked /\ batch' = batch
      /\ Delivered' = Delivered /\ tracker' = tracker /\ reader' = reader
      /\ handler' = handler /\ (Dead' <=> Dead) /\ (Flowing' <=> Flowing)
      /\ traced' = traced /\ over' = over /\ conn' = conn /\ ctxDone' = ctxDone
      /\ errType' = errType /\ firstToken' = firstToken /\ recorded' = recorded
      /\ ending' = ending /\ bodyClosed' = bodyClosed
  BY <1>2 DEF metrics, server, network, client, Downstream, Delivered, InHand, OnWire,
              Tracked, Dead, Flowing
<1>7. TypeOK'
  <2>1. Len(queue') <= QueueSize
    BY <1>2, <1>5, BoundsAssumption
  <2> QED BY <1>1, <1>2, <1>4, <1>5, <2>1 DEF TypeOK, metrics, server, network, client
<1>8. Past \subseteq Past' /\ e \in Past'
  <2>1. ASSUME NEW j \in 1..Len(sent) PROVE sent[j] \in Past'
    <3>1. j \in 1..Len(sent') /\ sent'[j] = sent[j]
      BY <1>4
    <3> QED BY <3>1 DEF Past
  <2>2. Len(sent) + 1 \in 1..Len(sent')
    BY <1>4
  <2> QED BY <1>4, <2>1, <2>2 DEF Past
<1>9. PlacesOK'
  <2>1. AllFrom(batch', Past')
    BY <1>1, <1>6, <1>8 DEF PlacesOK, AllFrom
  <2>2. AllFrom(queue', Past')
    <3>1. ASSUME NEW i \in 1..Len(queue') PROVE queue'[i] \in Past'
      <4>1. CASE i = Len(queue) + 1
        BY <1>5, <1>8, <4>1
      <4>2. CASE i # Len(queue) + 1
        <5>1. i \in 1..Len(queue)
          BY <1>5, <4>2
        <5>2. queue[i] \in Past
          BY <1>1, <5>1 DEF PlacesOK, AllFrom
        <5> QED BY <1>5, <1>8, <5>1, <5>2
      <4> QED BY <4>1, <4>2
    <3> QED BY <3>1 DEF AllFrom
  <2>3. tracker'.at = "send" => tracker'.held \in Past'
    BY <1>1, <1>6, <1>8 DEF PlacesOK
  <2>4. Len(sent') <= MaxEvents
    BY <1>2, <1>4, BoundsAssumption
  <2> QED BY <1>1, <1>2, <1>6, <2>1, <2>2, <2>3, <2>4 DEF PlacesOK
<1>10. /\ K(sent') = K(sent) \o K(<<e>>) /\ K(<<e>>) \in Seq(Event) /\ <<e>> \in Seq(Event)
  <2>1. <<e>> \in Seq(Event)
    BY <1>3
  <2>2. sent' = sent \o <<e>>
    BY <1>1, <1>2, <1>3, AppendIsConcat DEF Seqs
  <2> QED BY <1>1, <2>1, <2>2, KFacts, Zenon DEF Seqs
<1>11. OrderOK'
  <2>1. CASE Flowing
    <3>1. K(Downstream \o Upstream) = K(sent)
      BY <1>1, <2>1 DEF OrderOK
    <3>2. Upstream' = Upstream \o <<e>>
      <4>1. queue' = queue \o <<e>>
        BY <1>1, <1>2, <1>3, AppendIsConcat DEF Seqs
      <4>2. Tracked \o (queue \o <<e>>) = (Tracked \o queue) \o <<e>>
        <5>1. Tracked \in Seq(Event) /\ queue \in Seq(Event) /\ <<e>> \in Seq(Event)
          BY <1>1, <1>10 DEF Seqs
        <5> QED BY <5>1, Regroup, Zenon
      <4>3. batch \o ((Tracked \o queue) \o <<e>>) = (batch \o (Tracked \o queue)) \o <<e>>
        <5>1. Tracked \in Seq(Event) /\ queue \in Seq(Event)
          BY <1>1 DEF Seqs
        <5>2. Tracked \o queue \in Seq(Event) /\ batch \in Seq(Event) /\ <<e>> \in Seq(Event)
          BY <1>1, <1>10, <5>1 DEF Seqs
        <5> QED BY <5>2, Regroup, Zenon
      <4>4. Upstream' = batch \o (Tracked \o queue')
        BY <1>6 DEF Upstream
      <4> QED BY <4>1, <4>2, <4>3, <4>4, Zenon DEF Upstream
    <3>3. Downstream \o (Upstream \o <<e>>) = (Downstream \o Upstream) \o <<e>>
      <4>1. Downstream \in Seq(Event) /\ Upstream \in Seq(Event) /\ <<e>> \in Seq(Event)
        BY <1>1, <1>10 DEF Seqs
      <4> QED BY <4>1, Regroup, Zenon
    <3>4. K((Downstream \o Upstream) \o <<e>>) = K(Downstream \o Upstream) \o K(<<e>>)
      <4>1. Downstream \in Seq(Event) /\ Upstream \in Seq(Event)
        BY <1>1 DEF Seqs
      <4>2. Downstream \o Upstream \in Seq(Event)
        BY <4>1
      <4> QED BY <1>10, <4>2, KFacts, Zenon
    <3>5. K(Downstream' \o Upstream') = K(sent')
      BY <1>6, <1>10, <3>1, <3>2, <3>3, <3>4, Zenon
    <3> QED BY <1>6, <2>1, <3>5 DEF OrderOK
  <2>2. CASE ~Flowing
    <3>1. PICK c \in Seq(Event) : K(sent) = K(Downstream) \o c
      BY DownstreamBegins DEF Begins
    <3>2. K(Downstream) \in Seq(Event)
      BY <1>1, KFacts DEF Seqs
    <3>3. (K(Downstream) \o c) \o K(<<e>>) = K(Downstream) \o (c \o K(<<e>>))
      BY <1>10, <3>2, Regroup, Zenon
    <3>4. c \o K(<<e>>) \in Seq(Event)
      BY <1>10
    <3>5. K(sent') = K(Downstream') \o (c \o K(<<e>>))
      BY <1>6, <1>10, <3>1, <3>3, Zenon
    <3>6. Begins(K(Downstream'), K(sent'))
      BY <3>4, <3>5 DEF Begins
    <3> QED BY <1>6, <2>2, <3>6 DEF OrderOK
  <2> QED BY <2>1, <2>2
<1>12. EndOK'
  <2>1. (\E i \in 1..Len(sent) : sent[i].kind = "bad") =>
            \E i \in 1..Len(sent') : sent'[i].kind = "bad"
    BY <1>4
  <2> QED BY <1>1, <1>2, <1>6, <2>1 DEF EndOK
<1>13. MetricsOK'
  BY <1>1, <1>6 DEF MetricsOK
<1> QED BY <1>7, <1>9, <1>11, <1>12, <1>13 DEF IInv

(* A step that changes none of what the invariant relates. *)
LEMMA EndStreamKeeps ==
    ASSUME IInv, EndStream
    PROVE  IInv'
<1>1. /\ TypeOK /\ PlacesOK /\ OrderOK /\ EndOK /\ MetricsOK /\ Seqs
  BY SeqsTyped DEF IInv
<1>2. /\ over' = TRUE
      /\ UNCHANGED <<traced, sent, queue, metrics, server, ctxDone, network, client>>
  BY DEF EndStream
<1>3. /\ Downstream' = Downstream /\ Upstream' = Upstream /\ Tracked' = Tracked /\ batch' = batch
      /\ Delivered' = Delivered /\ tracker' = tracker /\ reader' = reader /\ queue' = queue
      /\ handler' = handler /\ (Dead' <=> Dead) /\ (Flowing' <=> Flowing) /\ sent' = sent
      /\ traced' = traced /\ conn' = conn /\ ctxDone' = ctxDone
      /\ errType' = errType /\ firstToken' = firstToken /\ recorded' = recorded
      /\ ending' = ending /\ bodyClosed' = bodyClosed
  BY <1>2 DEF metrics, server, network, client, Downstream, Upstream, Delivered, InHand, OnWire,
              Tracked, Dead, Flowing
<1>4. TypeOK'
  BY <1>1, <1>2 DEF TypeOK, metrics, server, network, client
<1>5. PlacesOK'
  <2>1. Past' = Past
    BY <1>2 DEF Past
  <2> QED BY <1>1, <1>2, <1>3, <2>1 DEF PlacesOK
<1>6. OrderOK' /\ EndOK' /\ MetricsOK'
  BY <1>1, <1>2, <1>3 DEF OrderOK, EndOK, MetricsOK
<1> QED BY <1>4, <1>5, <1>6 DEF IInv

-----------------------------------------------------------------------------
(* The tracker *)

LEMMA TrackerReceiveKeeps ==
    ASSUME IInv, TrackerReceive
    PROVE  IInv'
<1> DEFINE e == Head(queue)
           rest == Tail(queue)
<1>1. /\ TypeOK /\ PlacesOK /\ OrderOK /\ EndOK /\ MetricsOK /\ Seqs
  BY SeqsTyped DEF IInv
<1>2. /\ tracker.at = "receive" /\ queue # <<>>
      /\ tracker' = [at |-> "send", held |-> e] /\ queue' = rest
      /\ firstToken' = IF firstToken = 0 /\ e.kind = "token" THEN e.id ELSE firstToken
      /\ UNCHANGED <<agent, errType, recorded, batch, handler, ctxDone, network, client>>
  BY DEF TrackerReceive, onEvent
<1>3. /\ e \in Event /\ rest \in Seq(Event) /\ Len(rest) = Len(queue) - 1 /\ Len(queue) \in Nat
      /\ e = queue[1] /\ Len(queue) >= 1
      /\ \A i \in 1..Len(rest) : rest[i] = queue[i + 1]
  BY <1>1, <1>2, HeadTailProperties DEF Seqs
<1>4. queue = <<e>> \o rest
  <2>1. queue \in Seq(Event)
    BY <1>1 DEF Seqs
  <2> QED BY <1>2, <2>1, HeadThenTail, Zenon
<1> HIDE DEF e, rest
<1>5. Tracked = <<>> /\ Tracked' = <<e>> /\ <<e>> \in Seq(Event)
  BY <1>2, <1>3 DEF Tracked
<1>6. e.id \in 1..MaxEvents /\ firstToken' \in 0..MaxEvents
  <2>1. e.id \in 1..MaxEvents
    BY <1>3 DEF Event
  <2> QED BY <1>1, <1>2, <2>1, BoundsAssumption DEF TypeOK
<1>7. TypeOK'
  BY <1>1, <1>2, <1>3, <1>6, BoundsAssumption DEF TypeOK, agent, network, client
<1>8. PlacesOK'
  <2>1. Past' = Past
    BY <1>2 DEF Past, agent
  <2>2. e \in Past /\ AllFrom(rest, Past)
    <3>1. \A i \in 1..Len(queue) : queue[i] \in Past
      BY <1>1 DEF PlacesOK, AllFrom
    <3>2. \A i \in 1..Len(rest) : i + 1 \in 1..Len(queue)
      BY <1>3
    <3> QED BY <1>3, <3>1, <3>2 DEF AllFrom
  <2>3. Delivered' = Delivered /\ (Dead' <=> Dead)
    BY <1>2 DEF network, client, Delivered, Dead
  <2>4. /\ tracker.at # "off" /\ tracker'.at = "send" /\ tracker'.held = e
        /\ queue' = rest /\ traced' = traced /\ sent' = sent /\ batch' = batch
        /\ reader' = reader /\ ending' = ending /\ bodyClosed' = bodyClosed /\ conn' = conn
        /\ ctxDone' = ctxDone /\ handler' = handler
    BY <1>2 DEF agent, network, client
  <2> QED BY <1>1, <1>3, <2>1, <2>2, <2>3, <2>4 DEF PlacesOK
<1>9. Upstream' = Upstream
  <2>1. Upstream = batch \o (<<>> \o queue) /\ Upstream' = batch \o (<<e>> \o rest)
    BY <1>2, <1>5 DEF Upstream
  <2>2. <<>> \o queue = queue
    BY <1>1, ConcatEmptySeq DEF Seqs
  <2> QED BY <1>4, <2>1, <2>2, Zenon
<1>10. Flowing => FirstTokenOf(Downstream \o (batch \o <<e>>)) = firstToken'
  <2> SUFFICES ASSUME Flowing PROVE FirstTokenOf(Downstream \o (batch \o <<e>>)) = firstToken'
    OBVIOUS
  <2>1. FirstTokenOf(Downstream \o (batch \o <<>>)) = firstToken
    BY <1>1, <1>2, <1>5 DEF PlacesOK, MetricsOK
  <2>2. Downstream \in Seq(Event) /\ batch \in Seq(Event)
    BY <1>1 DEF Seqs
  <2>3. batch \o <<>> = batch
    BY <2>2, ConcatEmptySeq
  <2>4. FirstTokenOf(Downstream \o batch) = firstToken
    BY <2>1, <2>3, Zenon
  <2>5. Downstream \o (batch \o <<e>>) = (Downstream \o batch) \o <<e>>
    BY <1>5, <2>2, Regroup, Zenon
  <2>6. Downstream \o batch \in Seq(Event)
    BY <2>2
  <2>7. FirstTokenOf((Downstream \o batch) \o <<e>>) =
            IF FirstTokenOf(Downstream \o batch) # 0 THEN FirstTokenOf(Downstream \o batch)
            ELSE FirstTokenOf(<<e>>)
    BY <1>5, <2>6, FirstConcat, Zenon
  <2>8. FirstTokenOf(<<e>>) = IF e.kind = "token" THEN e.id ELSE 0
    BY <1>3, FirstOne
  <2>9. FirstTokenOf((Downstream \o batch) \o <<e>>) =
            IF firstToken # 0 THEN firstToken ELSE IF e.kind = "token" THEN e.id ELSE 0
    BY <2>4, <2>7, <2>8
  <2>10. firstToken' = IF firstToken # 0 THEN firstToken ELSE IF e.kind = "token" THEN e.id ELSE 0
    BY <1>2
  <2> QED BY <2>5, <2>9, <2>10, Zenon
<1>11. firstToken' = firstToken \/ firstToken = 0
  BY <1>2
<1>12. FirstTokenOf(Downstream \o (batch \o Tracked')) = firstToken' \/ ~Flowing
  BY <1>5, <1>10, Zenon
<1> QED BY <1>2, <1>7, <1>8, <1>9, <1>11, <1>12, TrackerMoves

(* A tracker that stops held nothing, or the stream is dead or over. *)
LEMMA TrackerStops ==
    ASSUME IInv, tracker' = [at |-> "done", held |-> NoEvent], tracker.at # "off",
           UNCHANGED <<agent, queue, firstToken, recorded, batch, handler, ctxDone, network, client>>,
           errType' \in BOOLEAN, errType' = errType \/ ctxDone,
           tracker.at = "receive" \/ ctxDone, (over /\ queue = <<>>) \/ ctxDone
    PROVE  IInv'
<1>1. /\ TypeOK /\ PlacesOK /\ OrderOK /\ EndOK /\ MetricsOK /\ Seqs
  BY SeqsTyped DEF IInv
<1>2. ctxDone => handler = "done" \/ Dead
  BY <1>1 DEF PlacesOK
<1>3. TypeOK'
  BY <1>1 DEF TypeOK, agent, network, client
<1>4. PlacesOK'
  <2>1. Past' = Past /\ Delivered' = Delivered /\ (Dead' <=> Dead)
    BY DEF Past, agent, network, client, Delivered, Dead
  <2> QED BY <1>1, <2>1 DEF PlacesOK, agent, network, client
<1>5. Tracked' = <<>> /\ (Flowing => Tracked = <<>>)
  BY <1>2 DEF Tracked, Flowing
<1>6. Flowing => Upstream' = Upstream
  BY <1>5 DEF Upstream
<1>7. errType' = errType \/ Dead \/ handler = "done"
  BY <1>2
<1>8. traced /\ Flowing => FirstTokenOf(Downstream \o (batch \o Tracked')) = firstToken'
  <2>1. traced /\ Flowing => FirstTokenOf(Downstream \o (batch \o Tracked)) = firstToken
    BY <1>1 DEF MetricsOK
  <2> QED BY <1>5, <2>1
<1> QED BY <1>3, <1>4, <1>6, <1>7, <1>8, TrackerMoves

LEMMA TrackerEndKeeps == ASSUME IInv, TrackerEnd PROVE IInv'
<1>1. /\ tracker.at = "receive" /\ queue = <<>> /\ over
      /\ tracker' = [at |-> "done", held |-> NoEvent]
      /\ UNCHANGED <<agent, queue, metrics, batch, handler, ctxDone, network, client>>
  BY DEF TrackerEnd
<1>2. errType' = errType /\ errType \in BOOLEAN /\ firstToken' = firstToken /\ recorded' = recorded
  BY <1>1 DEF metrics, IInv, TypeOK
<1> QED BY <1>1, <1>2, TrackerStops

LEMMA TrackerCancelledKeeps == ASSUME IInv, TrackerCancelled PROVE IInv'
<1>1. /\ tracker.at \in {"receive", "send"} /\ ctxDone /\ errType' = TRUE
      /\ tracker' = [at |-> "done", held |-> NoEvent]
      /\ UNCHANGED <<agent, queue, firstToken, recorded, batch, handler, ctxDone, network, client>>
  BY DEF TrackerCancelled
<1> QED BY <1>1, TrackerStops

-----------------------------------------------------------------------------
(* The client and its connection *)

LEMMA PlacesKept ==
    ASSUME PlacesOK, UNCHANGED <<agent, queue, metrics, server>>,
           Dead => Dead', conn' = "ended" => conn = "ended", ctxDone' => ctxDone \/ Dead',
           AllCarried(Delivered'),
           reader'.at = "deliver" => reader'.held \in Event /\ reader'.held.kind \in Carried,
           reader'.at = "done" <=> ending' # "none",
           reader'.at = "done" => bodyClosed',
           reader'.at \in {"check", "read"} => reader'.held = NoEvent,
           tracker.at = "done" => ctxDone' \/ (over /\ queue = <<>>) \/ ~ctxDone
    PROVE  PlacesOK'
<1>1. /\ tracker' = tracker /\ queue' = queue /\ over' = over /\ traced' = traced
      /\ batch' = batch /\ handler' = handler /\ sent' = sent /\ Past' = Past
  BY DEF agent, server, Past
<1> QED BY <1>1 DEF PlacesOK

(* The reader stops: what it held and what is left on the wire are lost. *)
LEMMA StopKeeps ==
    ASSUME IInv, reader.at # "done", NEW why \in {"eof", "error", "cancelled"}, Stop(why),
           UNCHANGED <<agent, queue, metrics, server, ctxDone, network, cancelled, chan, received>>
    PROVE  IInv'
<1>1. TypeOK /\ PlacesOK /\ Seqs
  BY SeqsTyped DEF IInv
<1>2. reader' = [at |-> "done", held |-> NoEvent] /\ bodyClosed' = TRUE /\ ending' = why
  BY DEF Stop
<1>3. TypeOK'
  BY <1>1, <1>2 DEF TypeOK, agent, metrics, server, network
<1>4. Delivered' = Delivered /\ Dead'
  BY <1>2 DEF Delivered, Dead
<1>5. PlacesOK'
  BY <1>1, <1>2, <1>4, PlacesKept DEF PlacesOK, network
<1>6. Downstream' = Delivered
  <2>1. Downstream' = Delivered \o (<<>> \o <<>>)
    BY <1>2, <1>4 DEF Downstream, InHand, OnWire
  <2>2. <<>> \o <<>> = <<>> /\ Delivered \o <<>> = Delivered
    BY <1>1, ConcatEmptySeq DEF Seqs
  <2> QED BY <2>1, <2>2, Zenon
<1>7. Downstream = Downstream' \o (InHand \o OnWire)
  BY <1>6, Zenon DEF Downstream
<1>8. InHand \o OnWire \in Seq(Event)
  BY <1>1 DEF Seqs
<1>9. \E c \in Seq(Event) : Downstream = Downstream' \o c
  BY <1>7, <1>8, Zenon
<1> QED BY <1>3, <1>4, <1>5, <1>9, DownstreamMoves DEF server

(* A step that moves nothing of what is on its way. *)
LEMMA StillKeeps ==
    ASSUME IInv, TypeOK', UNCHANGED <<agent, queue, metrics, server, wire, chan, received, ending>>,
           Dead => Dead', conn' = conn, ctxDone' => ctxDone \/ Dead', ctxDone => ctxDone',
           bodyClosed => bodyClosed', reader'.held = reader.held,
           reader' = reader \/ (reader.at = "check" /\ reader'.at = "read")
    PROVE  IInv'
<1>1. TypeOK /\ PlacesOK /\ Seqs
  BY SeqsTyped DEF IInv
<1>2. Delivered' = Delivered
  BY DEF Delivered
<1>3. PlacesOK'
  <2>1. /\ AllCarried(Delivered')
        /\ reader'.at = "deliver" => reader'.held \in Event /\ reader'.held.kind \in Carried
        /\ reader'.at = "done" <=> ending' # "none"
        /\ reader'.at = "done" => bodyClosed'
        /\ reader'.at \in {"check", "read"} => reader'.held = NoEvent
        /\ tracker.at = "done" => ctxDone' \/ (over /\ queue = <<>>) \/ ~ctxDone
    BY <1>1, <1>2 DEF PlacesOK
  <2> QED BY <1>1, <2>1, PlacesKept
<1>4. InHand' = InHand /\ OnWire' = OnWire
  BY DEF InHand, OnWire
<1>5. Downstream' = Downstream
  BY <1>2, <1>4 DEF Downstream
<1> QED BY <1>3, <1>5, DownstreamMoves DEF server

LEMMA CheckContextKeeps == ASSUME IInv, CheckContext PROVE IInv'
<1>1. CASE cancelled
  <2>1. Stop("cancelled") /\ reader.at = "check"
    BY <1>1 DEF CheckContext
  <2>2. UNCHANGED <<agent, queue, metrics, server, ctxDone, network, cancelled, chan, received>>
    BY DEF CheckContext
  <2> QED BY <2>1, <2>2, StopKeeps
<1>2. CASE ~cancelled
  <2>1. /\ reader.at = "check" /\ reader' = [reader EXCEPT !.at = "read"]
        /\ UNCHANGED <<bodyClosed, ending>>
        /\ UNCHANGED <<agent, queue, metrics, server, ctxDone, network, cancelled, chan, received>>
    BY <1>2 DEF CheckContext
  <2>2. TypeOK
    BY DEF IInv
  <2>3. /\ reader' \in [at : {"check", "read", "deliver", "done"}, held : Event \cup {NoEvent}]
        /\ reader'.at = "read" /\ reader'.held = reader.held
    BY <2>1, <2>2 DEF TypeOK
  <2>5. TypeOK'
    BY <2>1, <2>2, <2>3 DEF TypeOK, agent, metrics, server, network
  <2>4. (Dead' <=> Dead) /\ wire' = wire /\ conn' = conn
    BY <2>1 DEF Dead, network
  <2> QED BY <2>1, <2>3, <2>4, <2>5, StillKeeps
<1> QED BY <1>1, <1>2

LEMMA ReadEndsKeeps == ASSUME IInv, ReadEnds PROVE IInv'
<1>1. /\ reader.at = "read"
      /\ \E why \in {"eof", "error", "cancelled"} : Stop(why)
      /\ UNCHANGED <<agent, queue, metrics, server, ctxDone, network, cancelled, chan, received>>
  BY DEF ReadEnds
<1> QED BY <1>1, StopKeeps

LEMMA GiveUpKeeps == ASSUME IInv, GiveUp PROVE IInv'
<1>1. /\ reader.at = "deliver" /\ Stop("cancelled")
      /\ UNCHANGED <<agent, queue, metrics, server, ctxDone, network, cancelled, chan, received>>
  BY DEF GiveUp
<1> QED BY <1>1, StopKeeps

LEMMA CloseBodyKeeps == ASSUME IInv, CloseBody PROVE IInv'
<1>1. /\ bodyClosed' = TRUE
      /\ UNCHANGED <<agent, queue, metrics, server, ctxDone, network,
                     cancelled, reader, chan, received, ending>>
  BY DEF CloseBody
<1>2. TypeOK'
  BY <1>1 DEF IInv, TypeOK, agent, metrics, server, network
<1>3. Dead' /\ wire' = wire /\ conn' = conn
  BY <1>1 DEF Dead, network
<1>4. UNCHANGED <<agent, queue, metrics, server, wire, chan, received, ending>> /\ reader' = reader
  BY <1>1, <1>3
<1>5. /\ (Dead => Dead') /\ conn' = conn /\ (ctxDone' => ctxDone \/ Dead') /\ (ctxDone => ctxDone')
      /\ (bodyClosed => bodyClosed') /\ reader'.held = reader.held
  BY <1>1, <1>3
<1> QED BY <1>2, <1>4, <1>5, StillKeeps, Zenon

LEMMA CancelKeeps == ASSUME IInv, Cancel PROVE IInv'
<1>1. /\ cancelled' = TRUE
      /\ UNCHANGED <<agent, queue, metrics, server, ctxDone, network,
                     bodyClosed, reader, chan, received, ending>>
  BY DEF Cancel
<1>2. TypeOK'
  BY <1>1 DEF IInv, TypeOK, agent, metrics, server, network
<1>3. (Dead' <=> Dead) /\ wire' = wire /\ conn' = conn
  BY <1>1 DEF Dead, network
<1>4. UNCHANGED <<agent, queue, metrics, server, wire, chan, received, ending>> /\ reader' = reader
  BY <1>1, <1>3
<1>5. /\ (Dead => Dead') /\ conn' = conn /\ (ctxDone' => ctxDone \/ Dead') /\ (ctxDone => ctxDone')
      /\ (bodyClosed => bodyClosed') /\ reader'.held = reader.held
  BY <1>1, <1>3
<1> QED BY <1>2, <1>4, <1>5, StillKeeps, Zenon

LEMMA NoticeDisconnectKeeps == ASSUME IInv, NoticeDisconnect PROVE IInv'
<1>1. /\ Dead /\ ctxDone' = TRUE
      /\ UNCHANGED <<agent, queue, metrics, server, network, client>>
  BY DEF NoticeDisconnect, Dead
<1>2. TypeOK'
  BY <1>1 DEF IInv, TypeOK, agent, metrics, server, network, client
<1>3. Dead' /\ wire' = wire /\ conn' = conn
  BY <1>1 DEF Dead, network, client
<1>4. UNCHANGED <<agent, queue, metrics, server, wire, chan, received, ending>> /\ reader' = reader
  BY <1>1, <1>3 DEF client
<1>5. /\ (Dead => Dead') /\ conn' = conn /\ (ctxDone' => ctxDone \/ Dead') /\ (ctxDone => ctxDone')
      /\ (bodyClosed => bodyClosed') /\ reader'.held = reader.held
  BY <1>1, <1>3 DEF client
<1> QED BY <1>2, <1>4, <1>5, StillKeeps, Zenon

(* An event of a kind the caller is not given makes no difference to it. *)
LEMMA SkippedEvent ==
    ASSUME NEW a \in Seq(Event), NEW e \in Event, e.kind \notin Carried, NEW r \in Seq(Event)
    PROVE  /\ K(a \o (<<e>> \o r)) = K(a \o r)
           /\ FirstTokenOf(a \o (<<e>> \o r)) = FirstTokenOf(a \o r)
<1>1. <<e>> \in Seq(Event)
  OBVIOUS
<1>2. <<e>> \o r \in Seq(Event)
  OBVIOUS
<1>3. K(<<e>> \o r) = K(r)
  <2>1. K(<<e>> \o r) = K(<<e>>) \o K(r) /\ K(r) \in Seq(Event)
    BY <1>1, KFacts
  <2>2. K(<<e>>) = <<>>
    BY KFacts
  <2>3. <<>> \o K(r) = K(r)
    BY <2>1, ConcatEmptySeq
  <2> QED BY <2>1, <2>2, <2>3, Zenon
<1>4. K(a \o (<<e>> \o r)) = K(a) \o K(<<e>> \o r) /\ K(a \o r) = K(a) \o K(r)
  BY <1>2, KFacts, Zenon
<1>5. FirstTokenOf(<<e>> \o r) = FirstTokenOf(r)
  <2>1. FirstTokenOf(<<e>>) = 0
    BY FirstOne DEF Carried
  <2>2. FirstTokenOf(<<e>> \o r) = IF FirstTokenOf(<<e>>) # 0 THEN FirstTokenOf(<<e>>) ELSE FirstTokenOf(r)
    BY <1>1, FirstConcat, Zenon
  <2> QED BY <2>1, <2>2
<1>6. /\ FirstTokenOf(a \o (<<e>> \o r)) =
             IF FirstTokenOf(a) # 0 THEN FirstTokenOf(a) ELSE FirstTokenOf(<<e>> \o r)
      /\ FirstTokenOf(a \o r) = IF FirstTokenOf(a) # 0 THEN FirstTokenOf(a) ELSE FirstTokenOf(r)
  BY <1>2, FirstConcat, Zenon
<1>7. K(a \o (<<e>> \o r)) = K(a \o r)
  BY <1>3, <1>4, Zenon
<1>8. FirstTokenOf(a \o (<<e>> \o r)) = FirstTokenOf(a \o r)
  <2>1. CASE FirstTokenOf(a) = 0
    BY <1>5, <1>6, <2>1, Zenon
  <2>2. CASE FirstTokenOf(a) # 0
    BY <1>6, <2>2, Zenon
  <2> QED BY <2>1, <2>2, Zenon
<1> QED BY <1>7, <1>8

LEMMA ReadEventKeeps == ASSUME IInv, ReadEvent PROVE IInv'
<1> DEFINE e == wire[1].event
<1>1. TypeOK /\ PlacesOK /\ Seqs
  BY SeqsTyped DEF IInv
<1>2. /\ reader.at = "read" /\ wire # <<>> /\ wire' = Tail(wire)
      /\ reader' = IF e.kind \in Carried THEN [at |-> "deliver", held |-> e]
                   ELSE [reader EXCEPT !.at = "check"]
      /\ UNCHANGED <<agent, queue, metrics, server, ctxDone, conn,
                     cancelled, bodyClosed, chan, received, ending>>
  BY DEF ReadEvent, Readable
<1>3. /\ e \in Event /\ wire' \in Seq(Framed) /\ EventsOf(wire) = <<e>> \o EventsOf(wire')
      /\ EventsOf(wire') \in Seq(Event)
  BY <1>1, <1>2, EventsTail, EventsFacts DEF Seqs
<1> HIDE DEF e
<1>4. /\ reader' \in [at : {"check", "read", "deliver", "done"}, held : Event \cup {NoEvent}]
      /\ reader'.at = IF e.kind \in Carried THEN "deliver" ELSE "check"
      /\ reader'.held = IF e.kind \in Carried THEN e ELSE NoEvent
  BY <1>1, <1>2, <1>3 DEF TypeOK, PlacesOK
<1>5. TypeOK'
  BY <1>1, <1>2, <1>3, <1>4 DEF TypeOK, agent, metrics, server, Framed
<1>6. Delivered' = Delivered /\ (Dead' <=> Dead)
  BY <1>2 DEF Delivered, Dead
<1>7. PlacesOK'
  <2>1. /\ AllCarried(Delivered')
        /\ reader'.at = "deliver" => reader'.held \in Event /\ reader'.held.kind \in Carried
        /\ reader'.at = "done" <=> ending' # "none"
        /\ reader'.at = "done" => bodyClosed'
        /\ reader'.at \in {"check", "read"} => reader'.held = NoEvent
        /\ tracker.at = "done" => ctxDone' \/ (over /\ queue = <<>>) \/ ~ctxDone
    BY <1>1, <1>2, <1>3, <1>4, <1>6 DEF PlacesOK
  <2> QED BY <1>1, <1>2, <1>6, <2>1, PlacesKept
<1>8. Downstream = Delivered \o (<<e>> \o EventsOf(wire'))
  <2>1. InHand = <<>> /\ OnWire = <<e>> \o EventsOf(wire')
    BY <1>2, <1>3 DEF InHand, OnWire
  <2>2. OnWire \in Seq(Event)
    BY <1>1 DEF Seqs
  <2>3. <<>> \o OnWire = OnWire
    BY <2>2, ConcatEmptySeq
  <2> QED BY <2>1, <2>3, Zenon DEF Downstream
<1>9. /\ K(Downstream') = K(Downstream)
      /\ FirstTokenOf(Downstream') = FirstTokenOf(Downstream)
  <2>1. CASE e.kind \in Carried
    <3>1. InHand' = <<e>> /\ OnWire' = EventsOf(wire')
      BY <1>4, <2>1 DEF InHand, OnWire
    <3>2. Downstream' = Downstream
      BY <1>6, <1>8, <3>1, Zenon DEF Downstream
    <3> QED BY <3>2
  <2>2. CASE e.kind \notin Carried
    <3>1. InHand' = <<>> /\ OnWire' = EventsOf(wire')
      BY <1>4, <2>2 DEF InHand, OnWire
    <3>2. <<>> \o EventsOf(wire') = EventsOf(wire')
      BY <1>3, ConcatEmptySeq
    <3>3. Downstream' = Delivered \o EventsOf(wire')
      BY <1>6, <3>1, <3>2, Zenon DEF Downstream
    <3>4. Delivered \in Seq(Event)
      BY <1>1 DEF Seqs
    <3> QED BY <1>3, <1>8, <2>2, <3>3, <3>4, SkippedEvent, Zenon
  <2> QED BY <2>1, <2>2
<1>10. UNCHANGED <<agent, batch, tracker, queue, metrics, handler>>
  BY <1>2 DEF server
<1> QED BY <1>5, <1>6, <1>7, <1>9, <1>10, DownstreamMoves

LEMMA DeliverMoves ==
    ASSUME TypeOK, PlacesOK, Deliver
    PROVE  Delivered' = Delivered \o <<reader.held>>
<1>1. /\ reader.held \in Event /\ received \in Seq(Event) /\ chan \in Seq(Event)
      /\ received' = received /\ chan' = Append(chan, reader.held)
  BY DEF Deliver, PlacesOK, TypeOK
<1> DEFINE x == <<reader.held>>
<1>2. x \in Seq(Event)
  BY <1>1
<1>3. chan' = chan \o x
  BY <1>1, AppendIsConcat
<1> HIDE DEF x
<1>4. received \o (chan \o x) = (received \o chan) \o x
  BY <1>1, <1>2, Regroup, Zenon
<1> QED BY <1>1, <1>3, <1>4, Zenon DEF Delivered, x

LEMMA DeliverKeeps == ASSUME IInv, Deliver PROVE IInv'
<1> DEFINE e == reader.held
<1>1. TypeOK /\ PlacesOK /\ Seqs
  BY SeqsTyped DEF IInv
<1>2. /\ reader.at = "deliver" /\ Len(chan) < ChanSize /\ chan' = Append(chan, e)
      /\ reader' = [at |-> "check", held |-> NoEvent]
      /\ UNCHANGED <<agent, queue, metrics, server, ctxDone, network,
                     cancelled, bodyClosed, received, ending>>
  BY DEF Deliver
<1>3. /\ e \in Event /\ e.kind \in Carried /\ <<e>> \in Seq(Event)
      /\ chan \in Seq(Event) /\ received \in Seq(Event)
  BY <1>1, <1>2 DEF PlacesOK, TypeOK
<1> HIDE DEF e
<1>4. chan' \in Seq(Event) /\ Len(chan') = Len(chan) + 1 /\ chan' = chan \o <<e>>
  <2>1. Append(chan, e) = chan \o <<e>>
    BY <1>3, AppendIsConcat
  <2> QED BY <1>2, <1>3, <2>1, AppendFacts
<1>5. TypeOK'
  <2>1. Len(chan') <= ChanSize
    BY <1>2, <1>3, <1>4, BoundsAssumption
  <2> QED BY <1>1, <1>2, <1>4, <2>1 DEF TypeOK, agent, metrics, server, network
<1>6. Delivered' = Delivered \o <<e>> /\ Delivered \in Seq(Event)
  BY <1>1, DeliverMoves DEF Seqs, e
<1>7. PlacesOK'
  <2>1. AllCarried(Delivered')
    <3>1. /\ Len(Delivered') = Len(Delivered) + 1 /\ Len(Delivered) \in Nat
          /\ \A i \in 1..Len(Delivered) : Delivered'[i] = Delivered[i]
          /\ Delivered'[Len(Delivered) + 1] = e
      <4> HIDE DEF Delivered
      <4> QED BY <1>3, <1>6
    <3> QED BY <1>1, <1>3, <3>1 DEF PlacesOK, AllCarried
  <2>2. /\ (Dead => Dead') /\ conn' = conn
        /\ reader'.at = "deliver" => reader'.held \in Event /\ reader'.held.kind \in Carried
        /\ reader'.at = "done" <=> ending' # "none"
        /\ reader'.at = "done" => bodyClosed'
        /\ reader'.at \in {"check", "read"} => reader'.held = NoEvent
        /\ tracker.at = "done" => ctxDone' \/ (over /\ queue = <<>>) \/ ~ctxDone
    BY <1>1, <1>2 DEF PlacesOK, Dead, network
  <2> QED BY <1>1, <1>2, <2>1, <2>2, PlacesKept
<1>8. Downstream' = Downstream
  <2>1. InHand = <<e>> /\ InHand' = <<>> /\ OnWire' = OnWire /\ OnWire \in Seq(Event)
    <3>1. wire' = wire /\ OnWire \in Seq(Event)
      BY <1>1, <1>2 DEF network, Seqs
    <3> QED BY <1>2, <3>1 DEF InHand, OnWire, e
  <2>2. <<>> \o OnWire = OnWire
    BY <2>1, ConcatEmptySeq
  <2>3. Delivered \o (<<e>> \o OnWire) = (Delivered \o <<e>>) \o OnWire
    <3>1. Delivered \in Seq(Event) /\ <<e>> \in Seq(Event) /\ OnWire \in Seq(Event)
      BY <1>3, <1>6, <2>1
    <3> QED BY <3>1, Regroup, Zenon
  <2>4. Downstream = Delivered \o (<<e>> \o OnWire) /\ Downstream' = Delivered' \o (<<>> \o OnWire)
    BY <2>1, Zenon DEF Downstream
  <2> QED BY <1>6, <2>2, <2>3, <2>4, Zenon
<1>9. UNCHANGED <<agent, batch, tracker, queue, metrics, handler>> /\ (Dead => Dead')
  BY <1>2 DEF server, Dead, network
<1> QED BY <1>5, <1>7, <1>8, <1>9, DownstreamMoves

LEMMA ReceiveMoves ==
    ASSUME TypeOK, Receive
    PROVE  Delivered' = Delivered
<1>1. /\ chan # <<>> /\ chan \in Seq(Event) /\ received \in Seq(Event)
      /\ received' = Append(received, Head(chan)) /\ chan' = Tail(chan)
  BY DEF Receive, TypeOK
<1> DEFINE x == <<Head(chan)>>
           rest == Tail(chan)
<1>2. Head(chan) \in Event /\ x \in Seq(Event) /\ rest \in Seq(Event)
  BY <1>1, HeadTailProperties
<1>3. chan = x \o rest
  BY <1>1, HeadThenTail, Zenon
<1>4. received' = received \o x
  BY <1>1, <1>2, AppendIsConcat
<1>5. chan' = rest
  BY <1>1
<1> HIDE DEF x, rest
<1>6. received \o (x \o rest) = (received \o x) \o rest
  BY <1>1, <1>2, Regroup, Zenon
<1> QED BY <1>3, <1>4, <1>5, <1>6, Zenon DEF Delivered

LEMMA ReceiveKeeps == ASSUME IInv, Receive PROVE IInv'
<1> DEFINE e == Head(chan)
           rest == Tail(chan)
<1>1. TypeOK /\ PlacesOK /\ Seqs
  BY SeqsTyped DEF IInv
<1>2. /\ chan # <<>> /\ received' = Append(received, e) /\ chan' = rest
      /\ UNCHANGED <<agent, queue, metrics, server, ctxDone, network,
                     cancelled, bodyClosed, reader, ending>>
  BY DEF Receive
<1>3. /\ chan \in Seq(Event) /\ received \in Seq(Event)
      /\ e \in Event /\ rest \in Seq(Event) /\ Len(rest) = Len(chan) - 1 /\ <<e>> \in Seq(Event)
  <2>1. chan \in Seq(Event) /\ received \in Seq(Event)
    BY <1>1 DEF TypeOK
  <2> QED BY <1>2, <2>1, HeadTailProperties
<1> HIDE DEF e, rest
<1>5. received' \in Seq(Event)
  BY <1>2, <1>3, AppendFacts
<1>6. TypeOK'
  <2>1. Len(chan') <= ChanSize
    BY <1>1, <1>2, <1>3, BoundsAssumption DEF TypeOK
  <2> QED BY <1>1, <1>2, <1>3, <1>5, <2>1 DEF TypeOK, agent, metrics, server, network
<1>7. Delivered' = Delivered
  BY <1>1, ReceiveMoves
<1>8. PlacesOK'
  <2>1. /\ (Dead => Dead') /\ conn' = conn /\ AllCarried(Delivered')
        /\ reader'.at = "deliver" => reader'.held \in Event /\ reader'.held.kind \in Carried
        /\ reader'.at = "done" <=> ending' # "none"
        /\ reader'.at = "done" => bodyClosed'
        /\ reader'.at \in {"check", "read"} => reader'.held = NoEvent
        /\ tracker.at = "done" => ctxDone' \/ (over /\ queue = <<>>) \/ ~ctxDone
    BY <1>1, <1>2, <1>7 DEF PlacesOK, Dead, network
  <2> QED BY <1>1, <1>2, <2>1, PlacesKept
<1>9. Downstream' = Downstream
  <2>1. InHand' = InHand /\ OnWire' = OnWire
    BY <1>2 DEF InHand, OnWire, network
  <2> QED BY <1>7, <2>1 DEF Downstream
<1>10. UNCHANGED <<agent, batch, tracker, queue, metrics, handler>> /\ (Dead => Dead')
  BY <1>2 DEF server, Dead, network
<1> QED BY <1>6, <1>8, <1>9, <1>10, DownstreamMoves

LEMMA BreakKeeps == ASSUME IInv, Break PROVE IInv'
<1>1. TypeOK /\ PlacesOK /\ Seqs
  BY SeqsTyped DEF IInv
<1>2. /\ conn' = "broken"
      /\ UNCHANGED <<agent, queue, metrics, server, ctxDone, client>>
  BY DEF Break
<1>3. PICK n \in 0..Len(wire) : \/ wire' = SubSeq(wire, 1, n)
                                \/ (n > 0 /\ wire' = [SubSeq(wire, 1, n) EXCEPT ![n] = Cut(@)])
  BY DEF Break
<1>4. /\ wire' \in Seq(Framed)
      /\ \E rest \in Seq(Event) : EventsOf(wire) = EventsOf(wire') \o rest
  BY <1>1, <1>3, EventsCut DEF Seqs
<1>5. TypeOK'
  BY <1>1, <1>2, <1>4 DEF TypeOK, agent, metrics, server, client, Framed
<1>6. Dead' /\ Delivered' = Delivered /\ reader' = reader
  BY <1>2 DEF Dead, Delivered, client
<1>7. PlacesOK'
  <2>1. /\ AllCarried(Delivered')
        /\ reader'.at = "deliver" => reader'.held \in Event /\ reader'.held.kind \in Carried
        /\ reader'.at = "done" <=> ending' # "none"
        /\ reader'.at = "done" => bodyClosed'
        /\ reader'.at \in {"check", "read"} => reader'.held = NoEvent
        /\ tracker.at = "done" => ctxDone' \/ (over /\ queue = <<>>) \/ ~ctxDone
    BY <1>1, <1>2, <1>6 DEF PlacesOK, client
  <2> QED BY <1>1, <1>2, <1>6, <2>1, PlacesKept
<1>8. InHand' = InHand
  BY <1>6 DEF InHand
<1>9. PICK rest \in Seq(Event) : OnWire = OnWire' \o rest
  <2>1. CASE reader.at = "done"
    <3>1. OnWire = <<>> /\ OnWire' = <<>> /\ <<>> \o <<>> = <<>> /\ <<>> \in Seq(Event)
      BY <1>6, <2>1 DEF OnWire
    <3> QED BY <3>1, Zenon
  <2>2. CASE reader.at # "done"
    BY <1>4, <1>6, <2>2 DEF OnWire
  <2> QED BY <2>1, <2>2
<1>10. Seqs'
  BY <1>5, <1>7, SeqsTypedNext
<1>11. Downstream = Downstream' \o rest
  <2>1. /\ Delivered \in Seq(Event) /\ InHand \in Seq(Event) /\ OnWire' \in Seq(Event)
    BY <1>1, <1>10 DEF Seqs
  <2>2. InHand \o OnWire' \in Seq(Event)
    BY <2>1
  <2>3. InHand \o (OnWire' \o rest) = (InHand \o OnWire') \o rest
    BY <2>1, Regroup, Zenon
  <2> DEFINE m == InHand \o OnWire'
  <2>4. Delivered \o (m \o rest) = (Delivered \o m) \o rest
    <3>1. Delivered \in Seq(Event) /\ m \in Seq(Event) /\ rest \in Seq(Event)
      BY <2>1, <2>2
    <3> HIDE DEF m
    <3> QED BY <3>1, Regroup, Zenon
  <2>5. Downstream' = Delivered \o (InHand \o OnWire')
    BY <1>6, <1>8 DEF Downstream
  <2> QED BY <1>9, <2>3, <2>4, <2>5, Zenon DEF Downstream
<1>12. UNCHANGED <<agent, batch, tracker, queue, metrics, handler>>
  BY <1>2 DEF server
<1> QED BY <1>5, <1>6, <1>7, <1>11, <1>12, DownstreamMoves, Zenon

-----------------------------------------------------------------------------
(* The tunnel and the end of the handler *)

(* The handler leaves its loop with the stream dead or an event it cannot     *)
(* encode.                                                                   *)
LEMMA HandlerLeaves ==
    ASSUME IInv, TypeOK', PlacesOK', handler = "serve", handler' = "record",
           UNCHANGED <<agent, metrics, conn, wire, client>>,
           Dead \/ \E i \in 1..Len(sent) : sent[i].kind = "bad"
    PROVE  IInv'
<1>1. /\ Downstream' = Downstream /\ (Dead' <=> Dead) /\ ~Flowing'
      /\ traced' = traced /\ sent' = sent /\ over' = over
      /\ recorded' = recorded /\ errType' = errType /\ firstToken' = firstToken
  BY DEF agent, metrics, client, Downstream, Delivered, InHand, OnWire, Dead, Flowing
<1>2. OrderOK'
  BY <1>1, DownstreamBegins DEF OrderOK
<1>3. EndOK'
  BY <1>1 DEF EndOK
<1>4. MetricsOK'
  <2>1. traced => FirstTokenOf(Downstream) \in {0, firstToken}
    BY DownstreamFirst
  <2>2. MetricsOK
    BY DEF IInv
  <2>3. /\ Len(recorded') = IF traced' /\ handler' \in {"finish", "done"} THEN 1 ELSE 0
        /\ errType' /\ handler' \in {"serve", "record"} => Dead'
        /\ \A i \in 1..Len(recorded') : recorded'[i].error => Dead'
    BY <1>1, <2>2 DEF MetricsOK
  <2>4. traced' => FirstTokenOf(Downstream') \in {0, firstToken'}
    BY <1>1, <2>1
  <2> QED BY <1>1, <2>3, <2>4 DEF MetricsOK
<1> QED BY <1>2, <1>3, <1>4 DEF IInv

(* An event moves into the batch. *)
LEMMA Collected ==
    ASSUME IInv, TypeOK', PlacesOK', handler = "serve", handler' = "serve",
           UNCHANGED <<agent, metrics, conn, wire, client>>,
           Upstream' = Upstream, traced => batch' \o Tracked' = batch \o Tracked
    PROVE  IInv'
<1>1. /\ Downstream' = Downstream /\ (Dead' <=> Dead) /\ (Flowing' <=> Flowing)
      /\ traced' = traced /\ sent' = sent /\ over' = over
      /\ recorded' = recorded /\ errType' = errType /\ firstToken' = firstToken
  BY DEF agent, metrics, client, Downstream, Delivered, InHand, OnWire, Dead, Flowing
<1>2. OrderOK /\ MetricsOK
  BY DEF IInv
<1>3. OrderOK'
  <2>1. CASE Flowing
    <3>1. K(Downstream' \o Upstream') = K(sent')
      BY <1>1, <1>2, <2>1 DEF OrderOK
    <3> QED BY <1>1, <2>1, <3>1 DEF OrderOK
  <2>2. CASE ~Flowing
    <3>1. Begins(K(Downstream'), K(sent'))
      BY <1>1, <1>2, <2>2 DEF OrderOK
    <3> QED BY <1>1, <2>2, <3>1 DEF OrderOK
  <2> QED BY <2>1, <2>2
<1>4. EndOK'
  BY DEF EndOK
<1>5. MetricsOK'
  <2>1. /\ Len(recorded') = IF traced' /\ handler' \in {"finish", "done"} THEN 1 ELSE 0
        /\ errType' /\ handler' \in {"serve", "record"} => Dead'
        /\ \A i \in 1..Len(recorded') : recorded'[i].error => Dead'
    BY <1>1, <1>2 DEF MetricsOK
  <2>2. traced' /\ Flowing' => FirstTokenOf(Downstream' \o (batch' \o Tracked')) = firstToken'
    BY <1>1, <1>2 DEF MetricsOK
  <2>3. traced' /\ ~Flowing' => FirstTokenOf(Downstream') \in {0, firstToken'}
    BY <1>1, <1>2 DEF MetricsOK
  <2> QED BY <2>1, <2>2, <2>3 DEF MetricsOK
<1> QED BY <1>3, <1>4, <1>5 DEF IInv

(* A batch is written: the handler goes on, or has come to the end of the     *)
(* events.                                                                   *)
LEMMA Flushed ==
    ASSUME IInv, TypeOK', PlacesOK', handler = "serve", NEW events \in Seq(Event),
           UNCHANGED <<agent, metrics, conn, client>>, Write(events), batch' = <<>>,
           Upstream = events \o (Tracked' \o queue'),
           traced => batch \o Tracked = events \o Tracked',
           handler' \in {"serve", "record"},
           handler' = "record" => Dead \/ (over /\ Tracked' \o queue' = <<>>)
    PROVE  IInv'
<1> DEFINE kn == OfKinds(events, Known)
           rest == Tracked' \o queue'
<1>1. TypeOK /\ PlacesOK /\ OrderOK /\ EndOK /\ MetricsOK /\ Seqs /\ Seqs'
  BY SeqsTyped, SeqsTypedNext DEF IInv
<1>2. /\ (Dead' <=> Dead) /\ traced' = traced /\ sent' = sent /\ over' = over
      /\ recorded' = recorded /\ errType' = errType /\ firstToken' = firstToken
      /\ Delivered' = Delivered /\ InHand' = InHand /\ reader' = reader
      /\ bodyClosed' = bodyClosed
  BY DEF agent, metrics, client, Delivered, InHand, Dead
<1>3. CASE Dead
  <2>1. wire' = wire
    <3>1. conn # "open" \/ bodyClosed
      BY <1>3 DEF Dead
    <3> QED BY <3>1 DEF Write
  <2>2. Downstream' = Downstream
    BY <1>2, <2>1 DEF Downstream, OnWire
  <2>3. ~Flowing' /\ Dead'
    BY <1>2, <1>3 DEF Flowing
  <2>4. OrderOK'
    BY <1>2, <2>2, <2>3, DownstreamBegins DEF OrderOK
  <2>5. EndOK'
    BY <2>3 DEF EndOK
  <2>6. MetricsOK'
    <3>1. traced => FirstTokenOf(Downstream) \in {0, firstToken}
      BY DownstreamFirst
    <3>2. /\ Len(recorded') = IF traced' /\ handler' \in {"finish", "done"} THEN 1 ELSE 0
          /\ errType' /\ handler' \in {"serve", "record"} => Dead'
          /\ \A i \in 1..Len(recorded') : recorded'[i].error => Dead'
      BY <1>1, <1>2, <2>3 DEF MetricsOK
    <3>3. traced' => FirstTokenOf(Downstream') \in {0, firstToken'}
      BY <1>2, <2>2, <3>1
    <3>4. handler' \in {"serve", "record"}
      OBVIOUS
    <3> QED BY <2>3, <3>2, <3>3, <3>4 DEF MetricsOK
  <2> QED BY <2>4, <2>5, <2>6 DEF IInv
<1>4. CASE ~Dead
  <2>1. wire' = wire \o Frames(events) /\ Flowing /\ reader.at # "done"
    <3>1. conn = "open" /\ ~bodyClosed
      BY <1>1, <1>4 DEF TypeOK, PlacesOK, Dead
    <3> QED BY <1>1, <1>4, <3>1 DEF Write, Flowing, PlacesOK
  <2>2. kn \in Seq(Event) /\ rest \in Seq(Event) /\ Tracked' \in Seq(Event)
    <3>1. Tracked' \in Seq(Event) /\ queue' \in Seq(Event)
      BY <1>1 DEF Seqs
    <3> QED BY <3>1, OfKindsTyped
  <2>3. OnWire' = OnWire \o kn
    <3>1. EventsOf(wire \o Frames(events)) = EventsOf(wire) \o kn
      BY <1>1, EventsConcat DEF Seqs
    <3> QED BY <1>2, <2>1, <3>1 DEF OnWire
  <2> HIDE DEF kn, rest
  <2>4. Downstream' = Downstream \o kn
    <3>1. Delivered \in Seq(Event) /\ InHand \in Seq(Event) /\ OnWire \in Seq(Event)
      BY <1>1 DEF Seqs
    <3>2. InHand \o (OnWire \o kn) = (InHand \o OnWire) \o kn
      <4>1. InHand \in Seq(Event) /\ OnWire \in Seq(Event) /\ kn \in Seq(Event)
        BY <2>2, <3>1
      <4> QED BY <4>1, Regroup, Zenon
    <3>3. InHand \o OnWire \in Seq(Event)
      BY <3>1, Joined, Zenon
    <3>4. Delivered \o ((InHand \o OnWire) \o kn) = (Delivered \o (InHand \o OnWire)) \o kn
      <4> DEFINE u == InHand \o OnWire
      <4>1. Delivered \in Seq(Event) /\ u \in Seq(Event) /\ kn \in Seq(Event)
        BY <2>2, <3>1, <3>3
      <4> HIDE DEF u
      <4>2. Delivered \o (u \o kn) = (Delivered \o u) \o kn
        BY <4>1, Regroup, Zenon
      <4> QED BY <4>2, Zenon DEF u
    <3>5. Downstream' = Delivered \o (InHand \o (OnWire \o kn))
      BY <1>2, <2>3 DEF Downstream
    <3> QED BY <3>2, <3>4, <3>5, Zenon DEF Downstream
  <2>5. /\ Downstream \in Seq(Event) /\ Downstream' \in Seq(Event)
        /\ Downstream \o kn \in Seq(Event)
    BY <1>1, <2>4 DEF Seqs
  <2>6. K(Downstream') \o K(rest) = K(sent)
    <3>1. K(Downstream \o (events \o rest)) = K(sent)
      BY <1>1, <2>1 DEF OrderOK, rest
    <3>2. Downstream \o (events \o rest) = (Downstream \o events) \o rest
      <4>1. Downstream \in Seq(Event) /\ events \in Seq(Event) /\ rest \in Seq(Event)
        BY <2>2, <2>5
      <4> QED BY <4>1, Regroup, Zenon
    <3>3. Downstream \o events \in Seq(Event)
      BY <2>5
    <3>4. K((Downstream \o events) \o rest) = K(Downstream \o events) \o K(rest)
      BY <2>2, <3>3, KFacts, Zenon
    <3>5. K(Downstream \o events) = K(Downstream) \o K(events)
      BY <2>5, KFacts, Zenon
    <3>6. K(Downstream \o kn) = K(Downstream) \o K(kn)
      BY <2>2, <2>5, KFacts, Zenon
    <3>7. K(kn) = K(events)
      BY CarriedOfKnown DEF K, kn
    <3> QED BY <2>4, <3>1, <3>2, <3>4, <3>5, <3>6, <3>7, Zenon
  <2>7. OrderOK'
    <3>1. CASE handler' = "serve"
      <4>1. Flowing'
        BY <1>2, <1>4, <3>1 DEF Flowing
      <4>2. Upstream' = <<>> \o rest
        BY DEF Upstream, rest
      <4>3. Upstream' = rest
        BY <2>2, <4>2, ConcatEmptySeq
      <4>4. K(Downstream' \o rest) = K(Downstream') \o K(rest)
        BY <2>2, <2>5, KFacts, Zenon
      <4>5. K(Downstream' \o Upstream') = K(sent')
        BY <1>2, <2>6, <4>3, <4>4, Zenon
      <4> QED BY <4>1, <4>5 DEF OrderOK
    <3>2. CASE handler' # "serve"
      <4>1. ~Flowing'
        BY <3>2 DEF Flowing
      <4>2. K(rest) \in Seq(Event)
        BY <2>2, KFacts
      <4>3. Begins(K(Downstream'), K(sent'))
        BY <1>2, <2>6, <4>2 DEF Begins
      <4> QED BY <4>1, <4>3 DEF OrderOK
    <3> QED BY <3>1, <3>2
  <2>8. EndOK'
    <3> SUFFICES ASSUME handler' # "serve" PROVE over' /\ K(Downstream') = K(sent')
      BY DEF EndOK
    <3>1. over /\ rest = <<>>
      BY <1>4 DEF rest
    <3>2. K(<<>>) = <<>> /\ K(Downstream') \in Seq(Event)
      BY <2>5, KFacts
    <3>3. K(Downstream') \o <<>> = K(Downstream')
      BY <3>2, ConcatEmptySeq
    <3>4. K(Downstream') = K(sent)
      BY <2>6, <3>1, <3>2, <3>3, Zenon
    <3> QED BY <1>2, <3>1, <3>4
  <2>9. traced => FirstTokenOf(Downstream' \o Tracked') = firstToken
    <3> SUFFICES ASSUME traced PROVE FirstTokenOf(Downstream' \o Tracked') = firstToken
      OBVIOUS
    <3>1. FirstTokenOf(Downstream \o (events \o Tracked')) = firstToken
      BY <1>1, <2>1 DEF MetricsOK
    <3>2. Downstream \o (events \o Tracked') = (Downstream \o events) \o Tracked'
      <4>1. Downstream \in Seq(Event) /\ events \in Seq(Event) /\ Tracked' \in Seq(Event)
        BY <2>2, <2>5
      <4> QED BY <4>1, Regroup, Zenon
    <3>3. Downstream \o events \in Seq(Event)
      BY <2>5
    <3>4. FirstTokenOf(kn) = FirstTokenOf(events)
      BY FirstOfKnown DEF kn
    <3>5. FirstTokenOf(Downstream \o kn) = FirstTokenOf(Downstream \o events)
      <4>1. FirstTokenOf(Downstream \o kn) =
                IF FirstTokenOf(Downstream) # 0 THEN FirstTokenOf(Downstream) ELSE FirstTokenOf(kn)
        BY <2>2, <2>5, FirstConcat, Zenon
      <4>2. FirstTokenOf(Downstream \o events) =
                IF FirstTokenOf(Downstream) # 0 THEN FirstTokenOf(Downstream) ELSE FirstTokenOf(events)
        BY <2>5, FirstConcat, Zenon
      <4>3. CASE FirstTokenOf(Downstream) = 0
        BY <3>4, <4>1, <4>2, <4>3, Zenon
      <4>4. CASE FirstTokenOf(Downstream) # 0
        BY <4>1, <4>2, <4>4, Zenon
      <4> QED BY <4>3, <4>4, Zenon
    <3>6. FirstTokenOf((Downstream \o kn) \o Tracked') = FirstTokenOf((Downstream \o events) \o Tracked')
      BY <2>2, <2>5, <3>3, <3>5, SameFirst, ZenonT(30)
    <3> QED BY <2>4, <3>1, <3>2, <3>6, Zenon
  <2>10. MetricsOK'
    <3>1. /\ Len(recorded') = IF traced' /\ handler' \in {"finish", "done"} THEN 1 ELSE 0
          /\ errType' /\ handler' \in {"serve", "record"} => Dead'
          /\ \A i \in 1..Len(recorded') : recorded'[i].error => Dead'
      BY <1>1, <1>2 DEF MetricsOK
    <3>2. handler' \in {"serve", "record"}
      OBVIOUS
    <3>3. <<>> \o Tracked' = Tracked'
      BY <2>2, ConcatEmptySeq
    <3>4. traced' => FirstTokenOf(Downstream' \o (batch' \o Tracked')) = firstToken'
      BY <1>2, <2>9, <3>3, Zenon
    <3>5. traced' => FirstTokenOf(Downstream') \in {0, firstToken'}
      <4>1. FirstTokenOf(Downstream') \in {0, FirstTokenOf(Downstream' \o Tracked')}
        BY <2>2, <2>5, LessFirst, Zenon
      <4> QED BY <1>2, <2>9, <4>1
    <3> QED BY <3>1, <3>2, <3>4, <3>5 DEF MetricsOK
  <2> QED BY <2>7, <2>8, <2>10 DEF IInv
<1> QED BY <1>3, <1>4

(* The tracker and the subscriber's channel, which feed the tunnel. *)
Fed ==
    /\ tracker \in [at : {"off", "receive", "send", "done"}, held : Event \cup {NoEvent}]
    /\ tracker.at = "off" <=> ~traced
    /\ tracker.at = "send" => tracker.held \in Event /\ tracker.held \in Past
    /\ tracker.at = "done" => (over /\ queue = <<>>) \/ ctxDone
    /\ queue \in Seq(Event) /\ Len(queue) <= QueueSize /\ AllFrom(queue, Past)

LEMMA ServedPlaces ==
    ASSUME TypeOK, PlacesOK, Fed', UNCHANGED <<agent, metrics, ctxDone, conn, client>>,
           handler = "serve", handler' \in {"serve", "record"}, wire' \in Seq(Framed),
           batch' \in Seq(Event), Len(batch') <= BatchSize, AllFrom(batch', Past),
           handler' = "serve" => Len(batch') < BatchSize
    PROVE  TypeOK' /\ PlacesOK'
<1>1. TypeOK'
  BY DEF TypeOK, Fed, agent, metrics, client, Framed
<1>2. /\ Past' = Past /\ Delivered' = Delivered /\ (Dead' <=> Dead)
      /\ sent' = sent /\ reader' = reader /\ ending' = ending /\ bodyClosed' = bodyClosed
  BY DEF Past, Delivered, Dead, agent, client
<1>3. PlacesOK'
  BY <1>2 DEF PlacesOK, Fed
<1> QED BY <1>1, <1>3

LEMMA FlushKeeps ==
    ASSUME IInv, handler = "serve", NEW events \in Seq(Event), Len(events) <= BatchSize,
           AllFrom(events, Past), NEW goOn \in {"serve", "record"}, flushBatch(events, goOn),
           UNCHANGED <<agent, metrics, ctxDone, conn, client>>, Fed',
           Upstream = events \o (Tracked' \o queue'),
           traced => batch \o Tracked = events \o Tracked',
           goOn = "record" => Dead \/ (over /\ Tracked' \o queue' = <<>>)
    PROVE  IInv'
<1>1. TypeOK /\ PlacesOK /\ Seqs
  BY SeqsTyped DEF IInv
<1>2. CASE Encodable(events) /\ Write(events) /\ batch' = <<>> /\ handler' = goOn
  <2>1. wire' \in Seq(Framed)
    <3>1. wire \in Seq(Framed)
      BY <1>1 DEF Seqs
    <3>2. wire \o Frames(events) \in Seq(Framed)
      BY <3>1, EventsConcat
    <3> QED BY <1>2, <3>1, <3>2 DEF Write
  <2>2. TypeOK' /\ PlacesOK'
    <3>1. batch' \in Seq(Event) /\ Len(batch') = 0 /\ AllFrom(batch', Past)
      BY <1>2 DEF AllFrom
    <3>2. Len(batch') <= BatchSize /\ Len(batch') < BatchSize
      BY <3>1, BoundsAssumption
    <3> QED BY <1>1, <1>2, <2>1, <3>1, <3>2, ServedPlaces
  <2>3. /\ handler' \in {"serve", "record"}
        /\ handler' = "record" => Dead \/ (over /\ Tracked' \o queue' = <<>>)
    BY <1>2
  <2>4. UNCHANGED <<agent, metrics, conn, client>>
    OBVIOUS
  <2> QED BY <1>2, <2>2, <2>3, <2>4, Flushed, Zenon
<1>3. CASE /\ ~Encodable(events) \/ conn # "open" \/ bodyClosed
           /\ batch' = events /\ handler' = "record" /\ wire' = wire
  <2>1. TypeOK' /\ PlacesOK'
    <3>1. wire' \in Seq(Framed)
      BY <1>1, <1>3 DEF Seqs
    <3> QED BY <1>1, <1>3, <3>1, ServedPlaces
  <2>2. Dead \/ \E i \in 1..Len(sent) : sent[i].kind = "bad"
    <3>1. CASE ~Encodable(events)
      <4>1. PICK i \in 1..Len(events) : events[i].kind = "bad"
        BY <3>1 DEF Encodable
      <4>2. PICK j \in 1..Len(sent) : sent[j] = events[i]
        BY DEF AllFrom, Past
      <4> QED BY <4>1, <4>2
    <3>2. CASE conn # "open" \/ bodyClosed
      BY <1>1, <3>2 DEF Dead, PlacesOK, TypeOK
    <3> QED BY <1>3, <3>1, <3>2
  <2>3. UNCHANGED <<agent, metrics, conn, wire, client>>
    BY <1>3
  <2> QED BY <1>3, <2>1, <2>2, <2>3, HandlerLeaves
<1> QED BY <1>2, <1>3 DEF flushBatch

(* What the handler takes is the first of what is on its way to it. *)
LEMMA Taken ==
    ASSUME IInv, Offered, TakeEvent, UNCHANGED <<agent, ctxDone>>
    PROVE  /\ NextEvent \in Event /\ NextEvent \in Past /\ Fed'
           /\ Tracked \o queue = <<NextEvent>> \o (Tracked' \o queue')
           /\ traced => Tracked = <<NextEvent>> /\ Tracked' = <<>>
           /\ ~traced => Tracked' = <<>>
<1>1. TypeOK /\ PlacesOK /\ Seqs
  BY SeqsTyped DEF IInv
<1>2. Past' = Past /\ traced' = traced /\ over' = over /\ ctxDone' = ctxDone
  BY DEF Past, agent
<1>3. queue \in Seq(Event)
  BY <1>1 DEF Seqs
<1>4. CASE traced
  <2>1. /\ tracker.at = "send" /\ NextEvent = tracker.held /\ queue' = queue
        /\ tracker' = [at |-> "receive", held |-> NoEvent]
    BY <1>4 DEF Offered, NextEvent, TakeEvent
  <2>2. NextEvent \in Event /\ NextEvent \in Past
    BY <1>1, <2>1 DEF PlacesOK
  <2>3. Fed'
    BY <1>1, <1>2, <1>4, <2>1 DEF Fed, PlacesOK, TypeOK
  <2>4. Tracked = <<NextEvent>> /\ Tracked' = <<>>
    BY <2>1 DEF Tracked
  <2>5. Tracked \o queue = <<NextEvent>> \o (Tracked' \o queue')
    <3>1. <<>> \o queue = queue
      BY <1>3, ConcatEmptySeq
    <3> QED BY <2>1, <2>4, <3>1, Zenon
  <2> QED BY <1>4, <2>2, <2>3, <2>4, <2>5
<1>5. CASE ~traced
  <2>1. /\ queue # <<>> /\ NextEvent = Head(queue) /\ queue' = Tail(queue) /\ tracker' = tracker
        /\ tracker.at = "off"
    BY <1>1, <1>5 DEF Offered, NextEvent, TakeEvent, PlacesOK
  <2>2. /\ Head(queue) \in Event /\ Head(queue) = queue[1] /\ Tail(queue) \in Seq(Event)
        /\ Len(Tail(queue)) = Len(queue) - 1 /\ Len(queue) \in Nat /\ Len(queue) >= 1
        /\ \A i \in 1..Len(Tail(queue)) : Tail(queue)[i] = queue[i + 1]
    BY <1>3, <2>1, HeadTailProperties
  <2> DEFINE e == Head(queue)
             rest == Tail(queue)
  <2>3. queue = <<e>> \o rest
    BY <1>3, <2>1, HeadThenTail, Zenon
  <2> HIDE DEF e, rest
  <2>4. e \in Past /\ AllFrom(rest, Past)
    <3>1. \A i \in 1..Len(queue) : queue[i] \in Past
      BY <1>1 DEF PlacesOK, AllFrom
    <3>2. 1 \in 1..Len(queue) /\ \A i \in 1..Len(rest) : i + 1 \in 1..Len(queue)
      BY <2>2 DEF rest
    <3> QED BY <2>2, <3>1, <3>2 DEF AllFrom, e, rest
  <2>5. Fed'
    <3>1. /\ queue' = rest /\ rest \in Seq(Event) /\ Len(rest) <= QueueSize
      <4>1. Len(queue) <= QueueSize
        BY <1>1 DEF TypeOK
      <4> QED BY <2>1, <2>2, <4>1, BoundsAssumption DEF rest
    <3> QED BY <1>1, <1>2, <1>5, <2>1, <2>4, <3>1 DEF Fed, PlacesOK, TypeOK
  <2>6. Tracked = <<>> /\ Tracked' = <<>>
    BY <2>1 DEF Tracked
  <2>7. Tracked \o queue = <<e>> \o (Tracked' \o queue')
    <3>1. <<>> \o queue = queue /\ <<>> \o rest = rest
      <4>1. rest \in Seq(Event)
        BY <2>2 DEF rest
      <4> QED BY <1>3, <4>1, ConcatEmptySeq
    <3>2. queue' = rest
      BY <2>1 DEF rest
    <3> QED BY <2>3, <2>6, <3>1, <3>2, Zenon
  <2>8. NextEvent = e /\ e \in Event
    BY <2>1, <2>2 DEF e
  <2> QED BY <1>5, <2>4, <2>5, <2>6, <2>7, <2>8
<1> QED BY <1>4, <1>5

LEMMA CollectKeeps == ASSUME IInv, Collect PROVE IInv'
<1> DEFINE e == NextEvent
           events == Append(batch, e)
           rest == Tracked' \o queue'
<1>1. TypeOK /\ PlacesOK /\ Seqs
  BY SeqsTyped DEF IInv
<1>2. /\ handler = "serve" /\ Offered /\ TakeEvent
      /\ UNCHANGED <<agent, metrics, ctxDone, conn, client>>
  BY DEF Collect
<1>3. IF Len(events) >= BatchSize THEN flushBatch(events, "serve")
      ELSE batch' = events /\ UNCHANGED <<handler, wire>>
  BY DEF Collect
<1>4. /\ e \in Event /\ e \in Past /\ Fed' /\ Tracked \o queue = <<e>> \o rest
      /\ traced => Tracked = <<e>> /\ Tracked' = <<>>
      /\ Tracked' = <<>>
  BY <1>2, Taken
<1> HIDE DEF e
<1>5. batch \in Seq(Event) /\ Tracked \in Seq(Event) /\ <<e>> \in Seq(Event)
  BY <1>1, <1>4 DEF Seqs
<1>6. queue' \in Seq(Event)
  BY <1>4 DEF Fed
<1>7. rest \in Seq(Event)
  BY <1>4, <1>6
<1> HIDE DEF rest
<1>8. /\ events \in Seq(Event) /\ Len(events) = Len(batch) + 1 /\ Len(batch) \in Nat
      /\ \A i \in 1..Len(batch) : events[i] = batch[i]
      /\ events[Len(batch) + 1] = e
  BY <1>4, <1>5, AppendFacts
<1>9. events = batch \o <<e>>
  BY <1>4, <1>5, AppendIsConcat
<1> HIDE DEF events
<1>10. Upstream = events \o rest
  <2>1. batch \o (<<e>> \o rest) = (batch \o <<e>>) \o rest
    BY <1>5, <1>7, Regroup, Zenon
  <2> QED BY <1>4, <1>9, <2>1, Zenon DEF Upstream
<1>11. traced => batch \o Tracked = events \o Tracked'
  <2>1. events \o <<>> = events
    BY <1>8, ConcatEmptySeq
  <2> QED BY <1>4, <1>9, <2>1, Zenon
<1>12. AllFrom(events, Past) /\ Len(events) <= BatchSize
  <2>1. Len(batch) < BatchSize
    BY <1>1, <1>2 DEF PlacesOK
  <2>2. \A i \in 1..Len(batch) : batch[i] \in Past
    BY <1>1 DEF PlacesOK, AllFrom
  <2>3. ASSUME NEW i \in 1..Len(events) PROVE events[i] \in Past
    <3>1. i \in 1..Len(batch) \/ i = Len(batch) + 1
      BY <1>8
    <3> QED BY <1>4, <1>8, <2>2, <3>1
  <2> QED BY <1>8, <2>1, <2>3, BoundsAssumption DEF AllFrom
<1>13. CASE Len(events) >= BatchSize
  <2>1. flushBatch(events, "serve")
    BY <1>3, <1>13
  <2> QED BY <1>2, <1>4, <1>8, <1>10, <1>11, <1>12, <2>1, FlushKeeps DEF rest
<1>14. CASE ~(Len(events) >= BatchSize)
  <2>1. batch' = events /\ handler' = "serve" /\ wire' = wire
    BY <1>2, <1>3, <1>14
  <2>2. Len(events) < BatchSize
    BY <1>8, <1>14, BoundsAssumption
  <2>3. wire' \in Seq(Framed)
    BY <1>1, <2>1 DEF Seqs
  <2>4. TypeOK' /\ PlacesOK'
    BY <1>1, <1>2, <1>4, <1>8, <1>12, <2>1, <2>2, <2>3, ServedPlaces
  <2>5. Upstream' = Upstream
    BY <1>10, <2>1, Zenon DEF Upstream, rest
  <2>6. traced => batch' \o Tracked' = batch \o Tracked
    BY <1>11, <2>1, Zenon
  <2>7. UNCHANGED <<agent, metrics, conn, wire, client>>
    BY <1>2, <2>1
  <2> QED BY <1>2, <2>1, <2>4, <2>5, <2>6, <2>7, Collected
<1> QED BY <1>13, <1>14

(* A flush of the batch as it is. *)
LEMMA BatchKeeps ==
    ASSUME IInv, handler = "serve", NEW goOn \in {"serve", "record"}, flushBatch(batch, goOn),
           UNCHANGED <<agent, queue, metrics, tracker, ctxDone, conn, client>>,
           goOn = "record" => Drained
    PROVE  IInv'
<1>1. TypeOK /\ PlacesOK /\ Seqs
  BY SeqsTyped DEF IInv
<1>2. Past' = Past /\ traced' = traced /\ over' = over /\ tracker' = tracker /\ queue' = queue
  BY DEF Past, agent
<1>3. Fed'
  BY <1>1, <1>2 DEF Fed, TypeOK, PlacesOK
<1>4. Tracked' = Tracked
  BY <1>2 DEF Tracked
<1>5. ASSUME goOn = "record", ~Dead PROVE over /\ Tracked' \o queue' = <<>>
  <2>1. ~ctxDone
    BY <1>1, <1>5 DEF PlacesOK
  <2>2. over /\ queue = <<>> /\ Tracked = <<>>
    BY <1>1, <1>5, <2>1 DEF Drained, PlacesOK, Tracked
  <2>3. <<>> \o <<>> = <<>>
    OBVIOUS
  <2> QED BY <1>2, <1>4, <2>2, <2>3
<1>6. /\ batch \in Seq(Event) /\ Len(batch) <= BatchSize /\ AllFrom(batch, Past)
  BY <1>1 DEF TypeOK, PlacesOK
<1>7. Upstream = batch \o (Tracked' \o queue')
  BY <1>2, <1>4 DEF Upstream
<1>8. traced => batch \o Tracked = batch \o Tracked'
  BY <1>4
<1>9. UNCHANGED <<agent, metrics, ctxDone, conn, client>>
  OBVIOUS
<1> QED BY <1>3, <1>5, <1>6, <1>7, <1>8, <1>9, FlushKeeps

LEMMA TickKeeps == ASSUME IInv, Tick PROVE IInv'
  BY BatchKeeps DEF Tick

LEMMA TunnelEndKeeps == ASSUME IInv, TunnelEnd PROVE IInv'
  BY BatchKeeps DEF TunnelEnd

LEMMA ClientClosedKeeps == ASSUME IInv, ClientClosed PROVE IInv'
<1>1. TypeOK /\ PlacesOK /\ Seqs
  BY SeqsTyped DEF IInv
<1>2. /\ handler = "serve" /\ ctxDone /\ handler' = "record"
      /\ UNCHANGED <<agent, queue, metrics, tracker, batch, ctxDone, network, client>>
  BY DEF ClientClosed
<1>3. Dead
  BY <1>1, <1>2 DEF PlacesOK
<1>4. Fed'
  <2>1. Past' = Past /\ traced' = traced /\ over' = over
    BY <1>2 DEF Past, agent
  <2> QED BY <1>1, <1>2, <2>1 DEF Fed, TypeOK, PlacesOK
<1>5. /\ batch' \in Seq(Event) /\ Len(batch') <= BatchSize /\ AllFrom(batch', Past)
      /\ wire' \in Seq(Framed) /\ conn' = conn /\ wire' = wire
  BY <1>1, <1>2 DEF TypeOK, PlacesOK, Seqs, network
<1>6. TypeOK' /\ PlacesOK'
  BY <1>1, <1>2, <1>4, <1>5, ServedPlaces
<1>7. UNCHANGED <<agent, metrics, conn, wire, client>>
  BY <1>2, <1>5
<1> QED BY <1>2, <1>3, <1>6, <1>7, HandlerLeaves

LEMMA RecordKeeps == ASSUME IInv, Record PROVE IInv'
<1>1. TypeOK /\ PlacesOK /\ OrderOK /\ EndOK /\ MetricsOK /\ Seqs
  BY SeqsTyped DEF IInv
<1>2. /\ handler = "record" /\ handler' = "finish"
      /\ recorded' = IF traced
                     THEN Append(recorded, [error |-> errType, firstToken |-> firstToken])
                     ELSE recorded
      /\ UNCHANGED <<agent, queue, errType, firstToken, tracker, batch, ctxDone, network, client>>
  BY DEF Record
<1> DEFINE r == [error |-> errType, firstToken |-> firstToken]
<1>3. recorded \in Seq([error : BOOLEAN, firstToken : 0..MaxEvents]) /\ Len(recorded) = 0
  BY <1>1, <1>2 DEF TypeOK, MetricsOK
<1>4. r \in [error : BOOLEAN, firstToken : 0..MaxEvents] /\ r.error = errType /\ r.firstToken = firstToken
  BY <1>1 DEF TypeOK
<1> HIDE DEF r
<1>5. /\ recorded' \in Seq([error : BOOLEAN, firstToken : 0..MaxEvents])
      /\ traced => Len(recorded') = 1 /\ recorded'[1] = r
      /\ ~traced => Len(recorded') = 0
  <2>1. CASE traced
    <3>1. recorded' = Append(recorded, r)
      BY <1>2, <2>1 DEF r
    <3> QED BY <1>3, <1>4, <2>1, <3>1
  <2>2. CASE ~traced
    BY <1>2, <1>3, <2>2
  <2> QED BY <2>1, <2>2
<1>6. TypeOK'
  BY <1>1, <1>2, <1>5 DEF TypeOK, agent, network, client
<1>7. /\ Downstream' = Downstream /\ (Dead' <=> Dead) /\ ~Flowing /\ ~Flowing'
      /\ Past' = Past /\ Delivered' = Delivered
      /\ traced' = traced /\ sent' = sent /\ over' = over /\ conn' = conn
      /\ reader' = reader /\ ending' = ending /\ bodyClosed' = bodyClosed
  BY <1>2 DEF agent, network, client, Downstream, Delivered, InHand, OnWire, Dead, Flowing, Past
<1>8. PlacesOK'
  BY <1>1, <1>2, <1>7 DEF PlacesOK
<1>9. OrderOK'
  BY <1>7, DownstreamBegins DEF OrderOK
<1>10. EndOK'
  BY <1>1, <1>2, <1>7 DEF EndOK
<1>11. MetricsOK'
  <2>1. errType => Dead
    BY <1>1, <1>2 DEF MetricsOK
  <2>2. traced => FirstTokenOf(Downstream) \in {0, firstToken}
    BY <1>2, DownstreamFirst
  <2>3. Len(recorded') = IF traced' /\ handler' \in {"finish", "done"} THEN 1 ELSE 0
    BY <1>2, <1>5, <1>7
  <2>4. \A i \in 1..Len(recorded') : recorded'[i].error => Dead'
    <3>1. CASE traced
      <4>1. \A i \in 1..Len(recorded') : i = 1
        <5>1. Len(recorded') = 1
          BY <1>5, <3>1
        <5>2. \A i \in 1..1 : i = 1
          OBVIOUS
        <5> QED BY <5>1, <5>2
      <4> QED BY <1>4, <1>5, <1>7, <2>1, <3>1, <4>1
    <3>2. CASE ~traced
      BY <1>5, <3>2
    <3>3. traced \in BOOLEAN
      BY <1>1 DEF TypeOK
    <3> QED BY <3>1, <3>2, <3>3
  <2>5. traced' => FirstTokenOf(Downstream') \in {0, recorded'[1].firstToken}
    BY <1>4, <1>5, <1>7, <2>2
  <2> QED BY <1>2, <1>7, <2>3, <2>4, <2>5 DEF MetricsOK
<1> QED BY <1>6, <1>8, <1>9, <1>10, <1>11 DEF IInv

LEMMA FinishKeeps == ASSUME IInv, Finish PROVE IInv'
<1>1. TypeOK /\ PlacesOK /\ OrderOK /\ EndOK /\ MetricsOK /\ Seqs
  BY SeqsTyped DEF IInv
<1>2. /\ handler = "finish" /\ handler' = "done" /\ ctxDone' = TRUE
      /\ conn' = IF conn = "open" THEN "ended" ELSE conn
      /\ UNCHANGED <<agent, queue, metrics, tracker, batch, wire, client>>
  BY DEF Finish
<1>3. TypeOK'
  BY <1>1, <1>2 DEF TypeOK, agent, metrics, client
<1>4. /\ Downstream' = Downstream /\ (Dead' <=> Dead) /\ ~Flowing /\ ~Flowing'
      /\ Past' = Past /\ Delivered' = Delivered
      /\ traced' = traced /\ sent' = sent /\ over' = over
      /\ recorded' = recorded /\ errType' = errType /\ firstToken' = firstToken
      /\ reader' = reader /\ ending' = ending /\ bodyClosed' = bodyClosed
  BY <1>2 DEF agent, metrics, client, Downstream, Delivered, InHand, OnWire, Dead, Flowing, Past
<1>5. PlacesOK'
  BY <1>1, <1>2, <1>4 DEF PlacesOK
<1>6. OrderOK'
  BY <1>4, DownstreamBegins DEF OrderOK
<1>7. EndOK'
  BY <1>1, <1>2, <1>4 DEF EndOK
<1>8. MetricsOK'
  BY <1>1, <1>2, <1>4 DEF MetricsOK
<1> QED BY <1>3, <1>5, <1>6, <1>7, <1>8 DEF IInv

-----------------------------------------------------------------------------
(* The invariant *)

LEMMA InitIInv == Init => IInv
<1> SUFFICES ASSUME Init PROVE IInv
  OBVIOUS
<1>1. /\ sent = <<>> /\ queue = <<>> /\ batch = <<>> /\ wire = <<>> /\ chan = <<>>
      /\ received = <<>> /\ recorded = <<>> /\ traced \in BOOLEAN /\ over = FALSE
      /\ tracker.at = (IF traced THEN "receive" ELSE "off") /\ tracker.held = NoEvent
      /\ reader = [at |-> "check", held |-> NoEvent] /\ ending = "none"
      /\ errType = FALSE /\ firstToken = 0 /\ handler = "serve" /\ ctxDone = FALSE
      /\ conn = "open" /\ cancelled = FALSE /\ bodyClosed = FALSE
  BY DEF Init
<1>2. TypeOK
  <2>1. tracker \in [at : {"off", "receive", "send", "done"}, held : Event \cup {NoEvent}]
    BY DEF Init
  <2>2. firstToken \in 0..MaxEvents
    BY <1>1, BoundsAssumption
  <2>3. /\ sent \in Seq(Event) /\ queue \in Seq(Event) /\ batch \in Seq(Event)
        /\ chan \in Seq(Event) /\ received \in Seq(Event)
        /\ wire \in Seq([event : Event, whole : BOOLEAN])
        /\ recorded \in Seq([error : BOOLEAN, firstToken : 0..MaxEvents])
    BY <1>1
  <2>4. Len(queue) <= QueueSize /\ Len(batch) <= BatchSize /\ Len(chan) <= ChanSize
    BY <1>1, BoundsAssumption
  <2>5. reader \in [at : {"check", "read", "deliver", "done"}, held : Event \cup {NoEvent}]
    BY <1>1
  <2> QED BY <1>1, <2>1, <2>2, <2>3, <2>4, <2>5 DEF TypeOK
<1>3. /\ Delivered = <<>> /\ InHand = <<>> /\ OnWire = <<>> /\ Tracked = <<>>
  BY <1>1 DEF Delivered, InHand, OnWire, Tracked, EventsOf
<1>4. <<>> \o <<>> = <<>>
  OBVIOUS
<1>5. Downstream = <<>> /\ Upstream = <<>> /\ batch \o Tracked = <<>>
  BY <1>1, <1>3, <1>4, Zenon DEF Downstream, Upstream
<1>6. PlacesOK
  BY <1>1, <1>3, BoundsAssumption DEF PlacesOK, AllCarried, AllFrom, Dead
<1>7. K(<<>>) = <<>>
  BY KFacts
<1>8. FirstTokenOf(<<>>) = 0
  <2>1. OfKinds(<<>>, {"token"}) = <<>>
    BY OfKindsAppend
  <2> QED BY <2>1 DEF FirstTokenOf
<1>9. K(Downstream \o Upstream) = K(sent)
  BY <1>1, <1>4, <1>5, Zenon
<1>10. FirstTokenOf(Downstream \o (batch \o Tracked)) = firstToken
  BY <1>1, <1>4, <1>5, <1>8, Zenon
<1>11. Flowing
  BY <1>1 DEF Flowing, Dead
<1>12. OrderOK /\ EndOK /\ MetricsOK
  BY <1>1, <1>9, <1>10, <1>11 DEF OrderOK, EndOK, MetricsOK
<1> QED BY <1>2, <1>6, <1>12 DEF IInv

LEMMA StutterKeeps == IInv /\ UNCHANGED vars => IInv'
<1> SUFFICES ASSUME IInv, UNCHANGED vars PROVE IInv'
  OBVIOUS
<1>1. TypeOK /\ PlacesOK
  BY DEF IInv
<1>2. TypeOK'
  BY <1>1 DEF TypeOK, vars, agent, metrics, server, network, client
<1>3. UNCHANGED <<agent, queue, metrics, server, wire, chan, received, ending>> /\ reader' = reader
  BY DEF vars, network, client
<1>4. /\ (Dead => Dead') /\ conn' = conn /\ (ctxDone' => ctxDone \/ Dead') /\ (ctxDone => ctxDone')
      /\ (bodyClosed => bodyClosed') /\ reader'.held = reader.held
  BY DEF vars, network, client, Dead
<1> QED BY <1>2, <1>3, <1>4, StillKeeps, Zenon

LEMMA NextIInv == IInv /\ [Next]_vars => IInv'
<1> SUFFICES ASSUME IInv, [Next]_vars PROVE IInv'
  OBVIOUS
<1>1. ASSUME NEW kind \in Kinds, Publish(kind) PROVE IInv'
  BY <1>1, PublishKeeps
<1>2. CASE EndStream
  BY <1>2, EndStreamKeeps
<1>3. CASE Tracker
  BY <1>3, TrackerReceiveKeeps, TrackerEndKeeps, TrackerCancelledKeeps DEF Tracker
<1>4. CASE Handler
  BY <1>4, CollectKeeps, TickKeeps, TunnelEndKeeps, ClientClosedKeeps, RecordKeeps, FinishKeeps
     DEF Handler
<1>5. CASE Reader
  BY <1>5, CheckContextKeeps, ReadEventKeeps, ReadEndsKeeps, DeliverKeeps, GiveUpKeeps DEF Reader
<1>6. CASE Break \/ NoticeDisconnect \/ CloseBody \/ Receive \/ Cancel
  BY <1>6, BreakKeeps, NoticeDisconnectKeeps, CloseBodyKeeps, ReceiveKeeps, CancelKeeps
<1>7. CASE UNCHANGED vars
  BY <1>7, StutterKeeps
<1> QED BY <1>1, <1>2, <1>3, <1>4, <1>5, <1>6, <1>7 DEF Next

-----------------------------------------------------------------------------
(* The theorems *)

(* In every state of every stream, whatever its sizes and the kinds of its     *)
(* events: the goroutines of server and client are where their code can be,     *)
(* what has not been lost is in its place between agent and caller, and what    *)
(* the metrics know is what the caller is given.                              *)
THEOREM StreamInvariant == SafeSpec => []IInv
<1>1. Init => IInv
  BY InitIInv
<1>2. IInv /\ [Next]_vars => IInv'
  BY NextIInv
<1> QED BY <1>1, <1>2, PTL DEF SafeSpec

(* The variables of the pipeline keep their types: the subscriber's channel,    *)
(* the batch of the tunnel and the caller's channel keep within their sizes.    *)
THEOREM StreamTypeCorrect == SafeSpec => []TypeOK
<1>1. IInv => TypeOK
  BY DEF IInv
<1> QED BY <1>1, StreamInvariant, PTL

(* The metrics of a request are reported once, when the handler returns; they   *)
(* blame the client only when the connection was lost or the body closed, and   *)
(* the first token they time is the first the caller is given, if any is.      *)
THEOREM MetricsAreHonest == SafeSpec => []HonestMetrics
<1>1. IInv => HonestMetrics
  <2> SUFFICES ASSUME IInv PROVE HonestMetrics
    OBVIOUS
  <2>1. MetricsOK /\ TypeOK /\ Seqs
    BY SeqsTyped DEF IInv
  <2>2. Len(recorded) = IF traced /\ handler \in {"finish", "done"} THEN 1 ELSE 0
    BY <2>1 DEF MetricsOK
  <2>3. ASSUME NEW i \in 1..Len(recorded)
        PROVE  /\ recorded[i].error => conn = "broken" \/ bodyClosed
               /\ FirstTokenOf(Delivered) \in {0, recorded[i].firstToken}
    <3>1. i = 1 /\ traced /\ handler \in {"finish", "done"}
      BY <2>2, <2>3
    <3>2. recorded[i].error => conn = "broken" \/ bodyClosed
      BY <2>1, <2>3 DEF MetricsOK, Dead
    <3>3. FirstTokenOf(Downstream) \in {0, recorded[1].firstToken}
      BY <2>1, <3>1 DEF MetricsOK, Flowing
    <3>4. Delivered \in Seq(Event) /\ InHand \o OnWire \in Seq(Event)
      BY <2>1 DEF Seqs
    <3>5. FirstTokenOf(Delivered) \in {0, FirstTokenOf(Downstream)}
      BY <3>4, LessFirst, Zenon DEF Downstream
    <3> QED BY <3>1, <3>2, <3>3, <3>5
  <2> QED BY <2>2, <2>3 DEF HonestMetrics
<1> QED BY <1>1, StreamInvariant, PTL

-----------------------------------------------------------------------------
(* The promise *)

LEMMA SameSelection == Promise!CarriedEvents = K(sent)
  BY DEF Promise!CarriedEvents, Promise!OfKinds, OfKinds, K

(* What the caller is given is all carried. *)
LEMMA KDelivered ==
    ASSUME TypeOK, PlacesOK
    PROVE  Delivered \in Seq(Event) /\ K(Delivered) = Delivered
<1>1. Delivered \in Seq(Event)
  BY SeqsTyped DEF Seqs
<1>2. \A i \in 1..Len(Delivered) : Delivered[i].kind \in Carried
  BY DEF PlacesOK, AllCarried
<1>3. OfKinds(Delivered, Carried) = Delivered
  <2> HIDE DEF Delivered
  <2> QED BY <1>1, <1>2, OfKindsAll
<1> QED BY <1>1, <1>3 DEF K

(* The reader's end is an end of the stream. *)
LEMMA StopIsCut ==
    ASSUME TypeOK, PlacesOK, reader.at # "done", NEW why \in {"error", "cancelled"}, Stop(why),
           UNCHANGED <<agent, chan, received>>
    PROVE  Promise!EndCut
<1>1. ending = "none" /\ ending' = why
  BY DEF PlacesOK, Stop
<1> QED BY <1>1 DEF Promise!EndCut, Delivered, agent

LEMMA CleanEndIsComplete ==
    ASSUME IInv, reader.at = "read", ~bodyClosed, CleanEnd, Stop("eof"),
           UNCHANGED <<agent, chan, received>>
    PROVE  Promise!EndComplete
<1>1. TypeOK /\ PlacesOK /\ EndOK
  BY DEF IInv
<1>2. ending = "none" /\ ending' = "eof"
  BY <1>1 DEF PlacesOK, Stop
<1>3. wire = <<>> /\ conn = "ended" /\ handler = "done" /\ ~Dead
  BY <1>1 DEF CleanEnd, PlacesOK, Dead
<1>4. (\E i \in 1..Len(sent) : sent[i].kind = "bad") \/ (over /\ K(Downstream) = K(sent))
  BY <1>1, <1>3 DEF EndOK
<1>5. Downstream = Delivered
  <2>1. InHand = <<>> /\ OnWire = <<>>
    BY <1>3 DEF InHand, OnWire, EventsOf
  <2>2. <<>> \o <<>> = <<>>
    OBVIOUS
  <2>3. Delivered \o <<>> = Delivered
    BY <1>1, KDelivered, ConcatEmptySeq
  <2> QED BY <2>1, <2>2, <2>3, Zenon DEF Downstream
<1>6. K(Downstream) = Delivered
  BY <1>1, <1>5, KDelivered
<1>7. Promise!SomeFatal \/ (over /\ Delivered = Promise!CarriedEvents)
  BY <1>4, <1>6, SameSelection DEF Promise!SomeFatal
<1>8. UNCHANGED <<sent, over, Delivered>>
  BY DEF Delivered, agent
<1> QED BY <1>2, <1>7, <1>8 DEF Promise!EndComplete

LEMMA DeliverIsNext ==
    ASSUME IInv, Deliver
    PROVE  Promise!Deliver
<1> DEFINE e == reader.held
<1>1. TypeOK /\ PlacesOK /\ Seqs
  BY SeqsTyped DEF IInv
<1>2. reader.at = "deliver" /\ ending = "none" /\ ending' = "none" /\ sent' = sent /\ over' = over
  BY <1>1 DEF Deliver, PlacesOK, agent
<1>3. e \in Event /\ e.kind \in Carried /\ <<e>> \in Seq(Event) /\ OnWire \in Seq(Event)
  BY <1>1, <1>2 DEF PlacesOK, Seqs
<1>4. InHand = <<e>>
  BY <1>2 DEF InHand
<1> HIDE DEF e
<1>5. K(<<e>>) = <<e>>
  BY <1>3, KFacts
<1>6. Delivered \in Seq(Event) /\ K(Delivered) = Delivered
  BY <1>1, KDelivered
<1>7. K(Downstream) = Delivered \o (<<e>> \o K(OnWire)) /\ K(OnWire) \in Seq(Event)
  <2>1. <<e>> \o OnWire \in Seq(Event)
    BY <1>3
  <2>2. K(Delivered \o (<<e>> \o OnWire)) = K(Delivered) \o K(<<e>> \o OnWire)
    BY <1>6, <2>1, KFacts, Zenon
  <2>3. K(<<e>> \o OnWire) = K(<<e>>) \o K(OnWire)
    BY <1>3, KFacts, Zenon
  <2>4. K(OnWire) \in Seq(Event)
    BY <1>3, KFacts
  <2>5. Downstream = Delivered \o (<<e>> \o OnWire)
    BY <1>4, Zenon DEF Downstream
  <2>6. K(Downstream) = Delivered \o (<<e>> \o K(OnWire))
    BY <1>5, <1>6, <2>2, <2>3, <2>5, Zenon
  <2> QED BY <2>4, <2>6
<1>8. PICK c \in Seq(Event) : K(sent) = K(Downstream) \o c
  BY DownstreamBegins DEF Begins
<1> DEFINE d == K(OnWire)
<1>9. K(sent) = (Delivered \o (<<e>> \o d)) \o c /\ d \in Seq(Event)
  BY <1>7, <1>8
<1> HIDE DEF d, Delivered
<1>10. Len(Delivered) < Len(K(sent)) /\ K(sent)[Len(Delivered) + 1] = e
  <2> DEFINE k == K(sent)
  <2>1. k = (Delivered \o (<<e>> \o d)) \o c
    BY <1>9
  <2> HIDE DEF k
  <2>2. <<e>> \o d \in Seq(Event) /\ Len(<<e>> \o d) = 1 + Len(d) /\ (<<e>> \o d)[1] = e
    BY <1>3, <1>9
  <2> DEFINE f == <<e>> \o d
  <2>3. f \in Seq(Event) /\ Len(f) = 1 + Len(d) /\ f[1] = e /\ Len(d) \in Nat
    BY <1>9, <2>2
  <2>4. k = (Delivered \o f) \o c
    BY <2>1
  <2> HIDE DEF f
  <2> DEFINE g == Delivered \o f
  <2>5. g \in Seq(Event) /\ Len(g) = Len(Delivered) + Len(f) /\ g[Len(Delivered) + 1] = e
    BY <1>6, <2>3
  <2>6. k = g \o c
    BY <2>4
  <2> HIDE DEF g
  <2>7. Len(k) >= Len(g) /\ \A i \in 1..Len(g) : k[i] = g[i]
    BY <1>8, <2>5, <2>6
  <2>8. Len(Delivered) + 1 \in 1..Len(g) /\ Len(Delivered) < Len(k)
    BY <1>6, <2>3, <2>5, <2>7
  <2> QED BY <2>5, <2>7, <2>8 DEF k
<1>11. Delivered' = Append(Delivered, e)
  <2>1. Delivered' = Delivered \o <<e>>
    BY <1>1, DeliverMoves DEF e
  <2>2. Append(Delivered, e) = Delivered \o <<e>>
    BY <1>3, <1>6, AppendIsConcat
  <2> QED BY <2>1, <2>2, Zenon
<1>12. Len(Delivered) < Len(Promise!CarriedEvents) /\ Promise!CarriedEvents[Len(Delivered) + 1] = e
  BY <1>10, SameSelection
<1>13. Delivered' = Append(Delivered, Promise!CarriedEvents[Len(Delivered) + 1])
  BY <1>11, <1>12
<1> QED BY <1>2, <1>12, <1>13 DEF Promise!Deliver

(* The stream implements the safety of Delivery: the caller is given the events *)
(* that can be carried in the order the agent sent them, none twice and none    *)
(* invented, and a clean end only when none is missing or one failed to encode. *)
THEOREM StreamKeepsPromise == SafeSpec => Promise!SafeSpec
<1>1. Init => Promise!Init
  BY DEF Init, Promise!Init, Delivered
<1>2. IInv /\ [Next]_vars => [Promise!Next]_(Promise!vars)
  <2> SUFFICES ASSUME IInv, [Next]_vars PROVE [Promise!Next]_(Promise!vars)
    OBVIOUS
  <2> USE DEF Promise!vars
  <2>0. TypeOK /\ PlacesOK
    BY DEF IInv
  <2>1. ASSUME NEW kind \in Kinds, Publish(kind) PROVE \E e \in Event : Promise!Send(e)
    <3> DEFINE e == [id |-> Len(sent) + 1, kind |-> kind]
    <3>1. e \in Event
      <4>1. Len(sent) + 1 \in 1..MaxEvents
        BY <2>0, <2>1, BoundsAssumption DEF Publish, TypeOK
      <4> QED BY <4>1 DEF Event
    <3>2. /\ ~over /\ sent' = Append(sent, e) /\ over' = over
          /\ UNCHANGED <<received, chan, ending>>
      BY <2>1 DEF Publish, client
    <3> HIDE DEF e
    <3>3. Promise!Send(e)
      BY <3>2 DEF Promise!Send, Delivered
    <3> QED BY <3>1, <3>3
  <2>2. ASSUME EndStream PROVE Promise!Finish
    BY <2>2 DEF EndStream, Promise!Finish, Delivered, client
  <2>3. ASSUME Tracker PROVE UNCHANGED Promise!vars
    BY <2>3 DEF Tracker, TrackerReceive, TrackerEnd, TrackerCancelled, agent, client, Delivered
  <2>4. ASSUME Handler PROVE UNCHANGED Promise!vars
    BY <2>4 DEF Handler, Collect, Tick, TunnelEnd, ClientClosed, Record, Finish, agent, client,
                Delivered
  <2>5. ASSUME CheckContext PROVE Promise!EndCut \/ UNCHANGED Promise!vars
    <3>1. CASE cancelled
      BY <2>0, <2>5, <3>1, StopIsCut DEF CheckContext
    <3>2. CASE ~cancelled
      BY <2>5, <3>2 DEF CheckContext, agent, Delivered
    <3> QED BY <3>1, <3>2
  <2>6. ASSUME ReadEvent PROVE UNCHANGED Promise!vars
    BY <2>6 DEF ReadEvent, agent, Delivered
  <2>7. ASSUME ReadEnds PROVE Promise!EndCut \/ Promise!EndComplete
    <3>1. /\ reader.at = "read" /\ UNCHANGED <<agent, chan, received>>
          /\ \/ \E why \in {"error", "cancelled"} : Stop(why)
             \/ ~bodyClosed /\ CleanEnd /\ Stop("eof")
      BY <2>7 DEF ReadEnds
    <3> QED BY <2>0, <3>1, StopIsCut, CleanEndIsComplete
  <2>8. ASSUME Deliver PROVE Promise!Deliver
    BY <2>8, DeliverIsNext
  <2>9. ASSUME GiveUp PROVE Promise!EndCut
    BY <2>0, <2>9, StopIsCut DEF GiveUp
  <2>10. ASSUME Receive PROVE UNCHANGED Promise!vars
    <3>1. Delivered' = Delivered
      BY <2>0, <2>10, ReceiveMoves
    <3> QED BY <2>10, <3>1 DEF Receive, agent
  <2>11. ASSUME Break \/ NoticeDisconnect \/ CloseBody \/ Cancel PROVE UNCHANGED Promise!vars
    BY <2>11 DEF Break, NoticeDisconnect, CloseBody, Cancel, agent, client, Delivered
  <2>12. ASSUME UNCHANGED vars PROVE UNCHANGED Promise!vars
    BY <2>12 DEF vars, agent, client, Delivered
  <2>13. ASSUME Reader PROVE [Promise!Next]_(Promise!vars)
    BY <2>5, <2>6, <2>7, <2>8, <2>9, <2>13 DEF Reader, Promise!Next
  <2> QED
    BY <2>1, <2>2, <2>3, <2>4, <2>10, <2>11, <2>12, <2>13 DEF Next, Promise!Next
<1> QED BY <1>1, <1>2, StreamInvariant, PTL DEF SafeSpec, Promise!SafeSpec

=============================================================================
