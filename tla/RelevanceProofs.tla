--------------------------- MODULE RelevanceProofs ---------------------------
(***************************************************************************)
(* Theorems about the relevance engines: a listing whose title is the      *)
(* query, word by word, is relevant to both, whatever the vocabularies and *)
(* however long the query.                                                 *)
(***************************************************************************)
EXTENDS MCMaintenance, SequenceTheorems, FiniteSetTheorems, WellFoundedInduction, TLAPS

-----------------------------------------------------------------------------
(* Numbers: induction along a set, and recursion. *)

\* Every set of numbers that is not empty has a least element.
LEMMA LeastNat ==
  ASSUME NEW T, T \subseteq Nat, T # {}
  PROVE  \E n \in T : \A m \in T : n <= m
  <1> DEFINE R == OpToRel(<, Nat)
  <1>1. IsWellFoundedOn(R, Nat)
    BY NatLessThanWellFounded
  <1>2. \A m, n \in Nat : m < n => <<m, n>> \in R
    BY DEF OpToRel
  <1> HIDE DEF R
  <1>3. PICK n \in T : \A m \in T : ~ (<<m, n>> \in R)
    BY <1>1, WFMin
  <1>4. ASSUME NEW m \in T PROVE n <= m
    <2>1. m \in Nat /\ n \in Nat
      OBVIOUS
    <2>2. ~ (m < n)
      BY <1>2, <1>3, <2>1
    <2> QED BY <2>1, <2>2
  <1> QED
    BY <1>4

\* Induction up to n, for the numbers of a set.
LEMMA Along ==
  ASSUME NEW n \in Nat, NEW G, 0 \in G, \A i \in 1..n : i - 1 \in G => i \in G
  PROVE  \A i \in 0..n : i \in G
  <1> DEFINE Bad == (0..n) \ G
  <1> SUFFICES ASSUME Bad # {} PROVE FALSE
    OBVIOUS
  <1>1. PICK m \in Bad : \A k \in Bad : m <= k
    <2>1. Bad \subseteq Nat
      OBVIOUS
    <2> HIDE DEF Bad
    <2> QED BY <2>1, LeastNat
  <1>2. m # 0 /\ m \in 1..n /\ m - 1 \in 0..n
    BY <1>1
  <1>3. m - 1 \in G
    BY <1>1, <1>2
  <1> QED BY <1>1, <1>2, <1>3

\* Strong induction up to n.
LEMMA AlongAll ==
  ASSUME NEW n \in Nat, NEW G,
         \A i \in 0..n : (\A k \in 0..n : k < i => k \in G) => i \in G
  PROVE  \A i \in 0..n : i \in G
  <1> DEFINE Bad == (0..n) \ G
  <1> SUFFICES ASSUME Bad # {} PROVE FALSE
    OBVIOUS
  <1>1. PICK m \in Bad : \A k \in Bad : m <= k
    <2>1. Bad \subseteq Nat
      OBVIOUS
    <2> HIDE DEF Bad
    <2> QED BY <2>1, LeastNat
  <1>2. \A k \in 0..n : k < m => k \in G
    BY <1>1
  <1> QED BY <1>1, <1>2

\* A function on 0..n is given by its first value and a step.
Follows(f, n, V, base, g) ==
    f \in [0..n -> V] /\ f[0] = base /\ \A i \in 1..n : f[i] = g[<<i, f[i - 1]>>]

LEMMA Recursion ==
  ASSUME NEW V, NEW base \in V, NEW n \in Nat, NEW g,
         \A i \in 1..n, v \in V : g[<<i, v>>] \in V
  PROVE  \E f : Follows(f, n, V, base, g)
  <1> USE DEF Follows
  <1> DEFINE Upto(m, f) == Follows(f, m, V, base, g)
             G == {m \in 0..n : \E f : Upto(m, f)}
  <1>1. 0 \in G
    <2> DEFINE h == [i \in 0..0 |-> base]
    <2>1. h \in [0..0 -> V] /\ h[0] = base /\ 1..0 = {}
      OBVIOUS
    <2> HIDE DEF h
    <2>2. Upto(0, h)
      BY <2>1
    <2> HIDE DEF Upto
    <2> QED BY <2>2
  <1>2. ASSUME NEW m \in 1..n, m - 1 \in G PROVE m \in G
    <2>1. PICK f : Upto(m - 1, f)
      BY <1>2
    <2> DEFINE h == [i \in 0..m |-> IF i = m THEN g[<<m, f[m - 1]>>] ELSE f[i]]
    <2>a. m \in Nat \ {0} /\ m - 1 \in 0..(m - 1) /\ 0 \in 0..(m - 1) /\ \A i \in 0..m : i = m \/ i \in 0..(m - 1)
      OBVIOUS
    <2>2. \A i \in 0..(m - 1) : h[i] = f[i] /\ h[i] \in V
      <3>1. f \in [0..(m - 1) -> V]
        BY <2>1
      <3> QED BY <3>1
    <2>3. h[m] = g[<<m, h[m - 1]>>] /\ h[m] \in V
      <3>1. f[m - 1] \in V /\ h[m - 1] = f[m - 1]
        BY <2>2, <2>a
      <3>2. h[m] = g[<<m, f[m - 1]>>]
        BY <2>a
      <3> QED BY <3>1, <3>2
    <2>4. h \in [0..m -> V]
      <3>1. \A i \in 0..m : h[i] \in V
        BY <2>2, <2>3, <2>a
      <3>2. h = [i \in 0..m |-> h[i]]
        OBVIOUS
      <3> HIDE DEF h
      <3> QED BY <3>1, <3>2
    <2>5. h[0] = base
      BY <2>1, <2>2, <2>a
    <2>6. ASSUME NEW i \in 1..m PROVE h[i] = g[<<i, h[i - 1]>>]
      <3>1. CASE i = m
        BY <2>3, <3>1
      <3>2. CASE i \in 1..(m - 1)
        <4>1. i \in 0..(m - 1) /\ i - 1 \in 0..(m - 1)
          BY <3>2
        <4>2. f[i] = g[<<i, f[i - 1]>>]
          BY <2>1, <3>2
        <4> HIDE DEF h
        <4> QED BY <2>2, <4>1, <4>2
      <3> QED BY <3>1, <3>2
    <2>7. Upto(m, h)
      <3> HIDE DEF h
      <3> QED BY <2>4, <2>5, <2>6
    <2> HIDE DEF Upto
    <2> QED BY <2>7
  <1>3. \A i \in 0..n : i \in G
    <2> HIDE DEF G
    <2> QED BY <1>1, <1>2, Along
  <1> QED BY <1>3

-----------------------------------------------------------------------------
(* The recursive operators on sequences: each by its equations. *)

IsWithout(k, s, P, X) ==
    /\ k \in [0..Len(s) -> Seq(X)]
    /\ k[0] = <<>>
    /\ \A i \in 1..Len(s) : k[i] = IF i \in P THEN k[i - 1] ELSE Append(k[i - 1], s[i])
    /\ Without(s, P) = k[Len(s)]

LEMMA WithoutStep ==
  ASSUME NEW X, NEW s \in Seq(X), NEW P
  PROVE  \E k : IsWithout(k, s, P, X)
  <1> DEFINE n == Len(s)
             D(k) == k = [i \in 0..n |-> IF i = 0 THEN <<>>
                                         ELSE IF i \in P THEN k[i - 1] ELSE Append(k[i - 1], s[i])]
             V == Seq(X)
             g == [iv \in (1..n) \X V |-> IF iv[1] \in P THEN iv[2] ELSE Append(iv[2], s[iv[1]])]
             kept == CHOOSE k : D(k)
  <1>1. n \in Nat /\ \A i \in 1..n : s[i] \in X
    OBVIOUS
  <1>2. \A i \in 1..n, v \in V : /\ g[<<i, v>>] = IF i \in P THEN v ELSE Append(v, s[i])
                                 /\ g[<<i, v>>] \in V
    BY <1>1
  <1>3. \E k : D(k)
    <2>1. <<>> \in V
      OBVIOUS
    <2> HIDE DEF V, g, n
    <2>2. PICK f : Follows(f, n, V, <<>>, g)
      <3>1. \A i \in 1..n, v \in V : g[<<i, v>>] \in V
        BY <1>2
      <3>2. n \in Nat
        BY <1>1
      <3> QED BY <3>1, <3>2, <2>1, Recursion
    <2> USE DEF Follows
    <2>3. ASSUME NEW i \in 0..n
          PROVE  f[i] = IF i = 0 THEN <<>> ELSE IF i \in P THEN f[i - 1] ELSE Append(f[i - 1], s[i])
      <3>1. CASE i = 0
        BY <2>2, <3>1
      <3>2. CASE i # 0
        <4>1. i \in 1..n /\ i - 1 \in 0..n
          BY <3>2, <1>1
        <4> QED BY <1>2, <2>2, <4>1, <3>2
      <3> QED BY <3>1, <3>2
    <2>4. D(f)
      BY <2>2, <2>3
    <2> QED BY <2>4
  <1>4. D(kept)
    <2> HIDE DEF D
    <2> QED BY <1>3
  <1>5. Without(s, P) = kept[n]
    BY DEF Without
  <1>6. /\ kept[0] = <<>>
        /\ \A i \in 1..n : kept[i] = IF i \in P THEN kept[i - 1] ELSE Append(kept[i - 1], s[i])
    <2> HIDE DEF n, kept
    <2>1. \A i \in 0..n : kept[i] = IF i = 0 THEN <<>>
                                  ELSE IF i \in P THEN kept[i - 1] ELSE Append(kept[i - 1], s[i])
      BY <1>4
    <2>2. 0 \in 0..n /\ \A i \in 1..n : i \in 0..n /\ i # 0
      BY <1>1
    <2> QED BY <2>1, <2>2
  <1> HIDE DEF kept
  <1>7. \A i \in 0..n : kept[i] \in V
    <2> DEFINE G == {i \in 0..n : kept[i] \in V}
    <2>1. 0 \in G
      <3>1. 0 \in 0..n /\ kept[0] = <<>> /\ <<>> \in Seq(X)
        BY <1>1, <1>6
      <3> HIDE DEF n
      <3> QED BY <3>1
    <2>2. ASSUME NEW i \in 1..n, i - 1 \in G PROVE i \in G
      <3>1. s[i] \in X /\ kept[i - 1] \in Seq(X) /\ i \in 0..n
        BY <1>1, <2>2
      <3>2. kept[i] = IF i \in P THEN kept[i - 1] ELSE Append(kept[i - 1], s[i])
        BY <1>6
      <3>3. kept[i] \in Seq(X)
        BY <3>1, <3>2
      <3> QED BY <3>1, <3>3
    <2> HIDE DEF G
    <2>3. \A i \in 0..n : i \in G
      BY <1>1, <2>1, <2>2, Along
    <2> QED BY <2>3 DEF G
  <1>8. kept \in [0..n -> V]
    BY <1>4, <1>7
  <1> HIDE DEF D
  <1>9. IsWithout(kept, s, P, X)
    BY <1>5, <1>6, <1>8 DEF IsWithout
  <1> QED BY <1>9

\* Without keeps what is not at one of the positions, and nothing twice.
LEMMA WithoutKeeps ==
  ASSUME NEW X, NEW s \in Seq(X), NEW P
  PROVE  /\ Without(s, P) \in Seq(X)
         /\ Range(Without(s, P)) = {s[i] : i \in (DOMAIN s) \ P}
         /\ IsInjective(s) => IsInjective(Without(s, P))
  <1> DEFINE n == Len(s)
  <1>1. PICK k : IsWithout(k, s, P, X)
    BY WithoutStep
  <1> USE DEF IsWithout
  <1>2. n \in Nat /\ DOMAIN s = 1..n
    OBVIOUS
  <1> DEFINE Left(i) == {s[j] : j \in (1..i) \ P}
             G == {i \in 0..n : Range(k[i]) = Left(i) /\ (IsInjective(s) => IsInjective(k[i]))}
  <1>3. 0 \in G
    <2>1. k[0] = <<>> /\ 0 \in 0..n /\ 1..0 = {}
      BY <1>1, <1>2
    <2>2. Range(<<>>) = {} /\ IsInjective(<<>>)
      BY DEF Range, IsInjective
    <2>3. Left(0) = {}
      BY <2>1
    <2> HIDE DEF Left
    <2> QED BY <2>1, <2>2, <2>3
  <1>4. ASSUME NEW i \in 1..n, i - 1 \in G PROVE i \in G
    <2> DEFINE old == k[i - 1]
    <2>1. i \in 0..n /\ i - 1 \in 0..n /\ old \in Seq(X)
      <3>1. i \in 0..Len(s) /\ i - 1 \in 0..Len(s)
        BY <1>2
      <3>2. \A j \in 0..Len(s) : k[j] \in Seq(X)
        BY <1>1
      <3> QED BY <3>1, <3>2
    <2>2. Range(old) = Left(i - 1) /\ (IsInjective(s) => IsInjective(old))
      BY <1>4
    <2>3. CASE i \in P
      <3>1. k[i] = old /\ (1..i) \ P = (1..(i - 1)) \ P
        BY <1>1, <2>3
      <3> QED BY <2>1, <2>2, <3>1
    <2>4. CASE i \notin P
      <3>1. k[i] = Append(old, s[i]) /\ (1..i) \ P = ((1..(i - 1)) \ P) \cup {i}
        <4>1. 1..i = (1..(i - 1)) \cup {i}
          BY <1>2
        <4>2. k[i] = Append(old, s[i])
          BY <1>1, <2>4, Zenon
        <4> QED BY <2>4, <4>1, <4>2
      <3> DEFINE m == Len(old)
      <3>2. /\ DOMAIN k[i] = 1..(m + 1) /\ DOMAIN old = 1..m /\ m \in Nat
            /\ \A j \in 1..m : k[i][j] = old[j]
            /\ k[i][m + 1] = s[i]
        BY <2>1, <3>1
      <3> HIDE DEF m, old
      <3>3. Range(k[i]) = Range(old) \cup {s[i]}
        BY <3>2 DEF Range
      <3>4. Left(i) = Left(i - 1) \cup {s[i]}
        BY <3>1
      <3>5. ASSUME IsInjective(s) PROVE IsInjective(k[i])
        <4>1. s[i] \notin Range(old)
          <5>1. \A j \in (1..(i - 1)) \ P : j # i /\ j \in DOMAIN s /\ i \in DOMAIN s
            BY <1>2
          <5>2. \A j \in (1..(i - 1)) \ P : s[j] # s[i]
            BY <3>5, <5>1 DEF IsInjective
          <5> QED BY <2>2, <5>2
        <4>2. \A j \in 1..m : k[i][j] # s[i]
          BY <3>2, <4>1 DEF Range
        <4>3. \A j, l \in 1..m : old[j] = old[l] => j = l
          BY <2>2, <3>2, <3>5 DEF IsInjective
        <4>4. \A j \in 1..(m + 1) : j \in 1..m \/ j = m + 1
          BY <3>2
        <4>5. \A j, l \in 1..(m + 1) : k[i][j] = k[i][l] => j = l
          BY <3>2, <4>2, <4>3, <4>4
        <4> QED BY <3>2, <4>5 DEF IsInjective
      <3> QED BY <2>1, <2>2, <3>3, <3>4, <3>5
    <2> QED BY <2>3, <2>4
  <1>5. n \in G
    <2> HIDE DEF G
    <2>1. \A i \in 0..n : i \in G
      BY <1>2, <1>3, <1>4, Along
    <2> QED BY <1>2, <2>1
  <1>6. k[n] \in Seq(X)
    BY <1>1, <1>2
  <1> QED BY <1>1, <1>2, <1>5, <1>6

-----------------------------------------------------------------------------
\* What FlattenSeq has put together after every one of the sequences.
IsFlatten(f, s, X) ==
    /\ f \in [0..Len(s) -> Seq(X)]
    /\ f[0] = <<>>
    /\ \A i \in 1..Len(s) : f[i] = f[i - 1] \o s[i]
    /\ FlattenSeq(s) = f[Len(s)]

LEMMA FlattenStep ==
  ASSUME NEW X, NEW s \in Seq(Seq(X))
  PROVE  \E f : IsFlatten(f, s, X)
  <1> DEFINE n == Len(s)
             V == Seq(X)
  <1>1. n \in Nat /\ (\A i \in 1..n : s[i] \in V) /\ <<>> \in V
    OBVIOUS
  <1>a. \A v, w \in V : v \o w \in V /\ <<>> \o w = w
    OBVIOUS
  <1>2. CASE n = 0
    <2> DEFINE f == [i \in 0..0 |-> <<>>]
    <2>1. FlattenSeq(s) = <<>>
      BY <1>2 DEF FlattenSeq
    <2>2. f \in [0..0 -> V] /\ f[0] = <<>> /\ 1..0 = {}
      BY <1>1
    <2> HIDE DEF f
    <2>3. IsFlatten(f, s, X)
      BY <1>2, <2>1, <2>2 DEF IsFlatten
    <2> QED BY <2>3
  <1>3. CASE n # 0
    <2> DEFINE D(h) == h = [i \in 1..n |-> IF i = 1 THEN s[i] ELSE h[i - 1] \o s[i]]
               g == [iv \in (1..n) \X V |-> iv[2] \o s[iv[1]]]
               flatten == CHOOSE h : D(h)
    <2>1. \A i \in 1..n, v \in V : g[<<i, v>>] = v \o s[i] /\ g[<<i, v>>] \in V
      <3> HIDE DEF V, n
      <3>1. \A i \in 1..n, v \in V : g[<<i, v>>] = v \o s[i]
        OBVIOUS
      <3> HIDE DEF g
      <3> QED BY <1>1, <1>a, <3>1
    <2>2. \E h : D(h)
      <3> HIDE DEF V, g, n
      <3>1. PICK f : Follows(f, n, V, <<>>, g)
        BY <1>1, <2>1, Recursion
      <3> USE DEF Follows
      <3> DEFINE h == [i \in 1..n |-> f[i]]
      <3>2. ASSUME NEW i \in 1..n
            PROVE  h[i] = IF i = 1 THEN s[i] ELSE h[i - 1] \o s[i]
        <4>1. f[i] = f[i - 1] \o s[i]
          <5>1. i - 1 \in 0..n /\ f[i - 1] \in V
            BY <1>1, <3>1
          <5> QED BY <2>1, <3>1, <5>1
        <4>2. CASE i = 1
          <5>1. f[i - 1] = <<>> /\ s[i] \in Seq(X)
            BY <3>1, <4>2, <1>1 DEF V
          <5> QED BY <4>1, <4>2, <5>1
        <4>3. CASE i # 1
          <5>1. i - 1 \in 1..n
            BY <4>3, <1>1
          <5> QED BY <4>1, <4>3, <5>1
        <4> QED BY <4>2, <4>3
      <3>3. D(h)
        BY <3>2
      <3> HIDE DEF h
      <3> QED BY <3>3
    <2>3. D(flatten)
      <3> HIDE DEF D
      <3> QED BY <2>2
    <2>4. FlattenSeq(s) = flatten[n]
      BY <1>3 DEF FlattenSeq
    <2>5. flatten[1] = s[1] /\ \A i \in 2..n : flatten[i] = flatten[i - 1] \o s[i]
      <3> HIDE DEF n, flatten
      <3>1. \A i \in 1..n : flatten[i] = IF i = 1 THEN s[i] ELSE flatten[i - 1] \o s[i]
        BY <2>3
      <3>2. 1 \in 1..n /\ \A i \in 2..n : i \in 1..n /\ i # 1
        BY <1>1, <1>3
      <3> QED BY <3>1, <3>2
    <2> HIDE DEF flatten, D
    <2> DEFINE f == [i \in 0..n |-> IF i = 0 THEN <<>> ELSE flatten[i]]
    <2>6. f[0] = <<>> /\ (\A i \in 1..n : f[i] = flatten[i]) /\ DOMAIN f = 0..n /\ f = [i \in 0..n |-> f[i]]
      BY <1>1
    <2> HIDE DEF f, n, V
    <2>7. ASSUME NEW i \in 1..n PROVE f[i] = f[i - 1] \o s[i]
      <3>1. CASE i = 1
        <4>1. f[i - 1] = <<>> /\ s[i] \in V /\ f[i] = s[i]
          <5>1. f[i - 1] = <<>>
            BY <2>6, <3>1
          <5>2. flatten[i] = s[i]
            BY <2>5, <3>1
          <5> QED BY <1>1, <2>6, <5>1, <5>2
        <4> QED BY <1>a, <4>1
      <3>2. CASE i # 1
        <4>1. i \in 2..n /\ i - 1 \in 1..n
          BY <3>2, <1>1
        <4> QED BY <2>5, <2>6, <4>1
      <3> QED BY <3>1, <3>2
    <2>8. \A i \in 0..n : f[i] \in V
      <3> DEFINE G == {i \in 0..n : f[i] \in V}
      <3>1. 0 \in G
        BY <1>1, <2>6
      <3>2. ASSUME NEW i \in 1..n, i - 1 \in G PROVE i \in G
        <4>1. f[i - 1] \in V /\ s[i] \in V /\ i \in 0..n
          BY <1>1, <3>2
        <4>2. f[i] \in V
          BY <1>a, <2>7, <4>1
        <4> QED BY <4>1, <4>2
      <3> HIDE DEF G
      <3>3. \A i \in 0..n : i \in G
        BY <1>1, <3>1, <3>2, Along
      <3> QED BY <3>3 DEF G
    <2>9. f \in [0..n -> V]
      BY <2>6, <2>8
    <2>10. n = 0 \/ n \in 1..n
      BY <1>1
    <2>11. FlattenSeq(s) = f[n]
      BY <1>3, <2>4, <2>6, <2>10
    <2>12. IsFlatten(f, s, X)
      BY <2>6, <2>7, <2>9, <2>11 DEF IsFlatten, n, V
    <2> QED BY <2>12
  <1> QED BY <1>2, <1>3

LEMMA FlattenType ==
  ASSUME NEW X, NEW s \in Seq(Seq(X))
  PROVE  FlattenSeq(s) \in Seq(X)
  <1>1. PICK f : IsFlatten(f, s, X)
    BY FlattenStep
  <1> QED BY <1>1 DEF IsFlatten

-----------------------------------------------------------------------------
IsWeightOf(k, terms, P) ==
    /\ k[0] = 0
    /\ \A i \in 1..Len(terms) : k[i] = IF i \in P THEN k[i - 1] + Weight(terms[i]) ELSE k[i - 1]
    /\ WeightOf(terms, P) = k[Len(terms)]

LEMMA WeightType ==
  ASSUME NEW term
  PROVE  Weight(term) \in 1..3
  BY DEF Weight

LEMMA WeightOfStep ==
  ASSUME NEW X, NEW s \in Seq(X), NEW P
  PROVE  \E k : IsWeightOf(k, s, P)
  <1> DEFINE n == Len(s)
             D(k) == k = [i \in 0..n |-> IF i = 0 THEN 0
                                         ELSE IF i \in P THEN k[i - 1] + Weight(s[i]) ELSE k[i - 1]]
             g == [iv \in (1..n) \X Nat |-> IF iv[1] \in P THEN iv[2] + Weight(s[iv[1]]) ELSE iv[2]]
             sum == CHOOSE k : D(k)
  <1>1. n \in Nat
    OBVIOUS
  <1>2. \A i \in 1..n, v \in Nat : /\ g[<<i, v>>] = IF i \in P THEN v + Weight(s[i]) ELSE v
                                   /\ g[<<i, v>>] \in Nat
    BY <1>1, WeightType
  <1>3. \E k : D(k)
    <2> HIDE DEF g, n
    <2>2. PICK f : Follows(f, n, Nat, 0, g)
      BY <1>1, <1>2, Recursion
    <2> USE DEF Follows
    <2>3. ASSUME NEW i \in 0..n
          PROVE  f[i] = IF i = 0 THEN 0 ELSE IF i \in P THEN f[i - 1] + Weight(s[i]) ELSE f[i - 1]
      <3>1. CASE i = 0
        BY <2>2, <3>1
      <3>2. CASE i # 0
        <4>1. i \in 1..n /\ i - 1 \in 0..n
          BY <3>2, <1>1
        <4> QED BY <1>2, <2>2, <4>1, <3>2
      <3> QED BY <3>1, <3>2
    <2>4. D(f)
      BY <2>2, <2>3
    <2> QED BY <2>4
  <1>4. D(sum)
    <2> HIDE DEF D
    <2> QED BY <1>3
  <1>5. WeightOf(s, P) = sum[n]
    BY DEF WeightOf
  <1>6. /\ sum[0] = 0
        /\ \A i \in 1..n : sum[i] = IF i \in P THEN sum[i - 1] + Weight(s[i]) ELSE sum[i - 1]
    <2> HIDE DEF n, sum
    <2>1. \A i \in 0..n : sum[i] = IF i = 0 THEN 0
                                  ELSE IF i \in P THEN sum[i - 1] + Weight(s[i]) ELSE sum[i - 1]
      BY <1>4
    <2>2. 0 \in 0..n /\ \A i \in 1..n : i \in 0..n /\ i # 0
      BY <1>1
    <2> QED BY <2>1, <2>2
  <1> HIDE DEF sum, D
  <1>7. IsWeightOf(sum, s, P)
    BY <1>5, <1>6 DEF IsWeightOf
  <1> QED BY <1>7

\* No terms weigh nothing, and all of some weigh something.
LEMMA WeightOfNone ==
  ASSUME NEW X, NEW s \in Seq(X)
  PROVE  WeightOf(s, {}) = 0
  <1>1. PICK k : IsWeightOf(k, s, {})
    BY WeightOfStep
  <1> DEFINE n == Len(s)
             G == {i \in 0..n : k[i] = 0}
  <1>2. n \in Nat
    OBVIOUS
  <1>3. k[0] = 0 /\ (\A i \in 1..n : k[i] = k[i - 1]) /\ WeightOf(s, {}) = k[n]
    BY <1>1 DEF IsWeightOf
  <1> HIDE DEF n
  <1>4. 0 \in G /\ \A i \in 1..n : i - 1 \in G => i \in G
    BY <1>2, <1>3
  <1> HIDE DEF G
  <1>5. \A i \in 0..n : i \in G
    BY <1>2, <1>4, Along
  <1> QED BY <1>2, <1>3, <1>5 DEF G

LEMMA WeightOfAll ==
  ASSUME NEW X, NEW s \in Seq(X), s # <<>>
  PROVE  WeightOf(s, DOMAIN s) \in Nat \ {0}
  <1> DEFINE n == Len(s)
  <1>1. PICK k : IsWeightOf(k, s, DOMAIN s)
    BY WeightOfStep
  <1>2. n \in Nat /\ n # 0 /\ DOMAIN s = 1..n
    OBVIOUS
  <1>3. k[0] = 0 /\ (\A i \in 1..n : k[i] = k[i - 1] + Weight(s[i])) /\ WeightOf(s, DOMAIN s) = k[n]
    BY <1>1, <1>2 DEF IsWeightOf
  <1> HIDE DEF n
  <1> DEFINE H == {i \in 0..n : k[i] \in Nat /\ k[i] >= i}
  <1>4. 0 \in H
    BY <1>2, <1>3
  <1>5. ASSUME NEW i \in 1..n, i - 1 \in H PROVE i \in H
    <2>1. Weight(s[i]) \in 1..3
      BY WeightType
    <2> QED BY <1>2, <1>3, <1>5, <2>1
  <1> HIDE DEF H
  <1>6. \A i \in 0..n : i \in H
    BY <1>2, <1>4, <1>5, Along
  <1>7. n \in H
    BY <1>2, <1>6
  <1> QED BY <1>2, <1>3, <1>7 DEF H

-----------------------------------------------------------------------------
(* Where a phrase stands, and the spans of the brands. *)

LEMMA OccursHere ==
  ASSUME NEW X, NEW s \in Seq(X), NEW Y, NEW p \in Seq(Y), NEW at \in 1..Len(s)
  PROVE  Occurs(p, at, s) <=> /\ at + Len(p) - 1 <= Len(s)
                              /\ \A l \in 1..Len(p) : s[at + l - 1] = p[l]
  <1>1. Len(p) \in Nat /\ Len(s) \in Nat /\ at \in Nat \ {0} /\ p = [l \in 1..Len(p) |-> p[l]]
    OBVIOUS
  <1> DEFINE e == at + Len(p) - 1
  <1>2. e - at + 1 = Len(p) /\ e \in Int
    BY <1>1
  <1>3. ASSUME e <= Len(s)
        PROVE  SubSeq(s, at, e) = [l \in 1..Len(p) |-> s[at + l - 1]]
    <2>1. \A l \in 1..Len(p) : l + at - 1 = at + l - 1
      BY <1>1
    <2> HIDE DEF e
    <2>2. SubSeq(s, at, e) = [l \in 1..(e - at + 1) |-> s[at + l - 1]]
      BY <1>1, <1>2, <1>3
    <2> QED BY <1>2, <2>2
  <1>4. ASSUME e <= Len(s)
        PROVE  SubSeq(s, at, e) = p <=> \A l \in 1..Len(p) : s[at + l - 1] = p[l]
    <2> DEFINE w == [l \in 1..Len(p) |-> s[at + l - 1]]
    <2>1. (w = p) <=> \A l \in 1..Len(p) : s[at + l - 1] = p[l]
      BY <1>1
    <2> QED BY <1>3, <1>4, <2>1
  <1> QED BY <1>4 DEF Occurs

LEMMA PhraseType ==
  ASSUME NEW p \in DOMAIN Brands
  PROVE  p \in Seq(Token) /\ Len(p) \in Nat \ {0} /\ DOMAIN p = 1..Len(p)
  <1>1. p \in Seq(Token) /\ p # <<>>
    BY RelevanceAssumption
  <1> QED BY <1>1

\* Brands that stand in one text stand apart.
LEMMA Apart ==
  ASSUME NEW X, NEW s \in Seq(X), NEW p \in DOMAIN Brands, NEW q \in DOMAIN Brands,
         NEW i \in 1..Len(s), NEW j \in 1..Len(s),
         Occurs(p, i, s), Occurs(q, j, s), i <= j, j <= i + Len(p) - 1
  PROVE  p = q /\ i = j
  <1> DEFINE k == j - i + 1
  <1>1. /\ p \in Seq(Token) /\ Len(p) \in Nat \ {0} /\ DOMAIN p = 1..Len(p)
        /\ q \in Seq(Token) /\ Len(q) \in Nat \ {0} /\ DOMAIN q = 1..Len(q)
    BY PhraseType
  <1>2. k \in DOMAIN p
    BY <1>1
  <1>3. (\A l \in 1..Len(p) : s[i + l - 1] = p[l]) /\ (\A l \in 1..Len(q) : s[j + l - 1] = q[l])
    BY <1>1, OccursHere
  <1>4. ASSUME NEW l \in DOMAIN q, k + l - 1 <= Len(p) PROVE p[k + l - 1] = q[l]
    <2>1. k + l - 1 \in 1..Len(p) /\ i + (k + l - 1) - 1 = j + l - 1 /\ l \in 1..Len(q)
      BY <1>1, <1>4
    <2> HIDE DEF k
    <2> QED BY <1>3, <2>1
  <1>5. p = q /\ k = 1
    <2> HIDE DEF k
    <2> QED BY <1>2, <1>4, RelevanceAssumption
  <1> QED BY <1>5

Here(tokens, i) == {p \in DOMAIN Brands : i <= Len(tokens) /\ Occurs(p, i, tokens)}

Longest(tokens, i) == CHOOSE p \in Here(tokens, i) : \A o \in Here(tokens, i) : Len(o) <= Len(p)

Span(p, i) == [brand |-> Brands[p], at |-> i..(i + Len(p) - 1)]

\* One step of the recursion of BrandSpans.
SpansAt(tokens, f, i) ==
    IF i > Len(tokens) THEN {}
    ELSE IF Here(tokens, i) = {} THEN f[i + 1]
    ELSE {Span(Longest(tokens, i), i)} \cup f[i + Len(Longest(tokens, i))]

LEMMA LongestIsHere ==
  ASSUME NEW X, NEW s \in Seq(X), NEW i \in 1..Len(s), Here(s, i) # {}
  PROVE  /\ Longest(s, i) \in Here(s, i)
         /\ i + Len(Longest(s, i)) \in (i + 1)..(Len(s) + 1)
  <1> DEFINE T == {Len(s) - Len(p) : p \in Here(s, i)}
  <1>1. ASSUME NEW p \in Here(s, i)
        PROVE  Len(p) \in Nat \ {0} /\ i + Len(p) - 1 <= Len(s)
    <2>1. p \in DOMAIN Brands /\ Occurs(p, i, s)
      BY DEF Here
    <2> QED BY <2>1, PhraseType DEF Occurs
  <1>2. T \subseteq Nat /\ T # {}
    BY <1>1
  <1>3. PICK n \in T : \A m \in T : n <= m
    <2> HIDE DEF T
    <2> QED BY <1>2, LeastNat
  <1>4. PICK p \in Here(s, i) : n = Len(s) - Len(p)
    BY <1>3
  <1>5. ASSUME NEW o \in Here(s, i) PROVE Len(o) <= Len(p)
    <2>1. Len(s) - Len(o) \in T
      OBVIOUS
    <2> HIDE DEF T
    <2>2. Len(s) - Len(p) <= Len(s) - Len(o)
      BY <1>3, <1>4, <2>1
    <2>3. Len(o) \in Nat /\ Len(p) \in Nat /\ Len(s) \in Nat
      BY <1>1
    <2> QED BY <2>2, <2>3
  <1>6. Longest(s, i) \in Here(s, i)
    <2> HIDE DEF T
    <2> QED BY <1>4, <1>5 DEF Longest
  <1> QED BY <1>1, <1>6

\* It looks only further on.
LEMMA SpansFurtherOn ==
  ASSUME NEW X, NEW s \in Seq(X), NEW f, NEW h, NEW i \in 1..(Len(s) + 1),
         \A k \in (i + 1)..(Len(s) + 1) : f[k] = h[k]
  PROVE  SpansAt(s, f, i) = SpansAt(s, h, i)
  <1>1. CASE i > Len(s)
    BY <1>1 DEF SpansAt
  <1>2. CASE i <= Len(s) /\ Here(s, i) = {}
    <2>1. f[i + 1] = h[i + 1]
      BY <1>2
    <2> QED BY <1>2, <2>1 DEF SpansAt
  <1>3. CASE i <= Len(s) /\ Here(s, i) # {}
    <2>1. f[i + Len(Longest(s, i))] = h[i + Len(Longest(s, i))]
      BY <1>3, LongestIsHere
    <2> QED BY <1>3, <2>1 DEF SpansAt
  <1> QED BY <1>1, <1>2, <1>3

IsSpans(f, tokens) ==
    /\ \A i \in 1..(Len(tokens) + 1) : f[i] = SpansAt(tokens, f, i)
    /\ BrandSpans(tokens) = f[1]

LEMMA SpansStep ==
  ASSUME NEW X, NEW s \in Seq(X)
  PROVE  \E f : IsSpans(f, s)
  <1> DEFINE n == Len(s)
             From(m, f) == f = [i \in m..(n + 1) |-> SpansAt(s, f, i)]
             G == {m \in 0..n : \E f : From(n + 1 - m, f)}
             D(f) == f = [i \in 1..(n + 1) |-> SpansAt(s, f, i)]
             from == CHOOSE f : D(f)
  <1>1. n \in Nat
    OBVIOUS
  <1>2. 0 \in G
    <2> DEFINE f == [i \in (n + 1)..(n + 1) |-> {}]
    <2>1. ASSUME NEW i \in (n + 1)..(n + 1) PROVE f[i] = SpansAt(s, f, i)
      BY <1>1 DEF SpansAt
    <2>2. From(n + 1, f)
      BY <2>1
    <2> HIDE DEF f, From
    <2> QED BY <1>1, <2>2
  <1>3. ASSUME NEW m \in 1..n, m - 1 \in G PROVE m \in G
    <2> DEFINE j == n + 1 - m
    <2>1. PICK f : From(j + 1, f)
      BY <1>1, <1>3
    <2>2. j \in 1..n /\ \A i \in j..(n + 1) : i = j \/ i \in (j + 1)..(n + 1)
      BY <1>1
    <2> DEFINE h == [i \in j..(n + 1) |-> IF i = j THEN SpansAt(s, f, j) ELSE f[i]]
    <2> HIDE DEF n, j
    <2>3. h[j] = SpansAt(s, f, j) /\ \A i \in (j + 1)..(n + 1) : h[i] = f[i]
      BY <2>2, <1>1
    <2>4. \A i \in j..(n + 1) : SpansAt(s, f, i) = SpansAt(s, h, i)
      <3> SUFFICES ASSUME NEW i \in j..(n + 1) PROVE SpansAt(s, f, i) = SpansAt(s, h, i)
        OBVIOUS
      <3>1. i \in 1..(Len(s) + 1) /\ \A k \in (i + 1)..(Len(s) + 1) : k \in (j + 1)..(n + 1)
        BY <2>2 DEF n
      <3> HIDE DEF h
      <3>2. \A k \in (i + 1)..(Len(s) + 1) : f[k] = h[k]
        BY <2>3, <3>1
      <3> QED BY <3>1, <3>2, SpansFurtherOn
    <2>5. \A i \in (j + 1)..(n + 1) : f[i] = SpansAt(s, f, i)
      BY <2>1
    <2>6. \A i \in j..(n + 1) : h[i] = SpansAt(s, h, i)
      <3> HIDE DEF h
      <3> QED BY <2>2, <2>3, <2>4, <2>5
    <2>7. From(j, h)
      BY <2>6
    <2> HIDE DEF h, From
    <2> QED BY <2>7 DEF j
  <1>4. n \in G
    <2> HIDE DEF G
    <2>1. \A m \in 0..n : m \in G
      BY <1>1, <1>2, <1>3, Along
    <2> QED BY <1>1, <2>1
  <1>5. \E f : D(f)
    <2>1. n + 1 - n = 1
      BY <1>1
    <2> HIDE DEF n
    <2> QED BY <1>4, <2>1
  <1>6. D(from)
    <2> HIDE DEF D
    <2> QED BY <1>5
  <1>7. BrandSpans(s) = from[1]
    BY DEF BrandSpans, SpansAt, Here, Longest, Span
  <1>8. \A i \in 1..(n + 1) : from[i] = SpansAt(s, from, i)
    <2> HIDE DEF n, from
    <2> QED BY <1>6
  <1> HIDE DEF from, D
  <1>9. IsSpans(from, s)
    BY <1>7, <1>8 DEF IsSpans
  <1> QED BY <1>9

\* A span is where a brand's name stands.
LEMMA SpansStand ==
  ASSUME NEW X, NEW s \in Seq(X), NEW span \in BrandSpans(s)
  PROVE  \E p \in DOMAIN Brands, at \in 1..Len(s) : Occurs(p, at, s) /\ span = Span(p, at)
  <1> DEFINE n == Len(s)
             Stands(sp) == \E p \in DOMAIN Brands, at \in 1..n : Occurs(p, at, s) /\ sp = Span(p, at)
  <1>1. PICK f : IsSpans(f, s)
    BY SpansStep
  <1>2. n \in Nat /\ (\A i \in 1..(n + 1) : f[i] = SpansAt(s, f, i)) /\ span \in f[1]
    BY <1>1 DEF IsSpans
  <1> DEFINE G == {m \in 0..n : \A sp \in f[n + 1 - m] : Stands(sp)}
  <1>3. ASSUME NEW m \in 0..n, \A k \in 0..n : k < m => k \in G
        PROVE  m \in G
    <2> DEFINE i == n + 1 - m
    <2>1. i \in 1..(n + 1) /\ f[i] = SpansAt(s, f, i)
      BY <1>2
    <2>2. ASSUME NEW k \in (i + 1)..(n + 1) PROVE \A sp \in f[k] : Stands(sp)
      <3>1. n + 1 - k \in 0..n /\ n + 1 - k < m /\ n + 1 - (n + 1 - k) = k
        BY <1>2, <2>1
      <3>2. n + 1 - k \in G
        BY <1>3, <3>1
      <3> HIDE DEF Stands
      <3> QED BY <3>1, <3>2
    <2>3. \A sp \in SpansAt(s, f, i) : Stands(sp)
      <3>1. CASE i > Len(s)
        BY <3>1 DEF SpansAt
      <3>2. CASE i <= Len(s) /\ Here(s, i) = {}
        <4>1. i + 1 \in (i + 1)..(n + 1) /\ ~ (i > Len(s))
          BY <2>1, <3>2
        <4>2. SpansAt(s, f, i) = f[i + 1]
          BY <3>2, <4>1 DEF SpansAt
        <4> HIDE DEF Stands, i
        <4> QED BY <2>2, <4>1, <4>2
      <3>3. CASE i <= Len(s) /\ Here(s, i) # {}
        <4> DEFINE p == Longest(s, i)
        <4>1. i \in 1..Len(s) /\ ~ (i > Len(s))
          BY <2>1, <3>3
        <4> HIDE DEF i
        <4>2. p \in Here(s, i) /\ i + Len(p) \in (i + 1)..(n + 1)
          BY <3>3, <4>1, LongestIsHere
        <4>3. SpansAt(s, f, i) = {Span(p, i)} \cup f[i + Len(p)]
          BY <3>3, <4>1 DEF SpansAt
        <4>4. p \in DOMAIN Brands /\ Occurs(p, i, s)
          BY <4>2 DEF Here
        <4> HIDE DEF p
        <4>5. Stands(Span(p, i))
          BY <4>1, <4>4
        <4> HIDE DEF Stands
        <4> QED BY <2>2, <4>2, <4>3, <4>5
      <3> QED BY <1>2, <2>1, <3>1, <3>2, <3>3
    <2> HIDE DEF Stands
    <2> QED BY <2>1, <2>3
  <1>4. n \in G
    <2> HIDE DEF G
    <2>1. \A m \in 0..n : m \in G
      BY <1>2, <1>3, AlongAll
    <2> QED BY <1>2, <2>1
  <1>5. n + 1 - n = 1
    BY <1>2
  <1> QED BY <1>2, <1>4, <1>5

\* And every one of a brand's names has its span.
LEMMA StandingIsSpan ==
  ASSUME NEW X, NEW s \in Seq(X), NEW p \in DOMAIN Brands, NEW at \in 1..Len(s), Occurs(p, at, s)
  PROVE  Span(p, at) \in BrandSpans(s)
  <1> DEFINE n == Len(s)
  <1>1. PICK f : IsSpans(f, s)
    BY SpansStep
  <1>2. n \in Nat /\ (\A i \in 1..(n + 1) : f[i] = SpansAt(s, f, i)) /\ BrandSpans(s) = f[1]
    BY <1>1 DEF IsSpans
  <1> DEFINE G == {m \in 0..(at - 1) : Span(p, at) \in f[at - m]}
  <1>3. ASSUME NEW m \in 0..(at - 1), \A k \in 0..(at - 1) : k < m => k \in G
        PROVE  m \in G
    <2> DEFINE i == at - m
    <2>1. /\ i \in 1..Len(s) /\ i <= at /\ ~ (i > Len(s)) /\ at \in Nat
          /\ f[i] = SpansAt(s, f, i) /\ i \in Nat /\ (i = at \/ i < at)
      BY <1>2
    <2>2. ASSUME NEW k \in (i + 1)..at PROVE Span(p, at) \in f[k]
      <3>1. at - k \in 0..(at - 1) /\ at - k < m /\ at - (at - k) = k
        BY <1>2, <2>1
      <3> QED BY <1>3, <3>1
    <2> HIDE DEF i
    <2>3. CASE Here(s, i) = {}
      <3>1. i # at
        BY <2>3 DEF Here
      <3>2. i + 1 \in (i + 1)..at
        BY <2>1, <3>1
      <3> QED BY <2>1, <2>2, <2>3, <3>2 DEF SpansAt, i
    <2>4. CASE Here(s, i) # {}
      <3> DEFINE q == Longest(s, i)
      <3>1. q \in Here(s, i) /\ i + Len(q) \in (i + 1)..(Len(s) + 1)
        BY <2>1, <2>4, LongestIsHere
      <3>2. f[i] = {Span(q, i)} \cup f[i + Len(q)]
        BY <2>1, <2>4 DEF SpansAt
      <3>3. q \in DOMAIN Brands /\ Occurs(q, i, s)
        BY <3>1 DEF Here
      <3>4. Len(q) \in Nat \ {0}
        BY <3>3, PhraseType
      <3> HIDE DEF q
      <3>5. CASE at <= i + Len(q) - 1
        <4>1. q = p /\ i = at
          BY <2>1, <3>3, <3>5, Apart
        <4> QED BY <3>2, <4>1 DEF i
      <3>6. CASE i + Len(q) <= at
        <4>1. i + Len(q) \in (i + 1)..at
          BY <2>1, <3>4, <3>6
        <4> QED BY <2>2, <3>2, <4>1 DEF i
      <3> QED BY <2>1, <3>4, <3>5, <3>6
    <2> QED BY <2>3, <2>4
  <1>4. at - 1 \in G
    <2> HIDE DEF G
    <2>1. at - 1 \in Nat
      OBVIOUS
    <2>2. \A m \in 0..(at - 1) : m \in G
      BY <1>3, <2>1, AlongAll
    <2> QED BY <2>1, <2>2
  <1>5. at - (at - 1) = 1
    OBVIOUS
  <1> QED BY <1>2, <1>4, <1>5

-----------------------------------------------------------------------------
(* A text and its items, chunk by chunk. *)

Grows(f, s, n) ==
    /\ n = Len(s) /\ n \in Nat
    /\ \A i \in 0..n : Len(f[i]) \in Nat
    /\ f[0] = <<>> /\ FlattenSeq(s) = f[n]
    /\ \A i \in 1..n : /\ Len(s[i]) \in Nat
                       /\ Len(f[i]) = Len(f[i - 1]) + Len(s[i])
                       /\ \A k \in 1..Len(f[i - 1]) : f[i][k] = f[i - 1][k]
                       /\ \A k \in 1..Len(s[i]) : f[i][Len(f[i - 1]) + k] = s[i][k]

LEMMA FlattenGrows ==
  ASSUME NEW X, NEW s \in Seq(Seq(X)), NEW f, IsFlatten(f, s, X)
  PROVE  Grows(f, s, Len(s))
  <1>1. \A i \in 0..Len(s) : f[i] \in Seq(X) /\ Len(f[i]) \in Nat
    <2>1. f \in [0..Len(s) -> Seq(X)]
      BY DEF IsFlatten
    <2> QED BY <2>1
  <1>2. f[0] = <<>> /\ FlattenSeq(s) = f[Len(s)]
    BY DEF IsFlatten
  <1>3. ASSUME NEW i \in 1..Len(s)
        PROVE  /\ s[i] \in Seq(X) /\ Len(s[i]) \in Nat
               /\ Len(f[i]) = Len(f[i - 1]) + Len(s[i])
               /\ \A k \in 1..Len(f[i - 1]) : f[i][k] = f[i - 1][k]
               /\ \A k \in 1..Len(s[i]) : f[i][Len(f[i - 1]) + k] = s[i][k]
    <2>1. i - 1 \in 0..Len(s) /\ s[i] \in Seq(X)
      OBVIOUS
    <2>2. f[i] = f[i - 1] \o s[i] /\ f[i - 1] \in Seq(X)
      BY <1>1, <2>1 DEF IsFlatten
    <2> DEFINE u == f[i - 1]
               v == s[i]
    <2>3. u \in Seq(X) /\ v \in Seq(X) /\ f[i] = u \o v
      BY <2>1, <2>2
    <2> HIDE DEF u, v
    <2>4. Len(u) \in Nat /\ Len(v) \in Nat /\ Len(f[i]) = Len(u) + Len(v)
      BY <2>3
    <2>5. \A k \in 1..Len(u) : f[i][k] = u[k]
      BY <2>3, <2>4
    <2>6. \A k \in 1..Len(v) : f[i][Len(u) + k] = v[k]
      BY <2>3, <2>4
    <2> QED BY <2>1, <2>4, <2>5, <2>6 DEF u, v
  <1>4. Len(s) \in Nat /\ \A i \in 0..Len(s) : Len(f[i]) \in Nat
    BY <1>1
  <1> QED BY <1>2, <1>3, <1>4, Zenon DEF Grows

\* A chunk stands in the text where those before it end.
LEMMA ChunkInText ==
  ASSUME NEW X, NEW s \in Seq(Seq(X)), NEW c0 \in 1..Len(s)
  PROVE  \E e \in Nat : /\ e + Len(s[c0]) <= Len(FlattenSeq(s))
                        /\ \A k \in 1..Len(s[c0]) : FlattenSeq(s)[e + k] = s[c0][k]
  <1>0. PICK f : IsFlatten(f, s, X)
    BY FlattenStep
  <1> DEFINE n == Len(s)
             e == Len(f[c0 - 1])
             l == Len(s[c0])
  <1>1. Grows(f, s, n)
    BY <1>0, FlattenGrows
  <1>2. n \in Nat /\ c0 \in 1..n /\ c0 - 1 \in 0..n
    OBVIOUS
  <1> HIDE DEF n
  <1>3. e \in Nat /\ l \in Nat /\ c0 \in Nat \ {0}
    BY <1>1, <1>2 DEF Grows
  <1> DEFINE Stays(m) == e + l <= Len(f[m]) /\ \A k \in 1..l : f[m][e + k] = s[c0][k]
             G == {m \in 0..n : m >= c0 => Stays(m)}
  <1>4. 0 \in G
    <2> HIDE DEF Stays
    <2>1. 0 \in 0..n /\ ~ (0 >= c0)
      BY <1>2, <1>3
    <2> QED BY <2>1
  <1>5. ASSUME NEW m \in 1..n, m - 1 \in G PROVE m \in G
    <2>1. m - 1 \in 0..n /\ m \in 0..n /\ Len(f[m - 1]) \in Nat
      BY <1>1, <1>2 DEF Grows
    <2>2. CASE m < c0
      <3> HIDE DEF Stays
      <3>1. ~ (m >= c0)
        BY <1>3, <2>1, <2>2
      <3> QED BY <2>1, <3>1
    <2>3. CASE m = c0
      <3>1. Len(f[m]) = e + l /\ \A k \in 1..l : f[m][e + k] = s[c0][k]
        BY <1>1, <2>3 DEF Grows
      <3> HIDE DEF e, l
      <3>2. Stays(m)
        BY <1>3, <3>1
      <3> HIDE DEF Stays
      <3> QED BY <2>1, <3>2
    <2>4. CASE m > c0
      <3> HIDE DEF e, l
      <3>1. Stays(m - 1)
        <4> HIDE DEF Stays
        <4>1. m - 1 >= c0
          BY <1>3, <2>1, <2>4
        <4> QED BY <1>5, <4>1
      <3>2. Len(f[m]) = Len(f[m - 1]) + Len(s[m]) /\ Len(s[m]) \in Nat
            /\ \A k \in 1..Len(f[m - 1]) : f[m][k] = f[m - 1][k]
        BY <1>1 DEF Grows
      <3>3. \A k \in 1..l : e + k \in 1..Len(f[m - 1])
        BY <1>3, <2>1, <3>1
      <3>4. e + l <= Len(f[m])
        <4> DEFINE x == Len(f[m - 1])
                   y == Len(s[m])
        <4>1. x \in Nat /\ y \in Nat /\ e + l <= x /\ Len(f[m]) = x + y
          BY <2>1, <3>1, <3>2
        <4> HIDE DEF x, y
        <4> QED BY <1>3, <4>1
      <3>5. \A k \in 1..l : f[m][e + k] = s[c0][k]
        BY <3>1, <3>2, <3>3
      <3>6. Stays(m)
        BY <3>4, <3>5
      <3> HIDE DEF Stays
      <3> QED BY <2>1, <3>6
    <2>5. m < c0 \/ m = c0 \/ m > c0
      BY <1>3
    <2> HIDE DEF G
    <2> QED BY <2>2, <2>3, <2>4, <2>5
  <1>6. n \in G
    <2> HIDE DEF G
    <2>1. \A m \in 0..n : m \in G
      BY <1>2, <1>4, <1>5, Along
    <2> QED BY <1>2, <2>1
  <1>7. Stays(n)
    <2> HIDE DEF Stays, e, l
    <2>1. n >= c0
      BY <1>2, <1>3
    <2> QED BY <1>6, <2>1
  <1>8. FlattenSeq(s) = f[n]
    BY <1>1 DEF Grows
  <1> HIDE DEF e
  <1> QED BY <1>3, <1>7, <1>8

\* And nothing else stands in it.
LEMMA TextOfChunks ==
  ASSUME NEW X, NEW s \in Seq(Seq(X)), NEW k \in 1..Len(FlattenSeq(s))
  PROVE  \E d \in 1..Len(s) : \E l \in 1..Len(s[d]) : FlattenSeq(s)[k] = s[d][l]
  <1> DEFINE n == Len(s)
             Told(v) == \E d \in 1..n : \E l \in 1..Len(s[d]) : v = s[d][l]
  <1>0. PICK f : IsFlatten(f, s, X)
    BY FlattenStep
  <1> DEFINE G == {m \in 0..n : \A j \in 1..Len(f[m]) : Told(f[m][j])}
  <1>a. Grows(f, s, n)
    BY <1>0, FlattenGrows
  <1> HIDE DEF n
  <1> USE DEF Grows
  <1>1. /\ \A i \in 0..n : Len(f[i]) \in Nat
        /\ f[0] = <<>> /\ FlattenSeq(s) = f[n]
        /\ \A i \in 1..n : /\ Len(s[i]) \in Nat
                           /\ Len(f[i]) = Len(f[i - 1]) + Len(s[i])
                           /\ \A j \in 1..Len(f[i - 1]) : f[i][j] = f[i - 1][j]
                           /\ \A j \in 1..Len(s[i]) : f[i][Len(f[i - 1]) + j] = s[i][j]
    BY <1>a
  <1>2. n \in Nat
    BY <1>a
  <1>3. 0 \in G
    <2>1. 1..Len(f[0]) = {}
      BY <1>1
    <2> QED BY <1>2, <2>1
  <1>4. ASSUME NEW m \in 1..n, m - 1 \in G PROVE m \in G
    <2>1. m - 1 \in 0..n /\ m \in 0..n /\ Len(f[m - 1]) \in Nat
      BY <1>1, <1>2
    <2>2. ASSUME NEW j \in 1..Len(f[m]) PROVE Told(f[m][j])
      <3>1. CASE j \in 1..Len(f[m - 1])
        <4>1. Told(f[m - 1][j]) /\ f[m][j] = f[m - 1][j]
          BY <1>1, <1>4, <3>1
        <4> HIDE DEF Told
        <4> QED BY <4>1
      <3>2. CASE ~ (j \in 1..Len(f[m - 1]))
        <4> DEFINE l == j - Len(f[m - 1])
        <4>1. l \in 1..Len(s[m]) /\ j = Len(f[m - 1]) + l
          <5> DEFINE x == Len(f[m - 1])
                     y == Len(s[m])
          <5>1. x \in Nat /\ y \in Nat /\ Len(f[m]) = x + y
            BY <1>1, <2>1
          <5>2. j \in 1..(x + y) /\ ~ (j \in 1..x) /\ l = j - x
            BY <3>2, <5>1
          <5> HIDE DEF x, y, l
          <5>3. l \in 1..y /\ j = x + l
            BY <5>1, <5>2
          <5> QED BY <5>3 DEF x, y
        <4> HIDE DEF l
        <4>2. f[m][j] = s[m][l]
          BY <1>1, <4>1
        <4> QED BY <4>1, <4>2
      <3> QED BY <3>1, <3>2
    <2> HIDE DEF Told
    <2> QED BY <2>1, <2>2
  <1>5. n \in G
    <2> HIDE DEF G
    <2>1. \A m \in 0..n : m \in G
      BY <1>2, <1>3, <1>4, Along
    <2> QED BY <1>2, <2>1
  <1>6. Told(f[n][k])
    <2> HIDE DEF Told
    <2> QED BY <1>1, <1>5
  <1> QED BY <1>1, <1>6 DEF n

-----------------------------------------------------------------------------
Chunk == Seq(Token)
Query == Seq(Chunk)
Item == [token : Token, id : BOOLEAN]

LEMMA SaidType ==
  ASSUME NEW query \in Query
  PROVE  SaidBy(query) \in Seq(Token)
  BY FlattenType DEF SaidBy, Query, Chunk

LEMMA ItemsOfType ==
  ASSUME NEW chunk \in Chunk
  PROVE  /\ ItemsOf(chunk) \in Seq(Item)
         /\ IsIdentifier(chunk) =>
              Len(ItemsOf(chunk)) = 1 /\ ItemsOf(chunk)[1] = [token |-> FlattenSeq(chunk), id |-> TRUE]
         /\ ~IsIdentifier(chunk) =>
              /\ Len(ItemsOf(chunk)) = Len(chunk)
              /\ \A k \in 1..Len(chunk) : ItemsOf(chunk)[k] = [token |-> chunk[k], id |-> FALSE]
  <1>1. CASE IsIdentifier(chunk)
    <2>1. FlattenSeq(chunk) \in Token
      BY FlattenType DEF Chunk, Token
    <2>2. [token |-> FlattenSeq(chunk), id |-> TRUE] \in Item
      BY <2>1 DEF Item
    <2> QED BY <1>1, <2>2 DEF ItemsOf
  <1>2. CASE ~IsIdentifier(chunk)
    <2>1. Len(chunk) \in Nat /\ DOMAIN chunk = 1..Len(chunk) /\ \A k \in 1..Len(chunk) : chunk[k] \in Token
      BY DEF Chunk
    <2> DEFINE s == [k \in 1..Len(chunk) |-> [token |-> chunk[k], id |-> FALSE]]
    <2>2. \A k \in 1..Len(chunk) : [token |-> chunk[k], id |-> FALSE] \in Item
      BY <2>1 DEF Item
    <2>3. s \in Seq(Item) /\ Len(s) = Len(chunk) /\ \A k \in 1..Len(chunk) : s[k] = [token |-> chunk[k], id |-> FALSE]
      BY <2>1, <2>2
    <2>4. ItemsOf(chunk) = s
      BY <1>2, <2>1 DEF ItemsOf
    <2> HIDE DEF s
    <2> QED BY <1>2, <2>3, <2>4
  <1> QED BY <1>1, <1>2

Itemized(query) == [k \in DOMAIN query |-> ItemsOf(query[k])]

LEMMA ItemizedType ==
  ASSUME NEW query \in Query
  PROVE  /\ Itemized(query) \in Seq(Seq(Item))
         /\ Len(Itemized(query)) = Len(query)
         /\ \A k \in 1..Len(query) : query[k] \in Chunk /\ Itemized(query)[k] = ItemsOf(query[k])
         /\ Items(query) = FlattenSeq(Itemized(query))
         /\ Items(query) \in Seq(Item)
  <1>1. Len(query) \in Nat /\ DOMAIN query = 1..Len(query) /\ \A k \in 1..Len(query) : query[k] \in Chunk
    BY DEF Query
  <1>2. \A k \in 1..Len(query) : ItemsOf(query[k]) \in Seq(Item)
    BY <1>1, ItemsOfType
  <1>3. Itemized(query) = [k \in 1..Len(query) |-> ItemsOf(query[k])]
    BY <1>1 DEF Itemized
  <1>4. /\ Itemized(query) \in Seq(Seq(Item))
        /\ Len(Itemized(query)) = Len(query)
        /\ \A k \in 1..Len(query) : Itemized(query)[k] = ItemsOf(query[k])
    BY <1>1, <1>2, <1>3
  <1>5. Items(query) = FlattenSeq(Itemized(query))
    BY DEF Items, Itemized
  <1>6. Items(query) \in Seq(Item)
    BY <1>4, <1>5, FlattenType
  <1> QED BY <1>1, <1>4, <1>5, <1>6

\* An item is a word of the text, or an identifier that stands in it.
LEMMA ItemIsSaid ==
  ASSUME NEW query \in Query, NEW i \in 1..Len(Items(query))
  PROVE  LET item == Items(query)[i] IN
         \E d \in 1..Len(query) :
            \/ /\ IsIdentifier(query[d]) /\ item = [token |-> FlattenSeq(query[d]), id |-> TRUE]
            \/ /\ ~IsIdentifier(query[d])
               /\ \E k \in 1..Len(query[d]) : item = [token |-> query[d][k], id |-> FALSE]
  <1>1. /\ Itemized(query) \in Seq(Seq(Item)) /\ Len(Itemized(query)) = Len(query)
        /\ Items(query) = FlattenSeq(Itemized(query))
        /\ \A k \in 1..Len(query) : query[k] \in Chunk /\ Itemized(query)[k] = ItemsOf(query[k])
    BY ItemizedType
  <1>2. i \in 1..Len(FlattenSeq(Itemized(query)))
    BY <1>1
  <1>3. PICK d \in 1..Len(query) : \E l \in 1..Len(Itemized(query)[d]) : Items(query)[i] = Itemized(query)[d][l]
    <2>1. \E d \in 1..Len(Itemized(query)) : \E l \in 1..Len(Itemized(query)[d]) :
             FlattenSeq(Itemized(query))[i] = Itemized(query)[d][l]
      BY <1>1, <1>2, TextOfChunks
    <2> QED BY <1>1, <2>1
  <1>4. query[d] \in Chunk /\ Itemized(query)[d] = ItemsOf(query[d])
    BY <1>1
  <1>5. PICK l \in 1..Len(ItemsOf(query[d])) : Items(query)[i] = ItemsOf(query[d])[l]
    BY <1>3, <1>4
  <1>6. CASE IsIdentifier(query[d])
    <2>1. Len(ItemsOf(query[d])) = 1 /\ ItemsOf(query[d])[1] = [token |-> FlattenSeq(query[d]), id |-> TRUE]
      BY <1>4, <1>6, ItemsOfType
    <2>2. l = 1
      BY <2>1
    <2> QED BY <1>5, <1>6, <2>1, <2>2
  <1>7. CASE ~IsIdentifier(query[d])
    <2>1. /\ Len(ItemsOf(query[d])) = Len(query[d])
          /\ \A k \in 1..Len(query[d]) : ItemsOf(query[d])[k] = [token |-> query[d][k], id |-> FALSE]
      BY <1>4, <1>7, ItemsOfType
    <2> QED BY <1>5, <1>7, <2>1
  <1> QED BY <1>6, <1>7

\* A word of a chunk is an item, and an identifier is one.
LEMMA SaidIsItem ==
  ASSUME NEW query \in Query, NEW d \in 1..Len(query), NEW k \in 1..Len(query[d])
  PROVE  \E i \in 1..Len(Items(query)) :
            Items(query)[i] = IF IsIdentifier(query[d]) THEN [token |-> FlattenSeq(query[d]), id |-> TRUE]
                              ELSE [token |-> query[d][k], id |-> FALSE]
  <1> DEFINE s == Itemized(query)
             l == IF IsIdentifier(query[d]) THEN 1 ELSE k
  <1>1. /\ s \in Seq(Seq(Item)) /\ Len(s) = Len(query)
        /\ Items(query) = FlattenSeq(s) /\ Items(query) \in Seq(Item)
        /\ query[d] \in Chunk /\ s[d] = ItemsOf(query[d])
    BY ItemizedType
  <1>2. /\ l \in 1..Len(s[d])
        /\ s[d][l] = IF IsIdentifier(query[d]) THEN [token |-> FlattenSeq(query[d]), id |-> TRUE]
                     ELSE [token |-> query[d][k], id |-> FALSE]
    <2>1. CASE IsIdentifier(query[d])
      BY <1>1, <2>1, ItemsOfType
    <2>2. CASE ~IsIdentifier(query[d])
      BY <1>1, <2>2, ItemsOfType
    <2> QED BY <2>1, <2>2
  <1> HIDE DEF l, s
  <1>3. PICK e \in Nat : /\ e + Len(s[d]) <= Len(FlattenSeq(s))
                         /\ \A j \in 1..Len(s[d]) : FlattenSeq(s)[e + j] = s[d][j]
    <2>1. d \in 1..Len(s)
      BY <1>1
    <2> QED BY <1>1, <2>1, ChunkInText
  <1>4. Items(query)[e + l] = s[d][l]
    BY <1>1, <1>2, <1>3
  <1>5. Len(s[d]) \in Nat /\ Len(Items(query)) \in Nat
    BY <1>1
  <1>6. e + l \in 1..Len(Items(query))
    BY <1>1, <1>2, <1>3, <1>5
  <1> QED BY <1>2, <1>4, <1>6

\* A chunk stands in the text.
LEMMA ChunkIsSaid ==
  ASSUME NEW query \in Query, NEW d \in 1..Len(query), Len(query[d]) # 0
  PROVE  \E at \in 1..Len(SaidBy(query)) : Occurs(query[d], at, SaidBy(query))
  <1> DEFINE said == SaidBy(query)
  <1>1. /\ query \in Seq(Seq(Token)) /\ said = FlattenSeq(query) /\ said \in Seq(Token)
        /\ query[d] \in Seq(Token) /\ Len(query[d]) \in Nat \ {0} /\ Len(said) \in Nat
    <2>1. query \in Seq(Seq(Token)) /\ said \in Seq(Token)
      BY SaidType DEF Query, Chunk
    <2>2. query[d] \in Seq(Token)
      BY <2>1
    <2> QED BY <2>1, <2>2 DEF SaidBy
  <1> HIDE DEF said
  <1>3. PICK e \in Nat : /\ e + Len(query[d]) <= Len(said)
                         /\ \A k \in 1..Len(query[d]) : said[e + k] = query[d][k]
    BY <1>1, ChunkInText
  <1> DEFINE at == e + 1
             l == Len(query[d])
  <1>4. /\ at \in 1..Len(said) /\ at + Len(query[d]) - 1 <= Len(said)
        /\ \A k \in 1..Len(query[d]) : at + k - 1 = e + k
    <2>1. l \in Nat \ {0} /\ Len(said) \in Nat /\ e + l <= Len(said)
      BY <1>1, <1>3
    <2> HIDE DEF l
    <2>2. /\ at \in 1..Len(said) /\ at + l - 1 <= Len(said)
          /\ \A k \in 1..l : at + k - 1 = e + k
      BY <2>1
    <2> QED BY <2>2 DEF l
  <1> HIDE DEF at
  <1>5. \A k \in 1..Len(query[d]) : said[at + k - 1] = query[d][k]
    BY <1>3, <1>4
  <1>6. Occurs(query[d], at, said)
    BY <1>1, <1>4, <1>5, OccursHere
  <1> QED BY <1>4, <1>6 DEF said

-----------------------------------------------------------------------------
\* Where the words among the items stand in the text: words in a row stand in a row,
\* and the last ones at the end.
Places(place, items, text) ==
    /\ \A i \in 1..Len(items) : ~items[i].id => place[i] \in 1..Len(text) /\ text[place[i]] = items[i].token
    /\ \A i, j \in 1..Len(items) :
          i <= j /\ (\A k \in i..j : ~items[k].id) => place[j] = place[i] + (j - i)
    /\ \A i \in 1..Len(items) :
          (\A k \in i..Len(items) : ~items[k].id) => Len(text) = place[i] + (Len(items) - i)

LEMMA PlacesGrow ==
  ASSUME NEW items \in Seq(Item), NEW text \in Seq(Token), NEW chunk \in Chunk,
         NEW place, Places(place, items, text)
  PROVE  \E h : Places(h, items \o ItemsOf(chunk), text \o chunk)
  <1> DEFINE new == ItemsOf(chunk)
             its == items \o new
             txt == text \o chunk
             m == Len(items)
             n == Len(new)
             u == Len(text)
             v == Len(chunk)
  <1>1. /\ m \in Nat /\ n \in Nat /\ u \in Nat /\ v \in Nat
        /\ Len(its) = m + n /\ Len(txt) = u + v
        /\ \A i \in 1..m : its[i] = items[i]
        /\ \A i \in 1..n : its[m + i] = new[i]
        /\ \A i \in 1..u : txt[i] = text[i]
        /\ \A i \in 1..v : txt[u + i] = chunk[i]
    <2>1. items \in Seq(Item) /\ new \in Seq(Item) /\ text \in Seq(Token) /\ chunk \in Seq(Token)
      BY ItemsOfType DEF Chunk
    <2> HIDE DEF new
    <2>2. m \in Nat /\ n \in Nat /\ u \in Nat /\ v \in Nat
      BY <2>1
    <2>3. Len(its) = m + n /\ (\A i \in 1..m : its[i] = items[i]) /\ \A i \in 1..n : its[m + i] = new[i]
      BY <2>1, <2>2
    <2>4. Len(txt) = u + v /\ (\A i \in 1..u : txt[i] = text[i]) /\ \A i \in 1..v : txt[u + i] = chunk[i]
      BY <2>1, <2>2
    <2> QED BY <2>2, <2>3, <2>4
  <1>2. \/ IsIdentifier(chunk) /\ n = 1 /\ new[1].id
        \/ ~IsIdentifier(chunk) /\ n = v /\ \A i \in 1..v : new[i].token = chunk[i] /\ ~new[i].id
    <2>1. CASE IsIdentifier(chunk)
      <3>1. n = 1 /\ new[1] = [token |-> FlattenSeq(chunk), id |-> TRUE]
        BY <2>1, ItemsOfType
      <3> HIDE DEF new, n
      <3> QED BY <2>1, <3>1
    <2>2. CASE ~IsIdentifier(chunk)
      <3>1. n = v /\ \A i \in 1..v : new[i] = [token |-> chunk[i], id |-> FALSE]
        BY <2>2, ItemsOfType
      <3> HIDE DEF new, n, v
      <3>2. ASSUME NEW i \in 1..v PROVE new[i].token = chunk[i] /\ ~new[i].id
        <4>1. new[i] = [token |-> chunk[i], id |-> FALSE]
          BY <3>1
        <4> QED BY <4>1
      <3> QED BY <2>2, <3>1, <3>2
    <2> QED BY <2>1, <2>2
  <1> HIDE DEF new, its, txt, m, n, u, v
  <1>3. \/ n = 1 /\ its[m + 1].id
        \/ n = v /\ \A i \in 1..v : its[m + i].token = chunk[i]
    BY <1>1, <1>2
  <1>4. /\ \A i \in 1..m : ~items[i].id => place[i] \in 1..u /\ text[place[i]] = items[i].token
        /\ \A i, j \in 1..m : i <= j /\ (\A k \in i..j : ~items[k].id) => place[j] = place[i] + (j - i)
        /\ \A i \in 1..m : (\A k \in i..m : ~items[k].id) => u = place[i] + (m - i)
    BY DEF Places, m, u
  <1> DEFINE h == [i \in 1..(m + n) |-> IF i <= m THEN place[i] ELSE u + (i - m)]
  <1>5. (\A i \in 1..m : h[i] = place[i]) /\ \A i \in (m + 1)..(m + n) : h[i] = u + (i - m)
    BY <1>1
  <1> HIDE DEF h
  <1>6. \A i \in 1..(m + n) : i \in 1..m \/ i \in (m + 1)..(m + n)
    BY <1>1
  <1>7. ASSUME NEW i \in 1..(m + n), ~its[i].id
        PROVE  h[i] \in 1..(u + v) /\ txt[h[i]] = its[i].token
    <2>1. CASE i \in 1..m
      <3>1. h[i] \in 1..u /\ text[h[i]] = its[i].token
        BY <1>1, <1>4, <1>5, <1>7, <2>1
      <3> QED BY <1>1, <3>1
    <2>2. CASE i \in (m + 1)..(m + n)
      <3> DEFINE j == i - m
      <3>1. i = m + j /\ j \in 1..n
        BY <1>1, <2>2
      <3>2. n = v /\ \A k \in 1..v : its[m + k].token = chunk[k]
        BY <1>1, <1>3, <1>7, <3>1
      <3>3. h[i] = u + j
        BY <1>5, <2>2
      <3> HIDE DEF j
      <3> QED BY <1>1, <3>1, <3>2, <3>3
    <2> QED BY <1>6, <2>1, <2>2
  <1>8. ASSUME NEW i \in 1..(m + n), i <= m, \A k \in i..m : ~its[k].id
        PROVE  place[i] \in Int /\ u = place[i] + (m - i)
    <2>1. i \in 1..m /\ \A k \in i..m : ~items[k].id
      BY <1>1, <1>8
    <2>2. i \in i..m
      BY <2>1
    <2> QED BY <1>4, <2>1, <2>2
  <1>9. ASSUME NEW i \in 1..(m + n), NEW j \in 1..(m + n), i <= j, \A k \in i..j : ~its[k].id
        PROVE  h[j] = h[i] + (j - i)
    <2>1. CASE j \in 1..m
      <3>1. i \in 1..m /\ \A k \in i..j : ~items[k].id
        BY <1>1, <1>9, <2>1
      <3>2. place[j] = place[i] + (j - i)
        BY <1>4, <1>9, <2>1, <3>1
      <3> QED BY <1>5, <2>1, <3>1, <3>2
    <2>2. CASE j \in (m + 1)..(m + n) /\ i \in 1..m
      <3>1. i <= m /\ \A k \in i..m : k \in i..j
        BY <1>1, <2>2
      <3>2. place[i] \in Int /\ u = place[i] + (m - i)
        BY <1>8, <1>9, <3>1
      <3>3. h[j] = u + (j - m) /\ h[i] = place[i]
        BY <1>5, <2>2
      <3> QED BY <1>1, <2>2, <3>2, <3>3
    <2>3. CASE j \in (m + 1)..(m + n) /\ i \in (m + 1)..(m + n)
      <3>1. h[j] = u + (j - m) /\ h[i] = u + (i - m)
        BY <1>5, <2>3
      <3> QED BY <1>1, <2>3, <3>1
    <2> QED BY <1>6, <2>1, <2>2, <2>3
  <1>10. ASSUME NEW i \in 1..(m + n), \A k \in i..(m + n) : ~its[k].id
         PROVE  u + v = h[i] + ((m + n) - i)
    <2>1. n = 0 \/ m + 1 \in i..(m + n) \/ i \in (m + 1)..(m + n)
      BY <1>1
    <2>2. n = v
      <3>1. CASE n = 1
        <4>1. i \in 1..(m + 1) /\ m + 1 \in i..(m + n)
          BY <1>1, <3>1
        <4> QED BY <1>3, <1>10, <4>1
      <3>2. CASE n # 1
        BY <1>3, <3>2
      <3> QED BY <3>1, <3>2
    <2>3. CASE i \in 1..m
      <3>1. i <= m /\ \A k \in i..m : k \in i..(m + n)
        BY <1>1, <2>3
      <3>2. place[i] \in Int /\ u = place[i] + (m - i)
        BY <1>8, <1>10, <3>1
      <3> QED BY <1>1, <1>5, <2>2, <2>3, <3>2
    <2>4. CASE i \in (m + 1)..(m + n)
      <3>1. h[i] = u + (i - m)
        BY <1>5, <2>4
      <3> QED BY <1>1, <2>2, <2>4, <3>1
    <2> QED BY <1>6, <2>3, <2>4
  <1>11. Places(h, its, txt)
    BY <1>1, <1>7, <1>9, <1>10 DEF Places
  <1> QED BY <1>11 DEF its, txt, new

LEMMA WordsStand ==
  ASSUME NEW query \in Query
  PROVE  \E place : Places(place, Items(query), SaidBy(query))
  <1> DEFINE n == Len(query)
             s == Itemized(query)
  <1>1. /\ s \in Seq(Seq(Item)) /\ Len(s) = n /\ Items(query) = FlattenSeq(s)
        /\ \A k \in 1..n : query[k] \in Chunk /\ s[k] = ItemsOf(query[k])
    BY ItemizedType
  <1>2. query \in Seq(Seq(Token)) /\ n \in Nat
    BY DEF Query, Chunk
  <1> HIDE DEF s
  <1>3. PICK f : IsFlatten(f, query, Token)
    BY <1>2, FlattenStep
  <1>4. PICK h : IsFlatten(h, s, Item)
    BY <1>1, FlattenStep
  <1>5. /\ f[0] = <<>> /\ h[0] = <<>> /\ SaidBy(query) = f[n] /\ Items(query) = h[n]
        /\ \A i \in 0..n : f[i] \in Seq(Token) /\ h[i] \in Seq(Item)
        /\ \A i \in 1..n : f[i] = f[i - 1] \o query[i] /\ h[i] = h[i - 1] \o ItemsOf(query[i])
    <2>1. /\ f \in [0..n -> Seq(Token)] /\ f[0] = <<>> /\ SaidBy(query) = f[n]
          /\ \A i \in 1..n : f[i] = f[i - 1] \o query[i]
      BY <1>3 DEF IsFlatten, SaidBy
    <2>2. /\ h \in [0..n -> Seq(Item)] /\ h[0] = <<>> /\ Items(query) = h[n]
          /\ \A i \in 1..n : h[i] = h[i - 1] \o s[i]
      BY <1>1, <1>4 DEF IsFlatten
    <2> HIDE DEF n
    <2> QED BY <1>1, <2>1, <2>2
  <1> HIDE DEF n
  <1> DEFINE G == {m \in 0..n : \E place : Places(place, h[m], f[m])}
  <1>6. 0 \in G
    <2>1. Places(<<>>, <<>>, <<>>)
      BY DEF Places
    <2>2. 0 \in 0..n
      BY <1>2
    <2> QED BY <1>5, <2>1, <2>2
  <1>7. ASSUME NEW m \in 1..n, m - 1 \in G PROVE m \in G
    <2>1. m \in 0..n /\ m - 1 \in 0..n
      BY <1>2
    <2>2. PICK place : Places(place, h[m - 1], f[m - 1])
      BY <1>7
    <2>3. h[m - 1] \in Seq(Item) /\ f[m - 1] \in Seq(Token) /\ query[m] \in Chunk
      BY <1>1, <1>5, <2>1
    <2>4. \E place2 : Places(place2, h[m - 1] \o ItemsOf(query[m]), f[m - 1] \o query[m])
      BY <2>2, <2>3, PlacesGrow
    <2>5. h[m] = h[m - 1] \o ItemsOf(query[m]) /\ f[m] = f[m - 1] \o query[m]
      BY <1>5
    <2>6. \E place2 : Places(place2, h[m], f[m])
      BY <2>4, <2>5
    <2> QED BY <2>1, <2>6
  <1>8. n \in G
    <2> HIDE DEF G
    <2>1. \A m \in 0..n : m \in G
      BY <1>2, <1>6, <1>7, Along
    <2> QED BY <1>2, <2>1
  <1> QED BY <1>5, <1>8

-----------------------------------------------------------------------------
(* The legacy engine. *)

LEMMA ClampKeeps ==
  ASSUME NEW n \in 0..100
  PROVE  Clamp(n) = n
  <1>1. Min({100, n}) = n
    BY DEF Min
  <1>2. Max({0, n}) = n
    BY DEF Max
  <1> QED BY <1>1, <1>2 DEF Clamp

LEMMA MinOfTwo ==
  ASSUME NEW n \in Nat
  PROVE  Min({n, 2}) \in Nat /\ Min({n, 2}) <= n
  BY DEF Min

LEMMA SingleWord ==
  ASSUME NEW X, NEW s \in Seq(X), NEW t \in Range(s)
  PROVE  Mentions(s, <<t>>)
  <1>1. PICK at \in 1..Len(s) : s[at] = t
    BY DEF Range
  <1>2. t \in X
    BY <1>1
  <1>3. <<t>> \in Seq(X) /\ Len(<<t>>) = 1 /\ <<t>>[1] = t
    BY <1>2
  <1>4. at + 1 - 1 = at /\ at \in Nat /\ Len(s) \in Nat
    BY <1>1
  <1> DEFINE p == <<t>>
  <1>5. p \in Seq(X) /\ Len(p) = 1 /\ p[1] = t
    BY <1>3
  <1> HIDE DEF p
  <1>6. at + Len(p) - 1 <= Len(s) /\ \A l \in 1..Len(p) : s[at + l - 1] = p[l]
    BY <1>1, <1>4, <1>5
  <1>7. Occurs(p, at, s)
    BY <1>1, <1>5, <1>6, OccursHere
  <1> QED BY <1>7 DEF Mentions, p

LEMMA CountRange ==
  ASSUME NEW X, NEW s \in Seq(X), IsInjective(s)
  PROVE  IsFiniteSet(Range(s)) /\ Cardinality(Range(s)) = Len(s)
  <1>1. s \in [1..Len(s) -> Range(s)] /\ Len(s) \in Nat
    BY DEF Range
  <1>2. s \in Injection(1..Len(s), Range(s))
    BY <1>1 DEF Injection
  <1>3. s \in Surjection(1..Len(s), Range(s))
    BY <1>1 DEF Surjection, Range
  <1>4. ExistsBijection(1..Len(s), Range(s))
    BY <1>2, <1>3 DEF ExistsBijection, Bijection
  <1> QED BY <1>1, <1>4, FS_NatBijection, FS_CountingElements

LEMMA CoreType ==
  ASSUME NEW query \in Query, IsInjective(SaidBy(query))
  PROVE  /\ CoreTokens(query) \in Seq(Token)
         /\ Range(CoreTokens(query)) = {SaidBy(query)[i] : i \in (DOMAIN SaidBy(query)) \ BrandPositions(SaidBy(query))}
         /\ Range(CoreTokens(query)) \subseteq Range(SaidBy(query))
         /\ IsInjective(CoreTokens(query))
  <1> DEFINE said == SaidBy(query)
  <1>1. CoreTokens(query) = Without(said, BrandPositions(said))
    BY DEF CoreTokens, SaidBy
  <1>2. said \in Seq(Token)
    BY SaidType
  <1>3. /\ CoreTokens(query) \in Seq(Token)
        /\ Range(CoreTokens(query)) = {said[i] : i \in (DOMAIN said) \ BrandPositions(said)}
        /\ IsInjective(CoreTokens(query))
    BY <1>1, <1>2, WithoutKeeps
  <1>4. {said[i] : i \in (DOMAIN said) \ BrandPositions(said)} \subseteq Range(said)
    BY DEF Range
  <1> QED BY <1>3, <1>4

LEMMA FamilyNamed ==
  ASSUME NEW X, NEW s \in Seq(X), NEW f \in FamilyOf(s)
  PROVE  f \in Families /\ (f.core = s \/ \E i \in DOMAIN s : f.core = <<s[i]>>)
  <1> DEFINE named(i) == {g \in Families : g.core = <<s[i]>>}
             naming == {i \in DOMAIN s : named(i) # {}}
  <1>1. CASE \E g \in Families : g.core = s
    BY <1>1 DEF FamilyOf
  <1>2. CASE ~ \E g \in Families : g.core = s
    <2>1. naming # {} /\ f \in named(Min(naming))
      BY <1>2 DEF FamilyOf
    <2>2. naming \subseteq Nat
      OBVIOUS
    <2>3. Min(naming) \in naming
      <3> HIDE DEF naming
      <3>1. PICK n \in naming : \A m \in naming : n <= m
        BY <2>1, <2>2, LeastNat
      <3> QED BY <3>1 DEF Min
    <2> QED BY <2>1, <2>3
  <1> QED BY <1>1, <1>2

\* The accessory that is asked for is among those that are.
LEMMA TargetAsked ==
  ASSUME NEW core \in Seq(Token), NEW title, NEW asked, asked = MatchesIn(core, Accessories), asked # {},
         \A p \in asked : Mentions(title, p)
  PROVE  AccessoryMatch(core, asked, title) = [score |-> 55, unambiguous |-> TRUE]
  <1> DEFINE longest == {p \in asked : \A o \in asked : Len(o) <= Len(p)}
             start(p) == Min({at \in DOMAIN core : Occurs(p, at, core)})
             target == CHOOSE p \in longest : \A o \in longest : start(p) <= start(o)
  <1>1. ASSUME NEW p \in asked
        PROVE  Len(p) \in Nat /\ Len(p) <= Len(core) /\ start(p) \in Nat
    <2>1. p \in Seq(Token) /\ Mentions(core, p)
      BY RelevanceAssumption DEF MatchesIn
    <2> DEFINE T == {at \in DOMAIN core : Occurs(p, at, core)}
    <2>2. T # {} /\ T \subseteq Nat
      BY <2>1 DEF Mentions
    <2>3. PICK at \in 1..Len(core) : Occurs(p, at, core)
      BY <2>1 DEF Mentions
    <2>4. Len(p) <= Len(core) /\ Len(p) \in Nat
      BY <2>1, <2>3 DEF Occurs
    <2>5. Min(T) \in Nat
      <3> HIDE DEF T
      <3>1. PICK n \in T : \A m \in T : n <= m
        BY <2>2, LeastNat
      <3> QED BY <2>2, <3>1 DEF Min
    <2> QED BY <2>4, <2>5
  <1> HIDE DEF start
  <1>2. longest # {}
    <2> DEFINE T == {Len(core) - Len(p) : p \in asked}
    <2>1. T \subseteq Nat /\ T # {}
      BY <1>1
    <2>2. PICK n \in T : \A m \in T : n <= m
      <3> HIDE DEF T
      <3> QED BY <2>1, LeastNat
    <2>3. PICK p \in asked : n = Len(core) - Len(p)
      BY <2>2
    <2>4. ASSUME NEW o \in asked PROVE Len(o) <= Len(p)
      <3>1. Len(core) - Len(o) \in T
        OBVIOUS
      <3> HIDE DEF T
      <3>2. Len(core) - Len(p) <= Len(core) - Len(o)
        BY <2>2, <2>3, <3>1
      <3>3. Len(o) \in Nat /\ Len(p) \in Nat /\ Len(core) \in Nat
        BY <1>1
      <3> QED BY <3>2, <3>3
    <2>5. p \in longest
      BY <2>4
    <2> QED BY <2>5
  <1>3. target \in longest
    <2> DEFINE T == {start(p) : p \in longest}
    <2>1. T \subseteq Nat /\ T # {}
      BY <1>1, <1>2
    <2>2. PICK n \in T : \A m \in T : n <= m
      <3> HIDE DEF T
      <3> QED BY <2>1, LeastNat
    <2>3. PICK p \in longest : n = start(p)
      BY <2>2
    <2>4. \A o \in longest : start(o) \in T
      OBVIOUS
    <2> HIDE DEF T, longest
    <2>5. \A o \in longest : start(p) <= start(o)
      BY <2>2, <2>3, <2>4
    <2> QED BY <2>3, <2>5
  <1>4. target \in asked
    <2> HIDE DEF target
    <2> QED BY <1>3
  <1>5. Mentions(title, target)
    <2> HIDE DEF target
    <2> QED BY <1>4
  <1> USE DEF start
  <1> QED BY <1>5, Zenon DEF AccessoryMatch

\* The product is in the title.
LEMMA CoreIsMatched ==
  ASSUME NEW query \in Query, PlainlyPut(query), CoreTokens(query) # <<>>
  PROVE  CoreMatch(CoreTokens(query), SaidBy(query)).score = 55
  <1> DEFINE core == CoreTokens(query)
             title == SaidBy(query)
             asked == MatchesIn(core, Accessories)
             family == FamilyOf(core)
             strong == UNION {MatchesIn(title, f.strong) : f \in family}
             related == UNION {MatchesIn(title, f.related) : f \in family}
             shared == {t \in Range(core) : Contains(title, t)}
             found(score, phrases) == [score |-> score, unambiguous |-> \E p \in phrases : Len(p) > 1]
  <1>1. /\ IsInjective(title)
        /\ \A p \in Accessories : Mentions(core, p) <=> Mentions(title, p)
        /\ \A f \in Families : f.core = core => Mentions(title, core)
    BY DEF PlainlyPut
  <1>2. /\ title \in Seq(Token) /\ core \in Seq(Token) /\ core # <<>>
        /\ Range(core) \subseteq Range(title) /\ IsInjective(core)
    BY <1>1, CoreType, SaidType
  <1>3. family # {} => strong # {}
    <2> SUFFICES ASSUME family # {} PROVE strong # {}
      OBVIOUS
    <2>1. PICK f \in family : TRUE
      OBVIOUS
    <2>2. f \in Families /\ (f.core = core \/ \E i \in DOMAIN core : f.core = <<core[i]>>)
      <3> HIDE DEF core
      <3> QED BY <1>2, <2>1, FamilyNamed
    <2>3. Mentions(title, f.core)
      <3>1. CASE f.core = core
        BY <1>1, <2>2, <3>1
      <3>2. CASE \E i \in DOMAIN core : f.core = <<core[i]>>
        <4>1. PICK i \in DOMAIN core : f.core = <<core[i]>>
          BY <3>2
        <4>2. core[i] \in Range(title)
          BY <1>2 DEF Range
        <4> HIDE DEF core, title
        <4> QED BY <1>2, <4>1, <4>2, SingleWord
      <3> QED BY <2>2, <3>1, <3>2
    <2>4. f.core \in MatchesIn(title, f.strong)
      BY <2>2, <2>3, RelevanceAssumption DEF MatchesIn
    <2> QED BY <2>1, <2>4
  <1>4. family = {} => strong = {} /\ related = {}
    OBVIOUS
  <1>5. asked # {} => AccessoryMatch(core, asked, title) = [score |-> 55, unambiguous |-> TRUE]
    <2>1. \A p \in asked : Mentions(title, p)
      BY <1>1 DEF MatchesIn
    <2> HIDE DEF core, title
    <2> QED BY <1>2, <2>1, TargetAsked
  <1>6. Cardinality(shared) >= Min({Len(core), 2})
    <2>1. shared = Range(core)
      <3>1. \A t \in Range(title) : Contains(title, t)
        BY <1>2 DEF Contains, Range
      <3> HIDE DEF core, title
      <3> QED BY <1>2, <3>1
    <2>2. Cardinality(shared) = Len(core) /\ Len(core) \in Nat
      <3> HIDE DEF core, shared
      <3> QED BY <1>2, <2>1, CountRange
    <2> HIDE DEF core, shared
    <2> QED BY <2>2, MinOfTwo
  <1>7. CoreMatch(core, title) =
          CASE strong # {} -> found(55, strong)
            [] strong = {} /\ related # {} -> found(35, related)
            [] strong \cup related = {} /\ asked # {} -> AccessoryMatch(core, asked, title)
            [] strong \cup related \cup asked = {} /\ family # {} -> NoMatch
            [] asked \cup family = {} ->
                  IF Cardinality(shared) >= Min({Len(core), 2}) THEN [score |-> 55, unambiguous |-> FALSE]
                  ELSE NoMatch
    BY DEF CoreMatch
  <1>8. found(55, strong).score = 55
    OBVIOUS
  <1> HIDE DEF asked, family, strong, related, shared, found
  <1>9. CASE strong # {}
    <2>1. family # {}
      BY <1>4, <1>9
    <2>2. CoreMatch(core, title) = found(55, strong)
      BY <1>7, <1>9, <2>1
    <2> QED BY <1>8, <2>2
  <1>10. CASE strong = {} /\ asked # {}
    <2>1. CoreMatch(core, title) = AccessoryMatch(core, asked, title)
      BY <1>3, <1>4, <1>7, <1>10
    <2> QED BY <1>5, <1>10, <2>1
  <1>11. CASE strong = {} /\ asked = {}
    <2>1. CoreMatch(core, title) = [score |-> 55, unambiguous |-> FALSE]
      BY <1>3, <1>4, <1>6, <1>7, <1>11
    <2> QED BY <2>1
  <1> QED BY <1>9, <1>10, <1>11

\* A listing that is called what was asked for is relevant to the legacy engine.
LEMMA LegacyFinds ==
  ASSUME NEW query \in Query, PlainlyPut(query)
  PROVE  EvaluateLegacy(query, Untold(SaidBy(query))).relevant
  <1> DEFINE title == SaidBy(query)
             wanted == BrandsIn(title)
             named == BrandsIn(title \o <<>>)
             brand == IF wanted \cap named # {} THEN 30 ELSE 0
             core == CoreTokens(query)
             match == CoreMatch(core, title)
             penalty == IF /\ TitleAccessories(title) # {} /\ ~match.unambiguous
                           /\ MatchesIn(core, Accessories) = {}
                        THEN 45 ELSE 0
             score == Clamp(brand + match.score - penalty)
  <1>1. /\ IsInjective(title) /\ (\E t \in Range(title) : t \notin StopWords)
        /\ \A p \in Accessories : Mentions(core, p) <=> Mentions(title, p)
    BY DEF PlainlyPut
  <1>2. title \in Seq(Token) /\ named = wanted
    <2>1. title \in Seq(Token)
      BY SaidType
    <2>2. title \o <<>> = title
      <3> HIDE DEF title
      <3> QED BY <2>1
    <2> QED BY <2>1, <2>2
  <1>3. Range(core) = {title[i] : i \in (DOMAIN title) \ BrandPositions(title)}
    BY <1>1, CoreType
  <1>4. ASSUME core = <<>> PROVE brand = 30
    <2>1. PICK i \in DOMAIN title : TRUE
      BY <1>1 DEF Range
    <2>2. Range(core) = {}
      BY <1>4 DEF Range
    <2>3. i \in BrandPositions(title)
      <3> HIDE DEF core
      <3> QED BY <1>3, <2>1, <2>2
    <2>4. PICK p \in DOMAIN Brands, at \in DOMAIN title : Occurs(p, at, title)
      BY <2>3 DEF BrandPositions
    <2>5. Brands[p] \in wanted
      BY <2>4 DEF BrandsIn, MatchesIn, Mentions
    <2> HIDE DEF wanted, named
    <2> QED BY <1>2, <2>5
  <1>5. penalty = 0
    <2>1. ASSUME NEW p \in TitleAccessories(title) PROVE p \in MatchesIn(core, Accessories)
      <3>1. p \in Accessories /\ Mentions(title, p)
        BY DEF TitleAccessories, Mentions
      <3> QED BY <1>1, <3>1 DEF MatchesIn
    <2> HIDE DEF title, core, match
    <2> QED BY <2>1
  <1>6. brand \in {0, 30}
    OBVIOUS
  <1>7. ASSUME core # <<>> PROVE match.score = 55 /\ score \in 55..85
    <2>1. match.score = 55
      BY <1>7, CoreIsMatched
    <2> HIDE DEF brand, match, penalty
    <2>2. brand + match.score - penalty \in 55..85
      BY <1>5, <1>6, <2>1
    <2>3. brand + match.score - penalty \in 0..100
      BY <2>2
    <2> QED BY <2>1, <2>2, <2>3, ClampKeeps
  <1>8. EvaluateLegacy(query, Untold(title)) =
          IF wanted # {} /\ ~named \subseteq wanted THEN Verdict(FALSE, 15, "brand_conflict")
          ELSE IF core = <<>>
               THEN IF brand > 0 THEN Verdict(TRUE, brand + 55, "")
                    ELSE Verdict(FALSE, 0, "brand_only_query_not_mentioned")
          ELSE IF match.score > 0 /\ score >= 50 THEN Verdict(TRUE, score, "")
          ELSE Verdict(FALSE, score, IF penalty > 0 THEN "accessory_without_core_product_match"
                                     ELSE IF match.score = 0 THEN "no_core_product_match"
                                     ELSE "low_relevance_score")
    <2>1. Untold(title).title = title /\ Untold(title).description = <<>>
      BY DEF Untold
    <2>2. FlattenSeq(query) = title
      BY DEF SaidBy
    <2> HIDE DEF title
    <2> QED BY <2>1, <2>2 DEF EvaluateLegacy
  <1>9. \A n, r : Verdict(TRUE, n, r).relevant
    BY DEF Verdict
  <1> HIDE DEF wanted, named, brand, core, match, penalty, score, title
  <1>10. CASE core = <<>>
    <2>1. brand > 0
      BY <1>4, <1>10
    <2>2. ~ (wanted # {} /\ ~named \subseteq wanted)
      BY <1>2
    <2>3. EvaluateLegacy(query, Untold(title)) = Verdict(TRUE, brand + 55, "")
      BY <1>8, <1>10, <2>1, <2>2, Zenon
    <2> QED BY <1>9, <2>3 DEF title
  <1>11. CASE core # <<>>
    <2>0. match.score = 55 /\ score \in 55..85
      BY <1>7, <1>11, Zenon
    <2>1. match.score > 0 /\ score >= 50
      BY <2>0
    <2>2. ~ (wanted # {} /\ ~named \subseteq wanted)
      BY <1>2
    <2>3. EvaluateLegacy(query, Untold(title)) = Verdict(TRUE, score, "")
      BY <1>8, <1>11, <2>1, <2>2, Zenon
    <2> QED BY <1>9, <2>3 DEF title
  <1> QED BY <1>10, <1>11

-----------------------------------------------------------------------------
(* The lexical engine: what it makes of the query. *)

Tokens(items) == [i \in DOMAIN items |-> items[i].token]

WordPlaces(items) == {i \in DOMAIN items : ~items[i].id}

Stops(items) == {i \in WordPlaces(items) : items[i].token \in StopWords /\ Cardinality(WordPlaces(items)) > 1}

NamingSpans(items) == {span \in BrandSpans(Tokens(items)) : \A i \in span.at : ~items[i].id}

LEMMA ParseIs ==
  ASSUME NEW query
  PROVE  LET items == Items(query) IN
         Parse(query) =
            [brands |-> {span.brand : span \in NamingSpans(items)},
             terms |-> Without(items, Stops(items) \cup UNION {span.at : span \in NamingSpans(items)})]
  BY DEF Parse, Tokens, WordPlaces, Stops, NamingSpans

LEMMA TokensType ==
  ASSUME NEW query \in Query
  PROVE  /\ Items(query) \in Seq(Item) /\ DOMAIN Items(query) = 1..Len(Items(query))
         /\ Tokens(Items(query)) \in Seq(Token)
         /\ Len(Tokens(Items(query))) = Len(Items(query))
         /\ \A i \in 1..Len(Items(query)) : Tokens(Items(query))[i] = Items(query)[i].token
  <1> DEFINE items == Items(query)
  <1>1. items \in Seq(Item)
    BY ItemizedType
  <1> HIDE DEF items
  <1>2. /\ DOMAIN items = 1..Len(items) /\ Len(items) \in Nat
        /\ \A i \in 1..Len(items) : items[i].token \in Token
    <2>1. \A item \in Item : item.token \in Token
      BY DEF Item
    <2>2. DOMAIN items = 1..Len(items) /\ Len(items) \in Nat /\ \A i \in 1..Len(items) : items[i] \in Item
      BY <1>1
    <2> QED BY <2>1, <2>2
  <1>3. Tokens(items) = [i \in 1..Len(items) |-> items[i].token]
    BY <1>2 DEF Tokens
  <1>4. /\ Tokens(items) \in Seq(Token) /\ Len(Tokens(items)) = Len(items)
        /\ \A i \in 1..Len(items) : Tokens(items)[i] = items[i].token
    BY <1>2, <1>3
  <1> QED BY <1>1, <1>2, <1>4 DEF items

\* A brand of the query is named by the text.
LEMMA BrandsAreSaid ==
  ASSUME NEW query \in Query
  PROVE  Parse(query).brands \subseteq Named(SaidBy(query))
  <1> DEFINE items == Items(query)
             text == SaidBy(query)
  <1>1. /\ items \in Seq(Item) /\ Tokens(items) \in Seq(Token) /\ Len(Tokens(items)) = Len(items)
        /\ \A i \in 1..Len(items) : Tokens(items)[i] = items[i].token
        /\ Len(items) \in Nat
    BY TokensType
  <1>2. text \in Seq(Token) /\ Len(text) \in Nat
    BY SaidType
  <1>3. PICK place : Places(place, items, text)
    BY WordsStand
  <1> HIDE DEF items, text
  <1>4. ASSUME NEW span \in NamingSpans(items) PROVE span.brand \in Named(text)
    <2>1. span \in BrandSpans(Tokens(items)) /\ \A i \in span.at : ~items[i].id
      BY DEF NamingSpans
    <2>2. PICK p \in DOMAIN Brands, at \in 1..Len(items) :
             Occurs(p, at, Tokens(items)) /\ span = Span(p, at)
      <3>1. \E p \in DOMAIN Brands, at \in 1..Len(Tokens(items)) :
               Occurs(p, at, Tokens(items)) /\ span = Span(p, at)
        BY <1>1, <2>1, SpansStand
      <3> QED BY <1>1, <3>1
    <2> DEFINE n == Len(p)
    <2>3. p \in Seq(Token) /\ n \in Nat \ {0}
      BY PhraseType
    <2>4. at + n - 1 <= Len(items) /\ \A l \in 1..n : Tokens(items)[at + l - 1] = p[l]
      <3>1. at \in 1..Len(Tokens(items))
        BY <1>1
      <3>2. /\ at + Len(p) - 1 <= Len(Tokens(items))
            /\ \A l \in 1..Len(p) : Tokens(items)[at + l - 1] = p[l]
        BY <1>1, <2>2, <2>3, <3>1, OccursHere
      <3> QED BY <1>1, <3>2
    <2>5. span.at = at..(at + n - 1) /\ span.brand = Brands[p]
      BY <2>2 DEF Span
    <2> HIDE DEF n
    <2> DEFINE k == place[at]
    <2>6. at \in at..(at + n - 1)
      BY <2>3
    <2>7. k \in 1..Len(text)
      BY <1>3, <2>1, <2>5, <2>6 DEF Places
    <2>8. ASSUME NEW l \in 1..n
          PROVE  k + l - 1 \in 1..Len(text) /\ text[k + l - 1] = p[l]
      <3> DEFINE j == at + l - 1
      <3>1. j \in 1..Len(items) /\ at <= j /\ j \in at..(at + n - 1) /\ j - at = l - 1
            /\ \A i \in at..j : i \in at..(at + n - 1)
        BY <1>1, <2>3, <2>4
      <3>2. Tokens(items)[j] = p[l]
        BY <2>4
      <3> HIDE DEF j
      <3>3. \A i \in at..j : ~items[i].id
        BY <2>1, <2>5, <3>1
      <3>4. place[j] = place[at] + (j - at)
        BY <1>3, <3>1, <3>3 DEF Places
      <3>5. ~items[j].id
        BY <2>1, <2>5, <3>1
      <3>6. place[j] \in 1..Len(text) /\ text[place[j]] = items[j].token
        BY <1>3, <3>1, <3>5 DEF Places
      <3>7. place[j] = k + l - 1
        <4>1. k \in Int /\ l \in Int /\ place[j] = k + (l - 1)
          BY <2>7, <3>1, <3>4
        <4> HIDE DEF k
        <4> QED BY <4>1
      <3> HIDE DEF k
      <3> QED BY <1>1, <3>1, <3>2, <3>6, <3>7
    <2> HIDE DEF k
    <2>9. k + n - 1 <= Len(text)
      <3>1. n \in 1..n
        BY <2>3
      <3> QED BY <1>2, <2>8, <3>1
    <2>10. Occurs(p, k, text)
      BY <1>2, <2>3, <2>7, <2>8, <2>9, OccursHere DEF n
    <2>11. Span(p, k) \in BrandSpans(text)
      BY <1>2, <2>7, <2>10, StandingIsSpan
    <2>12. Span(p, k).brand = Brands[p]
      BY DEF Span
    <2> QED BY <2>5, <2>11, <2>12 DEF Named
  <1>5. Parse(query).brands = {span.brand : span \in NamingSpans(items)}
    BY ParseIs DEF items
  <1> QED BY <1>4, <1>5 DEF text

\* A word that is asked for, and nothing but what is said, is a term.
LEMMA TermsType ==
  ASSUME NEW query \in Query
  PROVE  /\ Parse(query).terms \in Seq(Item)
         /\ Range(Parse(query).terms) =
              {Items(query)[i] : i \in (1..Len(Items(query)))
                 \ (Stops(Items(query)) \cup UNION {span.at : span \in NamingSpans(Items(query))})}
  <1> DEFINE items == Items(query)
             gone == Stops(items) \cup UNION {span.at : span \in NamingSpans(items)}
  <1>1. items \in Seq(Item) /\ DOMAIN items = 1..Len(items)
    BY TokensType
  <1>2. Parse(query).terms = Without(items, gone)
    BY ParseIs
  <1> HIDE DEF items, gone
  <1>3. Without(items, gone) \in Seq(Item) /\ Range(Without(items, gone)) = {items[i] : i \in (DOMAIN items) \ gone}
    BY <1>1, WithoutKeeps
  <1> QED BY <1>1, <1>2, <1>3 DEF items, gone

LEMMA AskedIsTerm ==
  ASSUME NEW query \in Query, NEW t \in Asked(query)
  PROVE  [token |-> t, id |-> FALSE] \in Range(Parse(query).terms)
  <1> DEFINE items == Items(query)
  <1>1. PICK d \in DOMAIN query : ~IsIdentifier(query[d]) /\ t \in Range(query[d]) /\ t \notin StopWords \cup BrandWords
    BY DEF Asked
  <1>2. d \in 1..Len(query) /\ query[d] \in Seq(Token)
    BY DEF Query, Chunk
  <1>3. PICK k \in 1..Len(query[d]) : query[d][k] = t
    BY <1>1, <1>2 DEF Range
  <1>4. PICK i \in 1..Len(items) : items[i] = [token |-> t, id |-> FALSE]
    BY <1>1, <1>2, <1>3, SaidIsItem
  <1>5. /\ items \in Seq(Item) /\ Tokens(items) \in Seq(Token) /\ Len(Tokens(items)) = Len(items)
        /\ \A j \in 1..Len(items) : Tokens(items)[j] = items[j].token
    BY TokensType
  <1> HIDE DEF items
  <1>6. items[i].token = t
    BY <1>4
  <1>7. i \notin Stops(items)
    BY <1>1, <1>6 DEF Stops
  <1>8. ASSUME NEW span \in NamingSpans(items), i \in span.at PROVE FALSE
    <2>1. PICK p \in DOMAIN Brands, at \in 1..Len(Tokens(items)) :
             Occurs(p, at, Tokens(items)) /\ span = Span(p, at)
      <3>1. span \in BrandSpans(Tokens(items))
        BY DEF NamingSpans
      <3> QED BY <1>5, <3>1, SpansStand
    <2>2. p \in Seq(Token) /\ DOMAIN p = 1..Len(p) /\ Len(p) \in Nat
      BY PhraseType
    <2>3. i \in at..(at + Len(p) - 1)
      BY <1>8, <2>1 DEF Span
    <2>4. \A l \in 1..Len(p) : Tokens(items)[at + l - 1] = p[l]
      BY <1>5, <2>1, <2>2, OccursHere
    <2> DEFINE l == i - at + 1
    <2>5. l \in 1..Len(p) /\ at + l - 1 = i
      BY <2>2, <2>3
    <2> HIDE DEF l
    <2>6. p[l] = t
      BY <1>5, <1>6, <2>4, <2>5
    <2>7. t \in BrandWords
      BY <2>2, <2>5, <2>6 DEF BrandWords, Range
    <2> QED BY <1>1, <2>7
  <1>9. i \in (1..Len(items)) \ (Stops(items) \cup UNION {span.at : span \in NamingSpans(items)})
    BY <1>7, <1>8
  <1> QED BY <1>4, <1>9, TermsType DEF items

\* A query that is not of stop words only is not empty.
LEMMA NotEmpty ==
  ASSUME NEW query \in Query, NEW t \in Range(SaidBy(query)), t \notin StopWords
  PROVE  Parse(query).terms # <<>> \/ Parse(query).brands # {}
  <1> DEFINE items == Items(query)
  <1> SUFFICES ASSUME Parse(query).brands = {} PROVE Range(Parse(query).terms) # {}
    BY DEF Range
  <1>1. query \in Seq(Seq(Token)) /\ SaidBy(query) \in Seq(Token)
    BY SaidType DEF Query, Chunk
  <1>2. PICK k \in 1..Len(FlattenSeq(query)) : FlattenSeq(query)[k] = t
    BY <1>1 DEF Range, SaidBy
  <1>d. PICK d \in 1..Len(query) : \E l \in 1..Len(query[d]) : query[d][l] = t
    BY <1>1, <1>2, TextOfChunks
  <1>3. PICK l \in 1..Len(query[d]) : query[d][l] = t
    BY <1>d
  <1>4. PICK i \in 1..Len(items) :
           items[i] = IF IsIdentifier(query[d]) THEN [token |-> FlattenSeq(query[d]), id |-> TRUE]
                      ELSE [token |-> query[d][l], id |-> FALSE]
    BY <1>3, SaidIsItem
  <1> HIDE DEF items
  <1>5. items[i].id \/ items[i].token = t
    <2>1. CASE IsIdentifier(query[d])
      <3>1. items[i] = [token |-> FlattenSeq(query[d]), id |-> TRUE]
        BY <1>4, <2>1
      <3> QED BY <3>1
    <2>2. CASE ~IsIdentifier(query[d])
      <3>1. items[i] = [token |-> t, id |-> FALSE]
        BY <1>3, <1>4, <2>2
      <3> QED BY <3>1
    <2> QED BY <2>1, <2>2
  <1>6. i \notin Stops(items)
    BY <1>5 DEF Stops, WordPlaces
  <1>7. NamingSpans(items) = {}
    BY ParseIs DEF items
  <1>8. i \in (1..Len(items)) \ (Stops(items) \cup UNION {span.at : span \in NamingSpans(items)})
    BY <1>6, <1>7
  <1>9. items[i] \in Range(Parse(query).terms)
    BY <1>8, TermsType DEF items
  <1> QED BY <1>9

LEMMA WindowOf ==
  ASSUME NEW s, NEW at \in DOMAIN s, NEW w \in 0..3
  PROVE  FlattenSeq(SubSeq(s, at, Min({at + w, Len(s)}))) \in Windows(s)
  <1> DEFINE of(i, n) == FlattenSeq(SubSeq(s, i, Min({i + n, Len(s)})))
  <1>1. Windows(s) = {of(i, n) : i \in DOMAIN s, n \in 0..3}
    BY DEF Windows
  <1> HIDE DEF of
  <1>2. of(at, w) \in {of(i, n) : i \in DOMAIN s, n \in 0..3}
    OBVIOUS
  <1>3. of(at, w) \in Windows(s)
    BY <1>1, <1>2
  <1> QED BY <1>3 DEF of

\* Whatever is a term is said by the text.
LEMMA TermsHit ==
  ASSUME NEW query \in Query, NEW term \in Range(Parse(query).terms),
         \A k \in DOMAIN query : IsIdentifier(query[k]) => Len(query[k]) <= 4
  PROVE  Hit(term, SaidBy(query))
  <1> DEFINE text == SaidBy(query)
  <1>1. PICK i \in 1..Len(Items(query)) : term = Items(query)[i]
    BY TermsType
  <1>2. PICK d \in 1..Len(query) :
            \/ /\ IsIdentifier(query[d]) /\ term = [token |-> FlattenSeq(query[d]), id |-> TRUE]
            \/ /\ ~IsIdentifier(query[d])
               /\ \E k \in 1..Len(query[d]) : term = [token |-> query[d][k], id |-> FALSE]
    BY <1>1, ItemIsSaid
  <1>3. /\ query[d] \in Seq(Token) /\ d \in DOMAIN query /\ text \in Seq(Token) /\ Len(text) \in Nat
        /\ Len(query[d]) \in Nat /\ DOMAIN query[d] = 1..Len(query[d])
    BY SaidType DEF Query, Chunk
  <1>4. Len(query[d]) # 0
    BY <1>2, <1>3 DEF IsIdentifier, Range
  <1>5. PICK at \in 1..Len(text) : Occurs(query[d], at, text)
    BY <1>4, ChunkIsSaid
  <1> HIDE DEF text
  <1>6. /\ at + Len(query[d]) - 1 <= Len(text)
        /\ \A l \in 1..Len(query[d]) : text[at + l - 1] = query[d][l]
    BY <1>3, <1>5, OccursHere
  <1>7. CASE IsIdentifier(query[d]) /\ term = [token |-> FlattenSeq(query[d]), id |-> TRUE]
    <2> DEFINE n == Len(query[d]) - 1
    <2>1. n \in 0..3 /\ at + n <= Len(text) /\ at + n = at + Len(query[d]) - 1
      <3> DEFINE l == Len(query[d])
      <3>1. l \in Nat \ {0} /\ at + l - 1 <= Len(text) /\ n = l - 1
        BY <1>3, <1>4, <1>6
      <3>2. l <= 4
        BY <1>3, <1>7
      <3> HIDE DEF l, n
      <3>3. n \in 0..3 /\ at + n <= Len(text) /\ at + n = at + l - 1
        BY <1>3, <3>1, <3>2
      <3> QED BY <3>3 DEF l
    <2>2. Min({at + n, Len(text)}) = at + n
      <3> HIDE DEF n
      <3> QED BY <1>3, <2>1 DEF Min
    <2>3. SubSeq(text, at, at + n) = query[d]
      BY <1>5, <2>1 DEF Occurs
    <2> HIDE DEF n
    <2>4. FlattenSeq(query[d]) \in Windows(text)
      <3>1. at \in DOMAIN text /\ n \in 0..3
        BY <1>3, <2>1
      <3>2. FlattenSeq(SubSeq(text, at, Min({at + n, Len(text)}))) = FlattenSeq(query[d])
        BY <2>2, <2>3
      <3>3. FlattenSeq(SubSeq(text, at, Min({at + n, Len(text)}))) \in Windows(text)
        BY <3>1, WindowOf
      <3> QED BY <3>2, <3>3
    <2> QED BY <1>7, <2>4 DEF Hit, text
  <1>8. CASE \E k \in 1..Len(query[d]) : term = [token |-> query[d][k], id |-> FALSE]
    <2>1. PICK k \in 1..Len(query[d]) : term = [token |-> query[d][k], id |-> FALSE]
      BY <1>8
    <2>2. at + k - 1 \in 1..Len(text) /\ text[at + k - 1] = query[d][k]
      BY <1>3, <1>6
    <2>3. Contains(text, query[d][k])
      BY <2>2 DEF Contains
    <2> QED BY <2>1, <2>3 DEF Hit, text
  <1> QED BY <1>2, <1>7, <1>8

-----------------------------------------------------------------------------
(* The lexical engine: what it makes of the title. *)

\* The points for a product of which everything is found.
LEMMA AllPoints ==
  ASSUME NEW w \in Nat \ {0}
  PROVE  ProductPoints(10 * w, w) = 70
  <1> DEFINE x == 10 * w
  <1>1. x \in Nat \ {0} /\ 70 * x = x * 70
    OBVIOUS
  <1> HIDE DEF x
  <1>2. (70 * x) \div x = 70 /\ (70 * x) % x = 0
    BY <1>1
  <1>3. Round(70 * x, x) = 70
    BY <1>1, <1>2 DEF Round
  <1> QED BY <1>3 DEF ProductPoints, x

\* All of the terms are found: none is missing, and the words stand where they first do.
AllHit(terms, title) == \A i \in DOMAIN terms : Hit(terms[i], title)

FullCoverage(terms, title) ==
  /\ Coverage(terms, title).missing = {}
  /\ Coverage(terms, title).matched = 10 * WeightOf(terms, DOMAIN terms)
  /\ Coverage(terms, title).places =
       [t \in {terms[i].token : i \in {h \in DOMAIN terms : ~terms[h].id}} |->
          Min({k \in DOMAIN title : title[k] = t})]

LEMMA AllCovered ==
  ASSUME NEW terms \in Seq(Item), terms # <<>>, NEW title, AllHit(terms, title)
  PROVE  FullCoverage(terms, title)
  <1> DEFINE hits == {i \in DOMAIN terms : Hit(terms[i], title)}
             related == {i \in (DOMAIN terms) \ hits : RelatedHit(terms[i], title)}
             lost == (DOMAIN terms) \ (hits \cup related)
             missing == lost \ Rescued(terms, title)
             saved == {i \in lost : \A k \in missing : terms[k] # terms[i]}
             placed == {terms[i].token : i \in {h \in hits : ~terms[h].id}}
  <1>1. hits = DOMAIN terms
    BY DEF AllHit
  <1> HIDE DEF hits
  <1>2. related = {} /\ lost = {}
    BY <1>1
  <1> HIDE DEF related, lost
  <1>3. missing = {} /\ saved = {}
    BY <1>2
  <1>4. Coverage(terms, title) =
          [missing |-> missing, related |-> related,
           matched |-> 10 * WeightOf(terms, hits \cup saved) + 6 * WeightOf(terms, related),
           places |-> [t \in placed |-> Min({k \in DOMAIN title : title[k] = t})]]
    BY DEF Coverage, hits, related, lost
  <1>5. /\ Coverage(terms, title).missing = missing
        /\ Coverage(terms, title).matched = 10 * WeightOf(terms, hits \cup saved) + 6 * WeightOf(terms, related)
        /\ Coverage(terms, title).places = [t \in placed |-> Min({k \in DOMAIN title : title[k] = t})]
    <2> HIDE DEF missing, saved, placed
    <2> QED BY <1>4
  <1>6. hits \cup saved = DOMAIN terms
    BY <1>1, <1>3
  <1>7. WeightOf(terms, {}) = 0 /\ WeightOf(terms, DOMAIN terms) \in Nat \ {0}
    BY WeightOfNone, WeightOfAll
  <1>8. 10 * WeightOf(terms, hits \cup saved) + 6 * WeightOf(terms, related) = 10 * WeightOf(terms, DOMAIN terms)
    <2> HIDE DEF saved
    <2> QED BY <1>2, <1>6, <1>7
  <1> HIDE DEF missing, saved
  <1> QED BY <1>1, <1>3, <1>5, <1>8 DEF FullCoverage

LEMMA BonusType ==
  ASSUME NEW terms, NEW places, NEW title
  PROVE  PhraseBonus(terms, places, title) \in {0, 8, 10, 15}
  BY DEF PhraseBonus

\* What is sold is a thing that was asked for.
LEMMA NoAccessory ==
  ASSUME NEW title, NEW requested, Range(title) \cap AccessoryWords \subseteq requested
  PROVE  ~SellsAccessory(title, requested)
  <1> DEFINE odd == {i \in DOMAIN title : title[i] \in AccessoryWords \ requested}
             exempt == CHOOSE e : e = [i \in DOMAIN title |->
                          /\ i \in odd
                          /\ \/ \E m \in 1..(i - 1) : title[m] \in Inclusion /\ i <= m + 4
                             \/ i > 1 /\ title[i - 1] \in Quantities
                             \/ i > 2 /\ title[i - 1] \in Conjunctions /\ e[i - 2]]
  <1>1. SellsAccessory(title, requested) <=> \E i \in odd : ~exempt[i]
    BY DEF SellsAccessory
  <1>2. odd = {}
    BY DEF Range
  <1> HIDE DEF odd, exempt
  <1> QED BY <1>1, <1>2

\* Something that was asked for stands before every marker.
LEMMA NotOnlyCompatible ==
  ASSUME NEW title \in Seq(Token), NEW placed,
         \A i \in DOMAIN title : title[i] \in Compatibility => \E k \in 1..(i - 1) : title[k] \in placed
  PROVE  ~OnlyCompatible(title, [t \in placed |-> Min({k \in DOMAIN title : title[k] = t})])
  <1> DEFINE markers == {i \in DOMAIN title :
                            /\ title[i] \in Compatibility
                            /\ SubSeq(title, i, Min({i + 1, Len(title)})) # ForSale}
             places == [t \in placed |-> Min({k \in DOMAIN title : title[k] = t})]
  <1>1. OnlyCompatible(title, places) <=>
           /\ markers # {} /\ DOMAIN places # {}
           /\ \A place \in Range(places) : place > Min(markers)
    BY DEF OnlyCompatible
  <1> SUFFICES ASSUME markers # {} PROVE \E place \in Range(places) : ~ (place > Min(markers))
    BY <1>1
  <1>2. markers \subseteq Nat
    OBVIOUS
  <1>3. Min(markers) \in markers
    <2> HIDE DEF markers
    <2>1. PICK n \in markers : \A m \in markers : n <= m
      BY <1>2, LeastNat
    <2> QED BY <2>1 DEF Min
  <1> DEFINE m == Min(markers)
  <1>4. m \in DOMAIN title /\ title[m] \in Compatibility /\ m \in 1..Len(title)
    BY <1>3
  <1> HIDE DEF m, markers
  <1>5. PICK k \in 1..(m - 1) : title[k] \in placed
    BY <1>4
  <1> DEFINE stands == {j \in DOMAIN title : title[j] = title[k]}
  <1>6. k \in stands /\ stands \subseteq Nat /\ k < m
    BY <1>4, <1>5
  <1>7. Min(stands) \in Nat /\ Min(stands) <= k
    <2> HIDE DEF stands
    <2>1. PICK n \in stands : \A j \in stands : n <= j
      BY <1>6, LeastNat
    <2> QED BY <1>6, <2>1 DEF Min
  <1>8. places[title[k]] = Min(stands) /\ title[k] \in DOMAIN places
    BY <1>5
  <1>9. Min(stands) \in Range(places)
    BY <1>8 DEF Range
  <1>10. ~ (Min(stands) > m)
    <2> HIDE DEF stands
    <2> QED BY <1>4, <1>6, <1>7
  <1> HIDE DEF places, stands
  <1> QED BY <1>9, <1>10 DEF m

LEMMA PlainCount ==
  ASSUME NEW terms \in Seq(Item)
  PROVE  Cardinality({}) = 0 /\ Allowed(Cardinality({i \in DOMAIN terms : ~terms[i].id})) \in Nat
  <1> DEFINE plain == {i \in DOMAIN terms : ~terms[i].id}
  <1>1. DOMAIN terms = 1..Len(terms) /\ Len(terms) \in Nat
    OBVIOUS
  <1>2. IsFiniteSet(1..Len(terms))
    BY <1>1, FS_Interval
  <1>3. plain \in SUBSET (1..Len(terms))
    BY <1>1
  <1> HIDE DEF plain
  <1>4. Cardinality(plain) \in Nat /\ Cardinality({}) = 0
    BY <1>2, <1>3, FS_Subset, FS_CardinalityType, FS_EmptySet
  <1> DEFINE n == Cardinality(plain)
  <1>5. Allowed(n) \in Nat
    <2>1. n \in Nat
      BY <1>4
    <2> HIDE DEF n
    <2> QED BY <2>1 DEF Allowed
  <1> QED BY <1>4, <1>5 DEF plain

LEMMA TermsFound ==
  ASSUME NEW query \in Query, PlainlyPut(query), Parse(query).terms # <<>>, MinScore <= 85
  PROVE  EvaluateTerms(Parse(query), SaidBy(query), 15).relevant
  <1> DEFINE parsed == Parse(query)
             terms == parsed.terms
             title == SaidBy(query)
             plain == {i \in DOMAIN terms : ~terms[i].id}
             found == Coverage(terms, title)
             placed == {terms[i].token : i \in plain}
             requested == {terms[i].token : i \in DOMAIN terms}
             product == ProductPoints(found.matched, WeightOf(terms, DOMAIN terms))
             accessory == IF SellsAccessory(title, requested) THEN 50 ELSE 0
             compatibility == IF OnlyCompatible(title, found.places) THEN 50 ELSE 0
             bonus == PhraseBonus(terms, found.places, title)
             score == Clamp(product + bonus + 15 - accessory - compatibility)
  <1>1. terms \in Seq(Item) /\ terms # <<>> /\ title \in Seq(Token)
    BY TermsType, SaidType
  <1>2. /\ Range(title) \cap AccessoryWords \subseteq Asked(query)
        /\ \A k \in DOMAIN query : IsIdentifier(query[k]) => Len(query[k]) <= 4
        /\ \A i \in DOMAIN title : title[i] \in Compatibility => \E k \in 1..(i - 1) : title[k] \in Asked(query)
    BY DEF PlainlyPut
  <1>3. \A i \in DOMAIN terms : Hit(terms[i], title)
    BY <1>2, TermsHit DEF Range
  <1>4. Asked(query) \subseteq placed /\ placed \subseteq requested
    <2>1. ASSUME NEW t \in Asked(query) PROVE t \in placed
      <3>1. [token |-> t, id |-> FALSE] \in Range(terms)
        BY AskedIsTerm
      <3> HIDE DEF terms
      <3>2. PICK i \in DOMAIN terms : terms[i] = [token |-> t, id |-> FALSE]
        BY <3>1 DEF Range
      <3>3. terms[i].token = t /\ ~terms[i].id
        BY <3>2
      <3> QED BY <3>3
    <2> QED BY <2>1
  <1> HIDE DEF parsed, terms, title
  <1>5. /\ found.missing = {}
        /\ found.matched = 10 * WeightOf(terms, DOMAIN terms)
        /\ found.places = [t \in placed |-> Min({k \in DOMAIN title : title[k] = t})]
    <2>1. AllHit(terms, title)
      BY <1>3 DEF AllHit
    <2>2. FullCoverage(terms, title)
      BY <1>1, <2>1, AllCovered
    <2> QED BY <2>2 DEF FullCoverage
  <1> HIDE DEF found
  <1>6. product = 70
    <2>1. WeightOf(terms, DOMAIN terms) \in Nat \ {0}
      BY <1>1, WeightOfAll
    <2> QED BY <1>5, <2>1, AllPoints
  <1>7. accessory = 0
    <2> HIDE DEF placed, requested
    <2>1. Range(title) \cap AccessoryWords \subseteq requested
      BY <1>2, <1>4
    <2> QED BY <2>1, NoAccessory
  <1>8. compatibility = 0
    <2> HIDE DEF placed
    <2>1. \A i \in DOMAIN title : title[i] \in Compatibility => \E k \in 1..(i - 1) : title[k] \in placed
      BY <1>2, <1>4
    <2>2. ~OnlyCompatible(title, found.places)
      BY <1>1, <1>5, <2>1, NotOnlyCompatible
    <2> QED BY <2>2
  <1>9. bonus \in {0, 8, 10, 15}
    BY BonusType
  <1> HIDE DEF product, accessory, compatibility, bonus
  <1>10. score \in 85..100
    <2>1. product + bonus + 15 - accessory - compatibility \in 85..100
      BY <1>6, <1>7, <1>8, <1>9
    <2>2. product + bonus + 15 - accessory - compatibility \in 0..100
      BY <2>1
    <2> QED BY <2>1, <2>2, ClampKeeps
  <1>11. MinScore \in Int /\ MinScore <= 85
    BY RelevanceAssumption, Zenon
  <1>12. Cardinality(found.missing) = 0 /\ Allowed(Cardinality(plain)) \in Nat
    BY <1>1, <1>5, PlainCount
  <1>13. EvaluateTerms(parsed, title, 15) =
           IF ~found.missing \subseteq plain
           THEN Verdict(FALSE, product + 15,
                        IF \E i \in found.missing \ plain : Strong(terms[i].token)
                        THEN "missing_model_identifier" ELSE "missing_required_terms")
           ELSE IF Cardinality(found.missing) > Allowed(Cardinality(plain))
                THEN Verdict(FALSE, product + 15, "missing_required_terms")
           ELSE IF score >= MinScore THEN Verdict(TRUE, score, "")
           ELSE Verdict(FALSE, score, IF accessory > 0 THEN "accessory_mismatch"
                                      ELSE IF compatibility > 0 THEN "compatibility_target_only"
                                      ELSE "low_relevance_score")
    BY DEF EvaluateTerms, terms, found, product, accessory, compatibility, bonus
  <1>14. found.missing \subseteq plain
    BY <1>5
  <1> HIDE DEF plain, score
  <1>15. score >= MinScore
    BY <1>10, <1>11
  <1>16. ~ (Cardinality(found.missing) > Allowed(Cardinality(plain)))
    BY <1>12
  <1>17. EvaluateTerms(parsed, title, 15) = Verdict(TRUE, score, "")
    BY <1>13, <1>14, <1>15, <1>16, Zenon
  <1>18. Verdict(TRUE, score, "").relevant
    BY DEF Verdict
  <1> QED BY <1>17, <1>18 DEF parsed, title

\* And to the lexical one.
LEMMA V2Finds ==
  ASSUME NEW query \in Query, PlainlyPut(query), MinScore <= 85
  PROVE  EvaluateV2(query, Untold(SaidBy(query))).relevant
  <1> DEFINE parsed == Parse(query)
             title == SaidBy(query)
             inTitle == Named(title) \cap parsed.brands
             inText == inTitle \cup (Named(<<>>) \cap parsed.brands)
  <1>1. PICK t \in Range(title) : t \notin StopWords
    BY DEF PlainlyPut
  <1>2. parsed.terms # <<>> \/ parsed.brands # {}
    BY <1>1, NotEmpty
  <1>3. title # <<>>
    <2> HIDE DEF title
    <2> QED BY <1>1 DEF Range
  <1>4. parsed.brands # {} => inTitle # {}
    BY BrandsAreSaid
  <1>5. parsed.terms # <<>> => EvaluateTerms(parsed, title, 15).relevant
    BY TermsFound
  <1>6. EvaluateV2(query, Untold(title)) =
          IF parsed.terms = <<>> /\ parsed.brands = {} THEN Verdict(FALSE, 0, "empty_query")
          ELSE IF title = <<>> THEN Verdict(FALSE, 0, "missing_title")
          ELSE IF parsed.brands # {} /\ Named(title) # {} /\ inTitle = {}
               THEN Verdict(FALSE, 15, "brand_conflict")
          ELSE IF parsed.terms = <<>>
               THEN IF inText = {} THEN Verdict(FALSE, 0, "brand_only_not_mentioned")
                    ELSE Verdict(TRUE, IF inTitle # {} THEN 85 ELSE 60, "")
          ELSE EvaluateTerms(parsed, title, IF parsed.brands = {} \/ inTitle # {} THEN 15 ELSE 8)
    <2>1. Untold(title).title = title /\ Untold(title).description = <<>>
      BY DEF Untold
    <2> HIDE DEF title
    <2> QED BY <2>1 DEF EvaluateV2
  <1>7. \A n, r : Verdict(TRUE, n, r).relevant
    BY DEF Verdict
  <1>8. CASE parsed.terms = <<>>
    <2> DEFINE n == IF inTitle # {} THEN 85 ELSE 60
    <2>1. inTitle # {} /\ inText # {}
      BY <1>2, <1>4, <1>8
    <2> HIDE DEF parsed, title, inTitle, inText
    <2>2. EvaluateV2(query, Untold(title)) = Verdict(TRUE, n, "")
      BY <1>2, <1>3, <1>6, <1>8, <2>1
    <2> HIDE DEF n
    <2> QED BY <1>7, <2>2 DEF title
  <1>9. CASE parsed.terms # <<>>
    <2> HIDE DEF parsed, title, inTitle, inText
    <2>1. EvaluateV2(query, Untold(title)) = EvaluateTerms(parsed, title, 15)
      BY <1>3, <1>4, <1>6, <1>9
    <2> QED BY <1>5, <1>9, <2>1 DEF title
  <1> QED BY <1>8, <1>9

-----------------------------------------------------------------------------
(* The theorems. *)

\* Whatever the vocabularies, and however long the query: a listing whose title
\* is a query, word by word, is relevant to both engines (evaluator.py,
\* evaluate_relevance; engine_v2.py, evaluate_relevance_v2), unless the query is
\* one of those PlainlyPut leaves out.  The score to reach (55 by default) is at most
\* what full coverage and the brand are worth; beyond it the phrase bonus decides.
THEOREM FoundByItsWords ==
    MinScore <= 85 => \A query \in Query : PlainlyPut(query) => AskedFor(query)
  <1> SUFFICES ASSUME MinScore <= 85,
                      NEW query \in Query, PlainlyPut(query), NEW engine \in Engines
               PROVE  Evaluate(engine, query, Untold(SaidBy(query))).relevant
    BY DEF AskedFor
  <1>1. CASE engine = "legacy"
    BY <1>1, LegacyFinds DEF Evaluate
  <1>2. CASE engine = "v2"
    BY <1>2, V2Finds DEF Evaluate
  <1> QED BY <1>1, <1>2 DEF Engines

\* What is judged is a query.
QueryJudged == theme = "grading" => sample.query \in Query

\* The runs' queries are queries, provided that the vocabulary has their parts.
LEMMA ChunksAreWords ==
  ASSUME Parts \subseteq Part
  PROVE  Chunks \subseteq Chunk /\ Words \subseteq Chunk
  <1>1. \A w \in Parts : W(w) \in Token
    BY DEF W, Token
  <1>2. <<"gsb", "18v">> \in Token
    BY DEF Token, Parts
  <1>3. /\ \A t \in Token : <<t>> \in Chunk
        /\ \A t, u \in Token : <<t, u>> \in Chunk
        /\ \A t, u \in Token : <<t, t, t, t, u>> \in Chunk
    BY DEF Chunk
  <1>4. /\ \A w \in {"drill", "makita", "battery", "holder", "for", "yo", "impact"} : W(w) \in Token
        /\ W("18v") \in Token /\ W("55") \in Token /\ W("2") \in Token
    BY <1>1 DEF Parts
  <1> HIDE DEF Parts
  <1>5. Chunks \subseteq Chunk
    BY <1>2, <1>3, <1>4 DEF Chunks
  <1>6. Words \subseteq Chunk
    <2>1. {<<W(w)>> : w \in {"drill", "makita", "impact", "yo"}} \subseteq Chunk
      BY <1>3, <1>4
    <2>2. <<<<"gsb", "18v">>>> \in Chunk
      BY <1>2, <1>3
    <2> QED BY <2>1, <2>2 DEF Words
  <1> QED BY <1>5, <1>6

\* A sequence of bounded length is a sequence.
LEMMA BoundedIsSeq ==
  ASSUME NEW S, NEW T, S \subseteq T, NEW n \in Nat
  PROVE  BoundedSeq(S, n) \subseteq Seq(T)
  BY DEF BoundedSeq, SeqOf

LEMMA SamplesAreQueries ==
  ASSUME Parts \subseteq Part, NEW x \in Echoes \cup Mixed
  PROVE  x.query \in Query
  <1>1. BoundedSeq(Chunks, 4) \subseteq Query /\ BoundedSeq(Words, 2) \subseteq Query
    BY ChunksAreWords, BoundedIsSeq DEF Query
  <1>2. CASE x \in Echoes
    BY <1>1, <1>2 DEF Echoes
  <1>3. CASE x \in [query : BoundedSeq(Words, 2) \ {<<>>}, listing : {Untold(t) : t \in Titles}]
    BY <1>1, <1>3
  <1>4. CASE x \in [query : {<<<<W("yo")>>, <<W("sale")>>, <<W("impact")>>, <<W("drill")>>>>},
                    listing : {Untold(t) : t \in Titles}]
    <2>1. x.query = <<<<W("yo")>>, <<W("sale")>>, <<W("impact")>>, <<W("drill")>>>>
      BY <1>4
    <2>2. \A w \in {"yo", "sale", "impact", "drill"} : w \in Part
      BY DEF Parts
    <2>3. \A w \in Part : <<W(w)>> \in Chunk
      BY DEF W, Chunk, Token
    <2>4. \A k, l, m, n \in Chunk : <<k, l, m, n>> \in Query
      BY DEF Query
    <2> QED BY <2>1, <2>2, <2>3, <2>4
  <1> QED BY <1>2, <1>3, <1>4 DEF Mixed

\* The property that the run Maintenance checks, for all of its queries and all the
\* vocabularies that have their parts: a listing whose title is what was asked for,
\* word by word, is relevant to either engine (evaluator.py, evaluate_relevance;
\* engine_v2.py, evaluate_relevance_v2).
THEOREM EchoesAreFound ==
  ASSUME Parts \subseteq Part, MinScore <= 85 PROVE MCSpec => []AskedForIsFound
  <1>1. MCInit => QueryJudged
    BY SamplesAreQueries DEF MCInit, QueryJudged
  <1>2. QueryJudged /\ [MCNext]_mcvars => QueryJudged'
    BY DEF QueryJudged, MCNext, mcvars
  <1>3. QueryJudged => AskedForIsFound
    <2> SUFFICES ASSUME QueryJudged, theme = "grading",
                        sample.listing = Untold(SaidBy(sample.query)), PlainlyPut(sample.query),
                        NEW engine \in Engines
                 PROVE  Evaluate(engine, sample.query, sample.listing).relevant
      BY DEF AskedForIsFound
    <2>1. sample.query \in Query
      BY DEF QueryJudged
    <2> QED BY <2>1, FoundByItsWords DEF AskedFor
  <1> QED BY <1>1, <1>2, <1>3, PTL DEF MCSpec
=============================================================================
