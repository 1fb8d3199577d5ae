-------------------------- MODULE BundleImportProofs --------------------------
(***************************************************************************)
(* What holds of BundleImport for bundles of any number of files, whatever *)
(* their names and sizes: the archives are read as they were written, no   *)
(* two files travel under one name, the descriptors that are sent name     *)
(* what is sent, and every disk that was found becomes a disk of the       *)
(* machine.                                                                *)
(***************************************************************************)
EXTENDS BundleImport, SequenceTheorems, FiniteSetTheorems, FunctionTheorems,
        WellFoundedInduction, TLAPS

-----------------------------------------------------------------------------
(* Places of a sequence *)

\* A set of numbers has a least one: what the walks below are known by.
LEMMA Least ==
    ASSUME NEW T \in SUBSET Nat, T # {}
    PROVE  \E n \in T : \A k \in T : n <= k
<1>1. PICK n \in T : \A k \in T : <<k, n>> \notin OpToRel(<, Nat)
  BY WFMin, NatLessThanWellFounded, Zenon
<1>2. \A k \in T : ~ (k < n)
  BY <1>1, Zenon DEF OpToRel
<1>3. \A k \in T : n <= k
  <2> HIDE <1>1
  <2> QED
    BY <1>2, n \in Nat, T \subseteq Nat
<1> QED
  BY <1>3

\* p finds each of the places once, and nothing else.
Picks(p, s, at) ==
    /\ p \in [1 .. Cardinality(at) -> at]
    /\ \A j, k \in 1 .. Cardinality(at) : p[j] = p[k] => j = k
    /\ \A i \in at : Rank(at, i) \in 1 .. Cardinality(at) /\ p[Rank(at, i)] = i
    /\ Picked(s, at) = [k \in 1 .. Cardinality(at) |-> s[p[k]]]

\* Such a p exists for any places of a sequence.
LEMMA Picking ==
    ASSUME NEW s, NEW m \in Nat, NEW at \in SUBSET (1 .. m)
    PROVE  Cardinality(at) \in Nat /\ \E p : Picks(p, s, at)
<1> DEFINE upto(i) == {j \in at : j <= i}
           n       == Cardinality(at)
           rank    == [i \in at |-> Cardinality(upto(i))]
<1>2. IsFiniteSet(at) /\ n \in Nat
  <2>1. IsFiniteSet(1 .. m)
    BY FS_Interval
  <2> QED
    BY <2>1, FS_Subset, FS_CardinalityType
<1>3. ASSUME NEW i \in at
      PROVE  IsFiniteSet(upto(i)) /\ Cardinality(upto(i)) \in 1 .. n
  <2>1. upto(i) \in SUBSET at /\ i \in upto(i)
    OBVIOUS
  <2>2. IsFiniteSet(upto(i)) /\ Cardinality(upto(i)) <= n /\ Cardinality(upto(i)) \in Nat
    BY <1>2, <2>1, FS_Subset, FS_CardinalityType
  <2>3. Cardinality(upto(i)) # 0
    BY <2>1, <2>2, FS_EmptySet
  <2> QED
    BY <1>2, <2>2, <2>3
<1>4. rank \in [at -> 1 .. n]
  BY <1>3
<1>5. ASSUME NEW i \in at, NEW j \in at, i < j
      PROVE  rank[i] # rank[j]
  <2>1. upto(i) \in SUBSET upto(j) /\ j \in upto(j) /\ j \notin upto(i)
    <3>1. i \in Nat /\ j \in Nat
      OBVIOUS
    <3>2. \A l \in at : l \in Nat
      OBVIOUS
    <3>3. \A l \in at : l <= i => l <= j
      BY <1>5, <3>1, <3>2
    <3>4. ~(j <= i) /\ j <= j
      BY <1>5, <3>1
    <3> QED
      BY <3>3, <3>4
  <2>2. Cardinality(upto(i)) # Cardinality(upto(j))
    <3> HIDE DEF upto
    <3> QED
      BY <1>3, <2>1, FS_Subset
  <2> QED
    BY <2>2
<1>6. rank \in Injection(at, 1 .. n)
  <2>1. ASSUME NEW i \in at, NEW j \in at, rank[i] = rank[j] PROVE i = j
    <3>1. i \in Nat /\ j \in Nat
      OBVIOUS
    <3> HIDE DEF rank
    <3> QED
      BY <1>5, <2>1, <3>1
  <2> HIDE DEF rank, n
  <2> QED
    BY <1>4, <2>1, Fun_IsInj
<1>7. rank \in Surjection(at, 1 .. n)
  <2>1. IsFiniteSet(1 .. n) /\ Cardinality(1 .. n) = n
    <3> HIDE DEF n
    <3> QED
      BY <1>2, FS_Interval
  <2> HIDE DEF rank
  <2> QED
    BY <1>6, <2>1, FS_Injection
<1>8. ASSUME NEW k \in 1 .. n
      PROVE  \E i \in at : Rank(at, i) = k
  <2>1. \E i \in at : rank[i] = k
    <3> HIDE DEF rank, n
    <3> QED
      BY <1>7 DEF Surjection
  <2> QED
    BY <2>1 DEF Rank
<1> DEFINE pick(k) == CHOOSE i \in at : Rank(at, i) = k
           p       == [k \in 1 .. n |-> pick(k)]
<1>9. ASSUME NEW k \in 1 .. n PROVE pick(k) \in at /\ rank[pick(k)] = k
  BY <1>8 DEF Rank
<1>10. Picked(s, at) = [k \in 1 .. n |-> s[pick(k)]]
  BY DEF Picked, pick
<1> HIDE DEF pick
<1>11. p \in [1 .. n -> at]
  BY <1>9
<1>12. \A j, k \in 1 .. n : p[j] = p[k] => j = k
  <2> HIDE DEF rank, n
  <2> QED
    BY <1>9
<1>13. \A i \in at : Rank(at, i) \in 1 .. n /\ p[Rank(at, i)] = i
  <2> TAKE i \in at
  <2>1. rank[i] \in 1 .. n
    BY <1>4
  <2>2. rank[pick(rank[i])] = rank[i] /\ pick(rank[i]) \in at
    <3> HIDE DEF rank, n
    <3> QED
      BY <1>9, <2>1
  <2>3. pick(rank[i]) = i
    <3> HIDE DEF rank, n
    <3> QED
      BY <1>6, <2>2 DEF Injection, IsInjective
  <2>4. p[rank[i]] = i
    <3> HIDE DEF rank, n
    <3> QED
      BY <2>1, <2>3
  <2>5. rank[i] = Rank(at, i)
    BY DEF Rank
  <2> HIDE DEF rank, p
  <2> QED
    BY <2>1, <2>4, <2>5
<1>14. Picked(s, at) = [k \in 1 .. n |-> s[p[k]]]
  BY <1>10
<1> HIDE DEF p
<1>15. Picks(p, s, at)
  BY <1>11, <1>12, <1>13, <1>14 DEF Picks
<1> QED
  BY <1>2, <1>15

\* Picking everything changes nothing.
LEMMA PicksAll ==
    ASSUME NEW S, NEW s \in Seq(S)
    PROVE  Picked(s, 1 .. Len(s)) = s
<1> DEFINE n == Len(s)
<1>1. n \in Nat /\ Cardinality(1 .. n) = n
  BY LenProperties, FS_Interval
<1>2. ASSUME NEW i \in 1 .. n PROVE Rank(1 .. n, i) = i
  <2>1. {j \in 1 .. n : j <= i} = 1 .. i /\ i \in Nat /\ 1 <= i
    BY <1>1, <1>2
  <2>2. Cardinality(1 .. i) = i
    <3> HIDE DEF n
    <3> QED
      BY <2>1, FS_Interval
  <2> QED
    BY <2>1, <2>2 DEF Rank
<1> DEFINE pick(k) == CHOOSE i \in 1 .. n : Rank(1 .. n, i) = k
<1>3. ASSUME NEW k \in 1 .. n PROVE pick(k) = k
  BY <1>2
<1>4. Picked(s, 1 .. n) = [k \in 1 .. n |-> s[k]]
  <2>1. Picked(s, 1 .. n) = [k \in 1 .. Cardinality(1 .. n) |-> s[pick(k)]]
    BY DEF Picked
  <2> HIDE DEF n, pick
  <2> QED
    BY <1>1, <1>3, <2>1
<1>5. s = [k \in 1 .. n |-> s[k]]
  BY LenProperties
<1> QED
  BY <1>4, <1>5

-----------------------------------------------------------------------------
(* Walks along a sequence *)

\* Induction up to a bound, over the set of the numbers for which a thing holds.
LEMMA Induct ==
    ASSUME NEW m \in Nat, NEW T, 0 \in T,
           \A n \in 0 .. m - 1 : n \in T => n + 1 \in T
    PROVE  \A n \in 0 .. m : n \in T
<1> DEFINE Out == {n \in 0 .. m : n \notin T}
<1>1. SUFFICES ASSUME Out # {} PROVE FALSE
  OBVIOUS
<1>2. Out \in SUBSET Nat
  OBVIOUS
<1> HIDE DEF Out
<1>3. PICK n \in Out : \A k \in Out : n <= k
  BY <1>1, <1>2, Least
<1>4. n \in 0 .. m /\ n \notin T
  BY <1>3 DEF Out
<1>5. n # 0 /\ n - 1 \in 0 .. m - 1 /\ ~(n <= n - 1) /\ n - 1 + 1 = n /\ n - 1 \in 0 .. m
  BY <1>4
<1>6. n - 1 \notin Out
  BY <1>3, <1>5
<1>7. n - 1 \in T
  BY <1>5, <1>6 DEF Out
<1> QED
  BY <1>4, <1>5, <1>7

\* w is what F makes of c, step by step.
Steps(w, m, c, F) == w = [n \in 0 .. m |-> IF n = 0 THEN c ELSE F[<<w[n - 1], n>>]]

\* What is defined step by step exists.
LEMMA Defined ==
    ASSUME NEW m \in Nat, NEW V, NEW c \in V, NEW F \in [V \X (1 .. m) -> V]
    PROVE  \E w \in [0 .. m -> V] : Steps(w, m, c, F)
<1> DEFINE D(w, n) == [k \in 0 .. n |-> IF k = 0 THEN c ELSE F[<<w[k - 1], k>>]]
           T == {n \in 0 .. m : \E w \in [0 .. n -> V] : w = D(w, n)}
<1>1. 0 \in T
  <2> DEFINE v == [k \in 0 .. 0 |-> c]
  <2>1. v \in [0 .. 0 -> V] /\ v = D(v, 0)
    OBVIOUS
  <2> HIDE DEF v, D
  <2> QED
    BY <2>1
<1>2. ASSUME NEW n \in 0 .. m - 1, n \in T PROVE n + 1 \in T
  <2>1. PICK w \in [0 .. n -> V] : w = D(w, n)
    BY <1>2
  <2>2. n \in Nat /\ n + 1 \in 0 .. m /\ n + 1 \in 1 .. m
    BY <1>2
  <2> DEFINE v == [k \in 0 .. n + 1 |-> IF k = n + 1 THEN F[<<w[n], n + 1>>] ELSE w[k]]
  <2>3. v \in [0 .. n + 1 -> V]
    <3>1. ASSUME NEW k \in 0 .. n + 1 PROVE v[k] \in V
      <4>1. CASE k = n + 1
        <5>1. w[n] \in V
          BY <2>2
        <5> QED
          BY <2>2, <4>1, <5>1
      <4>2. CASE k # n + 1
        <5>1. k \in 0 .. n
          BY <2>2, <4>2
        <5> QED
          BY <4>2, <5>1
      <4> QED
        BY <4>1, <4>2
    <3> QED
      BY <3>1
  <2>4. v = D(v, n + 1)
    <3>1. ASSUME NEW k \in 0 .. n + 1 PROVE v[k] = D(v, n + 1)[k]
      <4>1. CASE k = n + 1
        BY <2>2, <4>1
      <4>2. CASE k # n + 1 /\ k # 0
        <5>1. k \in 0 .. n /\ k - 1 \in 0 .. n /\ k - 1 # n + 1 /\ k - 1 \in 0 .. n + 1
          BY <2>2, <4>2
        <5>2. v[k] = w[k] /\ v[k - 1] = w[k - 1]
          BY <4>2, <5>1
        <5>3. w[k] = D(w, n)[k]
          BY <2>1
        <5> QED
          BY <4>2, <5>1, <5>2, <5>3
      <4>3. CASE k = 0
        <5>1. w[0] = D(w, n)[0] /\ 0 \in 0 .. n /\ 0 # n + 1
          BY <2>1, <2>2
        <5> QED
          BY <2>2, <4>3, <5>1
      <4> QED
        BY <4>1, <4>2, <4>3
    <3> QED
      BY <3>1
  <2> HIDE DEF v, D
  <2> QED
    BY <2>2, <2>3, <2>4
<1> HIDE DEF T
<1>3. m \in T
  BY <1>1, <1>2, Induct
<1> QED
  BY <1>3 DEF T, Steps

\* A sequence that is built by appending.
LEMMA Appends ==
    ASSUME NEW S, NEW n \in Nat, NEW s \in [1 .. n + 1 -> S]
    PROVE  Append([k \in 1 .. n |-> s[k]], s[n + 1]) = [k \in 1 .. n + 1 |-> s[k]]
<1> DEFINE a == [k \in 1 .. n |-> s[k]]
           b == [k \in 1 .. n + 1 |-> s[k]]
<1>1. a \in Seq(S) /\ Len(a) = n /\ s[n + 1] \in S
  OBVIOUS
<1>2. b \in Seq(S) /\ Len(b) = n + 1
  OBVIOUS
<1>3. \A k \in 1 .. n : a[k] = s[k]
  OBVIOUS
<1>4. \A k \in 1 .. n + 1 : b[k] = s[k]
  OBVIOUS
<1> HIDE DEF a, b
<1>5. Append(a, s[n + 1]) \in Seq(S) /\ Len(Append(a, s[n + 1])) = n + 1
  BY <1>1, AppendProperties
<1>6. ASSUME NEW k \in 1 .. n + 1 PROVE Append(a, s[n + 1])[k] = b[k]
  <2>1. CASE k = n + 1
    BY <1>1, <1>4, <2>1, AppendProperties
  <2>2. CASE k # n + 1
    <3>1. k \in 1 .. n
      BY <2>2
    <3> QED
      BY <1>1, <1>3, <1>4, <3>1, AppendProperties
  <2> QED
    BY <2>1, <2>2
<1>7. Append(a, s[n + 1]) = b
  BY <1>2, <1>5, <1>6, SeqEqual
<1> QED
  BY <1>7 DEF a, b

-----------------------------------------------------------------------------
(* Tar *)

\* Parts one after the other: where each ends, and what lies there.
LEMMA Flattens ==
    ASSUME NEW S, NEW parts \in Seq(Seq(S))
    PROVE  /\ FlattenSeq(parts) \in Seq(S)
           /\ \E end \in [0 .. Len(parts) -> Nat] :
                 /\ end[0] = 0
                 /\ Len(FlattenSeq(parts)) = end[Len(parts)]
                 /\ \A i \in 1 .. Len(parts) :
                       /\ end[i] = end[i - 1] + Len(parts[i])
                       /\ end[i] <= end[Len(parts)]
                       /\ \A q \in 1 .. Len(parts[i]) :
                             FlattenSeq(parts)[end[i - 1] + q] = parts[i][q]
<1> DEFINE m == Len(parts)
<1>1. m \in Nat /\ \A i \in 1 .. m : parts[i] \in Seq(S) /\ Len(parts[i]) \in Nat
  BY LenProperties, ElementOfSeq
<1>2. CASE m = 0
  <2>1. parts = <<>> /\ FlattenSeq(parts) = parts
    BY <1>2, EmptySeq DEF FlattenSeq
  <2>2. FlattenSeq(parts) \in Seq(S) /\ Len(FlattenSeq(parts)) = 0
    BY <2>1, EmptySeq
  <2> DEFINE end == [i \in 0 .. 0 |-> 0]
  <2>3. end \in [0 .. m -> Nat] /\ end[0] = 0
    BY <1>2
  <2> HIDE DEF end
  <2>4. \A i \in 1 .. Len(parts) : FALSE
    BY <1>2
  <2> QED
    BY <1>2, <2>2, <2>3, <2>4
<1>3. CASE m # 0
  <2> DEFINE cat(a, b) == a \o b
             Joins(f) == f = [i \in 1 .. m |-> IF i = 1 THEN parts[i] ELSE cat(f[i - 1], parts[i])]
  <2>1. \E f : Joins(f)
    <3> DEFINE V == Seq(S)
               F == [p \in V \X (1 .. m) |-> cat(p[1], parts[p[2]])]
    <3>1. F \in [V \X (1 .. m) -> V] /\ <<>> \in V
      BY <1>1, ConcatProperties, EmptySeq
    <3>2. \A i \in 1 .. m : parts[i] \in V /\ cat(<<>>, parts[i]) = parts[i]
      BY <1>1, ConcatEmptySeq
    <3> HIDE DEF V, cat, m
    <3>3. \A v \in V, i \in 1 .. m : F[<<v, i>>] = cat(v, parts[i])
      OBVIOUS
    <3> HIDE DEF F
    <3>4. PICK w \in [0 .. m -> V] : Steps(w, m, <<>>, F)
      BY <1>1, <3>1, Defined
    <3>a. \A i \in 0 .. m : w[i] = IF i = 0 THEN <<>> ELSE F[<<w[i - 1], i>>]
      BY <3>4 DEF Steps
    <3> DEFINE f == [i \in 1 .. m |-> w[i]]
    <3>5. ASSUME NEW i \in 1 .. m
          PROVE  f[i] = IF i = 1 THEN parts[i] ELSE cat(f[i - 1], parts[i])
      <4>1. i \in 0 .. m /\ i # 0 /\ i - 1 \in 0 .. m
        BY <1>1
      <4>2. w[i] = F[<<w[i - 1], i>>] /\ w[i - 1] \in V
        BY <3>a, <4>1
      <4>3. w[i] = cat(w[i - 1], parts[i])
        BY <3>3, <4>2
      <4>4. CASE i = 1
        <5>1. w[i - 1] = <<>>
          <6>1. i - 1 = 0 /\ 0 \in 0 .. m
            BY <1>1, <4>4
          <6>2. w[0] = <<>>
            BY <3>a, <6>1
          <6> QED
            BY <6>1, <6>2
        <5> QED
          BY <3>2, <4>3, <4>4, <5>1
      <4>5. CASE i # 1
        <5>1. i - 1 \in 1 .. m
          BY <1>1, <4>5
        <5> QED
          BY <4>3, <4>5, <5>1
      <4> QED
        BY <4>4, <4>5
    <3>6. Joins(f)
      BY <3>5
    <3> QED
      BY <3>6
  <2> DEFINE f == CHOOSE g : Joins(g)
  <2>2. Joins(f)
    BY <2>1, Zenon
  <2>3. FlattenSeq(parts) = f[m]
    BY <1>3, Zenon DEF FlattenSeq
  <2> HIDE DEF f
  <2>4. /\ f[1] = parts[1]
        /\ \A n \in 1 .. m - 1 : f[n + 1] = cat(f[n], parts[n + 1])
    <3> HIDE DEF cat, m
    <3>1. \A i \in 1 .. m : f[i] = IF i = 1 THEN parts[i] ELSE cat(f[i - 1], parts[i])
      BY <2>2, Zenon
    <3>2. ASSUME NEW n \in 1 .. m - 1 PROVE f[n + 1] = cat(f[n], parts[n + 1])
      <4>1. n + 1 \in 1 .. m /\ n + 1 # 1 /\ (n + 1) - 1 = n
        BY <1>1
      <4> QED
        BY <3>1, <4>1
    <3>3. 1 \in 1 .. m
      BY <1>1, <1>3
    <3> QED
      BY <3>1, <3>2, <3>3
  <2>5. \A n \in 1 .. m : f[n] \in Seq(S)
    <3> DEFINE V == Seq(S)
               T == {n \in 0 .. m : n # 0 => f[n] \in V}
    <3>1. \A a, b \in V : cat(a, b) \in V
      BY ConcatProperties
    <3>2. \A n \in 1 .. m : parts[n] \in V
      BY <1>1
    <3> HIDE DEF V, cat, m
    <3>3. 0 \in T
      BY <1>1
    <3>4. ASSUME NEW n \in 0 .. m - 1, n \in T PROVE n + 1 \in T
      <4>1. n + 1 \in 1 .. m /\ n + 1 \in 0 .. m /\ (n # 0 => n \in 1 .. m - 1)
        BY <1>1
      <4>2. CASE n = 0
        BY <2>4, <3>2, <4>1, <4>2
      <4>3. CASE n # 0
        BY <2>4, <3>1, <3>2, <3>4, <4>1, <4>3
      <4> QED
        BY <4>2, <4>3
    <3> HIDE DEF T
    <3>5. \A n \in 0 .. m : n \in T
      BY <1>1, <3>3, <3>4, Induct
    <3>6. ASSUME NEW n \in 1 .. m PROVE f[n] \in V
      <4>1. n \in 0 .. m /\ n # 0
        BY <1>1
      <4> QED
        BY <3>5, <4>1 DEF T
    <3> QED
      BY <3>6 DEF V
  <2> DEFINE len(n) == Len(f[n])
             more(n) == Len(parts[n])
             at(n, q) == f[n][q]
  <2>6. \A n \in 1 .. m : len(n) \in Nat /\ more(n) \in Nat
    BY <1>1, <2>5, LenProperties
  <2>7. ASSUME NEW n \in 1 .. m - 1
        PROVE  /\ len(n + 1) = len(n) + more(n + 1)
               /\ \A q \in 1 .. len(n) : at(n + 1, q) = at(n, q)
               /\ \A q \in 1 .. more(n + 1) : at(n + 1, len(n) + q) = parts[n + 1][q]
    <3>1. n \in 1 .. m /\ n + 1 \in 1 .. m
      BY <1>1
    <3> DEFINE a == f[n]
               b == parts[n + 1]
               g == f[n + 1]
    <3>2. a \in Seq(S) /\ b \in Seq(S) /\ g = a \o b
      BY <1>1, <2>4, <2>5, <3>1
    <3> HIDE DEF a, b, g
    <3>3. Len(g) = Len(a) + Len(b) /\ Len(a) \in Nat /\ Len(b) \in Nat
      BY <3>2, ConcatProperties, LenProperties
    <3>4. \A q \in 1 .. Len(a) : g[q] = a[q]
      BY <3>2, <3>3, ConcatProperties
    <3>5. ASSUME NEW q \in 1 .. Len(b) PROVE g[Len(a) + q] = b[q]
      <4>1. Len(a) + q \in 1 .. Len(g) /\ Len(a) + q > Len(a) /\ Len(a) + q - Len(a) = q
        BY <3>3
      <4> QED
        BY <3>2, <3>3, <4>1, ConcatProperties
    <3> QED
      BY <3>3, <3>4, <3>5, Zenon DEF a, b, g
  <2>8. len(1) = more(1) /\ \A q \in 1 .. more(1) : at(1, q) = parts[1][q]
    BY <2>4
  <2> HIDE DEF len, more, at
  <2> DEFINE T == {n \in 0 .. m : \A k \in 1 .. n :
                      len(k) <= len(n) /\ \A q \in 1 .. len(k) : at(n, q) = at(k, q)}
  <2>9. \A n \in 0 .. m : n \in T
    <3> HIDE DEF m
    <3>1. 0 \in T
      BY <1>1
    <3>2. ASSUME NEW n \in 0 .. m - 1, n \in T PROVE n + 1 \in T
      <4>1. n + 1 \in 1 .. m /\ n + 1 \in 0 .. m
        BY <1>1
      <4>2. ASSUME NEW k \in 1 .. n + 1, k # n + 1
            PROVE  len(k) <= len(n + 1) /\ \A q \in 1 .. len(k) : at(n + 1, q) = at(k, q)
        <5>1. k \in 1 .. n /\ k \in 1 .. m /\ n \in 1 .. m - 1 /\ n \in 1 .. m
          BY <1>1, <4>2
        <5>2. len(k) <= len(n) /\ \A q \in 1 .. len(k) : at(n, q) = at(k, q)
          BY <3>2, <5>1
        <5>3. len(n + 1) = len(n) + more(n + 1)
              /\ len(n) \in Nat /\ more(n + 1) \in Nat /\ len(k) \in Nat
          BY <2>6, <2>7, <4>1, <5>1
        <5>4. \A q \in 1 .. len(k) : q \in 1 .. len(n)
          BY <5>2, <5>3
        <5>5. \A q \in 1 .. len(n) : at(n + 1, q) = at(n, q)
          BY <2>7, <5>1
        <5> QED
          BY <5>2, <5>3, <5>4, <5>5
      <4>3. len(n + 1) <= len(n + 1)
        BY <2>6, <4>1
      <4> QED
        BY <4>1, <4>2, <4>3
    <3> HIDE DEF T
    <3> QED
      BY <1>1, <3>1, <3>2, Induct
  <2>10. ASSUME NEW k \in 1 .. m
         PROVE  len(k) <= len(m) /\ \A q \in 1 .. len(k) : at(m, q) = at(k, q)
    <3>1. m \in 0 .. m
      BY <1>1
    <3> QED
      BY <2>9, <3>1
  <2> HIDE DEF T
  <2> DEFINE end == [i \in 0 .. m |-> IF i = 0 THEN 0 ELSE len(i)]
  <2>11. end \in [0 .. m -> Nat] /\ end[0] = 0 /\ \A i \in 1 .. m : end[i] = len(i)
    <3>1. \A i \in 0 .. m : i # 0 => i \in 1 .. m
      BY <1>1
    <3>2. \A i \in 1 .. m : i # 0 /\ i \in 0 .. m
      BY <1>1
    <3>3. 0 \in 0 .. m
      BY <1>1
    <3> HIDE DEF m
    <3> QED
      BY <1>1, <2>6, <3>1, <3>2, <3>3
  <2> HIDE DEF end
  <2>12. m \in 1 .. m /\ end[m] = len(m)
    BY <1>1, <1>3, <2>11
  <2>13. ASSUME NEW i \in 1 .. m
         PROVE  /\ end[i] = end[i - 1] + more(i)
                /\ end[i] <= end[m]
                /\ \A q \in 1 .. more(i) : at(m, end[i - 1] + q) = parts[i][q]
    <3> HIDE DEF m
    <3>1. end[i] = len(i) /\ len(i) <= len(m) /\ \A q \in 1 .. len(i) : at(m, q) = at(i, q)
      BY <2>10, <2>11
    <3>2. CASE i = 1
      <4>1. end[i - 1] = 0 /\ len(i) = more(i) /\ more(i) \in Nat
        BY <2>6, <2>8, <2>11, <3>2
      <4>2. ASSUME NEW q \in 1 .. more(i) PROVE at(m, 0 + q) = parts[i][q]
        <5>1. 0 + q = q /\ q \in 1 .. len(i)
          BY <4>1
        <5> QED
          BY <2>8, <3>1, <3>2, <5>1
      <4>3. end[i] = end[i - 1] + more(i)
        BY <3>1, <4>1
      <4> QED
        BY <2>12, <3>1, <4>1, <4>2, <4>3
    <3>3. CASE i # 1
      <4>1. i - 1 \in 1 .. m /\ i - 1 \in 1 .. m - 1 /\ i - 1 + 1 = i
        BY <1>1, <3>3
      <4>2. end[i - 1] = len(i - 1) /\ len(i - 1) \in Nat /\ more(i) \in Nat
        BY <2>6, <2>11, <4>1
      <4>3. len(i) = len(i - 1) + more(i)
            /\ \A q \in 1 .. more(i) : at(i, len(i - 1) + q) = parts[i][q]
        BY <2>7, <4>1
      <4>4. ASSUME NEW q \in 1 .. more(i) PROVE at(m, end[i - 1] + q) = parts[i][q]
        <5>1. len(i - 1) + q \in 1 .. len(i)
          BY <4>2, <4>3
        <5> QED
          BY <3>1, <4>2, <4>3, <5>1
      <4> QED
        BY <2>12, <3>1, <4>2, <4>3, <4>4
    <3> QED
      BY <3>2, <3>3
  <2>14. FlattenSeq(parts) \in Seq(S) /\ Len(FlattenSeq(parts)) = end[m]
         /\ \A q : FlattenSeq(parts)[q] = at(m, q)
    BY <2>3, <2>5, <2>12 DEF len, at
  <2> QED
    BY <2>11, <2>13, <2>14, Zenon DEF more
<1> QED
  BY <1>2, <1>3
-----------------------------------------------------------------------------
(* The reader of a tar *)

\* A byte takes one block, and every size a number of them.
LEMMA BlockCount ==
    /\ Blocks(0) = 0 /\ Blocks(1) = 1
    /\ \A size \in Nat : Blocks(size) \in Nat
    /\ \A size \in Nat \ {0} : Blocks(size) # 0
<1>1. Block \in Nat \ {0}
  BY FormatAssumption
<1>2. (1 + Block - 1) \div Block = 1
  BY <1>1
<1>3. \A size \in Nat : (size + Block - 1) \div Block \in Nat
  BY <1>1
<1>4. (0 + Block - 1) \div Block = 0
  BY <1>1
<1>5. ASSUME NEW size \in Nat \ {0} PROVE (size + Block - 1) \div Block # 0
  <2> DEFINE x == size + Block - 1
  <2>1. x \in Nat /\ x >= Block
    BY <1>1
  <2> HIDE DEF x
  <2>2. x \div Block # 0
    BY <1>1, <2>1, SMTT(30)
  <2> QED
    BY <2>2 DEF x
<1> QED
  BY <1>2, <1>3, <1>4, <1>5 DEF Blocks

\* A state of the reader.
State(skip, long, walk, entries) ==
    [skip |-> skip, long |-> long, walk |-> walk, entries |-> entries]

LEMMA Fields ==
    ASSUME NEW skip, NEW long, NEW walk, NEW entries
    PROVE  /\ State(skip, long, walk, entries).skip = skip
           /\ State(skip, long, walk, entries).long = long
           /\ State(skip, long, walk, entries).walk = walk
           /\ State(skip, long, walk, entries).entries = entries
BY DEF State

\* A state is known by its fields.
LEMMA Same ==
    ASSUME NEW skip, NEW long, NEW walk, NEW entries,
           NEW f, f = [x \in {"skip", "long", "walk", "entries"} |-> f[x]],
           f.skip = skip, f.long = long, f.walk = walk, f.entries = entries
    PROVE  f = State(skip, long, walk, entries)
<1> DEFINE D == {"skip", "long", "walk", "entries"}
           s == State(skip, long, walk, entries)
<1>1. s = [x \in D |-> s[x]]
  BY DEF State
<1> HIDE DEF s
<1> QED
  BY <1>1, Fields DEF s

LEMMA ChangeSkip ==
    ASSUME NEW skip, NEW long, NEW walk, NEW entries, NEW c
    PROVE  [State(skip, long, walk, entries) EXCEPT !.skip = c] = State(c, long, walk, entries)
<1> DEFINE st == State(skip, long, walk, entries)
           g == [st EXCEPT !.skip = c]
<1>1. /\ st = [x \in {"skip", "long", "walk", "entries"} |-> st[x]]
      /\ st.skip = skip /\ st.long = long /\ st.walk = walk /\ st.entries = entries
  BY DEF State
<1> HIDE DEF st
<1>2. /\ g = [x \in {"skip", "long", "walk", "entries"} |-> g[x]]
      /\ g.skip = c /\ g.long = long /\ g.walk = walk /\ g.entries = entries
  BY <1>1
<1> HIDE DEF g
<1> QED
  BY <1>2, Same DEF g, st

LEMMA ChangeLong ==
    ASSUME NEW skip, NEW long, NEW walk, NEW entries, NEW c
    PROVE  [State(skip, long, walk, entries) EXCEPT !.long = c] = State(skip, c, walk, entries)
<1> DEFINE st == State(skip, long, walk, entries)
           g == [st EXCEPT !.long = c]
<1>1. /\ st = [x \in {"skip", "long", "walk", "entries"} |-> st[x]]
      /\ st.skip = skip /\ st.long = long /\ st.walk = walk /\ st.entries = entries
  BY DEF State
<1> HIDE DEF st
<1>2. /\ g = [x \in {"skip", "long", "walk", "entries"} |-> g[x]]
      /\ g.skip = skip /\ g.long = c /\ g.walk = walk /\ g.entries = entries
  BY <1>1
<1> HIDE DEF g
<1> QED
  BY <1>2, Same DEF g, st

LEMMA ChangeWalk ==
    ASSUME NEW skip, NEW long, NEW walk, NEW entries, NEW c
    PROVE  [State(skip, long, walk, entries) EXCEPT !.walk = c] = State(skip, long, c, entries)
<1> DEFINE st == State(skip, long, walk, entries)
           g == [st EXCEPT !.walk = c]
<1>1. /\ st = [x \in {"skip", "long", "walk", "entries"} |-> st[x]]
      /\ st.skip = skip /\ st.long = long /\ st.walk = walk /\ st.entries = entries
  BY DEF State
<1> HIDE DEF st
<1>2. /\ g = [x \in {"skip", "long", "walk", "entries"} |-> g[x]]
      /\ g.skip = skip /\ g.long = long /\ g.walk = c /\ g.entries = entries
  BY <1>1
<1> HIDE DEF g
<1> QED
  BY <1>2, Same DEF g, st

LEMMA ChangeEntries ==
    ASSUME NEW skip, NEW long, NEW walk, NEW entries, NEW c
    PROVE  [State(skip, long, walk, entries) EXCEPT !.entries = c] = State(skip, long, walk, c)
<1> DEFINE st == State(skip, long, walk, entries)
           g == [st EXCEPT !.entries = c]
<1>1. /\ st = [x \in {"skip", "long", "walk", "entries"} |-> st[x]]
      /\ st.skip = skip /\ st.long = long /\ st.walk = walk /\ st.entries = entries
  BY DEF State
<1> HIDE DEF st
<1>2. /\ g = [x \in {"skip", "long", "walk", "entries"} |-> g[x]]
      /\ g.skip = skip /\ g.long = long /\ g.walk = walk /\ g.entries = c
  BY <1>1
<1> HIDE DEF g
<1> QED
  BY <1>2, Same DEF g, st

At(skip, long, entries) == State(skip, long, "on", entries)

\* One block, by what the reader makes of it.
LEMMA Reads ==
    ASSUME NEW long, NEW entries
    PROVE  /\ \A k \in Nat : \A b : Read(At(k + 1, long, entries), b) = At(k, long, entries)
           /\ \A name, size : Read(At(0, long, entries), Header(name, size, "g"))
                                = At(Blocks(size), long, entries)
           /\ \A name, size : Read(At(0, long, entries), Header(name, size, "L"))
                                = At(Blocks(size), name, entries)
           /\ \A name, size : Read(At(0, long, entries), Header(name, size, "x"))
                                = At(Blocks(size),
                                     IF "path" \in DOMAIN name THEN name.path ELSE long, entries)
           /\ \A name, size :
                 Read(At(0, long, entries), Header(name, size, "file"))
                    = At(Blocks(size), <<>>,
                         Append(entries, [name |-> IF long = <<>> THEN name ELSE long,
                                          size |-> size]))
           /\ Read(At(0, long, entries), Zero) = State(0, long, "over", entries)
           /\ Read(At(0, long, entries), Data) = State(0, long, "over", entries)
           /\ \A b : Read(State(0, long, "over", entries), b) = State(0, long, "over", entries)
<1>1. ASSUME NEW k \in Nat, NEW b
      PROVE  Read(At(k + 1, long, entries), b) = At(k, long, entries)
  <2> DEFINE st == At(k + 1, long, entries)
  <2>1. st.walk = "on" /\ st.skip = k + 1
    BY Fields DEF At
  <2>4. [st EXCEPT !.skip = k] = At(k, long, entries)
    BY ChangeSkip DEF At
  <2> HIDE DEF st
  <2>2. st.skip > 0 /\ st.skip - 1 = k
    BY <2>1
  <2>3. Read(st, b) = [st EXCEPT !.skip = st.skip - 1]
    BY <2>1, <2>2, Zenon DEF Read
  <2> QED
    BY <2>2, <2>3, <2>4 DEF st
<1> DEFINE st == At(0, long, entries)
<1>2. st.walk = "on" /\ st.skip = 0 /\ st.long = long /\ st.entries = entries
  BY Fields DEF At
<1>a. ~(st.skip > 0)
  BY <1>2
<1>3. ASSUME NEW name, NEW size, NEW flag
      PROVE  /\ flag = "g" => Read(st, Header(name, size, flag)) = At(Blocks(size), long, entries)
             /\ flag = "L" => Read(st, Header(name, size, flag)) = At(Blocks(size), name, entries)
             /\ flag = "x" =>
                   Read(st, Header(name, size, flag))
                      = At(Blocks(size), IF "path" \in DOMAIN name THEN name.path ELSE long, entries)
             /\ flag = "file" =>
                   Read(st, Header(name, size, flag))
                      = At(Blocks(size), <<>>,
                           Append(entries, [name |-> IF long = <<>> THEN name ELSE long,
                                            size |-> size]))
  <2> DEFINE b == Header(name, size, flag)
  <2>1. b.is = "header" /\ b.name = name /\ b.size = size /\ b.flag = flag
    BY DEF Header
  <2> HIDE DEF b, st
  <2>2. Read(st, b) = [Take(st, b) EXCEPT !.skip = Blocks(size)]
    BY <1>2, <1>a, <2>1, Zenon DEF Read
  <2>3. CASE flag = "g"
    <3>1. Take(st, b) = st
      <4>1. ~Naming(b) /\ b.flag \in {"x", "g"}
        BY <2>1, <2>3 DEF Naming
      <4> QED
        BY <4>1, Zenon DEF Take
    <3>2. [st EXCEPT !.skip = Blocks(size)] = At(Blocks(size), long, entries)
      BY ChangeSkip DEF At, st
    <3> QED
      BY <2>2, <2>3, <3>1, <3>2 DEF b
  <2>6. CASE flag = "x" /\ "path" \notin DOMAIN name
    <3>1. Take(st, b) = st
      <4>1. ~Naming(b) /\ b.flag \in {"x", "g"}
        BY <2>1, <2>6 DEF Naming
      <4> QED
        BY <4>1, Zenon DEF Take
    <3>2. [st EXCEPT !.skip = Blocks(size)] = At(Blocks(size), long, entries)
      BY ChangeSkip DEF At, st
    <3> QED
      BY <2>2, <2>6, <3>1, <3>2 DEF b
  <2>7. CASE flag = "x" /\ "path" \in DOMAIN name
    <3>1. Take(st, b) = [st EXCEPT !.long = name.path]
      <4>1. Naming(b) /\ NameIn(b) = name.path
        BY <2>1, <2>7 DEF Naming, NameIn
      <4> QED
        BY <4>1 DEF Take
    <3> DEFINE l == name.path
    <3> HIDE DEF l
    <3>2. [st EXCEPT !.long = l] = At(0, l, entries)
      BY ChangeLong DEF At, st
    <3>3. [At(0, l, entries) EXCEPT !.skip = Blocks(size)] = At(Blocks(size), l, entries)
      BY ChangeSkip DEF At
    <3>4. Read(st, b) = At(Blocks(size), l, entries)
      BY <2>2, <3>1, <3>2, <3>3 DEF l
    <3> QED
      BY <2>7, <3>4 DEF b, l
  <2>4. CASE flag = "L"
    <3>1. Take(st, b) = [st EXCEPT !.long = name]
      <4>1. Naming(b) /\ NameIn(b) = name
        BY <2>1, <2>4 DEF Naming, NameIn
      <4> QED
        BY <4>1 DEF Take
    <3>2. [st EXCEPT !.long = name] = At(0, name, entries)
      BY ChangeLong DEF At, st
    <3>3. [At(0, name, entries) EXCEPT !.skip = Blocks(size)] = At(Blocks(size), name, entries)
      BY ChangeSkip DEF At
    <3> QED
      BY <2>2, <2>4, <3>1, <3>2, <3>3 DEF b
  <2>5. CASE flag = "file"
    <3> DEFINE e == Append(entries, [name |-> IF long = <<>> THEN name ELSE long, size |-> size])
    <3>1. Entered(st, b) = e
      BY <1>2, <2>1 DEF Entered
    <3> HIDE DEF e
    <3>2. Take(st, b) = [[st EXCEPT !.long = <<>>] EXCEPT !.entries = e]
      <4>1. ~Naming(b) /\ b.flag \notin {"x", "g"}
        BY <2>1, <2>5 DEF Naming
      <4> QED
        BY <3>1, <4>1 DEF Take
    <3>3. [st EXCEPT !.long = <<>>] = At(0, <<>>, entries)
      BY ChangeLong DEF At, st
    <3>4. [At(0, <<>>, entries) EXCEPT !.entries = e] = At(0, <<>>, e)
      BY ChangeEntries DEF At
    <3>5. [At(0, <<>>, e) EXCEPT !.skip = Blocks(size)] = At(Blocks(size), <<>>, e)
      BY ChangeSkip DEF At
    <3>6. Take(st, b) = At(0, <<>>, e)
      BY <3>2, <3>3, <3>4
    <3>7. Read(st, b) = At(Blocks(size), <<>>, e)
      BY <2>2, <3>5, <3>6
    <3> QED
      BY <2>5, <3>7 DEF b, e
  <2> QED
    BY <2>3, <2>4, <2>5, <2>6, <2>7 DEF b
<1>4. ASSUME NEW b, b.is # "header" PROVE Read(st, b) = State(0, long, "over", entries)
  <2>2. [st EXCEPT !.walk = "over"] = State(0, long, "over", entries)
    BY ChangeWalk DEF At
  <2> HIDE DEF st
  <2>3. Read(st, b) = [st EXCEPT !.walk = "over"]
    BY <1>2, <1>a, <1>4, Zenon DEF Read
  <2> QED
    BY <2>2, <2>3
<1>6. Zero.is # "header" /\ Data.is # "header"
  BY DEF Zero, Data
<1>5. ASSUME NEW b PROVE Read(State(0, long, "over", entries), b) = State(0, long, "over", entries)
  <2>1. State(0, long, "over", entries).walk = "over"
    BY Fields
  <2> QED
    BY <2>1, Zenon DEF Read
<1> HIDE DEF st
<1>7. Read(st, Zero) = State(0, long, "over", entries) /\ Read(st, Data) = State(0, long, "over", entries)
  BY <1>4, <1>6
<1> QED
  BY <1>1, <1>3, <1>5, <1>7 DEF st

LEMMA ReadsPax ==
    ASSUME NEW long, NEW entries, NEW name, NEW size
    PROVE  Read(At(0, long, entries), Header(name, size, "x"))
              = At(Blocks(size), IF "path" \in DOMAIN name THEN name.path ELSE long, entries)
BY Reads

LEMMA ReadsGlobal ==
    ASSUME NEW long, NEW entries, NEW name, NEW size
    PROVE  Read(At(0, long, entries), Header(name, size, "g")) = At(Blocks(size), long, entries)
BY Reads

LEMMA ReadsLong ==
    ASSUME NEW long, NEW entries, NEW name, NEW size
    PROVE  Read(At(0, long, entries), Header(name, size, "L")) = At(Blocks(size), name, entries)
BY Reads

LEMMA ReadsFile ==
    ASSUME NEW long, NEW entries, NEW name, NEW size
    PROVE  Read(At(0, long, entries), Header(name, size, "file"))
              = At(Blocks(size), <<>>,
                   Append(entries, [name |-> IF long = <<>> THEN name ELSE long,
                                    size |-> size]))
BY Reads

\* Some blocks bring the reader from one state to another.
Brings(p, c, d) ==
    \A w : w[0] = c /\ (\A q \in 1 .. Len(p) : w[q] = Read(w[q - 1], p[q])) => w[Len(p)] = d

\* A single block is read in one step.
LEMMA BringsOne ==
    ASSUME NEW c, NEW b
    PROVE  Brings(<<b>>, c, Read(c, b))
<1> DEFINE p == <<b>>
<1>1. Len(p) = 1 /\ p[1] = b
  OBVIOUS
<1> HIDE DEF p
<1>2. ASSUME NEW w, w[0] = c, \A q \in 1 .. Len(p) : w[q] = Read(w[q - 1], p[q])
      PROVE  w[Len(p)] = Read(c, b)
  <2>1. 1 \in 1 .. Len(p) /\ 1 - 1 = 0
    BY <1>1
  <2>2. w[1] = Read(w[0], p[1])
    BY <1>2, <2>1
  <2> QED
    BY <1>1, <1>2, <2>2
<1> QED
  BY <1>2 DEF Brings, p

\* One stretch after another.
LEMMA BringsBoth ==
    ASSUME NEW B, NEW p \in Seq(B), NEW r \in Seq(B), NEW c, NEW d, NEW e,
           Brings(p, c, d), Brings(r, d, e)
    PROVE  Brings(p \o r, c, e)
<1> DEFINE t == p \o r
           n == Len(p)
           k == Len(r)
<1>1. n \in Nat /\ k \in Nat /\ Len(t) = n + k
  BY LenProperties, ConcatProperties
<1>2. /\ \A q \in 1 .. n : q \in 1 .. n + k /\ t[q] = p[q]
      /\ \A q \in 1 .. k : n + q \in 1 .. n + k /\ t[n + q] = r[q]
  <2>1. \A q \in 1 .. n : q \in 1 .. n + k /\ t[q] = p[q]
    BY <1>1, ConcatProperties
  <2>2. ASSUME NEW q \in 1 .. k PROVE n + q \in 1 .. n + k /\ t[n + q] = r[q]
    <3>1. n + q \in 1 .. n + k /\ n + q > n /\ n + q - n = q
      BY <1>1
    <3> QED
      BY <1>1, <3>1, ConcatProperties
  <2> QED
    BY <2>1, <2>2
<1> HIDE DEF t
<1>3. ASSUME NEW w, w[0] = c, \A q \in 1 .. Len(t) : w[q] = Read(w[q - 1], t[q])
      PROVE  w[Len(t)] = e
  <2> HIDE DEF n, k
  <2>1. \A q \in 1 .. n : w[q] = Read(w[q - 1], p[q])
    BY <1>1, <1>2, <1>3
  <2>2. w[n] = d
    BY <1>3, <2>1 DEF Brings, n
  <2> DEFINE v == [q \in 0 .. k |-> w[n + q]]
  <2>3. v[0] = d /\ v[k] = w[n + k]
    <3>1. 0 \in 0 .. k /\ k \in 0 .. k /\ n + 0 = n
      BY <1>1
    <3> QED
      BY <2>2, <3>1
  <2>4. ASSUME NEW q \in 1 .. k PROVE v[q] = Read(v[q - 1], r[q])
    <3>1. q \in 0 .. k /\ q - 1 \in 0 .. k /\ (n + q) - 1 = n + (q - 1)
      BY <1>1
    <3>2. v[q] = w[n + q] /\ v[q - 1] = w[(n + q) - 1]
      BY <3>1
    <3>3. w[n + q] = Read(w[(n + q) - 1], t[n + q])
      BY <1>1, <1>2, <1>3
    <3> QED
      BY <1>2, <3>2, <3>3
  <2> HIDE DEF v
  <2>5. v[k] = e
    BY <2>3, <2>4 DEF Brings, k
  <2> QED
    BY <1>1, <2>3, <2>5
<1> QED
  BY <1>3 DEF Brings, t

\* Contents are passed over.
LEMMA BringsOver ==
    ASSUME NEW n \in Nat, NEW long, NEW entries
    PROVE  Brings([i \in 1 .. n |-> Data], At(n, long, entries), At(0, long, entries))
<1> DEFINE p == [i \in 1 .. n |-> Data]
<1>1. Len(p) = n
  OBVIOUS
<1> HIDE DEF p
<1>2. ASSUME NEW w, w[0] = At(n, long, entries),
             \A q \in 1 .. Len(p) : w[q] = Read(w[q - 1], p[q])
      PROVE  w[Len(p)] = At(0, long, entries)
  <2> DEFINE T == {q \in 0 .. n : w[q] = At(n - q, long, entries)}
  <2>1. 0 \in T
    BY <1>2, n - 0 = n
  <2>2. ASSUME NEW q \in 0 .. n - 1, q \in T PROVE q + 1 \in T
    <3>1. q + 1 \in 1 .. n /\ q + 1 \in 0 .. n /\ (q + 1) - 1 = q
          /\ n - (q + 1) \in Nat /\ n - q = n - (q + 1) + 1
      OBVIOUS
    <3>2. w[q] = At(n - (q + 1) + 1, long, entries)
      BY <2>2, <3>1
    <3>3. w[q + 1] = Read(w[q], p[q + 1])
      BY <1>1, <1>2, <3>1
    <3>4. \A k \in Nat : \A b : Read(At(k + 1, long, entries), b) = At(k, long, entries)
      BY Reads, Zenon
    <3>5. w[q + 1] = At(n - (q + 1), long, entries)
      BY <3>1, <3>2, <3>3, <3>4
    <3> QED
      BY <3>1, <3>5
  <2> HIDE DEF T
  <2>3. n \in T
    BY <2>1, <2>2, Induct
  <2> QED
    BY <1>1, <2>3, n - n = 0 DEF T
<1> QED
  BY <1>2 DEF Brings, p

\* Part by part.
LEMMA BringsAll ==
    ASSUME NEW B, NEW parts \in Seq(Seq(B)), NEW c,
           \A i \in 1 .. Len(parts) : Brings(parts[i], c[i - 1], c[i])
    PROVE  Brings(FlattenSeq(parts), c[0], c[Len(parts)])
<1> DEFINE t == FlattenSeq(parts)
           m == Len(parts)
           len(i) == Len(parts[i])
           blk(i, q) == parts[i][q]
<1>1. PICK end \in [0 .. m -> Nat] :
         /\ end[0] = 0
         /\ Len(t) = end[m]
         /\ \A i \in 1 .. m :
               /\ end[i] = end[i - 1] + len(i)
               /\ end[i] <= end[m]
               /\ \A q \in 1 .. len(i) : t[end[i - 1] + q] = blk(i, q)
  BY Flattens
<1>2. m \in Nat /\ \A i \in 1 .. m : len(i) \in Nat
  BY LenProperties, ElementOfSeq
<1>3. \A i \in 1 .. m : \A w :
         w[0] = c[i - 1] /\ (\A q \in 1 .. len(i) : w[q] = Read(w[q - 1], blk(i, q)))
            => w[len(i)] = c[i]
  BY DEF Brings
<1> HIDE DEF t, m, len, blk
<1>4. ASSUME NEW w, w[0] = c[0], \A q \in 1 .. Len(t) : w[q] = Read(w[q - 1], t[q])
      PROVE  w[Len(t)] = c[m]
  <2> DEFINE T == {i \in 0 .. m : w[end[i]] = c[i]}
  <2>1. 0 \in T
    BY <1>1, <1>2, <1>4
  <2>2. ASSUME NEW j \in 0 .. m - 1, j \in T PROVE j + 1 \in T
    <3> DEFINE i == j + 1
               n == end[j]
               k == len(i)
    <3>1. i \in 1 .. m /\ i \in 0 .. m /\ i - 1 = j /\ j \in 0 .. m
      BY <1>2
    <3>2. n \in Nat /\ k \in Nat /\ end[i] = n + k /\ n + k <= end[m] /\ w[n] = c[j]
          /\ end[m] \in Nat
      BY <1>1, <1>2, <2>2, <3>1
    <3>3. \A q \in 1 .. k : t[n + q] = blk(i, q)
      BY <1>1, <3>1
    <3>i. \A v : v[0] = c[j] /\ (\A q \in 1 .. k : v[q] = Read(v[q - 1], blk(i, q)))
                    => v[k] = c[i]
      BY <1>3, <3>1
    <3> HIDE DEF n, k, i
    <3> DEFINE v == [q \in 0 .. k |-> w[n + q]]
    <3>4. v[0] = c[j] /\ v[k] = w[n + k]
      <4>1. 0 \in 0 .. k /\ k \in 0 .. k /\ n + 0 = n
        BY <3>2
      <4> QED
        BY <3>2, <4>1
    <3>5. ASSUME NEW q \in 1 .. k PROVE v[q] = Read(v[q - 1], blk(i, q))
      <4>1. q \in 0 .. k /\ q - 1 \in 0 .. k /\ (n + q) - 1 = n + (q - 1) /\ n + q \in 1 .. end[m]
        BY <3>2
      <4>2. v[q] = w[n + q] /\ v[q - 1] = w[(n + q) - 1]
        BY <4>1
      <4>3. w[n + q] = Read(w[(n + q) - 1], t[n + q])
        <5> DEFINE z == n + q
        <5>1. z \in 1 .. Len(t)
          BY <1>1, <4>1
        <5> HIDE DEF z
        <5>2. w[z] = Read(w[z - 1], t[z])
          BY <1>4, <5>1
        <5>3. z = n + q
          BY DEF z
        <5> QED
          BY <5>2, <5>3
      <4> QED
        BY <3>3, <4>2, <4>3
    <3> HIDE DEF v
    <3>6. v[k] = c[i]
      BY <3>i, <3>4, <3>5
    <3>7. w[end[i]] = c[i]
      BY <3>2, <3>4, <3>6
    <3> QED
      BY <3>1, <3>7 DEF i
  <2> HIDE DEF T
  <2>3. m \in T
    <3>1. m \in Nat /\ m \in 0 .. m
      BY <1>2
    <3>2. \A j \in 0 .. m : j \in T
      BY <2>1, <2>2, <3>1, Induct
    <3> QED
      BY <3>1, <3>2
  <2> QED
    BY <1>1, <2>3 DEF T
<1> QED
  BY <1>4 DEF Brings, t, m

\* A tape is read block by block.
LEMMA TarWalk ==
    ASSUME NEW B, NEW blocks \in Seq(B), \A b \in B : b.is = "header" => b.size \in Nat,
           NEW d, Brings(blocks, AtStart, d)
    PROVE  ListTar(blocks) = d.entries
<1> DEFINE m == Len(blocks)
           L == {<<>>} \cup {b.name : b \in B} \cup {b.name.path : b \in B}
           E == [name : L, size : {b.size : b \in B}]
           Q == Seq(E)
           V == [skip : Nat, long : L, walk : {"on", "over"}, entries : Q]
           F == [p \in V \X (1 .. m) |-> Read(p[1], blocks[p[2]])]
<1>1. m \in Nat /\ \A n \in 1 .. m : blocks[n] \in B
  BY LenProperties, ElementOfSeq
<1>2. ASSUME NEW st \in V, NEW b \in B PROVE Read(st, b) \in V
  <2>1. /\ \A n \in Nat : [st EXCEPT !.skip = n] \in V
        /\ \A l \in L : [st EXCEPT !.long = l] \in V
        /\ \A e \in Q : [st EXCEPT !.entries = e] \in V
        /\ [st EXCEPT !.walk = "over"] \in V
        /\ st.skip \in Nat /\ st.long \in L /\ st.entries \in Q
    <3> HIDE DEF L, Q
    <3> QED
      OBVIOUS
  <2>2. b.is = "header" => Blocks(b.size) \in Nat
    BY BlockCount
  <2>3. Entered(st, b) \in Q
    <3>1. [name |-> IF st.long = <<>> THEN b.name ELSE st.long, size |-> b.size] \in E
      BY <2>1
    <3> HIDE DEF E
    <3> QED
      BY <2>1, <3>1, AppendProperties DEF Entered
  <2>4. b.name \in L /\ b.name.path \in L /\ <<>> \in L
    OBVIOUS
  <2> HIDE DEF L, E, Q
  <2>5. CASE st.walk = "over"
    BY <2>5, Zenon DEF Read
  <2>6. CASE st.walk # "over" /\ st.skip > 0
    <3>1. st.skip - 1 \in Nat
      BY <2>1, <2>6
    <3>2. Read(st, b) = [st EXCEPT !.skip = st.skip - 1]
      BY <2>6, Zenon DEF Read
    <3> HIDE DEF V
    <3> QED
      BY <2>1, <3>1, <3>2
  <2>7. CASE st.walk # "over" /\ ~(st.skip > 0) /\ b.is # "header"
    <3>1. Read(st, b) = [st EXCEPT !.walk = "over"]
      BY <2>7, Zenon DEF Read
    <3> HIDE DEF V
    <3> QED
      BY <2>1, <3>1
  <2>8. CASE st.walk # "over" /\ ~(st.skip > 0) /\ b.is = "header"
    <3>1. Read(st, b) = [Take(st, b) EXCEPT !.skip = Blocks(b.size)]
      BY <2>8, Zenon DEF Read
    <3>2. Take(st, b) \in V
      <4>1. [[st EXCEPT !.long = <<>>] EXCEPT !.entries = Entered(st, b)]
               = [st EXCEPT !.long = <<>>, !.entries = Entered(st, b)]
        OBVIOUS
      <4>2. [st EXCEPT !.long = <<>>, !.entries = Entered(st, b)] \in V
        BY <2>3, <2>4
      <4> HIDE DEF V
      <4>3. CASE b.flag \in {"x", "g"} /\ ~Naming(b)
        BY <4>3, Zenon DEF Take
      <4>4. CASE Naming(b)
        <5>1. Take(st, b) = [st EXCEPT !.long = NameIn(b)]
          BY <4>4, Zenon DEF Take
        <5>2. NameIn(b) \in L
          BY <2>4 DEF NameIn
        <5> QED
          BY <2>1, <5>1, <5>2
      <4>5. CASE b.flag \notin {"x", "g"} /\ ~Naming(b)
        <5>1. Take(st, b) = [st EXCEPT !.long = <<>>, !.entries = Entered(st, b)]
          BY <4>5, Zenon DEF Take
        <5> QED
          BY <4>2, <5>1
      <4> QED
        BY <4>3, <4>4, <4>5
    <3>3. \A s \in V, n \in Nat : [s EXCEPT !.skip = n] \in V
      OBVIOUS
    <3> HIDE DEF V
    <3> QED
      BY <2>2, <2>8, <3>1, <3>2, <3>3
  <2> QED
    BY <2>5, <2>6, <2>7, <2>8
<1>3. F \in [V \X (1 .. m) -> V]
  <2> HIDE DEF V, m
  <2> QED
    BY <1>1, <1>2
<1>4. AtStart \in V
  <2>1. <<>> \in Q
    BY EmptySeq
  <2> HIDE DEF E, Q
  <2> QED
    BY <2>1 DEF AtStart
<1>5. \A v \in V, n \in 1 .. m : F[<<v, n>>] = Read(v, blocks[n])
  <2> HIDE DEF V, m
  <2> QED
    OBVIOUS
<1> HIDE DEF V, F
<1>6. PICK v \in [0 .. m -> V] : Steps(v, m, AtStart, F)
  <2> HIDE DEF m
  <2> QED
    BY <1>1, <1>3, <1>4, Defined
<1> DEFINE Walk(w) == w = [n \in 0 .. m |-> IF n = 0 THEN AtStart ELSE Read(w[n - 1], blocks[n])]
<1>7. Walk(v)
  <2> HIDE DEF m
  <2>1. \A n \in 0 .. m : v[n] = IF n = 0 THEN AtStart ELSE F[<<v[n - 1], n>>]
    BY <1>6 DEF Steps
  <2>2. ASSUME NEW n \in 0 .. m, n # 0 PROVE v[n] = Read(v[n - 1], blocks[n])
    <3>1. n \in 1 .. m /\ n - 1 \in 0 .. m
      BY <1>1, <2>2
    <3>2. v[n - 1] \in V
      BY <3>1
    <3> QED
      BY <1>5, <2>1, <2>2, <3>1, <3>2
  <2> QED
    BY <2>1, <2>2
<1> DEFINE w == CHOOSE g : Walk(g)
<1>8. Walk(w)
  BY <1>7, Zenon
<1>9. ListTar(blocks) = w[Len(blocks)].entries
  BY Zenon DEF ListTar
<1> HIDE DEF w
<1>10. w[0] = AtStart /\ \A n \in 1 .. m : w[n] = Read(w[n - 1], blocks[n])
  <2> HIDE DEF m
  <2>1. \A n \in 0 .. m : w[n] = IF n = 0 THEN AtStart ELSE Read(w[n - 1], blocks[n])
    BY <1>8, Zenon
  <2>2. 0 \in 0 .. m /\ \A n \in 1 .. m : n \in 0 .. m /\ n # 0
    BY <1>1
  <2> QED
    BY <2>1, <2>2
<1>11. w[m] = d
  BY <1>10, Zenon DEF Brings
<1> QED
  BY <1>9, <1>11, Zenon

\* Two blocks, one after the other.
LEMMA BringsTwo ==
    ASSUME NEW c, NEW a, NEW b
    PROVE  Brings(<<a, b>>, c, Read(Read(c, a), b))
<1> DEFINE p == <<a, b>>
<1>1. Len(p) = 2 /\ p[1] = a /\ p[2] = b
  OBVIOUS
<1> HIDE DEF p
<1>2. ASSUME NEW w, w[0] = c, \A q \in 1 .. Len(p) : w[q] = Read(w[q - 1], p[q])
      PROVE  w[Len(p)] = Read(Read(c, a), b)
  <2>1. {1, 2} \subseteq 1 .. Len(p) /\ 1 - 1 = 0 /\ 2 - 1 = 1
    BY <1>1
  <2>2. w[1] = Read(w[0], p[1]) /\ w[2] = Read(w[1], p[2])
    BY <1>2, <2>1
  <2> QED
    BY <1>1, <1>2, <2>2
<1> QED
  BY <1>2 DEF Brings, p

\* Three blocks, one after the other.
LEMMA BringsThree ==
    ASSUME NEW s, NEW a, NEW b, NEW c
    PROVE  Brings(<<a, b, c>>, s, Read(Read(Read(s, a), b), c))
<1> DEFINE p == <<a, b, c>>
<1>1. Len(p) = 3 /\ p[1] = a /\ p[2] = b /\ p[3] = c
  OBVIOUS
<1> HIDE DEF p
<1>2. ASSUME NEW w, w[0] = s, \A q \in 1 .. Len(p) : w[q] = Read(w[q - 1], p[q])
      PROVE  w[Len(p)] = Read(Read(Read(s, a), b), c)
  <2>1. {1, 2, 3} \subseteq 1 .. Len(p) /\ 1 - 1 = 0 /\ 2 - 1 = 1 /\ 3 - 1 = 2
    BY <1>1
  <2>2. w[1] = Read(w[0], p[1]) /\ w[2] = Read(w[1], p[2]) /\ w[3] = Read(w[2], p[3])
    BY <1>2, <2>1
  <2> QED
    BY <1>1, <1>2, <2>2
<1> QED
  BY <1>2 DEF Brings, p

\* What has been read by one more member.
LEMMA ReadOn ==
    ASSUME NEW E, NEW result \in Seq(E), NEW i \in 1 .. Len(result)
    PROVE  Append([k \in 1 .. i - 1 |-> result[k]], result[i]) = [k \in 1 .. i |-> result[k]]
<1> DEFINE n == i - 1
           s == [k \in 1 .. n + 1 |-> result[k]]
<1>1. n \in Nat /\ n + 1 = i
  <2>1. Len(result) \in Nat
    BY LenProperties
  <2> QED
    BY <2>1
<1>2. s \in [1 .. n + 1 -> E]
  BY <1>1, ElementOfSeq
<1>3. [k \in 1 .. n |-> s[k]] = [k \in 1 .. i - 1 |-> result[k]] /\ s[n + 1] = result[i] /\ s = [k \in 1 .. i |-> result[k]]
      /\ [k \in 1 .. n + 1 |-> s[k]] = s
  BY <1>1
<1> HIDE DEF n, s
<1>4. Append([k \in 1 .. n |-> s[k]], s[n + 1]) = [k \in 1 .. n + 1 |-> s[k]]
  BY <1>1, <1>2, Appends
<1> QED
  BY <1>3, <1>4

\* Members one after the other, and the two blocks of zeros.
LEMMA BringsArchive ==
    ASSUME NEW B, Zero \in B, NEW parts \in Seq(Seq(B)), NEW E, NEW result \in Seq(E),
           Len(result) = Len(parts),
           \A i \in 1 .. Len(parts) : \A e :
              Brings(parts[i], At(0, <<>>, e), At(0, <<>>, Append(e, result[i])))
    PROVE  /\ FlattenSeq(parts) \o <<Zero, Zero>> \in Seq(B)
           /\ Brings(FlattenSeq(parts) \o <<Zero, Zero>>, At(0, <<>>, <<>>),
                     State(0, <<>>, "over", result))
<1> DEFINE m == Len(parts)
           read(i) == [k \in 1 .. i |-> result[k]]
           c == [i \in 0 .. m |-> At(0, <<>>, read(i))]
           body == FlattenSeq(parts)
           ends == <<Zero, Zero>>
<1>1. m \in Nat
  BY LenProperties
<1>2. read(0) = <<>> /\ read(m) = result
  <2>1. read(0) = <<>>
    OBVIOUS
  <2>2. result = [k \in 1 .. Len(result) |-> result[k]]
    BY LenProperties
  <2> QED
    BY <2>1, <2>2
<1>3. ASSUME NEW i \in 1 .. m PROVE Append(read(i - 1), result[i]) = read(i)
  BY <1>1, ReadOn
<1> HIDE DEF read
<1>4. ASSUME NEW i \in 1 .. m PROVE Brings(parts[i], c[i - 1], c[i])
  <2>1. i \in 0 .. m /\ i - 1 \in 0 .. m
    BY <1>1
  <2>2. c[i] = At(0, <<>>, read(i)) /\ c[i - 1] = At(0, <<>>, read(i - 1))
    BY <2>1
  <2> HIDE DEF c
  <2>3. Brings(parts[i], At(0, <<>>, read(i - 1)), At(0, <<>>, Append(read(i - 1), result[i])))
    OBVIOUS
  <2> QED
    BY <1>3, <2>2, <2>3
<1>5. c[0] = At(0, <<>>, <<>>) /\ c[m] = At(0, <<>>, result)
  <2>1. 0 \in 0 .. m /\ m \in 0 .. m
    BY <1>1
  <2> QED
    BY <1>2, <2>1
<1> HIDE DEF c
<1>6. Brings(body, c[0], c[m])
  BY <1>4, BringsAll
<1>7. body \in Seq(B)
  BY Flattens
<1>8. ends \in Seq(B)
  OBVIOUS
<1>9. Brings(ends, At(0, <<>>, result), State(0, <<>>, "over", result))
  <2>1. /\ Read(At(0, <<>>, result), Zero) = State(0, <<>>, "over", result)
        /\ Read(State(0, <<>>, "over", result), Zero) = State(0, <<>>, "over", result)
    BY Reads, Zenon
  <2>2. Brings(ends, At(0, <<>>, result), Read(Read(At(0, <<>>, result), Zero), Zero))
    BY BringsTwo
  <2> HIDE DEF ends
  <2> QED
    BY <2>1, <2>2
<1> HIDE DEF body, ends
<1>10. body \o ends \in Seq(B)
  BY <1>7, <1>8, ConcatProperties
<1>11. Brings(body \o ends, At(0, <<>>, <<>>), State(0, <<>>, "over", result))
  BY <1>5, <1>6, <1>7, <1>8, <1>9, BringsBoth
<1> QED
  BY <1>10, <1>11 DEF body, ends

\* Whatever comes after the end of the walk changes nothing.
LEMMA BringsNothing ==
    ASSUME NEW B, NEW p \in Seq(B), NEW e
    PROVE  Brings(p, State(0, <<>>, "over", e), State(0, <<>>, "over", e))
<1> DEFINE n == Len(p)
           c == State(0, <<>>, "over", e)
<1>1. n \in Nat
  BY LenProperties
<1>2. \A b : Read(c, b) = c
  BY Reads, Zenon
<1> HIDE DEF n, c
<1>3. ASSUME NEW w, w[0] = c, \A q \in 1 .. n : w[q] = Read(w[q - 1], p[q])
      PROVE  w[n] = c
  <2> DEFINE T == {q \in 0 .. n : w[q] = c}
  <2>1. 0 \in T
    BY <1>1, <1>3
  <2>2. ASSUME NEW q \in 0 .. n - 1, q \in T PROVE q + 1 \in T
    <3>1. q + 1 \in 1 .. n /\ q + 1 \in 0 .. n /\ (q + 1) - 1 = q
      BY <1>1
    <3>2. w[q + 1] = Read(w[q], p[q + 1]) /\ w[q] = c
      BY <1>3, <2>2, <3>1
    <3> QED
      BY <1>2, <3>1, <3>2
  <2> HIDE DEF T
  <2>3. \A q \in 0 .. n : q \in T
    BY <1>1, <2>1, <2>2, Induct
  <2> QED
    BY <1>1, <2>3 DEF T
<1> QED
  BY <1>3 DEF Brings, n, c

\* Contents where a header is looked for end the walk.
LEMMA BringsOff ==
    ASSUME NEW n \in Nat \ {0}, NEW e
    PROVE  Brings([i \in 1 .. n |-> Data], At(0, <<>>, e), State(0, <<>>, "over", e))
<1> DEFINE p == [i \in 1 .. n |-> Data]
           c == At(0, <<>>, e)
           d == State(0, <<>>, "over", e)
<1>1. Len(p) = n /\ \A q \in 1 .. n : p[q] = Data
  OBVIOUS
<1>2. Read(c, Data) = d /\ \A b : Read(d, b) = d
  BY Reads, Zenon
<1> HIDE DEF p, c, d
<1>3. ASSUME NEW w, w[0] = c, \A q \in 1 .. n : w[q] = Read(w[q - 1], p[q])
      PROVE  w[n] = d
  <2> DEFINE T == {q \in 0 .. n : q # 0 => w[q] = d}
  <2>1. 0 \in T
    OBVIOUS
  <2>2. ASSUME NEW q \in 0 .. n - 1, q \in T PROVE q + 1 \in T
    <3>1. q + 1 \in 1 .. n /\ q + 1 \in 0 .. n /\ (q + 1) - 1 = q
      OBVIOUS
    <3>2. w[q + 1] = Read(w[q], Data)
      BY <1>1, <1>3, <3>1
    <3>3. w[q] \in {c, d}
      BY <1>3, <2>2
    <3> QED
      BY <1>2, <3>1, <3>2, <3>3
  <2> HIDE DEF T
  <2>3. \A q \in 0 .. n : q \in T
    BY <2>1, <2>2, Induct
  <2> QED
    BY <2>3 DEF T
<1> QED
  BY <1>1, <1>3 DEF Brings, p, c, d

\* Members up to one that throws the reader off, and what it has read by then.
LEMMA BringsStopped ==
    ASSUME NEW B, Zero \in B, NEW parts \in Seq(Seq(B)), NEW E, NEW result \in Seq(E),
           Len(result) = Len(parts), NEW stop \in 1 .. Len(parts),
           \A i \in 1 .. stop - 1 : \A e :
              Brings(parts[i], At(0, <<>>, e), At(0, <<>>, Append(e, result[i]))),
           \A e : Brings(parts[stop], At(0, <<>>, e),
                         State(0, <<>>, "over", Append(e, result[stop])))
    PROVE  /\ FlattenSeq(parts) \o <<Zero, Zero>> \in Seq(B)
           /\ Brings(FlattenSeq(parts) \o <<Zero, Zero>>, At(0, <<>>, <<>>),
                     State(0, <<>>, "over", [k \in 1 .. stop |-> result[k]]))
<1> DEFINE m == Len(parts)
           read(i) == [k \in 1 .. i |-> result[k]]
           over == State(0, <<>>, "over", read(stop))
           c == [i \in 0 .. m |-> IF i < stop THEN At(0, <<>>, read(i)) ELSE over]
           body == FlattenSeq(parts)
           ends == <<Zero, Zero>>
<1>1. m \in Nat
  BY LenProperties
<1>2. read(0) = <<>>
  OBVIOUS
<1>3. ASSUME NEW i \in 1 .. m PROVE Append(read(i - 1), result[i]) = read(i)
  BY <1>1, ReadOn
<1>i. body \in Seq(B) /\ ends \in Seq(B)
  BY Flattens
<1> HIDE DEF read
<1>4. ASSUME NEW i \in 1 .. m PROVE Brings(parts[i], c[i - 1], c[i])
  <2>1. i \in 0 .. m /\ i - 1 \in 0 .. m /\ stop \in 1 .. m
    BY <1>1
  <2>2. c[i] = (IF i < stop THEN At(0, <<>>, read(i)) ELSE over)
        /\ c[i - 1] = (IF i - 1 < stop THEN At(0, <<>>, read(i - 1)) ELSE over)
    BY <2>1
  <2> HIDE DEF c, m
  <2>3. CASE i < stop
    <3>1. i \in 1 .. stop - 1 /\ i - 1 < stop
      BY <2>1, <2>3
    <3>2. Brings(parts[i], At(0, <<>>, read(i - 1)), At(0, <<>>, Append(read(i - 1), result[i])))
      BY <3>1
    <3> QED
      BY <1>3, <2>2, <2>3, <3>1, <3>2
  <2>4. CASE i = stop
    <3>1. i - 1 < stop /\ ~(i < stop)
      BY <2>1, <2>4
    <3>2. Brings(parts[i], At(0, <<>>, read(i - 1)),
                 State(0, <<>>, "over", Append(read(i - 1), result[i])))
      BY <2>4
    <3> QED
      BY <1>3, <2>2, <2>4, <3>1, <3>2 DEF over
  <2>5. CASE i > stop
    <3>1. ~(i - 1 < stop) /\ ~(i < stop)
      BY <2>1, <2>5
    <3>2. parts[i] \in Seq(B)
      BY ElementOfSeq DEF m
    <3>3. Brings(parts[i], over, over)
      BY <3>2, BringsNothing DEF over
    <3> QED
      BY <2>2, <3>1, <3>3
  <2> QED
    BY <2>1, <2>3, <2>4, <2>5
<1>5. c[0] = At(0, <<>>, <<>>) /\ c[m] = over
  <2>1. 0 \in 0 .. m /\ m \in 0 .. m /\ 0 < stop /\ ~(m < stop)
    BY <1>1
  <2> QED
    BY <1>2, <2>1
<1> HIDE DEF c
<1>6. Brings(body, c[0], c[m])
  BY <1>4, BringsAll
<1>9. Brings(ends, over, over)
  BY <1>i, BringsNothing DEF over
<1> HIDE DEF body, ends
<1>10. body \o ends \in Seq(B)
  BY <1>i, ConcatProperties
<1>11. Brings(body \o ends, At(0, <<>>, <<>>), over)
  BY <1>5, <1>6, <1>i, <1>9, BringsBoth
<1> QED
  BY <1>10, <1>11 DEF body, ends, over, read

\* A header with a name, and the contents.
LEMMA BringsMember ==
    ASSUME NEW B, Data \in B, NEW start \in Seq(B), NEW size \in Nat, NEW name, NEW e,
           Brings(start, At(0, <<>>, e),
                  At(Blocks(size), <<>>, Append(e, [name |-> name, size |-> size])))
    PROVE  /\ start \o Contents(size) \in Seq(B)
           /\ Brings(start \o Contents(size), At(0, <<>>, e),
                     At(0, <<>>, Append(e, [name |-> name, size |-> size])))
<1> DEFINE n == Blocks(size)
           over == [i \in 1 .. n |-> Data]
           after == Append(e, [name |-> name, size |-> size])
<1>1. n \in Nat
  BY BlockCount
<1>2. over \in Seq(B) /\ Contents(size) = over
  BY <1>1 DEF Contents
<1>3. Brings(over, At(n, <<>>, after), At(0, <<>>, after))
  BY <1>1, BringsOver
<1> HIDE DEF n, over, after
<1>4. start \o over \in Seq(B)
  BY <1>2, ConcatProperties
<1>5. Brings(start \o over, At(0, <<>>, e), At(0, <<>>, after))
  <2>1. Brings(start, At(0, <<>>, e), At(n, <<>>, after))
    BY DEF n, after
  <2> QED
    BY <1>2, <1>3, <2>1, BringsBoth
<1> QED
  BY <1>2, <1>4, <1>5 DEF after

\* Where the reader starts.
LEMMA Starting == AtStart = At(0, <<>>, <<>>)
BY DEF AtStart, At, State

\* The limit of a PAX header is a number.
LEMMA PaxNumber == PaxMax \in Int
<1>1. SizeDigits \in Nat \ {0}
  BY FormatAssumption
<1>2. SizeDigits - 1 \in Nat
  BY <1>1
<1> QED
  BY <1>2 DEF PaxMax

\* What the reader makes of a member of another program's tar.
Shown(m, how) ==
    [name |-> m.name, size |-> IF how = "pax" /\ m.size >= PaxMax THEN 0 ELSE m.size]
Misread(m, how) == how = "pax" /\ m.size >= PaxMax /\ m.size # 0

\* What stands before a header makes its name known, if that is long.
LEMMA BringsBefore ==
    ASSUME NEW m, NEW how, NEW e,
           NEW B, Data \in B, PaxRecord(m) \in B, Header(m.name, 1, "L") \in B
    PROVE  /\ Before(m, how) \in Seq(B)
           /\ Brings(Before(m, how), At(0, <<>>, e), At(0, IF m.long THEN m.name ELSE <<>>, e))
<1> DEFINE c == At(0, <<>>, e)
           name == m.name
<1>1. \A l : Read(At(1, l, e), Data) = At(0, l, e)
  <2> TAKE l
  <2>1. \A k \in Nat : \A b : Read(At(k + 1, l, e), b) = At(k, l, e)
    BY Reads, Zenon
  <2> QED
    BY <2>1, 0 \in Nat, 0 + 1 = 1
<1>2. CASE how = "pax"
  <2> DEFINE said == {"mtime"} \cup (IF m.long THEN {"path"} ELSE {})
                              \cup (IF m.size >= PaxMax THEN {"size"} ELSE {})
             all == [mtime |-> 0, path |-> m.name, size |-> m.size]
             says == [k \in said |-> all[k]]
             a == Header(says, 1, "x")
             l == IF "path" \in DOMAIN says THEN says.path ELSE <<>>
  <2>1. PaxRecord(m) = a
    BY Zenon DEF PaxRecord
  <2>2. l = IF m.long THEN m.name ELSE <<>>
    <3>1. CASE m.long
      <4>1. "path" \in said /\ all["path"] = m.name
        BY <3>1
      <4> QED
        BY <3>1, <4>1
    <3>2. CASE ~m.long
      <4>1. "path" \notin said
        BY <3>2
      <4> QED
        BY <3>2, <4>1
    <3> QED
      BY <3>1, <3>2
  <2> HIDE DEF says
  <2>3. Read(c, a) = At(1, l, e)
    <3>1. Read(c, a) = At(Blocks(1), l, e)
      BY ReadsPax
    <3> QED
      BY <3>1, BlockCount
  <2>4. Before(m, how) = <<a, Data>>
    BY <1>2, <2>1 DEF Before
  <2> HIDE DEF a, c, l
  <2>5. Brings(<<a, Data>>, c, Read(Read(c, a), Data))
    BY BringsTwo
  <2>6. <<a, Data>> \in Seq(B)
    BY <2>1
  <2>7. Read(Read(c, a), Data) = At(0, l, e)
    BY <1>1, <2>3
  <2> QED
    BY <2>2, <2>4, <2>5, <2>6, <2>7 DEF c
<1>3. CASE how # "pax" /\ m.long
  <2> DEFINE a == Header(name, 1, "L")
  <2>3. Read(c, a) = At(1, name, e)
    <3>1. Read(c, a) = At(Blocks(1), name, e)
      BY ReadsLong
    <3> QED
      BY <3>1, BlockCount
  <2>4. Before(m, how) = <<a, Data>>
    BY <1>3 DEF Before
  <2> HIDE DEF a, c
  <2>5. Brings(<<a, Data>>, c, Read(Read(c, a), Data))
    BY BringsTwo
  <2>6. <<a, Data>> \in Seq(B)
    BY DEF a
  <2>7. Read(Read(c, a), Data) = At(0, name, e)
    BY <1>1, <2>3
  <2> QED
    BY <1>3, <2>4, <2>5, <2>6, <2>7 DEF c
<1>4. CASE how # "pax" /\ ~m.long
  <2>1. Before(m, how) = <<>>
    BY <1>4 DEF Before
  <2>2. Len(<<>>) = 0
    OBVIOUS
  <2>3. Brings(<<>>, c, c)
    BY <2>2 DEF Brings
  <2>4. <<>> \in Seq(B)
    OBVIOUS
  <2> QED
    BY <1>4, <2>1, <2>3, <2>4
<1> QED
  BY <1>2, <1>3, <1>4

\* A member is shown as it is, or throws the reader off.
LEMMA BringsForeign ==
    ASSUME NEW m, m.name # <<>>, m.size \in Nat, m.long \in BOOLEAN, NEW how, NEW e,
           NEW B, Data \in B, PaxRecord(m) \in B, Header(m.name, 1, "L") \in B,
           ForeignHeader(m, how) \in B,
           NEW part, part = Before(m, how) \o <<ForeignHeader(m, how)>> \o Contents(m.size)
    PROVE  /\ part \in Seq(B)
           /\ ~Misread(m, how) => Brings(part, At(0, <<>>, e), At(0, <<>>, Append(e, Shown(m, how))))
           /\ Misread(m, how) => Brings(part, At(0, <<>>, e),
                                       State(0, <<>>, "over", Append(e, Shown(m, how))))
<1> DEFINE size == Shown(m, how).size
           after == Append(e, Shown(m, how))
           before == Before(m, how)
           head == <<ForeignHeader(m, how)>>
           start == before \o head
           l == IF m.long THEN m.name ELSE <<>>
           n == Blocks(m.size)
           over == [i \in 1 .. n |-> Data]
<1>1. before \in Seq(B) /\ Brings(before, At(0, <<>>, e), At(0, l, e))
  <2>1. /\ Before(m, how) \in Seq(B)
        /\ Brings(Before(m, how), At(0, <<>>, e), At(0, IF m.long THEN m.name ELSE <<>>, e))
    BY BringsBefore
  <2> QED
    BY <2>1
<1>2. Shown(m, how) = [name |-> m.name, size |-> size]
  BY DEF Shown
<1>3. Read(At(0, l, e), ForeignHeader(m, how)) = At(Blocks(size), <<>>, after)
  <2> DEFINE name == IF m.long THEN <<"cut", m.name>> ELSE m.name
  <2>1. ForeignHeader(m, how) = Header(name, size, "file")
    BY DEF ForeignHeader, Shown
  <2>2. m.name = IF l = <<>> THEN name ELSE l
    OBVIOUS
  <2> HIDE DEF name, l, size
  <2>3. Read(At(0, l, e), Header(name, size, "file"))
           = At(Blocks(size), <<>>,
                Append(e, [name |-> IF l = <<>> THEN name ELSE l, size |-> size]))
    BY ReadsFile
  <2> QED
    BY <1>2, <2>1, <2>2, <2>3
<1>4. head \in Seq(B) /\ Brings(head, At(0, l, e), At(Blocks(size), <<>>, after))
  <2> DEFINE h == ForeignHeader(m, how)
  <2>1. h \in B
    OBVIOUS
  <2> HIDE DEF h, after, l, size
  <2>2. Brings(<<h>>, At(0, l, e), Read(At(0, l, e), h))
    BY BringsOne
  <2>3. <<h>> \in Seq(B)
    BY <2>1
  <2> QED
    BY <1>3, <2>2, <2>3 DEF h
<1>5. start \in Seq(B) /\ Brings(start, At(0, <<>>, e), At(Blocks(size), <<>>, after))
  <2> HIDE DEF before, head, after, l, size
  <2> QED
    BY <1>1, <1>4, ConcatProperties, BringsBoth
<1>6. n \in Nat /\ over \in Seq(B) /\ Contents(m.size) = over
  <2>1. n \in Nat
    BY BlockCount
  <2> QED
    BY <2>1 DEF Contents
<1>7. part = start \o over
  BY <1>6
<1>8. part \in Seq(B)
  <2> HIDE DEF start, over
  <2> QED
    BY <1>5, <1>6, <1>7, ConcatProperties
<1>9. ASSUME ~Misread(m, how) PROVE Brings(part, At(0, <<>>, e), At(0, <<>>, after))
  <2>1. size = m.size
    BY <1>9 DEF Misread, Shown
  <2>2. Brings(over, At(n, <<>>, after), At(0, <<>>, after))
    BY <1>6, BringsOver
  <2>3. Brings(start, At(0, <<>>, e), At(n, <<>>, after))
    BY <1>5, <2>1
  <2> HIDE DEF start, over, after, n
  <2> QED
    BY <1>5, <1>6, <1>7, <2>2, <2>3, BringsBoth
<1>10. ASSUME Misread(m, how) PROVE Brings(part, At(0, <<>>, e), State(0, <<>>, "over", after))
  <2>1. size = 0 /\ Blocks(size) = 0
    BY <1>10, BlockCount DEF Misread, Shown
  <2>2. n \in Nat \ {0}
    BY <1>10, <1>6, BlockCount DEF Misread
  <2>3. Brings(over, At(0, <<>>, after), State(0, <<>>, "over", after))
    BY <2>2, BringsOff
  <2>4. Brings(start, At(0, <<>>, e), At(0, <<>>, after))
    BY <1>5, <2>1
  <2> HIDE DEF start, over, after, n
  <2> QED
    BY <1>5, <1>6, <1>7, <2>3, <2>4, BringsBoth
<1> QED
  BY <1>8, <1>9, <1>10

\* What a global record says is passed over.
LEMMA BringsGlobal ==
    ASSUME NEW B, Data \in B, PaxGlobal \in B
    PROVE  /\ <<PaxGlobal, Data>> \in Seq(B)
           /\ Brings(<<PaxGlobal, Data>>, At(0, <<>>, <<>>), At(0, <<>>, <<>>))
<1> DEFINE g == PaxGlobal
           o == At(0, <<>>, <<>>)
           says == [path |-> <<"pax">>]
<1>1. Read(o, g) = At(1, <<>>, <<>>)
  <2> HIDE DEF says
  <2>1. Read(o, Header(says, 1, "g")) = At(Blocks(1), <<>>, <<>>)
    BY ReadsGlobal
  <2>2. g = Header(says, 1, "g")
    BY DEF PaxGlobal, says
  <2> HIDE DEF g, o
  <2> QED
    BY <2>1, <2>2, BlockCount
<1>2. Read(At(1, <<>>, <<>>), Data) = o
  <2>1. \A k \in Nat : \A b : Read(At(k + 1, <<>>, <<>>), b) = At(k, <<>>, <<>>)
    BY Reads, Zenon
  <2> QED
    BY <2>1, 0 \in Nat, 0 + 1 = 1
<1>3. <<g, Data>> \in Seq(B)
  OBVIOUS
<1> HIDE DEF g, o
<1>4. Brings(<<g, Data>>, o, Read(Read(o, g), Data))
  BY BringsTwo
<1> QED
  BY <1>1, <1>2, <1>3, <1>4 DEF g, o

\* What another program has written is read back up to the first member whose
\* size a PAX header has no room for; that one is shown as empty.
LEMMA ForeignReads ==
    ASSUME NEW N, <<>> \notin N, NEW members \in Seq([name : N, size : Nat, long : BOOLEAN]),
           NEW how
    PROVE  \E n \in 0 .. Len(members) :
              /\ ListTar(ForeignTar(members, how)) = [i \in 1 .. n |-> Shown(members[i], how)]
              /\ (\A i \in DOMAIN members : ~Misread(members[i], how)) => n = Len(members)
<1> DEFINE m == Len(members)
           R == [name : N, size : Nat, long : BOOLEAN]
           E == [name : N, size : Nat]
           B == {Zero, Data, PaxGlobal}
                \cup {PaxRecord(mb) : mb \in R}
                \cup {Header(mb.name, 1, "L") : mb \in R}
                \cup {ForeignHeader(mb, how) : mb \in R}
           entry(i) == Shown(members[i], how)
           result == [i \in 1 .. m |-> entry(i)]
           Part(mb) == Before(mb, how) \o <<ForeignHeader(mb, how)>> \o Contents(mb.size)
           parts == [i \in DOMAIN members |-> Part(members[i])]
           global == IF how = "pax" THEN <<PaxGlobal, Data>> ELSE <<>>
           bad == {i \in 1 .. m : Misread(members[i], how)}
<1>1. m \in Nat /\ DOMAIN members = 1 .. m /\ \A i \in 1 .. m : members[i] \in R
  BY ElementOfSeq, LenProperties
<1>2. result \in Seq(E) /\ Len(result) = m /\ \A i \in 1 .. m : result[i] = entry(i)
  <2>1. \A mb \in R : Shown(mb, how) \in E
    BY DEF Shown
  <2>2. \A i \in 1 .. m : entry(i) \in E
    BY <1>1, <2>1
  <2> HIDE DEF entry, E, m
  <2> QED
    BY <1>1, <2>2
<1>3. /\ Zero \in B /\ Data \in B /\ PaxGlobal \in B
      /\ \A mb \in R : PaxRecord(mb) \in B /\ Header(mb.name, 1, "L") \in B
                       /\ ForeignHeader(mb, how) \in B
      /\ \A b \in B : b.is = "header" => b.size \in Nat
  <2>1. Zero.is # "header" /\ Data.is # "header"
    BY DEF Zero, Data
  <2>2. PaxGlobal.size = 1
    BY DEF PaxGlobal, Header
  <2>3. \A mb \in R : PaxRecord(mb).size = 1 /\ Header(mb.name, 1, "L").size = 1
    BY DEF PaxRecord, Header
  <2>4. \A mb \in R : ForeignHeader(mb, how).size \in Nat
    BY DEF ForeignHeader, Header
  <2> HIDE DEF R
  <2>5. ASSUME NEW b \in B, b.is = "header" PROVE b.size \in Nat
    <3>1. CASE b \in {Zero, Data}
      BY <2>1, <2>5, <3>1
    <3>2. CASE b = PaxGlobal
      BY <2>2, <3>2
    <3>3. CASE \E mb \in R : b = PaxRecord(mb) \/ b = Header(mb.name, 1, "L")
      BY <2>3, <3>3
    <3>4. CASE \E mb \in R : b = ForeignHeader(mb, how)
      BY <2>4, <3>4
    <3> QED
      BY <3>1, <3>2, <3>3, <3>4
  <2>6. /\ Zero \in B /\ Data \in B /\ PaxGlobal \in B
        /\ \A mb \in R : PaxRecord(mb) \in B /\ Header(mb.name, 1, "L") \in B
                         /\ ForeignHeader(mb, how) \in B
    OBVIOUS
  <2> HIDE DEF B
  <2> QED
    BY <2>5, <2>6
<1> HIDE DEF B
<1>4. ASSUME NEW i \in 1 .. m, NEW e
      PROVE  LET p == Part(members[i]) IN
             /\ p \in Seq(B)
             /\ ~Misread(members[i], how) => Brings(p, At(0, <<>>, e), At(0, <<>>, Append(e, entry(i))))
             /\ Misread(members[i], how) =>
                   Brings(p, At(0, <<>>, e), State(0, <<>>, "over", Append(e, entry(i))))
  <2> DEFINE mb == members[i]
             p == Part(mb)
  <2>1. mb \in R
    BY <1>1
  <2>2. mb.name # <<>> /\ mb.size \in Nat /\ mb.long \in BOOLEAN
    BY <2>1
  <2>3. Data \in B /\ PaxRecord(mb) \in B /\ Header(mb.name, 1, "L") \in B /\ ForeignHeader(mb, how) \in B
    BY <1>3, <2>1
  <2>4. p = Before(mb, how) \o <<ForeignHeader(mb, how)>> \o Contents(mb.size)
    OBVIOUS
  <2> HIDE DEF mb, p
  <2>5. /\ p \in Seq(B)
        /\ ~Misread(mb, how) => Brings(p, At(0, <<>>, e), At(0, <<>>, Append(e, Shown(mb, how))))
        /\ Misread(mb, how) => Brings(p, At(0, <<>>, e),
                                    State(0, <<>>, "over", Append(e, Shown(mb, how))))
    BY <2>2, <2>3, <2>4, BringsForeign
  <2> QED
    BY <2>5 DEF mb, p
<1> HIDE DEF Part
<1>5. parts \in Seq(Seq(B)) /\ Len(parts) = m /\ \A i \in 1 .. m : parts[i] = Part(members[i])
  <2> DEFINE S == Seq(B)
  <2>1. \A i \in 1 .. m : Part(members[i]) \in S
    BY <1>4
  <2> HIDE DEF m, S
  <2>2. parts \in Seq(S) /\ Len(parts) = m /\ \A i \in 1 .. m : parts[i] = Part(members[i])
    BY <1>1, <2>1
  <2> QED
    BY <2>2 DEF S
<1>6. ForeignTar(members, how) = global \o FlattenSeq(parts) \o <<Zero, Zero>>
  BY Zenon DEF ForeignTar, Part
<1> DEFINE rest == FlattenSeq(parts) \o <<Zero, Zero>>
           done(n) == State(0, <<>>, "over", [i \in 1 .. n |-> result[i]])
<1> HIDE DEF parts, entry, result
<1>7. \E n \in 0 .. m :
         /\ rest \in Seq(B) /\ Brings(rest, At(0, <<>>, <<>>), done(n))
         /\ (\A i \in 1 .. m : ~Misread(members[i], how)) => n = m
  <2>1. CASE bad = {}
    <3>1. \A i \in 1 .. Len(parts) : \A e :
             Brings(parts[i], At(0, <<>>, e), At(0, <<>>, Append(e, result[i])))
      BY <1>2, <1>4, <1>5, <2>1
    <3>2. rest \in Seq(B) /\ Brings(rest, At(0, <<>>, <<>>), State(0, <<>>, "over", result))
      BY <1>2, <1>3, <1>5, <3>1, BringsArchive
    <3>3. result = [i \in 1 .. m |-> result[i]]
      BY <1>2, LenProperties
    <3>4. m \in 0 .. m
      BY <1>1
    <3> QED
      BY <3>2, <3>3, <3>4
  <2>2. CASE bad # {}
    <3>1. PICK stop \in bad : \A k \in bad : stop <= k
      <4>1. bad \in SUBSET Nat
        BY <1>1
      <4> HIDE DEF bad
      <4> QED
        BY <2>2, <4>1, Least
    <3>2. stop \in 1 .. m /\ Misread(members[stop], how) /\ stop \in 0 .. m
      BY <1>1
    <3>3. ASSUME NEW i \in 1 .. stop - 1 PROVE i \in 1 .. m /\ ~Misread(members[i], how)
      <4>1. i \in 1 .. m /\ ~(stop <= i)
        BY <1>1, <3>2
      <4> QED
        BY <3>1, <4>1
    <3> HIDE DEF bad
    <3>4. \A i \in 1 .. stop - 1 : \A e :
             Brings(parts[i], At(0, <<>>, e), At(0, <<>>, Append(e, result[i])))
      BY <1>2, <1>4, <1>5, <3>3
    <3>5. \A e : Brings(parts[stop], At(0, <<>>, e), State(0, <<>>, "over", Append(e, result[stop])))
      BY <1>2, <1>4, <1>5, <3>2
    <3>6. rest \in Seq(B) /\ Brings(rest, At(0, <<>>, <<>>), done(stop))
      BY <1>2, <1>3, <1>5, <3>2, <3>4, <3>5, BringsStopped
    <3> QED
      BY <3>2, <3>6
  <2> QED
    BY <2>1, <2>2
<1>a. PICK n \in 0 .. m :
         /\ rest \in Seq(B) /\ Brings(rest, At(0, <<>>, <<>>), done(n))
         /\ (\A i \in 1 .. m : ~Misread(members[i], how)) => n = m
  BY <1>7
<1>8. global \in Seq(B) /\ Brings(global, At(0, <<>>, <<>>), At(0, <<>>, <<>>))
  <2>1. CASE how = "pax"
    BY <1>3, <2>1, BringsGlobal
  <2>2. CASE how # "pax"
    <3>1. Len(<<>>) = 0
      OBVIOUS
    <3>2. \A c : Brings(<<>>, c, c)
      BY <3>1 DEF Brings
    <3>3. <<>> \in Seq(B)
      OBVIOUS
    <3> QED
      BY <2>2, <3>2, <3>3
  <2> QED
    BY <2>1, <2>2
<1>9. global \o rest \in Seq(B) /\ Brings(global \o rest, AtStart, done(n))
  <2> HIDE DEF global, rest, done
  <2> QED
    BY <1>a, <1>8, ConcatProperties, BringsBoth, Starting
<1>10. ForeignTar(members, how) = global \o rest
  <2>1. FlattenSeq(parts) \in Seq(B)
    BY <1>5, Flattens
  <2>2. <<Zero, Zero>> \in Seq(B)
    BY <1>3
  <2> DEFINE f == FlattenSeq(parts)
             z == <<Zero, Zero>>
  <2> HIDE DEF f, z, global
  <2>3. (global \o f) \o z = global \o (f \o z)
    BY <1>8, <2>1, <2>2, ConcatAssociative DEF f, z
  <2> QED
    BY <1>6, <2>3 DEF f, z
<1>11. ListTar(global \o rest) = done(n).entries
  <2> HIDE DEF global, rest, done
  <2> QED
    BY <1>3, <1>9, TarWalk
<1>12. done(n).entries = [i \in 1 .. n |-> result[i]]
  BY Fields
<1>13. [i \in 1 .. n |-> result[i]] = [i \in 1 .. n |-> Shown(members[i], how)]
  <2>1. \A i \in 1 .. n : i \in 1 .. m
    BY <1>1
  <2>2. \A i \in 1 .. n : result[i] = Shown(members[i], how)
    BY <1>2, <2>1 DEF entry
  <2> QED
    BY <2>2
<1> HIDE DEF done
<1>14. ListTar(ForeignTar(members, how)) = [i \in 1 .. n |-> Shown(members[i], how)]
  BY <1>10, <1>11, <1>12, <1>13
<1> QED
  BY <1>1, <1>a, <1>14

\* A size that fits is written as it is.
LEMMA SizeFits ==
    ASSUME NEW size \in Nat, size < 8^SizeDigits
    PROVE  SizeField(size) = size
<1> DEFINE Fits(k) == size \div 8^k < 8^SizeDigits
           First(k) == Fits(k) /\ \A i \in 0 .. k - 1 : ~Fits(i)
           k0 == CHOOSE k \in 0 .. 10 : First(k)
<1>1. 8^0 = 1 /\ size \div 1 = size
  BY SMT
<1>2. Fits(0)
  BY <1>1
<1> HIDE DEF Fits
<1>3. First(0)
  BY <1>2
<1>4. k0 \in 0 .. 10 /\ First(k0)
  BY <1>3
<1>5. k0 = 0
  <2>1. SUFFICES ASSUME k0 # 0 PROVE FALSE
    OBVIOUS
  <2>2. 0 \in 0 .. k0 - 1
    BY <1>4, <2>1
  <2> HIDE DEF k0
  <2> QED
    BY <1>2, <1>4, <2>2
<1>6. SizeField(size) = size \div 8^k0
  BY Zenon DEF SizeField, k0, First, Fits
<1> HIDE DEF k0
<1> QED
  BY <1>1, <1>5, <1>6

\* What tarStream sends when every source delivers what was promised is read
\* back as it was meant.
LEMMA StreamReads ==
    ASSUME NEW N, NEW members \in Seq([name : N, size : Nat]),
           \A i \in DOMAIN members : members[i].size < 8^SizeDigits,
           NEW delivered, Throwing(members, delivered) = {}
    PROVE  ListTar(TarStream(members, delivered)) = members
<1> DEFINE m == Len(members)
           E == [name : N, size : Nat]
           B == {Zero, Data} \cup {Header(n, s, "file") : n \in N, s \in Nat}
           part(i) == IF members[i].name \in LongNames THEN <<>>
                      ELSE <<TarHeader(members[i])>> \o Contents(delivered[i])
           parts == [i \in 1 .. m |-> part(i)]
<1>t. \A i \in DOMAIN members : members[i].name \notin LongNames /\ delivered[i] = members[i].size
  BY DEF Throwing
<1>1. m \in Nat /\ DOMAIN members = 1 .. m
      /\ \A i \in 1 .. m : /\ members[i].name \in N /\ members[i].size \in Nat
                           /\ members[i] = [name |-> members[i].name, size |-> members[i].size]
  <2>1. \A i \in 1 .. m : members[i] \in [name : N, size : Nat]
    BY ElementOfSeq
  <2> QED
    BY <2>1, LenProperties
<1>2. /\ Zero \in B /\ Data \in B
      /\ \A n \in N, s \in Nat : Header(n, s, "file") \in B
      /\ \A b \in B : b.is = "header" => b.size \in Nat
  <2>1. ASSUME NEW b \in B, b.is = "header" PROVE b.size \in Nat
    <3>1. b # Zero /\ b # Data
      BY <2>1 DEF Zero, Data
    <3> QED
      BY <3>1 DEF Header
  <2> QED
    BY <2>1
<1> HIDE DEF B
<1>3. ASSUME NEW i \in 1 .. m, NEW e
      PROVE  /\ part(i) \in Seq(B)
             /\ Brings(part(i), At(0, <<>>, e), At(0, <<>>, Append(e, members[i])))
  <2> DEFINE name == members[i].name
             size == members[i].size
             z == Header(name, size, "file")
             after == Append(e, [name |-> name, size |-> size])
  <2>1. name \in N /\ size \in Nat /\ size < 8^SizeDigits /\ delivered[i] = size
        /\ members[i] = [name |-> name, size |-> size] /\ name \notin LongNames
    BY <1>1, <1>t
  <2>2. TarHeader(members[i]) = z /\ z \in B
    BY <1>2, <2>1, SizeFits DEF TarHeader
  <2> HIDE DEF name, size
  <2>3. Read(At(0, <<>>, e), z) = At(Blocks(size), <<>>, after)
    <3>1. Read(At(0, <<>>, e), z)
             = At(Blocks(size), <<>>,
                  Append(e, [name |-> IF <<>> = <<>> THEN name ELSE <<>>, size |-> size]))
      BY ReadsFile
    <3> QED
      BY <3>1
  <2> HIDE DEF z
  <2>4. <<z>> \in Seq(B) /\ Brings(<<z>>, At(0, <<>>, e), At(Blocks(size), <<>>, after))
    <3>1. Brings(<<z>>, At(0, <<>>, e), Read(At(0, <<>>, e), z))
      BY BringsOne
    <3> QED
      BY <2>2, <2>3, <3>1
  <2>5. /\ <<z>> \o Contents(size) \in Seq(B)
        /\ Brings(<<z>> \o Contents(size), At(0, <<>>, e), At(0, <<>>, after))
    BY <1>2, <2>1, <2>4, BringsMember
  <2>6. part(i) = <<z>> \o Contents(size)
    BY <2>1, <2>2
  <2> HIDE DEF part
  <2> QED
    BY <2>1, <2>5, <2>6
<1>4. parts \in Seq(Seq(B)) /\ Len(parts) = m /\ \A i \in 1 .. m : parts[i] = part(i)
  <2>1. \A i \in 1 .. m : part(i) \in Seq(B)
    BY <1>3
  <2> DEFINE S == Seq(B)
  <2> HIDE DEF part, m, S
  <2>2. \A i \in 1 .. m : part(i) \in S
    BY <2>1 DEF S
  <2>3. parts \in Seq(S) /\ Len(parts) = m /\ \A i \in 1 .. m : parts[i] = part(i)
    BY <1>1, <2>2
  <2> QED
    BY <2>3 DEF S
<1>6. TarStream(members, delivered) = FlattenSeq(parts) \o <<Zero, Zero>>
  BY Zenon DEF TarStream
<1> DEFINE rest == FlattenSeq(parts) \o <<Zero, Zero>>
           done == State(0, <<>>, "over", members)
<1> HIDE DEF parts, part
<1>7. rest \in Seq(B) /\ Brings(rest, At(0, <<>>, <<>>), done)
  <2>1. \A i \in 1 .. Len(parts) : \A e :
           Brings(parts[i], At(0, <<>>, e), At(0, <<>>, Append(e, members[i])))
    BY <1>3, <1>4
  <2> QED
    BY <1>2, <1>4, <2>1, BringsArchive
<1>8. ListTar(rest) = done.entries
  <2> HIDE DEF rest, done
  <2> QED
    BY <1>2, <1>7, TarWalk, Starting
<1>9. done.entries = members
  BY Fields
<1> QED
  BY <1>6, <1>8, <1>9

-----------------------------------------------------------------------------
(* Zip *)

\* What moved to the extra field is found there, and nothing else is looked for.
LEMMA ZipReads ==
    ASSUME NEW name, NEW size \in Nat, NEW compressed \in Nat, NEW offset \in Nat
    PROVE  LET e == [name |-> name, size |-> size, compressed |-> compressed, offset |-> offset]
           IN  ReadRecord(ZipRecord(e)) = e
<1> DEFINE e == [name |-> name, size |-> size, compressed |-> compressed, offset |-> offset]
           fields == <<e.size, e.compressed, e.offset>>
           over == {i \in 1 .. 3 : fields[i] >= ZipMax}
           time == [tag |-> "time", values |-> <<0>>]
           moved64 == [tag |-> "zip64", values |-> Picked(fields, over)]
           r == ZipRecord(e)
           kept == [i \in 1 .. 3 |-> IF i \in over THEN ZipMax ELSE fields[i]]
           extra == IF over = {} THEN <<time>> ELSE <<time, moved64>>
           zip64 == {i \in DOMAIN r.extra : r.extra[i].tag = "zip64"}
           moved == {i \in DOMAIN r.fields : r.fields[i] = ZipMax}
           Value(i) == IF i \in moved /\ zip64 # {}
                       THEN r.extra[Min(zip64)].values[Rank(moved, i)]
                       ELSE r.fields[i]
<1>1. e.size = size /\ e.compressed = compressed /\ e.offset = offset /\ e.name = name
  OBVIOUS
<1>2. fields[1] = size /\ fields[2] = compressed /\ fields[3] = offset
      /\ \A i \in 1 .. 3 : fields[i] \in Nat
  BY <1>1
<1>3. r.name = name /\ r.fields = kept /\ r.extra = extra
  <2>1. r = [name |-> e.name, fields |-> kept, extra |-> extra]
    BY Zenon DEF ZipRecord
  <2> HIDE DEF r, kept, extra, e
  <2> QED
    BY <1>1, <2>1
<1>4. ReadRecord(r) = [name |-> r.name, size |-> Value(1), compressed |-> Value(2),
                       offset |-> Value(3)]
  BY Zenon DEF ReadRecord
<1> HIDE DEF e, r, fields
<1>5. ZipMax \in Nat \ {0}
  BY FormatAssumption
<1>6. moved = over
  <2>1. DOMAIN kept = 1 .. 3
    OBVIOUS
  <2>2. \A i \in 1 .. 3 : kept[i] = ZipMax <=> i \in over
    BY <1>2, <1>5
  <2> HIDE DEF kept
  <2> QED
    BY <1>3, <2>1, <2>2
<1>7. PICK p : Picks(p, fields, over)
  <2>1. over \in SUBSET (1 .. 3) /\ 3 \in Nat
    OBVIOUS
  <2> HIDE DEF over, fields
  <2> QED
    BY <2>1, Picking, Zenon
<1> HIDE DEF moved
<1>8. ASSUME over # {}
      PROVE  zip64 # {} /\ r.extra[Min(zip64)].values = Picked(fields, over)
  <2>1. r.extra = <<time, moved64>>
    BY <1>3, <1>8
  <2>2. time.tag # "zip64" /\ moved64.tag = "zip64" /\ moved64.values = Picked(fields, over)
    OBVIOUS
  <2> HIDE DEF time, moved64
  <2>3. zip64 = {2}
    BY <2>1, <2>2
  <2> HIDE DEF zip64
  <2>4. Min({2}) = 2
    <3>1. \E x \in {2} : \A y \in {2} : x =< y
      OBVIOUS
    <3> QED
      BY <3>1 DEF Min
  <2> QED
    BY <2>1, <2>2, <2>3, <2>4
<1>9. ASSUME NEW i \in 1 .. 3 PROVE Value(i) = fields[i]
  <2>1. CASE i \in over
    <3> DEFINE k == Rank(over, i)
    <3>1. k \in 1 .. Cardinality(over) /\ p[k] = i
          /\ Picked(fields, over) = [j \in 1 .. Cardinality(over) |-> fields[p[j]]]
      <4> HIDE DEF over
      <4> QED
        BY <1>7, <2>1 DEF Picks
    <3>2. zip64 # {} /\ r.extra[Min(zip64)].values = Picked(fields, over)
      BY <1>8, <2>1
    <3>3. Value(i) = Picked(fields, over)[k]
      <4> HIDE DEF over, zip64
      <4> QED
        BY <1>6, <2>1, <3>2, Zenon
    <3> HIDE DEF k, over
    <3> QED
      BY <3>1, <3>3
  <2>2. CASE i \notin over
    <3>1. Value(i) = kept[i]
      <4> HIDE DEF over, zip64, kept
      <4> QED
        BY <1>3, <1>6, <2>2
    <3> QED
      BY <2>2, <3>1
  <2> QED
    BY <2>1, <2>2
<1> HIDE DEF Value
<1>10. Value(1) = size /\ Value(2) = compressed /\ Value(3) = offset
  BY <1>2, <1>9
<1> QED
  BY <1>3, <1>4, <1>10 DEF r, e

-----------------------------------------------------------------------------
(* Names *)

\* The names that files travel under.
Stems == DOMAIN Clean
Exts == {f.ext : f \in Files}
Flats == {<<s, t, x>> : s \in Stems, t \in Seq(Nat), x \in Exts}

\* A safe name, and one with a number to break a tie.
LEMMA SafeName ==
    ASSUME NEW f \in Files
    PROVE  /\ Sanitize(Base(f)) = <<Clean[f.stem], <<>>, f.ext>>
           /\ \A n \in Nat : Numbered(Sanitize(Base(f)), n) = <<Clean[f.stem], <<n>>, f.ext>>
<1>1. Sanitize(Base(f)) = <<Clean[f.stem], <<>>, f.ext>>
  BY DEF Sanitize, Base
<1>2. ASSUME NEW n \in Nat
      PROVE  Numbered(<<Clean[f.stem], <<>>, f.ext>>, n) = <<Clean[f.stem], <<n>>, f.ext>>
  <2> DEFINE a == <<>>
             b == Append(a, n)
  <2>1. b = <<n>>
    OBVIOUS
  <2>2. Numbered(<<Clean[f.stem], a, f.ext>>, n) = <<Clean[f.stem], b, f.ext>>
    BY DEF Numbered
  <2> QED
    BY <2>1, <2>2
<1> QED
  BY <1>1, <1>2

\* The name that a file gets is not one of those given before.
LEMMA FlatFree ==
    ASSUME NEW f \in Files, NEW used, IsFiniteSet(used)
    PROVE  Flat(Base(f), used) \in Flats /\ Flat(Base(f), used) \notin used
<1> DEFINE safe == Sanitize(Base(f))
           num(n) == Numbered(safe, n)
           card == Cardinality(used)
           Free(n) == num(n) \notin used
           First(n) == Free(n) /\ \A k \in 2 .. n - 1 : ~Free(k)
           Frees == {n \in 2 .. card + 2 : Free(n)}
<1>1. safe \in Flats /\ \A n \in Nat : num(n) \in Flats
  <2>1. Clean[f.stem] \in Stems /\ f.ext \in Exts
    BY FilesAssumption DEF Stems, Exts
  <2>2. <<>> \in Seq(Nat) /\ \A n \in Nat : <<n>> \in Seq(Nat)
    OBVIOUS
  <2>3. \A t \in Seq(Nat) : <<Clean[f.stem], t, f.ext>> \in Flats
    BY <2>1 DEF Flats
  <2> HIDE DEF safe
  <2> QED
    BY <2>2, <2>3, SafeName DEF safe
<1>2. \A n, k \in Nat : num(n) = num(k) => n = k
  <2> TAKE n \in Nat, k \in Nat
  <2>1. num(n) = <<Clean[f.stem], <<n>>, f.ext>> /\ num(k) = <<Clean[f.stem], <<k>>, f.ext>>
    BY SafeName
  <2> HIDE DEF num
  <2> QED
    BY <2>1
<1>3. card \in Nat
  BY FS_CardinalityType
<1> HIDE DEF safe, num, card
<1>4. Frees # {}
  <2>1. SUFFICES ASSUME Frees = {} PROVE FALSE
    OBVIOUS
  <2> DEFINE S == 2 .. card + 2
             g == [n \in S |-> num(n)]
  <2>2. g \in [S -> used]
    BY <2>1
  <2>3. S \subseteq Nat
    BY <1>3
  <2>4. IsFiniteSet(S) /\ Cardinality(S) = card + 1
    <3>1. 2 \in Int /\ card + 2 \in Int /\ ~(2 > card + 2) /\ card + 2 - 2 + 1 = card + 1
      BY <1>3
    <3> QED
      BY <1>3, <3>1, FS_Interval
  <2>5. card < card + 1
    BY <1>3
  <2> HIDE DEF S
  <2>6. \E x, y \in S : x # y /\ g[x] = g[y]
    <3> HIDE DEF g
    <3> QED
      BY <2>2, <2>4, <2>5, FS_PigeonHole DEF card
  <2> QED
    BY <1>2, <2>3, <2>6
<1>5. \E n \in 2 .. card + 2 : First(n)
  <2>1. Frees \in SUBSET Nat
    BY <1>3
  <2>2. PICK n \in Frees : \A k \in Frees : n <= k
    <3> HIDE DEF Frees
    <3> QED
      BY <1>4, <2>1, Least
  <2>3. n \in 2 .. card + 2 /\ Free(n)
    OBVIOUS
  <2>4. ASSUME NEW k \in 2 .. n - 1 PROVE ~Free(k)
    <3>1. k \in 2 .. card + 2 /\ ~(n <= k)
      BY <1>3, <2>3
    <3> QED
      BY <2>2, <3>1
  <2> QED
    BY <2>3, <2>4
<1> DEFINE n0 == CHOOSE n \in 2 .. card + 2 : First(n)
<1>6. n0 \in 2 .. card + 2 /\ num(n0) \notin used
  <2>1. n0 \in 2 .. card + 2 /\ First(n0)
    <3> HIDE DEF First
    <3> QED
      BY <1>5
  <2> QED
    BY <2>1
<1>7. Flat(Base(f), used) = IF safe \notin used THEN safe ELSE num(n0)
  BY Zenon DEF Flat, safe, num, card, n0, First, Free
<1> HIDE DEF n0
<1> QED
  BY <1>1, <1>3, <1>6, <1>7

\* Every file is known by its name, its role, and a name that no other has.
Bundled == [file : Files, role : {"disk", "disk-extent", "other"}, flat : Flats]

\* Files keep their order, and no two get the same flat name.
LEMMA Classified ==
    ASSUME NEW entries \in Seq(Files)
    PROVE  /\ Classify(entries) \in Seq(Bundled)
           /\ Len(Classify(entries)) = Len(entries)
           /\ \A i \in 1 .. Len(entries) : /\ Classify(entries)[i].file = entries[i]
                                           /\ Classify(entries)[i].role = RoleOf(entries[i])
           /\ \A i, k \in 1 .. Len(entries) :
                 i # k => Classify(entries)[i].flat # Classify(entries)[k].flat
<1> DEFINE m == Len(entries)
           V == Seq(Bundled)
           F == [p \in V \X (1 .. m) |-> Added(p[1], entries[p[2]])]
           Walk(w) == w = [n \in 0 .. m |-> IF n = 0 THEN <<>> ELSE Added(w[n - 1], entries[n])]
           Good(s, n) ==
              /\ s \in V
              /\ Len(s) = n
              /\ \A i \in 1 .. n : s[i].file = entries[i] /\ s[i].role = RoleOf(entries[i])
              /\ \A i, k \in 1 .. n : i # k => s[i].flat # s[k].flat
<1>1. m \in Nat /\ \A n \in 1 .. m : entries[n] \in Files
  BY LenProperties, ElementOfSeq
<1> DEFINE Adds(s, f, t) ==
              /\ t \in V
              /\ Len(t) = Len(s) + 1
              /\ \A i \in 1 .. Len(s) : t[i] = s[i]
              /\ t[Len(s) + 1].file = f
              /\ t[Len(s) + 1].role = RoleOf(f)
              /\ \A i \in 1 .. Len(s) : t[Len(s) + 1].flat # s[i].flat
<1>2. ASSUME NEW s \in V, NEW f \in Files PROVE Adds(s, f, Added(s, f))
  <2> DEFINE used == {g.flat : g \in Range(s)}
             r == [file |-> f, role |-> RoleOf(f), flat |-> Flat(Base(f), used)]
  <2>1. IsFiniteSet(used)
    <3> DEFINE h == [i \in 1 .. Len(s) |-> s[i].flat]
    <3>1. Len(s) \in Nat /\ DOMAIN s = 1 .. Len(s)
      BY LenProperties
    <3>2. IsFiniteSet(1 .. Len(s))
      BY <3>1, FS_Interval
    <3>3. used = {h[i] : i \in 1 .. Len(s)}
      BY <3>1 DEF Range
    <3>4. h \in Surjection(1 .. Len(s), used)
      BY <3>3 DEF Surjection
    <3> HIDE DEF h, used
    <3> QED
      BY <3>2, <3>4, FS_Surjection
  <2>2. Flat(Base(f), used) \in Flats /\ Flat(Base(f), used) \notin used
    <3> HIDE DEF used
    <3> QED
      BY <2>1, FlatFree
  <2>3. RoleOf(f) \in {"disk", "disk-extent", "other"}
    BY DEF RoleOf
  <2>4. r \in Bundled /\ r.file = f /\ r.role = RoleOf(f) /\ r.flat = Flat(Base(f), used)
    <3> HIDE DEF used
    <3> QED
      BY <2>2, <2>3 DEF Bundled
  <2>5. \A i \in 1 .. Len(s) : s[i].flat \in used
    <3>1. DOMAIN s = 1 .. Len(s)
      BY LenProperties
    <3> QED
      BY <3>1 DEF Range
  <2>6. Added(s, f) = Append(s, r)
    BY DEF Added
  <2> HIDE DEF r, used
  <2>7. /\ Append(s, r) \in V
        /\ Len(Append(s, r)) = Len(s) + 1
        /\ \A i \in 1 .. Len(s) : Append(s, r)[i] = s[i]
        /\ Append(s, r)[Len(s) + 1] = r
    BY <2>4, AppendProperties
  <2> QED
    BY <2>2, <2>4, <2>5, <2>6, <2>7
<1>3. F \in [V \X (1 .. m) -> V] /\ \A s \in V, n \in 1 .. m : F[<<s, n>>] = Added(s, entries[n])
  <2>1. \A s \in V, f \in Files : Added(s, f) \in V
    BY <1>2
  <2> HIDE DEF V, m, Adds
  <2> QED
    BY <1>1, <2>1
<1>4. <<>> \in V
  BY EmptySeq
<1> HIDE DEF F, V, Adds
<1>5. PICK v \in [0 .. m -> V] : Steps(v, m, <<>>, F)
  <2> HIDE DEF m
  <2> QED
    BY <1>1, <1>3, <1>4, Defined
<1>6. Walk(v)
  <2> HIDE DEF m
  <2>1. \A n \in 0 .. m : v[n] = IF n = 0 THEN <<>> ELSE F[<<v[n - 1], n>>]
    BY <1>5 DEF Steps
  <2>2. ASSUME NEW n \in 0 .. m, n # 0 PROVE v[n] = Added(v[n - 1], entries[n])
    <3>1. n \in 1 .. m /\ n - 1 \in 0 .. m
      BY <1>1, <2>2
    <3>2. v[n - 1] \in V
      BY <3>1
    <3> QED
      BY <1>3, <2>1, <2>2, <3>1, <3>2
  <2> QED
    BY <2>1, <2>2
<1> DEFINE w == CHOOSE g : Walk(g)
<1>7. Walk(w)
  BY <1>6, Zenon
<1>8. Classify(entries) = w[m]
  BY Zenon DEF Classify
<1> HIDE DEF w
<1>9. w[0] = <<>> /\ \A n \in 1 .. m : w[n] = Added(w[n - 1], entries[n])
  <2> HIDE DEF m
  <2>1. \A n \in 0 .. m : w[n] = IF n = 0 THEN <<>> ELSE Added(w[n - 1], entries[n])
    BY <1>7, Zenon
  <2>2. 0 \in 0 .. m /\ \A n \in 1 .. m : n \in 0 .. m /\ n # 0
    BY <1>1
  <2> QED
    BY <2>1, <2>2
<1> DEFINE T == {n \in 0 .. m : Good(w[n], n)}
<1>10. 0 \in T
  <2>1. Good(<<>>, 0)
    BY <1>4
  <2> HIDE DEF Good, m
  <2> QED
    BY <1>1, <1>9, <2>1
<1>11. ASSUME NEW j \in 0 .. m - 1, j \in T PROVE j + 1 \in T
  <2> DEFINE n == j + 1
             s == w[j]
             f == entries[n]
             t == Added(s, f)
  <2>1. n \in 1 .. m /\ n \in 0 .. m /\ n - 1 = j /\ j \in Nat
    BY <1>1
  <2>2. Good(s, j) /\ w[n] = t /\ f \in Files
    BY <1>1, <1>9, <1>11, <2>1
  <2> HIDE DEF n, s, f
  <2>3. s \in V /\ Len(s) = j
    BY <2>2
  <2>4. /\ t \in V
        /\ Len(t) = j + 1
        /\ \A i \in 1 .. j : t[i] = s[i]
        /\ t[j + 1].file = f /\ t[j + 1].role = RoleOf(f)
        /\ \A i \in 1 .. j : t[j + 1].flat # s[i].flat
    <3>1. Adds(s, f, t)
      BY <1>2, <2>2, <2>3, Zenon
    <3> HIDE DEF t
    <3> QED
      BY <2>3, <3>1 DEF Adds
  <2> HIDE DEF t, m
  <2>5. n = j + 1 /\ \A i \in 1 .. n : i # n => i \in 1 .. j
    BY <2>1 DEF n
  <2>6. \A i \in 1 .. n : t[i].file = entries[i] /\ t[i].role = RoleOf(entries[i])
    BY <2>2, <2>4, <2>5 DEF f
  <2>7. ASSUME NEW i \in 1 .. n, NEW k \in 1 .. n, i # k PROVE t[i].flat # t[k].flat
    <3>1. CASE i # n /\ k # n
      <4>1. i \in 1 .. j /\ k \in 1 .. j
        BY <2>5, <3>1
      <4> QED
        BY <2>2, <2>4, <2>7, <4>1
    <3>2. CASE i = n
      <4>1. k \in 1 .. j /\ i = j + 1
        BY <2>5, <2>7, <3>2
      <4> QED
        BY <2>4, <4>1
    <3>3. CASE k = n
      <4>1. i \in 1 .. j /\ k = j + 1
        BY <2>5, <2>7, <3>3
      <4> QED
        BY <2>4, <4>1
    <3> QED
      BY <3>1, <3>2, <3>3
  <2>8. Good(t, n)
    BY <2>4, <2>5, <2>6, <2>7
  <2> HIDE DEF Good
  <2> QED
    BY <2>1, <2>2, <2>8 DEF n
<1> HIDE DEF T, Good
<1>12. Good(w[m], m)
  <2>1. m \in Nat /\ m \in 0 .. m
    BY <1>1
  <2> HIDE DEF m
  <2>2. \A n \in 0 .. m : n \in T
    BY <1>10, <1>11, <2>1, Induct
  <2> QED
    BY <2>1, <2>2 DEF T
<1> QED
  BY <1>8, <1>12 DEF Good, V

\* The elements picked, and where each was.
Selects(p, s, at) ==
    /\ p \in [1 .. Len(Picked(s, at)) -> at]
    /\ \A j, k \in 1 .. Len(Picked(s, at)) : p[j] = p[k] => j = k
    /\ \A i \in at : \E k \in 1 .. Len(Picked(s, at)) : p[k] = i
    /\ \A k \in 1 .. Len(Picked(s, at)) : Picked(s, at)[k] = s[p[k]]

\* A filter picks some places, each once.
LEMMA Selecting ==
    ASSUME NEW S, NEW s \in Seq(S), NEW at \in SUBSET (1 .. Len(s))
    PROVE  /\ Picked(s, at) \in Seq(S)
           /\ Len(Picked(s, at)) \in Nat
           /\ \E p : Selects(p, s, at)
<1> DEFINE n == Cardinality(at)
           t == Picked(s, at)
<1>1. Len(s) \in Nat
  BY LenProperties
<1>2. n \in Nat /\ \E p : Picks(p, s, at)
  BY <1>1, Picking
<1>3. PICK p : Picks(p, s, at)
  BY <1>2, Zenon
<1>4. /\ p \in [1 .. n -> at]
      /\ \A j, k \in 1 .. n : p[j] = p[k] => j = k
      /\ \A i \in at : \E k \in 1 .. n : p[k] = i
      /\ t = [k \in 1 .. n |-> s[p[k]]]
  <2>1. \A i \in at : Rank(at, i) \in 1 .. n /\ p[Rank(at, i)] = i
    BY <1>3 DEF Picks
  <2>2. \A i \in at : \E k \in 1 .. n : p[k] = i
    <3> HIDE DEF n
    <3> QED
      BY <2>1
  <2> QED
    BY <1>3, <2>2 DEF Picks
<1> HIDE DEF n, t
<1>5. \A k \in 1 .. n : s[p[k]] \in S
  <2>1. \A k \in 1 .. n : p[k] \in 1 .. Len(s)
    BY <1>4
  <2> QED
    BY <2>1, ElementOfSeq
<1>6. t \in Seq(S) /\ Len(t) = n /\ \A k \in 1 .. n : t[k] = s[p[k]]
  BY <1>2, <1>4, <1>5
<1>7. Selects(p, s, at)
  BY <1>4, <1>6 DEF Selects, t
<1> QED
  BY <1>2, <1>6, <1>7 DEF t

\* What an upload may be.
Bases0 == {Base(f) : f \in Files}
GoodLines(lines, what) ==
    /\ lines \in Seq([base : Bases0, says : what])
    /\ \A i, k \in 1 .. Len(lines) : i # k => lines[i].base # lines[k].base

\* What is known of every upload, whatever kind it is.
LEMMA Uploaded ==
    ASSUME NEW u \in Uploads
    PROVE  /\ u.kind \in {"zip", "gnu", "pax", "raw"}
           /\ u.files \in Seq(Files)
           /\ u.descriptor \in {"ovf", "vmx", "none"}
           /\ GoodLines(u.lines, {"attached", "listed", "absent"})
           /\ u.descriptor = "ovf" => GoodLines(u.lines, {"attached", "listed"})
           /\ u.kind = "raw" => Len(u.files) = 1 /\ u.descriptor = "none"
<1> DEFINE Distinct(s) == \A i, k \in DOMAIN s : i # k => s[i] # s[k]
           SeqsOf(S, n) == UNION {{s \in [1 .. k -> S] : Distinct(s)} : k \in 1 .. n}
           files == SeqsOf(Files, MaxFiles)
           bases == {Base(f) : f \in Files}
           line(s, w) == [i \in DOMAIN s |->
                            [base |-> s[i], says |-> IF i < Len(s) THEN "attached" ELSE w]]
           Lines(other) ==
               UNION {{line(s, w) : w \in {"attached", other}} : s \in SeqsOf(bases, MaxRefs)}
           U(kind, descriptor, lines, hints, Q) ==
               [kind : {kind}, files : files, descriptor : {descriptor}, lines : lines,
                hints : {hints}, legible : Q, qemu : Q]
           Raw == {s \in files : Len(s) = 1}
           Single == {<<[base |-> b, says |-> "attached"]>> : b \in bases}
           RawUploads ==
               [kind : {"raw"}, files : Raw, descriptor : {"none"}, lines : {<<>>},
                hints : {<<"windows", "linux">>}, legible : {TRUE}, qemu : {TRUE}]
<1>1. \/ u \in U("zip", "vmx", Lines("absent"), <<"none", "windows">>, {TRUE})
      \/ u \in U("zip", "none", {<<>>}, <<"none", "none">>, {TRUE})
      \/ u \in U("gnu", "ovf", Lines("listed"), <<"linux", "windows">>, {TRUE})
      \/ u \in U("pax", "ovf", Lines("listed"), <<"linux", "windows">>, {TRUE})
      \/ u \in U("gnu", "vmx", Single, <<"windows", "none">>, BOOLEAN)
      \/ u \in RawUploads
  <2>1. Uploads = U("zip", "vmx", Lines("absent"), <<"none", "windows">>, {TRUE})
       \cup U("zip", "none", {<<>>}, <<"none", "none">>, {TRUE})
       \cup U("gnu", "ovf", Lines("listed"), <<"linux", "windows">>, {TRUE})
       \cup U("pax", "ovf", Lines("listed"), <<"linux", "windows">>, {TRUE})
       \cup U("gnu", "vmx", Single, <<"windows", "none">>, BOOLEAN)
       \cup RawUploads
    BY Zenon DEF Uploads
  <2> HIDE DEF U, Lines, Single, RawUploads
  <2> QED
    BY <2>1
<1>2. ASSUME NEW S, NEW n \in Nat, NEW s \in SeqsOf(S, n)
      PROVE  s \in Seq(S) /\ DOMAIN s = 1 .. Len(s) /\ Len(s) \in Nat
             /\ \A i, k \in 1 .. Len(s) : i # k => s[i] # s[k]
  <2>1. PICK k \in 1 .. n : s \in [1 .. k -> S] /\ Distinct(s)
    BY <1>2
  <2>2. k \in Nat
    OBVIOUS
  <2>3. s \in Seq(S) /\ Len(s) = k /\ DOMAIN s = 1 .. k
    BY <2>1, <2>2
  <2> QED
    BY <2>1, <2>2, <2>3
<1>3. MaxFiles \in Nat /\ MaxRefs \in Nat
  BY BoundAssumption
<1>4. \A s \in files : s \in Seq(Files)
  <2>1. ASSUME NEW s \in files PROVE s \in Seq(Files)
    BY <1>2, <1>3, Zenon
  <2> QED
    BY <2>1
<1>5. ASSUME NEW other, NEW l \in Lines(other)
      PROVE  GoodLines(l, {"attached", other})
  <2>1. PICK s \in SeqsOf(bases, MaxRefs), w \in {"attached", other} : l = line(s, w)
    <3> HIDE DEF SeqsOf, line
    <3> QED
      BY <1>5
  <2>2. s \in Seq(bases) /\ DOMAIN s = 1 .. Len(s) /\ Len(s) \in Nat
             /\ \A i, k \in 1 .. Len(s) : i # k => s[i] # s[k]
    BY <1>2, <1>3, <2>1, Zenon
  <2> DEFINE R == [base : bases, says : {"attached", other}]
             n == Len(s)
             elem(i) == [base |-> s[i], says |-> IF i < n THEN "attached" ELSE w]
  <2> HIDE DEF bases
  <2>3. \A i \in 1 .. n : elem(i) \in R /\ elem(i).base = s[i]
    BY <2>2, ElementOfSeq
  <2>4. l = [i \in 1 .. n |-> elem(i)]
    BY <2>1, <2>2
  <2> HIDE DEF R, n, elem
  <2>5. l \in Seq(R) /\ Len(l) = n /\ \A i \in 1 .. n : l[i].base = s[i]
    <3>1. n \in Nat
      BY <2>2 DEF n
    <3> QED
      BY <2>3, <2>4, <3>1
  <2> QED
    BY <2>2, <2>5 DEF GoodLines, R, n, bases, Bases0
<1>6. ASSUME NEW l \in Single PROVE GoodLines(l, {"attached"})
  <2>1. PICK b \in bases : l = <<[base |-> b, says |-> "attached"]>>
    OBVIOUS
  <2> DEFINE e == [base |-> b, says |-> "attached"]
             R == [base : bases, says : {"attached"}]
  <2>2. e \in R
    OBVIOUS
  <2> HIDE DEF e, R, bases
  <2>3. l \in Seq(R) /\ Len(l) = 1
    BY <2>1, <2>2 DEF e
  <2> QED
    BY <2>3 DEF GoodLines, R, bases, Bases0
<1>7. GoodLines(<<>>, {"attached"})
  BY DEF GoodLines
<1>8. ASSUME NEW l, NEW A, NEW C, A \subseteq C, GoodLines(l, A) PROVE GoodLines(l, C)
  <2> DEFINE RA == [base : Bases0, says : A]
             RC == [base : Bases0, says : C]
  <2>1. RA \subseteq RC
    BY <1>8
  <2>2. l \in Seq(RA)
    BY <1>8 DEF GoodLines
  <2> HIDE DEF RA, RC
  <2>3. l \in Seq(RC)
    BY <2>1, <2>2
  <2> QED
    BY <1>8, <2>3 DEF GoodLines, RC
<1>9. /\ \A l \in Lines("absent") : GoodLines(l, {"attached", "listed", "absent"})
      /\ \A l \in Lines("listed") : GoodLines(l, {"attached", "listed", "absent"})
                                    /\ GoodLines(l, {"attached", "listed"})
      /\ \A l \in Single : GoodLines(l, {"attached", "listed", "absent"})
      /\ GoodLines(<<>>, {"attached", "listed", "absent"})
  <2> HIDE DEF Lines, Single
  <2>1. {"attached", "absent"} \subseteq {"attached", "listed", "absent"}
        /\ {"attached", "listed"} \subseteq {"attached", "listed", "absent"}
        /\ {"attached"} \subseteq {"attached", "listed", "absent"}
    OBVIOUS
  <2>2. \A l \in Lines("absent") : GoodLines(l, {"attached", "absent"})
    BY <1>5
  <2>3. \A l \in Lines("listed") : GoodLines(l, {"attached", "listed"})
    BY <1>5
  <2>4. \A l, A, C : A \subseteq C /\ GoodLines(l, A) => GoodLines(l, C)
    BY <1>8, Zenon
  <2> QED
    BY <1>6, <1>7, <2>1, <2>2, <2>3, <2>4
<1> HIDE DEF Lines, Single, files
<1>10. CASE u \in U("zip", "vmx", Lines("absent"), <<"none", "windows">>, {TRUE})
  BY <1>4, <1>9, <1>10
<1>11. CASE u \in U("zip", "none", {<<>>}, <<"none", "none">>, {TRUE})
  BY <1>4, <1>9, <1>11
<1>12. CASE u \in U("gnu", "ovf", Lines("listed"), <<"linux", "windows">>, {TRUE})
  BY <1>4, <1>9, <1>12
<1>15. CASE u \in U("pax", "ovf", Lines("listed"), <<"linux", "windows">>, {TRUE})
  BY <1>4, <1>9, <1>15
<1>13. CASE u \in U("gnu", "vmx", Single, <<"windows", "none">>, BOOLEAN)
  BY <1>4, <1>9, <1>13
<1>14. CASE u \in RawUploads
  BY <1>4, <1>9, <1>14
<1> QED
  BY <1>1, <1>10, <1>11, <1>12, <1>13, <1>14, <1>15

-----------------------------------------------------------------------------
(* Reading the bundle *)

Names == {Name(f) : f \in Files}

\* What an archive is listed as: as it was packed, up to a size that a PAX
\* header has no room for.
Listing(u, n) ==
    [i \in 1 .. n |->
        [name |-> Name(u.files[i]),
         size |-> IF u.kind = "pax" /\ u.files[i].size >= PaxMax THEN 0 ELSE u.files[i].size]]

LEMMA ListedAll ==
    ASSUME NEW u \in Uploads, u.kind # "raw"
    PROVE  \E n \in 0 .. Len(u.files) :
              /\ Listed(u) = Listing(u, n)
              /\ (u.kind = "pax" => \A f \in Range(u.files) : f.size < PaxMax) => n = Len(u.files)
<1> DEFINE fs == u.files
           m == Len(fs)
<1>1. /\ m \in Nat /\ DOMAIN fs = 1 .. m
      /\ \A i \in 1 .. m : fs[i] \in Files /\ fs[i].size \in Nat /\ Name(fs[i]) \in Names
  <2>1. fs \in Seq(Files)
    BY Uploaded
  <2>2. \A i \in 1 .. m : fs[i] \in Files
    BY <2>1, ElementOfSeq
  <2> QED
    BY <2>1, <2>2, FilesAssumption, LenProperties DEF Names
<1> DEFINE entry(i) == [name |-> Name(fs[i]), size |-> fs[i].size]
<1>3. CASE u.kind \in Tars
  <2> DEFINE mb(i) == [name |-> Name(fs[i]), size |-> fs[i].size, long |-> fs[i].dir = "b"]
             R == [name : Names, size : Nat, long : BOOLEAN]
             members == [i \in DOMAIN fs |-> mb(i)]
             how == u.kind
             Ok == u.kind = "pax" => \A f \in Range(fs) : f.size < PaxMax
             shown(i) == [name |-> Name(fs[i]),
                          size |-> IF how = "pax" /\ fs[i].size >= PaxMax THEN 0 ELSE fs[i].size]
  <2>1. <<>> \notin Names
    BY DEF Names, Name
  <2>2. \A i \in 1 .. m : mb(i) \in R
    BY <1>1
  <2>3. \A i \in 1 .. m : Shown(mb(i), how) = shown(i)
    BY DEF Shown
  <2>4. Listed(u) = ListTar(ForeignTar(members, how))
    BY <1>3, Zenon DEF Listed, Written
  <2>8. ASSUME Ok, NEW i \in 1 .. m PROVE ~Misread(mb(i), how)
    <3>1. SUFFICES ASSUME how = "pax", fs[i].size >= PaxMax PROVE FALSE
      BY DEF Misread
    <3>2. fs[i] \in Range(fs)
      BY <1>1 DEF Range
    <3>3. fs[i].size < PaxMax
      BY <2>8, <3>1, <3>2
    <3>4. fs[i].size \in Nat /\ PaxMax \in Int
      BY <1>1, PaxNumber
    <3> QED
      BY <3>1, <3>3, <3>4
  <2>9. Listing(u, m) = Listing(u, m)
    OBVIOUS
  <2> HIDE DEF mb, R, m, fs, how, Ok
  <2>5. members \in Seq(R) /\ DOMAIN members = 1 .. m /\ Len(members) = m
        /\ \A i \in 1 .. m : members[i] = mb(i)
    BY <1>1, <2>2
  <2> HIDE DEF members
  <2>6. PICK n \in 0 .. Len(members) :
           /\ ListTar(ForeignTar(members, how)) = [i \in 1 .. n |-> Shown(members[i], how)]
           /\ (\A i \in DOMAIN members : ~Misread(members[i], how)) => n = Len(members)
    BY <2>1, <2>5, ForeignReads DEF R
  <2>7. n \in 0 .. m /\ (Ok => n = m)
    BY <2>5, <2>6, <2>8
  <2>10. \A i \in 1 .. n : i \in 1 .. m
    BY <1>1, <2>7
  <2> HIDE DEF shown
  <2>11. \A i \in 1 .. n : Shown(members[i], how) = shown(i)
    BY <2>3, <2>5, <2>10
  <2>12. [i \in 1 .. n |-> Shown(members[i], how)] = [i \in 1 .. n |-> shown(i)]
    BY <2>11
  <2>13. Listing(u, n) = [i \in 1 .. n |-> shown(i)]
    BY DEF Listing, shown, fs, how
  <2> QED
    BY <2>4, <2>6, <2>7, <2>12, <2>13 DEF fs, m, Ok
<1>4. CASE u.kind = "zip"
  <2> DEFINE whole(i) == [name |-> Name(fs[i]), size |-> fs[i].size,
                          compressed |-> fs[i].size \div 2, offset |-> i * Block]
             rec(i) == ZipRecord(whole(i))
             records == [i \in DOMAIN fs |-> rec(i)]
             entries == ListZip(records)
  <2>1. ASSUME NEW i \in 1 .. m PROVE ReadRecord(rec(i)) = whole(i)
    <3>1. fs[i].size \in Nat /\ fs[i].size \div 2 \in Nat /\ i * Block \in Nat
      <4>1. Block \in Nat
        BY FormatAssumption
      <4> QED
        BY <1>1, <4>1
    <3> QED
      BY <3>1, ZipReads
  <2>2. Listed(u) = [i \in DOMAIN entries |-> [name |-> entries[i].name, size |-> entries[i].size]]
    <3>1. u.kind \notin Tars
      BY <1>4 DEF Tars
    <3> QED
      BY <3>1, Zenon DEF Listed, Written
  <2>3. \A i \in 1 .. m : whole(i).name = entry(i).name /\ whole(i).size = entry(i).size
                          /\ entry(i) = [name |-> entry(i).name, size |-> entry(i).size]
    OBVIOUS
  <2> HIDE DEF whole, rec, fs, m
  <2>4. entries = [i \in 1 .. m |-> whole(i)]
    <3>1. DOMAIN records = 1 .. m /\ \A i \in 1 .. m : records[i] = rec(i)
      BY <1>1
    <3> HIDE DEF records
    <3>2. entries = [i \in DOMAIN records |-> ReadRecord(records[i])]
      BY DEF ListZip
    <3> QED
      BY <2>1, <3>1, <3>2
  <2> HIDE DEF entries, entry
  <2>5. [i \in DOMAIN entries |-> [name |-> entries[i].name, size |-> entries[i].size]]
           = [i \in 1 .. m |-> entry(i)]
    BY <2>3, <2>4
  <2>6. Listing(u, m) = [i \in 1 .. m |-> entry(i)]
    BY <1>4 DEF Listing, entry, fs
  <2>7. m \in 0 .. m
    BY <1>1
  <2> QED
    BY <2>2, <2>5, <2>6, <2>7 DEF fs, m
<1>5. u.kind \in Tars \/ u.kind = "zip"
  BY Uploaded DEF Tars
<1> QED
  BY <1>3, <1>4, <1>5

\* What is left after directories and empty files are dropped are files.
LEMMA ContainedFiles ==
    ASSUME NEW u \in Uploads, u.kind # "raw"
    PROVE  Contained(u) \in Seq(Files)
<1> DEFINE fs == u.files
           m == Len(fs)
           R == [name : Names, size : Nat]
           listed == Listed(u)
           at == {i \in DOMAIN listed : listed[i].size > 0}
           found == Picked(listed, at)
<1>1. /\ m \in Nat /\ DOMAIN fs = 1 .. m
      /\ \A i \in 1 .. m : fs[i] \in Files /\ fs[i].size \in Nat /\ Name(fs[i]) \in Names
  <2>1. fs \in Seq(Files)
    BY Uploaded
  <2>2. \A i \in 1 .. m : fs[i] \in Files
    BY <2>1, ElementOfSeq
  <2> QED
    BY <2>1, <2>2, FilesAssumption, LenProperties DEF Names
<1>2. PICK n \in 0 .. m : listed = Listing(u, n)
  BY ListedAll
<1> DEFINE Here == {g \in R : \E f \in Range(fs) : Name(f) = g.name}
<1>3. listed \in Seq(Here)
  <2> DEFINE size(i) == IF u.kind = "pax" /\ fs[i].size >= PaxMax THEN 0 ELSE fs[i].size
             elem(i) == [name |-> Name(fs[i]), size |-> size(i)]
  <2>1. ASSUME NEW i \in 1 .. n PROVE elem(i) \in Here
    <3>0. i \in 1 .. m
      BY <1>1
    <3>3. size(i) \in Nat
      BY <1>1, <3>0
    <3> HIDE DEF size
    <3>1. elem(i) \in R /\ elem(i).name = Name(fs[i])
      BY <1>1, <3>0, <3>3
    <3>2. fs[i] \in Range(fs)
      BY <1>1, <3>0 DEF Range
    <3> QED
      BY <3>1, <3>2
  <2>2. listed = [i \in 1 .. n |-> elem(i)]
    BY <1>2 DEF Listing
  <2>3. n \in Nat
    BY <1>1
  <2> HIDE DEF Here, elem, listed
  <2> QED
    BY <2>1, <2>2, <2>3
<1>4. at \in SUBSET (1 .. Len(listed))
  <2>1. DOMAIN listed = 1 .. Len(listed)
    BY <1>3, LenProperties
  <2> QED
    BY <2>1
<1>5. found \in Seq(Here)
  <2> HIDE DEF listed, at, Here
  <2> QED
    BY <1>3, <1>4, Selecting
<1>6. ASSUME NEW g \in Here PROVE FileOf(u, g) \in Files
  <2>1. \E f \in Range(fs) : Name(f) = g.name
    BY <1>6
  <2>2. FileOf(u, g) \in Range(fs)
    BY <2>1 DEF FileOf
  <2> QED
    BY <1>1, <2>2 DEF Range
<1>7. Contained(u) = [i \in DOMAIN found |-> FileOf(u, found[i])]
  BY Zenon DEF Contained
<1> HIDE DEF found, Here
<1>8. \A i \in 1 .. Len(found) : FileOf(u, found[i]) \in Files
  BY <1>5, <1>6, ElementOfSeq
<1>9. DOMAIN found = 1 .. Len(found) /\ Len(found) \in Nat
  BY <1>5, LenProperties
<1> QED
  BY <1>7, <1>8, <1>9

-----------------------------------------------------------------------------
(* The bundle on its way *)

\* Where there is something to look at.
Alive == pc \notin {"uploaded", "rejected"}
IsPacked == pc \in {"packaged", "sent", "created"}

Seen == IF upload.kind = "raw" THEN Bare(upload.files[1]) ELSE Classify(Contained(upload))
Found ==
    IF upload.descriptor = "none" THEN HeuristicDisks(inspection.files)
    ELSE ResolveDisks(IF upload.descriptor = "ovf" THEN ParseOvf ELSE ParseVmx, inspection.files)

Inspected == Alive => inspection.files = Seen /\ inspection.disks = Found
Settled ==
    Alive =>
        /\ settings.bus \in Buses /\ settings.strategy \in {"ova", "disk"}
        /\ settings.strategy = "ova" => Extents = <<>>
Packed ==
    IsPacked =>
        /\ upload.kind # "raw" => DiskFiles # <<>>
        /\ \/ upload.kind = "raw" /\ artifacts = RawPackage
           \/ upload.kind # "raw" /\ Extents # <<>> /\ artifacts = MergedPackage
           \/ upload.kind # "raw" /\ Extents = <<>> /\ artifacts = DiskPackages
           \/ upload.kind # "raw" /\ Extents = <<>> /\ artifacts = OvaPackage
Sent ==
    /\ pc \in {"uploaded", "ready", "queued", "packaged"} => tape = <<>>
    /\ pc \in {"sent", "created"} /\ tape # <<>> =>
          /\ artifacts[1].is = "ova" /\ tape = TarStream(InOva, Promised)
          /\ Throwing(InOva, Promised) = {}
Created == pc = "created" => \E volumes \in Volumes : disks = Attachable(volumes)

IInv ==
    /\ upload \in Uploads
    /\ pc \in {"uploaded", "rejected", "ready", "queued", "packaged", "sent", "created"}
    /\ Inspected /\ Settled /\ Packed /\ Sent /\ Created

\* The files of a role, and where each was.
Ordered(p, t, fs, roles) ==
    /\ p \in [1 .. Len(t) -> 1 .. Len(fs)]
    /\ \A j, k \in 1 .. Len(t) : p[j] = p[k] => j = k
    /\ \A k \in 1 .. Len(t) : t[k] = fs[p[k]] /\ t[k].role \in roles
    /\ \A i \in 1 .. Len(fs) : fs[i].role \in roles => \E k \in 1 .. Len(t) : p[k] = i

\* Choosing by role finds every file of it once, in some order.
LEMMA RoleFiles ==
    ASSUME NEW fs \in Seq(Bundled), NEW roles
    PROVE  /\ OfRole(fs, roles) \in Seq(Bundled)
           /\ DOMAIN OfRole(fs, roles) = 1 .. Len(OfRole(fs, roles))
           /\ Len(OfRole(fs, roles)) \in Nat
           /\ \E p : Ordered(p, OfRole(fs, roles), fs, roles)
<1> DEFINE at == {i \in DOMAIN fs : fs[i].role \in roles}
           t == Picked(fs, at)
<1>1. OfRole(fs, roles) = t
  BY DEF OfRole
<1>2. DOMAIN fs = 1 .. Len(fs) /\ Len(fs) \in Nat
  BY LenProperties
<1>3. at \in SUBSET (1 .. Len(fs))
  BY <1>2
<1>4. \A i \in at : fs[i].role \in roles
  OBVIOUS
<1>5. \A i \in 1 .. Len(fs) : fs[i].role \in roles => i \in at
  BY <1>2
<1> HIDE DEF at
<1>6. t \in Seq(Bundled) /\ Len(t) \in Nat /\ \E p : Selects(p, fs, at)
  BY <1>3, Selecting
<1>7. PICK p : Selects(p, fs, at)
  BY <1>6, Zenon
<1>8. /\ p \in [1 .. Len(t) -> at]
      /\ \A j, k \in 1 .. Len(t) : p[j] = p[k] => j = k
      /\ \A i \in at : \E k \in 1 .. Len(t) : p[k] = i
      /\ \A k \in 1 .. Len(t) : t[k] = fs[p[k]]
  BY <1>7 DEF Selects
<1> HIDE DEF t
<1>9. Ordered(p, t, fs, roles)
  BY <1>3, <1>4, <1>5, <1>8 DEF Ordered
<1>10. DOMAIN t = 1 .. Len(t)
  BY <1>6, LenProperties
<1> QED
  BY <1>1, <1>6, <1>9, <1>10

\* The files of the inspection, as long as the bundle is alive.
LEMMA InspectedFiles ==
    ASSUME upload \in Uploads, Inspected, Alive
    PROVE  /\ inspection.files \in Seq(Bundled)
           /\ Len(inspection.files) \in Nat
           /\ DOMAIN inspection.files = 1 .. Len(inspection.files)
           /\ \A i \in 1 .. Len(inspection.files) :
                 inspection.files[i].role \in {"disk", RoleOf(inspection.files[i].file)}
           /\ \A i, k \in 1 .. Len(inspection.files) :
                 i # k => inspection.files[i].flat # inspection.files[k].flat
           /\ upload.kind = "raw" =>
                 Len(inspection.files) = 1 /\ inspection.files[1].role = "disk"
<1> DEFINE fs == inspection.files
           Good == /\ fs \in Seq(Bundled)
                   /\ \A i \in 1 .. Len(fs) : fs[i].role \in {"disk", RoleOf(fs[i].file)}
                   /\ \A i, k \in 1 .. Len(fs) : i # k => fs[i].flat # fs[k].flat
<1>1. fs = Seen
  BY DEF Inspected
<1> HIDE DEF fs
<1>2. ASSUME upload.kind # "raw" PROVE Good
  <2> DEFINE source == Contained(upload)
             seen == Classify(source)
  <2>1. source \in Seq(Files)
    BY <1>2, ContainedFiles
  <2> HIDE DEF source
  <2>2. /\ seen \in Seq(Bundled)
        /\ Len(seen) = Len(source)
        /\ \A i \in 1 .. Len(source) : seen[i].file = source[i] /\ seen[i].role = RoleOf(source[i])
        /\ \A i, k \in 1 .. Len(source) : i # k => seen[i].flat # seen[k].flat
    BY <2>1, Classified
  <2>3. fs = seen
    BY <1>1, <1>2 DEF Seen, source
  <2> HIDE DEF seen
  <2> QED
    BY <2>2, <2>3
<1>3. ASSUME upload.kind = "raw" PROVE Good /\ Len(fs) = 1 /\ fs[1].role = "disk"
  <2> DEFINE f == upload.files[1]
             b == [file |-> f, role |-> "disk", flat |-> Base(f)]
  <2>1. f \in Files
    <3>1. upload.files \in Seq(Files) /\ Len(upload.files) = 1
      BY <1>3, Uploaded
    <3> QED
      BY <3>1, ElementOfSeq
  <2>2. Base(f) \in Flats
    <3>1. f.stem \in Stems /\ f.ext \in Exts
      BY <2>1, FilesAssumption DEF Stems, Exts
    <3>2. <<>> \in Seq(Nat)
      OBVIOUS
    <3>3. \A t \in Seq(Nat) : <<f.stem, t, f.ext>> \in Flats
      BY <3>1 DEF Flats
    <3> QED
      BY <3>2, <3>3 DEF Base
  <2>3. b \in Bundled /\ b.role = "disk"
    BY <2>1, <2>2 DEF Bundled
  <2>4. fs = <<b>>
    BY <1>1, <1>3 DEF Seen, Bare
  <2> HIDE DEF b
  <2>5. fs \in Seq(Bundled) /\ Len(fs) = 1 /\ fs[1] = b /\ 1 .. Len(fs) = {1}
    BY <2>3, <2>4
  <2> QED
    BY <2>3, <2>5
<1>4. DOMAIN fs = 1 .. Len(fs) /\ Len(fs) \in Nat
  BY <1>2, <1>3, LenProperties
<1> QED
  BY <1>2, <1>3, <1>4 DEF fs

\* The members of the OVA that is built.
OvaFiles == OfRole(inspection.files, {"disk", "disk-extent"})
OvaNames == Flats \cup {<<"ovf">>}

\* An OVA is the only artifact, and holds disks and extents.
LEMMA OvaIs ==
    ASSUME artifacts = OvaPackage
    PROVE  /\ artifacts[1].is = "ova" /\ artifacts[1].hrefs = Hrefs
           /\ Range(artifacts) = {artifacts[1]}
           /\ Ova = [i \in DOMAIN OvaFiles |-> Member(OvaFiles[i], Rewrite(OvaFiles[i]))]
<1> DEFINE members == [i \in DOMAIN OvaFiles |-> Member(OvaFiles[i], Rewrite(OvaFiles[i]))]
           a == [is |-> "ova", hrefs |-> Hrefs, members |-> members]
<1>1. artifacts = <<a>>
  BY Zenon DEF OvaPackage, OvaFiles
<1>2. a.is = "ova" /\ a.hrefs = Hrefs /\ a.members = members
  OBVIOUS
<1> HIDE DEF a, members
<1>3. artifacts[1] = a /\ DOMAIN artifacts = {1}
  BY <1>1
<1>4. Range(artifacts) = {artifacts[1]}
  BY <1>3 DEF Range
<1> QED
  BY <1>2, <1>3, <1>4 DEF Ova, members

\* What is in it has names and sizes.
LEMMA OvaMembers ==
    ASSUME upload \in Uploads, Inspected, Alive, artifacts = OvaPackage
    PROVE  /\ InOva \in Seq([name : OvaNames, size : Nat])
           /\ DOMAIN InOva = 1 .. Len(InOva) /\ Len(InOva) \in Nat /\ Len(InOva) >= 1
<1> DEFINE R == [name : OvaNames, size : Nat]
           first == [name |-> <<"ovf">>, size |-> OvfSize]
           elem(i) == [name |-> Ova[i].name, size |-> Ova[i].size]
           others == [i \in DOMAIN Ova |-> elem(i)]
<1>1. /\ OvaFiles \in Seq(Bundled) /\ DOMAIN OvaFiles = 1 .. Len(OvaFiles)
      /\ Len(OvaFiles) \in Nat
  BY InspectedFiles, RoleFiles DEF OvaFiles
<1>2. DOMAIN Ova = 1 .. Len(OvaFiles)
      /\ \A i \in 1 .. Len(OvaFiles) : Ova[i] = Member(OvaFiles[i], Rewrite(OvaFiles[i]))
  BY <1>1, OvaIs
<1>3. ASSUME NEW i \in 1 .. Len(OvaFiles) PROVE elem(i) \in R
  <2> DEFINE f == OvaFiles[i]
  <2>1. f \in Bundled
    BY <1>1, ElementOfSeq
  <2>2. f.flat \in Flats /\ f.file \in Files
    BY <2>1 DEF Bundled
  <2>3. f.file.size \in Nat
    BY <2>2, FilesAssumption
  <2>4. Ova[i].name = f.flat /\ Ova[i].size = f.file.size
    BY <1>2 DEF Member
  <2> HIDE DEF f
  <2> QED
    BY <2>2, <2>3, <2>4 DEF OvaNames
<1>4. first \in R
  BY DEF OvaNames, OvfSize
<1> HIDE DEF elem, R, first
<1>5. others \in Seq(R)
  BY <1>1, <1>2, <1>3
<1>6. <<first>> \in Seq(R) /\ Len(<<first>>) = 1
  BY <1>4
<1>7. InOva = <<first>> \o others
  BY Zenon DEF InOva, first, elem
<1> DEFINE one == <<first>>
<1> HIDE DEF others, one
<1>8. one \o others \in Seq(R) /\ Len(one \o others) = Len(one) + Len(others) /\ Len(others) \in Nat
      /\ Len(one) = 1
  BY <1>5, <1>6, ConcatProperties, LenProperties DEF one
<1>9. InOva \in Seq(R) /\ Len(InOva) \in Nat /\ Len(InOva) >= 1
  BY <1>7, <1>8 DEF one
<1>10. DOMAIN InOva = 1 .. Len(InOva)
  BY <1>9, LenProperties
<1> QED
  BY <1>9, <1>10 DEF R

\* What is sent as an OVA is one.
LEMMA Shapes ==
    ASSUME upload \in Uploads, Inspected, Packed, IsPacked, artifacts[1].is = "ova"
    PROVE  upload.kind # "raw" /\ Extents = <<>> /\ artifacts = OvaPackage
<1>1. CASE artifacts = RawPackage
  BY <1>1 DEF RawPackage
<1>2. CASE artifacts = MergedPackage
  BY <1>2 DEF MergedPackage
<1>3. CASE artifacts = DiskPackages /\ upload.kind # "raw"
  <2>1. DiskFiles # <<>>
    BY <1>3 DEF Packed
  <2>2. DiskFiles \in Seq(Bundled) /\ DOMAIN DiskFiles = 1 .. Len(DiskFiles) /\ Len(DiskFiles) \in Nat
    BY InspectedFiles, RoleFiles DEF DiskFiles, Alive, IsPacked
  <2>3. 1 \in DOMAIN DiskFiles
    <3>1. Len(DiskFiles) # 0
      BY <2>1, <2>2, EmptySeq
    <3> QED
      BY <2>2, <3>1
  <2>4. artifacts[1].is = "disk"
    BY <1>3, <2>3 DEF DiskPackages
  <2> QED
    BY <2>4
<1> QED
  BY <1>1, <1>2, <1>3 DEF Packed

\* Nothing has been looked at yet.
LEMMA Initial == Init => IInv
BY DEF Init, IInv, Inspected, Settled, Packed, Sent, Created, Alive, IsPacked

\* Every step leaves each part what it is a function of.
LEMMA Inductive ==
    ASSUME IInv, [Next]_vars
    PROVE  IInv'
<1>1. ASSUME UNCHANGED upload PROVE Seen' = Seen
  BY <1>1 DEF Seen
<1>2. ASSUME UNCHANGED <<upload, inspection>>
      PROVE  /\ Found' = Found /\ DiskFiles' = DiskFiles /\ Extents' = Extents
             /\ RawPackage' = RawPackage /\ MergedPackage' = MergedPackage
             /\ DiskPackages' = DiskPackages /\ OvaPackage' = OvaPackage
  <2>1. DiskFiles' = DiskFiles /\ Extents' = Extents
    BY <1>2 DEF DiskFiles, Extents
  <2>2. Found' = Found
    BY <1>2, Zenon DEF Found, ParseOvf, ParseVmx, Saying
  <2>3. RawPackage' = RawPackage
    BY <1>2, Zenon DEF RawPackage
  <2>4. MergedPackage' = MergedPackage
    BY <1>2, Zenon DEF MergedPackage, DiskFiles, Extents, Rewrite
  <2>5. DiskPackages' = DiskPackages
    BY <1>2, Zenon DEF DiskPackages, DiskFiles
  <2>6. OvaPackage' = OvaPackage
    BY <1>2, Zenon DEF OvaPackage, Rewrite, Hrefs, BuildOvf, DiskFiles, Saying
  <2> QED
    BY <2>1, <2>2, <2>3, <2>4, <2>5, <2>6
<1>3. ASSUME UNCHANGED artifacts PROVE InOva' = InOva /\ Promised' = Promised
  BY <1>3, Zenon DEF InOva, Promised, Ova
<1>b. ASSUME UNCHANGED <<upload, inspection, artifacts>> PROVE Volumes' = Volumes
  <2>1. Composed' = Composed
    BY <1>b, Zenon DEF Composed, DiskFiles
  <2>2. Hrefs' = Hrefs /\ Ova' = Ova
    BY <1>b, Zenon DEF Hrefs, BuildOvf, DiskFiles, Saying, Ova
  <2>3. Named' = Named
    <3> DEFINE N(u, h, o) ==
                 LET Attached(i) == u.descriptor = "ovf" => u.lines[i].says = "attached"
                     Holding(name) == {m \in Range(o) : m.name = name}
                     found == Picked(h, {i \in DOMAIN h : Attached(i) /\ Holding(h[i]) # {}})
                 IN [i \in DOMAIN found |-> (CHOOSE m \in Holding(found[i]) : TRUE).from]
    <3>1. Named = N(upload, Hrefs, Ova)
      BY Zenon DEF Named
    <3>2. Named' = N(upload', Hrefs', Ova')
      BY Zenon DEF Named
    <3> HIDE DEF N
    <3> QED
      BY <1>b, <2>2, <3>1, <3>2
  <2> QED
    BY <1>b, <2>1, <2>3, Zenon DEF Volumes
<1>4. CASE Inspect
  <2>1. UNCHANGED <<upload, artifacts, tape, disks>> /\ pc = "uploaded" /\ tape = <<>>
        /\ pc' \in {"ready", "rejected"}
    BY <1>4 DEF Inspect, IInv, Sent
  <2>2. Inspected' /\ Settled'
    <3>1. CASE pc' = "rejected"
      BY <3>1 DEF Inspected, Settled, Alive
    <3>2. CASE pc' # "rejected"
      <4> DEFINE files == Seen
                 found == IF upload.descriptor = "none" THEN HeuristicDisks(files)
                          ELSE ResolveDisks(IF upload.descriptor = "ovf" THEN ParseOvf
                                            ELSE ParseVmx, files)
      <4>1. /\ inspection' = [files |-> files, disks |-> found, family |-> DetectOs(upload.hints)]
            /\ settings' = Suggest(files)
        BY <1>4, <3>2, Zenon DEF Inspect, Seen
      <4> HIDE DEF files
      <4>2. inspection'.files = files /\ inspection'.disks = found
        BY <4>1
      <4>3. Seen' = Seen
        BY <1>1, <2>1
      <4>4. Found' = found
        BY <2>1, <4>2, Zenon DEF Found, ParseOvf, ParseVmx, Saying
      <4>5. Inspected'
        BY <4>2, <4>3, <4>4 DEF Inspected, files
      <4>6. /\ settings'.bus \in Buses /\ settings'.strategy \in {"ova", "disk"}
            /\ settings'.strategy = "ova" => OfRole(files, {"disk-extent"}) = <<>>
        BY <4>1, BusAssumption DEF Suggest, ResolveStrategy
      <4>7. Extents' = OfRole(files, {"disk-extent"})
        BY <4>2 DEF Extents
      <4> QED
        BY <4>5, <4>6, <4>7 DEF Settled
    <3> QED
      BY <3>1, <3>2
  <2> QED
    BY <2>1, <2>2 DEF IInv, Packed, Sent, Created, IsPacked
<1>5. CASE Submit
  <2>1. UNCHANGED <<upload, inspection, artifacts, tape, disks>> /\ pc = "ready" /\ tape = <<>>
        /\ pc' = "queued"
    BY <1>5 DEF Submit, IInv, Sent
  <2>2. /\ settings'.bus \in Buses /\ settings'.strategy \in {"ova", "disk"}
        /\ settings'.strategy = "ova" => Extents = <<>>
    <3>1. PICK strategy \in {"ova", "disk"}, bus \in Buses :
             settings' = [bus |-> bus, strategy |-> ResolveStrategy(strategy, inspection.files)]
      BY <1>5 DEF Submit
    <3> QED
      BY <3>1 DEF ResolveStrategy, Extents
  <2>3. Inspected' /\ Settled'
    BY <1>1, <1>2, <2>1, <2>2 DEF IInv, Inspected, Settled, Alive
  <2> QED
    BY <2>1, <2>3 DEF IInv, Packed, Sent, Created, IsPacked
<1>6. CASE Package
  <2>1. UNCHANGED <<upload, inspection, settings, tape, disks>> /\ pc = "queued" /\ tape = <<>>
        /\ pc' \in {"packaged", "rejected"}
    BY <1>6 DEF Package, IInv, Sent
  <2>2. Inspected' /\ Settled'
    BY <1>1, <1>2, <2>1 DEF IInv, Inspected, Settled, Alive
  <2>3. Packed'
    <3>1. CASE pc' = "rejected"
      BY <3>1 DEF Packed, IsPacked
    <3>2. CASE pc' = "packaged"
      <4>1. ~(upload.kind # "raw" /\ DiskFiles = <<>>)
            /\ (PackageRaw \/ PackageMerged \/ PackageDisks \/ PackageOva)
        BY <1>6, <3>2 DEF Package
      <4>2. settings.strategy = "ova" => Extents = <<>>
        BY <2>1 DEF IInv, Settled, Alive
      <4>3. \/ upload.kind = "raw" /\ artifacts' = RawPackage
            \/ upload.kind # "raw" /\ Extents # <<>> /\ artifacts' = MergedPackage
            \/ upload.kind # "raw" /\ Extents = <<>> /\ artifacts' = DiskPackages
            \/ upload.kind # "raw" /\ Extents = <<>> /\ artifacts' = OvaPackage
        BY <4>1, <4>2 DEF PackageRaw, PackageMerged, PackageDisks, PackageOva
      <4> QED
        BY <1>2, <2>1, <4>1, <4>3 DEF Packed
    <3> QED
      BY <2>1, <3>1, <3>2
  <2> QED
    BY <2>1, <2>2, <2>3 DEF IInv, Sent, Created
<1>7. CASE SendOva
  <2>1. UNCHANGED <<upload, inspection, settings, artifacts, disks>> /\ pc = "packaged"
        /\ artifacts[1].is = "ova" /\ pc' \in {"sent", "rejected"}
    BY <1>7 DEF SendOva
  <2>2. artifacts = OvaPackage /\ Alive
    BY <2>1, Shapes DEF IInv, IsPacked, Alive
  <2>3. InOva \in Seq([name : OvaNames, size : Nat])
        /\ DOMAIN InOva = 1 .. Len(InOva) /\ Len(InOva) \in Nat
    BY <2>2, OvaMembers DEF IInv
  <2>4. Inspected' /\ Settled'
    BY <1>1, <1>2, <2>1 DEF IInv, Inspected, Settled, Alive
  <2>5. Packed'
    BY <1>2, <2>1 DEF IInv, Packed, IsPacked
  <2>6. pc' = "sent" => tape' = TarStream(InOva, Promised) /\ Throwing(InOva, Promised) = {}
    <3>1. PICK delivered \in Deliveries :
             /\ tape' = TarStream(InOva, delivered)
             /\ pc' = IF Throwing(InOva, delivered) = {} /\ Block * Len(tape') = TarSize(InOva)
                      THEN "sent" ELSE "rejected"
      BY <1>7 DEF SendOva
    <3>2. CASE delivered = Promised
      BY <3>1, <3>2
    <3>3. CASE \E k \in 2 .. Len(InOva) : delivered = [Promised EXCEPT ![k] = Promised[k] - 1]
      <4>1. PICK k \in 2 .. Len(InOva) : delivered = [Promised EXCEPT ![k] = Promised[k] - 1]
        BY <3>3
      <4>2. DOMAIN Promised = DOMAIN InOva
            /\ \A i \in DOMAIN InOva : Promised[i] = InOva[i].size /\ InOva[i].size \in Nat
        <5> HIDE DEF InOva
        <5>2. \A i \in DOMAIN InOva : InOva[i] \in [name : OvaNames, size : Nat]
          BY <2>3, ElementOfSeq
        <5>1. \A i \in DOMAIN InOva : InOva[i].size \in Nat
          BY <5>2
        <5> QED
          BY <5>1 DEF Promised
      <4>3. k \in DOMAIN InOva
        BY <2>3
      <4>4. delivered[k] # InOva[k].size
        BY <4>1, <4>2, <4>3
      <4>5. k \in Throwing(InOva, delivered)
        BY <4>3, <4>4 DEF Throwing
      <4> QED
        BY <3>1, <4>5
    <3> QED
      BY <3>2, <3>3 DEF Deliveries
  <2>7. Sent'
    BY <1>3, <2>1, <2>6 DEF Sent
  <2> QED
    BY <2>1, <2>4, <2>5, <2>7 DEF IInv, Created
<1>8. CASE SendDisks
  <2>1. UNCHANGED <<upload, inspection, settings, artifacts, tape, disks>> /\ pc = "packaged"
        /\ pc' = "sent" /\ tape = <<>>
    BY <1>8 DEF SendDisks, IInv, Sent
  <2>2. Inspected' /\ Settled' /\ Packed'
    BY <1>1, <1>2, <2>1 DEF IInv, Inspected, Settled, Packed, Alive, IsPacked
  <2> QED
    BY <2>1, <2>2 DEF IInv, Sent, Created
<1>9. CASE Create
  <2>1. UNCHANGED <<upload, inspection, settings, artifacts, tape>> /\ pc = "sent"
        /\ pc' = "created" /\ \E volumes \in Volumes : disks' = Attachable(volumes)
    BY <1>9 DEF Create
  <2>2. Inspected' /\ Settled' /\ Packed'
    BY <1>1, <1>2, <2>1 DEF IInv, Inspected, Settled, Packed, Alive, IsPacked
  <2>3. Sent'
    BY <1>3, <2>1 DEF IInv, Sent
  <2>4. Volumes' = Volumes
    BY <1>b, <2>1
  <2>5. ASSUME NEW volumes PROVE Attachable(volumes)' = Attachable(volumes)
    BY <2>1, Zenon DEF Attachable, ChooseBus
  <2>6. Created'
    BY <2>1, <2>4, <2>5 DEF Created
  <2> QED
    BY <2>1, <2>2, <2>3, <2>6 DEF IInv
<1>10. CASE CreateFails
  <2>1. UNCHANGED <<upload, inspection, settings, artifacts, tape, disks>> /\ pc' = "rejected"
    BY <1>10 DEF CreateFails
  <2> QED
    BY <2>1 DEF IInv, Inspected, Settled, Packed, Sent, Created, Alive, IsPacked
<1>11. CASE UNCHANGED vars
  <2>1. UNCHANGED <<upload, pc, inspection, settings, artifacts, tape, disks>>
    BY <1>11 DEF vars
  <2>2. Inspected' /\ Settled' /\ Packed'
    BY <1>1, <1>2, <2>1 DEF IInv, Inspected, Settled, Packed, Alive, IsPacked
  <2>3. Sent'
    BY <1>3, <2>1 DEF IInv, Sent
  <2>4. Volumes' = Volumes
    BY <1>b, <2>1
  <2>5. ASSUME NEW volumes PROVE Attachable(volumes)' = Attachable(volumes)
    BY <2>1, Zenon DEF Attachable, ChooseBus
  <2>6. Created'
    BY <2>1, <2>4, <2>5 DEF IInv, Created
  <2> QED
    BY <2>1, <2>2, <2>3, <2>6 DEF IInv
<1> QED
  BY <1>4, <1>5, <1>6, <1>7, <1>8, <1>9, <1>10, <1>11 DEF Next

\* So IInv holds throughout.
LEMMA Invariance == Spec => []IInv
<1>1. Init => IInv
  BY Initial
<1>2. IInv /\ [Next]_vars => IInv'
  BY Inductive
<1> QED
  BY <1>1, <1>2, PTL DEF Spec

-----------------------------------------------------------------------------
(* What is read back *)

\* What is listed, and what the node reads, is what was written.
LEMMA ReadingBack == IInv => ReadsBack
<1> SUFFICES ASSUME IInv PROVE ReadsBack
  OBVIOUS
<1>1. ASSUME upload.kind # "raw", SizesListed
      PROVE  Listed(upload) = [i \in DOMAIN upload.files |-> Entry(upload.files[i])]
  <2> DEFINE fs == upload.files
             m == Len(fs)
  <2>1. fs \in Seq(Files)
    BY Uploaded DEF IInv
  <2>2. DOMAIN fs = 1 .. m /\ m \in Nat /\ \A i \in 1 .. m : fs[i].size \in Nat
    BY <2>1, ElementOfSeq, LenProperties, FilesAssumption
  <2>3. Listed(upload) = Listing(upload, m)
    BY <1>1, ListedAll DEF IInv, SizesListed
  <2>4. ASSUME NEW i \in 1 .. m PROVE ~(upload.kind = "pax" /\ fs[i].size >= PaxMax)
    <3>1. fs[i] \in Range(fs)
      BY <2>2 DEF Range
    <3>2. fs[i].size \in Nat /\ PaxMax \in Int
      BY <2>2, PaxNumber
    <3> QED
      BY <1>1, <3>1, <3>2 DEF SizesListed
  <2>5. Listing(upload, m) = [i \in 1 .. m |-> Entry(fs[i])]
    BY <2>4 DEF Listing, Entry
  <2> QED
    BY <2>2, <2>3, <2>5
<1>2. ASSUME pc \in {"sent", "created"}, tape # <<>>, \A m \in Range(InOva) : m.size < Max8
      PROVE  ListTar(tape) = InOva
  <2>1. artifacts[1].is = "ova" /\ tape = TarStream(InOva, Promised)
        /\ Throwing(InOva, Promised) = {}
    BY <1>2 DEF IInv, Sent
  <2>2. artifacts = OvaPackage
    BY <1>2, <2>1, Shapes DEF IInv, IsPacked
  <2>3. InOva \in Seq([name : OvaNames, size : Nat])
    BY <1>2, <2>2, OvaMembers DEF IInv, Alive
  <2>4. \A i \in DOMAIN InOva : InOva[i].size < 8^SizeDigits
    <3> HIDE DEF InOva
    <3>1. \A i \in DOMAIN InOva : InOva[i] \in Range(InOva)
      BY DEF Range
    <3> QED
      BY <1>2, <3>1 DEF Max8
  <2>6. ListTar(TarStream(InOva, Promised)) = InOva
    BY <2>1, <2>3, <2>4, StreamReads
  <2> QED
    BY <2>1, <2>6
<1> QED
  BY <1>1, <1>2 DEF ReadsBack

-----------------------------------------------------------------------------
(* What travels *)

\* Where a role is missing, so is any file of that role.
LEMMA NoParts ==
    ASSUME IInv, Alive
    PROVE  /\ Extents = <<>> => \A i \in DOMAIN inspection.files :
                                   inspection.files[i].role # "disk-extent"
           /\ upload.kind = "raw" => Extents = <<>>
<1> DEFINE fs == inspection.files
<1>1. /\ fs \in Seq(Bundled) /\ DOMAIN fs = 1 .. Len(fs)
      /\ upload.kind = "raw" => Len(fs) = 1 /\ fs[1].role = "disk"
  BY InspectedFiles DEF IInv
<1>2. Extents \in Seq(Bundled) /\ Len(Extents) \in Nat
      /\ \E p : Ordered(p, Extents, fs, {"disk-extent"})
  BY <1>1, RoleFiles DEF Extents
<1>3. PICK p : Ordered(p, Extents, fs, {"disk-extent"})
  BY <1>2, Zenon
<1> HIDE DEF fs
<1>4. ASSUME Extents = <<>>, NEW i \in DOMAIN fs PROVE fs[i].role # "disk-extent"
  <2>1. Len(Extents) = 0
    BY <1>4
  <2>2. 1 .. Len(Extents) = {}
    BY <2>1
  <2>3. fs[i].role \in {"disk-extent"} => \E k \in 1 .. Len(Extents) : p[k] = i
    BY <1>1, <1>3 DEF Ordered
  <2> QED
    BY <2>2, <2>3
<1>5. ASSUME upload.kind = "raw" PROVE Extents = <<>>
  <2>1. Len(fs) = 1 /\ fs[1].role = "disk"
    BY <1>1, <1>5
  <2>2. ASSUME NEW k \in 1 .. Len(Extents) PROVE FALSE
    <3>1. p[k] \in 1 .. Len(fs) /\ Extents[k] = fs[p[k]] /\ Extents[k].role = "disk-extent"
      BY <1>3 DEF Ordered
    <3>2. p[k] = 1
      BY <2>1, <3>1
    <3> QED
      BY <2>1, <3>1, <3>2
  <2>3. Len(Extents) = 0
    BY <1>2, <2>2
  <2> QED
    BY <1>2, <2>3, EmptySeq
<1> QED
  BY <1>4, <1>5 DEF fs

\* A bundle with extents is merged, even if it was to be an OVA.
LEMMA PartsStay == IInv => NoPartTravels
<1> SUFFICES ASSUME IInv, pc \in {"packaged", "sent", "created"}, Extents # <<>>,
                    NEW a \in Range(artifacts)
             PROVE  a.is = "merged"
  BY DEF NoPartTravels
<1>1. upload.kind # "raw"
  BY NoParts DEF Alive, IInv
<1>2. artifacts = MergedPackage
  BY <1>1 DEF IInv, Packed, IsPacked
<1> DEFINE b == [is |-> "merged", hrefs |-> <<>>,
                 members |-> <<Member(DiskFiles[1], Rewrite(DiskFiles[1]))>>
                             \o [i \in DOMAIN Extents |-> Member(Extents[i], {})]]
<1>3. artifacts = <<b>>
  BY <1>2, Zenon DEF MergedPackage
<1>4. b.is = "merged"
  OBVIOUS
<1> HIDE DEF b
<1>5. a = b
  BY <1>3 DEF Range
<1> QED
  BY <1>4, <1>5

-----------------------------------------------------------------------------
(* Names *)

\* A map by base name finds a file of that name.
LEMMA Looked ==
    ASSUME NEW S, NEW fs \in Seq(S), NEW base, HasBase(fs, base)
    PROVE  \E i \in DOMAIN fs : ByBase(fs, base) = fs[i] /\ Base(fs[i].file) = base
<1> DEFINE m == Len(fs)
           Is(i) == Base(fs[i].file) = base
           LastOne(i) == Is(i) /\ \A k \in i + 1 .. m : ~Is(k)
           T == {n \in 0 .. m : Is(m - n) /\ m - n \in 1 .. m}
<1>1. m \in Nat /\ DOMAIN fs = 1 .. m
  BY LenProperties
<1>2. PICK j \in 1 .. m : Is(j)
  BY <1>1 DEF HasBase
<1> HIDE DEF Is, m
<1>3. m - j \in T
  <2>1. m - j \in 0 .. m /\ m - (m - j) = j
    BY <1>1
  <2> QED
    BY <1>2, <2>1
<1>4. T \in SUBSET Nat
  BY <1>1
<1> HIDE DEF T
<1>5. PICK n \in T : \A k \in T : n <= k
  BY <1>3, <1>4, Least
<1>6. n \in 0 .. m /\ Is(m - n) /\ m - n \in 1 .. m
  BY <1>5 DEF T
<1>7. ASSUME NEW k \in (m - n) + 1 .. m PROVE ~Is(k)
  <2>1. m - k \in 0 .. m /\ m - (m - k) = k /\ k \in 1 .. m /\ ~(n <= m - k)
    BY <1>1, <1>6
  <2>2. m - k \notin T
    BY <1>5, <2>1
  <2> QED
    BY <2>1, <2>2 DEF T
<1>8. \E i \in DOMAIN fs : LastOne(i)
  BY <1>1, <1>6, <1>7
<1> DEFINE i0 == CHOOSE i \in DOMAIN fs : LastOne(i)
<1>9. i0 \in DOMAIN fs /\ Is(i0)
  <2>1. i0 \in DOMAIN fs /\ LastOne(i0)
    <3> HIDE DEF LastOne
    <3> QED
      BY <1>8
  <2> QED
    BY <2>1
<1>10. ByBase(fs, base) = fs[i0]
  BY Zenon DEF ByBase, Is, m
<1> HIDE DEF i0
<1> QED
  BY <1>9, <1>10 DEF Is

\* Files of some roles: each is one of the bundle's, under a name of its own,
\* and whatever a map by base name finds of these roles is one of them.
LEMMA RoleNames ==
    ASSUME IInv, Alive, NEW roles
    PROVE  /\ \A j, k \in 1 .. Len(OfRole(inspection.files, roles)) :
                 j # k => OfRole(inspection.files, roles)[j].flat
                            # OfRole(inspection.files, roles)[k].flat
           /\ \A k \in 1 .. Len(OfRole(inspection.files, roles)) :
                 /\ OfRole(inspection.files, roles)[k] \in Range(inspection.files)
                 /\ OfRole(inspection.files, roles)[k].role \in roles
           /\ \A b : IsHere(b, roles) =>
                 \E k \in 1 .. Len(OfRole(inspection.files, roles)) :
                    OfRole(inspection.files, roles)[k] = ByBase(inspection.files, b)
<1> DEFINE fs == inspection.files
           t == OfRole(fs, roles)
<1>1. /\ fs \in Seq(Bundled) /\ DOMAIN fs = 1 .. Len(fs)
      /\ \A i, k \in 1 .. Len(fs) : i # k => fs[i].flat # fs[k].flat
  BY InspectedFiles DEF IInv
<1>2. \E p : Ordered(p, t, fs, roles)
  BY <1>1, RoleFiles
<1>3. ASSUME NEW b, IsHere(b, roles)
      PROVE  \E i \in 1 .. Len(fs) : fs[i] = ByBase(fs, b) /\ fs[i].role \in roles
  <2>1. HasBase(fs, b) /\ ByBase(fs, b).role \in roles
    BY <1>3 DEF IsHere
  <2> HIDE DEF fs
  <2>2. \E i \in DOMAIN fs : ByBase(fs, b) = fs[i] /\ Base(fs[i].file) = b
    BY <1>1, <2>1, Looked
  <2> QED
    BY <1>1, <2>1, <2>2
<1> HIDE DEF t, fs
<1>4. PICK p : Ordered(p, t, fs, roles)
  BY <1>2, Zenon
<1>5. \A k \in 1 .. Len(t) : p[k] \in 1 .. Len(fs) /\ t[k] = fs[p[k]] /\ t[k].role \in roles
  BY <1>4 DEF Ordered
<1>6. \A j, k \in 1 .. Len(t) : j # k => t[j].flat # t[k].flat
  <2>1. \A j, k \in 1 .. Len(t) : j # k => p[j] # p[k]
    BY <1>4 DEF Ordered
  <2> QED
    BY <1>1, <1>5, <2>1
<1>7. \A k \in 1 .. Len(t) : t[k] \in Range(fs)
  BY <1>1, <1>5 DEF Range
<1>8. ASSUME NEW b, IsHere(b, roles) PROVE \E k \in 1 .. Len(t) : t[k] = ByBase(fs, b)
  <2>1. PICK i \in 1 .. Len(fs) : fs[i] = ByBase(fs, b) /\ fs[i].role \in roles
    BY <1>3, <1>8
  <2>2. PICK k \in 1 .. Len(t) : p[k] = i
    BY <1>4, <2>1 DEF Ordered
  <2> QED
    BY <1>5, <2>1, <2>2
<1> QED
  BY <1>5, <1>6, <1>7, <1>8 DEF t, fs

\* What NamesAgree asks of one artifact.
Agrees(a) ==
    /\ \A i, k \in DOMAIN a.members : i # k => a.members[i].name # a.members[k].name
    /\ \A i \in DOMAIN a.hrefs :
          upload.descriptor = "ovf" /\ IsHere(upload.lines[i].base, {"disk", "disk-extent"})
             => \E k \in DOMAIN a.members : a.members[k].name = a.hrefs[i]
    /\ \A k \in DOMAIN a.members : \A b \in a.members[k].from.lists :
          IsHere(b, {"disk-extent"}) =>
             /\ ByBase(inspection.files, b).flat \in a.members[k].lists
             /\ \E l \in DOMAIN a.members : a.members[l].name = ByBase(inspection.files, b).flat

\* Without extents there is no part that a descriptor could name.
LEMMA NoneListed ==
    ASSUME IInv, Alive, Extents = <<>>
    PROVE  \A b : ~IsHere(b, {"disk-extent"})
<1>1. ASSUME NEW b, IsHere(b, {"disk-extent"}) PROVE FALSE
  <2>1. \E k \in 1 .. Len(Extents) : Extents[k] = ByBase(inspection.files, b)
    BY <1>1, RoleNames, Zenon DEF Extents
  <2>2. Len(Extents) = 0
    OBVIOUS
  <2> QED
    BY <2>1, <2>2
<1> QED
  BY <1>1

\* An artifact of a single file.
LEMMA AgreesSingle ==
    ASSUME IInv, Alive, Extents = <<>>, NEW a, NEW f,
           a = [is |-> "disk", hrefs |-> <<>>, members |-> <<Member(f, {})>>]
    PROVE  Agrees(a)
<1> DEFINE mb == Member(f, {})
<1>1. \A b : ~IsHere(b, {"disk-extent"})
  BY NoneListed
<1>2. a.hrefs = <<>> /\ a.members = <<mb>>
  OBVIOUS
<1> HIDE DEF mb
<1>3. DOMAIN a.members = {1} /\ DOMAIN a.hrefs = {}
  BY <1>2
<1> QED
  BY <1>1, <1>3 DEF Agrees

\* A split disk and its parts, on their way to be merged.
LEMMA AgreesMerged ==
    ASSUME IInv, Alive, DiskFiles # <<>>, NEW a,
           a = [is |-> "merged", hrefs |-> <<>>,
                members |-> <<Member(DiskFiles[1], Rewrite(DiskFiles[1]))>>
                            \o [i \in DOMAIN Extents |-> Member(Extents[i], {})]]
    PROVE  Agrees(a)
<1> DEFINE d == DiskFiles[1]
           first == Member(d, Rewrite(d))
           parts == [i \in DOMAIN Extents |-> Member(Extents[i], {})]
           n == Len(Extents)
<1>1. /\ inspection.files \in Seq(Bundled)
      /\ DOMAIN inspection.files = 1 .. Len(inspection.files)
      /\ \A i \in 1 .. Len(inspection.files) :
            inspection.files[i].role \in {"disk", RoleOf(inspection.files[i].file)}
      /\ \A i, k \in 1 .. Len(inspection.files) :
            i # k => inspection.files[i].flat # inspection.files[k].flat
  BY InspectedFiles DEF IInv
<1>2. /\ DiskFiles \in Seq(Bundled) /\ Len(DiskFiles) \in Nat
      /\ DOMAIN Extents = 1 .. n /\ n \in Nat
  BY <1>1, RoleFiles DEF DiskFiles, Extents
<1>3. 1 \in 1 .. Len(DiskFiles)
  <2>1. Len(DiskFiles) # 0
    BY <1>2, EmptySeq
  <2> QED
    BY <1>2, <2>1
<1>4. d \in Range(inspection.files) /\ d.role = "disk"
  BY <1>3, RoleNames DEF DiskFiles
<1>5. /\ \A k \in 1 .. n : Extents[k] \in Range(inspection.files) /\ Extents[k].role = "disk-extent"
      /\ \A j, k \in 1 .. n : j # k => Extents[j].flat # Extents[k].flat
      /\ \A b : IsHere(b, {"disk-extent"}) => \E k \in 1 .. n : Extents[k] = ByBase(inspection.files, b)
  BY RoleNames DEF Extents
<1>6. \A f, g \in Range(inspection.files) : f.role # g.role => f.flat # g.flat
  <2> DEFINE fs == inspection.files
  <2> HIDE DEF fs
  <2>1. \A f \in Range(fs) : \E i \in 1 .. Len(fs) : f = fs[i]
    BY <1>1 DEF Range, fs
  <2>2. \A i, k \in 1 .. Len(fs) : i # k => fs[i].flat # fs[k].flat
    BY <1>1 DEF fs
  <2>3. \A f, g \in Range(fs) : f.role # g.role => f.flat # g.flat
    BY <2>1, <2>2
  <2> QED
    BY <2>3 DEF fs
<1>7. \A k \in 1 .. n : Extents[k].file.lists = {}
  <2>1. ASSUME NEW f \in Range(inspection.files), f.role = "disk-extent"
        PROVE  f.file.lists = {}
    <3> DEFINE fs == inspection.files
    <3>1. PICK i \in 1 .. Len(fs) : f = fs[i]
      BY <1>1 DEF Range
    <3>2. f.role = RoleOf(f.file) /\ f \in Bundled
      BY <1>1, <2>1, <3>1, ElementOfSeq
    <3>3. f.file \in Files
      BY <3>2 DEF Bundled
    <3>4. f.file.ext # "vmdk"
      BY <2>1, <3>2 DEF RoleOf
    <3> QED
      BY <3>3, <3>4, FilesAssumption
  <2> QED
    BY <1>5, <2>1
<1>8. a.hrefs = <<>> /\ a.members = <<first>> \o parts
  <2> HIDE DEF first, parts
  <2>1. a = [is |-> "merged", hrefs |-> <<>>, members |-> <<first>> \o parts]
    BY Zenon DEF first, parts
  <2> QED
    BY <2>1
<1>9. /\ first.name = d.flat /\ first.from = d.file /\ first.lists = Rewrite(d)
      /\ \A i \in 1 .. n : /\ parts[i].name = Extents[i].flat /\ parts[i].from = Extents[i].file
      /\ DOMAIN parts = 1 .. n
  BY <1>2 DEF Member
<1> HIDE DEF d, parts, first, n
<1>10. /\ DOMAIN a.members = 1 .. n + 1
       /\ a.members[1] = first
       /\ \A i \in 1 .. n : a.members[i + 1] = parts[i]
  <2> DEFINE one == <<first>>
             S == {first} \cup {parts[i] : i \in 1 .. n}
  <2>1. one \in Seq(S) /\ Len(one) = 1 /\ one[1] = first
    OBVIOUS
  <2>2. parts \in Seq(S) /\ Len(parts) = n
    <3>1. parts = [i \in 1 .. n |-> parts[i]]
      BY <1>9 DEF parts
    <3>2. n \in Nat /\ \A i \in 1 .. n : parts[i] \in S
      BY <1>2 DEF n
    <3> HIDE DEF S, parts
    <3>3. parts \in [1 .. n -> S]
      <4>1. parts = [i \in 1 .. n |-> parts[i]]
        BY <3>1
      <4>2. \A i \in 1 .. n : parts[i] \in S
        BY <3>2
      <4> DEFINE g == [i \in 1 .. n |-> parts[i]]
      <4>3. g \in [1 .. n -> S]
        BY <4>2
      <4> HIDE DEF g
      <4>4. parts = g
        BY <4>1 DEF g
      <4> QED
        BY <4>3, <4>4
    <3> QED
      BY <3>2, <3>3
  <2> HIDE DEF one, S
  <2>3. /\ one \o parts \in Seq(S)
        /\ Len(one \o parts) = 1 + n
        /\ \A i \in 1 .. Len(one) + Len(parts) :
              (one \o parts)[i] = IF i <= Len(one) THEN one[i] ELSE parts[i - Len(one)]
    BY <2>1, <2>2, ConcatProperties
  <2>4. a.members = one \o parts
    BY <1>8 DEF one
  <2>5. DOMAIN (one \o parts) = 1 .. 1 + n
    BY <2>3, LenProperties
  <2>6. n \in Nat
    BY <1>2 DEF n
  <2>7. \A i \in 1 .. 1 + n : (one \o parts)[i] = IF i <= 1 THEN first ELSE parts[i - 1]
    BY <2>1, <2>2, <2>3, <2>6
  <2>8. \A i \in 1 .. n : i + 1 \in 1 .. 1 + n /\ ~(i + 1 <= 1) /\ (i + 1) - 1 = i
    BY <2>6
  <2>9. 1 \in 1 .. 1 + n /\ 1 <= 1 /\ 1 .. 1 + n = 1 .. n + 1
    BY <2>6
  <2>10. (one \o parts)[1] = first /\ \A i \in 1 .. n : (one \o parts)[i + 1] = parts[i]
    <3>1. (one \o parts)[1] = first
      BY <2>7, <2>9
    <3>2. ASSUME NEW i \in 1 .. n PROVE (one \o parts)[i + 1] = parts[i]
      BY <2>7, <2>8
    <3> QED
      BY <3>1, <3>2
  <2> QED
    BY <2>4, <2>5, <2>9, <2>10
<1>11. n \in Nat /\ \A i \in 1 .. n + 1 : i = 1 \/ \E j \in 1 .. n : i = j + 1
  <2>1. n \in Nat
    BY <1>2 DEF n
  <2>2. ASSUME NEW i \in 1 .. n + 1, i # 1 PROVE \E j \in 1 .. n : i = j + 1
    <3>1. i - 1 \in 1 .. n /\ i = (i - 1) + 1
      BY <2>1, <2>2
    <3> QED
      BY <3>1
  <2> QED
    BY <2>1, <2>2
<1> DEFINE nm(i) == a.members[i].name
<1>12. nm(1) = d.flat /\ \A j \in 1 .. n : nm(j + 1) = Extents[j].flat
  BY <1>9, <1>10
<1>13. \A j \in 1 .. n : d.flat # Extents[j].flat
  BY <1>4, <1>5, <1>6 DEF n
<1>14. ASSUME NEW i \in DOMAIN a.members, NEW k \in DOMAIN a.members, i # k
       PROVE  a.members[i].name # a.members[k].name
  <2>1. \A j, l \in 1 .. n : j # l => Extents[j].flat # Extents[l].flat
    BY <1>5 DEF n
  <2>2. i \in 1 .. n + 1 /\ k \in 1 .. n + 1
    BY <1>10
  <2> HIDE DEF nm
  <2>3. nm(i) # nm(k)
    <3>1. CASE i = 1
      <4>1. PICK l \in 1 .. n : k = l + 1
        BY <1>11, <1>14, <2>2, <3>1
      <4> QED
        BY <1>12, <1>13, <3>1, <4>1
    <3>2. CASE k = 1
      <4>1. PICK l \in 1 .. n : i = l + 1
        BY <1>11, <1>14, <2>2, <3>2
      <4> QED
        BY <1>12, <1>13, <3>2, <4>1
    <3>3. CASE i # 1 /\ k # 1
      <4>1. PICK j \in 1 .. n : i = j + 1
        BY <1>11, <2>2, <3>3
      <4>2. PICK l \in 1 .. n : k = l + 1
        BY <1>11, <2>2, <3>3
      <4>3. j # l
        BY <1>14, <4>1, <4>2
      <4> QED
        BY <1>12, <2>1, <4>1, <4>2, <4>3
    <3> QED
      BY <3>1, <3>2, <3>3
  <2> QED
    BY <2>3 DEF nm
<1>15. ASSUME NEW k \in DOMAIN a.members, NEW b \in a.members[k].from.lists, IsHere(b, {"disk-extent"})
       PROVE  /\ ByBase(inspection.files, b).flat \in a.members[k].lists
              /\ \E l \in DOMAIN a.members : a.members[l].name = ByBase(inspection.files, b).flat
  <2>1. k = 1
    <3>1. SUFFICES ASSUME NEW j \in 1 .. n, k = j + 1 PROVE FALSE
      BY <1>10, <1>11
    <3>2. a.members[k].from = Extents[j].file
      BY <1>9, <1>10, <3>1
    <3>3. Extents[j].file.lists = {}
      BY <1>7 DEF n
    <3> QED
      BY <1>15, <3>2, <3>3
  <2>2. b \in d.file.lists /\ a.members[k].lists = Rewrite(d)
    BY <1>9, <1>10, <1>15, <2>1
  <2>3. ByBase(inspection.files, b).flat \in Rewrite(d)
    BY <1>15, <2>2 DEF Rewrite, IsHere
  <2>4. PICK j \in 1 .. n : Extents[j] = ByBase(inspection.files, b)
    BY <1>5, <1>15 DEF n
  <2>5. j + 1 \in DOMAIN a.members /\ a.members[j + 1].name = Extents[j].flat
    <3>1. j + 1 \in 1 .. n + 1
      BY <1>11
    <3> QED
      BY <1>10, <1>12, <3>1 DEF nm
  <2> QED
    BY <2>2, <2>3, <2>4, <2>5
<1>16. DOMAIN a.hrefs = {}
  BY <1>8
<1> QED
  BY <1>14, <1>15, <1>16 DEF Agrees

\* The lines of an OVF's descriptor are all of its disks' references.
LEMMA SaidAll ==
    ASSUME upload \in Uploads, upload.descriptor = "ovf"
    PROVE  Saying({"attached", "listed"}) = upload.lines
<1> DEFINE R == [base : Bases0, says : {"attached", "listed"}]
           lines == upload.lines
<1>1. lines \in Seq(R)
  BY Uploaded DEF GoodLines
<1>2. DOMAIN lines = 1 .. Len(lines)
  BY <1>1, LenProperties
<1>3. \A i \in 1 .. Len(lines) : lines[i].says \in {"attached", "listed"}
  <2>1. \A i \in 1 .. Len(lines) : lines[i] \in R
    BY <1>1, ElementOfSeq
  <2> QED
    BY <2>1
<1> HIDE DEF lines
<1>4. {i \in DOMAIN lines : lines[i].says \in {"attached", "listed"}} = 1 .. Len(lines)
  BY <1>2, <1>3
<1>5. Picked(lines, 1 .. Len(lines)) = lines
  BY <1>1, PicksAll
<1> QED
  BY <1>4, <1>5 DEF Saying, lines

\* What an OVF's descriptor calls a disk: what the file travels under, if it is here.
Href(b) == IF HasBase(inspection.files, b) THEN ByBase(inspection.files, b).flat ELSE b

\* An OVF is sent with each line under the name that the file travels under.
LEMMA HrefsOvf ==
    ASSUME upload \in Uploads, upload.descriptor = "ovf"
    PROVE  Hrefs = [i \in DOMAIN upload.lines |-> Href(upload.lines[i].base)]
<1> DEFINE said == Saying({"attached", "listed"})
           refs == Bases(said)
<1>1. said = upload.lines
  BY SaidAll
<1>2. Hrefs = [i \in DOMAIN refs |-> Href(refs[i])]
  BY Zenon DEF Hrefs, Href
<1> HIDE DEF said
<1>3. DOMAIN refs = DOMAIN upload.lines /\ \A i \in DOMAIN refs : refs[i] = upload.lines[i].base
  BY <1>1 DEF Bases
<1> HIDE DEF refs
<1> QED
  BY <1>2, <1>3

\* An OVA: its descriptor names what is in it.
LEMMA AgreesOva ==
    ASSUME IInv, Alive, Extents = <<>>, artifacts = OvaPackage
    PROVE  Agrees(artifacts[1])
<1> DEFINE a == artifacts[1]
           t == OvaFiles
           n == Len(t)
<1>1. /\ a.hrefs = Hrefs /\ a.members = [i \in DOMAIN t |-> Member(t[i], Rewrite(t[i]))]
  BY OvaIs DEF Ova
<1>2. inspection.files \in Seq(Bundled)
  BY InspectedFiles DEF IInv
<1>3. DOMAIN t = 1 .. n
  BY <1>2, RoleFiles DEF OvaFiles
<1>4. /\ \A j, k \in 1 .. n : j # k => t[j].flat # t[k].flat
      /\ \A b : IsHere(b, {"disk", "disk-extent"}) => \E k \in 1 .. n : t[k] = ByBase(inspection.files, b)
  BY RoleNames DEF OvaFiles
<1> HIDE DEF n, t
<1>5. DOMAIN a.members = 1 .. n /\ \A k \in 1 .. n : a.members[k].name = t[k].flat
  BY <1>1, <1>3 DEF Member
<1> HIDE DEF a
<1>6. ASSUME NEW i \in DOMAIN a.hrefs, upload.descriptor = "ovf",
             IsHere(upload.lines[i].base, {"disk", "disk-extent"})
      PROVE  \E k \in DOMAIN a.members : a.members[k].name = a.hrefs[i]
  <2> DEFINE b == upload.lines[i].base
  <2>1. a.hrefs = [j \in DOMAIN upload.lines |-> Href(upload.lines[j].base)]
    BY <1>1, <1>6, HrefsOvf DEF IInv
  <2>2. a.hrefs[i] = Href(b)
    BY <1>6, <2>1
  <2>3. Href(b) = ByBase(inspection.files, b).flat
    BY <1>6 DEF Href, IsHere
  <2>4. PICK k \in 1 .. n : t[k] = ByBase(inspection.files, b)
    BY <1>4, <1>6
  <2> QED
    BY <1>5, <2>2, <2>3, <2>4
<1>7. \A b : ~IsHere(b, {"disk-extent"})
  BY NoneListed
<1>8. \A i, k \in DOMAIN a.members : i # k => a.members[i].name # a.members[k].name
  BY <1>4, <1>5
<1> QED
  BY <1>6, <1>7, <1>8 DEF Agrees, a

\* Every way to package agrees on names.
LEMMA Agreement == IInv => NamesAgree
<1> SUFFICES ASSUME IInv, pc \in {"packaged", "sent", "created"}, NEW a \in Range(artifacts)
             PROVE  Agrees(a)
  <2>1. ASSUME NEW a, Agrees(a)
        PROVE  /\ \A i, k \in DOMAIN a.members : i # k => a.members[i].name # a.members[k].name
               /\ LET names == {m.name : m \in Range(a.members)} IN
                  /\ \A i \in DOMAIN a.hrefs :
                       upload.descriptor = "ovf" /\ IsHere(upload.lines[i].base, {"disk", "disk-extent"})
                           => a.hrefs[i] \in names
                  /\ \A m \in Range(a.members) : \A b \in m.from.lists :
                       IsHere(b, {"disk-extent"}) =>
                           ByBase(inspection.files, b).flat \in m.lists \cap names
    <3> DEFINE names == {m.name : m \in Range(a.members)}
    <3>1. \A k \in DOMAIN a.members : a.members[k].name \in names
      BY DEF Range
    <3>2. \A m \in Range(a.members) : \E k \in DOMAIN a.members : m = a.members[k]
      BY DEF Range
    <3> HIDE DEF names
    <3>3. \A i \in DOMAIN a.hrefs :
             upload.descriptor = "ovf" /\ IsHere(upload.lines[i].base, {"disk", "disk-extent"})
                 => a.hrefs[i] \in names
      BY <2>1, <3>1 DEF Agrees
    <3>4. ASSUME NEW m \in Range(a.members), NEW b \in m.from.lists, IsHere(b, {"disk-extent"})
          PROVE  ByBase(inspection.files, b).flat \in m.lists \cap names
      <4>1. PICK k \in DOMAIN a.members : m = a.members[k]
        BY <3>2
      <4>2. /\ ByBase(inspection.files, b).flat \in a.members[k].lists
            /\ \E l \in DOMAIN a.members : a.members[l].name = ByBase(inspection.files, b).flat
        BY <2>1, <3>4, <4>1 DEF Agrees
      <4> QED
        BY <3>1, <4>1, <4>2
    <3>5. \A i, k \in DOMAIN a.members : i # k => a.members[i].name # a.members[k].name
      BY <2>1 DEF Agrees
    <3> QED
      BY <3>3, <3>4, <3>5 DEF names
  <2> QED
    BY <2>1, Zenon DEF NamesAgree
<1>1. Alive /\ IsPacked
  BY DEF Alive, IsPacked
<1>2. CASE upload.kind = "raw" /\ artifacts = RawPackage
  <2>1. Extents = <<>>
    BY <1>1, <1>2, NoParts
  <2> DEFINE c == [is |-> "disk", hrefs |-> <<>>, members |-> <<Member(inspection.files[1], {})>>]
  <2>2. artifacts = <<c>>
    BY <1>2, Zenon DEF RawPackage
  <2>3. Agrees(c)
    BY <1>1, <2>1, AgreesSingle
  <2> HIDE DEF c
  <2>4. a = c
    BY <2>2 DEF Range
  <2> QED
    BY <2>3, <2>4
<1>3. CASE upload.kind # "raw" /\ artifacts = MergedPackage
  <2> DEFINE c == [is |-> "merged", hrefs |-> <<>>,
                   members |-> <<Member(DiskFiles[1], Rewrite(DiskFiles[1]))>>
                               \o [i \in DOMAIN Extents |-> Member(Extents[i], {})]]
  <2>1. artifacts = <<c>>
    BY <1>3, Zenon DEF MergedPackage
  <2>2. DiskFiles # <<>>
    BY <1>1, <1>3 DEF IInv, Packed
  <2>3. Agrees(c)
    BY <1>1, <2>2, AgreesMerged
  <2> HIDE DEF c
  <2>4. a = c
    BY <2>1 DEF Range
  <2> QED
    BY <2>3, <2>4
<1>4. CASE Extents = <<>> /\ artifacts = DiskPackages
  <2> DEFINE c(i) == [is |-> "disk", hrefs |-> <<>>, members |-> <<Member(DiskFiles[i], {})>>]
  <2>1. artifacts = [i \in DOMAIN DiskFiles |-> c(i)]
    BY <1>4, Zenon DEF DiskPackages
  <2>2. \A i : Agrees(c(i))
    BY <1>1, <1>4, AgreesSingle
  <2> HIDE DEF c
  <2>3. \E i \in DOMAIN DiskFiles : a = c(i)
    BY <2>1 DEF Range
  <2> QED
    BY <2>2, <2>3
<1>5. CASE Extents = <<>> /\ artifacts = OvaPackage
  <2>1. Agrees(artifacts[1])
    BY <1>1, <1>5, AgreesOva
  <2>2. Range(artifacts) = {artifacts[1]}
    BY <1>5, OvaIs
  <2> QED
    BY <2>1, <2>2
<1> QED
  BY <1>1, <1>2, <1>3, <1>4, <1>5 DEF IInv, Packed

-----------------------------------------------------------------------------
(* Disks *)

Usable(fs, r) == HasBase(fs, r) /\ ByBase(fs, r).role = "disk"

\* Resolving keeps what can be used of the references; failing that, all disks.
LEMMA Resolves ==
    ASSUME NEW fs \in Seq(Bundled), NEW S, NEW refs \in Seq(S), NEW d \in Range(ResolveDisks(refs, fs))
    PROVE  \/ \E i \in 1 .. Len(refs) : Usable(fs, refs[i]) /\ d = ByBase(fs, refs[i]).file
           \/ /\ \A i \in 1 .. Len(refs) : ~Usable(fs, refs[i])
              /\ \E k \in DOMAIN OfRole(fs, {"disk"}) : d = OfRole(fs, {"disk"})[k].file
<1> DEFINE at == {i \in DOMAIN refs : Usable(fs, refs[i])}
           t == Picked(refs, at)
           all == OfRole(fs, {"disk"})
<1>1. ResolveDisks(refs, fs) =
         IF t # <<>> THEN [i \in DOMAIN t |-> ByBase(fs, t[i]).file]
         ELSE [i \in DOMAIN all |-> all[i].file]
  BY Zenon DEF ResolveDisks, Usable
<1>2. DOMAIN refs = 1 .. Len(refs)
  BY LenProperties
<1>3. at \in SUBSET (1 .. Len(refs)) /\ \A i \in 1 .. Len(refs) : i \in at <=> Usable(fs, refs[i])
  BY <1>2
<1> HIDE DEF at, all
<1>4. t \in Seq(S) /\ Len(t) \in Nat /\ \E p : Selects(p, refs, at)
  BY <1>3, Selecting
<1>5. PICK p : Selects(p, refs, at)
  BY <1>4, Zenon
<1>6. /\ \A k \in 1 .. Len(t) : p[k] \in at /\ t[k] = refs[p[k]]
      /\ \A i \in at : \E k \in 1 .. Len(t) : p[k] = i
  BY <1>5 DEF Selects
<1> HIDE DEF t
<1>7. CASE t # <<>>
  <2>1. PICK k \in DOMAIN t : d = ByBase(fs, t[k]).file
    BY <1>1, <1>7 DEF Range
  <2>2. k \in 1 .. Len(t)
    BY <1>4, <2>1, LenProperties
  <2> QED
    BY <1>3, <1>6, <2>1, <2>2
<1>8. CASE t = <<>>
  <2>1. Len(t) = 0
    BY <1>8
  <2>2. 1 .. Len(t) = {}
    BY <2>1
  <2>3. at = {}
    BY <1>6, <2>2
  <2>4. \E k \in DOMAIN all : d = all[k].file
    BY <1>1, <1>8 DEF Range
  <2> QED
    BY <1>3, <2>3, <2>4 DEF all
<1> QED
  BY <1>7, <1>8

\* What the lines of a descriptor say, each under its base name.
LEMMA Spoken ==
    ASSUME upload \in Uploads, NEW what
    PROVE  /\ Bases(Saying(what)) \in Seq(Bases0)
           /\ \A k \in 1 .. Len(Bases(Saying(what))) : \E i \in DOMAIN upload.lines :
                 /\ upload.lines[i].says \in what
                 /\ Bases(Saying(what))[k] = upload.lines[i].base
           /\ \A i \in DOMAIN upload.lines : upload.lines[i].says \in what =>
                 /\ Saying(what) # <<>>
                 /\ \E k \in 1 .. Len(Bases(Saying(what))) :
                       Bases(Saying(what))[k] = upload.lines[i].base
<1> DEFINE lines == upload.lines
           R == [base : Bases0, says : {"attached", "listed", "absent"}]
           at == {i \in DOMAIN lines : lines[i].says \in what}
           t == Picked(lines, at)
           b == Bases(t)
<1>1. lines \in Seq(R)
  BY Uploaded DEF GoodLines
<1>2. DOMAIN lines = 1 .. Len(lines)
  BY <1>1, LenProperties
<1>3. at \in SUBSET (1 .. Len(lines)) /\ \A i \in DOMAIN lines : i \in at <=> lines[i].says \in what
  BY <1>2
<1>4. Saying(what) = t
  BY DEF Saying
<1> HIDE DEF at, lines
<1>5. t \in Seq(R) /\ Len(t) \in Nat /\ \E p : Selects(p, lines, at)
  BY <1>1, <1>3, Selecting
<1>6. PICK p : Selects(p, lines, at)
  BY <1>5, Zenon
<1>7. /\ \A k \in 1 .. Len(t) : p[k] \in at /\ t[k] = lines[p[k]]
      /\ \A i \in at : \E k \in 1 .. Len(t) : p[k] = i
  BY <1>6 DEF Selects
<1> HIDE DEF t
<1>8. DOMAIN t = 1 .. Len(t)
  BY <1>5, LenProperties
<1>9. b = [k \in 1 .. Len(t) |-> t[k].base]
  BY <1>8 DEF Bases
<1>10. b \in Seq(Bases0) /\ Len(b) = Len(t)
  <2>1. \A k \in 1 .. Len(t) : t[k] \in R
    BY <1>5, ElementOfSeq
  <2>2. \A k \in 1 .. Len(t) : t[k].base \in Bases0
    BY <2>1
  <2> HIDE DEF b
  <2> QED
    BY <1>5, <1>9, <2>2
<1> HIDE DEF b
<1>11. \A k \in 1 .. Len(b) : \E i \in DOMAIN lines : lines[i].says \in what /\ b[k] = lines[i].base
  BY <1>2, <1>3, <1>7, <1>9, <1>10
<1>12. ASSUME NEW i \in DOMAIN lines, lines[i].says \in what
       PROVE  t # <<>> /\ \E k \in 1 .. Len(b) : b[k] = lines[i].base
  <2>1. PICK k \in 1 .. Len(t) : p[k] = i
    BY <1>3, <1>7, <1>12
  <2>2. b[k] = lines[i].base
    BY <1>7, <1>9, <2>1
  <2>3. t # <<>>
    <3>1. Len(<<>>) = 0
      OBVIOUS
    <3> QED
      BY <2>1, <3>1
  <2> QED
    BY <1>10, <2>1, <2>2, <2>3
<1> QED
  BY <1>4, <1>10, <1>11, <1>12 DEF b, lines

\* Files are told apart by their base names, and the disks of the inspection
\* are among the bundle's.
LEMMA Disks ==
    ASSUME IInv, Alive
    PROVE  /\ Composed \in Seq(Files)
           /\ Len(Composed) = Len(DiskFiles)
           /\ \A k \in 1 .. Len(DiskFiles) : Composed[k] = DiskFiles[k].file
           /\ Unambiguous => \A j, k \in 1 .. Len(Composed) : j # k => Composed[j] # Composed[k]
           /\ \A d \in Range(inspection.disks) : \E k \in 1 .. Len(Composed) : d = Composed[k]
<1> DEFINE fs == inspection.files
           t == DiskFiles
           c == Composed
<1>1. fs \in Seq(Bundled) /\ DOMAIN fs = 1 .. Len(fs)
  BY InspectedFiles DEF IInv
<1>2. t \in Seq(Bundled) /\ DOMAIN t = 1 .. Len(t) /\ Len(t) \in Nat
      /\ \E p : Ordered(p, t, fs, {"disk"})
  BY <1>1, RoleFiles DEF DiskFiles
<1>3. c = [k \in 1 .. Len(t) |-> t[k].file]
  BY <1>2 DEF Composed
<1>4. t = OfRole(fs, {"disk"}) /\ HeuristicDisks(fs) = c
  BY Zenon DEF HeuristicDisks, DiskFiles, Composed
<1>5. \A b : IsHere(b, {"disk"}) => \E k \in 1 .. Len(t) : t[k] = ByBase(fs, b)
  BY RoleNames DEF DiskFiles
<1> HIDE DEF t, c
<1>6. c \in Seq(Files) /\ Len(c) = Len(t) /\ \A k \in 1 .. Len(t) : c[k] = t[k].file
  <2>1. \A k \in 1 .. Len(t) : t[k] \in Bundled
    BY <1>2, ElementOfSeq
  <2>2. \A k \in 1 .. Len(t) : t[k].file \in Files
    BY <2>1 DEF Bundled
  <2> QED
    BY <1>2, <1>3, <2>2
<1>7. ASSUME Unambiguous, NEW j \in 1 .. Len(c), NEW k \in 1 .. Len(c), j # k PROVE c[j] # c[k]
  <2>1. \A i, l \in 1 .. Len(fs) : i # l => Base(fs[i].file) # Base(fs[l].file)
    BY <1>1, <1>7 DEF Unambiguous
  <2> HIDE DEF fs
  <2>2. PICK p : Ordered(p, t, fs, {"disk"})
    BY <1>2, Zenon
  <2>3. p[j] # p[k] /\ p[j] \in 1 .. Len(fs) /\ p[k] \in 1 .. Len(fs)
        /\ t[j] = fs[p[j]] /\ t[k] = fs[p[k]]
    BY <1>6, <1>7, <2>2 DEF Ordered
  <2> QED
    BY <1>6, <1>7, <2>1, <2>3
<1>8. ASSUME NEW d \in Range(inspection.disks) PROVE \E k \in 1 .. Len(c) : d = c[k]
  <2>1. inspection.disks = Found
    BY DEF IInv, Inspected
  <2>2. DOMAIN c = 1 .. Len(c)
    BY <1>6, LenProperties
  <2>3. CASE upload.descriptor = "none"
    <3>1. inspection.disks = c
      BY <1>4, <2>1, <2>3 DEF Found
    <3> QED
      BY <2>2, <3>1, <1>8 DEF Range
  <2>4. CASE upload.descriptor # "none"
    <3> DEFINE refs == IF upload.descriptor = "ovf" THEN ParseOvf ELSE ParseVmx
    <3>1. inspection.disks = ResolveDisks(refs, fs)
      BY <2>1, <2>4 DEF Found
    <3>2. refs \in Seq(Bases0)
      BY Spoken DEF ParseOvf, ParseVmx, IInv
    <3> HIDE DEF refs, fs
    <3>3. \/ \E i \in 1 .. Len(refs) : Usable(fs, refs[i]) /\ d = ByBase(fs, refs[i]).file
          \/ \E k \in DOMAIN OfRole(fs, {"disk"}) : d = OfRole(fs, {"disk"})[k].file
      <4>1. d \in Range(ResolveDisks(refs, fs))
        BY <1>8, <3>1
      <4> QED
        BY <1>1, <3>2, <4>1, Resolves
    <3>4. ASSUME NEW r, Usable(fs, r) PROVE \E k \in 1 .. Len(t) : t[k] = ByBase(fs, r)
      <4>1. IsHere(r, {"disk"})
        BY <3>4 DEF Usable, IsHere, fs
      <4> QED
        BY <1>5, <4>1
    <3>5. ASSUME NEW i \in 1 .. Len(refs), Usable(fs, refs[i]), d = ByBase(fs, refs[i]).file
          PROVE  \E k \in 1 .. Len(c) : d = c[k]
      <4>1. PICK k \in 1 .. Len(t) : t[k] = ByBase(fs, refs[i])
        BY <3>4, <3>5
      <4> QED
        BY <1>6, <3>5, <4>1
    <3>6. ASSUME NEW k \in DOMAIN t, d = t[k].file
          PROVE  \E l \in 1 .. Len(c) : d = c[l]
      BY <1>2, <1>6, <3>6
    <3> QED
      BY <1>4, <3>3, <3>5, <3>6
  <2> QED
    BY <2>3, <2>4
<1> QED
  BY <1>6, <1>7, <1>8 DEF t, c

\* Volumes of which each disk of the inspection is one, and none twice.
EachOnce(v) ==
    /\ v \in Seq(Files)
    /\ \A i, k \in 1 .. Len(v) : i # k => v[i] # v[k]
    /\ \A i \in 1 .. Len(v) : \E k \in 1 .. Len(Composed) : v[i] = Composed[k]
    /\ \A d \in Range(inspection.disks) : \E i \in 1 .. Len(v) : v[i] = d

\* The disks of the bundle are such volumes.
LEMMA ComposedOnce ==
    ASSUME IInv, Alive, Unambiguous
    PROVE  EachOnce(Composed)
BY Disks DEF EachOnce

\* There are no more of them than disks, so that all fit on the bus.
LEMMA NotMore ==
    ASSUME IInv, Alive, NEW v, EachOnce(v)
    PROVE  Len(v) \in Nat /\ Len(v) <= Len(DiskFiles)
<1> DEFINE n == Len(v)
           m == Len(Composed)
           c == Composed
           S == 1 .. n
           T == 1 .. m
           at(i) == CHOOSE k \in T : v[i] = c[k]
           g == [i \in S |-> at(i)]
<1>1. c \in Seq(Files) /\ m = Len(DiskFiles)
  BY Disks
<1>2. m \in Nat
  BY <1>1, LenProperties
<1>3. n \in Nat
  BY LenProperties DEF EachOnce
<1> HIDE DEF n, m, c
<1>4. \A i \in S : at(i) \in T /\ v[i] = c[at(i)]
  <2>1. \A i \in S : \E k \in T : v[i] = c[k]
    BY DEF EachOnce, n, m, c
  <2> QED
    BY <2>1
<1> HIDE DEF at
<1>5. g \in [S -> T]
  BY <1>4
<1>6. IsFiniteSet(S) /\ Cardinality(S) = n /\ IsFiniteSet(T) /\ Cardinality(T) = m
  BY <1>2, <1>3, FS_Interval
<1>7. \A i, k \in S : i # k => g[i] # g[k]
  <2>1. \A i, k \in S : i # k => v[i] # v[k]
    BY DEF EachOnce, n
  <2> QED
    BY <1>4, <2>1
<1>8. n <= m
  <2>1. SUFFICES ASSUME m < n PROVE FALSE
    BY <1>2, <1>3
  <2> HIDE DEF S, T, g
  <2>2. \E i, k \in S : i # k /\ g[i] = g[k]
    BY <1>5, <1>6, <2>1, FS_PigeonHole
  <2> QED
    BY <1>7, <2>2
<1> QED
  BY <1>1, <1>3, <1>8 DEF n

\* On a bus with room for them, all volumes are attached.
LEMMA AllAttached ==
    ASSUME IInv, Alive, NEW v \in Seq(Files), Len(v) <= BusLimits[ChooseBus]
    PROVE  Attachable(v) = v
<1> DEFINE n == Len(v)
           limit == BusLimits[ChooseBus]
           least == Min({n, limit})
<1>1. n \in Nat
  BY LenProperties
<1>2. limit \in Nat
  <2>1. settings.bus \in Buses
    BY DEF IInv, Settled
  <2>2. ChooseBus \in DOMAIN BusLimits
    BY <2>1, BusAssumption DEF ChooseBus
  <2> QED
    BY <2>2, BusAssumption
<1>3. Attachable(v) = SubSeq(v, 1, least)
  BY Zenon DEF Attachable
<1>4. n <= limit
  OBVIOUS
<1> HIDE DEF n, limit
<1>5. least = n
  <2>1. n \in {n, limit} /\ \A y \in {n, limit} : n <= y
    BY <1>1, <1>2, <1>4
  <2>2. \A x \in {n, limit} : (\A y \in {n, limit} : x <= y) => x = n
    BY <1>1, <1>2, <1>4
  <2> QED
    BY <2>1, <2>2 DEF Min
<1> HIDE DEF least
<1>6. SubSeq(v, 1, n) = v
  <2> DEFINE s == SubSeq(v, 1, n)
  <2>1. 1 \in 1 .. n + 1 /\ n \in 1 - 1 .. n /\ n - 1 + 1 = n
    BY <1>1
  <2>2. s \in Seq(Files) /\ Len(s) = n /\ \A i \in 1 .. n : s[i] = v[1 + i - 1]
    BY <1>1, <2>1, SubSeqProperties DEF n
  <2>3. \A i \in 1 .. n : 1 + i - 1 = i
    BY <1>1
  <2> HIDE DEF s
  <2>4. \A i \in 1 .. n : s[i] = v[i]
    BY <2>2, <2>3
  <2> QED
    BY <2>2, <2>4, SeqEqual DEF n, s
<1> QED
  BY <1>3, <1>5, <1>6

\* Without parts, the OVA holds the disks, each under the name of one file.
LEMMA OvaDisks ==
    ASSUME IInv, Alive, Extents = <<>>, artifacts = OvaPackage
    PROVE  /\ DOMAIN Ova = 1 .. Len(DiskFiles)
           /\ \A k \in 1 .. Len(DiskFiles) :
                 Ova[k].name = DiskFiles[k].flat /\ Ova[k].from = DiskFiles[k].file
           /\ DiskFiles \in Seq(Bundled) /\ Len(DiskFiles) \in Nat
           /\ DOMAIN DiskFiles = 1 .. Len(DiskFiles)
<1> DEFINE fs == inspection.files
           t == DiskFiles
<1>1. \A i \in DOMAIN fs : fs[i].role # "disk-extent"
  BY NoParts
<1>2. OvaFiles = t
  <2>1. {i \in DOMAIN fs : fs[i].role \in {"disk", "disk-extent"}}
           = {i \in DOMAIN fs : fs[i].role \in {"disk"}}
    BY <1>1
  <2> QED
    BY <2>1 DEF OvaFiles, DiskFiles, OfRole
<1>3. t \in Seq(Bundled) /\ Len(t) \in Nat /\ DOMAIN t = 1 .. Len(t)
  BY InspectedFiles, RoleFiles DEF IInv, DiskFiles
<1>4. Ova = [i \in DOMAIN t |-> Member(t[i], Rewrite(t[i]))]
  BY <1>2, OvaIs
<1> HIDE DEF t
<1>5. DOMAIN Ova = 1 .. Len(t)
      /\ \A k \in 1 .. Len(t) : Ova[k].name = t[k].flat /\ Ova[k].from = t[k].file
  BY <1>3, <1>4 DEF Member
<1> QED
  BY <1>3, <1>5 DEF t

\* The member of a name, and the places of the names that Proxmox finds.
Holder(name) == CHOOSE m \in {m \in Range(Ova) : m.name = name} : TRUE
Places ==
    {i \in DOMAIN Hrefs : /\ upload.descriptor = "ovf" => upload.lines[i].says = "attached"
                          /\ \E m \in Range(Ova) : m.name = Hrefs[i]}

\* What Proxmox names is what the members at these places hold.
LEMMA NamedIs ==
    Named = [k \in DOMAIN Picked(Hrefs, Places) |-> Holder(Picked(Hrefs, Places)[k]).from]
<1> DEFINE Attached(i) == upload.descriptor = "ovf" => upload.lines[i].says = "attached"
           Holding(name) == {m \in Range(Ova) : m.name = name}
           at == {i \in DOMAIN Hrefs : Attached(i) /\ Holding(Hrefs[i]) # {}}
<1>1. Named = [k \in DOMAIN Picked(Hrefs, at) |-> Holder(Picked(Hrefs, at)[k]).from]
  BY Zenon DEF Named, Holder
<1>2. at = Places
  <2>1. \A i : Holding(Hrefs[i]) # {} <=> \E m \in Range(Ova) : m.name = Hrefs[i]
    OBVIOUS
  <2> QED
    BY <2>1 DEF Places
<1> QED
  BY <1>1, <1>2, Zenon

\* The package holds the disks and nothing else, one for each name.
LEMMA Held ==
    ASSUME IInv, Alive, Extents = <<>>, artifacts = OvaPackage
    PROVE  /\ \A name : (\E m \in Range(Ova) : m.name = name)
                           <=> \E k \in 1 .. Len(DiskFiles) : DiskFiles[k].flat = name
           /\ \A k \in 1 .. Len(DiskFiles) : Holder(DiskFiles[k].flat).from = DiskFiles[k].file
<1> DEFINE t == DiskFiles
           o == Ova
<1>1. /\ DOMAIN o = 1 .. Len(t)
      /\ \A k \in 1 .. Len(t) : o[k].name = t[k].flat /\ o[k].from = t[k].file
  BY OvaDisks
<1>2. \A j, k \in 1 .. Len(t) : j # k => t[j].flat # t[k].flat
  BY RoleNames DEF DiskFiles
<1> HIDE DEF t, o
<1>3. \A name : (\E m \in Range(o) : m.name = name) <=> \E k \in 1 .. Len(t) : t[k].flat = name
  BY <1>1 DEF Range
<1>4. ASSUME NEW k \in 1 .. Len(t) PROVE Holder(t[k].flat).from = t[k].file
  <2> DEFINE H == {m \in Range(o) : m.name = t[k].flat}
  <2>1. H = {o[k]}
    BY <1>1, <1>2 DEF Range
  <2>2. Holder(t[k].flat) = CHOOSE m \in H : TRUE
    BY Zenon DEF Holder, o
  <2>3. Holder(t[k].flat) = o[k]
    BY <2>1, <2>2
  <2> QED
    BY <1>1, <2>3
<1> QED
  BY <1>3, <1>4 DEF t, o

\* Under the descriptor that is built for it, the package has all disks.
LEMMA NamedBuilt ==
    ASSUME IInv, Alive, Extents = <<>>, artifacts = OvaPackage, upload.descriptor # "ovf"
    PROVE  Named = Composed
<1> DEFINE t == DiskFiles
           n == Len(t)
           h == Hrefs
<1>1. h = [i \in DOMAIN t |-> t[i].flat]
  BY Zenon DEF Hrefs, BuildOvf
<1>2. t \in Seq(Bundled) /\ n \in Nat /\ DOMAIN t = 1 .. n
  BY OvaDisks
<1>3. /\ \A k \in 1 .. n : \E m \in Range(Ova) : m.name = t[k].flat
      /\ \A k \in 1 .. n : Holder(t[k].flat).from = t[k].file
  BY Held
<1>4. Composed = [i \in DOMAIN t |-> t[i].file]
  BY DEF Composed
<1> HIDE DEF t, n, h
<1>5. DOMAIN h = 1 .. n /\ \A k \in 1 .. n : h[k] = t[k].flat
  BY <1>1, <1>2
<1>6. Places = 1 .. n
  BY <1>3, <1>5 DEF Places, h
<1>7. h \in Seq(Flats) /\ Len(h) = n
  <2>1. \A k \in 1 .. n : t[k] \in Bundled
    BY <1>2, ElementOfSeq DEF n
  <2>2. \A k \in 1 .. n : t[k].flat \in Flats
    BY <2>1 DEF Bundled
  <2>3. h = [k \in 1 .. n |-> t[k].flat]
    BY <1>1, <1>2
  <2> QED
    BY <1>2, <2>2, <2>3
<1>8. Picked(h, 1 .. n) = h
  BY <1>7, PicksAll
<1>9. Named = [k \in DOMAIN h |-> Holder(h[k]).from]
  BY <1>6, <1>8, NamedIs DEF h
<1> QED
  BY <1>2, <1>3, <1>4, <1>5, <1>9

\* Of an OVF's lines, those are found that attach a disk that is here.
LEMMA Attaches ==
    ASSUME IInv, Alive, Unambiguous, Extents = <<>>, artifacts = OvaPackage,
           upload.descriptor = "ovf", NEW i \in DOMAIN upload.lines
    PROVE  /\ i \in Places <=> /\ upload.lines[i].says = "attached"
                               /\ Usable(inspection.files, upload.lines[i].base)
           /\ i \in Places =>
                 Holder(Hrefs[i]).from = ByBase(inspection.files, upload.lines[i].base).file
<1> DEFINE fs == inspection.files
           t == DiskFiles
           b == upload.lines[i].base
<1>1. Hrefs = [j \in DOMAIN upload.lines |-> Href(upload.lines[j].base)]
  BY HrefsOvf DEF IInv
<1>2. DOMAIN Hrefs = DOMAIN upload.lines /\ Hrefs[i] = Href(b)
  BY <1>1
<1>3. i \in Places <=> /\ upload.lines[i].says = "attached"
                       /\ \E k \in 1 .. Len(t) : t[k].flat = Href(b)
  BY <1>2, Held DEF Places
<1>4. \A k \in 1 .. Len(t) : t[k] \in Range(fs) /\ t[k].role = "disk"
  BY RoleNames DEF DiskFiles
<1>5. ASSUME Usable(fs, b)
      PROVE  \E k \in 1 .. Len(t) : t[k].flat = Href(b) /\ t[k] = ByBase(fs, b)
  <2>1. IsHere(b, {"disk"}) /\ Href(b) = ByBase(fs, b).flat
    BY <1>5 DEF Usable, IsHere, Href
  <2>2. \E k \in 1 .. Len(t) : t[k] = ByBase(fs, b)
    BY <2>1, RoleNames DEF DiskFiles
  <2> QED
    BY <2>1, <2>2
<1>6. ASSUME NEW k \in 1 .. Len(t), t[k].flat = Href(b)
      PROVE  Usable(fs, b) /\ ByBase(fs, b) = t[k]
  <2>1. b \in Range(Bases(upload.lines))
    <3>1. DOMAIN Bases(upload.lines) = DOMAIN upload.lines /\ Bases(upload.lines)[i] = b
      BY DEF Bases
    <3> QED
      BY <3>1 DEF Range
  <2>2. HasBase(fs, b)
    <3>1. SUFFICES ASSUME ~HasBase(fs, b) PROVE FALSE
      OBVIOUS
    <3>2. Href(b) = b
      BY <3>1 DEF Href
    <3>3. \A f \in Range(fs) : f.flat # b
      BY <2>1, <3>1 DEF Unambiguous
    <3> QED
      BY <1>4, <1>6, <3>2, <3>3
  <2>3. fs \in Seq(Bundled) /\ DOMAIN fs = 1 .. Len(fs)
        /\ \A j, l \in 1 .. Len(fs) : j # l => fs[j].flat # fs[l].flat
    BY InspectedFiles DEF IInv
  <2>4. Href(b) = ByBase(fs, b).flat
    BY <2>2 DEF Href
  <2>5. t[k] \in Range(fs) /\ t[k].role = "disk"
    BY <1>4
  <2> HIDE DEF fs, t, b
  <2>6. PICK j \in DOMAIN fs : ByBase(fs, b) = fs[j] /\ Base(fs[j].file) = b
    BY <2>2, <2>3, Looked
  <2>7. PICK l \in DOMAIN fs : t[k] = fs[l]
    BY <2>5 DEF Range
  <2>8. j = l
    BY <1>6, <2>3, <2>4, <2>6, <2>7
  <2> QED
    BY <2>2, <2>5, <2>6, <2>7, <2>8 DEF Usable
<1>7. \A k \in 1 .. Len(t) : Holder(t[k].flat).from = t[k].file
  BY Held
<1>8. ASSUME i \in Places PROVE Holder(Hrefs[i]).from = ByBase(fs, b).file
  <2>1. PICK k \in 1 .. Len(t) : t[k].flat = Href(b)
    BY <1>3, <1>8
  <2> QED
    BY <1>2, <1>6, <1>7, <2>1
<1>9. i \in Places <=> upload.lines[i].says = "attached" /\ Usable(fs, b)
  BY <1>3, <1>5, <1>6
<1> QED
  BY <1>8, <1>9

\* What Proxmox names of an OVF, if it names anything, is what was shown.
LEMMA NamedAttached ==
    ASSUME IInv, Alive, Unambiguous, Extents = <<>>, artifacts = OvaPackage,
           upload.descriptor = "ovf", Named # <<>>
    PROVE  EachOnce(Named)
<1> DEFINE fs == inspection.files
           lines == upload.lines
           h == Hrefs
           v == Named
           t == Picked(h, Places)
           file(i) == ByBase(fs, lines[i].base).file
<1>1. /\ fs \in Seq(Bundled)
      /\ upload \in Uploads
  BY InspectedFiles DEF IInv
<1>2. DOMAIN lines = 1 .. Len(lines) /\ Len(lines) \in Nat
      /\ \A i, k \in 1 .. Len(lines) : i # k => lines[i].base # lines[k].base
  <2> DEFINE R == [base : Bases0, says : {"attached", "listed", "absent"}]
  <2>1. lines \in Seq(R) /\ \A i, k \in 1 .. Len(lines) : i # k => lines[i].base # lines[k].base
    BY <1>1, Uploaded DEF GoodLines
  <2> HIDE DEF R, lines
  <2> QED
    BY <2>1, LenProperties
<1>3. \A i \in DOMAIN lines :
         /\ i \in Places <=> lines[i].says = "attached" /\ Usable(fs, lines[i].base)
         /\ i \in Places => Holder(h[i]).from = file(i)
  BY Attaches
<1>4. h = [i \in DOMAIN lines |-> Href(lines[i].base)]
  BY <1>1, HrefsOvf
<1>5. Places \in SUBSET (DOMAIN lines)
  BY <1>4 DEF Places
<1>6. v = [k \in DOMAIN t |-> Holder(t[k]).from]
  BY NamedIs
<1>7. ASSUME NEW i \in DOMAIN lines, Usable(fs, lines[i].base)
      PROVE  /\ Base(file(i)) = lines[i].base
             /\ \E k \in 1 .. Len(Composed) : file(i) = Composed[k]
             /\ file(i) \in Files
  <2> DEFINE b == lines[i].base
  <2>1. HasBase(fs, b) /\ IsHere(b, {"disk"})
    BY <1>7 DEF Usable, IsHere
  <2>2. \E k \in 1 .. Len(DiskFiles) : DiskFiles[k] = ByBase(fs, b)
    BY <2>1, RoleNames DEF DiskFiles
  <2>3. Composed \in Seq(Files) /\ Len(Composed) = Len(DiskFiles)
        /\ \A k \in 1 .. Len(DiskFiles) : Composed[k] = DiskFiles[k].file
    BY Disks
  <2>4. \E k \in 1 .. Len(Composed) : file(i) = Composed[k]
    BY <2>2, <2>3
  <2>5. file(i) \in Files
    BY <2>3, <2>4, ElementOfSeq
  <2> HIDE DEF fs, b
  <2>6. PICK j \in DOMAIN fs : ByBase(fs, b) = fs[j] /\ Base(fs[j].file) = b
    BY <1>1, <2>1, Looked
  <2>7. Base(ByBase(fs, b).file) = b
    BY <2>6
  <2> QED
    BY <2>4, <2>5, <2>7 DEF b
<1> HIDE DEF fs, lines, h, v, t, file
<1>8. /\ t \in Seq(Range(h)) /\ Len(t) \in Nat /\ DOMAIN t = 1 .. Len(t)
      /\ \E p : Selects(p, h, Places)
  <2>1. h \in Seq(Range(h)) /\ Len(h) = Len(lines)
    <3>1. h \in [1 .. Len(lines) -> Range(h)]
      BY <1>2, <1>4 DEF Range
    <3> QED
      BY <1>2, <3>1
  <2>2. Places \in SUBSET (1 .. Len(h))
    BY <1>2, <1>5, <2>1
  <2>3. t \in Seq(Range(h)) /\ Len(t) \in Nat /\ \E p : Selects(p, h, Places)
    BY <2>1, <2>2, Selecting DEF t
  <2> QED
    BY <2>3, LenProperties
<1>9. PICK p : Selects(p, h, Places)
  BY <1>8, Zenon
<1>10. /\ \A k \in 1 .. Len(t) : p[k] \in Places /\ t[k] = h[p[k]]
       /\ \A j, k \in 1 .. Len(t) : p[j] = p[k] => j = k
       /\ \A i \in Places : \E k \in 1 .. Len(t) : p[k] = i
  BY <1>9 DEF Selects, t
<1>11. \A k \in 1 .. Len(t) : p[k] \in DOMAIN lines /\ p[k] \in Places
  BY <1>5, <1>10
<1>12. \A k \in 1 .. Len(t) : v[k] = file(p[k])
  BY <1>3, <1>6, <1>8, <1>10, <1>11
<1>13. \A k \in 1 .. Len(t) : /\ Base(v[k]) = lines[p[k]].base
                              /\ \E j \in 1 .. Len(Composed) : v[k] = Composed[j]
                              /\ v[k] \in Files
  <2> TAKE k \in 1 .. Len(t)
  <2>1. Usable(fs, lines[p[k]].base)
    BY <1>3, <1>11
  <2> QED
    BY <1>7, <1>11, <1>12, <2>1
<1>14. v \in Seq(Files) /\ Len(v) = Len(t)
  <2>1. v \in [1 .. Len(t) -> Files]
    <3>1. v = [k \in 1 .. Len(t) |-> v[k]]
      BY <1>6, <1>8
    <3> DEFINE g == [k \in 1 .. Len(t) |-> v[k]]
    <3>2. g \in [1 .. Len(t) -> Files]
      BY <1>13
    <3> HIDE DEF g
    <3>3. v = g
      BY <3>1 DEF g
    <3> QED
      BY <3>2, <3>3
  <2> QED
    BY <1>8, <2>1
<1>15. ASSUME NEW i \in 1 .. Len(v), NEW k \in 1 .. Len(v), i # k PROVE v[i] # v[k]
  <2>1. i \in 1 .. Len(t) /\ k \in 1 .. Len(t)
    BY <1>14
  <2>2. p[i] # p[k] /\ p[i] \in 1 .. Len(lines) /\ p[k] \in 1 .. Len(lines)
    BY <1>2, <1>10, <1>11, <1>15, <2>1
  <2>3. lines[p[i]].base # lines[p[k]].base
    BY <1>2, <2>2
  <2> QED
    BY <1>13, <2>1, <2>3
<1>16. ASSUME NEW d \in Range(inspection.disks) PROVE \E i \in 1 .. Len(v) : v[i] = d
  <2> DEFINE said == Saying({"attached"})
             refs == Bases(said)
  <2>1. Len(v) # 0
    BY <1>14, EmptySeq DEF v
  <2>2. 1 \in 1 .. Len(t)
    BY <1>8, <1>14, <2>1
  <2>3. p[1] \in DOMAIN lines /\ lines[p[1]].says = "attached" /\ Usable(fs, lines[p[1]].base)
    BY <1>3, <1>11, <2>2
  <2>4. /\ refs \in Seq(Bases0)
        /\ \A k \in 1 .. Len(refs) : \E i \in DOMAIN lines :
              lines[i].says \in {"attached"} /\ refs[k] = lines[i].base
        /\ \A i \in DOMAIN lines : lines[i].says \in {"attached"} =>
              said # <<>> /\ \E k \in 1 .. Len(refs) : refs[k] = lines[i].base
    BY <1>1, Spoken DEF lines
  <2>5. inspection.disks = ResolveDisks(ParseOvf, fs)
    BY DEF IInv, Inspected, Found, fs
  <2> HIDE DEF refs
  <2>6. ParseOvf = refs
    <3>1. said # <<>>
      BY <2>3, <2>4
    <3> QED
      BY <3>1 DEF ParseOvf, refs
  <2>7. \E k \in 1 .. Len(refs) : Usable(fs, refs[k])
    BY <2>3, <2>4
  <2>8. d \in Range(ResolveDisks(refs, fs))
    BY <1>16, <2>5, <2>6
  <2>9. PICK k \in 1 .. Len(refs) : Usable(fs, refs[k]) /\ d = ByBase(fs, refs[k]).file
    BY <1>1, <2>4, <2>7, <2>8, Resolves
  <2>10. PICK i \in DOMAIN lines : lines[i].says = "attached" /\ refs[k] = lines[i].base
    BY <2>4
  <2>11. i \in Places /\ d = file(i)
    BY <1>3, <2>9, <2>10 DEF file
  <2>12. PICK j \in 1 .. Len(t) : p[j] = i
    BY <1>10, <2>11
  <2> QED
    BY <1>12, <1>14, <2>11, <2>12
<1>17. \A i \in 1 .. Len(v) : \E k \in 1 .. Len(Composed) : v[i] = Composed[k]
  BY <1>13, <1>14
<1> QED
  BY <1>14, <1>15, <1>16, <1>17 DEF EachOnce, v

\* A bare image is the one disk.
LEMMA Sole ==
    ASSUME IInv, Alive, upload.kind = "raw"
    PROVE  Len(DiskFiles) = 1 /\ DiskFiles[1] = inspection.files[1]
<1> DEFINE fs == inspection.files
           t == DiskFiles
<1>1. fs \in Seq(Bundled) /\ Len(fs) = 1 /\ fs[1].role = "disk"
  BY InspectedFiles DEF IInv
<1>2. Len(t) \in Nat /\ \E p : Ordered(p, t, fs, {"disk"})
  BY <1>1, RoleFiles DEF DiskFiles
<1> HIDE DEF t, fs
<1>3. PICK p : Ordered(p, t, fs, {"disk"})
  BY <1>2, Zenon
<1>4. /\ \A k \in 1 .. Len(t) : p[k] = 1 /\ t[k] = fs[p[k]]
      /\ \A j, k \in 1 .. Len(t) : p[j] = p[k] => j = k
      /\ \E k \in 1 .. Len(t) : p[k] = 1
  BY <1>1, <1>3 DEF Ordered
<1>5. \A j, k \in 1 .. Len(t) : j = k
  BY <1>4
<1>6. Len(t) >= 1
  BY <1>2, <1>4
<1>7. 1 \in 1 .. Len(t) /\ Len(t) \in 1 .. Len(t)
  BY <1>2, <1>6
<1>8. Len(t) = 1
  BY <1>5, <1>7
<1> QED
  BY <1>4, <1>7, <1>8 DEF t, fs

\* The one disk there is, on its own.
LEMMA Alone ==
    ASSUME IInv, Alive, Unambiguous, Len(DiskFiles) = 1, NEW v, v = <<DiskFiles[1].file>>
    PROVE  EachOnce(v)
<1> DEFINE f == DiskFiles[1].file
           c == Composed
<1>1. c \in Seq(Files) /\ Len(c) = 1 /\ c[1] = f
  BY Disks
<1> HIDE DEF f, c
<1>2. f \in Files
  BY <1>1, ElementOfSeq
<1>3. <<f>> \in Seq(Files) /\ Len(<<f>>) = 1 /\ \A i \in 1 .. 1 : <<f>>[i] = c[i]
  BY <1>1, <1>2
<1>4. v = c
  BY <1>1, <1>3, SeqEqual DEF f
<1> QED
  BY <1>4, ComposedOnce DEF c

\* However a bundle was packed, its volumes are such.
LEMMA VolumesOnce ==
    ASSUME IInv, pc = "created", Unambiguous, Extents # <<>> => Len(DiskFiles) = 1,
           NEW v \in Volumes
    PROVE  EachOnce(v)
<1> DEFINE sent == [i \in DOMAIN artifacts |-> artifacts[i].members[1].from]
<1>1. Alive /\ IsPacked
  BY DEF Alive, IsPacked
<1>2. artifacts[1].is # "ova" => v = sent
  BY DEF Volumes
<1>3. artifacts[1].is = "ova" => v = Composed \/ (Named # <<>> /\ v = Named)
  <2> SUFFICES ASSUME artifacts[1].is = "ova"
               PROVE  v = Composed \/ (Named # <<>> /\ v = Named)
    OBVIOUS
  <2> DEFINE named == IF Named = <<>> THEN Composed ELSE Named
  <2>1. Volumes = {named, Composed}
    BY Zenon DEF Volumes
  <2>2. CASE Named = <<>>
    <3>1. named = Composed
      BY <2>2
    <3> HIDE DEF named
    <3> QED
      BY <2>1, <3>1
  <2>3. CASE Named # <<>>
    <3>1. named = Named
      BY <2>3
    <3> HIDE DEF named
    <3>2. v = Named \/ v = Composed
      BY <2>1, <3>1, Zenon
    <3> QED
      BY <2>3, <3>2
  <2> QED
    BY <2>2, <2>3
<1> HIDE DEF sent
<1>4. CASE upload.kind = "raw" /\ artifacts = RawPackage
  <2> DEFINE f == inspection.files[1]
             mb == Member(f, {})
             a == [is |-> "disk", hrefs |-> <<>>, members |-> <<mb>>]
  <2>1. artifacts = <<a>>
    BY <1>4, Zenon DEF RawPackage
  <2>2. mb.from = f.file
    BY DEF Member
  <2> HIDE DEF f, mb
  <2>3. a.is = "disk" /\ a.members[1] = mb
    OBVIOUS
  <2> HIDE DEF a
  <2>4. DOMAIN artifacts = {1} /\ artifacts[1] = a
    BY <2>1
  <2>5. sent = <<f.file>>
    BY <2>2, <2>3, <2>4 DEF sent
  <2> QED
    BY <1>1, <1>2, <1>4, <2>3, <2>4, <2>5, Sole, Alone DEF f
<1>5. CASE upload.kind # "raw" /\ Extents # <<>> /\ artifacts = MergedPackage
  <2> DEFINE f == DiskFiles[1]
             mb == Member(f, Rewrite(f))
             parts == [i \in DOMAIN Extents |-> Member(Extents[i], {})]
             ms == <<mb>> \o parts
             a == [is |-> "merged", hrefs |-> <<>>, members |-> ms]
  <2>1. artifacts = <<a>>
    BY <1>5, Zenon DEF MergedPackage
  <2>2. mb.from = f.file
    BY DEF Member
  <2>3. parts \in Seq({parts[i] : i \in DOMAIN Extents})
    <3> DEFINE n == Len(Extents)
               S == {parts[i] : i \in DOMAIN Extents}
    <3>1. DOMAIN Extents = 1 .. n /\ n \in Nat
      BY <1>1, InspectedFiles, RoleFiles DEF IInv, Extents
    <3>2. parts \in [DOMAIN Extents -> S]
      OBVIOUS
    <3> HIDE DEF parts, n, S
    <3>4. n \in Nat /\ parts \in [1 .. n -> S]
      BY <3>1, <3>2
    <3>3. parts \in Seq(S)
      BY <3>4
    <3> QED
      BY <3>3 DEF S
  <2> DEFINE S == {mb} \cup {parts[i] : i \in DOMAIN Extents}
             one == <<mb>>
  <2>4. one \in Seq(S) /\ parts \in Seq(S) /\ one[1] = mb /\ Len(one) = 1
    <3> DEFINE P == {parts[i] : i \in DOMAIN Extents}
    <3>1. P \subseteq S /\ mb \in S
      OBVIOUS
    <3>2. parts \in Seq(P)
      BY <2>3
    <3> HIDE DEF parts, S, P, mb
    <3> QED
      BY <3>1, <3>2
  <2>5. ms[1] = mb
    <3> HIDE DEF one, parts, S, mb
    <3>1. /\ \A i \in 1 .. Len(one) + Len(parts) :
                (one \o parts)[i] = IF i <= Len(one) THEN one[i] ELSE parts[i - Len(one)]
      BY <2>4, ConcatProperties
    <3>2. 1 \in 1 .. Len(one) + Len(parts) /\ 1 <= Len(one)
      BY <2>4, LenProperties
    <3>3. (one \o parts)[1] = mb
      BY <2>4, <3>1, <3>2
    <3> QED
      BY <3>3 DEF one
  <2> HIDE DEF f, mb, ms
  <2>6. a.is = "merged" /\ a.members[1] = mb
    BY <2>5
  <2> HIDE DEF a
  <2>7. DOMAIN artifacts = {1} /\ artifacts[1] = a
    BY <2>1
  <2>8. sent = <<f.file>>
    BY <2>2, <2>6, <2>7 DEF sent
  <2> QED
    BY <1>1, <1>2, <1>5, <2>6, <2>7, <2>8, Alone DEF f
<1>6. CASE upload.kind # "raw" /\ Extents = <<>> /\ artifacts = DiskPackages
  <2> DEFINE t == DiskFiles
             mb(i) == Member(t[i], {})
             a(i) == [is |-> "disk", hrefs |-> <<>>, members |-> <<mb(i)>>]
  <2>1. artifacts = [i \in DOMAIN t |-> a(i)]
    BY <1>6, Zenon DEF DiskPackages
  <2>2. ASSUME NEW i PROVE a(i).is = "disk" /\ a(i).members[1].from = t[i].file
    <3>1. mb(i).from = t[i].file
      BY DEF Member
    <3> HIDE DEF mb
    <3> QED
      BY <3>1
  <2>3. t # <<>>
    BY <1>1, <1>6 DEF IInv, Packed
  <2>4. t \in Seq(Bundled) /\ DOMAIN t = 1 .. Len(t) /\ Len(t) \in Nat
    BY <1>1, InspectedFiles, RoleFiles DEF DiskFiles, IInv
  <2>5. Composed = [i \in DOMAIN t |-> t[i].file]
    BY DEF Composed
  <2> HIDE DEF t, a
  <2>6. 1 \in DOMAIN t
    <3>1. Len(t) # 0
      BY <2>3, <2>4, EmptySeq
    <3> QED
      BY <2>4, <3>1
  <2>7. artifacts[1].is # "ova"
    BY <2>1, <2>2, <2>6
  <2>8. sent = Composed
    BY <2>1, <2>2, <2>5 DEF sent
  <2> QED
    BY <1>1, <1>2, <2>7, <2>8, ComposedOnce
<1>7. CASE upload.kind # "raw" /\ Extents = <<>> /\ artifacts = OvaPackage
  <2>1. artifacts[1].is = "ova"
    BY <1>7, OvaIs
  <2>2. CASE v = Composed
    BY <1>1, <2>2, ComposedOnce
  <2>3. CASE Named # <<>> /\ v = Named /\ upload.descriptor = "ovf"
    BY <1>1, <1>7, <2>3, NamedAttached
  <2>4. CASE v = Named /\ upload.descriptor # "ovf"
    BY <1>1, <1>7, <2>4, NamedBuilt, ComposedOnce
  <2> QED
    BY <1>3, <2>1, <2>2, <2>3, <2>4
<1> QED
  BY <1>1, <1>4, <1>5, <1>6, <1>7 DEF IInv, Packed

\* All of them are attached, so each disk is there once.
LEMMA DiskByDisk == IInv => DiskForDisk
<1> SUFFICES ASSUME IInv, pc = "created", Unambiguous,
                    Len(DiskFiles) <= BusLimits[ChooseBus],
                    Extents # <<>> => Len(DiskFiles) = 1,
                    NEW d \in Range(inspection.disks)
             PROVE  Cardinality({i \in DOMAIN disks : disks[i] = d}) = 1
  BY Zenon DEF DiskForDisk
<1>1. Alive
  BY DEF Alive
<1>2. PICK v \in Volumes : disks = Attachable(v)
  BY DEF IInv, Created
<1>3. EachOnce(v)
  BY <1>2, VolumesOnce
<1>4. v \in Seq(Files) /\ Len(v) \in Nat /\ Len(v) <= Len(DiskFiles)
  BY <1>1, <1>3, NotMore DEF EachOnce
<1>5. Len(v) <= BusLimits[ChooseBus]
  <2>1. settings.bus \in Buses
    BY <1>1 DEF IInv, Settled
  <2>2. ChooseBus \in DOMAIN BusLimits
    BY <2>1, BusAssumption DEF ChooseBus
  <2>3. BusLimits[ChooseBus] \in Nat
    BY <2>2, BusAssumption
  <2>4. Len(DiskFiles) \in Nat
    BY <1>1, InspectedFiles, RoleFiles DEF IInv, DiskFiles
  <2> QED
    BY <1>4, <2>3, <2>4
<1>6. disks = v
  BY <1>1, <1>2, <1>4, <1>5, AllAttached
<1>7. DOMAIN v = 1 .. Len(v)
  BY <1>4, LenProperties
<1>8. PICK i \in 1 .. Len(v) : v[i] = d
  BY <1>3 DEF EachOnce
<1>9. {k \in DOMAIN disks : disks[k] = d} = {i}
  BY <1>3, <1>6, <1>7, <1>8 DEF EachOnce
<1> QED
  BY <1>9, FS_Singleton

-----------------------------------------------------------------------------
(* What holds of every bundle *)

\* Whatever a bundle holds, its archive is listed as it was packed, tar or zip,
\* and an OVA that arrives is read by the node as it was put together.
THEOREM ReadsBackSafe == Spec => []ReadsBack
<1>1. IInv => ReadsBack
  BY ReadingBack
<1> QED
  BY <1>1, Invariance, PTL

\* No two files travel under one name, and what the descriptors name is there
\* under the name that they use.
THEOREM NamesAgreeSafe == Spec => []NamesAgree
<1>1. IInv => NamesAgree
  BY Agreement
<1> QED
  BY <1>1, Invariance, PTL

\* The parts of a split disk are never sent as they are, whatever strategy the
\* administrator chose.
THEOREM NoPartTravelsSafe == Spec => []NoPartTravels
<1>1. IInv => NoPartTravels
  BY PartsStay
<1> QED
  BY <1>1, Invariance, PTL

\* The machine gets every disk that the inspection showed, once, whether the
\* disks came as they are, merged, or in an OVA, and whether Proxmox named the
\* volumes or they had to be composed.
THEOREM DiskForDiskSafe == Spec => []DiskForDisk
<1>1. IInv => DiskForDisk
  BY DiskByDisk
<1> QED
  BY <1>1, Invariance, PTL
=============================================================================
