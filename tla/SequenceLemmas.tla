--------------------------- MODULE SequenceLemmas ---------------------------
(***************************************************************************)
(* Facts about the operators on sequences that the queues of the kernel    *)
(* are modelled with: what RemoveAt, RemoveFirst and Compacted return,     *)
(* element by element.                                                     *)
(***************************************************************************)
EXTENDS Integers, SequencesExt, SequenceOps, SequenceTheorems,
        FiniteSetTheorems, NaturalsInduction, WellFoundedInduction, TLAPS

-----------------------------------------------------------------------------
(* Induction over the naturals, with the property as a set                 *)

\* Every nonempty set of natural numbers has a smallest element.
LEMMA SmallestExists ==
    ASSUME NEW T, T \subseteq Nat, T # {}
    PROVE  \E x \in T : \A y \in T : x <= y
<1>1. IsWellFoundedOn(OpToRel(<, Nat), Nat)
  BY NatLessThanWellFounded
<1>2. PICK x \in T : \A y \in T : ~(<<y, x>> \in OpToRel(<, Nat))
  BY <1>1, WFMin
<1>3. \A y \in T : ~(y < x)
  BY <1>2 DEF OpToRel
<1> QED
  BY <1>3

\* Min of a set of naturals is its smallest element.
LEMMA MinIsSmallest ==
    ASSUME NEW T, T \subseteq Nat, T # {}
    PROVE  Min(T) \in T /\ \A y \in T : Min(T) <= y
<1>1. \E x \in T : \A y \in T : x <= y
  BY SmallestExists
<1> QED
  BY <1>1, Zenon DEF Min

\* Induction over the natural numbers, about a set instead of a predicate.
LEMMA InductionOverNat ==
    ASSUME NEW T, 0 \in T, \A n \in Nat : n \in T => n + 1 \in T
    PROVE  Nat \subseteq T
<1> SUFFICES ASSUME Nat \ T # {} PROVE FALSE
  OBVIOUS
<1>1. PICK x \in Nat \ T : \A y \in Nat \ T : x <= y
  BY SmallestExists
<1>2. x # 0 /\ x - 1 \in Nat /\ ~(x <= x - 1)
  BY <1>1
<1>3. x - 1 \in T
  BY <1>1, <1>2
<1>4. (x - 1) + 1 = x
  BY <1>1
<1> QED
  BY <1>1, <1>2, <1>3, <1>4

-----------------------------------------------------------------------------
(* RemoveAt, RemoveFirst and rotation                                      *)

\* RemoveAt drops one element and closes the gap.
LEMMA RemoveAtElements ==
    ASSUME NEW S, NEW s \in Seq(S), NEW i \in 1 .. Len(s)
    PROVE  /\ RemoveAt(s, i) \in Seq(S)
           /\ Len(RemoveAt(s, i)) = Len(s) - 1
           /\ \A n \in 1 .. Len(s) - 1 :
                RemoveAt(s, i)[n] = IF n < i THEN s[n] ELSE s[n + 1]
<1> DEFINE a == SubSeq(s, 1, i - 1)
           b == SubSeq(s, i + 1, Len(s))
<1>1. a \in Seq(S) /\ Len(a) = i - 1 /\ \A n \in 1 .. i - 1 : a[n] = s[n]
  BY SMT
<1>2. b \in Seq(S) /\ Len(b) = Len(s) - i /\ \A n \in 1 .. Len(s) - i : b[n] = s[n + i]
  BY SMT
<1>3. RemoveAt(s, i) = a \o b
  BY DEF RemoveAt
<1> HIDE DEF a, b
<1>4. a \o b \in Seq(S) /\ Len(a \o b) = Len(a) + Len(b)
  BY <1>1, <1>2, ConcatProperties
<1>5. Len(a \o b) = Len(s) - 1
  BY <1>1, <1>2, <1>4
<1>6. ASSUME NEW n \in 1 .. Len(s) - 1
      PROVE  (a \o b)[n] = IF n < i THEN s[n] ELSE s[n + 1]
  <2>1. CASE n < i
    <3>1. n \in 1 .. Len(a)
      BY <1>1, <2>1
    <3>2. (a \o b)[n] = a[n]
      BY <1>1, <1>2, <3>1
    <3> QED
      BY <1>1, <2>1, <3>2
  <2>2. CASE ~(n < i)
    <3>1. n - (i - 1) \in 1 .. Len(b) /\ n \in 1 .. Len(a) + Len(b) /\ ~(n \in 1 .. Len(a))
      BY <1>1, <1>2, <2>2
    <3>2. (a \o b)[n] = b[n - (i - 1)]
      BY <1>1, <1>2, <3>1
    <3>3. PICK m \in 1 .. Len(s) - i : m = n - (i - 1) /\ m + i = n + 1
      BY <1>2, <3>1
    <3>4. b[m] = s[m + i]
      BY <1>2
    <3> QED
      BY <2>2, <3>2, <3>3, <3>4
  <2> QED
    BY <2>1, <2>2
<1> QED
  BY <1>3, <1>4, <1>5, <1>6

\* Moving the head behind the last element shifts the others forward by one.
LEMMA RotateElements ==
    ASSUME NEW S, NEW s \in Seq(S), s # <<>>
    PROVE  /\ Append(Tail(s), Head(s)) \in Seq(S)
           /\ Len(Append(Tail(s), Head(s))) = Len(s)
           /\ \A n \in 1 .. Len(s) :
                Append(Tail(s), Head(s))[n] = IF n < Len(s) THEN s[n + 1] ELSE s[1]
<1> DEFINE t == Tail(s)
           h == Head(s)
<1>1. Len(s) \in Nat /\ Len(s) >= 1 /\ h = s[1] /\ h \in S
  OBVIOUS
<1>2. t \in Seq(S) /\ Len(t) = Len(s) - 1 /\ \A n \in 1 .. Len(s) - 1 : t[n] = s[n + 1]
  OBVIOUS
<1> HIDE DEF t, h
<1>3. Append(t, h) \in Seq(S) /\ Len(Append(t, h)) = Len(s)
  BY <1>1, <1>2
<1>4. \A n \in 1 .. Len(s) :
         Append(t, h)[n] = IF n < Len(s) THEN s[n + 1] ELSE s[1]
  BY <1>1, <1>2
<1> QED
  BY <1>3, <1>4 DEF t, h

\* RemoveFirst(s, s[i]) is RemoveAt(s, i) when no element before s[i] equals it.
LEMMA RemoveFirstAtFirst ==
    ASSUME NEW S, NEW s \in Seq(S), NEW i \in 1 .. Len(s),
           \A n \in 1 .. Len(s) : s[n] = s[i] => i <= n
    PROVE  RemoveFirst(s, s[i]) = RemoveAt(s, i)
<1> DEFINE e == s[i]
           I == {n \in 1 .. Len(s) : s[n] = e}
<1>1. i \in I /\ (\A n \in I : i <= n) /\ I \subseteq Nat
  OBVIOUS
<1> HIDE DEF I
<1>2. Min(I) = i
  <2>1. \E x \in I : \A y \in I : x <= y
    BY <1>1
  <2>2. Min(I) \in I /\ \A y \in I : Min(I) <= y
    BY <2>1, Zenon DEF Min
  <2>3. Min(I) \in Nat /\ i \in Nat /\ Min(I) <= i /\ i <= Min(I)
    BY <1>1, <2>2
  <2> QED
    BY <2>3
<1>3. SelectInSeq(s, LAMBDA v : v = e) = i
  BY <1>1, <1>2 DEF SelectInSeq, I
<1> QED
  BY <1>3 DEF RemoveFirst

\* In a sequence without repetitions that holds of every element.
LEMMA RemoveFirstIsRemoveAt ==
    ASSUME NEW S, NEW s \in Seq(S), NEW i \in 1 .. Len(s),
           \A n, m \in 1 .. Len(s) : s[n] = s[m] => n = m
    PROVE  RemoveFirst(s, s[i]) = RemoveAt(s, i)
<1>1. \A n \in 1 .. Len(s) : s[n] = s[i] => i <= n
  OBVIOUS
<1> QED
  BY <1>1, RemoveFirstAtFirst

\* Removing an entry from a sequence without repetitions.
LEMMA RemoveFirstRange ==
    ASSUME NEW S, NEW s \in Seq(S), IsInjective(s), NEW x \in Range(s)
    PROVE  /\ RemoveFirst(s, x) \in Seq(S)
           /\ Len(RemoveFirst(s, x)) = Len(s) - 1
           /\ Range(RemoveFirst(s, x)) = Range(s) \ {x}
           /\ IsInjective(RemoveFirst(s, x))
<1> DEFINE n == Len(s)
           r == RemoveFirst(s, x)
<1>1. n \in Nat /\ DOMAIN s = 1 .. n /\ \A i, j \in 1 .. n : s[i] = s[j] => i = j
  BY DEF IsInjective
<1>2. PICK i \in 1 .. n : s[i] = x
  BY <1>1 DEF Range
<1>3. /\ r \in Seq(S) /\ Len(r) = n - 1
      /\ \A m \in 1 .. n - 1 : r[m] = IF m < i THEN s[m] ELSE s[m + 1]
  <2>1. r = RemoveAt(s, i)
    BY <1>1, <1>2, RemoveFirstIsRemoveAt
  <2> QED
    BY <1>2, <2>1, RemoveAtElements
<1> HIDE DEF r, n
<1>4. DOMAIN r = 1 .. n - 1
  BY <1>1, <1>3
<1>5. ASSUME NEW y PROVE y \in Range(r) <=> y \in Range(s) \ {x}
  <2>1. ASSUME NEW m \in 1 .. n - 1, r[m] = y
        PROVE  y \in Range(s) \ {x}
    <3>1. CASE m < i
      <4>1. m \in 1 .. n /\ s[m] = y /\ m # i
        BY <1>1, <1>3, <2>1, <3>1
      <4> QED
        BY <1>1, <1>2, <4>1 DEF Range
    <3>2. CASE ~(m < i)
      <4>1. m + 1 \in 1 .. n /\ s[m + 1] = y /\ m + 1 # i
        BY <1>1, <1>3, <2>1, <3>2
      <4> QED
        BY <1>1, <1>2, <4>1 DEF Range
    <3> QED
      BY <3>1, <3>2
  <2>2. ASSUME NEW m \in 1 .. n, s[m] = y, y # x
        PROVE  y \in Range(r)
    <3>1. CASE m < i
      <4>1. m \in 1 .. n - 1 /\ r[m] = y
        BY <1>1, <1>2, <1>3, <2>2, <3>1
      <4> QED
        BY <1>4, <4>1 DEF Range
    <3>2. CASE m > i
      <4>1. m - 1 \in 1 .. n - 1 /\ ~(m - 1 < i) /\ (m - 1) + 1 = m
        BY <1>1, <3>2
      <4>2. r[m - 1] = y
        BY <1>3, <2>2, <4>1
      <4> QED
        BY <1>4, <4>1, <4>2 DEF Range
    <3> QED
      BY <1>1, <1>2, <2>2, <3>1, <3>2
  <2> QED
    BY <1>1, <1>4, <2>1, <2>2 DEF Range
<1>6. IsInjective(r)
  <2> SUFFICES ASSUME NEW m \in 1 .. n - 1, NEW l \in 1 .. n - 1, r[m] = r[l]
               PROVE  m = l
    BY <1>4 DEF IsInjective
  <2> QED
    BY <1>1, <1>2, <1>3
<1> QED
  BY <1>3, <1>5, <1>6 DEF r, n

-----------------------------------------------------------------------------
(* Compacted                                                               *)

\* In a finite set of places, every rank from 1 on is the rank of one place.
LEMMA Ranks ==
    ASSUME NEW N \in Nat, NEW K, K \subseteq 1 .. N
    PROVE  /\ IsFiniteSet(K) /\ Cardinality(K) \in Nat /\ Cardinality(K) <= N
           /\ \A i \in K : Cardinality({j \in K : j <= i}) \in 1 .. Cardinality(K)
           /\ \A i, k \in K : Cardinality({j \in K : j <= i}) = Cardinality({j \in K : j <= k})
                                => i = k
           /\ \A n \in 1 .. Cardinality(K) :
                \E i \in K : Cardinality({j \in K : j <= i}) = n
<1> DEFINE below(i) == {j \in K : j <= i}
           rank(i) == Cardinality(below(i))
           c == Cardinality(K)
<1>1. IsFiniteSet(1 .. N) /\ Cardinality(1 .. N) = N
  BY FS_Interval
<1>2. IsFiniteSet(K) /\ c \in Nat /\ c <= N
  BY <1>1, FS_Subset, FS_CardinalityType
<1>3. ASSUME NEW i \in K
      PROVE  IsFiniteSet(below(i)) /\ rank(i) \in 1 .. c
  <2>1. below(i) \subseteq K /\ i \in below(i)
    OBVIOUS
  <2>2. IsFiniteSet(below(i)) /\ rank(i) \in Nat /\ rank(i) <= c
    BY <1>2, <2>1, FS_Subset, FS_CardinalityType
  <2>3. rank(i) # 0
    BY <2>1, <2>2, FS_EmptySet
  <2> QED
    BY <1>2, <2>2, <2>3
<1>4. ASSUME NEW i \in K, NEW k \in K, i < k
      PROVE  rank(i) # rank(k)
  <2>1. \A j \in K : j <= i => j <= k
    BY <1>4
  <2>2. k <= k /\ ~(k <= i)
    BY <1>4
  <2>3. below(i) \subseteq below(k) /\ k \in below(k) /\ k \notin below(i)
    BY <2>1, <2>2
  <2> QED
    BY <1>3, <2>3, FS_Subset
<1>5. \A i, k \in K : rank(i) = rank(k) => i = k
  <2> SUFFICES ASSUME NEW i \in K, NEW k \in K, rank(i) = rank(k), i # k
               PROVE  FALSE
    OBVIOUS
  <2>1. i < k \/ k < i
    OBVIOUS
  <2> QED
    BY <1>4, <2>1
<1>6. ASSUME NEW n \in 1 .. c
      PROVE  \E i \in K : rank(i) = n
  <2> SUFFICES ASSUME \A i \in K : rank(i) # n PROVE FALSE
    OBVIOUS
  <2> DEFINE T == (1 .. c) \ {n}
             f == [i \in K |-> rank(i)]
  <2>1. IsFiniteSet(1 .. c) /\ Cardinality(1 .. c) = c
    BY <1>2, FS_Interval
  <2>2. IsFiniteSet(T) /\ Cardinality(T) = c - 1
    BY <2>1, FS_RemoveElement
  <2>3. f \in [K -> T]
    BY <1>3
  <2>4. IsFiniteSet(K) /\ Cardinality(T) < Cardinality(K)
    BY <1>2, <2>2
  <2> HIDE DEF f, T, c, rank
  <2>5. \E x, y \in K : x # y /\ f[x] = f[y]
    BY <2>2, <2>3, <2>4, FS_PigeonHole
  <2> QED
    BY <1>5, <2>5 DEF f
<1> QED
  BY <1>2, <1>3, <1>5, <1>6

\* Compacted keeps the entries at the places given, each once.
LEMMA CompactedElements ==
    ASSUME NEW S, NEW q \in Seq(S), NEW K, K \subseteq DOMAIN q
    PROVE  /\ Compacted(q, K) \in Seq(S)
           /\ Len(Compacted(q, K)) <= Len(q)
           /\ Range(Compacted(q, K)) = {q[i] : i \in K}
           /\ K = {} => Compacted(q, K) = <<>>
           /\ IsInjective(q) => IsInjective(Compacted(q, K))
<1> DEFINE rank(i) == Cardinality({j \in K : j <= i})
           c == Cardinality(K)
           at(n) == CHOOSE i \in K : rank(i) = n
           r == Compacted(q, K)
<1>1. Len(q) \in Nat /\ DOMAIN q = 1 .. Len(q) /\ K \subseteq 1 .. Len(q)
  OBVIOUS
<1>2. /\ c \in Nat /\ c <= Len(q) /\ IsFiniteSet(K)
      /\ \A i \in K : rank(i) \in 1 .. c
      /\ \A i, k \in K : rank(i) = rank(k) => i = k
      /\ \A n \in 1 .. c : \E i \in K : rank(i) = n
  BY <1>1, Ranks
<1> HIDE DEF rank
<1>3. \A n \in 1 .. c : at(n) \in K /\ rank(at(n)) = n
  BY <1>2
<1>4. \A i \in K : at(rank(i)) = i
  BY <1>2, <1>3
<1>5. r = [n \in 1 .. c |-> q[at(n)]]
  BY DEF Compacted, rank
<1> HIDE DEF at, c, r
<1>6. r \in [1 .. c -> S]
  BY <1>1, <1>3, <1>5
<1>7. r \in Seq(S) /\ Len(r) = c /\ DOMAIN r = 1 .. c
  BY <1>2, <1>6
<1>8. Range(r) = {q[i] : i \in K}
  <2>1. Range(r) = {r[n] : n \in 1 .. c}
    BY <1>7 DEF Range
  <2>2. \A n \in 1 .. c : r[n] = q[at(n)] /\ at(n) \in K
    BY <1>3, <1>5
  <2>3. \A i \in K : q[i] = r[rank(i)] /\ rank(i) \in 1 .. c
    BY <1>2, <1>4, <1>5
  <2> QED
    BY <2>1, <2>2, <2>3
<1>9. ASSUME K = {} PROVE r = <<>>
  <2>1. c = 0
    BY <1>9, FS_EmptySet DEF c
  <2> QED
    BY <1>7, <2>1
<1>10. ASSUME IsInjective(q) PROVE IsInjective(r)
  <2> SUFFICES ASSUME NEW n \in 1 .. c, NEW m \in 1 .. c, r[n] = r[m]
               PROVE  n = m
    BY <1>7 DEF IsInjective
  <2>1. at(n) \in DOMAIN q /\ at(m) \in DOMAIN q /\ q[at(n)] = q[at(m)]
    BY <1>3, <1>5
  <2>2. at(n) = at(m)
    BY <1>10, <2>1 DEF IsInjective
  <2> QED
    BY <1>3, <2>2
<1> QED
  BY <1>2, <1>7, <1>8, <1>9, <1>10 DEF r

\* What taking the head of a sequence without repetition changes.
LEMMA PopElements ==
    ASSUME NEW T, NEW q \in Seq(T), q # <<>>, IsInjective(q)
    PROVE  /\ Tail(q) \in Seq(T) /\ Len(Tail(q)) = Len(q) - 1
           /\ IsInjective(Tail(q)) /\ Range(Tail(q)) = Range(q) \ {Head(q)}
           /\ Head(q) \in Range(q)
<1> DEFINE L == Len(q)
           r == Tail(q)
<1>1. L \in Nat \ {0} /\ DOMAIN q = 1 .. L /\ Head(q) = q[1]
  OBVIOUS
<1>2. /\ r \in Seq(T) /\ Len(r) = L - 1 /\ DOMAIN r = 1 .. L - 1
      /\ \A n \in 1 .. L - 1 : r[n] = q[n + 1]
  BY <1>1
<1>3. \A n, m \in 1 .. L : q[n] = q[m] => n = m
  BY <1>1 DEF IsInjective
<1>4. IsInjective(r)
  <2> SUFFICES ASSUME NEW n \in 1 .. L - 1, NEW m \in 1 .. L - 1, r[n] = r[m] PROVE n = m
    BY <1>2 DEF IsInjective
  <2>1. n + 1 \in 1 .. L /\ m + 1 \in 1 .. L /\ q[n + 1] = q[m + 1]
    BY <1>1, <1>2
  <2> QED
    BY <1>3, <2>1
<1>5. Range(r) = Range(q) \ {q[1]}
  <2>1. ASSUME NEW n \in 1 .. L - 1 PROVE r[n] \in Range(q) \ {q[1]}
    <3>1. n + 1 \in 1 .. L /\ n + 1 # 1 /\ 1 \in 1 .. L
      BY <1>1
    <3> QED
      BY <1>1, <1>2, <1>3, <3>1 DEF Range
  <2>2. ASSUME NEW n \in 1 .. L, q[n] # q[1] PROVE q[n] \in Range(r)
    <3>1. n - 1 \in 1 .. L - 1 /\ (n - 1) + 1 = n
      BY <1>1, <2>2
    <3>2. r[n - 1] = q[n]
      BY <1>2, <3>1
    <3> QED
      BY <1>2, <3>1, <3>2 DEF Range
  <2> QED
    BY <1>1, <1>2, <2>1, <2>2 DEF Range
<1>6. q[1] \in Range(q)
  BY <1>1 DEF Range
<1> QED
  BY <1>1, <1>2, <1>4, <1>5, <1>6
=============================================================================
