---------------------------- MODULE SequenceLemmas ----------------------------
(***************************************************************************)
(* Facts about natural numbers, first elements, sorting and concatenation  *)
(* that the proofs about admission, projection, the payload walk and the   *)
(* result codec keep needing.                                              *)
(***************************************************************************)
EXTENDS Sorting, SequencesExt, FiniteSetsExt, FiniteSetTheorems, SequenceTheorems,
        WellFoundedInduction, TLAPS

(***************************************************************************)
(* A set of natural numbers has a least element: otherwise the intervals   *)
(* that end in its elements would not be well-founded.                     *)
(***************************************************************************)
LEMMA MinExists ==
  ASSUME NEW S, S \subseteq Nat, S # {}
  PROVE  \E x \in S : \A y \in S : x <= y
<1> DEFINE Up(n) == 0 .. n
           T == {Up(n) : n \in S}
           A == FiniteSubsetsOf(Nat)
<1>1. \A n \in Nat : Up(n) \in A
  BY FS_Interval DEF FiniteSubsetsOf
<1>2. T \subseteq A /\ T # {}
  BY <1>1
<1>3. IsWellFoundedOn(StrictSubsetOrdering(Nat), A)
  BY FS_StrictSubsetOrderingWellFounded
<1>4. PICK u \in T : \A v \in T : <<v, u>> \notin StrictSubsetOrdering(Nat)
  <2> HIDE DEF T
  <2> QED BY <1>2, <1>3, WFMin
<1>5. PICK x \in S : u = Up(x)
  BY <1>4
<1>6. ASSUME NEW y \in S, y < x
      PROVE  FALSE
  <2>1. Up(y) \subseteq Up(x) /\ Up(y) # Up(x)
    BY <1>6
  <2>2. Up(y) \in T /\ Up(x) \in T
    BY <1>6
  <2>3. Up(y) \in SUBSET Nat /\ Up(x) \in SUBSET Nat
    BY <1>6
  <2>4. <<Up(y), u>> \in StrictSubsetOrdering(Nat)
    BY <2>1, <2>3, <1>5 DEF StrictSubsetOrdering
  <2>5. QED
    BY <2>2, <2>4, <1>4
<1>7. QED
  BY <1>6

\* So Min, which is a choice, is an element below all others.
LEMMA MinIsLeast ==
  ASSUME NEW S, S \subseteq Nat, S # {}
  PROVE  Min(S) \in S /\ \A y \in S : Min(S) <= y
BY MinExists DEF Min

\* Induction over the natural numbers, for a set of them.
LEMMA InductionOverNat ==
  ASSUME NEW T, 0 \in T, \A n \in Nat : n \in T => n + 1 \in T
  PROVE  Nat \subseteq T
<1> SUFFICES ASSUME Nat \ T # {}
             PROVE  FALSE
  OBVIOUS
<1>1. PICK m \in Nat \ T : \A y \in Nat \ T : m <= y
  <2> DEFINE S == Nat \ T
  <2>1. S \subseteq Nat /\ S # {}
    OBVIOUS
  <2> HIDE DEF S
  <2>2. \E x \in S : \A y \in S : x <= y
    BY <2>1, MinExists
  <2> QED BY <2>2 DEF S
<1>2. m # 0 /\ m - 1 \in Nat
  BY <1>1
<1>3. m - 1 \in T
  BY <1>1, <1>2
<1>4. QED
  BY <1>1, <1>2, <1>3

\* A function on an initial segment of the natural numbers is a sequence.
LEMMA FunctionIsSeq ==
  ASSUME NEW n \in Nat, NEW S, NEW f \in [1 .. n -> S]
  PROVE  f \in Seq(S) /\ Len(f) = n
OBVIOUS

\* Where a concatenation has the elements of its parts.
LEMMA ConcatAt ==
  ASSUME NEW S, NEW s \in Seq(S), NEW t \in Seq(S)
  PROVE  /\ s \o t \in Seq(S) /\ Len(s \o t) = Len(s) + Len(t)
         /\ DOMAIN (s \o t) = 1 .. Len(s) + Len(t)
         /\ \A i \in 1 .. Len(s) : (s \o t)[i] = s[i]
         /\ \A i \in 1 .. Len(t) : (s \o t)[Len(s) + i] = t[i]
<1>1. s \o t \in Seq(S) /\ Len(s \o t) = Len(s) + Len(t)
  BY ConcatProperties
<1>2. \A i \in 1 .. Len(s) + Len(t) :
        (s \o t)[i] = IF i <= Len(s) THEN s[i] ELSE t[i - Len(s)]
  BY ConcatProperties
<1>3. Len(s) \in Nat /\ Len(t) \in Nat
  BY LenProperties
<1>4. ASSUME NEW i \in 1 .. Len(s)
      PROVE  (s \o t)[i] = s[i]
  <2>1. i \in 1 .. Len(s) + Len(t) /\ i <= Len(s)
    BY <1>3
  <2> QED BY <1>2, <2>1
<1>5. ASSUME NEW i \in 1 .. Len(t)
      PROVE  (s \o t)[Len(s) + i] = t[i]
  <2>1. /\ Len(s) + i \in 1 .. Len(s) + Len(t) /\ ~(Len(s) + i <= Len(s))
        /\ Len(s) + i - Len(s) = i
    BY <1>3
  <2> QED BY <1>2, <2>1
<1>6. DOMAIN (s \o t) = 1 .. Len(s) + Len(t)
  BY <1>1, LenProperties
<1>7. QED
  BY <1>1, <1>4, <1>5, <1>6
-----------------------------------------------------------------------------
\* An order of n keys, and one more key after those that are not above it.
LEMMA SortOneMore ==
  ASSUME NEW n \in Nat, NEW key \in [1 .. n + 1 -> Nat],
         NEW p \in Bijection(1 .. n, 1 .. n),
         InOrderOf([k \in 1 .. n |-> key[k]], p)
  PROVE  \E q \in Bijection(1 .. n + 1, 1 .. n + 1) : InOrderOf(key, q)
<1> DEFINE J == {i \in 1 .. n : key[p[i]] > key[n + 1]} \cup {n + 1}
<1>1. PICK m \in J : \A y \in J : m <= y
  <2>1. J \subseteq Nat /\ J # {}
    OBVIOUS
  <2> HIDE DEF J
  <2> QED BY <2>1, MinExists
<1>2. m \in 1 .. n + 1
  BY <1>1
<1>3. /\ p \in [1 .. n -> 1 .. n]
      /\ \A i, j \in 1 .. n : p[i] = p[j] => i = j
      /\ \A t \in 1 .. n : \E s \in 1 .. n : p[s] = t
  BY DEF Bijection, Injection, Surjection, IsInjective
<1>a. \A i \in 1 .. n : p[i] \in 1 .. n
  BY <1>3
<1>b. \A i \in 1 .. n : p[i] \in 1 .. n + 1
  BY <1>a
<1>e. \A i, j \in 1 .. n : i < j => p[i] # p[j]
  <2> TAKE i, j \in 1 .. n
  <2>1. i < j => i # j
    OBVIOUS
  <2> QED BY <1>3, <2>1
<1>c. n + 1 \in 1 .. n + 1 /\ key[n + 1] \in Nat
  OBVIOUS
<1>d. \A i \in 1 .. n : key[p[i]] \in Nat
  BY <1>b
<1>4. \A i, j \in 1 .. n : i < j => key[p[i]] <= key[p[j]]
  BY <1>3 DEF InOrderOf
<1>5. \A i \in 1 .. n : i < m => key[p[i]] <= key[n + 1]
  <2>1. \A i \in 1 .. n : i < m => i \notin J
    BY <1>1, <1>2
  <2> QED BY <2>1, <1>c, <1>d
<1>6. \A i \in 1 .. n : i >= m => key[n + 1] < key[p[i]]
  <2>1. CASE m = n + 1
    BY <2>1
  <2>2. CASE m # n + 1
    <3>1. m \in 1 .. n /\ key[p[m]] > key[n + 1]
      BY <1>1, <2>2
    <3>2. \A i \in 1 .. n : i > m => key[p[m]] <= key[p[i]]
      BY <1>4, <3>1
    <3>3. QED
      BY <3>1, <3>2, <1>c, <1>d
  <2>3. QED
    BY <2>1, <2>2
<1> DEFINE q == [i \in 1 .. n + 1 |->
        IF i < m THEN p[i] ELSE IF i = m THEN n + 1 ELSE p[i - 1]]
<1>7. q \in [1 .. n + 1 -> 1 .. n + 1]
  <2>1. \A i \in 1 .. n + 1 : i < m => i \in 1 .. n
    BY <1>2
  <2>2. \A i \in 1 .. n + 1 : i > m => i - 1 \in 1 .. n
    BY <1>2
  <2> QED BY <2>1, <2>2, <1>b, <1>2
<1>8. ASSUME NEW i \in 1 .. n + 1, NEW j \in 1 .. n + 1, i < j
      PROVE  q[i] # q[j] /\ key[q[i]] <= key[q[j]]
  <2>1. CASE j < m
    <3>1. i \in 1 .. n /\ j \in 1 .. n /\ q[i] = p[i] /\ q[j] = p[j]
      BY <2>1, <1>8, <1>2
    <3> HIDE DEF q
    <3> QED BY <3>1, <1>e, <1>4, <1>8
  <2>2. CASE j = m
    <3>1. i \in 1 .. n /\ q[i] = p[i] /\ q[j] = n + 1
      BY <2>2, <1>8, <1>2
    <3>2. p[i] \in 1 .. n
      BY <3>1, <1>3
    <3> QED BY <3>1, <3>2, <1>5, <1>8, <2>2
  <2>3. CASE j > m /\ i < m
    <3>1. i \in 1 .. n /\ j - 1 \in 1 .. n /\ i <= j - 1
      BY <2>3, <1>8, <1>2
    <3>2. q[i] = p[i] /\ q[j] = p[j - 1]
      BY <2>3, <1>2
    <3>3. CASE i < j - 1
      <4> HIDE DEF q
      <4> QED BY <3>1, <3>2, <3>3, <1>e, <1>4
    <3>4. CASE i = j - 1
      <4>1. i < m /\ j - 1 >= m
        BY <2>3, <1>2
      <4> QED BY <4>1, <3>4, <1>2
    <3> QED BY <3>1, <3>3, <3>4
  <2>4. CASE j > m /\ i = m
    <3>1. j - 1 \in 1 .. n /\ j - 1 >= m
      BY <2>4, <1>2
    <3>2. q[i] = n + 1 /\ q[j] = p[j - 1]
      BY <2>4, <1>2
    <3>3. p[j - 1] \in 1 .. n
      BY <3>1, <1>3
    <3>4. key[n + 1] < key[p[j - 1]]
      BY <3>1, <1>6
    <3>5. key[n + 1] \in Nat /\ key[p[j - 1]] \in Nat
      BY <3>3
    <3> QED BY <3>2, <3>3, <3>4, <3>5, SMTT(30)
  <2>5. CASE j > m /\ i > m
    <3>1. i - 1 \in 1 .. n /\ j - 1 \in 1 .. n /\ i - 1 < j - 1
      BY <2>5, <1>8, <1>2
    <3>2. q[i] = p[i - 1] /\ q[j] = p[j - 1]
      BY <2>5, <1>2
    <3> HIDE DEF q
    <3> QED BY <3>1, <3>2, <1>e, <1>4
  <2>6. QED
    BY <2>1, <2>2, <2>3, <2>4, <2>5, <1>2
<1>9. \A i, j \in 1 .. n + 1 : q[i] = q[j] => i = j
  <2> HIDE DEF q
  <2> QED BY <1>8
<1>10. ASSUME NEW t \in 1 .. n + 1
       PROVE  \E s \in 1 .. n + 1 : q[s] = t
  <2>1. CASE t = n + 1
    BY <2>1, <1>2, SMTT(30)
  <2>2. CASE t # n + 1
    <3>1. PICK s \in 1 .. n : p[s] = t
      BY <2>2, <1>3
    <3>2. CASE s < m
      BY <3>1, <3>2
    <3>3. CASE s >= m
      <4>1. s + 1 \in 1 .. n + 1 /\ s + 1 > m /\ s + 1 - 1 = s
        BY <3>3, <1>2
      <4>2. q[s + 1] = t
        BY <4>1, <3>1, <1>2
      <4> QED BY <4>1, <4>2
    <3>4. QED
      BY <3>2, <3>3, <1>2
  <2>3. QED
    BY <2>1, <2>2
<1>11. q \in Bijection(1 .. n + 1, 1 .. n + 1)
  <2> HIDE DEF q
  <2> QED BY <1>7, <1>9, <1>10 DEF Bijection, Injection, Surjection, IsInjective
<1>12. InOrderOf(key, q)
  <2> HIDE DEF q
  <2> QED BY <1>8 DEF InOrderOf
<1>13. QED
  BY <1>11, <1>12

\* A finite sequence of natural numbers can be put in order.
LEMMA SortingExists ==
  ASSUME NEW n \in Nat, NEW key \in [1 .. n -> Nat]
  PROVE  \E p \in Bijection(1 .. n, 1 .. n) : InOrderOf(key, p)
<1> DEFINE Sortable(m) == \A f \in [1 .. m -> Nat] :
                \E p \in Bijection(1 .. m, 1 .. m) : InOrderOf(f, p)
           T == {m \in Nat : Sortable(m)}
<1>1. Sortable(0)
  <2> SUFFICES ASSUME NEW f \in [1 .. 0 -> Nat]
               PROVE  \E p \in Bijection(1 .. 0, 1 .. 0) : InOrderOf(f, p)
    OBVIOUS
  <2> DEFINE p == [i \in 1 .. 0 |-> i]
  <2>1. p \in Bijection(1 .. 0, 1 .. 0)
    BY DEF Bijection, Injection, Surjection, IsInjective
  <2>2. InOrderOf(f, p)
    BY DEF InOrderOf
  <2> QED BY <2>1, <2>2
<1>2. ASSUME NEW m \in Nat, Sortable(m)
      PROVE  Sortable(m + 1)
  <2> SUFFICES ASSUME NEW f \in [1 .. m + 1 -> Nat]
               PROVE  \E q \in Bijection(1 .. m + 1, 1 .. m + 1) : InOrderOf(f, q)
    OBVIOUS
  <2> DEFINE g == [k \in 1 .. m |-> f[k]]
  <2>1. g \in [1 .. m -> Nat]
    OBVIOUS
  <2>2. PICK p \in Bijection(1 .. m, 1 .. m) : InOrderOf(g, p)
    BY <1>2, <2>1
  <2>3. QED
    BY <2>2, SortOneMore
<1>3. Nat \subseteq T
  <2> HIDE DEF Sortable
  <2>1. 0 \in T
    BY <1>1
  <2>2. \A m \in Nat : m \in T => m + 1 \in T
    BY <1>2
  <2> HIDE DEF T
  <2> QED BY <2>1, <2>2, InductionOverNat
<1>4. QED
  BY <1>3

\* Sorting puts every element at one place, in the order of the keys.
LEMMA SortingSorts ==
  ASSUME NEW n \in Nat, NEW key \in [1 .. n -> Nat]
  PROVE  /\ Sorting(key) \in [1 .. n -> 1 .. n]
         /\ \A i, j \in 1 .. n : Sorting(key)[i] = Sorting(key)[j] => i = j
         /\ \A t \in 1 .. n : \E s \in 1 .. n : Sorting(key)[s] = t
         /\ \A i, j \in 1 .. n :
                i < j => key[Sorting(key)[i]] <= key[Sorting(key)[j]]
<1>1. \E p \in Bijection(1 .. n, 1 .. n) : InOrderOf(key, p)
  BY SortingExists
<1>2. DOMAIN key = 1 .. n
  OBVIOUS
<1>3. Sorting(key) \in Bijection(1 .. n, 1 .. n) /\ InOrderOf(key, Sorting(key))
  BY <1>1, <1>2 DEF Sorting
<1>4. QED
  BY <1>2, <1>3 DEF Bijection, Injection, Surjection, IsInjective, InOrderOf
-----------------------------------------------------------------------------
\* A prefix agrees with the sequence, element by element.
LEMMA PrefixAgrees ==
  ASSUME NEW S, NEW s \in Seq(S), NEW t \in Seq(S)
  PROVE  IsPrefix(s, t) <=> /\ Len(s) <= Len(t)
                            /\ \A i \in 1 .. Len(s) : s[i] = t[i]
<1>1. Len(s) \in Nat /\ Len(t) \in Nat
  BY LenProperties
<1>2. SubSeq(s, 1, Len(s)) = s
  BY SubSeqFull
<1>3. SUFFICES ASSUME Len(s) <= Len(t)
               PROVE  s = SubSeq(t, 1, Len(s)) <=>
                        \A i \in 1 .. Len(s) : s[i] = t[i]
  BY <1>2 DEF IsPrefix
<1> DEFINE u == SubSeq(t, 1, Len(s))
<1>4. /\ u \in Seq(S) /\ Len(u) = Len(s)
      /\ \A i \in 1 .. Len(s) : u[i] = t[i]
  <2>1. \A i \in 1 .. Len(s) : t[i] \in S
    BY <1>1, <1>3, ElementOfSeq
  <2>2. /\ u \in Seq(S)
        /\ Len(u) = IF 1 <= Len(s) THEN Len(s) - 1 + 1 ELSE 0
        /\ \A i \in 1 .. Len(s) - 1 + 1 : u[i] = t[1 + i - 1]
    BY <1>1, <2>1, SubSeqProperties
  <2>3. Len(s) - 1 + 1 = Len(s) /\ \A i \in 1 .. Len(s) : 1 + i - 1 = i
    BY <1>1
  <2>4. Len(u) = Len(s)
    BY <1>1, <2>2
  <2> HIDE DEF u
  <2> QED BY <2>2, <2>3, <2>4
<1> HIDE DEF u
<1>5. (\A i \in 1 .. Len(s) : s[i] = t[i]) => s = u
  <2>1. ASSUME \A i \in 1 .. Len(s) : s[i] = t[i]
        PROVE  s = u
    <3>1. \A i \in 1 .. Len(s) : s[i] = u[i]
      BY <1>4, <2>1
    <3> QED BY <1>4, <3>1, SeqEqual
  <2> QED BY <2>1
<1>6. s = u => \A i \in 1 .. Len(s) : s[i] = t[i]
  BY <1>4
<1>7. QED
  BY <1>5, <1>6 DEF u

\* One more element at the end of a sequence, and what it is a prefix of.
LEMMA PrefixOfLonger ==
  ASSUME NEW S, NEW s \in Seq(S), NEW t \in Seq(S), NEW x \in S
  PROVE  /\ IsPrefix(Append(s, x), t) => IsPrefix(s, t)
         /\ IsPrefix(t, Append(s, x)) => IsPrefix(t, s) \/ IsPrefix(s, t)
<1> DEFINE u == Append(s, x)
<1>1. /\ u \in Seq(S) /\ Len(u) = Len(s) + 1
      /\ \A i \in 1 .. Len(s) : u[i] = s[i]
  BY AppendProperties
<1> HIDE DEF u
<1>2. Len(s) \in Nat /\ Len(t) \in Nat
  BY LenProperties
<1>3. IsPrefix(u, t) => IsPrefix(s, t)
  <2>1. ASSUME IsPrefix(u, t)
        PROVE  IsPrefix(s, t)
    <3>1. Len(u) <= Len(t) /\ \A i \in 1 .. Len(u) : u[i] = t[i]
      BY <1>1, <2>1, PrefixAgrees
    <3>2. Len(s) <= Len(t) /\ \A i \in 1 .. Len(s) : s[i] = t[i]
      BY <1>1, <1>2, <3>1
    <3> QED BY <3>2, PrefixAgrees
  <2> QED BY <2>1
<1>4. IsPrefix(t, u) => IsPrefix(t, s) \/ IsPrefix(s, t)
  <2>1. ASSUME IsPrefix(t, u)
        PROVE  IsPrefix(t, s) \/ IsPrefix(s, t)
    <3>1. Len(t) <= Len(u) /\ \A i \in 1 .. Len(t) : t[i] = u[i]
      BY <1>1, <2>1, PrefixAgrees
    <3>2. CASE Len(t) <= Len(s)
      <4>1. \A i \in 1 .. Len(t) : t[i] = s[i]
        BY <1>1, <1>2, <3>1, <3>2
      <4> QED BY <3>2, <4>1, PrefixAgrees
    <3>3. CASE ~(Len(t) <= Len(s))
      <4>1. Len(s) <= Len(t) /\ \A i \in 1 .. Len(s) : s[i] = t[i]
        BY <1>1, <1>2, <3>1, <3>3
      <4> QED BY <4>1, PrefixAgrees
    <3> QED BY <3>2, <3>3
  <2> QED BY <2>1
<1>5. QED
  BY <1>3, <1>4 DEF u

\* Two different elements at the end of a sequence.
LEMMA Siblings ==
  ASSUME NEW S, NEW s \in Seq(S), NEW x \in S, NEW y \in S, x # y
  PROVE  ~IsPrefix(Append(s, x), Append(s, y))
<1> DEFINE u == Append(s, x)
           v == Append(s, y)
<1>1. /\ u \in Seq(S) /\ Len(u) = Len(s) + 1 /\ u[Len(s) + 1] = x
      /\ v \in Seq(S) /\ v[Len(s) + 1] = y
  BY AppendProperties
<1> HIDE DEF u, v
<1>2. Len(s) + 1 \in 1 .. Len(u)
  BY <1>1, LenProperties
<1>3. ~IsPrefix(u, v)
  <2>1. IsPrefix(u, v) => \A i \in 1 .. Len(u) : u[i] = v[i]
    BY <1>1, PrefixAgrees
  <2> QED BY <1>1, <1>2, <2>1
<1>4. QED
  BY <1>3 DEF u, v

\* A sequence with as many elements as places has each of them once.
LEMMA OneEach ==
  ASSUME NEW n \in Nat, NEW f, DOMAIN f = 1 .. n,
         NEW T, T = {f[k] : k \in 1 .. n}, Cardinality(T) = n
  PROVE  \A j, k \in 1 .. n : f[j] = f[k] => j = k
<1> DEFINE g == [k \in 1 .. n |-> f[k]]
<1>1. g \in Surjection(1 .. n, T)
  BY DEF Surjection
<1>2. IsFiniteSet(1 .. n) /\ Cardinality(1 .. n) = n
  <2>1. (IF 1 > n THEN 0 ELSE n - 1 + 1) = n
    OBVIOUS
  <2> QED BY <2>1, FS_Interval
<1> HIDE DEF g
<1>3. g \in Injection(1 .. n, T)
  BY <1>1, <1>2, FS_Surjection
<1> USE DEF g
<1>4. \A j, k \in 1 .. n : g[j] = g[k] => j = k
  BY <1>3 DEF Injection, IsInjective
<1>5. QED
  BY <1>4

\* Numbers of places that are paired off are the same.
LEMMA PairedOff ==
  ASSUME NEW m \in Nat, NEW n \in Nat, NEW f \in [1 .. m -> 1 .. n],
         IsInjective(f), Range(f) = 1 .. n
  PROVE  m = n
<1>1. f \in Injection(1 .. m, 1 .. n)
  BY DEF Injection
<1>2. f \in Surjection(1 .. m, 1 .. n)
  BY DEF Surjection, Range
<1>3. /\ IsFiniteSet(1 .. m) /\ Cardinality(1 .. m) = m
      /\ IsFiniteSet(1 .. n) /\ Cardinality(1 .. n) = n
  <2>1. /\ (IF 1 > m THEN 0 ELSE m - 1 + 1) = m
        /\ (IF 1 > n THEN 0 ELSE n - 1 + 1) = n
    OBVIOUS
  <2> QED BY <2>1, FS_Interval
<1>4. Cardinality(1 .. m) = Cardinality(1 .. n)
  BY <1>1, <1>2, <1>3, FS_Injection
<1>5. QED
  BY <1>3, <1>4

\* What is in order already stays as it is.
LEMMA SortedStays ==
  ASSUME NEW n \in Nat, NEW key \in [1 .. n -> Nat],
         \A i, j \in 1 .. n : i < j => key[i] < key[j]
  PROVE  \A i \in 1 .. n : Sorting(key)[i] = i
<1> DEFINE p == Sorting(key)
<1>1. /\ p \in [1 .. n -> 1 .. n]
      /\ \A i, j \in 1 .. n : p[i] = p[j] => i = j
      /\ \A i, j \in 1 .. n : i < j => key[p[i]] <= key[p[j]]
  BY SortingSorts
<1> HIDE DEF p
<1>2. \A i \in 1 .. n : p[i] \in 1 .. n /\ key[p[i]] \in Nat
  BY <1>1
<1>3. \A i, j \in 1 .. n : i < j => p[i] < p[j]
  <2> TAKE i, j \in 1 .. n
  <2>1. CASE i < j
    <3>1. p[i] # p[j] /\ key[p[i]] <= key[p[j]]
      BY <1>1, <2>1
    <3>2. ~(p[j] < p[i])
      BY <1>2, <3>1
    <3> QED BY <1>2, <3>1, <3>2
  <2> QED BY <2>1
<1>4. \A i \in 1 .. n : i <= p[i]
  <2> DEFINE T == {m \in Nat : m \in 1 .. n => m <= p[m]}
  <2>1. 0 \in T
    OBVIOUS
  <2>2. ASSUME NEW m \in Nat, m \in T
        PROVE  m + 1 \in T
    <3> SUFFICES ASSUME m + 1 \in 1 .. n
                 PROVE  m + 1 <= p[m + 1]
      OBVIOUS
    <3>1. CASE m = 0
      BY <1>2, <3>1
    <3>2. CASE m # 0
      <4>1. m \in 1 .. n /\ m < m + 1
        BY <3>2
      <4>2. m <= p[m] /\ p[m] < p[m + 1]
        BY <1>3, <2>2, <4>1
      <4> QED BY <1>2, <4>1, <4>2
    <3> QED BY <3>1, <3>2
  <2>3. Nat \subseteq T
    <3> HIDE DEF T
    <3> QED BY <2>1, <2>2, InductionOverNat
  <2> QED BY <2>3
<1>5. \A i \in 1 .. n : p[i] <= i
  <2> DEFINE T == {m \in Nat : n - m \in 1 .. n => p[n - m] <= n - m}
  <2>1. 0 \in T
    <3>1. n - 0 = n
      OBVIOUS
    <3> QED BY <1>2, <3>1
  <2>2. ASSUME NEW m \in Nat, m \in T
        PROVE  m + 1 \in T
    <3> SUFFICES ASSUME n - (m + 1) \in 1 .. n
                 PROVE  p[n - (m + 1)] <= n - (m + 1)
      OBVIOUS
    <3>1. n - m \in 1 .. n /\ n - (m + 1) < n - m /\ n - (m + 1) + 1 = n - m
      OBVIOUS
    <3>2. p[n - m] <= n - m /\ p[n - (m + 1)] < p[n - m]
      BY <1>3, <2>2, <3>1
    <3> QED BY <1>2, <3>1, <3>2
  <2>3. Nat \subseteq T
    <3> HIDE DEF T
    <3> QED BY <2>1, <2>2, InductionOverNat
  <2> TAKE i \in 1 .. n
  <2>4. n - i \in Nat /\ n - (n - i) = i
    OBVIOUS
  <2>5. n - i \in T
    BY <2>3, <2>4
  <2> QED BY <2>4, <2>5
<1>6. \A i \in 1 .. n : p[i] = i
  BY <1>2, <1>4, <1>5
<1>7. QED
  BY <1>6 DEF p
-----------------------------------------------------------------------------
\* Prefixes order sequences, and those of one sequence linearly.
LEMMA PrefixOrder ==
  ASSUME NEW S
  PROVE  /\ \A s \in Seq(S) : IsPrefix(s, s) /\ IsPrefix(<<>>, s)
         /\ \A s, t \in Seq(S) : IsPrefix(s, t) /\ IsPrefix(t, s) => s = t
         /\ \A s, t \in Seq(S) : IsPrefix(s, t) /\ s # t => Len(s) < Len(t)
         /\ \A s, t, u \in Seq(S) :
                IsPrefix(s, t) /\ IsPrefix(t, u) => IsPrefix(s, u)
         /\ \A s, t, u \in Seq(S) :
                IsPrefix(s, u) /\ IsPrefix(t, u) => IsPrefix(s, t) \/ IsPrefix(t, s)
<1>1. \A s \in Seq(S) : Len(s) \in Nat
  BY LenProperties
<1>2. <<>> \in Seq(S) /\ Len(<<>>) = 0
  BY EmptySeq
<1>3. \A s, t \in Seq(S) : IsPrefix(s, t) <=>
        Len(s) <= Len(t) /\ \A i \in 1 .. Len(s) : s[i] = t[i]
  BY PrefixAgrees
<1>4. \A s \in Seq(S) : IsPrefix(s, s) /\ IsPrefix(<<>>, s)
  <2>1. SUFFICES ASSUME NEW s \in Seq(S)
                 PROVE  IsPrefix(s, s) /\ IsPrefix(<<>>, s)
    OBVIOUS
  <2>2. Len(s) \in Nat /\ 0 <= Len(s) /\ \A i \in 1 .. 0 : FALSE
    BY <1>1
  <2>3. IsPrefix(s, s)
    BY <1>3, <2>2
  <2> DEFINE e == <<>>
  <2>4. e \in Seq(S) /\ Len(e) = 0
    BY <1>2
  <2> HIDE DEF e
  <2>5. Len(e) <= Len(s) /\ \A i \in 1 .. Len(e) : e[i] = s[i]
    BY <2>2, <2>4
  <2>6. IsPrefix(e, s)
    BY <1>3, <2>4, <2>5
  <2> QED BY <2>3, <2>6 DEF e
<1>5. \A s, t \in Seq(S) : IsPrefix(s, t) /\ Len(t) <= Len(s) => s = t
  <2>1. SUFFICES ASSUME NEW s \in Seq(S), NEW t \in Seq(S), IsPrefix(s, t),
                        Len(t) <= Len(s)
                 PROVE  s = t
    OBVIOUS
  <2>2. Len(s) = Len(t) /\ \A i \in 1 .. Len(s) : s[i] = t[i]
    BY <1>1, <1>3, <2>1
  <2> QED BY <2>2, SeqEqual
<1>6. \A s, t \in Seq(S) : IsPrefix(s, t) /\ IsPrefix(t, s) => s = t
  BY <1>3, <1>5
<1>7. \A s, t \in Seq(S) : IsPrefix(s, t) /\ s # t => Len(s) < Len(t)
  BY <1>1, <1>5
<1>8. \A s, t, u \in Seq(S) :
        IsPrefix(s, t) /\ IsPrefix(t, u) => IsPrefix(s, u)
  <2>1. SUFFICES ASSUME NEW s \in Seq(S), NEW t \in Seq(S), NEW u \in Seq(S),
                        IsPrefix(s, t), IsPrefix(t, u)
                 PROVE  IsPrefix(s, u)
    OBVIOUS
  <2>2. /\ Len(s) \in Nat /\ Len(t) \in Nat /\ Len(u) \in Nat
        /\ Len(s) <= Len(t) /\ Len(t) <= Len(u)
        /\ \A i \in 1 .. Len(s) : s[i] = t[i]
        /\ \A i \in 1 .. Len(t) : t[i] = u[i]
    BY <1>1, <1>3, <2>1
  <2>3. Len(s) <= Len(u) /\ \A i \in 1 .. Len(s) : s[i] = u[i]
    BY <2>2
  <2> QED BY <1>3, <2>3
<1>9. \A s, t, u \in Seq(S) :
        IsPrefix(s, u) /\ IsPrefix(t, u) => IsPrefix(s, t) \/ IsPrefix(t, s)
  <2>1. SUFFICES ASSUME NEW s \in Seq(S), NEW t \in Seq(S), NEW u \in Seq(S),
                        IsPrefix(s, u), IsPrefix(t, u)
                 PROVE  IsPrefix(s, t) \/ IsPrefix(t, s)
    OBVIOUS
  <2>2. /\ Len(s) \in Nat /\ Len(t) \in Nat
        /\ \A i \in 1 .. Len(s) : s[i] = u[i]
        /\ \A i \in 1 .. Len(t) : t[i] = u[i]
    BY <1>1, <1>3, <2>1
  <2>3. CASE Len(s) <= Len(t)
    <3>1. \A i \in 1 .. Len(s) : s[i] = t[i]
      BY <2>2, <2>3
    <3> QED BY <1>3, <2>3, <3>1
  <2>4. CASE Len(t) <= Len(s)
    <3>1. \A i \in 1 .. Len(t) : t[i] = s[i]
      BY <2>2, <2>4
    <3> QED BY <1>3, <2>4, <3>1
  <2> QED BY <2>2, <2>3, <2>4
<1> QED BY <1>4, <1>6, <1>7, <1>8, <1>9

\* The front of a sequence is its longest strict prefix.
LEMMA FrontIsPrefix ==
  ASSUME NEW S, NEW s \in Seq(S), s # <<>>
  PROVE  /\ Front(s) \in Seq(S) /\ Len(Front(s)) = Len(s) - 1
         /\ IsPrefix(Front(s), s) /\ Front(s) # s
         /\ \A t \in Seq(S) : IsPrefix(t, s) /\ t # s => IsPrefix(t, Front(s))
<1>1. Len(s) \in Nat \ {0} /\ \A i \in 1 .. Len(s) : s[i] \in S
  BY EmptySeq, ElementOfSeq
<1>a. Len(s) \in Nat \ {0}
  BY <1>1
<1> DEFINE f == Front(s)
<1>2. /\ f \in Seq(S) /\ Len(f) = Len(s) - 1
      /\ \A i \in 1 .. Len(s) - 1 : f[i] = s[i]
  <2>1. \A i \in 1 .. Len(s) - 1 : s[i] \in S
    BY <1>1
  <2>2. 1 \in Int /\ Len(s) - 1 \in Int
    BY <1>1
  <2>3. /\ f \in Seq(S)
        /\ Len(f) = IF 1 <= Len(s) - 1 THEN Len(s) - 1 - 1 + 1 ELSE 0
        /\ \A i \in 1 .. Len(s) - 1 - 1 + 1 : f[i] = s[1 + i - 1]
    BY <2>1, <2>2, SubSeqProperties DEF Front
  <2> DEFINE n == Len(s)
  <2>a. n \in Nat /\ n >= 1
    BY <1>a
  <2> HIDE DEF n
  <2>b. n - 1 - 1 + 1 = n - 1 /\ \A i \in 1 .. n - 1 : 1 + i - 1 = i
    BY <2>a
  <2>c. (IF 1 <= n - 1 THEN n - 1 - 1 + 1 ELSE 0) = n - 1
    BY <2>a
  <2>4. /\ Len(s) - 1 - 1 + 1 = Len(s) - 1
        /\ \A i \in 1 .. Len(s) - 1 : 1 + i - 1 = i
        /\ (IF 1 <= Len(s) - 1 THEN Len(s) - 1 - 1 + 1 ELSE 0) = Len(s) - 1
    BY <2>b, <2>c DEF n
  <2> HIDE DEF f
  <2> QED BY <2>3, <2>4
<1> HIDE DEF f
<1>3. IsPrefix(f, s) /\ f # s
  BY <1>1, <1>2, PrefixAgrees
<1>4. \A t \in Seq(S) : IsPrefix(t, s) /\ t # s => IsPrefix(t, f)
  <2>1. SUFFICES ASSUME NEW t \in Seq(S), IsPrefix(t, s), t # s
                 PROVE  IsPrefix(t, f)
    OBVIOUS
  <2>2. Len(t) < Len(s) /\ Len(t) \in Nat /\ \A i \in 1 .. Len(t) : t[i] = s[i]
    BY <2>1, PrefixOrder, PrefixAgrees, LenProperties
  <2>3. Len(t) <= Len(f) /\ \A i \in 1 .. Len(t) : t[i] = f[i]
    BY <1>1, <1>2, <2>2
  <2> QED BY <1>2, <2>3, PrefixAgrees
<1> QED BY <1>2, <1>3, <1>4 DEF f

\* The first elements of a sequence are a prefix of it, and so is any prefix.
LEMMA PrefixIsSubSeq ==
  ASSUME NEW S, NEW s \in Seq(S), NEW n \in 0 .. Len(s)
  PROVE  /\ SubSeq(s, 1, n) \in Seq(S) /\ Len(SubSeq(s, 1, n)) = n
         /\ IsPrefix(SubSeq(s, 1, n), s)
         /\ \A t \in Seq(S) : IsPrefix(t, s) /\ Len(t) = n => t = SubSeq(s, 1, n)
<1>1. Len(s) \in Nat /\ \A i \in 1 .. Len(s) : s[i] \in S
  BY LenProperties, ElementOfSeq
<1> DEFINE f == SubSeq(s, 1, n)
<1>2. /\ f \in Seq(S) /\ Len(f) = n
      /\ \A i \in 1 .. n : f[i] = s[i]
  <2>1. \A i \in 1 .. n : s[i] \in S
    BY <1>1
  <2>2. 1 \in Int /\ n \in Int
    BY <1>1
  <2>3. /\ f \in Seq(S)
        /\ Len(f) = IF 1 <= n THEN n - 1 + 1 ELSE 0
        /\ \A i \in 1 .. n - 1 + 1 : f[i] = s[1 + i - 1]
    BY <2>1, <2>2, SubSeqProperties
  <2>4. /\ n - 1 + 1 = n
        /\ \A i \in 1 .. n : 1 + i - 1 = i
        /\ (IF 1 <= n THEN n - 1 + 1 ELSE 0) = n
    BY <1>1
  <2> HIDE DEF f
  <2> QED BY <2>3, <2>4
<1> HIDE DEF f
<1>3. n <= Len(s)
  BY <1>1
<1>4. IsPrefix(f, s)
  BY <1>2, <1>3, PrefixAgrees
<1>5. \A t \in Seq(S) : IsPrefix(t, s) /\ Len(t) = n => t = f
  <2>1. SUFFICES ASSUME NEW t \in Seq(S), IsPrefix(t, s), Len(t) = n
                 PROVE  t = f
    OBVIOUS
  <2>2. \A i \in 1 .. n : t[i] = s[i]
    BY <2>1, PrefixAgrees
  <2>3. Len(t) = Len(f) /\ \A i \in 1 .. Len(t) : t[i] = f[i]
    BY <1>2, <2>1, <2>2
  <2> QED BY <1>2, <2>3, SeqEqual
<1> QED BY <1>2, <1>4, <1>5 DEF f

\* Sequences that begin alike.
LEMMA PrefixAfterConcat ==
  ASSUME NEW S, NEW w \in Seq(S)
  PROVE  /\ \A s \in Seq(S) : w \o s \in Seq(S) /\ IsPrefix(w, w \o s)
         /\ \A s \in Seq(S) : w \o s = w <=> s = <<>>
         /\ \A s, t \in Seq(S) : w \o s = w \o t => s = t
         /\ \A s, t \in Seq(S) : IsPrefix(w \o s, w \o t) <=> IsPrefix(s, t)
         /\ \A t \in Seq(S) : IsPrefix(w, t) => \E s \in Seq(S) : t = w \o s
<1>1. /\ Len(w) \in Nat
      /\ \A s \in Seq(S) : /\ w \o s \in Seq(S) /\ Len(s) \in Nat
                           /\ Len(w \o s) = Len(w) + Len(s)
                           /\ \A i \in 1 .. Len(w) : (w \o s)[i] = w[i]
                           /\ \A i \in 1 .. Len(s) : (w \o s)[Len(w) + i] = s[i]
  BY LenProperties, ConcatAt
<1>2. \A s \in Seq(S) : IsPrefix(w, w \o s)
  <2>1. SUFFICES ASSUME NEW s \in Seq(S) PROVE IsPrefix(w, w \o s)
    OBVIOUS
  <2>2. Len(w) <= Len(w \o s) /\ \A i \in 1 .. Len(w) : w[i] = (w \o s)[i]
    BY <1>1
  <2> QED BY <1>1, <2>2, PrefixAgrees
<1>3. \A s \in Seq(S) : w \o s = w <=> s = <<>>
  BY ConcatEqualIffEmpty
<1>4. \A s, t \in Seq(S) : w \o s = w \o t => s = t
  <2>1. SUFFICES ASSUME NEW s \in Seq(S), NEW t \in Seq(S), w \o s = w \o t
                 PROVE  s = t
    OBVIOUS
  <2>2. Len(s) = Len(t) /\ \A i \in 1 .. Len(s) : s[i] = t[i]
    BY <1>1, <2>1
  <2> QED BY <2>2, SeqEqual
<1>5. \A s, t \in Seq(S) : IsPrefix(w \o s, w \o t) <=> IsPrefix(s, t)
  <2>1. SUFFICES ASSUME NEW s \in Seq(S), NEW t \in Seq(S)
                 PROVE  IsPrefix(w \o s, w \o t) <=> IsPrefix(s, t)
    OBVIOUS
  <2> DEFINE a == w \o s
             b == w \o t
  <2>2. /\ a \in Seq(S) /\ b \in Seq(S)
        /\ Len(a) = Len(w) + Len(s) /\ Len(b) = Len(w) + Len(t)
        /\ \A i \in 1 .. Len(w) : a[i] = w[i] /\ b[i] = w[i]
        /\ \A i \in 1 .. Len(s) : a[Len(w) + i] = s[i]
        /\ \A i \in 1 .. Len(t) : b[Len(w) + i] = t[i]
        /\ Len(s) \in Nat /\ Len(t) \in Nat /\ Len(w) \in Nat
    BY <1>1
  <2> HIDE DEF a, b
  <2>3. ASSUME IsPrefix(s, t) PROVE IsPrefix(a, b)
    <3>1. Len(s) <= Len(t) /\ \A i \in 1 .. Len(s) : s[i] = t[i]
      BY <2>3, PrefixAgrees
    <3>2. ASSUME NEW i \in 1 .. Len(a) PROVE a[i] = b[i]
      <4>1. CASE i <= Len(w)
        BY <2>2, <4>1
      <4>2. CASE ~(i <= Len(w))
        <5> DEFINE j == i - Len(w)
        <5>1. j \in 1 .. Len(s) /\ j \in 1 .. Len(t) /\ i = Len(w) + j
          BY <2>2, <3>1, <4>2
        <5> HIDE DEF j
        <5>2. a[Len(w) + j] = s[j] /\ b[Len(w) + j] = t[j] /\ s[j] = t[j]
          BY <2>2, <3>1, <5>1
        <5> QED BY <5>1, <5>2
      <4> QED BY <4>1, <4>2
    <3>3. Len(a) <= Len(b)
      BY <2>2, <3>1
    <3> QED BY <2>2, <3>2, <3>3, PrefixAgrees
  <2>4. ASSUME IsPrefix(a, b) PROVE IsPrefix(s, t)
    <3> DEFINE Alike(u, v) ==
                    Len(u) <= Len(v) /\ \A i \in 1 .. Len(u) : u[i] = v[i]
    <3>a. a \in Seq(S) /\ b \in Seq(S)
      BY <2>2
    <3>b. IsPrefix(a, b) <=> Alike(a, b)
      BY <3>a, PrefixAgrees
    <3>1. Len(a) <= Len(b) /\ \A i \in 1 .. Len(a) : a[i] = b[i]
      BY <2>4, <3>b
    <3>2. Len(s) <= Len(t)
      BY <2>2, <3>1
    <3>3. ASSUME NEW i \in 1 .. Len(s) PROVE s[i] = t[i]
      <4>1. Len(w) + i \in 1 .. Len(a) /\ i \in 1 .. Len(t)
        BY <2>2, <3>2
      <4> QED BY <2>2, <3>1, <4>1
    <3> QED BY <3>2, <3>3, PrefixAgrees
  <2> QED BY <2>3, <2>4 DEF a, b
<1>6. \A t \in Seq(S) : IsPrefix(w, t) => \E s \in Seq(S) : t = w \o s
  <2>1. SUFFICES ASSUME NEW t \in Seq(S), IsPrefix(w, t)
                 PROVE  \E s \in Seq(S) : t = w \o s
    OBVIOUS
  <2>2. Len(t) \in Nat /\ Len(w) <= Len(t) /\ \A i \in 1 .. Len(w) : w[i] = t[i]
    BY <2>1, PrefixAgrees, LenProperties
  <2> DEFINE n == Len(t) - Len(w)
             s == [i \in 1 .. n |-> t[Len(w) + i]]
  <2>3. n \in Nat
    BY <1>1, <2>2
  <2>4. s \in [1 .. n -> S]
    <3>1. ASSUME NEW i \in 1 .. n PROVE t[Len(w) + i] \in S
      <4>1. Len(w) + i \in 1 .. Len(t)
        BY <1>1, <2>2, <2>3
      <4> QED BY <4>1, ElementOfSeq
    <3> QED BY <3>1
  <2>5. /\ s \in Seq(S) /\ Len(s) = n
        /\ \A i \in 1 .. n : s[i] = t[Len(w) + i]
    BY <2>3, <2>4, FunctionIsSeq
  <2>6. n + Len(w) = Len(t)
    BY <1>1, <2>2
  <2> HIDE DEF s, n
  <2>7. Len(w \o s) = Len(t)
    BY <1>1, <2>5, <2>6, <2>3
  <2>8. ASSUME NEW i \in 1 .. Len(t) PROVE t[i] = (w \o s)[i]
    <3>1. CASE i <= Len(w)
      BY <1>1, <2>2, <2>5, <3>1
    <3>2. CASE ~(i <= Len(w))
      <4> DEFINE j == i - Len(w)
      <4>1. j \in 1 .. n /\ i = Len(w) + j
        BY <1>1, <2>2, <2>3, <2>6, <3>2
      <4> HIDE DEF j
      <4>2. s[j] = t[Len(w) + j] /\ (w \o s)[Len(w) + j] = s[j]
        BY <1>1, <2>5, <4>1
      <4> QED BY <4>1, <4>2
    <3> QED BY <3>1, <3>2
  <2>9. t = w \o s
    BY <1>1, <2>5, <2>7, <2>8, SeqEqual
  <2> QED BY <2>5, <2>9
<1> QED BY <1>1, <1>2, <1>3, <1>4, <1>5, <1>6

\* The front of a concatenation.
LEMMA FrontOfConcat ==
  ASSUME NEW S, NEW w \in Seq(S), NEW s \in Seq(S), s # <<>>
  PROVE  Front(w \o s) = w \o Front(s)
<1> DEFINE a == w \o s
           f == Front(s)
<1>1. a \in Seq(S) /\ a # <<>> /\ Len(a) = Len(w) + Len(s)
  BY ConcatAt, ConcatEqualIffEmpty
<1>2. /\ f \in Seq(S) /\ Len(f) = Len(s) - 1 /\ IsPrefix(f, s)
  BY FrontIsPrefix
<1>3. /\ Front(a) \in Seq(S) /\ Len(Front(a)) = Len(a) - 1
      /\ \A t \in Seq(S) : IsPrefix(t, a) /\ t # a => IsPrefix(t, Front(a))
  <2> HIDE DEF a
  <2> QED BY <1>1, FrontIsPrefix
<1>4. Len(w) \in Nat /\ Len(s) \in Nat
  BY LenProperties
<1> HIDE DEF f
<1>5. w \o f \in Seq(S) /\ Len(w \o f) = Len(w) + Len(f) /\ IsPrefix(w \o f, a)
  <2>1. w \o f \in Seq(S) /\ Len(w \o f) = Len(w) + Len(f)
    BY <1>2, ConcatAt
  <2>2. IsPrefix(w \o f, w \o s)
    BY <1>2, PrefixAfterConcat
  <2> QED BY <2>1, <2>2 DEF a
<1> HIDE DEF a
<1>6. w \o f # a
  BY <1>1, <1>2, <1>4, <1>5
<1>7. IsPrefix(w \o f, Front(a))
  BY <1>3, <1>5, <1>6
<1>8. Len(w \o f) = Len(Front(a))
  BY <1>1, <1>2, <1>3, <1>4, <1>5
<1>9. w \o f = Front(a)
  <2> DEFINE g == Front(a)
             h == w \o f
  <2>1. h \in Seq(S) /\ g \in Seq(S) /\ IsPrefix(h, g) /\ Len(h) = Len(g)
    BY <1>3, <1>5, <1>7, <1>8
  <2> HIDE DEF g, h
  <2>2. Len(h) \in Nat /\ (h # g => Len(h) < Len(g))
    BY <2>1, PrefixOrder, LenProperties
  <2>3. h = g
    BY <2>1, <2>2
  <2> QED BY <2>3 DEF g, h
<1> QED BY <1>9 DEF a, f
=============================================================================
