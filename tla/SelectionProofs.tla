--------------------------- MODULE SelectionProofs ---------------------------
(***************************************************************************)
(* What Selection takes from a list: nothing else, each position once, and *)
(* in the order asked for.  What the numbers and the lists of the          *)
(* community modules are, as far as the proofs about the modules that      *)
(* select need it.                                                         *)
(***************************************************************************)
EXTENDS Selection, SequencesExt, FiniteSetTheorems, SequenceTheorems, TLAPS

-----------------------------------------------------------------------------
(* Numbers. *)

\* A set of numbers that is not empty has a least one.
LEMMA LeastOne == ASSUME NEW S, S \subseteq Nat, S # {} PROVE \E x \in S : \A y \in S : x <= y
<1>1. IsWellFoundedOn(OpToRel(<, Nat), Nat)
  BY NatLessThanWellFounded
<1>2. PICK x \in S : \A y \in S : ~ (<<y, x>> \in OpToRel(<, Nat))
  BY <1>1, WFMin
<1>3. \A y \in Nat : y < x => <<y, x>> \in OpToRel(<, Nat)
  BY Zenon DEF OpToRel
<1>4. \A y \in S : ~ (y < x)
  BY <1>2, <1>3, Zenon
<1>5. \A y \in S : x <= y
  BY <1>4
<1> QED BY <1>5

\* Of finitely many numbers one is the highest.
LEMMA Highest ==
    ASSUME NEW N \in Nat, N # 0, NEW v \in [1 .. N -> Nat]
    PROVE  \E i \in 1 .. N : \A j \in 1 .. N : v[j] <= v[i]
<1> DEFINE Lacking == {n \in 1 .. N : ~ \E i \in 1 .. n : \A j \in 1 .. n : v[j] <= v[i]}
<1>1. ASSUME Lacking # {} PROVE FALSE
  <2>1. PICK n \in Lacking : \A k \in Lacking : n <= k
    <3>1. Lacking \subseteq Nat
      OBVIOUS
    <3> HIDE DEF Lacking
    <3> QED BY <1>1, <3>1, LeastOne
  <2>2. /\ n \in 1 .. N
        /\ \A i \in 1 .. n : \E j \in 1 .. n : ~(v[j] <= v[i])
    BY <2>1
  <2>3. n # 1
    <3>1. ASSUME n = 1 PROVE FALSE
      <4>1. \E j \in 1 .. 1 : ~(v[j] <= v[1])
        BY <2>2, <3>1
      <4>2. v[1] \in Nat
        OBVIOUS
      <4>3. PICK j \in 1 .. 1 : ~(v[j] <= v[1])
        BY <4>1
      <4>4. j = 1
        OBVIOUS
      <4> QED BY <4>2, <4>3, <4>4
    <3> QED BY <3>1
  <2>4. n - 1 \in 1 .. N /\ ~(n <= n - 1)
    BY <2>2, <2>3
  <2>5. n - 1 \notin Lacking
    <3> HIDE DEF Lacking
    <3> QED BY <2>1, <2>4
  <2>6. PICK i \in 1 .. n - 1 : \A j \in 1 .. n - 1 : v[j] <= v[i]
    BY <2>4, <2>5
  <2>7. i \in 1 .. N /\ v[i] \in Nat /\ v[n] \in Nat /\ n \in 1 .. n /\ i \in 1 .. n
    BY <2>2, <2>4
  <2>8. \A j \in 1 .. n : j = n \/ j \in 1 .. n - 1
    BY <2>2
  <2>9. CASE v[n] <= v[i]
    <3>1. \A j \in 1 .. n : v[j] <= v[i]
      BY <2>6, <2>8, <2>9
    <3> QED BY <2>2, <2>7, <3>1
  <2>10. CASE v[i] <= v[n]
    <3>1. \A j \in 1 .. n : v[j] <= v[n]
      <4> TAKE j \in 1 .. n
      <4>1. CASE j = n
        BY <2>7, <4>1
      <4>2. CASE j \in 1 .. n - 1
        <5>1. v[j] <= v[i] /\ v[j] \in Nat
          BY <2>2, <2>6, <4>2
        <5> QED BY <2>7, <2>10, <5>1
      <4> QED BY <2>8, <4>1, <4>2
    <3> QED BY <2>2, <2>7, <3>1
  <2> QED BY <2>7, <2>9, <2>10
<1>2. N \in 1 .. N /\ N \notin Lacking
  <2> HIDE DEF Lacking
  <2> QED BY <1>1
<1> QED BY <1>2
-----------------------------------------------------------------------------
(* Orders. *)

\* before orders S, but for elements that are alike.
WeakOrder(S, before) ==
    /\ \A i, j \in S : <<i, j>> \in before => <<j, i>> \notin before
    /\ \A i, j, k \in S : <<i, j>> \in before => <<i, k>> \in before \/ <<k, j>> \in before

\* What is sorted before i.
Precedes(before, j, i) == IF j < i THEN <<i, j>> \notin before ELSE <<j, i>> \in before
Preceding(S, before, i) == {j \in S : Precedes(before, j, i)}

\* Of two positions one is sorted before the other, and what precedes it too.
LEMMA PrecedingGrows ==
    ASSUME NEW S, S \subseteq Int, NEW before, WeakOrder(S, before)
    PROVE  /\ \A i \in S : i \notin Preceding(S, before, i)
           /\ \A i, j \in S : i # j =>
                i \in Preceding(S, before, j) \/ j \in Preceding(S, before, i)
           /\ \A i, j \in S : i \in Preceding(S, before, j) =>
                Preceding(S, before, i) \subseteq Preceding(S, before, j)
<1>1. /\ \A i, j \in S : <<i, j>> \in before => <<j, i>> \notin before
      /\ \A i, j, k \in S : <<i, j>> \in before => <<i, k>> \in before \/ <<k, j>> \in before
  BY DEF WeakOrder
<1>2. ASSUME NEW i \in S PROVE ~ Precedes(before, i, i)
  BY <1>1 DEF Precedes
<1>3. ASSUME NEW i \in S, NEW j \in S, i # j PROVE Precedes(before, i, j) \/ Precedes(before, j, i)
  <2>1. i \in Int /\ j \in Int
    OBVIOUS
  <2> QED BY <1>3, <2>1 DEF Precedes
<1>4. ASSUME NEW i \in S, NEW j \in S, NEW k \in S,
             Precedes(before, k, i), Precedes(before, i, j)
      PROVE  Precedes(before, k, j)
  <2>1. i \in Int /\ j \in Int /\ k \in Int
    OBVIOUS
  <2> QED BY <1>1, <1>4, <2>1 DEF Precedes
<1> QED BY <1>2, <1>3, <1>4 DEF Preceding

\* A sorted selection has each of its positions once, in the order it is sorted by.
LEMMA OrderSorts ==
    ASSUME NEW S, S \subseteq Int, IsFiniteSet(S), NEW before, WeakOrder(S, before)
    PROVE  LET N == Cardinality(S)
               order == Order(S, before)
           IN  /\ N \in Nat
               /\ order \in [1 .. N -> S]
               /\ \A i \in S : \E n \in 1 .. N : order[n] = i
               /\ \A m, n \in 1 .. N :
                    m < n => order[m] # order[n] /\ Precedes(before, order[m], order[n])
<1> DEFINE N == Cardinality(S)
           rank == [i \in S |-> Cardinality(Preceding(S, before, i))]
           order == Order(S, before)
<1>0. /\ \A i \in S : i \notin Preceding(S, before, i)
      /\ \A i, j \in S : i # j => i \in Preceding(S, before, j) \/ j \in Preceding(S, before, i)
      /\ \A i, j \in S : i \in Preceding(S, before, j) =>
           Preceding(S, before, i) \subseteq Preceding(S, before, j)
  BY PrecedingGrows
<1>1. N \in Nat
  BY FS_CardinalityType
<1>2. ASSUME NEW i \in S
      PROVE  /\ IsFiniteSet(Preceding(S, before, i))
             /\ rank[i] \in 0 .. N - 1
  <2> DEFINE P == Preceding(S, before, i)
  <2>1. P \subseteq S \ {i}
    BY <1>0 DEF Preceding
  <2>2. IsFiniteSet(S \ {i}) /\ Cardinality(S \ {i}) = N - 1
    BY FS_RemoveElement
  <2> HIDE DEF P
  <2>3. IsFiniteSet(P) /\ Cardinality(P) <= N - 1
    BY <2>1, <2>2, FS_Subset
  <2>4. Cardinality(P) \in Nat
    BY <2>3, FS_CardinalityType
  <2>5. rank[i] = Cardinality(P)
    BY DEF P
  <2> QED BY <1>1, <2>3, <2>4, <2>5 DEF P
<1>2a. \A i \in S : rank[i] \in Int
  <2> HIDE DEF rank
  <2> QED BY <1>1, <1>2
<1>3. ASSUME NEW i \in S, NEW j \in S, i \in Preceding(S, before, j) PROVE rank[i] < rank[j]
  <2> DEFINE P == Preceding(S, before, i)
             Q == Preceding(S, before, j)
  <2>1. P \cup {i} \subseteq Q /\ i \notin P
    BY <1>3, <1>0
  <2>2. IsFiniteSet(P) /\ IsFiniteSet(Q)
    BY <1>2
  <2>3. rank[i] = Cardinality(P) /\ rank[j] = Cardinality(Q)
    OBVIOUS
  <2> HIDE DEF P, Q
  <2>4. IsFiniteSet(P \cup {i}) /\ Cardinality(P \cup {i}) = Cardinality(P) + 1
    BY <2>1, <2>2, FS_AddElement
  <2>5. Cardinality(P \cup {i}) <= Cardinality(Q)
    BY <2>1, <2>2, FS_Subset
  <2>6. Cardinality(P) \in Nat /\ Cardinality(Q) \in Nat
    BY <2>2, FS_CardinalityType
  <2> HIDE DEF rank
  <2> QED BY <2>3, <2>4, <2>5, <2>6
<1>4. ASSUME NEW i \in S, NEW j \in S, rank[i] = rank[j] PROVE i = j
  <2>1. rank[i] \in Int /\ ~(rank[i] < rank[j]) /\ ~(rank[j] < rank[i])
    <3> HIDE DEF rank
    <3> QED BY <1>4, <1>2a
  <2> HIDE DEF rank
  <2> QED BY <1>0, <1>3, <2>1
<1>5. \A n \in 0 .. N - 1 : \E i \in S : rank[i] = n
  <2>1. rank \in Injection(S, 0 .. N - 1)
    <3>1. rank \in [S -> 0 .. N - 1]
      BY <1>2
    <3> HIDE DEF rank
    <3> QED BY <1>4, <3>1 DEF Injection, IsInjective
  <2>2. IsFiniteSet(0 .. N - 1) /\ Cardinality(0 .. N - 1) = N
    BY <1>1, FS_Interval
  <2> HIDE DEF rank
  <2>3. rank \in Surjection(S, 0 .. N - 1)
    BY <2>1, <2>2, FS_Injection
  <2> QED BY <2>3 DEF Surjection
<1>6. order = [n \in 1 .. N |-> CHOOSE i \in S : Cardinality(Preceding(S, before, i)) = n - 1]
  BY Zenon DEF Order, Preceding, Precedes
<1> HIDE DEF order
<1>7. ASSUME NEW n \in 1 .. N PROVE order[n] \in S /\ rank[order[n]] = n - 1
  <2>1. n - 1 \in 0 .. N - 1
    BY <1>1
  <2>2. \E i \in S : Cardinality(Preceding(S, before, i)) = n - 1
    BY <1>5, <2>1
  <2>3. order[n] = CHOOSE i \in S : Cardinality(Preceding(S, before, i)) = n - 1
    BY <1>6
  <2> QED BY <2>2, <2>3
<1>8. order \in [1 .. N -> S]
  BY <1>6, <1>7, Zenon
<1>9. ASSUME NEW i \in S PROVE \E n \in 1 .. N : order[n] = i
  <2> HIDE DEF rank
  <2>1. rank[i] + 1 \in 1 .. N
    BY <1>1, <1>2
  <2>2. rank[order[rank[i] + 1]] = rank[i] /\ order[rank[i] + 1] \in S
    BY <1>1, <1>2, <1>7, <2>1
  <2> QED BY <1>4, <2>1, <2>2
<1>10. ASSUME NEW m \in 1 .. N, NEW n \in 1 .. N, m < n
       PROVE  order[m] # order[n] /\ Precedes(before, order[m], order[n])
  <2>1. order[m] \in S /\ order[n] \in S /\ rank[order[m]] < rank[order[n]]
    <3> HIDE DEF rank
    <3>1. m \in Int /\ n \in Int
      BY <1>1
    <3> QED BY <1>7, <1>10, <3>1
  <2>2. ~ (rank[order[n]] < rank[order[m]]) /\ order[m] # order[n]
    <3>1. rank[order[m]] \in Int /\ rank[order[n]] \in Int
      BY <1>2a, <2>1, Zenon
    <3> HIDE DEF rank
    <3> QED BY <2>1, <3>1
  <2>3. order[m] \in Preceding(S, before, order[n])
    <3> HIDE DEF rank
    <3> QED BY <1>0, <1>3, <2>1, <2>2
  <2> QED BY <2>2, <2>3 DEF Preceding
<1> QED BY <1>1, <1>8, <1>9, <1>10 DEF order

\* t has what is at the positions S of s and nothing else.
Selects(t, s, S) ==
    /\ \A i \in S : \E n \in DOMAIN t : t[n] = s[i]
    /\ \A n \in DOMAIN t : \E i \in S : t[n] = s[i]

\* What is sorted is what was selected, and each position counts once.
LEMMA SortedSelects ==
    ASSUME NEW s, NEW S, S \subseteq Int, IsFiniteSet(S), NEW T, \A i \in S : s[i] \in T,
           NEW before, WeakOrder(S, before), NEW t, t = Sorted(s, S, before)
    PROVE  /\ t \in Seq(T) /\ DOMAIN t = 1 .. Len(t) /\ Len(t) \in Nat
           /\ Selects(t, s, S)
           /\ \A m, n \in DOMAIN t : m < n =>
                \E i, j \in S : /\ t[m] = s[i] /\ t[n] = s[j]
                                /\ i # j /\ Precedes(before, i, j)
<1> DEFINE N == Cardinality(S)
           order == Order(S, before)
<1>1. /\ N \in Nat
      /\ order \in [1 .. N -> S]
      /\ \A i \in S : \E n \in 1 .. N : order[n] = i
      /\ \A m, n \in 1 .. N :
           m < n => order[m] # order[n] /\ Precedes(before, order[m], order[n])
  BY OrderSorts
<1> HIDE DEF order, N
<1>2. t = [n \in 1 .. N |-> s[order[n]]]
  BY <1>1 DEF Sorted, order
<1>3. \A n \in 1 .. N : t[n] = s[order[n]] /\ order[n] \in S
  BY <1>1, <1>2
<1>4. t \in [1 .. N -> T]
  BY <1>2, <1>3
<1>5. t \in Seq(T) /\ DOMAIN t = 1 .. N /\ Len(t) = N
  BY <1>1, <1>4
<1>6. DOMAIN t = 1 .. Len(t) /\ Len(t) \in Nat
  BY <1>1, <1>5
<1>7. ASSUME NEW i \in S PROVE \E n \in DOMAIN t : t[n] = s[i]
  BY <1>1, <1>3, <1>5
<1>8. ASSUME NEW n \in DOMAIN t PROVE \E i \in S : t[n] = s[i]
  BY <1>3, <1>5
<1>9. ASSUME NEW m \in DOMAIN t, NEW n \in DOMAIN t, m < n
      PROVE  \E i, j \in S : t[m] = s[i] /\ t[n] = s[j] /\ i # j /\ Precedes(before, i, j)
  <2>1. m \in 1 .. N /\ n \in 1 .. N
    BY <1>5
  <2> QED BY <1>1, <1>3, <1>9, <2>1, Zenon
<1>10. Selects(t, s, S)
  BY <1>7, <1>8 DEF Selects
<1> QED BY <1>5, <1>6, <1>9, <1>10

\* Sorting what is sorted changes nothing.
LEMMA SortedAlready ==
    ASSUME NEW T, NEW s \in Seq(T), NEW before, WeakOrder(DOMAIN s, before),
           \A i, j \in DOMAIN s : i < j => <<j, i>> \notin before
    PROVE  Sorted(s, DOMAIN s, before) = s
<1> DEFINE N == Len(s)
           S == 1 .. N
<1>1. N \in Nat /\ DOMAIN s = S /\ s \in [S -> T]
  BY LenProperties
<1>2. IsFiniteSet(S) /\ Cardinality(S) = N
  BY <1>1, FS_Interval
<1>3. WeakOrder(S, before)
  BY <1>1
<1> SUFFICES Sorted(s, S, before) = s
  BY <1>1
<1>4. ASSUME NEW i \in S PROVE Cardinality(Preceding(S, before, i)) = i - 1
  <2>1. Preceding(S, before, i) = 1 .. i - 1
    <3>1. ASSUME NEW j \in S PROVE Precedes(before, j, i) <=> j < i
      <4>1. i \in Int /\ j \in Int
        BY <1>1
      <4>2. j < i => <<i, j>> \notin before
        BY <1>1
      <4>3. i < j => <<j, i>> \notin before
        BY <1>1
      <4>4. <<i, i>> \notin before
        BY <1>3 DEF WeakOrder
      <4>5. j < i \/ i < j \/ i = j
        BY <4>1
      <4> HIDE DEF S, N
      <4> QED BY <4>1, <4>2, <4>3, <4>4, <4>5 DEF Precedes
    <3>2. Preceding(S, before, i) = {j \in S : j < i}
      BY <3>1, Zenon DEF Preceding
    <3>3. i \in Int /\ N \in Int /\ i <= N
      BY <1>1
    <3>4. {j \in 1 .. N : j < i} = 1 .. i - 1
      <4> HIDE DEF N
      <4> QED BY <3>3
    <3> QED BY <3>2, <3>4
  <2>2. i \in Int /\ i >= 1
    BY <1>1
  <2>3. Cardinality(1 .. i - 1) = i - 1
    <3>1. i - 1 \in Int /\ 1 \in Int
      BY <2>2
    <3>2. Cardinality(1 .. i - 1) = IF 1 > i - 1 THEN 0 ELSE i - 1 - 1 + 1
      BY <3>1, FS_Interval
    <3> QED BY <2>2, <3>2
  <2> QED BY <2>1, <2>3
<1>5. Order(S, before) = [n \in 1 .. N |-> CHOOSE i \in S : Cardinality(Preceding(S, before, i)) = n - 1]
  BY <1>2, Zenon DEF Order, Preceding, Precedes
<1>6. ASSUME NEW n \in S PROVE (CHOOSE i \in S : Cardinality(Preceding(S, before, i)) = n - 1) = n
  <2>1. \A i \in S : Cardinality(Preceding(S, before, i)) = n - 1 <=> i = n
    <3>1. n \in Int /\ \A i \in S : i \in Int
      BY <1>1
    <3> HIDE DEF S
    <3> QED BY <1>4, <3>1
  <2> HIDE DEF S
  <2> QED BY <2>1
<1>7. Order(S, before) = [n \in S |-> n]
  BY <1>5, <1>6, Zenon
<1>8. Sorted(s, S, before) = [n \in S |-> s[n]]
  <2> HIDE DEF S
  <2> QED BY <1>7 DEF Sorted
<1>9. s = [n \in S |-> s[n]]
  <2> HIDE DEF S
  <2> QED BY <1>1
<1> QED BY <1>8, <1>9
-----------------------------------------------------------------------------
(* What is selected. *)

\* What is selected of a list, sorted.
LEMMA SortedOf ==
    ASSUME NEW U, NEW s \in Seq(U), NEW S \in SUBSET DOMAIN s, NEW before, WeakOrder(S, before),
           NEW T, \A i \in S : s[i] \in T
    PROVE  Sorted(s, S, before) \in Seq(T)
<1>1. DOMAIN s = 1 .. Len(s) /\ Len(s) \in Nat
  BY LenProperties
<1>2. PICK n \in Nat : n = Len(s)
  BY <1>1
<1>3. S \subseteq 1 .. n /\ S \subseteq Int /\ IsFiniteSet(S)
  <2>1. S \subseteq 1 .. n
    BY <1>1, <1>2
  <2>2. IsFiniteSet(1 .. n)
    BY FS_Interval
  <2> QED BY <2>1, <2>2, FS_Subset
<1>4. PICK t : t = Sorted(s, S, before)
  OBVIOUS
<1>5. t \in Seq(T)
  BY <1>3, <1>4, SortedSelects
<1> QED BY <1>4, <1>5

\* The same in the order of the list.
LEMMA ThoseOf ==
    ASSUME NEW U, NEW s \in Seq(U), NEW S \in SUBSET DOMAIN s, NEW T, \A i \in S : s[i] \in T
    PROVE  Those(s, S) \in Seq(T)
<1>1. WeakOrder(S, {})
  BY DEF WeakOrder
<1>2. Sorted(s, S, {}) \in Seq(T)
  BY <1>1, SortedOf
<1> QED BY <1>2 DEF Those

\* The first elements of a list.
LEMMA FirstOfOf == ASSUME NEW T, NEW s \in Seq(T), NEW n \in Int PROVE FirstOf(s, n) \in Seq(T)
<1>1. Len(s) \in Nat /\ \A i \in 1 .. Len(s) : s[i] \in T
  BY LenProperties, ElementOfSeq
<1> DEFINE M == {n, Len(s)}
           k == Min(M)
<1>2. \E x \in M : \A y \in M : x <= y
  BY <1>1
<1>3. k \in M /\ \A y \in M : k <= y
  <2> HIDE DEF M
  <2> QED BY <1>2, Zenon DEF Min
<1>4. k \in Int /\ k <= Len(s)
  <2> HIDE DEF k
  <2> QED BY <1>1, <1>3
<1>5. FirstOf(s, n) = SubSeq(s, 1, k)
  BY DEF FirstOf
<1> HIDE DEF k
<1>6. \A i \in 1 .. k : s[i] \in T
  BY <1>1, <1>4
<1> QED BY <1>4, <1>5, <1>6, SubSeqProperties
-----------------------------------------------------------------------------
(* Lists in a row. *)

\* Each list is appended to those before it.
LEMMA FlattenSteps ==
    ASSUME NEW T, NEW ss \in Seq(Seq(T)), ss # <<>>
    PROVE  \E flat : /\ FlattenSeq(ss) = flat[Len(ss)]
                     /\ \A i \in 1 .. Len(ss) :
                          flat[i] = IF i = 1 THEN ss[i] ELSE flat[i - 1] \o ss[i]
<1> DEFINE N == Len(ss)
           Flat(f, n) == f = [i \in 1 .. n |-> IF i = 1 THEN ss[i] ELSE f[i - 1] \o ss[i]]
           Lacking == {n \in 1 .. N : ~ \E f : Flat(f, n)}
<1>1. N \in Nat /\ \A i \in 1 .. N : ss[i] \in Seq(T)
  BY LenProperties, ElementOfSeq
<1>2. N # 0
  BY EmptySeq
<1>3. ASSUME Lacking # {} PROVE FALSE
  <2>1. PICK n \in Lacking : \A k \in Lacking : n <= k
    <3> HIDE DEF Flat
    <3>1. Lacking \subseteq Nat
      OBVIOUS
    <3> HIDE DEF Lacking
    <3> QED BY <1>3, <3>1, LeastOne
  <2>2. n \in 1 .. N /\ ~ \E f : Flat(f, n)
    BY <2>1
  <2>3. n # 1
    <3> SUFFICES ASSUME n = 1 PROVE FALSE
      OBVIOUS
    <3> DEFINE f == [i \in 1 .. 1 |-> ss[i]]
    <3>1. f = [i \in 1 .. 1 |-> IF i = 1 THEN ss[i] ELSE f[i - 1] \o ss[i]]
      OBVIOUS
    <3>2. Flat(f, 1)
      BY <3>1
    <3> HIDE DEF Flat, f
    <3> QED BY <2>2, <3>2
  <2>4. n - 1 \in 1 .. N /\ n - 1 \notin Lacking
    <3>1. n - 1 \in 1 .. N /\ ~ (n <= n - 1)
      BY <1>1, <2>2, <2>3
    <3> HIDE DEF Lacking
    <3> QED BY <2>1, <3>1
  <2>5. PICK f : Flat(f, n - 1)
    BY <2>4
  <2> DEFINE g == [i \in 1 .. n |-> IF i = n THEN f[n - 1] \o ss[n] ELSE f[i]]
  <2>6. \A i \in 1 .. n : g[i] = IF i = 1 THEN ss[i] ELSE g[i - 1] \o ss[i]
    <3> TAKE i \in 1 .. n
    <3>1. CASE i = n
      <4>1. n \in 1 .. n /\ n - 1 \in 1 .. n /\ n - 1 # n
        BY <2>2, <2>3
      <4>2. g[n] = f[n - 1] \o ss[n]
        BY <4>1
      <4>3. g[n - 1] = f[n - 1]
        BY <4>1
      <4> HIDE DEF g
      <4> QED BY <2>3, <3>1, <4>2, <4>3
    <3>2. CASE i # n
      <4>1. i \in 1 .. n - 1 /\ g[i] = f[i]
        BY <2>2, <3>2
      <4>2. i # 1 => i - 1 \in 1 .. n /\ i - 1 # n /\ g[i - 1] = f[i - 1]
        BY <2>2, <3>2
      <4>3. f[i] = IF i = 1 THEN ss[i] ELSE f[i - 1] \o ss[i]
        BY <2>5, <4>1
      <4> HIDE DEF g
      <4> QED BY <4>1, <4>2, <4>3
    <3> QED BY <3>1, <3>2
  <2>7. g = [i \in 1 .. n |-> IF i = 1 THEN ss[i] ELSE g[i - 1] \o ss[i]]
    <3>1. g = [i \in 1 .. n |-> g[i]]
      OBVIOUS
    <3> HIDE DEF g
    <3> QED BY <2>6, <3>1
  <2>8. Flat(g, n)
    BY <2>7
  <2> HIDE DEF g, Flat
  <2> QED BY <2>2, <2>8
<1>4. \E f : Flat(f, N)
  <2>1. N \in 1 .. N
    BY <1>1, <1>2
  <2> QED BY <1>3, <2>1
<1> DEFINE flat == CHOOSE f : Flat(f, N)
<1>5. Flat(flat, N)
  <2> HIDE DEF Flat
  <2> QED BY <1>4
<1>6. FlattenSeq(ss) = flat[N]
  BY <1>1, <1>2, Zenon DEF FlattenSeq
<1> HIDE DEF flat
<1>7. \A i \in 1 .. N : flat[i] = IF i = 1 THEN ss[i] ELSE flat[i - 1] \o ss[i]
  BY <1>5
<1> QED BY <1>6, <1>7

\* Lists in a row are a list of what they have.
LEMMA FlattenOf ==
    ASSUME NEW T, NEW ss \in Seq(Seq(T))
    PROVE  /\ FlattenSeq(ss) \in Seq(T)
           /\ \A m \in 1 .. Len(ss) : \A j \in 1 .. Len(ss[m]) :
                \E k \in 1 .. Len(FlattenSeq(ss)) : FlattenSeq(ss)[k] = ss[m][j]
<1> DEFINE N == Len(ss)
<1>1. N \in Nat /\ \A i \in 1 .. N : ss[i] \in Seq(T)
  BY LenProperties, ElementOfSeq
<1>2. CASE ss = <<>>
  <2>1. <<>> \in Seq(T) /\ Len(<<>>) = 0
    OBVIOUS
  <2> QED BY <1>2, <2>1 DEF FlattenSeq
<1>3. CASE ss # <<>>
  <2>0. N # 0
    BY <1>3, EmptySeq
  <2>1. PICK flat : /\ FlattenSeq(ss) = flat[N]
                    /\ \A i \in 1 .. N :
                         flat[i] = IF i = 1 THEN ss[i] ELSE flat[i - 1] \o ss[i]
    BY <1>3, FlattenSteps
  <2> DEFINE Wrong == {i \in 1 .. N : flat[i] \notin Seq(T)}
  <2>2. ASSUME Wrong # {} PROVE FALSE
    <3>1. PICK n \in Wrong : \A k \in Wrong : n <= k
      <4>1. Wrong \subseteq Nat
        OBVIOUS
      <4> HIDE DEF Wrong
      <4> QED BY <2>2, <4>1, LeastOne
    <3>2. n \in 1 .. N /\ flat[n] \notin Seq(T)
      BY <3>1
    <3>3. flat[n] = IF n = 1 THEN ss[n] ELSE flat[n - 1] \o ss[n]
      BY <2>1, <3>2
    <3>4. n # 1
      BY <1>1, <3>2, <3>3
    <3>5. n - 1 \in 1 .. N /\ ~ (n <= n - 1)
      BY <1>1, <3>2, <3>4
    <3>6. flat[n - 1] \in Seq(T)
      <4>1. n - 1 \notin Wrong
        <5> HIDE DEF Wrong
        <5> QED BY <3>1, <3>5
      <4> QED BY <3>5, <4>1
    <3>7. flat[n - 1] \o ss[n] \in Seq(T)
      BY <1>1, <3>2, <3>6, ConcatProperties
    <3> QED BY <3>2, <3>3, <3>4, <3>7
  <2>3. \A i \in 1 .. N : flat[i] \in Seq(T)
    BY <2>2
  <2> HIDE DEF Wrong
  <2>4. N \in 1 .. N
    BY <1>1, <2>0
  <2>5. ASSUME NEW m \in 1 .. N, NEW j \in 1 .. Len(ss[m])
        PROVE  \E k \in 1 .. Len(flat[N]) : flat[N][k] = ss[m][j]
    <3> DEFINE x == ss[m][j]
               Has(t) == \E k \in 1 .. Len(t) : t[k] = x
               Missing == {n \in m .. N : ~ Has(flat[n])}
    <3>1. ASSUME Missing # {} PROVE FALSE
      <4>1. PICK n \in Missing : \A k \in Missing : n <= k
        <5>1. Missing \subseteq Nat
          BY <1>1
        <5> HIDE DEF Missing
        <5> QED BY <3>1, <5>1, LeastOne
      <4>2. n \in m .. N /\ ~ Has(flat[n])
        BY <4>1
      <4>3. n \in 1 .. N /\ ss[n] \in Seq(T) /\ flat[n] \in Seq(T)
        BY <1>1, <2>3, <4>2
      <4>4. flat[n] = IF n = 1 THEN ss[n] ELSE flat[n - 1] \o ss[n]
        BY <2>1, <4>3
      <4> HIDE DEF x
      <4>5. n = 1 => ~ Has(ss[n])
        BY <4>2, <4>4
      <4>6. n # 1 => flat[n - 1] \in Seq(T)
        BY <2>3, <4>3, <1>1
      <4>7. ASSUME n # 1 PROVE ~ Has(ss[n]) /\ ~ Has(flat[n - 1])
        <5>1. PICK a \in Seq(T), b \in Seq(T) : a = flat[n - 1] /\ b = ss[n]
          BY <4>3, <4>6, <4>7
        <5>2. flat[n] = a \o b
          BY <4>4, <4>7, <5>1
        <5>3. /\ Len(a) \in Nat /\ Len(b) \in Nat /\ Len(a \o b) = Len(a) + Len(b)
              /\ \A i \in 1 .. Len(a) + Len(b) :
                   (a \o b)[i] = IF i <= Len(a) THEN a[i] ELSE b[i - Len(a)]
          BY LenProperties, ConcatProperties
        <5>4. Has(a) => Has(a \o b)
          <6> SUFFICES ASSUME NEW i \in 1 .. Len(a), a[i] = x PROVE Has(a \o b)
            OBVIOUS
          <6>1. i \in 1 .. Len(a) + Len(b) /\ i <= Len(a)
            BY <5>3
          <6> QED BY <5>3, <6>1
        <5>5. Has(b) => Has(a \o b)
          <6> SUFFICES ASSUME NEW i \in 1 .. Len(b), b[i] = x PROVE Has(a \o b)
            OBVIOUS
          <6>1. /\ i + Len(a) \in 1 .. Len(a) + Len(b) /\ ~ (i + Len(a) <= Len(a))
                /\ (i + Len(a)) - Len(a) = i
            BY <5>3
          <6>2. (a \o b)[i + Len(a)] = b[i]
            BY <5>3, <6>1
          <6> QED BY <5>3, <6>1, <6>2
        <5> HIDE DEF Has
        <5> QED BY <4>2, <5>1, <5>2, <5>4, <5>5
      <4>8. CASE n = m
        <5>1. Has(ss[m])
          BY DEF x
        <5> HIDE DEF Has
        <5> QED BY <4>5, <4>7, <4>8, <5>1
      <4>9. CASE n # m
        <5>1. n - 1 \in m .. N /\ n # 1 /\ ~ (n <= n - 1)
          BY <1>1, <4>2, <4>9
        <5>2. n - 1 \notin Missing
          <6> HIDE DEF Missing
          <6> QED BY <4>1, <5>1
        <5>3. Has(flat[n - 1])
          <6> HIDE DEF Has
          <6> QED BY <5>1, <5>2
        <5> HIDE DEF Has
        <5> QED BY <4>7, <5>1, <5>3
      <4> QED BY <4>8, <4>9
    <3>2. N \in m .. N
      BY <1>1
    <3>3. Has(flat[N])
      <4> HIDE DEF Has
      <4> QED BY <3>1, <3>2
    <3> QED BY <3>3
  <2> QED BY <2>1, <2>3, <2>4, <2>5
<1> QED BY <1>2, <1>3
-----------------------------------------------------------------------------
(* The same by position, whatever the elements are. *)

\* A list of something.
IsList(s) == DOMAIN s = 1 .. Len(s) /\ \E T : s \in Seq(T)

\* Elements in their positions are a list.
LEMMA ListOf ==
    ASSUME NEW n \in Nat, NEW s, DOMAIN s = 1 .. n, s = [i \in 1 .. n |-> s[i]]
    PROVE  IsList(s) /\ Len(s) = n
<1>1. PICK T : T = {s[i] : i \in 1 .. n}
  OBVIOUS
<1>2. \A i \in 1 .. n : s[i] \in T
  BY <1>1
<1>3. s \in [1 .. n -> T]
  BY <1>2
<1>4. s \in Seq(T)
  BY <1>3
<1>5. Len(s) = n
  BY <1>3, LenProperties
<1> QED BY <1>4, <1>5 DEF IsList

\* Nothing is a list.
LEMMA NothingListed == IsList(<<>>) /\ DOMAIN <<>> = {}
<1>1. <<>> \in Seq({}) /\ Len(<<>>) = 0 /\ DOMAIN <<>> = 1 .. 0
  OBVIOUS
<1> QED BY <1>1 DEF IsList

\* A list has a length.
LEMMA ListLength == ASSUME NEW s, IsList(s) PROVE Len(s) \in Nat /\ DOMAIN s = 1 .. Len(s)
BY LenProperties DEF IsList

\* One element is a list.
LEMMA OneListed ==
    ASSUME NEW x PROVE IsList(<<x>>) /\ DOMAIN <<x>> = 1 .. 1 /\ <<x>>[1] = x
<1>1. <<x>> \in Seq({x}) /\ Len(<<x>>) = 1 /\ DOMAIN <<x>> = 1 .. 1 /\ <<x>>[1] = x
  OBVIOUS
<1> QED BY <1>1 DEF IsList

\* Whatever t has is in s or is x.
TakenOrNew(t, s, x) == \A i \in DOMAIN t : t[i] = x \/ (i \in DOMAIN s /\ t[i] = s[i])

\* Of a list that grows.
LEMMA OneMore ==
    ASSUME NEW s, IsList(s), NEW x, NEW t, t = Append(s, x)
    PROVE  IsList(t) /\ TakenOrNew(t, s, x)
<1>1. PICK T : s \in Seq(T)
  BY DEF IsList
<1>2. PICK U : U = T \cup {x}
  OBVIOUS
<1>3. s \in Seq(U) /\ x \in U
  BY <1>1, <1>2, LenProperties, ElementOfSeq
<1>4. PICK n \in Nat : n = Len(s) /\ DOMAIN s = 1 .. n
  BY <1>3, LenProperties DEF IsList
<1>5. /\ t \in Seq(U) /\ Len(t) = n + 1
      /\ \A i \in 1 .. n : t[i] = s[i]
      /\ t[n + 1] = x
  BY <1>3, <1>4, AppendProperties
<1>6. DOMAIN t = 1 .. n + 1
  BY <1>5, LenProperties
<1>7. \A i \in 1 .. n + 1 : i \in 1 .. n \/ i = n + 1
  OBVIOUS
<1> QED BY <1>4, <1>5, <1>6, <1>7 DEF IsList, TakenOrNew

\* Of a list that is sorted.
LEMMA SortedTaken ==
    ASSUME NEW s, IsList(s), NEW S \in SUBSET DOMAIN s, NEW before, WeakOrder(S, before),
           NEW t, t = Sorted(s, S, before)
    PROVE  /\ IsList(t)
           /\ \A i \in S : \E n \in DOMAIN t : t[n] = s[i]
           /\ \A n \in DOMAIN t : \E i \in S : t[n] = s[i]
<1>1. PICK T : s \in Seq(T)
  BY DEF IsList
<1>2. PICK n \in Nat : n = Len(s)
  BY <1>1, LenProperties
<1>3. S \subseteq 1 .. n /\ DOMAIN s = 1 .. n
  BY <1>2 DEF IsList
<1>4. S \subseteq Int /\ IsFiniteSet(S)
  <2>1. IsFiniteSet(1 .. n)
    BY FS_Interval
  <2> QED BY <1>3, <2>1, FS_Subset
<1>5. \A i \in S : s[i] \in T
  BY <1>1, <1>2, <1>3, ElementOfSeq
<1>6. t \in Seq(T) /\ DOMAIN t = 1 .. Len(t) /\ Selects(t, s, S)
  BY <1>4, <1>5, SortedSelects
<1> QED BY <1>6 DEF IsList, Selects

\* Of a list that is filtered.
LEMMA ThoseTaken ==
    ASSUME NEW s, IsList(s), NEW S \in SUBSET DOMAIN s, NEW t, t = Those(s, S)
    PROVE  /\ IsList(t)
           /\ \A i \in S : \E n \in DOMAIN t : t[n] = s[i]
           /\ \A n \in DOMAIN t : \E i \in S : t[n] = s[i]
<1>1. WeakOrder(S, {})
  BY DEF WeakOrder
<1>2. t = Sorted(s, S, {})
  BY DEF Those
<1> QED BY <1>1, <1>2, SortedTaken

\* Of a list that is cut.
LEMMA FirstTaken ==
    ASSUME NEW s, IsList(s), NEW n \in Nat, NEW t, t = FirstOf(s, n)
    PROVE  /\ IsList(t) /\ DOMAIN t \subseteq DOMAIN s /\ \A i \in DOMAIN t : t[i] = s[i]
           /\ Len(t) = IF n <= Len(s) THEN n ELSE Len(s)
<1>1. PICK T : s \in Seq(T)
  BY DEF IsList
<1>2. PICK l \in Nat : l = Len(s) /\ DOMAIN s = 1 .. l
  BY <1>1, LenProperties DEF IsList
<1> DEFINE M == {n, l}
           k == Min(M)
<1>3. \E x \in M : \A y \in M : x <= y
  OBVIOUS
<1>4. k \in M /\ \A y \in M : k <= y
  <2> HIDE DEF M
  <2> QED BY <1>3, Zenon DEF Min
<1>5. k \in Nat /\ k <= l
  <2> HIDE DEF k
  <2> QED BY <1>4
<1>6. t = SubSeq(s, 1, k)
  BY <1>2 DEF FirstOf
<1> HIDE DEF k
<1>7. \A i \in 1 .. k : s[i] \in T
  BY <1>1, <1>2, <1>5, ElementOfSeq
<1>8. /\ t \in Seq(T) /\ Len(t) = IF 1 <= k THEN k - 1 + 1 ELSE 0
      /\ \A i \in 1 .. k - 1 + 1 : t[i] = s[1 + i - 1]
  BY <1>5, <1>6, <1>7, SubSeqProperties
<1>9. Len(t) = k /\ DOMAIN t = 1 .. k
  BY <1>5, <1>8, LenProperties
<1>10. \A i \in 1 .. k : t[i] = s[i]
  BY <1>5, <1>8
<1>11. k = IF n <= l THEN n ELSE l
  BY <1>2, <1>4
<1>12. 1 .. k \subseteq 1 .. l
  BY <1>2, <1>5
<1>13. IsList(t)
  BY <1>8, <1>9 DEF IsList
<1>14. DOMAIN t \subseteq DOMAIN s /\ \A i \in DOMAIN t : t[i] = s[i]
  BY <1>2, <1>9, <1>10, <1>12
<1>15. Len(t) = IF n <= Len(s) THEN n ELSE Len(s)
  BY <1>2, <1>9, <1>11
<1> QED BY <1>13, <1>14, <1>15, Zenon

\* Whatever t has is in a or in b.
TakenOfTwo(t, a, b) ==
    \A k \in DOMAIN t : \/ \E i \in DOMAIN a : t[k] = a[i]
                        \/ \E i \in DOMAIN b : t[k] = b[i]

\* Of two lists in a row.
LEMMA ConcatTaken ==
    ASSUME NEW a, NEW b, IsList(a), IsList(b), NEW t, t = a \o b
    PROVE  IsList(t) /\ TakenOfTwo(t, a, b)
<1>1. PICK A, B : a \in Seq(A) /\ b \in Seq(B)
  BY DEF IsList
<1>2. PICK T : T = A \cup B
  OBVIOUS
<1>3. a \in Seq(T) /\ b \in Seq(T)
  BY <1>1, <1>2, LenProperties, ElementOfSeq
<1>4. PICK m \in Nat, n \in Nat : /\ m = Len(a) /\ DOMAIN a = 1 .. m
                                  /\ n = Len(b) /\ DOMAIN b = 1 .. n
  BY <1>3, LenProperties DEF IsList
<1>5. /\ t \in Seq(T) /\ Len(t) = m + n
      /\ \A k \in 1 .. m + n : t[k] = IF k <= m THEN a[k] ELSE b[k - m]
  BY <1>3, <1>4, ConcatProperties
<1>6. DOMAIN t = 1 .. m + n
  BY <1>4, <1>5, LenProperties
<1>7. ASSUME NEW k \in 1 .. m + n
      PROVE  \/ \E i \in 1 .. m : t[k] = a[i]
             \/ \E i \in 1 .. n : t[k] = b[i]
  <2>1. CASE k <= m
    BY <1>4, <1>5, <1>7, <2>1
  <2>2. CASE ~ (k <= m)
    <3>1. k - m \in 1 .. n
      BY <1>4, <1>7, <2>2
    <3> QED BY <1>5, <2>2, <3>1
  <2> QED BY <2>1, <2>2
<1>8. IsList(t)
  BY <1>4, <1>5, <1>6 DEF IsList
<1> QED BY <1>4, <1>6, <1>7, <1>8 DEF TakenOfTwo

\* Whatever t has is in one of ss, and t has what is in one of ss.
TakenOfAll(t, ss) ==
    /\ \A m \in DOMAIN ss : \A j \in DOMAIN ss[m] : \E k \in DOMAIN t : t[k] = ss[m][j]
    /\ \A k \in DOMAIN t : \E m \in DOMAIN ss : \E j \in DOMAIN ss[m] : t[k] = ss[m][j]

\* Of lists in a row.
LEMMA FlattenTaken ==
    ASSUME NEW N \in Nat, NEW ss, DOMAIN ss = 1 .. N, ss = [m \in 1 .. N |-> ss[m]],
           \A m \in 1 .. N : IsList(ss[m]), NEW t, t = FlattenSeq(ss)
    PROVE  IsList(t) /\ TakenOfAll(t, ss)
<1>1. PICK T : T = UNION {{ss[m][j] : j \in DOMAIN ss[m]} : m \in 1 .. N}
  OBVIOUS
<1>2. \A x \in T : \E m \in 1 .. N : \E j \in DOMAIN ss[m] : x = ss[m][j]
  BY <1>1
<1>3. \A m \in 1 .. N : \A j \in DOMAIN ss[m] : ss[m][j] \in T
  BY <1>1
<1>4. ASSUME NEW m \in 1 .. N PROVE ss[m] \in Seq(T)
  <2>1. PICK e, U : e = ss[m] /\ e \in Seq(U) /\ DOMAIN e = 1 .. Len(e)
    BY DEF IsList
  <2>2. PICK n \in Nat : n = Len(e)
    BY <2>1, LenProperties
  <2>3. e = [j \in 1 .. n |-> e[j]] /\ \A j \in 1 .. n : e[j] \in T
    BY <1>3, <2>1, <2>2
  <2>4. e \in [1 .. n -> T]
    BY <2>3
  <2> QED BY <2>1, <2>4
<1>5. ss \in [1 .. N -> Seq(T)]
  BY <1>4
<1>6. ss \in Seq(Seq(T))
  BY <1>5
<1>7. Len(ss) = N
  BY <1>5, LenProperties
<1>8. /\ t \in Seq(T)
      /\ \A m \in 1 .. N : \A j \in 1 .. Len(ss[m]) : \E k \in 1 .. Len(t) : t[k] = ss[m][j]
  <2>1. /\ FlattenSeq(ss) \in Seq(T)
        /\ \A m \in 1 .. Len(ss) : \A j \in 1 .. Len(ss[m]) :
             \E k \in 1 .. Len(FlattenSeq(ss)) : FlattenSeq(ss)[k] = ss[m][j]
    BY <1>6, FlattenOf, Zenon
  <2> QED BY <1>7, <2>1, Zenon
<1>9. DOMAIN t = 1 .. Len(t) /\ \A k \in 1 .. Len(t) : t[k] \in T
  BY <1>8, LenProperties, ElementOfSeq
<1>10. \A m \in 1 .. N : DOMAIN ss[m] = 1 .. Len(ss[m])
  BY DEF IsList
<1>11. IsList(t)
  BY <1>8, <1>9 DEF IsList
<1>12. ASSUME NEW m \in 1 .. N, NEW j \in DOMAIN ss[m] PROVE \E k \in DOMAIN t : t[k] = ss[m][j]
  <2>1. j \in 1 .. Len(ss[m])
    BY <1>10, Zenon
  <2> QED BY <1>8, <1>9, <2>1, Zenon
<1>13. ASSUME NEW k \in DOMAIN t PROVE \E m \in 1 .. N : \E j \in DOMAIN ss[m] : t[k] = ss[m][j]
  <2>1. t[k] \in T
    BY <1>9, Zenon
  <2> QED BY <1>2, <2>1, Zenon
<1> QED BY <1>11, <1>12, <1>13, Zenon DEF TakenOfAll
-----------------------------------------------------------------------------
(* Rankings. *)

\* t has what is at the positions P of s, each once, in an order of them.
IsRanking(t, s, P, before, n, f) ==
    /\ n \in Nat /\ f \in [1 .. n -> P]
    /\ \A p \in P : \E k \in 1 .. n : f[k] = p
    /\ \A k, l \in 1 .. n : k < l => f[k] # f[l] /\ Precedes(before, f[k], f[l])
    /\ t = [k \in 1 .. n |-> s[f[k]]]

Ranked(t, s, P, before) == \E n, f : IsRanking(t, s, P, before, n, f)

\* A ranking is a list of finitely many.
LEMMA RankingListed ==
    ASSUME NEW t, NEW s, NEW P, NEW before, NEW n, NEW f, IsRanking(t, s, P, before, n, f)
    PROVE  /\ IsList(t) /\ Len(t) = n /\ DOMAIN t = 1 .. n
           /\ IsFiniteSet(P) /\ Cardinality(P) = n
<1>1. n \in Nat /\ DOMAIN t = 1 .. n /\ t = [k \in 1 .. n |-> t[k]]
  BY DEF IsRanking
<1>2. IsList(t) /\ Len(t) = n
  BY <1>1, ListOf
<1>3. f \in Surjection(1 .. n, P)
  BY DEF IsRanking, Surjection
<1>4. f \in Injection(1 .. n, P)
  <2>1. f \in [1 .. n -> P] /\ \A k, l \in 1 .. n : k < l => f[k] # f[l]
    BY DEF IsRanking
  <2>2. ASSUME NEW k \in 1 .. n, NEW l \in 1 .. n, f[k] = f[l] PROVE k = l
    <3>1. k \in Int /\ l \in Int /\ ~(k < l) /\ ~(l < k)
      BY <1>1, <2>1, <2>2
    <3> QED BY <3>1
  <2> QED BY <2>1, <2>2 DEF Injection, IsInjective
<1>5. IsFiniteSet(1 .. n) /\ Cardinality(1 .. n) = n
  BY <1>1, FS_Interval
<1>6. IsFiniteSet(P) /\ Cardinality(P) = Cardinality(1 .. n)
  BY <1>3, <1>4, <1>5, FS_Surjection
<1> QED BY <1>1, <1>2, <1>5, <1>6

\* It has what is at the positions and nothing else.
LEMMA RankedTaken ==
    ASSUME NEW t, NEW s, NEW P, NEW before, Ranked(t, s, P, before)
    PROVE  /\ IsList(t) /\ IsFiniteSet(P)
           /\ \A p \in P : \E k \in DOMAIN t : t[k] = s[p]
           /\ \A k \in DOMAIN t : \E p \in P : t[k] = s[p]
<1>1. PICK n, f : IsRanking(t, s, P, before, n, f)
  BY DEF Ranked
<1>2. IsList(t) /\ DOMAIN t = 1 .. n /\ IsFiniteSet(P)
  BY <1>1, RankingListed
<1>3. /\ f \in [1 .. n -> P] /\ t = [k \in 1 .. n |-> s[f[k]]]
      /\ \A p \in P : \E k \in 1 .. n : f[k] = p
  BY <1>1 DEF IsRanking
<1> QED BY <1>2, <1>3

\* What is sorted is ranked.
LEMMA SortedRanked ==
    ASSUME NEW s, IsList(s), NEW S \in SUBSET DOMAIN s, NEW before, WeakOrder(S, before),
           NEW t, t = Sorted(s, S, before)
    PROVE  Ranked(t, s, S, before)
<1>1. PICK n \in Nat : n = Len(s) /\ DOMAIN s = 1 .. n
  BY ListLength, Zenon
<1>2. S \subseteq Int /\ IsFiniteSet(S)
  <2>1. IsFiniteSet(1 .. n)
    BY FS_Interval
  <2> QED BY <1>1, <2>1, FS_Subset
<1> DEFINE N == Cardinality(S)
           order == Order(S, before)
<1>3. /\ N \in Nat
      /\ order \in [1 .. N -> S]
      /\ \A i \in S : \E m \in 1 .. N : order[m] = i
      /\ \A l, m \in 1 .. N :
           l < m => order[l] # order[m] /\ Precedes(before, order[l], order[m])
  BY <1>2, OrderSorts
<1> HIDE DEF order, N
<1>4. t = [m \in 1 .. N |-> s[order[m]]]
  BY <1>3 DEF Sorted, order
<1>5. IsRanking(t, s, S, before, N, order)
  BY <1>3, <1>4, Zenon DEF IsRanking
<1> QED BY <1>5, Zenon DEF Ranked

\* What is cut from a ranking comes after the rest.
LEMMA FirstRanked ==
    ASSUME NEW t, NEW s, NEW P, NEW before, Ranked(t, s, P, before), NEW m \in Nat,
           NEW u, u = FirstOf(t, m)
    PROVE  \E Q \in SUBSET P :
              /\ Ranked(u, s, Q, before)
              /\ \A p \in Q : \A q \in P \ Q : Precedes(before, p, q)
              /\ Cardinality(Q) <= m
              /\ Q = P \/ Cardinality(Q) = m
<1>1. PICK n, f : IsRanking(t, s, P, before, n, f)
  BY DEF Ranked
<1>2. IsList(t) /\ Len(t) = n /\ DOMAIN t = 1 .. n /\ n \in Nat
  <2>1. IsList(t) /\ Len(t) = n /\ DOMAIN t = 1 .. n
    BY <1>1, RankingListed
  <2> QED BY <1>1, <2>1 DEF IsRanking
<1>3. /\ IsList(u) /\ DOMAIN u \subseteq DOMAIN t /\ \A i \in DOMAIN u : u[i] = t[i]
      /\ Len(u) = IF m <= n THEN m ELSE n
  BY <1>2, FirstTaken
<1>4. PICK k \in Nat : k = Len(u) /\ DOMAIN u = 1 .. k
  BY <1>3, ListLength, Zenon
<1>5. k <= n /\ k <= m /\ (k = n \/ k = m)
  BY <1>2, <1>3, <1>4
<1> DEFINE g == [i \in 1 .. k |-> f[i]]
           Q == {f[i] : i \in 1 .. k}
<1>6. /\ f \in [1 .. n -> P] /\ t = [i \in 1 .. n |-> s[f[i]]]
      /\ \A p \in P : \E i \in 1 .. n : f[i] = p
      /\ \A i, j \in 1 .. n : i < j => f[i] # f[j] /\ Precedes(before, f[i], f[j])
  BY <1>1 DEF IsRanking
<1>7. 1 .. k \subseteq 1 .. n
  BY <1>2, <1>5
<1>8. Q \in SUBSET P /\ g \in [1 .. k -> Q] /\ \A p \in Q : \E i \in 1 .. k : g[i] = p
  BY <1>6, <1>7
<1>9. \A i \in 1 .. k : g[i] = f[i]
  OBVIOUS
<1>10. u = [i \in 1 .. k |-> s[g[i]]]
  <2>1. u = [i \in 1 .. k |-> u[i]]
    BY <1>3, <1>4, LenProperties DEF IsList
  <2>2. \A i \in 1 .. k : u[i] = s[g[i]]
    BY <1>3, <1>4, <1>6, <1>7
  <2> QED BY <2>1, <2>2
<1>11. \A p \in Q : \A q \in P \ Q : Precedes(before, p, q)
  <2> SUFFICES ASSUME NEW p \in Q, NEW q \in P \ Q PROVE Precedes(before, p, q)
    OBVIOUS
  <2>1. PICK i \in 1 .. k : f[i] = p
    OBVIOUS
  <2>2. PICK j \in 1 .. n : f[j] = q
    BY <1>6
  <2>3. ~(j \in 1 .. k)
    BY <2>2
  <2>4. i < j
    BY <2>1, <2>2, <2>3
  <2> QED BY <1>6, <1>7, <2>1, <2>2, <2>4
<1> HIDE DEF g, Q
<1>12. \A i, j \in 1 .. k : i < j => g[i] # g[j] /\ Precedes(before, g[i], g[j])
  BY <1>6, <1>7, <1>9
<1>13. IsRanking(u, s, Q, before, k, g)
  BY <1>8, <1>10, <1>12, Zenon DEF IsRanking
<1>14. Cardinality(Q) = k
  BY <1>13, RankingListed
<1>15. k = n => Q = P
  <2>1. k = n => \A i \in 1 .. n : f[i] \in Q
    BY DEF Q
  <2> QED BY <1>6, <1>8, <2>1
<1>16. Ranked(u, s, Q, before)
  BY <1>13, Zenon DEF Ranked
<1> QED BY <1>5, <1>8, <1>11, <1>14, <1>15, <1>16

\* What is filtered from a ranking stays in its order.
LEMMA ThoseRanked ==
    ASSUME NEW t, NEW s, NEW P, NEW before, Ranked(t, s, P, before),
           NEW S \in SUBSET DOMAIN t, NEW Q \in SUBSET P,
           \A k \in DOMAIN t : \A p \in P : t[k] = s[p] => (k \in S <=> p \in Q),
           NEW u, u = Those(t, S)
    PROVE  Ranked(u, s, Q, before)
<1>1. PICK n, f : IsRanking(t, s, P, before, n, f)
  BY DEF Ranked
<1>2. IsList(t) /\ DOMAIN t = 1 .. n /\ n \in Nat
  <2>1. IsList(t) /\ DOMAIN t = 1 .. n
    BY <1>1, RankingListed
  <2> QED BY <1>1, <2>1 DEF IsRanking
<1>3. /\ f \in [1 .. n -> P] /\ t = [i \in 1 .. n |-> s[f[i]]]
      /\ \A p \in P : \E i \in 1 .. n : f[i] = p
      /\ \A i, j \in 1 .. n : i < j => f[i] # f[j] /\ Precedes(before, f[i], f[j])
  BY <1>1 DEF IsRanking
<1>4. WeakOrder(S, {}) /\ u = Sorted(t, S, {})
  BY DEF WeakOrder, Those
<1>5. Ranked(u, t, S, {})
  BY <1>2, <1>4, SortedRanked
<1>6. PICK m, g : IsRanking(u, t, S, {}, m, g)
  BY <1>5 DEF Ranked
<1>7. /\ m \in Nat /\ g \in [1 .. m -> S] /\ u = [i \in 1 .. m |-> t[g[i]]]
      /\ \A k \in S : \E i \in 1 .. m : g[i] = k
      /\ \A i, j \in 1 .. m : i < j => g[i] # g[j] /\ Precedes({}, g[i], g[j])
  BY <1>6 DEF IsRanking
<1> DEFINE h == [i \in 1 .. m |-> f[g[i]]]
<1>8. S \subseteq 1 .. n
  BY <1>2
<1>9. ASSUME NEW i \in 1 .. m PROVE g[i] \in 1 .. n /\ h[i] = f[g[i]] /\ h[i] \in Q
  <2>1. g[i] \in S /\ g[i] \in 1 .. n
    BY <1>7, <1>8
  <2>2. f[g[i]] \in P /\ t[g[i]] = s[f[g[i]]]
    BY <1>3, <2>1
  <2> QED BY <1>2, <2>1, <2>2
<1>10. h \in [1 .. m -> Q]
  BY <1>9
<1>11. ASSUME NEW p \in Q PROVE \E i \in 1 .. m : h[i] = p
  <2>1. PICK k \in 1 .. n : f[k] = p
    BY <1>3
  <2>2. k \in S
    BY <1>2, <1>3, <2>1
  <2>3. PICK i \in 1 .. m : g[i] = k
    BY <1>7, <2>2
  <2> QED BY <2>1, <2>3
<1>12. ASSUME NEW i \in 1 .. m, NEW j \in 1 .. m, i < j
       PROVE  h[i] # h[j] /\ Precedes(before, h[i], h[j])
  <2>1. g[i] # g[j] /\ Precedes({}, g[i], g[j]) /\ g[i] \in 1 .. n /\ g[j] \in 1 .. n
    BY <1>7, <1>9, <1>12
  <2>2. g[i] < g[j]
    BY <2>1 DEF Precedes
  <2> HIDE DEF h
  <2> QED BY <1>3, <1>9, <2>1, <2>2
<1>13. u = [i \in 1 .. m |-> s[h[i]]]
  <2>1. \A i \in 1 .. m : t[g[i]] = s[h[i]]
    <3> HIDE DEF h
    <3> QED BY <1>3, <1>9
  <2> QED BY <1>7, <2>1
<1> HIDE DEF h
<1>14. IsRanking(u, s, Q, before, m, h)
  BY <1>7, <1>10, <1>11, <1>12, <1>13, Zenon DEF IsRanking
<1> QED BY <1>14, Zenon DEF Ranked

\* Finitely many finite sets have finitely many elements.
LEMMA FewOfFew ==
    ASSUME NEW N \in Nat, NEW g, DOMAIN g = 1 .. N, \A m \in 1 .. N : IsFiniteSet(g[m]),
           NEW U, \A x \in U : \E m \in 1 .. N : x \in g[m]
    PROVE  IsFiniteSet(U)
<1>1. PICK G : G = {g[m] : m \in 1 .. N}
  OBVIOUS
<1>2. PICK f : f = [m \in 1 .. N |-> g[m]]
  OBVIOUS
<1>3. f \in Surjection(1 .. N, G)
  BY <1>1, <1>2 DEF Surjection
<1>4. IsFiniteSet(1 .. N)
  BY FS_Interval
<1>5. IsFiniteSet(G)
  BY <1>3, <1>4, FS_Surjection
<1>6. IsFiniteSet(UNION G)
  BY <1>1, <1>5, FS_UNION
<1>7. U \in SUBSET UNION G
  BY <1>1
<1> QED BY <1>6, <1>7, FS_Subset

\* Everything in t is in s.
From(t, s) == \A k \in DOMAIN t : \E j \in DOMAIN s : t[k] = s[j]
-----------------------------------------------------------------------------
(* The nearest ones. *)

\* The places of a store that are nearer than p, own ones left out.
NearerTo(W, own, before, p) == {i \in W \ own : <<i, p>> \in before}

\* F has nearest ones of W that are near and not own.
Nearest(F, W, own, near, before, K) ==
    /\ F \subseteq near \ own
    /\ \A p \in F : Cardinality(NearerTo(W, own, before, p)) < K

\* F misses none of them, or has one just as near instead.
Enough(F, W, own, near, before, K) ==
    \A p \in near \ own : Cardinality(NearerTo(W, own, before, p)) < K =>
        \E f \in F : <<f, p>> \notin before /\ <<p, f>> \notin before

\* F are the first ones of W, at most K, all or K of them.
Firsts(F, W, before, K) ==
    /\ F \subseteq W
    /\ \A p \in F : \A q \in W \ F : Precedes(before, p, q)
    /\ Cardinality(F) <= K
    /\ F = W \/ Cardinality(F) = K

\* What precedes is not farther.
LEMMA PrecedesNotFarther ==
    ASSUME NEW W, NEW before, WeakOrder(W, before), NEW p \in W, NEW q \in W,
           Precedes(before, p, q)
    PROVE  <<q, p>> \notin before
BY DEF WeakOrder, Precedes

\* What is selected stage by stage: three times as many as are asked for, of
\* these the ones of others, of these the near ones, the first of them.
LEMMA SelectedNearest ==
    ASSUME NEW W, NEW before, WeakOrder(W, before), NEW own \in SUBSET W, NEW near \in SUBSET W,
           \A p \in near : \A q \in W : <<p, q>> \notin before => q \in near,
           NEW L \in Nat, NEW K \in Nat \ {0}, IsFiniteSet(W),
           NEW C, Firsts(C, W, before, 3 * L),
           NEW R, Firsts(R, C \ own, before, L),
           NEW F, Firsts(F, R \cap near, before, K)
    PROVE  Nearest(F, W, own, near, before, K)
<1>1. /\ C \subseteq W /\ R \subseteq C \ own /\ F \subseteq R \cap near
      /\ Cardinality(F) <= K
  BY DEF Firsts
<1>2. ASSUME NEW p \in F PROVE Cardinality(NearerTo(W, own, before, p)) < K
  <2>1. p \in R /\ p \in near /\ p \in C /\ p \in W
    BY <1>1
  <2>2. ASSUME NEW i \in W \ own, <<i, p>> \in before PROVE i \in F \ {p}
    <3>0. <<p, i>> \notin before /\ i # p
      BY <2>1, <2>2 DEF WeakOrder
    <3>1. \A q \in W : Precedes(before, p, q) => <<q, p>> \notin before
      BY <2>1, PrecedesNotFarther
    <3>2. i \in C
      BY <2>1, <2>2, <3>1 DEF Firsts
    <3>3. i \in R
      BY <2>1, <2>2, <3>1, <3>2 DEF Firsts
    <3>4. i \in near
      BY <2>1, <3>0
    <3>5. i \in F
      BY <2>2, <3>1, <3>3, <3>4 DEF Firsts
    <3> QED BY <3>0, <3>5
  <2>3. NearerTo(W, own, before, p) \subseteq F \ {p}
    BY <2>2 DEF NearerTo
  <2>4. IsFiniteSet(F)
    BY <1>1, FS_Subset
  <2>5. IsFiniteSet(F \ {p}) /\ Cardinality(F \ {p}) = Cardinality(F) - 1
    BY <2>4, FS_RemoveElement
  <2>6. /\ Cardinality(NearerTo(W, own, before, p)) <= Cardinality(F \ {p})
        /\ Cardinality(NearerTo(W, own, before, p)) \in Nat
    BY <2>3, <2>5, FS_Subset, FS_CardinalityType
  <2>7. Cardinality(F) \in Nat
    BY <2>4, FS_CardinalityType
  <2> QED BY <1>1, <2>5, <2>6, <2>7
<1> QED BY <1>1, <1>2 DEF Nearest

\* They are enough, if the own ones cannot have taken all the places.
LEMMA SelectedEnough ==
    ASSUME NEW W, NEW before, WeakOrder(W, before), NEW own \in SUBSET W, NEW near \in SUBSET W,
           \A p \in near : \A q \in W : <<p, q>> \notin before => q \in near,
           NEW L \in Nat, NEW K \in Nat \ {0}, K <= L, IsFiniteSet(W),
           NEW C, Firsts(C, W, before, 3 * L),
           NEW R, Firsts(R, C \ own, before, L),
           NEW F, Firsts(F, R \cap near, before, K),
           Cardinality(own) <= 2 * L
    PROVE  Enough(F, W, own, near, before, K)
<1> SUFFICES ASSUME NEW p \in near \ own, Cardinality(NearerTo(W, own, before, p)) < K
             PROVE  \E f \in F : <<f, p>> \notin before /\ <<p, f>> \notin before
  BY DEF Enough
<1>1. C \subseteq W /\ R \subseteq C \ own /\ F \subseteq R \cap near
  BY DEF Firsts
<1>2. /\ IsFiniteSet(C) /\ IsFiniteSet(R) /\ IsFiniteSet(F) /\ IsFiniteSet(own)
      /\ Cardinality(C) \in Nat /\ Cardinality(R) \in Nat /\ Cardinality(F) \in Nat
      /\ Cardinality(own) \in Nat
  <2>1. /\ C \in SUBSET W /\ R \in SUBSET W /\ F \in SUBSET W /\ own \in SUBSET W
    BY <1>1
  <2> QED BY <2>1, FS_Subset, FS_CardinalityType
<1>3. CASE p \in F
  BY <1>3 DEF WeakOrder
<1>4. CASE p \notin F
  <2>1. R \cap near = R => Cardinality(F) = K \/ Cardinality(R) < L
    BY <1>2 DEF Firsts
  <2>2. Cardinality(F) = K /\ \A f \in F : <<p, f>> \notin before
    <3>1. CASE p \in R
      <4>1. F # R \cap near
        BY <1>4, <3>1
      <4>2. Cardinality(F) = K
        BY <4>1 DEF Firsts
      <4>3. \A f \in F : Precedes(before, f, p)
        BY <1>4, <3>1 DEF Firsts
      <4> QED BY <1>1, <4>2, <4>3, PrecedesNotFarther
    <3>2. CASE p \notin R /\ p \in C
      <4>1. R # C \ own
        BY <3>2
      <4>2. Cardinality(R) = L
        BY <4>1 DEF Firsts
      <4>3. \A f \in R : Precedes(before, f, p)
        BY <3>2 DEF Firsts
      <4>4. \A f \in R : <<p, f>> \notin before
        BY <1>1, <4>3, PrecedesNotFarther
      <4>5. \A f \in R : f \in W
        BY <1>1
      <4>6. R \cap near = R
        BY <4>4, <4>5
      <4> QED BY <1>1, <1>2, <2>1, <4>2, <4>4, <4>6
    <3>3. CASE p \notin C
      <4>1. Cardinality(C) = 3 * L
        BY <3>3 DEF Firsts
      <4>2. \A f \in C : Precedes(before, f, p)
        BY <3>3 DEF Firsts
      <4>3. \A f \in C : <<p, f>> \notin before
        BY <1>1, <4>2, PrecedesNotFarther
      <4>4. R \cap near = R
        BY <1>1, <4>3
      <4>5. Cardinality(C \ own) = Cardinality(C) - Cardinality(C \cap own)
        BY <1>2, FS_Difference, Zenon
      <4>6. Cardinality(C \cap own) <= Cardinality(own) /\ Cardinality(C \cap own) \in Nat
        <5>1. C \cap own \in SUBSET own
          OBVIOUS
        <5> QED BY <1>2, <5>1, FS_Subset, FS_CardinalityType
      <4>7. Cardinality(C \ own) >= L
        BY <1>2, <4>1, <4>5, <4>6
      <4>8. Cardinality(R) >= L
        BY <1>2, <4>7 DEF Firsts
      <4> QED BY <1>1, <1>2, <2>1, <4>3, <4>4, <4>8
    <3> QED BY <3>1, <3>2, <3>3
  <2>3. ASSUME \A f \in F : <<f, p>> \in before PROVE FALSE
    <3>1. F \subseteq NearerTo(W, own, before, p)
      BY <1>1, <2>3 DEF NearerTo
    <3>2. IsFiniteSet(NearerTo(W, own, before, p))
      <4>1. NearerTo(W, own, before, p) \in SUBSET W
        BY DEF NearerTo
      <4> QED BY <4>1, FS_Subset
    <3>3. /\ Cardinality(F) <= Cardinality(NearerTo(W, own, before, p))
          /\ Cardinality(NearerTo(W, own, before, p)) \in Nat
      BY <3>1, <3>2, FS_Subset, FS_CardinalityType
    <3> QED BY <2>2, <3>3
  <2> QED BY <2>2, <2>3
<1> QED BY <1>3, <1>4

\* The first of a ranking.
LEMMA FirstsTaken ==
    ASSUME NEW t, NEW s, NEW P, NEW before, Ranked(t, s, P, before), NEW m \in Nat,
           NEW u, u = FirstOf(t, m)
    PROVE  \E Q : Firsts(Q, P, before, m) /\ Ranked(u, s, Q, before)
BY FirstRanked DEF Firsts
-----------------------------------------------------------------------------
(* How much two texts share. *)

\* Fractions of positive numbers are ordered.
LEMMA FractionsOrdered ==
    ASSUME NEW a \in Nat, NEW b \in Nat, NEW c \in Nat,
           NEW u \in Nat \ {0}, NEW v \in Nat \ {0}, NEW w \in Nat \ {0}, a * v > b * u
    PROVE  a * w > c * u \/ c * v > b * w
<1> SUFFICES ASSUME a * w <= c * u, c * v <= b * w PROVE FALSE
  OBVIOUS
<1>0. \A x, y, z \in Nat : x <= y => x * z <= y * z
  OBVIOUS
<1>1. /\ a * w \in Nat /\ c * u \in Nat /\ c * v \in Nat /\ b * w \in Nat
      /\ a * v \in Nat /\ b * u \in Nat
  OBVIOUS
<1>2. (a * w) * v <= (c * u) * v /\ (c * v) * u <= (b * w) * u
  BY <1>0, <1>1
<1>3. /\ (a * w) * v = (a * v) * w /\ (c * u) * v = (c * v) * u /\ (b * w) * u = (b * u) * w
  OBVIOUS
<1>4. (a * v) * w <= (b * u) * w
  BY <1>2, <1>3
<1>5. b * u + 1 <= a * v
  BY <1>1
<1>6. (b * u + 1) * w <= (a * v) * w
  BY <1>0, <1>1, <1>5
<1>7. (b * u + 1) * w = (b * u) * w + w
  OBVIOUS
<1> DEFINE p == (b * u) * w
           q == (a * v) * w
<1>8. p \in Nat /\ q \in Nat /\ q <= p /\ p + w <= q
  BY <1>1, <1>4, <1>6, <1>7
<1> HIDE DEF p, q
<1> QED BY <1>8

\* What a query and a text share is counted.
LEMMA SharedCounted ==
    ASSUME NEW a, NEW b, IsFiniteSet(a)
    PROVE  Cardinality(a \cap b) \in Nat
<1>1. a \cap b \subseteq a
  OBVIOUS
<1>2. IsFiniteSet(a \cap b)
  BY <1>1, FS_Subset
<1> QED BY <1>2, FS_CardinalityType
\* A share that is large enough makes a larger one large enough.
LEMMA ShareOn ==
    ASSUME NEW f \in Nat, NEW g \in Nat, NEW k \in Nat,
           NEW u \in Nat \ {0}, NEW v \in Nat \ {0}, 10000 * g >= k * v, g * u <= f * v
    PROVE  10000 * f >= k * u
<1>0. \A x, y, z \in Nat : x <= y => x * z <= y * z
  OBVIOUS
<1>1. /\ g * u \in Nat /\ f * v \in Nat /\ k * v \in Nat /\ 10000 * g \in Nat
      /\ 10000 * f \in Nat /\ k * u \in Nat
  OBVIOUS
<1>2. (k * v) * u <= (10000 * g) * u
  BY <1>0, <1>1
<1>3. (10000 * g) * u = 10000 * (g * u) /\ 10000 * (f * v) = (10000 * f) * v
  OBVIOUS
<1>4. 10000 * (g * u) <= 10000 * (f * v)
  BY <1>1
<1>5. (k * v) * u = (k * u) * v
  OBVIOUS
<1>6. (k * u) * v <= (10000 * f) * v
  BY <1>1, <1>2, <1>3, <1>4, <1>5
<1>7. ASSUME 10000 * f < k * u PROVE FALSE
  <2>1. 10000 * f + 1 <= k * u
    BY <1>1, <1>7
  <2>2. (10000 * f + 1) * v <= (k * u) * v
    BY <1>0, <1>1, <2>1
  <2>3. (10000 * f + 1) * v = (10000 * f) * v + v
    OBVIOUS
  <2> DEFINE p == (10000 * f) * v
             q == (k * u) * v
  <2>4. p \in Nat /\ q \in Nat /\ q <= p /\ p + v <= q
    BY <1>1, <1>6, <2>2, <2>3
  <2> HIDE DEF p, q
  <2> QED BY <2>4
<1> QED BY <1>1, <1>7
=============================================================================
