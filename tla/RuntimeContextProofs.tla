------------------------ MODULE RuntimeContextProofs ------------------------
(***************************************************************************)
(* Proofs about RuntimeContext, for any number of registrations of any     *)
(* codecs, containers, sources and filters.                                *)
(***************************************************************************)
EXTENDS RuntimeContext, FiniteSetTheorems, WellFoundedInduction, TLAPS

-----------------------------------------------------------------------------
(* Sequences that grow at the end, and places in them.                     *)

LEMMA LeastOf ==
  ASSUME NEW D \in SUBSET Nat, D # {}
  PROVE  \E m \in D : \A k \in D : m <= k
<1> DEFINE T == {0 .. k : k \in D}
           R == StrictSubsetOrdering(Nat)
<1>1. T # {} /\ T \subseteq FiniteSubsetsOf(Nat)
  <2>1. \A k \in D : IsFiniteSet(0 .. k) /\ 0 .. k \in SUBSET Nat
    BY FS_Interval
  <2>2. QED
    BY <2>1 DEF FiniteSubsetsOf
<1>2. IsWellFoundedOn(R, FiniteSubsetsOf(Nat))
  BY FS_StrictSubsetOrderingWellFounded
<1>3. PICK X \in T : \A Y \in T : ~ (<<Y, X>> \in R)
  <2> HIDE DEF T, R
  <2>1. QED
    BY <1>1, <1>2, WFMin
<1>4. PICK m \in D : X = 0 .. m
  OBVIOUS
<1>5. ASSUME NEW k \in D, k < m PROVE FALSE
  <2>1. /\ 0 .. k \in SUBSET Nat /\ 0 .. m \in SUBSET Nat
        /\ 0 .. k \subseteq 0 .. m /\ m \in 0 .. m /\ m \notin 0 .. k
    BY <1>5
  <2>2. <<0 .. k, 0 .. m>> \in R
    BY <2>1 DEF StrictSubsetOrdering
  <2>3. QED
    BY <1>3, <1>4, <2>2
<1>6. QED
  BY <1>5

LEMMA Appended ==
  ASSUME NEW S, NEW s \in Seq(S), NEW x \in S
  PROVE  /\ Append(s, x) \in Seq(S) /\ Len(Append(s, x)) = Len(s) + 1
         /\ DOMAIN Append(s, x) = DOMAIN s \union {Len(s) + 1}
         /\ \A k \in DOMAIN s : Append(s, x)[k] = s[k]
         /\ Append(s, x)[Len(s) + 1] = x
         /\ Len(s) \in Nat /\ DOMAIN s = 1 .. Len(s)
OBVIOUS

\* The first of some places keeps its entry when the sequence grows and only
\* new places join.
LEMMA FirstStays ==
  ASSUME NEW S, NEW s \in Seq(S), NEW t \in Seq(S),
         Len(s) <= Len(t), \A k \in DOMAIN s : t[k] = s[k],
         NEW P \in SUBSET DOMAIN s, P # {}, NEW Q \in SUBSET DOMAIN t, P = Q \intersect DOMAIN s
  PROVE  {t[k] : k \in {n \in Q : \A m \in Q : n <= m}}
           = {s[k] : k \in {n \in P : \A m \in P : n <= m}}
<1>1. DOMAIN s = 1 .. Len(s) /\ DOMAIN t = 1 .. Len(t) /\ Len(s) \in Nat /\ Len(t) \in Nat
  OBVIOUS
<1>2. PICK k \in P : \A m \in P : k <= m
  <2>1. P \in SUBSET Nat
    BY <1>1
  <2>2. QED
    BY <2>1, LeastOf
<1>3. {n \in P : \A m \in P : n <= m} = {k}
  BY <1>1, <1>2
<1>4. {n \in Q : \A m \in Q : n <= m} = {k}
  BY <1>1, <1>2
<1>5. t[k] = s[k]
  BY <1>2
<1>6. QED
  BY <1>3, <1>4, <1>5

Values(s) == {s[k] : k \in DOMAIN s}

LEMMA JoinedSet ==
  ASSUME NEW s \in Seq(Nat), NEW t \in Seq(Nat)
  PROVE  Values(s \o t) = Values(s) \union Values(t)
<1>1. /\ DOMAIN s = 1 .. Len(s) /\ DOMAIN t = 1 .. Len(t) /\ Len(s) \in Nat /\ Len(t) \in Nat
      /\ DOMAIN (s \o t) = 1 .. (Len(s) + Len(t))
  OBVIOUS
<1>2. \A k \in DOMAIN s : (s \o t)[k] = s[k] /\ k \in DOMAIN (s \o t)
  BY <1>1
<1>3. \A k \in DOMAIN t : (s \o t)[Len(s) + k] = t[k] /\ Len(s) + k \in DOMAIN (s \o t)
  BY <1>1
<1>4. \A k \in DOMAIN (s \o t) : k \in DOMAIN s \/ \E m \in DOMAIN t : k = Len(s) + m
  <2>1. SUFFICES ASSUME NEW k \in DOMAIN (s \o t), k \notin DOMAIN s
                 PROVE  \E m \in DOMAIN t : k = Len(s) + m
    OBVIOUS
  <2>2. k - Len(s) \in DOMAIN t /\ k = Len(s) + (k - Len(s))
    BY <1>1, <2>1
  <2>3. QED
    BY <2>2
<1>5. ASSUME NEW k \in DOMAIN (s \o t) PROVE (s \o t)[k] \in Values(s) \union Values(t)
  BY <1>2, <1>3, <1>4 DEF Values
<1>6. ASSUME NEW k \in DOMAIN s PROVE s[k] \in Values(s \o t)
  BY <1>2 DEF Values
<1>7. ASSUME NEW k \in DOMAIN t PROVE t[k] \in Values(s \o t)
  BY <1>3 DEF Values
<1>8. QED
  BY <1>5, <1>6, <1>7 DEF Values

\* One sequence after another.
LEMMA Joined ==
  ASSUME NEW S, NEW s \in Seq(S), NEW t \in Seq(S)
  PROVE  /\ s \o t \in Seq(S)
         /\ \A k \in DOMAIN s : k \in DOMAIN (s \o t) /\ (s \o t)[k] = s[k]
         /\ \A k \in DOMAIN (s \o t) : 
              (k \in DOMAIN s /\ (s \o t)[k] = s[k]) \/ \E m \in DOMAIN t : (s \o t)[k] = t[m]
<1>1. /\ s \o t \in Seq(S) /\ DOMAIN s = 1 .. Len(s) /\ DOMAIN t = 1 .. Len(t)
      /\ DOMAIN (s \o t) = 1 .. (Len(s) + Len(t)) /\ Len(s) \in Nat /\ Len(t) \in Nat
  OBVIOUS
<1>2. \A k \in DOMAIN s : k \in DOMAIN (s \o t) /\ (s \o t)[k] = s[k]
  BY <1>1
<1>3. ASSUME NEW k \in DOMAIN (s \o t), k \notin DOMAIN s
      PROVE  \E m \in DOMAIN t : (s \o t)[k] = t[m]
  <2>1. k - Len(s) \in DOMAIN t
    BY <1>1, <1>3
  <2>2. (s \o t)[k] = t[k - Len(s)]
    BY <1>1, <1>3
  <2>3. QED
    BY <2>1, <2>2
<1>4. QED
  BY <1>1, <1>2, <1>3

-----------------------------------------------------------------------------
(* Sorting.                                                                 *)

\* A total order numbers a finite set: every number is the count of what is
\* ahead of exactly one element.
LEMMA Ranks ==
  ASSUME NEW S, IsFiniteSet(S), NEW A \in [S -> SUBSET S],
         \A x \in S : x \notin A[x],
         \A x, y \in S : x # y => x \in A[y] \/ y \in A[x],
         \A x, y \in S : x \in A[y] => A[x] \subseteq A[y]
  PROVE  /\ Cardinality(S) \in Nat
         /\ \A x \in S : Cardinality(A[x]) \in 0 .. Cardinality(S) - 1
         /\ \A x, y \in S : Cardinality(A[x]) = Cardinality(A[y]) => x = y
         /\ \A n \in 1 .. Cardinality(S) : \E x \in S : Cardinality(A[x]) = n - 1
         /\ \A x \in S : Cardinality(A[x]) = 0 <=> A[x] = {}
<1> DEFINE c == Cardinality(S)
           r == [x \in S |-> Cardinality(A[x])]
<1>1. c \in Nat
  BY FS_CardinalityType
<1>2. \A x \in S : IsFiniteSet(A[x]) /\ Cardinality(A[x]) \in Nat
  BY FS_Subset, FS_CardinalityType
<1>3. ASSUME NEW x \in S PROVE Cardinality(A[x]) < c
  <2>1. A[x] \in SUBSET S /\ A[x] # S
    OBVIOUS
  <2>2. Cardinality(A[x]) <= c /\ (c = Cardinality(A[x]) => S = A[x])
    BY <2>1, FS_Subset
  <2>3. QED
    BY <1>1, <1>2, <2>1, <2>2
<1>4. ASSUME NEW x \in S, NEW y \in S, x \in A[y] PROVE Cardinality(A[x]) < Cardinality(A[y])
  <2>1. A[x] \in SUBSET A[y] /\ A[x] # A[y]
    BY <1>4
  <2>2. Cardinality(A[x]) <= Cardinality(A[y])
        /\ (Cardinality(A[y]) = Cardinality(A[x]) => A[y] = A[x])
    BY <1>2, <2>1, FS_Subset
  <2>3. QED
    BY <1>2, <2>1, <2>2
<1>5. \A x, y \in S : Cardinality(A[x]) = Cardinality(A[y]) => x = y
  BY <1>2, <1>4
<1>6. r \in [S -> 0 .. c - 1]
  BY <1>1, <1>2, <1>3
<1>7. r \in Injection(S, 0 .. c - 1)
  BY <1>5, <1>6 DEF Injection, IsInjective
<1>8. IsFiniteSet(0 .. c - 1) /\ Cardinality(0 .. c - 1) = c
  BY <1>1, FS_Interval
<1>9. r \in Surjection(S, 0 .. c - 1)
  BY <1>7, <1>8, FS_Injection
<1>10. ASSUME NEW n \in 1 .. c PROVE \E x \in S : Cardinality(A[x]) = n - 1
  <2>1. n - 1 \in 0 .. c - 1
    BY <1>1
  <2>2. PICK x \in S : r[x] = n - 1
    BY <1>9, <2>1 DEF Surjection
  <2>3. QED
    BY <2>2
<1>11. \A x \in S : Cardinality(A[x]) = 0 <=> A[x] = {}
  BY <1>2, FS_EmptySet
<1>12. QED
  BY <1>1, <1>2, <1>5, <1>6, <1>10, <1>11

\* Entries with a place each are as many as the places.
LEMMA EntriesFinite ==
  ASSUME NEW P, IsFiniteSet(P), NEW g
  PROVE  IsFiniteSet({<<k, g[k]>> : k \in P})
<1> DEFINE S == {<<k, g[k]>> : k \in P}
           h == [k \in P |-> <<k, g[k]>>]
<1>1. h \in Surjection(P, S)
  BY DEF Surjection
<1>2. QED
  BY <1>1, FS_Surjection

Entries(P, g) == {<<k, g[k]>> : k \in P}

\* The entries ahead of each when R orders their places, and the values in that
\* order, as Orders!InOrder forms them.
AheadOf(P, g, R) ==
  [x \in Entries(P, g) |-> {y \in Entries(P, g) : <<y[1], x[1]>> \in R}]
Sorted(P, g, R) ==
  [n \in 1 .. Cardinality(Entries(P, g)) |->
     (CHOOSE x \in Entries(P, g) : Cardinality(AheadOf(P, g, R)[x]) = n - 1)[2]]

TotalOrder(P, R) ==
  /\ \A k \in P : <<k, k>> \notin R
  /\ \A j, k \in P : j # k => <<j, k>> \in R \/ <<k, j>> \in R
  /\ \A i, j, k \in P : <<i, j>> \in R /\ <<j, k>> \in R => <<i, k>> \in R

\* Sorting starts with the value none is ahead of, holds every value and
\* nothing else, and each as often as it has places.
IsSort(f, P, g, R) ==
  /\ f = [n \in DOMAIN f |-> f[n]] /\ (DOMAIN f = {} <=> P = {})
  /\ \E c \in Nat : DOMAIN f = 1 .. c
  /\ P # {} => \E k \in P : /\ 1 \in DOMAIN f /\ f[1] = g[k]
                           /\ \A j \in P \ {k} : <<k, j>> \in R
  /\ \A n \in DOMAIN f : \E k \in P : f[n] = g[k]
  /\ \A k \in P : \E n \in DOMAIN f : f[n] = g[k]
  /\ \A n, m \in DOMAIN f :
       n # m => \E j, k \in P : j # k /\ f[n] = g[j] /\ f[m] = g[k]

LEMMA SortedIs ==
  ASSUME NEW P, IsFiniteSet(P), NEW g, NEW R, TotalOrder(P, R)
  PROVE  IsSort(Sorted(P, g, R), P, g, R)
<1> DEFINE S == Entries(P, g)
           A == AheadOf(P, g, R)
           f == Sorted(P, g, R)
<1>1. IsFiniteSet(S)
  BY EntriesFinite DEF Entries
<1>2. A \in [S -> SUBSET S] /\ \A x, y \in S : x \in A[y] <=> <<x[1], y[1]>> \in R
  BY DEF AheadOf
<1>3. /\ \A x \in S : x[1] \in P /\ x[2] = g[x[1]]
      /\ \A x, y \in S : x[1] = y[1] => x = y
      /\ \A k \in P : \E x \in S : x[1] = k /\ x[2] = g[k]
      /\ S = {} <=> P = {}
  <2>1. ASSUME NEW x \in S PROVE x[1] \in P /\ x = <<x[1], g[x[1]]>> /\ x[2] = g[x[1]]
    <3>1. PICK k \in P : x = <<k, g[k]>>
      BY DEF Entries
    <3>2. x[1] = k /\ x[2] = g[k]
      BY <3>1
    <3>3. QED
      BY <3>1, <3>2
  <2>2. ASSUME NEW k \in P PROVE \E x \in S : x[1] = k /\ x[2] = g[k]
    <3>1. <<k, g[k]>> \in S
      BY DEF Entries
    <3>2. <<k, g[k]>>[1] = k /\ <<k, g[k]>>[2] = g[k]
      OBVIOUS
    <3>3. QED
      BY <3>1, <3>2
  <2>3. S = {} <=> P = {}
    BY DEF S, Entries
  <2> HIDE DEF S
  <2>4. \A x, y \in S : x[1] = y[1] => x = y
    BY <2>1
  <2>5. QED
    BY <2>1, <2>2, <2>3, <2>4
<1>4. DOMAIN f = 1 .. Cardinality(S) /\ Cardinality(S) \in Nat
  BY <1>1, FS_CardinalityType DEF Sorted
<1> HIDE DEF S, A
<1>5. /\ \A x \in S : x \notin A[x]
      /\ \A x, y \in S : x # y => x \in A[y] \/ y \in A[x]
      /\ \A x, y \in S : x \in A[y] => A[x] \subseteq A[y]
  <2>1. ASSUME NEW x \in S PROVE x \notin A[x]
    BY <1>2, <1>3 DEF TotalOrder
  <2>2. ASSUME NEW x \in S, NEW y \in S, x # y PROVE x \in A[y] \/ y \in A[x]
    <3>1. x[1] \in P /\ y[1] \in P /\ x[1] # y[1]
      BY <1>3, <2>2
    <3>2. <<x[1], y[1]>> \in R \/ <<y[1], x[1]>> \in R
      BY <3>1 DEF TotalOrder
    <3>3. QED
      BY <1>2, <3>2
  <2>3. ASSUME NEW x \in S, NEW y \in S, x \in A[y], NEW z \in A[x] PROVE z \in A[y]
    <3>1. z \in S
      BY <1>2
    <3>2. /\ x[1] \in P /\ y[1] \in P /\ z[1] \in P
          /\ <<x[1], y[1]>> \in R /\ <<z[1], x[1]>> \in R
      BY <1>2, <1>3, <2>3, <3>1
    <3>3. <<z[1], y[1]>> \in R
      BY <3>2 DEF TotalOrder
    <3>4. QED
      BY <1>2, <3>1, <3>3
  <2>4. QED
    BY <2>1, <2>2, <2>3
<1> DEFINE c == Cardinality(S)
<1>6. /\ c \in Nat
      /\ \A x \in S : Cardinality(A[x]) \in 0 .. c - 1
      /\ \A x, y \in S : Cardinality(A[x]) = Cardinality(A[y]) => x = y
      /\ \A n \in 1 .. c : \E x \in S : Cardinality(A[x]) = n - 1
      /\ \A x \in S : Cardinality(A[x]) = 0 <=> A[x] = {}
  <2>1. A \in [S -> SUBSET S]
    BY <1>2
  <2>2. QED
    BY <1>1, <1>5, <2>1, Ranks
<1>7. ASSUME NEW n \in 1 .. c, NEW x \in S, Cardinality(A[x]) = n - 1
      PROVE  f[n] = g[x[1]]
  <2>1. (CHOOSE y \in S : Cardinality(A[y]) = n - 1) = x
    BY <1>6, <1>7
  <2>2. f[n] = (CHOOSE y \in S : Cardinality(A[y]) = n - 1)[2]
    BY DEF S, A, Sorted
  <2>3. QED
    BY <1>3, <2>1, <2>2
<1>8. c = 0 <=> P = {}
  BY <1>1, <1>3, FS_EmptySet
<1> HIDE DEF f, c
<1>9. DOMAIN f = 1 .. c
  BY <1>4 DEF c
<1>10. DOMAIN f = {} <=> P = {}
  <2>1. c # 0 => 1 \in 1 .. c
    BY <1>6
  <2>2. c = 0 => 1 .. c = {}
    OBVIOUS
  <2>3. QED
    BY <1>8, <1>9, <2>1, <2>2
<1>11. ASSUME P # {}
       PROVE  \E k \in P : /\ 1 \in DOMAIN f /\ f[1] = g[k]
                            /\ \A j \in P \ {k} : <<k, j>> \in R
  <2>1. 1 \in 1 .. c
    BY <1>6, <1>8, <1>11
  <2>2. PICK x \in S : Cardinality(A[x]) = 1 - 1
    BY <1>6, <2>1
  <2>3. x[1] \in P /\ f[1] = g[x[1]] /\ A[x] = {}
    BY <1>3, <1>6, <1>7, <2>1, <2>2
  <2>4. ASSUME NEW j \in P \ {x[1]} PROVE <<x[1], j>> \in R
    <3>1. PICK y \in S : y[1] = j
      BY <1>3
    <3>2. x \in A[y]
      BY <1>5, <2>3, <2>4, <3>1
    <3>3. QED
      BY <1>2, <3>1, <3>2
  <2>5. QED
    BY <1>9, <2>1, <2>3, <2>4
<1>12. ASSUME NEW n \in DOMAIN f
       PROVE  \E x \in S : Cardinality(A[x]) = n - 1 /\ x[1] \in P /\ f[n] = g[x[1]]
  <2>1. PICK x \in S : Cardinality(A[x]) = n - 1
    BY <1>6, <1>9
  <2>2. QED
    BY <1>3, <1>7, <1>9, <2>1
<1>13. ASSUME NEW k \in P PROVE \E n \in DOMAIN f : f[n] = g[k]
  <2>1. PICK x \in S : x[1] = k
    BY <1>3
  <2>2. PICK n \in 1 .. c : Cardinality(A[x]) = n - 1
    <3>1. \A i \in 0 .. c - 1 : i + 1 \in 1 .. c /\ (i + 1) - 1 = i
      BY <1>6
    <3>2. Cardinality(A[x]) \in 0 .. c - 1
      BY <1>6
    <3>3. QED
      BY <3>1, <3>2
  <2>3. f[n] = g[k]
    BY <1>7, <2>1, <2>2
  <2>4. QED
    BY <1>9, <2>3
<1>14. ASSUME NEW n \in DOMAIN f, NEW m \in DOMAIN f, n # m
       PROVE  \E j, k \in P : j # k /\ f[n] = g[j] /\ f[m] = g[k]
  <2>1. PICK x \in S : Cardinality(A[x]) = n - 1 /\ x[1] \in P /\ f[n] = g[x[1]]
    BY <1>12
  <2>2. PICK y \in S : Cardinality(A[y]) = m - 1 /\ y[1] \in P /\ f[m] = g[y[1]]
    BY <1>12
  <2>3. n \in Nat /\ m \in Nat /\ n - 1 # m - 1
    BY <1>6, <1>9, <1>14
  <2>4. x[1] # y[1]
    BY <1>3, <2>1, <2>2, <2>3
  <2>5. QED
    BY <2>1, <2>2, <2>4
<1>15. \A n \in DOMAIN f : \E k \in P : f[n] = g[k]
  BY <1>12
<1>16. f = [n \in DOMAIN f |-> f[n]]
  BY DEF f, Sorted
<1>17. QED
  BY <1>16, <1>6, <1>9, <1>10, <1>11, <1>13, <1>14, <1>15 DEF f, IsSort

\* A stable sort by a strict weak order of places is a sort by a total one.
StableBy(P, B) ==
  {q \in P \X P : q \in B \/ (<<q[2], q[1]>> \notin B /\ q[1] < q[2])}

LEMMA StableTotal ==
  ASSUME NEW P \in SUBSET Nat, NEW B,
         \A k \in P : <<k, k>> \notin B,
         \A i, j, k \in P : <<i, j>> \in B /\ <<j, k>> \in B => <<i, k>> \in B,
         \A i, j, k \in P : <<i, k>> \in B => <<i, j>> \in B \/ <<j, k>> \in B
  PROVE  TotalOrder(P, StableBy(P, B))
<1>1. \A j, k \in P : <<j, k>> \in StableBy(P, B)
                      <=> <<j, k>> \in B \/ (<<k, j>> \notin B /\ j < k)
  BY DEF StableBy
<1>2. ASSUME NEW i \in P, NEW j \in P, NEW k \in P,
             <<i, j>> \in StableBy(P, B), <<j, k>> \in StableBy(P, B)
      PROVE  <<i, k>> \in StableBy(P, B)
  <2>1. /\ <<i, j>> \in B /\ <<j, k>> \in B => <<i, k>> \in B
        /\ <<i, j>> \in B => <<i, k>> \in B \/ <<k, j>> \in B
        /\ <<j, k>> \in B => <<j, i>> \in B \/ <<i, k>> \in B
        /\ <<k, i>> \in B => <<k, j>> \in B \/ <<j, i>> \in B
        /\ i < j /\ j < k => i < k
    OBVIOUS
  <2>2. /\ <<i, j>> \in B \/ (<<j, i>> \notin B /\ i < j)
        /\ <<j, k>> \in B \/ (<<k, j>> \notin B /\ j < k)
    BY <1>1, <1>2
  <2>3. <<i, k>> \in B \/ (<<k, i>> \notin B /\ i < k)
    BY <2>1, <2>2
  <2>4. QED
    BY <1>1, <2>3
<1>3. ASSUME NEW k \in P PROVE <<k, k>> \notin StableBy(P, B)
  <2>1. <<k, k>> \notin B /\ ~ (k < k)
    OBVIOUS
  <2>2. QED
    BY <1>1, <2>1
<1>4. ASSUME NEW j \in P, NEW k \in P, j # k
      PROVE  <<j, k>> \in StableBy(P, B) \/ <<k, j>> \in StableBy(P, B)
  <2>1. j < k \/ k < j
    BY <1>4
  <2>2. QED
    BY <1>1, <2>1
<1>5. QED
  BY <1>2, <1>3, <1>4 DEF TotalOrder
\* What it is for one triple of integers to come before another.
Precedes(a, b) ==
  \/ a[1] < b[1]
  \/ a[1] = b[1] /\ a[2] < b[2]
  \/ a[1] = b[1] /\ a[2] = b[2] /\ a[3] < b[3]

LEMMA PrecedesIs ==
  ASSUME NEW a \in Int \X Int \X Int, NEW b \in Int \X Int \X Int
  PROVE  (\E k \in DOMAIN a : a[k] < b[k] /\ \A j \in 1 .. k - 1 : a[j] = b[j]) <=> Precedes(a, b)
<1>1. DOMAIN a = {1, 2, 3} /\ 1 .. 1 - 1 = {} /\ 1 .. 2 - 1 = {1} /\ 1 .. 3 - 1 = {1, 2}
  OBVIOUS
<1>2. QED
  BY <1>1 DEF Precedes

\* Places ordered by keys that are triples, and what sorting by them gives.
KeyedBy(P, key, B) ==
  /\ P \in SUBSET Nat /\ IsFiniteSet(P) /\ key \in [P -> Int \X Int \X Int]
  /\ \A j, k \in P : <<j, k>> \in B <=> Precedes(key[j], key[k])

StartsWithLeast(f, P, g, key) ==
  /\ f = <<>> <=> P = {}
  /\ P # {} => \E k \in P : /\ f[1] = g[k] /\ 1 \in DOMAIN f
                            /\ \A j \in P : Precedes(key[k], key[j]) \/ key[k] = key[j]
  /\ \A n \in DOMAIN f : \E k \in P : f[n] = g[k]

LEMMA SortEmpty ==
  ASSUME NEW f, NEW P, NEW g, NEW R, IsSort(f, P, g, R)
  PROVE  f = <<>> <=> P = {}
<1>1. f = <<>> => DOMAIN f = {}
  OBVIOUS
<1>2. DOMAIN f = {} => f = <<>>
  <2>1. SUFFICES ASSUME DOMAIN f = {} PROVE f = <<>>
    OBVIOUS
  <2>2. f = [n \in 1 .. 0 |-> f[n]]
    BY <2>1 DEF IsSort
  <2>3. QED
    BY <2>2
<1>3. QED
  BY <1>1, <1>2 DEF IsSort

\* A sort by keys that are triples starts with the least key.
LEMMA LeastFirst ==
  ASSUME NEW P, NEW g, NEW key, NEW B, KeyedBy(P, key, B)
  PROVE  StartsWithLeast(Sorted(P, g, StableBy(P, B)), P, g, key)
<1> USE DEF KeyedBy
<1>1. \A k \in P : key[k] \in Int \X Int \X Int
  OBVIOUS
<1>2. \A k \in P : ~ Precedes(key[k], key[k])
  BY <1>1 DEF Precedes
<1>3. ASSUME NEW i \in P, NEW j \in P, NEW k \in P
      PROVE  /\ Precedes(key[i], key[j]) /\ Precedes(key[j], key[k]) => Precedes(key[i], key[k])
             /\ Precedes(key[i], key[k]) => Precedes(key[i], key[j]) \/ Precedes(key[j], key[k])
             /\ Precedes(key[i], key[j]) \/ Precedes(key[j], key[i]) \/ key[i] = key[j]
  <2> DEFINE a == key[i]
             b == key[j]
             c == key[k]
  <2>1. /\ a[1] \in Int /\ a[2] \in Int /\ a[3] \in Int /\ a = <<a[1], a[2], a[3]>>
        /\ b[1] \in Int /\ b[2] \in Int /\ b[3] \in Int /\ b = <<b[1], b[2], b[3]>>
        /\ c[1] \in Int /\ c[2] \in Int /\ c[3] \in Int
    BY <1>1
  <2> HIDE DEF a, b, c
  <2>2. /\ Precedes(a, b) /\ Precedes(b, c) => Precedes(a, c)
        /\ Precedes(a, c) => Precedes(a, b) \/ Precedes(b, c)
    BY <2>1 DEF Precedes
  <2>3. Precedes(a, b) \/ Precedes(b, a) \/ a = b
    <3>1. a[1] = b[1] /\ a[2] = b[2] /\ a[3] = b[3] => a = b
      BY <2>1
    <3>2. QED
      BY <2>1, <3>1 DEF Precedes
  <2>4. QED
    BY <2>2, <2>3 DEF a, b, c
<1>4. TotalOrder(P, StableBy(P, B))
  <2>1. \A k \in P : <<k, k>> \notin B
    BY <1>2
  <2>2. \A i, j, k \in P : <<i, j>> \in B /\ <<j, k>> \in B => <<i, k>> \in B
    BY <1>3
  <2>3. \A i, j, k \in P : <<i, k>> \in B => <<i, j>> \in B \/ <<j, k>> \in B
    BY <1>3
  <2>4. QED
    BY <2>1, <2>2, <2>3, StableTotal
<1> DEFINE R == StableBy(P, B)
           f == Sorted(P, g, R)
<1>5. IsSort(f, P, g, R)
  BY <1>4, SortedIs
<1>6. ASSUME NEW j \in P, NEW k \in P, <<k, j>> \in R
      PROVE  Precedes(key[k], key[j]) \/ key[k] = key[j]
  <2>1. <<k, j>> \in B \/ <<j, k>> \notin B
    BY <1>6 DEF StableBy
  <2>2. QED
    BY <1>3, <2>1
<1> HIDE DEF f, R
<1>7. P # {} => \E k \in P : /\ f[1] = g[k] /\ 1 \in DOMAIN f
                             /\ \A j \in P : Precedes(key[k], key[j]) \/ key[k] = key[j]
  <2>1. ASSUME P # {} PROVE \E k \in P : /\ 1 \in DOMAIN f /\ f[1] = g[k]
                                         /\ \A j \in P \ {k} : <<k, j>> \in R
    BY <1>5, <2>1 DEF IsSort
  <2>2. QED
    BY <1>6, <2>1
<1>8. f = <<>> <=> P = {}
  BY <1>5, SortEmpty
<1>9. QED
  BY <1>5, <1>7, <1>8 DEF f, R, StartsWithLeast, IsSort

Lexicographic(P) ==
  {q \in P \X P : q[1][1] < q[2][1] \/ (q[1][1] = q[2][1] /\ q[1][2] < q[2][2])}
Earlier(P) == {q \in P \X P : q[1] < q[2]}

\* The sorts of the model are sorts by a relation of places.
LEMMA TagsSorted ==
  ASSUME NEW P, NEW g
  PROVE  Codecs!StableOrder(Entries(P, g), Codecs!TagBefore)
           = Sorted(P, g, StableBy(P, {q \in P \X P : Codecs!TagBefore(g[q[1]], g[q[2]])}))
<1> DEFINE E == Entries(P, g)
           B == {q \in P \X P : Codecs!TagBefore(g[q[1]], g[q[2]])}
           R == StableBy(P, B)
           Before(x, y) == Codecs!TagBefore(x, y)
           Ahead(x, y) == Before(x[2], y[2]) \/ (~ Before(y[2], x[2]) /\ x[1] < y[1])
           chosen(n) == CHOOSE x \in E : Codecs!Cardinality({y \in E : Ahead(y, x)}) = n - 1
<1>1. Codecs!StableOrder(E, Codecs!TagBefore) = [n \in 1 .. Codecs!Cardinality(E) |-> chosen(n)[2]]
  BY DEF Codecs!StableOrder, Codecs!InOrder
<1>2. \A x \in E : x[1] \in P /\ x[2] = g[x[1]]
  BY DEF Entries
<1>3. \A j, k \in P : <<j, k>> \in R <=> Before(g[j], g[k]) \/ (~ Before(g[k], g[j]) /\ j < k)
  <2>1. \A j, k \in P : <<j, k>> \in B <=> Before(g[j], g[k])
    OBVIOUS
  <2> HIDE DEF B
  <2>2. QED
    BY <2>1 DEF StableBy
<1> HIDE DEF E, R, Before
<1>4. ASSUME NEW x \in E, NEW y \in E PROVE Ahead(y, x) <=> <<y[1], x[1]>> \in R
  BY <1>2, <1>3
<1> HIDE DEF Ahead
<1>5. \A x \in E : {y \in E : Ahead(y, x)} = AheadOf(P, g, R)[x]
  BY <1>4 DEF AheadOf, E
<1>6. \A X : Codecs!Cardinality(X) = Cardinality(X)
  BY DEF Codecs!Cardinality, Cardinality
<1>7. ASSUME NEW n PROVE chosen(n) = CHOOSE x \in E : Cardinality(AheadOf(P, g, R)[x]) = n - 1
  <2>1. \A x \in E : Codecs!Cardinality({y \in E : Ahead(y, x)}) = Cardinality(AheadOf(P, g, R)[x])
    BY <1>5, <1>6
  <2>2. QED
    BY <2>1
<1> HIDE DEF chosen
<1>8. QED
  BY <1>1, <1>6, <1>7 DEF Sorted, E, R

\* The same of payload prefixes,
LEMMA MagicsSorted ==
  ASSUME NEW P, NEW g
  PROVE  Codecs!StableOrder(Entries(P, g), Codecs!MagicBefore)
           = Sorted(P, g, StableBy(P, {q \in P \X P : Codecs!MagicBefore(g[q[1]], g[q[2]])}))
<1> DEFINE E == Entries(P, g)
           B == {q \in P \X P : Codecs!MagicBefore(g[q[1]], g[q[2]])}
           R == StableBy(P, B)
           Before(x, y) == Codecs!MagicBefore(x, y)
           Ahead(x, y) == Before(x[2], y[2]) \/ (~ Before(y[2], x[2]) /\ x[1] < y[1])
           chosen(n) == CHOOSE x \in E : Codecs!Cardinality({y \in E : Ahead(y, x)}) = n - 1
<1>1. Codecs!StableOrder(E, Codecs!MagicBefore) = [n \in 1 .. Codecs!Cardinality(E) |-> chosen(n)[2]]
  BY DEF Codecs!StableOrder, Codecs!InOrder
<1>2. \A x \in E : x[1] \in P /\ x[2] = g[x[1]]
  BY DEF Entries
<1>3. \A j, k \in P : <<j, k>> \in R <=> Before(g[j], g[k]) \/ (~ Before(g[k], g[j]) /\ j < k)
  <2>1. \A j, k \in P : <<j, k>> \in B <=> Before(g[j], g[k])
    OBVIOUS
  <2> HIDE DEF B
  <2>2. QED
    BY <2>1 DEF StableBy
<1> HIDE DEF E, R, Before
<1>4. ASSUME NEW x \in E, NEW y \in E PROVE Ahead(y, x) <=> <<y[1], x[1]>> \in R
  BY <1>2, <1>3
<1> HIDE DEF Ahead
<1>5. \A x \in E : {y \in E : Ahead(y, x)} = AheadOf(P, g, R)[x]
  BY <1>4 DEF AheadOf, E
<1>6. \A X : Codecs!Cardinality(X) = Cardinality(X)
  BY DEF Codecs!Cardinality, Cardinality
<1>7. ASSUME NEW n PROVE chosen(n) = CHOOSE x \in E : Cardinality(AheadOf(P, g, R)[x]) = n - 1
  <2>1. \A x \in E : Codecs!Cardinality({y \in E : Ahead(y, x)}) = Cardinality(AheadOf(P, g, R)[x])
    BY <1>5, <1>6
  <2>2. QED
    BY <2>1
<1> HIDE DEF chosen
<1>8. QED
  BY <1>1, <1>6, <1>7 DEF Sorted, E, R

\* of extension claims,
LEMMA ExtensionsSorted ==
  ASSUME NEW P, NEW g
  PROVE  Containers!StableOrder(Entries(P, g), Containers!ExtensionBefore)
           = Sorted(P, g, StableBy(P, {q \in P \X P : Containers!ExtensionBefore(g[q[1]], g[q[2]])}))
<1> DEFINE E == Entries(P, g)
           B == {q \in P \X P : Containers!ExtensionBefore(g[q[1]], g[q[2]])}
           R == StableBy(P, B)
           Before(x, y) == Containers!ExtensionBefore(x, y)
           Ahead(x, y) == Before(x[2], y[2]) \/ (~ Before(y[2], x[2]) /\ x[1] < y[1])
           chosen(n) == CHOOSE x \in E : Containers!Cardinality({y \in E : Ahead(y, x)}) = n - 1
<1>1. Containers!StableOrder(E, Containers!ExtensionBefore) = [n \in 1 .. Containers!Cardinality(E) |-> chosen(n)[2]]
  BY DEF Containers!StableOrder, Containers!InOrder
<1>2. \A x \in E : x[1] \in P /\ x[2] = g[x[1]]
  BY DEF Entries
<1>3. \A j, k \in P : <<j, k>> \in R <=> Before(g[j], g[k]) \/ (~ Before(g[k], g[j]) /\ j < k)
  <2>1. \A j, k \in P : <<j, k>> \in B <=> Before(g[j], g[k])
    OBVIOUS
  <2> HIDE DEF B
  <2>2. QED
    BY <2>1 DEF StableBy
<1> HIDE DEF E, R, Before
<1>4. ASSUME NEW x \in E, NEW y \in E PROVE Ahead(y, x) <=> <<y[1], x[1]>> \in R
  BY <1>2, <1>3
<1> HIDE DEF Ahead
<1>5. \A x \in E : {y \in E : Ahead(y, x)} = AheadOf(P, g, R)[x]
  BY <1>4 DEF AheadOf, E
<1>6. \A X : Containers!Cardinality(X) = Cardinality(X)
  BY DEF Containers!Cardinality, Cardinality
<1>7. ASSUME NEW n PROVE chosen(n) = CHOOSE x \in E : Cardinality(AheadOf(P, g, R)[x]) = n - 1
  <2>1. \A x \in E : Containers!Cardinality({y \in E : Ahead(y, x)}) = Cardinality(AheadOf(P, g, R)[x])
    BY <1>5, <1>6
  <2>2. QED
    BY <2>1
<1> HIDE DEF chosen
<1>8. QED
  BY <1>1, <1>6, <1>7 DEF Sorted, E, R

\* of probes,
LEMMA ProbesSorted ==
  ASSUME NEW P, NEW g
  PROVE  Containers!StableOrder(Entries(P, g), Containers!ProbeBefore)
           = Sorted(P, g, StableBy(P, {q \in P \X P : Containers!ProbeBefore(g[q[1]], g[q[2]])}))
<1> DEFINE E == Entries(P, g)
           B == {q \in P \X P : Containers!ProbeBefore(g[q[1]], g[q[2]])}
           R == StableBy(P, B)
           Before(x, y) == Containers!ProbeBefore(x, y)
           Ahead(x, y) == Before(x[2], y[2]) \/ (~ Before(y[2], x[2]) /\ x[1] < y[1])
           chosen(n) == CHOOSE x \in E : Containers!Cardinality({y \in E : Ahead(y, x)}) = n - 1
<1>1. Containers!StableOrder(E, Containers!ProbeBefore) = [n \in 1 .. Containers!Cardinality(E) |-> chosen(n)[2]]
  BY DEF Containers!StableOrder, Containers!InOrder
<1>2. \A x \in E : x[1] \in P /\ x[2] = g[x[1]]
  BY DEF Entries
<1>3. \A j, k \in P : <<j, k>> \in R <=> Before(g[j], g[k]) \/ (~ Before(g[k], g[j]) /\ j < k)
  <2>1. \A j, k \in P : <<j, k>> \in B <=> Before(g[j], g[k])
    OBVIOUS
  <2> HIDE DEF B
  <2>2. QED
    BY <2>1 DEF StableBy
<1> HIDE DEF E, R, Before
<1>4. ASSUME NEW x \in E, NEW y \in E PROVE Ahead(y, x) <=> <<y[1], x[1]>> \in R
  BY <1>2, <1>3
<1> HIDE DEF Ahead
<1>5. \A x \in E : {y \in E : Ahead(y, x)} = AheadOf(P, g, R)[x]
  BY <1>4 DEF AheadOf, E
<1>6. \A X : Containers!Cardinality(X) = Cardinality(X)
  BY DEF Containers!Cardinality, Cardinality
<1>7. ASSUME NEW n PROVE chosen(n) = CHOOSE x \in E : Cardinality(AheadOf(P, g, R)[x]) = n - 1
  <2>1. \A x \in E : Containers!Cardinality({y \in E : Ahead(y, x)}) = Cardinality(AheadOf(P, g, R)[x])
    BY <1>5, <1>6
  <2>2. QED
    BY <2>1
<1> HIDE DEF chosen
<1>8. QED
  BY <1>1, <1>6, <1>7 DEF Sorted, E, R

\* of a filtered listing
LEMMA KeptSorted ==
  ASSUME NEW P, NEW g
  PROVE  Codecs!Kept(Entries(P, g)) = Sorted(P, g, Earlier(P))
<1> DEFINE E == Entries(P, g)
           R == Earlier(P)
           Ahead(x, y) == x[1] < y[1]
           chosen(n) == CHOOSE x \in E : Codecs!Cardinality({y \in E : Ahead(y, x)}) = n - 1
<1>1. Codecs!Kept(E) = [n \in 1 .. Codecs!Cardinality(E) |-> chosen(n)[2]]
  BY DEF Codecs!Kept, Codecs!InOrder
<1>2. \A x \in E : x[1] \in P
  BY DEF Entries
<1>3. ASSUME NEW x \in E, NEW y \in E PROVE Ahead(y, x) <=> <<y[1], x[1]>> \in R
  BY <1>2 DEF Earlier
<1> HIDE DEF E, R, Ahead
<1>4. \A x \in E : {y \in E : Ahead(y, x)} = AheadOf(P, g, R)[x]
  BY <1>3 DEF AheadOf, E
<1>5. \A X : Codecs!Cardinality(X) = Cardinality(X)
  BY DEF Codecs!Cardinality, Cardinality
<1>6. ASSUME NEW n PROVE chosen(n) = CHOOSE x \in E : Cardinality(AheadOf(P, g, R)[x]) = n - 1
  <2>1. \A x \in E : Codecs!Cardinality({y \in E : Ahead(y, x)}) = Cardinality(AheadOf(P, g, R)[x])
    BY <1>4, <1>5
  <2>2. QED
    BY <2>1
<1> HIDE DEF chosen
<1>7. QED
  BY <1>1, <1>5, <1>6 DEF Sorted, E, R

\* and of a listing of lists.
LEMMA FlattenedSorted ==
  ASSUME NEW P, NEW g
  PROVE  Codecs!Flattened(Entries(P, g)) = Sorted(P, g, Lexicographic(P))
<1> DEFINE E == Entries(P, g)
           R == Lexicographic(P)
           Ahead(x, y) == x[1][1] < y[1][1] \/ (x[1][1] = y[1][1] /\ x[1][2] < y[1][2])
           chosen(n) == CHOOSE x \in E : Codecs!Cardinality({y \in E : Ahead(y, x)}) = n - 1
<1>1. Codecs!Flattened(E) = [n \in 1 .. Codecs!Cardinality(E) |-> chosen(n)[2]]
  BY DEF Codecs!Flattened, Codecs!InOrder
<1>2. \A x \in E : x[1] \in P
  BY DEF Entries
<1>3. ASSUME NEW x \in E, NEW y \in E PROVE Ahead(y, x) <=> <<y[1], x[1]>> \in R
  BY <1>2 DEF Lexicographic
<1> HIDE DEF E, R, Ahead
<1>4. \A x \in E : {y \in E : Ahead(y, x)} = AheadOf(P, g, R)[x]
  BY <1>3 DEF AheadOf, E
<1>5. \A X : Codecs!Cardinality(X) = Cardinality(X)
  BY DEF Codecs!Cardinality, Cardinality
<1>6. ASSUME NEW n PROVE chosen(n) = CHOOSE x \in E : Cardinality(AheadOf(P, g, R)[x]) = n - 1
  <2>1. \A x \in E : Codecs!Cardinality({y \in E : Ahead(y, x)}) = Cardinality(AheadOf(P, g, R)[x])
    BY <1>4, <1>5
  <2>2. QED
    BY <2>1
<1> HIDE DEF chosen
<1>7. QED
  BY <1>1, <1>5, <1>6 DEF Sorted, E, R

LEMMA ListingsTotal ==
  /\ \A P \in SUBSET Nat : TotalOrder(P, Earlier(P))
  /\ \A P \in SUBSET (Nat \X Nat) : TotalOrder(P, Lexicographic(P))
<1>1. ASSUME NEW P \in SUBSET Nat PROVE TotalOrder(P, Earlier(P))
  <2>1. \A j, k \in P : <<j, k>> \in Earlier(P) <=> j < k
    BY DEF Earlier
  <2>2. P \subseteq Nat
    OBVIOUS
  <2>3. QED
    BY <2>1, <2>2 DEF TotalOrder
<1>2. ASSUME NEW P \in SUBSET (Nat \X Nat) PROVE TotalOrder(P, Lexicographic(P))
  <2>1. \A x \in P : x[1] \in Nat /\ x[2] \in Nat /\ x = <<x[1], x[2]>>
    OBVIOUS
  <2>2. \A x, y \in P : <<x, y>> \in Lexicographic(P)
                        <=> x[1] < y[1] \/ (x[1] = y[1] /\ x[2] < y[2])
    BY DEF Lexicographic
  <2>3. \A x \in P : <<x, x>> \notin Lexicographic(P)
    BY <2>1, <2>2
  <2>4. ASSUME NEW x \in P, NEW y \in P, x # y
        PROVE  <<x, y>> \in Lexicographic(P) \/ <<y, x>> \in Lexicographic(P)
    <3>1. x[1] # y[1] \/ x[2] # y[2]
      BY <2>1, <2>4
    <3>2. QED
      BY <2>1, <2>2, <3>1
  <2>5. \A x, y, z \in P :
          <<x, y>> \in Lexicographic(P) /\ <<y, z>> \in Lexicographic(P)
            => <<x, z>> \in Lexicographic(P)
    BY <2>1, <2>2
  <2>6. QED
    BY <2>3, <2>4, <2>5 DEF TotalOrder
<1>3. QED
  BY <1>1, <1>2

\* Filtering keeps the values of the places it keeps, as often.
LEMMA KeptIs ==
  ASSUME NEW P \in SUBSET Nat, IsFiniteSet(P), NEW g
  PROVE  IsSort(Codecs!Kept(Entries(P, g)), P, g, Earlier(P))
BY KeptSorted, ListingsTotal, SortedIs

LEMMA SortTyped ==
  ASSUME NEW f, NEW P, NEW g, NEW R, IsSort(f, P, g, R), NEW T, \A k \in P : g[k] \in T
  PROVE  f \in Seq(T)
<1>1. PICK c \in Nat : DOMAIN f = 1 .. c
  BY DEF IsSort
<1>2. \A n \in 1 .. c : f[n] \in T
  BY <1>1 DEF IsSort
<1>3. f = [n \in 1 .. c |-> f[n]]
  BY <1>1 DEF IsSort
<1>4. QED
  BY <1>2, <1>3

\* The places in lists that stand at the places D, K[j] being those of the
\* list at j.
Pairs(D, K) == UNION {{<<j, k>> : k \in K[j]} : j \in D}

LEMMA PlacesFinite ==
  \A c \in Nat : 1 .. c \in SUBSET Nat /\ IsFiniteSet(1 .. c)
BY FS_Interval

LEMMA PairsAre ==
  ASSUME NEW D \in SUBSET Nat, IsFiniteSet(D), NEW K,
         \A j \in D : K[j] \in SUBSET Nat /\ IsFiniteSet(K[j])
  PROVE  /\ Pairs(D, K) \in SUBSET (Nat \X Nat) /\ IsFiniteSet(Pairs(D, K))
         /\ \A q \in Pairs(D, K) : q[1] \in D /\ q[2] \in K[q[1]] /\ q = <<q[1], q[2]>>
         /\ \A j \in D : \A k \in K[j] : <<j, k>> \in Pairs(D, K)
<1> DEFINE row(j) == {<<j, k>> : k \in K[j]}
           R == {row(j) : j \in D}
<1>1. ASSUME NEW j \in D PROVE IsFiniteSet(row(j))
  <2> DEFINE h == [k \in K[j] |-> <<j, k>>]
  <2>1. h \in Surjection(K[j], row(j))
    BY DEF Surjection
  <2>2. QED
    BY <2>1, FS_Surjection
<1> HIDE DEF row
<1>2. IsFiniteSet(R)
  <2> DEFINE h == [j \in D |-> row(j)]
  <2>1. h \in Surjection(D, R)
    BY DEF Surjection
  <2>2. QED
    BY <2>1, FS_Surjection
<1>3. IsFiniteSet(UNION R)
  BY <1>1, <1>2, FS_UNION
<1>4. Pairs(D, K) = UNION R
  BY DEF Pairs, row
<1>5. \A q : q \in Pairs(D, K) <=> \E j \in D : \E k \in K[j] : q = <<j, k>>
  BY <1>4 DEF row
<1>6. QED
  BY <1>3, <1>4, <1>5

LEMMA ListingIs ==
  ASSUME NEW D \in SUBSET Nat, IsFiniteSet(D), NEW K, NEW g,
         \A j \in D : K[j] \in SUBSET Nat /\ IsFiniteSet(K[j])
  PROVE  IsSort(Codecs!Flattened(Entries(Pairs(D, K), g)), Pairs(D, K), g,
                Lexicographic(Pairs(D, K)))
BY PairsAre, FlattenedSorted, ListingsTotal, SortedIs

-----------------------------------------------------------------------------
(* The codec registry.                                                     *)

Implemented == [name : ImplNames, factories : SUBSET Codecs!Roles,
                schemas : SUBSET Codecs!Roles, by : Nat]

Registered == [id : Ids, probe : [Contexts -> Int \union {NaN}] \union {NoProbe},
               priority : Int, tags : Seq(ClaimTags)]

CodecTypes ==
  /\ impls \in [Ids -> Seq(Implemented)]
  /\ registrations \in Seq(Registered)
  /\ tagIndex \in [ClaimTags -> Seq(Nat)]
  /\ magicIndex \in Seq(Seq(Nat) \X Nat)

\* The tag index holds a tag's claims, and points at nothing but claims: an
\* index into the registrations is never out of their bounds.
TagsIndexed ==
  \A t \in ClaimTags :
    Values(tagIndex[t]) = {i \in DOMAIN registrations : t \in Values(registrations[i].tags)}

MagicsIndexed == \A k \in DOMAIN magicIndex : magicIndex[k][2] \in DOMAIN registrations

\* implOrder lists the ids with an implementation, each once, and the
\* implementations of an id are in the order of their registrations.
ImplementationsListed ==
  /\ implOrder \in Seq(Ids)
  /\ Values(implOrder) = {id \in Ids : impls[id] # <<>>}
  /\ \A j, k \in DOMAIN implOrder : implOrder[j] = implOrder[k] => j = k
  /\ \A id \in Ids : \A k \in DOMAIN impls[id] :
       /\ impls[id][k].by <= Len(registrations)
       /\ \A j \in 1 .. k - 1 : impls[id][j].by < impls[id][k].by

CodecInv == CodecTypes /\ TagsIndexed /\ MagicsIndexed /\ ImplementationsListed

LEMMA ImplementationTyped ==
  ASSUME CodecInv, NEW id \in Ids
  PROVE  /\ impls[id] \in Seq(Implemented) /\ Len(impls[id]) \in Nat
         /\ DOMAIN impls[id] = 1 .. Len(impls[id])
         /\ \A k \in DOMAIN impls[id] : impls[id][k] \in Implemented /\ impls[id][k].by \in Nat
<1>1. impls[id] \in Seq(Implemented)
  BY DEF CodecInv, CodecTypes
<1> DEFINE s == impls[id]
<1> HIDE DEF s, Implemented
<1>2. s \in Seq(Implemented)
  BY <1>1 DEF s
<1>3. /\ Len(s) \in Nat /\ DOMAIN s = 1 .. Len(s)
      /\ \A k \in DOMAIN s : s[k] \in Implemented
  BY <1>2
<1>4. \A i \in Implemented : i.by \in Nat
  BY DEF Implemented
<1>5. QED
  BY <1>2, <1>3, <1>4 DEF s

LEMMA CodecInit ==
  ASSUME Codecs!Init
  PROVE  CodecInv
<1>1. CodecTypes
  BY DEF Codecs!Init, CodecTypes
<1>2. TagsIndexed
  <2>1. registrations = <<>> /\ \A t \in ClaimTags : tagIndex[t] = <<>>
    BY DEF Codecs!Init
  <2>2. DOMAIN registrations = {} /\ \A t \in ClaimTags : DOMAIN tagIndex[t] = {}
    BY <2>1
  <2>3. QED
    BY <2>2 DEF TagsIndexed, Values
<1>3. MagicsIndexed
  BY DEF Codecs!Init, MagicsIndexed
<1>4. ImplementationsListed
  <2>1. implOrder = <<>> /\ \A id \in Ids : impls[id] = <<>>
    BY DEF Codecs!Init
  <2>2. DOMAIN implOrder = {} /\ \A id \in Ids : DOMAIN impls[id] = {}
    BY <2>1
  <2>3. QED
    BY <2>1, <2>2 DEF ImplementationsListed, Values
<1>5. QED
  BY <1>1, <1>2, <1>3, <1>4 DEF CodecInv

\* What one registration appends.
LEMMA ClaimedIs ==
  ASSUME NEW info \in Infos, NEW t \in ClaimTags, NEW n \in Nat
  PROVE  /\ Codecs!Claimed(t, info, n) \in Seq(Nat)
         /\ Values(Codecs!Claimed(t, info, n)) = {m \in {n} : t \in Values(info.tags)}
<1> DEFINE O == {k \in DOMAIN info.tags : info.tags[k] = t}
           c == Cardinality(O)
<1>1. info.tags \in Seq(ClaimTags)
  BY CodecsAssumption DEF Codecs!Info
<1>2. IsFiniteSet(O)
  <2>1. IsFiniteSet(DOMAIN info.tags)
    BY <1>1, FS_Interval
  <2>2. QED
    BY <2>1, FS_Subset
<1>3. c \in Nat /\ (c = 0 <=> O = {})
  BY <1>2, FS_CardinalityType, FS_EmptySet
<1>4. Codecs!Claimed(t, info, n) = [i \in 1 .. c |-> n]
  BY DEF Codecs!Claimed, Codecs!Cardinality, Cardinality
<1>5. O = {} <=> t \notin Values(info.tags)
  BY DEF Values
<1> DEFINE claims == [i \in 1 .. c |-> n]
<1> HIDE DEF O, c
<1>6. claims \in Seq(Nat) /\ DOMAIN claims = 1 .. c
  BY <1>3
<1>7. Values(claims) = {m \in {n} : c # 0}
  <2>1. ASSUME NEW m \in Values(claims) PROVE m = n /\ c # 0
    BY <1>3 DEF Values
  <2>2. c # 0 => n \in Values(claims)
    <3>1. c # 0 => 1 \in DOMAIN claims /\ claims[1] = n
      BY <1>3
    <3> HIDE DEF claims
    <3>2. QED
      BY <3>1 DEF Values
  <2>3. QED
    BY <2>1, <2>2
<1>8. c # 0 <=> t \in Values(info.tags)
  BY <1>3, <1>5
<1>9. {m \in {n} : c # 0} = {m \in {n} : t \in Values(info.tags)}
  BY <1>8
<1>10. QED
  BY <1>4, <1>6, <1>7, <1>9

NewMagics(info, n) ==
  LET evidence == {k \in DOMAIN info.magics : info.magics[k] # <<>>}
      magics == Codecs!Kept({<<k, info.magics[k]>> : k \in evidence})
  IN  [i \in DOMAIN magics |-> <<magics[i], n>>]

LEMMA MagicsAppended ==
  ASSUME NEW info \in Infos, NEW n \in Nat
  PROVE  /\ NewMagics(info, n) \in Seq(Seq(Nat) \X Nat)
         /\ \A k \in DOMAIN NewMagics(info, n) :
              NewMagics(info, n)[k][2] = n /\ NewMagics(info, n)[k][1] \in Values(info.magics)
<1> DEFINE P == {k \in DOMAIN info.magics : info.magics[k] # <<>>}
           magics == Codecs!Kept(Entries(P, info.magics))
<1>1. info.magics \in Seq(Seq(Nat))
  BY CodecsAssumption DEF Codecs!Info
<1>2. P \in SUBSET Nat /\ \A k \in P : info.magics[k] \in Seq(Nat)
  BY <1>1
<1>3. IsFiniteSet(P)
  <2>1. IsFiniteSet(DOMAIN info.magics)
    BY <1>1, FS_Interval
  <2>2. QED
    BY <2>1, FS_Subset
<1>4. NewMagics(info, n) = [i \in DOMAIN magics |-> <<magics[i], n>>]
  BY DEF NewMagics, Entries
<1>5. P \subseteq DOMAIN info.magics
  OBVIOUS
<1> HIDE DEF P
<1>6. magics \in Seq(Seq(Nat)) /\ \A i \in DOMAIN magics : \E k \in P : magics[i] = info.magics[k]
  <2>1. IsSort(magics, P, info.magics, Earlier(P))
    BY <1>2, <1>3, KeptIs
  <2> HIDE DEF magics
  <2>2. magics \in Seq(Seq(Nat))
    BY <1>2, <2>1, SortTyped
  <2>3. QED
    BY <2>1, <2>2 DEF IsSort
<1> HIDE DEF magics
<1>7. [i \in DOMAIN magics |-> <<magics[i], n>>] \in Seq(Seq(Nat) \X Nat)
  <2>1. DOMAIN magics = 1 .. Len(magics) /\ Len(magics) \in Nat
    BY <1>6
  <2>2. \A i \in 1 .. Len(magics) : <<magics[i], n>> \in Seq(Nat) \X Nat
    BY <1>6, <2>1
  <2>3. QED
    BY <2>1, <2>2
<1>8. \A i \in DOMAIN magics : magics[i] \in Values(info.magics)
  BY <1>5, <1>6 DEF Values
<1>9. QED
  BY <1>4, <1>7, <1>8

LEMMA ListedStep ==
  ASSUME CodecInv, NEW info \in Infos, Codecs!Register(info)
  PROVE  ImplementationsListed'
<1> DEFINE x == info.id
           i == Codecs!Implementation(info)
           n == Len(registrations)
<1>1. x \in Ids /\ n \in Nat /\ registrations' = Append(registrations, registrations'[n + 1])
      /\ Len(registrations') = n + 1
  <2>1. x \in Ids
    BY CodecsAssumption DEF Codecs!Info
  <2>2. n \in Nat
    BY DEF CodecInv, CodecTypes
  <2>3. PICK r : registrations' = Append(registrations, r)
    BY DEF Codecs!Register
  <2>4. QED
    BY <2>1, <2>2, <2>3
<1>2. i \in Implemented /\ i.by = n + 1
  BY <1>1, CodecsAssumption DEF Codecs!Info, Codecs!Implementation, Implemented
<1>3. impls \in [Ids -> Seq(Implemented)]
  BY DEF CodecInv, CodecTypes
<1>4. \/ impls' = impls /\ implOrder' = implOrder
      \/ /\ impls' = [impls EXCEPT ![x] = Append(@, i)]
         /\ implOrder' = IF impls[x] = <<>> THEN Append(implOrder, x) ELSE implOrder
  BY DEF Codecs!Register
<1> HIDE DEF x, i, n
<1>5. CASE impls' = impls /\ implOrder' = implOrder
  <2>1. \A id \in Ids : \A k \in DOMAIN impls[id] : impls[id][k].by <= Len(registrations')
    BY <1>1, ImplementationTyped DEF CodecInv, ImplementationsListed, n
  <2>2. QED
    BY <1>5, <2>1 DEF CodecInv, ImplementationsListed
<1>6. CASE /\ impls' = [impls EXCEPT ![x] = Append(@, i)]
           /\ implOrder' = IF impls[x] = <<>> THEN Append(implOrder, x) ELSE implOrder
  <2> DEFINE s == impls[x]
             t == Append(s, i)
  <2>1. /\ s \in Seq(Implemented) /\ DOMAIN t = DOMAIN s \union {Len(s) + 1}
        /\ \A k \in DOMAIN s : t[k] = s[k]
        /\ t[Len(s) + 1] = i
        /\ Len(s) \in Nat /\ DOMAIN s = 1 .. Len(s)
    <3> HIDE DEF Implemented
    <3>1. s \in Seq(Implemented)
      BY <1>1, <1>3
    <3> HIDE DEF s
    <3>2. QED
      BY <1>2, <3>1, Appended
  <2>2. impls'[x] = t /\ \A id \in Ids \ {x} : impls'[id] = impls[id]
    BY <1>1, <1>3, <1>6
  <2>3. /\ \A k \in DOMAIN s : s[k].by \in Nat /\ s[k].by <= n
        /\ \A k \in DOMAIN s : \A j \in 1 .. k - 1 : s[j].by < s[k].by
    BY <1>1, ImplementationTyped DEF CodecInv, ImplementationsListed, n
  <2> HIDE DEF s, t
  <2>4. t # <<>>
    <3>1. Len(s) + 1 \in DOMAIN t
      BY <2>1
    <3>2. DOMAIN <<>> = {}
      OBVIOUS
    <3>3. QED
      BY <3>1, <3>2
  <2>5. ASSUME NEW id \in Ids, NEW k \in DOMAIN impls'[id]
        PROVE  /\ impls'[id][k].by <= Len(registrations')
               /\ \A j \in 1 .. k - 1 : impls'[id][j].by < impls'[id][k].by
    <3>1. CASE id # x
      <4>1. impls'[id] = impls[id]
        BY <2>2, <3>1
      <4>2. \A m \in DOMAIN impls[id] : impls[id][m].by \in Nat
        BY ImplementationTyped
      <4>3. /\ impls[id][k].by <= n
            /\ \A j \in 1 .. k - 1 : impls[id][j].by < impls[id][k].by
        BY <2>5, <4>1 DEF CodecInv, ImplementationsListed, n
      <4>4. QED
        BY <1>1, <2>5, <4>1, <4>2, <4>3
    <3>2. CASE id = x /\ k \in DOMAIN s
      <4>1. \A j \in 1 .. k - 1 : j \in DOMAIN s
        BY <2>1, <3>2
      <4>2. t[k] = s[k] /\ \A j \in 1 .. k - 1 : t[j] = s[j]
        BY <2>1, <3>2, <4>1
      <4>3. QED
        BY <1>1, <2>2, <2>3, <3>2, <4>2
    <3>3. CASE id = x /\ k \notin DOMAIN s
      <4>1. k = Len(s) + 1 /\ t[k] = i
        BY <2>1, <2>2, <2>5, <3>3
      <4>2. \A j \in 1 .. k - 1 : j \in DOMAIN s /\ t[j] = s[j]
        BY <2>1, <4>1
      <4>3. \A j \in 1 .. k - 1 : t[j].by <= n /\ t[j].by \in Nat
        BY <2>3, <4>2
      <4>4. QED
        BY <1>1, <1>2, <2>2, <3>3, <4>1, <4>3
    <3>4. QED
      BY <3>1, <3>2, <3>3
  <2>6. {id \in Ids : impls'[id] # <<>>} = {id \in Ids : impls[id] # <<>>} \union {x}
    BY <1>1, <2>2, <2>4
  <2>7. CASE s # <<>>
    <3>1. implOrder' = implOrder /\ x \in {id \in Ids : impls[id] # <<>>}
      BY <1>1, <1>6, <2>7 DEF s
    <3>2. QED
      BY <2>5, <2>6, <3>1 DEF CodecInv, ImplementationsListed
  <2>8. CASE s = <<>>
    <3>1. implOrder' = Append(implOrder, x) /\ x \notin Values(implOrder)
      BY <1>6, <2>8 DEF s, CodecInv, ImplementationsListed
    <3>2. /\ implOrder' \in Seq(Ids) /\ DOMAIN implOrder' = DOMAIN implOrder \union {Len(implOrder) + 1}
          /\ \A k \in DOMAIN implOrder : implOrder'[k] = implOrder[k]
          /\ implOrder'[Len(implOrder) + 1] = x
      BY <1>1, <3>1, Appended DEF CodecInv, ImplementationsListed
    <3>3. \A k \in DOMAIN implOrder : implOrder[k] # x
      BY <3>1 DEF Values
    <3>4. Values(implOrder') = Values(implOrder) \union {x}
      BY <3>2 DEF Values
    <3>5. \A j, k \in DOMAIN implOrder' : implOrder'[j] = implOrder'[k] => j = k
      BY <3>2, <3>3 DEF CodecInv, ImplementationsListed
    <3>6. QED
      BY <2>5, <2>6, <3>2, <3>4, <3>5 DEF CodecInv, ImplementationsListed
  <2>9. QED
    BY <2>7, <2>8
<1>7. QED
  BY <1>4, <1>5, <1>6

LEMMA RegisterStep ==
  ASSUME CodecInv, NEW info \in Infos, Codecs!Register(info)
  PROVE  CodecInv'
<1> DEFINE n == Len(registrations) + 1
           record == [id |-> info.id, probe |-> info.probe, priority |-> info.priority,
                      tags |-> info.tags]
<1>1. /\ info.id \in Ids /\ info.tags \in Seq(ClaimTags) /\ record \in Registered
      /\ info.implementation \in ImplNames
      /\ info.factories \in SUBSET Codecs!Roles /\ info.schemas \in SUBSET Codecs!Roles
  BY CodecsAssumption DEF Codecs!Info, Registered
<1>2. /\ registrations \in Seq(Registered) /\ impls \in [Ids -> Seq(Implemented)]
      /\ tagIndex \in [ClaimTags -> Seq(Nat)]
  BY DEF CodecInv, CodecTypes
<1>3. n \in Nat
  BY <1>2
<1>4. /\ registrations' = Append(registrations, record)
      /\ tagIndex' = [t \in ClaimTags |-> tagIndex[t] \o Codecs!Claimed(t, info, n)]
      /\ impls' \in {impls, [impls EXCEPT ![info.id] = Append(@, Codecs!Implementation(info))]}
  BY DEF Codecs!Register
<1>5. Codecs!Implementation(info) \in Implemented
  BY <1>1, <1>3 DEF Codecs!Implementation, Implemented
<1>6. impls' \in [Ids -> Seq(Implemented)]
  <2>1. Append(impls[info.id], Codecs!Implementation(info)) \in Seq(Implemented)
    BY <1>1, <1>2, <1>5
  <2> HIDE DEF Implemented
  <2>2. [impls EXCEPT ![info.id] = Append(@, Codecs!Implementation(info))]
          \in [Ids -> Seq(Implemented)]
    BY <1>2, <2>1
  <2>3. QED
    BY <1>2, <1>4, <2>2
<1> HIDE DEF record, n
<1>7. \A t \in ClaimTags : tagIndex'[t] = tagIndex[t] \o Codecs!Claimed(t, info, n)
  BY <1>4
<1>10. /\ DOMAIN registrations' = DOMAIN registrations \union {n} /\ n \notin DOMAIN registrations
       /\ registrations'[n] = record
       /\ \A i \in DOMAIN registrations : registrations'[i] = registrations[i]
  BY <1>1, <1>2, <1>4, Appended DEF n
<1>15. magicIndex \in Seq(Seq(Nat) \X Nat)
  BY DEF CodecInv, CodecTypes
<1>16. /\ NewMagics(info, n) \in Seq(Seq(Nat) \X Nat)
       /\ \A k \in DOMAIN NewMagics(info, n) : NewMagics(info, n)[k][2] = n
  BY <1>3, MagicsAppended
<1>17. magicIndex' = magicIndex \o NewMagics(info, n)
  BY DEF Codecs!Register, NewMagics, n
<1>12. magicIndex' \in Seq(Seq(Nat) \X Nat)
  BY <1>15, <1>16, <1>17, Joined
<1>13. \A k \in DOMAIN magicIndex' :
         magicIndex'[k][2] = n \/ (k \in DOMAIN magicIndex /\ magicIndex'[k] = magicIndex[k])
  BY <1>15, <1>16, <1>17, Joined
<1>8. CodecTypes'
  <2>1. tagIndex' \in [ClaimTags -> Seq(Nat)]
    <3>1. ASSUME NEW t \in ClaimTags
          PROVE  tagIndex[t] \o Codecs!Claimed(t, info, n) \in Seq(Nat)
      <4>1. tagIndex[t] \in Seq(Nat) /\ Codecs!Claimed(t, info, n) \in Seq(Nat)
        BY <1>2, <1>3, ClaimedIs
      <4>2. QED
        BY <4>1
    <3>2. QED
      BY <1>4, <3>1
  <2>2. registrations' \in Seq(Registered)
    BY <1>1, <1>2, <1>4
  <2>3. QED
    BY <1>6, <1>12, <2>1, <2>2 DEF CodecTypes
<1>9. TagsIndexed'
  <2>1. SUFFICES ASSUME NEW t \in ClaimTags
                 PROVE  Values(tagIndex'[t])
                          = {i \in DOMAIN registrations' : t \in Values(registrations'[i].tags)}
    BY DEF TagsIndexed
  <2> DEFINE s == tagIndex[t]
             c == Codecs!Claimed(t, info, n)
  <2>2. s \in Seq(Nat) /\ c \in Seq(Nat) /\ Values(c) = {m \in {n} : t \in Values(info.tags)}
    BY <1>2, <1>3, ClaimedIs
  <2>3. tagIndex'[t] = s \o c
    BY <1>7
  <2>4. Values(s) = {i \in DOMAIN registrations : t \in Values(registrations[i].tags)}
    BY DEF CodecInv, TagsIndexed
  <2>5. record.tags = info.tags
    BY DEF record
  <2>6. {i \in DOMAIN registrations' : t \in Values(registrations'[i].tags)}
          = {i \in DOMAIN registrations : t \in Values(registrations[i].tags)}
              \union {m \in {n} : t \in Values(info.tags)}
    BY <1>10, <2>5
  <2> HIDE DEF s, c
  <2>7. Values(s \o c) = Values(s) \union Values(c)
    BY <2>2, JoinedSet
  <2>8. QED
    BY <2>2, <2>3, <2>4, <2>6, <2>7
<1>11. MagicsIndexed'
  BY <1>10, <1>12, <1>13 DEF MagicsIndexed, CodecInv
<1>18. ImplementationsListed'
  BY ListedStep
<1>14. QED
  BY <1>8, <1>9, <1>11, <1>18 DEF CodecInv

\* A registration appends to the implementations of one id.
LEMMA ImplementationsGrow ==
  ASSUME CodecInv, NEW info \in Infos, Codecs!Register(info), NEW id \in Ids
  PROVE  /\ impls[id] \in Seq(Implemented) /\ impls'[id] \in Seq(Implemented)
         /\ Len(impls[id]) <= Len(impls'[id])
         /\ \A k \in DOMAIN impls[id] : impls'[id][k] = impls[id][k]
<1>1. impls \in [Ids -> Seq(Implemented)] /\ impls' \in [Ids -> Seq(Implemented)]
  BY RegisterStep DEF CodecInv, CodecTypes
<1>2. \/ impls'[id] = impls[id]
      \/ impls'[id] = Append(impls[id], Codecs!Implementation(info))
  BY <1>1 DEF Codecs!Register
<1>3. Codecs!Implementation(info) \in Implemented
  BY CodecsAssumption
     DEF Codecs!Info, Codecs!Implementation, Implemented, CodecInv, CodecTypes
<1>4. CASE impls'[id] = impls[id]
  BY <1>1, <1>4
<1>5. CASE impls'[id] = Append(impls[id], Codecs!Implementation(info))
  <2> HIDE DEF Implemented
  <2>1. impls[id] \in Seq(Implemented)
    BY <1>1
  <2>2. QED
    BY <1>3, <1>5, <2>1, Appended
<1>6. QED
  BY <1>2, <1>4, <1>5

LEMMA OpenersStayStep ==
  ASSUME CodecInv, NEW info \in Infos, Codecs!Register(info),
         NEW role \in Codecs!Roles, NEW id \in Ids
  PROVE  /\ Codecs!OpenFirst(role, id) # {} =>
              Codecs!OpenFirst(role, id)' = Codecs!OpenFirst(role, id)
         /\ \A k \in DOMAIN impls[id] :
              LET n == impls[id][k].name
              IN  Codecs!OpenNamed(role, id, n)' = Codecs!OpenNamed(role, id, n)
<1> DEFINE s == impls[id]
           t == impls'[id]
           first(q, P) == {q[k] : k \in {n \in P : \A m \in P : n <= m}}
<1>1. /\ s \in Seq(Implemented) /\ t \in Seq(Implemented)
      /\ Len(s) <= Len(t) /\ \A k \in DOMAIN s : t[k] = s[k]
      /\ DOMAIN s \subseteq DOMAIN t
  <2>1. /\ s \in Seq(Implemented) /\ t \in Seq(Implemented)
        /\ Len(s) <= Len(t) /\ \A k \in DOMAIN s : t[k] = s[k]
    BY ImplementationsGrow
  <2>2. DOMAIN s = 1 .. Len(s) /\ DOMAIN t = 1 .. Len(t) /\ Len(s) \in Nat /\ Len(t) \in Nat
    BY <2>1
  <2>3. QED
    BY <2>1, <2>2
<1>2. ASSUME Codecs!OpenFirst(role, id) # {}
      PROVE  Codecs!OpenFirst(role, id)' = Codecs!OpenFirst(role, id)
  <2> DEFINE P == {k \in DOMAIN s : role \in s[k].factories}
             Q == {k \in DOMAIN t : role \in t[k].factories}
  <2>1. Codecs!OpenFirst(role, id) = first(s, P) /\ Codecs!OpenFirst(role, id)' = first(t, Q)
    BY DEF Codecs!OpenFirst, Codecs!FirstOf, Codecs!Serving, Codecs!Implementations
  <2>2. P # {}
    BY <1>2, <2>1
  <2>3. P = Q \intersect DOMAIN s
    BY <1>1
  <2>4. P \in SUBSET DOMAIN s /\ Q \in SUBSET DOMAIN t
    OBVIOUS
  <2> HIDE DEF P, Q, s, t
  <2>5. first(t, Q) = first(s, P)
    BY <1>1, <2>2, <2>3, <2>4, FirstStays
  <2>6. QED
    BY <2>1, <2>5
<1>3. ASSUME NEW k \in DOMAIN impls[id]
      PROVE  Codecs!OpenNamed(role, id, impls[id][k].name)'
               = Codecs!OpenNamed(role, id, impls[id][k].name)
  <2> DEFINE name == impls[id][k].name
             P == {i \in DOMAIN s : s[i].name = name}
             Q == {i \in DOMAIN t : t[i].name = name}
  <2>1. impls'[id][k].name = name
    BY <1>1
  <2>2. /\ Codecs!OpenNamed(role, id, name) = {i \in first(s, P) : role \in i.factories}
        /\ Codecs!OpenNamed(role, id, impls[id][k].name)'
             = {i \in first(t, Q) : role \in i.factories}
    BY <2>1 DEF Codecs!OpenNamed, Codecs!FirstOf, Codecs!Called, Codecs!Implementations
  <2>3. P # {} /\ P = Q \intersect DOMAIN s
    BY <1>1
  <2>4. P \in SUBSET DOMAIN s /\ Q \in SUBSET DOMAIN t
    OBVIOUS
  <2> HIDE DEF P, Q, s, t
  <2>5. first(t, Q) = first(s, P)
    BY <1>1, <2>3, <2>4, FirstStays
  <2>6. QED
    BY <2>2, <2>5
<1>4. QED
  BY <1>2, <1>3

\* The places a tag leads to, and the claims among them that compete.
TagPlaces(ctx) ==
  {k \in DOMAIN tagIndex[ctx.tag] : Codecs!Positive(Codecs!ConfidenceOf(tagIndex[ctx.tag][k], ctx))}
TagKey(i, ctx) == <<0 - Codecs!ConfidenceOf(i, ctx), registrations[i].priority, i>>
Claimants(ctx) ==
  {i \in DOMAIN registrations :
     /\ ctx.tag \in Codecs!ToSet(registrations[i].tags)
     /\ Codecs!ConfidenceOf(i, ctx) \in Nat \ {0}}

LEMMA ClaimantsIs ==
  ASSUME CodecInv, NEW ctx \in Contexts
  PROVE  /\ \A k \in TagPlaces(ctx) : tagIndex[ctx.tag][k] \in Claimants(ctx)
         /\ \A i \in Claimants(ctx) : \E k \in TagPlaces(ctx) : tagIndex[ctx.tag][k] = i
         /\ TagPlaces(ctx) \in SUBSET Nat /\ IsFiniteSet(TagPlaces(ctx))
         /\ \A i \in Claimants(ctx) : /\ TagKey(i, ctx) \in Int \X Int \X Int
                                      /\ registrations[i] \in Registered
<1> DEFINE s == tagIndex[ctx.tag]
           conf(i) == Codecs!ConfidenceOf(i, ctx)
<1>1. ctx.tag \in ClaimTags /\ NaN \notin Int
  BY CodecsAssumption
<1>2. s \in Seq(Nat) /\ registrations \in Seq(Registered)
  BY <1>1 DEF CodecInv, CodecTypes
<1>3. Values(s) = {i \in DOMAIN registrations : ctx.tag \in Values(registrations[i].tags)}
  BY <1>1 DEF CodecInv, TagsIndexed
<1>4. ASSUME NEW i \in DOMAIN registrations
      PROVE  /\ conf(i) \in Int \union {NaN} /\ registrations[i].priority \in Int /\ i \in Nat
             /\ registrations[i] \in Registered
  <2>1. registrations[i] \in Registered /\ i \in Nat
    BY <1>2
  <2>2. QED
    BY <2>1 DEF Registered, Codecs!ConfidenceOf
<1>5. \A i \in DOMAIN registrations : Codecs!Positive(conf(i)) <=> conf(i) \in Nat \ {0}
  BY <1>1, <1>4 DEF Codecs!Positive
<1>6. \A i : Codecs!ToSet(registrations[i].tags) = Values(registrations[i].tags)
  BY DEF Codecs!ToSet, Values
<1> HIDE DEF conf
<1>7. Claimants(ctx) = {i \in Values(s) : Codecs!Positive(conf(i))}
  BY <1>3, <1>5, <1>6 DEF Claimants, conf
<1>8. TagPlaces(ctx) = {k \in DOMAIN s : Codecs!Positive(conf(s[k]))}
  BY DEF TagPlaces, conf
<1>9. TagPlaces(ctx) \in SUBSET Nat /\ IsFiniteSet(TagPlaces(ctx))
  <2>1. DOMAIN s \in SUBSET Nat /\ IsFiniteSet(DOMAIN s)
    BY <1>2, FS_Interval
  <2>2. TagPlaces(ctx) \in SUBSET DOMAIN s
    BY <1>8
  <2>3. QED
    BY <2>1, <2>2, FS_Subset
<1>10. ASSUME NEW i \in Claimants(ctx)
       PROVE  TagKey(i, ctx) \in Int \X Int \X Int /\ registrations[i] \in Registered
  <2>1. i \in DOMAIN registrations /\ conf(i) \in Int
    BY <1>3, <1>5, <1>7
  <2>2. QED
    BY <1>4, <2>1 DEF TagKey, conf
<1> HIDE DEF s
<1>11. \A k \in TagPlaces(ctx) : s[k] \in Claimants(ctx)
  BY <1>7, <1>8 DEF Values
<1>12. \A i \in Claimants(ctx) : \E k \in TagPlaces(ctx) : s[k] = i
  BY <1>7, <1>8 DEF Values
<1>13. QED
  BY <1>9, <1>10, <1>11, <1>12 DEF s

\* The head of the candidates: a claimant whose key precedes every other's.
LEMMA TagAnswer ==
  ASSUME CodecInv, NEW ctx \in Contexts
  PROVE  /\ Claimants(ctx) = {} => Codecs!ResolveTag(ctx) = {}
         /\ Claimants(ctx) # {} =>
              \E i \in Claimants(ctx) :
                /\ Codecs!ResolveTag(ctx) = {registrations[i].id}
                /\ \A j \in Claimants(ctx) \ {i} : Precedes(TagKey(i, ctx), TagKey(j, ctx))
<1> DEFINE P == TagPlaces(ctx)
           s == tagIndex[ctx.tag]
           g == [k \in P |-> Codecs!TagCandidate(s[k], ctx)]
           B == {q \in P \X P : Codecs!TagBefore(g[q[1]], g[q[2]])}
           key == [k \in P |-> TagKey(s[k], ctx)]
           f == Codecs!TagCandidates(ctx)
<1>1. f = Sorted(P, g, StableBy(P, B))
  <2>1. Entries(P, g) = {<<k, Codecs!TagCandidate(s[k], ctx)>> : k \in P}
    BY DEF Entries
  <2>2. f = Codecs!StableOrder({<<k, Codecs!TagCandidate(s[k], ctx)>> : k \in P}, Codecs!TagBefore)
    BY DEF Codecs!TagCandidates, TagPlaces
  <2>3. f = Codecs!StableOrder(Entries(P, g), Codecs!TagBefore)
    BY <2>1, <2>2
  <2> HIDE DEF g, P
  <2>4. QED
    BY <2>3, TagsSorted
<1>2. /\ \A k \in P : s[k] \in Claimants(ctx)
      /\ \A i \in Claimants(ctx) : \E k \in P : s[k] = i
      /\ P \in SUBSET Nat /\ IsFiniteSet(P)
      /\ \A i \in Claimants(ctx) : TagKey(i, ctx) \in Int \X Int \X Int
  BY ClaimantsIs
<1>3. key \in [P -> Int \X Int \X Int]
  BY <1>2
<1>4. ASSUME NEW j \in P, NEW k \in P
      PROVE  <<j, k>> \in B <=> Precedes(key[j], key[k])
  <2> DEFINE a == s[j]
             b == s[k]
  <2>1. /\ Codecs!ConfidenceOf(a, ctx) \in Int /\ Codecs!ConfidenceOf(b, ctx) \in Int
        /\ registrations[a].priority \in Int /\ registrations[b].priority \in Int
        /\ a \in Int /\ b \in Int
    <3>1. a \in Claimants(ctx) /\ b \in Claimants(ctx)
      BY <1>2
    <3> HIDE DEF a, b
    <3>2. /\ registrations[a] \in Registered /\ registrations[b] \in Registered
          /\ TagKey(a, ctx) \in Int \X Int \X Int /\ TagKey(b, ctx) \in Int \X Int \X Int
      BY <3>1, ClaimantsIs
    <3>3. a \in Int /\ b \in Int
      BY <3>2 DEF TagKey
    <3>4. QED
      BY <3>1, <3>2, <3>3 DEF Claimants, Registered
  <2>2. /\ g[j] = Codecs!TagCandidate(a, ctx) /\ g[k] = Codecs!TagCandidate(b, ctx)
        /\ key[j] = TagKey(a, ctx) /\ key[k] = TagKey(b, ctx)
    OBVIOUS
  <2>3. <<j, k>> \in B <=> Codecs!TagBefore(g[j], g[k])
    OBVIOUS
  <2> HIDE DEF a, b, g, key, B
  <2>4. Codecs!TagBefore(Codecs!TagCandidate(a, ctx), Codecs!TagCandidate(b, ctx))
          <=> Precedes(TagKey(a, ctx), TagKey(b, ctx))
    BY <2>1 DEF Codecs!TagBefore, Codecs!TagCandidate, Precedes, TagKey
  <2>5. QED
    BY <2>2, <2>3, <2>4
<1> HIDE DEF P, g, B, key, f
<1>5. StartsWithLeast(f, P, g, key)
  <2>1. KeyedBy(P, key, B)
    BY <1>2, <1>3, <1>4 DEF KeyedBy
  <2>2. QED
    BY <1>1, <2>1, LeastFirst
<1>6. P = {} <=> Claimants(ctx) = {}
  BY <1>2
<1>7. f = <<>> <=> P = {}
  BY <1>5 DEF StartsWithLeast
<1>8. Codecs!ResolveTag(ctx) = IF f = <<>> THEN {} ELSE {f[1].id}
  BY DEF Codecs!ResolveTag, f
<1>9. ASSUME P # {}
      PROVE  \E i \in Claimants(ctx) :
               /\ f[1].id = registrations[i].id
               /\ \A j \in Claimants(ctx) \ {i} : Precedes(TagKey(i, ctx), TagKey(j, ctx))
  <2>1. PICK k \in P : f[1] = g[k] /\ \A j \in P : Precedes(key[k], key[j]) \/ key[k] = key[j]
    BY <1>5, <1>9 DEF StartsWithLeast
  <2>2. s[k] \in Claimants(ctx)
    BY <1>2
  <2>3. f[1].id = registrations[s[k]].id
    BY <2>1 DEF g, Codecs!TagCandidate
  <2>4. ASSUME NEW j \in Claimants(ctx) \ {s[k]}
        PROVE  Precedes(TagKey(s[k], ctx), TagKey(j, ctx))
    <3>1. PICK m \in P : s[m] = j
      BY <1>2
    <3>2. key[k] = TagKey(s[k], ctx) /\ key[m] = TagKey(j, ctx)
      BY <3>1 DEF key
    <3>3. key[k] # key[m]
      BY <3>2, <2>4 DEF TagKey
    <3>4. QED
      BY <2>1, <3>2, <3>3
  <2>5. QED
    BY <2>2, <2>3, <2>4
<1>10. QED
  BY <1>6, <1>7, <1>8, <1>9

\* A tag resolves to its best claim (CodecRegistry!BestClaim).
LEMMA TagsBest ==
  ASSUME CodecInv
  PROVE  Codecs!BestClaim
<1> DEFINE beats(x, y) == \E k \in DOMAIN x : x[k] < y[k] /\ \A j \in 1 .. k - 1 : x[j] = y[j]
           rank(i, ctx) == <<- Codecs!ConfidenceOf(i, ctx), registrations[i].priority, i>>
           winners(ctx) == {j \in Claimants(ctx) :
                              \A k \in Claimants(ctx) \ {j} : beats(rank(j, ctx), rank(k, ctx))}
<1>1. ASSUME NEW ctx \in Contexts
      PROVE  Codecs!ResolveTag(ctx) = {registrations[i].id : i \in winners(ctx)}
  <2>1. \A i \in Claimants(ctx) : TagKey(i, ctx) \in Int \X Int \X Int
    BY ClaimantsIs
  <2>2. \A i \in Claimants(ctx) : rank(i, ctx) = TagKey(i, ctx)
    BY DEF Claimants, TagKey
  <2> HIDE DEF rank
  <2>3. \A x, y \in Int \X Int \X Int : beats(x, y) <=> Precedes(x, y)
    BY PrecedesIs
  <2> HIDE DEF beats
  <2>4. \A i, j \in Claimants(ctx) :
          beats(rank(i, ctx), rank(j, ctx)) <=> Precedes(TagKey(i, ctx), TagKey(j, ctx))
    BY <2>1, <2>2, <2>3
  <2>5. \A x, y \in Int \X Int \X Int : ~ (Precedes(x, y) /\ Precedes(y, x))
    BY DEF Precedes
  <2>6. CASE Claimants(ctx) = {}
    <3>1. winners(ctx) = {}
      BY <2>6
    <3>2. QED
      BY <2>6, <3>1, TagAnswer
  <2>7. CASE Claimants(ctx) # {}
    <3>1. PICK i \in Claimants(ctx) :
            /\ Codecs!ResolveTag(ctx) = {registrations[i].id}
            /\ \A j \in Claimants(ctx) \ {i} : Precedes(TagKey(i, ctx), TagKey(j, ctx))
      BY <2>7, TagAnswer
    <3>2. winners(ctx) = {i}
      BY <2>1, <2>4, <2>5, <3>1
    <3> HIDE DEF winners
    <3>3. QED
      BY <3>1, <3>2
  <2>8. QED
    BY <2>6, <2>7
<1>2. QED
  BY <1>1 DEF Codecs!BestClaim, Claimants

MagicPlaces(p) == {k \in DOMAIN magicIndex : Codecs!IsPrefix(magicIndex[k][1], p)}
MagicKey(k) == <<0 - Len(magicIndex[k][1]), registrations[magicIndex[k][2]].priority,
                 magicIndex[k][2]>>

LEMMA MagicsTyped ==
  ASSUME CodecInv, NEW k \in DOMAIN magicIndex
  PROVE  /\ Len(magicIndex[k][1]) \in Nat /\ magicIndex[k][2] \in DOMAIN registrations
         /\ registrations[magicIndex[k][2]] \in Registered
         /\ magicIndex[k][2] \in Nat /\ k \in Nat
         /\ registrations[magicIndex[k][2]].priority \in Int
<1>1. magicIndex \in Seq(Seq(Nat) \X Nat) /\ registrations \in Seq(Registered)
  BY DEF CodecInv, CodecTypes
<1>2. magicIndex[k] \in Seq(Nat) \X Nat /\ k \in Nat
  BY <1>1
<1>3. magicIndex[k][2] \in DOMAIN registrations
  BY DEF CodecInv, MagicsIndexed
<1>4. registrations[magicIndex[k][2]] \in Registered
  BY <1>1, <1>3
<1>5. registrations[magicIndex[k][2]].priority \in Int
  BY <1>4 DEF Registered
<1>6. QED
  BY <1>2, <1>3, <1>4, <1>5

\* The head of the candidates: a matching magic with the least key.
LEMMA MagicAnswer ==
  ASSUME CodecInv, NEW p
  PROVE  /\ MagicPlaces(p) = {} => Codecs!ResolveMagic(p) = {}
         /\ MagicPlaces(p) # {} =>
              \E k \in MagicPlaces(p) :
                /\ Codecs!MagicCandidates(p)[1] = Codecs!MagicCandidate(k)
                /\ Codecs!ResolveMagic(p) = {registrations[magicIndex[k][2]].id}
                /\ \A j \in MagicPlaces(p) :
                     Precedes(MagicKey(k), MagicKey(j)) \/ MagicKey(k) = MagicKey(j)
<1> DEFINE P == MagicPlaces(p)
           g == [k \in P |-> Codecs!MagicCandidate(k)]
           B == {q \in P \X P : Codecs!MagicBefore(g[q[1]], g[q[2]])}
           key == [k \in P |-> MagicKey(k)]
           f == Codecs!MagicCandidates(p)
<1>1. f = Sorted(P, g, StableBy(P, B))
  <2>1. Entries(P, g) = {<<k, Codecs!MagicCandidate(k)>> : k \in P}
    BY DEF Entries
  <2>2. f = Codecs!StableOrder({<<k, Codecs!MagicCandidate(k)>> : k \in P}, Codecs!MagicBefore)
    BY DEF Codecs!MagicCandidates, MagicPlaces
  <2>3. f = Codecs!StableOrder(Entries(P, g), Codecs!MagicBefore)
    BY <2>1, <2>2
  <2> HIDE DEF g, P
  <2>4. QED
    BY <2>3, MagicsSorted
<1>2. P \in SUBSET DOMAIN magicIndex
  BY DEF MagicPlaces
<1>3. P \in SUBSET Nat /\ IsFiniteSet(P)
  <2>1. magicIndex \in Seq(Seq(Nat) \X Nat)
    BY DEF CodecInv, CodecTypes
  <2>2. DOMAIN magicIndex = 1 .. Len(magicIndex) /\ Len(magicIndex) \in Nat
    BY <2>1
  <2>4. DOMAIN magicIndex \in SUBSET Nat /\ IsFiniteSet(DOMAIN magicIndex)
    BY <2>2, FS_Interval
  <2>3. QED
    BY <1>2, <2>4, FS_Subset
<1>4. key \in [P -> Int \X Int \X Int]
  BY <1>2, MagicsTyped DEF MagicKey
<1>5. ASSUME NEW j \in P, NEW k \in P
      PROVE  <<j, k>> \in B <=> Precedes(key[j], key[k])
  <2> DEFINE a == Len(magicIndex[j][1])
             b == Len(magicIndex[k][1])
             u == magicIndex[j][2]
             v == magicIndex[k][2]
  <2>1. /\ a \in Int /\ b \in Int /\ u \in Int /\ v \in Int
        /\ registrations[u].priority \in Int /\ registrations[v].priority \in Int
    BY <1>2, MagicsTyped
  <2>2. /\ g[j] = [id |-> registrations[u].id, length |-> a,
                   priority |-> registrations[u].priority, order |-> u]
        /\ g[k] = [id |-> registrations[v].id, length |-> b,
                   priority |-> registrations[v].priority, order |-> v]
        /\ key[j] = <<0 - a, registrations[u].priority, u>>
        /\ key[k] = <<0 - b, registrations[v].priority, v>>
    BY DEF Codecs!MagicCandidate, MagicKey
  <2>3. <<j, k>> \in B <=> Codecs!MagicBefore(g[j], g[k])
    OBVIOUS
  <2> HIDE DEF a, b, u, v, g, key, B
  <2>4. QED
    BY <2>1, <2>2, <2>3 DEF Codecs!MagicBefore, Precedes
<1> HIDE DEF P, g, B, key, f
<1>6. StartsWithLeast(f, P, g, key)
  <2>1. KeyedBy(P, key, B)
    BY <1>3, <1>4, <1>5 DEF KeyedBy
  <2>2. QED
    BY <1>1, <2>1, LeastFirst
<1>7. Codecs!ResolveMagic(p) = IF f = <<>> THEN {} ELSE {f[1].id}
  BY DEF Codecs!ResolveMagic, f
<1>8. ASSUME P # {}
      PROVE  \E k \in P : /\ f[1] = Codecs!MagicCandidate(k)
                          /\ f[1].id = registrations[magicIndex[k][2]].id
                          /\ \A j \in P :
                               Precedes(MagicKey(k), MagicKey(j)) \/ MagicKey(k) = MagicKey(j)
  <2>1. PICK k \in P : f[1] = g[k] /\ \A j \in P : Precedes(key[k], key[j]) \/ key[k] = key[j]
    BY <1>6, <1>8 DEF StartsWithLeast
  <2>2. f[1] = Codecs!MagicCandidate(k)
    BY <2>1 DEF g
  <2>3. f[1].id = registrations[magicIndex[k][2]].id
    BY <2>2 DEF Codecs!MagicCandidate
  <2>4. \A j \in P : Precedes(MagicKey(k), MagicKey(j)) \/ MagicKey(k) = MagicKey(j)
    BY <2>1 DEF key
  <2>5. QED
    BY <2>2, <2>3, <2>4
<1>9. f = <<>> <=> P = {}
  BY <1>6 DEF StartsWithLeast
<1>10. QED
  BY <1>7, <1>8, <1>9 DEF P, f

\* The longest matching prefix wins (CodecRegistry!LongestMagic).
LEMMA MagicsBest ==
  ASSUME CodecInv
  PROVE  Codecs!LongestMagic
<1>1. SUFFICES ASSUME NEW p \in Payloads, NEW k \in DOMAIN magicIndex,
                      Codecs!IsPrefix(magicIndex[k][1], p)
               PROVE  LET best == Codecs!MagicCandidates(p)[1]
                      IN  /\ Codecs!ResolveMagic(p) # {}
                          /\ Len(magicIndex[k][1]) <= best.length
                          /\ Len(magicIndex[k][1]) = best.length =>
                               /\ best.priority <= registrations[magicIndex[k][2]].priority
                               /\ best.priority = registrations[magicIndex[k][2]].priority =>
                                    best.order <= magicIndex[k][2]
  BY DEF Codecs!LongestMagic
<1>2. k \in MagicPlaces(p)
  BY <1>1 DEF MagicPlaces
<1>3. PICK m \in MagicPlaces(p) :
        /\ Codecs!MagicCandidates(p)[1] = Codecs!MagicCandidate(m)
        /\ Codecs!ResolveMagic(p) = {registrations[magicIndex[m][2]].id}
        /\ \A j \in MagicPlaces(p) :
             Precedes(MagicKey(m), MagicKey(j)) \/ MagicKey(m) = MagicKey(j)
  BY <1>2, MagicAnswer
<1>4. m \in DOMAIN magicIndex
  BY DEF MagicPlaces
<1> DEFINE a == Len(magicIndex[k][1])
           b == Len(magicIndex[m][1])
           u == magicIndex[k][2]
           v == magicIndex[m][2]
<1>5. /\ a \in Int /\ b \in Int /\ u \in Int /\ v \in Int
      /\ registrations[u].priority \in Int /\ registrations[v].priority \in Int
  BY <1>4, MagicsTyped
<1>6. /\ Codecs!MagicCandidate(m).length = b /\ Codecs!MagicCandidate(m).order = v
      /\ Codecs!MagicCandidate(m).priority = registrations[v].priority
      /\ MagicKey(m) = <<0 - b, registrations[v].priority, v>>
      /\ MagicKey(k) = <<0 - a, registrations[u].priority, u>>
  BY DEF Codecs!MagicCandidate, MagicKey
<1>7. Precedes(MagicKey(m), MagicKey(k)) \/ MagicKey(m) = MagicKey(k)
  BY <1>2, <1>3
<1> HIDE DEF a, b, u, v
<1>8. /\ a <= b
      /\ a = b => /\ registrations[v].priority <= registrations[u].priority
                  /\ registrations[v].priority = registrations[u].priority => v <= u
  BY <1>5, <1>6, <1>7 DEF Precedes
<1>9. QED
  BY <1>3, <1>6, <1>8 DEF a, b, u, v

\* What tags and payloads resolve to, in one formula each.
TagsAnswered ==
  \A ctx \in Contexts :
    /\ \A i \in Claimants(ctx) : TagKey(i, ctx) \in Int \X Int \X Int
    /\ Claimants(ctx) = {} => Codecs!ResolveTag(ctx) = {}
    /\ Claimants(ctx) # {} =>
         \E i \in Claimants(ctx) :
           /\ Codecs!ResolveTag(ctx) = {registrations[i].id}
           /\ \A j \in Claimants(ctx) \ {i} : Precedes(TagKey(i, ctx), TagKey(j, ctx))

MagicsAnswered ==
  \A p \in Payloads :
    /\ \A k \in MagicPlaces(p) : MagicKey(k) \in Int \X Int \X Int
    /\ MagicPlaces(p) = {} => Codecs!ResolveMagic(p) = {}
    /\ MagicPlaces(p) # {} =>
         \E k \in MagicPlaces(p) :
           /\ Codecs!ResolveMagic(p) = {registrations[magicIndex[k][2]].id}
           /\ \A j \in MagicPlaces(p) :
                Precedes(MagicKey(k), MagicKey(j)) \/ MagicKey(k) = MagicKey(j)

LEMMA Answered == CodecInv => TagsAnswered /\ MagicsAnswered
<1>1. CodecInv => TagsAnswered
  BY TagAnswer, ClaimantsIs DEF TagsAnswered
<1>2. ASSUME CodecInv, NEW p, NEW k \in MagicPlaces(p)
      PROVE  MagicKey(k) \in Int \X Int \X Int
  <2>1. k \in DOMAIN magicIndex
    BY DEF MagicPlaces
  <2>2. QED
    BY <1>2, <2>1, MagicsTyped DEF MagicKey
<1>3. CodecInv => MagicsAnswered
  BY <1>2, MagicAnswer DEF MagicsAnswered
<1>4. QED
  BY <1>1, <1>3

LEMMA AnsweredNext == CodecInv' => TagsAnswered' /\ MagicsAnswered'
BY Answered, PTL

\* A registration adds itself to the records and its magics to the index.
LEMMA RecordsGrow ==
  ASSUME CodecInv, NEW info \in Infos, Codecs!Register(info)
  PROVE  \E n \in Nat \ {0} :
           /\ n = Len(registrations') /\ DOMAIN registrations = 1 .. n - 1
           /\ DOMAIN registrations' = 1 .. n
           /\ \A i \in DOMAIN registrations : registrations'[i] = registrations[i]
           /\ registrations'[n] = [id |-> info.id, probe |-> info.probe,
                                  priority |-> info.priority, tags |-> info.tags]
           /\ \A k \in DOMAIN magicIndex : k \in DOMAIN magicIndex' /\ magicIndex'[k] = magicIndex[k]
           /\ \A k \in DOMAIN magicIndex' :
                magicIndex'[k][2] = n \/ (k \in DOMAIN magicIndex /\ magicIndex'[k] = magicIndex[k])
<1> DEFINE n == Len(registrations) + 1
           record == [id |-> info.id, probe |-> info.probe, priority |-> info.priority,
                      tags |-> info.tags]
<1>1. registrations' = Append(registrations, record)
  BY DEF Codecs!Register
<1>2. registrations \in Seq(Registered) /\ magicIndex \in Seq(Seq(Nat) \X Nat)
  BY DEF CodecInv, CodecTypes
<1>3. n \in Nat \ {0}
  BY <1>2
<1>4. record \in Registered
  BY CodecsAssumption DEF Codecs!Info, Registered
<1>5. magicIndex' = magicIndex \o NewMagics(info, n)
  BY DEF Codecs!Register, NewMagics, n
<1> HIDE DEF record
<1>6. /\ Len(registrations') = n /\ DOMAIN registrations' = 1 .. n
      /\ DOMAIN registrations = 1 .. n - 1
      /\ \A i \in DOMAIN registrations : registrations'[i] = registrations[i]
      /\ registrations'[n] = record
  <2>1. /\ registrations' \in Seq(Registered) /\ Len(registrations') = n
        /\ \A i \in DOMAIN registrations : registrations'[i] = registrations[i]
        /\ registrations'[n] = record
        /\ Len(registrations) \in Nat /\ DOMAIN registrations = 1 .. Len(registrations)
    BY <1>1, <1>2, <1>4, Appended
  <2>2. DOMAIN registrations' = 1 .. n /\ Len(registrations) = n - 1
    BY <2>1
  <2>3. QED
    BY <2>1, <2>2
<1> HIDE DEF n
<1>7. /\ NewMagics(info, n) \in Seq(Seq(Nat) \X Nat)
      /\ \A k \in DOMAIN NewMagics(info, n) : NewMagics(info, n)[k][2] = n
  BY <1>3, MagicsAppended
<1>8. \A k \in DOMAIN magicIndex : k \in DOMAIN magicIndex' /\ magicIndex'[k] = magicIndex[k]
  BY <1>2, <1>5, <1>7, Joined
<1>9. \A k \in DOMAIN magicIndex' :
        magicIndex'[k][2] = n \/ (k \in DOMAIN magicIndex /\ magicIndex'[k] = magicIndex[k])
  BY <1>2, <1>5, <1>7, Joined
<1>10. QED
  BY <1>3, <1>6, <1>8, <1>9 DEF record

\* A tag's answer changes only to the newcomer, and a newcomer that repeats a
\* registration changes none.
LEMMA TagNewcomer ==
  ASSUME CodecInv, CodecInv', NEW info \in Infos, Codecs!Register(info), NEW ctx \in Contexts,
         Codecs!ResolveTag(ctx)' # Codecs!ResolveTag(ctx)
  PROVE  LET new == registrations'[Len(registrations')]
         IN  /\ Codecs!ResolveTag(ctx)' = {new.id}
             /\ new \notin Codecs!ToSet(registrations)
<1>1. PICK n \in Nat \ {0} :
        /\ n = Len(registrations') /\ DOMAIN registrations = 1 .. n - 1
        /\ DOMAIN registrations' = 1 .. n
        /\ \A i \in DOMAIN registrations : registrations'[i] = registrations[i]
  BY RecordsGrow
<1> DEFINE C == Claimants(ctx)
           D == Claimants(ctx)'
           key(i) == TagKey(i, ctx)
           next(i) == TagKey(i, ctx)'
           new == registrations'[n]
<1>2. \A i \in DOMAIN registrations : (i \in D <=> i \in C) /\ next(i) = key(i)
  BY <1>1 DEF Claimants, TagKey, Codecs!ConfidenceOf
<1>3. C \subseteq DOMAIN registrations /\ D \subseteq DOMAIN registrations'
  BY DEF Claimants
<1>4. DOMAIN registrations' = DOMAIN registrations \union {n} /\ n \notin DOMAIN registrations
  BY <1>1
<1>5. C \subseteq D /\ D \subseteq C \union {n}
  BY <1>2, <1>3, <1>4
<1>6. /\ \A i \in D : next(i) \in Int \X Int \X Int
      /\ D = {} => Codecs!ResolveTag(ctx)' = {}
      /\ D # {} => \E i \in D : /\ Codecs!ResolveTag(ctx)' = {registrations'[i].id}
                               /\ \A j \in D \ {i} : Precedes(next(i), next(j))
  BY AnsweredNext DEF TagsAnswered, Precedes
<1>7. /\ C = {} => Codecs!ResolveTag(ctx) = {}
      /\ C # {} => \E i \in C : /\ Codecs!ResolveTag(ctx) = {registrations[i].id}
                               /\ \A j \in C \ {i} : Precedes(key(i), key(j))
  BY Answered DEF TagsAnswered
<1>8. \A x, y \in Int \X Int \X Int : ~ (Precedes(x, y) /\ Precedes(y, x))
  BY DEF Precedes
<1> HIDE DEF C, D, key, next
<1>9. D # {}
  BY <1>2, <1>3, <1>4, <1>5, <1>6, <1>7
<1>10. PICK i \in D : /\ Codecs!ResolveTag(ctx)' = {registrations'[i].id}
                      /\ \A j \in D \ {i} : Precedes(next(i), next(j))
  BY <1>6, <1>9
<1>11. i = n
  <2>1. SUFFICES ASSUME i # n PROVE FALSE
    OBVIOUS
  <2>2. i \in C /\ i \in DOMAIN registrations
    BY <1>3, <1>5, <2>1
  <2>3. PICK k \in C : /\ Codecs!ResolveTag(ctx) = {registrations[k].id}
                       /\ \A j \in C \ {k} : Precedes(key(k), key(j))
    BY <1>7, <2>2
  <2>4. k \in DOMAIN registrations /\ k \in D
    BY <1>3, <1>5
  <2>5. k = i
    <3>1. SUFFICES ASSUME k # i PROVE FALSE
      OBVIOUS
    <3>2. Precedes(next(i), next(k)) /\ Precedes(key(k), key(i))
      BY <1>10, <2>2, <2>3, <2>4, <3>1
    <3>3. next(k) = key(k) /\ next(i) = key(i)
      BY <1>2, <2>2, <2>4
    <3>4. QED
      BY <1>6, <1>8, <2>4, <3>2, <3>3
  <2>6. QED
    BY <1>1, <1>10, <2>2, <2>3, <2>5
<1>12. new \notin Codecs!ToSet(registrations)
  <2>1. SUFFICES ASSUME NEW k \in DOMAIN registrations, registrations[k] = new PROVE FALSE
    BY DEF Codecs!ToSet
  <2>2. registrations'[k] = new /\ k # n /\ k \in Int /\ k < n /\ k \in DOMAIN registrations'
    BY <1>1, <1>4, <2>1
  <2>3. k \in D
    BY <1>11, <2>1, <2>2 DEF D, Claimants, Codecs!ConfidenceOf
  <2>4. Precedes(next(n), next(k))
    BY <1>10, <1>11, <2>2, <2>3
  <2>5. /\ next(k)[1] = next(n)[1] /\ next(k)[2] = next(n)[2]
        /\ next(k)[3] = k /\ next(n)[3] = n
    BY <2>2 DEF next, TagKey, Codecs!ConfidenceOf
  <2>6. next(n) \in Int \X Int \X Int
    BY <1>6, <1>10, <1>11
  <2>7. next(n)[1] \in Int /\ next(n)[2] \in Int
    BY <2>6
  <2>8. QED
    BY <2>2, <2>4, <2>5, <2>7 DEF Precedes
<1>13. QED
  BY <1>1, <1>10, <1>11, <1>12

\* The same of a payload's answer.
LEMMA MagicNewcomer ==
  ASSUME CodecInv, CodecInv', NEW info \in Infos, Codecs!Register(info), NEW p \in Payloads,
         Codecs!ResolveMagic(p)' # Codecs!ResolveMagic(p)
  PROVE  Codecs!ResolveMagic(p)' = {registrations'[Len(registrations')].id}
<1>1. PICK n \in Nat \ {0} :
        /\ n = Len(registrations')
        /\ \A i \in DOMAIN registrations : registrations'[i] = registrations[i]
        /\ \A k \in DOMAIN magicIndex : k \in DOMAIN magicIndex' /\ magicIndex'[k] = magicIndex[k]
        /\ \A k \in DOMAIN magicIndex' :
             magicIndex'[k][2] = n \/ (k \in DOMAIN magicIndex /\ magicIndex'[k] = magicIndex[k])
  BY RecordsGrow
<1> DEFINE M == MagicPlaces(p)
           N == MagicPlaces(p)'
           key(k) == MagicKey(k)
           next(k) == MagicKey(k)'
<1>2. M \subseteq DOMAIN magicIndex /\ N \subseteq DOMAIN magicIndex' /\ M \subseteq N
  BY <1>1 DEF MagicPlaces
<1>3. \A k \in N : magicIndex'[k][2] = n \/ (k \in M /\ magicIndex'[k] = magicIndex[k])
  BY <1>1 DEF MagicPlaces
<1>4. \A k \in M : /\ magicIndex'[k] = magicIndex[k]
                   /\ registrations'[magicIndex[k][2]] = registrations[magicIndex[k][2]]
  BY <1>1, <1>2 DEF CodecInv, MagicsIndexed
<1>5. \A k \in M : next(k) = key(k)
  BY <1>4 DEF MagicKey
<1>6. /\ \A k \in N : next(k) \in Int \X Int \X Int
      /\ N = {} => Codecs!ResolveMagic(p)' = {}
      /\ N # {} => \E k \in N :
                     /\ Codecs!ResolveMagic(p)' = {registrations'[magicIndex'[k][2]].id}
                     /\ \A j \in N : Precedes(next(k), next(j)) \/ next(k) = next(j)
  BY AnsweredNext DEF MagicsAnswered, Precedes
<1>7. /\ M = {} => Codecs!ResolveMagic(p) = {}
      /\ M # {} => \E k \in M :
                     /\ Codecs!ResolveMagic(p) = {registrations[magicIndex[k][2]].id}
                     /\ \A j \in M : Precedes(key(k), key(j)) \/ key(k) = key(j)
  BY Answered DEF MagicsAnswered
<1>8. \A x, y \in Int \X Int \X Int : ~ (Precedes(x, y) /\ Precedes(y, x))
  BY DEF Precedes
<1>9. \A j, k : key(j) = key(k) => magicIndex[j][2] = magicIndex[k][2]
  BY DEF MagicKey
<1> HIDE DEF M, N, key, next
<1>10. N # {}
  BY <1>2, <1>6, <1>7
<1>11. PICK k \in N : /\ Codecs!ResolveMagic(p)' = {registrations'[magicIndex'[k][2]].id}
                      /\ \A j \in N : Precedes(next(k), next(j)) \/ next(k) = next(j)
  BY <1>6, <1>10
<1>12. magicIndex'[k][2] = n
  <2>1. SUFFICES ASSUME magicIndex'[k][2] # n PROVE FALSE
    OBVIOUS
  <2>2. k \in M
    BY <1>3, <2>1
  <2>3. PICK j \in M : /\ Codecs!ResolveMagic(p) = {registrations[magicIndex[j][2]].id}
                       /\ \A i \in M : Precedes(key(j), key(i)) \/ key(j) = key(i)
    BY <1>7, <2>2
  <2>4. j \in N /\ next(j) = key(j) /\ next(k) = key(k)
    BY <1>2, <1>5, <2>2
  <2>5. Precedes(key(j), key(k)) \/ key(j) = key(k)
    BY <2>2, <2>3
  <2>6. Precedes(key(k), key(j)) \/ key(k) = key(j)
    BY <1>11, <2>4
  <2>7. key(j) \in Int \X Int \X Int /\ key(k) \in Int \X Int \X Int
    BY <1>6, <2>4
  <2>8. key(j) = key(k)
    BY <1>8, <2>5, <2>6, <2>7
  <2>9. magicIndex[j][2] = magicIndex[k][2]
    BY <1>9, <2>8
  <2>10. Codecs!ResolveMagic(p)' = {registrations[magicIndex[k][2]].id}
    BY <1>4, <1>11, <2>2
  <2>11. QED
    BY <2>3, <2>9, <2>10
<1>13. QED
  BY <1>1, <1>11, <1>12

\* A registration changes an answer only in its own favour.
Newcomer ==
  LET new == registrations'[Len(registrations')]
  IN  /\ \A ctx \in Contexts :
           Codecs!ResolveTag(ctx)' # Codecs!ResolveTag(ctx) =>
             Codecs!ResolveTag(ctx)' = {new.id} /\ new \notin Codecs!ToSet(registrations)
      /\ \A p \in Payloads :
           Codecs!ResolveMagic(p)' # Codecs!ResolveMagic(p) =>
             Codecs!ResolveMagic(p)' = {new.id}

LEMMA FirstIs ==
  ASSUME CodecInv, NEW id \in Ids, NEW P \in SUBSET DOMAIN impls[id]
  PROVE  /\ P = {} => Codecs!FirstOf(id, P) = {}
         /\ P # {} => \E k \in P : /\ Codecs!FirstOf(id, P) = {impls[id][k]}
                                  /\ \A m \in P : k <= m
<1>1. P \in SUBSET Nat
  BY ImplementationTyped
<1>2. Codecs!FirstOf(id, P) = {impls[id][k] : k \in {n \in P : \A m \in P : n <= m}}
  BY DEF Codecs!FirstOf, Codecs!Implementations
<1>3. ASSUME P # {}
      PROVE  \E k \in P : Codecs!FirstOf(id, P) = {impls[id][k]} /\ \A m \in P : k <= m
  <2>1. PICK k \in P : \A m \in P : k <= m
    BY <1>1, <1>3, LeastOf
  <2>4. \A m \in P : m \in Int
    BY <1>1
  <2>2. {n \in P : \A m \in P : n <= m} = {k}
    BY <2>1, <2>4
  <2>3. QED
    BY <1>2, <2>1, <2>2
<1>4. QED
  BY <1>2, <1>3

\* An id is listed for a role, once, exactly when something opens in it, and
\* its options never go unlisted.
LEMMA RolesListed ==
  ASSUME CodecInv, NEW role \in Codecs!Roles
  PROVE  /\ Codecs!IsInjective(Codecs!IdsWith(role))
         /\ \A id \in Ids :
              /\ id \in Codecs!ToSet(Codecs!IdsWith(role)) <=> Codecs!OpenFirst(role, id) # {}
              /\ \A i \in Codecs!OpenFirst(role, id) :
                   role \in i.schemas => \E j \in Codecs!SchemaOf(role, id) : j.by <= i.by
<1> DEFINE P == {n \in DOMAIN implOrder : Codecs!Has(role, implOrder[n])}
           f == Codecs!IdsWith(role)
<1>1. /\ DOMAIN implOrder \in SUBSET Nat /\ IsFiniteSet(DOMAIN implOrder)
      /\ \A n \in DOMAIN implOrder : implOrder[n] \in Ids
  <2>1. /\ DOMAIN implOrder = 1 .. Len(implOrder) /\ Len(implOrder) \in Nat
        /\ \A n \in DOMAIN implOrder : implOrder[n] \in Ids
    BY DEF CodecInv, ImplementationsListed
  <2>2. QED
    BY <2>1, FS_Interval
<1>2. P \in SUBSET Nat /\ IsFiniteSet(P)
  BY <1>1, FS_Subset
<1>3. f = Codecs!Kept(Entries(P, implOrder))
  BY DEF Codecs!IdsWith, Entries
<1> HIDE DEF f
<1>4. IsSort(f, P, implOrder, Earlier(P))
  BY <1>2, <1>3, KeptIs
<1>5. Codecs!IsInjective(f)
  <2>1. ASSUME NEW n \in DOMAIN f, NEW m \in DOMAIN f, n # m PROVE f[n] # f[m]
    <3>1. PICK j \in P, k \in P : j # k /\ f[n] = implOrder[j] /\ f[m] = implOrder[k]
      BY <1>4, <2>1 DEF IsSort
    <3>2. QED
      BY <3>1 DEF CodecInv, ImplementationsListed
  <2>2. QED
    BY <2>1 DEF Codecs!IsInjective
<1>6. Codecs!ToSet(f) = {implOrder[k] : k \in P}
  BY <1>4 DEF IsSort, Codecs!ToSet
<1>7. ASSUME NEW id \in Ids
      PROVE  id \in Codecs!ToSet(f) <=> Codecs!OpenFirst(role, id) # {}
  <2> DEFINE S == Codecs!Serving(role, id)
  <2>1. S \in SUBSET DOMAIN impls[id] /\ (Codecs!Has(role, id) <=> S # {})
    BY DEF Codecs!Serving, Codecs!Implementations, Codecs!Has
  <2>2. Codecs!OpenFirst(role, id) # {} <=> S # {}
    BY <2>1, FirstIs DEF Codecs!OpenFirst
  <2>3. S # {} => id \in Values(implOrder)
    <3>1. impls[id] = <<>> => S = {}
      BY <2>1
    <3>2. QED
      BY <3>1 DEF CodecInv, ImplementationsListed
  <2>4. id \in Codecs!ToSet(f) <=> id \in Values(implOrder) /\ Codecs!Has(role, id)
    BY <1>6 DEF Values
  <2>5. QED
    BY <2>1, <2>2, <2>3, <2>4
<1>8. ASSUME NEW id \in Ids, NEW i \in Codecs!OpenFirst(role, id), role \in i.schemas
      PROVE  \E j \in Codecs!SchemaOf(role, id) : j.by <= i.by
  <2> DEFINE S == Codecs!Serving(role, id)
             T == {k \in DOMAIN impls[id] : role \in impls[id][k].schemas}
  <2>1. S \in SUBSET DOMAIN impls[id] /\ T \in SUBSET DOMAIN impls[id]
    BY DEF Codecs!Serving, Codecs!Implementations
  <2>2. PICK k \in S : i = impls[id][k]
    BY <2>1, FirstIs DEF Codecs!OpenFirst
  <2>3. k \in T
    BY <1>8, <2>1, <2>2
  <2>4. Codecs!SchemaOf(role, id) = Codecs!FirstOf(id, T)
    BY DEF Codecs!SchemaOf, Codecs!Implementations
  <2> HIDE DEF S, T
  <2>5. PICK m \in T : Codecs!FirstOf(id, T) = {impls[id][m]} /\ \A n \in T : m <= n
    BY <2>1, <2>3, FirstIs
  <2>6. m <= k /\ m \in DOMAIN impls[id] /\ k \in DOMAIN impls[id]
    BY <2>1, <2>3, <2>5
  <2>7. /\ impls[id][m].by \in Nat /\ impls[id][k].by \in Nat /\ m \in Nat /\ k \in Nat
        /\ DOMAIN impls[id] = 1 .. Len(impls[id])
    BY <2>6, ImplementationTyped
  <2>8. m # k => impls[id][m].by < impls[id][k].by
    BY <2>6, <2>7 DEF CodecInv, ImplementationsListed
  <2>9. impls[id][m].by <= i.by
    BY <2>2, <2>7, <2>8
  <2>10. QED
    BY <2>4, <2>5, <2>9
<1>9. QED
  BY <1>5, <1>7, <1>8 DEF f

LEMMA OldestOnly ==
  ASSUME CodecInv, NEW id \in Ids,
         NEW j \in DOMAIN impls[id], NEW k \in DOMAIN impls[id], impls[id][j] = impls[id][k]
  PROVE  j = k
<1>1. /\ j \in Nat /\ k \in Nat /\ DOMAIN impls[id] = 1 .. Len(impls[id])
      /\ impls[id][j].by \in Nat /\ impls[id][k].by \in Nat
  BY ImplementationTyped
<1>2. /\ j < k => impls[id][j].by < impls[id][k].by
      /\ k < j => impls[id][k].by < impls[id][j].by
  BY <1>1 DEF CodecInv, ImplementationsListed
<1>3. QED
  BY <1>1, <1>2

\* Every implementation opens by its name unless an older one took it.
LEMMA NamedOpens ==
  ASSUME CodecInv, NEW id \in Ids, NEW k \in DOMAIN impls[id],
         NEW role \in Codecs!Roles
  PROVE  Codecs!OpenNamed(role, id, impls[id][k].name) = {impls[id][k]} <=>
           role \in impls[id][k].factories
             /\ \A j \in 1 .. k - 1 : impls[id][j].name # impls[id][k].name
<1> DEFINE s == impls[id]
           P == {m \in DOMAIN s : s[m].name = s[k].name}
<1>1. P \in SUBSET DOMAIN s /\ k \in P /\ P = Codecs!Called(id, s[k].name)
  BY DEF Codecs!Called, Codecs!Implementations
<1>2. DOMAIN s = 1 .. Len(s) /\ Len(s) \in Nat /\ k \in Nat
  BY ImplementationTyped
<1>3. PICK m \in P : Codecs!FirstOf(id, P) = {s[m]} /\ \A n \in P : m <= n
  BY <1>1, FirstIs
<1>4. Codecs!OpenNamed(role, id, s[k].name) = {i \in {s[m]} : role \in i.factories}
  BY <1>1, <1>3 DEF Codecs!OpenNamed
<1>5. m \in DOMAIN s /\ s[m].name = s[k].name /\ m <= k /\ m \in Nat
  BY <1>1, <1>2, <1>3
<1>6. (\A j \in 1 .. k - 1 : s[j].name # s[k].name) <=> m = k
  <2>1. ASSUME m # k PROVE \E j \in 1 .. k - 1 : s[j].name = s[k].name
    <3>1. m \in 1 .. k - 1
      BY <1>2, <1>5, <2>1
    <3>2. QED
      BY <1>5, <3>1
  <2>2. ASSUME m = k, NEW j \in 1 .. k - 1, s[j].name = s[k].name PROVE FALSE
    <3>1. j \in P /\ ~ (k <= j)
      BY <1>2, <2>2
    <3>2. QED
      BY <1>3, <2>2, <3>1
  <2>3. QED
    BY <2>1, <2>2
<1>7. s[m] = s[k] => m = k
  BY <1>5, OldestOnly
<1> HIDE DEF s, P
<1>8. Codecs!OpenNamed(role, id, s[k].name) = {s[k]} <=> role \in s[k].factories /\ m = k
  BY <1>4, <1>7
<1>9. QED
  BY <1>6, <1>8 DEF s

\* Every implementation is in the listing of all, once.
LEMMA ImplementationOnce ==
  ASSUME CodecInv, NEW id \in Ids, NEW k \in DOMAIN impls[id]
  PROVE  Codecs!Cardinality({n \in DOMAIN Codecs!AllImplementations :
                               Codecs!AllImplementations[n] = <<id, impls[id][k]>>}) = 1
<1> DEFINE D == DOMAIN implOrder
           K == [j \in D |-> DOMAIN impls[implOrder[j]]]
           P == Pairs(D, K)
           g == [q \in P |-> <<implOrder[q[1]], impls[implOrder[q[1]]][q[2]]>>]
           f == Codecs!AllImplementations
<1>1. /\ D \in SUBSET Nat /\ IsFiniteSet(D)
      /\ \A n \in D : implOrder[n] \in Ids
  <2>1. /\ D = 1 .. Len(implOrder) /\ Len(implOrder) \in Nat
        /\ \A n \in D : implOrder[n] \in Ids
    BY DEF CodecInv, ImplementationsListed
  <2>2. QED
    BY <2>1, FS_Interval
<1>2. ASSUME NEW j \in D PROVE K[j] \in SUBSET Nat /\ IsFiniteSet(K[j])
  <2>1. K[j] = 1 .. Len(impls[implOrder[j]]) /\ Len(impls[implOrder[j]]) \in Nat
    BY <1>1, ImplementationTyped
  <2>2. QED
    BY <2>1, PlacesFinite
<1>3. /\ \A q \in P : q[1] \in D /\ q[2] \in K[q[1]] /\ q = <<q[1], q[2]>>
      /\ \A j \in D : \A m \in K[j] : <<j, m>> \in P
  BY <1>1, <1>2, PairsAre
<1>4. f = Codecs!Flattened(Entries(P, g))
  <2> DEFINE cell(j, m) == <<<<j, m>>, <<implOrder[j], impls[implOrder[j]][m]>>>>
             row(j) == {cell(j, m) : m \in DOMAIN impls[implOrder[j]]}
             E == UNION {row(j) : j \in D}
  <2>1. f = Codecs!Flattened(E)
    BY DEF Codecs!AllImplementations
  <2>2. \A j \in D : \A m \in K[j] : <<<<j, m>>, g[<<j, m>>]>> = cell(j, m)
    BY <1>3
  <2>3. \A j \in D : K[j] = DOMAIN impls[implOrder[j]]
    OBVIOUS
  <2> HIDE DEF K, P, g, cell
  <2>4. \A x : x \in E <=> \E j \in D : \E m \in K[j] : x = cell(j, m)
    BY <2>3
  <2> HIDE DEF E
  <2>5. \A x : x \in Entries(P, g) <=> \E q \in P : x = <<q, g[q]>>
    BY DEF Entries
  <2>6. \A x : x \in Entries(P, g) => x \in E
    BY <1>3, <2>2, <2>4, <2>5
  <2>7. ASSUME NEW x \in E PROVE x \in Entries(P, g)
    <3>4. PICK j \in D : \E m \in K[j] : x = cell(j, m)
      BY <2>4
    <3>1. PICK m \in K[j] : x = cell(j, m)
      BY <3>4
    <3>2. <<j, m>> \in P /\ x = <<<<j, m>>, g[<<j, m>>]>>
      BY <1>3, <2>2, <3>1
    <3>3. QED
      BY <2>5, <3>2
  <2>8. E = Entries(P, g)
    BY <2>6, <2>7
  <2>9. QED
    BY <2>1, <2>8
<1> HIDE DEF f
<1>5. IsSort(f, P, g, Lexicographic(P))
  BY <1>1, <1>2, <1>4, ListingIs
<1>6. PICK j \in D : implOrder[j] = id
  <2>1. impls[id] # <<>>
    <3>1. DOMAIN <<>> = {}
      OBVIOUS
    <3>2. QED
      BY <3>1
  <2>2. QED
    BY <2>1 DEF CodecInv, ImplementationsListed, Values
<1> DEFINE entry == <<id, impls[id][k]>>
<1>7. <<j, k>> \in P /\ g[<<j, k>>] = entry
  BY <1>3, <1>6
<1>8. ASSUME NEW q \in P, g[q] = entry PROVE q = <<j, k>>
  <2>1. q[1] \in D /\ q[2] \in K[q[1]] /\ q = <<q[1], q[2]>>
    BY <1>3
  <2>2. implOrder[q[1]] = id /\ impls[implOrder[q[1]]][q[2]] = impls[id][k]
    BY <1>8
  <2>3. q[1] = j
    BY <1>6, <2>1, <2>2 DEF CodecInv, ImplementationsListed
  <2>4. q[2] \in DOMAIN impls[id] /\ impls[id][q[2]] = impls[id][k]
    BY <2>1, <2>2
  <2>5. q[2] = k
    BY <2>4, OldestOnly
  <2>6. QED
    BY <2>1, <2>3, <2>5
<1> HIDE DEF P, g, entry
<1>9. PICK n \in DOMAIN f : f[n] = entry
  BY <1>5, <1>7 DEF IsSort
<1>10. ASSUME NEW m \in DOMAIN f, f[m] = entry, m # n PROVE FALSE
  <2>1. PICK a \in P, b \in P : a # b /\ f[n] = g[a] /\ f[m] = g[b]
    BY <1>5, <1>10 DEF IsSort
  <2>2. QED
    BY <1>8, <1>9, <1>10, <2>1
<1>11. {m \in DOMAIN f : f[m] = entry} = {n}
  BY <1>9, <1>10
<1>12. Cardinality({m \in DOMAIN f : f[m] = entry}) = 1
  BY <1>11, FS_Singleton
<1>13. \A X : Codecs!Cardinality(X) = Cardinality(X)
  BY DEF Codecs!Cardinality, Cardinality
<1>14. QED
  BY <1>12, <1>13 DEF f, entry

\* Every claim of a registration is in the listing of tags.
LEMMA TagListed ==
  ASSUME CodecInv, NEW j \in DOMAIN registrations, NEW k \in DOMAIN registrations[j].tags
  PROVE  <<registrations[j].tags[k], registrations[j].id>>
           \in Codecs!ToSet(Codecs!AllTagRegistrations)
<1> DEFINE D == DOMAIN registrations
           K == [i \in D |-> DOMAIN registrations[i].tags]
           P == Pairs(D, K)
           g == [q \in P |-> <<registrations[q[1]].tags[q[2]], registrations[q[1]].id>>]
           f == Codecs!AllTagRegistrations
<1>1. /\ D \in SUBSET Nat /\ IsFiniteSet(D) /\ \A i \in D : registrations[i] \in Registered
  <2>1. /\ D = 1 .. Len(registrations) /\ Len(registrations) \in Nat
        /\ \A i \in D : registrations[i] \in Registered
    BY DEF CodecInv, CodecTypes
  <2>2. QED
    BY <2>1, FS_Interval
<1>2. ASSUME NEW i \in D PROVE K[i] \in SUBSET Nat /\ IsFiniteSet(K[i])
  <2>1. registrations[i].tags \in Seq(ClaimTags)
    BY <1>1 DEF Registered
  <2>2. K[i] = 1 .. Len(registrations[i].tags) /\ Len(registrations[i].tags) \in Nat
    BY <2>1
  <2>3. QED
    BY <2>2, PlacesFinite
<1>3. /\ \A q \in P : q[1] \in D /\ q[2] \in K[q[1]] /\ q = <<q[1], q[2]>>
      /\ \A i \in D : \A m \in K[i] : <<i, m>> \in P
  BY <1>1, <1>2, PairsAre
<1>4. f = Codecs!Flattened(Entries(P, g))
  <2> DEFINE cell(i, m) == <<<<i, m>>, <<registrations[i].tags[m], registrations[i].id>>>>
             row(i) == {cell(i, m) : m \in DOMAIN registrations[i].tags}
             E == UNION {row(i) : i \in D}
  <2>1. f = Codecs!Flattened(E)
    BY DEF Codecs!AllTagRegistrations
  <2>2. \A i \in D : \A m \in K[i] : <<<<i, m>>, g[<<i, m>>]>> = cell(i, m)
    BY <1>3
  <2>3. \A i \in D : K[i] = DOMAIN registrations[i].tags
    OBVIOUS
  <2> HIDE DEF K, P, g, cell
  <2>4. \A x : x \in E <=> \E i \in D : \E m \in K[i] : x = cell(i, m)
    BY <2>3
  <2> HIDE DEF E
  <2>5. \A x : x \in Entries(P, g) <=> \E q \in P : x = <<q, g[q]>>
    BY DEF Entries
  <2>6. \A x : x \in Entries(P, g) => x \in E
    BY <1>3, <2>2, <2>4, <2>5
  <2>7. ASSUME NEW x \in E PROVE x \in Entries(P, g)
    <3>4. PICK i \in D : \E m \in K[i] : x = cell(i, m)
      BY <2>4
    <3>1. PICK m \in K[i] : x = cell(i, m)
      BY <3>4
    <3>2. <<i, m>> \in P /\ x = <<<<i, m>>, g[<<i, m>>]>>
      BY <1>3, <2>2, <3>1
    <3>3. QED
      BY <2>5, <3>2
  <2>8. E = Entries(P, g)
    BY <2>6, <2>7
  <2>9. QED
    BY <2>1, <2>8
<1> HIDE DEF f
<1>5. IsSort(f, P, g, Lexicographic(P))
  BY <1>1, <1>2, <1>4, ListingIs
<1>6. <<j, k>> \in P /\ g[<<j, k>>] = <<registrations[j].tags[k], registrations[j].id>>
  BY <1>3
<1> DEFINE entry == <<registrations[j].tags[k], registrations[j].id>>
<1> HIDE DEF P, g, entry
<1>7. PICK n \in DOMAIN f : f[n] = entry
  <2>1. <<j, k>> \in P /\ g[<<j, k>>] = entry
    BY <1>6 DEF entry
  <2>2. QED
    BY <1>5, <2>1 DEF IsSort
<1>8. QED
  BY <1>7 DEF Codecs!ToSet, f, entry

\* The listings and the answers agree (CodecRegistry!ListedCodecsOpen).
LEMMA CodecsListed ==
  ASSUME CodecInv
  PROVE  Codecs!ListedCodecsOpen
<1>1. ASSUME NEW ctx \in Contexts, NEW id \in Codecs!ResolveTag(ctx)
      PROVE  <<ctx.tag, id>> \in Codecs!ToSet(Codecs!AllTagRegistrations)
  <2>1. PICK i \in Claimants(ctx) : id = registrations[i].id
    BY <1>1, TagAnswer
  <2>2. i \in DOMAIN registrations /\ ctx.tag \in Codecs!ToSet(registrations[i].tags)
    BY DEF Claimants
  <2>3. PICK k \in DOMAIN registrations[i].tags : registrations[i].tags[k] = ctx.tag
    BY <2>2 DEF Codecs!ToSet
  <2>4. QED
    BY <2>1, <2>2, <2>3, TagListed
<1>2. ASSUME NEW p \in Payloads, NEW id \in Codecs!ResolveMagic(p)
      PROVE  \E c \in Codecs!ToSet(Codecs!AllMagicRegistrations) :
               Codecs!IsPrefix(c[1], p) /\ c[2] = id
  <2>1. PICK k \in MagicPlaces(p) : id = registrations[magicIndex[k][2]].id
    BY <1>2, MagicAnswer
  <2>2. k \in DOMAIN magicIndex /\ Codecs!IsPrefix(magicIndex[k][1], p)
    BY DEF MagicPlaces
  <2> DEFINE c == <<magicIndex[k][1], registrations[magicIndex[k][2]].id>>
  <2>3. c \in Codecs!ToSet(Codecs!AllMagicRegistrations)
    BY <2>2 DEF Codecs!ToSet, Codecs!AllMagicRegistrations
  <2>4. c[1] = magicIndex[k][1] /\ c[2] = id
    BY <2>1
  <2> HIDE DEF c
  <2>5. QED
    BY <2>2, <2>3, <2>4
<1>3. ASSUME NEW id \in Ids, NEW k \in DOMAIN impls[id]
      PROVE  LET i == impls[id][k]
             IN  /\ Codecs!Cardinality({n \in DOMAIN Codecs!AllImplementations :
                       Codecs!AllImplementations[n] = <<id, i>>}) = 1
                 /\ \A role \in Codecs!Roles :
                      Codecs!OpenNamed(role, id, i.name) = {i} <=>
                        role \in i.factories /\ \A j \in 1 .. k - 1 : impls[id][j].name # i.name
  BY ImplementationOnce, NamedOpens
<1>4. QED
  BY <1>1, <1>2, <1>3, RolesListed DEF Codecs!ListedCodecsOpen

-----------------------------------------------------------------------------
(* The container registry.                                                 *)

Opened == [name : Names, open : Factories]
Probing == [name : Names, probe : Probes, priority : Priorities]

OncePerName(table) ==
  \A i, j \in DOMAIN table : table[i].name = table[j].name => i = j

Claim == [container : Names, priority : Int, order : Nat]

\* The claims of an extension are in the order they were made.
ExtensionsOrdered ==
  /\ extensionSeq \in Nat /\ extensions \in [Extensions -> Seq(Claim)]
  /\ \A e \in Extensions : \A k \in DOMAIN extensions[e] :
       /\ extensions[e][k].order < extensionSeq
       /\ \A j \in 1 .. k - 1 : extensions[e][j].order < extensions[e][k].order

LEMMA ClaimTyped ==
  ASSUME NEW claims \in Seq(Claim), NEW k \in DOMAIN claims
  PROVE  claims[k].priority \in Int /\ claims[k].order \in Nat /\ k \in Nat
<1>1. claims[k] \in Claim /\ k \in Nat
  OBVIOUS
<1>2. QED
  BY <1>1 DEF Claim

\* Every table has one entry per name, and claims are in order.
ContainerInv ==
  /\ demuxers \in Seq(Opened) /\ OncePerName(demuxers)
  /\ muxers \in Seq(Opened) /\ OncePerName(muxers)
  /\ probes \in Seq(Probing) /\ OncePerName(probes)
  /\ ExtensionsOrdered

LEMMA PrefixIs ==
  ASSUME NEW S, NEW s \in Seq(S), NEW t \in Seq(S), Len(s) <= Len(t),
         \A k \in DOMAIN s : t[k] = s[k]
  PROVE  Containers!IsPrefix(s, t)
<1>1. /\ SubSeq(s, 1, Len(s)) = [k \in 1 .. Len(s) |-> s[k]]
      /\ SubSeq(t, 1, Len(s)) = [k \in 1 .. Len(s) |-> t[k]]
  OBVIOUS
<1>2. DOMAIN s = 1 .. Len(s)
  OBVIOUS
<1>3. QED
  BY <1>1, <1>2 DEF Containers!IsPrefix

\* An entry replaces the one of its name or joins at the end: the names before
\* keep their places, and none is there twice.
LEMMA ReplaceIs ==
  ASSUME NEW S, NEW table \in Seq(S), NEW entry \in S, OncePerName(table)
  PROVE  /\ Containers!Replace(table, entry) \in Seq(S)
         /\ OncePerName(Containers!Replace(table, entry))
         /\ Containers!IsPrefix(Containers!NameOrder(table),
                                Containers!NameOrder(Containers!Replace(table, entry)))
<1> DEFINE new == Containers!Replace(table, entry)
           T == {e.name : e \in S}
<1>1. DOMAIN table = 1 .. Len(table) /\ Len(table) \in Nat /\ \A i \in DOMAIN table : table[i] \in S
  OBVIOUS
<1>2. /\ new \in Seq(S) /\ Len(table) <= Len(new)
      /\ \A i \in DOMAIN table : new[i].name = table[i].name
      /\ OncePerName(new)
  <2>1. CASE entry.name \in Containers!Named(table)
    <3>1. new = [i \in DOMAIN table |-> IF table[i].name = entry.name THEN entry ELSE table[i]]
      BY <2>1 DEF Containers!Replace
    <3>2. new \in Seq(S) /\ Len(new) = Len(table) /\ DOMAIN new = DOMAIN table
      BY <1>1, <3>1
    <3>3. \A i \in DOMAIN table : new[i].name = table[i].name
      BY <3>1
    <3>4. QED
      BY <3>2, <3>3 DEF OncePerName
  <2>2. CASE entry.name \notin Containers!Named(table)
    <3>1. new = Append(table, entry)
      BY <2>2 DEF Containers!Replace
    <3>2. \A i \in DOMAIN table : table[i].name # entry.name
      BY <2>2 DEF Containers!Named
    <3>3. /\ new \in Seq(S) /\ Len(new) = Len(table) + 1
          /\ DOMAIN new = DOMAIN table \union {Len(table) + 1}
          /\ \A i \in DOMAIN table : new[i] = table[i]
          /\ new[Len(table) + 1] = entry
      BY <3>1, Appended
    <3> HIDE DEF new
    <3>4. OncePerName(new)
      BY <3>2, <3>3 DEF OncePerName
    <3>5. QED
      BY <1>1, <3>3, <3>4
  <2>3. QED
    BY <2>1, <2>2
<1> HIDE DEF new
<1>3. Containers!IsPrefix(Containers!NameOrder(table), Containers!NameOrder(new))
  <2> DEFINE s == Containers!NameOrder(table)
             t == Containers!NameOrder(new)
  <2>1. DOMAIN new = 1 .. Len(new) /\ Len(new) \in Nat /\ \A i \in DOMAIN new : new[i] \in S
    BY <1>2
  <2>2. /\ s = [i \in DOMAIN table |-> table[i].name]
        /\ t = [i \in DOMAIN new |-> new[i].name]
    BY DEF Containers!NameOrder
  <2>3. s \in Seq(T) /\ Len(s) = Len(table)
    BY <1>1, <2>2
  <2>4. t \in Seq(T) /\ Len(t) = Len(new)
    BY <2>1, <2>2
  <2>5. Len(s) <= Len(t) /\ \A k \in DOMAIN s : t[k] = s[k]
    BY <1>1, <1>2, <2>1, <2>2, <2>3, <2>4
  <2> HIDE DEF s, t, T
  <2>6. Containers!IsPrefix(s, t)
    BY <2>3, <2>4, <2>5, PrefixIs
  <2>7. QED
    BY <2>6 DEF s, t
<1>4. QED
  BY <1>2, <1>3 DEF new

LEMMA SamePrefix ==
  ASSUME NEW S, NEW table \in Seq(S)
  PROVE  Containers!IsPrefix(Containers!NameOrder(table), Containers!NameOrder(table))
BY DEF Containers!IsPrefix

\* The names of a table keep their places.
NamesKept ==
  /\ Containers!IsPrefix(Containers!NameOrder(demuxers), Containers!NameOrder(demuxers'))
  /\ Containers!IsPrefix(Containers!NameOrder(muxers), Containers!NameOrder(muxers'))
  /\ Containers!IsPrefix(Containers!NameOrder(probes), Containers!NameOrder(probes'))

LEMMA ExtensionAdded ==
  ASSUME ExtensionsOrdered, NEW ext \in Extensions, NEW name \in Names, NEW p \in Priorities,
         Containers!RegisterExtension(ext, name, p)
  PROVE  ExtensionsOrdered'
<1> DEFINE key == Lower[ext]
           c == [container |-> name, priority |-> p, order |-> extensionSeq]
<1>1. /\ key \in Extensions /\ c \in Claim /\ c.order = extensionSeq
      /\ extensionSeq \in Nat /\ extensions \in [Extensions -> Seq(Claim)]
  BY SpellingsAssumption, ProbesAssumption DEF ExtensionsOrdered, Claim
<1>2. /\ extensions' = [extensions EXCEPT ![key] = Append(@, c)]
      /\ extensionSeq' = extensionSeq + 1
  BY DEF Containers!RegisterExtension
<1> HIDE DEF key, c, Claim
<1>3. /\ Append(extensions[key], c) \in Seq(Claim)
      /\ DOMAIN Append(extensions[key], c) = DOMAIN extensions[key] \union {Len(extensions[key]) + 1}
      /\ \A k \in DOMAIN extensions[key] : Append(extensions[key], c)[k] = extensions[key][k]
      /\ Append(extensions[key], c)[Len(extensions[key]) + 1] = c
      /\ Len(extensions[key]) \in Nat /\ DOMAIN extensions[key] = 1 .. Len(extensions[key])
  BY <1>1, Appended
<1>4. extensions' \in [Extensions -> Seq(Claim)]
  BY <1>1, <1>2, <1>3
<1>5. ASSUME NEW e \in Extensions, NEW k \in DOMAIN extensions'[e]
      PROVE  /\ extensions'[e][k].order < extensionSeq'
             /\ \A j \in 1 .. k - 1 : extensions'[e][j].order < extensions'[e][k].order
  <2>1. \A i \in DOMAIN extensions[e] : extensions[e][i].order \in Nat
    BY <1>1, ClaimTyped
  <2>2. \A i \in DOMAIN extensions[e] :
          /\ extensions[e][i].order < extensionSeq
          /\ \A j \in 1 .. i - 1 : extensions[e][j].order < extensions[e][i].order
    BY DEF ExtensionsOrdered
  <2>3. CASE e # key
    BY <1>1, <1>2, <2>1, <2>2, <2>3
  <2>4. CASE e = key /\ k \in DOMAIN extensions[e]
    <3>1. \A j \in 1 .. k - 1 : j \in DOMAIN extensions[e]
      BY <1>3, <2>4
    <3>2. extensions'[e] = Append(extensions[key], c)
      BY <1>1, <1>2, <2>4
    <3>3. \A j \in DOMAIN extensions[e] : extensions'[e][j] = extensions[e][j]
      BY <1>3, <2>4, <3>2
    <3>4. QED
      BY <1>1, <1>2, <2>1, <2>2, <2>4, <3>1, <3>3
  <2>5. CASE e = key /\ k \notin DOMAIN extensions[e]
    <3>1. extensions'[e] = Append(extensions[key], c)
      BY <1>1, <1>2, <2>5
    <3>2. k = Len(extensions[key]) + 1 /\ extensions'[e][k] = c
      BY <1>3, <2>5, <3>1
    <3>3. \A j \in 1 .. k - 1 : j \in DOMAIN extensions[e] /\ extensions'[e][j] = extensions[e][j]
      BY <1>3, <2>5, <3>1, <3>2
    <3>4. \A j \in 1 .. k - 1 : extensions'[e][j].order < extensionSeq
      BY <2>2, <3>3
    <3>5. QED
      BY <1>1, <1>2, <3>2, <3>4
  <2>6. QED
    BY <2>3, <2>4, <2>5
<1>6. QED
  BY <1>1, <1>2, <1>4, <1>5 DEF ExtensionsOrdered

LEMMA ContainerStep ==
  ASSUME ContainerInv, Containers!Next
  PROVE  ContainerInv' /\ NamesKept
<1> USE DEF ContainerInv, NamesKept
<1>1. /\ Containers!IsPrefix(Containers!NameOrder(demuxers), Containers!NameOrder(demuxers))
      /\ Containers!IsPrefix(Containers!NameOrder(muxers), Containers!NameOrder(muxers))
      /\ Containers!IsPrefix(Containers!NameOrder(probes), Containers!NameOrder(probes))
  BY SamePrefix
<1>7. UNCHANGED <<extensions, extensionSeq>> /\ ExtensionsOrdered => ExtensionsOrdered'
  BY DEF ExtensionsOrdered
<1>2. ASSUME NEW n \in Names, NEW f \in Factories,
             Containers!RegisterDemuxer(n, f) \/ Containers!RegisterMuxer(n, f)
      PROVE  /\ [name |-> n, open |-> f] \in Opened
             /\ \/ /\ demuxers' = Containers!Replace(demuxers, [name |-> n, open |-> f])
                   /\ UNCHANGED <<muxers, probes, extensions, extensionSeq>>
                \/ /\ muxers' = Containers!Replace(muxers, [name |-> n, open |-> f])
                   /\ UNCHANGED <<demuxers, probes, extensions, extensionSeq>>
  BY <1>2 DEF Containers!RegisterDemuxer, Containers!RegisterMuxer, Opened
<1>3. ASSUME NEW n \in Names, NEW f \in Factories,
             Containers!RegisterDemuxer(n, f) \/ Containers!RegisterMuxer(n, f)
      PROVE  ContainerInv' /\ NamesKept
  <2> DEFINE entry == [name |-> n, open |-> f]
  <2>1. entry \in Opened
    BY <1>2, <1>3
  <2> HIDE DEF entry
  <2>2. /\ Containers!Replace(demuxers, entry) \in Seq(Opened)
        /\ OncePerName(Containers!Replace(demuxers, entry))
        /\ Containers!IsPrefix(Containers!NameOrder(demuxers),
                               Containers!NameOrder(Containers!Replace(demuxers, entry)))
    BY <2>1, ReplaceIs
  <2>3. /\ Containers!Replace(muxers, entry) \in Seq(Opened)
        /\ OncePerName(Containers!Replace(muxers, entry))
        /\ Containers!IsPrefix(Containers!NameOrder(muxers),
                               Containers!NameOrder(Containers!Replace(muxers, entry)))
    BY <2>1, ReplaceIs
  <2>4. QED
    BY <1>1, <1>2, <1>3, <1>7, <2>2, <2>3 DEF entry
<1>4. ASSUME NEW n \in Names, NEW f \in Probes, NEW p \in Priorities,
             Containers!RegisterProbe(n, f, p)
      PROVE  ContainerInv' /\ NamesKept
  <2> DEFINE entry == [name |-> n, probe |-> f, priority |-> p]
  <2>1. /\ entry \in Probing /\ probes' = Containers!Replace(probes, entry)
        /\ UNCHANGED <<demuxers, muxers, extensions, extensionSeq>>
    BY <1>4 DEF Containers!RegisterProbe, Probing
  <2> HIDE DEF entry
  <2>2. /\ Containers!Replace(probes, entry) \in Seq(Probing)
        /\ OncePerName(Containers!Replace(probes, entry))
        /\ Containers!IsPrefix(Containers!NameOrder(probes),
                               Containers!NameOrder(Containers!Replace(probes, entry)))
    BY <2>1, ReplaceIs
  <2>3. QED
    BY <1>1, <1>7, <2>1, <2>2
<1>5. ASSUME NEW e \in Extensions, NEW n \in Names, NEW p \in Priorities,
             Containers!RegisterExtension(e, n, p)
      PROVE  ContainerInv' /\ NamesKept
  BY <1>1, <1>5, ExtensionAdded DEF Containers!RegisterExtension
<1>6. QED
  BY <1>3, <1>4, <1>5 DEF Containers!Next

\* Of the first n claims, w is the last of those with the least priority.
Winner(claims, n, w) ==
  /\ w \in 1 .. n
  /\ \A j \in 1 .. n : \/ claims[w].priority < claims[j].priority
                       \/ claims[w].priority = claims[j].priority /\ j <= w

LEMMA WinnerStep ==
  ASSUME NEW claims \in Seq(Claim), NEW n \in DOMAIN claims, n # 1, NEW w,
         Winner(claims, n - 1, w)
  PROVE  /\ n - 1 \in DOMAIN claims /\ w \in DOMAIN claims
         /\ Containers!LaterClaim(claims[w], claims[n]) =
              claims[IF claims[n].priority > claims[w].priority THEN w ELSE n]
         /\ Winner(claims, n, IF claims[n].priority > claims[w].priority THEN w ELSE n)
<1> DEFINE p == [k \in DOMAIN claims |-> claims[k].priority]
<1>1. DOMAIN claims = 1 .. Len(claims) /\ Len(claims) \in Nat
  OBVIOUS
<1>2. p \in [1 .. Len(claims) -> Int] /\ \A k \in DOMAIN claims : claims[k].priority = p[k]
  BY <1>1, ClaimTyped
<1>3. n \in Int /\ n > 1 /\ n <= Len(claims) /\ n - 1 \in DOMAIN claims /\ w \in 1 .. n - 1
  BY <1>1 DEF Winner
<1>4. /\ w \in Int /\ w >= 1 /\ w < n /\ w \in DOMAIN claims
      /\ \A j \in 1 .. n : j \in DOMAIN claims /\ (j \in 1 .. n - 1 \/ j = n)
  BY <1>1, <1>3
<1> HIDE DEF p
<1>5. \A j \in 1 .. n - 1 : p[w] < p[j] \/ (p[w] = p[j] /\ j <= w)
  BY <1>1, <1>2, <1>3, <1>4 DEF Winner
<1>6. p[n] \in Int /\ p[w] \in Int /\ \A j \in 1 .. n : p[j] \in Int
  BY <1>1, <1>2, <1>4
<1>7. CASE p[n] > p[w]
  <2>1. \A j \in 1 .. n : p[w] < p[j] \/ (p[w] = p[j] /\ j <= w)
    BY <1>4, <1>5, <1>6, <1>7
  <2>2. Winner(claims, n, w)
    BY <1>2, <1>3, <1>4, <2>1 DEF Winner
  <2>3. claims[n].priority > claims[w].priority
    BY <1>2, <1>4, <1>7
  <2>4. QED
    BY <1>3, <1>4, <2>2, <2>3 DEF Containers!LaterClaim
<1>8. CASE ~ (p[n] > p[w])
  <2>1. \A j \in 1 .. n : p[n] < p[j] \/ (p[n] = p[j] /\ j <= n)
    <3>1. SUFFICES ASSUME NEW j \in 1 .. n PROVE p[n] < p[j] \/ (p[n] = p[j] /\ j <= n)
      OBVIOUS
    <3>2. p[w] <= p[j] \/ j = n
      BY <1>3, <1>4, <1>5, <1>6
    <3>3. QED
      BY <1>3, <1>6, <1>8, <3>2
  <2>2. Winner(claims, n, n)
    BY <1>2, <1>3, <1>4, <2>1 DEF Winner
  <2>3. ~ (claims[n].priority > claims[w].priority)
    BY <1>2, <1>4, <1>8
  <2>4. QED
    BY <1>3, <1>4, <2>2, <2>3 DEF Containers!LaterClaim
<1>9. QED
  BY <1>7, <1>8

LEMMA WinnerIs ==
  ASSUME NEW claims \in Seq(Claim), NEW n \in DOMAIN claims
  PROVE  /\ \E w : Winner(claims, n, w)
         /\ \A v, w : Winner(claims, n, v) /\ Winner(claims, n, w) => v = w
<1>1. DOMAIN claims = 1 .. Len(claims) /\ Len(claims) \in Nat
      /\ \A k \in DOMAIN claims : claims[k].priority \in Int
  BY ClaimTyped
<1>2. \A v, w : Winner(claims, n, v) /\ Winner(claims, n, w) => v = w
  <2>1. \A k \in 1 .. n : k \in DOMAIN claims /\ k \in Int
    BY <1>1
  <2>2. QED
    BY <1>1, <2>1 DEF Winner
<1> DEFINE D == {m \in DOMAIN claims : ~ \E w : Winner(claims, m, w)}
<1>3. ASSUME D # {} PROVE FALSE
  <2>1. D \in SUBSET Nat
    BY <1>1
  <2>2. PICK m \in D : \A k \in D : m <= k
    BY <1>3, <2>1, LeastOf
  <2>3. m # 1
    <3>1. claims[1].priority \in Int => Winner(claims, 1, 1)
      BY DEF Winner
    <3>2. QED
      BY <1>1, <2>2, <3>1
  <2>4. m - 1 \in DOMAIN claims /\ m - 1 < m
    BY <1>1, <2>3
  <2>5. PICK w : Winner(claims, m - 1, w)
    BY <1>1, <2>2, <2>4
  <2>6. \E v : Winner(claims, m, v)
    BY <2>3, <2>5, WinnerStep
  <2>7. QED
    BY <2>6
<1>4. QED
  BY <1>2, <1>3

\* The walk of container_for_extension ends at the winner.
LEMMA WalkIs ==
  ASSUME NEW claims \in Seq(Claim), NEW w, claims # <<>>, Winner(claims, Len(claims), w)
  PROVE  LET best[n \in DOMAIN claims] ==
               IF n = 1 THEN claims[1] ELSE Containers!LaterClaim(best[n - 1], claims[n])
         IN  best[Len(claims)] = claims[w]
<1> DEFINE D == DOMAIN claims
           Walk(b) == b = [n \in D |-> IF n = 1 THEN claims[1]
                                       ELSE Containers!LaterClaim(b[n - 1], claims[n])]
           best == CHOOSE b : Walk(b)
           win == [n \in D |-> CHOOSE v : Winner(claims, n, v)]
           won == [n \in D |-> claims[win[n]]]
<1>1. D = 1 .. Len(claims) /\ Len(claims) \in Nat /\ Len(claims) # 0
  OBVIOUS
<1>2. \A n \in D : Winner(claims, n, win[n])
  BY WinnerIs
<1> HIDE DEF win
<1>3. 1 \in D => win[1] = 1
  BY <1>2 DEF Winner
<1>4. ASSUME NEW n \in D, n # 1
      PROVE  n - 1 \in D /\ Containers!LaterClaim(won[n - 1], claims[n]) = won[n]
  <2> DEFINE v == win[n - 1]
             x == IF claims[n].priority > claims[v].priority THEN v ELSE n
  <2>1. n - 1 \in D
    BY <1>1, <1>4
  <2>2. Winner(claims, n - 1, v)
    BY <1>2, <2>1
  <2>3. Containers!LaterClaim(claims[v], claims[n]) = claims[x] /\ Winner(claims, n, x)
    BY <1>4, <2>2, WinnerStep
  <2>4. win[n] = x
    BY <1>2, <2>3, WinnerIs
  <2>5. won[n - 1] = claims[v] /\ won[n] = claims[win[n]]
    BY <2>1
  <2>6. QED
    BY <2>1, <2>3, <2>4, <2>5
<1>5. Walk(won)
  <2>1. \A n \in D : won[n] = IF n = 1 THEN claims[1]
                              ELSE Containers!LaterClaim(won[n - 1], claims[n])
    BY <1>3, <1>4
  <2>2. won = [n \in D |-> won[n]]
    OBVIOUS
  <2> HIDE DEF won
  <2>3. QED
    BY <2>1, <2>2
<1> HIDE DEF won
<1>6. Walk(best)
  BY <1>5
<1>7. \A n \in D : best[n] = IF n = 1 THEN claims[1]
                             ELSE Containers!LaterClaim(best[n - 1], claims[n])
  BY <1>6
<1>8. \A n \in D : won[n] = IF n = 1 THEN claims[1]
                             ELSE Containers!LaterClaim(won[n - 1], claims[n])
  BY <1>5
<1> HIDE DEF best
<1> DEFINE W == {n \in D : best[n] # won[n]}
<1>9. ASSUME W # {} PROVE FALSE
  <2>1. W \in SUBSET Nat
    BY <1>1
  <2>2. PICK m \in W : \A k \in W : m <= k
    BY <1>9, <2>1, LeastOf
  <2>3. m # 1
    BY <1>7, <1>8, <2>2
  <2>4. m - 1 \in D /\ ~ (m <= m - 1)
    BY <1>1, <2>3
  <2>5. best[m - 1] = won[m - 1]
    BY <2>2, <2>4
  <2>6. best[m] = won[m]
    BY <1>7, <1>8, <2>2, <2>3, <2>5
  <2>7. QED
    BY <2>6
<1>10. best[Len(claims)] = claims[w]
  <2>1. Len(claims) \in D
    BY <1>1
  <2>2. win[Len(claims)] = w
    BY <1>2, <2>1, WinnerIs
  <2>3. best[Len(claims)] = won[Len(claims)]
    BY <1>9, <2>1
  <2>4. QED
    BY <2>1, <2>2, <2>3 DEF won
<1>11. QED
  BY <1>10 DEF best

\* Both forms of the extension rule answer with the winner
\* (ContainerRegistry!ExtensionRulesAgree).
LEMMA ExtensionsAgree ==
  ASSUME ExtensionsOrdered
  PROVE  Containers!ExtensionRulesAgree
<1>1. SUFFICES ASSUME NEW e \in Extensions
               PROVE  Containers!ContainerForExtension(e) =
                        IF Containers!ExtensionCandidates(e) = <<>> THEN {}
                        ELSE {Containers!ExtensionCandidates(e)[1].container}
  BY DEF Containers!ExtensionRulesAgree
<1> DEFINE g == extensions[Lower[e]]
           P == DOMAIN g
           B == {q \in P \X P : Containers!ExtensionBefore(g[q[1]], g[q[2]])}
           key == [k \in P |-> <<g[k].priority, 0 - k, 0>>]
           f == Containers!ExtensionCandidates(e)
<1>2. Lower[e] \in Extensions
  BY SpellingsAssumption
<1>3. /\ g \in Seq(Claim)
      /\ \A k \in P : \A j \in 1 .. k - 1 : g[j].order < g[k].order
  BY <1>2 DEF ExtensionsOrdered
<1>4. f = Sorted(P, g, StableBy(P, B))
  <2>1. f = Containers!StableOrder({<<k, g[k]>> : k \in P}, Containers!ExtensionBefore)
    BY DEF Containers!ExtensionCandidates
  <2> HIDE DEF g, P
  <2>2. QED
    BY <2>1, ExtensionsSorted DEF Entries
<1> HIDE DEF g
<1>5. P = 1 .. Len(g) /\ Len(g) \in Nat /\ P \in SUBSET Nat /\ IsFiniteSet(P)
  <2>1. P = 1 .. Len(g) /\ Len(g) \in Nat
    BY <1>3
  <2>2. QED
    BY <2>1, FS_Interval
<1>6. \A k \in P : g[k].priority \in Int /\ g[k].order \in Int /\ k \in Int
  BY <1>3, ClaimTyped
<1> HIDE DEF P
<1>7. ASSUME NEW j \in P, NEW k \in P
      PROVE  <<j, k>> \in B <=> Precedes(key[j], key[k])
  <2>1. <<j, k>> \in B <=> Containers!ExtensionBefore(g[j], g[k])
    OBVIOUS
  <2>2. g[j].order > g[k].order <=> j > k
    <3>1. j < k => g[j].order < g[k].order
      BY <1>3, <1>5, <1>6
    <3>2. k < j => g[k].order < g[j].order
      BY <1>3, <1>5, <1>6
    <3>3. QED
      BY <1>6, <3>1, <3>2
  <2>3. key[j] = <<g[j].priority, 0 - j, 0>> /\ key[k] = <<g[k].priority, 0 - k, 0>>
    OBVIOUS
  <2> HIDE DEF B, key
  <2>4. QED
    BY <1>6, <2>1, <2>2, <2>3 DEF Containers!ExtensionBefore, Precedes
<1>8. StartsWithLeast(f, P, g, key)
  <2>1. key \in [P -> Int \X Int \X Int]
    BY <1>6
  <2> HIDE DEF B, key, f
  <2>2. KeyedBy(P, key, B)
    BY <1>5, <1>7, <2>1 DEF KeyedBy
  <2>3. QED
    BY <1>4, <2>2, LeastFirst
<1> HIDE DEF B, f
<1>9. f = <<>> <=> g = <<>>
  <2>1. f = <<>> <=> P = {}
    BY <1>8 DEF StartsWithLeast
  <2>2. P = {} <=> g = <<>>
    BY <1>3, <1>5 DEF P
  <2>3. QED
    BY <2>1, <2>2
<1>10. ASSUME g # <<>> PROVE \E k \in P : f[1] = g[k] /\ Winner(g, Len(g), k)
  <2>1. PICK k \in P : f[1] = g[k] /\ \A j \in P : Precedes(key[k], key[j]) \/ key[k] = key[j]
    BY <1>8, <1>9, <1>10 DEF StartsWithLeast
  <2>2. ASSUME NEW j \in P
        PROVE  g[k].priority < g[j].priority \/ (g[k].priority = g[j].priority /\ j <= k)
    <3>1. Precedes(key[k], key[j]) \/ key[k] = key[j]
      BY <2>1
    <3>2. key[j] = <<g[j].priority, 0 - j, 0>> /\ key[k] = <<g[k].priority, 0 - k, 0>>
      OBVIOUS
    <3> HIDE DEF key
    <3>3. QED
      BY <1>6, <3>1, <3>2 DEF Precedes
  <2>3. Winner(g, Len(g), k)
    BY <1>5, <2>2 DEF Winner
  <2>4. QED
    BY <2>1, <2>3
<1>11. CASE g = <<>>
  BY <1>9, <1>11 DEF Containers!ContainerForExtension, g, f
<1>12. CASE g # <<>>
  <2>1. PICK k \in P : f[1] = g[k] /\ Winner(g, Len(g), k)
    BY <1>10, <1>12
  <2> DEFINE best[n \in DOMAIN g] ==
               IF n = 1 THEN g[1] ELSE Containers!LaterClaim(best[n - 1], g[n])
  <2>2. best[Len(g)] = g[k]
    BY <1>3, <1>12, <2>1, WalkIs
  <2>3. Containers!ContainerForExtension(e) = {best[Len(g)].container}
    BY <1>12 DEF Containers!ContainerForExtension, g
  <2> HIDE DEF best
  <2>4. QED
    BY <1>9, <1>12, <2>1, <2>2, <2>3 DEF f
<1>13. QED
  BY <1>11, <1>12

Scored(d) == {i \in DOMAIN probes : probes[i].probe[d] > 0}
ProbeKey(i, d) == <<0 - probes[i].probe[d], probes[i].priority, i>>

LEMMA ProbesTyped ==
  ASSUME ContainerInv, NEW d \in Inputs, NEW i \in DOMAIN probes
  PROVE  probes[i].probe[d] \in Nat /\ probes[i].priority \in Int /\ i \in Nat
<1>1. probes \in Seq(Probing)
  BY DEF ContainerInv
<1>2. probes[i] \in Probing /\ i \in Nat
  BY <1>1
<1>3. probes[i].probe \in [Inputs -> 0 .. 255] /\ probes[i].priority \in Int
  BY <1>2, ProbesAssumption DEF Probing
<1>4. QED
  BY <1>2, <1>3

\* The head of the candidates: of the probes that recognise the input, the one
\* with the least key.
LEMMA ProbeAnswer ==
  ASSUME ContainerInv, NEW d \in Inputs
  PROVE  /\ Containers!ProbeCandidates(d) = <<>> <=> Scored(d) = {}
         /\ Scored(d) # {} =>
              \E i \in Scored(d) :
                /\ Containers!ProbeCandidates(d)[1].name = probes[i].name
                /\ \A j \in Scored(d) \ {i} : Precedes(ProbeKey(i, d), ProbeKey(j, d))
<1> DEFINE P == Scored(d)
           g == Containers!Scores(d)
           B == {q \in P \X P : Containers!ProbeBefore(g[q[1]], g[q[2]])}
           key == [i \in P |-> ProbeKey(i, d)]
           f == Containers!ProbeCandidates(d)
<1>1. \A i \in DOMAIN probes : g[i] = [name |-> probes[i].name, score |-> probes[i].probe[d],
                                       priority |-> probes[i].priority, order |-> i]
  BY DEF Containers!Scores
<1>11. \A i \in DOMAIN probes : /\ probes[i].probe[d] \in Nat /\ probes[i].priority \in Int
                                /\ i \in Nat
  BY ProbesTyped
<1>2. DOMAIN g = DOMAIN probes
  BY DEF Containers!Scores
<1>3. P \in SUBSET DOMAIN probes
  BY DEF Scored
<1>4. f = Sorted(P, g, StableBy(P, B))
  <2>1. P = {i \in DOMAIN g : g[i].score # 0}
    BY <1>1, <1>2, <1>11 DEF Scored
  <2> HIDE DEF g, P
  <2>2. f = Containers!StableOrder({<<i, g[i]>> : i \in P}, Containers!ProbeBefore)
    BY <2>1 DEF Containers!ProbeCandidates, Containers!Ranked, g
  <2>3. QED
    BY <2>2, ProbesSorted DEF Entries
<1>5. P \in SUBSET Nat /\ IsFiniteSet(P)
  <2>1. DOMAIN probes = 1 .. Len(probes) /\ Len(probes) \in Nat
    BY DEF ContainerInv
  <2>2. DOMAIN probes \in SUBSET Nat /\ IsFiniteSet(DOMAIN probes)
    BY <2>1, FS_Interval
  <2>3. QED
    BY <1>3, <2>2, FS_Subset
<1>6. key \in [P -> Int \X Int \X Int]
  <2>1. \A i \in P : ProbeKey(i, d) \in Int \X Int \X Int
    BY <1>11, <1>3 DEF ProbeKey
  <2>2. QED
    BY <2>1
<1>7. ASSUME NEW j \in P, NEW k \in P
      PROVE  <<j, k>> \in B <=> Precedes(key[j], key[k])
  <2> DEFINE a == probes[j].probe[d]
             b == probes[k].probe[d]
  <2>1. /\ a \in Int /\ b \in Int /\ j \in Int /\ k \in Int
        /\ probes[j].priority \in Int /\ probes[k].priority \in Int
    BY <1>11, <1>3
  <2>2. /\ g[j] = [name |-> probes[j].name, score |-> a, priority |-> probes[j].priority,
                   order |-> j]
        /\ g[k] = [name |-> probes[k].name, score |-> b, priority |-> probes[k].priority,
                   order |-> k]
        /\ key[j] = <<0 - a, probes[j].priority, j>>
        /\ key[k] = <<0 - b, probes[k].priority, k>>
    BY <1>1, <1>3 DEF ProbeKey
  <2>3. <<j, k>> \in B <=> Containers!ProbeBefore(g[j], g[k])
    OBVIOUS
  <2> HIDE DEF a, b, g, key, B
  <2>4. QED
    BY <2>1, <2>2, <2>3 DEF Containers!ProbeBefore, Precedes
<1> HIDE DEF P, g, B, key, f
<1>8. StartsWithLeast(f, P, g, key)
  <2>1. KeyedBy(P, key, B)
    BY <1>5, <1>6, <1>7 DEF KeyedBy
  <2>2. QED
    BY <1>4, <2>1, LeastFirst
<1>9. ASSUME P # {}
      PROVE  \E i \in P : /\ f[1].name = probes[i].name
                          /\ \A j \in P \ {i} : Precedes(ProbeKey(i, d), ProbeKey(j, d))
  <2>1. PICK i \in P : f[1] = g[i] /\ \A j \in P : Precedes(key[i], key[j]) \/ key[i] = key[j]
    BY <1>8, <1>9 DEF StartsWithLeast
  <2>2. i \in DOMAIN probes
    BY <1>3
  <2>6. f[1].name = g[i].name
    BY <2>1
  <2>8. g[i] = [name |-> probes[i].name, score |-> probes[i].probe[d],
                priority |-> probes[i].priority, order |-> i]
    BY <1>1, <2>2
  <2>7. g[i].name = probes[i].name
    BY <2>8
  <2>5. f[1].name = probes[i].name
    BY <2>6, <2>7
  <2>3. \A j \in P \ {i} : Precedes(ProbeKey(i, d), ProbeKey(j, d))
    BY <2>1 DEF key, ProbeKey
  <2>4. QED
    BY <2>5, <2>3
<1>10. QED
  BY <1>8, <1>9 DEF StartsWithLeast, f, P

\* Detection picks the best probe (ContainerRegistry!BestProbe).
LEMMA ProbesBest ==
  ASSUME ContainerInv
  PROVE  Containers!BestProbe
<1> DEFINE beats(x, y) == \E k \in DOMAIN x : x[k] < y[k] /\ \A j \in 1 .. k - 1 : x[j] = y[j]
           rank(i, d) == <<- probes[i].probe[d], probes[i].priority, i>>
           winners(d) == {j \in Scored(d) :
                            \A k \in Scored(d) \ {j} : beats(rank(j, d), rank(k, d))}
<1>3. \A x, y \in Int \X Int \X Int : ~ (Precedes(x, y) /\ Precedes(y, x))
  BY DEF Precedes
<1>4. ASSUME NEW d \in Inputs, NEW j \in Scored(d)
      PROVE  ProbeKey(j, d) \in Int \X Int \X Int /\ rank(j, d) = ProbeKey(j, d)
  <2>1. j \in DOMAIN probes
    BY DEF Scored
  <2>2. probes[j].probe[d] \in Nat /\ probes[j].priority \in Int /\ j \in Nat
    BY <2>1, ProbesTyped
  <2>3. QED
    BY <2>2 DEF ProbeKey
<1>5. ASSUME NEW d \in Inputs, Scored(d) # {}
      PROVE  \E i \in Scored(d) : /\ Containers!ProbeCandidates(d)[1].name = probes[i].name
                                  /\ winners(d) = {i}
  <2>1. PICK i \in Scored(d) :
          /\ Containers!ProbeCandidates(d)[1].name = probes[i].name
          /\ \A j \in Scored(d) \ {i} : Precedes(ProbeKey(i, d), ProbeKey(j, d))
    BY <1>5, ProbeAnswer
  <2> HIDE DEF rank
  <2>2. \A x, y \in Int \X Int \X Int : beats(x, y) <=> Precedes(x, y)
    BY PrecedesIs
  <2> HIDE DEF beats
  <2>3. \A j, k \in Scored(d) :
          beats(rank(j, d), rank(k, d)) <=> Precedes(ProbeKey(j, d), ProbeKey(k, d))
    BY <1>4, <2>2
  <2>4. \A j, k \in Scored(d) :
          ~ (Precedes(ProbeKey(j, d), ProbeKey(k, d)) /\ Precedes(ProbeKey(k, d), ProbeKey(j, d)))
    BY <1>3, <1>4
  <2>5. winners(d) = {i}
    BY <2>1, <2>3, <2>4
  <2>6. QED
    BY <2>1, <2>5
<1> HIDE DEF winners
<1>1. ASSUME NEW d \in Inputs, NEW e \in Extensions \union {""}
      PROVE  Containers!Detect(d, e) =
               IF Scored(d) = {}
                 THEN IF e = "" THEN {} ELSE Containers!ContainerForExtension(e)
                 ELSE {probes[i].name : i \in winners(d)}
  <2>1. CASE Scored(d) = {}
    BY <2>1, ProbeAnswer DEF Containers!Detect
  <2>2. CASE Scored(d) # {}
    BY <1>5, <2>2, ProbeAnswer DEF Containers!Detect
  <2>3. QED
    BY <2>1, <2>2
<1> USE DEF winners
<1>2. QED
  BY <1>1 DEF Containers!BestProbe, Scored

-----------------------------------------------------------------------------
(* The source registry and the filter registry.                            *)

\* The schemes listed are the ones with an opener, each once.
SourceInv ==
  /\ schemes \in [Schemes -> SUBSET Kinds]
  /\ order \in Seq(Schemes)
  /\ {order[k] : k \in DOMAIN order} = {s \in Schemes : schemes[s] # {}}
  /\ \A j, k \in DOMAIN order : order[j] = order[k] => j = k

LEMMA SourceStep ==
  ASSUME SourceInv, NEW scheme \in Schemes, NEW kind \in Kinds, Sources!Insert(scheme, kind)
  PROVE  SourceInv'
<1> DEFINE key == AsciiLower[scheme]
<1>1. key \in Schemes
  BY SpellingsAssumption
<1>2. /\ schemes' = [schemes EXCEPT ![key] = {kind}]
      /\ schemes[key] = {} => order' = Append(order, key)
      /\ schemes[key] # {} => order' = order
  BY DEF Sources!Insert
<1> HIDE DEF key
<1>3. /\ schemes' \in [Schemes -> SUBSET Kinds]
      /\ {s \in Schemes : schemes'[s] # {}} = {s \in Schemes : schemes[s] # {}} \union {key}
  BY <1>1, <1>2 DEF SourceInv
<1>4. CASE schemes[key] # {}
  BY <1>1, <1>2, <1>3, <1>4 DEF SourceInv
<1>5. CASE schemes[key] = {}
  <2>1. /\ order' \in Seq(Schemes) /\ DOMAIN order' = DOMAIN order \union {Len(order) + 1}
        /\ \A k \in DOMAIN order : order'[k] = order[k]
        /\ order'[Len(order) + 1] = key
    BY <1>1, <1>2, <1>5, Appended DEF SourceInv
  <2>2. \A k \in DOMAIN order : order[k] # key
    BY <1>5 DEF SourceInv
  <2>3. {order'[k] : k \in DOMAIN order'} = {order[k] : k \in DOMAIN order} \union {key}
    BY <2>1
  <2>4. \A j, k \in DOMAIN order' : order'[j] = order'[k] => j = k
    BY <2>1, <2>2 DEF SourceInv
  <2>5. QED
    BY <1>3, <2>1, <2>3, <2>4 DEF SourceInv
<1>6. QED
  BY <1>4, <1>5

\* The listing grows at the end or stays.
LEMMA SchemeStep ==
  ASSUME SourceInv, NEW scheme \in Schemes, NEW kind \in Kinds, Sources!Insert(scheme, kind)
  PROVE  Sources!IsPrefix(order, order')
<1> DEFINE key == AsciiLower[scheme]
<1>1. key \in Schemes
  BY SpellingsAssumption
<1>2. /\ schemes[key] = {} => order' = Append(order, key)
      /\ schemes[key] # {} => order' = order
  BY DEF Sources!Insert
<1> HIDE DEF key
<1>3. order \in Seq(Schemes)
  BY DEF SourceInv
<1>4. CASE order' = order
  BY <1>4 DEF Sources!IsPrefix
<1>5. CASE order' = Append(order, key)
  <2>1. /\ Len(order) <= Len(order')
        /\ \A k \in 1 .. Len(order) : order'[k] = order[k]
        /\ order' \in Seq(Schemes)
    BY <1>1, <1>3, <1>5
  <2>2. /\ SubSeq(order, 1, Len(order)) = [k \in 1 .. Len(order) |-> order[k]]
        /\ SubSeq(order', 1, Len(order)) = [k \in 1 .. Len(order) |-> order'[k]]
    BY <1>3, <2>1
  <2>3. QED
    BY <2>1, <2>2 DEF Sources!IsPrefix
<1>6. QED
  BY <1>2, <1>4, <1>5

LEMMA SourcesOpen ==
  ASSUME SourceInv
  PROVE  Sources!OpensWhatIsListed
<1>1. Sources!ToSet(order) = {s \in Schemes : schemes[s] # {}} /\ Sources!IsInjective(order)
  BY DEF SourceInv, Sources!ToSet, Sources!IsInjective
<1>2. ASSUME NEW u \in Uris
      PROVE  LET asked == IF u.colon THEN AsciiLower[u.scheme] ELSE "file"
             IN  IF asked \in Drives \union Malformed
                   THEN {o.output : o \in Sources!Open(u)} = schemes["file"]
                   ELSE Sources!Open(u) # {}
                          <=> {asked, "file"} \intersect Sources!ToSet(order) # {}
  <2> DEFINE asked == IF u.colon THEN AsciiLower[u.scheme] ELSE "file"
             key == AsciiLower[Sources!SplitScheme(u)[1]]
             entry == IF schemes[key] # {} THEN schemes[key] ELSE schemes["file"]
  <2>1. asked \in Schemes /\ "file" \in Schemes \ (Drives \union Malformed)
    BY SpellingsAssumption
  <2>2. key = IF asked \in Drives \union Malformed THEN "file" ELSE asked
    BY SpellingsAssumption DEF Sources!SplitScheme
  <2>3. Sources!Open(u) = {Sources!Dispatch(kind, u) : kind \in entry}
    BY DEF Sources!Open
  <2>4. \A kind : Sources!Dispatch(kind, u).output = kind
    BY DEF Sources!Dispatch
  <2> HIDE DEF asked, key
  <2>5. CASE asked \in Drives \union Malformed
    <3>1. entry = schemes["file"]
      BY <2>2, <2>5
    <3>2. {o.output : o \in Sources!Open(u)} = schemes["file"]
      BY <2>3, <2>4, <3>1
    <3>3. QED
      BY <2>5, <3>2 DEF asked
  <2>6. CASE asked \notin Drives \union Malformed
    <3>1. entry # {} <=> schemes[asked] # {} \/ schemes["file"] # {}
      BY <2>2, <2>6
    <3>2. Sources!Open(u) # {} <=> entry # {}
      BY <2>3
    <3>3. schemes[asked] # {} \/ schemes["file"] # {}
            <=> {asked, "file"} \intersect Sources!ToSet(order) # {}
      BY <1>1, <2>1
    <3>4. QED
      BY <2>6, <3>1, <3>2, <3>3 DEF asked
  <2>7. QED
    BY <2>5, <2>6
<1>3. QED
  BY <1>1, <1>2 DEF Sources!OpensWhatIsListed

LEMMA FiltersOpen == Filters!FiltersFound
BY DEF Filters!FiltersFound, Filters!Contains, Filters!Make

-----------------------------------------------------------------------------
(* The theorems.                                                           *)

ContextInv == CodecInv /\ ContainerInv /\ SourceInv

LEMMA ContextInit ==
  ASSUME Init
  PROVE  ContextInv
<1>1. CodecInv
  BY CodecInit DEF Init
<1>2. ContainerInv
  <2>1. ExtensionsOrdered
    BY DEF Init, Containers!Init, ExtensionsOrdered
  <2>2. QED
    BY <2>1 DEF Init, Containers!Init, ContainerInv, OncePerName
<1>3. SourceInv
  BY DEF Init, Sources!Init, SourceInv
<1>4. QED
  BY <1>1, <1>2, <1>3 DEF ContextInv

\* The registries are side by side: a call on one leaves the others alone.
LEMMA OthersAlone ==
  /\ UNCHANGED codecs /\ CodecInv => CodecInv'
  /\ UNCHANGED containers /\ ContainerInv => ContainerInv'
  /\ UNCHANGED sources /\ SourceInv => SourceInv'
<1>1. UNCHANGED codecs /\ CodecInv => CodecInv'
  BY DEF codecs, CodecInv, CodecTypes, TagsIndexed, MagicsIndexed, ImplementationsListed
<1>2. UNCHANGED containers /\ ContainerInv => ContainerInv'
  BY DEF containers, ContainerInv, OncePerName, ExtensionsOrdered
<1>3. UNCHANGED sources /\ SourceInv => SourceInv'
  BY DEF sources, SourceInv
<1>4. QED
  BY <1>1, <1>2, <1>3

LEMMA ContextStep ==
  ASSUME ContextInv, Next
  PROVE  ContextInv'
<1>1. CASE Codecs!Next /\ UNCHANGED <<containers, sources, filters>>
  BY <1>1, RegisterStep, OthersAlone DEF ContextInv, Codecs!Next
<1>2. CASE Containers!Next /\ UNCHANGED <<codecs, sources, filters>>
  BY <1>2, ContainerStep, OthersAlone DEF ContextInv
<1>3. CASE Sources!Next /\ UNCHANGED <<codecs, containers, filters>>
  BY <1>3, SourceStep, OthersAlone DEF ContextInv, Sources!Next
<1>4. CASE Filters!Next /\ UNCHANGED <<codecs, containers, sources>>
  BY <1>4, OthersAlone DEF ContextInv
<1>5. QED
  BY <1>1, <1>2, <1>3, <1>4 DEF Next

\* The inductive invariant: types, an index that holds a tag's claims and no
\* index out of bounds, one entry per container name, and listings of exactly
\* the schemes that open.
THEOREM ContextInvariant == Spec => []ContextInv
<1>1. Init => ContextInv
  BY ContextInit
<1>2. ContextInv /\ [Next]_vars => ContextInv'
  <2>1. ContextInv /\ Next => ContextInv'
    BY ContextStep
  <2>2. ContextInv /\ UNCHANGED vars => ContextInv'
    BY OthersAlone DEF vars, ContextInv
  <2>3. QED
    BY <2>1, <2>2
<1>3. QED
  BY <1>1, <1>2, PTL DEF Spec

\* Codecs, sources and filters: what is listed opens, and what opens is listed
\* (RuntimeContext!ListedOpens).
THEOREM ListingsOpen == Spec => []ListedOpens
<1>1. ContextInv => ListedOpens
  BY CodecsListed, SourcesOpen, FiltersOpen DEF ContextInv, ListedOpens
<1>2. QED
  BY <1>1, ContextInvariant, PTL

\* A tag resolves to its best claim, a payload to its longest magic and an
\* input to its best probe, and both forms of the extension rule agree
\* (RuntimeContext!BestAnswer).
THEOREM AnswersBest == Spec => []BestAnswer
<1>1. ContextInv => BestAnswer
  BY TagsBest, MagicsBest, ProbesBest, ExtensionsAgree
     DEF ContextInv, ContainerInv, BestAnswer
<1>2. QED
  BY <1>1, ContextInvariant, PTL

\* A registration changes what a tag or a payload resolves to only in its own
\* favour, and repeating one changes no tag (RuntimeContext!NewcomerOnly).
THEOREM NewcomersOnly == Spec => NewcomerOnly
<1>1. ContextInv /\ ContextInv' /\ [Next]_vars => [Newcomer]_codecs
  <2>1. ASSUME CodecInv, CodecInv', Codecs!Next PROVE Newcomer
    <3>1. PICK info \in Infos : Codecs!Register(info)
      BY <2>1 DEF Codecs!Next
    <3>2. QED
      BY <2>1, <3>1, TagNewcomer, MagicNewcomer DEF Newcomer
  <2>2. Next => Codecs!Next \/ UNCHANGED codecs
    BY DEF Next
  <2>3. UNCHANGED vars => UNCHANGED codecs
    BY DEF vars
  <2>4. QED
    BY <2>1, <2>2, <2>3 DEF ContextInv
<1>2. QED
  BY <1>1, ContextInvariant, PTL
     DEF Spec, NewcomerOnly, Codecs!NewcomerOnly, Codecs!vars, codecs, Newcomer

\* A container name registered again keeps its place, in the listings and in
\* the order that breaks ties (ContainerRegistry!NamesKeepPlaces).
LEMMA NamesStay == Spec => Containers!NamesKeepPlaces
<1>1. ContextInv /\ [Next]_vars => [NamesKept]_containers
  <2>1. ContextInv /\ Next => NamesKept \/ UNCHANGED containers
    BY ContainerStep DEF ContextInv, Next
  <2>2. UNCHANGED vars => UNCHANGED containers
    BY DEF vars
  <2>3. QED
    BY <2>1, <2>2
<1>2. QED
  BY <1>1, ContextInvariant, PTL
     DEF Spec, Containers!NamesKeepPlaces, Containers!vars, containers, NamesKept

\* Of every id and every name, the implementation that opens.
OpenersKept ==
  \A role \in Codecs!Roles, id \in Ids :
    /\ Codecs!OpenFirst(role, id) # {} =>
         Codecs!OpenFirst(role, id)' = Codecs!OpenFirst(role, id)
    /\ \A k \in DOMAIN impls[id] :
         LET n == impls[id][k].name
         IN  Codecs!OpenNamed(role, id, n)' = Codecs!OpenNamed(role, id, n)

\* What opens once keeps opening the same codec implementation, by id and by
\* name (CodecRegistry!OpenersStay).
LEMMA ImplementationsStay == Spec => Codecs!OpenersStay
<1>1. ContextInv /\ [Next]_vars => [OpenersKept]_codecs
  <2>1. ContextInv /\ Next => OpenersKept \/ UNCHANGED codecs
    BY OpenersStayStep DEF ContextInv, Next, Codecs!Next, OpenersKept
  <2>2. UNCHANGED vars => UNCHANGED codecs
    BY DEF vars
  <2>3. QED
    BY <2>1, <2>2
<1>2. QED
  BY <1>1, ContextInvariant, PTL
     DEF Spec, Codecs!OpenersStay, Codecs!vars, codecs, OpenersKept

\* A scheme registered again, by whatever kind of opener, keeps its place in the
\* listing (SourceRegistry!SchemesKeepPlaces).
LEMMA SchemesStay == Spec => Sources!SchemesKeepPlaces
<1>1. ContextInv /\ [Next]_vars => [Sources!IsPrefix(order, order')]_sources
  <2>1. ContextInv /\ Next => Sources!IsPrefix(order, order') \/ UNCHANGED sources
    BY SchemeStep DEF ContextInv, Next, Sources!Next
  <2>2. UNCHANGED vars => UNCHANGED sources
    BY DEF vars
  <2>3. QED
    BY <2>1, <2>2
<1>2. QED
  BY <1>1, ContextInvariant, PTL
     DEF Spec, Sources!SchemesKeepPlaces, Sources!vars, sources

\* What is registered keeps its place, whatever registers later: every opener
\* of a codec answers as before, and no container name and no scheme moves
\* (RuntimeContext!PlacesKept).
THEOREM PlacesStay == Spec => PlacesKept
BY NamesStay, ImplementationsStay, SchemesStay DEF PlacesKept
=============================================================================
