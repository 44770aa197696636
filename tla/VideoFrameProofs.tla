-------------------------- MODULE VideoFrameProofs --------------------------
(***************************************************************************)
(* Proofs about VideoFrame, for any frames a producer builds, any bytes    *)
(* attached and any number of calls.                                       *)
(***************************************************************************)
EXTENDS VideoFrame, FiniteSetTheorems, WellFoundedInduction, TLAPS

-----------------------------------------------------------------------------
(* Least and greatest numbers.                                             *)

LEMMA LeastOf ==
  ASSUME NEW D \in SUBSET Nat, D # {}
  PROVE  \E m \in D : \A k \in D : m <= k
<1> DEFINE T == {0 .. k : k \in D}
           R == StrictSubsetOrdering(Nat)
<1>1. T # {} /\ T \subseteq FiniteSubsetsOf(Nat)
  <2>1. \A k \in D : IsFiniteSet(0 .. k) /\ 0 .. k \in SUBSET Nat
    BY FS_Interval
  <2>2. QED
    BY <2>1 DEF FiniteSubsetsOf
<1>2. IsWellFoundedOn(R, FiniteSubsetsOf(Nat))
  BY FS_StrictSubsetOrderingWellFounded
<1>3. PICK X \in T : \A Y \in T : ~ (<<Y, X>> \in R)
  <2> HIDE DEF T, R
  <2>1. QED
    BY <1>1, <1>2, WFMin
<1>4. PICK m \in D : X = 0 .. m
  OBVIOUS
<1>5. ASSUME NEW k \in D, k < m PROVE FALSE
  <2>1. /\ 0 .. k \in SUBSET Nat /\ 0 .. m \in SUBSET Nat
        /\ 0 .. k \subseteq 0 .. m /\ m \in 0 .. m /\ m \notin 0 .. k
    BY <1>5
  <2>2. <<0 .. k, 0 .. m>> \in R
    BY <2>1 DEF StrictSubsetOrdering
  <2>3. QED
    BY <1>3, <1>4, <2>2
<1>6. QED
  BY <1>5

\* Numbers below a bound have a greatest, which is what Max picks.
LEMMA MaxIs ==
  ASSUME NEW n \in Nat, NEW D \in SUBSET (0 .. n), D # {}
  PROVE  Max(D) \in D /\ \A k \in D : k <= Max(D)
<1> DEFINE E == {n - k : k \in D}
<1>1. E \in SUBSET Nat /\ E # {}
  <2>1. \A k \in D : k \in 0 .. n /\ n - k \in Nat
    OBVIOUS
  <2>2. QED
    BY <2>1
<1>2. PICK e \in E : \A k \in E : e <= k
  BY <1>1, LeastOf
<1>3. PICK m \in D : e = n - m
  BY <1>2
<1>4. \A k \in D : m >= k
  <2>1. ASSUME NEW k \in D PROVE m >= k
    <3>1. e <= n - k
      BY <1>2
    <3>2. QED
      BY <1>3, <3>1
  <2>2. QED
    BY <2>1
<1>5. \E x \in D : \A y \in D : x >= y
  BY <1>4
<1>6. Max(D) \in D /\ \A y \in D : Max(D) >= y
  BY <1>5 DEF Max
<1>7. QED
  BY <1>6

-----------------------------------------------------------------------------
(* Places of a vector, in their order.                                     *)

\* f numbers the places K from 1 to c.
Numbers(f, c, K) ==
  /\ c \in Nat
  /\ f \in [1 .. c -> K]
  /\ \A n, m \in 1 .. c : n < m => f[n] < f[m]
  /\ \A k \in K : \E n \in 1 .. c : f[n] = k

\* Two numberings of the same places are the same.
LEMMA OneNumbering ==
  ASSUME NEW K \in SUBSET Nat, NEW f, NEW c, Numbers(f, c, K), NEW h, NEW d, Numbers(h, d, K)
  PROVE  c = d /\ f = h
<1> DEFINE D == {n \in (1 .. c) \intersect (1 .. d) : f[n] # h[n]}
<1>1. c \in Nat /\ d \in Nat /\ \A n \in 1 .. c : f[n] \in Nat /\ f[n] \in K
  BY DEF Numbers
<1>2. \A n \in 1 .. d : h[n] \in Nat /\ h[n] \in K
  BY DEF Numbers
<1>3. D = {}
  <2>1. SUFFICES ASSUME D # {} PROVE FALSE
    OBVIOUS
  <2>2. D \in SUBSET Nat
    OBVIOUS
  <2>3. PICK n \in D : \A k \in D : n <= k
    BY <2>1, <2>2, LeastOf
  <2>4. \A m \in (1 .. c) \intersect (1 .. d) : m < n => f[m] = h[m]
    BY <1>1, <2>3
  <2>5. CASE f[n] < h[n]
    <3>1. PICK m \in 1 .. d : h[m] = f[n]
      BY <1>1, <2>3 DEF Numbers
    <3>2. m < n
      <4>1. ~ (n < m) /\ n # m
        BY <1>1, <1>2, <2>3, <2>5, <3>1 DEF Numbers
      <4>2. QED
        BY <2>2, <2>3, <4>1
    <3>3. f[m] = f[n] /\ m \in 1 .. c
      BY <1>1, <2>3, <2>4, <3>1, <3>2
    <3>4. f[m] < f[n]
      BY <2>3, <3>2, <3>3 DEF Numbers
    <3>5. QED
      BY <1>1, <3>3, <3>4
  <2>6. CASE h[n] < f[n]
    <3>1. PICK m \in 1 .. c : f[m] = h[n]
      BY <1>2, <2>3 DEF Numbers
    <3>2. m < n
      <4>1. ~ (n < m) /\ n # m
        BY <1>1, <1>2, <2>3, <2>6, <3>1 DEF Numbers
      <4>2. QED
        BY <2>2, <2>3, <4>1
    <3>3. h[m] = h[n] /\ m \in 1 .. d
      BY <1>1, <2>3, <2>4, <3>1, <3>2
    <3>4. h[m] < h[n]
      BY <2>3, <3>2, <3>3 DEF Numbers
    <3>5. QED
      BY <1>2, <3>3, <3>4, <2>3
  <2>7. QED
    BY <1>1, <1>2, <2>3, <2>5, <2>6
<1>4. ~ (c < d)
  <2>1. SUFFICES ASSUME c < d PROVE FALSE
    OBVIOUS
  <2>2. c + 1 \in 1 .. d
    BY <1>1, <2>1
  <2>3. PICK n \in 1 .. c : f[n] = h[c + 1]
    BY <1>2, <2>2 DEF Numbers
  <2>4. n \in 1 .. d /\ n < c + 1 /\ f[n] = h[n]
    BY <1>1, <1>3, <2>1
  <2>5. h[n] < h[c + 1]
    BY <2>2, <2>4 DEF Numbers
  <2>6. QED
    BY <1>2, <2>2, <2>3, <2>4, <2>5
<1>5. ~ (d < c)
  <2>1. SUFFICES ASSUME d < c PROVE FALSE
    OBVIOUS
  <2>2. d + 1 \in 1 .. c
    BY <1>1, <2>1
  <2>3. PICK n \in 1 .. d : h[n] = f[d + 1]
    BY <1>1, <2>2 DEF Numbers
  <2>4. n \in 1 .. c /\ n < d + 1 /\ f[n] = h[n]
    BY <1>1, <1>3, <2>1
  <2>5. f[n] < f[d + 1]
    BY <2>2, <2>4 DEF Numbers
  <2>6. QED
    BY <1>1, <2>2, <2>3, <2>4, <2>5
<1>6. c = d
  BY <1>1, <1>4, <1>5
<1>7. QED
  BY <1>3, <1>6 DEF Numbers

\* If the first places are all among K, they keep their numbers.
LEMMA FrontKept ==
  ASSUME NEW K \in SUBSET Nat, 0 \notin K, NEW f, NEW c, Numbers(f, c, K),
         NEW R \in Nat, 1 .. R \subseteq K
  PROVE  /\ R <= c
         /\ \A n \in 1 .. R : f[n] = n
         /\ \A n \in 1 .. c : n > R => f[n] > R
<1> DEFINE D == {n \in 1 .. R : ~ (n \in 1 .. c /\ f[n] = n)}
<1>1. c \in Nat /\ \A n \in 1 .. c : f[n] \in Nat /\ f[n] \in K /\ f[n] # 0
  BY DEF Numbers
<1>2. D = {}
  <2>1. SUFFICES ASSUME D # {} PROVE FALSE
    OBVIOUS
  <2>2. D \in SUBSET Nat
    OBVIOUS
  <2>3. PICK n \in D : \A k \in D : n <= k
    BY <2>1, <2>2, LeastOf
  <2>4. \A k \in 1 .. R : k < n => k \in 1 .. c /\ f[k] = k
    BY <2>3
  <2>5. n \in 1 .. R /\ n \in K
    BY <2>3
  <2>6. PICK m \in 1 .. c : f[m] = n
    BY <2>5 DEF Numbers
  <2>7. n <= m
    <3>1. ~ (m < n)
      BY <2>4, <2>5, <2>6
    <3>2. QED
      BY <2>5, <3>1, <1>1
  <2>8. n \in 1 .. c /\ n < m
    BY <1>1, <2>3, <2>5, <2>6, <2>7
  <2>9. f[n] < n /\ f[n] \in 1 .. R
    <3>1. f[n] < f[m]
      BY <2>6, <2>8 DEF Numbers
    <3>2. QED
      BY <1>1, <2>5, <2>6, <2>8, <3>1
  <2>10. f[f[n]] = f[n] /\ f[n] \in 1 .. c
    BY <2>4, <2>9
  <2>11. f[f[n]] < f[n]
    BY <2>8, <2>9, <2>10 DEF Numbers
  <2>12. QED
    BY <1>1, <2>8, <2>10, <2>11
<1>3. R <= c
  <2>1. SUFFICES ASSUME c < R PROVE FALSE
    BY <1>1
  <2>2. R \in 1 .. R /\ R \notin 1 .. c
    BY <1>1, <2>1
  <2>3. QED
    BY <1>2, <2>2
<1>4. ASSUME NEW n \in 1 .. c, n > R PROVE f[n] > R
  <2>1. CASE R = 0
    BY <1>1, <2>1
  <2>2. CASE R # 0
    <3>1. R \in 1 .. c /\ f[R] = R
      BY <1>2, <1>3, <2>2
    <3>2. f[R] < f[n]
      BY <1>4, <3>1 DEF Numbers
    <3>3. QED
      BY <1>1, <3>1, <3>2
  <2>3. QED
    BY <2>1, <2>2
<1>5. QED
  BY <1>2, <1>3, <1>4

\* The entries at some places are as many as the places.
LEMMA EntriesFinite ==
  ASSUME NEW P, IsFiniteSet(P), NEW g
  PROVE  IsFiniteSet({<<k, g[k]>> : k \in P})
<1> DEFINE S == {<<k, g[k]>> : k \in P}
           h == [k \in P |-> <<k, g[k]>>]
<1>1. h \in Surjection(P, S)
  BY DEF Surjection
<1>2. QED
  BY <1>1, FS_Surjection

\* Whoever has fewer ahead of it comes first: what Orders!Kept numbers.
LEMMA Ranks ==
  ASSUME NEW S, IsFiniteSet(S), NEW A \in [S -> SUBSET S],
         \A x \in S : x \notin A[x],
         \A x, y \in S : x # y => x \in A[y] \/ y \in A[x],
         \A x, y \in S : x \in A[y] => A[x] \subseteq A[y]
  PROVE  /\ Cardinality(S) \in Nat
         /\ \A x \in S : Cardinality(A[x]) \in 0 .. Cardinality(S) - 1
         /\ \A x, y \in S : x \in A[y] <=> Cardinality(A[x]) < Cardinality(A[y])
         /\ \A n \in 1 .. Cardinality(S) : \E x \in S : Cardinality(A[x]) = n - 1
<1> DEFINE c == Cardinality(S)
           r == [x \in S |-> Cardinality(A[x])]
<1>1. c \in Nat
  BY FS_CardinalityType
<1>2. \A x \in S : IsFiniteSet(A[x]) /\ Cardinality(A[x]) \in Nat
  BY FS_Subset, FS_CardinalityType
<1>3. ASSUME NEW x \in S PROVE Cardinality(A[x]) < c
  <2>1. A[x] \in SUBSET S /\ A[x] # S
    OBVIOUS
  <2>2. Cardinality(A[x]) <= c /\ (c = Cardinality(A[x]) => S = A[x])
    BY <2>1, FS_Subset
  <2>3. QED
    BY <1>1, <1>2, <2>1, <2>2
<1>4. ASSUME NEW x \in S, NEW y \in S, x \in A[y] PROVE Cardinality(A[x]) < Cardinality(A[y])
  <2>1. A[x] \in SUBSET A[y] /\ A[x] # A[y]
    BY <1>4
  <2>2. Cardinality(A[x]) <= Cardinality(A[y])
        /\ (Cardinality(A[y]) = Cardinality(A[x]) => A[y] = A[x])
    BY <1>2, <2>1, FS_Subset
  <2>3. QED
    BY <1>2, <2>1, <2>2
<1>5. ASSUME NEW x \in S, NEW y \in S
      PROVE  x \in A[y] <=> Cardinality(A[x]) < Cardinality(A[y])
  <2>1. CASE x = y
    BY <1>2, <2>1
  <2>2. CASE x # y
    <3>1. x \in A[y] \/ y \in A[x]
      BY <2>2
    <3>2. x \in A[y] => Cardinality(A[x]) < Cardinality(A[y])
      BY <1>4
    <3>3. y \in A[x] => Cardinality(A[y]) < Cardinality(A[x])
      BY <1>4
    <3>4. QED
      BY <1>2, <3>1, <3>2, <3>3
  <2>3. QED
    BY <2>1, <2>2
<1>6. r \in [S -> 0 .. c - 1]
  BY <1>1, <1>2, <1>3
<1>7. r \in Injection(S, 0 .. c - 1)
  <2>1. \A x, y \in S : Cardinality(A[x]) = Cardinality(A[y]) => x = y
    BY <1>2, <1>5
  <2>2. QED
    BY <1>6, <2>1 DEF Injection, IsInjective
<1>8. IsFiniteSet(0 .. c - 1) /\ Cardinality(0 .. c - 1) = c
  BY <1>1, FS_Interval
<1>9. r \in Surjection(S, 0 .. c - 1)
  BY <1>7, <1>8, FS_Injection
<1>10. ASSUME NEW n \in 1 .. c PROVE \E x \in S : Cardinality(A[x]) = n - 1
  <2>1. n - 1 \in 0 .. c - 1
    BY <1>1
  <2>2. PICK x \in S : r[x] = n - 1
    BY <1>9, <2>1 DEF Surjection
  <2>3. QED
    BY <2>2
<1>11. QED
  BY <1>1, <1>5, <1>6, <1>10

\* Picking the places K of g: the entries there, in the order of the places.
LEMMA PickedIs ==
  ASSUME NEW g, NEW K \in SUBSET Nat, IsFiniteSet(K)
  PROVE  \E c, f : Numbers(f, c, K) /\ Picked(g, K) = [n \in 1 .. c |-> g[f[n]]]
<1> DEFINE S == {<<k, g[k]>> : k \in K}
           A == [x \in S |-> {y \in S : y[1] < x[1]}]
           c == Cardinality(S)
           chosen(n) == CHOOSE x \in S : Cardinality({y \in S : y[1] < x[1]}) = n - 1
           f == [n \in 1 .. c |-> chosen(n)[1]]
<1>1. IsFiniteSet(S)
  BY EntriesFinite
<1>2. Picked(g, K) = [n \in 1 .. c |-> chosen(n)[2]]
  BY DEF Picked, Kept, InOrder
<1>3. \A x \in S : x[1] \in K /\ x[1] \in Nat /\ x[2] = g[x[1]] /\ x = <<x[1], x[2]>>
  OBVIOUS
<1>4. \A k \in K : \E x \in S : x[1] = k
  <2>1. ASSUME NEW k \in K PROVE \E x \in S : x[1] = k
    <3>1. <<k, g[k]>> \in S /\ <<k, g[k]>>[1] = k
      OBVIOUS
    <3>2. QED
      BY <3>1
  <2>2. QED
    BY <2>1
<1> HIDE DEF S
<1>5. A \in [S -> SUBSET S]
  OBVIOUS
<1>6. \A x, y \in S : y \in A[x] <=> y[1] < x[1]
  OBVIOUS
<1>7. \A n : chosen(n) = CHOOSE x \in S : Cardinality(A[x]) = n - 1
  <2>1. \A x \in S : {y \in S : y[1] < x[1]} = A[x]
    OBVIOUS
  <2>2. QED
    BY <2>1
<1> HIDE DEF A, chosen
<1>8. \A x \in S : x \notin A[x]
  BY <1>3, <1>6
<1>9. \A x, y \in S : x # y => x \in A[y] \/ y \in A[x]
  <2>1. ASSUME NEW x \in S, NEW y \in S, x[1] = y[1] PROVE x = y
    BY <1>3, <2>1
  <2>2. QED
    BY <1>3, <1>6, <2>1
<1>10. \A x, y \in S : x \in A[y] => A[x] \subseteq A[y]
  <2>1. ASSUME NEW x \in S, NEW y \in S, x \in A[y], NEW z \in A[x] PROVE z \in A[y]
    <3>1. z \in S
      BY <1>5
    <3>2. z[1] < x[1] /\ x[1] < y[1]
      BY <1>6, <2>1, <3>1
    <3>3. QED
      BY <1>3, <1>6, <3>1, <3>2
  <2>2. QED
    BY <2>1
<1>11. /\ c \in Nat
       /\ \A x \in S : Cardinality(A[x]) \in 0 .. c - 1
       /\ \A x, y \in S : x \in A[y] <=> Cardinality(A[x]) < Cardinality(A[y])
       /\ \A n \in 1 .. c : \E x \in S : Cardinality(A[x]) = n - 1
  BY <1>1, <1>5, <1>8, <1>9, <1>10, Ranks
<1>12. \A n \in 1 .. c : chosen(n) \in S /\ Cardinality(A[chosen(n)]) = n - 1
  <2>1. ASSUME NEW n \in 1 .. c PROVE chosen(n) \in S /\ Cardinality(A[chosen(n)]) = n - 1
    <3>1. \E x \in S : Cardinality(A[x]) = n - 1
      BY <1>11
    <3>2. QED
      BY <1>7, <3>1
  <2>2. QED
    BY <2>1
<1> HIDE DEF c
<1>13. \A n \in 1 .. c : f[n] = chosen(n)[1] /\ f[n] \in K
  BY <1>3, <1>12
<1>14. \A n, m \in 1 .. c : n < m => f[n] < f[m]
  <2>1. ASSUME NEW n \in 1 .. c, NEW m \in 1 .. c, n < m PROVE f[n] < f[m]
    <3>1. chosen(n) \in A[chosen(m)]
      BY <1>11, <1>12, <2>1
    <3>2. QED
      BY <1>6, <1>12, <1>13, <3>1
  <2>2. QED
    BY <2>1
<1>15. \A k \in K : \E n \in 1 .. c : f[n] = k
  <2>1. ASSUME NEW k \in K PROVE \E n \in 1 .. c : f[n] = k
    <3>1. PICK x \in S : x[1] = k
      BY <1>4
    <3> DEFINE n == Cardinality(A[x]) + 1
    <3>2. n \in 1 .. c /\ Cardinality(A[x]) = n - 1
      BY <1>11
    <3> HIDE DEF n
    <3>3. chosen(n) = x
      <4>1. chosen(n) \in S /\ Cardinality(A[chosen(n)]) = Cardinality(A[x])
        BY <1>12, <3>2
      <4>2. chosen(n) \notin A[x] /\ x \notin A[chosen(n)]
        BY <1>11, <4>1
      <4>3. QED
        BY <1>9, <4>1, <4>2
    <3>4. QED
      BY <1>13, <3>1, <3>2, <3>3
  <2>2. QED
    BY <2>1
<1>16. Numbers(f, c, K)
  <2>1. f \in [1 .. c -> K]
    BY <1>13
  <2> HIDE DEF f
  <2>2. QED
    BY <1>11, <1>14, <1>15, <2>1 DEF Numbers
<1>17. Picked(g, K) = [n \in 1 .. c |-> g[f[n]]]
  <2>1. \A n \in 1 .. c : chosen(n)[2] = g[f[n]]
    BY <1>3, <1>12, <1>13
  <2>2. QED
    BY <1>2, <2>1 DEF c
<1> HIDE DEF f
<1>18. QED
  BY <1>16, <1>17

\* r holds the entries of s at the places K, which f numbers.
Takes(r, s, f, K, S) ==
  /\ Numbers(f, Len(r), K)
  /\ r \in Seq(S)
  /\ \A n \in 1 .. Len(r) : r[n] = s[f[n]]

\* The same for a vector.
LEMMA PickedFrom ==
  ASSUME NEW S, NEW s \in Seq(S), NEW K \in SUBSET DOMAIN s
  PROVE  \E f : Takes(Picked(s, K), s, f, K, S)
<1>1. DOMAIN s = 1 .. Len(s) /\ Len(s) \in Nat
  OBVIOUS
<1>2. IsFiniteSet(K) /\ K \in SUBSET Nat
  <2>1. IsFiniteSet(1 .. Len(s)) /\ K \in SUBSET (1 .. Len(s))
    BY <1>1, FS_Interval
  <2>2. QED
    BY <2>1, FS_Subset
<1>3. PICK c, f : Numbers(f, c, K) /\ Picked(s, K) = [n \in 1 .. c |-> s[f[n]]]
  BY <1>2, PickedIs
<1>4. c \in Nat /\ \A n \in 1 .. c : f[n] \in K /\ s[f[n]] \in S
  BY <1>3 DEF Numbers
<1>5. Picked(s, K) \in Seq(S) /\ Len(Picked(s, K)) = c
  BY <1>3, <1>4
<1>6. \A n \in 1 .. c : Picked(s, K)[n] = s[f[n]]
  BY <1>3
<1>7. QED
  BY <1>3, <1>5, <1>6 DEF Takes

\* Picking depends on the entries at the places only.
LEMMA PickedAlike ==
  ASSUME NEW s, NEW t, NEW K, \A k \in K : s[k] = t[k]
  PROVE  Picked(s, K) = Picked(t, K)
<1>1. {<<i, s[i]>> : i \in K} = {<<i, t[i]>> : i \in K}
  OBVIOUS
<1>2. QED
  BY <1>1 DEF Picked

\* The places whose entry is in T.
PlacesOf(s, T) == {i \in DOMAIN s : s[i] \in T}

\* What is picked for its value comes out the same when others went before.
LEMMA PickedAgain ==
  ASSUME NEW S, NEW s \in Seq(S), NEW K \in SUBSET DOMAIN s, NEW T,
         \A i \in DOMAIN s : s[i] \in T => i \in K
  PROVE  Picked(Picked(s, K), PlacesOf(Picked(s, K), T)) = Picked(s, PlacesOf(s, T))
<1> DEFINE r == Picked(s, K)
           P == {i \in DOMAIN s : s[i] \in T}
           Q == {n \in DOMAIN r : r[n] \in T}
<1>1. DOMAIN s = 1 .. Len(s) /\ Len(s) \in Nat /\ P \in SUBSET DOMAIN s /\ P \in SUBSET Nat
      /\ K \in SUBSET Nat
  OBVIOUS
<1>2. PICK f : Takes(r, s, f, K, S)
  BY PickedFrom
<1>3. PICK h : Takes(Picked(s, P), s, h, P, S)
  <2>1. P \in SUBSET DOMAIN s
    OBVIOUS
  <2> HIDE DEF P
  <2>2. QED
    BY <2>1, PickedFrom
<1>4. Q \in SUBSET DOMAIN r /\ r \in Seq(S)
  BY <1>2 DEF Takes
<1>5. PICK g : Takes(Picked(r, Q), r, g, Q, S)
  <2> HIDE DEF Q, r
  <2>1. QED
    BY <1>4, PickedFrom
<1> DEFINE c == Len(r)
           d == Len(Picked(s, P))
           e == Len(Picked(r, Q))
<1>6. /\ Numbers(f, c, K) /\ \A n \in 1 .. c : r[n] = s[f[n]]
  BY <1>2 DEF Takes
<1>7. /\ Numbers(h, d, P) /\ \A n \in 1 .. d : Picked(s, P)[n] = s[h[n]]
      /\ Picked(s, P) \in Seq(S)
  BY <1>3 DEF Takes
<1>8. /\ Numbers(g, e, Q) /\ \A n \in 1 .. e : Picked(r, Q)[n] = r[g[n]]
      /\ Picked(r, Q) \in Seq(S)
  BY <1>5 DEF Takes
<1>9. DOMAIN r = 1 .. c /\ c \in Nat /\ d \in Nat /\ e \in Nat
  BY <1>4, <1>6, <1>7, <1>8 DEF Numbers
<1>10. \A n \in 1 .. c : n \in Q <=> f[n] \in P
  BY <1>1, <1>6, <1>9 DEF Numbers
<1>11. \A i \in P : i \in K
  OBVIOUS
<1>12. \A n \in Q : n \in 1 .. c
  BY <1>9
<1> HIDE DEF r, P, Q, c, d, e
<1> DEFINE k == [n \in 1 .. e |-> f[g[n]]]
<1>13. Numbers(k, e, P)
  <2>1. \A n \in 1 .. e : g[n] \in Q /\ g[n] \in 1 .. c /\ f[g[n]] \in P
    BY <1>8, <1>10, <1>12 DEF Numbers
  <2>2. k \in [1 .. e -> P]
    BY <2>1
  <2>3. \A n, m \in 1 .. e : n < m => k[n] < k[m]
    <3>1. ASSUME NEW n \in 1 .. e, NEW m \in 1 .. e, n < m PROVE k[n] < k[m]
      <4>1. g[n] < g[m]
        BY <1>8, <3>1 DEF Numbers
      <4>2. f[g[n]] < f[g[m]]
        BY <1>6, <2>1, <4>1 DEF Numbers
      <4>3. QED
        BY <4>2
    <3>2. QED
      BY <3>1
  <2>4. \A i \in P : \E n \in 1 .. e : k[n] = i
    <3>1. ASSUME NEW i \in P PROVE \E n \in 1 .. e : k[n] = i
      <4>1. PICK m \in 1 .. c : f[m] = i
        BY <1>6, <1>11 DEF Numbers
      <4>2. PICK n \in 1 .. e : g[n] = m
        BY <1>8, <1>10, <4>1 DEF Numbers
      <4>3. QED
        BY <4>1, <4>2
    <3>2. QED
      BY <3>1
  <2> HIDE DEF k
  <2>5. QED
    BY <1>9, <2>2, <2>3, <2>4 DEF Numbers
<1>14. e = d /\ k = h
  <2> HIDE DEF k
  <2>1. QED
    BY <1>1, <1>7, <1>13, OneNumbering
<1>15. \A n \in 1 .. d : Picked(r, Q)[n] = Picked(s, P)[n]
  <2>1. ASSUME NEW n \in 1 .. d PROVE Picked(r, Q)[n] = Picked(s, P)[n]
    <3>1. h[n] = f[g[n]] /\ g[n] \in 1 .. c
      BY <1>8, <1>12, <1>14 DEF Numbers
    <3>2. Picked(r, Q)[n] = s[f[g[n]]]
      BY <1>6, <1>8, <1>14, <3>1
    <3>3. QED
      BY <1>7, <3>1, <3>2
  <2>2. QED
    BY <2>1
<1>16. Picked(r, Q) = Picked(s, P)
  BY <1>7, <1>8, <1>14, <1>15 DEF d, e
<1>17. QED
  BY <1>16 DEF r, P, Q, PlacesOf

-----------------------------------------------------------------------------
(* The run of records.                                                      *)

\* R entries come before the run.
Starts(ps, R) ==
  /\ R \in 0 .. Len(ps)
  /\ R > 0 => ~ IsSideChannelEntry(ps[R])
  /\ \A i \in R + 1 .. Len(ps) : IsSideChannelEntry(ps[i])

LEMMA RunStartIs ==
  ASSUME NEW ps \in Seq(Entry)
  PROVE  Starts(ps, RunStart(ps))
<1> DEFINE D == {0} \union {n \in DOMAIN ps : ~ IsSideChannelEntry(ps[n])}
<1>1. Len(ps) \in Nat /\ DOMAIN ps = 1 .. Len(ps)
  OBVIOUS
<1>2. D \in SUBSET (0 .. Len(ps)) /\ D # {}
  BY <1>1
<1>3. RunStart(ps) = Max(D)
  BY DEF RunStart
<1>4. Max(D) \in D /\ \A k \in D : k <= Max(D)
  <2> HIDE DEF D
  <2>1. QED
    BY <1>1, <1>2, MaxIs
<1> DEFINE R == RunStart(ps)
<1>5. R \in D /\ \A k \in D : k <= R
  BY <1>3, <1>4
<1> HIDE DEF R
<1>6. R \in 0 .. Len(ps)
  BY <1>2, <1>5
<1>7. R > 0 => ~ IsSideChannelEntry(ps[R])
  BY <1>5
<1>8. ASSUME NEW i \in R + 1 .. Len(ps) PROVE IsSideChannelEntry(ps[i])
  <2>1. i \in DOMAIN ps /\ ~ (i <= R)
    BY <1>1, <1>6
  <2>2. i \notin D
    BY <1>5, <2>1
  <2>3. QED
    BY <2>1, <2>2
<1>9. QED
  BY <1>6, <1>7, <1>8 DEF Starts, R

LEMMA OneStart ==
  ASSUME NEW ps \in Seq(Entry), NEW R, Starts(ps, R)
  PROVE  RunStart(ps) = R
<1> DEFINE Q == RunStart(ps)
<1>1. Starts(ps, Q)
  BY RunStartIs
<1> HIDE DEF Q
<1>2. Len(ps) \in Nat /\ R \in 0 .. Len(ps) /\ Q \in 0 .. Len(ps)
  BY <1>1 DEF Starts
<1>3. ~ (R < Q)
  <2>1. R < Q => Q \in R + 1 .. Len(ps) /\ Q > 0
    BY <1>2
  <2>2. QED
    BY <1>1, <2>1 DEF Starts
<1>4. ~ (Q < R)
  <2>1. Q < R => R \in Q + 1 .. Len(ps) /\ R > 0
    BY <1>2
  <2>2. QED
    BY <1>1, <2>1 DEF Starts
<1>5. QED
  BY <1>2, <1>3, <1>4 DEF Q

\* i is the last entry of the run with tag t, or 0 when there is none.
Finds(ps, t, i) ==
  \/ i = 0 /\ \A k \in RunStart(ps) + 1 .. Len(ps) : ps[k].stride # t
  \/ /\ i \in RunStart(ps) + 1 .. Len(ps)
     /\ ps[i].stride = t
     /\ \A k \in i + 1 .. Len(ps) : ps[k].stride # t

LEMMA IndexIs ==
  ASSUME NEW ps \in Seq(Entry), NEW t
  PROVE  Finds(ps, t, Index(ps, t))
<1> DEFINE R == RunStart(ps)
           D == {0} \union {i \in R + 1 .. Len(ps) : ps[i].stride = t}
           I == Index(ps, t)
<1>1. Len(ps) \in Nat /\ R \in 0 .. Len(ps)
  BY RunStartIs DEF Starts
<1>2. I = Max(D)
  BY DEF Index
<1> HIDE DEF R, I
<1>3. D \in SUBSET (0 .. Len(ps)) /\ D # {}
  BY <1>1
<1>4. I \in D /\ \A k \in D : k <= I
  <2> HIDE DEF D
  <2>1. QED
    BY <1>1, <1>2, <1>3, MaxIs
<1>5. I \in 0 .. Len(ps)
  BY <1>3, <1>4
<1>6. ASSUME NEW k \in R + 1 .. Len(ps), k > I PROVE ps[k].stride # t
  <2>1. ~ (k <= I)
    BY <1>1, <1>5, <1>6
  <2>2. k \notin D
    BY <1>4, <2>1
  <2>3. QED
    BY <2>2
<1>7. CASE I = 0
  <2>1. \A k \in R + 1 .. Len(ps) : k > I
    BY <1>1, <1>7
  <2>2. QED
    BY <1>6, <1>7, <2>1 DEF Finds, R, I
<1>8. CASE I # 0
  <2>1. I \in R + 1 .. Len(ps) /\ ps[I].stride = t
    BY <1>4, <1>8
  <2>2. \A k \in I + 1 .. Len(ps) : k \in R + 1 .. Len(ps) /\ k > I
    BY <1>1, <1>5, <2>1
  <2>3. QED
    BY <1>6, <2>1, <2>2 DEF Finds, R, I
<1>9. QED
  BY <1>7, <1>8

LEMMA OneIndex ==
  ASSUME NEW ps \in Seq(Entry), NEW t, NEW i, Finds(ps, t, i)
  PROVE  Index(ps, t) = i
<1> DEFINE R == RunStart(ps)
           I == Index(ps, t)
<1>1. Len(ps) \in Nat /\ R \in 0 .. Len(ps)
  BY RunStartIs DEF Starts
<1>2. Finds(ps, t, I)
  BY IndexIs
<1> HIDE DEF I
<1>3. \/ i = 0 /\ \A k \in R + 1 .. Len(ps) : ps[k].stride # t
      \/ /\ i \in R + 1 .. Len(ps) /\ ps[i].stride = t
         /\ \A k \in i + 1 .. Len(ps) : ps[k].stride # t
  BY DEF Finds
<1>4. \/ I = 0 /\ \A k \in R + 1 .. Len(ps) : ps[k].stride # t
      \/ /\ I \in R + 1 .. Len(ps) /\ ps[I].stride = t
         /\ \A k \in I + 1 .. Len(ps) : ps[k].stride # t
  BY <1>2 DEF Finds
<1> HIDE DEF R
<1>5. CASE i = 0
  BY <1>1, <1>3, <1>4, <1>5 DEF I
<1>6. CASE i # 0
  <2>1. I # 0
    BY <1>3, <1>4, <1>6
  <2>2. i \in R + 1 .. Len(ps) /\ I \in R + 1 .. Len(ps)
    BY <1>3, <1>4, <1>6, <2>1
  <2>3. i < I => I \in i + 1 .. Len(ps)
    BY <1>1, <2>2
  <2>4. I < i => i \in I + 1 .. Len(ps)
    BY <1>1, <2>2
  <2>5. ~ (i < I) /\ ~ (I < i)
    BY <1>3, <1>4, <1>6, <2>1, <2>3, <2>4
  <2>6. QED
    BY <1>1, <2>2, <2>5 DEF I
<1>7. QED
  BY <1>5, <1>6

-----------------------------------------------------------------------------
(* What a setter does to the vector.                                        *)

\* Nothing but record t differs.
Others(ps, qs, t) ==
  /\ qs \in Seq(Entry)
  /\ ImagePlanes(qs) = ImagePlanes(ps)
  /\ ReservedRecords(qs) = ReservedRecords(ps)
  /\ \A u \in Tags \ {t} : Data(qs, u) = Data(ps, u)

\* Two vectors that start alike have the same image planes.
LEMMA SameImages ==
  ASSUME NEW ps \in Seq(Entry), NEW qs \in Seq(Entry), NEW R, Starts(ps, R), Starts(qs, R),
         \A n \in 1 .. R : qs[n] = ps[n]
  PROVE  ImagePlanes(qs) = ImagePlanes(ps)
<1>1. RunStart(ps) = R /\ RunStart(qs) = R
  BY OneStart
<1>2. R \in 0 .. Len(ps) /\ R \in 0 .. Len(qs) /\ Len(ps) \in Nat /\ Len(qs) \in Nat
  BY DEF Starts
<1>3. /\ SubSeq(ps, 1, R) \in Seq(Entry) /\ Len(SubSeq(ps, 1, R)) = R
      /\ \A n \in 1 .. R : SubSeq(ps, 1, R)[n] = ps[n]
  BY <1>2
<1>4. /\ SubSeq(qs, 1, R) \in Seq(Entry) /\ Len(SubSeq(qs, 1, R)) = R
      /\ \A n \in 1 .. R : SubSeq(qs, 1, R)[n] = qs[n]
  BY <1>2
<1>5. SubSeq(qs, 1, R) = SubSeq(ps, 1, R)
  BY <1>3, <1>4
<1>6. QED
  BY <1>1, <1>5 DEF ImagePlanes

\* remove_side_channel takes record t, and only it, duplicates included.
LEMMA RemoveIs ==
  ASSUME NEW ps \in Seq(Entry), NEW t \in Tags
  PROVE  Others(ps, Remove(ps, t), t) /\ Data(Remove(ps, t), t) = <<>>
<1> DEFINE R == RunStart(ps)
           K == {i \in DOMAIN ps : i <= R \/ ps[i].stride # t}
           r == Remove(ps, t)
           c == Len(r)
<1>1. /\ Len(ps) \in Nat /\ DOMAIN ps = 1 .. Len(ps) /\ K \in SUBSET DOMAIN ps
      /\ K \in SUBSET Nat /\ 0 \notin K
  OBVIOUS
<1>2. Starts(ps, R)
  BY RunStartIs
<1>3. R \in 0 .. Len(ps) /\ 1 .. R \subseteq K
  BY <1>1, <1>2 DEF Starts
<1>4. r = Picked(ps, K)
  BY DEF Remove
<1>5. PICK f : Takes(r, ps, f, K, Entry)
  <2>1. K \in SUBSET DOMAIN ps
    BY <1>1
  <2> HIDE DEF K, r
  <2>2. QED
    BY <1>4, <2>1, PickedFrom
<1>6. /\ r \in Seq(Entry) /\ Numbers(f, c, K) /\ c \in Nat /\ DOMAIN r = 1 .. c
      /\ \A n \in 1 .. c : r[n] = ps[f[n]]
  BY <1>5 DEF Takes
<1>7. /\ R <= c
      /\ \A n \in 1 .. R : f[n] = n
      /\ \A n \in 1 .. c : n > R => f[n] > R
  <2> HIDE DEF K
  <2>1. QED
    BY <1>1, <1>3, <1>6, FrontKept
<1>8. \A n \in 1 .. c : f[n] \in 1 .. Len(ps) /\ f[n] \in K
  BY <1>1, <1>6 DEF Numbers
<1>9. \A n \in R + 1 .. c : n \in 1 .. c /\ f[n] \in R + 1 .. Len(ps) /\ ps[f[n]].stride # t
  <2>1. ASSUME NEW n \in R + 1 .. c
        PROVE  n \in 1 .. c /\ f[n] \in R + 1 .. Len(ps) /\ ps[f[n]].stride # t
    <3>1. n \in 1 .. c /\ n > R
      BY <1>3, <1>6
    <3>2. f[n] > R /\ f[n] \in 1 .. Len(ps) /\ f[n] \in K
      BY <1>7, <1>8, <3>1
    <3>3. f[n] \in R + 1 .. Len(ps) /\ ~ (f[n] <= R)
      BY <1>3, <3>2
    <3>4. QED
      BY <3>1, <3>2, <3>3
  <2>2. QED
    BY <2>1
<1>10. \A i \in R + 1 .. Len(ps) : ps[i].stride # t => \E n \in R + 1 .. c : f[n] = i
  <2>1. ASSUME NEW i \in R + 1 .. Len(ps), ps[i].stride # t
        PROVE  \E n \in R + 1 .. c : f[n] = i
    <3>1. i \in K
      BY <1>1, <1>3, <2>1
    <3>2. PICK n \in 1 .. c : f[n] = i
      BY <1>6, <3>1 DEF Numbers
    <3>3. ~ (n <= R)
      BY <1>3, <1>7, <2>1, <3>2
    <3>4. QED
      BY <1>3, <1>6, <3>2, <3>3
  <2>2. QED
    BY <2>1
<1>11. \A n, m \in 1 .. c : n < m => f[n] < f[m]
  BY <1>6 DEF Numbers
<1> HIDE DEF R, K, r, c
<1>12. Starts(r, R)
  <2>1. R > 0 => r[R] = ps[R]
    <3>1. R > 0 => R \in 1 .. R /\ R \in 1 .. c
      BY <1>3, <1>6, <1>7
    <3>2. QED
      BY <1>6, <1>7, <3>1
  <2>2. \A n \in R + 1 .. c : IsSideChannelEntry(r[n])
    BY <1>2, <1>6, <1>9 DEF Starts
  <2>3. QED
    BY <1>2, <1>3, <1>6, <1>7, <2>1, <2>2 DEF Starts, c
<1>13. ImagePlanes(r) = ImagePlanes(ps)
  <2>1. \A n \in 1 .. R : r[n] = ps[n]
    BY <1>3, <1>6, <1>7
  <2>2. QED
    BY <1>2, <1>6, <1>12, <2>1, SameImages
<1>14. RunStart(r) = R
  BY <1>6, <1>12, OneStart
<1>15. ReservedRecords(r) = ReservedRecords(ps)
  <2> DEFINE T == {e \in Entry : e.stride = "reserved"}
  <2>1. \A i \in DOMAIN ps : ps[i] \in T <=> ps[i].stride = "reserved"
    OBVIOUS
  <2>2. \A n \in DOMAIN r : r[n] \in T <=> r[n].stride = "reserved"
    BY <1>6
  <2>3. \A i \in DOMAIN ps : ps[i] \in T => i \in K
    BY <2>1 DEF K, Tags
  <2>4. K \in SUBSET DOMAIN ps
    BY DEF K
  <2> HIDE DEF T
  <2>5. Picked(Picked(ps, K), PlacesOf(Picked(ps, K), T)) = Picked(ps, PlacesOf(ps, T))
    BY <2>3, <2>4, PickedAgain
  <2>6. PlacesOf(ps, T) = {i \in DOMAIN ps : ps[i].stride = "reserved"}
    BY <2>1 DEF PlacesOf
  <2>7. PlacesOf(r, T) = {n \in DOMAIN r : r[n].stride = "reserved"}
    BY <2>2 DEF PlacesOf
  <2>8. QED
    BY <1>4, <2>5, <2>6, <2>7 DEF ReservedRecords
<1>16. Data(r, t) = <<>>
  <2>1. \A n \in R + 1 .. c : r[n].stride # t
    BY <1>6, <1>9
  <2>2. Finds(r, t, 0)
    BY <1>14, <2>1 DEF Finds, c
  <2>3. QED
    BY <1>6, <2>2, OneIndex DEF Data
<1>17. ASSUME NEW u \in Tags \ {t} PROVE Data(r, u) = Data(ps, u)
  <2> DEFINE i == Index(ps, u)
  <2>1. Finds(ps, u, i)
    BY IndexIs
  <2> HIDE DEF i
  <2>2. CASE i = 0
    <3>1. \A k \in R + 1 .. Len(ps) : ps[k].stride # u
      <4>1. i \notin R + 1 .. Len(ps)
        BY <1>3, <2>2
      <4>2. QED
        BY <2>1, <4>1 DEF Finds, R
    <3>2. \A n \in R + 1 .. c : r[n].stride # u
      BY <1>6, <1>9, <3>1
    <3>3. Finds(r, u, 0)
      BY <1>14, <3>2 DEF Finds, c
    <3>4. Index(r, u) = 0
      BY <1>6, <3>3, OneIndex
    <3>5. QED
      BY <2>2, <3>4 DEF Data, i
  <2>3. CASE i # 0
    <3>1. /\ i \in R + 1 .. Len(ps)
          /\ ps[i].stride = u
          /\ \A k \in i + 1 .. Len(ps) : ps[k].stride # u
      BY <2>1, <2>3 DEF Finds, R
    <3>2. PICK n \in R + 1 .. c : f[n] = i
      BY <1>10, <1>17, <3>1
    <3>3. n \in 1 .. c /\ r[n] = ps[i] /\ n # 0
      BY <1>6, <1>9, <3>2
    <3>4. ASSUME NEW m \in n + 1 .. c PROVE r[m].stride # u
      <4>1. m \in 1 .. c /\ n < m /\ m \in R + 1 .. c
        BY <1>3, <1>6, <3>2, <3>3
      <4>2. i < f[m] /\ f[m] \in R + 1 .. Len(ps)
        BY <1>9, <1>11, <3>2, <3>3, <4>1
      <4>3. f[m] \in i + 1 .. Len(ps)
        BY <1>3, <3>1, <4>2
      <4>4. QED
        BY <1>6, <3>1, <4>1, <4>3
    <3>5. Finds(r, u, n)
      BY <1>14, <3>1, <3>2, <3>3, <3>4 DEF Finds, c
    <3>6. Index(r, u) = n
      BY <1>6, <3>5, OneIndex
    <3>7. QED
      BY <2>3, <3>3, <3>6 DEF Data, i
  <2>4. QED
    BY <2>2, <2>3
<1>18. QED
  BY <1>6, <1>13, <1>15, <1>16, <1>17 DEF Others, r

\* Pushing a record adds it and changes no other.
LEMMA PushIs ==
  ASSUME NEW ps \in Seq(Entry), NEW t \in Tags, NEW d \in Seq(Nat), d # <<>>
  PROVE  LET qs == Append(ps, [stride |-> t, data |-> d])
         IN  Others(ps, qs, t) /\ Data(qs, t) = d
<1> DEFINE e == [stride |-> t, data |-> d]
           qs == Append(ps, e)
           R == RunStart(ps)
           k == Len(ps)
<1>1. e \in Entry /\ e.stride = t /\ e.data = d /\ IsSideChannelEntry(e)
  BY DEF Entry, IsSideChannelEntry, Tags
<1>2. k \in Nat /\ DOMAIN ps = 1 .. k
  OBVIOUS
<1> HIDE DEF e
<1>3. /\ qs \in Seq(Entry) /\ Len(qs) = k + 1 /\ DOMAIN qs = 1 .. k + 1
      /\ \A n \in 1 .. k : qs[n] = ps[n]
      /\ qs[k + 1] = e
  BY <1>1
<1> HIDE DEF qs
<1>4. Starts(ps, R)
  BY RunStartIs
<1> HIDE DEF R
<1>5. R \in 0 .. k
  BY <1>4 DEF Starts
<1>6. Starts(qs, R)
  <2>1. R > 0 => qs[R] = ps[R]
    BY <1>2, <1>3, <1>5
  <2>2. ASSUME NEW i \in R + 1 .. k + 1 PROVE IsSideChannelEntry(qs[i])
    <3>1. CASE i = k + 1
      BY <1>1, <1>3, <3>1
    <3>2. CASE i # k + 1
      <4>1. i \in R + 1 .. k /\ i \in 1 .. k
        BY <1>2, <1>5, <3>2
      <4>2. QED
        BY <1>3, <1>4, <4>1 DEF Starts
    <3>3. QED
      BY <3>1, <3>2
  <2>3. QED
    BY <1>2, <1>3, <1>4, <1>5, <2>1, <2>2 DEF Starts
<1>7. RunStart(qs) = R /\ RunStart(ps) = R
  BY <1>3, <1>4, <1>6, OneStart
<1>8. ImagePlanes(qs) = ImagePlanes(ps)
  <2>1. \A n \in 1 .. R : qs[n] = ps[n]
    BY <1>2, <1>3, <1>5
  <2>2. QED
    BY <1>3, <1>4, <1>6, <2>1, SameImages
<1>9. ReservedRecords(qs) = ReservedRecords(ps)
  <2> DEFINE P == {i \in DOMAIN ps : ps[i].stride = "reserved"}
             Q == {i \in DOMAIN qs : qs[i].stride = "reserved"}
  <2>1. qs[k + 1].stride # "reserved"
    BY <1>1, <1>3 DEF Tags
  <2>2. P = Q
    <3>1. \A i \in 1 .. k + 1 : i # k + 1 => i \in 1 .. k
      BY <1>2
    <3>2. \A i \in 1 .. k : i \in 1 .. k + 1
      BY <1>2
    <3>3. QED
      BY <1>2, <1>3, <2>1, <3>1, <3>2
  <2>3. \A i \in P : qs[i] = ps[i]
    BY <1>2, <1>3
  <2> HIDE DEF P, Q
  <2>4. Picked(qs, P) = Picked(ps, P)
    BY <2>3, PickedAlike
  <2>5. QED
    BY <2>2, <2>4 DEF ReservedRecords, P, Q
<1>10. Data(qs, t) = d
  <2>1. Finds(qs, t, k + 1)
    <3>1. k + 1 \in R + 1 .. k + 1 /\ k + 1 + 1 .. k + 1 = {}
      BY <1>2, <1>5
    <3>2. QED
      BY <1>1, <1>3, <1>7, <3>1 DEF Finds
  <2>2. Index(qs, t) = k + 1
    BY <1>3, <2>1, OneIndex
  <2>3. QED
    BY <1>1, <1>2, <1>3, <2>2 DEF Data
<1>11. ASSUME NEW u \in Tags \ {t} PROVE Data(qs, u) = Data(ps, u)
  <2> DEFINE i == Index(ps, u)
  <2>1. Finds(ps, u, i)
    BY IndexIs
  <2> HIDE DEF i
  <2>2. \A n \in R + 1 .. k + 1 : n # k + 1 => n \in R + 1 .. k /\ qs[n] = ps[n]
    BY <1>2, <1>3, <1>5
  <2>3. qs[k + 1].stride # u
    BY <1>1, <1>3
  <2>4. Finds(qs, u, i)
    <3>1. CASE i = 0
      <4>1. \A n \in R + 1 .. k : ps[n].stride # u
        <5>1. i \notin R + 1 .. k
          BY <1>2, <1>5, <3>1
        <5>2. QED
          BY <1>7, <2>1, <5>1 DEF Finds
      <4>2. \A n \in R + 1 .. k + 1 : qs[n].stride # u
        BY <2>2, <2>3, <4>1
      <4>3. QED
        BY <1>3, <1>7, <3>1, <4>2 DEF Finds
    <3>2. CASE i # 0
      <4>1. /\ i \in R + 1 .. k /\ ps[i].stride = u
            /\ \A n \in i + 1 .. k : ps[n].stride # u
        BY <1>7, <2>1, <3>2 DEF Finds
      <4>2. i \in R + 1 .. k + 1 /\ i # k + 1 /\ qs[i] = ps[i]
        BY <1>2, <1>3, <1>5, <4>1
      <4>3. \A n \in i + 1 .. k + 1 : n # k + 1 => n \in i + 1 .. k /\ qs[n] = ps[n]
        BY <1>2, <1>3, <1>5, <4>1
      <4>4. \A n \in i + 1 .. k + 1 : qs[n].stride # u
        BY <2>3, <4>1, <4>3
      <4>5. QED
        BY <1>3, <1>7, <4>1, <4>2, <4>4 DEF Finds
    <3>3. QED
      BY <3>1, <3>2
  <2>5. Index(qs, u) = i
    BY <1>3, <2>4, OneIndex
  <2>6. i # 0 => qs[i] = ps[i]
    BY <1>2, <1>3, <1>5, <1>7, <2>1 DEF Finds
  <2>7. QED
    BY <2>5, <2>6 DEF Data, i
<1>12. QED
  BY <1>3, <1>8, <1>9, <1>10, <1>11 DEF Others, qs, e

\* The setters: record t becomes d.
LEMMA PutIs ==
  ASSUME NEW ps \in Seq(Entry), NEW t \in Tags, NEW d \in Seq(Nat)
  PROVE  Others(ps, Put(ps, t, d), t) /\ Data(Put(ps, t, d), t) = d
<1> DEFINE r == Remove(ps, t)
           q == Append(r, [stride |-> t, data |-> d])
<1>1. Others(ps, r, t) /\ Data(r, t) = <<>>
  BY RemoveIs
<1>2. CASE d = <<>>
  BY <1>1, <1>2 DEF Put
<1> HIDE DEF r
<1>3. CASE d # <<>>
  <2>1. r \in Seq(Entry)
    BY <1>1 DEF Others
  <2>2. Others(r, q, t) /\ Data(q, t) = d
    BY <1>3, <2>1, PushIs
  <2> HIDE DEF q
  <2>3. Others(ps, q, t)
    BY <1>1, <2>2 DEF Others
  <2>4. Put(ps, t, d) = q
    BY <1>3 DEF Put, q, r
  <2>5. QED
    BY <2>2, <2>3, <2>4
<1>4. QED
  BY <1>2, <1>3

-----------------------------------------------------------------------------
(* The getters against the table of records.                                *)

\* The inductive invariant: every entry has a stride and bytes.
FrameTyped == planes \in Seq(Entry)

LEMMA FramesTyped ==
  /\ Frames \subseteq Seq(Entry)
  /\ \A t \in Tags : Attachable[t] \subseteq Seq(Nat)
  /\ PaletteSizes \subseteq Nat /\ BlobValues \subseteq Nat /\ Indices \subseteq Nat
BY FramesAssumption

\* The refinement's table of records.
Table(ps) == [t \in Tags |-> Data(ps, t)]

LEMMA DataIs ==
  ASSUME NEW ps \in Seq(Entry), NEW t
  PROVE  Data(ps, t) \in Seq(Nat)
<1> DEFINE i == Index(ps, t)
<1>1. Finds(ps, t, i)
  BY IndexIs
<1>2. RunStart(ps) \in Nat /\ Len(ps) \in Nat
  BY RunStartIs DEF Starts
<1>3. i = 0 \/ i \in 1 .. Len(ps)
  BY <1>1, <1>2 DEF Finds
<1>4. \A k \in 1 .. Len(ps) : ps[k] \in Entry
  OBVIOUS
<1>5. i # 0 => ps[i].data \in Seq(Nat)
  BY <1>3, <1>4 DEF Entry
<1>6. QED
  BY <1>5 DEF Data

LEMMA TagsAre == Records!Tags = Tags
BY DEF Records!Tags, Tags

\* palette_alpha is the abstract report of the alpha record.
LEMMA AlphaIs ==
  ASSUME FrameTyped
  PROVE  PaletteAlpha = Records!Report("alpha")
<1> DEFINE p == Data(planes, "palette")
           a == Data(planes, "alpha")
<1>1. p \in Seq(Nat) /\ a \in Seq(Nat)
  BY DataIs DEF FrameTyped
<1>2. Records!Report("alpha") = IF Len(a) <= Len(p) \div 3 THEN a ELSE <<>>
  BY DEF Records!Report, Records!EntryCount, Tags
<1>3. PaletteAlpha = IF Len(p) \div 3 > 0 /\ Len(a) <= Len(p) \div 3 THEN a ELSE <<>>
  BY DEF PaletteAlpha, EntryCount, Palette
<1> HIDE DEF p, a
<1>4. Len(p) \in Nat /\ Len(a) \in Nat /\ Len(p) \div 3 \in Nat
  BY <1>1
<1>5. Len(a) = 0 => a = <<>>
  BY <1>1
<1>6. QED
  BY <1>2, <1>3, <1>4, <1>5

\* Three data bytes cut out of a sequence, in order.
LEMMA Cut ==
  ASSUME NEW p \in Seq(Nat), NEW k \in Nat, k + 3 <= Len(p)
  PROVE  LET q == SubSeq(p, k + 1, k + 3) IN
         q # <<>> /\ q[1] = p[k + 1] /\ q[2] = p[k + 2] /\ q[3] = p[k + 3]
<1> DEFINE q == SubSeq(p, k + 1, k + 3)
<1>1. Len(q) # 0
  OBVIOUS
<1>2. q[1] = p[k + 1] /\ q[2] = p[k + 2] /\ q[3] = p[k + 3]
  OBVIOUS
<1>3. q # <<>>
  <2> HIDE DEF q
  <2> QED
    BY <1>1
<1>4. QED
  BY <1>2, <1>3

\* palette_rgba is the abstract colour.
LEMMA ColourIs ==
  ASSUME FrameTyped, NEW i \in Nat
  PROVE  PaletteRgba(i) = Records!Colour(i)
<1> DEFINE p == Data(planes, "palette")
           a == Records!Report("alpha")
           o == IF i < Len(a) THEN a[i + 1] ELSE Opaque
           q == SubSeq(p, 3 * i + 1, 3 * i + 3)
           rgb == PaletteRgb(i)
<1>1. p \in Seq(Nat) /\ Len(p) \in Nat
  BY DataIs DEF FrameTyped
<1>2. Records!Colour(i) = IF i >= Len(p) \div 3 THEN <<>>
                          ELSE <<p[3 * i + 1], p[3 * i + 2], p[3 * i + 3], o>>
  BY DEF Records!Colour, Records!EntryCount, Records!Opaque, Opaque, Tags
<1>3. PaletteRgba(i) = IF rgb = <<>> THEN <<>> ELSE <<rgb[1], rgb[2], rgb[3], o>>
  BY AlphaIs DEF PaletteRgba
<1>4. rgb = IF 3 * i + 3 <= Len(p) THEN q ELSE <<>>
  BY DEF PaletteRgb, Palette
<1> HIDE DEF o, rgb
<1>5. 3 * i + 3 <= Len(p) <=> ~ (i >= Len(p) \div 3)
  <2> DEFINE n == Len(p)
  <2>1. n \in Nat
    BY <1>1
  <2> HIDE DEF n
  <2>2. 3 * i + 3 <= n <=> ~ (i >= n \div 3)
    BY <2>1
  <2>3. QED
    BY <2>2 DEF n
<1>6. CASE 3 * i + 3 <= Len(p)
  <2>1. q # <<>> /\ q[1] = p[3 * i + 1] /\ q[2] = p[3 * i + 2] /\ q[3] = p[3 * i + 3]
    BY <1>1, <1>6, Cut
  <2>2. rgb = q
    BY <1>4, <1>6
  <2> HIDE DEF p, q
  <2>3. QED
    BY <1>2, <1>3, <1>5, <1>6, <2>1, <2>2
<1>7. CASE ~ (3 * i + 3 <= Len(p))
  <2>1. rgb = <<>>
    BY <1>4, <1>7
  <2> HIDE DEF p, q
  <2>2. QED
    BY <1>2, <1>3, <1>5, <1>7, <2>1
<1>8. QED
  BY <1>6, <1>7

-----------------------------------------------------------------------------
(* The steps.                                                               *)

\* A step touches neither the image planes nor the records of unknown kinds.
Spared ==
  /\ planes' \in Seq(Entry)
  /\ ImagePlanes(planes') = ImagePlanes(planes)
  /\ ReservedRecords(planes') = ReservedRecords(planes)

LEMMA PutStep ==
  ASSUME FrameTyped, NEW t \in Tags, NEW d \in Seq(Nat), planes' = Put(planes, t, d)
  PROVE  Spared /\ Records!Becomes(t, d)
<1>1. Others(planes, planes', t) /\ Data(planes', t) = d
  BY PutIs DEF FrameTyped
<1>2. QED
  BY <1>1, TagsAre DEF Others, Spared, Records!Becomes

LEMMA RemoveStep ==
  ASSUME FrameTyped, NEW t \in Tags, planes' = Remove(planes, t)
  PROVE  Spared /\ Records!Becomes(t, <<>>)
<1>1. Others(planes, planes', t) /\ Data(planes', t) = <<>>
  BY RemoveIs DEF FrameTyped
<1>2. QED
  BY <1>1, TagsAre DEF Others, Spared, Records!Becomes

\* A setter is the abstract Attach.
LEMMA AttachStep ==
  ASSUME FrameTyped, NEW t \in Tags, NEW d \in Attachable[t], Attach(t, d)
  PROVE  Spared /\ Records!Next
<1>1. d \in Seq(Nat)
  BY FramesTyped
<1>2. Spared /\ Records!Becomes(t, d)
  BY <1>1, PutStep DEF Attach
<1>3. Records!Attach(t, d)
  BY <1>2 DEF Attach, Records!Attach
<1>4. QED
  BY <1>2, <1>3, TagsAre DEF Records!Next

\* set_palette_rgba attaches its two records one after the other.
LEMMA RgbaStep ==
  ASSUME FrameTyped, NEW n \in PaletteSizes, SetPaletteRgba(n)
  PROVE  Spared /\ Records!Next
<1> DEFINE rgb == [i \in 1 .. 3 * n |-> 0]
           alpha == [i \in 1 .. n |-> 0]
           mid == Put(planes, "palette", rgb)
<1>1. n \in Nat /\ rgb \in Seq(Nat) /\ alpha \in Seq(Nat)
  BY FramesTyped
<1>2. "palette" \in Tags /\ "alpha" \in Tags
  BY DEF Tags
<1>3. planes' = Put(mid, "alpha", alpha) /\ reply' = <<>>
  BY DEF SetPaletteRgba
<1>4. Records!Rgb(n) = rgb /\ Records!AlphaOf(n) = alpha
  BY DEF Records!Rgb, Records!AlphaOf
<1> HIDE DEF rgb, alpha
<1>5. Others(planes, mid, "palette") /\ Data(mid, "palette") = rgb
  BY <1>1, <1>2, PutIs DEF FrameTyped
<1> HIDE DEF mid
<1>6. Others(mid, planes', "alpha") /\ Data(planes', "alpha") = alpha
  BY <1>1, <1>2, <1>3, <1>5, PutIs DEF Others
<1>7. Spared
  BY <1>5, <1>6 DEF Others, Spared
<1>8. /\ Data(planes', "palette") = rgb
      /\ \A u \in Tags \ {"palette", "alpha"} : Data(planes', u) = Data(planes, u)
  BY <1>2, <1>5, <1>6 DEF Others
<1>9. Records!AttachRgba(n)
  BY <1>2, <1>3, <1>4, <1>6, <1>7, <1>8, TagsAre DEF Spared, Records!AttachRgba
<1>10. QED
  BY <1>7, <1>9 DEF Records!Next

\* push_blob appends to what the getter reports.
LEMMA PushStep ==
  ASSUME FrameTyped, NEW b \in BlobValues, PushBlob(b)
  PROVE  Spared /\ Records!Next
<1> DEFINE d == Data(planes, "blobs")
           bs == DecodeBlobs(d)
           e == EncodeBlobs(Append(bs, b))
<1>1. d \in Seq(Nat) /\ b \in Nat
  BY DataIs, FramesTyped DEF FrameTyped
<1>2. "blobs" \in Tags
  BY DEF Tags
<1>3. planes' = Put(planes, "blobs", e) /\ reply' = <<>>
  BY DEF PushBlob, SetBlobs, Attach, Blobs
<1>4. Records!AppendBlob(b) <=> reply' = <<>> /\ Records!Becomes("blobs", e)
  <2>1. Records!Report("blobs") = bs
    <3>1. Records!Report("blobs") = Records!DecodeBlobs(Data(planes, "blobs"))
      BY <1>2 DEF Records!Report
    <3>2. QED
      BY <3>1 DEF Records!DecodeBlobs, DecodeBlobs
  <2> HIDE DEF bs
  <2>2. Records!EncodeBlobs(Append(bs, b)) = e
    BY DEF Records!EncodeBlobs, EncodeBlobs
  <2> HIDE DEF e
  <2>3. QED
    BY <2>1, <2>2 DEF Records!AppendBlob
<1> HIDE DEF d
<1>5. bs \in Seq(Nat)
  BY <1>1 DEF DecodeBlobs
<1> HIDE DEF bs
<1>6. e \in Seq(Nat)
  <2>1. Append(bs, b) \in Seq(Nat) /\ Len(Append(bs, b)) \in Nat
    BY <1>1, <1>5
  <2>2. <<Len(Append(bs, b))>> \in Seq(Nat)
    BY <2>1
  <2>3. QED
    BY <2>1, <2>2 DEF EncodeBlobs
<1> HIDE DEF e
<1>7. Spared /\ Records!Becomes("blobs", e)
  BY <1>2, <1>3, <1>6, PutStep
<1>8. QED
  BY <1>3, <1>4, <1>7 DEF Records!Next

\* A take_* answers what the getter reports.
LEMMA DetachStep ==
  ASSUME FrameTyped, NEW t \in Tags, Detach(t, Records!Report(t))
  PROVE  Spared /\ Records!Next
<1>1. Spared /\ Records!Becomes(t, <<>>)
  BY RemoveStep DEF Detach
<1>2. Records!Detach(t)
  BY <1>1 DEF Detach, Records!Detach
<1>3. QED
  BY <1>1, <1>2, TagsAre DEF Records!Next

LEMMA TakeStep ==
  ASSUME FrameTyped,
         \/ TakePalette \/ TakePaletteAlpha \/ TakeSignificantBits
         \/ TakeColorSignal \/ TakeLayer \/ TakeBlobs
  PROVE  \E t \in Tags : Detach(t, Records!Report(t))
<1>1. /\ Records!Report("palette") = Palette
      /\ Records!Report("bits") = SignificantBits
      /\ Records!Report("color") = DecodeFixed(Data(planes, "color"))
      /\ Records!Report("layer") = DecodeFixed(Data(planes, "layer"))
      /\ Records!Report("blobs") = Blobs
  BY DEF Records!Report, Tags, Palette, SignificantBits, Blobs, Records!DecodeFixed, DecodeFixed,
         Records!DecodeBlobs, DecodeBlobs
<1>2. (IF PaletteAlpha # <<>> THEN Data(planes, "alpha") ELSE <<>>) = Records!Report("alpha")
  BY AlphaIs DEF PaletteAlpha
<1>3. Tags = {"palette", "alpha", "bits", "color", "layer", "blobs"}
  BY DEF Tags
<1>4. CASE TakePalette
  BY <1>1, <1>3, <1>4 DEF TakePalette
<1>5. CASE TakePaletteAlpha
  BY <1>2, <1>3, <1>5 DEF TakePaletteAlpha
<1>6. CASE TakeSignificantBits
  BY <1>1, <1>3, <1>6 DEF TakeSignificantBits
<1>7. CASE TakeColorSignal
  BY <1>1, <1>3, <1>7 DEF TakeColorSignal
<1>8. CASE TakeLayer
  BY <1>1, <1>3, <1>8 DEF TakeLayer
<1>9. CASE TakeBlobs
  BY <1>1, <1>3, <1>9 DEF TakeBlobs
<1>10. QED
  BY <1>4, <1>5, <1>6, <1>7, <1>8, <1>9

LEMMA LookUpStep ==
  ASSUME FrameTyped, NEW i \in Indices, LookUp(i)
  PROVE  Spared /\ Records!Next
<1>1. i \in Nat
  BY FramesTyped
<1>2. PlaneSignificantBits(i) = Records!ByteAt(Table(planes)["bits"], i)
  BY DEF PlaneSignificantBits, SignificantBits, ByteAt, Records!ByteAt, Table, Tags
<1>3. reply' \in {Records!Colour(i), Records!ByteAt(Table(planes)["bits"], i)}
  BY <1>1, <1>2, ColourIs DEF LookUp
<1>4. planes' = planes
  BY DEF LookUp
<1>5. Spared
  BY <1>4 DEF Spared, FrameTyped
<1>6. Records!LookUp(i)
  BY <1>3, <1>4, TagsAre DEF Records!LookUp, Table
<1>7. QED
  BY <1>5, <1>6 DEF Records!Next

LEMMA StepHolds ==
  ASSUME FrameTyped, Next
  PROVE  Spared /\ Records!Next
<1>1. Tags = {"palette", "alpha", "bits", "color", "layer", "blobs"}
  BY DEF Tags
<1>2. CASE \E d \in Attachable["palette"] : SetPalette(d)
  BY <1>1, <1>2, AttachStep DEF SetPalette
<1>3. CASE \E d \in Attachable["alpha"] : SetPaletteAlpha(d)
  BY <1>1, <1>3, AttachStep DEF SetPaletteAlpha
<1>4. CASE \E d \in Attachable["bits"] : SetSignificantBits(d)
  BY <1>1, <1>4, AttachStep DEF SetSignificantBits
<1>5. CASE \E d \in Attachable["color"] : SetColorSignal(d)
  BY <1>1, <1>5, AttachStep DEF SetColorSignal
<1>6. CASE \E d \in Attachable["layer"] : SetLayer(d)
  BY <1>1, <1>6, AttachStep DEF SetLayer
<1>7. CASE \E d \in Attachable["blobs"] : SetBlobs(d)
  BY <1>1, <1>7, AttachStep DEF SetBlobs
<1>8. CASE \E n \in PaletteSizes : SetPaletteRgba(n)
  BY <1>8, RgbaStep
<1>9. CASE \E b \in BlobValues : PushBlob(b)
  BY <1>9, PushStep
<1>10. CASE \/ TakePalette \/ TakePaletteAlpha \/ TakeSignificantBits
            \/ TakeColorSignal \/ TakeLayer \/ TakeBlobs
  BY <1>10, TakeStep, DetachStep
<1>11. CASE \E i \in Indices : LookUp(i)
  BY <1>11, LookUpStep
<1>12. QED
  BY <1>2, <1>3, <1>4, <1>5, <1>6, <1>7, <1>8, <1>9, <1>10, <1>11 DEF Next

-----------------------------------------------------------------------------
\* The entries of the vector stay entries.
THEOREM EntriesTyped == Spec => []FrameTyped
<1>1. Init => FrameTyped
  BY FramesTyped DEF Init, FrameTyped
<1>2. FrameTyped /\ [Next]_vars => FrameTyped'
  <2>1. ASSUME FrameTyped, Next PROVE FrameTyped'
    BY <2>1, StepHolds DEF Spared, FrameTyped
  <2>2. ASSUME FrameTyped, UNCHANGED vars PROVE FrameTyped'
    BY <2>2 DEF vars, FrameTyped
  <2>3. QED
    BY <2>1, <2>2
<1>3. QED
  BY <1>1, <1>2, PTL DEF Spec

\* No call adds, drops, reorders or rewrites an image plane or a record of a
\* kind that this version does not know.
THEOREM OthersSpared == Spec => OthersKept
<1>1. FrameTyped /\ [Next]_vars
        => [/\ ImagePlanes(planes') = ImagePlanes(planes)
            /\ ReservedRecords(planes') = ReservedRecords(planes)]_vars
  BY StepHolds DEF Spared
<1>2. QED
  BY <1>1, EntriesTyped, PTL DEF Spec, OthersKept

\* The frame implements image planes beside a table of records: every setter,
\* take_* and look-up is one step of the table.
THEOREM FrameImplemented == Spec => ImplementsRecords
<1>1. Init => Records!Init
  <2>1. SUFFICES ASSUME Init PROVE Records!Init
    OBVIOUS
  <2>2. planes \in Seq(Entry)
    BY <2>1, FramesTyped DEF Init
  <2>3. \A t \in Tags : Data(planes, t) \in Seq(Nat)
    BY <2>2, DataIs
  <2>4. QED
    BY <2>1, <2>3, TagsAre DEF Init, Records!Init
<1>2. FrameTyped /\ [Next]_vars => [Records!Next]_Records!vars
  <2>1. ASSUME FrameTyped, Next PROVE Records!Next
    BY <2>1, StepHolds
  <2>2. ASSUME UNCHANGED vars PROVE UNCHANGED Records!vars
    BY <2>2 DEF vars, Records!vars
  <2>3. QED
    BY <2>1, <2>2
<1>3. QED
  BY <1>1, <1>2, EntriesTyped, PTL DEF Spec, ImplementsRecords, Records!Spec
=============================================================================
