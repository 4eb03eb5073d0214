---------------------------- MODULE SequenceFacts ----------------------------
(***************************************************************************)
(* Facts about sequences and natural numbers that the proofs of the other  *)
(* modules need: where the elements of a queue are after a send or a       *)
(* receive, how many of a kind there are, least and greatest elements, and *)
(* that a function defined by recursion exists.                            *)
(***************************************************************************)
EXTENDS Integers, Sequences, FiniteSets, FiniteSetsExt, FiniteSetTheorems, SequenceTheorems,
  WellFoundedInduction, TLAPS

\* A set of natural numbers that is not empty has a least element: the form
\* in which the proofs use induction, as an argument about the least
\* counterexample.
LEMMA Least ==
  ASSUME NEW T, T \subseteq Nat, T # {}
  PROVE  \E m \in T : \A k \in T : m <= k
<1> DEFINE R == {ss \in Nat \X Nat : ss[1] < ss[2]}
<1>1. IsWellFoundedOn(R, Nat)
  BY NatLessThanWellFounded DEF OpToRel
<1>2. PICK m \in T : \A k \in T : ~(<<k, m>> \in R)
  <2> HIDE DEF R
  <2> QED BY <1>1, WFMin
<1>3. \A k \in T : ~(k < m)
  BY <1>2
<1> QED BY <1>3

\* One that has an upper bound has a greatest element.
LEMMA Greatest ==
  ASSUME NEW T, T \subseteq Nat, T # {}, NEW n \in Nat, \A k \in T : k <= n
  PROVE  \E m \in T : \A k \in T : m >= k
<1> DEFINE U == {n - k : k \in T}
<1>1. U \subseteq Nat /\ U # {}
  <2>1. \A k \in T : n - k \in Nat
    OBVIOUS
  <2> QED BY <2>1
<1>2. PICK u \in U : \A w \in U : u <= w
  <2> HIDE DEF U
  <2> QED BY <1>1, Least
<1>3. PICK m \in T : u = n - m
  BY <1>2
<1>4. \A k \in T : u <= n - k
  BY <1>2
<1> HIDE DEF U
<1> QED BY <1>3, <1>4

\* The smallest and the largest of some numbers up to n.
LEMMA Extremes ==
  ASSUME NEW n \in Nat, NEW K, K \subseteq 0 .. n, K # {}
  PROVE  /\ Min(K) \in K /\ Max(K) \in K
         /\ \A k \in K : Min(K) <= k /\ k <= Max(K)
<1>1. K \subseteq Nat /\ \A k \in K : k <= n
  OBVIOUS
<1>2. \E m \in K : \A k \in K : m <= k
  BY <1>1, Least
<1>3. \E m \in K : \A k \in K : m >= k
  <2> HIDE DEF Max
  <2> QED BY <1>1, Greatest
<1>4. Min(K) \in K /\ \A k \in K : Min(K) <= k
  BY <1>2 DEF Min
<1>5. Max(K) \in K /\ \A k \in K : Max(K) >= k
  BY <1>3 DEF Max
<1>6. \A k \in K : k <= Max(K)
  BY <1>1, <1>5
<1> QED BY <1>4, <1>5, <1>6

\* The first and the last of some places of a sequence are among them.
LEMMA FirstAndLast ==
  ASSUME NEW S, NEW s \in Seq(S), NEW K, K \subseteq DOMAIN s, K # {}
  PROVE  Min(K) \in K /\ Max(K) \in K
<1>1. Len(s) \in Nat /\ K \subseteq 0 .. Len(s)
  OBVIOUS
<1> QED BY <1>1, Extremes

\* The minimum and the maximum of two numbers.
LEMMA TwoNumbers ==
  ASSUME NEW i \in Int, NEW j \in Int
  PROVE  /\ Min({i, j}) = IF i <= j THEN i ELSE j
         /\ Max({i, j}) = IF i <= j THEN j ELSE i
<1>1. Min({i, j}) \in {i, j} /\ \A k \in {i, j} : Min({i, j}) <= k
  BY DEF Min
<1>2. Max({i, j}) \in {i, j} /\ \A k \in {i, j} : Max({i, j}) >= k
  BY DEF Max
<1> QED BY <1>1, <1>2

\* Two sequences with the same elements are the same.
LEMMA SameSequence ==
  ASSUME NEW S, NEW s \in Seq(S), NEW t \in Seq(S), Len(s) = Len(t),
         \A i \in 1 .. Len(s) : s[i] = t[i]
  PROVE  s = t
OBVIOUS

\* The first n elements.
LEMMA SubSeqType ==
  ASSUME NEW S, NEW s \in Seq(S), NEW n \in 0 .. Len(s)
  PROVE  /\ SubSeq(s, 1, n) \in Seq(S) /\ Len(SubSeq(s, 1, n)) = n
         /\ \A i \in 1 .. n : SubSeq(s, 1, n)[i] = s[i]
OBVIOUS

\* One sequence of n elements after another of m.
Concatenated(S, s, t, n, m) ==
  /\ s \o t \in Seq(S) /\ Len(s \o t) = n + m
  /\ \A i \in 1 .. n : (s \o t)[i] = s[i]
  /\ \A i \in n + 1 .. n + m : (s \o t)[i] = t[i - n]

\* The concatenation of sequences of a set, place by place.
LEMMA ConcatType ==
  ASSUME NEW S, NEW s \in Seq(S), NEW t \in Seq(S), NEW n, NEW m, n = Len(s), m = Len(t)
  PROVE  Concatenated(S, s, t, n, m)
BY DEF Concatenated

\* What taking from a queue does to the places of the others.
LEMMA TailPlaces ==
  ASSUME NEW S, NEW s \in Seq(S), s # <<>>
  PROVE  /\ 1 \in DOMAIN s /\ Head(s) = s[1]
         /\ \A i \in DOMAIN Tail(s) :
              i \in Int /\ i >= 1 /\ i + 1 \in DOMAIN s /\ Tail(s)[i] = s[i + 1]
         /\ \A i \in DOMAIN s : i = 1 \/ (i - 1 \in DOMAIN Tail(s) /\ Tail(s)[i - 1] = s[i])
<1>1. Len(s) \in Nat /\ Len(s) > 0 /\ DOMAIN s = 1 .. Len(s) /\ Head(s) = s[1]
  OBVIOUS
<1>2. DOMAIN Tail(s) = 1 .. Len(s) - 1 /\ \A i \in 1 .. Len(s) - 1 : Tail(s)[i] = s[i + 1]
  OBVIOUS
<1> QED BY <1>1, <1>2

\* What sending to a queue does.
LEMMA AppendPlaces ==
  ASSUME NEW S, NEW s \in Seq(S), NEW e \in S
  PROVE  /\ \A i \in DOMAIN s : i \in DOMAIN Append(s, e) /\ Append(s, e)[i] = s[i]
         /\ \A i \in DOMAIN Append(s, e) :
              i \in Int /\ (i \in DOMAIN s \/ (i = Len(s) + 1 /\ Append(s, e)[i] = e))
         /\ Len(s) + 1 \in DOMAIN Append(s, e) /\ Append(s, e)[Len(s) + 1] = e
         /\ \A i \in DOMAIN s : i < Len(s) + 1
OBVIOUS

\* A sequence without its element at i.
Dropped(s, i) == SubSeq(s, 1, i - 1) \o SubSeq(s, i + 1, Len(s))

\* Where the elements are when the one at place i is gone.
LEMMA DroppedPlaces ==
  ASSUME NEW S, NEW s \in Seq(S), NEW i \in DOMAIN s
  PROVE  /\ Dropped(s, i) \in Seq(S)
         /\ Len(Dropped(s, i)) = Len(s) - 1
         /\ \A j \in 1 .. Len(s) - 1 :
              Dropped(s, i)[j] = IF j < i THEN s[j] ELSE s[j + 1]
<1> DEFINE a == SubSeq(s, 1, i - 1)
           b == SubSeq(s, i + 1, Len(s))
<1>1. i \in Nat /\ 1 <= i /\ i <= Len(s) /\ Len(s) \in Nat /\ DOMAIN s = 1 .. Len(s)
  OBVIOUS
<1>2. a \in Seq(S) /\ Len(a) = i - 1 /\ \A j \in 1 .. i - 1 : a[j] = s[j]
  BY <1>1
<1>3. b \in Seq(S) /\ Len(b) = Len(s) - i /\ \A j \in 1 .. Len(s) - i : b[j] = s[i + j]
  BY <1>1
<1>4. Dropped(s, i) = a \o b
  BY DEF Dropped
<1> HIDE DEF a, b
<1>5. /\ a \o b \in Seq(S) /\ Len(a \o b) = Len(a) + Len(b)
      /\ \A j \in 1 .. Len(a) + Len(b) :
           (a \o b)[j] = IF j <= Len(a) THEN a[j] ELSE b[j - Len(a)]
  BY <1>2, <1>3, ConcatProperties
<1>6. Len(a) + Len(b) = Len(s) - 1
  BY <1>1, <1>2, <1>3
<1>7. ASSUME NEW j \in 1 .. Len(s) - 1
      PROVE  (a \o b)[j] = IF j < i THEN s[j] ELSE s[j + 1]
  <2>1. CASE j < i
    <3>1. j \in 1 .. i - 1 /\ j <= Len(a)
      BY <1>1, <1>2, <2>1
    <3> QED BY <1>2, <1>5, <1>6, <2>1, <3>1
  <2>2. CASE ~(j < i)
    <3>1. ~(j <= Len(a)) /\ j - Len(a) \in 1 .. Len(s) - i /\ i + (j - Len(a)) = j + 1
      BY <1>1, <1>2, <2>2
    <3> QED BY <1>3, <1>5, <1>6, <2>2, <3>1
  <2> QED BY <2>1, <2>2
<1> QED BY <1>4, <1>5, <1>6, <1>7

-----------------------------------------------------------------------------
(* Counting.  The elements of a kind are those in the set K.               *)

Places(s, K) == {i \in DOMAIN s : s[i] \in K}
Count(s, K) == Cardinality(Places(s, K))

\* A sequence has finitely many places.
LEMMA CountType ==
  ASSUME NEW S, NEW s \in Seq(S), NEW K
  PROVE  /\ IsFiniteSet(Places(s, K)) /\ Count(s, K) \in Nat
         /\ Count(s, K) = 0 <=> \A i \in DOMAIN s : s[i] \notin K
<1>1. IsFiniteSet(1 .. Len(s)) /\ DOMAIN s = 1 .. Len(s)
  BY FS_Interval
<1>2. IsFiniteSet(Places(s, K))
  BY <1>1, FS_Subset DEF Places
<1>3. Count(s, K) \in Nat
  BY <1>2, FS_CardinalityType DEF Count
<1>4. Count(s, K) = 0 <=> Places(s, K) = {}
  BY <1>2, FS_EmptySet DEF Count
<1> QED BY <1>2, <1>3, <1>4 DEF Places

\* One more of the kind at the end, or none.
LEMMA CountAppend ==
  ASSUME NEW S, NEW s \in Seq(S), NEW e \in S, NEW K
  PROVE  Count(Append(s, e), K) = Count(s, K) + (IF e \in K THEN 1 ELSE 0)
<1>1. IsFiniteSet(Places(s, K)) /\ Count(s, K) \in Nat
  BY CountType
<1>2. CASE e \in K
  <2>1. Places(Append(s, e), K) = Places(s, K) \cup {Len(s) + 1}
    BY <1>2, AppendPlaces DEF Places
  <2>2. Len(s) + 1 \notin Places(s, K)
    BY DEF Places
  <2> QED BY <1>1, <1>2, <2>1, <2>2, FS_AddElement DEF Count
<1>3. CASE e \notin K
  <2>1. Places(Append(s, e), K) = Places(s, K)
    BY <1>3, AppendPlaces DEF Places
  <2> QED BY <1>1, <1>3, <2>1 DEF Count
<1> QED BY <1>2, <1>3

\* One less of the kind when the head is of it.
LEMMA CountTail ==
  ASSUME NEW S, NEW s \in Seq(S), s # <<>>, NEW K
  PROVE  Count(Tail(s), K) = Count(s, K) - (IF Head(s) \in K THEN 1 ELSE 0)
<1> DEFINE old == Places(s, K)
           new == Places(Tail(s), K)
           f == [i \in old \ {1} |-> i - 1]
<1>1. IsFiniteSet(old) /\ Count(s, K) \in Nat
  BY CountType
<1>2. f \in Bijection(old \ {1}, new)
  <2>1. \A i \in old \ {1} : i \in Int /\ f[i] = i - 1 /\ f[i] \in new
    BY TailPlaces DEF Places
  <2>2. \A j \in new : j + 1 \in old \ {1} /\ f[j + 1] = j
    BY TailPlaces DEF Places
  <2> HIDE DEF old, new
  <2>3. f \in [old \ {1} -> new] /\ \A i, j \in old \ {1} : f[i] = f[j] => i = j
    BY <2>1
  <2>4. \A j \in new : \E i \in old \ {1} : f[i] = j
    BY <2>2
  <2> HIDE DEF f
  <2> QED BY <2>3, <2>4 DEF Bijection, Injection, Surjection, IsInjective
<1>3. Cardinality(new) = Cardinality(old \ {1})
  BY <1>1, <1>2, FS_RemoveElement, FS_Bijection DEF ExistsBijection
<1>4. 1 \in old <=> Head(s) \in K
  BY TailPlaces DEF Places
<1>5. Cardinality(old \ {1}) = IF 1 \in old THEN Cardinality(old) - 1 ELSE Cardinality(old)
  <2> HIDE DEF old
  <2> QED BY <1>1, FS_RemoveElement
<1>6. Count(Tail(s), K) = Cardinality(new) /\ Count(s, K) = Cardinality(old)
  BY DEF Count
<1> HIDE DEF old, new
<1> QED BY <1>1, <1>3, <1>4, <1>5, <1>6
-----------------------------------------------------------------------------
\* The places of K, counted from below: the j-th of them exists.
LEMMA NthPlace ==
  ASSUME NEW n \in Nat, NEW K, K \subseteq 1 .. n, NEW j \in 1 .. Cardinality(K)
  PROVE  \E i \in K : Cardinality({k \in K : k <= i}) = j
<1> DEFINE U(i) == {k \in K : k <= i}
           c(i) == Cardinality(U(i))
           T == {i \in 0 .. n : c(i) >= j}
<1>1. IsFiniteSet(K) /\ Cardinality(K) \in Nat
  <2>1. IsFiniteSet(1 .. n)
    BY FS_Interval
  <2>2. IsFiniteSet(K)
    BY <2>1, FS_Subset
  <2> QED BY <2>2, FS_CardinalityType
<1>2. \A i \in Int : IsFiniteSet(U(i)) /\ c(i) \in Nat
  BY <1>1, FS_Subset, FS_CardinalityType
<1>3. U(n) = K
  <2>1. \A k \in K : k <= n
    OBVIOUS
  <2> QED BY <2>1
<1>4. n \in T
  BY <1>1, <1>3
<1>5. T \subseteq Nat /\ T # {}
  <2> HIDE DEF c
  <2> QED BY <1>4
<1>6. PICK m \in T : \A k \in T : m <= k
  <2> HIDE DEF T
  <2> QED BY <1>5, Least
<1>7. U(0) = {} /\ c(0) = 0
  <2>1. \A k \in K : ~(k <= 0)
    OBVIOUS
  <2>2. U(0) = {}
    BY <2>1
  <2> QED BY <2>2, FS_EmptySet
<1>8. m \in 1 .. n /\ c(m) >= j
  BY <1>6, <1>7
<1>9. ~ c(m - 1) >= j
  <2>1. m - 1 \in 0 .. n /\ ~(m <= m - 1)
    BY <1>8
  <2> HIDE DEF c
  <2> QED BY <1>6, <2>1
<1>10. U(m) = U(m - 1) \cup (K \cap {m})
  <2>1. \A k \in K : k <= m <=> (k <= m - 1 \/ k = m)
    BY <1>8
  <2> QED BY <2>1, <1>8
<1>11. m \notin U(m - 1) /\ m - 1 \in Int
  BY <1>8
<1> HIDE DEF U
<1>12. CASE m \in K
  <2>1. c(m) = c(m - 1) + 1
    <3>1. U(m) = U(m - 1) \cup {m}
      BY <1>10, <1>12
    <3> QED BY <1>2, <1>11, <3>1, FS_AddElement
  <2>2. c(m - 1) \in Nat /\ c(m) \in Nat
    BY <1>2, <1>8, <1>11
  <2> HIDE DEF c
  <2>3. c(m) = j
    BY <1>8, <1>9, <2>1, <2>2
  <2> QED BY <1>12, <2>3 DEF c, U
<1>13. CASE m \notin K
  <2>1. U(m) = U(m - 1)
    BY <1>10, <1>13
  <2> QED BY <1>8, <1>9, <2>1
<1> QED BY <1>12, <1>13
-----------------------------------------------------------------------------
(* Functions that are defined by recursion.                                *)

\* What a function on a set X does that is given by values base at the
\* places stop, and elsewhere by next, the place to look at before, and
\* step, what to do with the value found there.
Recursive(X, stop, base, next, step, f) ==
  f = [s \in X |-> IF s \in stop THEN base[s] ELSE step[s][f[next[s]]]]

\* There is one if the way to a place where it stops is never longer than n.
LEMMA Recursion ==
  ASSUME NEW X, NEW V, NEW stop, NEW base \in [X -> V], NEW next \in [X -> X],
         NEW step \in [X -> [V -> V]], NEW n \in Nat, NEW far \in [X -> 0 .. n],
         \A s \in X : s \notin stop => far[next[s]] < far[s]
  PROVE  \E f \in [X -> V] : Recursive(X, stop, base, next, step, f)
<1> DEFINE Y(k) == {s \in X : far[s] <= k}
           Good(k, f) == /\ f \in [Y(k) -> V]
                         /\ \A s \in Y(k) : f[s] = IF s \in stop THEN base[s] ELSE step[s][f[next[s]]]
           T == {k \in Nat : ~\E f : Good(k, f)}
<1>1. \A s \in X : far[s] \in Nat /\ far[s] <= n /\ next[s] \in X
  OBVIOUS
<1>2. \E f : Good(0, f)
  <2> DEFINE f == [s \in Y(0) |-> base[s]]
  <2>1. \A s \in Y(0) : s \in X /\ s \in stop
    BY <1>1
  <2>2. f \in [Y(0) -> V] /\ \A s \in Y(0) : f[s] = base[s]
    BY <2>1
  <2> QED BY <2>1, <2>2
<1>3. ASSUME NEW k \in Nat, NEW f, Good(k, f) PROVE \E g : Good(k + 1, g)
  <2> DEFINE val(s) == IF s \in stop THEN base[s] ELSE step[s][f[next[s]]]
             g == [s \in Y(k + 1) |-> val(s)]
  <2>1. \A s \in Y(k) : s \in Y(k + 1)
    BY <1>1
  <2>2. \A s \in Y(k + 1) : s \in X /\ (s \notin stop => next[s] \in Y(k))
    BY <1>1
  <2>3. f \in [Y(k) -> V] /\ \A s \in Y(k) : f[s] = val(s)
    BY <1>3
  <2> HIDE DEF Y
  <2>4. \A s \in Y(k + 1) : val(s) \in V
    BY <2>2, <2>3
  <2>5. g \in [Y(k + 1) -> V] /\ \A s \in Y(k + 1) : g[s] = val(s)
    BY <2>4
  <2>6. \A s \in Y(k) : g[s] = f[s]
    BY <2>1, <2>3, <2>5
  <2> HIDE DEF g
  <2>7. ASSUME NEW s \in Y(k + 1)
        PROVE  g[s] = IF s \in stop THEN base[s] ELSE step[s][g[next[s]]]
    <3>1. CASE s \in stop
      BY <2>5, <3>1
    <3>2. CASE s \notin stop
      BY <2>2, <2>5, <2>6, <3>2
    <3> QED BY <3>1, <3>2
  <2> QED BY <2>5, <2>7
<1> HIDE DEF Good
<1>4. T = {}
  <2> SUFFICES ASSUME T # {} PROVE FALSE
    OBVIOUS
  <2>1. PICK m \in T : \A k \in T : m <= k
    <3>1. T \subseteq Nat
      OBVIOUS
    <3> HIDE DEF T
    <3> QED BY <3>1, Least
  <2>2. m \in Nat /\ m # 0
    BY <1>2
  <2>3. m - 1 \in Nat /\ m - 1 + 1 = m /\ ~(m <= m - 1)
    BY <2>2
  <2>4. m - 1 \notin T
    BY <2>1, <2>3
  <2>5. PICK f : Good(m - 1, f)
    BY <2>3, <2>4
  <2>6. \E g : Good(m, g)
    BY <1>3, <2>3, <2>5
  <2> QED BY <2>1, <2>6
<1>5. PICK f : Good(n, f)
  BY <1>4
<1>6. Y(n) = X
  BY <1>1
<1>7. /\ f \in [X -> V]
      /\ \A s \in X : f[s] = IF s \in stop THEN base[s] ELSE step[s][f[next[s]]]
  BY <1>5, <1>6 DEF Good
<1>8. f = [s \in X |-> f[s]]
  BY <1>7
<1>9. Recursive(X, stop, base, next, step, f)
  BY <1>7, <1>8 DEF Recursive
<1> QED BY <1>7, <1>9

=============================================================================
