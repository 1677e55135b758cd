------------------------- MODULE SequenceFilterProofs -----------------------
(***************************************************************************)
(* Theorems about SequenceFilter.  Induction over the natural numbers is   *)
(* put as a statement about sets, since the induction theorems of the      *)
(* library take an operator: a set of natural numbers that is not empty    *)
(* has a least element because inclusion of finite sets is well-founded.   *)
(***************************************************************************)
EXTENDS SequenceFilter, SequencesExt, FiniteSetTheorems, WellFoundedInduction, TLAPS

(* A non-empty set of natural numbers has a least element.                 *)
LEMMA LeastElement ==
    ASSUME NEW T \in SUBSET Nat, T # {}
    PROVE  \E n \in T : \A m \in T : n <= m
<1> DEFINE U == {0..n : n \in T}
<1>1. U \subseteq FiniteSubsetsOf(Nat)
  <2> SUFFICES ASSUME NEW n \in T
               PROVE  0..n \in FiniteSubsetsOf(Nat)
    OBVIOUS
  <2>1. n \in Nat
    OBVIOUS
  <2>2. IsFiniteSet(0..n)
    BY <2>1, FS_Interval
  <2>3. 0..n \subseteq Nat
    BY <2>1
  <2> QED
    BY <2>2, <2>3 DEF FiniteSubsetsOf
<1>2. U # {}
  OBVIOUS
<1>3. IsWellFoundedOn(StrictSubsetOrdering(Nat), FiniteSubsetsOf(Nat))
  BY FS_StrictSubsetOrderingWellFounded
<1>4. PICK x \in U : \A y \in U : ~ (<<y, x>> \in StrictSubsetOrdering(Nat))
  <2> HIDE DEF U
  <2> QED
    BY <1>1, <1>2, <1>3, WFMin
<1>5. PICK n \in T : x = 0..n
  BY <1>4
<1>6. ASSUME NEW m \in T, m < n
      PROVE  FALSE
  <2>1. m \in Nat /\ n \in Nat
    OBVIOUS
  <2>2. 0..m \subseteq 0..n /\ n \in 0..n /\ n \notin 0..m
    BY <2>1, <1>6
  <2>3. 0..m \in SUBSET Nat /\ 0..n \in SUBSET Nat
    BY <2>1
  <2>4. <<0..m, 0..n>> \in StrictSubsetOrdering(Nat)
    BY <2>2, <2>3 DEF StrictSubsetOrdering
  <2> QED
    BY <1>4, <1>5, <2>4
<1> QED
  BY <1>6

(* What holds of 0, and of each number up to n if it holds of the one      *)
(* before, holds of all numbers up to n.                                   *)
LEMMA SetInduction ==
    ASSUME NEW n \in Nat, NEW T,
           0 \in T, \A m \in 1..n : m - 1 \in T => m \in T
    PROVE  0..n \subseteq T
<1> SUFFICES ASSUME 0..n \ T # {}
             PROVE  FALSE
  OBVIOUS
<1> DEFINE Rest == 0..n \ T
<1>1. PICK m \in Rest : \A k \in Rest : m <= k
  <2>1. Rest \in SUBSET Nat /\ Rest # {}
    OBVIOUS
  <2> HIDE DEF Rest
  <2> QED
    BY <2>1, LeastElement
<1>2. m \in 1..n /\ m - 1 \in 0..n /\ m - 1 < m
  BY <1>1
<1> QED
  BY <1>1, <1>2

(* Append adds one element to those of a sequence.                         *)
LEMMA AppendElements ==
    ASSUME NEW V, NEW s \in Seq(V), NEW v \in V
    PROVE  ToSet(Append(s, v)) = ToSet(s) \cup {v}
<1> DEFINE a == Append(s, v)
<1>1. /\ Len(s) \in Nat /\ DOMAIN s = 1..Len(s)
      /\ DOMAIN a = 1..(Len(s) + 1)
      /\ \A i \in 1..Len(s) : a[i] = s[i]
      /\ a[Len(s) + 1] = v
  OBVIOUS
<1>2. 1..(Len(s) + 1) = 1..Len(s) \cup {Len(s) + 1}
  BY <1>1
<1> HIDE DEF a
<1>3. ToSet(a) = ToSet(s) \cup {v}
  BY <1>1, <1>2 DEF ToSet
<1> QED
  BY <1>3 DEF a

-----------------------------------------------------------------------------

IsKept(f, n, s, S) ==
    /\ DOMAIN f = 0..n
    /\ f = [m \in 0..n |->
               IF m = 0 THEN <<>>
               ELSE IF s[m] \in S THEN Append(f[m - 1], s[m]) ELSE f[m - 1]]

(* The recursive function exists.                                          *)
LEMMA KeptExists ==
    ASSUME NEW s, NEW S, NEW n \in Nat
    PROVE  \E f : IsKept(f, n, s, S)
<1> DEFINE T == {m \in Nat : \E f : IsKept(f, m, s, S)}
<1>1. 0 \in T
  <2> DEFINE f == [m \in 0..0 |-> <<>>]
  <2>1. IsKept(f, 0, s, S)
    BY DEF IsKept
  <2> QED
    BY <2>1
<1>2. ASSUME NEW m \in 1..n, m - 1 \in T
      PROVE  m \in T
  <2>1. PICK f : IsKept(f, m - 1, s, S)
    BY <1>2
  <2> DEFINE g == [j \in 0..m |->
                      IF j < m THEN f[j]
                      ELSE IF s[m] \in S THEN Append(f[m - 1], s[m])
                           ELSE f[m - 1]]
             h == [j \in 0..m |->
                      IF j = 0 THEN <<>>
                      ELSE IF s[j] \in S THEN Append(g[j - 1], s[j])
                           ELSE g[j - 1]]
  <2>2. ASSUME NEW j \in 0..m
        PROVE  g[j] = h[j]
    <3>1. CASE j = m
      <4>1. g[m - 1] = f[m - 1]
        OBVIOUS
      <4> QED
        BY <3>1, <4>1
    <3>2. CASE j < m
      <4>1. j \in 0..(m - 1) /\ g[j] = f[j]
        BY <3>2
      <4>2. f[j] = IF j = 0 THEN <<>>
                   ELSE IF s[j] \in S THEN Append(f[j - 1], s[j])
                        ELSE f[j - 1]
        BY <2>1, <4>1 DEF IsKept
      <4>3. j # 0 => g[j - 1] = f[j - 1]
        BY <3>2
      <4> QED
        BY <4>1, <4>2, <4>3
    <3> QED
      BY <3>1, <3>2
  <2>3. g = h
    BY <2>2
  <2>4. IsKept(g, m, s, S)
    BY <2>3 DEF IsKept
  <2> QED
    BY <2>4
<1>3. 0..n \subseteq T
  <2> HIDE DEF T
  <2> QED
    BY <1>1, <1>2, SetInduction
<1> QED
  BY <1>3

(* It obeys the equation it is defined by ...                              *)
LEMMA KeptEquation ==
    ASSUME NEW s, Len(s) \in Nat, NEW S
    PROVE  /\ KeptOfFirst(0, s, S) = <<>>
           /\ \A n \in 1..Len(s) :
                 /\ s[n] \in S => KeptOfFirst(n, s, S)
                                     = Append(KeptOfFirst(n - 1, s, S), s[n])
                 /\ s[n] \notin S => KeptOfFirst(n, s, S)
                                        = KeptOfFirst(n - 1, s, S)
<1> DEFINE kept == CHOOSE f :
                      f = [m \in 0..Len(s) |->
                             IF m = 0 THEN <<>>
                             ELSE IF s[m] \in S THEN Append(f[m - 1], s[m])
                                  ELSE f[m - 1]]
<1>1. \E f : IsKept(f, Len(s), s, S)
  BY KeptExists
<1>2. kept = [m \in 0..Len(s) |->
                IF m = 0 THEN <<>>
                ELSE IF s[m] \in S THEN Append(kept[m - 1], s[m])
                     ELSE kept[m - 1]]
  BY <1>1 DEF IsKept
<1>3. \A n : KeptOfFirst(n, s, S) = kept[n]
  BY DEF KeptOfFirst
<1> HIDE DEF kept
<1>4. kept[0] = <<>>
  BY <1>2
<1>5. ASSUME NEW n \in 1..Len(s)
      PROVE  /\ s[n] \in S => kept[n] = Append(kept[n - 1], s[n])
             /\ s[n] \notin S => kept[n] = kept[n - 1]
  <2>1. n \in 0..Len(s) /\ n # 0
    OBVIOUS
  <2> QED
    BY <1>2, <2>1
<1> QED
  BY <1>3, <1>4, <1>5

(* ... which is: nothing is kept of no elements,                           *)
THEOREM KeptOfNone ==
    ASSUME NEW V, NEW s \in Seq(V), NEW S
    PROVE  KeptOfFirst(0, s, S) = <<>>
<1>1. Len(s) \in Nat
  OBVIOUS
<1> QED
  BY <1>1, KeptEquation, Zenon

(* and the n-th is added to those before it if it is to be kept.           *)
THEOREM KeptOfNext ==
    ASSUME NEW V, NEW s \in Seq(V), NEW S, NEW n \in 1..Len(s)
    PROVE  /\ s[n] \in S => KeptOfFirst(n, s, S)
                               = Append(KeptOfFirst(n - 1, s, S), s[n])
           /\ s[n] \notin S => KeptOfFirst(n, s, S) = KeptOfFirst(n - 1, s, S)
<1>1. Len(s) \in Nat
  OBVIOUS
<1> QED
  BY <1>1, KeptEquation, Zenon

(* It is a sequence of the same elements, and no longer.                   *)
THEOREM KeptType ==
    ASSUME NEW V, NEW s \in Seq(V), NEW S, NEW n \in 0..Len(s)
    PROVE  /\ KeptOfFirst(n, s, S) \in Seq(V)
           /\ Len(KeptOfFirst(n, s, S)) <= n
<1> DEFINE T == {m \in 0..Len(s) : /\ KeptOfFirst(m, s, S) \in Seq(V)
                                   /\ Len(KeptOfFirst(m, s, S)) <= m}
<1>1. Len(s) \in Nat
  OBVIOUS
<1>2. 0 \in T
  <2>1. KeptOfFirst(0, s, S) = <<>>
    BY KeptOfNone, Zenon
  <2>2. <<>> \in Seq(V) /\ Len(<<>>) <= 0 /\ 0 \in 0..Len(s)
    BY <1>1
  <2> QED
    BY <2>1, <2>2, Zenon
<1>3. ASSUME NEW m \in 1..Len(s), m - 1 \in T
      PROVE  m \in T
  <2>1. s[m] \in V /\ m \in 0..Len(s)
    BY <1>1
  <2>2. /\ s[m] \in S => KeptOfFirst(m, s, S)
                            = Append(KeptOfFirst(m - 1, s, S), s[m])
        /\ s[m] \notin S => KeptOfFirst(m, s, S) = KeptOfFirst(m - 1, s, S)
    BY KeptOfNext, Zenon
  <2>3. /\ KeptOfFirst(m - 1, s, S) \in Seq(V)
        /\ Len(KeptOfFirst(m - 1, s, S)) <= m - 1
    BY <1>3
  <2> HIDE DEF T
  <2> DEFINE k == KeptOfFirst(m - 1, s, S)
  <2>4. ASSUME NEW kk \in Seq(V), Len(kk) <= m - 1
        PROVE  /\ kk \in Seq(V) /\ Len(kk) <= m
               /\ Append(kk, s[m]) \in Seq(V) /\ Len(Append(kk, s[m])) <= m
    BY <1>1, <2>1, <2>4
  <2> QED
    BY <2>1, <2>2, <2>3, <2>4, Zenon DEF T
<1>4. 0..Len(s) \subseteq T
  <2> HIDE DEF T
  <2> QED
    BY <1>1, <1>2, <1>3, SetInduction
<1> QED
  BY <1>4

(* It holds those of the first n elements that are in S, and nothing else. *)
THEOREM KeptElements ==
    ASSUME NEW V, NEW s \in Seq(V), NEW S, NEW n \in 0..Len(s)
    PROVE  ToSet(KeptOfFirst(n, s, S)) = {s[i] : i \in 1..n} \cap S
<1> DEFINE K(m) == KeptOfFirst(m, s, S)
           First(m) == {s[i] : i \in 1..m}
           T == {m \in 0..Len(s) : ToSet(K(m)) = First(m) \cap S}
<1>1. Len(s) \in Nat
  OBVIOUS
<1>2. 0 \in T
  <2>1. K(0) = <<>>
    BY KeptOfNone, Zenon
  <2>2. ToSet(<<>>) = {} /\ First(0) = {} /\ 0 \in 0..Len(s)
    BY <1>1 DEF ToSet
  <2> QED
    BY <2>1, <2>2
<1>3. ASSUME NEW m \in 1..Len(s), m - 1 \in T
      PROVE  m \in T
  <2>1. /\ s[m] \in V /\ m \in 0..Len(s) /\ m - 1 \in 0..Len(s)
        /\ 1..m = 1..(m - 1) \cup {m}
    BY <1>1
  <2>2. First(m) = First(m - 1) \cup {s[m]}
    BY <2>1
  <2>3. ToSet(K(m - 1)) = First(m - 1) \cap S
    BY <1>3
  <2>4. K(m - 1) \in Seq(V)
    BY <2>1, KeptType, Zenon
  <2>5. CASE s[m] \in S
    <3>1. K(m) = Append(K(m - 1), s[m])
      BY <2>5, KeptOfNext, Zenon
    <3>2. ToSet(Append(K(m - 1), s[m])) = ToSet(K(m - 1)) \cup {s[m]}
      <4> HIDE DEF K
      <4> DEFINE v == s[m]
      <4>1. v \in V
        BY <2>1
      <4> HIDE DEF v
      <4>2. ToSet(Append(K(m - 1), v)) = ToSet(K(m - 1)) \cup {v}
        BY <2>4, <4>1, AppendElements
      <4> QED
        BY <4>2 DEF v
    <3> HIDE DEF K, First
    <3>3. ToSet(K(m)) = First(m) \cap S
      BY <2>2, <2>3, <2>5, <3>1, <3>2
    <3> QED
      BY <2>1, <3>3
  <2>6. CASE s[m] \notin S
    <3>1. K(m) = K(m - 1)
      BY <2>6, KeptOfNext, Zenon
    <3> HIDE DEF K, First
    <3>2. ToSet(K(m)) = First(m) \cap S
      BY <2>2, <2>3, <2>6, <3>1
    <3> QED
      BY <2>1, <3>2
  <2> QED
    BY <2>5, <2>6
<1>4. 0..Len(s) \subseteq T
  <2> HIDE DEF T
  <2> QED
    BY <1>1, <1>2, <1>3, SetInduction
<1> QED
  BY <1>4

(* so each of its elements is one that was to be kept.                     *)
THEOREM KeptWithin ==
    ASSUME NEW V, NEW s \in Seq(V), NEW S, NEW n \in 0..Len(s)
    PROVE  \A i \in DOMAIN KeptOfFirst(n, s, S) : KeptOfFirst(n, s, S)[i] \in S
<1> DEFINE K == KeptOfFirst(n, s, S)
<1>1. ToSet(K) = {s[i] : i \in 1..n} \cap S
  BY KeptElements
<1> HIDE DEF K
<1>2. \A i \in DOMAIN K : K[i] \in ToSet(K)
  BY DEF ToSet
<1> QED
  BY <1>1, <1>2 DEF K

(* Of a whole list: Kept(s, S) is the list without what is not in S.       *)
THEOREM KeptOfAll ==
    ASSUME NEW V, NEW s \in Seq(V), NEW S
    PROVE  /\ Kept(s, S) \in Seq(V)
           /\ Len(Kept(s, S)) <= Len(s)
           /\ ToSet(Kept(s, S)) = ToSet(s) \cap S
<1>1. Len(s) \in 0..Len(s)
  OBVIOUS
<1>2. {s[i] : i \in 1..Len(s)} = ToSet(s)
  BY DEF ToSet
<1>3. Kept(s, S) \in Seq(V) /\ Len(Kept(s, S)) <= Len(s)
  BY <1>1, KeptType, Zenon DEF Kept
<1>4. ToSet(Kept(s, S)) = {s[i] : i \in 1..Len(s)} \cap S
  BY <1>1, KeptElements DEF Kept
<1> QED
  BY <1>2, <1>3, <1>4
=============================================================================
