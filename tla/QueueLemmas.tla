------------------------------ MODULE QueueLemmas ------------------------------
(***************************************************************************)
(* Facts about sequences as queues: the elements of a sequence that grows, *)
(* loses its head or loses one of its places, and repetitions in it.  The  *)
(* queues of telepathosd are vectors that are pushed to, drained from the  *)
(* front and searched for the element that goes.                           *)
(***************************************************************************)
EXTENDS SequencesExt, FiniteSetTheorems, SequenceTheorems, WellFoundedInduction, TLAPS

\* What Append adds, and that it keeps elements apart.
LEMMA ToSetAppend ==
  ASSUME NEW S, NEW s \in Seq(S), NEW x \in S
  PROVE  /\ Append(s, x) \in Seq(S)
         /\ ToSet(Append(s, x)) = ToSet(s) \cup {x}
         /\ IsInjective(s) /\ x \notin ToSet(s) => IsInjective(Append(s, x))
<1> DEFINE a == Append(s, x)
<1>1. /\ a \in Seq(S) /\ Len(a) = Len(s) + 1 /\ a[Len(a)] = x
      /\ \A i \in 1..Len(s) : a[i] = s[i]
  BY AppendProperties
<1>2. DOMAIN s = 1..Len(s) /\ DOMAIN a = 1..(Len(s) + 1) /\ Len(s) \in Nat
  BY <1>1
<1>3. ToSet(a) = ToSet(s) \cup {x}
  BY <1>1, <1>2 DEF ToSet
<1>4. IsInjective(s) /\ x \notin ToSet(s) => IsInjective(a)
  BY <1>1, <1>2 DEF ToSet, IsInjective
<1> QED
  BY <1>1, <1>3, <1>4

\* What Tail leaves, and that the head of a sequence without repetitions is
\* not in its tail.
LEMMA ToSetTail ==
  ASSUME NEW S, NEW s \in Seq(S), s # <<>>
  PROVE  /\ Tail(s) \in Seq(S) /\ Head(s) \in ToSet(s)
         /\ ToSet(Tail(s)) \subseteq ToSet(s)
         /\ IsInjective(s) => IsInjective(Tail(s)) /\ Head(s) \notin ToSet(Tail(s))
<1>1. /\ Tail(s) \in Seq(S) /\ Len(Tail(s)) = Len(s) - 1 /\ Head(s) = s[1]
      /\ \A i \in 1..Len(Tail(s)) : Tail(s)[i] = s[i + 1]
  BY HeadTailProperties
<1>2. /\ DOMAIN s = 1..Len(s) /\ DOMAIN Tail(s) = 1..(Len(s) - 1)
      /\ Len(s) \in Nat /\ Len(s) # 0
  BY <1>1
<1>3. Head(s) \in ToSet(s) /\ ToSet(Tail(s)) \subseteq ToSet(s)
  BY <1>1, <1>2 DEF ToSet
<1>4. ASSUME IsInjective(s) PROVE IsInjective(Tail(s)) /\ Head(s) \notin ToSet(Tail(s))
  <2>1. \A i, j \in 1..Len(s) : s[i] = s[j] => i = j
    BY <1>2, <1>4 DEF IsInjective
  <2>2. \A i \in 1..(Len(s) - 1) : i + 1 \in 1..Len(s) /\ Tail(s)[i] = s[i + 1] /\ i + 1 # 1
    BY <1>1, <1>2
  <2>3. IsInjective(Tail(s))
    BY <1>2, <2>1, <2>2 DEF IsInjective
  <2>4. \A i \in 1..(Len(s) - 1) : Tail(s)[i] # s[1]
    BY <1>2, <2>1, <2>2
  <2> QED
    BY <1>1, <1>2, <2>3, <2>4 DEF ToSet
<1> QED
  BY <1>1, <1>3, <1>4

\* A sequence without one of its places.
LEMMA RemoveAtPlaces ==
  ASSUME NEW S, NEW s \in Seq(S), NEW i \in DOMAIN s
  PROVE  /\ RemoveAt(s, i) \in Seq(S) /\ Len(RemoveAt(s, i)) = Len(s) - 1
         /\ \A j \in 1..(Len(s) - 1) :
              RemoveAt(s, i)[j] = IF j < i THEN s[j] ELSE s[j + 1]
<1> DEFINE a == SubSeq(s, 1, i - 1)
           b == SubSeq(s, i + 1, Len(s))
<1>1. Len(s) \in Nat /\ i \in 1..Len(s)
  OBVIOUS
<1>2. a \in Seq(S) /\ Len(a) = i - 1 /\ \A j \in 1..(i - 1) : a[j] = s[j]
  BY <1>1, SubSeqProperties
<1>3. /\ b \in Seq(S) /\ Len(b) = Len(s) - i
      /\ \A j \in 1..(Len(s) - i) : b[j] = s[i + j]
  BY <1>1, SubSeqProperties
<1> HIDE DEF a, b
<1>4. /\ a \o b \in Seq(S) /\ Len(a \o b) = Len(s) - 1
      /\ \A j \in 1..(Len(s) - 1) : (a \o b)[j] = IF j < i THEN s[j] ELSE s[j + 1]
  <2>1. a \o b \in Seq(S) /\ Len(a \o b) = Len(s) - 1
    BY <1>1, <1>2, <1>3, ConcatProperties
  <2>2. ASSUME NEW j \in 1..(Len(s) - 1)
        PROVE  (a \o b)[j] = IF j < i THEN s[j] ELSE s[j + 1]
    <3>1. CASE j < i
      BY <1>1, <1>2, <1>3, <3>1, ConcatProperties
    <3>2. CASE ~(j < i)
      <4>1. /\ ~(j <= Len(a)) /\ j \in 1..(Len(a) + Len(b))
            /\ j - Len(a) \in 1..(Len(s) - i) /\ i + (j - Len(a)) = j + 1
        <5>1. i \in Nat /\ i >= 1 /\ i <= Len(s) /\ j \in Nat /\ j <= Len(s) - 1
          BY <1>1
        <5>2. Len(a) = i - 1 /\ Len(b) = Len(s) - i
          BY <1>2, <1>3
        <5>3. j >= i
          BY <3>2, <5>1
        <5>4. PICK n \in Nat : n = i - 1
          BY <5>1
        <5>5. Len(a) = n /\ i = n + 1 /\ Len(a) + Len(b) = Len(s) - 1 /\ Len(s) - i \in Nat
          BY <1>1, <5>1, <5>2, <5>4
        <5>6. ~(j <= n) /\ j - n \in 1..(Len(s) - i) /\ i + (j - n) = j + 1
          BY <1>1, <5>1, <5>3, <5>5
        <5> QED
          BY <5>5, <5>6
      <4>2. (a \o b)[j] = b[j - Len(a)]
        BY <1>2, <1>3, <4>1, ConcatProperties
      <4>3. b[j - Len(a)] = s[i + (j - Len(a))]
        BY <1>3, <4>1
      <4> QED
        BY <3>2, <4>1, <4>2, <4>3
    <3> QED
      BY <3>1, <3>2
  <2> QED
    BY <2>1, <2>2
<1> QED
  BY <1>4 DEF RemoveAt, a, b

\* The elements that are left, and that they stay apart.
LEMMA RemoveAtElements ==
  ASSUME NEW S, NEW s \in Seq(S), NEW i \in DOMAIN s
  PROVE  /\ RemoveAt(s, i) \in Seq(S) /\ Len(RemoveAt(s, i)) = Len(s) - 1
         /\ ToSet(RemoveAt(s, i)) \subseteq ToSet(s)
         /\ ToSet(s) \subseteq ToSet(RemoveAt(s, i)) \cup {s[i]}
         /\ IsInjective(s) => /\ IsInjective(RemoveAt(s, i))
                              /\ ToSet(RemoveAt(s, i)) = ToSet(s) \ {s[i]}
<1> DEFINE r == RemoveAt(s, i)
           N == Len(s) - 1
           At(x) == IF x < i THEN x ELSE x + 1
<1>1. /\ r \in Seq(S) /\ Len(r) = N /\ Len(s) \in Nat /\ i \in 1..Len(s)
      /\ DOMAIN s = 1..Len(s) /\ N \in Nat
      /\ \A j \in 1..N : r[j] = IF j < i THEN s[j] ELSE s[j + 1]
  BY RemoveAtPlaces
<1>2. DOMAIN r = 1..N
  BY <1>1
<1> HIDE DEF r
<1>3. \A x \in 1..N : At(x) \in 1..Len(s) /\ At(x) # i /\ r[x] = s[At(x)]
  BY <1>1
<1>4. \A x, y \in 1..N : At(x) = At(y) => x = y
  BY <1>1
<1>5. \A k \in 1..Len(s) : k # i => \E x \in 1..N : At(x) = k
  <2> SUFFICES ASSUME NEW k \in 1..Len(s), k # i PROVE \E x \in 1..N : At(x) = k
    OBVIOUS
  <2>1. CASE k < i
    BY <1>1, <2>1
  <2>2. CASE k > i
    <3>1. k - 1 \in 1..N /\ At(k - 1) = k
      BY <1>1, <2>2
    <3> QED
      BY <3>1
  <2> QED
    BY <1>1, <2>1, <2>2
<1> HIDE DEF At, N
<1>6. ToSet(r) \subseteq ToSet(s)
  BY <1>1, <1>2, <1>3 DEF ToSet
<1>7. ToSet(s) \subseteq ToSet(r) \cup {s[i]}
  <2> SUFFICES ASSUME NEW k \in 1..Len(s), k # i PROVE s[k] \in ToSet(r)
    BY <1>1 DEF ToSet
  <2>1. PICK x \in 1..N : At(x) = k
    BY <1>5
  <2> QED
    BY <1>2, <1>3, <2>1 DEF ToSet
<1>8. ASSUME IsInjective(s) PROVE IsInjective(r) /\ ToSet(r) = ToSet(s) \ {s[i]}
  <2>1. IsInjective(r)
    BY <1>1, <1>2, <1>3, <1>4, <1>8 DEF IsInjective
  <2>2. s[i] \notin ToSet(r)
    BY <1>1, <1>2, <1>3, <1>8 DEF IsInjective, ToSet
  <2> QED
    BY <1>6, <1>7, <2>1, <2>2
<1> QED
  BY <1>1, <1>6, <1>7, <1>8 DEF r, N

\* The first of some places.
LEMMA FirstPlace ==
  ASSUME NEW S \in SUBSET Nat, S # {}
  PROVE  \E x \in S : \A y \in S : x <= y
<1>1. PICK x \in S : \A y \in S : ~(<<y, x>> \in OpToRel(<, Nat))
  BY NatLessThanWellFounded, WFMin
<1>2. ASSUME NEW y \in S, ~(x <= y) PROVE FALSE
  <2>1. x \in Nat /\ y \in Nat
    BY SMT
  <2>2. y < x
    BY <1>2, <2>1, SMT
  <2>3. <<y, x>> \in OpToRel(<, Nat)
    BY <2>1, <2>2, Zenon DEF OpToRel
  <2> QED
    BY <1>1, <2>3
<1> QED
  BY <1>2

\* The elements of a finite set of numbers, counted from the least, take every
\* place from one to its size, in their order.
LEMMA EveryPlaceTaken ==
  ASSUME NEW S \in SUBSET Nat, IsFiniteSet(S)
  PROVE  /\ Cardinality(S) \in Nat
         /\ \A k \in 1..Cardinality(S) : \E i \in S : Cardinality({j \in S : j <= i}) = k
         /\ \A i \in S : Cardinality({j \in S : j <= i}) \in 1..Cardinality(S)
         /\ \A x, y \in S : Cardinality({j \in S : j <= x}) = Cardinality({j \in S : j <= y}) => x = y
         /\ \A x, y \in S : x < y => Cardinality({j \in S : j <= x}) < Cardinality({j \in S : j <= y})
<1> DEFINE Up(i) == {j \in S : j <= i}
           place == [i \in S |-> Cardinality(Up(i))]
           T == 1..Cardinality(S)
<1>1. /\ Cardinality(S) \in Nat
      /\ \A i \in S : /\ IsFiniteSet(Up(i)) /\ Cardinality(Up(i)) \in Nat
                      /\ Cardinality(Up(i)) <= Cardinality(S)
  <2>1. Cardinality(S) \in Nat
    BY FS_CardinalityType
  <2>2. ASSUME NEW i \in S
        PROVE  /\ IsFiniteSet(Up(i)) /\ Cardinality(Up(i)) \in Nat
               /\ Cardinality(Up(i)) <= Cardinality(S)
    BY FS_Subset, FS_CardinalityType, Up(i) \in SUBSET S
  <2> QED
    BY <2>1, <2>2
<1>2. \A i \in S : Cardinality(Up(i)) # 0
  <2>1. ASSUME NEW i \in S PROVE Up(i) # {}
    <3>1. i <= i
      BY i \in Nat, SMT
    <3> QED
      BY <3>1, <2>1
  <2> QED
    BY <1>1, <2>1, FS_EmptySet
<1>3. \A i, j \in S : i < j => Cardinality(Up(i)) < Cardinality(Up(j))
  <2>1. ASSUME NEW i \in S, NEW j \in S, i < j PROVE Up(i) \in SUBSET Up(j) /\ Up(i) # Up(j)
    <3>1. i \in Nat /\ j \in Nat
      OBVIOUS
    <3>2. \A x \in S : x <= i => x <= j
      BY <2>1, <3>1, SMT
    <3>3. j <= j /\ ~(j <= i)
      BY <2>1, <3>1, SMT
    <3> QED
      BY <3>2, <3>3
  <2>2. ASSUME NEW i \in S, NEW j \in S, i < j
        PROVE  /\ Cardinality(Up(i)) <= Cardinality(Up(j))
               /\ Cardinality(Up(i)) # Cardinality(Up(j))
    BY <1>1, <2>1, <2>2, FS_Subset
  <2> HIDE DEF Up
  <2> QED
    BY <1>1, <2>2, SMT
<1>4. place \in [S -> T]
  BY <1>1, <1>2, SMT
<1>5. \A i, j \in S : place[i] = place[j] => i = j
  <2>1. \A i, j \in S : i < j \/ j < i \/ i = j
    BY SMT
  <2>2. \A i \in S : Cardinality(Up(i)) \in Nat
    BY <1>1
  <2> HIDE DEF Up
  <2> QED
    BY <2>1, <2>2, <1>3, SMT
<1>6. place \in Injection(S, T)
  BY <1>4, <1>5, Zenon DEF Injection, IsInjective
<1>7. IsFiniteSet(T) /\ Cardinality(T) = Cardinality(S)
  <2>1. /\ IsFiniteSet(T)
        /\ Cardinality(T) = IF 1 > Cardinality(S) THEN 0 ELSE Cardinality(S) - 1 + 1
    BY <1>1, FS_Interval, 1 \in Int, Cardinality(S) \in Int
  <2> QED
    BY <2>1, <1>1, SMT
<1>8. place \in Surjection(S, T)
  BY <1>6, <1>7, FS_Injection
<1>9. \A k \in T : \E i \in S : place[i] = k
  BY <1>8, Zenon DEF Surjection
<1> QED
  BY <1>1, <1>3, <1>4, <1>5, <1>9
=============================================================================
