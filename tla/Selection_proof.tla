--------------------------- MODULE Selection_proof ---------------------------
(***************************************************************************)
(* What a selection becomes when the sequence is appended to, when its head  *)
(* is taken, and when neither concerns it.                                   *)
(***************************************************************************)
EXTENDS Selection, FiniteSetTheorems, SequenceTheorems, TLAPS

\* The positions have ranks from one to their number, which grow with them.
LEMMA Ranks ==
  ASSUME NEW n \in Nat, NEW at \in SUBSET (1..n)
  PROVE  /\ IsFiniteSet(at) /\ Cardinality(at) \in Nat
         /\ \A i \in at : Rank(at, i) \in 1..Cardinality(at)
         /\ \A i, j \in at : i < j => Rank(at, i) < Rank(at, j)
<1> DEFINE below(i) == {j \in at : j <= i}
<1>0. \A j \in at : j \in Nat
  OBVIOUS
<1>1. IsFiniteSet(at)
  <2>1. IsFiniteSet(1..n)
    BY FS_Interval
  <2>2. QED
    BY <2>1, FS_Subset
<1>2. Cardinality(at) \in Nat
  BY <1>1, FS_CardinalityType
<1>3. ASSUME NEW i
      PROVE  IsFiniteSet(below(i)) /\ Cardinality(below(i)) \in Nat
             /\ Cardinality(below(i)) <= Cardinality(at)
  <2>1. below(i) \in SUBSET at
    OBVIOUS
  <2>2. QED
    BY <1>1, <2>1, FS_Subset, FS_CardinalityType
<1>4. ASSUME NEW i \in at PROVE Cardinality(below(i)) # 0
  <2>1. i \in below(i)
    OBVIOUS
  <2>2. QED
    BY <1>3, <2>1, FS_EmptySet
<1>5. ASSUME NEW i \in at, NEW j \in at, i < j
      PROVE  Cardinality(below(i)) < Cardinality(below(j))
  <2>1. below(i) \in SUBSET below(j) /\ j \in below(j) /\ j \notin below(i)
    <3>1. i \in Nat /\ j \in Nat
      BY <1>0
    <3>2. j \in below(j) /\ j \notin below(i)
      BY <1>5, <3>1
    <3>3. \A l \in below(i) : l \in at /\ l <= j
      BY <1>0, <1>5, <3>1
    <3>4. QED
      BY <3>2, <3>3
  <2>2. Cardinality(below(i)) <= Cardinality(below(j))
        /\ (Cardinality(below(j)) = Cardinality(below(i)) => below(j) = below(i))
    BY <1>3, <2>1, FS_Subset
  <2> HIDE DEF below
  <2>3. QED
    BY <1>3, <2>1, <2>2
<1>6. \A i : Rank(at, i) = Cardinality(below(i))
  BY DEF Rank
<1> HIDE DEF below
<1>7. QED
  BY <1>1, <1>2, <1>3, <1>4, <1>5, <1>6

\* A position is found by its rank.
LEMMA NthOfRank ==
  ASSUME NEW n \in Nat, NEW at \in SUBSET (1..n), NEW i \in at
  PROVE  Nth(at, Rank(at, i)) = i
<1>1. \A j \in at : Rank(at, j) = Rank(at, i) => j = i
  <2> SUFFICES ASSUME NEW j \in at, j # i PROVE Rank(at, j) # Rank(at, i)
    OBVIOUS
  <2>1. j < i \/ i < j
    OBVIOUS
  <2>2. \A a \in at : Rank(at, a) \in Nat
    <3>1. \A a \in at : Rank(at, a) \in 1..Cardinality(at)
      BY Ranks
    <3>2. QED
      BY <3>1
  <2>3. \A a, b \in at : a < b => Rank(at, a) < Rank(at, b)
    BY Ranks
  <2>4. QED
    BY <2>1, <2>2, <2>3
<1>2. {j \in at : Rank(at, j) = Rank(at, i)} = {i}
  BY <1>1
<1>3. QED
  BY <1>2 DEF Nth

\* Every rank is taken: the ranks are as many as the positions and differ.
LEMMA NthInside ==
  ASSUME NEW n \in Nat, NEW at \in SUBSET (1..n), NEW k \in 1..Cardinality(at)
  PROVE  Nth(at, k) \in at /\ Rank(at, Nth(at, k)) = k
<1> DEFINE m == Cardinality(at)
           f == [i \in at |-> Rank(at, i)]
<1>1. IsFiniteSet(at) /\ m \in Nat
  BY Ranks
<1>2. f \in Injection(at, 1..m)
  <2>1. f \in [at -> 1..m]
    BY Ranks
  <2>2. \A i, j \in at : f[i] = f[j] => i = j
    <3>1. \A i \in at : Nth(at, f[i]) = i
      BY NthOfRank
    <3>2. QED
      BY <3>1
  <2>3. IsInjective(f)
    BY <2>1, <2>2 DEF IsInjective
  <2>4. QED
    BY <2>1, <2>3 DEF Injection
<1>3. IsFiniteSet(1..m) /\ Cardinality(1..m) = m
  BY <1>1, FS_Interval
<1>4. f \in Surjection(at, 1..m)
  BY <1>2, <1>3, FS_Injection
<1>5. PICK i \in at : Rank(at, i) = k
  BY <1>1, <1>4 DEF Surjection
<1>6. QED
  BY <1>5, NthOfRank

-----------------------------------------------------------------------------
\* A position behind the others is selected last, and moves none of them.
LEMMA SelectLast ==
  ASSUME NEW n \in Nat, NEW at \in SUBSET (1..n)
  PROVE  LET more == at \cup {n + 1} IN
         /\ Cardinality(more) = Cardinality(at) + 1
         /\ \A k \in 1..Cardinality(at) : Nth(more, k) = Nth(at, k)
         /\ Nth(more, Cardinality(more)) = n + 1
<1> DEFINE more == at \cup {n + 1}
<1>0. \A j \in at : j \in Nat /\ j <= n
  OBVIOUS
<1>1. /\ IsFiniteSet(at) /\ Cardinality(at) \in Nat /\ n + 1 \notin at
      /\ more \in SUBSET (1..(n + 1)) /\ n + 1 \in Nat
  <2>1. n + 1 \notin at /\ more \in SUBSET (1..(n + 1)) /\ n + 1 \in Nat
    BY <1>0
  <2>2. QED
    BY <2>1, Ranks
<1>2. Cardinality(more) = Cardinality(at) + 1
  BY <1>1, FS_AddElement
<1>3. ASSUME NEW i \in at PROVE Rank(more, i) = Rank(at, i)
  <2>1. {j \in more : j <= i} = {j \in at : j <= i}
    BY <1>0
  <2>2. QED
    BY <2>1 DEF Rank
<1>4. Rank(more, n + 1) = Cardinality(more)
  <2>1. \A j \in more : j <= n + 1
    BY <1>0
  <2>2. {j \in more : j <= n + 1} = more
    BY <2>1
  <2>3. QED
    BY <2>2 DEF Rank
<1> HIDE DEF more
<1>5. ASSUME NEW k \in 1..Cardinality(at) PROVE Nth(more, k) = Nth(at, k)
  <2>1. Nth(at, k) \in at /\ Rank(at, Nth(at, k)) = k
    BY NthInside
  <2>2. Nth(at, k) \in more /\ Rank(more, Nth(at, k)) = k
    BY <1>3, <2>1 DEF more
  <2>3. QED
    BY <1>1, <2>2, NthOfRank
<1>6. Nth(more, Cardinality(more)) = n + 1
  <2>1. n + 1 \in more
    BY DEF more
  <2>2. QED
    BY <1>1, <1>4, <2>1, NthOfRank
<1>7. QED
  BY <1>2, <1>5, <1>6 DEF more

\* Without the head, the positions move up by one, and the first is gone if it was the head.
LEMMA SelectTail ==
  ASSUME NEW n \in Nat, NEW at \in SUBSET (1..n)
  PROVE  LET rest == {i \in 1..(n - 1) : i + 1 \in at}
             h    == IF 1 \in at THEN 1 ELSE 0 IN
         /\ Cardinality(rest) + h = Cardinality(at)
         /\ \A k \in 1..Cardinality(rest) : Nth(rest, k) + 1 = Nth(at, k + h)
         /\ 1 \in at => Nth(at, 1) = 1
<1> DEFINE rest == {i \in 1..(n - 1) : i + 1 \in at}
           h    == IF 1 \in at THEN 1 ELSE 0
           early(i) == {j \in rest : j <= i}
           shifted(i) == {j \in at \ {1} : j <= i + 1}
<1>p. \A j \in at : j \in Nat /\ 1 <= j /\ j <= n
  OBVIOUS
<1>0. rest \in SUBSET (1..n) /\ IsFiniteSet(rest) /\ IsFiniteSet(at)
      /\ Cardinality(rest) \in Nat /\ Cardinality(at) \in Nat
  <2>1. rest \in SUBSET (1..n)
    OBVIOUS
  <2>2. QED
    BY <2>1, Ranks
<1>1. ASSUME NEW i \in Nat
      PROVE  Cardinality(early(i)) + h = Cardinality({j \in at : j <= i + 1})
  <2> DEFINE g == [j \in early(i) |-> j + 1]
  <2>1. g \in Bijection(early(i), shifted(i))
    <3>1. g \in [early(i) -> shifted(i)]
      OBVIOUS
    <3>2. IsInjective(g)
      BY DEF IsInjective
    <3>3. \A j \in shifted(i) : \E l \in early(i) : g[l] = j
      <4> SUFFICES ASSUME NEW j \in shifted(i) PROVE \E l \in early(i) : g[l] = j
        OBVIOUS
      <4>1. j - 1 \in early(i) /\ g[j - 1] = j
        OBVIOUS
      <4>2. QED
        BY <4>1
    <3>4. QED
      BY <3>1, <3>2, <3>3 DEF Bijection, Injection, Surjection
  <2>2. IsFiniteSet(early(i))
    <3>1. early(i) \in SUBSET rest
      OBVIOUS
    <3>2. QED
      BY <1>0, <3>1, FS_Subset
  <2>3. IsFiniteSet(shifted(i)) /\ Cardinality(shifted(i)) = Cardinality(early(i))
    BY <2>1, <2>2, FS_Bijection DEF ExistsBijection
  <2>4. CASE 1 \in at
    <3>1. {j \in at : j <= i + 1} = shifted(i) \cup {1} /\ 1 \notin shifted(i)
      BY <2>4
    <3>2. Cardinality(shifted(i) \cup {1}) = Cardinality(shifted(i)) + 1
      BY <2>3, <3>1, FS_AddElement
    <3>3. QED
      BY <2>3, <2>4, <3>1, <3>2
  <2>5. CASE 1 \notin at
    <3>1. {j \in at : j <= i + 1} = shifted(i)
      BY <2>5
    <3>2. Cardinality({j \in at : j <= i + 1}) = Cardinality(early(i)) /\ h = 0
      BY <2>3, <2>5, <3>1
    <3>3. Cardinality(early(i)) \in Nat
      BY <2>2, FS_CardinalityType
    <3>4. QED
      BY <3>2, <3>3
  <2>6. QED
    BY <2>4, <2>5
<1>2. Cardinality(rest) + h = Cardinality(at)
  <2>1. early(n) = rest
    OBVIOUS
  <2>2. {j \in at : j <= n + 1} = at
    <3>1. \A j \in at : j <= n + 1
      BY <1>p
    <3>2. QED
      BY <3>1
  <2>3. Cardinality(early(n)) + h = Cardinality({j \in at : j <= n + 1})
    BY <1>1
  <2>4. QED
    BY <2>1, <2>2, <2>3
<1>3. ASSUME NEW i \in rest PROVE Rank(at, i + 1) = Rank(rest, i) + h
  BY <1>1 DEF Rank
<1>4. ASSUME 1 \in at PROVE Nth(at, 1) = 1
  <2>1. {j \in at : j <= 1} = {1}
    <3>1. \A j \in at : j <= 1 <=> j = 1
      BY <1>p
    <3>2. QED
      BY <1>4, <3>1
  <2>2. Rank(at, 1) = 1
    BY <2>1, FS_Singleton DEF Rank
  <2>3. QED
    BY <1>4, <2>2, NthOfRank
<1>5. ASSUME NEW k \in 1..Cardinality(rest) PROVE Nth(rest, k) + 1 = Nth(at, k + h)
  <2>1. Nth(rest, k) \in rest /\ Rank(rest, Nth(rest, k)) = k
    BY <1>0, NthInside
  <2>2. Nth(rest, k) + 1 \in at /\ Rank(at, Nth(rest, k) + 1) = k + h
    BY <1>3, <2>1
  <2>3. QED
    BY <2>2, NthOfRank
<1>6. QED
  BY <1>2, <1>4, <1>5
=============================================================================
