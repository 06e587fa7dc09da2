---------------------------- MODULE Ranking_proofs ----------------------------
(***************************************************************************)
(* That sorting by rank gives every element once, in the order it is       *)
(* sorted by: for any finite set and any strict order of it.               *)
(***************************************************************************)
EXTENDS Ranking, WellFoundedInduction, FiniteSetTheorems, TLAPS

\* No two elements of S are alike to R.
StrictOrder(R, S) ==
    /\ \A r \in S : <<r, r>> \notin R
    /\ \A q, r, s \in S : <<q, r>> \in R /\ <<r, s>> \in R => <<q, s>> \in R
    /\ \A q, r \in S : q # r => <<q, r>> \in R \/ <<r, q>> \in R

\* A set of numbers has a least one.
LEMMA LeastNat ==
    ASSUME NEW T \in SUBSET Nat, T # {}
    PROVE  \E x \in T : \A y \in T : x <= y
<1> DEFINE R == {ss \in Nat \X Nat : ss[1] < ss[2]}
<1>1. IsWellFoundedOn(R, Nat)
    BY NatLessThanWellFounded DEF OpToRel
<1>2. \A i, j \in Nat : i < j => <<i, j>> \in R
    OBVIOUS
<1> HIDE DEF R
<1>3. PICK x \in T : \A y \in T : ~(<<y, x>> \in R)
    BY <1>1, WFMin
<1>4. ASSUME NEW y \in T, y < x PROVE FALSE
    BY <1>2, <1>3, <1>4
<1> QED
    BY <1>4

\* What is sorted has every element once, and in order: no two elements have
\* as many before them, so that the ranks are all there are.
THEOREM RankedIsSorted ==
    ASSUME NEW S, IsFiniteSet(S), NEW R, StrictOrder(R, S)
    PROVE  /\ Cardinality(S) \in Nat
           /\ Ranked(S, R) \in [1..Cardinality(S) -> S]
           /\ \A r \in S : \E i \in DOMAIN Ranked(S, R) : Ranked(S, R)[i] = r
           /\ \A i, j \in DOMAIN Ranked(S, R) :
                  i < j => <<Ranked(S, R)[i], Ranked(S, R)[j]>> \in R
<1> DEFINE n == Cardinality(S)
           above(r) == {q \in S : <<q, r>> \in R}
           rank == [r \in S |-> Cardinality(above(r)) + 1]
           sorted == Ranked(S, R)
<1>0. n \in Nat
    BY FS_CardinalityType
<1>1. \A r \in S : /\ IsFiniteSet(above(r)) /\ Cardinality(above(r)) \in Nat
                   /\ Cardinality(above(r)) < n
    <2> TAKE r \in S
    <2>1. above(r) \subseteq S /\ r \notin above(r)
        BY DEF StrictOrder
    <2>2. IsFiniteSet(above(r)) /\ Cardinality(above(r)) <= n
          /\ (Cardinality(above(r)) = n => above(r) = S)
        BY <2>1, FS_Subset
    <2>3. Cardinality(above(r)) \in Nat
        BY <2>2, FS_CardinalityType
    <2>4. Cardinality(above(r)) # n
        BY <2>1, <2>2
    <2> QED
        BY <1>0, <2>2, <2>3, <2>4
<1>2. ASSUME NEW q \in S, NEW r \in S, <<q, r>> \in R
      PROVE  Cardinality(above(q)) < Cardinality(above(r))
    <2>1. above(q) \subseteq above(r) /\ q \in above(r) /\ q \notin above(q)
        BY <1>2 DEF StrictOrder
    <2>2. /\ Cardinality(above(q)) <= Cardinality(above(r))
          /\ (Cardinality(above(q)) = Cardinality(above(r)) => above(q) = above(r))
        BY <1>1, <2>1, FS_Subset
    <2>3. Cardinality(above(q)) # Cardinality(above(r))
        BY <2>1, <2>2
    <2> HIDE DEF above
    <2> QED
        BY <1>1, <2>2, <2>3
<1>3. ASSUME NEW q \in S, NEW r \in S, Cardinality(above(q)) = Cardinality(above(r))
      PROVE  q = r
    <2> SUFFICES ASSUME q # r PROVE FALSE
        OBVIOUS
    <2>1. <<q, r>> \in R \/ <<r, q>> \in R
        BY DEF StrictOrder
    <2>2. Cardinality(above(q)) \in Nat /\ Cardinality(above(r)) \in Nat
        BY <1>1
    <2> HIDE DEF above
    <2> QED
        BY <1>2, <1>3, <2>1, <2>2
<1>4. \A i \in 1..n : \E r \in S : Cardinality(above(r)) = i - 1
    <2>1. rank \in [S -> 1..n]
        <3> HIDE DEF above
        <3> QED
            BY <1>0, <1>1
    <2>2. rank \in Injection(S, 1..n)
        <3>1. ASSUME NEW q \in S, NEW r \in S, rank[q] = rank[r]
              PROVE  q = r
            <4>1. Cardinality(above(q)) + 1 = Cardinality(above(r)) + 1
                BY <3>1
            <4>2. Cardinality(above(q)) = Cardinality(above(r))
                <5> HIDE DEF above
                <5> QED
                    BY <1>1, <4>1
            <4> QED
                BY <1>3, <4>2
        <3> HIDE DEF rank
        <3> QED
            BY <2>1, <3>1 DEF Injection, IsInjective
    <2>3. IsFiniteSet(1..n) /\ Cardinality(1..n) = n
        <3>1. 1 \in Int /\ n \in Int
            BY <1>0
        <3> HIDE DEF n
        <3> QED
            BY <1>0, <3>1, FS_Interval
    <2>4. rank \in Surjection(S, 1..n)
        <3> HIDE DEF rank
        <3> QED
            BY <2>2, <2>3, FS_Injection
    <2>5. ASSUME NEW i \in 1..n
          PROVE  \E r \in S : Cardinality(above(r)) = i - 1
        <3>1. PICK r \in S : rank[r] = i
            <4> HIDE DEF rank, n
            <4> QED
                BY <2>4 DEF Surjection
        <3>2. Cardinality(above(r)) + 1 = i
            BY <3>1
        <3> HIDE DEF above
        <3> QED
            BY <1>0, <1>1, <3>2
    <2> QED
        BY <2>5
<1>5. sorted = [i \in 1..n |-> CHOOSE r \in S : Cardinality(above(r)) = i - 1]
    BY DEF Ranked
<1> HIDE DEF sorted
<1>6. \A i \in 1..n : sorted[i] \in S /\ Cardinality(above(sorted[i])) = i - 1
    BY <1>4, <1>5
<1>7. sorted \in [1..n -> S]
    BY <1>5, <1>6
<1> HIDE DEF above, n
<1>8. ASSUME NEW r \in S PROVE \E i \in 1..n : sorted[i] = r
    <2> DEFINE i == Cardinality(above(r)) + 1
    <2>1. i \in 1..n /\ i - 1 = Cardinality(above(r))
        BY <1>0, <1>1
    <2> QED
        BY <1>3, <1>6, <2>1
<1>9. ASSUME NEW i \in 1..n, NEW j \in 1..n, i < j
      PROVE  <<sorted[i], sorted[j]>> \in R
    <2>1. Cardinality(above(sorted[i])) < Cardinality(above(sorted[j]))
        BY <1>0, <1>6, <1>9
    <2>2. sorted[i] \in S /\ sorted[j] \in S
        BY <1>6
    <2>3. ~(sorted[i] = sorted[j])
        BY <1>0, <1>6, <1>9
    <2>4. ~(<<sorted[j], sorted[i]>> \in R)
        BY <1>1, <1>2, <2>1, <2>2
    <2> QED
        BY <2>2, <2>3, <2>4 DEF StrictOrder
<1> QED
    BY <1>0, <1>7, <1>8, <1>9 DEF n, sorted

\* Every set that is not empty has an element that comes before the others.
LEMMA RankedHasFirst ==
    ASSUME NEW S, IsFiniteSet(S), NEW R, StrictOrder(R, S), NEW T \in SUBSET S, T # {}
    PROVE  \E r \in T : \A q \in T : q = r \/ <<r, q>> \in R
<1> DEFINE f == Ranked(S, R)
           N == {i \in DOMAIN f : f[i] \in T}
<1>1. /\ Cardinality(S) \in Nat /\ f \in [1..Cardinality(S) -> S]
      /\ \A r \in S : \E i \in DOMAIN f : f[i] = r
      /\ \A i, j \in DOMAIN f : i < j => <<f[i], f[j]>> \in R
    BY RankedIsSorted
<1> HIDE DEF f
<1>2. N \in SUBSET Nat /\ N # {}
    BY <1>1
<1>3. PICK m \in N : \A i \in N : m <= i
    BY <1>2, LeastNat
<1>4. ASSUME NEW q \in T PROVE q = f[m] \/ <<f[m], q>> \in R
    <2>1. PICK i \in N : f[i] = q
        BY <1>1
    <2>2. i = m \/ m < i
        BY <1>2, <1>3
    <2> QED
        BY <1>1, <2>1, <2>2
<1> QED
    BY <1>4

===============================================================================
