------------------------- MODULE QueryExecutionProofs -------------------------
(***************************************************************************)
(* Proofs about the retrieval and the execution of queries, for every set  *)
(* of units, relations, scores, decisions and limits, any number of        *)
(* queries, activations and faults.                                        *)
(*                                                                         *)
(* The fusion and the package are folds over sorted sequences, so the      *)
(* first part is about those: what a fold keeps, and that InOrder sorts.   *)
(* The induction it takes is over a set of numbers, by the well-foundedness*)
(* of the naturals, since the library's induction theorems have operators  *)
(* for parameters, which the provers do not instantiate.                   *)
(***************************************************************************)
EXTENDS QueryExecution, WellFoundedInduction, FiniteSetTheorems, TLAPS

----------------------------------------------------------------------------
(* Induction and folds.                                                    *)

LEMMA LessThanWellFounded == IsWellFoundedOn({p \in Nat \X Nat : p[1] < p[2]}, Nat)
  BY NatLessThanWellFounded DEF OpToRel

\* A set that has zero and with a number its successor has all numbers.
LEMMA Induction ==
    ASSUME NEW S, 0 \in S, \A n \in Nat : n \in S => n + 1 \in S
    PROVE  \A n \in Nat : n \in S
  <1> DEFINE R == {p \in Nat \X Nat : p[1] < p[2]}
  <1>1. SUFFICES ASSUME Nat \ S # {} PROVE FALSE
    OBVIOUS
  <1>2. PICK x \in Nat \ S : \A y \in Nat \ S : <<y, x>> \notin R
    <2>1. Nat \ S \subseteq Nat
      OBVIOUS
    <2>2. IsWellFoundedOn(R, Nat)
      BY LessThanWellFounded
    <2> HIDE DEF R
    <2> QED BY <1>1, <2>1, <2>2, WFMin
  <1>3. x # 0 /\ x - 1 \in Nat /\ x - 1 < x
    OBVIOUS
  <1>4. <<x - 1, x>> \in R
    BY <1>3
  <1>5. x - 1 \in S
    BY <1>2, <1>3, <1>4
  <1> QED BY <1>3, <1>5

\* Sets of one index more.
LEMMA OneMore ==
    ASSUME NEW m \in Nat, NEW s \in SUBSET (1..(m + 1))
    PROVE  /\ s \ {m + 1} \in SUBSET (1..m)
           /\ m + 1 \notin s => s \in SUBSET (1..m)
           /\ \A x \in s : x \in Nat /\ m + 1 >= x
  <1>1. ASSUME NEW x \in s PROVE x \in Nat /\ m + 1 >= x /\ (x # m + 1 => x \in 1..m)
    <2>1. x \in 1..(m + 1)
      OBVIOUS
    <2> QED BY <2>1
  <1> QED BY <1>1

LEMMA NoIndices == \A s \in SUBSET (1..0) : s = {}
  <1>1. \A x \in 1..0 : FALSE
    OBVIOUS
  <1> QED BY <1>1

\* The last index of a set of indices.
LEMMA LastIndex ==
    ASSUME NEW n \in Nat
    PROVE  \A s \in SUBSET (1..n) : s # {} => Max(s) \in s /\ \A y \in s : Max(s) >= y
  <1> DEFINE Has(s) == \E x \in s : \A y \in s : x >= y
             T == {m \in Nat : \A s \in SUBSET (1..m) : s # {} => Has(s)}
  <1>1. 0 \in T
    BY NoIndices
  <1>2. ASSUME NEW m \in Nat, m \in T PROVE m + 1 \in T
    <2>1. ASSUME NEW s \in SUBSET (1..(m + 1)), s # {} PROVE Has(s)
      <3>1. CASE m + 1 \in s
        <4>1. \A y \in s : m + 1 >= y
          BY OneMore
        <4> QED BY <3>1, <4>1
      <3>2. CASE m + 1 \notin s
        <4>1. s \in SUBSET (1..m)
          BY <3>2, OneMore
        <4> QED BY <1>2, <2>1, <4>1
      <3> QED BY <3>1, <3>2
    <2> QED BY <2>1
  <1>3. n \in T
    <2> HIDE DEF T
    <2> QED BY <1>1, <1>2, Induction
  <1>4. ASSUME NEW s \in SUBSET (1..n), s # {} PROVE Max(s) \in s /\ \A y \in s : Max(s) >= y
    <2>1. Has(s)
      BY <1>3, <1>4
    <2> QED BY <2>1 DEF Max
  <1> QED BY <1>4

LEMMA LastOfOneMore ==
    ASSUME NEW m \in Nat, NEW s \in SUBSET (1..(m + 1)), m + 1 \in s
    PROVE  Max(s) = m + 1
  <1>1. m + 1 \in Nat /\ s # {}
    OBVIOUS
  <1>2. Max(s) \in s /\ \A y \in s : Max(s) >= y
    BY <1>1, LastIndex
  <1>3. Max(s) \in Nat /\ m + 1 >= Max(s) /\ Max(s) >= m + 1
    BY <1>2, OneMore
  <1> QED BY <1>3

\* The recursion over sets of indices that a fold is defined by.
Recurs(iter, n, seq, base, G) ==
    \A s \in SUBSET (1..n) :
        iter[s] = IF s = {} THEN base ELSE G[<<iter[s \ {Max(s)}], seq[Max(s)]>>]

\* It has a solution.
LEMMA FoldExists ==
    ASSUME NEW A, NEW X, NEW n \in Nat, NEW seq \in [1..n -> X], NEW base \in A,
           NEW G \in [A \X X -> A]
    PROVE  \E iter \in [SUBSET (1..n) -> A] : Recurs(iter, n, seq, base, G)
  <1> DEFINE Solves(iter, m) == \A s \in SUBSET (1..m) :
                 iter[s] = IF s = {} THEN base ELSE G[<<iter[s \ {Max(s)}], seq[Max(s)]>>]
             T == {m \in Nat : m <= n => \E iter \in [SUBSET (1..m) -> A] : Solves(iter, m)}
  <1>1. 0 \in T
    <2> DEFINE start == [s \in SUBSET (1..0) |-> base]
    <2>1. start \in [SUBSET (1..0) -> A] /\ Solves(start, 0)
      BY NoIndices
    <2> QED BY <2>1
  <1>2. ASSUME NEW m \in Nat, m \in T PROVE m + 1 \in T
    <2> SUFFICES ASSUME m + 1 <= n
                 PROVE  \E iter \in [SUBSET (1..(m + 1)) -> A] : Solves(iter, m + 1)
      <3>1. m + 1 \in Nat
        OBVIOUS
      <3> HIDE DEF Solves
      <3> QED BY <3>1
    <2>1. PICK old \in [SUBSET (1..m) -> A] : Solves(old, m)
      <3>1. m <= n
        OBVIOUS
      <3> HIDE DEF Solves
      <3> QED BY <1>2, <3>1
    <2>2. seq[m + 1] \in X
      OBVIOUS
    <2> DEFINE new == [s \in SUBSET (1..(m + 1)) |->
                          IF m + 1 \in s THEN G[<<old[s \ {m + 1}], seq[m + 1]>>] ELSE old[s]]
    <2>3. \A s \in SUBSET (1..(m + 1)) : s \ {m + 1} \in SUBSET (1..m)
      BY OneMore
    <2>4. \A s \in SUBSET (1..(m + 1)) : m + 1 \notin s => s \in SUBSET (1..m)
      BY OneMore
    <2>5. new \in [SUBSET (1..(m + 1)) -> A]
      <3>1. ASSUME NEW s \in SUBSET (1..(m + 1)) PROVE new[s] \in A
        <4>1. CASE m + 1 \in s
          <5>1. <<old[s \ {m + 1}], seq[m + 1]>> \in A \X X
            BY <2>2, <2>3
          <5> QED BY <4>1, <5>1
        <4>2. CASE m + 1 \notin s
          BY <2>4, <4>2
        <4> QED BY <4>1, <4>2
      <3> QED BY <3>1
    <2>6. Solves(new, m + 1)
      <3> SUFFICES ASSUME NEW s \in SUBSET (1..(m + 1))
                   PROVE  new[s] = IF s = {} THEN base
                                   ELSE G[<<new[s \ {Max(s)}], seq[Max(s)]>>]
        OBVIOUS
      <3>1. CASE m + 1 \in s
        <4>2. Max(s) = m + 1
          BY <3>1, LastOfOneMore
        <4>3. new[s \ {m + 1}] = old[s \ {m + 1}]
          BY <2>3
        <4> QED BY <3>1, <4>2, <4>3
      <3>2. CASE m + 1 \notin s /\ s # {}
        <4>1. s \in SUBSET (1..m)
          BY <2>4, <3>2
        <4>2. Max(s) \in s
          BY <3>2, <4>1, LastIndex
        <4>3. s \ {Max(s)} \in SUBSET (1..m) /\ m + 1 \notin s \ {Max(s)}
          BY <4>1, <3>2
        <4>4. new[s] = old[s] /\ new[s \ {Max(s)}] = old[s \ {Max(s)}]
          BY <3>2, <4>3
        <4> QED BY <2>1, <3>2, <4>1, <4>4
      <3>3. CASE s = {}
        <4>1. s \in SUBSET (1..m) /\ m + 1 \notin s
          BY <3>3
        <4>2. new[s] = old[s] /\ old[s] = base
          BY <2>1, <3>3, <4>1
        <4> QED BY <3>3, <4>2
      <3> QED BY <3>1, <3>2, <3>3
    <2> HIDE DEF new, Solves
    <2> QED BY <2>5, <2>6
  <1>3. n \in T
    <2> HIDE DEF T
    <2> QED BY <1>1, <1>2, Induction
  <1>4. \E iter \in [SUBSET (1..n) -> A] : Solves(iter, n)
    <2>1. n <= n
      OBVIOUS
    <2>2. n <= n => \E iter \in [SUBSET (1..n) -> A] : Solves(iter, n)
      <3> HIDE DEF Solves
      <3> QED BY <1>3, Zenon
    <2> HIDE DEF Solves
    <2> QED BY <2>1, <2>2
  <1> QED BY <1>4 DEF Recurs

\* What holds of the base of a recursion and passes from one value to the
\* next holds of every value.
LEMMA FoldKeeps ==
    ASSUME NEW A, NEW n \in Nat, NEW iter, iter[{}] \in A,
           \A s \in SUBSET (1..n) : s # {} /\ iter[s \ {Max(s)}] \in A => iter[s] \in A
    PROVE  \A s \in SUBSET (1..n) : iter[s] \in A
  <1> DEFINE T == {m \in Nat : m <= n => \A s \in SUBSET (1..m) : iter[s] \in A}
  <1>1. 0 \in T
    BY NoIndices
  <1>2. ASSUME NEW m \in Nat, m \in T PROVE m + 1 \in T
    <2> SUFFICES ASSUME m + 1 <= n PROVE \A s \in SUBSET (1..(m + 1)) : iter[s] \in A
      OBVIOUS
    <2> TAKE s \in SUBSET (1..(m + 1))
    <2>0. \A r \in SUBSET (1..m) : iter[r] \in A
      BY <1>2
    <2>1. s \in SUBSET (1..n)
      <3>1. 1..(m + 1) \subseteq 1..n
        OBVIOUS
      <3> QED BY <3>1
    <2>2. CASE m + 1 \in s
      <3>2. Max(s) = m + 1
        BY <2>2, LastOfOneMore
      <3>3. iter[s \ {m + 1}] \in A
        BY <2>0, OneMore
      <3> QED BY <2>1, <2>2, <3>2, <3>3
    <2>3. CASE m + 1 \notin s
      <3>1. s \in SUBSET (1..m)
        BY <2>3, OneMore
      <3> QED BY <2>0, <3>1
    <2> QED BY <2>2, <2>3
  <1>3. n \in T
    <2> HIDE DEF T
    <2> QED BY <1>1, <1>2, Induction
  <1> QED BY <1>3

----------------------------------------------------------------------------
(* Sorting.  An order is a set of pairs here; Rank counts what comes before.*)

StrictOrder(R, S) ==
    /\ \A x \in S : <<x, x>> \notin R
    /\ \A x, y, z \in S : <<x, y>> \in R /\ <<y, z>> \in R => <<x, z>> \in R
    /\ \A x, y \in S : x # y => <<x, y>> \in R \/ <<y, x>> \in R

Earlier(R, S, x) == {y \in S : <<y, x>> \in R}
Rank(R, S, x)    == Cardinality(Earlier(R, S, x))

\* Who comes later has more before him, and nobody has all.
LEMMA RanksGrow ==
    ASSUME NEW S, IsFiniteSet(S), NEW R, StrictOrder(R, S)
    PROVE  /\ \A x \in S : Rank(R, S, x) \in 0..(Cardinality(S) - 1)
           /\ \A x, y \in S : <<x, y>> \in R => Rank(R, S, x) < Rank(R, S, y)
  <1>1. \A x \in S : Earlier(R, S, x) \in SUBSET S /\ IsFiniteSet(Earlier(R, S, x))
    <2>1. \A x \in S : Earlier(R, S, x) \in SUBSET S
      BY DEF Earlier
    <2> QED BY <2>1, FS_Subset
  <1>2. \A x \in S : Rank(R, S, x) \in Nat
    BY <1>1, FS_CardinalityType DEF Rank
  <1>3. ASSUME NEW x \in S PROVE Rank(R, S, x) \in 0..(Cardinality(S) - 1)
    <2>1. Cardinality(S) \in Nat
      BY FS_CardinalityType
    <2>2. Rank(R, S, x) <= Cardinality(S)
      BY <1>1, FS_Subset DEF Rank
    <2>3. x \notin Earlier(R, S, x)
      BY DEF StrictOrder, Earlier
    <2>4. Cardinality(S) # Rank(R, S, x)
      BY <1>1, <2>3, FS_Subset DEF Rank
    <2> QED BY <1>2, <2>1, <2>2, <2>4
  <1>4. ASSUME NEW x \in S, NEW y \in S, <<x, y>> \in R
        PROVE  Rank(R, S, x) < Rank(R, S, y)
    <2>1. Earlier(R, S, x) \in SUBSET Earlier(R, S, y)
      BY <1>4 DEF StrictOrder, Earlier
    <2>2. x \in Earlier(R, S, y) /\ x \notin Earlier(R, S, x)
      BY <1>4 DEF StrictOrder, Earlier
    <2>3. Rank(R, S, x) <= Rank(R, S, y) /\ Rank(R, S, x) # Rank(R, S, y)
      BY <1>1, <2>1, <2>2, FS_Subset DEF Rank
    <2> QED BY <1>2, <2>3
  <1> QED BY <1>3, <1>4

\* Every place of the order is taken.
LEMMA RanksTaken ==
    ASSUME NEW S, IsFiniteSet(S), NEW R, StrictOrder(R, S), NEW i \in 1..Cardinality(S)
    PROVE  \E x \in S : Rank(R, S, x) = i - 1
  <1> DEFINE n == Cardinality(S)
             f == [x \in S |-> Rank(R, S, x) + 1]
  <1>1. n \in Nat
    BY FS_CardinalityType
  <1>2. IsFiniteSet(1..n) /\ Cardinality(1..n) = n
    BY <1>1, FS_Interval
  <1>3. f \in [S -> 1..n]
    BY <1>1, RanksGrow
  <1>4. IsInjective(f)
    <2> SUFFICES ASSUME NEW x \in S, NEW y \in S, x # y PROVE f[x] # f[y]
      BY DEF IsInjective
    <2>1. <<x, y>> \in R \/ <<y, x>> \in R
      BY DEF StrictOrder
    <2>2. Rank(R, S, x) < Rank(R, S, y) \/ Rank(R, S, y) < Rank(R, S, x)
      BY <2>1, RanksGrow
    <2>3. Rank(R, S, x) \in 0..(n - 1) /\ Rank(R, S, y) \in 0..(n - 1)
      BY RanksGrow
    <2> QED BY <1>1, <2>2, <2>3
  <1>5. f \in Surjection(S, 1..n)
    <2>1. f \in Injection(S, 1..n)
      BY <1>3, <1>4 DEF Injection
    <2> HIDE DEF f
    <2> QED BY <1>2, <2>1, FS_Injection
  <1>6. PICK x \in S : f[x] = i
    <2> HIDE DEF f
    <2> QED BY <1>5 DEF Surjection
  <1>7. Rank(R, S, x) \in 0..(n - 1)
    BY RanksGrow
  <1> QED BY <1>1, <1>6, <1>7

\* A sequence that has every member of S once, in the order R.
Sorts(seq, S, R) ==
    /\ seq \in [1..Cardinality(S) -> S]
    /\ \A x \in S : \E i \in 1..Cardinality(S) : seq[i] = x
    /\ \A i, j \in 1..Cardinality(S) : <<seq[i], seq[j]>> \in R <=> i < j
    /\ \A i, j \in 1..Cardinality(S) : seq[i] = seq[j] => i = j

\* A sequence that has at each place the member of that rank is the set,
\* sorted: each member is at one place, and a place before another holds what
\* comes before.
LEMMA SortedByRank ==
    ASSUME NEW S, IsFiniteSet(S), NEW R, StrictOrder(R, S),
           NEW seq \in [1..Cardinality(S) -> S],
           \A i \in 1..Cardinality(S) : Rank(R, S, seq[i]) = i - 1
    PROVE  Sorts(seq, S, R)
  <1>1. Cardinality(S) \in Nat
    BY FS_CardinalityType
  <1>2. ASSUME NEW i \in 1..Cardinality(S), NEW j \in 1..Cardinality(S)
        PROVE  /\ seq[i] = seq[j] => i = j
               /\ <<seq[i], seq[j]>> \in R => i < j
    <2>1. Rank(R, S, seq[i]) = i - 1 /\ Rank(R, S, seq[j]) = j - 1
      OBVIOUS
    <2>2. seq[i] \in S /\ seq[j] \in S
      OBVIOUS
    <2>3. <<seq[i], seq[j]>> \in R => Rank(R, S, seq[i]) < Rank(R, S, seq[j])
      BY <2>2, RanksGrow
    <2> QED BY <1>1, <2>1, <2>3
  <1>3. ASSUME NEW i \in 1..Cardinality(S), NEW j \in 1..Cardinality(S), i < j
        PROVE  <<seq[i], seq[j]>> \in R
    <2>1. seq[i] # seq[j] /\ seq[i] \in S /\ seq[j] \in S
      BY <1>1, <1>2, <1>3
    <2>2. <<seq[j], seq[i]>> \notin R
      BY <1>1, <1>2, <1>3
    <2> QED BY <2>1, <2>2 DEF StrictOrder
  <1>4. ASSUME NEW x \in S PROVE \E i \in 1..Cardinality(S) : seq[i] = x
    <2> DEFINE i == Rank(R, S, x) + 1
    <2>1. Rank(R, S, x) \in 0..(Cardinality(S) - 1)
      BY RanksGrow
    <2>2. i \in 1..Cardinality(S) /\ i - 1 = Rank(R, S, x)
      BY <1>1, <2>1
    <2> HIDE DEF i
    <2>3. Rank(R, S, seq[i]) = Rank(R, S, x) /\ seq[i] \in S
      BY <2>2
    <2>4. Rank(R, S, seq[i]) \in 0..(Cardinality(S) - 1)
      BY <2>3, RanksGrow
    <2>5. ~(Rank(R, S, seq[i]) < Rank(R, S, x)) /\ ~(Rank(R, S, x) < Rank(R, S, seq[i]))
      BY <1>1, <2>1, <2>3, <2>4
    <2>6. <<seq[i], x>> \notin R /\ <<x, seq[i]>> \notin R
      BY <2>3, <2>5, RanksGrow
    <2> QED BY <2>2, <2>3, <2>6 DEF StrictOrder
  <1> QED BY <1>2, <1>3, <1>4 DEF Sorts

\* Sorted is what its name says.
LEMMA SortedSorts ==
    ASSUME NEW S, IsFiniteSet(S), NEW R, StrictOrder(R, S)
    PROVE  Sorts(Sorted(S, R), S, R)
  <1>1. Sorted(S, R) = [i \in 1..Cardinality(S) |-> CHOOSE x \in S : Rank(R, S, x) = i - 1]
    BY DEF Sorted, Rank, Earlier
  <1>2. \A i \in 1..Cardinality(S) : Sorted(S, R)[i] \in S /\ Rank(R, S, Sorted(S, R)[i]) = i - 1
    BY <1>1, RanksTaken
  <1> DEFINE seq == Sorted(S, R)
  <1>3. seq \in [1..Cardinality(S) -> S]
    BY <1>1, <1>2
  <1>4. \A i \in 1..Cardinality(S) : Rank(R, S, seq[i]) = i - 1
    BY <1>2
  <1> HIDE DEF seq
  <1>5. Sorts(seq, S, R)
    BY <1>3, <1>4, SortedByRank
  <1> QED BY <1>5 DEF seq

\* What has one place in a sorted sequence has it by Position.
LEMMA PositionSorted ==
    ASSUME NEW S, NEW R, NEW seq, Sorts(seq, S, R)
    PROVE  /\ \A x \in S : Position(seq, x) \in 1..Cardinality(S) /\ seq[Position(seq, x)] = x
           /\ \A x, y \in S : <<x, y>> \in R => Position(seq, x) < Position(seq, y)
  <1>1. DOMAIN seq = 1..Cardinality(S)
    BY DEF Sorts
  <1>2. ASSUME NEW x \in S PROVE Position(seq, x) \in 1..Cardinality(S) /\ seq[Position(seq, x)] = x
    <2>1. \E i \in DOMAIN seq : seq[i] = x
      BY <1>1 DEF Sorts
    <2> QED BY <1>1, <2>1 DEF Position
  <1>3. ASSUME NEW x \in S, NEW y \in S, <<x, y>> \in R
        PROVE  Position(seq, x) < Position(seq, y)
    BY <1>2, <1>3 DEF Sorts
  <1> QED BY <1>2, <1>3

\* The members of a sorted sequence are those of the set.
LEMMA SortedMembers ==
    ASSUME NEW S, NEW R, NEW seq, Sorts(seq, S, R)
    PROVE  ToSet(seq) = S
  BY DEF Sorts, ToSet, Range

----------------------------------------------------------------------------
(* The sorts of the fusion.                                                *)

LEMMA FiniteEvidence ==
    ASSUME NEW S \in SUBSET Evidence
    PROVE  IsFiniteSet(S) /\ Cardinality(S) \in Nat
  BY FusionAssumption, FS_Subset, FS_CardinalityType

TextBefore(S) == {p \in S \X S :
    \/ TextScore[p[1]] > TextScore[p[2]]
    \/ /\ TextScore[p[1]] = TextScore[p[2]]
       /\ IF (p[1] \in ExactTerms) # (p[2] \in ExactTerms) THEN p[1] \in ExactTerms
          ELSE p[1] < p[2]}

LEMMA TextOrderSorts ==
    ASSUME NEW listed, ToSet(listed) \subseteq Evidence
    PROVE  Sorts(TextOrder(listed), ToSet(listed), TextBefore(ToSet(listed)))
  <1> DEFINE S == ToSet(listed)
  <1>1. TextOrder(listed) = Sorted(S, TextBefore(S))
    BY DEF TextOrder, InOrder, TextBefore
  <1>2. S \subseteq Nat /\ \A x \in S : TextScore[x] \in Nat
    BY FusionAssumption
  <1> HIDE DEF S
  <1>3. StrictOrder(TextBefore(S), S)
    BY <1>2 DEF StrictOrder, TextBefore
  <1>4. IsFiniteSet(S)
    BY FiniteEvidence DEF S
  <1> QED BY <1>1, <1>3, <1>4, SortedSorts DEF S

FoundBefore(S) == {p \in S \X S :
    IF (p[1] \in ExactTerms) # (p[2] \in ExactTerms) THEN p[1] \in ExactTerms
    ELSE TextScore[p[1]] > TextScore[p[2]] \/ (TextScore[p[1]] = TextScore[p[2]] /\ p[1] < p[2])}

LEMMA TextHitsSorts ==
    ASSUME NEW S \in SUBSET Evidence
    PROVE  Sorts(TextHits(S), S, FoundBefore(S))
  <1>1. TextHits(S) = Sorted(S, FoundBefore(S))
    BY DEF TextHits, InOrder, FoundBefore
  <1>2. S \subseteq Nat /\ \A x \in S : TextScore[x] \in Nat
    BY FusionAssumption
  <1>3. StrictOrder(FoundBefore(S), S)
    <2>1. \A x \in S : <<x, x>> \notin FoundBefore(S)
      BY <1>2 DEF FoundBefore
    <2>2. ASSUME NEW x \in S, NEW y \in S, NEW z \in S,
                 <<x, y>> \in FoundBefore(S), <<y, z>> \in FoundBefore(S)
          PROVE  <<x, z>> \in FoundBefore(S)
      BY <1>2, <2>2 DEF FoundBefore
    <2>3. ASSUME NEW x \in S, NEW y \in S, x # y
          PROVE  <<x, y>> \in FoundBefore(S) \/ <<y, x>> \in FoundBefore(S)
      BY <1>2, <2>3 DEF FoundBefore
    <2> QED BY <2>1, <2>2, <2>3 DEF StrictOrder
  <1> QED BY <1>1, <1>3, FiniteEvidence, SortedSorts

ExactBefore(listed) == {p \in (ToSet(listed) \cap ExactTerms) \X (ToSet(listed) \cap ExactTerms) :
    \/ ExactRank(listed, p[1]) < ExactRank(listed, p[2])
    \/ ExactRank(listed, p[1]) = ExactRank(listed, p[2]) /\ p[1] < p[2]}

\* An exact match is ranked by its place or by its score.
LEMMA ExactRankTyped ==
    ASSUME NEW listed, ToSet(listed) \subseteq Evidence, DOMAIN listed \subseteq Nat,
           NEW e \in ToSet(listed)
    PROVE  ExactRank(listed, e) \in Nat
  <1>1. Position(listed, e) \in Nat
    <2>1. \E i \in DOMAIN listed : listed[i] = e
      BY DEF ToSet, Range
    <2> QED BY <2>1 DEF Position
  <1>2. TextScore[e] \in Nat /\ Parts \in Nat \ {0}
    BY FusionAssumption
  <1>3. TextScore[e] \div Parts \in Nat
    BY <1>2
  <1> QED BY <1>1, <1>3 DEF ExactRank

LEMMA ExactOrderSorts ==
    ASSUME NEW listed, ToSet(listed) \subseteq Evidence, DOMAIN listed \subseteq Nat
    PROVE  Sorts(ExactOrder(listed), ToSet(listed) \cap ExactTerms, ExactBefore(listed))
  <1> DEFINE S == ToSet(listed) \cap ExactTerms
  <1>1. ExactOrder(listed) = Sorted(S, ExactBefore(listed))
    BY DEF ExactOrder, InOrder, ExactBefore
  <1>2. S \subseteq Nat /\ \A x \in S : ExactRank(listed, x) \in Nat
    BY FusionAssumption, ExactRankTyped
  <1>3. StrictOrder(ExactBefore(listed), S)
    BY <1>2 DEF StrictOrder, ExactBefore
  <1>4. IsFiniteSet(S)
    BY FiniteEvidence
  <1> HIDE DEF S
  <1> QED BY <1>1, <1>3, <1>4, SortedSorts DEF S

ScoreBefore(S, score) == {p \in S \X S :
    score[p[1]] > score[p[2]] \/ (score[p[1]] = score[p[2]] /\ p[1] < p[2])}

LEMMA RankedSorts ==
    ASSUME NEW S \in SUBSET Evidence, NEW score \in [Evidence -> Nat]
    PROVE  Sorts(Ranked(S, score), S, ScoreBefore(S, score))
  <1>1. Ranked(S, score) = Sorted(S, ScoreBefore(S, score))
    BY DEF Ranked, InOrder, ScoreBefore
  <1>2. S \subseteq Nat /\ \A x \in S : score[x] \in Nat
    BY FusionAssumption
  <1>3. StrictOrder(ScoreBefore(S, score), S)
    BY <1>2 DEF StrictOrder, ScoreBefore
  <1> QED BY <1>1, <1>3, FiniteEvidence, SortedSorts

SeedBefore(S, score) == {p \in S \X S :
    \/ score[p[1][1]] > score[p[2][1]]
    \/ /\ score[p[1][1]] = score[p[2][1]]
       /\ p[1][1] < p[2][1] \/ (p[1][1] = p[2][1] /\ p[1][2] < p[2][2])}

SeedSet(found) == UNION {{e} \X Participants[e] : e \in found}

\* A seed is a unit and a number.
LEMMA SeedParts ==
    ASSUME NEW found \in SUBSET Evidence, NEW d \in SeedSet(found)
    PROVE  d = <<d[1], d[2]>> /\ d[1] \in found /\ d[2] \in Participants[d[1]] /\ d[2] \in Nat
  <1>1. PICK e \in found : d \in {e} \X Participants[e]
    BY DEF SeedSet
  <1>2. Participants[e] \in SUBSET Nat
    BY FusionAssumption
  <1> QED BY <1>1, <1>2

LEMMA FiniteSeeds ==
    ASSUME NEW found \in SUBSET Evidence
    PROVE  IsFiniteSet(SeedSet(found))
  <1> DEFINE P == {{e} \X Participants[e] : e \in found}
  <1>1. \A e \in found : IsFiniteSet({e} \X Participants[e])
    BY FusionAssumption, FS_Singleton, FS_Product
  <1>2. IsFiniteSet(P)
    <2>1. IsFiniteSet(found)
      BY FiniteEvidence
    <2> DEFINE f == [e \in found |-> {e} \X Participants[e]]
    <2>2. f \in Surjection(found, P)
      BY DEF Surjection
    <2> HIDE DEF f, P
    <2> QED BY <2>1, <2>2, FS_Surjection
  <1>3. \A T \in P : IsFiniteSet(T)
    BY <1>1
  <1> HIDE DEF P
  <1>4. IsFiniteSet(UNION P)
    BY <1>2, <1>3, FS_UNION
  <1> QED BY <1>4 DEF SeedSet, P

LEMMA SeedsSort ==
    ASSUME NEW found \in SUBSET Evidence, NEW score \in [Evidence -> Nat]
    PROVE  Sorts(Seeds(found, score), SeedSet(found), SeedBefore(SeedSet(found), score))
  <1> DEFINE S == SeedSet(found)
             R == SeedBefore(S, score)
  <1>1. Seeds(found, score) = Sorted(S, R)
    BY DEF Seeds, InOrder, SeedBefore, SeedSet
  <1>2. \A d \in S : d = <<d[1], d[2]>> /\ d[1] \in Nat /\ d[2] \in Nat /\ score[d[1]] \in Nat
    BY SeedParts, FusionAssumption
  <1>3. StrictOrder(R, S)
    <2> HIDE DEF S
    <2>1. \A x \in S : <<x, x>> \notin R
      BY <1>2 DEF SeedBefore
    <2>2. ASSUME NEW x \in S, NEW y \in S, NEW z \in S, <<x, y>> \in R, <<y, z>> \in R
          PROVE  <<x, z>> \in R
      BY <1>2, <2>2 DEF SeedBefore
    <2>3. ASSUME NEW x \in S, NEW y \in S, x # y
          PROVE  <<x, y>> \in R \/ <<y, x>> \in R
      <3>1. x[1] # y[1] \/ x[2] # y[2]
        BY <1>2, <2>3
      <3> QED BY <1>2, <2>3, <3>1 DEF SeedBefore
    <2> QED BY <2>1, <2>2, <2>3 DEF StrictOrder
  <1> HIDE DEF S, R
  <1> QED BY <1>1, <1>3, FiniteSeeds, SortedSorts DEF S, R

NumberBefore(S) == {p \in S \X S : p[1] < p[2]}

LEMMA NumbersSort ==
    ASSUME NEW S \in SUBSET Nat, IsFiniteSet(S)
    PROVE  Sorts(InOrder(S, <), S, NumberBefore(S))
  <1>1. InOrder(S, <) = Sorted(S, NumberBefore(S))
    BY DEF InOrder, NumberBefore
  <1>2. StrictOrder(NumberBefore(S), S)
    BY DEF StrictOrder, NumberBefore
  <1> QED BY <1>1, <1>2, SortedSorts

\* The relations of an entity are among those stored; each reference of a
\* relation is a unit that some stored relation of an anchor has.
RelationIndices == 1..Len(Relations)

LEMMA RelationsTyped ==
    /\ Len(Relations) \in Nat /\ DOMAIN Relations = 1..Len(Relations)
    /\ \A i \in DOMAIN Relations : Relations[i].supports \in SUBSET Evidence
  <1> DEFINE T == [from : Nat, to : Nat, supports : SUBSET Evidence]
  <1>1. Relations \in Seq(T)
    BY FusionAssumption
  <1>2. \A r \in T : r.supports \in SUBSET Evidence
    OBVIOUS
  <1> HIDE DEF T
  <1>3. Len(Relations) \in Nat /\ Relations \in [1..Len(Relations) -> T]
    BY <1>1
  <1> QED BY <1>2, <1>3

LEMMA TouchingSorts ==
    ASSUME NEW entity
    PROVE  \E S \in SUBSET RelationIndices : Sorts(Touching(entity), S, NumberBefore(S))
  <1> DEFINE S == {i \in DOMAIN Relations : entity \in {Relations[i].from, Relations[i].to}}
  <1>1. DOMAIN Relations = RelationIndices /\ Len(Relations) \in Nat
    BY RelationsTyped DEF RelationIndices
  <1>2. S \in SUBSET RelationIndices /\ S \in SUBSET Nat
    BY <1>1 DEF RelationIndices
  <1>3. IsFiniteSet(S)
    <2>1. IsFiniteSet(RelationIndices)
      BY <1>1, FS_Interval DEF RelationIndices
    <2> HIDE DEF S
    <2> QED BY <1>2, <2>1, FS_Subset
  <1>4. Touching(entity) = InOrder(S, <)
    BY DEF Touching
  <1> HIDE DEF S
  <1> QED BY <1>2, <1>3, <1>4, NumbersSort

LEMMA ReferencesSort ==
    ASSUME NEW entity, NEW found \in SUBSET Evidence, NEW anchors,
           anchors = UNION {Participants[e] : e \in found}
    PROVE  \E S \in SUBSET (Related(found) \cap Evidence) :
              Sorts(ReferencesOf(entity, anchors), S, NumberBefore(S))
  <1> DEFINE I == {j \in DOMAIN Relations :
                      \E a \in anchors : a \in {Relations[j].from, Relations[j].to} /\ Target(a, j) = entity}
             S == UNION {Relations[i].supports : i \in I}
  <1>1. \A i \in DOMAIN Relations : Relations[i].supports \in SUBSET Evidence
    BY RelationsTyped
  <1>2. ASSUME NEW i \in I PROVE Relations[i].supports \subseteq Related(found)
    <2>1. PICK a \in anchors : a \in {Relations[i].from, Relations[i].to}
      OBVIOUS
    <2>2. PICK e \in found : a \in Participants[e]
      BY <2>1
    <2> QED BY <2>1, <2>2 DEF Related
  <1>3. S \in SUBSET (Related(found) \cap Evidence)
    BY <1>1, <1>2
  <1>4. S \in SUBSET Nat /\ IsFiniteSet(S)
    BY <1>3, FusionAssumption, FS_Subset
  <1>5. ReferencesOf(entity, anchors) = InOrder(S, <)
    BY DEF ReferencesOf
  <1> HIDE DEF S
  <1> QED BY <1>3, <1>4, <1>5, NumbersSort

----------------------------------------------------------------------------
(* The package: it takes units of the candidates, none that must stay, and  *)
(* no more than the limit.                                                  *)

Packages(C) ==
    {acc \in [selected : SUBSET C, seen : SUBSET {TextOf[e] : e \in C}] :
        /\ IsFiniteSet(acc.selected) /\ Cardinality(acc.selected) <= MaxUnits
        /\ \A e \in acc.selected : Effective(e) # "deny"}

LEMMA ConsiderKeeps ==
    ASSUME NEW C, NEW acc \in Packages(C), NEW e \in C
    PROVE  Consider(acc, e) \in Packages(C)
  <1>1. CASE Effective(e) = "deny" \/ TextOf[e] \in acc.seen
    BY <1>1 DEF Consider
  <1>2. CASE ~(Effective(e) = "deny" \/ TextOf[e] \in acc.seen)
    <2> DEFINE selected == IF Fits(e, acc.selected) THEN acc.selected \cup {e} ELSE acc.selected
               seen == acc.seen \cup {TextOf[e]}
    <2>1. Consider(acc, e) = [selected |-> selected, seen |-> seen]
      BY <1>2 DEF Consider
    <2>2. selected \in SUBSET C /\ seen \in SUBSET {TextOf[c] : c \in C}
      BY DEF Packages
    <2>3. \A c \in selected : Effective(c) # "deny"
      BY <1>2 DEF Packages
    <2>4. IsFiniteSet(selected) /\ Cardinality(selected) <= MaxUnits
      <3>1. IsFiniteSet(acc.selected) /\ Cardinality(acc.selected) <= MaxUnits
        BY DEF Packages
      <3>2. Cardinality(acc.selected) \in Nat /\ MaxUnits \in Nat
        BY <3>1, FS_CardinalityType, QueryAssumption
      <3>3. CASE Fits(e, acc.selected)
        <4>1. /\ IsFiniteSet(acc.selected \cup {e})
              /\ \/ Cardinality(acc.selected \cup {e}) = Cardinality(acc.selected)
                 \/ Cardinality(acc.selected \cup {e}) = Cardinality(acc.selected) + 1
          BY <3>1, FS_AddElement
        <4> QED BY <3>1, <3>2, <3>3, <4>1 DEF Fits
      <3> QED BY <3>1, <3>3
    <2> HIDE DEF selected, seen
    <2> QED BY <2>1, <2>2, <2>3, <2>4 DEF Packages
  <1> QED BY <1>1, <1>2

LEMMA PackageComposed ==
    ASSUME NEW n \in Nat, NEW C, NEW candidates \in [1..n -> C]
    PROVE  /\ ComposePackage(candidates) \in SUBSET C
           /\ Cardinality(ComposePackage(candidates)) <= MaxUnits
           /\ \A e \in ComposePackage(candidates) : Effective(e) # "deny"
  <1> DEFINE base == [selected |-> {}, seen |-> {}]
             F(it) == [s \in SUBSET DOMAIN candidates |->
                          IF s = {} THEN base
                          ELSE Consider(it[s \ {Max(s)}], candidates[Max(s)])]
             chosen == CHOOSE it : it = F(it)
             G == [z \in Packages(C) \X C |-> Consider(z[1], z[2])]
  <1>1. FoldLeft(Consider, base, candidates) = chosen[DOMAIN candidates]
    BY DEF FoldLeft, MapThenFoldSet
  <1>2. base \in Packages(C)
    <2>1. IsFiniteSet({}) /\ Cardinality({}) <= MaxUnits
      BY FS_EmptySet, QueryAssumption
    <2> QED BY <2>1 DEF Packages
  <1>3. G \in [Packages(C) \X C -> Packages(C)]
    BY ConsiderKeeps
  <1>4. DOMAIN candidates = 1..n
    OBVIOUS
  <1>5. \A s \in SUBSET (1..n) : s # {} => candidates[Max(s)] \in C
    BY LastIndex
  <1> HIDE DEF base
  <1>6. \E it : it = F(it)
    <2>1. PICK it \in [SUBSET (1..n) -> Packages(C)] : Recurs(it, n, candidates, base, G)
      <3> HIDE DEF G
      <3> QED BY <1>2, <1>3, FoldExists
    <2>2. ASSUME NEW s \in SUBSET (1..n), s # {}
          PROVE  G[<<it[s \ {Max(s)}], candidates[Max(s)]>>]
                   = Consider(it[s \ {Max(s)}], candidates[Max(s)])
      BY <1>5, <2>2
    <2>3. \A s \in SUBSET (1..n) : it[s] = IF s = {} THEN base
             ELSE Consider(it[s \ {Max(s)}], candidates[Max(s)])
      <3> HIDE DEF G
      <3> QED BY <2>1, <2>2 DEF Recurs
    <2>4. it = F(it)
      BY <1>4, <2>3
    <2> QED BY <2>4
  <1>7. chosen = F(chosen)
    <2> HIDE DEF F
    <2> QED BY <1>6
  <1> HIDE DEF chosen
  <1>8. \A s \in SUBSET (1..n) : chosen[s] = IF s = {} THEN base
             ELSE Consider(chosen[s \ {Max(s)}], candidates[Max(s)])
    BY <1>4, <1>7
  <1>9. \A s \in SUBSET (1..n) : chosen[s] \in Packages(C)
    <2>1. chosen[{}] \in Packages(C)
      BY <1>2, <1>8
    <2>2. \A s \in SUBSET (1..n) :
             s # {} /\ chosen[s \ {Max(s)}] \in Packages(C) => chosen[s] \in Packages(C)
      BY <1>5, <1>8, ConsiderKeeps
    <2> QED BY <2>1, <2>2, FoldKeeps
  <1>10. chosen[DOMAIN candidates] \in Packages(C)
    BY <1>4, <1>9
  <1>11. ComposePackage(candidates) = chosen[DOMAIN candidates].selected
    BY <1>1 DEF ComposePackage, base
  <1> QED BY <1>10, <1>11 DEF Packages

----------------------------------------------------------------------------
(* The fusion: from what the searches found and its score, the relations    *)
(* add only units they lead to, and change no other unit's score.           *)

LEMMA ShareTyped ==
    ASSUME NEW signal \in Signals, NEW rank \in Nat
    PROVE  Share(signal, rank) \in Nat
  <1>1. Weight[signal] \in Nat /\ Scale \in Nat /\ RRFK + rank \in Nat \ {0}
    BY FusionAssumption
  <1>2. Scale \div (RRFK + rank) \in Nat
    BY <1>1
  <1> QED BY <1>1, <1>2 DEF Share

Walks(found, score) ==
    {acc \in [work : Nat, rank : Nat, found : SUBSET Evidence,
              paths : SUBSET (Evidence \X Nat \X Evidence), score : [Evidence -> Nat]] :
        /\ acc.found \subseteq found \cup Related(found)
        /\ \A e \in Evidence \ Related(found) : acc.score[e] = score[e]}

LEMMA ReferKeeps ==
    ASSUME NEW found, NEW score, NEW acc \in Walks(found, score),
           NEW seed, seed[1] \in Evidence, NEW i \in Nat, NEW e \in Related(found) \cap Evidence
    PROVE  Refer(acc, seed, i, e) \in Walks(found, score)
  <1> DEFINE path == <<seed[1], i, e>>
             earned == IF path \in acc.paths THEN acc.score
                       ELSE [acc.score EXCEPT ![e] = @ + Share("relation", acc.rank + 1)]
             next == [work |-> acc.work - 1, rank |-> acc.rank + 1,
                      found |-> acc.found \cup {e}, paths |-> acc.paths \cup {path},
                      score |-> earned]
  <1>1. CASE acc.work = 0
    BY <1>1 DEF Refer
  <1>2. CASE acc.work # 0
    <2>1. Refer(acc, seed, i, e) = next
      BY <1>2 DEF Refer
    <2>2. /\ acc.work \in Nat /\ acc.rank \in Nat /\ acc.found \in SUBSET Evidence
          /\ acc.paths \in SUBSET (Evidence \X Nat \X Evidence) /\ acc.score \in [Evidence -> Nat]
          /\ acc.found \subseteq found \cup Related(found)
          /\ \A d \in Evidence \ Related(found) : acc.score[d] = score[d]
      BY DEF Walks
    <2>3. acc.work - 1 \in Nat /\ acc.rank + 1 \in Nat
      BY <1>2, <2>2
    <2>4. earned \in [Evidence -> Nat] /\ \A d \in Evidence \ Related(found) : earned[d] = score[d]
      <3>1. Share("relation", acc.rank + 1) \in Nat
        BY <2>3, ShareTyped DEF Signals
      <3>2. acc.score[e] + Share("relation", acc.rank + 1) \in Nat
        BY <2>2, <3>1
      <3> QED BY <2>2, <3>2
    <2>5. acc.paths \cup {path} \in SUBSET (Evidence \X Nat \X Evidence)
      BY <2>2
    <2>6. acc.found \cup {e} \in SUBSET Evidence /\ acc.found \cup {e} \subseteq found \cup Related(found)
      BY <2>2
    <2> HIDE DEF path, earned
    <2> QED BY <2>1, <2>3, <2>4, <2>5, <2>6 DEF Walks
  <1> QED BY <1>1, <1>2

\* All references of one relation.
Refers(acc, seed, i, refs) == FoldLeft(LAMBDA b, e : Refer(b, seed, i, e), acc, refs)

LEMMA ReferencesKeep ==
    ASSUME NEW found, NEW score, NEW base \in Walks(found, score),
           NEW seed, seed[1] \in Evidence, NEW i \in Nat,
           NEW n \in Nat, NEW refs \in [1..n -> Related(found) \cap Evidence]
    PROVE  Refers(base, seed, i, refs) \in Walks(found, score)
  <1> DEFINE A == Walks(found, score)
             X == Related(found) \cap Evidence
             F(it) == [s \in SUBSET DOMAIN refs |->
                          IF s = {} THEN base
                          ELSE Refer(it[s \ {Max(s)}], seed, i, refs[Max(s)])]
             chosen == CHOOSE it : it = F(it)
             G == [z \in A \X X |-> Refer(z[1], seed, i, z[2])]
  <1>1. Refers(base, seed, i, refs) = chosen[DOMAIN refs]
    BY DEF Refers, FoldLeft, MapThenFoldSet
  <1>2. base \in A
    OBVIOUS
  <1>3. \A acc \in A, e \in X : Refer(acc, seed, i, e) \in A
    BY ReferKeeps
  <1>4. DOMAIN refs = 1..n /\ refs \in [1..n -> X]
    OBVIOUS
  <1> HIDE DEF A, X
  <1>5. \A s \in SUBSET (1..n) : s # {} => refs[Max(s)] \in X
    BY <1>4, LastIndex
  <1>6. \E it : it = F(it)
    <2>1. G \in [A \X X -> A]
      BY <1>3
    <2>2. PICK it \in [SUBSET (1..n) -> A] : Recurs(it, n, refs, base, G)
      <3> HIDE DEF G
      <3> QED BY <1>2, <1>4, <2>1, FoldExists
    <2>3. ASSUME NEW s \in SUBSET (1..n), s # {}
          PROVE  G[<<it[s \ {Max(s)}], refs[Max(s)]>>] = Refer(it[s \ {Max(s)}], seed, i, refs[Max(s)])
      BY <1>5, <2>3
    <2>4. \A s \in SUBSET (1..n) : it[s] = IF s = {} THEN base
             ELSE Refer(it[s \ {Max(s)}], seed, i, refs[Max(s)])
      <3> HIDE DEF G
      <3> QED BY <2>2, <2>3 DEF Recurs
    <2>5. it = F(it)
      BY <1>4, <2>4
    <2> QED BY <2>5
  <1>7. chosen = F(chosen)
    <2> HIDE DEF F
    <2> QED BY <1>6
  <1> HIDE DEF chosen
  <1>8. \A s \in SUBSET (1..n) : chosen[s] = IF s = {} THEN base
             ELSE Refer(chosen[s \ {Max(s)}], seed, i, refs[Max(s)])
    BY <1>4, <1>7
  <1>9. \A s \in SUBSET (1..n) : chosen[s] \in A
    <2>1. chosen[{}] \in A
      BY <1>2, <1>8
    <2>2. \A s \in SUBSET (1..n) : s # {} /\ chosen[s \ {Max(s)}] \in A => chosen[s] \in A
      BY <1>3, <1>5, <1>8
    <2> QED BY <2>1, <2>2, FoldKeeps
  <1> QED BY <1>1, <1>4, <1>9 DEF A

\* A sorted sequence is one, and so is what it begins with.
LEMMA SortedSequence ==
    ASSUME NEW S, IsFiniteSet(S), NEW R, NEW seq, Sorts(seq, S, R)
    PROVE  /\ Len(seq) = Cardinality(S) /\ Len(seq) \in Nat
           /\ seq \in [1..Len(seq) -> S]
           /\ \A k \in 0..Len(seq) : SubSeq(seq, 1, k) \in [1..k -> S] /\ DOMAIN SubSeq(seq, 1, k) = 1..k
           /\ \A k \in 0..Len(seq) : \A i \in 1..k : SubSeq(seq, 1, k)[i] = seq[i]
  <1>1. Cardinality(S) \in Nat /\ seq \in [1..Cardinality(S) -> S]
    BY FS_CardinalityType DEF Sorts
  <1>2. seq \in Seq(S) /\ Len(seq) = Cardinality(S)
    BY <1>1
  <1>3. ASSUME NEW k \in 0..Len(seq)
        PROVE  /\ SubSeq(seq, 1, k) \in [1..k -> S] /\ DOMAIN SubSeq(seq, 1, k) = 1..k
               /\ \A i \in 1..k : SubSeq(seq, 1, k)[i] = seq[i]
    <2>1. k \in Nat /\ Len(SubSeq(seq, 1, k)) = k /\ DOMAIN SubSeq(seq, 1, k) = 1..k
      BY <1>1, <1>2
    <2>2. ASSUME NEW i \in 1..k PROVE SubSeq(seq, 1, k)[i] = seq[i] /\ seq[i] \in S
      BY <1>1, <1>2, <2>1
    <2>3. SubSeq(seq, 1, k) \in Seq(S)
      BY <1>1, <1>2
    <2> DEFINE first == SubSeq(seq, 1, k)
    <2>4. first \in Seq(S) /\ Len(first) = k
      BY <2>1, <2>3
    <2> HIDE DEF first
    <2>5. first \in [1..k -> S]
      BY <2>4
    <2> QED BY <2>1, <2>2, <2>5 DEF first
  <1> QED BY <1>1, <1>2, <1>3

\* All relations of one seed: the relations are paid for, then followed.
LEMMA ExpandKeeps ==
    ASSUME NEW found \in SUBSET Evidence, NEW score, NEW acc \in Walks(found, score),
           NEW anchors, anchors = UNION {Participants[e] : e \in found},
           NEW seed, seed[1] \in Evidence
    PROVE  Expand(acc, seed, anchors) \in Walks(found, score)
  <1> DEFINE A == Walks(found, score)
             touching == Touching(seed[2])
             limit == CHOOSE n \in {RelationFanOut, acc.work, Len(touching)} :
                          \A m \in {RelationFanOut, acc.work, Len(touching)} : n <= m
             first == SubSeq(touching, 1, limit)
             paid == [acc EXCEPT !.work = @ - limit]
             Follow(a, i) == Refers(a, seed, i, ReferencesOf(Target(seed[2], i), anchors))
             F(it) == [s \in SUBSET DOMAIN first |->
                          IF s = {} THEN paid ELSE Follow(it[s \ {Max(s)}], first[Max(s)])]
             chosen == CHOOSE it : it = F(it)
             G == [z \in A \X RelationIndices |-> Follow(z[1], z[2])]
  <1>1. Expand(acc, seed, anchors) = chosen[DOMAIN first]
    BY DEF Expand, Refers, FoldLeft, MapThenFoldSet
  <1>2. PICK S \in SUBSET RelationIndices : Sorts(touching, S, NumberBefore(S))
    BY TouchingSorts
  <1>3. IsFiniteSet(S) /\ RelationIndices \subseteq Nat
    <2>1. Len(Relations) \in Nat
      BY RelationsTyped
    <2>2. IsFiniteSet(RelationIndices)
      BY <2>1, FS_Interval DEF RelationIndices
    <2>3. IsFiniteSet(S)
      BY <2>2, FS_Subset
    <2> QED BY <2>1, <2>3 DEF RelationIndices
  <1> HIDE DEF touching
  <1>4. Len(touching) \in Nat /\ RelationFanOut \in Nat /\ acc.work \in Nat
    BY <1>2, <1>3, SortedSequence, FusionAssumption DEF Walks
  <1>5. limit \in Nat /\ limit <= acc.work /\ limit <= Len(touching)
    <2>1. \E n \in {RelationFanOut, acc.work, Len(touching)} :
             \A m \in {RelationFanOut, acc.work, Len(touching)} : n <= m
      <3>1. CASE RelationFanOut <= acc.work /\ RelationFanOut <= Len(touching)
        BY <1>4, <3>1
      <3>2. CASE acc.work <= RelationFanOut /\ acc.work <= Len(touching)
        BY <1>4, <3>2
      <3>3. CASE Len(touching) <= RelationFanOut /\ Len(touching) <= acc.work
        BY <1>4, <3>3
      <3> QED BY <1>4, <3>1, <3>2, <3>3
    <2>2. /\ limit \in {RelationFanOut, acc.work, Len(touching)}
          /\ \A m \in {RelationFanOut, acc.work, Len(touching)} : limit <= m
      BY <2>1
    <2> HIDE DEF limit
    <2> QED BY <1>4, <2>2
  <1> HIDE DEF limit
  <1>6. first \in [1..limit -> RelationIndices] /\ DOMAIN first = 1..limit
    <2>1. limit \in 0..Len(touching)
      BY <1>4, <1>5
    <2>2. first \in [1..limit -> S] /\ DOMAIN first = 1..limit
      BY <1>2, <1>3, <2>1, SortedSequence
    <2> QED BY <1>2, <2>2
  <1>7. paid \in A
    <2>1. acc.work - limit \in Nat
      BY <1>4, <1>5
    <2> QED BY <2>1 DEF Walks
  <1>8. \A a \in A, i \in RelationIndices : Follow(a, i) \in A
    <2> SUFFICES ASSUME NEW a \in A, NEW i \in RelationIndices PROVE Follow(a, i) \in A
      OBVIOUS
    <2> DEFINE refs == ReferencesOf(Target(seed[2], i), anchors)
    <2>1. PICK T \in SUBSET (Related(found) \cap Evidence) : Sorts(refs, T, NumberBefore(T))
      BY ReferencesSort
    <2>2. IsFiniteSet(T) /\ T \in SUBSET Evidence
      BY <2>1, FiniteEvidence
    <2> HIDE DEF refs
    <2>3. Len(refs) \in Nat /\ refs \in [1..Len(refs) -> T]
      BY <2>1, <2>2, SortedSequence
    <2>4. refs \in [1..Len(refs) -> Related(found) \cap Evidence]
      BY <2>1, <2>3
    <2>5. i \in Nat /\ a \in Walks(found, score)
      BY <1>3
    <2>6. Refers(a, seed, i, refs) \in Walks(found, score)
      BY <2>3, <2>4, <2>5, ReferencesKeep
    <2> QED BY <2>6 DEF refs
  <1> HIDE DEF A, Follow, paid, first
  <1>9. \A s \in SUBSET (1..limit) : s # {} => first[Max(s)] \in RelationIndices
    BY <1>5, <1>6, LastIndex
  <1>10. \E it : it = F(it)
    <2>1. G \in [A \X RelationIndices -> A]
      BY <1>8
    <2>2. PICK it \in [SUBSET (1..limit) -> A] : Recurs(it, limit, first, paid, G)
      <3> HIDE DEF G
      <3> QED BY <1>5, <1>6, <1>7, <2>1, FoldExists
    <2>3. ASSUME NEW s \in SUBSET (1..limit), s # {}
          PROVE  G[<<it[s \ {Max(s)}], first[Max(s)]>>] = Follow(it[s \ {Max(s)}], first[Max(s)])
      BY <1>9, <2>3
    <2>4. \A s \in SUBSET (1..limit) : it[s] = IF s = {} THEN paid
             ELSE Follow(it[s \ {Max(s)}], first[Max(s)])
      <3> HIDE DEF G
      <3> QED BY <2>2, <2>3 DEF Recurs
    <2>5. it = F(it)
      BY <1>6, <2>4
    <2> QED BY <2>5
  <1>11. chosen = F(chosen)
    <2> HIDE DEF F
    <2> QED BY <1>10
  <1> HIDE DEF chosen
  <1>12. \A s \in SUBSET (1..limit) : chosen[s] = IF s = {} THEN paid
             ELSE Follow(chosen[s \ {Max(s)}], first[Max(s)])
    BY <1>6, <1>11
  <1>13. \A s \in SUBSET (1..limit) : chosen[s] \in A
    <2>1. chosen[{}] \in A
      BY <1>7, <1>12
    <2>2. \A s \in SUBSET (1..limit) : s # {} /\ chosen[s \ {Max(s)}] \in A => chosen[s] \in A
      BY <1>8, <1>9, <1>12
    <2> QED BY <1>5, <2>1, <2>2, FoldKeeps
  <1> QED BY <1>1, <1>6, <1>13 DEF A

\* A search's answer: its listed are units, at no more places than there are units.
Answer(seq) ==
    ToSet(seq) \subseteq Evidence /\ DOMAIN seq \subseteq Nat
    /\ DOMAIN seq \subseteq 1..Cardinality(Evidence)

\* What a search that ranks a unit at its place in a sequence earns it.
Earned(signal, ordered) ==
    [e \in Evidence |-> IF e \in ToSet(ordered) THEN Share(signal, Position(ordered, e)) ELSE 0]

LEMMA EarnedTyped ==
    ASSUME NEW signal \in Signals, NEW ordered, DOMAIN ordered \subseteq Nat
    PROVE  Earned(signal, ordered) \in [Evidence -> Nat]
  <1>1. ASSUME NEW e \in ToSet(ordered) PROVE Position(ordered, e) \in Nat
    <2>1. \E i \in DOMAIN ordered : ordered[i] = e
      BY DEF ToSet, Range
    <2> QED BY <2>1 DEF Position
  <1>2. ASSUME NEW e \in ToSet(ordered) PROVE Share(signal, Position(ordered, e)) \in Nat
    BY <1>1, ShareTyped
  <1> QED BY <1>2 DEF Earned

LEMMA ScoreTyped ==
    ASSUME NEW listed, NEW vector, Answer(listed), Answer(vector)
    PROVE  SearchScore(listed, vector) \in [Evidence -> Nat]
  <1> DEFINE exact == Earned("exact", ExactOrder(listed))
             text == Earned("text", TextOrder(listed))
             near == Earned("vector", vector)
  <1>1. SearchScore(listed, vector) = [e \in Evidence |-> exact[e] + text[e] + near[e]]
    BY DEF SearchScore, Earned
  <1>2. DOMAIN ExactOrder(listed) \subseteq Nat /\ DOMAIN TextOrder(listed) \subseteq Nat
    <2>1. Cardinality(ToSet(listed)) \in Nat /\ Cardinality(ToSet(listed) \cap ExactTerms) \in Nat
      BY FiniteEvidence DEF Answer
    <2>2. DOMAIN TextOrder(listed) = 1..Cardinality(ToSet(listed))
      BY TextOrderSorts DEF Answer, Sorts
    <2>3. DOMAIN ExactOrder(listed) = 1..Cardinality(ToSet(listed) \cap ExactTerms)
      BY ExactOrderSorts DEF Answer, Sorts
    <2> QED BY <2>1, <2>2, <2>3
  <1>3. /\ exact \in [Evidence -> Nat] /\ text \in [Evidence -> Nat] /\ near \in [Evidence -> Nat]
    BY <1>2, EarnedTyped DEF Answer, Signals
  <1> HIDE DEF exact, text, near
  <1> QED BY <1>1, <1>3

\* All seeds, one after the other.
Expands(base, anchors, seeds) == FoldLeft(LAMBDA acc, seed : Expand(acc, seed, anchors), base, seeds)

LEMMA SeedsKeep ==
    ASSUME NEW found \in SUBSET Evidence, NEW score, NEW base \in Walks(found, score),
           NEW anchors, anchors = UNION {Participants[e] : e \in found},
           NEW n \in Nat, NEW seeds \in [1..n -> SeedSet(found)]
    PROVE  Expands(base, anchors, seeds) \in Walks(found, score)
  <1> DEFINE A == Walks(found, score)
             X == SeedSet(found)
             F(it) == [s \in SUBSET DOMAIN seeds |->
                          IF s = {} THEN base
                          ELSE Expand(it[s \ {Max(s)}], seeds[Max(s)], anchors)]
             chosen == CHOOSE it : it = F(it)
             G == [z \in A \X X |-> Expand(z[1], z[2], anchors)]
  <1>1. Expands(base, anchors, seeds) = chosen[DOMAIN seeds]
    BY DEF Expands, FoldLeft, MapThenFoldSet
  <1>2. base \in A
    OBVIOUS
  <1>3. \A acc \in A, seed \in X : Expand(acc, seed, anchors) \in A
    <2>1. \A seed \in X : seed[1] \in Evidence
      BY SeedParts
    <2> QED BY <2>1, ExpandKeeps
  <1>4. DOMAIN seeds = 1..n /\ seeds \in [1..n -> X]
    OBVIOUS
  <1> HIDE DEF A, X
  <1>5. \A s \in SUBSET (1..n) : s # {} => seeds[Max(s)] \in X
    BY <1>4, LastIndex
  <1>6. \E it : it = F(it)
    <2>1. G \in [A \X X -> A]
      BY <1>3
    <2>2. PICK it \in [SUBSET (1..n) -> A] : Recurs(it, n, seeds, base, G)
      <3> HIDE DEF G
      <3> QED BY <1>2, <1>4, <2>1, FoldExists
    <2>3. ASSUME NEW s \in SUBSET (1..n), s # {}
          PROVE  G[<<it[s \ {Max(s)}], seeds[Max(s)]>>]
                   = Expand(it[s \ {Max(s)}], seeds[Max(s)], anchors)
      BY <1>5, <2>3
    <2>4. \A s \in SUBSET (1..n) : it[s] = IF s = {} THEN base
             ELSE Expand(it[s \ {Max(s)}], seeds[Max(s)], anchors)
      <3> HIDE DEF G
      <3> QED BY <2>2, <2>3 DEF Recurs
    <2>5. it = F(it)
      BY <1>4, <2>4
    <2> QED BY <2>5
  <1>7. chosen = F(chosen)
    <2> HIDE DEF F
    <2> QED BY <1>6
  <1> HIDE DEF chosen
  <1>8. \A s \in SUBSET (1..n) : chosen[s] = IF s = {} THEN base
             ELSE Expand(chosen[s \ {Max(s)}], seeds[Max(s)], anchors)
    BY <1>4, <1>7
  <1>9. \A s \in SUBSET (1..n) : chosen[s] \in A
    <2>1. chosen[{}] \in A
      BY <1>2, <1>8
    <2>2. \A s \in SUBSET (1..n) : s # {} /\ chosen[s \ {Max(s)}] \in A => chosen[s] \in A
      BY <1>3, <1>5, <1>8
    <2> QED BY <2>1, <2>2, FoldKeeps
  <1> QED BY <1>1, <1>4, <1>9 DEF A

\* The candidates are the first of a ranking of what a walk found.
LEMMA FuseRanks ==
    ASSUME NEW listed, NEW vector, Answer(listed), Answer(vector)
    PROVE  \E acc \in Walks(ToSet(listed) \cup ToSet(vector), SearchScore(listed, vector)) :
             \E k \in 0..Len(Ranked(acc.found, acc.score)) :
                Fuse(listed, vector) = SubSeq(Ranked(acc.found, acc.score), 1, k)
  <1> DEFINE found == ToSet(listed) \cup ToSet(vector)
             score == SearchScore(listed, vector)
             anchors == UNION {Participants[e] : e \in found}
             base == [work |-> RelationBudget, rank |-> 0, found |-> found,
                      paths |-> {}, score |-> score]
             seeds == Seeds(found, score)
             fused == Expands(base, anchors, seeds)
             ranked == Ranked(fused.found, fused.score)
             k == IF Len(ranked) < MaxCandidates THEN Len(ranked) ELSE MaxCandidates
  <1>1. Fuse(listed, vector) = SubSeq(ranked, 1, k)
    BY DEF Fuse, Expands
  <1>2. found \in SUBSET Evidence /\ score \in [Evidence -> Nat]
    BY ScoreTyped DEF Answer
  <1>3. RelationBudget \in Nat /\ MaxCandidates \in Nat
    BY FusionAssumption
  <1>4. anchors = UNION {Participants[e] : e \in found}
    OBVIOUS
  <1> HIDE DEF found, score, anchors
  <1>5. base \in Walks(found, score)
    BY <1>2, <1>3 DEF Walks
  <1> HIDE DEF base
  <1>6. Len(seeds) \in Nat /\ seeds \in [1..Len(seeds) -> SeedSet(found)]
    BY <1>2, SeedsSort, FiniteSeeds, SortedSequence
  <1> HIDE DEF seeds
  <1>7. fused \in Walks(found, score)
    BY <1>2, <1>4, <1>5, <1>6, SeedsKeep
  <1> HIDE DEF fused
  <1>8. fused.found \in SUBSET Evidence /\ fused.score \in [Evidence -> Nat]
    BY <1>7 DEF Walks
  <1>9. Len(ranked) \in Nat
    BY <1>8, RankedSorts, FiniteEvidence, SortedSequence
  <1> HIDE DEF ranked
  <1>10. k \in 0..Len(ranked)
    BY <1>3, <1>9
  <1> HIDE DEF k
  <1> QED BY <1>1, <1>7, <1>10 DEF ranked, found, score

\* Shares fall with the rank.
LEMMA QuotientsFall ==
    ASSUME NEW s \in Nat \ {0}, NEW a \in Nat \ {0}, NEW b \in Nat \ {0}, a < b,
           s % a = 0, s % b = 0
    PROVE  s \div a > s \div b
  <1> DEFINE x == s \div a
             y == s \div b
  <1>1. x \in Nat /\ y \in Nat
    OBVIOUS
  <1>2. s = a * x
    BY Z3
  <1>3. s = b * y
    BY Z3
  <1> HIDE DEF x, y
  <1>4. SUFFICES ASSUME x <= y PROVE FALSE
    BY <1>1 DEF x, y
  <1>5. a * x <= a * y
    BY <1>1, <1>4
  <1>6. y # 0
    BY <1>3
  <1>7. a * y < b * y
    BY <1>1, <1>6
  <1>8. a * x \in Int /\ a * y \in Int /\ b * y \in Int
    BY <1>1
  <1> QED BY <1>2, <1>3, <1>5, <1>7, <1>8

LEMMA SharesFall ==
    ASSUME NEW signal \in Signals, NEW d \in Nat \ {0}, NEW e \in 1..Cardinality(Evidence), d < e
    PROVE  Share(signal, d) > Share(signal, e)
  <1>1. Cardinality(Evidence) \in Nat
    BY FiniteEvidence
  <1>2. d \in 1..Cardinality(Evidence)
    BY <1>1
  <1>3. /\ RRFK + d \in Nat \ {0} /\ RRFK + e \in Nat \ {0} /\ RRFK + d < RRFK + e
        /\ Scale \in Nat \ {0} /\ Scale % (RRFK + d) = 0 /\ Scale % (RRFK + e) = 0
    BY <1>1, <1>2, FusionAssumption
  <1> DEFINE x == Scale \div (RRFK + d)
             y == Scale \div (RRFK + e)
  <1>4. x > y
    BY <1>3, QuotientsFall
  <1>5. x \in Nat /\ y \in Nat
    BY <1>3
  <1>6. Weight[signal] \in Nat \ {0}
    BY FusionAssumption
  <1>7. Share(signal, d) = Weight[signal] * x /\ Share(signal, e) = Weight[signal] * y
    BY DEF Share
  <1> HIDE DEF x, y
  <1>8. Weight[signal] * x > Weight[signal] * y
    BY <1>4, <1>5, <1>6
  <1> QED BY <1>7, <1>8

\* A unit that one ranks no worse, if one ranks the other at all, earns no
\* less from it, and more if one does rank the other.
LEMMA BetterEarnsMore ==
    ASSUME NEW signal \in Signals, NEW ordered, DOMAIN ordered \subseteq 1..Cardinality(Evidence),
           NEW d \in Evidence, NEW e \in Evidence,
           e \in ToSet(ordered) => d \in ToSet(ordered) /\ Position(ordered, d) < Position(ordered, e)
    PROVE  /\ Earned(signal, ordered)[d] >= Earned(signal, ordered)[e]
           /\ e \in ToSet(ordered) => Earned(signal, ordered)[d] > Earned(signal, ordered)[e]
  <1>1. ASSUME NEW x \in ToSet(ordered) PROVE Position(ordered, x) \in 1..Cardinality(Evidence)
    <2>1. \E i \in DOMAIN ordered : ordered[i] = x
      BY DEF ToSet, Range
    <2> QED BY <2>1 DEF Position
  <1>2. Cardinality(Evidence) \in Nat
    BY FiniteEvidence
  <1>3. CASE e \in ToSet(ordered)
    <2>1. Position(ordered, d) \in Nat \ {0} /\ Position(ordered, e) \in 1..Cardinality(Evidence)
      BY <1>1, <1>2, <1>3
    <2>2. Share(signal, Position(ordered, d)) > Share(signal, Position(ordered, e))
      BY <1>3, <2>1, SharesFall
    <2>3. Share(signal, Position(ordered, d)) \in Nat /\ Share(signal, Position(ordered, e)) \in Nat
      BY <1>2, <2>1, ShareTyped
    <2>4. /\ Earned(signal, ordered)[d] = Share(signal, Position(ordered, d))
          /\ Earned(signal, ordered)[e] = Share(signal, Position(ordered, e))
      BY <1>3 DEF Earned
    <2> QED BY <2>2, <2>3, <2>4
  <1>4. CASE e \notin ToSet(ordered)
    <2>1. Earned(signal, ordered) \in [Evidence -> Nat]
      <3>1. DOMAIN ordered \subseteq Nat
        BY <1>2
      <3> QED BY <3>1, EarnedTyped
    <2>2. Earned(signal, ordered)[e] = 0
      BY <1>4 DEF Earned
    <2>3. Earned(signal, ordered)[d] \in Nat
      BY <2>1
    <2> QED BY <1>4, <2>2, <2>3
  <1> QED BY <1>3, <1>4

\* Who is ranked above in every signal that found the other scores more.
LEMMA OutrankingScores ==
    ASSUME NEW listed, NEW vector, Answer(listed), Answer(vector),
           NEW d \in Evidence, NEW e \in ToSet(listed) \cup ToSet(vector),
           Outranks(d, e, listed, vector), ~TurnedRound(d, e, listed)
    PROVE  SearchScore(listed, vector)[d] > SearchScore(listed, vector)[e]
  <1> DEFINE exact == Earned("exact", ExactOrder(listed))
             text == Earned("text", TextOrder(listed))
             near == Earned("vector", vector)
             E == ToSet(listed) \cap ExactTerms
  <1>0. e \in Evidence /\ ToSet(listed) \subseteq Evidence /\ DOMAIN listed \subseteq Nat
        /\ Cardinality(Evidence) \in Nat
    BY FiniteEvidence DEF Answer
  <1>1. SearchScore(listed, vector) = [x \in Evidence |-> exact[x] + text[x] + near[x]]
    BY DEF SearchScore, Earned
  <1>2. /\ Sorts(ExactOrder(listed), E, ExactBefore(listed))
        /\ Sorts(TextOrder(listed), ToSet(listed), TextBefore(ToSet(listed)))
    BY <1>0, ExactOrderSorts, TextOrderSorts
  <1>3. ToSet(ExactOrder(listed)) = E /\ ToSet(TextOrder(listed)) = ToSet(listed)
    BY <1>2, SortedMembers
  <1>4. /\ DOMAIN ExactOrder(listed) \subseteq 1..Cardinality(Evidence)
        /\ DOMAIN TextOrder(listed) \subseteq 1..Cardinality(Evidence)
    <2>1. ASSUME NEW S \in SUBSET Evidence
          PROVE  Cardinality(S) \in Nat /\ Cardinality(S) <= Cardinality(Evidence)
      <3>1. IsFiniteSet(Evidence)
        BY FusionAssumption
      <3> QED BY <3>1, FiniteEvidence, FS_Subset
    <2>2. E \in SUBSET Evidence
      BY <1>0
    <2>3. /\ DOMAIN ExactOrder(listed) = 1..Cardinality(E)
          /\ DOMAIN TextOrder(listed) = 1..Cardinality(ToSet(listed))
      BY <1>2 DEF Sorts
    <2> HIDE DEF E
    <2> QED BY <1>0, <2>1, <2>2, <2>3
  <1>5. exact[d] >= exact[e]
    <2>1. e \in E => d \in E /\ Position(ExactOrder(listed), d) < Position(ExactOrder(listed), e)
      <3> SUFFICES ASSUME e \in E
                   PROVE  d \in E /\ Position(ExactOrder(listed), d) < Position(ExactOrder(listed), e)
        OBVIOUS
      <3>1. /\ d \in E /\ Position(listed, d) < Position(listed, e)
            /\ ~(Position(ExactOrder(listed), e) < Position(ExactOrder(listed), d))
        BY DEF Outranks, TurnedRound
      <3>2. d # e
        <4>1. Position(listed, e) \in Nat
          <5>1. \E i \in DOMAIN listed : listed[i] = e
            BY DEF ToSet, Range
          <5> QED BY <1>0, <5>1 DEF Position
        <4> QED BY <3>1, <4>1
      <3> HIDE DEF E
      <3>3. /\ Position(ExactOrder(listed), d) \in Nat /\ Position(ExactOrder(listed), e) \in Nat
            /\ ExactOrder(listed)[Position(ExactOrder(listed), d)] = d
            /\ ExactOrder(listed)[Position(ExactOrder(listed), e)] = e
        BY <1>2, <3>1, PositionSorted
      <3> QED BY <3>1, <3>2, <3>3
    <2> QED BY <1>0, <1>3, <1>4, <2>1, BetterEarnsMore DEF Signals
  <1>6. text[d] >= text[e] /\ (e \in ToSet(listed) => text[d] > text[e])
    <2>1. e \in ToSet(listed) =>
             /\ d \in ToSet(listed)
             /\ Position(TextOrder(listed), d) < Position(TextOrder(listed), e)
      <3>1. e \in ToSet(listed) => d \in ToSet(listed) /\ <<d, e>> \in TextBefore(ToSet(listed))
        BY DEF Outranks, TextBefore
      <3> QED BY <1>2, <3>1, PositionSorted
    <2> QED BY <1>0, <1>3, <1>4, <2>1, BetterEarnsMore DEF Signals
  <1>7. near[d] >= near[e] /\ (e \in ToSet(vector) => near[d] > near[e])
    <2>1. e \in ToSet(vector) => d \in ToSet(vector) /\ Position(vector, d) < Position(vector, e)
      BY DEF Outranks
    <2> QED BY <1>0, <2>1, BetterEarnsMore DEF Signals, Answer
  <1>8. /\ exact \in [Evidence -> Nat] /\ text \in [Evidence -> Nat] /\ near \in [Evidence -> Nat]
    <2>1. DOMAIN ExactOrder(listed) \subseteq Nat /\ DOMAIN TextOrder(listed) \subseteq Nat
      BY <1>0, <1>4
    <2> QED BY <2>1, EarnedTyped DEF Answer, Signals
  <1>9. text[d] > text[e] \/ near[d] > near[e]
    BY <1>6, <1>7
  <1> HIDE DEF exact, text, near, E
  <1>10. /\ exact[d] \in Nat /\ exact[e] \in Nat /\ text[d] \in Nat /\ text[e] \in Nat
         /\ near[d] \in Nat /\ near[e] \in Nat
    BY <1>0, <1>8
  <1>11. exact[d] + text[d] + near[d] > exact[e] + text[e] + near[e]
    BY <1>5, <1>6, <1>7, <1>9, <1>10
  <1> QED BY <1>0, <1>1, <1>11

----------------------------------------------------------------------------
(* The inductive invariant, by query.                                       *)

\* What a query is before it has retrieved anything.
Blank(q) ==
    /\ pc[q] \in {"new", "scoped", "started"} => outcome[q] = NoOutcome /\ sent[q] = {}
    /\ pc[q] \in {"new", "scoped"} => row[q] = NoRow

\* Its row runs in the pinned snapshot from the start to the end.
Open(q) ==
    pc[q] \in Running \ {"scoped"} =>
        row[q].state = "running" /\ row[q].snapshot = input[q].snapshot

\* Its candidates are of the pinned snapshot, in the order the searches gave.
Scoped(q) ==
    \E n \in Nat : outcome[q].candidates \in [1..n -> EvidenceOf(input[q].snapshot)]

InRank(candidates, text, vector) ==
    LET found == ToSet(text) \cup ToSet(vector)
    IN  \A i, j \in DOMAIN candidates :
           /\ {candidates[i], candidates[j]} \subseteq found \ Related(found)
           /\ Outranks(candidates[i], candidates[j], text, vector)
           /\ ~TurnedRound(candidates[i], candidates[j], text)
           => i < j

Ranks(q) == InRank(outcome[q].candidates, hits[q].text, hits[q].vector)

\* Its package keeps the limit and what must stay.
Packaged(q) ==
    /\ IsFiniteSet(outcome[q].package) /\ Cardinality(outcome[q].package) <= MaxUnits
    /\ \A e \in outcome[q].package : Effective(e) # "deny"

\* Nothing is sent before the provider is called, and then the package is.
Unsent(q) == pc[q] \in {"retrieved", "composed"} => outcome[q].cited = {} /\ sent[q] = {}

Called(q) ==
    pc[q] = "generating" =>
        /\ outcome[q].audited /\ outcome[q].cited = {}
        /\ sent[q] = {<<e, Effective(e)>> : e \in outcome[q].package}

Transferred(q) ==
    /\ Cardinality(sent[q]) <= MaxUnits
    /\ \A t \in sent[q] : /\ SnapshotOf[t[1]] = row[q].snapshot
                          /\ t[2] = Effective(t[1]) /\ Effective(t[1]) # "deny"

\* An outcome that rests on what was sent and tells of it, before it is
\* stored and as it is stored.
Sound(result, transfer) ==
    /\ result.state \in {"completed", "partial"} =>
         result.cited # {} /\ result.cited \subseteq {t[1] : t \in transfer}
    /\ result.state = "abstained" => result.cited = {} /\ transfer = {}
    /\ transfer # {} => result.audited

Ready(q)  == pc[q] = "finishing" => outcome[q].state \in Terminal /\ Sound(outcome[q], sent[q])
Stored(q) == row[q].state \in Terminal => Sound(row[q], sent[q])

\* What a Create that is over left.
Told(q) ==
    /\ pc[q] = "executed" => row[q].state \in Terminal \ {"failed"}
    /\ pc[q] = "failed" => row[q].state = "failed"
    /\ SignalsColumn /\ pc[q] \in Ended /\ ~faulty[q] => row[q].state # "running"

Inv(q) ==
    /\ Blank(q) /\ Open(q) /\ Scoped(q) /\ Ranks(q) /\ Packaged(q) /\ Unsent(q)
    /\ Called(q) /\ Transferred(q) /\ Ready(q) /\ Stored(q) /\ Told(q)

IInv == TypeOK /\ \A q \in Queries : Inv(q)

----------------------------------------------------------------------------
(* What the fusion gives a query: units of its snapshot, in the order the   *)
(* searches gave.                                                           *)

LEMMA FuseInScope ==
    ASSUME NEW text, NEW vector, Answer(text), Answer(vector), NEW s,
           ToSet(text) \cup ToSet(vector) \subseteq EvidenceOf(s)
    PROVE  \E n \in Nat : Fuse(text, vector) \in [1..n -> EvidenceOf(s)]
  <1> DEFINE found == ToSet(text) \cup ToSet(vector)
  <1>0. PICK acc \in Walks(found, SearchScore(text, vector)) :
           \E k \in 0..Len(Ranked(acc.found, acc.score)) :
              Fuse(text, vector) = SubSeq(Ranked(acc.found, acc.score), 1, k)
    BY FuseRanks
  <1>1. PICK k \in 0..Len(Ranked(acc.found, acc.score)) :
           Fuse(text, vector) = SubSeq(Ranked(acc.found, acc.score), 1, k)
    BY <1>0
  <1>2. /\ acc.found \in SUBSET Evidence /\ acc.score \in [Evidence -> Nat]
        /\ acc.found \subseteq found \cup Related(found)
    BY DEF Walks
  <1>3. acc.found \subseteq EvidenceOf(s)
    <2> SUFFICES ASSUME NEW u \in acc.found, u \in Related(found) PROVE SnapshotOf[u] = s
      BY <1>2 DEF EvidenceOf
    <2>1. PICK i \in DOMAIN Relations : /\ u \in Relations[i].supports
                                        /\ \E e \in found :
                                                Participants[e] \cap {Relations[i].from, Relations[i].to} # {}
      BY DEF Related
    <2>2. PICK e \in found : Participants[e] \cap {Relations[i].from, Relations[i].to} # {}
      BY <2>1
    <2>3. e \in Evidence /\ SnapshotOf[e] = s
      BY DEF EvidenceOf
    <2> QED BY <2>1, <2>2, <2>3, QueryAssumption
  <1> DEFINE ranked == Ranked(acc.found, acc.score)
  <1>4. Len(ranked) \in Nat /\ SubSeq(ranked, 1, k) \in [1..k -> acc.found]
    BY <1>2, RankedSorts, FiniteEvidence, SortedSequence
  <1> HIDE DEF ranked
  <1>5. k \in Nat
    BY <1>4 DEF ranked
  <1> QED BY <1>1, <1>3, <1>4, <1>5 DEF ranked

LEMMA FuseInRank ==
    ASSUME NEW text, NEW vector, Answer(text), Answer(vector)
    PROVE  InRank(Fuse(text, vector), text, vector)
  <1> DEFINE found == ToSet(text) \cup ToSet(vector)
             score == SearchScore(text, vector)
             candidates == Fuse(text, vector)
  <1>0. PICK acc \in Walks(found, score) :
           \E k \in 0..Len(Ranked(acc.found, acc.score)) :
              candidates = SubSeq(Ranked(acc.found, acc.score), 1, k)
    BY FuseRanks
  <1>1. PICK k \in 0..Len(Ranked(acc.found, acc.score)) :
           candidates = SubSeq(Ranked(acc.found, acc.score), 1, k)
    BY <1>0
  <1>2. /\ acc.found \in SUBSET Evidence /\ acc.score \in [Evidence -> Nat]
        /\ \A e \in Evidence \ Related(found) : acc.score[e] = score[e]
    BY DEF Walks
  <1> DEFINE ranked == Ranked(acc.found, acc.score)
             S == acc.found
             R == ScoreBefore(acc.found, acc.score)
  <1>3. Sorts(ranked, S, R) /\ IsFiniteSet(S)
    BY <1>2, RankedSorts, FiniteEvidence
  <1> HIDE DEF ranked, candidates, S, R
  <1>4. /\ Len(ranked) = Cardinality(S) /\ Len(ranked) \in Nat
        /\ DOMAIN SubSeq(ranked, 1, k) = 1..k
        /\ \A i \in 1..k : SubSeq(ranked, 1, k)[i] = ranked[i]
        /\ ranked \in [1..Len(ranked) -> S]
    BY <1>3, SortedSequence DEF ranked
  <1>5. /\ DOMAIN candidates = 1..k
        /\ \A i \in 1..k : candidates[i] = ranked[i] /\ ranked[i] \in S /\ i \in 1..Cardinality(S)
    <2>1. k \in 0..Len(ranked)
      BY DEF ranked
    <2> QED BY <1>1, <1>4, <2>1 DEF ranked
  <1>6. ASSUME NEW i \in DOMAIN candidates, NEW j \in DOMAIN candidates,
               {candidates[i], candidates[j]} \subseteq found \ Related(found),
               Outranks(candidates[i], candidates[j], text, vector),
               ~TurnedRound(candidates[i], candidates[j], text)
        PROVE  i < j
    <2> DEFINE d == candidates[i]
               e == candidates[j]
    <2>1. d \in Evidence /\ e \in found /\ e \in Evidence /\ d \in S /\ e \in S
          /\ d \notin Related(found) /\ e \notin Related(found)
      BY <1>5, <1>6 DEF Answer
    <2>2. score[d] > score[e]
      BY <1>6, <2>1, OutrankingScores
    <2>3. acc.score[d] > acc.score[e]
      BY <1>2, <2>1, <2>2
    <2>4. <<d, e>> \in R
      BY <2>1, <2>3 DEF R, S, ScoreBefore
    <2>5. d = ranked[i] /\ e = ranked[j] /\ i \in 1..Cardinality(S) /\ j \in 1..Cardinality(S)
      BY <1>5, <1>6
    <2> HIDE DEF d, e
    <2> QED BY <1>3, <2>4, <2>5 DEF Sorts
  <1> QED BY <1>6 DEF InRank, candidates

\* The searches' answers are answers.
LEMMA ListingAnswers ==
    ASSUME NEW S \in SUBSET Evidence, NEW seq \in [1..Cardinality(S) -> S]
    PROVE  Answer(seq) /\ ToSet(seq) \subseteq S /\ seq \in Seq(Evidence)
  <1>1. Cardinality(S) \in Nat /\ Cardinality(Evidence) \in Nat /\ Cardinality(S) <= Cardinality(Evidence)
    <2>1. IsFiniteSet(Evidence)
      BY FusionAssumption
    <2> QED BY <2>1, FiniteEvidence, FS_Subset
  <1>2. DOMAIN seq = 1..Cardinality(S) /\ \A i \in DOMAIN seq : seq[i] \in S
    OBVIOUS
  <1>3. ToSet(seq) \subseteq S
    BY <1>2 DEF ToSet, Range
  <1>4. DOMAIN seq \subseteq Nat /\ DOMAIN seq \subseteq 1..Cardinality(Evidence)
    BY <1>1, <1>2
  <1>5. seq \in Seq(Evidence)
    BY <1>1, <1>2
  <1> QED BY <1>3, <1>4, <1>5 DEF Answer

LEMMA SearchesAnswer ==
    ASSUME NEW s, NEW matched \in SUBSET EvidenceOf(s), NEW near \in SUBSET EvidenceOf(s),
           NEW vector \in SetToSeqs(near)
    PROVE  /\ Answer(TextHits(matched)) /\ Answer(vector)
           /\ TextHits(matched) \in Seq(Evidence) /\ vector \in Seq(Evidence)
           /\ ToSet(TextHits(matched)) \cup ToSet(vector) \subseteq EvidenceOf(s)
  <1>1. matched \in SUBSET Evidence /\ near \in SUBSET Evidence
    BY DEF EvidenceOf
  <1>2. TextHits(matched) \in [1..Cardinality(matched) -> matched]
    BY <1>1, TextHitsSorts DEF Sorts
  <1>3. vector \in [1..Cardinality(near) -> near]
    BY DEF SetToSeqs
  <1>4. /\ Answer(TextHits(matched)) /\ ToSet(TextHits(matched)) \subseteq matched
        /\ TextHits(matched) \in Seq(Evidence)
    BY <1>1, <1>2, ListingAnswers
  <1>5. Answer(vector) /\ ToSet(vector) \subseteq near /\ vector \in Seq(Evidence)
    BY <1>1, <1>3, ListingAnswers
  <1> QED BY <1>4, <1>5

----------------------------------------------------------------------------
(* One step.                                                                *)

\* Nothing of a query has changed.
Idle(p) ==
    /\ pc'[p] = pc[p] /\ input'[p] = input[p] /\ outcome'[p] = outcome[p] /\ row'[p] = row[p]
    /\ hits'[p] = hits[p] /\ sent'[p] = sent[p] /\ faulty'[p] = faulty[p]

OthersIdle(q) == \A p \in Queries \ {q} : Idle(p)

LEMMA IdleKeeps ==
    ASSUME NEW p \in Queries, Inv(p), Idle(p)
    PROVE  Inv(p)'
  <1>1. Blank(p)' /\ Open(p)' /\ Unsent(p)' /\ Called(p)' /\ Told(p)'
    BY DEF Inv, Idle, Blank, Open, Unsent, Called, Told
  <1>2. Scoped(p)'
    BY DEF Inv, Idle, Scoped
  <1>3. Ranks(p)'
    BY DEF Inv, Idle, Ranks
  <1>4. Packaged(p)' /\ Transferred(p)'
    BY DEF Inv, Idle, Packaged, Transferred
  <1>5. Ready(p)' /\ Stored(p)'
    BY DEF Inv, Idle, Ready, Stored
  <1> QED BY <1>1, <1>2, <1>3, <1>4, <1>5 DEF Inv

\* What a step that leaves what was retrieved, composed or sent keeps of it.
LEMMA RestKeeps ==
    ASSUME NEW q \in Queries, Inv(q)
    PROVE  /\ input'[q] = input[q] /\ outcome'[q].candidates = outcome[q].candidates => Scoped(q)'
           /\ hits'[q] = hits[q] /\ outcome'[q].candidates = outcome[q].candidates => Ranks(q)'
           /\ outcome'[q].package = outcome[q].package => Packaged(q)'
           /\ sent'[q] = sent[q] /\ row'[q].snapshot = row[q].snapshot => Transferred(q)'
           /\ sent'[q] = {} => Transferred(q)'
  <1>1. input'[q] = input[q] /\ outcome'[q].candidates = outcome[q].candidates => Scoped(q)'
    BY DEF Inv, Scoped
  <1>2. hits'[q] = hits[q] /\ outcome'[q].candidates = outcome[q].candidates => Ranks(q)'
    BY DEF Inv, Ranks
  <1>3. outcome'[q].package = outcome[q].package => Packaged(q)'
    BY DEF Inv, Packaged
  <1>4. sent'[q] = sent[q] /\ row'[q].snapshot = row[q].snapshot => Transferred(q)'
    BY DEF Inv, Transferred
  <1>5. sent'[q] = {} => Transferred(q)'
    BY FS_EmptySet, QueryAssumption DEF Transferred
  <1> QED BY <1>1, <1>2, <1>3, <1>4, <1>5

LEMMA ResolveKeeps ==
    ASSUME TypeOK, NEW q \in Queries, Inv(q), Resolve(q)
    PROVE  TypeOK' /\ Inv(q)' /\ OthersIdle(q)
  <1>1. PICK new \in Inputs :
          \/ pc' = [pc EXCEPT ![q] = "refused"] /\ input' = input
          \/ pc' = [pc EXCEPT ![q] = "scoped"] /\ input' = [input EXCEPT ![q] = new]
    <2>1. PICK kind \in Kinds, named \in Snapshots \cup {None}, deadline \in BOOLEAN :
            LET snapshot == IF named = None THEN active ELSE named
            IN  IF cancelled[q] \/ snapshot = None
                THEN Goto(q, "refused") /\ UNCHANGED input
                ELSE /\ input' = [input EXCEPT ![q] =
                                    [kind |-> kind, snapshot |-> snapshot, deadline |-> deadline]]
                     /\ Goto(q, "scoped")
      BY DEF Resolve
    <2> DEFINE snapshot == IF named = None THEN active ELSE named
    <2>2. [kind |-> kind, snapshot |-> snapshot, deadline |-> deadline] \in Inputs
      BY DEF TypeOK, Inputs
    <2> QED BY <2>1, <2>2 DEF Goto
  <1>2. /\ UNCHANGED <<active, cancelled, outcome, row, hits, sent, faulty, activations, faults>>
        /\ pc[q] = "new"
    BY DEF Resolve
  <1>3. TypeOK'
    BY <1>1, <1>2 DEF TypeOK, Running, Ended
  <1>4. OthersIdle(q)
    BY <1>1, <1>2 DEF TypeOK, OthersIdle, Idle
  <1>5. outcome[q] = NoOutcome /\ sent[q] = {} /\ row[q] = NoRow
    BY <1>2 DEF Inv, Blank
  <1>6. Scoped(q)'
    <2>1. <<>> \in [1..0 -> EvidenceOf(input'[q].snapshot)]
      OBVIOUS
    <2> QED BY <1>2, <1>5, <2>1 DEF Scoped, NoOutcome
  <1>7. Ranks(q)' /\ Packaged(q)' /\ Transferred(q)'
    BY <1>2, RestKeeps
  <1>8. pc'[q] \in {"refused", "scoped"}
    BY <1>1 DEF TypeOK
  <1>9. Blank(q)' /\ Open(q)' /\ Unsent(q)' /\ Called(q)' /\ Ready(q)' /\ Stored(q)' /\ Told(q)'
    BY <1>2, <1>5, <1>8
       DEF Blank, Open, Unsent, Called, Ready, Stored, Told, NoRow, Running, Ended, Terminal, None
  <1> QED BY <1>3, <1>4, <1>6, <1>7, <1>9 DEF Inv

\* A fault is counted.
LEMMA FaultCounted ==
    ASSUME TypeOK, faults < MaxFaults
    PROVE  faults + 1 \in 0 .. MaxFaults
  BY QueryAssumption DEF TypeOK

LEMMA StartKeeps ==
    ASSUME TypeOK, NEW q \in Queries, Inv(q), Start(q) \/ StartFault(q)
    PROVE  TypeOK' /\ Inv(q)' /\ OthersIdle(q)
  <1> DEFINE new == [NoRow EXCEPT !.state = "running", !.snapshot = input[q].snapshot]
  <1>0. new \in Rows /\ new.state = "running" /\ new.snapshot = input[q].snapshot
    BY DEF TypeOK, Inputs, Rows, NoRow
  <1> HIDE DEF new
  <1>1. /\ pc[q] = "scoped" /\ UNCHANGED <<active, input, cancelled, outcome, hits, sent, activations>>
        /\ \/ pc' = [pc EXCEPT ![q] = "refused"] /\ row' = row
           \/ pc' = [pc EXCEPT ![q] = "started"] /\ row' = [row EXCEPT ![q] = new]
           \/ /\ pc' = [pc EXCEPT ![q] = "refused"] /\ row' = [row EXCEPT ![q] = new]
              /\ faulty' = [faulty EXCEPT ![q] = TRUE]
        /\ faulty' = faulty \/ faulty' = [faulty EXCEPT ![q] = TRUE]
        /\ faults' = faults \/ faults' \in 0 .. MaxFaults
    BY FaultCounted DEF Start, StartFault, Goto, new
  <1>2. outcome[q] = NoOutcome /\ sent[q] = {} /\ row[q] = NoRow
    BY <1>1 DEF Inv, Blank
  <1>3. TypeOK'
    BY <1>0, <1>1 DEF TypeOK, Running, Ended
  <1>4. OthersIdle(q)
    BY <1>1 DEF TypeOK, OthersIdle, Idle
  <1>5. Scoped(q)' /\ Ranks(q)' /\ Packaged(q)' /\ Transferred(q)'
    BY <1>1, <1>2, RestKeeps
  <1>6. \/ row'[q] = NoRow /\ pc'[q] = "refused"
        \/ row'[q] = new /\ pc'[q] = "started"
        \/ row'[q] = new /\ pc'[q] = "refused" /\ faulty'[q]
    BY <1>1, <1>2 DEF TypeOK
  <1>7. Blank(q)' /\ Open(q)' /\ Unsent(q)' /\ Called(q)' /\ Ready(q)' /\ Stored(q)' /\ Told(q)'
    BY <1>0, <1>1, <1>2, <1>6
       DEF Blank, Open, Unsent, Called, Ready, Stored, Told, NoRow, Running, Ended, Terminal, None
  <1> QED BY <1>3, <1>4, <1>5, <1>7 DEF Inv

\* The failed outcome keeps all but the citations.
LEMMA FailedOutcome ==
    ASSUME TypeOK, NEW q \in Queries, Fail(q)
    PROVE  \E new \in Outcomes :
              /\ outcome' = [outcome EXCEPT ![q] = new] /\ pc' = [pc EXCEPT ![q] = "finishing"]
              /\ new.state = "failed" /\ new.cited = {} /\ new.candidates = outcome[q].candidates
              /\ new.package = outcome[q].package /\ new.audited = outcome[q].audited
  <1> DEFINE new == [outcome[q] EXCEPT !.state = "failed", !.cited = {}]
  <1>1. outcome[q] \in Outcomes
    BY DEF TypeOK
  <1>2. /\ new \in Outcomes /\ new.state = "failed" /\ new.cited = {}
        /\ new.candidates = outcome[q].candidates
        /\ new.package = outcome[q].package /\ new.audited = outcome[q].audited
    BY <1>1 DEF Outcomes, Terminal
  <1>3. outcome' = [outcome EXCEPT ![q] = new] /\ pc' = [pc EXCEPT ![q] = "finishing"]
    BY DEF Fail, Goto
  <1> QED BY <1>2, <1>3

\* A step that fails before or after the call, and changes no more.
LEMMA FailKeeps ==
    ASSUME TypeOK, NEW q \in Queries, Inv(q), pc[q] \in Running \ {"scoped"}, Fail(q),
           UNCHANGED <<active, input, cancelled, row, faulty, activations, faults, sent>>,
           \/ hits' = hits
           \/ pc[q] = "started" /\ \E new \in Answers : hits' = [hits EXCEPT ![q] = new]
    PROVE  TypeOK' /\ Inv(q)' /\ OthersIdle(q)
  <1>1. PICK new \in Outcomes :
              /\ outcome' = [outcome EXCEPT ![q] = new] /\ pc' = [pc EXCEPT ![q] = "finishing"]
              /\ new.state = "failed" /\ new.cited = {} /\ new.candidates = outcome[q].candidates
              /\ new.package = outcome[q].package /\ new.audited = outcome[q].audited
    BY FailedOutcome
  <1>2. outcome'[q] = new /\ pc'[q] = "finishing"
    BY <1>1 DEF TypeOK
  <1>3. TypeOK'
    BY <1>1, <1>2 DEF TypeOK, Running, Ended
  <1>4. OthersIdle(q)
    BY <1>1 DEF TypeOK, OthersIdle, Idle
  <1>5. Scoped(q)' /\ Packaged(q)' /\ Transferred(q)'
    BY <1>1, <1>2, RestKeeps
  <1>6. Ranks(q)'
    <2>1. CASE hits' = hits
      BY <1>1, <1>2, <2>1, RestKeeps
    <2>2. CASE pc[q] = "started"
      <3>1. outcome'[q].candidates = <<>>
        BY <1>1, <1>2, <2>2 DEF Inv, Blank, NoOutcome
      <3> QED BY <3>1 DEF Ranks, InRank
    <2> QED BY <2>1, <2>2
  <1>7. sent[q] # {} => outcome[q].audited
    BY DEF Inv, Blank, Unsent, Called, Ready, Sound, Running
  <1>8. Blank(q)' /\ Open(q)' /\ Unsent(q)' /\ Called(q)' /\ Stored(q)' /\ Told(q)'
    BY <1>2 DEF Inv, Blank, Open, Unsent, Called, Stored, Told, Running, Ended, Terminal
  <1>9. Ready(q)'
    BY <1>1, <1>2, <1>7 DEF Ready, Sound, Terminal
  <1> QED BY <1>3, <1>4, <1>5, <1>6, <1>8, <1>9 DEF Inv

LEMMA RetrieveKeeps ==
    ASSUME TypeOK, NEW q \in Queries, Inv(q), Retrieve(q)
    PROVE  TypeOK' /\ Inv(q)' /\ OthersIdle(q)
  <1>1. pc[q] = "started" /\ UNCHANGED <<active, input, cancelled, row, faulty, activations, faults, sent>>
    BY DEF Retrieve, KeepStore
  <1>2. CASE Fail(q) /\ UNCHANGED hits
    BY <1>1, <1>2, FailKeeps DEF Running
  <1>3. CASE ~(Fail(q) /\ UNCHANGED hits)
    <2> DEFINE scope == EvidenceOf(input[q].snapshot)
    <2>0. PICK matched \in SUBSET scope, near \in SUBSET scope : \E vector \in SetToSeqs(near) :
             /\ hits' = [hits EXCEPT ![q] = [text |-> TextHits(matched), vector |-> vector]]
             /\ IF Refused(TextHits(matched))
                THEN Fail(q)
                ELSE /\ outcome' = [outcome EXCEPT ![q].candidates = Fuse(TextHits(matched), vector)]
                     /\ Goto(q, "retrieved")
      BY <1>3 DEF Retrieve
    <2>1. PICK vector \in SetToSeqs(near) :
             /\ hits' = [hits EXCEPT ![q] = [text |-> TextHits(matched), vector |-> vector]]
             /\ IF Refused(TextHits(matched))
                THEN Fail(q)
                ELSE /\ outcome' = [outcome EXCEPT ![q].candidates = Fuse(TextHits(matched), vector)]
                     /\ Goto(q, "retrieved")
      BY <2>0
    <2> DEFINE text == TextHits(matched)
               answer == [text |-> text, vector |-> vector]
    <2>2. /\ Answer(text) /\ Answer(vector) /\ text \in Seq(Evidence) /\ vector \in Seq(Evidence)
          /\ ToSet(text) \cup ToSet(vector) \subseteq scope
      BY SearchesAnswer
    <2> HIDE DEF text
    <2>3. answer \in Answers /\ answer.text = text /\ answer.vector = vector
      BY <2>2 DEF Answers
    <2>4. CASE Refused(text)
      <3>1. Fail(q) /\ \E new \in Answers : hits' = [hits EXCEPT ![q] = new]
        BY <2>1, <2>3, <2>4 DEF text
      <3> QED BY <1>1, <3>1, FailKeeps DEF Running
    <2>5. CASE ~Refused(text)
      <3> DEFINE candidates == Fuse(text, vector)
                 new == [outcome[q] EXCEPT !.candidates = candidates]
      <3>1. PICK n \in Nat : candidates \in [1..n -> scope]
        BY <2>2, FuseInScope
      <3>2. InRank(candidates, text, vector)
        BY <2>2, FuseInRank
      <3> HIDE DEF candidates
      <3>3. candidates \in Seq(Evidence)
        BY <3>1 DEF EvidenceOf
      <3>4. outcome[q] = NoOutcome /\ sent[q] = {} /\ outcome[q] \in Outcomes
        BY <1>1 DEF Inv, Blank, TypeOK
      <3>5. new \in Outcomes /\ new.candidates = candidates /\ new.package = {} /\ new.cited = {}
        <4>1. outcome[q].package = {} /\ outcome[q].cited = {}
          BY <3>4 DEF NoOutcome
        <4>2. /\ new \in Outcomes /\ new.candidates = candidates
              /\ new.package = outcome[q].package /\ new.cited = outcome[q].cited
          BY <3>3, <3>4 DEF Outcomes
        <4> HIDE DEF new
        <4> QED BY <4>1, <4>2
      <3>6. outcome' = [outcome EXCEPT ![q] = new] /\ pc' = [pc EXCEPT ![q] = "retrieved"]
        BY <2>1, <2>5 DEF Goto, text, candidates
      <3> HIDE DEF new
      <3>7. hits' = [hits EXCEPT ![q] = answer]
        BY <2>1 DEF text
      <3> HIDE DEF answer
      <3>8. outcome'[q] = new /\ pc'[q] = "retrieved" /\ hits'[q] = answer
        BY <3>6, <3>7 DEF TypeOK
      <3>9. TypeOK'
        BY <1>1, <2>3, <3>5, <3>6, <3>7, <3>8 DEF TypeOK, Running, Ended
      <3>10. OthersIdle(q)
        BY <1>1, <3>6, <3>7 DEF TypeOK, OthersIdle, Idle
      <3>11. Scoped(q)'
        BY <1>1, <3>1, <3>5, <3>8 DEF Scoped
      <3>12. Ranks(q)'
        BY <2>3, <3>2, <3>5, <3>8 DEF Ranks
      <3>13. Packaged(q)' /\ Transferred(q)'
        <4>1. outcome'[q].package = outcome[q].package
          BY <3>4, <3>5, <3>8 DEF NoOutcome
        <4>2. sent'[q] = sent[q] /\ row'[q].snapshot = row[q].snapshot
          BY <1>1
        <4> QED BY <4>1, <4>2, RestKeeps
      <3>14. Blank(q)' /\ Open(q)' /\ Unsent(q)' /\ Called(q)' /\ Ready(q)' /\ Stored(q)' /\ Told(q)'
        BY <1>1, <3>4, <3>5, <3>8
           DEF Inv, Blank, Open, Unsent, Called, Ready, Stored, Told, Running, Ended
      <3> QED BY <3>9, <3>10, <3>11, <3>12, <3>13, <3>14 DEF Inv
    <2> QED BY <2>4, <2>5
  <1> QED BY <1>2, <1>3

LEMMA ComposeKeeps ==
    ASSUME TypeOK, NEW q \in Queries, Inv(q), Compose(q)
    PROVE  TypeOK' /\ Inv(q)' /\ OthersIdle(q)
  <1>1. /\ pc[q] = "retrieved"
        /\ UNCHANGED <<active, input, cancelled, row, faulty, activations, faults, hits, sent>>
    BY DEF Compose, KeepStore
  <1>2. CASE cancelled[q]
    <2>1. Fail(q)
      BY <1>2 DEF Compose
    <2> QED BY <1>1, <2>1, FailKeeps DEF Running
  <1>3. CASE ~cancelled[q]
    <2> DEFINE candidates == outcome[q].candidates
               package == ComposePackage(candidates)
               new == [outcome[q] EXCEPT !.composed = TRUE, !.package = package]
    <2>1. PICK n \in Nat : candidates \in [1..n -> EvidenceOf(input[q].snapshot)]
      BY DEF Inv, Scoped
    <2>2. candidates \in [1..n -> ToSet(candidates)] /\ ToSet(candidates) \subseteq Evidence
      BY <2>1 DEF ToSet, Range, EvidenceOf
    <2>3. /\ package \in SUBSET ToSet(candidates) /\ Cardinality(package) <= MaxUnits
          /\ \A e \in package : Effective(e) # "deny"
      <3> HIDE DEF candidates
      <3> QED BY <2>1, <2>2, PackageComposed
    <2>4. outcome' = [outcome EXCEPT ![q] = new] /\ pc' = [pc EXCEPT ![q] = "composed"]
      BY <1>3 DEF Compose, Goto
    <2> HIDE DEF package
    <2>5. package \in SUBSET Evidence /\ IsFiniteSet(package)
      BY <2>2, <2>3, FiniteEvidence
    <2>6. outcome[q] \in Outcomes
      BY DEF TypeOK
    <2>7. /\ new \in Outcomes /\ new.package = package /\ new.candidates = candidates
          /\ new.cited = outcome[q].cited
      BY <2>5, <2>6 DEF Outcomes
    <2> HIDE DEF new
    <2>8. outcome'[q] = new /\ pc'[q] = "composed"
      BY <2>4 DEF TypeOK
    <2>9. TypeOK'
      BY <1>1, <2>3, <2>4, <2>7, <2>8 DEF TypeOK, Running, Ended
    <2>10. OthersIdle(q)
      BY <1>1, <2>4 DEF TypeOK, OthersIdle, Idle
    <2>11. Scoped(q)' /\ Ranks(q)' /\ Transferred(q)'
      BY <1>1, <2>7, <2>8, RestKeeps
    <2>12. Packaged(q)'
      BY <2>3, <2>5, <2>7, <2>8 DEF Packaged
    <2>13. Blank(q)' /\ Open(q)' /\ Unsent(q)' /\ Called(q)' /\ Ready(q)' /\ Stored(q)' /\ Told(q)'
      BY <1>1, <2>7, <2>8
         DEF Inv, Blank, Open, Unsent, Called, Ready, Stored, Told, Running, Ended
    <2> QED BY <2>9, <2>10, <2>11, <2>12, <2>13 DEF Inv
  <1> QED BY <1>2, <1>3

\* A step that settles the outcome without sending more.
LEMMA SettleKeeps ==
    ASSUME TypeOK, NEW q \in Queries, Inv(q), pc[q] \in {"composed", "generating"},
           UNCHANGED <<active, input, cancelled, row, faulty, activations, faults, hits, sent>>,
           NEW new \in Outcomes, outcome' = [outcome EXCEPT ![q] = new],
           pc' = [pc EXCEPT ![q] = "finishing"],
           new.candidates = outcome[q].candidates, new.package = outcome[q].package,
           new.state \in Terminal, Sound(new, sent[q])
    PROVE  TypeOK' /\ Inv(q)' /\ OthersIdle(q)
  <1>1. outcome'[q] = new /\ pc'[q] = "finishing"
    BY DEF TypeOK
  <1>2. TypeOK'
    BY <1>1 DEF TypeOK, Running, Ended
  <1>3. OthersIdle(q)
    BY DEF TypeOK, OthersIdle, Idle
  <1>4. Scoped(q)' /\ Ranks(q)' /\ Packaged(q)' /\ Transferred(q)'
    BY <1>1, RestKeeps
  <1>5. Blank(q)' /\ Open(q)' /\ Unsent(q)' /\ Called(q)' /\ Stored(q)' /\ Told(q)'
    BY <1>1 DEF Inv, Blank, Open, Unsent, Called, Stored, Told, Running, Ended
  <1>6. Ready(q)'
    BY <1>1 DEF Ready
  <1> QED BY <1>2, <1>3, <1>4, <1>5, <1>6 DEF Inv

LEMMA AbstainKeeps ==
    ASSUME TypeOK, NEW q \in Queries, Inv(q), Abstain(q)
    PROVE  TypeOK' /\ Inv(q)' /\ OthersIdle(q)
  <1> DEFINE new == [outcome[q] EXCEPT !.state = "abstained"]
  <1>1. /\ pc[q] = "composed" /\ outcome' = [outcome EXCEPT ![q] = new]
        /\ pc' = [pc EXCEPT ![q] = "finishing"]
        /\ UNCHANGED <<active, input, cancelled, row, faulty, activations, faults, hits, sent>>
    BY DEF Abstain, Goto, KeepStore
  <1>2. outcome[q] \in Outcomes
    BY DEF TypeOK
  <1>3. /\ new \in Outcomes /\ new.state = "abstained" /\ new.cited = outcome[q].cited
        /\ new.candidates = outcome[q].candidates /\ new.package = outcome[q].package
    BY <1>2 DEF Outcomes, Terminal
  <1> HIDE DEF new
  <1>4. outcome[q].cited = {} /\ sent[q] = {}
    BY <1>1 DEF Inv, Unsent
  <1>5. new.state \in Terminal /\ Sound(new, sent[q])
    BY <1>3, <1>4 DEF Terminal, Sound
  <1> QED BY <1>1, <1>3, <1>5, SettleKeeps

LEMMA GenerateKeeps ==
    ASSUME TypeOK, NEW q \in Queries, Inv(q), Generate(q)
    PROVE  TypeOK' /\ Inv(q)' /\ OthersIdle(q)
  <1>1. pc[q] = "composed" /\ UNCHANGED <<active, input, cancelled, row, faulty, activations, faults, hits>>
    BY DEF Generate, KeepStore
  <1>2. outcome[q] \in Outcomes /\ outcome[q].cited = {} /\ sent[q] = {}
    BY <1>1 DEF Inv, Unsent, TypeOK
  <1>3. CASE cancelled[q]
    <2> DEFINE new == [outcome[q] EXCEPT !.audited = TRUE, !.state = "failed"]
    <2>1. /\ outcome' = [outcome EXCEPT ![q] = new] /\ pc' = [pc EXCEPT ![q] = "finishing"]
          /\ UNCHANGED sent
      BY <1>3 DEF Generate, Goto
    <2>2. /\ new \in Outcomes /\ new.state = "failed"
          /\ new.candidates = outcome[q].candidates /\ new.package = outcome[q].package
      BY <1>2 DEF Outcomes, Terminal
    <2> HIDE DEF new
    <2>3. new.state \in Terminal /\ Sound(new, sent[q])
      BY <1>2, <2>2 DEF Terminal, Sound
    <2> QED BY <1>1, <2>1, <2>2, <2>3, SettleKeeps
  <1>4. CASE ~cancelled[q]
    <2> DEFINE new == [outcome[q] EXCEPT !.audited = TRUE]
               package == outcome[q].package
               transfer == {<<e, Effective(e)>> : e \in package}
    <2>1. /\ outcome' = [outcome EXCEPT ![q] = new] /\ pc' = [pc EXCEPT ![q] = "generating"]
          /\ sent' = [sent EXCEPT ![q] = transfer]
      BY <1>4 DEF Generate, Goto
    <2>2. /\ new \in Outcomes /\ new.audited /\ new.cited = {}
          /\ new.candidates = outcome[q].candidates /\ new.package = package
      BY <1>2 DEF Outcomes
    <2> HIDE DEF new
    <2>3. /\ package \in SUBSET Evidence /\ IsFiniteSet(package) /\ Cardinality(package) <= MaxUnits
          /\ \A e \in package : Effective(e) # "deny"
      BY <1>2 DEF Inv, Packaged, Outcomes
    <2>4. \A e \in package : Effective(e) \in {"allow", "redact"}
      BY <2>3 DEF Effective
    <2>5. transfer \in SUBSET (Evidence \X {"allow", "redact"})
      BY <2>3, <2>4
    <2>6. Cardinality(transfer) <= MaxUnits
      <3> DEFINE f == [e \in package |-> <<e, Effective(e)>>]
      <3>1. f \in Surjection(package, transfer)
        BY DEF Surjection
      <3> HIDE DEF f, transfer, package
      <3>2. Cardinality(transfer) <= Cardinality(package) /\ IsFiniteSet(transfer)
        BY <2>3, <3>1, FS_Surjection
      <3>3. Cardinality(transfer) \in Nat /\ Cardinality(package) \in Nat /\ MaxUnits \in Nat
        BY <2>3, <3>2, FS_CardinalityType, QueryAssumption
      <3> QED BY <2>3, <3>2, <3>3
    <2>7. package \subseteq EvidenceOf(row[q].snapshot)
      <3>1. PICK n \in Nat : outcome[q].candidates \in [1..n -> EvidenceOf(input[q].snapshot)]
        BY DEF Inv, Scoped
      <3>2. ToSet(outcome[q].candidates) \subseteq EvidenceOf(input[q].snapshot)
        BY <3>1 DEF ToSet, Range
      <3>3. row[q].snapshot = input[q].snapshot
        BY <1>1 DEF Inv, Open, Running
      <3> QED BY <3>2, <3>3 DEF TypeOK
    <2>8. \A t \in transfer : /\ SnapshotOf[t[1]] = row[q].snapshot
                              /\ t[2] = Effective(t[1]) /\ Effective(t[1]) # "deny"
      BY <2>3, <2>7 DEF EvidenceOf
    <2>9. outcome'[q] = new /\ pc'[q] = "generating" /\ sent'[q] = transfer
      BY <2>1 DEF TypeOK
    <2>10. TypeOK'
      <3> HIDE DEF transfer
      <3> QED BY <1>1, <2>1, <2>2, <2>5, <2>9 DEF TypeOK, Running, Ended
    <2>11. OthersIdle(q)
      <3> HIDE DEF transfer
      <3> QED BY <1>1, <2>1 DEF TypeOK, OthersIdle, Idle
    <2>12. Scoped(q)' /\ Ranks(q)' /\ Packaged(q)'
      BY <1>1, <2>2, <2>9, RestKeeps
    <2>13. Transferred(q)'
      <3> HIDE DEF transfer
      <3> QED BY <1>1, <2>6, <2>8, <2>9 DEF Transferred
    <2>14. Called(q)'
      BY <2>2, <2>9 DEF Called
    <2>15. row[q].state = "running" /\ row'[q] = row[q]
      BY <1>1 DEF Inv, Open, Running
    <2>16. Blank(q)' /\ Open(q)' /\ Unsent(q)' /\ Ready(q)' /\ Stored(q)' /\ Told(q)'
      BY <1>1, <2>9, <2>15
         DEF Inv, Blank, Open, Unsent, Ready, Stored, Told, Running, Ended, Terminal
    <2> QED BY <2>10, <2>11, <2>12, <2>13, <2>14, <2>16 DEF Inv
  <1> QED BY <1>3, <1>4

\* An answer that is accepted cites something, and of what was sent.
LEMMA ReplyKeeps ==
    ASSUME TypeOK, NEW q \in Queries, Inv(q), Reply(q) \/ Expire(q)
    PROVE  TypeOK' /\ Inv(q)' /\ OthersIdle(q)
  <1>1. /\ pc[q] = "generating"
        /\ UNCHANGED <<active, input, cancelled, row, faulty, activations, faults, hits, sent>>
    BY DEF Reply, Expire, KeepStore
  <1>2. CASE Fail(q)
    BY <1>1, <1>2, FailKeeps DEF Running
  <1>3. CASE ~Fail(q)
    <2>1. PICK answer \in [cited : SUBSET Evidence,
                           termination : {"completed", "partial", "abstained"},
                           gaps : BOOLEAN] :
             /\ Accepts(q, answer)
             /\ outcome' = [outcome EXCEPT ![q].state = answer.termination, ![q].cited = answer.cited]
             /\ Goto(q, "finishing")
      BY <1>3 DEF Reply, Expire
    <2> DEFINE new == [outcome[q] EXCEPT !.state = answer.termination, !.cited = answer.cited]
    <2>2. /\ outcome[q] \in Outcomes /\ outcome[q].audited
          /\ sent[q] = {<<e, Effective(e)>> : e \in outcome[q].package}
      BY <1>1 DEF TypeOK, Inv, Called
    <2>3. /\ answer.termination \in {"completed", "partial"}
          /\ answer.cited # {} /\ answer.cited \subseteq outcome[q].package
          /\ answer.cited \in SUBSET Evidence
      BY <2>1 DEF Accepts
    <2>4. /\ new \in Outcomes /\ new.state = answer.termination /\ new.cited = answer.cited
          /\ new.audited /\ new.candidates = outcome[q].candidates /\ new.package = outcome[q].package
      BY <2>2, <2>3 DEF Outcomes, Terminal
    <2>5. outcome' = [outcome EXCEPT ![q] = new] /\ pc' = [pc EXCEPT ![q] = "finishing"]
      BY <2>1 DEF Goto
    <2> HIDE DEF new
    <2>6. outcome[q].package \subseteq {t[1] : t \in sent[q]}
      <3> SUFFICES ASSUME NEW e \in outcome[q].package PROVE \E t \in sent[q] : t[1] = e
        OBVIOUS
      <3>1. <<e, Effective(e)>> \in sent[q] /\ <<e, Effective(e)>>[1] = e
        BY <2>2
      <3> QED BY <3>1
    <2>7. new.state \in Terminal /\ Sound(new, sent[q])
      BY <2>3, <2>4, <2>6 DEF Terminal, Sound
    <2> QED BY <1>1, <2>4, <2>5, <2>7, SettleKeeps
  <1> QED BY <1>2, <1>3

LEMMA FinishKeeps ==
    ASSUME TypeOK, NEW q \in Queries, Inv(q), Finish(q) \/ FinishFault(q)
    PROVE  TypeOK' /\ Inv(q)' /\ OthersIdle(q)
  <1> DEFINE new == [row[q] EXCEPT !.state = outcome[q].state, !.package = outcome[q].package,
                                   !.audited = outcome[q].audited, !.cited = outcome[q].cited]
  <1>1. outcome[q] \in Outcomes /\ row[q] \in Rows
    BY DEF TypeOK
  <1>2. /\ new \in Rows /\ new.state = outcome[q].state /\ new.snapshot = row[q].snapshot
        /\ new.audited = outcome[q].audited /\ new.cited = outcome[q].cited
    BY <1>1 DEF Outcomes, Rows
  <1> HIDE DEF new
  <1>3. /\ pc[q] = "finishing"
        /\ UNCHANGED <<active, input, cancelled, outcome, hits, sent, activations>>
        /\ \/ /\ pc' = [pc EXCEPT ![q] = "refused"] /\ row' = row
              /\ Refuses(q) \/ faulty' = [faulty EXCEPT ![q] = TRUE]
           \/ /\ pc' = [pc EXCEPT ![q] = IF outcome[q].state = "failed" THEN "failed" ELSE "executed"]
              /\ row' = [row EXCEPT ![q] = new]
           \/ pc' = [pc EXCEPT ![q] = "refused"] /\ row' = [row EXCEPT ![q] = new]
        /\ faulty' = faulty \/ faulty' = [faulty EXCEPT ![q] = TRUE]
        /\ faults' = faults \/ faults' \in 0 .. MaxFaults
    BY FaultCounted DEF Finish, FinishFault, Recorded, Goto, new
  <1>4. row[q].state = "running" /\ outcome[q].state \in Terminal /\ Sound(outcome[q], sent[q])
    BY <1>3 DEF Inv, Open, Ready, Running
  <1>5. TypeOK'
    <2>1. row' \in [Queries -> Rows] /\ faulty' \in [Queries -> BOOLEAN] /\ faults' \in 0 .. MaxFaults
      BY <1>2, <1>3 DEF TypeOK
    <2>2. CASE pc' = [pc EXCEPT ![q] = "refused"]
      BY <1>3, <2>1, <2>2 DEF TypeOK, Running, Ended
    <2>3. CASE pc' = [pc EXCEPT ![q] = IF outcome[q].state = "failed" THEN "failed" ELSE "executed"]
      BY <1>3, <2>1, <2>3 DEF TypeOK, Running, Ended
    <2> QED BY <1>3, <2>2, <2>3
  <1>6. OthersIdle(q)
    BY <1>3 DEF TypeOK, OthersIdle, Idle
  <1>7. row'[q] \in {row[q], new}
    BY <1>3 DEF TypeOK
  <1>8. Scoped(q)' /\ Ranks(q)' /\ Packaged(q)' /\ Transferred(q)'
    BY <1>2, <1>3, <1>7, RestKeeps
  <1>9. \/ row'[q] = row[q] /\ pc'[q] = "refused" /\ (Refuses(q) \/ faulty'[q])
        \/ row'[q] = new /\ pc'[q] = "refused"
        \/ row'[q] = new /\ pc'[q] = "failed" /\ outcome[q].state = "failed"
        \/ row'[q] = new /\ pc'[q] = "executed" /\ outcome[q].state # "failed"
    BY <1>3 DEF TypeOK
  <1>10. Told(q)'
    BY <1>2, <1>4, <1>9 DEF Told, Refuses, Terminal
  <1>11. Stored(q)'
    <2>1. row'[q] = row[q] => row'[q].state \notin Terminal
      BY <1>4 DEF Terminal
    <2>2. row'[q] = new => Sound(row'[q], sent'[q])
      BY <1>2, <1>3, <1>4 DEF Sound
    <2> QED BY <1>7, <2>1, <2>2 DEF Stored
  <1>12. Blank(q)' /\ Open(q)' /\ Unsent(q)' /\ Called(q)' /\ Ready(q)'
    BY <1>9 DEF Blank, Open, Unsent, Called, Ready, Running
  <1> QED BY <1>5, <1>6, <1>8, <1>10, <1>11, <1>12 DEF Inv

LEMMA CancelKeeps ==
    ASSUME TypeOK, NEW q \in Queries, Cancel(q)
    PROVE  TypeOK' /\ \A p \in Queries : Idle(p)
  BY DEF TypeOK, Cancel, Idle

LEMMA ActivateKeeps ==
    ASSUME TypeOK, Activate
    PROVE  TypeOK' /\ \A p \in Queries : Idle(p)
  <1>1. activations' \in 0 .. MaxActivations
    BY QueryAssumption DEF TypeOK, Activate
  <1> QED BY <1>1 DEF TypeOK, Activate, Idle

\* A process that dies leaves its queries where they were.
LEMMA CrashKeeps ==
    ASSUME TypeOK, \A p \in Queries : Inv(p), Crash
    PROVE  TypeOK' /\ \A p \in Queries : Inv(p)'
  <1>1. /\ pc' = [q \in Queries |-> IF pc[q] \in Running THEN "dead" ELSE pc[q]]
        /\ faulty' = [q \in Queries |-> faulty[q] \/ pc[q] \in Running]
        /\ faults' \in 0 .. MaxFaults
        /\ UNCHANGED <<active, input, cancelled, outcome, row, hits, sent, activations>>
    BY FaultCounted DEF Crash
  <1>2. pc' \in [Queries -> Running \cup Ended \cup {"new"}]
    BY <1>1 DEF TypeOK, Ended
  <1>3. faulty' \in [Queries -> BOOLEAN]
    BY <1>1
  <1>4. TypeOK'
    BY <1>1, <1>2, <1>3 DEF TypeOK
  <1>5. ASSUME NEW p \in Queries PROVE Inv(p)'
    <2>1. CASE pc[p] \notin Running
      <3>1. Idle(p)
        BY <1>1, <2>1 DEF Idle, TypeOK
      <3> QED BY <3>1, IdleKeeps
    <2>2. CASE pc[p] \in Running
      <3>1. pc'[p] = "dead" /\ faulty'[p]
        BY <1>1, <2>2
      <3>2. Scoped(p)' /\ Ranks(p)' /\ Packaged(p)' /\ Transferred(p)'
        BY <1>1, RestKeeps
      <3>3. Stored(p)'
        BY <1>1 DEF Inv, Stored
      <3>4. Blank(p)' /\ Open(p)' /\ Unsent(p)' /\ Called(p)' /\ Ready(p)' /\ Told(p)'
        BY <3>1 DEF Blank, Open, Unsent, Called, Ready, Told, Running
      <3> QED BY <3>2, <3>3, <3>4 DEF Inv
    <2> QED BY <2>1, <2>2
  <1> QED BY <1>4, <1>5

LEMMA InitInv == Init => IInv
  <1> SUFFICES ASSUME Init PROVE IInv
    OBVIOUS
  <1>1. NoInput \in Inputs /\ NoOutcome \in Outcomes /\ NoHits \in Answers /\ NoRow \in Rows
    BY DEF NoInput, NoOutcome, NoHits, NoRow, Inputs, Outcomes, Answers, Rows, Terminal
  <1>2. NoOutcome.package \subseteq ToSet(NoOutcome.candidates)
    BY DEF NoOutcome
  <1>3. 0 \in 0 .. MaxActivations /\ 0 \in 0 .. MaxFaults
    BY QueryAssumption
  <1>4. TypeOK
    BY <1>1, <1>2, <1>3 DEF Init, TypeOK
  <1>5. ASSUME NEW q \in Queries PROVE Inv(q)
    <2>1. /\ pc[q] = "new" /\ outcome[q] = NoOutcome /\ row[q] = NoRow /\ sent[q] = {}
      BY DEF Init
    <2>2. NoOutcome.candidates = <<>> /\ NoOutcome.package = {} /\ NoRow.state = None
      BY DEF NoOutcome, NoRow
    <2>3. Scoped(q)
      <3>1. <<>> \in [1..0 -> EvidenceOf(input[q].snapshot)]
        OBVIOUS
      <3> QED BY <2>1, <2>2, <3>1 DEF Scoped
    <2>4. Ranks(q)
      BY <2>1, <2>2 DEF Ranks, InRank
    <2>5. Packaged(q) /\ Transferred(q)
      BY <2>1, <2>2, FS_EmptySet, QueryAssumption DEF Packaged, Transferred
    <2>6. Blank(q) /\ Open(q) /\ Unsent(q) /\ Called(q) /\ Ready(q) /\ Stored(q) /\ Told(q)
      BY <2>1, <2>2
         DEF Blank, Open, Unsent, Called, Ready, Stored, Told, Running, Ended, Terminal, None
    <2> QED BY <2>3, <2>4, <2>5, <2>6 DEF Inv
  <1> QED BY <1>4, <1>5 DEF IInv

LEMMA NextInv == IInv /\ [Next]_vars => IInv'
  <1> SUFFICES ASSUME IInv, [Next]_vars PROVE IInv'
    OBVIOUS
  <1>0. TypeOK /\ \A p \in Queries : Inv(p)
    BY DEF IInv
  <1>1. ASSUME NEW q \in Queries, TypeOK' /\ Inv(q)' /\ OthersIdle(q) PROVE IInv'
    <2>1. ASSUME NEW p \in Queries PROVE Inv(p)'
      <3>1. CASE p = q
        BY <1>1, <3>1
      <3>2. CASE p # q
        BY <1>0, <1>1, <3>2, IdleKeeps DEF OthersIdle
      <3> QED BY <3>1, <3>2
    <2> QED BY <1>1, <2>1 DEF IInv
  <1>2. ASSUME TypeOK', \A p \in Queries : Idle(p) PROVE IInv'
    BY <1>0, <1>2, IdleKeeps DEF IInv
  <1>3. ASSUME NEW q \in Queries, Resolve(q) PROVE IInv'
    BY <1>0, <1>1, <1>3, ResolveKeeps
  <1>4. ASSUME NEW q \in Queries, Start(q) \/ StartFault(q) PROVE IInv'
    BY <1>0, <1>1, <1>4, StartKeeps
  <1>5. ASSUME NEW q \in Queries, Retrieve(q) PROVE IInv'
    BY <1>0, <1>1, <1>5, RetrieveKeeps
  <1>6. ASSUME NEW q \in Queries, Compose(q) PROVE IInv'
    BY <1>0, <1>1, <1>6, ComposeKeeps
  <1>7. ASSUME NEW q \in Queries, Abstain(q) PROVE IInv'
    BY <1>0, <1>1, <1>7, AbstainKeeps
  <1>8. ASSUME NEW q \in Queries, Generate(q) PROVE IInv'
    BY <1>0, <1>1, <1>8, GenerateKeeps
  <1>9. ASSUME NEW q \in Queries, Reply(q) \/ Expire(q) PROVE IInv'
    BY <1>0, <1>1, <1>9, ReplyKeeps
  <1>10. ASSUME NEW q \in Queries, Finish(q) \/ FinishFault(q) PROVE IInv'
    BY <1>0, <1>1, <1>10, FinishKeeps
  <1>11. ASSUME NEW q \in Queries, Cancel(q) PROVE IInv'
    BY <1>0, <1>2, <1>11, CancelKeeps
  <1>12. CASE Activate
    BY <1>0, <1>2, <1>12, ActivateKeeps
  <1>13. CASE Crash
    BY <1>0, <1>13, CrashKeeps DEF IInv
  <1>14. CASE UNCHANGED vars
    <2>1. TypeOK'
      BY <1>0, <1>14 DEF TypeOK, vars
    <2>2. \A p \in Queries : Idle(p)
      BY <1>14 DEF vars, Idle
    <2> QED BY <1>2, <2>1, <2>2
  <1> QED BY <1>3, <1>4, <1>5, <1>6, <1>7, <1>8, <1>9, <1>10, <1>11, <1>12, <1>13, <1>14
          DEF Next, Step

LEMMA SpecInv == Spec => []IInv
  BY InitInv, NextInv, PTL DEF Spec

----------------------------------------------------------------------------
(* The theorems.                                                            *)

\* Every variable keeps its type: in particular, a package is of candidates,
\* and nothing that must stay is ever sent (TypeOK of QueryExecution).
THEOREM QueryTyped == Spec => []TypeOK
  <1>1. IInv => TypeOK
    BY DEF IInv
  <1> QED BY <1>1, SpecInv, PTL

\* The fusion keeps the order in which the searches agree, whatever the
\* scores, the relations and the limits, but for two exact matches that the
\* exact signal turns round (Fuse, fusion.go).
THEOREM FusionKeepsOrder == Spec => []FusionRespectsSignals
  <1>1. IInv => FusionRespectsSignals
    BY DEF IInv, Inv, Ranks, InRank, FusionRespectsSignals
  <1> QED BY <1>1, SpecInv, PTL

\* Which matches these are: of any two with scores that differ by a whole part,
\* the one the search puts first is the one the exact signal puts last (the
\* rank that Retrieve gives an exact match, hybrid_retriever.go).
THEOREM ScoresTurnExactRound ==
    ASSUME NEW matched \in SUBSET Evidence,
           NEW d \in matched \cap ExactTerms, NEW e \in matched \cap ExactTerms,
           TextScore[e] > 0, TextScore[d] \div Parts > TextScore[e] \div Parts
    PROVE  /\ Position(TextHits(matched), d) < Position(TextHits(matched), e)
           /\ TurnedRound(d, e, TextHits(matched))
  <1> DEFINE found == TextHits(matched)
  <1>1. /\ Sorts(found, matched, FoundBefore(matched)) /\ ToSet(found) = matched
        /\ DOMAIN found \subseteq Nat
    <2>1. Sorts(found, matched, FoundBefore(matched))
      BY TextHitsSorts
    <2> HIDE DEF found
    <2>2. ToSet(found) = matched
      BY <2>1, SortedMembers
    <2>3. DOMAIN found \subseteq Nat
      BY <2>1, FiniteEvidence DEF Sorts
    <2> QED BY <2>1, <2>2, <2>3
  <1>2. TextScore[d] \in Nat /\ TextScore[e] \in Nat /\ Parts \in Nat \ {0}
    BY FusionAssumption
  <1>3. TextScore[d] > TextScore[e]
    BY <1>2
  <1>4. ExactRank(found, d) = TextScore[d] \div Parts /\ ExactRank(found, e) = TextScore[e] \div Parts
    BY <1>2, <1>3 DEF ExactRank
  <1> HIDE DEF found
  <1>5. <<d, e>> \in FoundBefore(matched) /\ <<e, d>> \in ExactBefore(found)
    BY <1>1, <1>3, <1>4 DEF FoundBefore, ExactBefore
  <1>6. Position(found, d) < Position(found, e)
    BY <1>1, <1>5, PositionSorted
  <1>7. Sorts(ExactOrder(found), matched \cap ExactTerms, ExactBefore(found))
    BY <1>1, ExactOrderSorts
  <1>8. Position(ExactOrder(found), e) < Position(ExactOrder(found), d)
    BY <1>5, <1>7, PositionSorted
  <1> QED BY <1>1, <1>6, <1>8 DEF TurnedRound, found

\* While no exact match has a score, none is turned round: its rank is then its
\* place in the answer.
THEOREM PlacesKeepExact ==
    ASSUME NEW matched \in SUBSET Evidence, \A e \in matched \cap ExactTerms : TextScore[e] = 0,
           NEW d \in matched, NEW e \in matched,
           Position(TextHits(matched), d) < Position(TextHits(matched), e)
    PROVE  ~TurnedRound(d, e, TextHits(matched))
  <1> DEFINE found == TextHits(matched)
  <1> SUFFICES ASSUME {d, e} \subseteq ToSet(found) \cap ExactTerms
               PROVE  ~(Position(ExactOrder(found), e) < Position(ExactOrder(found), d))
    BY DEF TurnedRound
  <1>1. /\ Sorts(found, matched, FoundBefore(matched)) /\ ToSet(found) = matched
        /\ DOMAIN found \subseteq Nat
    <2>1. Sorts(found, matched, FoundBefore(matched))
      BY TextHitsSorts
    <2> HIDE DEF found
    <2>2. ToSet(found) = matched
      BY <2>1, SortedMembers
    <2>3. DOMAIN found \subseteq Nat
      BY <2>1, FiniteEvidence DEF Sorts
    <2> QED BY <2>1, <2>2, <2>3
  <1>2. ExactRank(found, d) = Position(found, d) /\ ExactRank(found, e) = Position(found, e)
    BY <1>1 DEF ExactRank
  <1> HIDE DEF found
  <1>3. <<d, e>> \in ExactBefore(found)
    BY <1>1, <1>2 DEF ExactBefore, found
  <1>4. Sorts(ExactOrder(found), matched \cap ExactTerms, ExactBefore(found))
    BY <1>1, ExactOrderSorts
  <1>5. /\ Position(ExactOrder(found), d) < Position(ExactOrder(found), e)
        /\ Position(ExactOrder(found), d) \in Int /\ Position(ExactOrder(found), e) \in Int
    BY <1>1, <1>3, <1>4, PositionSorted
  <1> QED BY <1>5

\* What is sent is of the pinned snapshot, within the limit and allowed by
\* source and policy (ComposePackage, package.go).
THEOREM TransfersAuthorized == Spec => []TransferIsAuthorized
  <1>1. ASSUME IInv, NEW q \in Queries
        PROVE  /\ Cardinality(sent[q]) <= MaxUnits
               /\ \A t \in sent[q] :
                    /\ SnapshotOf[t[1]] = row[q].snapshot
                    /\ "deny" \notin {Decision[t[1]], PolicyDecision[t[1]]}
                    /\ t[2] = "allow" => Decision[t[1]] = "allow" /\ PolicyDecision[t[1]] = "allow"
    <2>1. Transferred(q) /\ sent[q] \in SUBSET (Evidence \X {"allow", "redact"})
      BY <1>1 DEF IInv, Inv, TypeOK
    <2>2. ASSUME NEW t \in sent[q]
          PROVE  /\ "deny" \notin {Decision[t[1]], PolicyDecision[t[1]]}
                 /\ t[2] = "allow" => Decision[t[1]] = "allow" /\ PolicyDecision[t[1]] = "allow"
      <3> DEFINE d == Decision[t[1]]
                 p == PolicyDecision[t[1]]
      <3>1. t[1] \in Evidence /\ t[2] = Effective(t[1]) /\ Effective(t[1]) # "deny"
        BY <2>1 DEF Transferred
      <3>2. d \in Decisions /\ p \in Decisions
        BY <3>1, QueryAssumption
      <3>3. Effective(t[1]) = CASE "deny" \in {d, p} -> "deny"
                                [] "deny" \notin {d, p} /\ "redact" \in {d, p} -> "redact"
                                [] OTHER -> "allow"
        BY DEF Effective
      <3> HIDE DEF d, p
      <3>4. "deny" \notin {d, p} /\ (t[2] = "allow" => d = "allow" /\ p = "allow")
        BY <3>1, <3>2, <3>3 DEF Decisions
      <3> QED BY <3>4 DEF d, p
    <2> QED BY <2>1, <2>2 DEF Transferred
  <1>2. IInv => TransferIsAuthorized
    BY <1>1 DEF TransferIsAuthorized
  <1> QED BY <1>2, SpecInv, PTL

\* A stored answer rests on evidence that was sent for it, a stored
\* abstention on none (responseFromGeneration, EvaluateAbstention).
THEOREM AnswersRest == Spec => []AnswersRestOnEvidence
  <1>1. IInv => AnswersRestOnEvidence
    BY DEF IInv, Inv, Stored, Sound, Terminal, AnswersRestOnEvidence
  <1> QED BY <1>1, SpecInv, PTL

\* A terminal row tells of the provider's call (persistPipelineProviderCall).
THEOREM SpendingRecorded == Spec => []SpendingIsRecorded
  <1>1. IInv => SpendingIsRecorded
    BY DEF IInv, Inv, Stored, Sound, SpendingIsRecorded
  <1> QED BY <1>1, SpecInv, PTL

\* Where the column of signals takes what Finish writes, a Create that no
\* outage cut short leaves no running row, and tells what it stored
\* (execute, Finish).  Where it does not, a run refutes this.
THEOREM CreatesDurable == SignalsColumn => (Spec => []CreateIsDurable)
  <1> SUFFICES ASSUME SignalsColumn PROVE Spec => []CreateIsDurable
    OBVIOUS
  <1>1. IInv => CreateIsDurable
    BY DEF IInv, Inv, Told, CreateIsDurable
  <1> QED BY <1>1, SpecInv, PTL
=============================================================================
