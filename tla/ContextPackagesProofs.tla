------------------------- MODULE ContextPackagesProofs -------------------------
(***************************************************************************)
(* Proofs about the packages a question gets, for every set of evidence,   *)
(* facts and entities, every score, policy, cost and limit, any number of  *)
(* calls and restarts.                                                     *)
(*                                                                         *)
(* A cursor that resumes finds the sequence it was issued for, so what it  *)
(* has read is a first part of that sequence: this is what the invariant   *)
(* says of every cursor the client may hold. The rest is about one call:   *)
(* what Build makes of any view has the three properties.                  *)
(***************************************************************************)
EXTENDS ContextPackages, WellFoundedInduction, FiniteSetTheorems, SequenceTheorems, TLAPS

----------------------------------------------------------------------------
(* Induction, and functions defined by it.                                 *)

LEMMA LessThanWellFounded == IsWellFoundedOn({p \in Nat \X Nat : p[1] < p[2]}, Nat)
  BY NatLessThanWellFounded DEF OpToRel

\* A set that has zero and with a number its successor has all numbers.
LEMMA Induction ==
    ASSUME NEW S, 0 \in S, \A n \in Nat : n \in S => n + 1 \in S
    PROVE  \A n \in Nat : n \in S
  <1> DEFINE R == {p \in Nat \X Nat : p[1] < p[2]}
  <1>1. SUFFICES ASSUME Nat \ S # {} PROVE FALSE
    OBVIOUS
  <1>2. PICK x \in Nat \ S : \A y \in Nat \ S : <<y, x>> \notin R
    <2>1. Nat \ S \subseteq Nat
      OBVIOUS
    <2>2. IsWellFoundedOn(R, Nat)
      BY LessThanWellFounded
    <2> HIDE DEF R
    <2> QED BY <1>1, <2>1, <2>2, WFMin
  <1>3. x # 0 /\ x - 1 \in Nat /\ x - 1 < x
    OBVIOUS
  <1>4. <<x - 1, x>> \in R
    BY <1>3
  <1>5. x - 1 \in S
    BY <1>2, <1>3, <1>4
  <1> QED BY <1>3, <1>5
\* What is defined from the value before it exists, up to any bound.
Recursive(A, base, step, m) ==
    {f \in [0..m -> A] : f[0] = base /\ \A n \in 1..m : f[n] = step[<<n, f[n - 1]>>]}

LEMMA Recursion ==
    ASSUME NEW A, NEW base \in A, NEW N \in Nat, NEW step \in [(1..N) \X A -> A]
    PROVE  Recursive(A, base, step, N) # {}
  <1> DEFINE Upto(m) == {f \in [0..m -> A] :
                            /\ f[0] = base
                            /\ \A n \in 1..m : f[n] = step[<<n, f[n - 1]>>]}
             S == {m \in Nat : m <= N => Upto(m) # {}}
  <1>1. 0 \in S
    <2> DEFINE f == [n \in 0..0 |-> base]
    <2>1. f \in [0..0 -> A] /\ f[0] = base /\ \A n \in 1..0 : f[n] = step[<<n, f[n - 1]>>]
      OBVIOUS
    <2>2. f \in Upto(0)
      BY <2>1
    <2> QED BY <2>2
  <1>2. ASSUME NEW m \in Nat, m \in S PROVE m + 1 \in S
    <2> SUFFICES ASSUME m + 1 <= N PROVE Upto(m + 1) # {}
      OBVIOUS
    <2>1. PICK f \in Upto(m) : TRUE
      BY <1>2
    <2>2. f \in [0..m -> A] /\ f[0] = base /\ \A n \in 1..m : f[n] = step[<<n, f[n - 1]>>]
      BY <2>1
    <2> DEFINE x == step[<<m + 1, f[m]>>]
               g == [n \in 0..(m + 1) |-> IF n = m + 1 THEN x ELSE f[n]]
    <2>3. x \in A
      <3>1. m + 1 \in 1..N /\ f[m] \in A
        BY <2>2
      <3> QED BY <3>1
    <2> HIDE DEF x
    <2>4. \A n \in 0..(m + 1) : n # m + 1 => n \in 0..m
      OBVIOUS
    <2>5. g \in [0..(m + 1) -> A] /\ g[m + 1] = x /\ \A n \in 0..m : g[n] = f[n]
      BY <2>2, <2>3, <2>4
    <2> HIDE DEF g
    <2>6. g[0] = base
      BY <2>2, <2>5
    <2>7. ASSUME NEW n \in 1..(m + 1) PROVE g[n] = step[<<n, g[n - 1]>>]
      <3>1. CASE n = m + 1
        <4>1. n - 1 = m /\ m \in 0..m
          BY <3>1
        <4> QED BY <2>5, <3>1, <4>1 DEF x
      <3>2. CASE n # m + 1
        <4>1. n \in 1..m /\ n \in 0..m /\ n - 1 \in 0..m
          BY <3>2
        <4> QED BY <2>2, <2>5, <4>1
      <3> QED BY <3>1, <3>2
    <2>8. g \in Upto(m + 1)
      BY <2>5, <2>6, <2>7
    <2> QED BY <2>8
  <1>3. \A m \in Nat : m \in S
    <2> HIDE DEF S
    <2> QED BY <1>1, <1>2, Induction
  <1>4. Upto(N) # {}
    BY <1>3
  <1> QED BY <1>4 DEF Recursive

----------------------------------------------------------------------------
(* Order.  An order is a set of pairs here; Rank counts what comes before. *)

StrictOrder(R, S) ==
    /\ \A x \in S : <<x, x>> \notin R
    /\ \A x, y, z \in S : <<x, y>> \in R /\ <<y, z>> \in R => <<x, z>> \in R
    /\ \A x, y \in S : x # y => <<x, y>> \in R \/ <<y, x>> \in R

Earlier(R, S, x) == {y \in S : <<y, x>> \in R}
Rank(R, S, x)    == Cardinality(Earlier(R, S, x))

\* Who comes later has more before him, and nobody has all.
LEMMA RanksGrow ==
    ASSUME NEW S, IsFiniteSet(S), NEW R, StrictOrder(R, S)
    PROVE  /\ \A x \in S : Rank(R, S, x) \in 0..(Cardinality(S) - 1)
           /\ \A x, y \in S : <<x, y>> \in R => Rank(R, S, x) < Rank(R, S, y)
  <1>1. \A x \in S : Earlier(R, S, x) \in SUBSET S /\ IsFiniteSet(Earlier(R, S, x))
    <2>1. \A x \in S : Earlier(R, S, x) \in SUBSET S
      BY DEF Earlier
    <2> QED BY <2>1, FS_Subset
  <1>2. \A x \in S : Rank(R, S, x) \in Nat
    BY <1>1, FS_CardinalityType DEF Rank
  <1>3. ASSUME NEW x \in S PROVE Rank(R, S, x) \in 0..(Cardinality(S) - 1)
    <2>1. Cardinality(S) \in Nat
      BY FS_CardinalityType
    <2>2. Rank(R, S, x) <= Cardinality(S)
      BY <1>1, FS_Subset DEF Rank
    <2>3. x \notin Earlier(R, S, x)
      BY DEF StrictOrder, Earlier
    <2>4. Cardinality(S) # Rank(R, S, x)
      BY <1>1, <2>3, FS_Subset DEF Rank
    <2> QED BY <1>2, <2>1, <2>2, <2>4
  <1>4. ASSUME NEW x \in S, NEW y \in S, <<x, y>> \in R
        PROVE  Rank(R, S, x) < Rank(R, S, y)
    <2>1. Earlier(R, S, x) \in SUBSET Earlier(R, S, y)
      BY <1>4 DEF StrictOrder, Earlier
    <2>2. x \in Earlier(R, S, y) /\ x \notin Earlier(R, S, x)
      BY <1>4 DEF StrictOrder, Earlier
    <2>3. Rank(R, S, x) <= Rank(R, S, y) /\ Rank(R, S, x) # Rank(R, S, y)
      BY <1>1, <2>1, <2>2, FS_Subset DEF Rank
    <2> QED BY <1>2, <2>3
  <1> QED BY <1>3, <1>4

\* Every place of the order is taken.
LEMMA RanksTaken ==
    ASSUME NEW S, IsFiniteSet(S), NEW R, StrictOrder(R, S), NEW i \in 1..Cardinality(S)
    PROVE  \E x \in S : Rank(R, S, x) = i - 1
  <1> DEFINE n == Cardinality(S)
             f == [x \in S |-> Rank(R, S, x) + 1]
  <1>1. n \in Nat
    BY FS_CardinalityType
  <1>2. IsFiniteSet(1..n) /\ Cardinality(1..n) = n
    BY <1>1, FS_Interval
  <1>3. f \in [S -> 1..n]
    BY <1>1, RanksGrow
  <1>4. IsInjective(f)
    <2> SUFFICES ASSUME NEW x \in S, NEW y \in S, x # y PROVE f[x] # f[y]
      BY DEF IsInjective
    <2>1. <<x, y>> \in R \/ <<y, x>> \in R
      BY DEF StrictOrder
    <2>2. Rank(R, S, x) < Rank(R, S, y) \/ Rank(R, S, y) < Rank(R, S, x)
      BY <2>1, RanksGrow
    <2>3. Rank(R, S, x) \in 0..(n - 1) /\ Rank(R, S, y) \in 0..(n - 1)
      BY RanksGrow
    <2> QED BY <1>1, <2>2, <2>3
  <1>5. f \in Surjection(S, 1..n)
    <2>1. f \in Injection(S, 1..n)
      BY <1>3, <1>4 DEF Injection
    <2> HIDE DEF f
    <2> QED BY <1>2, <2>1, FS_Injection
  <1>6. PICK x \in S : f[x] = i
    <2> HIDE DEF f
    <2> QED BY <1>5 DEF Surjection
  <1>7. Rank(R, S, x) \in 0..(n - 1)
    BY RanksGrow
  <1> QED BY <1>1, <1>6, <1>7

\* The foremost of a set.
LEMMA Foremost ==
    ASSUME NEW S, IsFiniteSet(S), S # {}, NEW R, StrictOrder(R, S)
    PROVE  \E x \in S : \A y \in S \ {x} : <<x, y>> \in R
  <1>1. Cardinality(S) \in Nat /\ Cardinality(S) # 0
    BY FS_CardinalityType, FS_EmptySet
  <1>2. 1 \in 1..Cardinality(S)
    BY <1>1
  <1>3. PICK x \in S : Rank(R, S, x) = 1 - 1
    BY <1>2, RanksTaken
  <1>4. IsFiniteSet(Earlier(R, S, x)) /\ Cardinality(Earlier(R, S, x)) = 0
    <2>1. Earlier(R, S, x) \in SUBSET S
      BY DEF Earlier
    <2> QED BY <1>3, <2>1, FS_Subset DEF Rank
  <1>5. Earlier(R, S, x) = {}
    BY <1>4, FS_EmptySet
  <1>6. \A y \in S \ {x} : <<y, x>> \notin R
    BY <1>5 DEF Earlier
  <1> QED BY <1>6 DEF StrictOrder

\* The sequence that has at each place the member of that rank has them all,
\* each once.
ByRank(R, S) == [n \in 1..Cardinality(S) |-> CHOOSE x \in S : Rank(R, S, x) = n - 1]

LEMMA AllOnce ==
    ASSUME NEW S, IsFiniteSet(S), NEW R, StrictOrder(R, S)
    PROVE  /\ ByRank(R, S) \in [1..Cardinality(S) -> S]
           /\ \A x \in S : \E n \in 1..Cardinality(S) : ByRank(R, S)[n] = x
           /\ \A m, n \in 1..Cardinality(S) : ByRank(R, S)[m] = ByRank(R, S)[n] => m = n
  <1> DEFINE seq == ByRank(R, S)
  <1>0. seq = [n \in 1..Cardinality(S) |-> CHOOSE x \in S : Rank(R, S, x) = n - 1]
    BY DEF ByRank
  <1> HIDE DEF seq
  <1>1. Cardinality(S) \in Nat
    BY FS_CardinalityType
  <1>2. ASSUME NEW n \in 1..Cardinality(S) PROVE seq[n] \in S /\ Rank(R, S, seq[n]) = n - 1
    <2>1. \E x \in S : Rank(R, S, x) = n - 1
      BY RanksTaken
    <2> QED BY <1>0, <2>1
  <1>3. ASSUME NEW x \in S PROVE \E n \in 1..Cardinality(S) : seq[n] = x
    <2> DEFINE n == Rank(R, S, x) + 1
    <2>1. Rank(R, S, x) \in 0..(Cardinality(S) - 1)
      BY RanksGrow
    <2>2. n \in 1..Cardinality(S) /\ n - 1 = Rank(R, S, x)
      BY <1>1, <2>1
    <2> HIDE DEF n
    <2>3. seq[n] \in S /\ Rank(R, S, seq[n]) = Rank(R, S, x)
      BY <1>2, <2>2
    <2>4. ~(Rank(R, S, seq[n]) < Rank(R, S, x)) /\ ~(Rank(R, S, x) < Rank(R, S, seq[n]))
      BY <2>1, <2>3
    <2>5. <<seq[n], x>> \notin R /\ <<x, seq[n]>> \notin R
      BY <2>3, <2>4, RanksGrow
    <2> QED BY <2>2, <2>3, <2>5 DEF StrictOrder
  <1>4. \A m, n \in 1..Cardinality(S) : seq[m] = seq[n] => m = n
    <2> SUFFICES ASSUME NEW m \in 1..Cardinality(S), NEW n \in 1..Cardinality(S), seq[m] = seq[n]
                 PROVE  m = n
      OBVIOUS
    <2>1. m - 1 = n - 1
      BY <1>2
    <2> QED BY <1>1, <2>1
  <1>5. seq \in [1..Cardinality(S) -> S]
    BY <1>0, <1>2
  <1> QED BY <1>3, <1>4, <1>5 DEF seq

----------------------------------------------------------------------------
(* The order of candidates.                                                *)

LEMMA EvidenceFinite ==
    /\ Evidence \subseteq Nat /\ Facts \subseteq Nat /\ Entities \subseteq Nat
    /\ \A S \in SUBSET Items : IsFiniteSet(S)
  <1>1. Items \subseteq Nat /\ IsFiniteSet(Items)
    BY ContextAssumption
  <1>2. \A S \in SUBSET Items : IsFiniteSet(S)
    BY <1>1, FS_Subset
  <1> QED BY <1>1, <1>2 DEF Items

LEMMA TabulatedIs == ASSUME NEW f PROVE Tabulated(f) = f
  BY DEF Tabulated

\* What a retrieval hands over: the best of what matched.
LEMMA FoundIs ==
    ASSUME NEW v \in Views
    PROVE  Found[v] = {e \in Matched(v) :
                          Cardinality({g \in Matched(v) : Better(v, g, e)}) < MaxCandidates}
  BY TabulatedIs DEF Found

LEMMA ViewTypes ==
    ASSUME NEW v \in Views
    PROVE  /\ v.question \in Questions /\ v.signals \in Signals /\ v.policy \in Policies
           /\ v.facts \subseteq Facts /\ Initial \subseteq v.facts
           /\ \A f \in v.facts : Inputs[f] \subseteq v.facts
           /\ Projected(v) \subseteq Facts /\ Found[v] \subseteq Evidence
           /\ \A e \in Evidence : ScoreIn(v, e) \in Nat
  <1>1. v.question \in Questions /\ v.signals \in Signals /\ v.policy \in Policies
    BY DEF Views
  <1>2. v.facts \subseteq Facts /\ Initial \subseteq v.facts
    BY DEF Views
  <1>3. \A f \in v.facts : Inputs[f] \subseteq v.facts
    BY DEF Views
  <1>4. Projected(v) \subseteq Facts /\ Found[v] \subseteq Evidence
    BY <1>2, FoundIs DEF Projected, Matched
  <1>5. Score[v.question][v.signals] \in [Evidence -> Nat]
    BY <1>1, ContextAssumption
  <1>6. \A e \in Evidence : ScoreIn(v, e) \in Nat
    BY <1>5 DEF ScoreIn
  <1> QED BY <1>1, <1>2, <1>3, <1>4, <1>6

\* Evidence is ordered, whatever retrieval found it.
LEMMA BetterOrders ==
    ASSUME NEW v \in Views
    PROVE  /\ \A e \in Evidence : ~Better(v, e, e)
           /\ \A e, g, h \in Evidence : Better(v, e, g) /\ Better(v, g, h) => Better(v, e, h)
           /\ \A e, g \in Evidence : e # g => Better(v, e, g) \/ Better(v, g, e)
  <1>1. \A e \in Evidence : ScoreIn(v, e) \in Nat /\ e \in Nat
    BY ViewTypes, EvidenceFinite
  <1> QED BY <1>1 DEF Better

\* When fewer are handed over than a retrieval keeps, none was left out.
LEMMA BelowTheLimit ==
    ASSUME NEW v \in Views, Cardinality(Found[v]) < MaxCandidates
    PROVE  Matched(v) \subseteq Found[v]
  <1> DEFINE M == Matched(v)
             R == {p \in Evidence \X Evidence : Better(v, p[1], p[2])}
             k == MaxCandidates
  <1>1. M \subseteq Evidence /\ k \in Nat \ {0}
    BY ContextAssumption DEF Matched
  <1>2. StrictOrder(R, M) /\ IsFiniteSet(M) /\ Cardinality(M) \in Nat
    <2>1. StrictOrder(R, M)
      <3> HIDE DEF M
      <3> QED BY <1>1, BetterOrders DEF StrictOrder
    <2>2. IsFiniteSet(M)
      BY <1>1, EvidenceFinite DEF Items
    <2> QED BY <2>1, <2>2, FS_CardinalityType
  <1>3. Found[v] = {e \in M : Rank(R, M, e) < k}
    <2>1. ASSUME NEW e \in M PROVE Earlier(R, M, e) = {g \in M : Better(v, g, e)}
      BY <1>1 DEF Earlier
    <2> QED BY <2>1, FoundIs DEF Rank
  <1> HIDE DEF M, R, k
  <1> SUFFICES ASSUME NEW e \in M, e \notin Found[v] PROVE FALSE
    BY DEF M
  <1>4. Rank(R, M, e) \in 0..(Cardinality(M) - 1) /\ ~(Rank(R, M, e) < k)
    BY <1>2, <1>3, RanksGrow
  <1>5. PICK x \in M : Rank(R, M, x) = k
    <2>1. k + 1 \in 1..Cardinality(M) /\ (k + 1) - 1 = k
      BY <1>1, <1>2, <1>4
    <2> QED BY <1>2, <2>1, RanksTaken
  <1>6. Earlier(R, M, x) \subseteq Found[v]
    <2> SUFFICES ASSUME NEW y \in Earlier(R, M, x) PROVE y \in Found[v]
      OBVIOUS
    <2>1. y \in M /\ <<y, x>> \in R
      BY DEF Earlier
    <2>2. Rank(R, M, y) < k
      BY <1>2, <1>5, <2>1, RanksGrow
    <2> QED BY <1>3, <2>1, <2>2
  <1>7. IsFiniteSet(Found[v])
    BY <1>2, <1>3, FS_Subset
  <1>8. Cardinality(Earlier(R, M, x)) = k /\ Cardinality(Earlier(R, M, x)) <= Cardinality(Found[v])
    BY <1>5, <1>6, <1>7, FS_Subset DEF Rank
  <1>9. Cardinality(Found[v]) \in Nat
    BY <1>7, FS_CardinalityType
  <1> QED BY <1>1, <1>8, <1>9 DEF k

LEMMA BestIn ==
    ASSUME NEW v \in Views, NEW S \in SUBSET Evidence, S # {}
    PROVE  Best(v, S) \in S
  <1> DEFINE R == {p \in Evidence \X Evidence : Better(v, p[1], p[2])}
  <1>1. StrictOrder(R, S)
    BY BetterOrders DEF StrictOrder
  <1>2. IsFiniteSet(S)
    BY EvidenceFinite DEF Items
  <1>3. PICK x \in S : \A y \in S \ {x} : <<x, y>> \in R
    <2> HIDE DEF R
    <2> QED BY <1>1, <1>2, Foremost
  <1>4. \A y \in S \ {x} : Better(v, x, y)
    BY <1>3
  <1> QED BY <1>4 DEF Best

\* Every fact has evidence, so a best one.
LEMMA BestOfFact ==
    ASSUME NEW v \in Views, NEW f \in Facts
    PROVE  Rests[f] \in SUBSET Evidence /\ Rests[f] # {} /\ Best(v, Rests[f]) \in Rests[f]
  <1>1. Rests[f] \in SUBSET Evidence /\ Rests[f] # {}
    BY ContextAssumption
  <1> QED BY <1>1, BestIn

\* An entity is shown as one of the facts about it says.
LEMMA NamingIn ==
    ASSUME NEW v \in Views, NEW n, \E f \in Projected(v) : n \in Ends(f)
    PROVE  Naming(v, n) \in Projected(v) /\ n \in Ends(Naming(v, n))
  <1> DEFINE S == {f \in Projected(v) : n \in Ends(f)}
             Ahead(f, g) == \/ Better(v, Best(v, Rests[f]), Best(v, Rests[g]))
                            \/ (Best(v, Rests[f]) = Best(v, Rests[g]) /\ f < g)
             R == {p \in Facts \X Facts : Ahead(p[1], p[2])}
  <1>1. \A f \in Facts : Best(v, Rests[f]) \in Evidence /\ f \in Nat
    BY BestOfFact, EvidenceFinite
  <1>2. S \in SUBSET Facts /\ S # {}
    BY ViewTypes
  <1>3. \A f \in Facts : ~Ahead(f, f)
    BY <1>1, BetterOrders
  <1>4. ASSUME NEW f \in Facts, NEW g \in Facts, NEW h \in Facts, Ahead(f, g), Ahead(g, h)
        PROVE  Ahead(f, h)
    <2> DEFINE B(x) == Best(v, Rests[x])
    <2>1. B(f) \in Evidence /\ B(g) \in Evidence /\ B(h) \in Evidence
      BY <1>1
    <2>2. Better(v, B(f), B(g)) /\ Better(v, B(g), B(h)) => Better(v, B(f), B(h))
      BY <2>1, BetterOrders
    <2>3. f < g /\ g < h => f < h
      BY <1>1
    <2> QED BY <1>4, <2>2, <2>3
  <1>5. \A f, g \in Facts : f # g => Ahead(f, g) \/ Ahead(g, f)
    <2> SUFFICES ASSUME NEW f \in Facts, NEW g \in Facts, f # g PROVE Ahead(f, g) \/ Ahead(g, f)
      OBVIOUS
    <2>1. f < g \/ g < f
      BY <1>1
    <2> QED BY <1>1, <2>1, BetterOrders
  <1> HIDE DEF Ahead
  <1>6. StrictOrder(R, S)
    <2> HIDE DEF S
    <2> QED BY <1>2, <1>3, <1>4, <1>5 DEF StrictOrder
  <1>7. IsFiniteSet(S)
    BY <1>2, EvidenceFinite DEF Items
  <1>8. PICK x \in S : \A y \in S \ {x} : <<x, y>> \in R
    <2> HIDE DEF R, S
    <2> QED BY <1>2, <1>6, <1>7, Foremost
  <1>9. \A y \in S \ {x} : Ahead(x, y)
    BY <1>8
  <1>10. Naming(v, n) = CHOOSE f \in S : \A g \in S \ {f} : Ahead(f, g)
    BY DEF Naming, Ahead
  <1>11. Naming(v, n) \in S
    <2> HIDE DEF S
    <2> QED BY <1>9, <1>10
  <1> QED BY <1>11

\* What a candidate is, and what it rests on.
LEMMA CandidateTypes ==
    ASSUME NEW v \in Views, NEW i \in Candidates(v)
    PROVE  /\ i \in Items /\ i \in Nat /\ Kind(i) \in 1..3
           /\ i \in Evidence => i \in Found[v]
           /\ i \in Facts => i \in Projected(v) /\ Provenance(v, i) = Rests[i] /\ Lineage(v, i) = Inputs[i]
           /\ i \in Entities => /\ Naming(v, i) \in Projected(v) /\ i \in Ends(Naming(v, i))
                                /\ Provenance(v, i) = Rests[Naming(v, i)]
                                /\ Lineage(v, i) = Inputs[Naming(v, i)]
           /\ Provenance(v, i) \in SUBSET Evidence /\ Provenance(v, i) # {}
           /\ Leading(v, i) \in Evidence
  <1>1. /\ \A x \in Facts : x \notin Evidence /\ x \notin Entities
        /\ \A x \in Evidence : x \notin Entities /\ x \notin Facts
    BY ContextAssumption
  <1>2. Found[v] \subseteq Evidence /\ Projected(v) \subseteq Facts
    BY ViewTypes
  <1>3. \A f \in Facts : Ends(f) \subseteq Entities
    BY ContextAssumption DEF Ends
  <1>4. \/ i \in Found[v]
        \/ i \in Projected(v)
        \/ i \in Entities /\ \E f \in Projected(v) : i \in Ends(f)
    BY <1>2, <1>3 DEF Candidates
  <1>5. i \in Items /\ i \in Nat
    BY <1>2, <1>4, EvidenceFinite DEF Items
  <1>6. Kind(i) \in 1..3
    BY <1>5 DEF Kind, Items
  <1>7. ASSUME i \in Evidence
        PROVE  i \in Found[v] /\ Provenance(v, i) = {i}
    BY <1>1, <1>2, <1>4, <1>7 DEF Provenance
  <1>8. ASSUME i \in Facts
        PROVE  i \in Projected(v) /\ Provenance(v, i) = Rests[i] /\ Lineage(v, i) = Inputs[i]
    BY <1>1, <1>2, <1>4, <1>8 DEF Provenance, Lineage, Origin
  <1>9. ASSUME i \in Entities
        PROVE  /\ Naming(v, i) \in Projected(v) /\ i \in Ends(Naming(v, i))
               /\ Provenance(v, i) = Rests[Naming(v, i)]
               /\ Lineage(v, i) = Inputs[Naming(v, i)]
    <2>1. \E f \in Projected(v) : i \in Ends(f)
      BY <1>1, <1>2, <1>4, <1>9
    <2>2. Naming(v, i) \in Projected(v) /\ i \in Ends(Naming(v, i))
      BY <2>1, NamingIn
    <2> QED BY <1>1, <1>9, <2>2 DEF Provenance, Lineage, Origin
  <1>10. Provenance(v, i) \in SUBSET Evidence /\ Provenance(v, i) # {}
    <2>1. CASE i \in Evidence
      BY <1>7, <2>1
    <2>2. CASE i \in Facts
      BY <1>8, <2>2, BestOfFact
    <2>3. CASE i \in Entities
      <3>1. Naming(v, i) \in Facts
        BY <1>2, <1>9, <2>3
      <3> QED BY <1>9, <2>3, <3>1, BestOfFact
    <2> QED BY <1>5, <2>1, <2>2, <2>3 DEF Items
  <1>11. Leading(v, i) \in Evidence
    BY <1>10, BestIn DEF Leading
  <1> QED BY <1>5, <1>6, <1>7, <1>8, <1>9, <1>10, <1>11

Before(v) == {p \in Items \X Items : Precedes(v, p[1], p[2])}

LEMMA PrecedesOrders ==
    ASSUME NEW v \in Views
    PROVE  StrictOrder(Before(v), Candidates(v))
  <1> DEFINE C == Candidates(v)
             L(i) == Leading(v, i)
  <1>1. \A i \in C : i \in Items /\ i \in Nat /\ Kind(i) \in Nat /\ L(i) \in Evidence
    BY CandidateTypes
  <1>2. \A i, j \in C : <<i, j>> \in Before(v) <=>
            \/ Better(v, L(i), L(j))
            \/ L(i) = L(j) /\ (Kind(i) < Kind(j) \/ (Kind(i) = Kind(j) /\ i < j))
    BY <1>1 DEF Before, Precedes
  <1> HIDE DEF C, L
  <1>3. ASSUME NEW i \in C PROVE <<i, i>> \notin Before(v)
    <2>1. ~Better(v, L(i), L(i))
      BY <1>1, BetterOrders
    <2>2. ~(Kind(i) < Kind(i)) /\ ~(i < i)
      BY <1>1
    <2> QED BY <1>2, <2>1, <2>2
  <1>4. ASSUME NEW i \in C, NEW j \in C, NEW k \in C, <<i, j>> \in Before(v), <<j, k>> \in Before(v)
        PROVE  <<i, k>> \in Before(v)
    <2>1. L(i) \in Evidence /\ L(j) \in Evidence /\ L(k) \in Evidence
      BY <1>1
    <2>2. Better(v, L(i), L(j)) /\ Better(v, L(j), L(k)) => Better(v, L(i), L(k))
      BY <2>1, BetterOrders
    <2>3. /\ Kind(i) < Kind(j) /\ Kind(j) < Kind(k) => Kind(i) < Kind(k)
          /\ i < j /\ j < k => i < k
      BY <1>1
    <2> QED BY <1>2, <1>4, <2>2, <2>3
  <1>5. ASSUME NEW i \in C, NEW j \in C, i # j
        PROVE  <<i, j>> \in Before(v) \/ <<j, i>> \in Before(v)
    <2>1. L(i) \in Evidence /\ L(j) \in Evidence
      BY <1>1
    <2>2. L(i) # L(j) => Better(v, L(i), L(j)) \/ Better(v, L(j), L(i))
      BY <2>1, BetterOrders
    <2>3. /\ Kind(i) < Kind(j) \/ Kind(j) < Kind(i) \/ Kind(i) = Kind(j)
          /\ i < j \/ j < i
      BY <1>1, <1>5
    <2> QED BY <1>2, <2>2, <2>3
  <1> QED BY <1>3, <1>4, <1>5 DEF StrictOrder, C

\* The sequence of any of the candidates has each of them once.
LEMMA OrderedAll ==
    ASSUME NEW v \in Views, NEW S \in SUBSET Candidates(v)
    PROVE  /\ Len(Ordered(v, S)) = Cardinality(S) /\ Cardinality(S) \in Nat
           /\ Ordered(v, S) \in [1..Cardinality(S) -> S]
           /\ \A x \in S : \E n \in 1..Cardinality(S) : Ordered(v, S)[n] = x
           /\ \A m, n \in 1..Cardinality(S) : Ordered(v, S)[m] = Ordered(v, S)[n] => m = n
  <1> DEFINE R == Before(v)
  <1>1. \A i \in S : i \in Items /\ i \in Candidates(v)
    BY CandidateTypes
  <1>2. IsFiniteSet(S) /\ Cardinality(S) \in Nat
    BY <1>1, EvidenceFinite, FS_CardinalityType
  <1>3. StrictOrder(R, S)
    BY PrecedesOrders DEF StrictOrder
  <1>4. ASSUME NEW i \in S PROVE Earlier(R, S, i) = {j \in S \ {i} : Precedes(v, j, i)}
    <2>1. <<i, i>> \notin R
      BY <1>3 DEF StrictOrder
    <2>2. \A j \in S : <<j, i>> \in R <=> Precedes(v, j, i)
      BY <1>1 DEF Before
    <2> QED BY <2>1, <2>2 DEF Earlier
  <1> HIDE DEF R
  <1>5. \A i \in S : Rank(R, S, i) = Cardinality({j \in S \ {i} : Precedes(v, j, i)})
    BY <1>4 DEF Rank
  <1>6. \A n \in 1..Cardinality(S) :
            (CHOOSE i \in S : Rank(R, S, i) = n - 1)
            = CHOOSE i \in S : Cardinality({j \in S \ {i} : Precedes(v, j, i)}) = n - 1
    BY <1>5
  <1>7. Ordered(v, S) = ByRank(R, S)
    BY <1>6 DEF Ordered, ByRank
  <1>8. /\ Ordered(v, S) \in [1..Cardinality(S) -> S]
        /\ \A x \in S : \E n \in 1..Cardinality(S) : Ordered(v, S)[n] = x
        /\ \A m, n \in 1..Cardinality(S) : Ordered(v, S)[m] = Ordered(v, S)[n] => m = n
    BY <1>2, <1>3, <1>7, AllOnce
  <1>9. Len(Ordered(v, S)) = Cardinality(S)
    BY <1>2, <1>8
  <1> QED BY <1>2, <1>8, <1>9

----------------------------------------------------------------------------
(* What the policy leaves.                                                 *)

\* What is authorised is allowed, and stands by itself.
LEMMA AuthorisedStands ==
    ASSUME NEW v \in Views
    PROVE  /\ Authorised[v] \subseteq Allowed(v) /\ Authorised[v] \subseteq Candidates(v)
           /\ \A i \in Authorised[v] : Provenance(v, i) \subseteq Authorised[v] /\ Lineage(v, i) \subseteq Authorised[v]
  <1> DEFINE Stable == {S \in SUBSET Allowed(v) : Standing(v, S) = S}
  <1>1. Authorised[v] = UNION Stable
    <2>1. Authorised = [w \in Views |-> UNION {S \in SUBSET Allowed(w) : Standing(w, S) = S}]
      BY TabulatedIs DEF Authorised
    <2> QED BY <2>1
  <1>2. \A S \in Stable : S \subseteq Allowed(v)
    OBVIOUS
  <1>3. ASSUME NEW S \in Stable, NEW i \in S
        PROVE  Provenance(v, i) \subseteq S /\ Lineage(v, i) \subseteq S
    <2>1. i \in Standing(v, S)
      BY <1>3
    <2> QED BY <2>1 DEF Standing
  <1> HIDE DEF Stable
  <1>4. Authorised[v] \subseteq Allowed(v)
    BY <1>1, <1>2
  <1>5. Allowed(v) \subseteq Candidates(v)
    BY DEF Allowed
  <1>6. ASSUME NEW i \in Authorised[v]
        PROVE  Provenance(v, i) \subseteq Authorised[v] /\ Lineage(v, i) \subseteq Authorised[v]
    BY <1>1, <1>3
  <1> QED BY <1>4, <1>5, <1>6

LEMMA RelationsAre ==
    ASSUME NEW v \in Views
    PROVE  Relations[v] = {f \in Projected(v) : Related(f) /\ Required(f) \cup Inputs[f] \subseteq Authorised[v]}
  <1>1. Relations = [w \in Views |->
            {f \in Projected(w) : Related(f) /\ Required(f) \cup Inputs[f] \subseteq Authorised[w]}]
    BY TabulatedIs DEF Relations
  <1> QED BY <1>1

\* The sequence of a view has what is authorised, each once.
LEMMA SequenceAll ==
    ASSUME NEW v \in Views
    PROVE  /\ Len(Sequence[v]) \in Nat
           /\ Sequence[v] \in [1..Len(Sequence[v]) -> Authorised[v]]
           /\ \A x \in Authorised[v] : \E n \in 1..Len(Sequence[v]) : Sequence[v][n] = x
           /\ \A m, n \in 1..Len(Sequence[v]) : Sequence[v][m] = Sequence[v][n] => m = n
  <1>1. Sequence = [w \in Views |-> Ordered(w, Authorised[w])]
    BY TabulatedIs DEF Sequence
  <1>2. Sequence[v] = Ordered(v, Authorised[v])
    BY <1>1
  <1>3. Authorised[v] \in SUBSET Candidates(v)
    BY AuthorisedStands
  <1> QED BY <1>2, <1>3, OrderedAll

----------------------------------------------------------------------------
(* One page, and the selection from it.                                    *)

\* What a sequence has after one place, up to another.
Stretch(seq, a, b) == {seq[n] : n \in (a + 1)..b}

LEMMA PartIs ==
    ASSUME NEW S, NEW N \in Nat, NEW seq \in [1..N -> S], NEW a \in 0..N, NEW b \in a..N
    PROVE  ToSet(SubSeq(seq, a + 1, b)) = Stretch(seq, a, b)
  <1> DEFINE m == a + 1
             part == SubSeq(seq, m, b)
  <1>1. m \in Int /\ b \in Int /\ m <= b + 1 /\ \A n \in m..b : seq[n] \in S
    OBVIOUS
  <1>2. /\ part \in Seq(S)
        /\ Len(part) = IF m <= b THEN b - m + 1 ELSE 0
        /\ \A n \in 1..(b - m + 1) : part[n] = seq[m + n - 1]
    <2> HIDE DEF m
    <2> QED BY <1>1, SubSeqProperties
  <1> HIDE DEF m, part
  <1>3. DOMAIN part = 1..(b - m + 1)
    BY <1>1, <1>2
  <1>4. ToSet(part) = {part[n] : n \in 1..(b - m + 1)}
    BY <1>3 DEF ToSet
  <1>5. ASSUME NEW n \in 1..(b - m + 1) PROVE \E k \in m..b : part[n] = seq[k]
    <2>1. m + n - 1 \in m..b
      BY <1>1
    <2> QED BY <1>2, <2>1
  <1>6. ASSUME NEW k \in m..b PROVE \E n \in 1..(b - m + 1) : part[n] = seq[k]
    <2>1. k - m + 1 \in 1..(b - m + 1) /\ m + (k - m + 1) - 1 = k
      BY <1>1
    <2> QED BY <1>2, <2>1
  <1>7. ToSet(part) = {seq[k] : k \in m..b}
    <2>1. ASSUME NEW x \in ToSet(part) PROVE x \in {seq[k] : k \in m..b}
      <3>1. PICK n \in 1..(b - m + 1) : x = part[n]
        BY <1>4
      <3> QED BY <1>5, <3>1
    <2>2. ASSUME NEW x \in {seq[k] : k \in m..b} PROVE x \in ToSet(part)
      <3>1. PICK k \in m..b : x = seq[k]
        OBVIOUS
      <3>2. PICK n \in 1..(b - m + 1) : part[n] = seq[k]
        BY <1>6
      <3> QED BY <1>4, <3>1, <3>2
    <2> QED BY <2>1, <2>2
  <1> QED BY <1>7 DEF m, part, Stretch

LEMMA PageIs ==
    ASSUME NEW v \in Views, NEW l \in Limits, NEW c,
           c.offset \in Nat, c.offset <= Len(Sequence[v])
    PROVE  /\ PageEnd(c, v, l) \in Nat
           /\ c.offset <= PageEnd(c, v, l) /\ PageEnd(c, v, l) <= Len(Sequence[v])
           /\ PageEnd(c, v, l) # Len(Sequence[v]) => PageEnd(c, v, l) > 0
           /\ Page(c, v, l) = Stretch(Sequence[v], c.offset, PageEnd(c, v, l))
  <1> DEFINE last == Len(Sequence[v])
             end == PageEnd(c, v, l)
             seq == Sequence[v]
  <1>1. last \in Nat /\ l.items \in Nat /\ l.items > 0
    BY SequenceAll, ContextAssumption
  <1>2. \E x \in {c.offset + l.items, last} : \A y \in {c.offset + l.items, last} : x <= y
    BY <1>1
  <1>3. /\ end \in {c.offset + l.items, last}
        /\ end <= c.offset + l.items /\ end <= last
    <2>1. end = CHOOSE x \in {c.offset + l.items, last} : \A y \in {c.offset + l.items, last} : x <= y
      BY DEF PageEnd, Min
    <2> QED BY <1>2, <2>1
  <1>4. end \in Nat /\ c.offset <= end /\ end <= last /\ (end # last => end > 0)
    BY <1>1, <1>3
  <1>5. seq \in [1..last -> Authorised[v]]
    BY SequenceAll
  <1> HIDE DEF end, last
  <1>6. c.offset \in 0..last /\ end \in c.offset..last
    BY <1>1, <1>4
  <1>7. ToSet(SubSeq(seq, c.offset + 1, end)) = Stretch(seq, c.offset, end)
    <2> DEFINE from == c.offset
               all == Authorised[v]
    <2>1. last \in Nat /\ from \in 0..last /\ end \in from..last /\ seq \in [1..last -> all]
      BY <1>1, <1>5, <1>6
    <2> HIDE DEF seq, from, all
    <2>2. ToSet(SubSeq(seq, from + 1, end)) = Stretch(seq, from, end)
      BY <2>1, PartIs
    <2> QED BY <2>2 DEF from
  <1> QED BY <1>4, <1>7 DEF Page, seq, end, last

LEMMA SelectIn ==
    ASSUME NEW v \in Views, NEW page, NEW l \in Limits
    PROVE  Select(v, page, l) \in SUBSET page
  <1> DEFINE A == SUBSET page
             N == l.items
             step == [p \in (1..N) \X A |-> Pick(v, page, l, p[2])]
             W == CHOOSE g : g = [n \in 0..N |-> IF n = 0 THEN {} ELSE Pick(v, page, l, g[n - 1])]
  <1>1. N \in Nat
    BY ContextAssumption
  <1>2. \A S \in A : Pick(v, page, l, S) \in A
    BY DEF Pick, Choice
  <1>3. step \in [(1..N) \X A -> A]
    BY <1>2
  <1>4. {} \in A
    OBVIOUS
  <1>5. \A n \in 1..N, S \in A : step[<<n, S>>] = Pick(v, page, l, S)
    OBVIOUS
  <1> HIDE DEF step, A, N
  <1>6. PICK f \in [0..N -> A] : f[0] = {} /\ \A n \in 1..N : f[n] = step[<<n, f[n - 1]>>]
    <2>1. Recursive(A, {}, step, N) # {}
      BY <1>1, <1>3, <1>4, Recursion
    <2> QED BY <2>1 DEF Recursive
  <1>7. ASSUME NEW n \in 0..N PROVE f[n] = IF n = 0 THEN {} ELSE Pick(v, page, l, f[n - 1])
    <2>1. CASE n = 0
      BY <1>6, <2>1
    <2>2. CASE n # 0
      <3>1. n \in 1..N /\ n - 1 \in 0..N
        BY <1>1, <2>2
      <3>2. f[n - 1] \in A
        BY <1>6, <3>1
      <3> QED BY <1>5, <1>6, <2>2, <3>1, <3>2
    <2> QED BY <2>1, <2>2
  <1>8. f = [n \in 0..N |-> IF n = 0 THEN {} ELSE Pick(v, page, l, f[n - 1])]
    BY <1>6, <1>7
  <1>9. W = [n \in 0..N |-> IF n = 0 THEN {} ELSE Pick(v, page, l, W[n - 1])]
    BY <1>8
  <1> HIDE DEF W
  <1> DEFINE G == {n \in Nat : n <= N => W[n] \in A}
  <1>10. 0 \in G
    BY <1>1, <1>4, <1>9
  <1>11. ASSUME NEW n \in Nat, n \in G PROVE n + 1 \in G
    <2> SUFFICES ASSUME n + 1 <= N PROVE W[n + 1] \in A
      OBVIOUS
    <2>1. W[n] \in A
      BY <1>1, <1>11
    <2>2. n + 1 \in 0..N /\ n + 1 # 0 /\ (n + 1) - 1 = n
      BY <1>1
    <2>3. W[n + 1] = Pick(v, page, l, W[n])
      BY <1>9, <2>2
    <2> QED BY <1>2, <2>1, <2>3 DEF A
  <1>12. \A n \in Nat : n \in G
    <2> HIDE DEF G
    <2> QED BY <1>10, <1>11, Induction
  <1>13. W[N] \in A
    BY <1>1, <1>12
  <1>14. Select(v, page, l) = W[N]
    BY DEF Select, W, N
  <1> QED BY <1>13, <1>14 DEF A

\* What closing a selection has kept and accepted, of a page and the relations
\* it can show; what it has not given up is all of them.
ClosedOf(page, representable) ==
    [items : SUBSET page, relations : SUBSET representable, exhausted : BOOLEAN]

Supports(acc) == \A f \in acc.relations : Required(f) \subseteq acc.items

LEMMA AcceptKeeps ==
    ASSUME NEW l, NEW page, NEW representable, NEW acc \in ClosedOf(page, representable),
           NEW f \in representable, Required(f) \subseteq page
    PROVE  /\ Accept(l, acc, f) \in ClosedOf(page, representable)
           /\ Supports(acc) => Supports(Accept(l, acc, f))
           /\ acc.items \subseteq Accept(l, acc, f).items
           /\ acc.relations \subseteq Accept(l, acc, f).relations
           /\ ~Accept(l, acc, f).exhausted => ~acc.exhausted /\ f \in Accept(l, acc, f).relations
  <1> DEFINE items == acc.items \cup Required(f)
             some == Cardinality(items) <= l.items /\ Fits(items, RelationCost, l)
             next == Accept(l, acc, f)
  <1>1. acc = [items |-> acc.items, relations |-> acc.relations, exhausted |-> acc.exhausted]
        /\ acc.items \subseteq page /\ acc.relations \subseteq representable /\ acc.exhausted \in BOOLEAN
    BY DEF ClosedOf
  <1>2. next = IF some THEN [acc EXCEPT !.items = items, !.relations = @ \cup {f}]
               ELSE [acc EXCEPT !.exhausted = TRUE]
    BY DEF Accept
  <1> HIDE DEF next, some
  <1>3. CASE some
    <2>1. next = [items |-> items, relations |-> acc.relations \cup {f}, exhausted |-> acc.exhausted]
      BY <1>1, <1>2, <1>3
    <2>2. next \in ClosedOf(page, representable)
      BY <1>1, <2>1 DEF ClosedOf
    <2>3. Supports(acc) => Supports(next)
      BY <2>1 DEF Supports
    <2> QED BY <2>1, <2>2, <2>3 DEF next
  <1>4. CASE ~some
    <2>1. next = [items |-> acc.items, relations |-> acc.relations, exhausted |-> TRUE]
      BY <1>1, <1>2, <1>4
    <2>2. next \in ClosedOf(page, representable)
      BY <1>1, <2>1 DEF ClosedOf
    <2>3. Supports(acc) => Supports(next)
      BY <2>1 DEF Supports
    <2> QED BY <2>1, <2>2, <2>3 DEF next
  <1> QED BY <1>3, <1>4

LEMMA RepresentableIs ==
    ASSUME NEW v \in Views, NEW page
    PROVE  /\ Representable(v, page) \subseteq Relations[v]
           /\ Representable(v, page) \in SUBSET Candidates(v)
           /\ \A f \in Representable(v, page) : Required(f) \subseteq page
  <1>1. Relations[v] \subseteq Projected(v)
    BY RelationsAre
  <1> QED BY <1>1 DEF Representable, Candidates

LEMMA CloseKeeps ==
    ASSUME NEW v \in Views, NEW page, NEW l \in Limits
    PROVE  LET closed == Close(v, page, l)
           IN  /\ closed.items \subseteq page /\ closed.relations \subseteq Representable(v, page)
               /\ \A f \in closed.relations : Required(f) \subseteq closed.items
               /\ ~closed.exhausted => closed.items = page /\ closed.relations = Representable(v, page)
  <1> DEFINE rel == Representable(v, page)
             selected == Select(v, page, l)
             order == Ordered(v, rel)
             N == Len(order)
             A == ClosedOf(page, rel)
             base == [items |-> selected, relations |-> {}, exhausted |-> selected # page]
             step == [p \in (1..N) \X A |-> Accept(l, p[2], order[p[1]])]
             W == CHOOSE g : g = [n \in 0..N |-> IF n = 0 THEN base ELSE Accept(l, g[n - 1], order[n])]
  <1>1. /\ N \in Nat
        /\ \A n \in 1..N : order[n] \in rel
        /\ \A f \in rel : \E n \in 1..N : order[n] = f
    <2>1. rel \in SUBSET Candidates(v)
      BY RepresentableIs
    <2> HIDE DEF rel
    <2> QED BY <2>1, OrderedAll
  <1>2. \A f \in rel : Required(f) \subseteq page
    BY RepresentableIs
  <1>3. base \in A
    BY SelectIn DEF ClosedOf
  <1> HIDE DEF rel, selected, order, N, A, base
  <1>4. \A n \in 1..N, acc \in A : Accept(l, acc, order[n]) \in A
    BY <1>1, <1>2, AcceptKeeps DEF A
  <1>5. step \in [(1..N) \X A -> A] /\ \A n \in 1..N, acc \in A : step[<<n, acc>>] = Accept(l, acc, order[n])
    BY <1>4
  <1> HIDE DEF step
  <1>6. PICK g \in [0..N -> A] : g[0] = base /\ \A n \in 1..N : g[n] = step[<<n, g[n - 1]>>]
    <2>1. Recursive(A, base, step, N) # {}
      BY <1>1, <1>3, <1>5, Recursion
    <2> QED BY <2>1 DEF Recursive
  <1>7. ASSUME NEW n \in 0..N PROVE g[n] = IF n = 0 THEN base ELSE Accept(l, g[n - 1], order[n])
    <2>1. CASE n = 0
      BY <1>6, <2>1
    <2>2. CASE n # 0
      <3>1. n \in 1..N /\ n - 1 \in 0..N
        BY <1>1, <2>2
      <3>2. g[n - 1] \in A
        BY <1>6, <3>1
      <3> QED BY <1>5, <1>6, <2>2, <3>1, <3>2
    <2> QED BY <2>1, <2>2
  <1>8. g = [n \in 0..N |-> IF n = 0 THEN base ELSE Accept(l, g[n - 1], order[n])]
    BY <1>6, <1>7
  <1>9. W = [n \in 0..N |-> IF n = 0 THEN base ELSE Accept(l, W[n - 1], order[n])]
    BY <1>8
  <1>10. Close(v, page, l) = W[N]
    BY DEF Close, W, N, order, rel, base, selected
  <1> HIDE DEF W
  <1> DEFINE Good(n) == /\ W[n] \in A /\ Supports(W[n])
                        /\ ~W[n].exhausted => /\ base.exhausted = FALSE /\ W[n].items = page
                                              /\ \A m \in 1..n : order[m] \in W[n].relations
             G == {n \in Nat : n <= N => Good(n)}
  <1>11. 0 \in G
    <2>1. W[0] = base
      BY <1>1, <1>9
    <2>2. base.items = selected /\ base.relations = {} /\ base.exhausted = (selected # page)
      BY DEF base
    <2>3. Supports(base)
      BY <2>2 DEF Supports
    <2>4. \A m \in 1..0 : order[m] \in base.relations
      OBVIOUS
    <2>5. Good(0)
      BY <1>3, <2>1, <2>2, <2>3, <2>4
    <2> QED BY <2>5
  <1> HIDE DEF Good
  <1>12. ASSUME NEW n \in Nat, n \in G PROVE n + 1 \in G
    <2> SUFFICES ASSUME n + 1 <= N PROVE Good(n + 1)
      OBVIOUS
    <2>1. Good(n)
      BY <1>1, <1>12
    <2>2. n + 1 \in 0..N /\ n + 1 \in 1..N /\ n + 1 # 0 /\ (n + 1) - 1 = n
      BY <1>1
    <2> DEFINE acc == W[n]
               next == W[n + 1]
               f == order[n + 1]
    <2>3. next = Accept(l, acc, f)
      BY <1>9, <2>2
    <2>4. acc \in A /\ Supports(acc)
      BY <2>1 DEF Good
    <2>5. f \in rel /\ Required(f) \subseteq page
      BY <1>1, <1>2, <2>2
    <2>6. /\ next \in A /\ Supports(next)
          /\ acc.items \subseteq next.items /\ acc.relations \subseteq next.relations
          /\ ~next.exhausted => ~acc.exhausted /\ f \in next.relations
      <3> HIDE DEF acc, f, next
      <3> QED BY <2>3, <2>4, <2>5, AcceptKeeps DEF A
    <2>7. next.items \subseteq page
      BY <2>6 DEF A, ClosedOf
    <2>8. ASSUME ~next.exhausted
          PROVE  /\ base.exhausted = FALSE /\ next.items = page
                 /\ \A m \in 1..(n + 1) : order[m] \in next.relations
      <3>1. ~acc.exhausted
        BY <2>6, <2>8
      <3>2. base.exhausted = FALSE /\ acc.items = page /\ \A m \in 1..n : order[m] \in acc.relations
        BY <2>1, <3>1 DEF Good
      <3>3. \A m \in 1..(n + 1) : m \in 1..n \/ m = n + 1
        OBVIOUS
      <3> HIDE DEF acc, next
      <3> QED BY <2>6, <2>7, <2>8, <3>2, <3>3
    <2> QED BY <2>6, <2>8 DEF Good
  <1>13. \A n \in Nat : n \in G
    <2> HIDE DEF G
    <2> QED BY <1>11, <1>12, Induction
  <1>14. Good(N)
    BY <1>1, <1>13
  <1> DEFINE closed == Close(v, page, l)
  <1>15. /\ closed \in A /\ Supports(closed)
         /\ ~closed.exhausted => closed.items = page /\ \A m \in 1..N : order[m] \in closed.relations
    BY <1>10, <1>14 DEF Good
  <1> HIDE DEF closed, G, W
  <1>16. closed.items \subseteq page /\ closed.relations \subseteq rel
    BY <1>15 DEF A, ClosedOf
  <1>17. ASSUME ~closed.exhausted PROVE closed.items = page /\ closed.relations = rel
    <2>1. closed.items = page /\ \A m \in 1..N : order[m] \in closed.relations
      BY <1>15, <1>17
    <2>2. \A f \in rel : f \in closed.relations
      BY <1>1, <2>1
    <2> QED BY <1>16, <2>1, <2>2
  <1> QED BY <1>15, <1>16, <1>17 DEF closed, rel, Supports

----------------------------------------------------------------------------
(* The invariant.                                                          *)

\* What a cursor has read is the sequence up to its offset.
CursorOK(c) ==
    c.offset \in Nat /\ c.offset <= Len(c.sequence) /\ c.read = Stretch(c.sequence, 0, c.offset)

\* The properties, of a package built from a view.
Accounts(v, p) ==
    /\ p.items \subseteq p.page /\ p.page \cap p.before = {}
    /\ p.before \cup p.page \subseteq Authorised[v]
    /\ p.cursor = NoCursor => p.before \cup p.page = Authorised[v]

Retained(v) == {e \in Found[v] : Retains[v.policy][e]}
Grounded(v, f) == Structured[v.policy] /\ \A g \in Basis(f) : g \in v.facts /\ Rests[g] \subseteq Retained(v)

Supported(v, p) ==
    /\ p.items \cap Evidence \subseteq Retained(v)
    /\ \A f \in p.items \cap Facts : Grounded(v, f)
    /\ \A n \in p.items \cap Entities : \E f \in v.facts : n \in Ends(f) /\ Grounded(v, f)
    /\ \A f \in p.relations : Required(f) \subseteq p.items

Known(v) == {f \in v.facts : Rests[f] \cap Found[v] # {}}

Complete(v, p) ==
    p.degradations = {} =>
        /\ p.before \cup p.items = Found[v] \cup Known(v) \cup UNION {Ends(f) : f \in Known(v)}
        /\ p.relations = {f \in Known(v) : Related(f)}
        /\ Cardinality((p.before \cup p.items) \cap Evidence) < MaxCandidates =>
              Matched(v) \subseteq p.before \cup p.items

Sound(v, p) ==
    v \in Views /\ CursorOK(p.cursor) /\ Accounts(v, p) /\ Supported(v, p) /\ Complete(v, p)

Snapshots == {S \in SUBSET Facts : Initial \subseteq S /\ \A f \in S : Inputs[f] \subseteq S}

ProcessOK == policy \in Policies /\ stored \in Snapshots /\ \A c \in cursors : CursorOK(c)

RequestOK ==
    pc \in {"asked", "read", "retrieved"} =>
        request.question \in Questions /\ request.limits \in Limits /\ CursorOK(request.cursor)

ViewOK ==
    /\ pc = "read" => \A s \in Signals : [view EXCEPT !.signals = s] \in Views
    /\ pc = "retrieved" => view \in Views

PackageOK == pc \in {"built", "recorded"} \/ Delivered => Sound(view, package)

\* Nothing is recorded as a success before it is.
RecordOK == pc \notin {"idle", "recorded"} => logged.outcome # "success"

ContextInv == ProcessOK /\ RequestOK /\ ViewOK /\ PackageOK /\ RecordOK

----------------------------------------------------------------------------
(* What Build makes of a view.                                             *)

Built(v, l, c, p) ==
    LET page == Page(c, v, l)
        closed == Close(v, page, l)
    IN  p = [before |-> c.read, page |-> page, items |-> closed.items, relations |-> closed.relations,
             degradations |-> Degradations(v, page, closed, Issue(c, v, l)), cursor |-> Issue(c, v, l)]

\* A cursor from the start, or one that resumes.
Starts(c, v) == CursorOK(c) /\ (c = NoCursor \/ c.sequence = Sequence[v])

\* A sequence that has everything, and once.
Enumerates(seq, N, S) ==
    /\ N \in Nat /\ seq \in [1..N -> S]
    /\ \A x \in S : \E n \in 1..N : seq[n] = x
    /\ \A m, n \in 1..N : seq[m] = seq[n] => m = n

\* Two stretches of it that follow each other are apart, and up to the end
\* they are all.
LEMMA Stretches ==
    ASSUME NEW S, NEW N, NEW seq, Enumerates(seq, N, S), NEW a \in 0..N, NEW b \in a..N
    PROVE  /\ Stretch(seq, 0, a) \cap Stretch(seq, a, b) = {}
           /\ Stretch(seq, 0, a) \cup Stretch(seq, a, b) = Stretch(seq, 0, b)
           /\ Stretch(seq, 0, b) \subseteq S
           /\ b = N => Stretch(seq, 0, b) = S
  <1>0. /\ N \in Nat /\ seq \in [1..N -> S]
        /\ \A x \in S : \E n \in 1..N : seq[n] = x
        /\ \A m, n \in 1..N : seq[m] = seq[n] => m = n
    BY DEF Enumerates
  <1>1. ASSUME NEW x
        PROVE  /\ x \in Stretch(seq, 0, a) <=> \E n \in 1..a : x = seq[n]
               /\ x \in Stretch(seq, a, b) <=> \E n \in (a + 1)..b : x = seq[n]
               /\ x \in Stretch(seq, 0, b) <=> \E n \in 1..b : x = seq[n]
    <2>1. 0 + 1 = 1
      OBVIOUS
    <2> QED BY <2>1 DEF Stretch
  <1>2. ASSUME NEW x, x \in Stretch(seq, 0, a), x \in Stretch(seq, a, b) PROVE FALSE
    <2>1. PICK m \in 1..a : x = seq[m]
      BY <1>1, <1>2
    <2>2. PICK n \in (a + 1)..b : x = seq[n]
      BY <1>1, <1>2
    <2>3. m \in 1..N /\ n \in 1..N /\ m # n
      BY <1>0
    <2> QED BY <1>0, <2>1, <2>2, <2>3
  <1>3. ASSUME NEW x
        PROVE  x \in Stretch(seq, 0, b) <=> x \in Stretch(seq, 0, a) \/ x \in Stretch(seq, a, b)
    <2>1. \A n : n \in 1..b <=> n \in 1..a \/ n \in (a + 1)..b
      BY <1>0
    <2> QED BY <1>1, <2>1
  <1>4. ASSUME NEW x \in Stretch(seq, 0, b) PROVE x \in S
    <2>1. PICK n \in 1..b : x = seq[n]
      BY <1>1
    <2>2. n \in 1..N
      BY <1>0
    <2> QED BY <1>0, <2>1, <2>2
  <1>5. ASSUME b = N, NEW x \in S PROVE x \in Stretch(seq, 0, b)
    BY <1>0, <1>1, <1>5
  <1> QED BY <1>2, <1>3, <1>4, <1>5

LEMMA NothingRead == Stretch(<<>>, 0, 0) = {} /\ CursorOK(NoCursor) /\ \A seq : Stretch(seq, 0, 0) = {}
  <1>1. \A n \in (0 + 1)..0 : FALSE
    OBVIOUS
  <1>2. \A seq : Stretch(seq, 0, 0) = {}
    BY <1>1 DEF Stretch
  <1>3. Len(<<>>) = 0
    OBVIOUS
  <1> QED BY <1>2, <1>3 DEF CursorOK, NoCursor

\* Pages follow each other in the sequence, and the last one ends it.
LEMMA BuildAccounts ==
    ASSUME NEW v \in Views, NEW l \in Limits, NEW c, Starts(c, v), NEW p, Built(v, l, c, p)
    PROVE  CursorOK(p.cursor) /\ Accounts(v, p)
  <1> DEFINE seq == Sequence[v]
             N == Len(seq)
             a == c.offset
             b == PageEnd(c, v, l)
             S == Authorised[v]
             page == Page(c, v, l)
  <1>1. p.before = c.read /\ p.page = page /\ p.cursor = Issue(c, v, l)
        /\ p.items = Close(v, page, l).items
    BY DEF Built
  <1>2. N \in Nat /\ Enumerates(seq, N, S)
    BY SequenceAll DEF Enumerates
  <1>3. a \in Nat /\ a <= N /\ c.read = Stretch(seq, 0, a)
    <2>1. CASE c = NoCursor
      <3>1. a = 0 /\ c.read = {}
        BY <2>1 DEF NoCursor
      <3> QED BY <1>2, <3>1, NothingRead
    <2>2. CASE c.sequence = seq
      BY <2>2 DEF Starts, CursorOK
    <2> QED BY <2>1, <2>2 DEF Starts
  <1>4. /\ b \in Nat /\ a <= b /\ b <= N /\ (b # N => b > 0)
        /\ page = Stretch(seq, a, b)
    BY <1>3, PageIs
  <1>5. p.items \subseteq page
    BY <1>1, CloseKeeps
  <1>6. Issue(c, v, l) = IF b = N THEN NoCursor
                         ELSE [key |-> key, question |-> v.question, policy |-> v.policy,
                               candidates |-> Candidates(v), sequence |-> seq,
                               offset |-> b, read |-> c.read \cup page]
    BY DEF Issue
  <1> HIDE DEF seq, N, a, b, S, page
  <1>7. /\ Stretch(seq, 0, a) \cap Stretch(seq, a, b) = {}
        /\ Stretch(seq, 0, a) \cup Stretch(seq, a, b) = Stretch(seq, 0, b)
        /\ Stretch(seq, 0, b) \subseteq S
        /\ b = N => Stretch(seq, 0, b) = S
    <2>1. a \in 0..N /\ b \in a..N
      BY <1>2, <1>3, <1>4
    <2> QED BY <1>2, <2>1, Stretches
  <1>8. CASE b = N
    <2>1. p.cursor = NoCursor
      BY <1>1, <1>6, <1>8
    <2>2. p.before \cup p.page = S /\ p.page \cap p.before = {}
      BY <1>1, <1>3, <1>4, <1>7, <1>8
    <2> QED BY <1>1, <1>5, <2>1, <2>2, NothingRead DEF Accounts, S
  <1>9. CASE b # N
    <2>1. p.cursor.offset = b /\ p.cursor.sequence = seq /\ p.cursor.read = c.read \cup page
      BY <1>1, <1>6, <1>9
    <2>2. p.cursor # NoCursor
      <3>1. b # 0
        BY <1>4, <1>9
      <3> QED BY <2>1, <3>1 DEF NoCursor
    <2>3. CursorOK(p.cursor)
      BY <1>3, <1>4, <1>7, <2>1 DEF CursorOK, N
    <2>4. p.before \cup p.page \subseteq S /\ p.page \cap p.before = {}
      BY <1>1, <1>3, <1>4, <1>7
    <2> QED BY <1>1, <1>5, <2>2, <2>3, <2>4 DEF Accounts, S
  <1> QED BY <1>8, <1>9

\* A set of facts that has the inputs of each of them has what they are
\* derived from.
LEMMA BasisWithin ==
    ASSUME NEW S \in SUBSET Facts, NEW f \in S, \A h \in S : Inputs[h] \subseteq S
    PROVE  Basis(f) \subseteq S
  BY DEF Basis

\* What stands by itself rests on evidence that was found and is retained,
\* through every derivation.
LEMMA AuthorisedGrounded ==
    ASSUME NEW v \in Views
    PROVE  /\ Authorised[v] \cap Evidence \subseteq Retained(v)
           /\ \A f \in Authorised[v] \cap Facts : Grounded(v, f)
           /\ \A n \in Authorised[v] \cap Entities : \E f \in v.facts : n \in Ends(f) /\ Grounded(v, f)
  <1> DEFINE S == Authorised[v]
             F == S \cap Facts
  <1>1. S \subseteq Allowed(v) /\ S \subseteq Candidates(v)
    BY AuthorisedStands
  <1>2. \A i \in S : Provenance(v, i) \subseteq S /\ Lineage(v, i) \subseteq S
    BY AuthorisedStands
  <1>3. \A x \in Facts \cup Entities : x \notin Evidence
    BY ContextAssumption
  <1>4. Projected(v) \subseteq Facts /\ Projected(v) \subseteq v.facts
    BY ViewTypes DEF Projected
  <1> HIDE DEF S
  <1>5. ASSUME NEW e \in S, e \in Evidence PROVE e \in Retained(v)
    <2>1. e \in Found[v]
      BY <1>1, <1>5, CandidateTypes
    <2>2. Retains[v.policy][e]
      BY <1>1, <1>5 DEF Allowed
    <2> QED BY <1>5, <2>1, <2>2 DEF Retained
  <1>6. ASSUME NEW i \in S, i \notin Evidence PROVE Structured[v.policy]
    BY <1>1, <1>6 DEF Allowed
  <1>7. ASSUME NEW g \in Facts, Rests[g] \subseteq S PROVE Rests[g] \subseteq Retained(v)
    <2>1. Rests[g] \in SUBSET Evidence
      BY BestOfFact
    <2> QED BY <1>5, <1>7, <2>1
  <1>8. ASSUME NEW g \in F
        PROVE  g \in v.facts /\ Rests[g] \subseteq S /\ Inputs[g] \subseteq F
    <2>1. g \in Projected(v) /\ Provenance(v, g) = Rests[g] /\ Lineage(v, g) = Inputs[g]
      BY <1>1, <1>8, CandidateTypes
    <2>2. Inputs[g] \subseteq Facts
      BY ContextAssumption
    <2> QED BY <1>2, <1>4, <2>1, <2>2
  <1>9. ASSUME NEW f \in F PROVE Grounded(v, f)
    <2>1. Basis(f) \subseteq F
      <3>1. F \in SUBSET Facts
        OBVIOUS
      <3> HIDE DEF F
      <3> QED BY <1>8, <3>1, BasisWithin
    <2>2. Structured[v.policy]
      BY <1>3, <1>6
    <2>3. \A g \in F : g \in v.facts /\ Rests[g] \subseteq Retained(v)
      BY <1>7, <1>8
    <2> QED BY <2>1, <2>2, <2>3 DEF Grounded
  <1>10. ASSUME NEW n \in S, n \in Entities
         PROVE  \E f \in v.facts : n \in Ends(f) /\ Grounded(v, f)
    <2> DEFINE f == Naming(v, n)
               T == F \cup {f}
    <2>1. f \in Projected(v) /\ n \in Ends(f) /\ Provenance(v, n) = Rests[f] /\ Lineage(v, n) = Inputs[f]
      BY <1>1, <1>10, CandidateTypes
    <2>2. f \in Facts /\ f \in v.facts
      BY <1>4, <2>1
    <2>3. Rests[f] \subseteq S /\ Inputs[f] \subseteq F
      <3>1. Inputs[f] \subseteq Facts
        BY <2>2, ContextAssumption
      <3> QED BY <1>2, <2>1, <3>1
    <2> HIDE DEF f
    <2>4. Basis(f) \subseteq T
      <3>1. T \in SUBSET Facts /\ f \in T
        BY <2>2
      <3>2. \A h \in T : Inputs[h] \subseteq T
        BY <1>8, <2>3
      <3> HIDE DEF T
      <3> QED BY <3>1, <3>2, BasisWithin
    <2>5. Structured[v.policy]
      BY <1>3, <1>6, <1>10
    <2>6. \A g \in T : g \in v.facts /\ Rests[g] \subseteq Retained(v)
      BY <1>7, <1>8, <2>2, <2>3
    <2>7. Grounded(v, f)
      BY <2>4, <2>5, <2>6 DEF Grounded
    <2> QED BY <2>1, <2>2, <2>7
  <1> QED BY <1>5, <1>9, <1>10 DEF S

LEMMA BuildSupports ==
    ASSUME NEW v \in Views, NEW l \in Limits, NEW c, NEW p, Built(v, l, c, p), Accounts(v, p)
    PROVE  Supported(v, p)
  <1>1. p.items \subseteq Authorised[v]
    BY DEF Accounts
  <1>2. \A f \in p.relations : Required(f) \subseteq p.items
    BY CloseKeeps DEF Built
  <1>3. p.items \cap Evidence \subseteq Retained(v)
    BY <1>1, AuthorisedGrounded
  <1>4. \A f \in p.items \cap Facts : Grounded(v, f)
    BY <1>1, AuthorisedGrounded
  <1>5. \A n \in p.items \cap Entities : \E f \in v.facts : n \in Ends(f) /\ Grounded(v, f)
    BY <1>1, AuthorisedGrounded
  <1> QED BY <1>2, <1>3, <1>4, <1>5 DEF Supported

\* What admits no degradation lost nothing on the way.
LEMMA BuildCompletes ==
    ASSUME NEW v \in Views, NEW l \in Limits, NEW c, NEW p, Built(v, l, c, p), Accounts(v, p)
    PROVE  Complete(v, p)
  <1> SUFFICES ASSUME p.degradations = {}
               PROVE  /\ p.before \cup p.items = Found[v] \cup Known(v) \cup UNION {Ends(f) : f \in Known(v)}
                      /\ p.relations = {f \in Known(v) : Related(f)}
                      /\ Cardinality((p.before \cup p.items) \cap Evidence) < MaxCandidates =>
                            Matched(v) \subseteq p.before \cup p.items
    BY DEF Complete
  <1> DEFINE page == Page(c, v, l)
             closed == Close(v, page, l)
             next == Issue(c, v, l)
  <1>1. /\ p.page = page /\ p.items = closed.items /\ p.relations = closed.relations /\ p.cursor = next
        /\ p.degradations = Degradations(v, page, closed, next)
    BY DEF Built
  <1> HIDE DEF closed, next, page
  <1>2. /\ Reasons[v.signals] = {} /\ ~SupportIncomplete(v) /\ Representable(v, page) = Relations[v]
        /\ ~closed.exhausted /\ next = NoCursor /\ ~PolicyFiltered(v)
    <2>1. Degradations(v, page, closed, next) = {}
      BY <1>1
    <2>2. ~(SupportIncomplete(v) \/ Representable(v, page) # Relations[v])
      BY <2>1 DEF Degradations
    <2>3. ~(closed.exhausted \/ next # NoCursor)
      BY <2>1 DEF Degradations
    <2>4. ~PolicyFiltered(v)
      BY <2>1 DEF Degradations
    <2> QED BY <2>1, <2>2, <2>3, <2>4 DEF Degradations
  <1>4. Projected(v) = Known(v)
    <2>1. ASSUME NEW f \in v.facts PROVE f \in Projected(v) <=> Rests[f] \cap Found[v] # {}
      <3>1. f \notin Projected(v) => Rests[f] \cap Found[v] = {}
        BY <1>2 DEF SupportIncomplete
      <3>2. Rests[f] # {}
        BY ViewTypes, BestOfFact
      <3> QED BY <3>1, <3>2 DEF Projected
    <2> QED BY <2>1 DEF Projected, Known
  <1>5. closed.items = page /\ closed.relations = Relations[v]
    BY <1>2, CloseKeeps DEF closed
  <1>6. p.before \cup p.items = Authorised[v]
    BY <1>1, <1>2, <1>5 DEF Accounts
  <1>7. Authorised[v] = Candidates(v) /\ Relations[v] = {f \in Projected(v) : Related(f)}
    BY <1>2 DEF PolicyFiltered
  <1>8. p.before \cup p.items = Found[v] \cup Known(v) \cup UNION {Ends(f) : f \in Known(v)}
    BY <1>4, <1>6, <1>7 DEF Candidates
  <1>9. (p.before \cup p.items) \cap Evidence = Found[v]
    <2>1. \A f \in Facts : Ends(f) \subseteq Entities
      BY ContextAssumption DEF Ends
    <2>2. /\ \A x \in Facts \cup Entities : x \notin Evidence
          /\ Known(v) \subseteq Facts /\ Found[v] \subseteq Evidence
      BY ViewTypes, ContextAssumption DEF Known
    <2> QED BY <1>8, <2>1, <2>2
  <1>10. Cardinality(Found[v]) < MaxCandidates => Matched(v) \subseteq p.before \cup p.items
    BY <1>8, BelowTheLimit
  <1> QED BY <1>1, <1>4, <1>5, <1>7, <1>8, <1>9, <1>10

----------------------------------------------------------------------------
(* The invariant, step by step.                                            *)

LEMMA SuccessIsOne == NoRecord.outcome # "success" /\ NoRecord.outcome = None
  BY DEF NoRecord, None

LEMMA InitContext == Init => ContextInv
  <1> SUFFICES ASSUME Init PROVE ContextInv
    OBVIOUS
  <1>1. pc = "idle" /\ logged = NoRecord /\ cursors = {} /\ stored = Initial /\ policy \in Policies
    BY DEF Init
  <1>2. Initial \in Snapshots
    BY ContextAssumption DEF Snapshots
  <1>3. ~Delivered
    BY <1>1, SuccessIsOne DEF Delivered
  <1> QED BY <1>1, <1>2, <1>3 DEF ContextInv, ProcessOK, RequestOK, ViewOK, PackageOK, RecordOK

LEMMA AskKeeps == ContextInv /\ Ask => ContextInv'
  <1> SUFFICES ASSUME ContextInv, Ask PROVE ContextInv'
    OBVIOUS
  <1>1. pc' = "asked" /\ logged' = NoRecord /\ cursors' = cursors /\ stored' = stored /\ policy' = policy
    BY DEF Ask
  <1>2. PICK q \in Questions, l \in Limits, c \in cursors \cup {NoCursor} :
            request' = [question |-> q, limits |-> l, cursor |-> c]
    BY DEF Ask
  <1>3. CursorOK(c)
    BY NothingRead DEF ContextInv, ProcessOK
  <1>4. RequestOK'
    <2>1. request'.question \in Questions /\ request'.limits \in Limits /\ CursorOK(request'.cursor)
      BY <1>2, <1>3
    <2> QED BY <2>1 DEF RequestOK
  <1>5. ProcessOK'
    BY <1>1 DEF ContextInv, ProcessOK
  <1>6. ViewOK' /\ PackageOK' /\ RecordOK'
    BY <1>1, SuccessIsOne DEF ViewOK, PackageOK, Delivered, RecordOK
  <1> QED BY <1>4, <1>5, <1>6 DEF ContextInv

\* What a call reads of the snapshot is closed under inputs, and whichever
\* search answers completes the view.
LEMMA ReadSnapshotKeeps == ContextInv /\ ReadSnapshot => ContextInv'
  <1> SUFFICES ASSUME ContextInv, ReadSnapshot PROVE ContextInv'
    OBVIOUS
  <1>1. /\ pc = "asked" /\ pc' = "read" /\ UNCHANGED <<request, logged, cursors, stored, policy>>
        /\ view' = [question |-> request.question, signals |-> None, facts |-> stored, policy |-> policy]
    BY DEF ReadSnapshot, KeepProcess
  <1>2. request.question \in Questions /\ stored \in Snapshots /\ policy \in Policies
    BY <1>1 DEF ContextInv, RequestOK, ProcessOK
  <1>3. ASSUME NEW s \in Signals PROVE [view' EXCEPT !.signals = s] \in Views
    <2>1. [view' EXCEPT !.signals = s]
          = [question |-> request.question, signals |-> s, facts |-> stored, policy |-> policy]
      BY <1>1
    <2> QED BY <1>2, <2>1 DEF Views, Snapshots
  <1>4. ViewOK'
    BY <1>1, <1>3 DEF ViewOK
  <1>5. ProcessOK' /\ RequestOK'
    BY <1>1 DEF ContextInv, ProcessOK, RequestOK
  <1>6. PackageOK' /\ RecordOK'
    BY <1>1 DEF ContextInv, PackageOK, Delivered, RecordOK
  <1> QED BY <1>4, <1>5, <1>6 DEF ContextInv

LEMMA RetrieveKeeps == ContextInv /\ Retrieve => ContextInv'
  <1> SUFFICES ASSUME ContextInv, Retrieve PROVE ContextInv'
    OBVIOUS
  <1>1. pc = "read" /\ pc' = "retrieved" /\ UNCHANGED <<request, logged, cursors, stored, policy>>
    BY DEF Retrieve, KeepProcess
  <1>2. view' \in Views
    BY <1>1 DEF Retrieve, ContextInv, ViewOK
  <1>3. ViewOK'
    BY <1>1, <1>2 DEF ViewOK
  <1>4. ProcessOK' /\ RequestOK'
    BY <1>1 DEF ContextInv, ProcessOK, RequestOK
  <1>5. PackageOK' /\ RecordOK'
    BY <1>1 DEF ContextInv, PackageOK, Delivered, RecordOK
  <1> QED BY <1>3, <1>4, <1>5 DEF ContextInv

\* A package is built from a cursor that resumes or from the start, so it has
\* the properties.
LEMMA BuildKeeps == ContextInv /\ Build => ContextInv'
  <1> SUFFICES ASSUME ContextInv, Build PROVE ContextInv'
    OBVIOUS
  <1> DEFINE c == request.cursor
             l == request.limits
  <1>1. /\ pc = "retrieved" /\ pc' \in {"rejected", "failed", "built"}
        /\ UNCHANGED <<request, view, logged, cursors, stored, policy>>
    BY DEF Build, KeepProcess
  <1>2. l \in Limits /\ CursorOK(c) /\ view \in Views /\ logged.outcome # "success"
    BY <1>1 DEF ContextInv, RequestOK, ViewOK, RecordOK
  <1>3. ASSUME pc' = "built" PROVE Sound(view, package')
    <2>1. Built(view, l, c, package') /\ (c = NoCursor \/ Resumes(c, view))
      BY <1>3 DEF Build, Built
    <2>2. Starts(c, view)
      BY <1>2, <2>1 DEF Starts, Resumes
    <2> HIDE DEF c, l
    <2>3. CursorOK(package'.cursor) /\ Accounts(view, package')
      BY <1>2, <2>1, <2>2, BuildAccounts
    <2>4. Supported(view, package')
      BY <1>2, <2>1, <2>3, BuildSupports
    <2>5. Complete(view, package')
      BY <1>2, <2>1, <2>3, BuildCompletes
    <2> QED BY <1>2, <2>3, <2>4, <2>5 DEF Sound
  <1>4. PackageOK'
    <2>1. pc' \in {"built", "recorded"} \/ Delivered' => pc' = "built"
      BY <1>1 DEF Delivered
    <2>2. pc' = "built" => Sound(view', package')
      BY <1>1, <1>3
    <2> QED BY <2>1, <2>2 DEF PackageOK
  <1>5. ProcessOK' /\ RequestOK' /\ ViewOK' /\ RecordOK'
    BY <1>1, <1>2 DEF ContextInv, ProcessOK, RequestOK, ViewOK, RecordOK
  <1> QED BY <1>4, <1>5 DEF ContextInv

LEMMA FailKeeps == ContextInv /\ Fail => ContextInv'
  <1> SUFFICES ASSUME ContextInv, Fail PROVE ContextInv'
    OBVIOUS
  <1>1. /\ pc \in {"asked", "read", "retrieved"} /\ pc' \in {"failed", "cancelled"}
        /\ UNCHANGED <<logged, cursors, stored, policy>>
    BY DEF Fail, KeepProcess
  <1> QED BY <1>1 DEF ContextInv, ProcessOK, RequestOK, ViewOK, PackageOK, Delivered, RecordOK

LEMMA RecordKeeps == ContextInv /\ Record => ContextInv'
  <1> SUFFICES ASSUME ContextInv, Record PROVE ContextInv'
    OBVIOUS
  <1>1. CASE pc = "built"
    <2>1. pc' = "recorded" /\ UNCHANGED <<request, view, package, cursors, stored, policy>>
      BY <1>1 DEF Record, KeepProcess
    <2>2. Sound(view, package)
      BY <1>1 DEF ContextInv, PackageOK
    <2>3. PackageOK'
      BY <2>1, <2>2 DEF PackageOK
    <2>4. ProcessOK' /\ RequestOK' /\ ViewOK' /\ RecordOK'
      BY <2>1 DEF ContextInv, ProcessOK, RequestOK, ViewOK, RecordOK
    <2> QED BY <2>3, <2>4 DEF ContextInv
  <1>2. CASE pc \in {"rejected", "failed", "cancelled"}
    <2>1. /\ pc' = "idle" /\ UNCHANGED <<cursors, stored, policy>>
          /\ logged' = [NoRecord EXCEPT !.outcome = pc]
      BY <1>2 DEF Record, EndCall, KeepProcess
    <2>2. logged'.outcome # "success"
      BY <1>2, <2>1 DEF NoRecord
    <2> QED BY <2>1, <2>2 DEF ContextInv, ProcessOK, RequestOK, ViewOK, PackageOK, Delivered, RecordOK
  <1> QED BY <1>1, <1>2 DEF Record

LEMMA SinkRefusesKeeps == ContextInv /\ SinkRefuses => ContextInv'
  <1> SUFFICES ASSUME ContextInv, SinkRefuses PROVE ContextInv'
    OBVIOUS
  <1>1. /\ pc \in {"built", "rejected", "failed", "cancelled"} /\ pc' = "idle"
        /\ UNCHANGED <<logged, cursors, stored, policy>>
    BY DEF SinkRefuses, EndCall, KeepProcess
  <1> QED BY <1>1 DEF ContextInv, ProcessOK, RequestOK, ViewOK, PackageOK, Delivered, RecordOK

LEMMA DeliverKeeps == ContextInv /\ Deliver => ContextInv'
  <1> SUFFICES ASSUME ContextInv, Deliver PROVE ContextInv'
    OBVIOUS
  <1>1. /\ pc = "recorded" /\ pc' = "idle" /\ cursors' = cursors \cup ({package.cursor} \ {NoCursor})
        /\ UNCHANGED <<request, view, package, logged, stored, policy>>
    BY DEF Deliver
  <1>2. Sound(view, package)
    BY <1>1 DEF ContextInv, PackageOK
  <1>3. ProcessOK'
    BY <1>1, <1>2 DEF ContextInv, ProcessOK, Sound
  <1>4. PackageOK'
    BY <1>1, <1>2 DEF PackageOK
  <1>5. RequestOK' /\ ViewOK' /\ RecordOK'
    BY <1>1 DEF RequestOK, ViewOK, RecordOK
  <1> QED BY <1>3, <1>4, <1>5 DEF ContextInv

LEMMA DeriveKeeps == ContextInv /\ Derive => ContextInv'
  <1> SUFFICES ASSUME ContextInv, Derive PROVE ContextInv'
    OBVIOUS
  <1>1. UNCHANGED <<policy, pc, request, view, package, logged, cursors>>
    BY DEF Derive
  <1>2. PICK f \in Facts \ stored : Inputs[f] \subseteq stored /\ stored' = stored \cup {f}
    BY DEF Derive
  <1>3. stored' \in Snapshots
    BY <1>2 DEF ContextInv, ProcessOK, Snapshots
  <1>4. ProcessOK'
    BY <1>1, <1>3 DEF ContextInv, ProcessOK
  <1>5. RequestOK' /\ ViewOK' /\ RecordOK'
    BY <1>1 DEF ContextInv, RequestOK, ViewOK, RecordOK
  <1>6. PackageOK'
    BY <1>1 DEF ContextInv, PackageOK, Delivered
  <1> QED BY <1>4, <1>5, <1>6 DEF ContextInv

LEMMA RestartKeeps == ContextInv /\ Restart => ContextInv'
  <1> SUFFICES ASSUME ContextInv, Restart PROVE ContextInv'
    OBVIOUS
  <1>1. pc' = "idle" /\ logged' = NoRecord /\ policy' \in Policies /\ UNCHANGED <<stored, cursors>>
    BY DEF Restart, EndCall
  <1> QED BY <1>1, SuccessIsOne
          DEF ContextInv, ProcessOK, RequestOK, ViewOK, PackageOK, Delivered, RecordOK

LEMMA StutterKeeps == ContextInv /\ UNCHANGED vars => ContextInv'
  <1> SUFFICES ASSUME ContextInv, UNCHANGED vars PROVE ContextInv'
    OBVIOUS
  <1>1. UNCHANGED <<policy, stored, pc, request, view, package, logged, cursors>>
    BY DEF vars
  <1> QED BY <1>1 DEF ContextInv, ProcessOK, RequestOK, ViewOK, PackageOK, Delivered, RecordOK

\* The invariant the properties follow from: what a cursor has read is the
\* sequence it was issued for up to its offset, what a call has read is a
\* snapshot with the inputs of its facts, and a package built from it has the
\* properties until it is delivered.
THEOREM ContextInvariant == Spec => []ContextInv
  <1>1. Init => ContextInv
    BY InitContext
  <1>2. ContextInv /\ [Next]_vars => ContextInv'
    <2> SUFFICES ASSUME ContextInv, [Next]_vars PROVE ContextInv'
      OBVIOUS
    <2>1. CASE Ask
      BY <2>1, AskKeeps
    <2>2. CASE ReadSnapshot
      BY <2>2, ReadSnapshotKeeps
    <2>3. CASE Retrieve
      BY <2>3, RetrieveKeeps
    <2>4. CASE Build
      BY <2>4, BuildKeeps
    <2>5. CASE Fail
      BY <2>5, FailKeeps
    <2>6. CASE Record
      BY <2>6, RecordKeeps
    <2>7. CASE SinkRefuses
      BY <2>7, SinkRefusesKeeps
    <2>8. CASE Deliver
      BY <2>8, DeliverKeeps
    <2>9. CASE Derive
      BY <2>9, DeriveKeeps
    <2>10. CASE Restart
      BY <2>10, RestartKeeps
    <2>11. CASE Done
      BY <2>11, StutterKeeps DEF Done
    <2>12. CASE UNCHANGED vars
      BY <2>12, StutterKeeps
    <2> QED BY <2>1, <2>2, <2>3, <2>4, <2>5, <2>6, <2>7, <2>8, <2>9, <2>10, <2>11, <2>12 DEF Next
  <1> QED BY <1>1, <1>2, PTL DEF Spec

LEMMA DeliveredIsSound == ContextInv /\ Delivered => Sound(view, package)
  BY DEF ContextInv, PackageOK

\* Pages of a walk (contextcursor and contextpage.go) never overlap and, when
\* no cursor is left, are together all that the policy in force authorises,
\* whatever was derived, restarted or limited differently between the calls.
THEOREM ContextAccounts == Spec => []WalksAccountForAll
  <1>1. ContextInv => WalksAccountForAll
    BY DeliveredIsSound DEF Sound, Accounts, WalksAccountForAll
  <1> QED BY <1>1, ContextInvariant, PTL

\* Whatever is delivered rests, through every derivation, on evidence that the
\* retrieval found and the policy retains, and a relation comes with its fact,
\* its ends and its evidence, for every closure of derivations there may be.
THEOREM ContextSupported == Spec => []DeliveredIsSupported
  <1>1. ContextInv => DeliveredIsSupported
    BY DeliveredIsSound DEF Sound, Supported, Retained, Grounded, DeliveredIsSupported
  <1> QED BY <1>1, ContextInvariant, PTL

\* A package that admits no degradation brings all the evidence its retrieval
\* handed over, every fact that rests on some of it, what these are about and
\* every relation, whichever limits and pages it took; and all that the
\* searches matched, when it is less than a retrieval keeps.
THEOREM ContextComplete == Spec => []UndegradedIsComplete
  <1>1. ContextInv => UndegradedIsComplete
    BY DeliveredIsSound DEF Sound, Complete, Known, UndegradedIsComplete
  <1> QED BY <1>1, ContextInvariant, PTL

================================================================================
