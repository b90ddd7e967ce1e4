---------------------------- MODULE RetrievalFusion ----------------------------
(* What HybridRetriever hands to retrieval.Fuse and what Fuse makes of it: a   *)
(* unit earns a share of each signal that found it, weight / (k + rank), and   *)
(* shares of the relations that lead to it from units found already. Scores    *)
(* are exact here: Scale is a common denominator of the shares, and TextScore  *)
(* counts the search's score in parts of one.                                  *)
EXTENDS Integers, Sequences, FiniteSets, SequencesExt

CONSTANTS Evidence,            \* evidence units; their order is that of their ids
          TextScore,           \* the text search's score of a unit, in Parts of one
          Parts,
          ExactTerms,          \* units one of whose exact terms is in the question
          Participants,        \* the entities a unit's facts are about
          Relations,           \* the stored relations in the store's order: two
                               \* entities and the units that support them
          RRFK, Weight, Scale,
          MaxCandidates, RelationBudget, RelationFanOut

Signals == {"exact", "text", "vector", "relation"}

(* A store holds finitely many units. Shares are exact: every rank a search    *)
(* can give divides Scale.                                                     *)
ASSUME FusionAssumption ==
    /\ Evidence \subseteq Nat /\ IsFiniteSet(Evidence)
    /\ TextScore \in [Evidence -> Nat] /\ Parts \in Nat \ {0}
    /\ ExactTerms \subseteq Evidence
    /\ Participants \in [Evidence -> SUBSET Nat]
    /\ \A e \in Evidence : IsFiniteSet(Participants[e])
    /\ Relations \in Seq([from : Nat, to : Nat, supports : SUBSET Evidence])
    /\ Weight \in [Signals -> Nat \ {0}] /\ RRFK \in Nat \ {0} /\ Scale \in Nat \ {0}
    /\ \A rank \in 1..Cardinality(Evidence) : Scale % (RRFK + rank) = 0
    /\ {MaxCandidates, RelationBudget, RelationFanOut} \subseteq Nat

(* The members of a set, sorted: the i-th is the one that i - 1 come before.   *)
Sorted(S, order) ==
    [i \in 1..Cardinality(S) |->
        CHOOSE x \in S : Cardinality({y \in S : <<y, x>> \in order}) = i - 1]

InOrder(S, Before(_, _)) == Sorted(S, {p \in S \X S : Before(p[1], p[2])})

Position(seq, x) == CHOOSE i \in DOMAIN seq : seq[i] = x

Share(signal, rank) == Weight[signal] * (Scale \div (RRFK + rank))

-------------------------------------------------------------------------------
(* The hits, each signal a sequence of units.                                  *)

(* The search answers exact matches first, then by score.                      *)
TextHits(matched) ==
    InOrder(matched, LAMBDA d, e :
        IF (d \in ExactTerms) # (e \in ExactTerms) THEN d \in ExactTerms
        ELSE TextScore[d] > TextScore[e] \/ (TextScore[d] = TextScore[e] /\ d < e))

(* The rank an exact match is given: its place among the hits, or, if it has a *)
(* score, the score without its fraction.                                      *)
ExactRank(hits, e) ==
    IF TextScore[e] > 0 THEN TextScore[e] \div Parts ELSE Position(hits, e)

(* Fuse takes no exact hit whose rank is below one.                            *)
Refused(hits) == \E e \in ToSet(hits) \cap ExactTerms : ExactRank(hits, e) < 1

ExactOrder(hits) ==
    InOrder(ToSet(hits) \cap ExactTerms, LAMBDA d, e :
        \/ ExactRank(hits, d) < ExactRank(hits, e)
        \/ ExactRank(hits, d) = ExactRank(hits, e) /\ d < e)

\* Mutant of TextOrder: the sort of the exact ranks is used for scores too.
TextOrderAscending(hits) ==
    InOrder(ToSet(hits), LAMBDA d, e :
        TextScore[d] < TextScore[e] \/ (TextScore[d] = TextScore[e] /\ d < e))

TextOrder(hits) ==
    InOrder(ToSet(hits), LAMBDA d, e :
        \/ TextScore[d] > TextScore[e]
        \/ /\ TextScore[d] = TextScore[e]
           /\ IF (d \in ExactTerms) # (e \in ExactTerms) THEN d \in ExactTerms ELSE d < e)

-------------------------------------------------------------------------------
(* Fusion.                                                                     *)

(* What the three searches earn a unit.                                        *)
SearchScore(hits, vector) ==
    LET Earned(signal, ordered) ==
            [e \in Evidence |-> IF e \in ToSet(ordered) THEN Share(signal, Position(ordered, e)) ELSE 0]
        exact == Earned("exact", ExactOrder(hits))
        text  == Earned("text", TextOrder(hits))
        near  == Earned("vector", vector)
    IN  [e \in Evidence |-> exact[e] + text[e] + near[e]]

(* Best first, ties by identity.                                               *)
Ranked(found, score) ==
    InOrder(found, LAMBDA d, e : score[d] > score[e] \/ (score[d] = score[e] /\ d < e))

(* A seed is a unit that was found and an entity its facts are about.          *)
Seeds(found, score) ==
    InOrder(UNION {{e} \X Participants[e] : e \in found}, LAMBDA d, e :
        \/ score[d[1]] > score[e[1]]
        \/ score[d[1]] = score[e[1]] /\ (d[1] < e[1] \/ (d[1] = e[1] /\ d[2] < e[2])))

Touching(entity) == InOrder({i \in DOMAIN Relations : entity \in {Relations[i].from, Relations[i].to}}, <)

Target(entity, i) == IF Relations[i].from = entity THEN Relations[i].to ELSE Relations[i].from

(* The units that support a relation between an anchor and the entity.         *)
ReferencesOf(entity, anchors) ==
    InOrder(UNION {Relations[i].supports : i \in {j \in DOMAIN Relations :
                    \E a \in anchors : a \in {Relations[j].from, Relations[j].to} /\ Target(a, j) = entity}}, <)

(* One reference: it uses up work and a rank even when the same seed has led   *)
(* along the same relation to the same unit before.                            *)
Refer(acc, seed, i, e) ==
    LET path == <<seed[1], i, e>>
    IN  IF acc.work = 0 THEN acc
        ELSE [work |-> acc.work - 1, rank |-> acc.rank + 1,
              found |-> acc.found \cup {e}, paths |-> acc.paths \cup {path},
              score |-> IF path \in acc.paths THEN acc.score
                        ELSE [acc.score EXCEPT ![e] = @ + Share("relation", acc.rank + 1)]]

(* One seed: the relations of its entity, so many as fan-out and work allow,   *)
(* are paid for first, then each reference of each.                            *)
Expand(acc, seed, anchors) ==
    LET touching == Touching(seed[2])
        limit    == CHOOSE n \in {RelationFanOut, acc.work, Len(touching)} :
                       \A m \in {RelationFanOut, acc.work, Len(touching)} : n <= m
        Follow(a, i) == FoldLeft(LAMBDA b, e : Refer(b, seed, i, e), a,
                                 ReferencesOf(Target(seed[2], i), anchors))
    IN  FoldLeft(Follow, [acc EXCEPT !.work = @ - limit], SubSeq(touching, 1, limit))

Fuse(hits, vector) ==
    LET found   == ToSet(hits) \cup ToSet(vector)
        score   == SearchScore(hits, vector)
        anchors == UNION {Participants[e] : e \in found}
        fused   == FoldLeft(LAMBDA acc, seed : Expand(acc, seed, anchors),
                            [work |-> RelationBudget, rank |-> 0, found |-> found,
                             paths |-> {}, score |-> score],
                            Seeds(found, score))
        ranked  == Ranked(fused.found, fused.score)
    IN  SubSeq(ranked, 1, IF Len(ranked) < MaxCandidates THEN Len(ranked) ELSE MaxCandidates)

(* The units the relations may add to those found.                             *)
Related(found) ==
    UNION {Relations[i].supports : i \in {j \in DOMAIN Relations :
        \E e \in found : Participants[e] \cap {Relations[j].from, Relations[j].to} # {}}}

(* Every search that found e found d too and prefers it: among exact matches   *)
(* by its place in the answer, in the text by its score, by vector by place.   *)
Outranks(d, e, hits, vector) ==
    LET exact == ToSet(hits) \cap ExactTerms
    IN  /\ e \in exact => d \in exact /\ Position(hits, d) < Position(hits, e)
        /\ e \in ToSet(hits) => d \in ToSet(hits) /\ TextScore[d] > TextScore[e]
        /\ e \in ToSet(vector) => d \in ToSet(vector) /\ Position(vector, d) < Position(vector, e)

(* Of two exact matches, the fusion's exact signal puts e before d.            *)
TurnedRound(d, e, hits) ==
    /\ {d, e} \subseteq ToSet(hits) \cap ExactTerms
    /\ Position(ExactOrder(hits), e) < Position(ExactOrder(hits), d)
===============================================================================
