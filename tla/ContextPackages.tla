---------------------------- MODULE ContextPackages ----------------------------
(* The context a question gets, as internal/query builds it and                *)
(* internal/mcpadapter delivers it: one snapshot's facts are read, evidence is *)
(* retrieved, both become candidates, the local policy drops some, a page of   *)
(* the rest is cut, a selection that fits the limits is made and closed under  *)
(* relations, and the package is recorded before it is delivered. Facts are    *)
(* derived meanwhile, and the process restarts under another policy.           *)
EXTENDS Integers, Sequences, FiniteSets, FiniteSetsExt, SequencesExt

CONSTANTS Evidence, Facts, Entities,   \* identities of items: numbers, in the order of their IDs
          Rests,       \* the evidence a fact rests on
          Subject,     \* what it is about
          Object,      \* what it relates that to; its subject again when to nothing else
          Inputs,      \* the facts it was derived from
          Initial,     \* facts the snapshot has at first
          Questions,   \* scope and intent of a request
          Signals,     \* searches that answer a retrieval
          Score,       \* Score[q][s][e]: relevance of e among what they find, 0 when not found
          Reasons,     \* what a retrieval says is degraded
          MaxCandidates,   \* most pieces of evidence a retrieval keeps
          Unit,        \* a relevance of one
          Aspects, ArtifactOf,
          Policies,
          Retains,     \* Retains[p][e]: e may be kept and shown, whole or redacted
          Structured,  \* Structured[p]: facts and entities may be
          Resources,   \* tokens, characters and bytes
          Cost, RelationCost,
          Limits,      \* limits of a request: items, and a budget of each resource
          MaxCalls, MaxRestarts

Items == Evidence \cup Facts \cup Entities
None == "none"

(* A derived fact carries the evidence of its inputs: derivation merges it.    *)
ASSUME ContextAssumption ==
    /\ Items \subseteq Nat /\ IsFiniteSet(Items) /\ Facts \cap (Evidence \cup Entities) = {} /\ Evidence \cap Entities = {}
    /\ Rests \in [Facts -> (SUBSET Evidence) \ {{}}]
    /\ Subject \in [Facts -> Entities] /\ Object \in [Facts -> Entities]
    /\ Inputs \in [Facts -> SUBSET Facts] /\ Initial \subseteq Facts
    /\ \A f \in Facts : \A g \in Inputs[f] : Rests[g] \subseteq Rests[f]
    /\ \A f \in Initial : Inputs[f] \subseteq Initial
    /\ \A q \in Questions, s \in Signals : Score[q][s] \in [Evidence -> Nat]
    /\ MaxCandidates \in Nat \ {0}
    /\ Retains \in [Policies -> [Evidence -> BOOLEAN]] /\ Structured \in [Policies -> BOOLEAN]
    /\ "tokens" \in Resources
    /\ Cost \in [Items -> [Resources -> Nat \ {0}]] /\ RelationCost \in [Resources -> Nat]
    /\ \A l \in Limits : l.items \in Nat \ {0} /\ l.budget \in [Resources -> Nat \ {0}]

VARIABLES policy, key,   \* of the process: its configured policy, its cursor key
          stored,        \* facts of the snapshot
          pc,            \* where the call under way is
          request,       \* its question, limits and cursor
          view,          \* what it read: question, signals, facts, policy
          package,       \* what it built
          logged,        \* what the audit sink recorded last
          cursors,       \* cursors the client was given
          calls, restarts

vars == <<policy, key, stored, pc, request, view, package, logged, cursors, calls, restarts>>

NoCursor == [key |-> 0, question |-> None, policy |-> None, candidates |-> {}, sequence |-> <<>>,
             offset |-> 0, read |-> {}]
NoRequest == [question |-> None, limits |-> None, cursor |-> NoCursor]
NoView == [question |-> None, signals |-> None, facts |-> {}, policy |-> None]
NoPackage == [before |-> {}, page |-> {}, items |-> {}, relations |-> {}, degradations |-> {},
              cursor |-> NoCursor]
NoRecord == [outcome |-> None, items |-> {}, relations |-> {}, truncated |-> FALSE]

Init ==
    /\ policy \in Policies /\ key = 0
    /\ stored = Initial
    /\ pc = "idle" /\ request = NoRequest /\ view = NoView /\ package = NoPackage
    /\ logged = NoRecord
    /\ cursors = {}
    /\ calls = 0 /\ restarts = 0

-------------------------------------------------------------------------------
(* What a call reads; the facts of a snapshot include their inputs.            *)
Views == [question : Questions, signals : Signals, policy : Policies,
          facts : {S \in SUBSET Facts : Initial \subseteq S /\ \A f \in S : Inputs[f] \subseteq S}]

(* The function itself, but TLC evaluates it once.                             *)
Tabulated(f) == CHOOSE g \in {f} : g = f

(* Candidates. Evidence ranks by its score; a fact, a relation or an entity    *)
(* ranks with the best of its evidence.                                        *)

ScoreIn(v, e) == Score[v.question][v.signals][e]
Matched(v) == {e \in Evidence : ScoreIn(v, e) > 0}
Better(v, e, g) == ScoreIn(v, e) > ScoreIn(v, g) \/ (ScoreIn(v, e) = ScoreIn(v, g) /\ e < g)

(* The fusion keeps the best of what the searches matched, and nothing says    *)
(* that it left any out.                                                       *)
Found == Tabulated([v \in Views |->
    {e \in Matched(v) : Cardinality({g \in Matched(v) : Better(v, g, e)}) < MaxCandidates}])

Best(v, S) == CHOOSE e \in S : \A g \in S \ {e} : Better(v, e, g)

Ends(f) == {Subject[f], Object[f]}
Related(f) == Subject[f] # Object[f]

(* A fact some of whose evidence was not found is left out, and the package    *)
(* will say that support is incomplete.                                        *)
Projected(v) == {f \in v.facts : Rests[f] \subseteq Found[v]}
SupportIncomplete(v) ==
    \/ \E f \in v.facts \ Projected(v) : Rests[f] \cap Found[v] # {}
    \/ \E f \in Projected(v) : ~(Inputs[f] \subseteq Projected(v))

(* An entity is shown as the fact says that has the best evidence for it.      *)
Naming(v, n) ==
    LET naming == {f \in Projected(v) : n \in Ends(f)}
        Ahead(f, g) == \/ Better(v, Best(v, Rests[f]), Best(v, Rests[g]))
                       \/ (Best(v, Rests[f]) = Best(v, Rests[g]) /\ f < g)
    IN  CHOOSE f \in naming : \A g \in naming \ {f} : Ahead(f, g)

Origin(v, i) == IF i \in Entities THEN Naming(v, i) ELSE i
Provenance(v, i) == IF i \in Evidence THEN {i} ELSE Rests[Origin(v, i)]
Lineage(v, i) == IF i \in Evidence THEN {} ELSE Inputs[Origin(v, i)]

Candidates(v) == Found[v] \cup Projected(v) \cup UNION {Ends(f) : f \in Projected(v)}

Kind(i) == CASE i \in Entities -> 1 [] i \in Evidence -> 2 [] i \in Facts -> 3
Leading(v, i) == Best(v, Provenance(v, i))
Precedes(v, i, j) ==
    \/ Better(v, Leading(v, i), Leading(v, j))
    \/ Leading(v, i) = Leading(v, j) /\ (Kind(i) < Kind(j) \/ (Kind(i) = Kind(j) /\ i < j))

-------------------------------------------------------------------------------
(* The local policy.                                                           *)

Allowed(v) == {i \in Candidates(v) : IF i \in Evidence THEN Retains[v.policy][i] ELSE Structured[v.policy]}

\* Mutant of Standing: an item stands as long as the facts it was derived from do.
StandingOnLineage(v, S) == {i \in S : Lineage(v, i) \subseteq S}

Standing(v, S) == {i \in S : Provenance(v, i) \subseteq S /\ Lineage(v, i) \subseteq S}

(* What rests on something dropped is dropped, until nothing more is: the most *)
(* that stands by itself is left.                                              *)
Authorised == Tabulated([v \in Views |-> UNION {S \in SUBSET Allowed(v) : Standing(v, S) = S}])

Required(f) == Ends(f) \cup {f} \cup Rests[f]
Relations == Tabulated([v \in Views |->
    {f \in Projected(v) : Related(f) /\ Required(f) \cup Inputs[f] \subseteq Authorised[v]}])

PolicyFiltered(v) ==
    Authorised[v] # Candidates(v) \/ Relations[v] # {f \in Projected(v) : Related(f)}

-------------------------------------------------------------------------------
(* Pages. A cursor is signed with the key of its process and binds the         *)
(* question, the policy with all the candidates it was put to, and the         *)
(* sequence of the authorised ones, not the limits.                            *)

Ordered(v, S) ==
    [n \in 1 .. Cardinality(S) |-> CHOOSE i \in S : Cardinality({j \in S \ {i} : Precedes(v, j, i)}) = n - 1]

Sequence == Tabulated([v \in Views |-> Ordered(v, Authorised[v])])

\* Mutant of Resumes: the sequence is not part of the binding.
ResumesAnyway(c, v) ==
    /\ c.key = key
    /\ c.question = v.question /\ c.policy = v.policy /\ c.candidates = Candidates(v)

Resumes(c, v) ==
    /\ c.key = key
    /\ c.question = v.question /\ c.policy = v.policy /\ c.candidates = Candidates(v)
    /\ c.sequence = Sequence[v]

PageEnd(c, v, l) == Min({c.offset + l.items, Len(Sequence[v])})
Page(c, v, l) == ToSet(SubSeq(Sequence[v], c.offset + 1, PageEnd(c, v, l)))

(* What a walk has read is history: the client keeps it, the cursor does not.  *)
Issue(c, v, l) ==
    IF PageEnd(c, v, l) = Len(Sequence[v]) THEN NoCursor
    ELSE [key |-> key, question |-> v.question, policy |-> v.policy,
          candidates |-> Candidates(v), sequence |-> Sequence[v],
          offset |-> PageEnd(c, v, l), read |-> c.read \cup Page(c, v, l)]

-------------------------------------------------------------------------------
(* The selection: one item after the other, the one that adds most for its     *)
(* tokens, of those that still fit.                                            *)

Spent(S) == [r \in Resources |-> FoldSet(LAMBDA i, n : n + Cost[i][r], 0, S)]
Fits(S, more, l) == \A r \in Resources : Spent(S)[r] + more[r] <= l.budget[r]

Artifact(v, i) == ArtifactOf[Min(Provenance(v, i))]
Gain(v, i, S) ==
    ScoreIn(v, Leading(v, i))
    + Unit * Cardinality(Aspects[i] \ UNION {Aspects[j] : j \in S})
    + (IF \E j \in S : Kind(j) = Kind(i) THEN 0 ELSE Unit)
    + (IF \E j \in S : Artifact(v, j) = Artifact(v, i) THEN 0 ELSE Unit)

(* The first of those that are open; none when none is.                        *)
Choice(v, S, open) ==
    LET gain == Tabulated([i \in open |-> Gain(v, i, S)])
        ratio(i, j) == gain[i] * Cost[j]["tokens"]
        Ahead(i, j) ==
            \/ ratio(i, j) > ratio(j, i)
            \/ ratio(i, j) = ratio(j, i) /\ gain[i] > gain[j]
            \/ /\ ratio(i, j) = ratio(j, i) /\ gain[i] = gain[j]
               /\ \/ Better(v, Leading(v, i), Leading(v, j))
                  \/ Leading(v, i) = Leading(v, j) /\ i < j
    IN  {i \in open : \A j \in open \ {i} : Ahead(i, j)}

Pick(v, page, l, S) == S \cup Choice(v, S, {i \in page \ S : Fits(S, Cost[i], l)})

Select(v, page, l) ==
    LET Selected[n \in 0 .. l.items] == IF n = 0 THEN {} ELSE Pick(v, page, l, Selected[n - 1])
    IN  Selected[l.items]

(* A relation needs its fact, its ends and its evidence on the page; what the  *)
(* selection left out of these is added, if it fits with the relation. What    *)
(* relations accepted before cost is not counted.                              *)
Representable(v, page) == {f \in Relations[v] : Required(f) \subseteq page}

Accept(l, acc, f) ==
    LET items == acc.items \cup Required(f)
    IN  IF Cardinality(items) <= l.items /\ Fits(items, RelationCost, l)
        THEN [acc EXCEPT !.items = items, !.relations = @ \cup {f}]
        ELSE [acc EXCEPT !.exhausted = TRUE]

Close(v, page, l) ==
    LET selected == Select(v, page, l)
        order == Ordered(v, Representable(v, page))
        Closed[n \in 0 .. Len(order)] ==
            IF n = 0 THEN [items |-> selected, relations |-> {}, exhausted |-> selected # page]
            ELSE Accept(l, Closed[n - 1], order[n])
    IN  Closed[Len(order)]

(* The total, relations included, must be within the budget.                   *)
WithinBudget(closed, l) ==
    \A r \in Resources : Spent(closed.items)[r] + Cardinality(closed.relations) * RelationCost[r] <= l.budget[r]

\* Mutant of Degradations: relations that cross the end of the page are forgotten.
DegradationsOfPage(v, page, closed, cursor) ==
    Reasons[v.signals]
    \cup (IF SupportIncomplete(v) THEN {"support_incomplete"} ELSE {})
    \cup (IF closed.exhausted \/ cursor # NoCursor THEN {"budget_exhausted"} ELSE {})
    \cup (IF PolicyFiltered(v) THEN {"policy_filtered"} ELSE {})

Degradations(v, page, closed, cursor) ==
    Reasons[v.signals]
    \cup (IF SupportIncomplete(v) \/ Representable(v, page) # Relations[v] THEN {"support_incomplete"} ELSE {})
    \cup (IF closed.exhausted \/ cursor # NoCursor THEN {"budget_exhausted"} ELSE {})
    \cup (IF PolicyFiltered(v) THEN {"policy_filtered"} ELSE {})

-------------------------------------------------------------------------------
(* A call.                                                                     *)

KeepProcess == UNCHANGED <<policy, key, stored, cursors, calls, restarts>>

(* The call ends with nothing to show.                                         *)
EndCall == pc' = "idle" /\ request' = NoRequest /\ view' = NoView /\ package' = NoPackage

(* The client asks, from the start or with a cursor it has, of whatever        *)
(* question.                                                                   *)
Ask ==
    /\ pc = "idle" /\ calls < MaxCalls
    /\ \E q \in Questions, l \in Limits, c \in cursors \cup {NoCursor} :
          request' = [question |-> q, limits |-> l, cursor |-> c]
    /\ pc' = "asked" /\ calls' = calls + 1
    /\ package' = NoPackage /\ view' = NoView /\ logged' = NoRecord
    /\ UNCHANGED <<policy, key, stored, cursors, restarts>>

ReadSnapshot ==
    /\ pc = "asked"
    /\ view' = [question |-> request.question, signals |-> None, facts |-> stored, policy |-> policy]
    /\ pc' = "read"
    /\ UNCHANGED <<request, package, logged>> /\ KeepProcess

(* Which searches answer is up to them.                                        *)
Retrieve ==
    /\ pc = "read"
    /\ \E s \in Signals : view' = [view EXCEPT !.signals = s]
    /\ pc' = "retrieved"
    /\ UNCHANGED <<request, package, logged>> /\ KeepProcess

Build ==
    LET c == request.cursor
        l == request.limits
        page == Page(c, view, l)
    IN  /\ pc = "retrieved"
        /\ IF c # NoCursor /\ ~Resumes(c, view)
           THEN pc' = "rejected" /\ package' = NoPackage
           ELSE \E closed \in {Close(view, page, l)}, cursor \in {Issue(c, view, l)} :
                   IF ~WithinBudget(closed, l)
                   THEN pc' = "failed" /\ package' = NoPackage
                   ELSE /\ package' = [before |-> c.read, page |-> page, items |-> closed.items,
                                       relations |-> closed.relations,
                                       degradations |-> Degradations(view, page, closed, cursor),
                                       cursor |-> cursor]
                        /\ pc' = "built"
        /\ UNCHANGED <<request, view, logged>> /\ KeepProcess

(* A read or a search fails, or the caller's context ends.                     *)
Fail ==
    /\ pc \in {"asked", "read", "retrieved"}
    /\ pc' \in {"failed", "cancelled"}
    /\ UNCHANGED <<request, view, package, logged>> /\ KeepProcess

(* The record is written first, also when the caller is gone; a sink that      *)
(* refuses it keeps the package back.                                          *)
Record ==
    \/ /\ pc = "built"
       /\ logged' = [outcome |-> "success", items |-> package.items,
                     relations |-> package.relations, truncated |-> package.cursor # NoCursor]
       /\ pc' = "recorded"
       /\ UNCHANGED <<request, view, package>> /\ KeepProcess
    \/ /\ pc \in {"rejected", "failed", "cancelled"}
       /\ logged' = [NoRecord EXCEPT !.outcome = pc]
       /\ EndCall /\ KeepProcess

SinkRefuses ==
    /\ pc \in {"built", "rejected", "failed", "cancelled"}
    /\ EndCall
    /\ UNCHANGED logged /\ KeepProcess

Deliver ==
    /\ pc = "recorded"
    /\ cursors' = cursors \cup ({package.cursor} \ {NoCursor})
    /\ pc' = "idle"
    /\ UNCHANGED <<policy, key, stored, request, view, package, logged, calls, restarts>>

(* Around the calls: a rebuild of derivations adds a fact whose inputs are     *)
(* stored, and the process starts again with another policy and a fresh key.   *)
Derive ==
    /\ \E f \in Facts \ stored : Inputs[f] \subseteq stored /\ stored' = stored \cup {f}
    /\ UNCHANGED <<policy, key, pc, request, view, package, logged, cursors, calls, restarts>>

Restart ==
    /\ restarts < MaxRestarts
    /\ policy' \in Policies
    /\ key' = key + 1 /\ restarts' = restarts + 1
    /\ EndCall /\ logged' = NoRecord
    /\ UNCHANGED <<stored, cursors, calls>>

Done == pc = "idle" /\ calls = MaxCalls /\ UNCHANGED vars

Next ==
    \/ Ask \/ ReadSnapshot \/ Retrieve \/ Build \/ Fail
    \/ Record \/ SinkRefuses \/ Deliver
    \/ Derive \/ Restart \/ Done

Spec == Init /\ [][Next]_vars

-------------------------------------------------------------------------------
(* Properties.                                                                 *)

Delivered == pc = "idle" /\ logged.outcome = "success"

(* The pages of a walk never overlap, and when no cursor is left they are all  *)
(* that the policy in force authorises, whatever was derived and whichever     *)
(* limits, process and signals there were in between.                          *)
WalksAccountForAll ==
    Delivered =>
        /\ package.items \subseteq package.page /\ package.page \cap package.before = {}
        /\ package.before \cup package.page \subseteq Authorised[view]
        /\ package.cursor = NoCursor => package.before \cup package.page = Authorised[view]

(* What a fact is derived from, itself included.                               *)
Basis(f) ==
    {g \in Facts : \A S \in SUBSET Facts : f \in S /\ (\A h \in S : Inputs[h] \subseteq S) => g \in S}

(* Whatever is delivered rests, through every derivation, on evidence that     *)
(* this retrieval found and this policy retains, and a relation comes with its *)
(* ends, its fact and its evidence.                                            *)
DeliveredIsSupported ==
    LET retained == {e \in Found[view] : Retains[view.policy][e]}
        Grounded(f) == Structured[view.policy] /\ \A g \in Basis(f) : g \in view.facts /\ Rests[g] \subseteq retained
    IN  Delivered =>
            /\ package.items \cap Evidence \subseteq retained
            /\ \A f \in package.items \cap Facts : Grounded(f)
            /\ \A n \in package.items \cap Entities : \E f \in view.facts : n \in Ends(f) /\ Grounded(f)
            /\ \A f \in package.relations : Required(f) \subseteq package.items

(* A package that admits no degradation brings all that its retrieval handed    *)
(* over: every piece of evidence, every fact that rests on one of these, what   *)
(* it is about, and every relation. It does not say that the retrieval left     *)
(* nothing out, for its limits are silent; but when it shows less evidence than *)
(* a retrieval keeps, that is all the searches matched.                         *)
UndegradedIsComplete ==
    LET known == {f \in view.facts : Rests[f] \cap Found[view] # {}}
        shown == package.before \cup package.items
    IN  Delivered /\ package.degradations = {} =>
            /\ shown = Found[view] \cup known \cup UNION {Ends(f) : f \in known}
            /\ package.relations = {f \in known : Related(f)}
            /\ Cardinality(shown \cap Evidence) < MaxCandidates => Matched(view) \subseteq shown
================================================================================
