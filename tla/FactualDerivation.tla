--------------------------- MODULE FactualDerivation ---------------------------
(* The derivation of facts from the observed facts of one snapshot, by the     *)
(* executor of internal/derivation, and the rebuild that stores the outcome:   *)
(* read, derive, then one insert-only transaction, while others add observed   *)
(* facts to the snapshot. Fact identities are hashes: an arbitrary order.      *)
EXTENDS Integers, Sequences, FiniteSets

CONSTANTS Components,   \* participants of dependencies
          Symbols,      \* what definitions define
          Artifacts,    \* where they are defined
          Versions,     \* versions the rules may be registered under
          Initial,      \* sets of facts the snapshot may hold at first
          Late,         \* observed facts that may be added later
          Limits,       \* limits a caller may set; 0 is none
          Orders,       \* orders the fact identities may come in
          Rank          \* Rank[o][f]: where the identity of f stands in the order o

Observed == "observed"

(* A fact's identity: its predicate, its participants and what produced it.    *)
Dependencies(rules) ==
    [predicate : {"dependency"}, subject : Components, object : Components, rule : rules]
Definitions == [predicate : {"definition"}, subject : Symbols, object : Artifacts, rule : {Observed}]
Memberships == [predicate : {"membership"}, subject : Symbols, object : Artifacts, rule : Versions]
Facts == Dependencies(Versions \cup {Observed}) \cup Definitions \cup Memberships

ASSUME DerivationAssumption ==
    /\ Observed \notin Versions
    /\ Limits \subseteq [iterations : Nat, facts : Nat, fanout : Nat]
    /\ \A facts \in Initial : IsFiniteSet(facts)
    /\ Rank \in [Orders -> [Facts -> Nat]]
    /\ (UNION Initial) \cup Late \subseteq Dependencies({Observed}) \cup Definitions

Unlimited == [iterations |-> 0, facts |-> 0, fanout |-> 0]
Codes == {"iterations", "facts", "fanout"}
Rules == <<"dependency", "membership">>      \* the registry's order

VARIABLES order,       \* the order of the identities
          stored,      \* facts of the snapshot
          inputs,      \* inputs of the stored derived facts
          pc,          \* where the derivation under way is
          version, limits,
          known,       \* the executor's facts
          support,     \* inputs of those it derived
          pending,     \* its queue
          iterations, next, accepted, codes,
          settled,     \* [version -> {observed facts of its last committed rebuild}] (history)
          refused      \* what the last refused rebuild had derived from, and under which version

run == <<pc, version, limits, known, support, pending, iterations, next, accepted, codes>>
derivationVars == <<order, stored, inputs, run, settled, refused>>

NotRefused == [version |-> Observed, observed |-> {}, settled |-> {}]
ObservedIn(facts) == {f \in facts : f.rule = Observed}

DerivationInit ==
    /\ order \in Orders
    /\ stored \in Initial
    /\ inputs = [f \in {} |-> {}]
    /\ pc = "idle" /\ version = Observed /\ limits = Unlimited
    /\ known = {} /\ support = [f \in {} |-> {}] /\ pending = {}
    /\ iterations = 0 /\ next = 1 /\ accepted = FALSE /\ codes = {}
    /\ settled = [v \in Versions |-> {}]
    /\ refused = NotRefused

-------------------------------------------------------------------------------
(* The rules. A candidate is a fact with its lineage.                          *)

\* Mutant of Precedes: facts come in the order a map yields them, another each time.
PrecedesAnyhow(f, g) ==
    IF stored = ObservedIn(stored) THEN Rank[order][f] < Rank[order][g] ELSE Rank[order][f] > Rank[order][g]

Precedes(f, g) == Rank[order][f] < Rank[order][g]
FirstOf(S) == CHOOSE f \in S : \A g \in S \ {f} : Precedes(f, g)

Compose(left, right) ==
    /\ left.predicate = "dependency" /\ right.predicate = "dependency"
    /\ left.object = right.subject /\ left.subject # right.object

Composed(left, right) ==
    [predicate |-> "dependency", subject |-> left.subject, object |-> right.object, rule |-> version]

(* Facts are scanned in the order of their identities, in two nested loops;    *)
(* of the pairs that give one fact the first is kept.                          *)
DependencyRule(facts) ==
    LET pairs == {p \in facts \X facts : Compose(p[1], p[2])}
        Ahead(p, q) == Precedes(p[1], q[1]) \/ (p[1] = q[1] /\ Precedes(p[2], q[2]))
    IN  {[fact |-> Composed(p[1], p[2]), lineage |-> {p[1], p[2]}] :
            p \in {p \in pairs : \A q \in pairs :
                      Composed(p[1], p[2]) = Composed(q[1], q[2]) => ~Ahead(q, p)}}

DefinitionsOf(symbol, facts) == {d \in facts : d.predicate = "definition" /\ d.subject = symbol}

(* A symbol defined in more than one artifact is ambiguous: the rule abstains. *)
MembershipRule(facts) ==
    {[fact |-> [predicate |-> "membership", subject |-> d.subject, object |-> d.object, rule |-> version],
      lineage |-> {d}] :
        d \in {e \in facts : e.predicate = "definition" /\ DefinitionsOf(e.subject, facts) = {e}}}

Apply(rule, facts) ==
    CASE rule = "dependency" -> DependencyRule(facts)
      [] rule = "membership" -> MembershipRule(facts)

-------------------------------------------------------------------------------
(* The executor.                                                               *)

Exceeds(n, limit) == limit > 0 /\ n > limit

(* The observed facts are read and the derivation prepared; an input larger    *)
(* than the limit on facts is refused.                                         *)
Start ==
    /\ pc = "idle"
    /\ version' \in Versions /\ limits' \in Limits
    /\ known' = ObservedIn(stored)
    /\ ~Exceeds(Cardinality(known'), limits'.facts)
    /\ pending' = known' /\ support' = [f \in {} |-> {}]
    /\ iterations' = 0 /\ next' = 1 /\ accepted' = FALSE /\ codes' = {}
    /\ pc' = "queue"
    /\ UNCHANGED <<order, stored, inputs, settled, refused>>

(* One fact leaves the queue, whichever it is: it only counts as an iteration. *)
Pop ==
    /\ pc = "queue" /\ pending # {}
    /\ \/ /\ limits.iterations > 0 /\ iterations >= limits.iterations
          /\ codes' = codes \cup {"iterations"} /\ pc' = "made"
          /\ UNCHANGED <<pending, iterations, next, accepted>>
       \/ /\ ~(limits.iterations > 0 /\ iterations >= limits.iterations)
          /\ pending' = pending \ {FirstOf(pending)}
          /\ iterations' = iterations + 1
          /\ next' = 1 /\ accepted' = FALSE
          /\ pc' = "rules"
          /\ UNCHANGED codes
    /\ UNCHANGED <<order, stored, inputs, version, limits, known, support, settled, refused>>

(* Facts the rule has that are not known yet.                                  *)
Fresh(rule) == {c \in Apply(rule, known) : c.fact \notin known}

(* A batch is taken whole, or refused for the limits it would pass.            *)
LimitsReached(batch) ==
    (IF Exceeds(Cardinality(known) + Cardinality(batch), limits.facts) THEN {"facts"} ELSE {})
    \cup (IF Exceeds(Cardinality(batch), limits.fanout) THEN {"fanout"} ELSE {})

\* Mutant of ApplyRule: the last rule alone decides whether to go on.
ApplyRuleLastDecides ==
    /\ pc = "rules" /\ next <= Len(Rules)
    /\ LET batch == Fresh(Rules[next])
           new   == {c.fact : c \in batch}
       IN  \/ /\ LimitsReached(batch) = {}
              /\ known' = known \cup new
              /\ support' = [f \in DOMAIN support \cup new |->
                    IF f \in new THEN (CHOOSE c \in batch : c.fact = f).lineage ELSE support[f]]
              /\ pending' = pending \cup new
              /\ accepted' = (new # {})
              /\ UNCHANGED codes
           \/ /\ LimitsReached(batch) # {}
              /\ codes' = codes \cup LimitsReached(batch)
              /\ UNCHANGED <<known, support, pending, accepted>>
    /\ next' = next + 1
    /\ UNCHANGED <<order, stored, inputs, pc, version, limits, iterations, settled, refused>>

ApplyRule ==
    /\ pc = "rules" /\ next <= Len(Rules)
    /\ LET batch == Fresh(Rules[next])
           new   == {c.fact : c \in batch}
       IN  \/ /\ LimitsReached(batch) = {}
              /\ known' = known \cup new
              /\ support' = [f \in DOMAIN support \cup new |->
                    IF f \in new THEN (CHOOSE c \in batch : c.fact = f).lineage ELSE support[f]]
              /\ pending' = pending \cup new
              /\ accepted' = (accepted \/ new # {})
              /\ UNCHANGED codes
           \/ /\ LimitsReached(batch) # {}
              /\ codes' = codes \cup LimitsReached(batch)
              /\ UNCHANGED <<known, support, pending, accepted>>
    /\ next' = next + 1
    /\ UNCHANGED <<order, stored, inputs, pc, version, limits, iterations, settled, refused>>

\* Mutant of EndIteration: only a barren iteration ends the loop.
EndIterationBarren ==
    /\ pc = "rules" /\ next > Len(Rules) /\ pc' = (IF accepted THEN "queue" ELSE "made")
    /\ UNCHANGED <<order, stored, inputs, version, limits, known, support, pending,
                   iterations, next, accepted, codes, settled, refused>>

(* The loop ends when no rule had anything accepted, or the queue is empty.    *)
EndIteration ==
    /\ \/ pc = "rules" /\ next > Len(Rules) /\ pc' = (IF accepted THEN "queue" ELSE "made")
       \/ pc = "queue" /\ pending = {} /\ pc' = "made"
    /\ UNCHANGED <<order, stored, inputs, version, limits, known, support, pending,
                   iterations, next, accepted, codes, settled, refused>>

(* The call returns.                                                           *)
Rest ==
    /\ pc' = "idle" /\ version' = Observed /\ limits' = Unlimited
    /\ known' = {} /\ support' = [f \in {} |-> {}] /\ pending' = {}
    /\ iterations' = 0 /\ next' = 1 /\ accepted' = FALSE /\ codes' = {}

(* The context ends or a rule fails: nothing comes of the derivation.          *)
Fail ==
    /\ pc # "idle"
    /\ Rest
    /\ UNCHANGED <<order, stored, inputs, settled, refused>>

-------------------------------------------------------------------------------
(* The snapshot.                                                               *)

(* A stored fact must have the inputs it is written with.                      *)
Conflict == \E f \in known \cap stored : f.rule # Observed /\ inputs[f] # support[f]

\* Mutant of CommitRebuild: rows are inserted beside those that are there, and not compared.
CommitUncompared ==
    /\ pc = "made"
    /\ \/ limits # Unlimited /\ UNCHANGED <<stored, inputs, settled, refused>>
       \/ /\ limits = Unlimited
          /\ stored' = stored \cup known
          /\ inputs' = [f \in DOMAIN inputs \cup DOMAIN support |->
                          (IF f \in DOMAIN inputs THEN inputs[f] ELSE {})
                          \cup (IF f \in DOMAIN support THEN support[f] ELSE {})]
          /\ settled' = [settled EXCEPT ![version] = {ObservedIn(known)}]
          /\ UNCHANGED refused
    /\ Rest
    /\ UNCHANGED order

(* A rebuild, which derives without limits, commits: what is there already is  *)
(* compared, what is not is inserted, all or nothing. The result of a bounded  *)
(* derivation goes back to its caller.                                         *)
CommitRebuild ==
    /\ pc = "made"
    /\ \/ limits # Unlimited /\ UNCHANGED <<stored, inputs, settled, refused>>
       \/ /\ limits = Unlimited /\ ~Conflict
          /\ stored' = stored \cup known
          /\ inputs' = [f \in DOMAIN inputs \cup DOMAIN support |->
                          IF f \in DOMAIN inputs THEN inputs[f] ELSE support[f]]
          /\ settled' = [settled EXCEPT ![version] = {ObservedIn(known)}]
          /\ UNCHANGED refused
       \/ /\ limits = Unlimited /\ Conflict
          /\ refused' = [version |-> version, observed |-> ObservedIn(known), settled |-> settled[version]]
          /\ UNCHANGED <<stored, inputs, settled>>
    /\ Rest
    /\ UNCHANGED order

(* Another writer adds an observed fact to the snapshot.                       *)
Observe ==
    /\ \E f \in Late : f \notin stored /\ stored' = stored \cup {f}
    /\ UNCHANGED <<order, inputs, run, settled, refused>>

Step == Pop \/ ApplyRule \/ EndIteration \/ CommitRebuild
DerivationNext == Start \/ Step \/ Fail \/ Observe

DerivationSpec == DerivationInit /\ [][DerivationNext]_derivationVars
FairDerivation == DerivationSpec /\ WF_derivationVars(Step)

-------------------------------------------------------------------------------
(* Properties.                                                                 *)

Places == {"idle", "queue", "rules", "made"}
DerivedFacts == {f \in Facts : f.rule # Observed}

(* Stored and derived facts keep their types: every derived fact, and no       *)
(* other, has a lineage, and a bounded derivation stays within its limits.     *)
DerivationTypeOK ==
    /\ stored \in SUBSET Facts
    /\ inputs \in [stored \cap DerivedFacts -> SUBSET Facts]
    /\ pc \in Places
    /\ version \in Versions \cup {Observed} /\ limits \in Limits \cup {Unlimited}
    /\ known \in SUBSET Facts /\ pending \subseteq known
    /\ support \in [known \cap DerivedFacts -> SUBSET Facts]
    /\ limits.facts > 0 => Cardinality(known) <= limits.facts
    /\ iterations \in Nat /\ (limits.iterations > 0 => iterations <= limits.iterations)
    /\ next \in 1..(Len(Rules) + 1) /\ accepted \in BOOLEAN
    /\ codes \in SUBSET Codes
    /\ settled \in [Versions -> SUBSET SUBSET Facts]
    /\ refused \in [version : Versions \cup {Observed}, observed : SUBSET Facts,
                     settled : SUBSET SUBSET Facts]

(* What the rules mean, without the executor: one component depends on another *)
(* through a third, each link being observed or reached, and a symbol belongs  *)
(* to the only artifact that defines it.                                       *)
Direct(facts, x, y) == \E f \in facts : f.predicate = "dependency" /\ f.subject = x /\ f.object = y

\* In every set that has what its members and x depend on.
Reached(facts, x) ==
    {y \in Components : \A S \in SUBSET Components :
        (\A a \in S \cup {x}, b \in Components : Direct(facts, a, b) => b \in S) => y \in S}

Linked(facts) ==
    {p \in Components \X Components :
        Direct(facts, p[1], p[2]) \/ (p[1] # p[2] /\ p[2] \in Reached(facts, p[1]))}

LeastFixedPoint(v, facts) ==
    LET linked == Linked(facts)
    IN  {f \in Dependencies({v}) :
            /\ f.subject # f.object
            /\ \E c \in Components : <<f.subject, c>> \in linked /\ <<c, f.object>> \in linked}
        \cup {f \in Memberships : f.rule = v /\
                {d.object : d \in DefinitionsOf(f.subject, facts)} = {f.object}}

(* A derivation that reports no limit has derived everything the rules imply   *)
(* and nothing else, whatever the order of queue and rules; one that does      *)
(* report a limit has derived nothing else.                                    *)
CompleteIsLeastFixedPoint ==
    LET observed == ObservedIn(known)
    IN  /\ pc # "idle" => known \subseteq observed \cup LeastFixedPoint(version, observed)
        /\ pc = "made" /\ codes = {} => known = observed \cup LeastFixedPoint(version, observed)

(* A derived fact is one application of its rule to its inputs.                *)
Justified(f, lineage) ==
    \/ f.predicate = "dependency" /\ \E l, r \in lineage :
          /\ lineage = {l, r} /\ Compose(l, r)
          /\ f.subject = l.subject /\ f.object = r.object
    \/ f.predicate = "membership" /\ \E d \in lineage :
          /\ lineage = {d} /\ d.predicate = "definition"
          /\ f.subject = d.subject /\ f.object = d.object

(* The facts whose lineage leads to observed facts within n steps.             *)
Grounded(facts, lineage) ==
    LET Within[n \in Nat] ==
            IF n = 0 THEN ObservedIn(facts)
            ELSE LET within == Within[n - 1]
                 IN  {f \in facts : f.rule = Observed \/ lineage[f] \subseteq within}
    IN  Within[Cardinality(facts)]

(* Every stored derivation can be inspected down to observed facts of the      *)
(* snapshot, whatever rebuilds of whatever versions were committed, refused or *)
(* interrupted around the arrival of new facts: its inputs are one application *)
(* of its rule, they are stored too, and the lineage has no cycle.             *)
LineageIsGrounded ==
    /\ Grounded(stored, inputs) = stored
    /\ \A f \in DOMAIN inputs : Justified(f, inputs[f])

(* A rebuild is refused as a conflict only when observed facts were added      *)
(* since the last one of its version: over the same facts it always repeats.   *)
RebuildsRepeat == refused # NotRefused => refused.settled # {refused.observed}

(* Derivations end.                                                            *)
DerivationsEnd == pc # "idle" ~> pc = "idle"
===============================================================================
