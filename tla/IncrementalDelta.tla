-------------------------- MODULE IncrementalDelta --------------------------
(***************************************************************************)
(* The comparison of two bundles (internal/ingestion/incremental.go):      *)
(* which facts of the new snapshot are those of the previous one, and      *)
(* which of them a projection may take over without reading the source.    *)
(*                                                                         *)
(* A bundle is                                                             *)
(*   config  the analysis configuration,                                   *)
(*   files   path -> content hash,                                         *)
(*   units   evidence units [path, slot, seen, hash, state, transfer,      *)
(*           meta]: slot stands for analyzer, method and locator, seen for *)
(*           the value of the unit's observation, meta for what the        *)
(*           canonical facts add to its text row,                          *)
(*   gaps    [code, message]; coverage and failures compare like gaps.     *)
(* The content of a unit is a function of its hash and its state: a        *)
(* present unit hashes to itself, a redacted one is a fixed text.          *)
(***************************************************************************)
EXTENDS FiniteSets

----------------------------------------------------------------------------
(* Facts: a stable key, an external identity and a digest.                 *)

EvidenceID(s, b, u) == <<s, u.path, u.slot, b.files[u.path], u.hash>>

ArtifactFacts(b) ==
    {[kind |-> "artifact", key |-> <<p>>, id |-> <<p, b.files[p]>>,
      digest |-> <<b.files[p]>>, deps |-> {}] : p \in DOMAIN b.files}

ObservationFacts(b) ==
    {[kind |-> "observation", key |-> <<u.path, u.slot>>,
      id |-> <<u.path, u.slot, b.files[u.path]>>, digest |-> <<u.seen>>,
      deps |-> {<<"artifact", <<u.path>>>>}] : u \in b.units}

EvidenceFact(s, b, u) ==
    [kind |-> "evidence", key |-> <<u.path, u.slot>>,
     id |-> EvidenceID(s, b, u), digest |-> <<u.hash, u.state, u.transfer>>,
     deps |-> {<<"artifact", <<u.path>>>>, <<"observation", <<u.path, u.slot>>>>}]

GapFacts(b) ==
    {[kind |-> "gap", key |-> <<g.code>>, id |-> <<g.code, g.message>>,
      digest |-> <<g.message>>, deps |-> {}] : g \in b.gaps}

BundleFacts(s, b) ==
    ArtifactFacts(b) \cup ObservationFacts(b) \cup GapFacts(b)
        \cup {EvidenceFact(s, b, u) : u \in b.units}

----------------------------------------------------------------------------
(* Comparison.                                                             *)

Key(f) == <<f.kind, f.key>>

UniqueFacts(F) == {f \in F : \A g \in F : Key(g) = Key(f) => g = f}

ReusedFacts(s, b, t, c) ==
    {f \in UniqueFacts(BundleFacts(t, c)) :
        /\ b.config = c.config
        /\ \E g \in UniqueFacts(BundleFacts(s, b)) :
              Key(g) = Key(f) /\ g.digest = f.digest}

\* The keys of the new facts that the report calls changed or added.
ChangedKeys(s, b, t, c) ==
    {Key(f) : f \in BundleFacts(t, c) \ ReusedFacts(s, b, t, c)}

\* IncrementalReport.Validate: a reference never stands in two groups.  An
\* ambiguous fact is listed under its key and its identity, as removed from
\* the previous snapshot and as added to the new one.
ReportValid(s, b, t, c) ==
    LET Ambiguous(F) == F \ UniqueFacts(F)
    IN  \A g \in Ambiguous(BundleFacts(s, b)), f \in Ambiguous(BundleFacts(t, c)) :
            Key(g) = Key(f) => g.id # f.id

----------------------------------------------------------------------------
(* Reuse by projections.                                                   *)

\* Mutant of Reusable: the dependencies are not looked at.
ReusableAnyDependency(s, b, t, c, u) ==
    EvidenceFact(t, c, u) \in ReusedFacts(s, b, t, c)

\* ProjectionImpact.Reusable: a unit nothing it depends on has changed for.
Reusable(s, b, t, c, u) ==
    LET f == EvidenceFact(t, c, u)
    IN  /\ f \in ReusedFacts(s, b, t, c)
        /\ f.deps \cap ChangedKeys(s, b, t, c) = {}

\* The unit of the previous bundle that the report pairs with u.
Previous(s, b, u) ==
    CHOOSE v \in b.units : <<v.path, v.slot>> = <<u.path, u.slot>>

Persistible(u) == u.state \in {"present", "redacted"}
Eligible(u)    == u.state = "present" /\ u.transfer
=============================================================================
