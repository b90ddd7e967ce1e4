-------------------------- MODULE IncrementalUpdate --------------------------
(***************************************************************************)
(* The incremental update of a source (internal/ingestion/                 *)
(* incremental_apply.go over internal/persistence): a new snapshot is made *)
(* from a previous one by copying the text rows and the vectors of facts   *)
(* that did not change.  Updates of different snapshots, and full          *)
(* ingestions, interleave: all of them read rows that others wrote.        *)
(*                                                                         *)
(* One step of an update is one call on a port: PersistIncremental,        *)
(* RebuildSnapshotIncremental of the text, of the vectors (with the        *)
(* provider's answer before it) and ActivateSnapshot.  A full ingestion is *)
(* one step here; IngestionPipeline has its steps.                         *)
(***************************************************************************)
EXTENDS IncrementalDelta

CONSTANTS
    Snapshots,      \* snapshots of one source
    Bundles,        \* what the runner may have found in the source
    Profiles,       \* embedding profiles: the spaces of vectors
    EmbeddingMode   \* EmbeddingOptions.Mode

NoSnapshot == "none"
NoBundle   == [config |-> "none"]

\* A bundle is accepted only if its units lie in artifacts it holds
\* (validateEvidenceUnits, manifest.go).
ASSUME UpdateAssumption ==
    /\ NoSnapshot \notin Snapshots
    /\ \A b \in Bundles : \A u \in b.units : u.path \in DOMAIN b.files
    /\ NoBundle \notin Bundles
    /\ EmbeddingMode \in {"enabled", "forbidden", "not-applicable"}

VARIABLES
    canonical,  \* the committed bundle of each snapshot
    text,       \* textual_evidence_projection
    vectors,    \* embedding_items, each with the profile and hash it was made from
    active,     \* sources.active_snapshot_id
    update      \* the Apply that is making each snapshot

vars == <<canonical, text, vectors, active, update>>

Results == {"none", "complete", "incomplete", "forbidden", "unavailable", "refused"}
Steps   == {"idle", "text", "vectors", "activate", "done"}
Idle    == [step |-> "idle", base |-> NoSnapshot, profile |-> NoSnapshot,
            compatible |-> FALSE, result |-> "none"]

Init ==
    /\ canonical = [s \in Snapshots |-> NoBundle]
    /\ text = {}
    /\ vectors = {}
    /\ active = NoSnapshot
    /\ update = [s \in Snapshots |-> Idle]

----------------------------------------------------------------------------
(* Rows.                                                                   *)

TextRow(s, b, u) ==
    [snap |-> s, id |-> EvidenceID(s, b, u), hash |-> u.hash,
     state |-> u.state, meta |-> u.meta]

TextOf(s) == {r \in text : r.snap = s}

\* What RebuildSnapshot writes for a bundle: the reference of every property.
FullText(s, b) == {TextRow(s, b, u) : u \in {v \in b.units : Persistible(v)}}

VectorRow(p, s, b, u, made) ==
    [profile |-> p, snap |-> s, id |-> EvidenceID(s, b, u), hash |-> u.hash,
     made |-> made]

VectorsOf(p, s) == {r \in vectors : r.profile = p /\ r.snap = s}
Cached(p, hash) == {r \in vectors : r.profile = p /\ r.hash = hash}

\* The vector of a hash: the first cached row, else the provider's answer.
Vector(p, hash) ==
    IF Cached(p, hash) # {} THEN (CHOOSE r \in Cached(p, hash) : TRUE).made
                            ELSE <<p, hash>>

EligibleUnits(b) == {u \in b.units : Eligible(u)}

----------------------------------------------------------------------------
(* Full ingestion: Persist, RebuildSnapshot of text and vectors, activate. *)

Ingest(s, b, p, answered) ==
    /\ canonical[s] \in {NoBundle, b}
    /\ canonical' = [canonical EXCEPT ![s] = b]
    /\ text' = (text \ TextOf(s)) \cup FullText(s, b)
    /\ vectors' = IF /\ EmbeddingMode = "enabled"
                     /\ answered \/ \A u \in EligibleUnits(b) : Cached(p, u.hash) # {}
                  THEN (vectors \ VectorsOf(p, s))
                       \cup {VectorRow(p, s, b, u, Vector(p, u.hash)) : u \in EligibleUnits(b)}
                  ELSE vectors
    /\ active' = s
    /\ UNCHANGED update

----------------------------------------------------------------------------
(* IncrementalUpdater.Apply.                                               *)

\* PersistIncremental: compare, then commit the new snapshot.  The caller
\* hands in the bundle of a previous snapshot, taken to be a committed one
\* (it may have no projections).  compatible is EmbeddingProfileCompatible:
\* without options Apply takes its own profile for that of the previous
\* snapshot, whatever it was.
Persist(s, base, b, p, compatible) ==
    /\ update[s].step \in {"idle", "done"}
    /\ base # s /\ canonical[base] # NoBundle
    /\ canonical[s] \in {NoBundle, b}
    /\ LET started(step, result) ==
               [step |-> step, base |-> base, profile |-> p,
                compatible |-> compatible, result |-> result]
       IN \/ /\ ReportValid(base, canonical[base], s, b)
             /\ canonical' = [canonical EXCEPT ![s] = b]
             /\ update' = [update EXCEPT ![s] = started("text", "none")]
          \/ /\ ~ReportValid(base, canonical[base], s, b)
             /\ update' = [update EXCEPT ![s] = started("done", "refused")]
             /\ UNCHANGED canonical
    /\ UNCHANGED <<text, vectors, active>>

\* Whether the report of update s lets unit u take over a previous row.
Reuses(s, u) ==
    Reusable(update[s].base, canonical[update[s].base], s, canonical[s], u)

PreviousID(s, u) ==
    LET base == update[s].base
    IN  EvidenceID(base, canonical[base], Previous(base, canonical[base], u))

\* Mutant of CopyMatches: the metadata columns are not compared.
CopyMatchesContent(s, u, r) ==
    /\ r.snap = update[s].base
    /\ r.id = PreviousID(s, u)
    /\ r.hash = u.hash /\ r.state = u.state

\* copyTextProjectionSQL.
CopyMatches(s, u, r) ==
    /\ r.snap = update[s].base
    /\ r.id = PreviousID(s, u)
    /\ r.hash = u.hash /\ r.state = u.state
    /\ r.meta = u.meta

NewTextRow(s, u) ==
    LET row    == TextRow(s, canonical[s], u)
        copies == {r \in text : Reuses(s, u) /\ CopyMatches(s, u, r)}
        copied == CHOOSE r \in copies : TRUE
    IN  IF copies = {} THEN row
        ELSE [snap |-> s, id |-> row.id, hash |-> copied.hash,
              state |-> copied.state, meta |-> copied.meta]

RebuildText(s) ==
    LET persistible == {u \in canonical[s].units : Persistible(u)}
        distinct == \A u, v \in persistible :
                       <<u.path, u.slot>> = <<v.path, v.slot>> => u = v
    IN  /\ update[s].step = "text"
        /\ \/ /\ distinct
              /\ text' = (text \ TextOf(s)) \cup {NewTextRow(s, u) : u \in persistible}
              /\ update' = [update EXCEPT ![s].step =
                               IF EmbeddingMode = "not-applicable" THEN "activate" ELSE "vectors"]
           \/ /\ ~distinct    \* duplicate incremental stable key
              /\ update' = [update EXCEPT ![s].step = "done", ![s].result = "refused"]
              /\ UNCHANGED text
        /\ UNCHANGED <<canonical, vectors, active>>

\* Mutant of CopyVectorMatches: the profile is not compared.
CopyVectorAnyProfile(s, u, r) ==
    /\ r.snap = update[s].base
    /\ r.id = PreviousID(s, u)
    /\ r.hash = u.hash

\* copyEmbeddingItemSQL.
CopyVectorMatches(s, u, r) ==
    /\ r.profile = update[s].profile
    /\ r.snap = update[s].base
    /\ r.id = PreviousID(s, u)
    /\ r.hash = u.hash

\* What the rebuild makes of unit u: a set with its row, or {} when missing.
\* A reusable unit has no vector of its own; when no previous row matches,
\* the cached vector of its hash is not used either.
NewVectorRow(s, u) ==
    LET p      == update[s].profile
        row(made) == VectorRow(p, s, canonical[s], u, made)
        copies == {r \in vectors : CopyVectorMatches(s, u, r)}
    IN  IF Reuses(s, u) /\ update[s].compatible
        THEN IF copies = {} THEN {} ELSE {row((CHOOSE r \in copies : TRUE).made)}
        ELSE {row(Vector(p, u.hash))}

\* Mutant of EmbeddingResult: units that may not be embedded are not counted.
EmbeddingResultEligible(s, missing) ==
    IF missing # {} THEN "incomplete" ELSE "complete"

EmbeddingResult(s, missing) ==
    IF missing # {} THEN "incomplete"
    ELSE IF EligibleUnits(canonical[s]) # canonical[s].units THEN "forbidden"
    ELSE "complete"

RebuildVectors(s) ==
    LET p       == update[s].profile
        units   == EligibleUnits(canonical[s])
        missing == {u \in units : NewVectorRow(s, u) = {}}
    IN  /\ update[s].step = "vectors" /\ EmbeddingMode = "enabled"
        /\ vectors' = (vectors \ VectorsOf(p, s)) \cup UNION {NewVectorRow(s, u) : u \in units}
        /\ update' = [update EXCEPT ![s].step = "activate",
                                    ![s].result = EmbeddingResult(s, missing)]
        /\ UNCHANGED <<canonical, text, active>>

\* The mode forbids vectors, or the provider or the store gives none.
VectorsFail(s) ==
    /\ update[s].step = "vectors"
    /\ update' = [update EXCEPT ![s].step = "activate",
                     ![s].result = IF EmbeddingMode = "forbidden" THEN "forbidden" ELSE "unavailable"]
    /\ UNCHANGED <<canonical, text, vectors, active>>

Activate(s) ==
    /\ update[s].step = "activate"
    /\ active' = s
    /\ update' = [update EXCEPT ![s].step = "done"]
    /\ UNCHANGED <<canonical, text, vectors>>

\* A cancelled context, a failed call or a crash ends the update; nothing
\* but what its transactions committed remains.
Abort(s) ==
    /\ update[s].step \in {"text", "vectors", "activate"}
    /\ update' = [update EXCEPT ![s] = Idle]
    /\ UNCHANGED <<canonical, text, vectors, active>>

Next ==
    \E s \in Snapshots :
        \/ \E b \in Bundles, p \in Profiles, answered \in BOOLEAN : Ingest(s, b, p, answered)
        \/ \E base \in Snapshots, b \in Bundles, p \in Profiles, compatible \in BOOLEAN :
              Persist(s, base, b, p, compatible)
        \/ RebuildText(s)
        \/ RebuildVectors(s)
        \/ VectorsFail(s)
        \/ Activate(s)
        \/ Abort(s)

Spec == Init /\ [][Next]_vars

----------------------------------------------------------------------------
(* Properties.                                                             *)

Updates == [step : Steps, base : Snapshots \cup {NoSnapshot},
            profile : Profiles \cup {NoSnapshot}, compatible : BOOLEAN,
            result : Results]

Typed ==
    /\ canonical \in [Snapshots -> Bundles \cup {NoBundle}]
    /\ active \in Snapshots \cup {NoSnapshot}
    /\ update \in [Snapshots -> Updates]

HasUnit(r) ==
    /\ r.snap \in Snapshots /\ canonical[r.snap] # NoBundle
    /\ \E u \in canonical[r.snap].units : r.id = EvidenceID(r.snap, canonical[r.snap], u)

UnderWay(s) ==
    update[s].step \in {"text", "vectors", "activate"} =>
        /\ canonical[s] # NoBundle
        /\ update[s].base \in Snapshots \ {s}
        /\ canonical[update[s].base] # NoBundle

\* Every row belongs to a unit of a committed snapshot and an update under
\* way has a committed base and a committed snapshot of its own.
TypeOK ==
    /\ Typed
    /\ \A r \in text \cup vectors : HasUnit(r)
    /\ \A s \in Snapshots : UnderWay(s)

TextBuilt(s) ==
    \/ update[s].step \in {"vectors", "activate"}
    \/ update[s].step = "done" /\ update[s].result # "refused"
    \/ active = s

\* The text a search sees after an update is the text a full ingestion of the
\* same bundle writes, whichever rows were copied, and whatever snapshot they
\* were copied from (incremental_apply.go:129, text_projection.go:215-295).
TextEquivalent ==
    \A s \in Snapshots : TextBuilt(s) => TextOf(s) = FullText(s, canonical[s])

\* An update that does not report itself as partial has given every unit of
\* its snapshot a vector of its profile (incremental_apply.go:362-367).
CompleteIsEmbedded ==
    \A s \in Snapshots : update[s].result = "complete" =>
        \A u \in canonical[s].units : \E r \in VectorsOf(update[s].profile, s) :
            r.id = EvidenceID(s, canonical[s], u) /\ r.hash = u.hash

\* No vector lands in the space of a profile it was not made in, nor beside a
\* content it was not made from, through copies of copies and the cache
\* (embedding_projection.go:319-322).
VectorsInTheirSpace ==
    \A r \in vectors : r.made = <<r.profile, r.hash>>

\* What an update takes over was extracted, under the same configuration,
\* from an artifact and an observation that have not changed
\* (incremental.go:650-668).
ReuseKeepsProvenance ==
    \A s \in Snapshots : update[s].step \in {"text", "vectors", "activate"} =>
        LET b == canonical[update[s].base]
            c == canonical[s]
        IN  \A u \in c.units : Reuses(s, u) =>
                /\ b.config = c.config
                /\ b.files[u.path] = c.files[u.path]
                /\ Previous(update[s].base, b, u).seen = u.seen

=============================================================================
