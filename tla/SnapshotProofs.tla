---------------------------- MODULE SnapshotProofs ----------------------------
(***************************************************************************)
(* Proofs about what is stored beside a snapshot, for every value of the   *)
(* constants: what an incremental update leaves in the text projection is  *)
(* what a full ingestion leaves; what a derivation makes of the observed   *)
(* facts is their least fixed point, and its lineage is grounded.          *)
(***************************************************************************)
EXTENDS IncrementalUpdate, FactualDerivation, FiniteSetTheorems, WellFoundedInduction, TLAPS


----------------------------------------------------------------------------
(* Type correctness.                                                       *)

\* A new row names a unit of its snapshot.
LEMMA RowsNameUnits ==
    ASSUME NEW s, NEW b, NEW u, NEW p, NEW made
    PROVE  /\ TextRow(s, b, u).snap = s /\ TextRow(s, b, u).id = EvidenceID(s, b, u)
           /\ VectorRow(p, s, b, u, made).snap = s
           /\ VectorRow(p, s, b, u, made).id = EvidenceID(s, b, u)
  BY DEF TextRow, VectorRow

\* Steps of an update change the entry of one snapshot only.
LEMMA EntryTyped ==
    ASSUME Typed, NEW s \in Snapshots, NEW step \in Steps, NEW result \in Results
    PROVE  /\ [update EXCEPT ![s].step = step] \in [Snapshots -> Updates]
           /\ [update EXCEPT ![s].step = step, ![s].result = result] \in [Snapshots -> Updates]
  BY DEF Typed, Updates

LEMMA InitTypeOK == ASSUME UpdateAssumption, Init PROVE TypeOK
  BY DEF Init, TypeOK, Typed, HasUnit, UnderWay, Idle, Updates, Steps, Results, UpdateAssumption

----------------------------------------------------------------------------
LEMMA IngestTypeOK ==
    ASSUME UpdateAssumption, TypeOK, NEW s \in Snapshots, NEW b \in Bundles,
           NEW p \in Profiles, NEW answered \in BOOLEAN, Ingest(s, b, p, answered)
    PROVE  TypeOK'
  <1>1. Typed'
    BY DEF TypeOK, Typed, Ingest
  <1>2. canonical'[s] = b /\ b # NoBundle
    BY DEF TypeOK, Typed, Ingest, UpdateAssumption
  <1>3. \A t \in Snapshots : canonical[t] # NoBundle => canonical'[t] = canonical[t]
    BY DEF TypeOK, Typed, Ingest
  <1>4. ASSUME NEW r \in text' \cup vectors' PROVE HasUnit(r)'
    <2>1. CASE r \in text \cup vectors
      BY <1>3, <2>1 DEF TypeOK, HasUnit
    <2>2. CASE r \in FullText(s, b)
      <3>1. PICK u \in b.units : r = TextRow(s, b, u)
        BY <2>2 DEF FullText
      <3> QED BY <3>1, <1>2, RowsNameUnits DEF HasUnit
    <2>3. CASE r \in {VectorRow(p, s, b, u, Vector(p, u.hash)) : u \in EligibleUnits(b)}
      <3>1. PICK u \in b.units : r = VectorRow(p, s, b, u, Vector(p, u.hash))
        BY <2>3 DEF EligibleUnits
      <3> QED BY <3>1, <1>2, RowsNameUnits DEF HasUnit
    <2> QED BY <2>1, <2>2, <2>3 DEF Ingest
  <1>5. ASSUME NEW t \in Snapshots PROVE UnderWay(t)'
    <2>1. update' = update
      BY DEF Ingest
    <2> QED BY <1>3, <2>1 DEF TypeOK, UnderWay
  <1> QED BY <1>1, <1>4, <1>5 DEF TypeOK

LEMMA PersistTypeOK ==
    ASSUME UpdateAssumption, TypeOK, NEW s \in Snapshots, NEW base \in Snapshots,
           NEW b \in Bundles, NEW p \in Profiles, NEW compatible \in BOOLEAN,
           Persist(s, base, b, p, compatible)
    PROVE  TypeOK'
  <1> DEFINE Entry(step, result) == [step |-> step, base |-> base, profile |-> p,
                                     compatible |-> compatible, result |-> result]
  <1>1. /\ base # s /\ canonical[base] # NoBundle
        /\ text' = text /\ vectors' = vectors /\ active' = active
        /\ \/ /\ canonical' = [canonical EXCEPT ![s] = b]
              /\ update' = [update EXCEPT ![s] = Entry("text", "none")]
           \/ /\ canonical' = canonical
              /\ update' = [update EXCEPT ![s] = Entry("done", "refused")]
        /\ canonical[s] \in {NoBundle, b}
    BY DEF Persist
  <1>2. Entry("text", "none") \in Updates /\ Entry("done", "refused") \in Updates
    BY DEF Updates, Steps, Results
  <1>3. Typed'
    BY <1>1, <1>2 DEF TypeOK, Typed
  <1>4. \A t \in Snapshots : canonical[t] # NoBundle => canonical'[t] = canonical[t]
    BY <1>1 DEF TypeOK, Typed
  <1>5. \A r \in text' \cup vectors' : HasUnit(r)'
    BY <1>1, <1>4 DEF TypeOK, HasUnit
  <1>6. ASSUME NEW t \in Snapshots PROVE UnderWay(t)'
    <2>1. CASE t # s
      <3>1. update'[t] = update[t]
        BY <1>1, <2>1 DEF TypeOK, Typed
      <3> QED BY <1>4, <3>1 DEF TypeOK, UnderWay
    <2>2. CASE t = s /\ update' = [update EXCEPT ![s] = Entry("done", "refused")]
      <3>1. update'[s].step = "done"
        BY <2>2 DEF TypeOK, Typed
      <3> QED BY <2>2, <3>1 DEF UnderWay
    <2>3. CASE /\ t = s /\ update' = [update EXCEPT ![s] = Entry("text", "none")]
               /\ canonical' = [canonical EXCEPT ![s] = b]
      <3>1. update'[s].base = base /\ canonical'[s] = b /\ b # NoBundle
        BY <2>3 DEF TypeOK, Typed, UpdateAssumption
      <3> QED BY <1>1, <1>4, <2>3, <3>1 DEF UnderWay
    <2> QED BY <1>1, <2>1, <2>2, <2>3
  <1> QED BY <1>3, <1>5, <1>6 DEF TypeOK

LEMMA RebuildTextTypeOK ==
    ASSUME UpdateAssumption, TypeOK, NEW s \in Snapshots, RebuildText(s)
    PROVE  TypeOK'
  <1>1. /\ update[s].step = "text"
        /\ canonical' = canonical /\ vectors' = vectors /\ active' = active
    BY DEF RebuildText
  <1>2. Typed'
    <2> DEFINE after == IF EmbeddingMode = "not-applicable" THEN "activate" ELSE "vectors"
    <2>1. after \in Steps /\ "done" \in Steps /\ "refused" \in Results
      BY DEF Steps, Results
    <2>2. \/ update' = [update EXCEPT ![s].step = after]
          \/ update' = [update EXCEPT ![s].step = "done", ![s].result = "refused"]
      BY DEF RebuildText
    <2> HIDE DEF after
    <2>3. update' \in [Snapshots -> Updates]
      <3>1. [update EXCEPT ![s].step = after] \in [Snapshots -> Updates]
        BY <2>1, EntryTyped DEF TypeOK
      <3>2. [update EXCEPT ![s].step = "done", ![s].result = "refused"] \in [Snapshots -> Updates]
        BY <2>1, EntryTyped DEF TypeOK
      <3> QED BY <2>2, <3>1, <3>2
    <2> QED BY <1>1, <2>3 DEF TypeOK, Typed
  <1>3. ASSUME NEW r \in text' \cup vectors' PROVE HasUnit(r)'
    <2>1. CASE r \in text \cup vectors
      BY <1>1, <2>1 DEF TypeOK, HasUnit
    <2>2. CASE r \in {NewTextRow(s, u) : u \in {v \in canonical[s].units : Persistible(v)}}
      <3>1. PICK u \in canonical[s].units : r = NewTextRow(s, u)
        BY <2>2
      <3>2. r.snap = s /\ r.id = EvidenceID(s, canonical[s], u)
        BY <3>1, RowsNameUnits DEF NewTextRow
      <3> QED BY <1>1, <3>2 DEF TypeOK, UnderWay, HasUnit
    <2> QED BY <1>1, <2>1, <2>2 DEF RebuildText
  <1>4. ASSUME NEW t \in Snapshots PROVE UnderWay(t)'
    <2>1. update'[t].step \in {"text", "vectors", "activate"} =>
             update[t].step \in {"text", "vectors", "activate"} /\ update'[t].base = update[t].base
      BY <1>1 DEF TypeOK, Typed, RebuildText, Updates
    <2> QED BY <1>1, <2>1 DEF TypeOK, UnderWay
  <1> QED BY <1>2, <1>3, <1>4 DEF TypeOK

LEMMA RebuildVectorsTypeOK ==
    ASSUME UpdateAssumption, TypeOK, NEW s \in Snapshots, RebuildVectors(s)
    PROVE  TypeOK'
  <1> DEFINE p == update[s].profile
             units == EligibleUnits(canonical[s])
             missing == {u \in units : NewVectorRow(s, u) = {}}
  <1>1. /\ update[s].step = "vectors"
        /\ canonical' = canonical /\ text' = text /\ active' = active
        /\ vectors' = (vectors \ VectorsOf(p, s)) \cup UNION {NewVectorRow(s, u) : u \in units}
        /\ update' = [update EXCEPT ![s].step = "activate", ![s].result = EmbeddingResult(s, missing)]
    BY DEF RebuildVectors
  <1>2. EmbeddingResult(s, missing) \in Results
    BY DEF EmbeddingResult, Results
  <1>3. Typed'
    BY <1>1, <1>2, EntryTyped DEF TypeOK, Typed, Steps
  <1>4. ASSUME NEW r \in text' \cup vectors' PROVE HasUnit(r)'
    <2>1. CASE r \in text \cup vectors
      BY <1>1, <2>1 DEF TypeOK, HasUnit
    <2>2. CASE r \in UNION {NewVectorRow(s, u) : u \in units}
      <3>1. PICK u \in canonical[s].units : r \in NewVectorRow(s, u)
        BY <2>2 DEF EligibleUnits
      <3>2. \E made : r = VectorRow(p, s, canonical[s], u, made)
        BY <3>1 DEF NewVectorRow
      <3>3. r.snap = s /\ r.id = EvidenceID(s, canonical[s], u)
        BY <3>2, RowsNameUnits
      <3> QED BY <1>1, <3>3 DEF TypeOK, UnderWay, HasUnit
    <2> QED BY <1>1, <2>1, <2>2
  <1>5. ASSUME NEW t \in Snapshots PROVE UnderWay(t)'
    <2>1. update'[t].step \in {"text", "vectors", "activate"} =>
             update[t].step \in {"text", "vectors", "activate"} /\ update'[t].base = update[t].base
      BY <1>1 DEF TypeOK, Typed, Updates
    <2> QED BY <1>1, <2>1 DEF TypeOK, UnderWay
  <1> QED BY <1>3, <1>4, <1>5 DEF TypeOK

\* Steps that touch no row: failure of the vectors, activation, an abort.
LEMMA OtherTypeOK ==
    ASSUME UpdateAssumption, TypeOK, NEW s \in Snapshots,
           VectorsFail(s) \/ Activate(s) \/ Abort(s)
    PROVE  TypeOK'
  <1>1. /\ update[s].step \in {"text", "vectors", "activate"}
        /\ canonical' = canonical /\ text' = text /\ vectors' = vectors
    BY DEF VectorsFail, Activate, Abort
  <1>2. Idle \in Updates
    BY DEF Idle, Updates, Steps, Results
  <1>3. Typed'
    <2>1. CASE VectorsFail(s)
      BY <2>1, EntryTyped DEF VectorsFail, TypeOK, Typed, Steps, Results
    <2>2. CASE Activate(s)
      BY <2>2, EntryTyped DEF Activate, TypeOK, Typed, Steps, Results
    <2>3. CASE Abort(s)
      BY <1>2, <2>3 DEF Abort, TypeOK, Typed
    <2> QED BY <2>1, <2>2, <2>3
  <1>4. \A r \in text' \cup vectors' : HasUnit(r)'
    BY <1>1 DEF TypeOK, HasUnit
  <1>5. ASSUME NEW t \in Snapshots PROVE UnderWay(t)'
    <2>1. update'[t].step \in {"text", "vectors", "activate"} =>
             update[t].step \in {"text", "vectors", "activate"} /\ update'[t].base = update[t].base
      <3>1. CASE VectorsFail(s)
        BY <1>1, <3>1 DEF TypeOK, Typed, Updates, VectorsFail
      <3>2. CASE Activate(s)
        BY <1>1, <3>2 DEF TypeOK, Typed, Updates, Activate
      <3>3. CASE Abort(s)
        BY <1>1, <3>3 DEF TypeOK, Typed, Abort, Idle
      <3> QED BY <3>1, <3>2, <3>3
    <2> QED BY <1>1, <2>1 DEF TypeOK, UnderWay
  <1> QED BY <1>3, <1>4, <1>5 DEF TypeOK

LEMMA StutterTypeOK == ASSUME TypeOK, UNCHANGED vars PROVE TypeOK'
  BY DEF TypeOK, Typed, HasUnit, UnderWay, vars

\* The types of incremental_apply.go's updates and of the rows of the two
\* projections, and that a row always belongs to a committed snapshot.
THEOREM TypeCorrect == Spec => []TypeOK
  <1> USE UpdateAssumption
  <1>1. Init => TypeOK
    BY InitTypeOK
  <1>2. TypeOK /\ [Next]_vars => TypeOK'
    BY IngestTypeOK, PersistTypeOK, RebuildTextTypeOK, RebuildVectorsTypeOK,
       OtherTypeOK, StutterTypeOK DEF Next
  <1> QED BY <1>1, <1>2, PTL DEF Spec

----------------------------------------------------------------------------
(* Equivalence of the text.  TextEquivalent is inductive once it is known  *)
(* that a built text has a committed snapshot.                             *)

Committed ==
    \A s \in Snapshots : TextBuilt(s) => canonical[s] # NoBundle

TextInv == TypeOK /\ Committed /\ TextEquivalent

\* A copied row says what the unit says: the predicate compares every column
\* that is not replaced.
LEMMA CopyIsRow ==
    ASSUME NEW s, NEW u
    PROVE  NewTextRow(s, u) = TextRow(s, canonical[s], u)
  <1> DEFINE row    == TextRow(s, canonical[s], u)
             copies == {r \in text : Reuses(s, u) /\ CopyMatches(s, u, r)}
             copied == CHOOSE r \in copies : TRUE
  <1>1. CASE copies = {}
    BY <1>1 DEF NewTextRow
  <1>2. CASE copies # {}
    <2>1. copied \in copies
      BY <1>2
    <2>2. copied.hash = u.hash /\ copied.state = u.state /\ copied.meta = u.meta
      BY <2>1 DEF CopyMatches
    <2> QED BY <1>2, <2>2 DEF NewTextRow, TextRow
  <1> QED BY <1>1, <1>2

\* The rows of one snapshot after its projection has been replaced, and those
\* of the others.
LEMMA ReplaceText ==
    ASSUME NEW s, NEW b, text' = (text \ TextOf(s)) \cup FullText(s, b)
    PROVE  /\ TextOf(s)' = FullText(s, b)
           /\ \A t : t # s => TextOf(t)' = TextOf(t)
  <1>1. \A r \in FullText(s, b) : r.snap = s
    BY DEF FullText, TextRow
  <1> QED BY <1>1 DEF TextOf

\* A snapshot keeps its text and its bundle in a step that does neither
\* rebuild it nor make it active.
LEMMA KeepsText ==
    ASSUME TextInv, NEW t \in Snapshots,
           TextBuilt(t)' => TextBuilt(t),
           canonical[t] # NoBundle => canonical'[t] = canonical[t],
           TextOf(t)' = TextOf(t)
    PROVE  TextBuilt(t)' => /\ canonical'[t] # NoBundle
                            /\ TextOf(t)' = FullText(t, canonical'[t])
  BY DEF TextInv, Committed, TextEquivalent

LEMMA IngestText ==
    ASSUME UpdateAssumption, TextInv, NEW s \in Snapshots, NEW b \in Bundles,
           NEW p \in Profiles, NEW answered \in BOOLEAN, Ingest(s, b, p, answered),
           NEW t \in Snapshots
    PROVE  TextBuilt(t)' => canonical'[t] # NoBundle /\ TextOf(t)' = FullText(t, canonical'[t])
  <1>1. TextOf(s)' = FullText(s, b) /\ \A q : q # s => TextOf(q)' = TextOf(q)
    BY ReplaceText DEF Ingest
  <1>2. canonical'[s] = b /\ b # NoBundle /\ \A q \in Snapshots \ {s} : canonical'[q] = canonical[q]
    BY DEF Ingest, TextInv, TypeOK, Typed, UpdateAssumption
  <1>3. CASE t = s
    BY <1>1, <1>2, <1>3
  <1>4. CASE t # s
    <2>1. TextBuilt(t)' => TextBuilt(t)
      BY <1>4 DEF Ingest, TextBuilt
    <2> QED BY <1>1, <1>2, <1>4, <2>1, KeepsText
  <1> QED BY <1>3, <1>4

LEMMA PersistText ==
    ASSUME UpdateAssumption, TextInv, NEW s \in Snapshots, NEW base \in Snapshots,
           NEW b \in Bundles, NEW p \in Profiles, NEW compatible \in BOOLEAN,
           Persist(s, base, b, p, compatible), NEW t \in Snapshots
    PROVE  TextBuilt(t)' => canonical'[t] # NoBundle /\ TextOf(t)' = FullText(t, canonical'[t])
  <1> DEFINE Entry(step, result) == [step |-> step, base |-> base, profile |-> p,
                                     compatible |-> compatible, result |-> result]
  <1>1. /\ text' = text /\ active' = active
        /\ canonical' = canonical \/ canonical' = [canonical EXCEPT ![s] = b]
        /\ canonical[s] \in {NoBundle, b}
        /\ \/ update' = [update EXCEPT ![s] = Entry("text", "none")]
           \/ update' = [update EXCEPT ![s] = Entry("done", "refused")]
    BY DEF Persist
  <1>2. TextBuilt(t)' => TextBuilt(t)
    <2>1. CASE t = s
      <3>1. update'[s].step \in {"text", "done"} /\ (update'[s].step = "done" => update'[s].result = "refused")
        BY <1>1 DEF TextInv, TypeOK, Typed
      <3> QED BY <1>1, <2>1, <3>1 DEF TextBuilt
    <2>2. CASE t # s
      <3>1. update'[t] = update[t]
        BY <1>1, <2>2 DEF TextInv, TypeOK, Typed
      <3> QED BY <1>1, <3>1 DEF TextBuilt
    <2> QED BY <2>1, <2>2
  <1>3. canonical[t] # NoBundle => canonical'[t] = canonical[t]
    BY <1>1 DEF TextInv, TypeOK, Typed
  <1>4. TextOf(t)' = TextOf(t)
    BY <1>1 DEF TextOf
  <1> QED BY <1>2, <1>3, <1>4, KeepsText

LEMMA RebuildTextText ==
    ASSUME UpdateAssumption, TextInv, NEW s \in Snapshots, RebuildText(s), NEW t \in Snapshots
    PROVE  TextBuilt(t)' => canonical'[t] # NoBundle /\ TextOf(t)' = FullText(t, canonical'[t])
  <1> DEFINE persistible == {u \in canonical[s].units : Persistible(u)}
  <1>1. update[s].step = "text" /\ canonical' = canonical /\ active' = active /\ canonical[s] # NoBundle
    BY DEF RebuildText, TextInv, TypeOK, UnderWay
  <1>2. \A q \in Snapshots \ {s} : update'[q] = update[q]
    BY DEF RebuildText, TextInv, TypeOK, Typed
  <1>3. {NewTextRow(s, u) : u \in persistible} = FullText(s, canonical[s])
    BY CopyIsRow DEF FullText
  <1>4. CASE text' = (text \ TextOf(s)) \cup {NewTextRow(s, u) : u \in persistible}
    <2>1. TextOf(s)' = FullText(s, canonical[s]) /\ \A q : q # s => TextOf(q)' = TextOf(q)
      BY <1>3, <1>4, ReplaceText
    <2>2. CASE t = s
      BY <1>1, <2>1, <2>2
    <2>3. CASE t # s
      <3>1. TextBuilt(t)' => TextBuilt(t)
        BY <1>1, <1>2, <2>3 DEF TextBuilt
      <3> QED BY <1>1, <2>1, <2>3, <3>1, KeepsText
    <2> QED BY <2>2, <2>3
  <1>5. CASE text' = text /\ update' = [update EXCEPT ![s].step = "done", ![s].result = "refused"]
    <2>1. update'[s].step = "done" /\ update'[s].result = "refused"
      BY <1>5 DEF TextInv, TypeOK, Typed, Updates
    <2>2. TextBuilt(t)' => TextBuilt(t)
      BY <1>1, <1>2, <2>1 DEF TextBuilt
    <2>3. TextOf(t)' = TextOf(t)
      BY <1>5 DEF TextOf
    <2> QED BY <1>1, <2>2, <2>3, KeepsText
  <1> QED BY <1>4, <1>5 DEF RebuildText

\* The steps that write no text; the snapshot they make active is built.
LEMMA OtherText ==
    ASSUME UpdateAssumption, TextInv, NEW s \in Snapshots,
           RebuildVectors(s) \/ VectorsFail(s) \/ Activate(s) \/ Abort(s), NEW t \in Snapshots
    PROVE  TextBuilt(t)' => canonical'[t] # NoBundle /\ TextOf(t)' = FullText(t, canonical'[t])
  <1>1. canonical' = canonical /\ text' = text
    BY DEF RebuildVectors, VectorsFail, Activate, Abort
  <1>2. TextBuilt(t)' => TextBuilt(t)
    <2>1. CASE t = s /\ ~Abort(s)
      BY <2>1 DEF RebuildVectors, VectorsFail, Activate, TextBuilt
    <2>2. CASE t # s
      <3>1. update'[t] = update[t] /\ (active' = t => active = t)
        BY <2>2 DEF RebuildVectors, VectorsFail, Activate, Abort, TextInv, TypeOK, Typed
      <3> QED BY <3>1 DEF TextBuilt
    <2>3. CASE t = s /\ Abort(s)
      <3>1. update'[s].step = "idle" /\ active' = active
        BY <2>3 DEF Abort, TextInv, TypeOK, Typed, Idle
      <3> QED BY <2>3, <3>1 DEF TextBuilt
    <2> QED BY <2>1, <2>2, <2>3
  <1>3. TextOf(t)' = TextOf(t)
    BY <1>1 DEF TextOf
  <1> QED BY <1>1, <1>2, <1>3, KeepsText

\* Whichever rows an update copied, from whatever base, interrupted or not,
\* the text of its snapshot is the one a full ingestion writes.
THEOREM Equivalence == Spec => []TextEquivalent
  <1> USE UpdateAssumption
  <1>1. Init => TextInv
    <2> SUFFICES ASSUME Init PROVE Committed /\ TextEquivalent
      BY InitTypeOK DEF TextInv
    <2>1. \A s \in Snapshots : ~TextBuilt(s)
      BY DEF Init, Idle, TextBuilt, UpdateAssumption
    <2> QED BY <2>1 DEF Committed, TextEquivalent
  <1>2. TextInv /\ [Next]_vars => TextInv'
    <2> SUFFICES ASSUME TextInv, [Next]_vars PROVE TextInv'
      OBVIOUS
    <2>1. TypeOK'
      BY IngestTypeOK, PersistTypeOK, RebuildTextTypeOK, RebuildVectorsTypeOK,
         OtherTypeOK, StutterTypeOK DEF Next, TextInv
    <2>2. ASSUME NEW t \in Snapshots
          PROVE  TextBuilt(t)' => canonical'[t] # NoBundle /\ TextOf(t)' = FullText(t, canonical'[t])
      <3>1. CASE Next
        BY <3>1, IngestText, PersistText, RebuildTextText, OtherText DEF Next
      <3>2. CASE UNCHANGED vars
        <4>1. (TextBuilt(t)' <=> TextBuilt(t)) /\ TextOf(t)' = TextOf(t) /\ canonical' = canonical
          BY <3>2 DEF vars, TextBuilt, TextOf
        <4> QED BY <4>1, KeepsText
      <3> QED BY <3>1, <3>2
    <2> QED BY <2>1, <2>2 DEF TextInv, Committed, TextEquivalent
  <1>3. TextInv => TextEquivalent
    BY DEF TextInv
  <1> QED BY <1>1, <1>2, <1>3, PTL DEF Spec

----------------------------------------------------------------------------
(* Vectors.                                                                *)

LEMMA CachedVector ==
    ASSUME VectorsInTheirSpace, NEW p, NEW hash
    PROVE  Vector(p, hash) = <<p, hash>>
  <1>1. CASE Cached(p, hash) = {}
    BY <1>1 DEF Vector
  <1>2. CASE Cached(p, hash) # {}
    <2> DEFINE row == CHOOSE r \in Cached(p, hash) : TRUE
    <2>1. row \in Cached(p, hash)
      BY <1>2
    <2>2. row.made = <<p, hash>>
      BY <2>1 DEF Cached, VectorsInTheirSpace
    <2> QED BY <1>2, <2>2 DEF Vector
  <1> QED BY <1>1, <1>2

\* What a rebuild writes for a unit: its own row, of the update's profile,
\* made for the unit's content.
LEMMA RebuiltRow ==
    ASSUME NEW s, NEW u, NEW r \in NewVectorRow(s, u)
    PROVE  /\ r.profile = update[s].profile /\ r.snap = s
           /\ r.id = EvidenceID(s, canonical[s], u) /\ r.hash = u.hash
           /\ VectorsInTheirSpace => r.made = <<r.profile, r.hash>>
  <1> DEFINE p      == update[s].profile
             copies == {q \in vectors : CopyVectorMatches(s, u, q)}
             copied == CHOOSE q \in copies : TRUE
             reused == Reuses(s, u) /\ update[s].compatible
  <1>1. CASE reused
    <2>1. copies # {} /\ r = VectorRow(p, s, canonical[s], u, copied.made)
      BY <1>1 DEF NewVectorRow
    <2>2. copied \in copies
      BY <2>1
    <2>3. copied \in vectors /\ copied.profile = p /\ copied.hash = u.hash
      BY <2>2 DEF CopyVectorMatches
    <2>4. VectorsInTheirSpace => copied.made = <<p, u.hash>>
      BY <2>3 DEF VectorsInTheirSpace
    <2> QED BY <2>1, <2>4 DEF VectorRow
  <1>2. CASE ~reused
    <2>1. r = VectorRow(p, s, canonical[s], u, Vector(p, u.hash))
      BY <1>2 DEF NewVectorRow
    <2> QED BY <2>1, CachedVector DEF VectorRow
  <1> QED BY <1>1, <1>2

\* Only full ingestions and rebuilds of vectors write vectors.
LEMMA OthersKeepVectors ==
    ASSUME NEW s, RebuildText(s) \/ VectorsFail(s) \/ Activate(s) \/ Abort(s)
    PROVE  vectors' = vectors
  BY DEF RebuildText, VectorsFail, Activate, Abort

LEMMA PersistKeepsVectors ==
    ASSUME NEW s, NEW base, NEW b, NEW p, NEW compatible, Persist(s, base, b, p, compatible)
    PROVE  vectors' = vectors
  BY DEF Persist

\* Vectors never leave the space of the profile that made them.
THEOREM SpacesApart == Spec => []VectorsInTheirSpace
  <1>1. Init => VectorsInTheirSpace
    BY DEF Init, VectorsInTheirSpace
  <1>2. VectorsInTheirSpace /\ [Next]_vars => VectorsInTheirSpace'
    <2> SUFFICES ASSUME VectorsInTheirSpace, [Next]_vars, NEW r \in vectors', r \notin vectors
                 PROVE  r.made = <<r.profile, r.hash>>
      BY DEF VectorsInTheirSpace
    <2>1. CASE \E s \in Snapshots, b \in Bundles, p \in Profiles, answered \in BOOLEAN :
                 Ingest(s, b, p, answered)
      <3>1. PICK s \in Snapshots, b \in Bundles, p \in Profiles, answered \in BOOLEAN :
              Ingest(s, b, p, answered)
        BY <2>1
      <3>2. r \in {VectorRow(p, s, b, u, Vector(p, u.hash)) : u \in EligibleUnits(b)}
        BY <3>1 DEF Ingest
      <3>3. PICK u \in EligibleUnits(b) : r = VectorRow(p, s, b, u, Vector(p, u.hash))
        BY <3>2
      <3>4. Vector(p, u.hash) = <<p, u.hash>>
        BY CachedVector
      <3> QED BY <3>3, <3>4 DEF VectorRow
    <2>2. CASE \E s \in Snapshots : RebuildVectors(s)
      <3>1. PICK s \in Snapshots : RebuildVectors(s)
        BY <2>2
      <3>2. PICK u \in EligibleUnits(canonical[s]) : r \in NewVectorRow(s, u)
        BY <3>1 DEF RebuildVectors
      <3> QED BY <3>2, RebuiltRow
    <2>3. CASE vectors' = vectors
      BY <2>3
    <2>4. UNCHANGED vars => vectors' = vectors
      BY DEF vars
    <2> QED BY <2>1, <2>2, <2>3, <2>4, OthersKeepVectors, PersistKeepsVectors DEF Next
  <1> QED BY <1>1, <1>2, PTL DEF Spec

----------------------------------------------------------------------------
(* Complete updates.  The invariant adds why "complete" was reported: no   *)
(* unit of the snapshot was barred from embedding.                         *)

Embedded(s) ==
    \A u \in canonical[s].units : \E r \in VectorsOf(update[s].profile, s) :
        r.id = EvidenceID(s, canonical[s], u) /\ r.hash = u.hash

CompleteInv ==
    \A s \in Snapshots : update[s].result = "complete" =>
        /\ canonical[s] # NoBundle
        /\ EligibleUnits(canonical[s]) = canonical[s].units
        /\ Embedded(s)

\* The entry of an update survives with what it reports.
SameReport(t) ==
    update'[t].result = "complete" =>
        update[t].result = "complete" /\ update'[t].profile = update[t].profile

\* What becomes of snapshot t in a step that replaces no vector of t.
LEMMA KeepsComplete ==
    ASSUME CompleteInv, NEW t \in Snapshots, SameReport(t),
           canonical[t] # NoBundle => canonical'[t] = canonical[t],
           \A r : r.snap = t => (r \in vectors => r \in vectors')
    PROVE  update'[t].result = "complete" =>
              /\ canonical'[t] # NoBundle
              /\ EligibleUnits(canonical'[t]) = canonical'[t].units
              /\ Embedded(t)'
  BY DEF CompleteInv, SameReport, Embedded, VectorsOf

LEMMA IngestComplete ==
    ASSUME UpdateAssumption, TypeOK, CompleteInv, NEW s \in Snapshots, NEW b \in Bundles,
           NEW p \in Profiles, NEW answered \in BOOLEAN, Ingest(s, b, p, answered),
           NEW t \in Snapshots
    PROVE  update'[t].result = "complete" =>
              /\ canonical'[t] # NoBundle
              /\ EligibleUnits(canonical'[t]) = canonical'[t].units
              /\ Embedded(t)'
  <1> DEFINE new == {VectorRow(p, s, b, u, Vector(p, u.hash)) : u \in EligibleUnits(b)}
  <1>1. /\ update' = update
        /\ vectors' = vectors \/ vectors' = (vectors \ VectorsOf(p, s)) \cup new
    BY DEF Ingest
  <1>2. canonical[t] # NoBundle => canonical'[t] = canonical[t]
    BY DEF Ingest, TypeOK, Typed
  <1>3. SameReport(t)
    BY <1>1 DEF SameReport
  <1>4. CASE \A r : r.snap = t => (r \in vectors => r \in vectors')
    BY <1>2, <1>3, <1>4, KeepsComplete
  <1>5. CASE /\ vectors' = (vectors \ VectorsOf(p, s)) \cup new
             /\ t = s /\ update[t].result = "complete"
    <2>1. /\ canonical[t] # NoBundle /\ canonical'[t] = canonical[t] /\ canonical[t] = b
          /\ EligibleUnits(b) = b.units /\ Embedded(t)
      BY <1>2, <1>5 DEF CompleteInv, Ingest
    <2>2. CASE update[t].profile = p
      <3>1. ASSUME NEW u \in b.units
            PROVE  \E r \in VectorsOf(p, t)' : r.id = EvidenceID(t, b, u) /\ r.hash = u.hash
        <4> DEFINE row == VectorRow(p, s, b, u, Vector(p, u.hash))
        <4>1. row \in vectors'
          BY <1>5, <2>1
        <4>2. row.profile = p /\ row.snap = t /\ row.id = EvidenceID(t, b, u) /\ row.hash = u.hash
          BY <1>5 DEF VectorRow
        <4> HIDE DEF row
        <4> QED BY <4>1, <4>2 DEF VectorsOf
      <3> QED BY <1>1, <2>1, <2>2, <3>1 DEF Embedded
    <2>3. CASE update[t].profile # p
      <3>1. \A r \in VectorsOf(update[t].profile, t) : r \in vectors'
        BY <1>5, <2>3 DEF VectorsOf
      <3>2. \A r \in VectorsOf(update[t].profile, t) : r \in VectorsOf(update[t].profile, t)'
        BY <1>1, <3>1 DEF VectorsOf
      <3> QED BY <1>1, <2>1, <3>2 DEF Embedded
    <2> QED BY <2>1, <2>2, <2>3
  <1>6. vectors' = vectors \/ t # s => \A r : r.snap = t => (r \in vectors => r \in vectors')
    BY <1>1 DEF VectorsOf
  <1> QED BY <1>1, <1>4, <1>5, <1>6

LEMMA RebuildVectorsComplete ==
    ASSUME UpdateAssumption, TypeOK, CompleteInv, NEW s \in Snapshots, RebuildVectors(s),
           NEW t \in Snapshots
    PROVE  update'[t].result = "complete" =>
              /\ canonical'[t] # NoBundle
              /\ EligibleUnits(canonical'[t]) = canonical'[t].units
              /\ Embedded(t)'
  <1> DEFINE p == update[s].profile
             units == EligibleUnits(canonical[s])
             missing == {u \in units : NewVectorRow(s, u) = {}}
  <1>1. /\ update[s].step = "vectors" /\ canonical' = canonical
        /\ vectors' = (vectors \ VectorsOf(p, s)) \cup UNION {NewVectorRow(s, u) : u \in units}
        /\ update' = [update EXCEPT ![s].step = "activate", ![s].result = EmbeddingResult(s, missing)]
    BY DEF RebuildVectors
  <1>2. CASE t # s
    <2>1. update'[t] = update[t]
      BY <1>1, <1>2 DEF TypeOK, Typed
    <2>2. SameReport(t)
      BY <2>1 DEF SameReport
    <2>3. \A r : r.snap = t => (r \in vectors => r \in vectors')
      BY <1>1, <1>2 DEF VectorsOf
    <2> QED BY <1>1, <2>2, <2>3, KeepsComplete
  <1>3. CASE t = s /\ update'[t].result = "complete"
    <2>1. update'[s].result = EmbeddingResult(s, missing) /\ update'[s].profile = p
      BY <1>1 DEF TypeOK, Typed, Updates
    <2>2. missing = {} /\ units = canonical[s].units
      BY <1>3, <2>1 DEF EmbeddingResult
    <2>3. ASSUME NEW u \in canonical[s].units
          PROVE  \E r \in vectors' : /\ r.profile = p /\ r.snap = s
                                     /\ r.id = EvidenceID(s, canonical[s], u) /\ r.hash = u.hash
      <3>1. PICK r \in NewVectorRow(s, u) : TRUE
        BY <2>2
      <3>2. r \in vectors'
        BY <1>1, <2>2, <3>1
      <3>3. /\ r.profile = p /\ r.snap = s
            /\ r.id = EvidenceID(s, canonical[s], u) /\ r.hash = u.hash
        BY <3>1, RebuiltRow
      <3> QED BY <3>2, <3>3
    <2>4. canonical[s] # NoBundle
      BY <1>1 DEF TypeOK, UnderWay
    <2>5. Embedded(s)'
      BY <1>1, <2>1, <2>3 DEF Embedded, VectorsOf
    <2> QED BY <1>1, <1>3, <2>2, <2>4, <2>5
  <1> QED BY <1>2, <1>3

LEMMA OtherComplete ==
    ASSUME UpdateAssumption, TypeOK, CompleteInv, NEW s \in Snapshots,
           \/ \E base \in Snapshots, b \in Bundles, p \in Profiles, compatible \in BOOLEAN :
                 Persist(s, base, b, p, compatible)
           \/ RebuildText(s) \/ VectorsFail(s) \/ Activate(s) \/ Abort(s),
           NEW t \in Snapshots
    PROVE  update'[t].result = "complete" =>
              /\ canonical'[t] # NoBundle
              /\ EligibleUnits(canonical'[t]) = canonical'[t].units
              /\ Embedded(t)'
  <1>1. vectors' = vectors
    BY OthersKeepVectors, PersistKeepsVectors
  <1>2. canonical[t] # NoBundle => canonical'[t] = canonical[t]
    BY DEF Persist, RebuildText, VectorsFail, Activate, Abort, TypeOK, Typed
  <1>3. SameReport(t)
    <2>1. CASE \E base \in Snapshots, b \in Bundles, p \in Profiles, compatible \in BOOLEAN :
                 Persist(s, base, b, p, compatible)
      BY <2>1 DEF Persist, SameReport, TypeOK, Typed
    <2>2. CASE RebuildText(s)
      BY <2>2 DEF RebuildText, SameReport, TypeOK, Typed, Updates
    <2>3. CASE VectorsFail(s)
      BY <2>3 DEF VectorsFail, SameReport, TypeOK, Typed, Updates
    <2>4. CASE Activate(s)
      BY <2>4 DEF Activate, SameReport, TypeOK, Typed, Updates
    <2>5. CASE Abort(s)
      BY <2>5 DEF Abort, SameReport, TypeOK, Typed, Idle
    <2> QED BY <2>1, <2>2, <2>3, <2>4, <2>5
  <1> QED BY <1>1, <1>2, <1>3, KeepsComplete

\* An update that reports no limitation has given every unit of its snapshot
\* a vector of its profile, and no later step takes one away.
THEOREM CompleteUpdates == Spec => []CompleteIsEmbedded
  <1> USE UpdateAssumption
  <1>1. Init => CompleteInv
    BY DEF Init, CompleteInv, Idle
  <1>2. TypeOK /\ CompleteInv /\ [Next]_vars => CompleteInv'
    <2> SUFFICES ASSUME TypeOK, CompleteInv, [Next]_vars, NEW t \in Snapshots
                 PROVE  update'[t].result = "complete" =>
                           /\ canonical'[t] # NoBundle
                           /\ EligibleUnits(canonical'[t]) = canonical'[t].units
                           /\ Embedded(t)'
      BY DEF CompleteInv
    <2>1. CASE Next
      BY <2>1, IngestComplete, RebuildVectorsComplete, OtherComplete DEF Next
    <2>2. CASE UNCHANGED vars
      <3>1. vectors' = vectors /\ canonical' = canonical /\ SameReport(t)
        BY <2>2 DEF vars, SameReport
      <3> QED BY <3>1, KeepsComplete
    <2> QED BY <2>1, <2>2
  <1>3. CompleteInv => CompleteIsEmbedded
    BY DEF CompleteInv, Embedded, CompleteIsEmbedded
  <1> QED BY <1>1, <1>2, <1>3, TypeCorrect, PTL DEF Spec

----------------------------------------------------------------------------
(* Provenance.  Whatever the units of two bundles share, a unit is reused  *)
(* only with the artifact and the observation it depends on: these are     *)
(* facts of the new bundle, so they are either reused or changed.          *)

\* A dependency of a reused unit that the new bundle has was itself found,
\* under its key and with its digest, in the previous bundle.
LEMMA DependencyReused ==
    ASSUME NEW s, NEW b, NEW t, NEW c, NEW u, Reusable(s, b, t, c, u),
           NEW f \in BundleFacts(t, c), Key(f) \in EvidenceFact(t, c, u).deps
    PROVE  /\ b.config = c.config
           /\ \E g \in UniqueFacts(BundleFacts(s, b)) : Key(g) = Key(f) /\ g.digest = f.digest
  <1>1. Key(f) \notin ChangedKeys(s, b, t, c)
    BY DEF Reusable
  <1>2. f \in ReusedFacts(s, b, t, c)
    BY <1>1 DEF ChangedKeys
  <1> QED BY <1>2 DEF ReusedFacts

\* The fact of a bundle under the key of an artifact is that artifact's.
LEMMA ArtifactOfKey ==
    ASSUME NEW s, NEW b, NEW p, NEW g \in BundleFacts(s, b),
           Key(g) = <<"artifact", <<p>>>>
    PROVE  p \in DOMAIN b.files /\ g.digest = <<b.files[p]>>
  <1>1. g.kind = "artifact" /\ g.key = <<p>>
    BY DEF Key
  <1>2. g \in ArtifactFacts(b)
    BY <1>1 DEF BundleFacts, ObservationFacts, GapFacts, EvidenceFact
  <1> QED BY <1>1, <1>2 DEF ArtifactFacts

\* The fact of a bundle under the key of an observation is that of a unit.
LEMMA ObservationOfKey ==
    ASSUME NEW s, NEW b, NEW path, NEW slot, NEW g \in BundleFacts(s, b),
           Key(g) = <<"observation", <<path, slot>>>>
    PROVE  \E v \in b.units : v.path = path /\ v.slot = slot /\ g.digest = <<v.seen>>
  <1>1. g.kind = "observation" /\ g.key = <<path, slot>>
    BY DEF Key
  <1>2. g \in ObservationFacts(b)
    BY <1>1 DEF BundleFacts, ArtifactFacts, GapFacts, EvidenceFact
  <1> QED BY <1>1, <1>2 DEF ObservationFacts

ObservationFact(b, v) ==
    [kind |-> "observation", key |-> <<v.path, v.slot>>,
     id |-> <<v.path, v.slot, b.files[v.path]>>, digest |-> <<v.seen>>,
     deps |-> {<<"artifact", <<v.path>>>>}]

\* Every unit gives an observation.
LEMMA UnitObserved ==
    ASSUME NEW s, NEW b, NEW v \in b.units
    PROVE  /\ ObservationFact(b, v) \in BundleFacts(s, b)
           /\ Key(ObservationFact(b, v)) = <<"observation", <<v.path, v.slot>>>>
           /\ ObservationFact(b, v).digest = <<v.seen>>
  BY DEF BundleFacts, ObservationFacts, ObservationFact, Key

\* What Reusable lets through: the artifact and the observation of a reused
\* unit are unchanged, and the pairing picks a unit with that observation.
LEMMA ReusedUnit ==
    ASSUME NEW s, NEW b, NEW t, NEW c, NEW u \in c.units, u.path \in DOMAIN c.files,
           Reusable(s, b, t, c, u)
    PROVE  /\ b.config = c.config
           /\ b.files[u.path] = c.files[u.path]
           /\ Previous(s, b, u).seen = u.seen
  <1> DEFINE a == [kind |-> "artifact", key |-> <<u.path>>, id |-> <<u.path, c.files[u.path]>>,
                   digest |-> <<c.files[u.path]>>, deps |-> {}]
  <1>1. EvidenceFact(t, c, u).deps =
            {<<"artifact", <<u.path>>>>, <<"observation", <<u.path, u.slot>>>>}
    BY DEF EvidenceFact
  <1>2. a \in BundleFacts(t, c) /\ Key(a) = <<"artifact", <<u.path>>>> /\ a.digest = <<c.files[u.path]>>
    BY DEF BundleFacts, ArtifactFacts, Key
  <1> HIDE DEF a
  <1>3. b.config = c.config /\ b.files[u.path] = c.files[u.path]
    <2>1. b.config = c.config
      BY <1>1, <1>2, DependencyReused
    <2>2. PICK g \in UniqueFacts(BundleFacts(s, b)) :
              Key(g) = <<"artifact", <<u.path>>>> /\ g.digest = <<c.files[u.path]>>
      BY <1>1, <1>2, DependencyReused
    <2>3. g \in BundleFacts(s, b)
      BY <2>2 DEF UniqueFacts
    <2>4. <<b.files[u.path]>> = <<c.files[u.path]>>
      BY <2>2, <2>3, ArtifactOfKey
    <2> QED BY <2>1, <2>4
  <1>4. Previous(s, b, u).seen = u.seen
    <2>1. PICK g \in UniqueFacts(BundleFacts(s, b)) :
              Key(g) = <<"observation", <<u.path, u.slot>>>> /\ g.digest = <<u.seen>>
      <3>1. /\ ObservationFact(c, u) \in BundleFacts(t, c)
            /\ Key(ObservationFact(c, u)) = <<"observation", <<u.path, u.slot>>>>
            /\ ObservationFact(c, u).digest = <<u.seen>>
        BY UnitObserved
      <3>2. Key(ObservationFact(c, u)) \in EvidenceFact(t, c, u).deps
        BY <1>1, <3>1
      <3>3. \E g \in UniqueFacts(BundleFacts(s, b)) :
               Key(g) = Key(ObservationFact(c, u)) /\ g.digest = ObservationFact(c, u).digest
        BY <3>1, <3>2, DependencyReused
      <3> QED BY <3>1, <3>3
    <2>2. g \in BundleFacts(s, b)
      BY <2>1 DEF UniqueFacts
    <2>3. PICK v \in b.units : v.path = u.path /\ v.slot = u.slot
      BY <2>1, <2>2, ObservationOfKey
    <2>4. /\ Previous(s, b, u) \in b.units
          /\ Previous(s, b, u).path = u.path /\ Previous(s, b, u).slot = u.slot
      <3>1. <<v.path, v.slot>> = <<u.path, u.slot>>
        BY <2>3
      <3>2. /\ Previous(s, b, u) \in b.units
            /\ <<Previous(s, b, u).path, Previous(s, b, u).slot>> = <<u.path, u.slot>>
        BY <3>1 DEF Previous
      <3> QED BY <3>2
    <2> DEFINE w == Previous(s, b, u)
    <2> HIDE DEF w
    <2>5. w \in b.units /\ w.path = u.path /\ w.slot = u.slot
      BY <2>4 DEF w
    <2>6. /\ ObservationFact(b, w) \in BundleFacts(s, b)
          /\ Key(ObservationFact(b, w)) = <<"observation", <<u.path, u.slot>>>>
          /\ ObservationFact(b, w).digest = <<w.seen>>
      BY <2>5, UnitObserved
    <2>7. ObservationFact(b, w) = g
      BY <2>1, <2>6 DEF UniqueFacts
    <2>8. <<w.seen>> = <<u.seen>>
      BY <2>1, <2>6, <2>7
    <2> QED BY <2>8 DEF w
  <1> QED BY <1>3, <1>4

\* Nothing an update takes over was extracted from another content, under
\* another configuration or from another observation.
THEOREM ReuseIsSound == Spec => []ReuseKeepsProvenance
  <1>1. TypeOK => ReuseKeepsProvenance
    <2> SUFFICES ASSUME TypeOK, NEW s \in Snapshots,
                        update[s].step \in {"text", "vectors", "activate"},
                        NEW u \in canonical[s].units, Reuses(s, u)
                 PROVE  LET b == canonical[update[s].base]
                        IN  /\ b.config = canonical[s].config
                            /\ b.files[u.path] = canonical[s].files[u.path]
                            /\ Previous(update[s].base, b, u).seen = u.seen
      BY DEF ReuseKeepsProvenance
    <2>1. canonical[s] \in Bundles
      BY DEF TypeOK, Typed, UnderWay
    <2>2. u.path \in DOMAIN canonical[s].files
      BY <2>1, UpdateAssumption
    <2> QED BY <2>2, ReusedUnit DEF Reuses
  <1> QED BY <1>1, TypeCorrect, PTL

-------------------------------------------------------------------------------
(* The derivation of facts: numbers first.                                 *)

LEMMA LessThanWellFounded == IsWellFoundedOn({p \in Nat \X Nat : p[1] < p[2]}, Nat)
  BY NatLessThanWellFounded DEF OpToRel

\* A set that has zero and with a number its successor has all numbers.
LEMMA Induction ==
    ASSUME NEW S, 0 \in S, \A n \in Nat : n \in S => n + 1 \in S
    PROVE  \A n \in Nat : n \in S
  <1> DEFINE R == {p \in Nat \X Nat : p[1] < p[2]}
  <1>1. SUFFICES ASSUME Nat \ S # {} PROVE FALSE
    OBVIOUS
  <1>2. PICK x \in Nat \ S : \A y \in Nat \ S : <<y, x>> \notin R
    <2>1. Nat \ S \subseteq Nat
      OBVIOUS
    <2>2. IsWellFoundedOn(R, Nat)
      BY LessThanWellFounded
    <2> HIDE DEF R
    <2> QED BY <1>1, <2>1, <2>2, WFMin
  <1>3. x # 0 /\ x - 1 \in Nat /\ x - 1 < x
    OBVIOUS
  <1>4. <<x - 1, x>> \in R
    BY <1>3
  <1>5. x - 1 \in S
    BY <1>2, <1>3, <1>4
  <1> QED BY <1>3, <1>5

\* The least of a set of numbers.
LEMMA LeastNumber ==
    ASSUME NEW S \in SUBSET Nat, S # {}
    PROVE  \E m \in S : \A n \in S : ~(n < m)
  <1> DEFINE R == {p \in Nat \X Nat : p[1] < p[2]}
  <1>1. PICK m \in S : \A n \in S : <<n, m>> \notin R
    <2>1. IsWellFoundedOn(R, Nat) /\ S \subseteq Nat
      BY LessThanWellFounded
    <2> HIDE DEF R
    <2> QED BY <2>1, WFMin
  <1>2. \A n \in S : n < m => <<n, m>> \in R
    OBVIOUS
  <1> QED BY <1>1, <1>2

----------------------------------------------------------------------------
(* The rules.                                                               *)

Named(rule) == rule \in {"dependency", "membership"}

LEMMA FactParts ==
    ASSUME NEW f \in Facts
    PROVE  /\ f = [predicate |-> f.predicate, subject |-> f.subject, object |-> f.object, rule |-> f.rule]
           /\ f.predicate \in {"dependency", "definition", "membership"}
           /\ f.predicate = "definition" => f \in Definitions /\ f.rule = Observed
           /\ f.predicate = "membership" => f \in Memberships /\ f.rule \in Versions
           /\ f.predicate = "dependency" => /\ f.subject \in Components /\ f.object \in Components
                                            /\ f.rule \in Versions \cup {Observed}
  BY DEF Facts, Dependencies, Definitions, Memberships

\* What a rule has to say is typed, rests on the facts it was given, and is
\* one application of it.
Sensible(c, facts) ==
    /\ c = [fact |-> c.fact, lineage |-> c.lineage]
    /\ c.fact \in Facts /\ c.fact.rule = version
    /\ c.lineage \subseteq facts /\ c.lineage # {}
    /\ Justified(c.fact, c.lineage)

LEMMA DependencySensible ==
    ASSUME NEW facts \in SUBSET Facts, version \in Versions, NEW c \in DependencyRule(facts)
    PROVE  Sensible(c, facts)
  <1>1. PICK p \in facts \X facts : /\ Compose(p[1], p[2])
                                    /\ c = [fact |-> Composed(p[1], p[2]), lineage |-> {p[1], p[2]}]
    BY DEF DependencyRule
  <1>2. p[1] \in Facts /\ p[2] \in Facts /\ p[1] \in facts /\ p[2] \in facts
    OBVIOUS
  <1>3. p[1].subject \in Components /\ p[2].object \in Components
    BY <1>1, <1>2, FactParts DEF Compose
  <1>4. Composed(p[1], p[2]) \in Dependencies(Versions \cup {Observed})
    BY <1>3 DEF Composed, Dependencies
  <1>5. Composed(p[1], p[2]) \in Facts
    BY <1>4 DEF Facts
  <1>6. c.fact = Composed(p[1], p[2]) /\ c.lineage = {p[1], p[2]}
    BY <1>1
  <1>7. /\ c.fact.predicate = "dependency" /\ c.fact.subject = p[1].subject
        /\ c.fact.object = p[2].object /\ c.fact.rule = version
    BY <1>6 DEF Composed
  <1>8. Justified(c.fact, c.lineage)
    BY <1>1, <1>6, <1>7 DEF Justified
  <1> QED BY <1>1, <1>2, <1>5, <1>6, <1>7, <1>8 DEF Sensible

LEMMA MembershipSensible ==
    ASSUME NEW facts \in SUBSET Facts, version \in Versions, NEW c \in MembershipRule(facts)
    PROVE  Sensible(c, facts)
  <1> DEFINE M(d) == [predicate |-> "membership", subject |-> d.subject, object |-> d.object, rule |-> version]
  <1>1. PICK d \in facts : /\ d.predicate = "definition"
                           /\ c = [fact |-> M(d), lineage |-> {d}]
    BY DEF MembershipRule
  <1>2. d \in Definitions
    BY <1>1, FactParts
  <1>3. d.subject \in Symbols /\ d.object \in Artifacts
    BY <1>2 DEF Definitions
  <1>4. M(d) \in Memberships
    BY <1>3 DEF Memberships
  <1>5. M(d) \in Facts
    BY <1>4 DEF Facts
  <1>6. c.fact = M(d) /\ c.lineage = {d}
    BY <1>1
  <1>7. Justified(c.fact, c.lineage)
    BY <1>1, <1>6 DEF Justified
  <1> QED BY <1>1, <1>5, <1>6, <1>7 DEF Sensible

LEMMA RulesSensible ==
    ASSUME NEW facts \in SUBSET Facts, version \in Versions, NEW rule, Named(rule),
           NEW c \in Apply(rule, facts)
    PROVE  Sensible(c, facts)
  BY DependencySensible, MembershipSensible DEF Named, Apply

\* Of the pairs that compose to a fact one comes first.
LEMMA DependencyComplete ==
    ASSUME NEW facts \in SUBSET Facts, order \in Orders,
           NEW l \in facts, NEW r \in facts, Compose(l, r)
    PROVE  \E c \in DependencyRule(facts) : c.fact = Composed(l, r)
  <1> DEFINE pairs == {p \in facts \X facts : Compose(p[1], p[2])}
             same == {p \in pairs : Composed(p[1], p[2]) = Composed(l, r)}
             Ahead(p, q) == Precedes(p[1], q[1]) \/ (p[1] = q[1] /\ Precedes(p[2], q[2]))
  <1>0. \A f \in facts : Rank[order][f] \in Nat
    BY DerivationAssumption
  <1>1. <<l, r>> \in same
    OBVIOUS
  <1>2. \A p \in same : p[1] \in facts /\ p[2] \in facts
    OBVIOUS
  <1>3. PICK a \in same : \A q \in same : ~(Rank[order][q[1]] < Rank[order][a[1]])
    <2> DEFINE S == {Rank[order][p[1]] : p \in same}
    <2>1. S \in SUBSET Nat /\ S # {}
      <3> HIDE DEF same
      <3> QED BY <1>0, <1>1, <1>2
    <2>2. PICK m \in S : \A n \in S : ~(n < m)
      <3> HIDE DEF S
      <3> QED BY <2>1, LeastNumber
    <2> HIDE DEF same
    <2> QED BY <2>2
  <1> DEFINE second == {p \in same : p[1] = a[1]}
  <1>4. PICK b \in second : \A q \in second : ~(Rank[order][q[2]] < Rank[order][b[2]])
    <2> DEFINE S == {Rank[order][p[2]] : p \in second}
    <2>1. S \in SUBSET Nat /\ S # {}
      <3> HIDE DEF same
      <3>1. a \in second
        OBVIOUS
      <3> QED BY <1>0, <1>2, <3>1
    <2>2. PICK m \in S : \A n \in S : ~(n < m)
      <3> HIDE DEF S
      <3> QED BY <2>1, LeastNumber
    <2> HIDE DEF second
    <2> QED BY <2>2
  <1>5. ASSUME NEW q \in same PROVE ~Ahead(q, b)
    <2> HIDE DEF same
    <2>1. b[1] = a[1] /\ (q[1] = b[1] => q \in second)
      OBVIOUS
    <2> HIDE DEF second
    <2> QED BY <1>3, <1>4, <2>1 DEF Precedes
  <1>6. b \in pairs /\ Composed(b[1], b[2]) = Composed(l, r)
    OBVIOUS
  <1>7. \A q \in pairs : Composed(b[1], b[2]) = Composed(q[1], q[2]) => ~Ahead(q, b)
    <2> HIDE DEF Ahead
    <2> QED BY <1>5, <1>6
  <1>8. [fact |-> Composed(b[1], b[2]), lineage |-> {b[1], b[2]}] \in DependencyRule(facts)
    BY <1>6, <1>7 DEF DependencyRule
  <1> QED BY <1>6, <1>8

\* Finite facts give finitely many candidates.
LEMMA RulesFinite ==
    ASSUME NEW facts, IsFiniteSet(facts), NEW rule, Named(rule)
    PROVE  IsFiniteSet(Apply(rule, facts))
  <1>1. CASE rule = "dependency"
    <2> DEFINE C(p) == [fact |-> Composed(p[1], p[2]), lineage |-> {p[1], p[2]}]
               all == facts \X facts
               f == [p \in all |-> C(p)]
               image == {C(p) : p \in all}
    <2>1. IsFiniteSet(all)
      BY FS_Product
    <2>2. f \in Surjection(all, image)
      <3>1. f \in [all -> image] /\ \A t \in image : \E s \in all : f[s] = t
        <4> HIDE DEF all
        <4> QED OBVIOUS
      <3> HIDE DEF f, image
      <3> QED BY <3>1 DEF Surjection
    <2>3. IsFiniteSet(image)
      <3> HIDE DEF f, image, all
      <3> QED BY <2>1, <2>2, FS_Surjection
    <2>4. DependencyRule(facts) \in SUBSET image
      BY DEF DependencyRule
    <2>5. IsFiniteSet(DependencyRule(facts))
      <3> HIDE DEF image
      <3> QED BY <2>3, <2>4, FS_Subset
    <2> QED BY <1>1, <2>5 DEF Apply
  <1>2. CASE rule = "membership"
    <2> DEFINE C(d) == [fact |-> [predicate |-> "membership", subject |-> d.subject, object |-> d.object,
                                  rule |-> version],
                        lineage |-> {d}]
               f == [d \in facts |-> C(d)]
               image == {C(d) : d \in facts}
    <2>2. f \in Surjection(facts, image)
      <3>1. f \in [facts -> image] /\ \A t \in image : \E s \in facts : f[s] = t
        OBVIOUS
      <3> HIDE DEF f, image
      <3> QED BY <3>1 DEF Surjection
    <2>3. IsFiniteSet(image)
      <3> HIDE DEF f, image
      <3> QED BY <2>2, FS_Surjection
    <2>4. MembershipRule(facts) \in SUBSET image
      BY DEF MembershipRule
    <2>5. IsFiniteSet(MembershipRule(facts))
      <3> HIDE DEF image
      <3> QED BY <2>3, <2>4, FS_Subset
    <2> QED BY <1>2, <2>5 DEF Apply
  <1> QED BY <1>1, <1>2 DEF Named

----------------------------------------------------------------------------
(* The least fixed point.                                                   *)

LEMMA ReachedDirectly ==
    ASSUME NEW facts, NEW x, NEW y \in Components, Direct(facts, x, y)
    PROVE  y \in Reached(facts, x)
  BY DEF Reached

LEMMA ReachedThrough ==
    ASSUME NEW facts, NEW x, NEW y, NEW z, y \in Reached(facts, x), z \in Reached(facts, y)
    PROVE  z \in Reached(facts, x)
  <1> SUFFICES ASSUME NEW S \in SUBSET Components,
                      \A a \in S \cup {x}, b \in Components : Direct(facts, a, b) => b \in S
               PROVE  z \in S
    BY DEF Reached
  <1>1. y \in S
    BY DEF Reached
  <1>2. \A a \in S \cup {y}, b \in Components : Direct(facts, a, b) => b \in S
    BY <1>1
  <1> QED BY <1>2 DEF Reached

LEMMA LinkedIsReached ==
    ASSUME NEW facts, NEW x, NEW y, <<x, y>> \in Linked(facts)
    PROVE  y \in Reached(facts, x) /\ x \in Components /\ y \in Components
  <1>1. x \in Components /\ y \in Components
    BY DEF Linked
  <1>2. Direct(facts, x, y) \/ y \in Reached(facts, x)
    BY DEF Linked
  <1> QED BY <1>1, <1>2, ReachedDirectly

LEMMA ReachedIsLinked ==
    ASSUME NEW facts, NEW x \in Components, NEW y \in Components,
           Direct(facts, x, y) \/ (x # y /\ y \in Reached(facts, x))
    PROVE  <<x, y>> \in Linked(facts)
  BY DEF Linked

\* What is known and no more than the rules imply.
Implied(v, facts) == facts \subseteq ObservedIn(facts) \cup LeastFixedPoint(v, ObservedIn(facts))

\* A dependency that is known links its ends.
LEMMA KnownLinks ==
    ASSUME NEW facts \in SUBSET Facts, Implied(version, facts), NEW f \in facts, f.predicate = "dependency"
    PROVE  <<f.subject, f.object>> \in Linked(ObservedIn(facts))
  <1> DEFINE observed == ObservedIn(facts)
  <1>0. f.subject \in Components /\ f.object \in Components
    BY FactParts
  <1>1. CASE f \in observed
    <2>1. Direct(observed, f.subject, f.object)
      BY <1>1 DEF Direct
    <2> QED BY <1>0, <2>1, ReachedIsLinked
  <1>2. CASE f \in LeastFixedPoint(version, observed)
    <2>1. f \notin Memberships
      BY DEF Memberships
    <2>2. f.subject # f.object
      BY <1>2, <2>1 DEF LeastFixedPoint
    <2>3. PICK c \in Components : <<f.subject, c>> \in Linked(observed) /\ <<c, f.object>> \in Linked(observed)
      BY <1>2, <2>1 DEF LeastFixedPoint
    <2>4. f.object \in Reached(observed, f.subject)
      BY <2>3, LinkedIsReached, ReachedThrough
    <2> QED BY <1>0, <2>2, <2>4, ReachedIsLinked
  <1> QED BY <1>1, <1>2 DEF Implied

LEMMA DefinitionsObserved ==
    ASSUME NEW facts \in SUBSET Facts, NEW symbol
    PROVE  DefinitionsOf(symbol, facts) = DefinitionsOf(symbol, ObservedIn(facts))
  <1>1. \A d \in facts : d.predicate = "definition" => d.rule = Observed
    BY FactParts
  <1> QED BY <1>1 DEF DefinitionsOf, ObservedIn

\* A rule says nothing the least fixed point does not have.
LEMMA RulesWithin ==
    ASSUME NEW facts \in SUBSET Facts, Implied(version, facts), version \in Versions,
           NEW rule, Named(rule), NEW c \in Apply(rule, facts)
    PROVE  c.fact \in LeastFixedPoint(version, ObservedIn(facts))
  <1> DEFINE observed == ObservedIn(facts)
             f == c.fact
  <1>0. f \in Facts /\ f.rule = version
    BY RulesSensible DEF Sensible
  <1>1. CASE rule = "dependency"
    <2>1. PICK l \in facts, r \in facts : Compose(l, r) /\ f = Composed(l, r)
      BY <1>1 DEF Apply, DependencyRule
    <2>2. <<l.subject, l.object>> \in Linked(observed) /\ <<r.subject, r.object>> \in Linked(observed)
      BY <2>1, KnownLinks DEF Compose
    <2>3. /\ f.subject = l.subject /\ f.object = r.object /\ f.predicate = "dependency"
          /\ l.object = r.subject /\ f.subject # f.object
      BY <2>1 DEF Compose, Composed
    <2>4. l.object \in Components /\ f.subject \in Components /\ f.object \in Components
      BY <2>2, <2>3, LinkedIsReached
    <2>5. f \in Dependencies({version})
      BY <1>0, <2>3, <2>4, FactParts DEF Dependencies
    <2> HIDE DEF f, observed
    <2>6. \E d \in Components : <<f.subject, d>> \in Linked(observed) /\ <<d, f.object>> \in Linked(observed)
      BY <2>2, <2>3, <2>4
    <2> QED BY <2>3, <2>5, <2>6 DEF LeastFixedPoint, f, observed
  <1>2. CASE rule = "membership"
    <2>1. PICK d \in facts : /\ DefinitionsOf(d.subject, facts) = {d} /\ d.predicate = "definition"
                             /\ f = [predicate |-> "membership", subject |-> d.subject,
                                     object |-> d.object, rule |-> version]
      BY <1>2 DEF Apply, MembershipRule
    <2>2. DefinitionsOf(d.subject, observed) = {d}
      BY <2>1, DefinitionsObserved
    <2>3. f.subject = d.subject /\ f.object = d.object /\ f.predicate = "membership"
      BY <2>1
    <2>4. f \in Memberships
      BY <1>0, <2>3, FactParts
    <2> HIDE DEF f, observed
    <2>5. {e.object : e \in DefinitionsOf(f.subject, observed)} = {f.object}
      BY <2>2, <2>3
    <2> QED BY <1>0, <2>4, <2>5 DEF LeastFixedPoint, f, observed
  <1> QED BY <1>1, <1>2 DEF Named

\* Nothing is left to say.
Closed(facts) == \A rule \in {"dependency", "membership"} : \A c \in Apply(rule, facts) : c.fact \in facts

\* Facts to which no rule has to add anything have the whole least fixed point.
LEMMA LinkedIsKnown ==
    ASSUME NEW facts \in SUBSET Facts, order \in Orders, Closed(facts),
           NEW x, NEW y, <<x, y>> \in Linked(ObservedIn(facts))
    PROVE  \E l \in facts : l.predicate = "dependency" /\ l.subject = x /\ l.object = y
  <1> DEFINE Known(a, b) == \E l \in facts : l.predicate = "dependency" /\ l.subject = a /\ l.object = b
             observed == ObservedIn(facts)
             S == {b \in Components : b = x \/ Known(x, b)}
  <1>1. \A a, b : Direct(observed, a, b) => Known(a, b)
    BY DEF Direct, ObservedIn
  <1>2. ASSUME NEW a, NEW b, NEW c, Known(a, b), Known(b, c), a # c PROVE Known(a, c)
    <2>1. PICK l \in facts : l.predicate = "dependency" /\ l.subject = a /\ l.object = b
      BY <1>2
    <2>2. PICK r \in facts : r.predicate = "dependency" /\ r.subject = b /\ r.object = c
      BY <1>2
    <2>3. Compose(l, r)
      BY <1>2, <2>1, <2>2 DEF Compose
    <2>4. PICK d \in DependencyRule(facts) : d.fact = Composed(l, r)
      BY <2>3, DependencyComplete
    <2>5. Composed(l, r) \in facts
      BY <2>4 DEF Closed, Apply
    <2> QED BY <2>1, <2>2, <2>5 DEF Composed
  <1>3. x \in Components /\ y \in Components
    BY LinkedIsReached
  <1>4. CASE Direct(observed, x, y)
    BY <1>1, <1>4
  <1>5. CASE x # y /\ y \in Reached(observed, x)
    <2>1. S \in SUBSET Components
      OBVIOUS
    <2>2. ASSUME NEW a \in S \cup {x}, NEW b \in Components, Direct(observed, a, b)
          PROVE  b \in S
      <3>1. Known(a, b) /\ (a = x \/ Known(x, a))
        <4> HIDE DEF Known
        <4> QED BY <1>1, <2>2
      <3>2. b = x \/ Known(x, b)
        <4> HIDE DEF Known
        <4> QED BY <1>2, <3>1
      <3> HIDE DEF Known
      <3> QED BY <3>2
    <2>3. y \in S
      <3> HIDE DEF S
      <3> QED BY <1>5, <2>1, <2>2 DEF Reached
    <2> HIDE DEF Known
    <2>4. Known(x, y)
      BY <1>5, <2>3
    <2> QED BY <2>4 DEF Known
  <1>6. Direct(observed, x, y) \/ (x # y /\ y \in Reached(observed, x))
    BY DEF Linked
  <1> QED BY <1>4, <1>5, <1>6

LEMMA ClosedIsWhole ==
    ASSUME NEW facts \in SUBSET Facts, order \in Orders, version \in Versions, Closed(facts)
    PROVE  LeastFixedPoint(version, ObservedIn(facts)) \subseteq facts
  <1> DEFINE observed == ObservedIn(facts)
  <1> SUFFICES ASSUME NEW f \in LeastFixedPoint(version, observed) PROVE f \in facts
    OBVIOUS
  <1>1. CASE f \in Dependencies({version}) /\ f.subject # f.object
             /\ \E c \in Components : <<f.subject, c>> \in Linked(observed) /\ <<c, f.object>> \in Linked(observed)
    <2>1. PICK c \in Components : <<f.subject, c>> \in Linked(observed) /\ <<c, f.object>> \in Linked(observed)
      BY <1>1
    <2>2. PICK l \in facts : l.predicate = "dependency" /\ l.subject = f.subject /\ l.object = c
      BY <2>1, LinkedIsKnown
    <2>3. PICK r \in facts : r.predicate = "dependency" /\ r.subject = c /\ r.object = f.object
      BY <2>1, LinkedIsKnown
    <2>4. Compose(l, r)
      BY <1>1, <2>2, <2>3 DEF Compose
    <2>5. PICK d \in DependencyRule(facts) : d.fact = Composed(l, r)
      BY <2>4, DependencyComplete
    <2>6. Composed(l, r) \in facts
      BY <2>5 DEF Closed, Apply
    <2>7. f = Composed(l, r)
      BY <1>1, <2>2, <2>3 DEF Composed, Dependencies
    <2> QED BY <2>6, <2>7
  <1>2. CASE f \in Memberships /\ f.rule = version
             /\ {d.object : d \in DefinitionsOf(f.subject, observed)} = {f.object}
    <2> DEFINE D == DefinitionsOf(f.subject, observed)
    <2>1. PICK d \in D : d.object = f.object
      BY <1>2
    <2>2. \A e \in D : e.object = f.object
      BY <1>2
    <2>3. \A e \in D : e \in facts /\ e \in Facts /\ e.predicate = "definition" /\ e.subject = f.subject
      BY DEF DefinitionsOf, ObservedIn
    <2>4. \A e \in D : e \in Definitions
      BY <2>3, FactParts
    <2>5. \A e \in D : e = d
      <3> SUFFICES ASSUME NEW e \in D PROVE e = d
        OBVIOUS
      <3>1. e \in Definitions /\ d \in Definitions /\ e.object = d.object /\ e.subject = d.subject
        BY <2>1, <2>2, <2>3, <2>4
      <3> QED BY <3>1 DEF Definitions
    <2>6. D = {d}
      BY <2>5
    <2>7. DefinitionsOf(d.subject, facts) = {d}
      BY <2>3, <2>6, DefinitionsObserved
    <2>8. [fact |-> [predicate |-> "membership", subject |-> d.subject, object |-> d.object, rule |-> version],
           lineage |-> {d}] \in MembershipRule(facts)
      BY <2>3, <2>7 DEF MembershipRule
    <2>9. [predicate |-> "membership", subject |-> d.subject, object |-> d.object, rule |-> version] \in facts
      BY <2>8 DEF Closed, Apply
    <2>10. f = [predicate |-> "membership", subject |-> d.subject, object |-> d.object, rule |-> version]
      BY <1>2, <2>1, <2>3 DEF Memberships
    <2> QED BY <2>9, <2>10
  <1> QED BY <1>1, <1>2 DEF LeastFixedPoint

----------------------------------------------------------------------------
(* Lineage.                                                                 *)

\* A step repeated gives one value at each count.
Repeats(g, n, base, step) ==
    /\ g[0] = base
    /\ \A i \in Nat : i < n => g[i + 1] = step[g[i]]

LEMMA RepeatsAgree ==
    ASSUME NEW g, NEW n \in Nat, NEW h, NEW m \in Nat, NEW base, NEW step,
           Repeats(g, n, base, step), Repeats(h, m, base, step)
    PROVE  \A i \in Nat : i <= n /\ i <= m => g[i] = h[i]
  <1> DEFINE T == {i \in Nat : i <= n /\ i <= m => g[i] = h[i]}
  <1>1. 0 \in T
    BY DEF Repeats
  <1>2. ASSUME NEW i \in Nat, i \in T PROVE i + 1 \in T
    <2>1. CASE i + 1 <= n /\ i + 1 <= m
      <3>1. i < n /\ i < m /\ i <= n /\ i <= m
        BY <2>1
      <3>2. g[i + 1] = step[g[i]] /\ h[i + 1] = step[h[i]]
        BY <3>1 DEF Repeats
      <3> QED BY <1>2, <3>1, <3>2
    <2> QED BY <2>1
  <1> QED
    <2>1. \A i \in Nat : i \in T
      <3> HIDE DEF T
      <3> QED BY <1>1, <1>2, Induction
    <2> QED BY <2>1

\* There is a function that repeats it for ever.
LEMMA Recursion ==
    ASSUME NEW A, NEW base \in A, NEW step \in [A -> A]
    PROVE  \E f \in [Nat -> A] : f = [n \in Nat |-> IF n = 0 THEN base ELSE step[f[n - 1]]]
  <1> DEFINE Solves(g, n) == g \in [0..n -> A] /\ Repeats(g, n, base, step)
             T == {n \in Nat : \E g : Solves(g, n)}
             sol == [n \in Nat |-> CHOOSE g : Solves(g, n)]
             f == [n \in Nat |-> sol[n][n]]
  <1>1. 0 \in T
    <2>1. [i \in 0..0 |-> base] \in [0..0 -> A] /\ Repeats([i \in 0..0 |-> base], 0, base, step)
      BY DEF Repeats
    <2> QED BY <2>1
  <1>2. ASSUME NEW n \in Nat, n \in T PROVE n + 1 \in T
    <2>1. PICK g : Solves(g, n)
      BY <1>2
    <2> DEFINE h == [i \in 0..(n + 1) |-> IF i = n + 1 THEN step[g[n]] ELSE g[i]]
    <2>2. g[n] \in A /\ step[g[n]] \in A
      BY <2>1
    <2>3. h \in [0..(n + 1) -> A]
      BY <2>1, <2>2
    <2>4. h[0] = base /\ \A i \in Nat : i < n + 1 => h[i + 1] = step[h[i]]
      <3>1. h[0] = g[0]
        OBVIOUS
      <3>2. ASSUME NEW i \in Nat, i < n + 1 PROVE h[i + 1] = step[h[i]]
        <4>1. h[i] = g[i]
          BY <3>2
        <4>2. CASE i = n
          BY <4>1, <4>2
        <4>3. CASE i # n
          <5>1. i < n /\ h[i + 1] = g[i + 1]
            BY <3>2, <4>3
          <5> QED BY <2>1, <4>1, <5>1 DEF Repeats
        <4> QED BY <4>2, <4>3
      <3> QED BY <2>1, <3>1, <3>2 DEF Repeats
    <2>5. Solves(h, n + 1)
      BY <2>3, <2>4 DEF Repeats
    <2> HIDE DEF h, Solves
    <2> QED BY <2>5
  <1>3. ASSUME NEW n \in Nat PROVE Solves(sol[n], n)
    <2>1. n \in T
      <3> HIDE DEF T
      <3> QED BY <1>1, <1>2, Induction
    <2> HIDE DEF Solves
    <2> QED BY <2>1
  <1>4. ASSUME NEW n \in Nat PROVE f[n] \in A
    <2>1. sol[n] \in [0..n -> A]
      BY <1>3
    <2> HIDE DEF sol
    <2> QED BY <2>1
  <1>5. ASSUME NEW n \in Nat PROVE f[n] = IF n = 0 THEN base ELSE step[f[n - 1]]
    <2>1. CASE n = 0
      <3>1. Repeats(sol[0], 0, base, step)
        BY <1>3
      <3> HIDE DEF sol
      <3> QED BY <2>1, <3>1 DEF Repeats
    <2>2. CASE n # 0
      <3>1. n - 1 \in Nat /\ n - 1 < n /\ n - 1 <= n - 1 /\ n - 1 <= n /\ (n - 1) + 1 = n
        BY <2>2
      <3>2. Repeats(sol[n], n, base, step) /\ Repeats(sol[n - 1], n - 1, base, step)
        BY <1>3, <3>1
      <3> HIDE DEF sol
      <3>3. sol[n][n] = step[sol[n][n - 1]]
        BY <3>1, <3>2 DEF Repeats
      <3>4. sol[n][n - 1] = sol[n - 1][n - 1]
        BY <3>1, <3>2, RepeatsAgree
      <3> QED BY <2>2, <3>1, <3>3, <3>4
    <2> QED BY <2>1, <2>2
  <1>6. f \in [Nat -> A]
    <2>1. f = [n \in Nat |-> f[n]]
      OBVIOUS
    <2> HIDE DEF f
    <2> QED BY <1>4, <2>1
  <1>7. f = [n \in Nat |-> IF n = 0 THEN base ELSE step[f[n - 1]]]
    <2>1. f = [n \in Nat |-> f[n]]
      OBVIOUS
    <2> HIDE DEF f
    <2> QED BY <1>5, <2>1
  <1> HIDE DEF f
  <1> QED BY <1>6, <1>7

\* Of any facts that have a lineage some rest on none of the others.
Founded(facts, lineage) ==
    \A S \in SUBSET facts : S # {} /\ ObservedIn(S) = {} => \E f \in S : lineage[f] \subseteq facts \ S

\* Then the lineage of each leads to what was observed.
LEMMA FoundedIsGrounded ==
    ASSUME NEW facts, IsFiniteSet(facts), NEW lineage, Founded(facts, lineage)
    PROVE  Grounded(facts, lineage) = facts
  <1> DEFINE A == SUBSET facts
             More(w) == {f \in facts : f.rule = Observed \/ lineage[f] \subseteq w}
             step == [w \in A |-> More(w)]
             N == Cardinality(facts)
  <1>1. PICK W \in [Nat -> A] : W = [n \in Nat |-> IF n = 0 THEN ObservedIn(facts) ELSE step[W[n - 1]]]
    <2>1. ObservedIn(facts) \in A /\ step \in [A -> A]
      BY DEF ObservedIn
    <2> DEFINE base == ObservedIn(facts)
    <2> HIDE DEF step, A, base
    <2>2. base \in A
      BY <2>1 DEF base
    <2>3. \E f \in [Nat -> A] : f = [n \in Nat |-> IF n = 0 THEN base ELSE step[f[n - 1]]]
      BY <2>1, <2>2, Recursion
    <2> QED BY <2>3 DEF base
  <1> DEFINE Within == CHOOSE g : g = [n \in Nat |-> IF n = 0 THEN ObservedIn(facts) ELSE More(g[n - 1])]
  <1>2. W = [n \in Nat |-> IF n = 0 THEN ObservedIn(facts) ELSE More(W[n - 1])]
    <2>1. \A n \in Nat : n # 0 => W[n - 1] \in A /\ step[W[n - 1]] = More(W[n - 1])
      OBVIOUS
    <2> HIDE DEF step, A, More
    <2> QED BY <1>1, <2>1
  <1>3. Within = [n \in Nat |-> IF n = 0 THEN ObservedIn(facts) ELSE More(Within[n - 1])]
    <2> HIDE DEF More
    <2> QED BY <1>2
  <1>4. Grounded(facts, lineage) = Within[N]
    BY DEF Grounded
  <1> HIDE DEF Within
  <1>5. Within[0] = ObservedIn(facts) /\ \A n \in Nat : Within[n + 1] = More(Within[n])
    <2>1. \A n \in Nat : n + 1 # 0 /\ (n + 1) - 1 = n /\ n + 1 \in Nat
      OBVIOUS
    <2> HIDE DEF More
    <2> QED BY <1>3, <2>1
  <1>6. N \in Nat
    BY FS_CardinalityType
  <1>7. \A n \in Nat : Within[n] \in SUBSET facts
    <2>1. ASSUME NEW n \in Nat PROVE Within[n] \in SUBSET facts
      <3>1. CASE n = 0
        BY <1>5, <3>1 DEF ObservedIn
      <3>2. CASE n # 0
        <4>1. n - 1 \in Nat /\ (n - 1) + 1 = n
          BY <3>2
        <4>2. Within[n] = More(Within[n - 1])
          BY <1>5, <4>1
        <4> QED BY <4>2
      <3> QED BY <3>1, <3>2
    <2> QED BY <2>1
  <1> DEFINE Grows(n) == /\ ObservedIn(facts) \subseteq Within[n] /\ Within[n] \subseteq Within[n + 1]
                         /\ Within[n] = facts \/ n <= Cardinality(Within[n])
             T == {n \in Nat : Grows(n)}
  <1>8. 0 \in T
    <2>1. Within[1] = More(Within[0])
      BY <1>5
    <2>2. Within[0] \subseteq Within[1]
      BY <1>5, <2>1 DEF ObservedIn
    <2>3. Cardinality(Within[0]) \in Nat
      BY <1>7, FS_Subset, FS_CardinalityType
    <2> QED BY <1>5, <2>2, <2>3
  <1>9. ASSUME NEW n \in Nat, n \in T PROVE n + 1 \in T
    <2>0. n + 1 \in Nat /\ Grows(n)
      BY <1>9
    <2>1. Within[n + 1] = More(Within[n]) /\ Within[n + 2] = More(Within[n + 1])
      <3>1. (n + 1) + 1 = n + 2
        OBVIOUS
      <3> HIDE DEF More
      <3> QED BY <1>5, <2>0, <3>1
    <2>2. Within[n + 1] \subseteq Within[n + 2]
      <3>1. More(Within[n]) \subseteq More(Within[n + 1])
        BY <2>0
      <3> QED BY <2>1, <3>1
    <2>3. ObservedIn(facts) \subseteq Within[n + 1]
      BY <2>0
    <2>4. Within[n + 1] = facts \/ n + 1 <= Cardinality(Within[n + 1])
      <3>0. Within[n] \in SUBSET facts /\ Within[n + 1] \in SUBSET facts
        BY <1>7, <2>0
      <3>1. CASE Within[n] = facts
        BY <2>0, <3>0, <3>1
      <3>2. CASE Within[n] # facts /\ n <= Cardinality(Within[n])
        <4> DEFINE S == facts \ Within[n]
        <4>1. S # {} /\ ObservedIn(S) = {} /\ S \in SUBSET facts
          BY <2>0, <3>0, <3>2 DEF ObservedIn
        <4>2. PICK f \in S : lineage[f] \subseteq facts \ S
          <5> HIDE DEF S
          <5> QED BY <4>1 DEF Founded
        <4>3. f \in Within[n + 1] /\ f \notin Within[n]
          <5>1. facts \ S \subseteq Within[n]
            OBVIOUS
          <5> QED BY <2>1, <4>2, <5>1
        <4>4. IsFiniteSet(Within[n + 1]) /\ IsFiniteSet(Within[n])
          BY <3>0, FS_Subset
        <4>5. Within[n] \in SUBSET Within[n + 1] /\ Within[n] # Within[n + 1]
          BY <2>0, <4>3
        <4>6. /\ Cardinality(Within[n]) <= Cardinality(Within[n + 1])
              /\ Cardinality(Within[n]) # Cardinality(Within[n + 1])
          BY <4>4, <4>5, FS_Subset
        <4>7. Cardinality(Within[n]) \in Nat /\ Cardinality(Within[n + 1]) \in Nat
          BY <4>4, FS_CardinalityType
        <4> QED BY <3>2, <4>6, <4>7
      <3> QED BY <2>0, <3>1, <3>2
    <2>5. Within[(n + 1) + 1] = Within[n + 2]
      OBVIOUS
    <2> QED BY <2>0, <2>2, <2>3, <2>4, <2>5
  <1>10. Grows(N)
    <2>1. \A n \in Nat : n \in T
      <3> HIDE DEF T
      <3> QED BY <1>8, <1>9, Induction
    <2> QED BY <1>6, <2>1
  <1>11. Within[N] = facts
    <2>1. Within[N] \in SUBSET facts
      BY <1>6, <1>7
    <2>2. CASE N <= Cardinality(Within[N])
      <3>1. IsFiniteSet(Within[N]) /\ Cardinality(Within[N]) <= N
        BY <2>1, FS_Subset
      <3>2. Cardinality(Within[N]) \in Nat
        BY <3>1, FS_CardinalityType
      <3>3. Cardinality(Within[N]) = Cardinality(facts)
        BY <1>6, <2>2, <3>1, <3>2
      <3> QED BY <2>1, <3>3, FS_Subset
    <2> QED BY <1>10, <2>2
  <1> QED BY <1>4, <1>11

FoundedOn(old, more, lineage) ==
    \A S \in SUBSET (more \ old) : S # {} /\ ObservedIn(S) = {} =>
        \E f \in S : lineage[f] \subseteq (old \cup more) \ S

\* Facts that come with a founded lineage leave it founded.
LEMMA FoundedGrows ==
    ASSUME NEW old, NEW more, NEW was, NEW now, Founded(old, was),
           \A f \in old : f.rule # Observed => now[f] = was[f],
           FoundedOn(old, more, now)
    PROVE  Founded(old \cup more, now)
  <1> SUFFICES ASSUME NEW S \in SUBSET (old \cup more), S # {}, ObservedIn(S) = {}
               PROVE  \E f \in S : now[f] \subseteq (old \cup more) \ S
    BY DEF Founded
  <1>0. S \cap old = {} => \E f \in S : now[f] \subseteq (old \cup more) \ S
    BY DEF FoundedOn
  <1>1. CASE S \cap old # {}
    <2> DEFINE R == S \cap old
    <2>1. R \in SUBSET old /\ R # {} /\ ObservedIn(R) = {}
      BY <1>1 DEF ObservedIn
    <2>2. PICK f \in R : was[f] \subseteq old \ R
      <3> HIDE DEF R
      <3> QED BY <2>1 DEF Founded
    <2>3. f.rule # Observed
      BY DEF ObservedIn
    <2> QED BY <2>2, <2>3
  <1>2. CASE S \cap old = {}
    BY <1>0, <1>2
  <1> QED BY <1>1, <1>2

----------------------------------------------------------------------------
(* What the executor derives is a function of what was observed, of the     *)
(* version and of the order of the identities.                              *)

ComposedAs(v, left, right) ==
    [predicate |-> "dependency", subject |-> left.subject, object |-> right.object, rule |-> v]

ApplyAs(o, v, rule, facts) ==
    LET pairs == {p \in facts \X facts : Compose(p[1], p[2])}
        Before(f, g) == Rank[o][f] < Rank[o][g]
        Ahead(p, q) == Before(p[1], q[1]) \/ (p[1] = q[1] /\ Before(p[2], q[2]))
    IN  CASE rule = "dependency" ->
                 {[fact |-> ComposedAs(v, p[1], p[2]), lineage |-> {p[1], p[2]}] :
                     p \in {p \in pairs : \A q \in pairs :
                               ComposedAs(v, p[1], p[2]) = ComposedAs(v, q[1], q[2]) => ~Ahead(q, p)}}
          [] rule = "membership" ->
                 {[fact |-> [predicate |-> "membership", subject |-> d.subject, object |-> d.object, rule |-> v],
                   lineage |-> {d}] :
                     d \in {e \in facts : e.predicate = "definition" /\ DefinitionsOf(e.subject, facts) = {e}}}

LEMMA AppliesAs ==
    ASSUME NEW rule, Named(rule), NEW facts
    PROVE  Apply(rule, facts) = ApplyAs(order, version, rule, facts)
  <1>1. DependencyRule(facts) = ApplyAs(order, version, "dependency", facts)
    BY DEF DependencyRule, ApplyAs, ComposedAs, Composed, Precedes
  <1>2. MembershipRule(facts) = ApplyAs(order, version, "membership", facts)
    BY DEF MembershipRule, ApplyAs
  <1> QED BY <1>1, <1>2 DEF Apply, Named

\* What a rule finds, taken whole.
Taken(o, v, rule, s) ==
    LET batch == {c \in ApplyAs(o, v, rule, s.known) : c.fact \notin s.known}
        new   == {c.fact : c \in batch}
    IN  [known |-> s.known \cup new,
         support |-> [f \in DOMAIN s.support \cup new |->
                        IF f \in new THEN (CHOOSE c \in batch : c.fact = f).lineage ELSE s.support[f]]]

Round(o, v, s) == Taken(o, v, "membership", Taken(o, v, "dependency", s))

Begin(observed) == [known |-> observed, support |-> [f \in {} |-> {}]]

Course(o, v, observed, n, h) ==
    /\ h[0] = Begin(observed)
    /\ \A i \in Nat : i < n => h[i + 1] = Round(o, v, h[i])

Arrives(o, v, observed, s) == \E n \in Nat : \E h : Course(o, v, observed, n, h) /\ h[n] = s
Settles(o, v, observed, s) == Arrives(o, v, observed, s) /\ Round(o, v, s) = s

LEMMA ArrivesFirst ==
    ASSUME NEW o, NEW v, NEW observed PROVE Arrives(o, v, observed, Begin(observed))
  <1> DEFINE h == [i \in {0} |-> Begin(observed)]
  <1>1. h[0] = Begin(observed) /\ \A i \in Nat : ~(i < 0)
    OBVIOUS
  <1>2. Course(o, v, observed, 0, h) /\ 0 \in Nat
    BY <1>1 DEF Course
  <1> HIDE DEF h
  <1> QED BY <1>1, <1>2 DEF Arrives

LEMMA ArrivesNext ==
    ASSUME NEW o, NEW v, NEW observed, NEW s, Arrives(o, v, observed, s)
    PROVE  Arrives(o, v, observed, Round(o, v, s))
  <1>1a. PICK n \in Nat : \E h : Course(o, v, observed, n, h) /\ h[n] = s
    BY DEF Arrives
  <1>1. PICK h : Course(o, v, observed, n, h) /\ h[n] = s
    BY <1>1a
  <1> DEFINE g == [i \in 0..(n + 1) |-> IF i = n + 1 THEN Round(o, v, s) ELSE h[i]]
  <1>2. g[n + 1] = Round(o, v, s) /\ g[0] = h[0] /\ n + 1 \in Nat
    OBVIOUS
  <1>3. ASSUME NEW i \in Nat, i < n + 1 PROVE g[i + 1] = Round(o, v, g[i])
    <2>1. g[i] = h[i]
      BY <1>3
    <2>2. CASE i = n
      BY <1>1, <1>2, <2>1, <2>2
    <2>3. CASE i # n
      <3>1. i < n /\ g[i + 1] = h[i + 1]
        BY <1>3, <2>3
      <3> HIDE DEF g
      <3> QED BY <1>1, <2>1, <3>1 DEF Course
    <2> QED BY <2>2, <2>3
  <1>4. Course(o, v, observed, n + 1, g)
    <2> HIDE DEF g
    <2> QED BY <1>1, <1>2, <1>3 DEF Course
  <1> HIDE DEF g
  <1> QED BY <1>2, <1>4 DEF Arrives

\* It ends in one state only.
LEMMA CoursesMeet ==
    ASSUME NEW o, NEW v, NEW observed, NEW n \in Nat, NEW m \in Nat, n <= m, NEW g, NEW h,
           Course(o, v, observed, n, g), Course(o, v, observed, m, h), Round(o, v, g[n]) = g[n]
    PROVE  h[m] = g[n]
  <1> DEFINE T == {i \in Nat : /\ i <= n => g[i] = h[i]
                               /\ n <= i /\ i <= m => h[i] = g[n]}
  <1>1. 0 \in T
    BY DEF Course
  <1>2. ASSUME NEW i \in Nat, i \in T PROVE i + 1 \in T
    <2>1. i + 1 <= n => g[i + 1] = h[i + 1]
      <3> SUFFICES ASSUME i + 1 <= n PROVE g[i + 1] = h[i + 1]
        OBVIOUS
      <3>1. i < n /\ i < m /\ i <= n
        OBVIOUS
      <3> QED BY <1>2, <3>1 DEF Course
    <2>2. n <= i + 1 /\ i + 1 <= m => h[i + 1] = g[n]
      <3> SUFFICES ASSUME n <= i + 1, i + 1 <= m PROVE h[i + 1] = g[n]
        OBVIOUS
      <3>1. CASE n = i + 1
        BY <2>1, <3>1
      <3>2. CASE n # i + 1
        <4>1. n <= i /\ i <= m /\ i < m
          BY <3>2
        <4>2. h[i] = g[n] /\ h[i + 1] = Round(o, v, h[i])
          BY <1>2, <4>1 DEF Course
        <4> QED BY <4>2
      <3> QED BY <3>1, <3>2
    <2> QED BY <2>1, <2>2
  <1>3. m \in T
    <2> HIDE DEF T
    <2> QED BY <1>1, <1>2, Induction
  <1> QED BY <1>3

LEMMA SettlesOnce ==
    ASSUME NEW o, NEW v, NEW observed, NEW s, NEW t,
           Settles(o, v, observed, s), Settles(o, v, observed, t)
    PROVE  s = t
  <1>1a. PICK n \in Nat : \E g : Course(o, v, observed, n, g) /\ g[n] = s
    BY DEF Settles, Arrives
  <1>1. PICK g : Course(o, v, observed, n, g) /\ g[n] = s
    BY <1>1a
  <1>2a. PICK m \in Nat : \E h : Course(o, v, observed, m, h) /\ h[m] = t
    BY DEF Settles, Arrives
  <1>2. PICK h : Course(o, v, observed, m, h) /\ h[m] = t
    BY <1>2a
  <1>3. Round(o, v, s) = s /\ Round(o, v, t) = t
    BY DEF Settles
  <1>4. CASE n <= m
    BY <1>1, <1>2, <1>3, <1>4, CoursesMeet
  <1>5. CASE m <= n
    BY <1>1, <1>2, <1>3, <1>5, CoursesMeet
  <1>6. n <= m \/ m <= n
    OBVIOUS
  <1> QED BY <1>4, <1>5, <1>6

----------------------------------------------------------------------------
(* The inductive invariant.                                                 *)

WellTyped ==
    /\ DerivationTypeOK
    /\ order \in Orders /\ IsFiniteSet(stored) /\ IsFiniteSet(known)
    /\ pc # "idle" => version \in Versions

RulesDone == IF pc = "made" THEN {"dependency", "membership"} ELSE {Rules[i] : i \in 1..(next - 1)}
Silent(rule) == \A c \in ApplyAs(order, version, rule, known) : c.fact \in known

\* The loop ends when a whole iteration added nothing, and not before.
Looping ==
    /\ limits = Unlimited => codes = {}
    /\ pc = "queue" /\ pending = {} => known = {}
    /\ pc = "rules" /\ accepted => pending # {}
    /\ (pc = "made" \/ (pc = "rules" /\ ~accepted)) /\ codes = {} =>
          \A rule \in RulesDone : Silent(rule)

Bounded == pc # "idle" => Implied(version, known)

Traced(facts, lineage) ==
    /\ \A f \in DOMAIN lineage : lineage[f] \subseteq facts /\ Justified(f, lineage[f])
    /\ Founded(facts, lineage)

\* A derivation without limits is on its course.
Current == [known |-> known, support |-> support]
After(n, o, v, s) ==      \* the iteration that began in s, n - 1 rules into it
    CASE n = 1 -> s [] n = 2 -> Taken(o, v, "dependency", s) [] n = 3 -> Round(o, v, s)
Coursing ==
    pc # "idle" /\ limits = Unlimited =>
        IF pc = "made" THEN Settles(order, version, ObservedIn(known), Current)
        ELSE \E s : /\ Arrives(order, version, ObservedIn(known), s)
                    /\ Current = IF pc = "queue" THEN s ELSE After(next, order, version, s)

\* What the last rebuild of a version derived is stored.
Settled ==
    \A v \in Versions : \A observed \in settled[v] :
        \E s : /\ Settles(order, v, observed, s)
               /\ \A f \in DOMAIN s.support : f \in DOMAIN inputs /\ inputs[f] = s.support[f]

DerivationInv ==
    /\ WellTyped /\ Looping /\ Bounded /\ Traced(known, support) /\ Traced(stored, inputs)
    /\ Coursing /\ Settled /\ RebuildsRepeat


\* The batch of a rule, by fact.
New(rule) == {c.fact : c \in Fresh(rule)}
LineageFrom(rule, f) == (CHOOSE c \in Fresh(rule) : c.fact = f).lineage
Support(rule) ==
    [f \in DOMAIN support \cup New(rule) |-> IF f \in New(rule) THEN LineageFrom(rule, f) ELSE support[f]]

Take(rule) ==
    /\ LimitsReached(Fresh(rule)) = {}
    /\ known' = known \cup New(rule) /\ support' = Support(rule)
    /\ pending' = pending \cup New(rule)
    /\ accepted' = (accepted \/ New(rule) # {})
    /\ codes' = codes

Leave(rule) ==
    /\ LimitsReached(Fresh(rule)) # {}
    /\ codes' = codes \cup LimitsReached(Fresh(rule))
    /\ UNCHANGED <<known, support, pending, accepted>>

LEMMA ApplyRuleIs ==
    ASSUME ApplyRule
    PROVE  /\ pc = "rules" /\ next <= 2
           /\ Take(Rules[next]) \/ Leave(Rules[next])
           /\ next' = next + 1
           /\ UNCHANGED <<order, stored, inputs, pc, version, limits, iterations, settled, refused>>
  <1>1. Len(Rules) = 2
    BY DEF Rules
  <1>2. pc = "rules" /\ next <= 2 /\ next' = next + 1
    BY <1>1 DEF ApplyRule
  <1>3. UNCHANGED <<order, stored, inputs, pc, version, limits, iterations, settled, refused>>
    BY DEF ApplyRule
  <1>4. Take(Rules[next]) \/ Leave(Rules[next])
    BY DEF ApplyRule, Take, Leave, New, LineageFrom, Support
  <1> QED BY <1>2, <1>3, <1>4

LEMMA RulesNamed ==
    /\ Len(Rules) = 2 /\ Rules[1] = "dependency" /\ Rules[2] = "membership"
    /\ \A i \in 1..2 : Named(Rules[i])
  BY DEF Rules, Named

\* What a batch brings: finitely many facts of the version, none of them
\* known, each with a lineage among the known ones.
LEMMA BatchIs ==
    ASSUME WellTyped, pc # "idle", NEW rule, Named(rule)
    PROVE  /\ IsFiniteSet(Fresh(rule)) /\ IsFiniteSet(New(rule))
           /\ Cardinality(New(rule)) <= Cardinality(Fresh(rule))
           /\ New(rule) \subseteq Facts \ known
           /\ \A f \in New(rule) :
                 /\ f.rule = version /\ f.rule # Observed
                 /\ LineageFrom(rule, f) \subseteq known /\ LineageFrom(rule, f) # {}
                 /\ Justified(f, LineageFrom(rule, f))
           /\ ObservedIn(known \cup New(rule)) = ObservedIn(known)
  <1>0. known \in SUBSET Facts /\ version \in Versions /\ IsFiniteSet(known)
    BY DEF WellTyped, DerivationTypeOK
  <1>1. IsFiniteSet(Fresh(rule))
    <2>1. IsFiniteSet(Apply(rule, known))
      BY <1>0, RulesFinite
    <2>2. Fresh(rule) \in SUBSET Apply(rule, known)
      BY DEF Fresh
    <2> QED BY <2>1, <2>2, FS_Subset
  <1>2. IsFiniteSet(New(rule)) /\ Cardinality(New(rule)) <= Cardinality(Fresh(rule))
    <2> DEFINE g == [c \in Fresh(rule) |-> c.fact]
    <2>1. g \in [Fresh(rule) -> New(rule)] /\ \A t \in New(rule) : \E s \in Fresh(rule) : g[s] = t
      BY DEF New
    <2>2. g \in Surjection(Fresh(rule), New(rule))
      <3> HIDE DEF g
      <3> QED BY <2>1 DEF Surjection
    <2> HIDE DEF g
    <2> QED BY <1>1, <2>2, FS_Surjection
  <1>3. \A c \in Fresh(rule) : Sensible(c, known) /\ c.fact \notin known
    BY <1>0, RulesSensible DEF Fresh
  <1>4. New(rule) \subseteq Facts \ known
    BY <1>3 DEF New, Sensible
  <1>5. ASSUME NEW f \in New(rule)
        PROVE  /\ f.rule = version /\ f.rule # Observed
               /\ LineageFrom(rule, f) \subseteq known /\ LineageFrom(rule, f) # {}
               /\ Justified(f, LineageFrom(rule, f))
    <2> DEFINE c == CHOOSE c \in Fresh(rule) : c.fact = f
    <2>1. c \in Fresh(rule) /\ c.fact = f
      BY DEF New
    <2>2. LineageFrom(rule, f) = c.lineage
      BY DEF LineageFrom
    <2> HIDE DEF c
    <2>3. Sensible(c, known)
      BY <1>3, <2>1
    <2>4. version # Observed
      BY <1>0, DerivationAssumption
    <2> QED BY <2>1, <2>2, <2>3, <2>4 DEF Sensible
  <1>6. ObservedIn(known \cup New(rule)) = ObservedIn(known)
    BY <1>5 DEF ObservedIn
  <1> QED BY <1>1, <1>2, <1>4, <1>5, <1>6

LEMMA NoLimitReached ==
    ASSUME NEW rule, limits = Unlimited PROVE LimitsReached(Fresh(rule)) = {}
  BY DEF LimitsReached, Exceeds, Unlimited

----------------------------------------------------------------------------
\* Types.

LEMMA RestTyped ==
    ASSUME WellTyped, Rest, UNCHANGED order, IsFiniteSet(stored'), stored' \in SUBSET Facts,
           inputs' \in [stored' \cap DerivedFacts -> SUBSET Facts],
           settled' \in [Versions -> SUBSET SUBSET Facts],
           refused' \in [version : Versions \cup {Observed}, observed : SUBSET Facts,
                         settled : SUBSET SUBSET Facts]
    PROVE  WellTyped'
  <1>1. IsFiniteSet({}) /\ Cardinality({}) = 0
    BY FS_EmptySet
  <1>2. Len(Rules) = 2
    BY RulesNamed
  <1>3. support' \in [known' \cap DerivedFacts -> SUBSET Facts]
    BY DEF Rest
  <1>4. /\ known' = {} /\ pending' = {} /\ IsFiniteSet(known') /\ pc' = "idle" /\ next' = 1
        /\ iterations' = 0 /\ codes' = {} /\ accepted' = FALSE /\ version' = Observed
        /\ limits' = Unlimited
    BY <1>1 DEF Rest
  <1>5. limits'.facts = 0 /\ limits'.iterations = 0
    BY <1>4 DEF Unlimited
  <1>6. order' \in Orders
    BY DEF WellTyped
  <1>7. /\ (limits'.facts > 0 => Cardinality(known') <= limits'.facts)
        /\ (limits'.iterations > 0 => iterations' <= limits'.iterations)
    BY <1>5
  <1>8. next' \in 1..(Len(Rules) + 1) /\ iterations' \in Nat
    BY <1>2, <1>4
  <1>9. /\ accepted' \in BOOLEAN /\ codes' \in SUBSET Codes
        /\ pc' \in Places /\ version' \in Versions \cup {Observed} /\ limits' \in Limits \cup {Unlimited}
        /\ known' \in SUBSET Facts /\ pending' \subseteq known'
    BY <1>4 DEF Places
  <1> QED BY <1>3, <1>4, <1>6, <1>7, <1>8, <1>9 DEF WellTyped, DerivationTypeOK

LEMMA ObservedFacts ==
    ASSUME NEW facts \in SUBSET (Dependencies({Observed}) \cup Definitions)
    PROVE  facts \in SUBSET Facts /\ facts \cap DerivedFacts = {} /\ ObservedIn(facts) = facts
  BY DEF Dependencies, Definitions, Facts, DerivedFacts, ObservedIn

LEMMA TypedInit == DerivationInit => WellTyped
  <1> SUFFICES ASSUME DerivationInit PROVE WellTyped
    OBVIOUS
  <1>1. IsFiniteSet({}) /\ Cardinality({}) = 0
    BY FS_EmptySet
  <1>2. Len(Rules) = 2
    BY RulesNamed
  <1>3. IsFiniteSet(stored) /\ stored \in SUBSET (Dependencies({Observed}) \cup Definitions)
    BY DerivationAssumption DEF DerivationInit
  <1>4. stored \in SUBSET Facts /\ stored \cap DerivedFacts = {}
    BY <1>3, ObservedFacts
  <1>5. inputs \in [stored \cap DerivedFacts -> SUBSET Facts] /\ support \in [known \cap DerivedFacts -> SUBSET Facts]
    BY <1>4 DEF DerivationInit
  <1>6. settled \in [Versions -> SUBSET SUBSET Facts]
    BY DEF DerivationInit
  <1>7. refused \in [version : Versions \cup {Observed}, observed : SUBSET Facts, settled : SUBSET SUBSET Facts]
    BY DEF DerivationInit, NotRefused
  <1>11. next \in 1..(Len(Rules) + 1) /\ iterations \in Nat
    BY <1>2 DEF DerivationInit
  <1>8. /\ accepted \in BOOLEAN /\ codes \in SUBSET Codes
        /\ pc = "idle" /\ version \in Versions \cup {Observed} /\ limits \in Limits \cup {Unlimited}
        /\ known = {} /\ IsFiniteSet(known) /\ pending = {} /\ limits = Unlimited /\ order \in Orders
    BY <1>1, <1>2 DEF DerivationInit
  <1>9. limits.facts = 0 /\ limits.iterations = 0
    BY <1>8 DEF Unlimited
  <1>10. /\ (limits.facts > 0 => Cardinality(known) <= limits.facts)
         /\ (limits.iterations > 0 => iterations <= limits.iterations)
    BY <1>9
  <1> QED BY <1>3, <1>4, <1>5, <1>6, <1>7, <1>8, <1>10, <1>11 DEF WellTyped, DerivationTypeOK, Places

LEMMA TypedStep ==
    ASSUME WellTyped, [DerivationNext]_derivationVars
    PROVE  WellTyped'
  <1>0. /\ stored \in SUBSET Facts /\ inputs \in [stored \cap DerivedFacts -> SUBSET Facts]
        /\ known \in SUBSET Facts /\ pending \subseteq known
        /\ support \in [known \cap DerivedFacts -> SUBSET Facts]
        /\ next \in 1..3 /\ iterations \in Nat /\ IsFiniteSet(known) /\ IsFiniteSet(stored)
        /\ settled \in [Versions -> SUBSET SUBSET Facts]
        /\ refused \in [version : Versions \cup {Observed}, observed : SUBSET Facts, settled : SUBSET SUBSET Facts]
        /\ limits \in [iterations : Nat, facts : Nat, fanout : Nat]
    BY RulesNamed, DerivationAssumption DEF WellTyped, DerivationTypeOK, Unlimited
  <1>1. CASE Start
    <2>1. known' \in SUBSET stored /\ known' \in SUBSET Facts /\ known' \cap DerivedFacts = {}
      BY <1>0, <1>1 DEF Start, ObservedIn, DerivedFacts
    <2>2. IsFiniteSet(known') /\ Cardinality(known') \in Nat
      BY <1>0, <2>1, FS_Subset, FS_CardinalityType
    <2>3. support' \in [known' \cap DerivedFacts -> SUBSET Facts]
      BY <1>1, <2>1 DEF Start
    <2>4. limits' \in [iterations : Nat, facts : Nat, fanout : Nat]
      BY <1>1, DerivationAssumption DEF Start
    <2>5. limits'.facts > 0 => Cardinality(known') <= limits'.facts
      BY <1>1, <2>2, <2>4 DEF Start, Exceeds
    <2>6. iterations' = 0 /\ next' = 1 /\ codes' = {} /\ accepted' = FALSE /\ pc' = "queue" /\ pending' = known'
          /\ version' \in Versions /\ limits' \in Limits /\ UNCHANGED <<order, stored, inputs, settled, refused>>
      BY <1>1 DEF Start
    <2>7. /\ next' \in 1..(Len(Rules) + 1) /\ iterations' \in Nat
          /\ (limits'.iterations > 0 => iterations' <= limits'.iterations)
      BY <2>4, <2>6, RulesNamed
    <2> QED BY <1>0, <2>1, <2>2, <2>3, <2>5, <2>6, <2>7
            DEF WellTyped, DerivationTypeOK, Places
  <1>2. CASE Pop
    <2>0. pc \in Places /\ codes \in SUBSET Codes /\ accepted \in BOOLEAN
      BY DEF WellTyped, DerivationTypeOK
    <2>1. /\ pc' \in Places /\ pc = "queue" /\ pending' \subseteq known /\ accepted' \in BOOLEAN
          /\ codes' \in SUBSET Codes
      BY <1>0, <1>2, <2>0 DEF Pop, Places, Codes
    <2>4. next' \in 1..3
      BY <1>0, <1>2 DEF Pop
    <2>2. iterations' \in Nat /\ (limits.iterations > 0 => iterations' <= limits.iterations)
      <3>1. limits.iterations \in Nat
        BY <1>0
      <3> QED BY <1>0, <1>2, <3>1 DEF Pop, WellTyped, DerivationTypeOK
    <2>3. UNCHANGED <<order, stored, inputs, version, limits, known, support, settled, refused>>
      BY <1>2 DEF Pop
    <2> QED BY <1>0, <2>1, <2>2, <2>3, <2>4, RulesNamed DEF WellTyped, DerivationTypeOK
  <1>3. CASE ApplyRule
    <2> DEFINE rule == Rules[next]
    <2>0. /\ pc = "rules" /\ next <= 2 /\ next' = next + 1
          /\ Take(rule) \/ Leave(rule)
          /\ UNCHANGED <<order, stored, inputs, pc, version, limits, iterations, settled, refused>>
      BY <1>3, ApplyRuleIs
    <2>1. next \in 1..2 /\ next' \in 1..3 /\ pc # "idle"
      BY <1>0, <2>0
    <2>2. Named(rule)
      BY <2>1, RulesNamed
    <2> HIDE DEF rule
    <2>3. /\ IsFiniteSet(Fresh(rule)) /\ IsFiniteSet(New(rule))
          /\ Cardinality(New(rule)) <= Cardinality(Fresh(rule))
          /\ New(rule) \subseteq Facts \ known
          /\ \A f \in New(rule) : f.rule # Observed /\ LineageFrom(rule, f) \subseteq known
      BY <2>1, <2>2, BatchIs
    <2>4. CASE Take(rule)
      <3>1. known' = known \cup New(rule) /\ known' \in SUBSET Facts /\ IsFiniteSet(known')
        BY <1>0, <2>3, <2>4, FS_Union DEF Take
      <3>2. limits.facts > 0 => Cardinality(known') <= limits.facts
        <4>1. /\ Cardinality(known) \in Nat /\ Cardinality(New(rule)) \in Nat
              /\ Cardinality(Fresh(rule)) \in Nat /\ Cardinality(known') \in Nat
          BY <1>0, <2>3, <3>1, FS_CardinalityType
        <4>2. Cardinality(known') = Cardinality(known) + Cardinality(New(rule)) - Cardinality(known \cap New(rule))
          BY <1>0, <2>3, <3>1, FS_Union
        <4>3. known \cap New(rule) = {} /\ Cardinality({}) = 0
          BY <2>3, FS_EmptySet
        <4>4. Cardinality(known') <= Cardinality(known) + Cardinality(Fresh(rule))
          <5>1. Cardinality(known') = Cardinality(known) + Cardinality(New(rule)) - 0
            BY <4>2, <4>3
          <5> QED BY <2>3, <4>1, <5>1
        <4>5. ~Exceeds(Cardinality(known) + Cardinality(Fresh(rule)), limits.facts)
          BY <2>4 DEF Take, LimitsReached
        <4> QED BY <1>0, <4>1, <4>4, <4>5 DEF Exceeds
      <3>3. support' \in [known' \cap DerivedFacts -> SUBSET Facts]
        <4>1. DOMAIN support \cup New(rule) = known' \cap DerivedFacts
          BY <1>0, <2>3, <3>1 DEF DerivedFacts
        <4>2. \A f \in known' \cap DerivedFacts :
                 (IF f \in New(rule) THEN LineageFrom(rule, f) ELSE support[f]) \in SUBSET Facts
          BY <1>0, <2>3, <4>1
        <4> QED BY <2>4, <4>1, <4>2 DEF Take, Support
      <3>4. accepted' \in BOOLEAN /\ pending' \subseteq known' /\ codes' = codes
        BY <1>0, <2>4, <3>1 DEF Take
      <3> QED BY <1>0, <2>0, <2>1, <3>1, <3>2, <3>3, <3>4, RulesNamed
              DEF WellTyped, DerivationTypeOK, Places, DerivedFacts
    <2>5. CASE Leave(rule)
      <3>1. codes' \in SUBSET Codes
        BY <2>5 DEF Leave, LimitsReached, Codes, WellTyped, DerivationTypeOK
      <3> QED BY <1>0, <2>0, <2>1, <2>5, <3>1, RulesNamed DEF Leave, WellTyped, DerivationTypeOK, Places
    <2> QED BY <2>0, <2>4, <2>5
  <1>4. CASE EndIteration
    BY <1>0, <1>4 DEF EndIteration, WellTyped, DerivationTypeOK, Places
  <1>5. CASE CommitRebuild
    <2>1. Rest /\ UNCHANGED order /\ pc = "made"
      BY <1>5 DEF CommitRebuild
    <2>2. version \in Versions
      BY <2>1 DEF WellTyped
    <2>3. CASE UNCHANGED <<stored, inputs, settled, refused>>
      BY <1>0, <2>1, <2>3, RestTyped
    <2>4. CASE /\ stored' = stored \cup known
               /\ inputs' = [f \in DOMAIN inputs \cup DOMAIN support |->
                               IF f \in DOMAIN inputs THEN inputs[f] ELSE support[f]]
               /\ settled' = [settled EXCEPT ![version] = {ObservedIn(known)}]
               /\ UNCHANGED refused
      <3>1. stored' \in SUBSET Facts /\ IsFiniteSet(stored')
        BY <1>0, <2>4, FS_Union
      <3>2. DOMAIN inputs \cup DOMAIN support = stored' \cap DerivedFacts
        BY <1>0, <2>4
      <3>3. inputs' \in [stored' \cap DerivedFacts -> SUBSET Facts]
        BY <1>0, <2>4, <3>2
      <3>4. settled' \in [Versions -> SUBSET SUBSET Facts]
        BY <1>0, <2>2, <2>4 DEF ObservedIn
      <3> QED BY <1>0, <2>1, <2>4, <3>1, <3>3, <3>4, RestTyped
    <2>5. CASE /\ refused' = [version |-> version, observed |-> ObservedIn(known), settled |-> settled[version]]
               /\ UNCHANGED <<stored, inputs, settled>>
      <3>1. refused' \in [version : Versions \cup {Observed}, observed : SUBSET Facts, settled : SUBSET SUBSET Facts]
        BY <1>0, <2>2, <2>5 DEF ObservedIn
      <3> QED BY <1>0, <2>1, <2>5, <3>1, RestTyped
    <2> QED BY <1>5, <2>3, <2>4, <2>5 DEF CommitRebuild
  <1>6. CASE Fail
    BY <1>0, <1>6, RestTyped DEF Fail
  <1>7. CASE Observe
    <2>1. PICK f \in Late : stored' = stored \cup {f}
      BY <1>7 DEF Observe
    <2>2. {f} \in SUBSET Facts /\ {f} \cap DerivedFacts = {}
      BY ObservedFacts, DerivationAssumption
    <2>3. IsFiniteSet(stored') /\ stored' \in SUBSET Facts /\ stored' \cap DerivedFacts = stored \cap DerivedFacts
      BY <1>0, <2>1, <2>2, FS_AddElement
    <2> QED BY <1>0, <1>7, <2>3 DEF Observe, run, WellTyped, DerivationTypeOK
  <1>8. CASE UNCHANGED derivationVars
    BY <1>8 DEF derivationVars, run, WellTyped, DerivationTypeOK
  <1> QED BY <1>1, <1>2, <1>3, <1>4, <1>5, <1>6, <1>7, <1>8 DEF DerivationNext, Step


LEMMA NothingApplies ==
    ASSUME NEW o, NEW v, NEW rule, Named(rule) PROVE ApplyAs(o, v, rule, {}) = {}
  BY DEF ApplyAs, Named

LEMMA UnlimitedIs == Unlimited.iterations = 0 /\ Unlimited.facts = 0 /\ Unlimited.fanout = 0
  BY DEF Unlimited

\* What ApplyRule does, with what is known of its batch.
LEMMA ApplyRuleDoes ==
    ASSUME WellTyped, ApplyRule
    PROVE  /\ pc = "rules" /\ next \in 1..2 /\ next' = next + 1 /\ Named(Rules[next]) /\ version \in Versions
           /\ Take(Rules[next]) \/ Leave(Rules[next])
           /\ UNCHANGED <<order, stored, inputs, pc, version, limits, iterations, settled, refused>>
  <1>1. next \in 1..3
    BY RulesNamed DEF WellTyped, DerivationTypeOK
  <1>2. pc = "rules" /\ next <= 2
    BY ApplyRuleIs
  <1>3. next \in 1..2
    BY <1>1, <1>2
  <1>4. version \in Versions
    BY <1>2 DEF WellTyped
  <1> QED BY <1>3, <1>4, RulesNamed, ApplyRuleIs

LEMMA SilentIsFresh ==
    ASSUME NEW rule, Named(rule) PROVE Silent(rule) <=> Fresh(rule) = {}
  BY AppliesAs DEF Silent, Fresh

LEMMA LoopingStep ==
    ASSUME WellTyped, Looping, [DerivationNext]_derivationVars
    PROVE  Looping'
  <1>1. CASE Start
    BY <1>1 DEF Start, Looping
  <1>2. CASE Pop
    <2>1. limits = Unlimited => limits.iterations = 0
      BY UnlimitedIs
    <2>2. CASE limits.iterations > 0 /\ iterations >= limits.iterations
      <3>1. codes' # {} /\ pc' = "made" /\ limits' = limits /\ limits # Unlimited
        BY <1>2, <2>1, <2>2 DEF Pop
      <3> QED BY <3>1 DEF Looping
    <2>3. CASE ~(limits.iterations > 0 /\ iterations >= limits.iterations)
      <3>1. codes' = codes /\ pc' = "rules" /\ limits' = limits /\ accepted' = FALSE /\ next' = 1
        BY <1>2, <2>3 DEF Pop
      <3>2. RulesDone' = {}
        BY <3>1 DEF RulesDone
      <3> QED BY <3>1, <3>2 DEF Looping
    <2> QED BY <2>2, <2>3
  <1>3. CASE ApplyRule
    <2> DEFINE rule == Rules[next]
    <2>0. /\ pc = "rules" /\ next \in 1..2 /\ next' = next + 1 /\ Named(rule)
          /\ Take(rule) \/ Leave(rule)
          /\ UNCHANGED <<order, pc, version, limits>>
      BY <1>3, ApplyRuleDoes
    <2>1. RulesDone' = RulesDone \cup {rule}
      BY <2>0 DEF RulesDone
    <2>2. limits = Unlimited => LimitsReached(Fresh(rule)) = {}
      BY NoLimitReached
    <2> HIDE DEF rule
    <2>3. CASE Leave(rule)
      <3>1. LimitsReached(Fresh(rule)) # {} /\ codes' # {} /\ UNCHANGED <<pending, accepted>>
        BY <2>3 DEF Leave
      <3> QED BY <2>0, <2>2, <3>1 DEF Looping
    <2>4. CASE Take(rule)
      <3>1. accepted' => pending' # {}
        BY <2>0, <2>4 DEF Take, Looping
      <3>2. ASSUME ~accepted', codes' = {} PROVE \A r \in RulesDone' : Silent(r)'
        <4>1. ~accepted /\ New(rule) = {} /\ codes = {}
          BY <2>4, <3>2 DEF Take
        <4>2. Fresh(rule) = {}
          BY <4>1 DEF New
        <4>3. known' = known
          BY <2>4, <4>1 DEF Take
        <4>4. \A r \in RulesDone \cup {rule} : Silent(r)
          BY <2>0, <4>1, <4>2, SilentIsFresh DEF Looping
        <4> QED BY <2>0, <2>1, <4>3, <4>4 DEF Silent
      <3> QED BY <2>0, <2>4, <3>1, <3>2 DEF Take, Looping
    <2> QED BY <2>0, <2>3, <2>4
  <1>4. CASE EndIteration
    <2>1. UNCHANGED <<order, version, limits, known, pending, accepted, codes, next>>
      BY <1>4 DEF EndIteration
    <2>2. CASE pc = "rules" /\ next > Len(Rules) /\ pc' = (IF accepted THEN "queue" ELSE "made")
      <3>1. next = 3
        BY <2>2, RulesNamed DEF WellTyped, DerivationTypeOK
      <3>2. RulesDone = {"dependency", "membership"}
        BY <2>2, <3>1, RulesNamed DEF RulesDone
      <3>3. CASE accepted
        BY <2>1, <2>2, <3>3 DEF Looping
      <3>4. CASE ~accepted
        <4>1. pc' = "made" /\ RulesDone' = RulesDone
          BY <2>2, <3>2, <3>4 DEF RulesDone
        <4> QED BY <2>1, <2>2, <3>4, <4>1 DEF Looping, Silent
      <3> QED BY <3>3, <3>4
    <2>3. CASE pc = "queue" /\ pending = {} /\ pc' = "made"
      <3>1. known = {}
        BY <2>3 DEF Looping
      <3>2. \A rule \in RulesDone' : Named(rule)
        BY <2>3 DEF RulesDone, Named
      <3>3. \A rule \in RulesDone' : ApplyAs(order', version', rule, known') = {}
        BY <2>1, <3>1, <3>2, NothingApplies
      <3> QED BY <2>1, <2>3, <3>3 DEF Looping, Silent
    <2> QED BY <1>4, <2>2, <2>3 DEF EndIteration
  <1>5. CASE Rest
    BY <1>5 DEF Rest, Looping
  <1>7. CASE Observe
    BY <1>7 DEF Observe, run, Looping, RulesDone, Silent
  <1>8. CASE UNCHANGED derivationVars
    BY <1>8 DEF derivationVars, run, Looping, RulesDone, Silent
  <1> QED BY <1>1, <1>2, <1>3, <1>4, <1>5, <1>7, <1>8 DEF DerivationNext, Step, CommitRebuild, Fail

\* Nothing else happens to what is being derived.
Between == UNCHANGED <<order, known, support, version, limits>> /\ (pc' = "idle" <=> pc = "idle")

LEMMA BoundedStep ==
    ASSUME WellTyped, Bounded, [DerivationNext]_derivationVars
    PROVE  Bounded'
  <1>1. CASE Start
    BY <1>1 DEF Start, Bounded, Implied, ObservedIn
  <1>2. CASE ApplyRule
    <2> DEFINE rule == Rules[next]
    <2>0. /\ pc = "rules" /\ Named(rule) /\ version \in Versions
          /\ Take(rule) \/ Leave(rule)
          /\ UNCHANGED <<pc, version>>
      BY <1>2, ApplyRuleDoes
    <2> HIDE DEF rule
    <2>1. CASE Leave(rule)
      BY <2>0, <2>1 DEF Leave, Bounded
    <2>2. CASE Take(rule)
      <3>1. known' = known \cup New(rule) /\ ObservedIn(known \cup New(rule)) = ObservedIn(known)
        BY <2>0, <2>2, BatchIs DEF Take
      <3>2. known \in SUBSET Facts /\ Implied(version, known)
        BY <2>0 DEF WellTyped, DerivationTypeOK, Bounded
      <3>3. New(rule) \subseteq LeastFixedPoint(version, ObservedIn(known))
        BY <2>0, <3>2, RulesWithin DEF New, Fresh
      <3>4. Implied(version, known \cup New(rule))
        BY <3>1, <3>2, <3>3 DEF Implied
      <3> QED BY <2>0, <3>1, <3>4 DEF Bounded
    <2> QED BY <2>0, <2>1, <2>2
  <1>3. CASE Rest
    BY <1>3 DEF Rest, Bounded
  <1>4. CASE Pop \/ EndIteration \/ Observe \/ UNCHANGED derivationVars
    <2>1. UNCHANGED <<known, version>> /\ (pc' # "idle" => pc # "idle")
      BY <1>4 DEF Pop, EndIteration, Observe, run, derivationVars
    <2> QED BY <2>1 DEF Bounded
  <1> QED BY <1>1, <1>2, <1>3, <1>4 DEF DerivationNext, Step, CommitRebuild, Fail

LEMMA UntracedIsFounded ==
    ASSUME NEW facts, ObservedIn(facts) = facts, NEW lineage PROVE Founded(facts, lineage)
  BY DEF Founded, ObservedIn

LEMMA KnownTracedStep ==
    ASSUME WellTyped, Traced(known, support), [DerivationNext]_derivationVars
    PROVE  Traced(known, support)'
  <1>1. CASE Start
    <2>1. ObservedIn(known') = known' /\ support' = [f \in {} |-> {}]
      BY <1>1 DEF Start, ObservedIn
    <2>2. Founded(known', support')
      BY <2>1, UntracedIsFounded
    <2> QED BY <2>1, <2>2 DEF Traced
  <1>2. CASE ApplyRule
    <2> DEFINE rule == Rules[next]
    <2>0. pc = "rules" /\ Named(rule) /\ (Take(rule) \/ Leave(rule))
      BY <1>2, ApplyRuleDoes
    <2> HIDE DEF rule
    <2>1. CASE Leave(rule)
      BY <2>1 DEF Leave, Traced
    <2>2. CASE Take(rule)
      <3>1. /\ New(rule) \cap known = {}
            /\ \A f \in New(rule) : /\ LineageFrom(rule, f) \subseteq known
                                    /\ Justified(f, LineageFrom(rule, f))
        BY <2>0, BatchIs
      <3>2. known' = known \cup New(rule) /\ support' = Support(rule)
        BY <2>2 DEF Take
      <3>3. DOMAIN support = known \cap DerivedFacts
        BY DEF WellTyped, DerivationTypeOK
      <3>4. /\ \A f \in New(rule) : support'[f] = LineageFrom(rule, f)
            /\ \A f \in DOMAIN support : support'[f] = support[f]
            /\ DOMAIN support' = DOMAIN support \cup New(rule)
        BY <3>1, <3>2, <3>3 DEF Support
      <3>5. Founded(known \cup New(rule), support')
        <4>1. \A f \in known : f.rule # Observed => support'[f] = support[f]
          <5>1. \A f \in known : f.rule # Observed => f \in DOMAIN support
            BY <3>3 DEF DerivedFacts, WellTyped, DerivationTypeOK
          <5> QED BY <3>4, <5>1
        <4>2. FoundedOn(known, New(rule), support')
          BY <3>1, <3>4 DEF FoundedOn
        <4>3. Founded(known, support)
          BY DEF Traced
        <4> QED BY <4>1, <4>2, <4>3, FoundedGrows
      <3>6. \A f \in DOMAIN support' : support'[f] \subseteq known' /\ Justified(f, support'[f])
        BY <3>1, <3>2, <3>4 DEF Traced
      <3> QED BY <3>2, <3>5, <3>6 DEF Traced
    <2> QED BY <2>0, <2>1, <2>2
  <1>3. CASE Rest
    <2>1. known' = {} /\ support' = [f \in {} |-> {}] /\ ObservedIn(known') = known'
      BY <1>3 DEF Rest, ObservedIn
    <2> QED BY <2>1, UntracedIsFounded DEF Traced
  <1>4. CASE Pop \/ EndIteration \/ Observe \/ UNCHANGED derivationVars
    <2>1. UNCHANGED <<known, support>>
      BY <1>4 DEF Pop, EndIteration, Observe, run, derivationVars
    <2> QED BY <2>1 DEF Traced
  <1> QED BY <1>1, <1>2, <1>3, <1>4 DEF DerivationNext, Step, CommitRebuild, Fail

LEMMA StoredTracedStep ==
    ASSUME WellTyped, Traced(known, support), Traced(stored, inputs), [DerivationNext]_derivationVars
    PROVE  Traced(stored, inputs)'
  <1>0. DOMAIN inputs = stored \cap DerivedFacts /\ DOMAIN support = known \cap DerivedFacts
        /\ stored \in SUBSET Facts /\ known \in SUBSET Facts
    BY DEF WellTyped, DerivationTypeOK
  <1>1. CASE UNCHANGED <<stored, inputs>>
    BY <1>1 DEF Traced
  <1>2. CASE Observe
    <2>1. PICK f \in Late : stored' = stored \cup {f} /\ inputs' = inputs
      BY <1>2 DEF Observe
    <2>2. f.rule = Observed
      <3>1. ObservedIn({f}) = {f}
        BY ObservedFacts, DerivationAssumption
      <3> QED BY <3>1 DEF ObservedIn
    <2>3. FoundedOn(stored, {f}, inputs)
      BY <2>2 DEF ObservedIn, FoundedOn
    <2>4. Founded(stored \cup {f}, inputs)
      BY <2>3, FoundedGrows DEF Traced
    <2> QED BY <2>1, <2>4 DEF Traced
  <1>3. CASE /\ stored' = stored \cup known
             /\ inputs' = [f \in DOMAIN inputs \cup DOMAIN support |->
                             IF f \in DOMAIN inputs THEN inputs[f] ELSE support[f]]
    <2>1. /\ \A f \in DOMAIN inputs : inputs'[f] = inputs[f]
          /\ \A f \in DOMAIN support \ DOMAIN inputs : inputs'[f] = support[f]
          /\ DOMAIN inputs' = DOMAIN inputs \cup DOMAIN support
      BY <1>3
    <2>2. \A f \in DOMAIN inputs' : inputs'[f] \subseteq stored' /\ Justified(f, inputs'[f])
      <3>1. \A f \in DOMAIN inputs : inputs[f] \subseteq stored' /\ Justified(f, inputs[f])
        BY <1>3 DEF Traced
      <3>2. \A f \in DOMAIN support : support[f] \subseteq stored' /\ Justified(f, support[f])
        BY <1>3 DEF Traced
      <3> QED BY <2>1, <3>1, <3>2
    <2>3. \A f \in stored : f.rule # Observed => inputs'[f] = inputs[f]
      <3>1. \A f \in stored : f.rule # Observed => f \in DOMAIN inputs
        BY <1>0 DEF DerivedFacts
      <3> QED BY <2>1, <3>1
    <2>4. ASSUME NEW S \in SUBSET (known \ stored), S # {} /\ ObservedIn(S) = {}
          PROVE  \E f \in S : inputs'[f] \subseteq (stored \cup known) \ S
      <3>1. PICK f \in S : support[f] \subseteq known \ S
        BY <2>4 DEF Traced, Founded
      <3>2. f \in DOMAIN support \ DOMAIN inputs
        BY <1>0, <2>4 DEF DerivedFacts, ObservedIn
      <3> QED BY <2>1, <3>1, <3>2
    <2>5. Founded(stored \cup known, inputs')
      <3>1. FoundedOn(stored, known, inputs')
        BY <2>4 DEF FoundedOn
      <3>2. Founded(stored, inputs)
        BY DEF Traced
      <3> QED BY <2>3, <3>1, <3>2, FoundedGrows
    <2> QED BY <1>3, <2>2, <2>5 DEF Traced
  <1>4. CASE CommitRebuild
    BY <1>1, <1>3, <1>4 DEF CommitRebuild
  <1>5. CASE Start \/ Pop \/ ApplyRule \/ EndIteration \/ Fail \/ UNCHANGED derivationVars
    BY <1>1, <1>5 DEF Start, Pop, ApplyRule, EndIteration, Fail, derivationVars
  <1> QED BY <1>2, <1>4, <1>5 DEF DerivationNext, Step


LEMMA TakeIsTaken ==
    ASSUME WellTyped, pc # "idle", NEW rule, Named(rule), Take(rule)
    PROVE  /\ Current' = Taken(order, version, rule, Current)
           /\ ObservedIn(known') = ObservedIn(known)
  <1>1. Fresh(rule) = {c \in ApplyAs(order, version, rule, known) : c.fact \notin known}
    BY AppliesAs DEF Fresh
  <1>2. Taken(order, version, rule, Current) = [known |-> known \cup New(rule), support |-> Support(rule)]
    BY <1>1 DEF Taken, Current, New, LineageFrom, Support
  <1>3. ObservedIn(known \cup New(rule)) = ObservedIn(known)
    BY BatchIs
  <1> QED BY <1>2, <1>3 DEF Take, Current

\* Nothing left to say changes nothing.
LEMMA SilentIsSettled ==
    ASSUME WellTyped, \A rule \in {"dependency", "membership"} : Silent(rule)
    PROVE  Round(order, version, Current) = Current
  <1>1. ASSUME NEW rule \in {"dependency", "membership"}
        PROVE  Taken(order, version, rule, Current) = Current
    <2>1. {c \in ApplyAs(order, version, rule, known) : c.fact \notin known} = {}
      BY DEF Silent
    <2>2. support = [f \in DOMAIN support |-> support[f]]
      BY DEF WellTyped, DerivationTypeOK
    <2>3. Taken(order, version, rule, Current) =
              [known |-> known \cup {}, support |-> [f \in DOMAIN support \cup {} |-> support[f]]]
      <3>1. {c.fact : c \in {}} = {}
        OBVIOUS
      <3> QED BY <2>1, <3>1 DEF Taken, Current
    <2> QED BY <2>2, <2>3 DEF Current
  <1> QED BY <1>1 DEF Round

LEMMA CoursingStep ==
    ASSUME WellTyped, Looping, Coursing, [DerivationNext]_derivationVars
    PROVE  Coursing'
  <1> SUFFICES ASSUME pc' # "idle", limits' = Unlimited
               PROVE  IF pc' = "made" THEN Settles(order', version', ObservedIn(known'), Current')
                      ELSE \E s : /\ Arrives(order', version', ObservedIn(known'), s)
                                  /\ Current' = IF pc' = "queue" THEN s ELSE After(next', order', version', s)
    BY DEF Coursing
  <1>1. CASE Start
    <2>1. Current' = Begin(known') /\ ObservedIn(known') = known' /\ pc' = "queue"
      BY <1>1 DEF Start, Current, Begin, ObservedIn
    <2>2. Arrives(order', version', known', Begin(known'))
      BY ArrivesFirst
    <2> QED BY <2>1, <2>2
  <1>2. CASE Pop
    <2>1. UNCHANGED <<order, version, limits, known, support>> /\ pc = "queue"
      BY <1>2 DEF Pop
    <2>2. pc' = "rules" /\ next' = 1
      <3>1. limits.iterations = 0
        BY <2>1, UnlimitedIs
      <3> QED BY <1>2, <3>1 DEF Pop
    <2>3. PICK s : Arrives(order, version, ObservedIn(known), s) /\ Current = s
      BY <2>1 DEF Coursing
    <2>4. After(next', order, version, s) = s
      BY <2>2 DEF After
    <2> QED BY <2>1, <2>2, <2>3, <2>4 DEF Current, ObservedIn
  <1>3. CASE ApplyRule
    <2>0. /\ pc = "rules" /\ next \in 1..2 /\ next' = next + 1 /\ Named(Rules[next])
          /\ Take(Rules[next]) \/ Leave(Rules[next])
          /\ UNCHANGED <<order, pc, version, limits>>
      BY <1>3, ApplyRuleDoes
    <2>1. Take(Rules[next])
      BY <2>0, NoLimitReached DEF Leave
    <2>2. PICK s : Arrives(order, version, ObservedIn(known), s) /\ Current = After(next, order, version, s)
      BY <2>0 DEF Coursing
    <2>3. /\ Current' = Taken(order, version, Rules[next], Current)
          /\ ObservedIn(known') = ObservedIn(known)
      BY <2>0, <2>1, TakeIsTaken
    <2>4. Current' = After(next', order, version, s)
      <3>1. CASE next = 1
        BY <2>0, <2>2, <2>3, <3>1, RulesNamed DEF After
      <3>2. CASE next = 2
        BY <2>0, <2>2, <2>3, <3>2, RulesNamed DEF After, Round
      <3> QED BY <2>0, <3>1, <3>2
    <2>5. pc' = "rules" /\ order' = order /\ version' = version
      BY <2>0
    <2> QED BY <2>2, <2>3, <2>4, <2>5
  <1>4. CASE EndIteration
    <2>1. UNCHANGED <<order, version, limits, known, support, codes, next>> /\ ObservedIn(known') = ObservedIn(known)
      BY <1>4 DEF EndIteration
    <2>2. pc \in {"queue", "rules"} /\ pc' \in {"queue", "made"}
      BY <1>4 DEF EndIteration
    <2>3. Current' = Current
      BY <2>1 DEF Current
    <2>4. Arrives(order, version, ObservedIn(known), Current)
      <3>1. PICK s : /\ Arrives(order, version, ObservedIn(known), s)
                     /\ Current = IF pc = "queue" THEN s ELSE After(next, order, version, s)
        BY <2>1, <2>2 DEF Coursing
      <3>2. CASE pc = "queue"
        BY <3>1, <3>2
      <3>3. CASE pc = "rules"
        <4>1. next = 3
          BY <1>4, <3>3, RulesNamed DEF EndIteration, WellTyped, DerivationTypeOK
        <4>2. Current = Round(order, version, s)
          BY <3>1, <3>3, <4>1 DEF After
        <4> QED BY <3>1, <4>2, ArrivesNext
      <3> QED BY <2>2, <3>2, <3>3
    <2>5. CASE pc' = "queue"
      BY <2>1, <2>3, <2>4, <2>5
    <2>6. CASE pc' = "made"
      <3>1. Looping'
        BY LoopingStep
      <3>2. \A rule \in {"dependency", "membership"} : Silent(rule)'
        BY <2>6, <3>1 DEF Looping, RulesDone
      <3>3. Round(order, version, Current) = Current
        BY <2>1, <3>2, SilentIsSettled DEF Silent
      <3>4. Settles(order, version, ObservedIn(known), Current)
        BY <2>4, <3>3 DEF Settles
      <3> QED BY <2>1, <2>3, <2>6, <3>4
    <2> QED BY <2>2, <2>5, <2>6
  <1>5. CASE Rest
    BY <1>5 DEF Rest
  <1>6. CASE Observe \/ UNCHANGED derivationVars
    <2>1. UNCHANGED <<order, pc, version, limits, known, support, next>>
      BY <1>6 DEF Observe, run, derivationVars
    <2>2. Current' = Current /\ ObservedIn(known') = ObservedIn(known)
      BY <2>1 DEF Current
    <2> QED BY <2>1, <2>2 DEF Coursing
  <1> QED BY <1>1, <1>2, <1>3, <1>4, <1>5, <1>6 DEF DerivationNext, Step, CommitRebuild, Fail

\* A rebuild that can be committed: what it made is where its course settles.
LEMMA MadeSettles ==
    ASSUME WellTyped, Coursing, pc = "made", limits = Unlimited
    PROVE  /\ Settles(order, version, ObservedIn(known), Current) /\ version \in Versions
           /\ DOMAIN support = known \cap DerivedFacts /\ DOMAIN inputs = stored \cap DerivedFacts
           /\ known \in SUBSET Facts
  BY DEF WellTyped, DerivationTypeOK, Coursing

LEMMA SettledStep ==
    ASSUME WellTyped, Coursing, Settled, [DerivationNext]_derivationVars
    PROVE  Settled'
  <1>1. CASE UNCHANGED <<order, inputs, settled>>
    BY <1>1 DEF Settled
  <1>2. CASE CommitRebuild /\ ~UNCHANGED <<order, inputs, settled>>
    <2>1. /\ pc = "made" /\ limits = Unlimited /\ ~Conflict /\ order' = order
          /\ inputs' = [f \in DOMAIN inputs \cup DOMAIN support |->
                          IF f \in DOMAIN inputs THEN inputs[f] ELSE support[f]]
          /\ settled' = [settled EXCEPT ![version] = {ObservedIn(known)}]
      BY <1>2 DEF CommitRebuild
    <2>2. /\ Settles(order, version, ObservedIn(known), Current)
          /\ DOMAIN support = known \cap DerivedFacts /\ DOMAIN inputs = stored \cap DerivedFacts
      BY <2>1, MadeSettles
    <2>3. settled \in [Versions -> SUBSET SUBSET Facts]
      BY DEF WellTyped, DerivationTypeOK
    <2>4. \A f \in DOMAIN inputs : f \in DOMAIN inputs' /\ inputs'[f] = inputs[f]
      BY <2>1
    <2>5. \A f \in DOMAIN support : f \in DOMAIN inputs' /\ inputs'[f] = support[f]
      <3>1. \A f \in DOMAIN support \cap DOMAIN inputs : inputs[f] = support[f]
        BY <2>1, <2>2 DEF Conflict, DerivedFacts
      <3> QED BY <2>1, <3>1
    <2>6. ASSUME NEW v \in Versions, NEW observed \in settled'[v]
          PROVE  \E s : /\ Settles(order', v, observed, s)
                        /\ \A f \in DOMAIN s.support : f \in DOMAIN inputs' /\ inputs'[f] = s.support[f]
      <3>1. CASE v = version
        <4>1. observed = ObservedIn(known)
          BY <2>1, <2>3, <2>6, <3>1
        <4>2. Current.support = support
          BY DEF Current
        <4>3. Settles(order', v, observed, Current)
          BY <2>1, <2>2, <3>1, <4>1
        <4> QED BY <2>5, <4>2, <4>3
      <3>2. CASE v # version
        <4>1. observed \in settled[v]
          BY <2>1, <2>3, <2>6, <3>2
        <4>2. PICK s : /\ Settles(order, v, observed, s)
                       /\ \A f \in DOMAIN s.support : f \in DOMAIN inputs /\ inputs[f] = s.support[f]
          BY <2>6, <4>1 DEF Settled
        <4>3. Settles(order', v, observed, s)
          BY <2>1, <4>2
        <4> QED BY <2>4, <4>2, <4>3
      <3> QED BY <3>1, <3>2
    <2> QED BY <2>6 DEF Settled
  <1>3. CASE Start \/ Pop \/ ApplyRule \/ EndIteration \/ Fail \/ Observe \/ UNCHANGED derivationVars
    BY <1>1, <1>3 DEF Start, Pop, ApplyRule, EndIteration, Fail, Observe, derivationVars
  <1> QED BY <1>1, <1>2, <1>3 DEF DerivationNext, Step

LEMMA RebuildsRepeatStep ==
    ASSUME WellTyped, Coursing, Settled, RebuildsRepeat, [DerivationNext]_derivationVars
    PROVE  RebuildsRepeat'
  <1>1. CASE UNCHANGED refused
    BY <1>1 DEF RebuildsRepeat, NotRefused
  <1>2. CASE CommitRebuild /\ ~UNCHANGED refused
    <2>1. /\ pc = "made" /\ limits = Unlimited /\ Conflict
          /\ refused' = [version |-> version, observed |-> ObservedIn(known), settled |-> settled[version]]
      BY <1>2 DEF CommitRebuild
    <2>2. /\ Settles(order, version, ObservedIn(known), Current) /\ version \in Versions
          /\ DOMAIN support = known \cap DerivedFacts /\ known \in SUBSET Facts
      BY <2>1, MadeSettles
    <2>3. settled[version] # {ObservedIn(known)}
      <3> SUFFICES ASSUME settled[version] = {ObservedIn(known)} PROVE FALSE
        OBVIOUS
      <3>1. PICK s : /\ Settles(order, version, ObservedIn(known), s)
                     /\ \A f \in DOMAIN s.support : f \in DOMAIN inputs /\ inputs[f] = s.support[f]
        BY <2>2 DEF Settled
      <3>2. s = Current
        BY <2>2, <3>1, SettlesOnce
      <3>3. s.support = support
        BY <3>2 DEF Current
      <3>4. \A f \in known : f.rule # Observed => inputs[f] = support[f]
        BY <2>2, <3>1, <3>3 DEF DerivedFacts
      <3> QED BY <2>1, <3>4 DEF Conflict
    <2> QED BY <2>1, <2>3 DEF RebuildsRepeat
  <1>3. CASE Start \/ Pop \/ ApplyRule \/ EndIteration \/ Fail \/ Observe \/ UNCHANGED derivationVars
    BY <1>1, <1>3 DEF Start, Pop, ApplyRule, EndIteration, Fail, Observe, derivationVars
  <1> QED BY <1>1, <1>2, <1>3 DEF DerivationNext, Step

----------------------------------------------------------------------------

LEMMA DerivationInvInit == DerivationInit => DerivationInv
  <1> SUFFICES ASSUME DerivationInit PROVE DerivationInv
    OBVIOUS
  <1>1. WellTyped
    BY TypedInit
  <1>2. Looping /\ Bounded /\ Coursing
    BY DEF DerivationInit, Looping, Bounded, Coursing
  <1>3. ObservedIn(known) = known /\ support = [f \in {} |-> {}]
    BY DEF DerivationInit, ObservedIn
  <1>4. ObservedIn(stored) = stored /\ inputs = [f \in {} |-> {}]
    BY DerivationAssumption, ObservedFacts DEF DerivationInit
  <1>5. Traced(known, support) /\ Traced(stored, inputs)
    BY <1>3, <1>4, UntracedIsFounded DEF Traced
  <1>6. Settled /\ RebuildsRepeat
    BY DEF DerivationInit, Settled, RebuildsRepeat
  <1> QED BY <1>1, <1>2, <1>5, <1>6 DEF DerivationInv

LEMMA DerivationInvStep == DerivationInv /\ [DerivationNext]_derivationVars => DerivationInv'
  BY TypedStep, LoopingStep, BoundedStep, KnownTracedStep, StoredTracedStep, CoursingStep, SettledStep,
     RebuildsRepeatStep DEF DerivationInv

\* The inductive invariant holds in every state of every derivation.
THEOREM DerivationInvariant == DerivationSpec => []DerivationInv
  BY DerivationInvInit, DerivationInvStep, PTL DEF DerivationSpec

\* Facts and lineages keep their types, and a bounded derivation its limits.
THEOREM DerivationTyped == DerivationSpec => []DerivationTypeOK
  <1>1. DerivationInv => DerivationTypeOK
    BY DEF DerivationInv, WellTyped
  <1> QED BY <1>1, DerivationInvariant, PTL

\* A derivation that ends without a limit has the least fixed point of the rules:
\* all that was silent when it ended is closed, and a closed set has it whole.
THEOREM DerivationComplete == DerivationSpec => []CompleteIsLeastFixedPoint
  <1>1. DerivationInv => CompleteIsLeastFixedPoint
    <2> SUFFICES ASSUME DerivationInv PROVE CompleteIsLeastFixedPoint
      OBVIOUS
    <2>0. WellTyped /\ Looping /\ Bounded /\ known \in SUBSET Facts /\ order \in Orders
      BY DEF DerivationInv, WellTyped, DerivationTypeOK
    <2>1. pc # "idle" => known \subseteq ObservedIn(known) \cup LeastFixedPoint(version, ObservedIn(known))
      BY <2>0 DEF Bounded, Implied
    <2>2. ASSUME pc = "made", codes = {}
          PROVE  known = ObservedIn(known) \cup LeastFixedPoint(version, ObservedIn(known))
      <3>1. \A rule \in {"dependency", "membership"} : Silent(rule)
        BY <2>0, <2>2 DEF Looping, RulesDone
      <3>2. Closed(known)
        BY <3>1, AppliesAs DEF Closed, Silent, Named
      <3>3. version \in Versions
        BY <2>0, <2>2 DEF WellTyped
      <3>4. LeastFixedPoint(version, ObservedIn(known)) \subseteq known
        BY <2>0, <3>2, <3>3, ClosedIsWhole
      <3> QED BY <2>1, <2>2, <3>4 DEF ObservedIn
    <2> QED BY <2>1, <2>2 DEF CompleteIsLeastFixedPoint
  <1> QED BY <1>1, DerivationInvariant, PTL

\* Every stored derivation leads down to observed facts: of any derived facts
\* that are stored, one rests on none of the others.
THEOREM DerivationGrounded == DerivationSpec => []LineageIsGrounded
  <1>1. DerivationInv => LineageIsGrounded
    BY FoundedIsGrounded DEF DerivationInv, WellTyped, Traced, LineageIsGrounded
  <1> QED BY <1>1, DerivationInvariant, PTL

\* Over the same observed facts a rebuild repeats: its course is a function of
\* them, of the version and of the order of identities, and ends in one state.
THEOREM DerivationRepeats == DerivationSpec => []RebuildsRepeat
  <1>1. DerivationInv => RebuildsRepeat
    BY DEF DerivationInv
  <1> QED BY <1>1, DerivationInvariant, PTL
===============================================================================
