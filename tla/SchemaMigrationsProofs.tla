------------------------- MODULE SchemaMigrationsProofs -------------------------
(* Proofs about migrators and readiness checks, for any number of them and any *)
(* catalogs.                                                                   *)
EXTENDS SchemaMigrations, TLAPS

(* Whoever may touch the database, gone or not, has the lock.                  *)
Holders == \A p \in Callers : pc[p] \in Locked \cup Gone => lock = p

(* Nobody changed the history that a migrator works from.                      *)
Current ==
    \A p \in Callers :
        /\ pc[p] \in {"apply", "committing", "confirm"} =>
              known[p] = history /\ Compatible(history, Catalog(p)) /\ table
        /\ pc[p] = "confirm" => Complete(history, Catalog(p))

IInv == TypeOK /\ SchemaIsHistory /\ Holders /\ Current /\ ReportsAreTrue

-------------------------------------------------------------------------------
(* Sequences and their records.                                                *)

LEMMA SequenceDomain == ASSUME NEW S, NEW s \in Seq(S) PROVE DOMAIN s = 1..Len(s) /\ Len(s) \in Nat
  OBVIOUS

LEMMA RecordedRow ==
  ASSUME NEW s, NEW i \in DOMAIN s
  PROVE  [version |-> i, migration |-> s[i]] \in Recorded(s)
  BY DEF Recorded

LEMMA RecordedVersions ==
  ASSUME NEW S, NEW s \in Seq(S)
  PROVE  Versions(Recorded(s)) = 1..Len(s)
<1>1. DOMAIN s = 1..Len(s)
  OBVIOUS
<1>2. ASSUME NEW i \in DOMAIN s PROVE i \in Versions(Recorded(s))
  <2>1. [version |-> i, migration |-> s[i]].version = i
    OBVIOUS
  <2> QED
    BY <2>1, RecordedRow DEF Versions
<1>3. ASSUME NEW r \in Recorded(s) PROVE r.version \in DOMAIN s
  BY DEF Recorded
<1> QED
  BY <1>1, <1>2, <1>3 DEF Versions

LEMMA RecordedAppend ==
  ASSUME NEW S, NEW s \in Seq(S), NEW x \in S
  PROVE  Recorded(Append(s, x)) = Recorded(s) \cup {[version |-> Len(s) + 1, migration |-> x]}
<1>1. DOMAIN Append(s, x) = DOMAIN s \cup {Len(s) + 1}
  OBVIOUS
<1>2. \A i \in DOMAIN s : Append(s, x)[i] = s[i]
  OBVIOUS
<1>3. Append(s, x)[Len(s) + 1] = x
  OBVIOUS
<1> QED
  BY <1>1, <1>2, <1>3 DEF Recorded

LEMMA CatalogFacts ==
  ASSUME NEW c \in Catalogs
  PROVE  /\ c \in Seq(Migrations) /\ Len(c) \in Nat \ {0} /\ DOMAIN c = 1..Len(c)
         /\ \A i \in DOMAIN c : c[i] \in Migrations
         /\ \A i, j \in DOMAIN c : c[i] = c[j] => i = j
<1>1. c \in Seq(Migrations) /\ c # <<>>
  BY MigrationAssumption
<1>2. \A i, j \in DOMAIN c : c[i] = c[j] => i = j
  BY MigrationAssumption
<1> QED
  BY <1>1, <1>2

(* A catalog is compatible with a history when the schema is its beginning.    *)
LEMMA CompatibleIsPrefix ==
  ASSUME schema \in Seq(Migrations), history = Recorded(schema), NEW c \in Catalogs
  PROVE  Compatible(history, c) <=> \A i \in DOMAIN schema : i \in DOMAIN c /\ c[i] = schema[i]
<1>1. Versions(history) = 1..Len(schema) /\ DOMAIN schema = 1..Len(schema) /\ Len(schema) \in Nat
  BY RecordedVersions
<1>2. \A r \in history : r.version \in DOMAIN schema /\ r.migration = schema[r.version]
  BY DEF Recorded
<1>3. ASSUME NEW i \in DOMAIN schema PROVE \E r \in history : r.version = i /\ r.migration = schema[i]
  <2>1. [version |-> i, migration |-> schema[i]] \in history
    BY RecordedRow
  <2> QED
    BY <2>1
<1>4. \A r \in history : \A i \in 1 .. r.version - 1 : i \in Versions(history)
  BY <1>1, <1>2
<1> QED
  BY <1>2, <1>3, <1>4 DEF Compatible

(* The migration that is pending is the next one, and it can be applied.       *)
LEMMA NextApplies ==
  ASSUME TypeOK, SchemaIsHistory, NEW p \in Callers, Catalog(p) \in Catalogs,
         known[p] = history, Compatible(history, Catalog(p)),
         NEW i \in DOMAIN Catalog(p), Pending(p, i)
  PROVE  i = Len(schema) + 1 /\ Applicable(p, i) /\ i \in Nat \ {0}
<1>1. schema \in Seq(Migrations) /\ history = Recorded(schema)
  BY DEF TypeOK, SchemaIsHistory
<1>2. Versions(history) = 1..Len(schema) /\ DOMAIN schema = 1..Len(schema) /\ Len(schema) \in Nat
  BY <1>1, RecordedVersions
<1>3. \A j \in DOMAIN schema : j \in DOMAIN Catalog(p) /\ Catalog(p)[j] = schema[j]
  BY <1>1, CompatibleIsPrefix
<1>4. i \in Nat \ {0} /\ i \notin Versions(history) /\ \A j \in 1 .. i - 1 : j \in Versions(history)
  BY CatalogFacts DEF Pending
<1>5. i = Len(schema) + 1
  BY <1>2, <1>4
<1>6. Catalog(p)[i] \notin {schema[j] : j \in DOMAIN schema}
  BY <1>2, <1>3, <1>5, CatalogFacts
<1> QED
  BY <1>4, <1>5, <1>6 DEF Applicable

-------------------------------------------------------------------------------
(* The steps.                                                                  *)

LEMMA InitIInv == Init => IInv
<1> SUFFICES ASSUME Init PROVE IInv
  OBVIOUS
<1>0. PICK c \in Catalogs : \E n \in 0..Len(c) : schema = SubSeq(c, 1, n)
  BY DEF Init
<1>1. PICK n \in 0..Len(c) : schema = SubSeq(c, 1, n)
  BY <1>0
<1>2. schema \in Seq(Migrations) /\ Len(schema) = n /\ n <= Len(c)
  BY <1>1, CatalogFacts
<1>3. history \in SUBSET Rows
  <2>1. \A i \in DOMAIN schema : i \in Nat \ {0} /\ schema[i] \in Migrations
    BY <1>2
  <2> QED
    BY <2>1 DEF Init, Recorded, Rows
<1>4. SchemaIsHistory
  BY <1>1, <1>2 DEF Init, SchemaIsHistory
<1>5. TypeOK
  BY <1>2, <1>3, MigrationAssumption DEF Init, TypeOK, Outcomes, NoCall
<1>6. Holders /\ Current /\ ReportsAreTrue
  BY MigrationAssumption DEF Init, Holders, Current, ReportsAreTrue, Locked, Gone, None
<1> QED
  BY <1>4, <1>5, <1>6 DEF IInv

(* One migration takes effect: the call it belongs to has the lock.            *)
LEMMA AppliedKeeps ==
  ASSUME TypeOK, SchemaIsHistory, NEW p \in Callers, Catalog(p) \in Catalogs, table,
         known[p] = history, Compatible(history, Catalog(p)),
         NEW i \in DOMAIN Catalog(p), Pending(p, i), Applied(p, i)
  PROVE  /\ schema' \in Seq(Migrations) /\ history' \in SUBSET Rows /\ table' \in BOOLEAN
         /\ SchemaIsHistory'
         /\ \A j \in DOMAIN schema : j \in DOMAIN schema' /\ schema'[j] = schema[j]
         /\ Compatible(history', Catalog(p))
<1>1. i = Len(schema) + 1 /\ i \in Nat \ {0}
  BY NextApplies
<1>2. schema \in Seq(Migrations) /\ Catalog(p)[i] \in Migrations
  BY CatalogFacts DEF TypeOK
<1>3. schema' = Append(schema, Catalog(p)[i])
  BY DEF Applied
<1>4. schema' \in Seq(Migrations) /\ Len(schema') = i
      /\ \A j \in DOMAIN schema : j \in DOMAIN schema' /\ schema'[j] = schema[j]
  BY <1>1, <1>2, <1>3
<1>5. history' = Recorded(schema')
  BY <1>1, <1>2, <1>3, RecordedAppend DEF SchemaIsHistory, Applied
<1>6. history' \in SUBSET Rows
  BY <1>1, <1>2 DEF Applied, Rows, TypeOK
<1>7. \A j \in DOMAIN schema : j \in DOMAIN Catalog(p) /\ Catalog(p)[j] = schema[j]
  BY <1>2, CompatibleIsPrefix DEF SchemaIsHistory
<1>8. \A j \in DOMAIN schema' : j \in DOMAIN Catalog(p) /\ Catalog(p)[j] = schema'[j]
  BY <1>1, <1>2, <1>3, <1>7
<1>9. Len(schema') <= Len(Catalog(p)) /\ schema' = SubSeq(Catalog(p), 1, Len(schema'))
  BY <1>1, <1>4, <1>8, CatalogFacts
<1>10. Compatible(history', Catalog(p))
  <2>1. \A r \in history' : r.version \in DOMAIN schema' /\ r.migration = schema'[r.version]
    BY <1>5 DEF Recorded
  <2>2. Versions(history') = 1..Len(schema')
    BY <1>4, <1>5, RecordedVersions
  <2>3. DOMAIN schema' = 1..Len(schema') /\ Len(schema') \in Nat
    BY <1>4
  <2> QED
    BY <1>8, <2>1, <2>2, <2>3 DEF Compatible
<1> QED
  BY <1>4, <1>5, <1>6, <1>9, <1>10 DEF Applied, SchemaIsHistory

LEMMA TypeStep == IInv /\ [Next]_vars => TypeOK'
<1> SUFFICES ASSUME IInv, [Next]_vars PROVE TypeOK'
  OBVIOUS
<1> USE DEF IInv
<1>1. ASSUME NEW p \in Callers, Call(p) PROVE TypeOK'
  <2>1. PICK a \in BOOLEAN, c \in Catalogs : call' = [call EXCEPT ![p] = [apply |-> a, catalog |-> c]]
    BY <1>1 DEF Call
  <2>2. call' \in [Callers -> [apply : BOOLEAN, catalog : Catalogs \cup {<<>>}]]
        /\ \A q \in Callers : pc'[q] # "idle" => call'[q].catalog \in Catalogs
    BY <1>1, <2>1 DEF Call, Goto, TypeOK, Catalog
  <2> QED
    BY <1>1, <2>2, MigrationAssumption DEF Call, Goto, TypeOK, Outcomes, Catalog, KeepDatabase
<1>2. ASSUME NEW p \in Callers, Lock(p) PROVE TypeOK'
  BY <1>2 DEF Lock, Goto, TypeOK, Catalog, KeepDatabase, KeepCalls, Locked
<1>3. ASSUME NEW p \in Callers, Bootstrap(p) \/ EndApply(p) \/ Unlock(p) PROVE TypeOK'
  BY <1>3 DEF Bootstrap, EndApply, Unlock, Goto, TypeOK, Catalog, KeepDatabase, KeepCalls, Locked
<1>4. ASSUME NEW p \in Callers, Read(p) \/ Confirm(p) PROVE TypeOK'
  BY <1>4 DEF Read, Confirm, Conclude, Goto, TypeOK, Catalog, KeepDatabase, KeepCalls, Locked, Outcomes
<1>5. ASSUME NEW p \in Callers, Apply(p) PROVE TypeOK'
  <2>1. Catalog(p) \in Catalogs /\ pc[p] = "apply"
        /\ known[p] = history /\ Compatible(history, Catalog(p)) /\ table
    BY <1>5 DEF Apply, TypeOK, Current
  <2>2. PICK i \in DOMAIN Catalog(p) :
           /\ Pending(p, i)
           /\ \/ /\ Applicable(p, i) /\ Applied(p, i)
                 /\ known' = [known EXCEPT ![p] = @ \cup {[version |-> i, migration |-> Catalog(p)[i]]}]
                 /\ UNCHANGED <<pc, outcome>>
              \/ /\ ~Applicable(p, i) /\ Conclude(p, "failed")
                 /\ UNCHANGED known /\ KeepDatabase
    BY <1>5 DEF Apply
  <2>3. Applicable(p, i) /\ i \in Nat \ {0}
    BY <2>1, <2>2, NextApplies
  <2>4. schema' \in Seq(Migrations) /\ history' \in SUBSET Rows /\ table' \in BOOLEAN
    BY <2>1, <2>2, <2>3, AppliedKeeps
  <2>5. known' \in [Callers -> SUBSET Rows]
    <3>1. [version |-> i, migration |-> Catalog(p)[i]] \in Rows
      BY <2>1, <2>3, CatalogFacts DEF Rows
    <3> QED
      BY <2>2, <2>3, <3>1 DEF TypeOK
  <2> QED
    BY <1>5, <2>2, <2>3, <2>4, <2>5 DEF Apply, TypeOK, Catalog, KeepCalls
<1>6. ASSUME NEW p \in Callers, CallFails(p) \/ Lose(p) PROVE TypeOK'
  <2>1. /\ faults' \in 0..MaxFaults
        /\ disturbed' \in [Callers -> BOOLEAN] /\ outcome' \in [Callers -> Outcomes]
    <3>1. Disturb(p)
      BY <1>6 DEF CallFails, Lose
    <3> QED
      BY <3>1, MigrationAssumption DEF Disturb, TypeOK, Outcomes
  <2>2. PICK place \in {"unlock", "idle", "committing", "abandoned"} : Goto(p, place)
    BY <1>6 DEF CallFails, Lose
  <2>3. pc[p] # "idle"
    BY <1>6 DEF CallFails, Lose, Locked
  <2>4. pc' \in [Callers -> Locked \cup Gone \cup {"idle", "lock"}]
        /\ \A q \in Callers : pc'[q] # "idle" => pc[q] # "idle"
    BY <2>2, <2>3 DEF Goto, TypeOK, Locked, Gone
  <2>5. UNCHANGED <<schema, history>> /\ table' \in BOOLEAN
    BY <1>6 DEF CallFails, Lose, TypeOK, KeepDatabase
  <2> QED
    BY <1>6, <2>1, <2>4, <2>5 DEF CallFails, Lose, TypeOK, Catalog
<1>7. ASSUME NEW p \in Callers, EndSession(p) PROVE TypeOK'
  <2>1. schema' \in Seq(Migrations) /\ history' \in SUBSET Rows /\ table' \in BOOLEAN
    <3>1. CASE KeepDatabase
      BY <3>1 DEF KeepDatabase, TypeOK
    <3>2. ASSUME pc[p] = "committing", NEW i \in DOMAIN Catalog(p), Pending(p, i), Applied(p, i)
          PROVE  schema' \in Seq(Migrations) /\ history' \in SUBSET Rows /\ table' \in BOOLEAN
      BY <3>2, AppliedKeeps DEF TypeOK, Current
    <3> QED
      BY <1>7, <3>1, <3>2 DEF EndSession
  <2> QED
    BY <1>7, <2>1 DEF EndSession, Goto, TypeOK, Catalog, KeepCalls
<1>8. CASE UNCHANGED vars
  BY <1>8 DEF vars, TypeOK, Catalog
<1> QED
  BY <1>1, <1>2, <1>3, <1>4, <1>5, <1>6, <1>7, <1>8 DEF Next, Step

(* What took effect remains, at its place.                                     *)
Grows == \A j \in DOMAIN schema : j \in DOMAIN schema' /\ schema'[j] = schema[j]

LEMMA DatabaseStep == IInv /\ [Next]_vars => SchemaIsHistory' /\ Grows
<1> SUFFICES ASSUME IInv, [Next]_vars PROVE SchemaIsHistory' /\ Grows
  OBVIOUS
<1>1. CASE UNCHANGED <<schema, history>> /\ (table => table')
  BY <1>1 DEF IInv, SchemaIsHistory, Grows
<1>2. CASE KeepDatabase \/ \E p \in Callers : Bootstrap(p) \/ Lose(p)
  BY <1>1, <1>2 DEF KeepDatabase, Bootstrap, Lose
<1>3. ASSUME NEW p \in Callers, pc[p] \in {"apply", "committing"},
             NEW i \in DOMAIN Catalog(p), Pending(p, i), Applied(p, i)
      PROVE  SchemaIsHistory' /\ Grows
  <2>1. Catalog(p) \in Catalogs /\ table /\ known[p] = history /\ Compatible(history, Catalog(p))
    BY <1>3 DEF IInv, TypeOK, Current
  <2> QED
    BY <1>3, <2>1, AppliedKeeps DEF IInv, Grows
<1>4. ASSUME NEW p \in Callers, Apply(p) PROVE SchemaIsHistory' /\ Grows
  BY <1>2, <1>3, <1>4 DEF Apply
<1>5. ASSUME NEW p \in Callers, EndSession(p) PROVE SchemaIsHistory' /\ Grows
  BY <1>2, <1>3, <1>5 DEF EndSession
<1>6. CASE UNCHANGED vars
  BY <1>2, <1>6 DEF vars, KeepDatabase
<1> QED
  BY <1>2, <1>4, <1>5, <1>6
  DEF Next, Step, Call, Lock, Read, EndApply, Confirm, Unlock, CallFails

LEMMA HoldersStep == IInv /\ [Next]_vars => Holders'
<1> SUFFICES ASSUME IInv, [Next]_vars, NEW q \in Callers, pc'[q] \in Locked \cup Gone PROVE lock' = q
  BY DEF Holders
<1> USE DEF IInv, TypeOK, Holders, Goto
<1>1. ASSUME NEW p \in Callers, Call(p) PROVE lock' = q
  BY <1>1 DEF Call, Locked, Gone
<1>2. ASSUME NEW p \in Callers, Lock(p) PROVE lock' = q
  BY <1>2, MigrationAssumption DEF Lock, None
<1>3. ASSUME NEW p \in Callers, pc[p] \in Locked, lock' = lock,
             pc' = pc \/ \E place : Goto(p, place) PROVE lock' = q
  BY <1>3
<1>4. ASSUME NEW p \in Callers, Unlock(p) \/ EndSession(p) PROVE lock' = q
  BY <1>4 DEF Unlock, EndSession, Locked, Gone
<1>5. ASSUME NEW p \in Callers, Lose(p), pc[p] = "lock" PROVE lock' = q
  BY <1>5 DEF Lose, Locked, Gone
<1>6. ASSUME NEW p \in Callers, Bootstrap(p) \/ Read(p) \/ Apply(p) \/ EndApply(p) \/ Confirm(p)
      PROVE lock' = q
  <2>1. pc[p] \in Locked /\ lock' = lock
    BY <1>6 DEF Bootstrap, Read, Apply, EndApply, Confirm, Locked
  <2>2. pc' = pc \/ \E place : Goto(p, place)
    BY <1>6 DEF Bootstrap, Read, Apply, EndApply, Confirm, Conclude
  <2> QED
    BY <1>3, <2>1, <2>2
<1>7. ASSUME NEW p \in Callers, CallFails(p) \/ Lose(p), pc[p] # "lock" PROVE lock' = q
  BY <1>3, <1>7 DEF CallFails, Lose
<1>8. CASE UNCHANGED vars
  BY <1>8 DEF vars
<1> QED
  BY <1>1, <1>2, <1>4, <1>5, <1>6, <1>7, <1>8 DEF Next, Step, CallFails, Locked

(* While one has the lock no other works from a history it read.               *)
LEMMA CurrentStep == IInv /\ [Next]_vars => Current'
<1> DEFINE At(q) == /\ pc[q] \in {"apply", "committing", "confirm"} =>
                          known[q] = history /\ Compatible(history, Catalog(q)) /\ table
                    /\ pc[q] = "confirm" => Complete(history, Catalog(q))
<1> SUFFICES ASSUME IInv, [Next]_vars, NEW q \in Callers PROVE At(q)'
  BY DEF Current
<1> USE DEF IInv, Goto
<1>0. At(q)
  BY DEF Current
<1>1. ASSUME pc'[q] \notin {"apply", "committing", "confirm"} PROVE At(q)'
  BY <1>1
<1>2. ASSUME pc'[q] = pc[q], known'[q] = known[q], call'[q] = call[q],
             history' = history, table => table' PROVE At(q)'
  BY <1>0, <1>2 DEF Catalog, Compatible, Complete
<1>3. ASSUME NEW p \in Callers, p # q, pc[p] \in Locked \cup Gone, pc'[q] = pc[q] PROVE At(q)'
  <2>1. pc[q] \notin Locked \cup Gone
    BY <1>3 DEF Holders
  <2> QED
    BY <1>1, <1>3, <2>1 DEF Locked, Gone
<1>4. ASSUME NEW p \in Callers, p # q, Call(p) \/ Lock(p) \/ CallFails(p) \/ Lose(p) PROVE At(q)'
  BY <1>2, <1>4 DEF Call, Lock, CallFails, Lose, TypeOK, KeepDatabase, KeepCalls
<1>5. ASSUME NEW p \in Callers, p # q, Step(p) \/ EndSession(p) PROVE At(q)'
  <2>1. pc[p] \in Locked \cup Gone
    BY <1>5 DEF Step, EndSession, Bootstrap, Read, Apply, EndApply, Confirm, Unlock, Locked
  <2>2. pc'[q] = pc[q]
    BY <1>5 DEF Step, EndSession, Bootstrap, Read, Apply, EndApply, Confirm, Unlock, Conclude, TypeOK
  <2> QED
    BY <1>3, <1>5, <2>1, <2>2
<1>6. CASE Call(q) \/ Lock(q) \/ Bootstrap(q) \/ Confirm(q) \/ Unlock(q) \/ CallFails(q) \/ EndSession(q)
  BY <1>1, <1>6 DEF Call, Lock, Bootstrap, Confirm, Conclude, Unlock, CallFails, EndSession, TypeOK
<1>7. CASE Read(q)
  <2>1. CASE pc'[q] = "apply"
    BY <1>7, <2>1 DEF Read, Conclude, TypeOK, KeepDatabase, KeepCalls, Catalog, Compatible
  <2>2. CASE pc'[q] = "unlock"
    BY <1>1, <2>2
  <2> QED
    BY <1>7, <2>1, <2>2 DEF Read, Conclude, TypeOK
<1>8. CASE Apply(q)
  <2>1. Catalog(q) \in Catalogs /\ pc[q] = "apply" /\ call' = call
        /\ known[q] = history /\ Compatible(history, Catalog(q)) /\ table
    BY <1>0, <1>8 DEF Apply, TypeOK, KeepCalls
  <2>2. PICK i \in DOMAIN Catalog(q) :
           /\ Pending(q, i)
           /\ \/ /\ Applicable(q, i) /\ Applied(q, i)
                 /\ known' = [known EXCEPT ![q] = @ \cup {[version |-> i, migration |-> Catalog(q)[i]]}]
                 /\ UNCHANGED <<pc, outcome>>
              \/ /\ ~Applicable(q, i) /\ Conclude(q, "failed")
                 /\ UNCHANGED known /\ KeepDatabase
    BY <1>8 DEF Apply
  <2>3. Applicable(q, i)
    BY <2>1, <2>2, NextApplies
  <2>4. Compatible(history', Catalog(q)) /\ Applied(q, i)
    BY <2>1, <2>2, <2>3, AppliedKeeps
  <2>5. known'[q] = history' /\ table' /\ pc'[q] = "apply"
    BY <2>1, <2>2, <2>3, <2>4 DEF Applied, TypeOK
  <2>6. Catalog(q)' = Catalog(q)
    BY <2>1 DEF Catalog
  <2>7. Compatible(history, Catalog(q))'
    BY <2>4, <2>6
  <2> QED
    BY <2>5, <2>7
<1>9. CASE EndApply(q)
  <2>1. pc'[q] = "confirm" /\ known' = known /\ call' = call /\ KeepDatabase /\ pc[q] = "apply"
    BY <1>9 DEF EndApply, TypeOK, KeepCalls
  <2>2. known[q] = history /\ Compatible(history, Catalog(q)) /\ table /\ Complete(history, Catalog(q))
    BY <1>0, <1>9, <2>1 DEF EndApply
  <2> QED
    BY <2>1, <2>2 DEF KeepDatabase, Catalog, Compatible, Complete
<1>10. CASE Lose(q)
  <2>1. CASE pc[q] = "apply"
    <3>1. known' = known /\ call' = call /\ history' = history /\ table' = table
          /\ pc'[q] = "committing"
      BY <1>10, <2>1 DEF Lose, TypeOK
    <3> QED
      BY <1>0, <2>1, <3>1 DEF Catalog, Compatible
  <2>2. CASE pc[q] # "apply"
    BY <1>1, <1>10, <2>2 DEF Lose, TypeOK
  <2> QED
    BY <2>1, <2>2
<1>11. CASE UNCHANGED vars
  BY <1>2, <1>11 DEF vars
<1> QED
  BY <1>4, <1>5, <1>6, <1>7, <1>8, <1>9, <1>10, <1>11 DEF Next, Step

(* A report stays true: the schema only grows.                                 *)
LEMMA ReportsStep == IInv /\ [Next]_vars => ReportsAreTrue'
<1> DEFINE Fits(q) == \A i \in DOMAIN Catalog(q) : i \in DOMAIN schema /\ schema[i] = Catalog(q)[i]
           Differs(q) == \E i \in DOMAIN schema : i \notin DOMAIN Catalog(q) \/ schema[i] # Catalog(q)[i]
           At(q) == /\ outcome[q] = "ready" => Fits(q)
                    /\ outcome[q] = "incompatible" => Differs(q)
                    /\ outcome[q] = "failed" => disturbed[q]
<1> SUFFICES ASSUME IInv, [Next]_vars, NEW q \in Callers PROVE At(q)'
  BY DEF ReportsAreTrue
<1> USE DEF IInv
<1>0. At(q) /\ Grows
  BY DatabaseStep DEF ReportsAreTrue
<1>1. ASSUME outcome'[q] = outcome[q], call'[q] = call[q], disturbed'[q] = disturbed[q] PROVE At(q)'
  BY <1>0, <1>1 DEF Grows, Catalog
<1>2. ASSUME outcome'[q] \in {None, "missing", "behind"} PROVE At(q)'
  BY <1>2 DEF None
<1>3. ASSUME NEW p \in Callers, p # q,
             Call(p) \/ Lock(p) \/ Step(p) \/ CallFails(p) \/ Lose(p) \/ EndSession(p) PROVE At(q)'
  <2>1. outcome'[q] = outcome[q]
    BY <1>3 DEF Call, Lock, Step, Bootstrap, Read, Apply, EndApply, Confirm, Unlock, CallFails, Lose,
                EndSession, Conclude, Disturb, TypeOK
  <2>2. call'[q] = call[q]
    BY <1>3 DEF Call, Lock, Step, Bootstrap, Read, Apply, EndApply, Confirm, Unlock, CallFails, Lose,
                EndSession, KeepCalls, TypeOK
  <2>3. disturbed'[q] = disturbed[q]
    BY <1>3 DEF Call, Lock, Step, Bootstrap, Read, Apply, EndApply, Confirm, Unlock, CallFails, Lose,
                EndSession, KeepCalls, Disturb, TypeOK
  <2> QED
    BY <1>1, <2>1, <2>2, <2>3
<1>4. CASE Call(q)
  BY <1>2, <1>4 DEF Call, TypeOK
<1>5. CASE Lock(q) \/ Bootstrap(q) \/ EndApply(q) \/ Unlock(q) \/ EndSession(q)
  BY <1>1, <1>5 DEF Lock, Bootstrap, EndApply, Unlock, EndSession, KeepCalls
<1>6. CASE CallFails(q) \/ Lose(q)
  <2>1. outcome'[q] = "failed" /\ disturbed'[q]
    BY <1>6 DEF CallFails, Lose, Disturb, TypeOK
  <2> QED
    BY <2>1
<1>7. ASSUME pc[q] # "idle", KeepDatabase, call' = call,
             outcome'[q] = "incompatible", ~Compatible(history, Catalog(q)) PROVE At(q)'
  <2>1. Catalog(q) \in Catalogs /\ schema \in Seq(Migrations) /\ history = Recorded(schema)
    BY <1>7 DEF TypeOK, SchemaIsHistory
  <2>2. Differs(q)
    BY <1>7, <2>1, CompatibleIsPrefix
  <2> QED
    BY <1>7, <2>2 DEF KeepDatabase, Catalog
<1>8. ASSUME pc[q] # "idle", KeepDatabase, call' = call, outcome'[q] = "ready",
             Compatible(history, Catalog(q)), Complete(history, Catalog(q)) PROVE At(q)'
  <2>1. Catalog(q) \in Catalogs /\ schema \in Seq(Migrations) /\ history = Recorded(schema)
    BY <1>8 DEF TypeOK, SchemaIsHistory
  <2>2. \A i \in DOMAIN schema : i \in DOMAIN Catalog(q) /\ Catalog(q)[i] = schema[i]
    BY <1>8, <2>1, CompatibleIsPrefix
  <2>3. DOMAIN Catalog(q) \subseteq DOMAIN schema
    BY <1>8, <2>1, RecordedVersions, SequenceDomain DEF Complete
  <2>4. Fits(q)
    BY <2>2, <2>3
  <2> QED
    BY <1>8, <2>4 DEF KeepDatabase, Catalog
<1>9. CASE Read(q)
  <2>1. pc[q] # "idle" /\ KeepDatabase /\ call' = call /\ disturbed' = disturbed
    BY <1>9 DEF Read, KeepCalls
  <2>2. \/ outcome'[q] \in {"missing", "behind"}
        \/ outcome'[q] = "incompatible" /\ ~Compatible(history, Catalog(q))
        \/ outcome' = outcome
        \/ outcome'[q] = "ready" /\ Compatible(history, Catalog(q)) /\ Complete(history, Catalog(q))
    BY <1>9 DEF Read, Conclude, TypeOK
  <2> QED
    BY <1>1, <1>2, <1>7, <1>8, <2>1, <2>2
<1>10. CASE Confirm(q)
  <2>1. pc[q] # "idle" /\ KeepDatabase /\ call' = call
        /\ Compatible(history, Catalog(q)) /\ Complete(history, Catalog(q))
    BY <1>10 DEF Confirm, KeepCalls, Current
  <2>2. outcome'[q] = "ready"
    BY <1>10, <2>1 DEF Confirm, Conclude, TypeOK
  <2> QED
    BY <1>8, <2>1, <2>2
<1>11. CASE Apply(q)
  <2>1. Catalog(q) \in Catalogs /\ known[q] = history /\ Compatible(history, Catalog(q))
    BY <1>11 DEF Apply, TypeOK, Current
  <2>2. outcome' = outcome /\ call' = call /\ disturbed' = disturbed
    BY <1>11, <2>1, NextApplies DEF Apply, KeepCalls
  <2> QED
    BY <1>1, <2>2
<1>12. CASE UNCHANGED vars
  BY <1>1, <1>12 DEF vars
<1> QED
  BY <1>3, <1>4, <1>5, <1>6, <1>9, <1>10, <1>11, <1>12 DEF Next, Step

-------------------------------------------------------------------------------
(* The theorems.                                                               *)

LEMMA IInvHolds == Spec => []IInv
<1>1. IInv /\ [Next]_vars => IInv'
  BY TypeStep, DatabaseStep, HoldersStep, CurrentStep, ReportsStep DEF IInv
<1> QED
  BY InitIInv, <1>1, PTL DEF Spec

(* The variables keep their types, the rows a call works from among them: the  *)
(* versions and migrations that Apply and Confirm in migrate.go write and read.*)
THEOREM TypesHold == Spec => []TypeOK
<1>1. IInv => TypeOK
  BY DEF IInv
<1> QED
  BY IInvHolds, <1>1, PTL

(* Any number of migrators of any builds, failing anywhere, leave a schema     *)
(* that its history tells and that begins some build's catalog.                *)
THEOREM HistoryIsKept == Spec => []SchemaIsHistory
<1>1. IInv => SchemaIsHistory
  BY DEF IInv
<1> QED
  BY IInvHolds, <1>1, PTL

(* What Apply and Status report is so, and no later call of any build makes it *)
(* untrue.                                                                     *)
THEOREM ReportsStayTrue == Spec => []ReportsAreTrue
<1>1. IInv => ReportsAreTrue
  BY DEF IInv
<1> QED
  BY IInvHolds, <1>1, PTL

===============================================================================
