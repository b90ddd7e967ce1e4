---------------------------- MODULE SchemaMigrations ----------------------------
(* Migrators and readiness checks of several builds on one database, as        *)
(* internal/persistence runs them: under an advisory lock of its session, a    *)
(* call reads the history, compares it with the catalog of its binary and, if  *)
(* it is a migrator, applies what is missing, each migration and its row in    *)
(* one transaction. Calls fail, clients disappear, and the server ends their   *)
(* sessions later, with a commit that was under way or without.                *)
EXTENDS Integers, Sequences

CONSTANTS Callers, Catalogs, MaxCalls, MaxFaults

None == "none"
Migrations == UNION {{c[i] : i \in DOMAIN c} : c \in Catalogs}

(* A migration cannot be run twice: it creates what then exists.               *)
ASSUME MigrationAssumption ==
    /\ None \notin Callers
    /\ \A c \in Catalogs : c \in Seq(Migrations) /\ c # <<>>
    /\ \A c \in Catalogs : \A i, j \in DOMAIN c : c[i] = c[j] => i = j
    /\ MaxCalls \in Nat /\ MaxFaults \in Nat

VARIABLES schema,     \* migrations whose statements took effect, in order
          table,      \* the history table exists
          history,    \* its rows
          lock,       \* whose session holds the advisory lock
          pc, call, outcome,
          known,      \* the rows a call read, and those it wrote since
          disturbed,  \* a database operation of the call failed (history)
          calls, faults

vars == <<schema, table, history, lock, pc, call, outcome, known, disturbed, calls, faults>>

Rows == [version : Nat \ {0}, migration : Migrations]
Versions(rows) == {r.version : r \in rows}
Recorded(s) == {[version |-> i, migration |-> s[i]] : i \in DOMAIN s}

(* A caller that is gone leaves its session behind: in the middle of a commit, *)
(* or of nothing that lasts.                                                   *)
Gone == {"committing", "abandoned"}
Locked == {"bootstrap", "read", "apply", "confirm", "unlock"}
Outcomes == {None, "ready", "behind", "missing", "incompatible", "failed"}

NoCall == [apply |-> FALSE, catalog |-> <<>>]

(* A database some build has migrated, completely or not, or none has.         *)
Init ==
    /\ \E c \in Catalogs : \E n \in 0..Len(c) : schema = SubSeq(c, 1, n)
    /\ history = Recorded(schema)
    /\ table \in BOOLEAN /\ (history # {} => table)
    /\ lock = None
    /\ pc = [p \in Callers |-> "idle"]
    /\ call = [p \in Callers |-> NoCall]
    /\ outcome = [p \in Callers |-> None]
    /\ known = [p \in Callers |-> {}]
    /\ disturbed = [p \in Callers |-> FALSE]
    /\ calls = 0 /\ faults = 0

-------------------------------------------------------------------------------
(* The catalog of a call, and what it makes of the rows it reads.              *)

Catalog(p) == call[p].catalog

(* The versions follow one another from the first, the catalog has them, and   *)
(* with the same name and checksum.                                            *)
Compatible(rows, catalog) ==
    \A r \in rows :
        /\ \A i \in 1 .. r.version - 1 : i \in Versions(rows)
        /\ r.version \in DOMAIN catalog /\ catalog[r.version] = r.migration

Complete(rows, catalog) == DOMAIN catalog \subseteq Versions(rows)

Goto(p, place) == pc' = [pc EXCEPT ![p] = place]
Conclude(p, result) == outcome' = [outcome EXCEPT ![p] = result] /\ Goto(p, "unlock")
KeepDatabase == UNCHANGED <<schema, table, history>>
KeepCalls == UNCHANGED <<call, disturbed, calls, faults>>

-------------------------------------------------------------------------------
(* A call.                                                                     *)

(* A process of some build migrates, or is asked whether it is ready.          *)
Call(p) ==
    /\ pc[p] = "idle" /\ calls < MaxCalls
    /\ call' \in {[call EXCEPT ![p] = [apply |-> a, catalog |-> c]] : a \in BOOLEAN, c \in Catalogs}
    /\ Goto(p, "lock")
    /\ outcome' = [outcome EXCEPT ![p] = None]
    /\ known' = [known EXCEPT ![p] = {}]
    /\ disturbed' = [disturbed EXCEPT ![p] = FALSE]
    /\ calls' = calls + 1
    /\ UNCHANGED <<lock, faults>> /\ KeepDatabase

\* Mutant of Lock: it is not waited for.
LockAnyway(p) ==
    /\ pc[p] = "lock"
    /\ lock' = p
    /\ Goto(p, IF call[p].apply THEN "bootstrap" ELSE "read")
    /\ UNCHANGED <<outcome, known>> /\ KeepDatabase /\ KeepCalls

Lock(p) ==
    /\ pc[p] = "lock" /\ lock = None
    /\ lock' = p
    /\ Goto(p, IF call[p].apply THEN "bootstrap" ELSE "read")
    /\ UNCHANGED <<outcome, known>> /\ KeepDatabase /\ KeepCalls

Bootstrap(p) ==
    /\ pc[p] = "bootstrap"
    /\ table' = TRUE
    /\ Goto(p, "read")
    /\ UNCHANGED <<schema, history, lock, outcome, known>> /\ KeepCalls

(* A readiness check ends here; that migrations are missing is no error.       *)
Read(p) ==
    /\ pc[p] = "read"
    /\ known' = [known EXCEPT ![p] = history]
    /\ IF ~table THEN Conclude(p, "missing")
       ELSE IF ~Compatible(history, Catalog(p)) THEN Conclude(p, "incompatible")
       ELSE IF call[p].apply THEN Goto(p, "apply") /\ UNCHANGED outcome
       ELSE Conclude(p, IF Complete(history, Catalog(p)) THEN "ready" ELSE "behind")
    /\ UNCHANGED lock /\ KeepDatabase /\ KeepCalls

(* The first migration of the catalog that is not among the rows known.        *)
Pending(p, i) ==
    /\ i \in DOMAIN Catalog(p) \ Versions(known[p])
    /\ \A j \in 1 .. i - 1 : j \in Versions(known[p])

(* Its statements and its row are accepted by the database.                    *)
Applicable(p, i) == Catalog(p)[i] \notin {schema[j] : j \in DOMAIN schema} /\ i \notin Versions(history)

Applied(p, i) ==
    /\ schema' = Append(schema, Catalog(p)[i])
    /\ history' = history \cup {[version |-> i, migration |-> Catalog(p)[i]]}
    /\ UNCHANGED table

\* Mutant of Apply: the row is not part of the transaction and may be lost.
ApplyApart(p) ==
    /\ pc[p] = "apply"
    /\ \E i \in DOMAIN Catalog(p) :
          /\ Pending(p, i)
          /\ \/ /\ Applicable(p, i) /\ Applied(p, i)
                /\ known' = [known EXCEPT ![p] = @ \cup {[version |-> i, migration |-> Catalog(p)[i]]}]
                /\ UNCHANGED <<pc, outcome>>
             \/ /\ Applicable(p, i)
                /\ schema' = Append(schema, Catalog(p)[i]) /\ UNCHANGED <<table, history>>
                /\ Conclude(p, "failed") /\ UNCHANGED known
             \/ /\ ~Applicable(p, i) /\ Conclude(p, "failed")
                /\ UNCHANGED known /\ KeepDatabase
    /\ UNCHANGED lock /\ KeepCalls

(* One migration in one transaction.                                           *)
Apply(p) ==
    /\ pc[p] = "apply"
    /\ \E i \in DOMAIN Catalog(p) :
          /\ Pending(p, i)
          /\ \/ /\ Applicable(p, i) /\ Applied(p, i)
                /\ known' = [known EXCEPT ![p] = @ \cup {[version |-> i, migration |-> Catalog(p)[i]]}]
                /\ UNCHANGED <<pc, outcome>>
             \/ /\ ~Applicable(p, i) /\ Conclude(p, "failed")
                /\ UNCHANGED known /\ KeepDatabase
    /\ UNCHANGED lock /\ KeepCalls

(* Nothing is pending.                                                         *)
EndApply(p) ==
    /\ pc[p] = "apply" /\ Complete(known[p], Catalog(p))
    /\ Goto(p, "confirm")
    /\ UNCHANGED <<lock, outcome, known>> /\ KeepDatabase /\ KeepCalls

(* The history is read and compared again.                                     *)
Confirm(p) ==
    /\ pc[p] = "confirm"
    /\ known' = [known EXCEPT ![p] = history]
    /\ Conclude(p, IF Compatible(history, Catalog(p)) THEN "ready" ELSE "incompatible")
    /\ UNCHANGED lock /\ KeepDatabase /\ KeepCalls

\* Mutant of Unlock: a refusal returns without giving the lock back.
UnlockAccepted(p) ==
    /\ pc[p] = "unlock"
    /\ lock' = IF outcome[p] = "incompatible" THEN lock ELSE None
    /\ Goto(p, "idle")
    /\ UNCHANGED <<outcome, known>> /\ KeepDatabase /\ KeepCalls

(* On every path, also when the caller's context has ended.                    *)
Unlock(p) ==
    /\ pc[p] = "unlock"
    /\ lock' = None
    /\ Goto(p, "idle")
    /\ UNCHANGED <<outcome, known>> /\ KeepDatabase /\ KeepCalls

-------------------------------------------------------------------------------
(* What fails.                                                                 *)

Disturb(p) ==
    /\ faults < MaxFaults /\ faults' = faults + 1
    /\ disturbed' = [disturbed EXCEPT ![p] = TRUE]
    /\ outcome' = [outcome EXCEPT ![p] = "failed"]

(* The database answers with an error, or the context is found ended before    *)
(* the next migration; the transaction is rolled back.                         *)
CallFails(p) ==
    /\ pc[p] \in Locked \ {"unlock"}
    /\ Disturb(p) /\ Goto(p, "unlock")
    /\ UNCHANGED <<lock, call, known, calls>> /\ KeepDatabase

(* The process dies, or its connection breaks or is given up with the context; *)
(* the table may have been created all the same.                               *)
Lose(p) ==
    /\ pc[p] \in Locked \cup {"lock"}
    /\ Disturb(p)
    /\ Goto(p, CASE pc[p] = "lock" -> "idle" [] pc[p] = "apply" -> "committing" [] OTHER -> "abandoned")
    /\ \/ UNCHANGED table
       \/ pc[p] = "bootstrap" /\ table' = TRUE
    /\ UNCHANGED <<schema, history, lock, call, known, calls>>

(* The server ends such a session, after the commit it was asked for or with   *)
(* a rollback; the lock goes with the session.                                 *)
EndSession(p) ==
    /\ pc[p] \in Gone
    /\ Goto(p, "idle") /\ lock' = None
    /\ \/ KeepDatabase
       \/ /\ pc[p] = "committing"
          /\ \E i \in DOMAIN Catalog(p) : Pending(p, i) /\ Applicable(p, i) /\ Applied(p, i)
    /\ UNCHANGED <<outcome, known>> /\ KeepCalls

Step(p) == Bootstrap(p) \/ Read(p) \/ Apply(p) \/ EndApply(p) \/ Confirm(p) \/ Unlock(p)

Next == \E p \in Callers : Call(p) \/ Lock(p) \/ Step(p) \/ CallFails(p) \/ Lose(p) \/ EndSession(p)

Spec == Init /\ [][Next]_vars

(* PostgreSQL hands the lock to those who wait in turn, and ends the sessions  *)
(* of clients that are gone.                                                   *)
Fairness == \A p \in Callers : SF_vars(Lock(p)) /\ WF_vars(Step(p)) /\ WF_vars(EndSession(p))

FairSpec == Spec /\ Fairness
-------------------------------------------------------------------------------
(* Properties.                                                                 *)

TypeOK ==
    /\ schema \in Seq(Migrations) /\ history \in SUBSET Rows /\ table \in BOOLEAN
    /\ lock \in Callers \cup {None}
    /\ pc \in [Callers -> Locked \cup Gone \cup {"idle", "lock"}]
    /\ call \in [Callers -> [apply : BOOLEAN, catalog : Catalogs \cup {<<>>}]]
    /\ \A p \in Callers : pc[p] # "idle" => Catalog(p) \in Catalogs
    /\ outcome \in [Callers -> Outcomes]
    /\ known \in [Callers -> SUBSET Rows]
    /\ disturbed \in [Callers -> BOOLEAN]
    /\ calls \in 0..MaxCalls /\ faults \in 0..MaxFaults

(* The history tells what the schema is: a row for each migration that took    *)
(* effect, at its place, and no other, and what took effect is the beginning   *)
(* of some build's catalog, whichever builds ran and wherever they failed.     *)
SchemaIsHistory ==
    /\ history = Recorded(schema)
    /\ history # {} => table
    /\ \E c \in Catalogs : Len(schema) <= Len(c) /\ schema = SubSeq(c, 1, Len(schema))

(* What a call reports is so, and remains so: a build told that it is ready    *)
(* finds its whole catalog in the schema; one that was refused is behind the   *)
(* schema or at odds with it; and nothing else makes a call fail unless an     *)
(* operation of its own did, whatever other builds do at the same time.        *)
ReportsAreTrue ==
    \A p \in Callers :
        /\ outcome[p] = "ready" => \A i \in DOMAIN Catalog(p) : i \in DOMAIN schema /\ schema[i] = Catalog(p)[i]
        /\ outcome[p] = "incompatible" => \E i \in DOMAIN schema : i \notin DOMAIN Catalog(p) \/ schema[i] # Catalog(p)[i]
        /\ outcome[p] = "failed" => disturbed[p]

(* Every call ends, also those that wait for the lock of one that is gone.     *)
CallsEnd == \A p \in Callers : pc[p] = "lock" ~> pc[p] = "idle"
===============================================================================
