---------------------------- MODULE QueryExecution ----------------------------
(* One synchronous query, as internal/query runs it: the active snapshot is    *)
(* pinned, a running row is stored, evidence is retrieved, a package of what   *)
(* may leave the installation is composed, the gate abstains or a provider is  *)
(* called, and the outcome is stored in one transaction. Ingestion activates   *)
(* snapshots meanwhile, callers go away, and the process may die.              *)
EXTENDS RetrievalFusion

CONSTANTS Queries,
          Snapshots,
          SnapshotOf,          \* the snapshot of a unit
          Decision,            \* what its source decided about its transfer
          PolicyDecision,      \* what the installation's policy decides
          TextOf,              \* what its content hash stands for
          ArtifactOf,
          TopK,                \* hits a search returns at most
          MaxUnits, MaxUnitsPerArtifact,
          Kinds,               \* kinds of question
          Static,              \* of those, the ones static evidence can answer
          SignalsColumn,       \* TRUE: the column of signals takes what Finish writes
          MaxActivations, MaxFaults

Decisions == {"allow", "redact", "deny"}
None == "none"

(* Relations are stored, and their entities named, per snapshot.               *)
ASSUME QueryAssumption ==
    /\ None \notin Snapshots
    /\ SnapshotOf \in [Evidence -> Snapshots]
    /\ \A i \in DOMAIN Relations : \A u \in Relations[i].supports, e \in Evidence :
          Participants[e] \cap {Relations[i].from, Relations[i].to} # {} =>
              SnapshotOf[u] = SnapshotOf[e]
    /\ Decision \in [Evidence -> Decisions] /\ PolicyDecision \in [Evidence -> Decisions]
    /\ TopK \in Nat /\ MaxUnits \in Nat \ {0} /\ MaxUnitsPerArtifact \in Nat \ {0}
    /\ Static \subseteq Kinds /\ SignalsColumn \in BOOLEAN
    /\ MaxActivations \in Nat /\ MaxFaults \in Nat

VARIABLES active,      \* the source's active snapshot
          pc,          \* where each Create is
          input,       \* its kind of question, its pinned snapshot, whether it has a deadline
          cancelled,   \* its caller went away
          outcome,     \* what it knows so far
          row,         \* the stored execution
          hits,        \* what its searches answered (history)
          sent,        \* what its provider call transferred (history)
          faulty,      \* the store or the process failed it (history)
          activations, faults

vars == <<active, pc, input, cancelled, outcome, row, hits, sent, faulty, activations, faults>>

Running == {"scoped", "started", "retrieved", "composed", "generating", "finishing"}
Ended == {"executed", "failed", "refused", "dead"}
Terminal == {"completed", "partial", "failed", "abstained"}

NoInput == [kind |-> None, snapshot |-> None, deadline |-> FALSE]
NoOutcome == [state |-> "running", candidates |-> <<>>, composed |-> FALSE, package |-> {},
              audited |-> FALSE, cited |-> {}]
NoHits == [text |-> <<>>, vector |-> <<>>]
NoRow == [state |-> None, snapshot |-> None, package |-> {}, audited |-> FALSE, cited |-> {}]

Init ==
    /\ active \in Snapshots \cup {None}
    /\ pc = [q \in Queries |-> "new"]
    /\ input = [q \in Queries |-> NoInput]
    /\ cancelled = [q \in Queries |-> FALSE]
    /\ outcome = [q \in Queries |-> NoOutcome]
    /\ row = [q \in Queries |-> NoRow]
    /\ hits = [q \in Queries |-> NoHits]
    /\ sent = [q \in Queries |-> {}]
    /\ faulty = [q \in Queries |-> FALSE]
    /\ activations = 0 /\ faults = 0

EvidenceOf(s) == {e \in Evidence : SnapshotOf[e] = s}

-------------------------------------------------------------------------------
(* The package.                                                                *)

\* Mutant of Effective: the installation's policy replaces the source's decision.
EffectivePolicy(e) == PolicyDecision[e]

(* The policy may restrict a unit's transfer further, never allow it.          *)
Effective(e) ==
    CASE "deny" \in {Decision[e], PolicyDecision[e]} -> "deny"
      [] "deny" \notin {Decision[e], PolicyDecision[e]}
         /\ "redact" \in {Decision[e], PolicyDecision[e]} -> "redact"
      [] OTHER -> "allow"

Fits(e, selected) ==
    /\ Cardinality(selected) < MaxUnits
    /\ Cardinality({s \in selected : ArtifactOf[s] = ArtifactOf[e]}) < MaxUnitsPerArtifact

(* Candidates come best first; what must stay is passed over. A text counts as *)
(* seen even when the limits then refuse the unit that brought it.             *)
Consider(acc, e) ==
    IF Effective(e) = "deny" \/ TextOf[e] \in acc.seen THEN acc
    ELSE [selected |-> IF Fits(e, acc.selected) THEN acc.selected \cup {e} ELSE acc.selected,
          seen |-> acc.seen \cup {TextOf[e]}]

ComposePackage(candidates) ==
    FoldLeft(Consider, [selected |-> {}, seen |-> {}], candidates).selected

(* The kinds of question that ask for what was run or meant are never          *)
(* supported; the others need one unit its source lets out.                    *)
Supported(kind, candidates) ==
    kind \in Static /\ \E e \in ToSet(candidates) : Decision[e] # "deny"

Abstains(q) == outcome[q].package = {} \/ ~Supported(input[q].kind, outcome[q].candidates)

-------------------------------------------------------------------------------
(* Create.                                                                     *)

Goto(q, where) == pc' = [pc EXCEPT ![q] = where]
KeepStore == UNCHANGED <<active, input, cancelled, row, faulty, activations, faults>>

\* Mutant of Fail: the failed outcome keeps no record of the provider call.
FailUnaudited(q) ==
    /\ outcome' = [outcome EXCEPT ![q] = [@ EXCEPT !.state = "failed", !.cited = {}, !.audited = FALSE]]
    /\ Goto(q, "finishing")

(* Any error of the pipeline makes a failed outcome without a response; what   *)
(* it retrieved, composed and spent stays.                                     *)
Fail(q) ==
    /\ outcome' = [outcome EXCEPT ![q] = [@ EXCEPT !.state = "failed", !.cited = {}]]
    /\ Goto(q, "finishing")

(* The caller names a snapshot, or the active one is pinned.                   *)
Resolve(q) ==
    /\ pc[q] = "new"
    /\ \E kind \in Kinds, named \in Snapshots \cup {None}, deadline \in BOOLEAN :
         LET snapshot == IF named = None THEN active ELSE named
         IN  IF cancelled[q] \/ snapshot = None
             THEN Goto(q, "refused") /\ UNCHANGED input
             ELSE /\ input' = [input EXCEPT ![q] =
                                 [kind |-> kind, snapshot |-> snapshot, deadline |-> deadline]]
                  /\ Goto(q, "scoped")
    /\ UNCHANGED <<active, cancelled, outcome, row, hits, sent, faulty, activations, faults>>

(* A running row is committed before anything else is done.                    *)
Start(q) ==
    /\ pc[q] = "scoped"
    /\ IF cancelled[q]
       THEN Goto(q, "refused") /\ UNCHANGED row
       ELSE /\ row' = [row EXCEPT ![q] = [NoRow EXCEPT !.state = "running", !.snapshot = input[q].snapshot]]
            /\ Goto(q, "started")
    /\ UNCHANGED <<active, input, cancelled, outcome, hits, sent, faulty, activations, faults>>

(* The store fails Start, before or after its commit.                          *)
StartFault(q) ==
    /\ pc[q] = "scoped" /\ faults < MaxFaults
    /\ \/ UNCHANGED row
       \/ row' = [row EXCEPT ![q] = [NoRow EXCEPT !.state = "running", !.snapshot = input[q].snapshot]]
    /\ Goto(q, "refused")
    /\ faults' = faults + 1 /\ faulty' = [faulty EXCEPT ![q] = TRUE]
    /\ UNCHANGED <<active, input, cancelled, outcome, hits, sent, activations>>

(* The searches answer with any units of the pinned snapshot, the vector       *)
(* search, which may be missing, in any order; the signals are fused. A store, *)
(* the caller's going away or the fusion may fail the retrieval.               *)
Retrieve(q) ==
    /\ pc[q] = "started"
    /\ \/ Fail(q) /\ UNCHANGED hits
       \/ /\ ~cancelled[q]
          /\ \E matched \in SUBSET EvidenceOf(input[q].snapshot),
                near \in SUBSET EvidenceOf(input[q].snapshot) :
               /\ {Cardinality(matched), Cardinality(near)} \subseteq 0..TopK
               /\ \E vector \in SetToSeqs(near) :
                    LET text == TextHits(matched)
                    IN  /\ hits' = [hits EXCEPT ![q] = [text |-> text, vector |-> vector]]
                        /\ IF Refused(text)
                           THEN Fail(q)
                           ELSE /\ outcome' = [outcome EXCEPT ![q].candidates = Fuse(text, vector)]
                                /\ Goto(q, "retrieved")
    /\ KeepStore /\ UNCHANGED sent

Compose(q) ==
    /\ pc[q] = "retrieved"
    /\ IF cancelled[q]
       THEN Fail(q)
       ELSE /\ outcome' = [outcome EXCEPT ![q].composed = TRUE,
                                          ![q].package = ComposePackage(outcome[q].candidates)]
            /\ Goto(q, "composed")
    /\ KeepStore /\ UNCHANGED <<hits, sent>>

(* The gate: an abstention is an answer of its own, made without a provider.   *)
Abstain(q) ==
    /\ pc[q] = "composed" /\ Abstains(q)
    /\ outcome' = [outcome EXCEPT ![q].state = "abstained"]
    /\ Goto(q, "finishing")
    /\ KeepStore /\ UNCHANGED <<hits, sent>>

(* The package goes to the provider; a gateway whose caller has gone away      *)
(* refuses first, and the refusal is audited as a failed call.                 *)
Generate(q) ==
    /\ pc[q] = "composed" /\ ~Abstains(q)
    /\ IF cancelled[q]
       THEN /\ outcome' = [outcome EXCEPT ![q].audited = TRUE, ![q].state = "failed"]
            /\ Goto(q, "finishing") /\ UNCHANGED sent
       ELSE /\ sent' = [sent EXCEPT ![q] = {<<e, Effective(e)>> : e \in outcome[q].package}]
            /\ outcome' = [outcome EXCEPT ![q].audited = TRUE]
            /\ Goto(q, "generating")
    /\ KeepStore /\ UNCHANGED hits

\* Mutant of Accepts: what the answer cites is not looked up in the package.
AcceptsUnread(q, answer) ==
    /\ answer.cited # {}
    /\ answer.termination \in {"completed", "partial"}

(* An answer must cite, only what was sent; one the provider calls abstained   *)
(* is not an answer, nor is a partial one that names no gap.                   *)
Accepts(q, answer) ==
    /\ answer.cited # {} /\ answer.cited \subseteq outcome[q].package
    /\ \/ answer.termination = "completed"
       \/ answer.termination = "partial" /\ answer.gaps

Reply(q) ==
    /\ pc[q] = "generating"
    /\ \E answer \in [cited : SUBSET Evidence,
                      termination : {"completed", "partial", "abstained"},
                      gaps : BOOLEAN] :
         IF Accepts(q, answer)
         THEN /\ outcome' = [outcome EXCEPT ![q].state = answer.termination, ![q].cited = answer.cited]
              /\ Goto(q, "finishing")
         ELSE Fail(q)
    /\ KeepStore /\ UNCHANGED <<hits, sent>>

\* Mutant of Deadline: only a caller's deadline bounds the call.
DeadlineOfCaller(q) == IF input[q].deadline THEN "caller" ELSE None

Deadline(q) == IF input[q].deadline THEN "caller" ELSE "configured"

(* The call ends without an answer: at its deadline, or with its caller.       *)
Expire(q) ==
    /\ pc[q] = "generating"
    /\ Deadline(q) # None \/ cancelled[q]
    /\ Fail(q)
    /\ KeepStore /\ UNCHANGED <<hits, sent>>

-------------------------------------------------------------------------------
(* Finish: one transaction, which the caller's going away does not cancel.     *)

(* What the store refuses: a row that is not running, and, where the column of *)
(* signals does not take the array it is given, any candidate.                 *)
Refuses(q) ==
    \/ row[q].state # "running"
    \/ outcome[q].composed /\ outcome[q].candidates # <<>> /\ ~SignalsColumn

Recorded(q) ==
    [row EXCEPT ![q] = [@ EXCEPT !.state = outcome[q].state, !.package = outcome[q].package,
                                 !.audited = outcome[q].audited, !.cited = outcome[q].cited]]

\* Mutant of Finish: the transaction runs under the caller's context.
FinishUnderCaller(q) ==
    /\ pc[q] = "finishing"
    /\ IF Refuses(q) \/ cancelled[q]
       THEN Goto(q, "refused") /\ UNCHANGED row
       ELSE /\ row' = Recorded(q)
            /\ Goto(q, IF outcome[q].state = "failed" THEN "failed" ELSE "executed")
    /\ UNCHANGED <<active, input, cancelled, outcome, hits, sent, faulty, activations, faults>>

Finish(q) ==
    /\ pc[q] = "finishing"
    /\ IF Refuses(q)
       THEN Goto(q, "refused") /\ UNCHANGED row
       ELSE /\ row' = Recorded(q)
            /\ Goto(q, IF outcome[q].state = "failed" THEN "failed" ELSE "executed")
    /\ UNCHANGED <<active, input, cancelled, outcome, hits, sent, faulty, activations, faults>>

(* The store fails Finish, before or after its commit, or is too slow.         *)
FinishFault(q) ==
    /\ pc[q] = "finishing" /\ faults < MaxFaults
    /\ \/ UNCHANGED row
       \/ ~Refuses(q) /\ row' = Recorded(q)
    /\ Goto(q, "refused")
    /\ faults' = faults + 1 /\ faulty' = [faulty EXCEPT ![q] = TRUE]
    /\ UNCHANGED <<active, input, cancelled, outcome, hits, sent, activations>>

-------------------------------------------------------------------------------
(* What happens meanwhile.                                                     *)

Activate ==
    /\ activations < MaxActivations
    /\ \E s \in Snapshots \ {active} : active' = s
    /\ activations' = activations + 1
    /\ UNCHANGED <<pc, input, cancelled, outcome, row, hits, sent, faulty, faults>>

Cancel(q) ==
    /\ pc[q] \in Running \cup {"new"} /\ ~cancelled[q]
    /\ cancelled' = [cancelled EXCEPT ![q] = TRUE]
    /\ UNCHANGED <<active, pc, input, outcome, row, hits, sent, faulty, activations, faults>>

(* The process dies with every query under way.                                *)
Crash ==
    /\ faults < MaxFaults /\ \E q \in Queries : pc[q] \in Running
    /\ pc' = [q \in Queries |-> IF pc[q] \in Running THEN "dead" ELSE pc[q]]
    /\ faulty' = [q \in Queries |-> faulty[q] \/ pc[q] \in Running]
    /\ faults' = faults + 1
    /\ UNCHANGED <<active, input, cancelled, outcome, row, hits, sent, activations>>

Step(q) ==
    \/ Start(q) \/ Retrieve(q) \/ Compose(q) \/ Abstain(q) \/ Generate(q)
    \/ Expire(q) \/ Finish(q)

Next ==
    \/ \E q \in Queries : \/ Resolve(q) \/ Step(q) \/ Reply(q) \/ Cancel(q)
                          \/ StartFault(q) \/ FinishFault(q)
    \/ Activate \/ Crash

Spec == Init /\ [][Next]_vars
FairSpec == Spec /\ \A q \in Queries : WF_vars(Step(q))

-------------------------------------------------------------------------------
(* The type of every variable.                                                 *)
Inputs   == [kind : Kinds \cup {None}, snapshot : Snapshots \cup {None}, deadline : BOOLEAN]
Outcomes == [state : Terminal \cup {"running"}, candidates : Seq(Evidence), composed : BOOLEAN,
             package : SUBSET Evidence, audited : BOOLEAN, cited : SUBSET Evidence]
Answers  == [text : Seq(Evidence), vector : Seq(Evidence)]
Rows     == [state : Terminal \cup {None, "running"}, snapshot : Snapshots \cup {None},
             package : SUBSET Evidence, audited : BOOLEAN, cited : SUBSET Evidence]

TypeOK ==
    /\ active \in Snapshots \cup {None}
    /\ pc \in [Queries -> Running \cup Ended \cup {"new"}]
    /\ input \in [Queries -> Inputs]
    /\ cancelled \in [Queries -> BOOLEAN] /\ faulty \in [Queries -> BOOLEAN]
    /\ outcome \in [Queries -> Outcomes]
    /\ \A q \in Queries : outcome[q].package \subseteq ToSet(outcome[q].candidates)
    /\ hits \in [Queries -> Answers]
    /\ row \in [Queries -> Rows]
    /\ sent \in [Queries -> SUBSET (Evidence \X {"allow", "redact"})]
    /\ activations \in 0 .. MaxActivations /\ faults \in 0 .. MaxFaults

(* Of two units that no relation leads to, the one that every search that found *)
(* the other prefers comes first (addExactSignals to finalizeFusionCandidates), *)
(* but for two exact matches that the exact signal turns round: the retriever   *)
(* gives it the search's score for a rank, and a better score is a later rank.  *)
FusionRespectsSignals ==
    \A q \in Queries :
        LET candidates == outcome[q].candidates
            found      == ToSet(hits[q].text) \cup ToSet(hits[q].vector)
        IN  \A i, j \in DOMAIN candidates :
              /\ {candidates[i], candidates[j]} \subseteq found \ Related(found)
              /\ Outranks(candidates[i], candidates[j], hits[q].text, hits[q].vector)
              /\ ~TurnedRound(candidates[i], candidates[j], hits[q].text)
              => i < j

(* What leaves for a provider belongs to the snapshot the query pinned, whatever *)
(* was activated since, is within the package's limits, and neither its source  *)
(* nor the installation's policy keeps in or redacts what goes out whole        *)
(* (preparePackageCandidate, package.go).                                      *)
TransferIsAuthorized ==
    \A q \in Queries :
      /\ Cardinality(sent[q]) <= MaxUnits
      /\ \A t \in sent[q] :
           /\ SnapshotOf[t[1]] = row[q].snapshot
           /\ "deny" \notin {Decision[t[1]], PolicyDecision[t[1]]}
           /\ t[2] = "allow" => Decision[t[1]] = "allow" /\ PolicyDecision[t[1]] = "allow"

(* A stored answer cites something, and only evidence that was sent for it; a   *)
(* stored abstention cites nothing and was made without a provider             *)
(* (responseFromGeneration and EvaluateAbstention).                            *)
AnswersRestOnEvidence ==
    \A q \in Queries :
      /\ row[q].state \in {"completed", "partial"} =>
           row[q].cited # {} /\ row[q].cited \subseteq {t[1] : t \in sent[q]}
      /\ row[q].state = "abstained" => row[q].cited = {} /\ sent[q] = {}

(* A query that called a provider and reached a terminal row left the call in  *)
(* it, also when the answer was lost, refused, late or unwanted (execute and   *)
(* persistPipelineProviderCall).                                               *)
SpendingIsRecorded ==
    \A q \in Queries : row[q].state \in Terminal /\ sent[q] # {} => row[q].audited

(* A Create that is over, and that neither the store's outage nor the death of  *)
(* the process cut short, left no row or a terminal one, and the terminal one   *)
(* is what it told its caller.                                                 *)
CreateIsDurable ==
    \A q \in Queries :
      pc[q] \in Ended /\ ~faulty[q] =>
         /\ row[q].state # "running"
         /\ pc[q] = "executed" => row[q].state \in Terminal \ {"failed"}
         /\ pc[q] = "failed" => row[q].state = "failed"

(* A query that was started ends, whether or not its provider answers.         *)
CreatesReturn == \A q \in Queries : pc[q] = "scoped" ~> pc[q] \in Ended
===============================================================================
