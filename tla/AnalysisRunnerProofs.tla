-------------------------- MODULE AnalysisRunnerProofs --------------------------
(***************************************************************************)
(* Proofs about the analysis runner, for any number of paths, analyzers,   *)
(* versions, workers, runs and edits, and any imports.                     *)
(*                                                                         *)
(* A completed run is equivalent to a full analysis because what a worker  *)
(* puts together holds as long as the file has not changed (WorkIsSound),  *)
(* the second look at the file turns that into what holds whatever happens *)
(* to the file next (OutputIsSound), each artifact is on one output alone  *)
(* (EachOnce, NoneLost), and the store has only sound entries              *)
(* (StoreIsSound): those of a cancelled run are the exception, and named.  *)
(***************************************************************************)
EXTENDS AnalysisRunner, WellFoundedInduction, TLAPS

----------------------------------------------------------------------------
(* What the pass over the dependencies leaves.                             *)

LEMMA LessThanWellFounded == IsWellFoundedOn({p \in Nat \X Nat : p[1] < p[2]}, Nat)
  BY NatLessThanWellFounded DEF OpToRel

\* A set that has zero and with a number its successor has all numbers.
LEMMA Induction ==
    ASSUME NEW S, 0 \in S, \A n \in Nat : n \in S => n + 1 \in S
    PROVE  \A n \in Nat : n \in S
  <1> DEFINE R == {p \in Nat \X Nat : p[1] < p[2]}
  <1>1. SUFFICES ASSUME Nat \ S # {} PROVE FALSE
    OBVIOUS
  <1>2. PICK x \in Nat \ S : \A y \in Nat \ S : <<y, x>> \notin R
    <2>1. Nat \ S \subseteq Nat
      OBVIOUS
    <2>2. IsWellFoundedOn(R, Nat)
      BY LessThanWellFounded
    <2> HIDE DEF R
    <2> QED BY <1>1, <2>1, <2>2, WFMin
  <1>3. x # 0 /\ x - 1 \in Nat /\ x - 1 < x
    OBVIOUS
  <1>4. <<x - 1, x>> \in R
    BY <1>3
  <1>5. x - 1 \in S
    BY <1>2, <1>3, <1>4
  <1> QED BY <1>3, <1>5

\* The pass takes a path once, and what it makes of it depends on the paths
\* before it alone: there is such a set.
LEMMA PassEnds ==
    ASSUME NEW previous, NEW artifacts
    PROVE  /\ Invalidated(previous, artifacts) \in SUBSET Paths
           /\ Invalidated(previous, artifacts) =
                 Followed(previous, artifacts, Invalidated(previous, artifacts))
  <1> DEFINE Hit(p, seen) == p \in Followed(previous, artifacts, seen)
             Stops(m, seen) == \A p \in Paths : p <= m => (p \in seen <=> Hit(p, seen))
             T == {m \in Nat : \E seen \in SUBSET Paths : Stops(m, seen)}
  <1>0. MaxPath \in Nat /\ Paths = 1..MaxPath /\ \A p \in Paths : p \in Nat
    BY AnalysisAssumption DEF Paths
  <1>1. 0 \in T
    <2>1. \A p \in Paths : ~(p <= 0)
      BY <1>0
    <2>2. Stops(0, {})
      BY <2>1
    <2> HIDE DEF Stops
    <2> QED BY <2>2
  <1>2. ASSUME NEW m \in Nat, m \in T PROVE m + 1 \in T
    <2>1. PICK old \in SUBSET Paths : Stops(m, old)
      <3> HIDE DEF Stops
      <3> QED BY <1>2
    <2> DEFINE new == {p \in Paths : IF p = m + 1 THEN Hit(p, old) ELSE p \in old}
    <2>2. ASSUME NEW p \in Paths, p <= m + 1 PROVE p \in new <=> Hit(p, new)
      <3>1. \A q \in Paths : q < p => (q \in new <=> q \in old)
        BY <1>0, <2>2
      <3>2. {q \in new : q < p} = {q \in old : q < p}
        <4> HIDE DEF new
        <4>1. new \subseteq Paths
          BY DEF new
        <4> QED BY <3>1, <4>1
      <3>3. Hit(p, new) <=> Hit(p, old)
        <4> HIDE DEF new
        <4> QED BY <3>2 DEF Followed
      <3>4. p # m + 1 => p <= m
        BY <1>0, <2>2
      <3>5. p # m + 1 => (p \in old <=> Hit(p, old))
        BY <2>1, <3>4
      <3>6. p \in new <=> IF p = m + 1 THEN Hit(p, old) ELSE p \in old
        OBVIOUS
      <3> HIDE DEF Hit, new
      <3> QED BY <3>3, <3>5, <3>6
    <2>3. new \in SUBSET Paths /\ m + 1 \in Nat
      OBVIOUS
    <2>4. Stops(m + 1, new)
      <3> HIDE DEF new, Hit
      <3> QED BY <2>2
    <2> HIDE DEF new, Stops
    <2> QED BY <2>3, <2>4
  <1>3. MaxPath \in T
    <2> HIDE DEF T
    <2> QED BY <1>0, <1>1, <1>2, Induction
  <1>4. PICK seen \in SUBSET Paths : Stops(MaxPath, seen)
    <2> HIDE DEF Stops
    <2> QED BY <1>3
  <1>5. \A p \in Paths : p <= MaxPath
    BY <1>0
  <1>6. \A p \in Paths : p \in seen <=> Hit(p, seen)
    BY <1>4, <1>5
  <1>7. Followed(previous, artifacts, seen) \subseteq Paths
    BY DEF Followed, Changed, Found
  <1>8. seen = Followed(previous, artifacts, seen)
    BY <1>6, <1>7
  <1> QED BY <1>8 DEF Invalidated

\* A path that depends on a changed one is invalidated.
LEMMA DependentsInvalidated ==
    ASSUME NEW previous, NEW artifacts, NEW p \in Found(artifacts), NEW q \in Paths,
           <<p, q>> \in previous.dependencies, previous.artifacts[q] # artifacts[q]
    PROVE  p \in Invalidated(previous, artifacts)
  <1>1. q \in Changed(previous, artifacts)
    BY DEF Changed
  <1>2. \A seen : p \in Followed(previous, artifacts, seen)
    BY <1>1 DEF Followed
  <1> QED BY <1>2, PassEnds

----------------------------------------------------------------------------
(* The inductive invariant.                                                *)

\* What an entry with this key should hold.
Made(key) == [analyzer |-> key.analyzer, version |-> key.version,
              content |-> key.hash, whole |-> TRUE]

\* An entry is of its key's analyzer, and what that makes of its key's content
\* unless a cancelled run kept it without looking at the file again.
Sound(e) == e.fact.analyzer = e.key.analyzer /\ (e.key \in doubtful \/ e.fact = Made(e.key))

StoreIsSound == \A e \in store.entries : Sound(e)

\* The file changed since the run discovered it.
Suspect(p) == files[p] # run.artifacts[p]

\* An output's entries are made for its artifact.
Keyed(out) ==
    \A e \in out.entries :
        /\ e.key.analyzer \in Selected[out.path]
        /\ e.key = KeyOf(out.path, e.key.analyzer)
        /\ e.fact.analyzer = e.key.analyzer

FactsOf(out, a) == {f \in out.facts : f.analyzer = a}

Answered(out, a) ==
    \/ a \in out.failed
    \/ KeyOf(out.path, a) \in doubtful
    \/ FactsOf(out, a) = {Made(KeyOf(out.path, a))}

Analyzing(w) == worker[w].pc = "analyze"

\* What a worker has put together holds as long as the file has not changed.
WorkIsSound(w) ==
    LET out == worker[w].out IN
    Analyzing(w) =>
        /\ out.path \in Found(run.artifacts)
        /\ out.todo \subseteq Selected[out.path]
        /\ \A f \in out.facts : f.analyzer \in Selected[out.path] \ out.todo
        /\ Keyed(out)
        /\ ~Suspect(out.path) => \A e \in out.entries : Sound(e)
        /\ ~Suspect(out.path) /\ ~run.cancelled =>
              \A a \in Selected[out.path] \ out.todo : Answered(out, a)

OutputIsSound(out) ==
    /\ out.path \in Found(run.artifacts)
    /\ Keyed(out)
    /\ \A e \in out.entries : Sound(e)
    /\ ~run.cancelled => \A a \in Selected[out.path] : Answered(out, a)

\* An artifact waits, is analysed or is done, and no two of these.
EachOnce ==
    /\ \A w \in Workers : Analyzing(w) =>
          /\ worker[w].out.path \notin run.jobs
          /\ \A v \in Workers : Analyzing(v) /\ worker[v].out.path = worker[w].out.path => v = w
          /\ \A out \in run.outputs : out.path # worker[w].out.path
    /\ \A out \in run.outputs :
          /\ out.path \notin run.jobs
          /\ \A other \in run.outputs : other.path = out.path => other = out

\* Unless the run is cancelled none is lost, and a worker leaves when none waits.
NoneLost ==
    run.on /\ ~run.cancelled =>
        /\ \A p \in Found(run.artifacts) :
              \/ p \in run.jobs
              \/ \E w \in Workers : Analyzing(w) /\ worker[w].out.path = p
              \/ \E out \in run.outputs : out.path = p
        /\ (\E w \in Workers : worker[w].pc = "left") => run.jobs = {}

\* Who does not analyse holds nothing, and nothing outlives a run.
AtRestOtherwise ==
    /\ \A w \in Workers : ~Analyzing(w) => worker[w].out = NoOutput
    /\ ~run.on => run.outputs = {} /\ \A w \in Workers : worker[w].pc = "left"

\* Nothing is restored for an invalidated path.
ReusedIsValid ==
    /\ run.on => run.invalidated = Invalidated(store, run.artifacts)
    /\ \A out \in run.outputs \cup {worker[w].out : w \in Workers} :
          out.reused # {} => out.path \notin run.invalidated

IInv ==
    /\ TypeOK
    /\ StoreIsSound
    /\ \A w \in Workers : WorkIsSound(w)
    /\ \A out \in run.outputs : OutputIsSound(out)
    /\ run.jobs \subseteq Found(run.artifacts)
    /\ EachOnce
    /\ NoneLost
    /\ AtRestOtherwise
    /\ ReusedIsValid
    /\ CompletedRunsAreEquivalent

----------------------------------------------------------------------------
(* What a step leaves as it was.                                           *)

\* The run goes on, or is cancelled; no key is cleared of doubt, and a file
\* that changed is not put back.
SameRun ==
    /\ run'.artifacts = run.artifacts /\ run'.version = run.version
    /\ run.cancelled => run'.cancelled
    /\ doubtful \subseteq doubtful'
    /\ \A p \in Paths : Suspect(p) => Suspect(p)'

LEMMA KeyKept ==
    ASSUME SameRun
    PROVE  \A p, a : KeyOf(p, a)' = KeyOf(p, a)
  BY DEF SameRun, KeyOf

LEMMA SoundKept ==
    ASSUME doubtful \subseteq doubtful'
    PROVE  \A e : Sound(e) => Sound(e)'
  BY DEF Sound

LEMMA AnsweredKept ==
    ASSUME SameRun
    PROVE  \A out, a : Answered(out, a) => Answered(out, a)'
  BY KeyKept DEF SameRun, Answered, FactsOf

LEMMA KeyedKept ==
    ASSUME SameRun
    PROVE  \A out : Keyed(out) => Keyed(out)'
  BY KeyKept DEF Keyed

LEMMA OutputKept ==
    ASSUME SameRun
    PROVE  \A out : OutputIsSound(out) => OutputIsSound(out)'
  <1>1. Found(run.artifacts)' = Found(run.artifacts)
    BY DEF SameRun, Found
  <1> QED BY <1>1, SoundKept, AnsweredKept, KeyedKept DEF SameRun, OutputIsSound

LEMMA WorkKept ==
    ASSUME SameRun, NEW w \in Workers, worker'[w] = worker[w], WorkIsSound(w)
    PROVE  WorkIsSound(w)'
  <1> DEFINE out == worker[w].out
  <1>1. Found(run.artifacts)' = Found(run.artifacts)
    BY DEF SameRun, Found
  <1>2. SUFFICES ASSUME Analyzing(w) PROVE WorkIsSound(w)'
    BY DEF WorkIsSound, Analyzing
  <1>3. out.path \in Paths
    BY <1>2 DEF WorkIsSound, Found
  <1>4. /\ Suspect(out.path) => Suspect(out.path)'
        /\ run.cancelled => run'.cancelled
        /\ doubtful \subseteq doubtful'
    BY <1>3 DEF SameRun
  <1>5. Keyed(out)'
    BY <1>2, KeyedKept DEF WorkIsSound
  <1>6. ~Suspect(out.path)' => (\A e \in out.entries : Sound(e))'
    BY <1>2, <1>4, SoundKept DEF WorkIsSound
  <1>7. (~Suspect(out.path) /\ ~run.cancelled =>
            \A a \in Selected[out.path] \ out.todo : Answered(out, a))'
    BY <1>2, <1>4, AnsweredKept DEF WorkIsSound
  <1>8. /\ out.path \in Found(run.artifacts)' /\ out.todo \subseteq Selected[out.path]
        /\ \A f \in out.facts : f.analyzer \in Selected[out.path] \ out.todo
    BY <1>1, <1>2 DEF WorkIsSound
  <1> QED BY <1>5, <1>6, <1>7, <1>8 DEF WorkIsSound

LEMMA StoreKept ==
    ASSUME StoreIsSound, store' = store, doubtful \subseteq doubtful'
    PROVE  StoreIsSound'
  BY SoundKept DEF StoreIsSound

LEMMA CompletedKept ==
    ASSUME CompletedRunsAreEquivalent, result' = result, doubtful \subseteq doubtful'
    PROVE  CompletedRunsAreEquivalent'
  BY DEF CompletedRunsAreEquivalent, Equivalent, Reported, Genuine, ResultKey

----------------------------------------------------------------------------
(* The initial state and the steps.                                        *)

LEMMA RestTyped ==
    /\ NoOutput \in Outputs /\ NoTree \in Trees
    /\ NoRun \in [on : BOOLEAN, artifacts : Trees, version : Versions,
                  invalidated : SUBSET Paths, cache : BOOLEAN,
                  jobs : SUBSET Paths, outputs : SUBSET Outputs, cancelled : BOOLEAN]
    /\ NoResult \in [completed : BOOLEAN, artifacts : Trees, version : Versions,
                     facts : SUBSET (Paths \X Facts), failed : SUBSET (Paths \X Analyzers)]
  <1>1. MaxPath \in Nat /\ (CHOOSE v \in Versions : TRUE) \in Versions
    BY AnalysisAssumption
  <1>2. NoOutput \in Outputs
    BY <1>1 DEF NoOutput, Outputs
  <1>3. NoTree \in Trees
    BY DEF NoTree, Trees
  <1> HIDE DEF Trees, Outputs, NoTree
  <1> QED BY <1>1, <1>2, <1>3 DEF NoRun, NoResult

LEMMA InitIInv == Init => IInv
  <1> SUFFICES ASSUME Init PROVE IInv
    OBVIOUS
  <1>1. TypeOK
    <2>1. files \in Trees
      BY AnalysisAssumption DEF Init, Trees
    <2>2. store \in Snapshots /\ store.entries = {} /\ store.dependencies = {}
      BY RestTyped DEF Init, Snapshots, Empty
    <2>3. worker \in [Workers -> [pc : {"idle", "analyze", "left"}, out : Outputs]]
      BY RestTyped DEF Init, AtRest
    <2>4. runs \in 0..MaxRuns /\ edits \in 0..MaxEdits /\ doubtful \subseteq Keys
      BY AnalysisAssumption DEF Init
    <2> QED BY <2>1, <2>2, <2>3, <2>4, RestTyped DEF Init, TypeOK
  <1>2. \A w \in Workers : ~Analyzing(w) /\ worker[w].pc = "left" /\ worker[w].out = NoOutput
    BY DEF Init, AtRest, Analyzing
  <1>3. run.on = FALSE /\ run.outputs = {} /\ run.jobs = {}
    BY DEF Init, NoRun
  <1>4. store.entries = {}
    BY DEF Init, Empty
  <1>5. NoOutput.reused = {}
    BY DEF NoOutput
  <1>6. ~result.completed
    BY DEF Init, NoResult
  <1>7. /\ StoreIsSound /\ (\A w \in Workers : WorkIsSound(w))
        /\ \A out \in run.outputs : OutputIsSound(out)
    BY <1>2, <1>3, <1>4 DEF StoreIsSound, WorkIsSound
  <1>8. EachOnce /\ NoneLost /\ AtRestOtherwise /\ run.jobs \subseteq Found(run.artifacts)
    BY <1>2, <1>3 DEF EachOnce, NoneLost, AtRestOtherwise
  <1>9. ReusedIsValid /\ CompletedRunsAreEquivalent
    BY <1>2, <1>3, <1>5, <1>6 DEF ReusedIsValid, CompletedRunsAreEquivalent, Equivalent
  <1> QED BY <1>1, <1>7, <1>8, <1>9 DEF IInv

LEMMA StartRunKeeps == IInv /\ StartRun => IInv'
  <1> SUFFICES ASSUME IInv, StartRun PROVE IInv'
    OBVIOUS
  <1>1. PICK usable \in BOOLEAN, version \in Versions :
           run' = [on |-> TRUE, artifacts |-> files, version |-> version,
                   invalidated |-> Invalidated(store, files), cache |-> usable /\ store # Empty,
                   jobs |-> Found(files), outputs |-> {}, cancelled |-> FALSE]
    BY DEF StartRun
  <1>2. /\ worker' = [w \in Workers |-> [pc |-> "idle", out |-> NoOutput]]
        /\ runs' = runs + 1 /\ runs < MaxRuns /\ result' = NoResult
        /\ UNCHANGED <<files, store, edits, doubtful>>
    BY DEF StartRun
  <1>3. /\ run'.on /\ run'.artifacts = files /\ run'.outputs = {} /\ run'.jobs = Found(files)
        /\ run'.invalidated = Invalidated(store, files)
    BY <1>1
  <1>4. TypeOK'
    <2>1. Invalidated(store, files) \in SUBSET Paths /\ Found(files) \in SUBSET Paths
      BY PassEnds DEF Found
    <2>2. run' \in [on : BOOLEAN, artifacts : Trees, version : Versions,
                    invalidated : SUBSET Paths, cache : BOOLEAN,
                    jobs : SUBSET Paths, outputs : SUBSET Outputs, cancelled : BOOLEAN]
      BY <1>1, <2>1 DEF IInv, TypeOK
    <2>3. worker' \in [Workers -> [pc : {"idle", "analyze", "left"}, out : Outputs]]
      BY <1>2, RestTyped
    <2>4. runs' \in 0..MaxRuns
      BY <1>2, AnalysisAssumption DEF IInv, TypeOK
    <2> QED BY <1>2, <2>2, <2>3, <2>4, RestTyped DEF IInv, TypeOK
  <1>5. \A w \in Workers : worker'[w].pc = "idle" /\ worker'[w].out = NoOutput
    BY <1>2
  <1>6. NoOutput.reused = {} /\ ~NoResult.completed
    BY DEF NoOutput, NoResult
  <1>7. StoreIsSound'
    BY <1>2, StoreKept DEF IInv
  <1>8. (\A w \in Workers : WorkIsSound(w))' /\ (\A out \in run.outputs : OutputIsSound(out))'
    BY <1>3, <1>5 DEF WorkIsSound, Analyzing
  <1>9. EachOnce' /\ NoneLost' /\ AtRestOtherwise' /\ (run.jobs \subseteq Found(run.artifacts))'
    BY <1>3, <1>5 DEF EachOnce, NoneLost, AtRestOtherwise, Analyzing
  <1>10. ReusedIsValid'
    <2>1. run'.invalidated = Invalidated(store', run'.artifacts)
      BY <1>2, <1>3
    <2> QED BY <1>3, <1>5, <1>6, <2>1 DEF ReusedIsValid
  <1>11. CompletedRunsAreEquivalent'
    BY <1>2, <1>6 DEF CompletedRunsAreEquivalent, Equivalent
  <1> QED BY <1>4, <1>7, <1>8, <1>9, <1>10, <1>11 DEF IInv

\* Taking a job, leaving and the caller's cancellation.
LEMMA TakeJobKeeps ==
    ASSUME IInv, NEW w \in Workers, TakeJob(w)
    PROVE  IInv'
  <1>1. PICK path \in run.jobs :
           /\ run' = [run EXCEPT !.jobs = @ \ {path}]
           /\ worker' = [worker EXCEPT ![w] =
                [pc |-> "analyze",
                 out |-> [NoOutput EXCEPT !.path = path, !.todo = Selected[path]]]]
    BY DEF TakeJob
  <1> DEFINE new == [NoOutput EXCEPT !.path = path, !.todo = Selected[path]]
  <1>2. /\ run.on /\ worker[w].pc = "idle"
        /\ UNCHANGED <<files, store, result, runs, edits, doubtful>>
    BY DEF TakeJob
  <1>3. path \in Found(run.artifacts) /\ path \in Paths /\ path \in 0..MaxPath
    <2>1. path \in Found(run.artifacts) /\ path \in Paths
      BY DEF IInv, Found
    <2> QED BY <2>1, AnalysisAssumption DEF Paths
  <1>4. /\ new.path = path /\ new.facts = {} /\ new.entries = {} /\ new.reused = {}
        /\ new.failed = {} /\ new.todo = Selected[path] /\ new \in Outputs
    BY <1>3, AnalysisAssumption DEF NoOutput, Outputs
  <1> HIDE DEF new
  <1>5. /\ run'.artifacts = run.artifacts /\ run'.version = run.version /\ run'.on = run.on
        /\ run'.cancelled = run.cancelled /\ run'.outputs = run.outputs
        /\ run'.invalidated = run.invalidated /\ run'.jobs = run.jobs \ {path}
    BY <1>1 DEF IInv, TypeOK
  <1>6. TypeOK'
    <2>1. worker' \in [Workers -> [pc : {"idle", "analyze", "left"}, out : Outputs]]
      BY <1>1, <1>4 DEF IInv, TypeOK, new
    <2> QED BY <1>1, <1>2, <2>1 DEF IInv, TypeOK
  <1>7. /\ worker'[w].pc = "analyze" /\ worker'[w].out = new
        /\ \A v \in Workers : v # w => worker'[v] = worker[v]
    BY <1>1 DEF IInv, TypeOK, new
  <1>8. SameRun
    BY <1>2, <1>5 DEF SameRun, Suspect
  <1>9. StoreIsSound' /\ CompletedRunsAreEquivalent'
    BY <1>2, StoreKept, CompletedKept DEF IInv
  <1>10. (\A out \in run.outputs : OutputIsSound(out))'
    BY <1>5, <1>8, OutputKept DEF IInv
  <1>11. ASSUME NEW v \in Workers PROVE WorkIsSound(v)'
    <2>1. CASE v = w
      <3>1. path \in Found(run.artifacts)'
        BY <1>3, <1>5 DEF Found
      <3>2. \A a \in Selected[path] \ Selected[path] : FALSE
        OBVIOUS
      <3>3. Keyed(new)'
        BY <1>4 DEF Keyed
      <3> QED BY <1>4, <1>7, <2>1, <3>1, <3>2, <3>3 DEF WorkIsSound
    <2>2. CASE v # w
      BY <1>7, <1>8, <2>2, WorkKept DEF IInv
    <2> QED BY <2>1, <2>2
  <1>12. (run.jobs \subseteq Found(run.artifacts))'
    BY <1>5 DEF IInv, Found
  <1>13. EachOnce'
    BY <1>4, <1>5, <1>7 DEF IInv, EachOnce, Analyzing
  <1>14. NoneLost'
    <2>1. Found(run.artifacts)' = Found(run.artifacts)
      BY <1>5 DEF Found
    <2>2. ASSUME run.on, ~run.cancelled, NEW p \in Found(run.artifacts)
          PROVE  \/ p \in run'.jobs
                 \/ \E v \in Workers : Analyzing(v)' /\ worker'[v].out.path = p
                 \/ \E out \in run'.outputs : out.path = p
      <3>1. CASE p = path
        BY <1>4, <1>7, <3>1 DEF Analyzing
      <3>2. CASE \E v \in Workers : Analyzing(v) /\ worker[v].out.path = p
        BY <1>2, <1>7, <3>2 DEF Analyzing
      <3>3. CASE p \in run.jobs /\ p # path
        BY <1>5, <3>3
      <3>4. CASE \E out \in run.outputs : out.path = p
        BY <1>5, <3>4
      <3> QED BY <2>2, <3>1, <3>2, <3>3, <3>4 DEF IInv, NoneLost
    <2>3. run.on /\ ~run.cancelled /\ (\E v \in Workers : worker'[v].pc = "left") => run'.jobs = {}
      BY <1>2, <1>5, <1>7 DEF IInv, NoneLost
    <2> QED BY <1>5, <2>1, <2>2, <2>3 DEF NoneLost
  <1>15. AtRestOtherwise'
    BY <1>2, <1>5, <1>7 DEF IInv, AtRestOtherwise, Analyzing
  <1>16. ReusedIsValid'
    <2>1. run'.invalidated = Invalidated(store', run'.artifacts)
      BY <1>2, <1>5 DEF IInv, ReusedIsValid
    <2> QED BY <1>4, <1>5, <1>7, <2>1 DEF IInv, ReusedIsValid
  <1> QED BY <1>6, <1>9, <1>10, <1>11, <1>12, <1>13, <1>14, <1>15, <1>16 DEF IInv

LEMMA LeavePoolKeeps ==
    ASSUME IInv, NEW w \in Workers, LeavePool(w)
    PROVE  IInv'
  <1>1. /\ run.on /\ worker[w].pc = "idle" /\ (run.jobs = {} \/ run.cancelled)
        /\ worker' = [worker EXCEPT ![w].pc = "left"]
        /\ UNCHANGED <<files, store, run, result, runs, edits, doubtful>>
    BY DEF LeavePool
  <1>2. /\ \A v \in Workers : v # w => worker'[v] = worker[v]
        /\ worker'[w].pc = "left" /\ worker'[w].out = worker[w].out
    BY <1>1 DEF IInv, TypeOK
  <1>3. SameRun
    BY <1>1 DEF SameRun, Suspect
  <1>4. TypeOK'
    <2>1. worker' \in [Workers -> [pc : {"idle", "analyze", "left"}, out : Outputs]]
      BY <1>1 DEF IInv, TypeOK
    <2> QED BY <1>1, <2>1 DEF IInv, TypeOK
  <1>5. \A v \in Workers : /\ worker'[v].out = worker[v].out
                           /\ Analyzing(v)' <=> Analyzing(v)
    BY <1>1, <1>2 DEF Analyzing
  <1>6. StoreIsSound' /\ CompletedRunsAreEquivalent'
    BY <1>1, StoreKept, CompletedKept DEF IInv
  <1>7. (\A out \in run.outputs : OutputIsSound(out))'
    BY <1>1, <1>3, OutputKept DEF IInv
  <1>8. ASSUME NEW v \in Workers PROVE WorkIsSound(v)'
    <2>1. CASE v = w
      BY <1>2, <2>1 DEF WorkIsSound, Analyzing
    <2>2. CASE v # w
      BY <1>2, <1>3, <2>2, WorkKept DEF IInv
    <2> QED BY <2>1, <2>2
  <1>9. (run.jobs \subseteq Found(run.artifacts))' /\ EachOnce'
    BY <1>1, <1>5 DEF IInv, EachOnce, Found
  <1>10. NoneLost'
    <2>1. Found(run.artifacts)' = Found(run.artifacts)
      BY <1>1 DEF Found
    <2> QED BY <1>1, <1>5, <2>1 DEF IInv, NoneLost
  <1>11. AtRestOtherwise'
    BY <1>1, <1>2, <1>5 DEF IInv, AtRestOtherwise
  <1>12. ReusedIsValid'
    BY <1>1, <1>5 DEF IInv, ReusedIsValid
  <1> QED BY <1>4, <1>6, <1>7, <1>8, <1>9, <1>10, <1>11, <1>12 DEF IInv

LEMMA CancelKeeps == IInv /\ Cancel => IInv'
  <1> SUFFICES ASSUME IInv, Cancel PROVE IInv'
    OBVIOUS
  <1>1. /\ run' = [run EXCEPT !.cancelled = TRUE]
        /\ UNCHANGED <<files, store, worker, result, runs, edits, doubtful>>
    BY DEF Cancel
  <1>2. /\ run'.artifacts = run.artifacts /\ run'.version = run.version /\ run'.on = run.on
        /\ run'.cancelled /\ run'.outputs = run.outputs
        /\ run'.invalidated = run.invalidated /\ run'.jobs = run.jobs
    BY <1>1 DEF IInv, TypeOK
  <1>3. SameRun
    BY <1>1, <1>2 DEF SameRun, Suspect
  <1>4. TypeOK'
    BY <1>1 DEF IInv, TypeOK
  <1>5. StoreIsSound' /\ CompletedRunsAreEquivalent'
    BY <1>1, StoreKept, CompletedKept DEF IInv
  <1>6. (\A out \in run.outputs : OutputIsSound(out))' /\ (\A v \in Workers : WorkIsSound(v))'
    BY <1>1, <1>2, <1>3, OutputKept, WorkKept DEF IInv
  <1>7. (run.jobs \subseteq Found(run.artifacts))' /\ EachOnce' /\ NoneLost' /\ AtRestOtherwise'
    BY <1>1, <1>2 DEF IInv, EachOnce, NoneLost, AtRestOtherwise, Analyzing, Found
  <1>8. ReusedIsValid'
    BY <1>1, <1>2 DEF IInv, ReusedIsValid
  <1> QED BY <1>4, <1>5, <1>6, <1>7, <1>8 DEF IInv

\* A file is edited: an artifact that was not suspect may become so, and no
\* other way round.
LEMMA EditKeeps == IInv /\ Edit => IInv'
  <1> SUFFICES ASSUME IInv, Edit PROVE IInv'
    OBVIOUS
  <1>1. PICK p \in Paths, c \in Contents \cup {Absent} :
           /\ c # files[p] /\ (run.on => files[p] = run.artifacts[p])
           /\ files' = [files EXCEPT ![p] = c]
    BY DEF Edit
  <1>2. /\ edits < MaxEdits /\ edits' = edits + 1
        /\ UNCHANGED <<store, run, worker, result, runs, doubtful>>
    BY DEF Edit
  <1>3. TypeOK'
    <2>1. files' \in Trees
      BY <1>1 DEF IInv, TypeOK, Trees
    <2>2. edits' \in 0..MaxEdits
      BY <1>2, AnalysisAssumption DEF IInv, TypeOK
    <2> QED BY <1>2, <2>1, <2>2 DEF IInv, TypeOK
  <1>4. run.on => SameRun
    BY <1>1, <1>2 DEF SameRun, Suspect, IInv, TypeOK, Trees
  <1>5. StoreIsSound' /\ CompletedRunsAreEquivalent'
    BY <1>2, StoreKept, CompletedKept DEF IInv
  <1>6. (\A out \in run.outputs : OutputIsSound(out))' /\ (\A v \in Workers : WorkIsSound(v))'
    <2>1. CASE run.on
      BY <1>2, <1>4, <2>1, OutputKept, WorkKept DEF IInv
    <2>2. CASE ~run.on
      BY <1>2, <2>2 DEF IInv, AtRestOtherwise, WorkIsSound, Analyzing
    <2> QED BY <2>1, <2>2
  <1>7. (run.jobs \subseteq Found(run.artifacts))' /\ EachOnce' /\ NoneLost' /\ AtRestOtherwise'
    BY <1>2 DEF IInv, EachOnce, NoneLost, AtRestOtherwise, Analyzing, Found
  <1>8. ReusedIsValid'
    BY <1>2 DEF IInv, ReusedIsValid
  <1> QED BY <1>3, <1>5, <1>6, <1>7, <1>8 DEF IInv

\* Nothing of a run outlives the process.
LEMMA CrashKeeps == IInv /\ Crash => IInv'
  <1> SUFFICES ASSUME IInv, Crash PROVE IInv'
    OBVIOUS
  <1>1. /\ run' = [NoRun EXCEPT !.version = run.version]
        /\ worker' = [w \in Workers |-> AtRest]
        /\ UNCHANGED <<files, store, result, runs, edits, doubtful>>
    BY DEF Crash
  <1>2. ~run'.on /\ run'.jobs = {} /\ run'.outputs = {}
    BY <1>1 DEF NoRun
  <1>3. \A w \in Workers : worker'[w].pc = "left" /\ worker'[w].out = NoOutput /\ ~Analyzing(w)'
    BY <1>1 DEF AtRest, Analyzing
  <1>4. TypeOK'
    <2>1. worker' \in [Workers -> [pc : {"idle", "analyze", "left"}, out : Outputs]]
      BY <1>1, RestTyped DEF AtRest
    <2> QED BY <1>1, <2>1, RestTyped DEF IInv, TypeOK
  <1>5. StoreIsSound' /\ CompletedRunsAreEquivalent'
    BY <1>1, StoreKept, CompletedKept DEF IInv
  <1>6. /\ (\A out \in run.outputs : OutputIsSound(out))' /\ (\A v \in Workers : WorkIsSound(v))'
        /\ (run.jobs \subseteq Found(run.artifacts))' /\ EachOnce' /\ NoneLost' /\ AtRestOtherwise'
    BY <1>2, <1>3 DEF WorkIsSound, EachOnce, NoneLost, AtRestOtherwise
  <1>7. ReusedIsValid'
    BY <1>2, <1>3 DEF ReusedIsValid, NoOutput
  <1> QED BY <1>4, <1>5, <1>6, <1>7 DEF IInv

\* What an analyzer adds is its own, made for the artifact's key, and right
\* unless the file is suspect or the key in doubt.
Adds(out, new, a) ==
    /\ new.path = out.path /\ new.todo = out.todo \ {a}
    /\ \A f \in new.facts : f \in out.facts \/ f.analyzer = a
    /\ \A e \in new.entries : e \in out.entries \/
          /\ e.key = KeyOf(out.path, a) /\ e.fact.analyzer = a
          /\ Suspect(out.path) \/ Sound(e)
    /\ out.facts \subseteq new.facts /\ out.failed \subseteq new.failed
    /\ Suspect(out.path) \/ (FactsOf(out, a) = {} => Answered(new, a))
    /\ new.reused # out.reused => out.path \notin run.invalidated

LEMMA ReuseAdds ==
    ASSUME IInv, NEW out \in Outputs, NEW a \in Analyzers, CacheHit(out.path, a)
    PROVE  Reuse(out, a) \in Outputs /\ Adds(out, Reuse(out, a), a)
  <1> DEFINE entry == CHOOSE e \in store.entries : e.key = KeyOf(out.path, a)
  <1>1. entry \in store.entries /\ entry.key = KeyOf(out.path, a)
    BY DEF CacheHit
  <1>2. entry \in Entries /\ entry.fact \in Facts
    BY <1>1 DEF IInv, TypeOK, Snapshots, Entries
  <1>3. entry.fact.analyzer = a /\ Sound(entry)
    BY <1>1 DEF IInv, StoreIsSound, Sound, KeyOf
  <1>4. entry.key \in doubtful \/ entry.fact = Made(KeyOf(out.path, a))
    BY <1>1, <1>3 DEF Sound
  <1> DEFINE new == Reuse(out, a)
  <1>5. new = [out EXCEPT !.facts = @ \cup {entry.fact}, !.entries = @ \cup {entry},
                          !.reused = @ \cup {a}, !.todo = @ \ {a}]
    BY DEF Reuse
  <1> HIDE DEF entry, new
  <1>6. /\ new.path = out.path /\ new.facts = out.facts \cup {entry.fact}
        /\ new.entries = out.entries \cup {entry} /\ new.reused = out.reused \cup {a}
        /\ new.failed = out.failed /\ new.todo = out.todo \ {a}
    BY <1>5 DEF Outputs
  <1>7. new \in Outputs
    BY <1>1, <1>2, <1>5 DEF Outputs
  <1>8. FactsOf(out, a) = {} => FactsOf(new, a) = {entry.fact}
    BY <1>3, <1>6 DEF FactsOf
  <1>9. FactsOf(out, a) = {} => Answered(new, a)
    BY <1>1, <1>4, <1>6, <1>8 DEF Answered
  <1>10. Adds(out, new, a)
    BY <1>1, <1>3, <1>6, <1>9 DEF Adds, CacheHit
  <1> QED BY <1>7, <1>10 DEF new

LEMMA KeyTyped ==
    ASSUME TypeOK, NEW p \in Found(run.artifacts), NEW a \in Analyzers
    PROVE  KeyOf(p, a) \in Keys
  BY DEF TypeOK, Found, KeyOf, Keys, Trees

LEMMA SucceedAdds ==
    ASSUME IInv, NEW out \in Outputs, NEW a \in Analyzers, out.path \in Found(run.artifacts),
           files[out.path] # Absent
    PROVE  Succeed(out, a) \in Outputs /\ Adds(out, Succeed(out, a), a)
  <1> DEFINE fact == Fact(a, files[out.path], TRUE)
             entry == [key |-> KeyOf(out.path, a), fact |-> fact]
             new == Succeed(out, a)
  <1>1. out.path \in Paths /\ files[out.path] \in Contents
    BY DEF IInv, TypeOK, Found, Trees
  <1>2. fact \in Facts /\ fact.analyzer = a
    BY <1>1 DEF IInv, TypeOK, Facts, Fact
  <1>3. ~Suspect(out.path) => fact = Made(KeyOf(out.path, a))
    BY DEF Suspect, Fact, Made, KeyOf
  <1>4. entry \in Entries /\ entry.key = KeyOf(out.path, a) /\ entry.fact = fact
    BY <1>2, KeyTyped DEF IInv, Entries
  <1>5. new = [out EXCEPT !.facts = @ \cup {fact}, !.entries = @ \cup {entry}, !.todo = @ \ {a}]
    BY DEF Succeed
  <1>6. KeyOf(out.path, a).analyzer = a
    BY DEF KeyOf
  <1> HIDE DEF fact, entry, new
  <1>7. /\ new.path = out.path /\ new.facts = out.facts \cup {fact}
        /\ new.entries = out.entries \cup {entry} /\ new.reused = out.reused
        /\ new.failed = out.failed /\ new.todo = out.todo \ {a}
    BY <1>5 DEF Outputs
  <1>8. new \in Outputs
    BY <1>2, <1>4, <1>5 DEF Outputs
  <1>9. FactsOf(out, a) = {} => FactsOf(new, a) = {fact}
    BY <1>2, <1>7 DEF FactsOf
  <1>10. ~Suspect(out.path) => Sound(entry) /\ (FactsOf(out, a) = {} => Answered(new, a))
    BY <1>2, <1>3, <1>4, <1>6, <1>7, <1>9 DEF Sound, Answered
  <1>11. Adds(out, new, a)
    BY <1>2, <1>4, <1>7, <1>10 DEF Adds
  <1> QED BY <1>8, <1>11 DEF new

LEMMA FailAdds ==
    ASSUME IInv, NEW out \in Outputs, NEW a \in Analyzers, out.path \in Found(run.artifacts)
    PROVE  Fail(out, a) \in Outputs /\ Adds(out, Fail(out, a), a)
  <1> DEFINE fact == Fact(a, files[out.path], FALSE)
             added == IF files[out.path] = Absent THEN {} ELSE {fact}
             new == Fail(out, a)
  <1>1. files[out.path] # Absent => files[out.path] \in Contents
    BY DEF IInv, TypeOK, Found, Trees
  <1>2. added \subseteq Facts /\ \A f \in added : f.analyzer = a
    <2>1. run.version \in Versions
      BY DEF IInv, TypeOK
    <2>2. files[out.path] # Absent => fact \in Facts /\ fact.analyzer = a
      BY <1>1, <2>1 DEF Facts, Fact
    <2> HIDE DEF fact
    <2> QED BY <2>2
  <1>3. new = [out EXCEPT !.facts = out.facts \cup added, !.failed = @ \cup {a}, !.todo = @ \ {a}]
    <2> DEFINE facts == IF files[out.path] = Absent THEN out.facts ELSE out.facts \cup {fact}
    <2>1. facts = out.facts \cup added
      OBVIOUS
    <2>2. new = [out EXCEPT !.facts = facts, !.failed = @ \cup {a}, !.todo = @ \ {a}]
      BY DEF Fail
    <2> QED BY <2>1, <2>2
  <1> HIDE DEF added, new
  <1>4. /\ new.path = out.path /\ new.facts = out.facts \cup added
        /\ new.entries = out.entries /\ new.reused = out.reused
        /\ new.failed = out.failed \cup {a} /\ new.todo = out.todo \ {a}
    BY <1>3 DEF Outputs
  <1>5. new \in Outputs
    BY <1>2, <1>3 DEF Outputs
  <1>6. Adds(out, new, a)
    BY <1>2, <1>4 DEF Adds, Answered
  <1> QED BY <1>5, <1>6 DEF new

\* The next analyzer's turn: its part is added to the worker's output, or the
\* context has ended and the rest of the analyzers is not asked.
LEMMA AnalyzeKeeps ==
    ASSUME IInv, NEW w \in Workers, Analyze(w)
    PROVE  IInv'
  <1> DEFINE out == worker[w].out
  <1>1. PICK a \in out.todo :
           /\ worker[w].pc = "analyze"
           /\ \/ /\ run.cancelled
                 /\ worker' = [worker EXCEPT ![w].out =
                       [out EXCEPT !.failed = @ \cup {a}, !.todo = {}]]
              \/ /\ CacheHit(out.path, a)
                 /\ worker' = [worker EXCEPT ![w].out = Reuse(out, a)]
              \/ /\ files[out.path] # Absent
                 /\ worker' = [worker EXCEPT ![w].out = Succeed(out, a)]
              \/ worker' = [worker EXCEPT ![w].out = Fail(out, a)]
    BY DEF Analyze
  <1>2. UNCHANGED <<files, store, run, result, runs, edits, doubtful>>
    BY DEF Analyze
  <1>3. out \in Outputs /\ WorkIsSound(w) /\ Analyzing(w) /\ TypeOK
    BY <1>1 DEF IInv, TypeOK, Analyzing
  <1>4. /\ a \in Analyzers /\ out.path \in Found(run.artifacts) /\ a \in Selected[out.path]
        /\ out.path \in Paths
    BY <1>1, <1>3, AnalysisAssumption DEF WorkIsSound, Found, Outputs
  <1>5. PICK new \in Outputs :
           /\ worker' = [worker EXCEPT ![w].out = new]
           /\ \/ Adds(out, new, a)
              \/ run.cancelled /\ new = [out EXCEPT !.failed = @ \cup {a}, !.todo = {}]
    <2>1. CASE run.cancelled /\ worker' = [worker EXCEPT ![w].out =
                                   [out EXCEPT !.failed = @ \cup {a}, !.todo = {}]]
      <3>1. [out EXCEPT !.failed = @ \cup {a}, !.todo = {}] \in Outputs
        BY <1>3, <1>4 DEF Outputs
      <3> QED BY <2>1, <3>1
    <2>2. CASE CacheHit(out.path, a) /\ worker' = [worker EXCEPT ![w].out = Reuse(out, a)]
      BY <1>3, <1>4, <2>2, ReuseAdds
    <2>3. CASE files[out.path] # Absent /\ worker' = [worker EXCEPT ![w].out = Succeed(out, a)]
      BY <1>3, <1>4, <2>3, SucceedAdds
    <2>4. CASE worker' = [worker EXCEPT ![w].out = Fail(out, a)]
      BY <1>3, <1>4, <2>4, FailAdds
    <2> QED BY <1>1, <2>1, <2>2, <2>3, <2>4
  <1>6. /\ \A v \in Workers : v # w => worker'[v] = worker[v]
        /\ worker'[w].pc = "analyze" /\ worker'[w].out = new
    BY <1>1, <1>5 DEF IInv, TypeOK
  <1>7. /\ new.path = out.path /\ new.todo \subseteq out.todo
        /\ new.reused = out.reused \/ out.path \notin run.invalidated
    BY <1>3, <1>5 DEF Adds, Outputs
  <1>8. SameRun
    BY <1>2 DEF SameRun, Suspect
  <1>9. TypeOK'
    <2>1. worker' \in [Workers -> [pc : {"idle", "analyze", "left"}, out : Outputs]]
      BY <1>5 DEF IInv, TypeOK
    <2> QED BY <1>2, <2>1 DEF IInv, TypeOK
  <1>10. /\ new.path \in Found(run.artifacts) /\ new.todo \subseteq Selected[new.path]
         /\ \A f \in new.facts : f.analyzer \in Selected[new.path] \ new.todo
         /\ Keyed(new)
         /\ ~Suspect(new.path) => \A e \in new.entries : Sound(e)
         /\ ~Suspect(new.path) /\ ~run.cancelled =>
               \A b \in Selected[new.path] \ new.todo : Answered(new, b)
    <2>1. CASE run.cancelled /\ new = [out EXCEPT !.failed = @ \cup {a}, !.todo = {}]
      <3>1. new.facts = out.facts /\ new.entries = out.entries /\ new.path = out.path /\ new.todo = {}
        BY <1>3, <2>1 DEF Outputs
      <3> QED BY <1>3, <2>1, <3>1 DEF WorkIsSound, Keyed
    <2>2. CASE Adds(out, new, a)
      <3>1. new.todo = out.todo \ {a} /\ new.path = out.path
        BY <2>2 DEF Adds
      <3>2. \A f \in new.facts : f.analyzer \in Selected[new.path] \ new.todo
        BY <1>1, <1>3, <1>4, <2>2, <3>1 DEF Adds, WorkIsSound
      <3>3. \A e \in new.entries : e \in out.entries \/
               (e.key = KeyOf(out.path, a) /\ e.fact.analyzer = a /\ (Suspect(out.path) \/ Sound(e)))
        BY <2>2 DEF Adds
      <3>4. KeyOf(out.path, a).analyzer = a
        BY DEF KeyOf
      <3>5. Keyed(new)
        BY <1>3, <1>4, <3>1, <3>3, <3>4 DEF Keyed, WorkIsSound
      <3>6. ~Suspect(new.path) => \A e \in new.entries : Sound(e)
        BY <1>3, <3>1, <3>3 DEF WorkIsSound
      <3>7. ASSUME ~Suspect(new.path), ~run.cancelled, NEW b \in Selected[new.path] \ new.todo
            PROVE  Answered(new, b)
        <4>1. CASE b = a
          <5>1. FactsOf(out, a) = {}
            BY <1>1, <1>3 DEF FactsOf, WorkIsSound
          <5> QED BY <2>2, <3>1, <3>7, <4>1, <5>1 DEF Adds
        <4>2. CASE b # a
          <5>1. Answered(out, b)
            BY <1>3, <3>1, <3>7, <4>2 DEF WorkIsSound
          <5>2. FactsOf(new, b) = FactsOf(out, b)
            BY <2>2, <4>2 DEF Adds, FactsOf
          <5> QED BY <2>2, <5>1, <5>2, <3>1 DEF Adds, Answered
        <4> QED BY <4>1, <4>2
      <3> QED BY <1>3, <1>4, <3>1, <3>2, <3>5, <3>6, <3>7 DEF WorkIsSound
    <2> QED BY <1>5, <2>1, <2>2
  <1>11. ASSUME NEW v \in Workers PROVE WorkIsSound(v)'
    <2>1. CASE v = w
      <3>1. Found(run.artifacts)' = Found(run.artifacts) /\ Keyed(new)'
        BY <1>2, <1>8, <1>10, KeyedKept DEF Found
      <3>2. ~Suspect(new.path)' => (\A e \in new.entries : Sound(e))'
        BY <1>2, <1>10, SoundKept DEF Suspect
      <3>3. (~Suspect(new.path) /\ ~run.cancelled =>
               \A b \in Selected[new.path] \ new.todo : Answered(new, b))'
        BY <1>2, <1>8, <1>10, AnsweredKept DEF Suspect
      <3> QED BY <1>6, <1>10, <2>1, <3>1, <3>2, <3>3 DEF WorkIsSound
    <2>2. CASE v # w
      BY <1>6, <1>8, <2>2, WorkKept DEF IInv
    <2> QED BY <2>1, <2>2
  <1>12. StoreIsSound' /\ CompletedRunsAreEquivalent'
    BY <1>2, StoreKept, CompletedKept DEF IInv
  <1>13. (\A o \in run.outputs : OutputIsSound(o))'
    BY <1>2, <1>8, OutputKept DEF IInv
  <1>14. \A v \in Workers : /\ worker'[v].pc = worker[v].pc /\ worker'[v].out.path = worker[v].out.path
                            /\ Analyzing(v)' <=> Analyzing(v)
    BY <1>1, <1>6, <1>7 DEF Analyzing
  <1>15. (run.jobs \subseteq Found(run.artifacts))' /\ EachOnce'
    BY <1>2, <1>14 DEF IInv, EachOnce, Found
  <1>16. NoneLost'
    <2>1. Found(run.artifacts)' = Found(run.artifacts)
      BY <1>2 DEF Found
    <2> QED BY <1>2, <1>14, <2>1 DEF IInv, NoneLost
  <1>17. AtRestOtherwise'
    BY <1>2, <1>3, <1>6, <1>14 DEF IInv, AtRestOtherwise
  <1>18. ReusedIsValid'
    <2>1. run'.on => run'.invalidated = Invalidated(store', run'.artifacts)
      BY <1>2 DEF IInv, ReusedIsValid
    <2>2. \A v \in Workers : worker'[v].out.reused # {} => worker'[v].out.path \notin run.invalidated
      BY <1>6, <1>7 DEF IInv, ReusedIsValid
    <2> QED BY <1>2, <2>1, <2>2 DEF IInv, ReusedIsValid
  <1> QED BY <1>9, <1>11, <1>12, <1>13, <1>15, <1>16, <1>17, <1>18 DEF IInv

\* The file is looked at again, unless the context has ended; then its keys are
\* in doubt, or the output is lost.
LEMMA DeliverKeeps ==
    ASSUME IInv, NEW w \in Workers, Deliver(w)
    PROVE  IInv'
  <1> DEFINE out == worker[w].out
  <1>1. /\ worker[w].pc = "analyze" /\ out.todo = {}
        /\ worker' = [worker EXCEPT ![w] = [pc |-> "idle", out |-> NoOutput]]
        /\ UNCHANGED <<files, store, result, runs, edits>>
    BY DEF Deliver
  <1>2. \/ /\ ~run.cancelled /\ doubtful' = doubtful
           /\ \E kept \in IF Selected[out.path] = {} THEN {out} ELSE Revalidated(out) :
                 run' = [run EXCEPT !.outputs = @ \cup {kept}]
        \/ /\ run.cancelled
           /\ run' = [run EXCEPT !.outputs = @ \cup {out}]
           /\ doubtful' = doubtful \cup {e.key : e \in out.entries}
        \/ run.cancelled /\ run' = run /\ doubtful' = doubtful
    BY DEF Deliver
  <1>3. out \in Outputs /\ WorkIsSound(w) /\ Analyzing(w) /\ TypeOK
    BY <1>1 DEF IInv, TypeOK, Analyzing
  <1>4. /\ out.path \in Found(run.artifacts) /\ out.path \in Paths /\ Keyed(out)
        /\ Selected[out.path] \subseteq Analyzers
        /\ \A e \in out.entries : e.key \in Keys
    BY <1>3, AnalysisAssumption DEF WorkIsSound, Found, Outputs, Entries
  <1>5. PICK kept \in Outputs :
           /\ run' = [run EXCEPT !.outputs = @ \cup {kept}] \/ (run.cancelled /\ run' = run)
           /\ kept.path = out.path
           /\ kept.reused = {} \/ kept.reused = out.reused
           /\ Keyed(kept) /\ \A e \in kept.entries : Sound(e) \/ e.key \in doubtful'
           /\ ~run.cancelled => \A a \in Selected[kept.path] : Answered(kept, a)
    <2>1. ASSUME ~run.cancelled, NEW kept \in {out, Discard(out)},
                 Selected[out.path] = {} \/ kept \in Revalidated(out)
          PROVE  /\ kept \in Outputs /\ kept.path = out.path
                 /\ kept.reused = {} \/ kept.reused = out.reused
                 /\ Keyed(kept) /\ \A e \in kept.entries : Sound(e)
                 /\ \A a \in Selected[kept.path] : Answered(kept, a)
      <3>1. CASE kept = Discard(out)
        <4>1. kept = [out EXCEPT !.facts = {}, !.entries = {}, !.reused = {},
                                 !.failed = Selected[out.path]]
          BY <3>1 DEF Discard
        <4>2. /\ kept.path = out.path /\ kept.entries = {} /\ kept.reused = {}
              /\ kept.failed = Selected[out.path] /\ kept \in Outputs
          BY <1>3, <1>4, <4>1 DEF Outputs
        <4> QED BY <4>2 DEF Keyed, Answered
      <3>2. CASE kept = out /\ Selected[out.path] = {}
        <4>1. out.entries = {}
          BY <1>4, <3>2 DEF Keyed
        <4> QED BY <1>3, <1>4, <3>2, <4>1
      <3>3. CASE kept = out /\ ~Suspect(out.path)
        <4>1. Selected[out.path] \ out.todo = Selected[out.path]
          BY <1>1
        <4> QED BY <1>3, <1>4, <2>1, <3>3, <4>1 DEF WorkIsSound
      <3> QED BY <2>1, <3>1, <3>2, <3>3 DEF Revalidated, Suspect
    <2>2. CASE ~run.cancelled /\ \E kept \in IF Selected[out.path] = {} THEN {out}
                                               ELSE Revalidated(out) :
                                    run' = [run EXCEPT !.outputs = @ \cup {kept}]
      <3>1. PICK kept \in {out, Discard(out)} :
               /\ Selected[out.path] = {} \/ kept \in Revalidated(out)
               /\ run' = [run EXCEPT !.outputs = @ \cup {kept}]
        BY <2>2 DEF Revalidated
      <3> QED BY <2>1, <2>2, <3>1
    <2>3. CASE /\ run.cancelled
               /\ run' = [run EXCEPT !.outputs = @ \cup {out}]
               /\ doubtful' = doubtful \cup {e.key : e \in out.entries}
      BY <1>3, <1>4, <2>3
    <2>4. CASE run.cancelled /\ run' = run /\ doubtful' = doubtful
      <3> DEFINE none == [out EXCEPT !.entries = {}]
      <3>1. none \in Outputs /\ none.path = out.path /\ none.reused = out.reused /\ none.entries = {}
        BY <1>3 DEF Outputs
      <3>2. Keyed(none)
        BY <3>1 DEF Keyed
      <3> HIDE DEF none
      <3> QED BY <2>4, <3>1, <3>2
    <2> QED BY <1>2, <2>2, <2>3, <2>4
  <1>6. /\ run'.artifacts = run.artifacts /\ run'.version = run.version /\ run'.on = run.on
        /\ run'.cancelled = run.cancelled /\ run'.jobs = run.jobs
        /\ run'.invalidated = run.invalidated
        /\ run'.outputs = run.outputs \cup {kept} \/ (run.cancelled /\ run'.outputs = run.outputs)
    BY <1>3, <1>5 DEF TypeOK
  <1>7. /\ \A v \in Workers : v # w => worker'[v] = worker[v]
        /\ worker'[w].pc = "idle" /\ worker'[w].out = NoOutput /\ ~Analyzing(w)'
    BY <1>1, <1>3 DEF TypeOK, Analyzing
  <1>8. doubtful \subseteq doubtful' /\ SameRun
    BY <1>1, <1>2, <1>6 DEF SameRun, Suspect
  <1>9. Found(run.artifacts)' = Found(run.artifacts)
    BY <1>6 DEF Found
  <1>10. TypeOK'
    <2>1. run' \in [on : BOOLEAN, artifacts : Trees, version : Versions,
                    invalidated : SUBSET Paths, cache : BOOLEAN,
                    jobs : SUBSET Paths, outputs : SUBSET Outputs, cancelled : BOOLEAN]
      BY <1>3, <1>5 DEF TypeOK
    <2>2. worker' \in [Workers -> [pc : {"idle", "analyze", "left"}, out : Outputs]]
      BY <1>1, <1>3, RestTyped DEF TypeOK
    <2>3. doubtful' \subseteq Keys
      BY <1>2, <1>3, <1>4 DEF TypeOK
    <2> QED BY <1>1, <1>3, <2>1, <2>2, <2>3 DEF TypeOK
  <1>11. StoreIsSound' /\ CompletedRunsAreEquivalent'
    BY <1>1, <1>8, StoreKept, CompletedKept DEF IInv
  <1>12. \A o \in run.outputs : OutputIsSound(o)'
    BY <1>8, OutputKept DEF IInv
  <1>13. OutputIsSound(kept)'
    <2>1. Keyed(kept)' /\ (run.cancelled \/ \A a \in Selected[kept.path] : Answered(kept, a)')
      BY <1>5, <1>8, KeyedKept, AnsweredKept
    <2>2. \A e \in kept.entries : Sound(e)'
      BY <1>5, <1>8, SoundKept DEF Sound, Keyed
    <2> QED BY <1>4, <1>5, <1>6, <1>9, <2>1, <2>2 DEF OutputIsSound
  <1>14. (\A o \in run.outputs : OutputIsSound(o))'
    BY <1>6, <1>12, <1>13
  <1>15. \A v \in Workers : WorkIsSound(v)'
    <2>1. WorkIsSound(w)'
      BY <1>7 DEF WorkIsSound
    <2>2. \A v \in Workers : v # w => WorkIsSound(v)'
      BY <1>7, <1>8, WorkKept DEF IInv
    <2> QED BY <2>1, <2>2
  <1>16. (run.jobs \subseteq Found(run.artifacts))'
    BY <1>6, <1>9 DEF IInv
  <1>17. EachOnce'
    <2>1. \A v \in Workers : Analyzing(v)' => Analyzing(v) /\ v # w /\ worker'[v] = worker[v]
      BY <1>7 DEF Analyzing
    <2>2. \A o \in run'.outputs : o \in run.outputs \/ o = kept
      BY <1>6
    <2>3. \A v \in Workers : Analyzing(v) /\ v # w => worker[v].out.path # kept.path
      BY <1>3, <1>5 DEF IInv, EachOnce
    <2>4. kept.path \notin run.jobs /\ \A o \in run.outputs : o.path # kept.path
      BY <1>3, <1>5 DEF IInv, EachOnce
    <2> QED BY <1>6, <2>1, <2>2, <2>3, <2>4 DEF IInv, EachOnce
  <1>18. NoneLost'
    <2> SUFFICES ASSUME run.on, ~run.cancelled
                 PROVE  /\ \A p \in Found(run.artifacts) :
                              \/ p \in run.jobs
                              \/ \E v \in Workers : Analyzing(v)' /\ worker'[v].out.path = p
                              \/ \E o \in run'.outputs : o.path = p
                        /\ (\E v \in Workers : worker'[v].pc = "left") => run.jobs = {}
      BY <1>6, <1>9 DEF NoneLost
    <2>1. run'.outputs = run.outputs \cup {kept}
      BY <1>6
    <2>2. ASSUME NEW p \in Found(run.artifacts)
          PROVE  \/ p \in run.jobs
                 \/ \E v \in Workers : Analyzing(v)' /\ worker'[v].out.path = p
                 \/ \E o \in run'.outputs : o.path = p
      <3>1. CASE p = out.path
        BY <1>5, <2>1, <3>1
      <3>2. CASE p # out.path /\ \E v \in Workers : Analyzing(v) /\ worker[v].out.path = p
        BY <1>7, <3>2 DEF Analyzing
      <3>3. CASE p \in run.jobs \/ \E o \in run.outputs : o.path = p
        BY <2>1, <3>3
      <3> QED BY <3>1, <3>2, <3>3 DEF IInv, NoneLost
    <2>3. (\E v \in Workers : worker'[v].pc = "left") => run.jobs = {}
      BY <1>7 DEF IInv, NoneLost
    <2> QED BY <2>2, <2>3
  <1>19. AtRestOtherwise'
    <2>1. run.on
      BY <1>1 DEF IInv, AtRestOtherwise
    <2> QED BY <1>6, <1>7, <2>1 DEF IInv, AtRestOtherwise, Analyzing
  <1>20. ReusedIsValid'
    <2>1. run'.on => run'.invalidated = Invalidated(store', run'.artifacts)
      BY <1>1, <1>6 DEF IInv, ReusedIsValid
    <2>2. kept.reused # {} => kept.path \notin run.invalidated
      BY <1>5 DEF IInv, ReusedIsValid
    <2>3. NoOutput.reused = {}
      BY DEF NoOutput
    <2> QED BY <1>6, <1>7, <2>1, <2>2, <2>3 DEF IInv, ReusedIsValid
  <1> QED BY <1>10, <1>11, <1>14, <1>15, <1>16, <1>17, <1>18, <1>19, <1>20 DEF IInv

\* What the outputs of a run that was not cancelled come to: one output lists
\* each artifact, and the result has its facts and failures.
LEMMA FinishedIsEquivalent ==
    ASSUME IInv, run.on, \A w \in Workers : worker[w].pc = "left", ~run.cancelled,
           NEW p \in Found(run.artifacts), NEW a \in Selected[p]
    PROVE  LET facts  == UNION {{out.path} \X out.facts : out \in run.outputs}
               failed == UNION {{out.path} \X out.failed : out \in run.outputs}
           IN  \/ <<p, a>> \in failed
               \/ KeyOf(p, a) \in doubtful
               \/ {x \in facts : x[1] = p /\ x[2].analyzer = a} = {<<p, Made(KeyOf(p, a))>>}
  <1> DEFINE facts  == UNION {{out.path} \X out.facts : out \in run.outputs}
             failed == UNION {{out.path} \X out.failed : out \in run.outputs}
             fact == Made(KeyOf(p, a))
  <1>1. PICK out \in run.outputs : out.path = p
    <2>1. run.jobs = {} /\ \A w \in Workers : ~Analyzing(w)
      BY AnalysisAssumption DEF IInv, NoneLost, Analyzing
    <2> QED BY <2>1 DEF IInv, NoneLost
  <1>2. Answered(out, a)
    BY <1>1 DEF IInv, OutputIsSound
  <1>3. CASE a \in out.failed
    <2>1. <<p, a>> \in {out.path} \X out.failed
      BY <1>1, <1>3
    <2> QED BY <2>1
  <1>4. CASE FactsOf(out, a) = {fact}
    <2>1. ASSUME NEW x \in facts, x[1] = p, x[2].analyzer = a PROVE x = <<p, fact>>
      <3>1. PICK o \in run.outputs : x \in {o.path} \X o.facts
        OBVIOUS
      <3>2. x = <<x[1], x[2]>> /\ x[2] \in o.facts /\ o.path = p
        BY <2>1, <3>1
      <3>3. o = out
        BY <1>1, <3>2 DEF IInv, EachOnce
      <3>4. x[2] \in FactsOf(out, a)
        BY <2>1, <3>2, <3>3 DEF FactsOf
      <3> QED BY <1>4, <2>1, <3>2, <3>4
    <2>2. fact \in out.facts /\ fact.analyzer = a
      BY <1>4 DEF FactsOf
    <2>3. <<p, fact>> \in {out.path} \X out.facts
      BY <1>1, <2>2
    <2>4. <<p, fact>> \in facts /\ <<p, fact>>[1] = p /\ <<p, fact>>[2].analyzer = a
      <3> HIDE DEF fact
      <3> QED BY <2>2, <2>3
    <2> HIDE DEF facts, fact
    <2>5. {x \in facts : x[1] = p /\ x[2].analyzer = a} = {<<p, fact>>}
      BY <2>1, <2>4
    <2> QED BY <2>5 DEF facts, fact
  <1> QED BY <1>1, <1>2, <1>3, <1>4 DEF Answered

LEMMA FinishRunKeeps == IInv /\ FinishRun => IInv'
  <1> SUFFICES ASSUME IInv, FinishRun PROVE IInv'
    OBVIOUS
  <1> DEFINE facts  == UNION {{out.path} \X out.facts : out \in run.outputs}
             failed == UNION {{out.path} \X out.failed : out \in run.outputs}
             new == [artifacts |-> run.artifacts,
                     entries |-> UNION {out.entries : out \in run.outputs},
                     dependencies |-> Dependencies(run.artifacts, run.outputs)]
  <1>1. /\ run.on /\ \A w \in Workers : worker[w].pc = "left"
        /\ store' = new \/ store' = store
        /\ result' = [completed |-> ~run.cancelled, artifacts |-> run.artifacts,
                      version |-> run.version, facts |-> facts, failed |-> failed]
        /\ run' = [NoRun EXCEPT !.version = run.version]
        /\ UNCHANGED <<files, worker, runs, edits, doubtful>>
    BY DEF FinishRun
  <1>2. \A out \in run.outputs :
           /\ out \in Outputs /\ out.path \in Paths /\ out.path \in Found(run.artifacts)
           /\ out.entries \subseteq Entries
           /\ \A e \in out.entries : /\ Sound(e) /\ e.key = KeyOf(out.path, e.key.analyzer)
    BY DEF IInv, TypeOK, OutputIsSound, Keyed, Found, Outputs
  <1>3. /\ new.artifacts = run.artifacts
        /\ \A e \in new.entries : /\ e \in Entries /\ Sound(e)
                                  /\ run.artifacts[e.key.path] = e.key.hash
        /\ new.dependencies \subseteq Paths \X Paths
        /\ \A d \in new.dependencies : run.artifacts[d[1]] # Absent /\ run.artifacts[d[2]] # Absent
    <2>1. ASSUME NEW e \in new.entries
          PROVE  e \in Entries /\ Sound(e) /\ run.artifacts[e.key.path] = e.key.hash
      <3>1. PICK out \in run.outputs : e \in out.entries
        OBVIOUS
      <3>2. e.key = KeyOf(out.path, e.key.analyzer)
        BY <1>2, <3>1
      <3>3. e.key.path = out.path /\ e.key.hash = run.artifacts[out.path]
        BY <3>2 DEF KeyOf
      <3> QED BY <1>2, <3>1, <3>3
    <2>2. ASSUME NEW d \in Dependencies(run.artifacts, run.outputs)
          PROVE  d \in Paths \X Paths /\ run.artifacts[d[1]] # Absent /\ run.artifacts[d[2]] # Absent
      BY <1>2 DEF Dependencies, Found
    <2> QED BY <2>1, <2>2
  <1>4. ~run'.on /\ run'.jobs = {} /\ run'.outputs = {}
    BY <1>1 DEF NoRun
  <1>5. \A w \in Workers : /\ worker'[w].pc = "left" /\ worker'[w].out = NoOutput
                           /\ ~Analyzing(w)'
    BY <1>1 DEF IInv, AtRestOtherwise, Analyzing
  <1>6. TypeOK'
    <2>1. /\ store' \in Snapshots
          /\ \A e \in store'.entries : store'.artifacts[e.key.path] = e.key.hash
          /\ \A d \in store'.dependencies : /\ store'.artifacts[d[1]] # Absent
                                            /\ store'.artifacts[d[2]] # Absent
      <3>1. CASE store' = store
        BY <3>1 DEF IInv, TypeOK
      <3>2. CASE store' = new
        <4>1. new.entries \subseteq Entries /\ new.artifacts \in Trees
          BY <1>3 DEF IInv, TypeOK
        <4>2. new \in Snapshots
          BY <1>3, <4>1 DEF Snapshots
        <4> HIDE DEF new
        <4> QED BY <1>3, <3>2, <4>2
      <3> QED BY <1>1, <3>1, <3>2
    <2>2. /\ run' \in [on : BOOLEAN, artifacts : Trees, version : Versions,
                       invalidated : SUBSET Paths, cache : BOOLEAN,
                       jobs : SUBSET Paths, outputs : SUBSET Outputs, cancelled : BOOLEAN]
      BY <1>1, RestTyped DEF IInv, TypeOK
    <2>3. facts \in SUBSET (Paths \X Facts) /\ failed \in SUBSET (Paths \X Analyzers)
      <3>1. \A out \in run.outputs : out.facts \subseteq Facts /\ out.failed \subseteq Analyzers
        BY <1>2 DEF Outputs
      <3> QED BY <1>2, <3>1
    <2>4. result' \in [completed : BOOLEAN, artifacts : Trees, version : Versions,
                       facts : SUBSET (Paths \X Facts), failed : SUBSET (Paths \X Analyzers)]
      <3> HIDE DEF facts, failed
      <3> QED BY <1>1, <2>3 DEF IInv, TypeOK
    <2> QED BY <1>1, <2>1, <2>2, <2>4 DEF IInv, TypeOK
  <1>7. StoreIsSound'
    <2>1. \A e \in store'.entries : Sound(e)
      BY <1>1, <1>3 DEF IInv, StoreIsSound
    <2> QED BY <1>1, <2>1, SoundKept DEF StoreIsSound
  <1>8. /\ (\A out \in run.outputs : OutputIsSound(out))' /\ (\A v \in Workers : WorkIsSound(v))'
        /\ (run.jobs \subseteq Found(run.artifacts))' /\ EachOnce' /\ NoneLost' /\ AtRestOtherwise'
    BY <1>4, <1>5 DEF WorkIsSound, EachOnce, NoneLost, AtRestOtherwise
  <1>9. ReusedIsValid'
    BY <1>4, <1>5 DEF ReusedIsValid, NoOutput
  <1>10. CompletedRunsAreEquivalent'
    <2>1. /\ result'.completed = ~run.cancelled /\ result'.artifacts = run.artifacts
          /\ result'.version = run.version /\ result'.facts = facts /\ result'.failed = failed
      <3> HIDE DEF facts, failed
      <3> QED BY <1>1
    <2>2. SUFFICES ASSUME ~run.cancelled, NEW p \in Found(run.artifacts), NEW a \in Selected[p]
                   PROVE  \/ <<p, a>> \in failed
                          \/ ResultKey(p, a)' \in doubtful
                          \/ {x \in facts : x[1] = p /\ x[2].analyzer = a} = {Genuine(p, a)'}
      <3>1. Found(result.artifacts)' = Found(run.artifacts)
        BY <2>1 DEF Found
      <3> HIDE DEF facts, failed
      <3> QED BY <1>1, <2>1, <3>1 DEF CompletedRunsAreEquivalent, Equivalent, Reported
    <2>3. ResultKey(p, a)' = KeyOf(p, a) /\ Genuine(p, a)' = <<p, Made(KeyOf(p, a))>>
      BY <2>1 DEF ResultKey, Genuine, Made, KeyOf
    <2> QED BY <1>1, <2>2, <2>3, FinishedIsEquivalent
  <1> QED BY <1>6, <1>7, <1>8, <1>9, <1>10 DEF IInv

LEMMA Invariance == Spec => []IInv
  <1>1. ASSUME IInv, [Next]_vars PROVE IInv'
    <2>1. CASE UNCHANGED vars
      <3>1. SameRun /\ TypeOK'
        BY <1>1, <2>1 DEF vars, SameRun, Suspect, IInv, TypeOK
      <3>2. StoreIsSound' /\ CompletedRunsAreEquivalent'
        BY <1>1, <2>1, StoreKept, CompletedKept DEF vars, IInv
      <3>3. (\A out \in run.outputs : OutputIsSound(out))' /\ (\A v \in Workers : WorkIsSound(v))'
        BY <1>1, <2>1, <3>1, OutputKept, WorkKept DEF vars, IInv
      <3>4. (run.jobs \subseteq Found(run.artifacts))' /\ EachOnce' /\ NoneLost' /\ AtRestOtherwise'
        BY <1>1, <2>1 DEF vars, IInv, EachOnce, NoneLost, AtRestOtherwise, Analyzing, Found
      <3>5. ReusedIsValid'
        BY <1>1, <2>1 DEF vars, IInv, ReusedIsValid
      <3> QED BY <3>1, <3>2, <3>3, <3>4, <3>5 DEF IInv
    <2>2. CASE \E w \in Workers : WorkerStep(w)
      BY <1>1, <2>2, TakeJobKeeps, LeavePoolKeeps, AnalyzeKeeps, DeliverKeeps DEF WorkerStep
    <2>3. CASE StartRun \/ FinishRun \/ Cancel \/ Edit \/ Crash
      BY <1>1, <2>3, StartRunKeeps, FinishRunKeeps, CancelKeeps, EditKeeps, CrashKeeps
    <2> QED BY <1>1, <2>1, <2>2, <2>3 DEF Next
  <1> QED BY <1>1, InitIInv, PTL DEF Spec

----------------------------------------------------------------------------
(* The theorems.                                                           *)

\* state.Snapshot.Validate and runAnalyzers: the state file is one the loader
\* accepts after any run, whatever failed in it and whenever the process died.
THEOREM AnalysisTyped == Spec => []TypeOK
  <1>1. IInv => TypeOK
    BY DEF IInv
  <1> QED BY <1>1, Invariance, PTL

\* runArtifact and runAnalyzers: a run that was not cancelled reports what a
\* full analysis reports or a failure, whoever edits the tree meanwhile, except
\* for what an earlier, cancelled run kept without looking at the file again.
THEOREM RunsAreEquivalent == Spec => []CompletedRunsAreEquivalent
  <1>1. IInv => CompletedRunsAreEquivalent
    BY DEF IInv
  <1> QED BY <1>1, Invariance, PTL

\* invalidatedPathsWithIndex: one pass over the sorted dependencies keeps the
\* cache from answering for an artifact whose direct dependency has changed.
THEOREM ReuseIsCurrent == Spec => []ReuseRespectsDependencies
  <1>1. IInv => ReuseRespectsDependencies
    <2> SUFFICES ASSUME IInv, NEW out \in run.outputs \cup {worker[w].out : w \in Workers},
                        out.reused # {}, NEW d \in store.dependencies, d[1] = out.path
                 PROVE  store.artifacts[d[2]] = run.artifacts[d[2]]
      BY DEF ReuseRespectsDependencies
    <2>1. out.path \notin run.invalidated
      BY DEF IInv, ReusedIsValid
    <2>2. run.on /\ out.path \in Found(run.artifacts)
      <3>1. CASE out \in run.outputs
        BY <3>1 DEF IInv, OutputIsSound, AtRestOtherwise
      <3>2. CASE \E w \in Workers : out = worker[w].out
        <4>1. PICK w \in Workers : out = worker[w].out
          BY <3>2
        <4>2. Analyzing(w)
          BY <4>1 DEF IInv, AtRestOtherwise, NoOutput
        <4> QED BY <4>1, <4>2 DEF IInv, WorkIsSound, AtRestOtherwise, Analyzing
      <3> QED BY <3>1, <3>2
    <2>3. run.invalidated = Invalidated(store, run.artifacts)
      BY <2>2 DEF IInv, ReusedIsValid
    <2>4. d = <<out.path, d[2]>> /\ d[2] \in Paths
      BY DEF IInv, TypeOK, Snapshots
    <2> QED BY <2>1, <2>2, <2>3, <2>4, DependentsInvalidated
  <1> QED BY <1>1, Invariance, PTL
================================================================================
