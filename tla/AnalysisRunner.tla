---------------------------- MODULE AnalysisRunner ----------------------------
(* The analysis runner and its operational cache: runs that discover the files *)
(* of a source, analyse them with a pool of workers, restore what an earlier   *)
(* run left in state.json and write it anew, while the files are edited, the   *)
(* context is cancelled, or the process dies.                                  *)
EXTENDS Integers

CONSTANTS MaxPath,      \* paths are 1..MaxPath, in the order the code sorts them
          Contents,     \* what a file may hold; a hash is its content
          InitialTrees, \* what the source may hold at first
          Imports,      \* Imports[c]: the paths the contributions from c name
          Analyzers,    \* numbered in registry order
          Selected,     \* Selected[p]: the analyzers compatible with the artifact at p
          Versions,     \* versions of the analyzers a build may carry
          Workers,      \* MaxConcurrency of them
          MaxRuns,      \* bound on the number of runs
          MaxEdits      \* bound on the number of edits

Paths == 1..MaxPath
Absent == "absent"

(* runAnalyzers starts at least one worker.                                    *)
ASSUME AnalysisAssumption ==
    /\ MaxPath \in Nat \ {0} /\ MaxRuns \in Nat /\ MaxEdits \in Nat
    /\ Imports \in [Contents -> SUBSET Paths]
    /\ Analyzers \subseteq Nat /\ Selected \in [Paths -> SUBSET Analyzers]
    /\ Absent \notin Contents /\ Versions # {} /\ Workers # {}
    /\ InitialTrees \subseteq [Paths -> Contents \cup {Absent}]

Trees == [Paths -> Contents \cup {Absent}]
NoTree == [p \in Paths |-> Absent]

(* A contribution of one analyzer: what it read, and whether all of its output *)
(* survived. A key holds everything an entry was made for.                     *)
Facts == [analyzer : Analyzers, version : Versions, content : Contents, whole : BOOLEAN]
Keys == [path : Paths, hash : Contents, analyzer : Analyzers, version : Versions]
Entries == [key : Keys, fact : Facts]
Snapshots == [artifacts : Trees, entries : SUBSET Entries, dependencies : SUBSET (Paths \X Paths)]

Empty == [artifacts |-> NoTree, entries |-> {}, dependencies |-> {}]

VARIABLES files,     \* the source tree
          store,     \* state.json
          run,       \* the run under way, or the last one
          worker,    \* worker goroutines of runAnalyzers
          result,    \* what the last run that ended returned
          runs,      \* number of runs started
          edits,     \* number of edits
          doubtful   \* keys of entries kept although nobody revalidated their file (history)

vars == <<files, store, run, worker, result, runs, edits, doubtful>>

NoOutput == [path |-> 0, facts |-> {}, entries |-> {}, reused |-> {}, failed |-> {}, todo |-> {}]
AtRest == [pc |-> "left", out |-> NoOutput]
NoRun == [on |-> FALSE, artifacts |-> NoTree, version |-> CHOOSE v \in Versions : TRUE,
          invalidated |-> {}, cache |-> FALSE,
          jobs |-> {}, outputs |-> {}, cancelled |-> FALSE]
NoResult == [completed |-> FALSE, artifacts |-> NoTree, version |-> NoRun.version,
             facts |-> {}, failed |-> {}]

Init ==
    /\ files \in InitialTrees
    /\ store = Empty
    /\ run = NoRun
    /\ worker = [w \in Workers |-> AtRest]
    /\ result = NoResult
    /\ runs = 0
    /\ edits = 0
    /\ doubtful = {}

-------------------------------------------------------------------------------
(* Starting a run.                                                             *)

Found(tree) == {p \in Paths : tree[p] # Absent}

Changed(previous, artifacts) == {p \in Paths : previous.artifacts[p] # artifacts[p]}

\* Mutant of Invalidated: the dependencies are not followed.
InvalidatedChanged(previous, artifacts) == Changed(previous, artifacts)

(* New, changed and removed paths, and what one pass over the dependencies,    *)
(* sorted by the path that depends and never on itself, adds: a path is added  *)
(* if it depends on a changed one, or on one the pass has added before it.     *)
Followed(previous, artifacts, seen) ==
    Changed(previous, artifacts) \cup
        {p \in Found(artifacts) :
            \E q \in Changed(previous, artifacts) \cup {q \in seen : q < p} :
                <<p, q>> \in previous.dependencies}

Invalidated(previous, artifacts) ==
    CHOOSE seen \in SUBSET Paths : seen = Followed(previous, artifacts, seen)

First(n, S) == n \in S /\ \A m \in S : n <= m

(* Opens the state, discovers the tree, decides what the cache may answer. It  *)
(* answers nothing if the state is unreadable or another source's, or if the   *)
(* capture of evidence forces reprocessing.                                    *)
StartRun ==
    /\ ~run.on /\ runs < MaxRuns
    /\ \E usable \in BOOLEAN, version \in Versions :
         run' = [on |-> TRUE, artifacts |-> files, version |-> version,
                 invalidated |-> Invalidated(store, files), cache |-> usable /\ store # Empty,
                 jobs |-> Found(files), outputs |-> {}, cancelled |-> FALSE]
    /\ worker' = [w \in Workers |-> [pc |-> "idle", out |-> NoOutput]]
    /\ runs' = runs + 1
    /\ result' = NoResult
    /\ UNCHANGED <<files, store, edits, doubtful>>

-------------------------------------------------------------------------------
(* The worker pool.                                                            *)

TakeJob(w) ==
    /\ run.on /\ worker[w].pc = "idle"
    /\ \E path \in run.jobs :
          /\ First(path, run.jobs)
          /\ run' = [run EXCEPT !.jobs = @ \ {path}]
          /\ worker' = [worker EXCEPT ![w] =
                [pc |-> "analyze",
                 out |-> [NoOutput EXCEPT !.path = path, !.todo = Selected[path]]]]
    /\ UNCHANGED <<files, store, result, runs, edits, doubtful>>

\* Mutant of LeavePool: the jobs channel is never closed.
LeavePoolCancelled(w) ==
    /\ run.on /\ worker[w].pc = "idle" /\ run.cancelled
    /\ worker' = [worker EXCEPT ![w].pc = "left"]
    /\ UNCHANGED <<files, store, run, result, runs, edits, doubtful>>

(* The jobs channel is closed, or the context has ended.                       *)
LeavePool(w) ==
    /\ run.on /\ worker[w].pc = "idle"
    /\ run.jobs = {} \/ run.cancelled
    /\ worker' = [worker EXCEPT ![w].pc = "left"]
    /\ UNCHANGED <<files, store, run, result, runs, edits, doubtful>>

KeyOf(path, analyzer) ==
    [path |-> path, hash |-> run.artifacts[path], analyzer |-> analyzer, version |-> run.version]

CacheHit(path, analyzer) ==
    /\ run.cache /\ path \notin run.invalidated
    /\ \E e \in store.entries : e.key = KeyOf(path, analyzer)

(* What the registry's next analyzer adds to the artifact's output: the cached *)
(* entry, or what it makes of the file as it is now. A failed or partly        *)
(* invalid output leaves a failure and no entry; a deleted file only fails.    *)
Reuse(out, analyzer) ==
    LET entry == CHOOSE e \in store.entries : e.key = KeyOf(out.path, analyzer)
    IN  [out EXCEPT !.facts = @ \cup {entry.fact}, !.entries = @ \cup {entry},
                    !.reused = @ \cup {analyzer}, !.todo = @ \ {analyzer}]

Fact(analyzer, content, whole) ==
    [analyzer |-> analyzer, version |-> run.version, content |-> content, whole |-> whole]

Succeed(out, analyzer) ==
    LET fact == Fact(analyzer, files[out.path], TRUE)
    IN  [out EXCEPT !.facts = @ \cup {fact},
                    !.entries = @ \cup {[key |-> KeyOf(out.path, analyzer), fact |-> fact]},
                    !.todo = @ \ {analyzer}]

Fail(out, analyzer) ==
    [out EXCEPT !.facts = IF files[out.path] = Absent THEN @
                          ELSE @ \cup {Fact(analyzer, files[out.path], FALSE)},
                !.failed = @ \cup {analyzer}, !.todo = @ \ {analyzer}]

Analyze(w) ==
    \E analyzer \in worker[w].out.todo : LET out == worker[w].out IN
        /\ worker[w].pc = "analyze" /\ First(analyzer, out.todo)
        /\ \/ /\ run.cancelled
              /\ worker' = [worker EXCEPT ![w].out =
                    [out EXCEPT !.failed = @ \cup {analyzer}, !.todo = {}]]
           \/ /\ ~run.cancelled /\ CacheHit(out.path, analyzer)
              /\ worker' = [worker EXCEPT ![w].out = Reuse(out, analyzer)]
           \/ /\ ~run.cancelled /\ ~CacheHit(out.path, analyzer)
              /\ \/ /\ files[out.path] # Absent
                    /\ worker' = [worker EXCEPT ![w].out = Succeed(out, analyzer)]
                 \/ worker' = [worker EXCEPT ![w].out = Fail(out, analyzer)]
        /\ UNCHANGED <<files, store, run, result, runs, edits, doubtful>>

(* The file is hashed again unless the context has ended; if it changed, or    *)
(* cannot be read, everything learned about it is thrown away.                 *)
Discard(out) ==
    [out EXCEPT !.facts = {}, !.entries = {}, !.reused = {}, !.failed = Selected[out.path]]

\* Mutant of Revalidated: the file is found but not compared.
RevalidatedExists(out) ==
    {Discard(out)} \cup IF files[out.path] # Absent THEN {out} ELSE {}

Revalidated(out) ==
    {Discard(out)} \cup IF files[out.path] = run.artifacts[out.path] THEN {out} ELSE {}

(* The results channel has room for every artifact; once the context has ended *)
(* the file is not looked at again, and the select may drop the output.        *)
Deliver(w) ==
    LET out == worker[w].out
    IN  /\ worker[w].pc = "analyze" /\ out.todo = {}
        /\ worker' = [worker EXCEPT ![w] = [pc |-> "idle", out |-> NoOutput]]
        /\ \/ /\ ~run.cancelled
              /\ \E kept \in IF Selected[out.path] = {} THEN {out} ELSE Revalidated(out) :
                    run' = [run EXCEPT !.outputs = @ \cup {kept}]
              /\ UNCHANGED doubtful
           \/ /\ run.cancelled
              /\ run' = [run EXCEPT !.outputs = @ \cup {out}]
              /\ doubtful' = doubtful \cup {e.key : e \in out.entries}
           \/ run.cancelled /\ UNCHANGED <<run, doubtful>>
        /\ UNCHANGED <<files, store, result, runs, edits>>

-------------------------------------------------------------------------------
(* The end of a run.                                                           *)

Dependencies(artifacts, outputs) ==
    {d \in Paths \X Paths :
        /\ artifacts[d[2]] # Absent /\ d[1] # d[2]
        /\ \E out \in outputs : out.path = d[1] /\ \E f \in out.facts : d[2] \in Imports[f.content]}

(* The outputs are combined, the state replaced even when the context has      *)
(* ended, and the context's error returned with the result.                    *)
FinishRun ==
    /\ run.on /\ \A w \in Workers : worker[w].pc = "left"
    /\ \/ store' = [artifacts |-> run.artifacts,
                    entries |-> UNION {out.entries : out \in run.outputs},
                    dependencies |-> Dependencies(run.artifacts, run.outputs)]
       \/ UNCHANGED store                                 \* state_write_failed
    /\ result' = [completed |-> ~run.cancelled, artifacts |-> run.artifacts, version |-> run.version,
                  facts |-> UNION {{out.path} \X out.facts : out \in run.outputs},
                  failed |-> UNION {{out.path} \X out.failed : out \in run.outputs}]
    /\ run' = [NoRun EXCEPT !.version = run.version]
    /\ UNCHANGED <<files, worker, runs, edits, doubtful>>

-------------------------------------------------------------------------------
(* The surroundings.                                                           *)

(* The caller cancels, or MaxDuration has passed.                              *)
Cancel ==
    /\ run.on /\ ~run.cancelled
    /\ run' = [run EXCEPT !.cancelled = TRUE]
    /\ UNCHANGED <<files, store, worker, result, runs, edits, doubtful>>

(* A file is written, created or removed; during a run it is not put back to   *)
(* what was discovered (a hash cannot see a change that was undone).           *)
Edit ==
    /\ edits < MaxEdits /\ edits' = edits + 1
    /\ \E p \in Paths, c \in Contents \cup {Absent} :
          /\ c # files[p]
          /\ run.on => files[p] = run.artifacts[p]
          /\ files' = [files EXCEPT ![p] = c]
    /\ UNCHANGED <<store, run, worker, result, runs, doubtful>>

(* The process dies; state.json is replaced by a rename and is whole.          *)
Crash ==
    /\ run.on
    /\ run' = [NoRun EXCEPT !.version = run.version]
    /\ worker' = [w \in Workers |-> AtRest]
    /\ UNCHANGED <<files, store, result, runs, edits, doubtful>>

WorkerStep(w) == TakeJob(w) \/ LeavePool(w) \/ Analyze(w) \/ Deliver(w)

Next == StartRun \/ FinishRun \/ Cancel \/ Edit \/ Crash \/ \E w \in Workers : WorkerStep(w)

Spec == Init /\ [][Next]_vars

Fairness == WF_vars(FinishRun) /\ \A w \in Workers : WF_vars(WorkerStep(w))

FairSpec == Spec /\ Fairness
-------------------------------------------------------------------------------
(* Properties.                                                                 *)

Outputs == [path : 0..MaxPath, facts : SUBSET Facts, entries : SUBSET Entries,
            reused : SUBSET Analyzers, failed : SUBSET Analyzers, todo : SUBSET Analyzers]

(* The state file is always a snapshot the loader accepts: every entry belongs *)
(* to an artifact of the same snapshot (Snapshot.Validate), and the run and    *)
(* its workers keep their types.                                               *)
TypeOK ==
    /\ files \in Trees
    /\ store \in Snapshots
    /\ \A e \in store.entries : store.artifacts[e.key.path] = e.key.hash
    /\ \A d \in store.dependencies : store.artifacts[d[1]] # Absent /\ store.artifacts[d[2]] # Absent
    /\ run \in [on : BOOLEAN, artifacts : Trees, version : Versions,
                invalidated : SUBSET Paths, cache : BOOLEAN,
                jobs : SUBSET Paths, outputs : SUBSET Outputs, cancelled : BOOLEAN]
    /\ worker \in [Workers -> [pc : {"idle", "analyze", "left"}, out : Outputs]]
    /\ result \in [completed : BOOLEAN, artifacts : Trees, version : Versions,
                   facts : SUBSET (Paths \X Facts), failed : SUBSET (Paths \X Analyzers)]
    /\ runs \in 0..MaxRuns /\ edits \in 0..MaxEdits
    /\ doubtful \subseteq Keys

(* What a full analysis of the discovered artifact reports, once and no other. *)
Reported(p, a) == {x \in result.facts : x[1] = p /\ x[2].analyzer = a}
Genuine(p, a) == <<p, [analyzer |-> a, version |-> result.version,
                       content |-> result.artifacts[p], whole |-> TRUE]>>
ResultKey(p, a) == [path |-> p, hash |-> result.artifacts[p], analyzer |-> a, version |-> result.version]

(* A run that completes is equivalent to a full analysis: each artifact it     *)
(* lists has, for each of its analyzers, a failure or exactly what this        *)
(* version makes of the content it was listed with, whatever was edited        *)
(* meanwhile, cached by earlier runs or failed in them.                        *)
Equivalent(excused) ==
    result.completed =>
        \A p \in Found(result.artifacts) : \A a \in Selected[p] :
            \/ <<p, a>> \in result.failed
            \/ ResultKey(p, a) \in excused
            \/ Reported(p, a) = {Genuine(p, a)}

(* So it is, except for keys a cancelled run cached without a second look.     *)
CompletedRunsAreEquivalent == Equivalent(doubtful)

(* The specification of incremental analysis makes no exception                *)
(* (openspec/specs/analysis-fact-substrate/spec.md:54).                        *)
IncrementalEquivalence == Equivalent({})

(* Nothing is restored for an artifact of which a recorded dependency was      *)
(* changed or removed since.                                                   *)
ReuseRespectsDependencies ==
    \A out \in run.outputs \cup {worker[w].out : w \in Workers} :
        out.reused # {} =>
            \A d \in store.dependencies :
                d[1] = out.path => store.artifacts[d[2]] = run.artifacts[d[2]]

(* A run ends, without being cancelled: the pool drains its jobs and leaves.   *)
RunsEnd == run.on ~> ~run.on
===============================================================================
