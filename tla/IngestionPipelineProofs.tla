------------------------ MODULE IngestionPipelineProofs ------------------------
(***************************************************************************)
(* Proofs about the executor and its pipeline, for every set of jobs,      *)
(* workers, resumers and sources, every EmbeddingMode and number of faults.*)
(*                                                                         *)
(* A worker remembers what it has done only by where it is in the handler, *)
(* and it may have lost its job to another long ago.  What its position    *)
(* says of the rows is still true: no stage goes back and nothing in the   *)
(* store is undone (lemma WorkerKeeps).  That its stage is exactly the one   *)
(* its next call expects is true only while it holds the job.              *)
(***************************************************************************)
EXTENDS IngestionPipeline, TLAPS

\* The least stage that the job of a worker has reached, held or not.
Floor(w) ==
    CASE worker[w].pc \in {"load", "persist"} -> worker[w].claimed
      [] worker[w].pc \in {"text", "toTextual"} -> CanonicalPersistence
      [] worker[w].pc = "toRelational" -> TextualProjection
      [] worker[w].pc = "toEmbedding" -> RelationalProjection
      [] worker[w].pc \in {"embed", "activate", "toActivation", "activatePartial",
                           "markPartial"} -> EmbeddingProjection
      [] worker[w].pc \in {"confirm", "complete"} -> Activation
      [] worker[w].pc = "settle" /\ worker[w].result = "ok" -> Activation
      [] OTHER -> Validation

\* What the position of a worker says of the rows.
WorkerDone(w) ==
    worker[w].pc \notin {"idle", "stopped"} =>
        /\ worker[w].job \in Jobs
        /\ queue[worker[w].job].stage >= Floor(w)
        /\ worker[w].pc = "settle" => worker[w].result # "none"
        /\ worker[w].pc = "toCanonical" => identity[worker[w].job] # "absent"
        /\ worker[w].pc = "toTextual" => worker[w].job \in text
        /\ worker[w].pc \in {"activate", "toActivation"} /\ EmbeddingMode = "enabled"
              => worker[w].job \in vectors
        /\ worker[w].pc \in {"toActivation", "markPartial"} => worker[w].job \in activated

\* A partial job is resumed, and a partial job was activated.
ResumerDone(r) ==
    resumer[r].pc # "idle" =>
        /\ resumer[r].job \in Jobs
        /\ resumer[r].job \in activated
        /\ resumer[r].pc \in {"activate", "advance"} => resumer[r].job \in vectors

\* The inductive invariant.
IInv ==
    /\ TypeOK
    /\ StagesAreBacked
    /\ ActiveViewIsProjected
    /\ EndedJobsArePublished
    /\ HoldersKeepStep
    /\ \A w \in Workers : WorkerDone(w)
    /\ \A r \in Resumers : ResumerDone(r)

----------------------------------------------------------------------------
(* What the calls of the queue do, whoever makes them.                     *)

StagesGrow == \A k \in Jobs : queue'[k].stage >= queue[k].stage

\* Nobody but o comes to hold a job, and what others still hold is where it was.
OthersKeep(o) ==
    \A v \in Owners, k \in Jobs :
        v # o /\ Held(v, k)' => Held(v, k) /\ queue'[k].stage = queue[k].stage

\* The entry of one job is rewritten.
Rewrites(o, id, state, stage) ==
    /\ LifecycleTypeOK'
    /\ StagesGrow
    /\ OthersKeep(o)
    /\ \A k \in Jobs : k # id => queue'[k] = queue[k]
    /\ queue'[id].state = state
    /\ queue'[id].stage = stage

LEMMA Rewritten ==
  ASSUME LifecycleTypeOK, NEW o, NEW id \in Jobs, NEW e \in Entries,
         queue' = [queue EXCEPT ![id] = e], e.stage >= queue[id].stage,
         \A v \in Owners : v # o /\ e.state = "running" /\ e.holder = v
             => Held(v, id) /\ e.stage = queue[id].stage
  PROVE  Rewrites(o, id, e.state, e.stage)
<1>1. queue' \in [Jobs -> Entries] /\ queue'[id] = e /\ \A k \in Jobs : k # id => queue'[k] = queue[k]
  BY DEF LifecycleTypeOK
<1>2. \A k \in Jobs : queue[k].stage \in Int
  BY DEF LifecycleTypeOK, Entries, Stages, Validation, Activation
<1>3. StagesGrow
  <2> SUFFICES ASSUME NEW k \in Jobs PROVE queue'[k].stage >= queue[k].stage
    BY DEF StagesGrow
  <2> QED
    BY <1>1, <1>2
<1>4. OthersKeep(o)
  <2> SUFFICES ASSUME NEW v \in Owners, NEW k \in Jobs, v # o, Held(v, k)'
               PROVE  Held(v, k) /\ queue'[k].stage = queue[k].stage
    BY DEF OthersKeep
  <2>1. CASE k = id
    BY <1>1, <2>1 DEF Held
  <2>2. CASE k # id
    BY <1>1, <2>2 DEF Held
  <2> QED
    BY <2>1, <2>2
<1> QED
  BY <1>1, <1>3, <1>4 DEF Rewrites, LifecycleTypeOK

LEMMA EntryTyped ==
  ASSUME LifecycleTypeOK, NEW id \in Jobs
  PROVE  /\ queue[id] \in Entries
         /\ queue[id].state \in States /\ queue[id].stage \in Stages
         /\ queue[id].holder \in Owners \cup {NoOwner}
         /\ queue[id].lapsed \in BOOLEAN /\ queue[id].cancelled \in BOOLEAN
  BY DEF LifecycleTypeOK, Entries

LEMMA TakeRewrites ==
  ASSUME LifecycleTypeOK, NEW o \in Owners, NEW id \in Jobs, Take(o, id)
  PROVE  Rewrites(o, id, "running", queue[id].stage)
<1>1. PICK late \in BOOLEAN :
         queue' = [queue EXCEPT ![id].state = "running", ![id].holder = o, ![id].lapsed = late]
  BY DEF Take
<1> DEFINE e == [queue[id] EXCEPT !.state = "running", !.holder = o, !.lapsed = late]
<1>2. e \in Entries /\ e.stage = queue[id].stage /\ e.state = "running" /\ e.holder = o
  BY EntryTyped DEF Entries, States
<1>3. queue' = [queue EXCEPT ![id] = e]
  BY <1>1
<1>4. e.stage >= queue[id].stage
  BY <1>2, EntryTyped DEF Stages, Validation, Activation
<1> HIDE DEF e
<1> QED
  BY <1>2, <1>3, <1>4, Rewritten

LEMMA ResumeRewrites ==
  ASSUME LifecycleTypeOK, NEW o \in Owners, NEW id \in Jobs, Resume(o, id)
  PROVE  Rewrites(o, id, "running", queue[id].stage)
<1>1. PICK late \in BOOLEAN :
         queue' = [queue EXCEPT ![id].state = "running", ![id].holder = o, ![id].lapsed = late]
  BY DEF Resume
<1> DEFINE e == [queue[id] EXCEPT !.state = "running", !.holder = o, !.lapsed = late]
<1>2. e \in Entries /\ e.stage = queue[id].stage /\ e.state = "running" /\ e.holder = o
  BY EntryTyped DEF Entries, States
<1>3. queue' = [queue EXCEPT ![id] = e]
  BY <1>1
<1>4. e.stage >= queue[id].stage
  BY <1>2, EntryTyped DEF Stages, Validation, Activation
<1> HIDE DEF e
<1> QED
  BY <1>2, <1>3, <1>4, Rewritten

\* The lease of the holder is renewed: nobody comes to hold anything.
LEMMA RenewRewrites ==
  ASSUME LifecycleTypeOK, NEW o \in Owners, NEW id \in Jobs, Renew(o, id)
  PROVE  Rewrites(NoOwner, id, queue[id].state, queue[id].stage)
<1>1. PICK late \in BOOLEAN : queue' = [queue EXCEPT ![id].lapsed = late]
  BY DEF Renew
<1> DEFINE e == [queue[id] EXCEPT !.lapsed = late]
<1>2. /\ e \in Entries /\ e.stage = queue[id].stage /\ e.state = queue[id].state
      /\ e.holder = queue[id].holder
  BY EntryTyped DEF Entries
<1>3. queue' = [queue EXCEPT ![id] = e]
  BY <1>1
<1>4. e.stage >= queue[id].stage
  BY <1>2, EntryTyped DEF Stages, Validation, Activation
<1> HIDE DEF e
<1> QED
  BY <1>2, <1>3, <1>4, Rewritten DEF Held

LEMMA AdvanceRewrites ==
  ASSUME LifecycleTypeOK, NEW o \in Owners, NEW id \in Jobs, NEW stage \in Stages,
         Advance(o, id, stage)
  PROVE  Rewrites(o, id, queue[id].state, stage)
<1> DEFINE e == [queue[id] EXCEPT !.stage = stage]
<1>1. /\ e \in Entries /\ e.stage = stage /\ e.state = queue[id].state
      /\ e.holder = queue[id].holder
  BY EntryTyped DEF Entries
<1>2. queue' = [queue EXCEPT ![id] = e]
  BY DEF Advance
<1>3. e.stage >= queue[id].stage
  BY <1>1, EntryTyped DEF Stages, Validation, Activation, Advance, Follows
<1>4. queue[id].holder = o
  BY DEF Advance, Held
<1> HIDE DEF e
<1> QED
  BY <1>1, <1>2, <1>3, <1>4, Rewritten

\* A call that leaves the job without a lease.
LEMMA ReleaseRewrites ==
  ASSUME LifecycleTypeOK, NEW o, NEW id \in Jobs, NEW stage \in Stages,
         NEW state \in States \ {"running"}, stage >= queue[id].stage,
         queue' = Release(id, state, stage)
  PROVE  Rewrites(o, id, state, stage)
<1> DEFINE e == [queue[id] EXCEPT !.state = state, !.stage = stage, !.holder = NoOwner,
                                  !.lapsed = FALSE]
<1>1. e \in Entries /\ e.stage = stage /\ e.state = state
  BY EntryTyped DEF Entries
<1>2. queue' = [queue EXCEPT ![id] = e]
  BY DEF Release
<1> HIDE DEF e
<1> QED
  BY <1>1, <1>2, Rewritten

LEMMA FinishRewrites ==
  ASSUME LifecycleTypeOK, NEW o \in Owners, NEW id \in Jobs, Finish(o, id)
  PROVE  Rewrites(o, id, "completed", Activation)
<1>1. Activation \in Stages /\ "completed" \in States \ {"running"} /\ Activation >= queue[id].stage
  BY DEF Stages, Validation, Activation, States, Finish
<1> QED
  BY <1>1, ReleaseRewrites DEF Finish

LEMMA SuspendRewrites ==
  ASSUME LifecycleTypeOK, NEW o \in Owners, NEW id \in Jobs, NEW stage \in Stages,
         Suspend(o, id, stage)
  PROVE  Rewrites(o, id, "partial", stage)
<1>1. "partial" \in States \ {"running"} /\ stage >= queue[id].stage
  BY EntryTyped DEF Stages, Validation, Activation, States, Suspend, Follows
<1> QED
  BY <1>1, ReleaseRewrites DEF Suspend

LEMMA GiveUpRewrites ==
  ASSUME LifecycleTypeOK, NEW o \in Owners, NEW id \in Jobs, GiveUp(o, id)
  PROVE  Rewrites(o, id, "failed", queue[id].stage)
<1>1. /\ "failed" \in States \ {"running"}
      /\ queue[id].stage \in Stages /\ queue[id].stage >= queue[id].stage
  BY EntryTyped DEF Stages, Validation, Activation, States
<1> QED
  BY <1>1, ReleaseRewrites DEF GiveUp

LEMMA SubmitRewrites ==
  ASSUME LifecycleTypeOK, NEW id \in Jobs, Submit(id)
  PROVE  Rewrites(NoOwner, id, "pending", queue[id].stage)
<1> DEFINE e == [queue[id] EXCEPT !.state = "pending"]
<1>1. e \in Entries /\ e.stage = queue[id].stage /\ e.state = "pending"
  BY EntryTyped DEF Entries, States
<1>2. queue' = [queue EXCEPT ![id] = e] /\ e.stage >= queue[id].stage
  BY <1>1, EntryTyped DEF Submit, Stages, Validation, Activation
<1> HIDE DEF e
<1> QED
  BY <1>1, <1>2, Rewritten

LEMMA CancelRewrites ==
  ASSUME LifecycleTypeOK, NEW id \in Jobs, CancelJob(id)
  PROVE  Rewrites(NoOwner, id, "failed", queue[id].stage)
<1> DEFINE e == [queue[id] EXCEPT !.state = "failed", !.stage = queue[id].stage,
                                  !.holder = NoOwner, !.lapsed = FALSE, !.cancelled = TRUE]
<1>1. e \in Entries /\ e.stage = queue[id].stage /\ e.state = "failed"
  BY EntryTyped DEF Entries, States
<1>2. queue' = [queue EXCEPT ![id] = e]
  BY DEF CancelJob, Release, LifecycleTypeOK
<1>3. e.stage >= queue[id].stage
  BY <1>1, EntryTyped DEF Stages, Validation, Activation
<1> HIDE DEF e
<1> QED
  BY <1>1, <1>2, <1>3, Rewritten

LEMMA LapseRewrites ==
  ASSUME LifecycleTypeOK, NEW id \in Jobs, Lapse({id})
  PROVE  Rewrites(NoOwner, id, queue[id].state, queue[id].stage)
<1> DEFINE e == [queue[id] EXCEPT !.lapsed = TRUE]
<1>1. /\ e \in Entries /\ e.stage = queue[id].stage /\ e.state = queue[id].state
      /\ e.holder = queue[id].holder
  BY EntryTyped DEF Entries
<1>2. queue' = [queue EXCEPT ![id] = e]
  <2>1. \A k \in Jobs : queue[k].lapsed \in BOOLEAN /\ queue[k] \in Entries
    BY EntryTyped
  <2>2. \A k \in Jobs : k # id => [queue[k] EXCEPT !.lapsed = @ \/ k \in {id}] = queue[k]
    BY <2>1 DEF Entries
  <2>3. [queue[id] EXCEPT !.lapsed = @ \/ id \in {id}] = e
    BY <2>1
  <2> QED
    BY <2>2, <2>3 DEF Lapse, LifecycleTypeOK
<1>3. e.stage >= queue[id].stage
  BY <1>1, EntryTyped DEF Stages, Validation, Activation
<1> HIDE DEF e
<1> QED
  BY <1>1, <1>2, <1>3, Rewritten DEF Held

----------------------------------------------------------------------------
(* What a step may do to the store and to a goroutine without disturbing   *)
(* what is known of them.                                                  *)

StoreGrows ==
    /\ \A k \in Jobs : identity[k] # "absent" => identity'[k] # "absent"
    /\ text \subseteq text'
    /\ vectors \subseteq vectors'
    /\ activated \subseteq activated'

\* StagesAreBacked and EndedJobsArePublished, for one job.
Backed(id) ==
    /\ queue[id].stage >= CanonicalPersistence => identity[id] # "absent"
    /\ queue[id].stage >= TextualProjection => id \in text
    /\ queue[id].stage = Activation => id \in activated
    /\ id \in activated => queue[id].stage >= EmbeddingProjection
    /\ queue[id].stage = Activation /\ EmbeddingMode = "enabled" => id \in vectors
    /\ queue[id].state \in {"completed", "partial"} => id \in activated
    /\ queue[id].state = "completed" => queue[id].stage = Activation

HolderStep(w) ==
    worker[w].job # NoJob /\ Held(w, worker[w].job)
        => queue[worker[w].job].stage \in ExpectedStage(w)

LEMMA IInvParts ==
  IInv <=> /\ TypeOK
           /\ ActiveViewIsProjected
           /\ \A id \in Jobs : Backed(id)
           /\ \A w \in Workers : WorkerDone(w) /\ HolderStep(w)
           /\ \A r \in Resumers : ResumerDone(r)
<1>1. StagesAreBacked /\ EndedJobsArePublished <=> \A id \in Jobs : Backed(id)
  BY DEF StagesAreBacked, EndedJobsArePublished, Backed
<1>2. HoldersKeepStep <=> \A w \in Workers : HolderStep(w)
  BY DEF HoldersKeepStep, HolderStep
<1> QED
  BY <1>1, <1>2 DEF IInv

LEMMA IInvFrom ==
  ASSUME TypeOK', ActiveViewIsProjected', \A id \in Jobs : Backed(id)',
         \A w \in Workers : (WorkerDone(w) /\ HolderStep(w))',
         \A r \in Resumers : ResumerDone(r)'
  PROVE  IInv'
<1>1. StagesAreBacked'
  BY DEF StagesAreBacked, Backed
<1>2. EndedJobsArePublished'
  BY DEF EndedJobsArePublished, Backed
<1>3. HoldersKeepStep'
  BY DEF HoldersKeepStep, HolderStep
<1> QED
  BY <1>1, <1>2, <1>3 DEF IInv

\* The worker is done with its job.
Rests(w) == worker'[w].pc \in {"idle", "stopped"} /\ worker'[w].job = NoJob

\* The handler ended without success, or process is about to call Fail.
Ends(w) ==
    /\ worker[w].pc \notin {"idle", "stopped"}
    /\ worker'[w].job = worker[w].job
    /\ \/ worker'[w].pc = "fail"
       \/ worker'[w].pc = "settle" /\ worker'[w].result \in {"partial", "error"}

\* At most the heartbeat or the executor told it to stop.
Stays(w) ==
    /\ worker'[w].pc = worker[w].pc /\ worker'[w].job = worker[w].job
    /\ worker'[w].claimed = worker[w].claimed /\ worker'[w].result = worker[w].result

\* What w holds it held before, where it was.
Kept(w) ==
    \A k \in Jobs : Held(w, k)' => Held(w, k) /\ queue'[k].stage = queue[k].stage

WorkerRows ==
    [pc : WorkerSteps, job : Jobs \cup {NoJob}, claimed : Stages, stop : BOOLEAN,
     beat : {"none", "lost", "store"}, result : {"none", "ok", "partial", "error"}]
ResumerRows == [pc : ResumerSteps, job : Jobs \cup {NoJob}]

StageArithmetic == Stages \subseteq Int /\ \A s \in Stages : s >= Validation

LEMMA StagesAreNumbers == StageArithmetic
  BY DEF StageArithmetic, Stages, Validation, Activation

LEMMA WorkerKeeps ==
  ASSUME IInv, NEW w \in Workers, LifecycleTypeOK', StagesGrow, StoreGrows,
         worker' \in [Workers -> WorkerRows],
         Rests(w) \/ Ends(w) \/ (Stays(w) /\ Kept(w))
  PROVE  (WorkerDone(w) /\ HolderStep(w))'
<1>1. WorkerDone(w) /\ HolderStep(w)
  BY IInvParts
<1>2. \A k \in Jobs : queue'[k].stage \in Stages
  BY DEF LifecycleTypeOK, Entries
<1>3. CASE Rests(w)
  BY <1>3 DEF Rests, WorkerDone, HolderStep
<1>4. CASE Ends(w)
  <2>1. worker[w].job \in Jobs /\ worker'[w].job = worker[w].job
    BY <1>1, <1>4 DEF Ends, WorkerDone
  <2>2. Floor(w)' = Validation
    BY <1>4 DEF Ends, Floor
  <2>3. WorkerDone(w)'
    BY <1>2, <1>4, <2>1, <2>2, StagesAreNumbers DEF Ends, WorkerDone, StageArithmetic
  <2>4. HolderStep(w)'
    BY <1>2, <1>4, <2>1 DEF Ends, HolderStep, ExpectedStage
  <2> QED
    BY <2>3, <2>4
<1>5. CASE Stays(w) /\ Kept(w)
  <2>1. Floor(w)' = Floor(w) /\ ExpectedStage(w)' = ExpectedStage(w)
    BY <1>5 DEF Stays, Floor, ExpectedStage
  <2>2. Floor(w) \in Int
    BY StagesAreNumbers DEF IInv, TypeOK, Floor, StageArithmetic, Stages, Validation,
       CanonicalPersistence, TextualProjection, RelationalProjection, EmbeddingProjection,
       Activation
  <2>3. \A k \in Jobs : queue[k].stage \in Int /\ queue'[k].stage \in Int
    BY StagesAreNumbers DEF IInv, TypeOK, LifecycleTypeOK, Entries, StageArithmetic
  <2>4. WorkerDone(w)'
    BY <1>1, <1>5, <2>1, <2>2, <2>3 DEF WorkerDone, Stays, StagesGrow, StoreGrows
  <2>5. HolderStep(w)'
    <3> SUFFICES ASSUME worker[w].job # NoJob, queue'[worker[w].job].state = "running",
                        queue'[worker[w].job].holder = w
                 PROVE  queue'[worker[w].job].stage \in ExpectedStage(w)
      BY <1>5, <2>1 DEF HolderStep, Stays, Held
    <3>1. worker[w].job \in Jobs
      BY DEF IInv, TypeOK
    <3> QED
      BY <1>1, <1>5, <3>1 DEF HolderStep, Kept, Held
  <2> QED
    BY <2>4, <2>5
<1> QED
  BY <1>3, <1>4, <1>5

\* A resumer that did nothing, left, or went on to a call with no premise.
ResumerRests(r) ==
    \/ resumer'[r] = resumer[r]
    \/ resumer'[r].pc = "idle"
    \/ /\ resumer[r].pc # "idle"
       /\ resumer'[r].pc \in {"mark", "complete", "fail"}
       /\ resumer'[r].job = resumer[r].job

LEMMA ResumerKeeps ==
  ASSUME IInv, NEW r \in Resumers, StoreGrows, ResumerRests(r)
  PROVE  ResumerDone(r)'
<1>1. ResumerDone(r)
  BY IInvParts
<1> QED
  BY <1>1 DEF ResumerDone, ResumerRests, StoreGrows

\* A job that neither ends nor moves keeps what is known of it, while the
\* store grows and activates no other job below the embeddings.
LEMMA BackedKeeps ==
  ASSUME NEW k \in Jobs, Backed(k), StoreGrows,
         queue'[k].stage = queue[k].stage,
         queue'[k].state = queue[k].state \/ queue'[k].state \notin {"completed", "partial"},
         k \in activated' => k \in activated \/ queue[k].stage >= EmbeddingProjection
  PROVE  Backed(k)'
  BY DEF Backed, StoreGrows

----------------------------------------------------------------------------
(* Steps that write the store or nothing, and steps that write the queue.  *)

\* The worker is accounted for after the step of owner o.
Accounted(w, o) ==
    \/ Rests(w) \/ Ends(w) \/ (Stays(w) /\ w # o)
    \/ (WorkerDone(w) /\ HolderStep(w))'

LEMMA CalmStep ==
  ASSUME IInv, TypeOK', UNCHANGED queue, StoreGrows, ActiveViewIsProjected',
         \A id \in Jobs : Backed(id)', NEW o,
         \A v \in Workers : Accounted(v, o) \/ Stays(v),
         \A r \in Resumers : ResumerRests(r) \/ ResumerDone(r)'
  PROVE  IInv'
<1>1. StagesGrow
  <2>1. \A k \in Jobs : queue[k].stage \in Int
    BY EntryTyped, StagesAreNumbers DEF IInv, TypeOK, StageArithmetic
  <2> QED
    BY <2>1 DEF StagesGrow
<1>2. LifecycleTypeOK' /\ worker' \in [Workers -> WorkerRows]
  BY DEF TypeOK, WorkerRows
<1>3. ASSUME NEW v \in Workers PROVE (WorkerDone(v) /\ HolderStep(v))'
  <2>1. Kept(v)
    BY DEF Kept, Held
  <2> QED
    BY <1>1, <1>2, <2>1, WorkerKeeps DEF Accounted
<1>4. ASSUME NEW r \in Resumers PROVE ResumerDone(r)'
  BY ResumerKeeps
<1> QED
  BY <1>3, <1>4, IInvFrom

LEMMA StoreKept ==
  ASSUME IInv, UNCHANGED store
  PROVE  StoreGrows /\ ActiveViewIsProjected'
<1>1. ActiveViewIsProjected
  BY DEF IInv
<1> QED
  BY <1>1 DEF store, StoreGrows, ActiveViewIsProjected

LEMMA IdleStep ==
  ASSUME IInv, TypeOK', UNCHANGED <<queue, store>>, NEW o,
         \A v \in Workers : Accounted(v, o) \/ Stays(v),
         \A r \in Resumers : ResumerRests(r) \/ ResumerDone(r)'
  PROVE  IInv'
<1>1. StoreGrows /\ ActiveViewIsProjected'
  BY StoreKept
<1>2. ASSUME NEW id \in Jobs PROVE Backed(id)'
  <2>1. Backed(id)
    BY IInvParts
  <2> QED
    BY <2>1 DEF Backed, store
<1> QED
  BY <1>1, <1>2, CalmStep

\* What owner o did to the job leaves its row consistent with the store.
RowBacked(id, state, stage) ==
    \/ stage = queue[id].stage /\ (state = queue[id].state \/ state \notin {"completed", "partial"})
    \/ Backed(id)'

LEMMA QueueStep ==
  ASSUME IInv, TypeOK', NEW o, NEW id \in Jobs, NEW state, NEW stage,
         Rewrites(o, id, state, stage), UNCHANGED store, RowBacked(id, state, stage),
         \A v \in Workers : Accounted(v, o),
         \A r \in Resumers : ResumerRests(r) \/ ResumerDone(r)'
  PROVE  IInv'
<1>1. StoreGrows /\ ActiveViewIsProjected'
  BY StoreKept
<1>2. StagesGrow /\ LifecycleTypeOK' /\ worker' \in [Workers -> WorkerRows]
  BY DEF TypeOK, WorkerRows, Rewrites
<1>3. ASSUME NEW v \in Workers PROVE (WorkerDone(v) /\ HolderStep(v))'
  <2>1. v \in Owners
    BY PipelineAssumption
  <2>2. v # o => Kept(v)
    BY <2>1 DEF Kept, Rewrites, OthersKeep
  <2> QED
    BY <1>1, <1>2, <2>2, WorkerKeeps DEF Accounted
<1>4. ASSUME NEW r \in Resumers PROVE ResumerDone(r)'
  BY <1>1, ResumerKeeps
<1>5. ASSUME NEW k \in Jobs PROVE Backed(k)'
  <2>1. Backed(k) /\ activated' = activated
    BY IInvParts DEF store
  <2>2. CASE k = id
    BY <1>1, <2>1, <2>2, BackedKeeps DEF Rewrites, RowBacked
  <2>3. CASE k # id
    BY <1>1, <2>1, <2>3, BackedKeeps DEF Rewrites
  <2> QED
    BY <2>2, <2>3
<1> QED
  BY <1>1, <1>3, <1>4, <1>5, IInvFrom

----------------------------------------------------------------------------
(* How a call of the handler returns: with an error, or at the next step.  *)

\* Only worker w moved, and it has the job it had.
Moved(w) ==
    /\ worker' \in [Workers -> WorkerRows]
    /\ \A v \in Workers : v # w => worker'[v] = worker[v]
    /\ worker'[w].job = worker[w].job

LEMMA SettleMoves ==
  ASSUME TypeOK, NEW w \in Workers, NEW result \in {"ok", "partial", "error"},
         Settle(w, result)
  PROVE  Moved(w) /\ worker'[w].pc = "settle" /\ worker'[w].result = result
<1>1. worker \in [Workers -> WorkerRows]
  BY DEF TypeOK, WorkerRows
<1> DEFINE q == [worker[w] EXCEPT !.pc = "settle", !.result = result, !.claimed = Validation]
<1>2. q \in WorkerRows /\ q.pc = "settle" /\ q.result = result /\ q.job = worker[w].job
  <2>1. Validation \in Stages
    BY DEF Stages, Validation, Activation
  <2>2. "settle" \in WorkerSteps
    BY DEF WorkerSteps
  <2> QED
    BY <1>1, <2>1, <2>2 DEF WorkerRows
<1>3. worker' = [worker EXCEPT ![w] = q]
  BY <1>1 DEF Settle
<1> HIDE DEF q
<1> QED
  BY <1>1, <1>2, <1>3 DEF Moved

LEMMA StepMoves ==
  ASSUME TypeOK, NEW w \in Workers, NEW step \in WorkerSteps,
         worker' = [worker EXCEPT ![w].pc = step]
  PROVE  Moved(w) /\ worker'[w].pc = step /\ worker'[w].result = worker[w].result
<1>1. worker \in [Workers -> WorkerRows]
  BY DEF TypeOK, WorkerRows
<1> DEFINE q == [worker[w] EXCEPT !.pc = step]
<1>2. q \in WorkerRows /\ q.pc = step /\ q.result = worker[w].result
      /\ q.job = worker[w].job
  BY <1>1 DEF WorkerRows
<1>3. worker' = [worker EXCEPT ![w] = q]
  BY <1>1
<1> HIDE DEF q
<1> QED
  BY <1>1, <1>2, <1>3 DEF Moved

\* The stage of the claimed row is kept up to the call of Persist.
LEMMA ProceedMoves ==
  ASSUME TypeOK, NEW w \in Workers, NEW step \in HandlerSteps,
         worker' = [worker EXCEPT ![w].pc = step,
                                  ![w].claimed = IF step = "persist" THEN @ ELSE Validation]
  PROVE  /\ Moved(w) /\ worker'[w].pc = step
         /\ step = "persist" => worker'[w].claimed = worker[w].claimed
<1>1. worker \in [Workers -> WorkerRows]
  BY DEF TypeOK, WorkerRows
<1> DEFINE stage == IF step = "persist" THEN worker[w].claimed ELSE Validation
           q == [worker[w] EXCEPT !.pc = step, !.claimed = stage]
<1>2. stage \in Stages
  BY <1>1 DEF WorkerRows, Stages, Validation, Activation
<1>3. q \in WorkerRows /\ q.pc = step /\ q.job = worker[w].job /\ q.claimed = stage
  BY <1>1, <1>2 DEF WorkerRows, WorkerSteps
<1>4. worker' = [worker EXCEPT ![w] = q]
  BY <1>1
<1>5. worker'[w].claimed = stage
  BY <1>1, <1>3, <1>4
<1> HIDE DEF q
<1> QED
  BY <1>1, <1>3, <1>4, <1>5 DEF Moved

\* Where a successful call leads.
Reaches(w, step) ==
    IF step = "return" THEN worker'[w].pc = "settle" /\ worker'[w].result = "ok"
                       ELSE /\ worker'[w].pc = step
                            /\ step = "persist" => worker'[w].claimed = worker[w].claimed

LEMMA ReturnMoves ==
  ASSUME TypeOK, NEW w \in Workers, worker[w].pc \notin {"idle", "stopped"},
         NEW step \in HandlerSteps \cup {"return"}, Returned(w, step)
  PROVE  Moved(w) /\ (Ends(w) \/ Reaches(w, step))
<1>1. CASE Failed(w)
  BY <1>1, SettleMoves DEF Failed, Ends, Moved
<1>2. CASE step = "return" /\ Settle(w, "ok")
  BY <1>2, SettleMoves DEF Reaches
<1>3. CASE step # "return" /\ worker' = [worker EXCEPT ![w].pc = step,
                             ![w].claimed = IF step = "persist" THEN @ ELSE Validation]
  BY <1>3, ProceedMoves DEF Reaches
<1> QED
  BY <1>1, <1>2, <1>3 DEF Returned, Proceed

LEMMA MovedStays ==
  ASSUME NEW w, Moved(w)
  PROVE  \A v \in Workers : v # w => Stays(v)
  BY DEF Moved, Stays

----------------------------------------------------------------------------
(* The calls of the handler.                                               *)

StoreTyped ==
    /\ identity \in [Jobs -> {"absent", "historical", "active"}]
    /\ text \in SUBSET Jobs
    /\ vectors \in SUBSET Jobs
    /\ active \in [Sources -> Jobs \cup {NoJob}]
    /\ activated \in SUBSET Jobs

\* Whatever the call did, the proof of its step is about the store it wrote
\* and about the position it leads to.
LEMMA HandlerStep ==
  ASSUME IInv, NEW w \in Workers, worker[w].pc \in HandlerSteps,
         NEW step \in HandlerSteps \cup {"return"}, Returned(w, step),
         UNCHANGED <<queue, executor, resumer, faults>>,
         StoreTyped', StoreGrows, ActiveViewIsProjected', \A id \in Jobs : Backed(id)',
         Moved(w) /\ Reaches(w, step) => (WorkerDone(w) /\ HolderStep(w))'
  PROVE  IInv'
<1>1. Moved(w) /\ (Ends(w) \/ Reaches(w, step))
  BY ReturnMoves DEF IInv, HandlerSteps
<1>2. TypeOK'
  BY <1>1 DEF IInv, TypeOK, LifecycleTypeOK, StoreTyped, Moved, WorkerRows
<1>3. ASSUME NEW v \in Workers PROVE Accounted(v, w) \/ Stays(v)
  BY <1>1, MovedStays DEF Accounted
<1>4. \A r \in Resumers : ResumerRests(r)
  BY DEF ResumerRests
<1> QED
  BY <1>2, <1>3, <1>4, CalmStep

\* The position of a worker in the middle of the handler.
LEMMA HandlerFacts ==
  ASSUME IInv, NEW w \in Workers, worker[w].pc \in HandlerSteps
  PROVE  /\ worker[w].job \in Jobs /\ worker[w].job # NoJob
         /\ worker[w].claimed \in Stages
         /\ queue[worker[w].job].stage \in Stages
         /\ queue[worker[w].job].stage >= Floor(w)
         /\ WorkerDone(w) /\ HolderStep(w) /\ Backed(worker[w].job)
<1>1. WorkerDone(w) /\ HolderStep(w)
  BY IInvParts
<1>2. worker[w].job \in Jobs /\ queue[worker[w].job].stage >= Floor(w)
  BY <1>1 DEF WorkerDone, HandlerSteps
<1>3. worker[w].claimed \in Stages /\ queue[worker[w].job].stage \in Stages
  BY <1>2, EntryTyped DEF IInv, TypeOK
<1>4. Backed(worker[w].job) /\ worker[w].job # NoJob
  BY <1>2, IInvParts, PipelineAssumption
<1> QED
  BY <1>1, <1>2, <1>3, <1>4

LEMMA StoreKeptBacked ==
  ASSUME IInv, UNCHANGED <<queue, store>>
  PROVE  StoreTyped' /\ \A id \in Jobs : Backed(id)'
<1>1. \A id \in Jobs : Backed(id)
  BY IInvParts
<1>2. \A id \in Jobs : Backed(id)'
  BY <1>1 DEF Backed, store
<1> QED
  BY <1>2 DEF IInv, TypeOK, StoreTyped, store

LEMMA CallFailsStep ==
  ASSUME IInv, NEW w \in Workers, CallFails(w) PROVE IInv'
<1>1. Moved(w) /\ Ends(w)
  BY SettleMoves DEF CallFails, Failed, Ends, Moved, IInv, HandlerSteps
<1>2. TypeOK' /\ UNCHANGED <<queue, store>>
  BY <1>1 DEF CallFails, IInv, TypeOK, LifecycleTypeOK, Moved, WorkerRows, store
<1>3. ASSUME NEW v \in Workers PROVE Accounted(v, w) \/ Stays(v)
  BY <1>1, MovedStays DEF Accounted
<1>4. \A r \in Resumers : ResumerRests(r)
  BY DEF ResumerRests, CallFails
<1> QED
  BY <1>2, <1>3, <1>4, IdleStep

LEMMA LoadStep ==
  ASSUME IInv, NEW w \in Workers, Load(w) PROVE IInv'
<1>1. /\ worker[w].pc = "load" /\ worker[w].pc \in HandlerSteps
      /\ Returned(w, "persist") /\ UNCHANGED <<queue, executor, resumer, store, faults>>
  BY DEF Load, At, Returned, HandlerSteps
<1>2. "persist" \in HandlerSteps
  BY DEF HandlerSteps
<1>3. StoreTyped' /\ StoreGrows /\ ActiveViewIsProjected' /\ \A id \in Jobs : Backed(id)'
  BY <1>1, StoreKept, StoreKeptBacked
<1>4. ASSUME Moved(w), Reaches(w, "persist") PROVE (WorkerDone(w) /\ HolderStep(w))'
  <2>1. /\ worker'[w].pc = "persist" /\ worker'[w].job = worker[w].job
        /\ worker'[w].claimed = worker[w].claimed /\ queue' = queue
    BY <1>1, <1>4 DEF Reaches, Moved
  <2>2. Floor(w) = worker[w].claimed /\ Floor(w)' = worker[w].claimed
    BY <1>1, <2>1 DEF Floor
  <2>3. WorkerDone(w)'
    BY <1>1, <2>1, <2>2, HandlerFacts DEF WorkerDone
  <2>4. HolderStep(w)'
    BY <1>1, <2>1, HandlerFacts DEF HolderStep, ExpectedStage, Held
  <2> QED
    BY <2>3, <2>4
<1> QED
  BY <1>1, <1>2, <1>3, <1>4, HandlerStep

LEMMA EmbedFailsStep ==
  ASSUME IInv, NEW w \in Workers, EmbedFails(w) PROVE IInv'
<1>1. /\ worker[w].pc = "embed" /\ worker[w].pc \in HandlerSteps
      /\ Returned(w, "activatePartial") /\ UNCHANGED <<queue, executor, resumer, store, faults>>
  BY DEF EmbedFails, At, Returned, HandlerSteps
<1>2. "activatePartial" \in HandlerSteps
  BY DEF HandlerSteps
<1>3. StoreTyped' /\ StoreGrows /\ ActiveViewIsProjected' /\ \A id \in Jobs : Backed(id)'
  BY <1>1, StoreKept, StoreKeptBacked
<1>4. ASSUME Moved(w), Reaches(w, "activatePartial") PROVE (WorkerDone(w) /\ HolderStep(w))'
  <2>1. /\ worker'[w].pc = "activatePartial" /\ worker'[w].job = worker[w].job
        /\ queue' = queue
    BY <1>1, <1>4 DEF Reaches, Moved
  <2>2. Floor(w) = EmbeddingProjection /\ Floor(w)' = EmbeddingProjection
    BY <1>1, <2>1 DEF Floor
  <2>3. WorkerDone(w)'
    BY <1>1, <2>1, <2>2, HandlerFacts DEF WorkerDone
  <2>4. HolderStep(w)'
    BY <1>1, <2>1, HandlerFacts DEF HolderStep, ExpectedStage, Held
  <2> QED
    BY <2>3, <2>4
<1> QED
  BY <1>1, <1>2, <1>3, <1>4, HandlerStep

LEMMA PersistStep ==
  ASSUME IInv, NEW w \in Workers, Persist(w) PROVE IInv'
<1> DEFINE job == worker[w].job
           step == ResumePoint[worker[w].claimed]
<1>1. /\ worker[w].pc = "persist" /\ worker[w].pc \in HandlerSteps
      /\ identity' = [identity EXCEPT ![job] = IF @ = "absent" THEN "historical" ELSE @]
      /\ Returned(w, step)
      /\ UNCHANGED <<queue, executor, resumer, text, vectors, active, activated, faults>>
  BY DEF Persist, At, HandlerSteps
<1>2. /\ job \in Jobs /\ job # NoJob /\ worker[w].claimed \in Stages
      /\ queue[job].stage \in Stages /\ queue[job].stage >= worker[w].claimed
      /\ WorkerDone(w) /\ HolderStep(w)
  BY <1>1, HandlerFacts DEF Floor
<1>3. step \in HandlerSteps \cup {"return"}
  BY <1>2 DEF ResumePoint, HandlerSteps, Stages, Validation, CanonicalPersistence,
     TextualProjection, RelationalProjection, EmbeddingProjection, Activation
<1>4. \A k \in Jobs : /\ identity'[k] \in {"absent", "historical", "active"}
                      /\ identity[k] # "absent" => identity'[k] # "absent"
                      /\ identity'[k] = "active" <=> identity[k] = "active"
  BY <1>1, <1>2 DEF IInv, TypeOK
<1>5. identity' \in [Jobs -> {"absent", "historical", "active"}] /\ identity'[job] # "absent"
  BY <1>1, <1>2, <1>4 DEF IInv, TypeOK
<1>6. StoreTyped' /\ StoreGrows
  BY <1>1, <1>4, <1>5 DEF IInv, TypeOK, StoreTyped, StoreGrows
<1>7. ActiveViewIsProjected'
  BY <1>1, <1>4 DEF IInv, ActiveViewIsProjected
<1>8. ASSUME NEW k \in Jobs PROVE Backed(k)'
  BY <1>1, <1>6, IInvParts, BackedKeeps
<1>9. ASSUME Moved(w), Reaches(w, step) PROVE (WorkerDone(w) /\ HolderStep(w))'
  <2>1. worker'[w].job = job /\ queue' = queue
    BY <1>1, <1>9 DEF Moved
  <2>2. Held(w, job) => queue[job].stage = worker[w].claimed
    BY <1>1, <1>2 DEF HolderStep, ExpectedStage
  <2> HIDE DEF job
  <2> DEFINE Lands == /\ Floor(w)' = worker[w].claimed
                      /\ worker[w].claimed \in ExpectedStage(w)'
                      /\ worker'[w].pc \notin {"toTextual", "activate", "toActivation", "markPartial"}
                      /\ worker'[w].pc = "settle" => worker'[w].result # "none"
  <2>3. ASSUME worker[w].claimed = Validation PROVE Lands
    <3>1. worker'[w].pc = "toCanonical"
      BY <1>2, <1>9, <2>3 DEF Reaches, ResumePoint, Validation, CanonicalPersistence,
         TextualProjection, RelationalProjection, EmbeddingProjection, Activation
    <3> QED
      BY <1>2, <2>3, <3>1 DEF Floor, ExpectedStage
  <2>4. ASSUME worker[w].claimed = CanonicalPersistence PROVE Lands
    <3>1. worker'[w].pc = "text"
      BY <1>2, <1>9, <2>4 DEF Reaches, ResumePoint, Validation, CanonicalPersistence,
         TextualProjection, RelationalProjection, EmbeddingProjection, Activation
    <3> QED
      BY <1>2, <2>4, <3>1 DEF Floor, ExpectedStage
  <2>5. ASSUME worker[w].claimed = TextualProjection PROVE Lands
    <3>1. worker'[w].pc = "toRelational"
      BY <1>2, <1>9, <2>5 DEF Reaches, ResumePoint, Validation, CanonicalPersistence,
         TextualProjection, RelationalProjection, EmbeddingProjection, Activation
    <3> QED
      BY <1>2, <2>5, <3>1 DEF Floor, ExpectedStage
  <2>6. ASSUME worker[w].claimed = RelationalProjection PROVE Lands
    <3>1. worker'[w].pc = "toEmbedding"
      BY <1>2, <1>9, <2>6 DEF Reaches, ResumePoint, Validation, CanonicalPersistence,
         TextualProjection, RelationalProjection, EmbeddingProjection, Activation
    <3> QED
      BY <1>2, <2>6, <3>1 DEF Floor, ExpectedStage
  <2>7. ASSUME worker[w].claimed = EmbeddingProjection PROVE Lands
    <3>1. worker'[w].pc = "embed"
      BY <1>2, <1>9, <2>7 DEF Reaches, ResumePoint, Validation, CanonicalPersistence,
         TextualProjection, RelationalProjection, EmbeddingProjection, Activation
    <3> QED
      BY <1>2, <2>7, <3>1 DEF Floor, ExpectedStage
  <2>8. ASSUME worker[w].claimed = Activation PROVE Lands
    <3>1. worker'[w].pc = "settle" /\ worker'[w].result = "ok"
      BY <1>2, <1>9, <2>8 DEF Reaches, ResumePoint, Validation, CanonicalPersistence,
         TextualProjection, RelationalProjection, EmbeddingProjection, Activation
    <3> QED
      BY <1>2, <2>8, <3>1 DEF Floor, ExpectedStage
  <2>9. Lands
    BY <1>2, <2>3, <2>4, <2>5, <2>6, <2>7, <2>8 DEF Stages, Validation, CanonicalPersistence,
       TextualProjection, RelationalProjection, EmbeddingProjection, Activation
  <2>10. WorkerDone(w)'
    BY <1>2, <1>5, <2>1, <2>9 DEF WorkerDone
  <2>11. HolderStep(w)'
    BY <1>2, <2>1, <2>2, <2>9 DEF HolderStep, Held
  <2> QED
    BY <2>10, <2>11
<1> HIDE DEF step, job
<1> QED
  BY <1>1, <1>3, <1>6, <1>7, <1>8, <1>9, HandlerStep

LEMMA RebuildTextStep ==
  ASSUME IInv, NEW w \in Workers, RebuildText(w) PROVE IInv'
<1> DEFINE job == worker[w].job
<1>1. /\ worker[w].pc = "text" /\ worker[w].pc \in HandlerSteps
      /\ text' = text \cup {job} /\ Returned(w, "toTextual")
      /\ UNCHANGED <<queue, executor, resumer, identity, vectors, active, activated, faults>>
  BY DEF RebuildText, At, HandlerSteps
<1>2. /\ job \in Jobs /\ job # NoJob
      /\ queue[job].stage \in Stages /\ queue[job].stage >= CanonicalPersistence
      /\ WorkerDone(w) /\ HolderStep(w)
  BY <1>1, HandlerFacts DEF Floor
<1>3. "toTextual" \in HandlerSteps
  BY DEF HandlerSteps
<1>4. StoreTyped' /\ StoreGrows
  BY <1>1, <1>2 DEF IInv, TypeOK, StoreTyped, StoreGrows
<1>5. ActiveViewIsProjected'
  BY <1>1 DEF IInv, ActiveViewIsProjected
<1>6. ASSUME NEW k \in Jobs PROVE Backed(k)'
  BY <1>1, <1>4, IInvParts, BackedKeeps
<1>7. ASSUME Moved(w), Reaches(w, "toTextual") PROVE (WorkerDone(w) /\ HolderStep(w))'
  <2>1. worker'[w].pc = "toTextual" /\ worker'[w].job = job /\ queue' = queue /\ job \in text'
    BY <1>1, <1>7 DEF Moved, Reaches
  <2> HIDE DEF job
  <2>2. WorkerDone(w)'
    BY <1>2, <2>1 DEF WorkerDone, Floor
  <2> USE DEF job
  <2>3. HolderStep(w)'
    BY <1>1, <1>2, <2>1 DEF HolderStep, ExpectedStage, Held
  <2> QED
    BY <2>2, <2>3
<1> HIDE DEF job
<1> QED
  BY <1>1, <1>3, <1>4, <1>5, <1>6, <1>7, HandlerStep

LEMMA EmbedStep ==
  ASSUME IInv, NEW w \in Workers, Embed(w) PROVE IInv'
<1> DEFINE job == worker[w].job
<1>1. /\ worker[w].pc = "embed" /\ worker[w].pc \in HandlerSteps
      /\ vectors' = (IF EmbeddingMode = "enabled" THEN vectors \cup {job} ELSE vectors)
      /\ Returned(w, "activate")
      /\ UNCHANGED <<queue, executor, resumer, identity, text, active, activated, faults>>
  BY DEF Embed, At, HandlerSteps, Returned
<1>2. /\ job \in Jobs /\ job # NoJob
      /\ queue[job].stage \in Stages /\ queue[job].stage >= EmbeddingProjection
      /\ WorkerDone(w) /\ HolderStep(w)
  BY <1>1, HandlerFacts DEF Floor
<1>3. "activate" \in HandlerSteps
  BY DEF HandlerSteps
<1>4. StoreTyped' /\ StoreGrows
  BY <1>1, <1>2 DEF IInv, TypeOK, StoreTyped, StoreGrows
<1>5. ActiveViewIsProjected'
  BY <1>1 DEF IInv, ActiveViewIsProjected
<1>6. ASSUME NEW k \in Jobs PROVE Backed(k)'
  BY <1>1, <1>4, IInvParts, BackedKeeps
<1>7. ASSUME Moved(w), Reaches(w, "activate") PROVE (WorkerDone(w) /\ HolderStep(w))'
  <2>1. /\ worker'[w].pc = "activate" /\ worker'[w].job = job /\ queue' = queue
        /\ EmbeddingMode = "enabled" => job \in vectors'
    BY <1>1, <1>7 DEF Moved, Reaches
  <2> HIDE DEF job
  <2>2. WorkerDone(w)'
    BY <1>2, <2>1 DEF WorkerDone, Floor
  <2> USE DEF job
  <2>3. HolderStep(w)'
    BY <1>1, <1>2, <2>1 DEF HolderStep, ExpectedStage, Held
  <2> QED
    BY <2>2, <2>3
<1> HIDE DEF job
<1> QED
  BY <1>1, <1>3, <1>4, <1>5, <1>6, <1>7, HandlerStep

\* The activating transaction, whoever asks for it: the snapshot it activates
\* is projected because no job reaches the embeddings before its text.
LEMMA ActivateStore ==
  ASSUME IInv, NEW id \in Jobs, queue[id].stage >= EmbeddingProjection, Activate(id),
         UNCHANGED queue
  PROVE  /\ StoreTyped' /\ StoreGrows /\ ActiveViewIsProjected' /\ \A k \in Jobs : Backed(k)'
         /\ id \in activated'
<1> DEFINE src == SourceOf[id]
<1>1. /\ identity[id] # "absent" /\ text' = text /\ vectors' = vectors
      /\ activated' = activated \cup {id} /\ active' = [active EXCEPT ![src] = id]
      /\ identity' = [k \in Jobs |->
                         IF k = id THEN "active"
                         ELSE IF SourceOf[k] = src /\ identity[k] = "active" THEN "historical"
                         ELSE identity[k]]
  BY DEF Activate
<1>2. src \in Sources /\ active \in [Sources -> Jobs \cup {NoJob}] /\ TypeOK
  BY PipelineAssumption DEF IInv, TypeOK
<1> HIDE DEF src
<1>3. StoreTyped'
  <2>1. \A k \in Jobs : identity'[k] \in {"absent", "historical", "active"}
    BY <1>1, <1>2 DEF TypeOK
  <2>2. identity' \in [Jobs -> {"absent", "historical", "active"}]
    BY <1>1, <2>1
  <2> QED
    BY <1>1, <1>2, <2>2 DEF TypeOK, StoreTyped
<1>4. StoreGrows
  BY <1>1 DEF StoreGrows
<1>5. id \in text
  <2>1. queue[id].stage >= TextualProjection
    BY EntryTyped DEF IInv, TypeOK, Stages, Validation, TextualProjection, EmbeddingProjection,
       Activation
  <2> QED
    BY <2>1, IInvParts DEF Backed
<1>6. ActiveViewIsProjected'
  <2> SUFFICES ASSUME NEW s \in Sources
               PROVE  /\ active'[s] # NoJob => active'[s] \in text'
                      /\ \A k \in Jobs : SourceOf[k] = s =>
                            (identity'[k] = "active" <=> active'[s] = k)
    BY DEF ActiveViewIsProjected
  <2>1. CASE s = src
    BY <1>1, <1>2, <1>5, <2>1
  <2>2. CASE s # src
    <3>1. /\ active[s] # NoJob => active[s] \in text
          /\ \A k \in Jobs : SourceOf[k] = s => (identity[k] = "active" <=> active[s] = k)
      BY DEF IInv, ActiveViewIsProjected
    <3>2. \A k \in Jobs : SourceOf[k] = s => identity'[k] = identity[k]
      BY <1>1, <2>2 DEF src
    <3> QED
      BY <1>1, <1>2, <2>2, <3>1, <3>2
  <2> QED
    BY <2>1, <2>2
<1>7. ASSUME NEW k \in Jobs PROVE Backed(k)'
  <2>1. Backed(k) /\ (k \in activated' => k \in activated \/ queue[k].stage >= EmbeddingProjection)
    BY <1>1, IInvParts
  <2> QED
    BY <1>4, <2>1, BackedKeeps
<1> QED
  BY <1>1, <1>3, <1>4, <1>6, <1>7

LEMMA ActivateSnapshotStep ==
  ASSUME IInv, NEW w \in Workers, ActivateSnapshot(w) PROVE IInv'
<1> DEFINE job == worker[w].job
<1>1. /\ Activate(job) /\ UNCHANGED <<queue, executor, resumer, faults>>
      /\ worker[w].pc \in {"activate", "activatePartial"} /\ worker[w].pc \in HandlerSteps
  BY DEF ActivateSnapshot, At, HandlerSteps
<1>2. /\ job \in Jobs /\ job # NoJob
      /\ queue[job].stage \in Stages /\ queue[job].stage >= EmbeddingProjection
      /\ WorkerDone(w) /\ HolderStep(w)
  BY <1>1, HandlerFacts DEF Floor
<1>3. /\ StoreTyped' /\ StoreGrows /\ ActiveViewIsProjected' /\ \A k \in Jobs : Backed(k)'
      /\ job \in activated'
  BY <1>1, <1>2, ActivateStore
<1>4. vectors' = vectors
  BY <1>1 DEF Activate
<1>5. "toActivation" \in HandlerSteps /\ "markPartial" \in HandlerSteps
  BY DEF HandlerSteps
<1>6. HolderStep(w)' \/ ~(worker'[w].job = job /\ worker'[w].pc \in {"toActivation", "markPartial"})
  BY <1>1, <1>2 DEF HolderStep, ExpectedStage, Held
<1>7. CASE worker[w].pc = "activate" /\ Returned(w, "toActivation")
  <2>1. ASSUME Moved(w), Reaches(w, "toActivation") PROVE (WorkerDone(w) /\ HolderStep(w))'
    <3>1. worker'[w].pc = "toActivation" /\ worker'[w].job = job /\ queue' = queue
      BY <1>1, <2>1 DEF Moved, Reaches
    <3>2. EmbeddingMode = "enabled" => job \in vectors'
      BY <1>2, <1>4, <1>7 DEF WorkerDone
    <3> HIDE DEF job
    <3>3. WorkerDone(w)'
      BY <1>2, <1>3, <3>1, <3>2 DEF WorkerDone, Floor
    <3> QED
      BY <1>6, <3>1, <3>3
  <2> HIDE DEF job
  <2> QED
    BY <1>1, <1>3, <1>5, <1>7, <2>1, HandlerStep
<1>8. CASE worker[w].pc = "activatePartial" /\ Returned(w, "markPartial")
  <2>1. ASSUME Moved(w), Reaches(w, "markPartial") PROVE (WorkerDone(w) /\ HolderStep(w))'
    <3>1. worker'[w].pc = "markPartial" /\ worker'[w].job = job /\ queue' = queue
      BY <1>1, <2>1 DEF Moved, Reaches
    <3> HIDE DEF job
    <3>3. WorkerDone(w)'
      BY <1>2, <1>3, <3>1 DEF WorkerDone, Floor
    <3> QED
      BY <1>6, <3>1, <3>3
  <2> HIDE DEF job
  <2> QED
    BY <1>1, <1>3, <1>5, <1>8, <2>1, HandlerStep
<1> HIDE DEF job
<1> QED
  BY <1>7, <1>8 DEF ActivateSnapshot, At

\* A durable transition: made while the job is held, so from the very stage
\* the position expects.
LEMMA AdvanceToStep ==
  ASSUME IInv, NEW w \in Workers, NEW job \in Jobs, job = worker[w].job,
         NEW step \in HandlerSteps, NEW stage \in Stages,
         NEW next \in HandlerSteps \cup {"return"}, AdvanceTo(w, step, stage, next),
         Rewrites(w, job, queue[job].state, stage) /\ UNCHANGED store => Backed(job)',
         Moved(w) /\ Reaches(w, next)
            => Floor(w)' = stage /\ stage \in ExpectedStage(w)'
               /\ worker'[w].pc \notin {"toCanonical", "toTextual", "activate", "toActivation", "markPartial"}
  PROVE  IInv'
<1>1. /\ worker[w].pc = step /\ worker[w].pc \in HandlerSteps
      /\ Advance(w, job, stage) /\ Returned(w, next)
      /\ UNCHANGED <<executor, resumer, store, faults>>
  BY DEF AdvanceTo, At
<1>2. job # NoJob
  BY PipelineAssumption
<1>3. w \in Owners /\ LifecycleTypeOK
  BY PipelineAssumption DEF IInv, TypeOK
<1>4. Rewrites(w, job, queue[job].state, stage)
  BY <1>1, <1>2, <1>3, AdvanceRewrites
<1>5. Moved(w) /\ (Ends(w) \/ Reaches(w, next))
  BY <1>1, ReturnMoves DEF IInv, HandlerSteps
<1>6. TypeOK'
  BY <1>1, <1>4, <1>5 DEF IInv, TypeOK, Rewrites, Moved, WorkerRows, store
<1>7. ASSUME NEW v \in Workers PROVE Accounted(v, w)
  <2>1. CASE v # w
    BY <1>5, <2>1, MovedStays DEF Accounted
  <2>2. CASE v = w /\ Reaches(w, next)
    <3>1. /\ worker'[w].job = job /\ queue'[job].stage = stage /\ Floor(w)' = stage
          /\ stage \in ExpectedStage(w)'
          /\ worker'[w].pc \notin {"toCanonical", "toTextual", "activate", "toActivation", "markPartial"}
      BY <1>4, <1>5, <2>2 DEF Moved, Rewrites
    <3>2. worker'[w].pc = "settle" => worker'[w].result # "none"
      BY <2>2 DEF Reaches, HandlerSteps
    <3>3. WorkerDone(w)'
      BY <1>2, <3>1, <3>2, StagesAreNumbers DEF WorkerDone, StageArithmetic
    <3>4. HolderStep(w)'
      BY <3>1 DEF HolderStep
    <3> QED
      BY <2>2, <3>3, <3>4 DEF Accounted
  <2> QED
    BY <1>5, <2>1, <2>2 DEF Accounted
<1>8. \A r \in Resumers : ResumerRests(r)
  BY <1>1 DEF ResumerRests
<1>9. RowBacked(job, queue[job].state, stage)
  BY <1>1, <1>4 DEF RowBacked
<1> QED
  BY <1>1, <1>2, <1>4, <1>6, <1>7, <1>8, <1>9, QueueStep

\* What a holder about to make a transition knows of its job.
LEMMA AdvanceFacts ==
  ASSUME IInv, NEW w \in Workers, worker[w].pc \in HandlerSteps,
         Held(w, worker[w].job)
  PROVE  /\ queue[worker[w].job].state = "running"
         /\ queue[worker[w].job].stage \in ExpectedStage(w)
         /\ WorkerDone(w) /\ Backed(worker[w].job)
  BY HandlerFacts DEF Held, HolderStep

LEMMA TransitionsStep ==
  ASSUME IInv, NEW w \in Workers, Transitions(w) PROVE IInv'
<1> PICK job \in Jobs : job = worker[w].job
  <2>1. worker[w].pc \in HandlerSteps
    BY DEF Transitions, AdvanceTo, At, HandlerSteps
  <2> QED
    BY <2>1, HandlerFacts
<1>1. \A s \in {"toCanonical", "toTextual", "toRelational", "toEmbedding", "toActivation",
               "text", "embed"} : s \in HandlerSteps
  BY DEF HandlerSteps
<1>2. /\ CanonicalPersistence \in Stages /\ TextualProjection \in Stages
      /\ RelationalProjection \in Stages /\ EmbeddingProjection \in Stages /\ Activation \in Stages
  BY DEF Stages, Validation, CanonicalPersistence, TextualProjection, RelationalProjection,
     EmbeddingProjection, Activation
<1>3. CASE AdvanceTo(w, "toCanonical", CanonicalPersistence, "text")
  <2>1. worker[w].pc = "toCanonical" /\ Held(w, job)
    BY <1>3 DEF AdvanceTo, At, Advance
  <2>2. queue[job].state = "running" /\ queue[job].stage = Validation /\ WorkerDone(w) /\ Backed(job)
    BY <1>1, <2>1, AdvanceFacts DEF ExpectedStage
  <2>3. ASSUME Rewrites(w, job, queue[job].state, CanonicalPersistence), UNCHANGED store PROVE Backed(job)'
    BY <2>1, <2>2, <2>3 DEF Backed, WorkerDone, Rewrites, store, Validation, CanonicalPersistence,
       TextualProjection, RelationalProjection, EmbeddingProjection, Activation
  <2>4. ASSUME Moved(w), Reaches(w, "text")
        PROVE  /\ Floor(w)' = CanonicalPersistence /\ CanonicalPersistence \in ExpectedStage(w)'
               /\ worker'[w].pc \notin {"toCanonical", "toTextual", "activate", "toActivation",
                                        "markPartial"}
    BY <1>2, <2>4 DEF Reaches, Floor, ExpectedStage
  <2> QED
    BY <1>1, <1>2, <1>3, <2>3, <2>4, AdvanceToStep
<1>4. CASE AdvanceTo(w, "toTextual", TextualProjection, "toRelational")
  <2>1. worker[w].pc = "toTextual" /\ Held(w, job)
    BY <1>4 DEF AdvanceTo, At, Advance
  <2>2. queue[job].state = "running" /\ queue[job].stage = CanonicalPersistence /\ WorkerDone(w) /\ Backed(job)
    BY <1>1, <2>1, AdvanceFacts DEF ExpectedStage
  <2>3. ASSUME Rewrites(w, job, queue[job].state, TextualProjection), UNCHANGED store PROVE Backed(job)'
    BY <2>1, <2>2, <2>3 DEF Backed, WorkerDone, Rewrites, store, Validation, CanonicalPersistence,
       TextualProjection, RelationalProjection, EmbeddingProjection, Activation
  <2>4. ASSUME Moved(w), Reaches(w, "toRelational")
        PROVE  /\ Floor(w)' = TextualProjection /\ TextualProjection \in ExpectedStage(w)'
               /\ worker'[w].pc \notin {"toCanonical", "toTextual", "activate", "toActivation",
                                        "markPartial"}
    BY <1>2, <2>4 DEF Reaches, Floor, ExpectedStage
  <2> QED
    BY <1>1, <1>2, <1>4, <2>3, <2>4, AdvanceToStep
<1>5. CASE AdvanceTo(w, "toRelational", RelationalProjection, "toEmbedding")
  <2>1. worker[w].pc = "toRelational" /\ Held(w, job)
    BY <1>5 DEF AdvanceTo, At, Advance
  <2>2. queue[job].state = "running" /\ queue[job].stage = TextualProjection /\ WorkerDone(w) /\ Backed(job)
    BY <1>1, <2>1, AdvanceFacts DEF ExpectedStage
  <2>3. ASSUME Rewrites(w, job, queue[job].state, RelationalProjection), UNCHANGED store PROVE Backed(job)'
    BY <2>1, <2>2, <2>3 DEF Backed, WorkerDone, Rewrites, store, Validation, CanonicalPersistence,
       TextualProjection, RelationalProjection, EmbeddingProjection, Activation
  <2>4. ASSUME Moved(w), Reaches(w, "toEmbedding")
        PROVE  /\ Floor(w)' = RelationalProjection /\ RelationalProjection \in ExpectedStage(w)'
               /\ worker'[w].pc \notin {"toCanonical", "toTextual", "activate", "toActivation",
                                        "markPartial"}
    BY <1>2, <2>4 DEF Reaches, Floor, ExpectedStage
  <2> QED
    BY <1>1, <1>2, <1>5, <2>3, <2>4, AdvanceToStep
<1>6. CASE AdvanceTo(w, "toEmbedding", EmbeddingProjection, "embed")
  <2>1. worker[w].pc = "toEmbedding" /\ Held(w, job)
    BY <1>6 DEF AdvanceTo, At, Advance
  <2>2. queue[job].state = "running" /\ queue[job].stage = RelationalProjection /\ WorkerDone(w) /\ Backed(job)
    BY <1>1, <2>1, AdvanceFacts DEF ExpectedStage
  <2>3. ASSUME Rewrites(w, job, queue[job].state, EmbeddingProjection), UNCHANGED store PROVE Backed(job)'
    BY <2>1, <2>2, <2>3 DEF Backed, WorkerDone, Rewrites, store, Validation, CanonicalPersistence,
       TextualProjection, RelationalProjection, EmbeddingProjection, Activation
  <2>4. ASSUME Moved(w), Reaches(w, "embed")
        PROVE  /\ Floor(w)' = EmbeddingProjection /\ EmbeddingProjection \in ExpectedStage(w)'
               /\ worker'[w].pc \notin {"toCanonical", "toTextual", "activate", "toActivation",
                                        "markPartial"}
    BY <1>2, <2>4 DEF Reaches, Floor, ExpectedStage
  <2> QED
    BY <1>1, <1>2, <1>6, <2>3, <2>4, AdvanceToStep
<1>7. CASE AdvanceTo(w, "toActivation", Activation, "return")
  <2>1. worker[w].pc = "toActivation" /\ Held(w, job)
    BY <1>7 DEF AdvanceTo, At, Advance
  <2>2. queue[job].state = "running" /\ queue[job].stage = EmbeddingProjection /\ WorkerDone(w) /\ Backed(job)
    BY <1>1, <2>1, AdvanceFacts DEF ExpectedStage
  <2>3. ASSUME Rewrites(w, job, queue[job].state, Activation), UNCHANGED store PROVE Backed(job)'
    BY <2>1, <2>2, <2>3 DEF Backed, WorkerDone, Rewrites, store, Validation, CanonicalPersistence,
       TextualProjection, RelationalProjection, EmbeddingProjection, Activation
  <2>4. ASSUME Moved(w), Reaches(w, "return")
        PROVE  /\ Floor(w)' = Activation /\ Activation \in ExpectedStage(w)'
               /\ worker'[w].pc \notin {"toCanonical", "toTextual", "activate", "toActivation",
                                        "markPartial"}
    BY <1>2, <2>4 DEF Reaches, Floor, ExpectedStage
  <2> QED
    BY <1>1, <1>2, <1>7, <2>3, <2>4, AdvanceToStep
<1> QED
  BY <1>3, <1>4, <1>5, <1>6, <1>7 DEF Transitions

LEMMA MarkPartialStep ==
  ASSUME IInv, NEW w \in Workers, MarkPartial(w) PROVE IInv'
<1> PICK job \in Jobs : job = worker[w].job
  BY HandlerFacts DEF MarkPartial, At, HandlerSteps
<1>1. /\ worker[w].pc = "markPartial" /\ worker[w].pc \in HandlerSteps
      /\ Suspend(w, job, EmbeddingProjection)
      /\ UNCHANGED <<executor, resumer, store, faults>>
  BY DEF MarkPartial, At, HandlerSteps
<1>2. WorkerDone(w) /\ Backed(job) /\ Held(w, job)
      /\ queue[job].stage = EmbeddingProjection
  BY <1>1, HandlerFacts DEF Suspend, HolderStep, ExpectedStage
<1>3. w \in Owners /\ LifecycleTypeOK /\ EmbeddingProjection \in Stages
  BY PipelineAssumption DEF IInv, TypeOK, Stages, Validation, EmbeddingProjection, Activation
<1>4. Rewrites(w, job, "partial", EmbeddingProjection)
  BY <1>1, <1>2, <1>3, SuspendRewrites
<1>5. Moved(w) /\ Ends(w)
  BY <1>1, SettleMoves DEF MarkPartial, Failed, IInv, Ends, Moved
<1>6. TypeOK'
  BY <1>1, <1>4, <1>5 DEF IInv, TypeOK, Rewrites, Moved, WorkerRows, store
<1>7. \A v \in Workers : Accounted(v, w)
  BY <1>5, MovedStays DEF Accounted
<1>8. \A r \in Resumers : ResumerRests(r)
  BY <1>1 DEF ResumerRests
<1>9. Backed(job)'
  BY <1>1, <1>2, <1>4 DEF Rewrites, Backed, WorkerDone, store, EmbeddingProjection, Activation
<1> QED
  BY <1>1, <1>2, <1>4, <1>6, <1>7, <1>8, <1>9, QueueStep DEF RowBacked

LEMMA HandleStep ==
  ASSUME IInv, NEW w \in Workers, Handle(w) PROVE IInv'
  BY CallFailsStep, LoadStep, PersistStep, RebuildTextStep, TransitionsStep, EmbedStep,
     EmbedFailsStep, ActivateSnapshotStep, MarkPartialStep DEF Handle

----------------------------------------------------------------------------
(* The executor.                                                           *)

\* Worker w lets go of its job and the others go on.
Leaves(w) ==
    /\ worker' \in [Workers -> WorkerRows]
    /\ Rests(w)
    /\ \A v \in Workers : v # w => Stays(v)

LEMMA RowsTyped ==
  /\ IdleWorker \in WorkerRows /\ [IdleWorker EXCEPT !.pc = "stopped"] \in WorkerRows
  /\ IdleResumer \in ResumerRows
<1>1. IdleWorker \in WorkerRows
  <2>1. Validation \in Stages /\ "idle" \in WorkerSteps
    BY DEF Stages, Validation, Activation, WorkerSteps
  <2> QED
    BY <2>1 DEF IdleWorker, WorkerRows
<1>2. [IdleWorker EXCEPT !.pc = "stopped"] \in WorkerRows
  <2>1. "stopped" \in WorkerSteps
    BY DEF WorkerSteps
  <2> QED
    BY <1>1, <2>1 DEF WorkerRows
<1>3. IdleResumer \in ResumerRows
  BY DEF IdleResumer, ResumerRows, ResumerSteps
<1> QED
  BY <1>1, <1>2, <1>3

LEMMA PollLeaves ==
  ASSUME TypeOK, NEW w \in Workers,
         Poll(w) \/ worker' = [worker EXCEPT ![w] = [IdleWorker EXCEPT !.pc = "stopped"]]
  PROVE  Leaves(w)
<1>1. worker \in [Workers -> WorkerRows]
  BY DEF TypeOK, WorkerRows
<1> DEFINE stopped == [IdleWorker EXCEPT !.pc = "stopped"]
<1>2. /\ IdleWorker.pc = "idle" /\ IdleWorker.job = NoJob
      /\ stopped.pc = "stopped" /\ stopped.job = NoJob
      /\ IdleWorker \in WorkerRows /\ stopped \in WorkerRows
  BY RowsTyped DEF IdleWorker
<1>3. worker' = [worker EXCEPT ![w] = IdleWorker] \/ worker' = [worker EXCEPT ![w] = stopped]
  BY DEF Poll
<1> HIDE DEF stopped
<1>4. /\ worker' \in [Workers -> WorkerRows]
      /\ worker'[w] = IdleWorker \/ worker'[w] = stopped
      /\ \A v \in Workers : v # w => worker'[v] = worker[v]
  BY <1>1, <1>2, <1>3
<1> QED
  BY <1>2, <1>4 DEF Leaves, Rests, Stays

LEMMA StopLeaves ==
  ASSUME TypeOK, NEW w \in Workers, StopExecutor(w)
  PROVE  Leaves(w) /\ executor' = "stopping"
<1> DEFINE q == [IdleWorker EXCEPT !.pc = "stopped"]
           f == [v \in Workers |-> [worker[v] EXCEPT !.stop = TRUE]]
<1>1. q \in WorkerRows /\ q.pc = "stopped" /\ q.job = NoJob
  BY RowsTyped DEF IdleWorker
<1>2. ASSUME NEW v \in Workers
      PROVE  /\ f[v] \in WorkerRows
             /\ f[v].pc = worker[v].pc /\ f[v].job = worker[v].job
             /\ f[v].claimed = worker[v].claimed /\ f[v].result = worker[v].result
  BY DEF TypeOK, WorkerRows
<1>3. /\ executor' = "stopping"
      /\ worker' = [v \in Workers |-> IF v = w THEN q ELSE f[v]]
  BY DEF StopExecutor
<1> HIDE DEF q, f
<1> QED
  BY <1>1, <1>2, <1>3 DEF Leaves, Rests, Stays

LEMMA FaultTyped ==
  ASSUME TypeOK, Fault \/ UNCHANGED faults
  PROVE  faults' \in 0..MaxFaults
  BY PipelineAssumption DEF TypeOK, Fault

LEMMA CallerFaultsTyped ==
  ASSUME TypeOK, NEW id, Accept(id) \/ Cancel(id) \/ Expire(id)
  PROVE  faults' \in 0..MaxFaults
<1>1. faults \in 0..MaxFaults /\ MaxFaults \in Nat
  BY PipelineAssumption DEF TypeOK
<1>2. CASE Accept(id)
  BY <1>1, <1>2 DEF Accept
<1>3. CASE Cancel(id) \/ Expire(id)
  BY <1>3, FaultTyped DEF Cancel, Expire
<1> QED
  BY <1>2, <1>3

\* A step that only the worker sees.
LEMMA LeaveStep ==
  ASSUME IInv, NEW w \in Workers, Leaves(w), UNCHANGED <<queue, resumer, store>>,
         executor' \in {"running", "stopping"}, Fault \/ UNCHANGED faults
  PROVE  IInv'
<1>1. TypeOK'
  BY FaultTyped DEF IInv, TypeOK, LifecycleTypeOK, Leaves, WorkerRows, store
<1>2. \A v \in Workers : Accounted(v, w) \/ Stays(v)
  BY DEF Leaves, Accounted
<1>3. \A r \in Resumers : ResumerRests(r)
  BY DEF ResumerRests
<1> QED
  BY <1>1, <1>2, <1>3, IdleStep

\* The last call of a worker about a job.
LEMMA LeaveQueueStep ==
  ASSUME IInv, NEW w \in Workers, Leaves(w), NEW id \in Jobs, NEW state, NEW stage,
         Rewrites(w, id, state, stage), RowBacked(id, state, stage),
         UNCHANGED <<resumer, store>>,
         executor' \in {"running", "stopping"}, Fault \/ UNCHANGED faults
  PROVE  IInv'
<1>1. TypeOK'
  BY FaultTyped DEF IInv, TypeOK, Rewrites, Leaves, WorkerRows, store
<1>2. \A v \in Workers : Accounted(v, w)
  BY DEF Leaves, Accounted
<1>3. \A r \in Resumers : ResumerRests(r)
  BY DEF ResumerRests
<1> QED
  BY <1>1, <1>2, <1>3, QueueStep

\* Claim, Complete and Fail leave the row consistent with the store.
LEMMA CallRewrites ==
  ASSUME IInv, NEW o \in Owners, NEW id \in Jobs, UNCHANGED store,
         Take(o, id) \/ GiveUp(o, id) \/ Finish(o, id)
  PROVE  \E state \in States, stage \in Stages :
            Rewrites(o, id, state, stage) /\ RowBacked(id, state, stage)
<1>1. LifecycleTypeOK /\ queue[id].stage \in Stages
  BY EntryTyped DEF IInv, TypeOK
<1>2. CASE Take(o, id)
  BY <1>1, <1>2, TakeRewrites DEF RowBacked, States
<1>3. CASE GiveUp(o, id)
  BY <1>1, <1>3, GiveUpRewrites DEF RowBacked, States
<1>4. CASE Finish(o, id)
  <2>1. Rewrites(o, id, "completed", Activation)
    BY <1>1, <1>4, FinishRewrites
  <2>2. queue[id].stage = Activation /\ Backed(id)
    BY <1>4, IInvParts DEF Finish
  <2>3. Backed(id)'
    BY <2>1, <2>2 DEF Backed, Rewrites, store
  <2> QED
    BY <1>1, <2>1, <2>2, <2>3 DEF RowBacked, States
<1> QED
  BY <1>2, <1>3, <1>4

LEMMA BusyJob ==
  ASSUME IInv, NEW w \in Workers, worker[w].pc \notin {"idle", "stopped"}
  PROVE  \E id \in Jobs : id = worker[w].job
  BY IInvParts DEF WorkerDone

LEMMA ClaimStep ==
  ASSUME IInv, NEW w \in Workers, NEW id \in Jobs, Claim(w, id) PROVE IInv'
<1> DEFINE q == [IdleWorker EXCEPT !.pc = "load", !.job = id, !.claimed = queue[id].stage]
<1>1. /\ Take(w, id) /\ worker' = [worker EXCEPT ![w] = q]
      /\ Fault \/ UNCHANGED faults
      /\ UNCHANGED <<executor, resumer, store>>
  BY DEF Claim, FaultIfLate
<1>2. LifecycleTypeOK /\ queue[id].stage \in Stages /\ w \in Owners
  BY EntryTyped, PipelineAssumption DEF IInv, TypeOK
<1>3. Rewrites(w, id, "running", queue[id].stage)
  BY <1>1, <1>2, TakeRewrites
<1>4. q \in WorkerRows /\ q.pc = "load" /\ q.job = id /\ q.claimed = queue[id].stage
  BY <1>2 DEF IdleWorker, WorkerRows, WorkerSteps, HandlerSteps
<1> HIDE DEF q
<1>5. worker' \in [Workers -> WorkerRows] /\ worker'[w] = q /\ \A v \in Workers : v # w => Stays(v)
  BY <1>1, <1>4 DEF IInv, TypeOK, WorkerRows, Stays
<1>6. TypeOK'
  BY <1>1, <1>3, <1>5, FaultTyped DEF IInv, TypeOK, Rewrites, WorkerRows, store
<1>7. (WorkerDone(w) /\ HolderStep(w))'
  <2>1. queue'[id].stage = queue[id].stage
    BY <1>3 DEF Rewrites
  <2>2. Floor(w)' = queue[id].stage /\ ExpectedStage(w)' = {queue[id].stage}
    BY <1>4, <1>5 DEF Floor, ExpectedStage
  <2>3. queue[id].stage >= queue[id].stage
    BY <1>2 DEF Stages, Validation, Activation
  <2>4. WorkerDone(w)'
    <3>1. worker'[w].pc = "load" /\ worker'[w].job = id
      BY <1>4, <1>5
    <3> QED
      BY <2>1, <2>2, <2>3, <3>1 DEF WorkerDone
  <2>5. HolderStep(w)'
    BY <1>4, <1>5, <2>1, <2>2 DEF HolderStep
  <2> QED
    BY <2>4, <2>5
<1>8. \A v \in Workers : Accounted(v, w)
  BY <1>5, <1>7 DEF Accounted
<1>9. \A r \in Resumers : ResumerRests(r)
  BY <1>1 DEF ResumerRests
<1> QED
  BY <1>1, <1>3, <1>6, <1>8, <1>9, QueueStep DEF RowBacked

LEMMA HeartbeatStep ==
  ASSUME IInv, NEW w \in Workers, Heartbeat(w) PROVE IInv'
<1>1. PICK id \in Jobs : id = worker[w].job
  BY BusyJob DEF Heartbeat, Beating, HandlerSteps
<1>2. /\ Renew(w, id) /\ UNCHANGED <<executor, worker, resumer, store>>
      /\ Fault \/ UNCHANGED faults
  BY <1>1 DEF Heartbeat, FaultIfLate
<1>3. LifecycleTypeOK /\ w \in Owners
  BY PipelineAssumption DEF IInv, TypeOK
<1>4. Rewrites(NoOwner, id, queue[id].state, queue[id].stage)
  BY <1>2, <1>3, RenewRewrites
<1>5. TypeOK'
  BY <1>2, <1>4, FaultTyped DEF IInv, TypeOK, Rewrites, store
<1>6. \A v \in Workers : Accounted(v, NoOwner)
  BY <1>2, OwnersAssumption, PipelineAssumption DEF Accounted, Stays
<1>7. \A r \in Resumers : ResumerRests(r)
  BY <1>2 DEF ResumerRests
<1> QED
  BY <1>2, <1>4, <1>5, <1>6, <1>7, QueueStep DEF RowBacked

LEMMA HeartbeatFailsStep ==
  ASSUME IInv, NEW w \in Workers, HeartbeatFails(w) PROVE IInv'
<1>1. PICK beat \in {"lost", "store"} :
         worker' = [worker EXCEPT ![w].stop = TRUE, ![w].beat = beat]
  BY DEF HeartbeatFails
<1> DEFINE q == [worker[w] EXCEPT !.stop = TRUE, !.beat = beat]
<1>2. /\ q \in WorkerRows /\ q.pc = worker[w].pc /\ q.job = worker[w].job
      /\ q.claimed = worker[w].claimed /\ q.result = worker[w].result
  BY DEF IInv, TypeOK, WorkerRows
<1>3. worker' = [worker EXCEPT ![w] = q]
  BY <1>1 DEF IInv, TypeOK
<1> HIDE DEF q
<1>4. worker' \in [Workers -> WorkerRows] /\ \A v \in Workers : Stays(v)
  BY <1>2, <1>3 DEF IInv, TypeOK, WorkerRows, Stays
<1>5. TypeOK' /\ UNCHANGED <<queue, store>> /\ \A r \in Resumers : ResumerRests(r)
  BY <1>4, FaultTyped DEF HeartbeatFails, IInv, TypeOK, LifecycleTypeOK, WorkerRows, store,
     ResumerRests
<1> QED
  BY <1>4, <1>5, IdleStep

LEMMA ReturnStep ==
  ASSUME IInv, NEW w \in Workers, Return(w) PROVE IInv'
<1>1. /\ worker[w].pc = "settle" /\ UNCHANGED <<queue, resumer, store, faults>> /\ TypeOK
      /\ WorkerDone(w)
  BY IInvParts DEF Return, At
<1>2. CASE Leaves(w) /\ executor' \in {"running", "stopping"}
  BY <1>1, <1>2, LeaveStep
<1>3. CASE UNCHANGED executor /\ worker' = [worker EXCEPT ![w].pc = "fail"]
  <2>1. Moved(w) /\ Ends(w)
    BY <1>1, <1>3, StepMoves DEF WorkerSteps, Ends, Moved
  <2>2. TypeOK'
    BY <1>1, <1>3, <2>1 DEF TypeOK, LifecycleTypeOK, Moved, WorkerRows, store
  <2>3. (\A v \in Workers : Accounted(v, w) \/ Stays(v)) /\ \A r \in Resumers : ResumerRests(r)
    BY <1>1, <2>1, MovedStays DEF Accounted, ResumerRests
  <2> QED
    BY <1>1, <2>2, <2>3, IdleStep
<1>4. CASE /\ UNCHANGED executor /\ worker[w].result = "ok"
           /\ worker' = [worker EXCEPT ![w].pc = "confirm"]
  <2>1. Moved(w) /\ worker'[w].pc = "confirm"
    BY <1>1, <1>4, StepMoves DEF WorkerSteps
  <2>2. TypeOK'
    BY <1>1, <1>4, <2>1 DEF TypeOK, LifecycleTypeOK, Moved, WorkerRows, store
  <2>3. WorkerDone(w)' /\ HolderStep(w)'
    <3>1. Floor(w) = Activation /\ Floor(w)' = Activation /\ ExpectedStage(w)' = Stages
      BY <1>1, <1>4, <2>1 DEF Floor, ExpectedStage
    <3>2. worker[w].job \in Jobs /\ queue[worker[w].job].stage \in Stages
      BY <1>1, EntryTyped DEF WorkerDone, TypeOK
    <3>3. worker'[w].job = worker[w].job /\ queue' = queue
      BY <1>1, <2>1 DEF Moved
    <3>4. WorkerDone(w)'
      BY <1>1, <2>1, <3>1, <3>2, <3>3 DEF WorkerDone
    <3>5. HolderStep(w)'
      BY <3>1, <3>2, <3>3 DEF HolderStep
    <3> QED
      BY <3>4, <3>5
  <2>4. (\A v \in Workers : Accounted(v, w) \/ Stays(v)) /\ \A r \in Resumers : ResumerRests(r)
    BY <1>1, <2>1, <2>3, MovedStays DEF Accounted, ResumerRests
  <2> QED
    BY <1>1, <2>2, <2>4, IdleStep
<1>5. worker[w].result \in {"partial", "error", "ok"}
  BY <1>1 DEF WorkerDone, TypeOK
<1>6. CASE executor = "stopping" /\ UNCHANGED executor
           /\ worker' = [worker EXCEPT ![w] = [IdleWorker EXCEPT !.pc = "stopped"]]
  BY <1>1, <1>2, <1>6, PollLeaves
<1>7. CASE StopExecutor(w)
  BY <1>1, <1>2, <1>7, StopLeaves
<1>8. CASE Poll(w) /\ executor = "running" /\ UNCHANGED executor
  BY <1>1, <1>2, <1>8, PollLeaves
<1> QED
  BY <1>3, <1>4, <1>5, <1>6, <1>7, <1>8 DEF Return

LEMMA FailJobStep ==
  ASSUME IInv, NEW w \in Workers, FailJob(w) PROVE IInv'
<1>1. PICK id \in Jobs : id = worker[w].job
  BY BusyJob DEF FailJob, At
<1>2. /\ Leaves(w) /\ UNCHANGED <<executor, resumer, store, faults>> /\ w \in Owners
      /\ executor' \in {"running", "stopping"}
  BY PollLeaves, PipelineAssumption DEF FailJob, IInv, TypeOK
<1>3. CASE GiveUp(w, id)
  BY <1>2, <1>3, CallRewrites, LeaveQueueStep
<1>4. CASE UNCHANGED queue
  BY <1>2, <1>4, LeaveStep
<1> QED
  BY <1>1, <1>3, <1>4 DEF FailJob

LEMMA CompleteJobStep ==
  ASSUME IInv, NEW w \in Workers, CompleteJob(w) PROVE IInv'
<1>1. PICK id \in Jobs : id = worker[w].job
  BY BusyJob DEF CompleteJob, At
<1>2. /\ Leaves(w) /\ UNCHANGED <<executor, resumer, store, faults>> /\ w \in Owners
      /\ executor' \in {"running", "stopping"}
  BY PollLeaves, PipelineAssumption DEF CompleteJob, IInv, TypeOK
<1>3. CASE Finish(w, id)
  BY <1>2, <1>3, CallRewrites, LeaveQueueStep
<1>4. CASE UNCHANGED queue
  BY <1>2, <1>4, LeaveStep
<1> QED
  BY <1>1, <1>3, <1>4 DEF CompleteJob

LEMMA ConfirmStep ==
  ASSUME IInv, NEW w \in Workers, Confirm(w) PROVE IInv'
<1>1. /\ worker[w].pc = "confirm" /\ UNCHANGED <<queue, executor, resumer, store, faults>>
      /\ TypeOK /\ WorkerDone(w) /\ executor' \in {"running", "stopping"}
  BY IInvParts DEF Confirm, At, IInv, TypeOK
<1>2. CASE Poll(w)
  BY <1>1, <1>2, PollLeaves, LeaveStep
<1>3. CASE worker' = [worker EXCEPT ![w].pc = "complete"]
  <2>1. Moved(w) /\ worker'[w].pc = "complete"
    BY <1>1, <1>3, StepMoves DEF WorkerSteps
  <2>2. TypeOK'
    BY <1>1, <2>1 DEF TypeOK, LifecycleTypeOK, Moved, WorkerRows, store
  <2>3. WorkerDone(w)' /\ HolderStep(w)'
    <3>1. Floor(w) = Activation /\ Floor(w)' = Activation /\ ExpectedStage(w)' = {Activation}
      BY <1>1, <2>1 DEF Floor, ExpectedStage
    <3>2. worker[w].job \in Jobs /\ queue[worker[w].job].stage = Activation
      BY <1>1, <3>1, EntryTyped DEF WorkerDone, TypeOK, Stages, Validation, Activation
    <3>3. worker'[w].job = worker[w].job /\ queue' = queue
      BY <1>1, <2>1 DEF Moved
    <3>4. WorkerDone(w)'
      BY <1>1, <2>1, <3>1, <3>2, <3>3 DEF WorkerDone, Activation
    <3>5. HolderStep(w)'
      BY <3>1, <3>2, <3>3 DEF HolderStep
    <3> QED
      BY <3>4, <3>5
  <2>4. (\A v \in Workers : Accounted(v, w) \/ Stays(v)) /\ \A r \in Resumers : ResumerRests(r)
    BY <1>1, <2>1, <2>3, MovedStays DEF Accounted, ResumerRests
  <2> QED
    BY <1>1, <2>2, <2>4, IdleStep
<1> QED
  BY <1>2, <1>3 DEF Confirm

LEMMA StoreFailsStep ==
  ASSUME IInv, NEW w \in Workers, StoreFails(w) PROVE IInv'
<1>1. /\ Leaves(w) /\ UNCHANGED <<resumer, store>> /\ Fault /\ w \in Owners
      /\ executor' \in {"running", "stopping"}
  BY StopLeaves, PipelineAssumption DEF StoreFails, IInv
<1>2. CASE UNCHANGED queue
  BY <1>1, <1>2, LeaveStep
<1>3. CASE \E id \in Jobs : Take(w, id) \/ GiveUp(w, id) \/ Finish(w, id)
  BY <1>1, <1>3, CallRewrites, LeaveQueueStep
<1>4. worker[w].pc \in {"fail", "complete"} => \E id \in Jobs : id = worker[w].job
  BY BusyJob
<1> QED
  BY <1>2, <1>3, <1>4 DEF StoreFails, At

LEMMA QuitStep ==
  ASSUME IInv, NEW w \in Workers, Quit(w) PROVE IInv'
  BY PollLeaves, LeaveStep DEF Quit, IInv

----------------------------------------------------------------------------
(* Pipeline.ResumePartial.                                                 *)

LEMMA GoMoves ==
  ASSUME TypeOK, NEW r \in Resumers, NEW step \in ResumerSteps, Go(r, step)
  PROVE  /\ resumer' \in [Resumers -> ResumerRows]
         /\ \A s \in Resumers : s # r => resumer'[s] = resumer[s]
         /\ resumer'[r].pc = step /\ resumer'[r].job = resumer[r].job
<1>1. resumer \in [Resumers -> ResumerRows]
  BY DEF TypeOK, ResumerRows
<1> DEFINE q == [resumer[r] EXCEPT !.pc = step]
<1>2. q \in ResumerRows /\ q.pc = step /\ q.job = resumer[r].job
  BY <1>1 DEF ResumerRows
<1>3. resumer' = [resumer EXCEPT ![r] = q]
  BY <1>1 DEF Go
<1> HIDE DEF q
<1> QED
  BY <1>1, <1>2, <1>3

LEMMA LeaveMoves ==
  ASSUME TypeOK, NEW r \in Resumers, Leave(r)
  PROVE  /\ resumer' \in [Resumers -> ResumerRows]
         /\ \A s \in Resumers : ResumerRests(s)
<1>1. resumer \in [Resumers -> ResumerRows] /\ IdleResumer \in ResumerRows
      /\ IdleResumer.pc = "idle"
  BY RowsTyped DEF TypeOK, ResumerRows, IdleResumer
<1> QED
  BY <1>1 DEF Leave, ResumerRests

\* A resumer that went on to a call with no premise, or left.
LEMMA RestMoves ==
  ASSUME IInv, NEW r \in Resumers, resumer[r].pc # "idle",
         Leave(r) \/ Go(r, "mark") \/ Go(r, "complete") \/ Go(r, "fail")
  PROVE  /\ resumer' \in [Resumers -> ResumerRows]
         /\ \A s \in Resumers : ResumerRests(s)
<1>1. ASSUME NEW step \in {"mark", "complete", "fail"}, Go(r, step)
      PROVE  /\ resumer' \in [Resumers -> ResumerRows]
             /\ \A s \in Resumers : ResumerRests(s)
  <2>1. step \in ResumerSteps
    BY DEF ResumerSteps
  <2> QED
    BY <1>1, <2>1, GoMoves DEF IInv, ResumerRests
<1> QED
  BY <1>1, LeaveMoves DEF IInv

\* A call of the queue made by a resumer.
LEMMA ResumerQueueStep ==
  ASSUME IInv, NEW r \in Resumers, NEW id \in Jobs, NEW state, NEW stage,
         Rewrites(r, id, state, stage), RowBacked(id, state, stage),
         UNCHANGED <<executor, worker, store, faults>>,
         resumer' \in [Resumers -> ResumerRows],
         \A s \in Resumers : ResumerRests(s) \/ ResumerDone(s)'
  PROVE  IInv'
<1>1. TypeOK'
  BY DEF IInv, TypeOK, Rewrites, ResumerRows, store
<1>2. \A v \in Workers : Accounted(v, r)
  BY PipelineAssumption DEF Accounted, Stays
<1> QED
  BY <1>1, <1>2, QueueStep

\* A call of the store made by a resumer.
LEMMA ResumerStoreStep ==
  ASSUME IInv, NEW r \in Resumers, UNCHANGED <<queue, executor, worker, faults>>,
         StoreTyped', StoreGrows, ActiveViewIsProjected', \A k \in Jobs : Backed(k)',
         resumer' \in [Resumers -> ResumerRows],
         \A s \in Resumers : ResumerRests(s) \/ ResumerDone(s)'
  PROVE  IInv'
<1>1. TypeOK'
  BY DEF IInv, TypeOK, LifecycleTypeOK, ResumerRows, StoreTyped
<1>2. \A v \in Workers : Stays(v)
  BY DEF Stays
<1> QED
  BY <1>1, <1>2, CalmStep

LEMMA ResumerFacts ==
  ASSUME IInv, NEW r \in Resumers, resumer[r].pc # "idle"
  PROVE  \E id \in Jobs : /\ id = resumer[r].job /\ id \in activated
                          /\ resumer[r].pc \in {"activate", "advance"} => id \in vectors
                          /\ Backed(id) /\ queue[id].stage \in Stages
                          /\ queue[id].stage >= EmbeddingProjection
<1>1. ResumerDone(r)
  BY IInvParts
<1>2. resumer[r].job \in Jobs /\ resumer[r].job \in activated
  BY <1>1 DEF ResumerDone
<1>3. Backed(resumer[r].job) /\ queue[resumer[r].job].stage \in Stages
  BY <1>2, IInvParts, EntryTyped DEF TypeOK
<1> QED
  BY <1>1, <1>2, <1>3 DEF ResumerDone, Backed

LEMMA StartResumeStep ==
  ASSUME IInv, NEW r \in Resumers, NEW id \in Jobs, StartResume(r, id) PROVE IInv'
<1> DEFINE q == [pc |-> "embed", job |-> id]
<1>1. /\ Resume(r, id) /\ resumer' = [resumer EXCEPT ![r] = q]
      /\ UNCHANGED <<executor, worker, store, faults>>
  BY DEF StartResume
<1>2. LifecycleTypeOK /\ r \in Owners
  BY PipelineAssumption DEF IInv, TypeOK
<1>3. Rewrites(r, id, "running", queue[id].stage)
  BY <1>1, <1>2, ResumeRewrites
<1>4. q \in ResumerRows /\ q.pc = "embed" /\ q.job = id
  BY DEF ResumerRows, ResumerSteps
<1>5. id \in activated /\ activated' = activated
  BY <1>1, IInvParts DEF Resume, Backed, store
<1> HIDE DEF q
<1>6. resumer' \in [Resumers -> ResumerRows] /\ resumer'[r] = q
      /\ \A s \in Resumers : s # r => ResumerRests(s)
  BY <1>1, <1>4 DEF IInv, TypeOK, ResumerRows, ResumerRests
<1>7. ResumerDone(r)'
  BY <1>4, <1>5, <1>6 DEF ResumerDone
<1> QED
  BY <1>1, <1>3, <1>6, <1>7, ResumerQueueStep DEF RowBacked

LEMMA ResumeEmbedStep ==
  ASSUME IInv, NEW r \in Resumers, ResumeEmbed(r) PROVE IInv'
<1>1. PICK id \in Jobs : id = resumer[r].job /\ id \in activated
  BY ResumerFacts DEF ResumeEmbed
<1>2. /\ resumer[r].pc = "embed" /\ vectors \subseteq vectors' /\ vectors' \subseteq vectors \cup {id}
      /\ UNCHANGED <<queue, executor, worker, identity, text, active, activated, faults>>
  BY <1>1 DEF ResumeEmbed
<1>3. StoreTyped' /\ StoreGrows
  BY <1>1, <1>2 DEF IInv, TypeOK, StoreTyped, StoreGrows
<1>4. ActiveViewIsProjected'
  BY <1>2 DEF IInv, ActiveViewIsProjected
<1>5. ASSUME NEW k \in Jobs PROVE Backed(k)'
  BY <1>2, <1>3, IInvParts, BackedKeeps
<1>6. CASE Go(r, "mark")
  <2>1. /\ resumer' \in [Resumers -> ResumerRows]
        /\ \A s \in Resumers : ResumerRests(s)
    BY <1>2, <1>6, RestMoves
  <2> QED
    BY <1>2, <1>3, <1>4, <1>5, <2>1, ResumerStoreStep
<1>7. CASE Go(r, "activate") /\ id \in vectors'
  <2>1. "activate" \in ResumerSteps
    BY DEF ResumerSteps
  <2>2. /\ resumer' \in [Resumers -> ResumerRows]
        /\ \A s \in Resumers : s # r => resumer'[s] = resumer[s]
        /\ resumer'[r].pc = "activate" /\ resumer'[r].job = id
    BY <1>1, <1>7, <2>1, GoMoves DEF IInv
  <2>3. ResumerDone(r)'
    BY <1>1, <1>2, <1>7, <2>2 DEF ResumerDone
  <2>4. \A s \in Resumers : ResumerRests(s) \/ ResumerDone(s)'
    BY <2>2, <2>3 DEF ResumerRests
  <2> QED
    BY <1>2, <1>3, <1>4, <1>5, <2>2, <2>4, ResumerStoreStep
<1> QED
  BY <1>1, <1>6, <1>7 DEF ResumeEmbed

LEMMA ResumeMarkStep ==
  ASSUME IInv, NEW r \in Resumers, ResumeMark(r) PROVE IInv'
<1>1. PICK id \in Jobs : /\ id = resumer[r].job /\ id \in activated /\ Backed(id)
                         /\ queue[id].stage \in Stages
                         /\ queue[id].stage >= EmbeddingProjection
  BY ResumerFacts DEF ResumeMark
<1>2. /\ Suspend(r, id, EmbeddingProjection) /\ Leave(r)
      /\ UNCHANGED <<executor, worker, store, faults>>
  BY <1>1 DEF ResumeMark
<1>3. LifecycleTypeOK /\ r \in Owners /\ EmbeddingProjection \in Stages
  BY PipelineAssumption DEF IInv, TypeOK, Stages, Validation, EmbeddingProjection, Activation
<1>4. Rewrites(r, id, "partial", EmbeddingProjection)
  BY <1>2, <1>3, SuspendRewrites
<1>5. Backed(id)'
  <2>1. identity[id] # "absent" /\ id \in text
    BY <1>1 DEF Backed, Stages, Validation, CanonicalPersistence, TextualProjection,
       EmbeddingProjection, Activation
  <2> QED
    BY <1>1, <1>2, <1>4, <2>1 DEF Rewrites, Backed, store, EmbeddingProjection, Activation
<1>6. /\ resumer' \in [Resumers -> ResumerRows]
      /\ \A s \in Resumers : ResumerRests(s)
  BY <1>2, LeaveMoves DEF IInv
<1> QED
  BY <1>2, <1>4, <1>5, <1>6, ResumerQueueStep DEF RowBacked

LEMMA ResumeActivateStep ==
  ASSUME IInv, NEW r \in Resumers, ResumeActivate(r) PROVE IInv'
<1>1. PICK id \in Jobs : /\ id = resumer[r].job /\ id \in vectors
                         /\ queue[id].stage >= EmbeddingProjection
  BY ResumerFacts DEF ResumeActivate
<1>2. /\ resumer[r].pc = "activate" /\ Activate(id)
      /\ UNCHANGED <<queue, executor, worker, faults>>
  BY <1>1 DEF ResumeActivate
<1>3. /\ StoreTyped' /\ StoreGrows /\ ActiveViewIsProjected' /\ \A k \in Jobs : Backed(k)'
      /\ id \in activated'
  BY <1>1, <1>2, ActivateStore
<1>4. CASE Go(r, "fail")
  <2>1. /\ resumer' \in [Resumers -> ResumerRows]
        /\ \A s \in Resumers : ResumerRests(s)
    BY <1>2, <1>4, RestMoves
  <2> QED
    BY <1>2, <1>3, <2>1, ResumerStoreStep
<1>5. CASE Go(r, "advance")
  <2>1. "advance" \in ResumerSteps
    BY DEF ResumerSteps
  <2>2. /\ resumer' \in [Resumers -> ResumerRows]
        /\ \A s \in Resumers : s # r => resumer'[s] = resumer[s]
        /\ resumer'[r].pc = "advance" /\ resumer'[r].job = id
    BY <1>1, <1>5, <2>1, GoMoves DEF IInv
  <2>3. ResumerDone(r)'
    BY <1>1, <1>3, <2>2 DEF ResumerDone, StoreGrows
  <2>4. \A s \in Resumers : ResumerRests(s) \/ ResumerDone(s)'
    BY <2>2, <2>3 DEF ResumerRests
  <2> QED
    BY <1>2, <1>3, <2>2, <2>4, ResumerStoreStep
<1> QED
  BY <1>4, <1>5 DEF ResumeActivate

LEMMA ResumeAdvanceStep ==
  ASSUME IInv, NEW r \in Resumers, ResumeAdvance(r) PROVE IInv'
<1>1. PICK id \in Jobs : /\ id = resumer[r].job /\ id \in activated /\ id \in vectors
                         /\ Backed(id) /\ queue[id].stage \in Stages
                         /\ queue[id].stage >= EmbeddingProjection
  BY ResumerFacts DEF ResumeAdvance
<1>2. /\ Advance(r, id, Activation) /\ UNCHANGED <<executor, worker, store, faults>>
      /\ resumer[r].pc = "advance"
  BY <1>1 DEF ResumeAdvance
<1>3. LifecycleTypeOK /\ r \in Owners /\ Activation \in Stages /\ queue[id].state = "running"
  BY <1>2, PipelineAssumption DEF IInv, TypeOK, Stages, Validation, Activation, Advance, Held
<1>4. Rewrites(r, id, queue[id].state, Activation)
  BY <1>2, <1>3, AdvanceRewrites
<1>5. Backed(id)'
  <2>1. identity[id] # "absent" /\ id \in text
    BY <1>1 DEF Backed, Stages, Validation, CanonicalPersistence, TextualProjection,
       EmbeddingProjection, Activation
  <2> QED
    BY <1>1, <1>2, <1>3, <1>4, <2>1 DEF Rewrites, Backed, store, EmbeddingProjection, Activation
<1>6. /\ resumer' \in [Resumers -> ResumerRows]
      /\ \A s \in Resumers : ResumerRests(s)
  BY <1>2, RestMoves DEF ResumeAdvance
<1> QED
  BY <1>2, <1>4, <1>5, <1>6, ResumerQueueStep DEF RowBacked

LEMMA ResumeEndStep ==
  ASSUME IInv, NEW r \in Resumers, ResumeComplete(r) \/ ResumeFail(r) PROVE IInv'
<1>1. PICK id \in Jobs : id = resumer[r].job
  BY ResumerFacts DEF ResumeComplete, ResumeFail
<1>2. /\ Finish(r, id) \/ GiveUp(r, id)
      /\ UNCHANGED <<executor, worker, store, faults>> /\ r \in Owners
  BY <1>1, PipelineAssumption DEF ResumeComplete, ResumeFail
<1>3. PICK state \in States, stage \in Stages :
         Rewrites(r, id, state, stage) /\ RowBacked(id, state, stage)
  BY <1>2, CallRewrites
<1>4. /\ resumer' \in [Resumers -> ResumerRows]
      /\ \A s \in Resumers : ResumerRests(s)
  BY RestMoves DEF ResumeComplete, ResumeFail
<1> QED
  BY <1>2, <1>3, <1>4, ResumerQueueStep

LEMMA ResumeIdleStep ==
  ASSUME IInv, NEW r \in Resumers, ResumeCallFails(r) \/ Abandon(r) PROVE IInv'
<1>1. UNCHANGED <<queue, executor, worker, store, faults>>
  BY DEF ResumeCallFails, Abandon
<1>2. StoreTyped' /\ StoreGrows /\ ActiveViewIsProjected' /\ \A k \in Jobs : Backed(k)'
  BY <1>1, StoreKept, StoreKeptBacked
<1>3. /\ resumer' \in [Resumers -> ResumerRows]
      /\ \A s \in Resumers : ResumerRests(s)
  BY RestMoves, LeaveMoves DEF ResumeCallFails, Abandon, IInv
<1>4. UNCHANGED <<queue, executor, worker, faults>>
  BY <1>1
<1> QED
  BY <1>2, <1>3, <1>4, ResumerStoreStep

----------------------------------------------------------------------------
(* The callers of the queue, the clock and the process.                    *)

LEMMA CallerStep ==
  ASSUME IInv, NEW id \in Jobs, Accept(id) \/ Cancel(id) \/ Expire(id) PROVE IInv'
<1>1. /\ Submit(id) \/ CancelJob(id) \/ Lapse({id})
      /\ UNCHANGED <<executor, worker, resumer, store>>
  BY DEF Accept, Cancel, Expire
<1>2. LifecycleTypeOK
  BY DEF IInv, TypeOK
<1>3. PICK state : /\ Rewrites(NoOwner, id, state, queue[id].stage)
                   /\ state = queue[id].state \/ state \notin {"completed", "partial"}
  BY <1>1, <1>2, SubmitRewrites, CancelRewrites, LapseRewrites
<1>4. TypeOK'
  BY <1>1, <1>3, CallerFaultsTyped DEF IInv, TypeOK, Rewrites, store
<1>5. \A v \in Workers : Accounted(v, NoOwner)
  BY <1>1, OwnersAssumption, PipelineAssumption DEF Accounted, Stays
<1>6. \A r \in Resumers : ResumerRests(r)
  BY <1>1 DEF ResumerRests
<1> QED
  BY <1>1, <1>3, <1>4, <1>5, <1>6, QueueStep DEF RowBacked

LEMMA RestartStep ==
  ASSUME IInv, Crash \/ Restart PROVE IInv'
<1>1. /\ executor' = "running" /\ worker' = [w \in Workers |-> IdleWorker]
      /\ UNCHANGED <<queue, resumer, store>>
      /\ Fault \/ UNCHANGED faults
  BY DEF Crash, Restart
<1>2. worker' \in [Workers -> WorkerRows]
  BY <1>1, RowsTyped
<1>3. TypeOK'
  BY <1>1, <1>2, FaultTyped DEF IInv, TypeOK, LifecycleTypeOK, WorkerRows, store
<1>4. \A v \in Workers : Accounted(v, NoOwner)
  BY <1>1 DEF Accounted, Rests, IdleWorker
<1>5. \A r \in Resumers : ResumerRests(r)
  BY <1>1 DEF ResumerRests
<1>6. UNCHANGED <<queue, store>>
  BY <1>1
<1> QED
  BY <1>3, <1>4, <1>5, <1>6, IdleStep

----------------------------------------------------------------------------
LEMMA InitIInv == Init => IInv
<1> SUFFICES ASSUME Init PROVE IInv
  OBVIOUS
<1>1. NoEntry \in Entries
  BY DEF NoEntry, Entries, States, Stages, Validation, Activation
<1>2. TypeOK
  <2>1. LifecycleTypeOK
    BY <1>1 DEF Init, LifecycleInit, LifecycleTypeOK
  <2>2. worker \in [Workers -> WorkerRows] /\ resumer \in [Resumers -> ResumerRows]
    BY RowsTyped DEF Init
  <2>3. faults \in 0..MaxFaults
    BY PipelineAssumption DEF Init
  <2> QED
    BY <2>1, <2>2, <2>3 DEF Init, TypeOK, WorkerRows, ResumerRows
<1>3. \A id \in Jobs : Backed(id)
  <2>1. \A id \in Jobs : queue[id].stage = 0 /\ queue[id].state = "absent"
    BY DEF Init, LifecycleInit, NoEntry, Validation
  <2>2. activated = {}
    BY DEF Init
  <2>3. ASSUME NEW id \in Jobs
        PROVE  /\ ~(queue[id].stage >= CanonicalPersistence)
               /\ ~(queue[id].stage >= TextualProjection)
               /\ queue[id].stage # Activation
    BY <2>1 DEF CanonicalPersistence, TextualProjection, Activation
  <2> QED
    BY <2>1, <2>2, <2>3 DEF Backed
<1>4. ActiveViewIsProjected
  <2>1. \A src \in Sources : active[src] = NoJob
    BY DEF Init
  <2>2. \A id \in Jobs : identity[id] = "absent" /\ id # NoJob
    BY PipelineAssumption DEF Init
  <2> QED
    BY <2>1, <2>2 DEF ActiveViewIsProjected
<1>5. \A w \in Workers : WorkerDone(w) /\ HolderStep(w)
  BY DEF Init, WorkerDone, HolderStep, IdleWorker
<1>6. \A r \in Resumers : ResumerDone(r)
  BY DEF Init, ResumerDone, IdleResumer
<1> QED
  BY <1>2, <1>3, <1>4, <1>5, <1>6, IInvParts

LEMMA StepIInv == IInv /\ [Next]_vars => IInv'
<1> SUFFICES ASSUME IInv, [Next]_vars PROVE IInv'
  OBVIOUS
<1>1. CASE UNCHANGED vars
  <2>1. UNCHANGED <<queue, executor, worker, resumer, store, faults>>
    BY <1>1 DEF vars
  <2>2. TypeOK' /\ \A v \in Workers : Stays(v)
    BY <2>1 DEF IInv, TypeOK, LifecycleTypeOK, Stays, store
  <2>3. \A r \in Resumers : ResumerRests(r)
    BY <2>1 DEF ResumerRests
  <2> QED
    BY <2>1, <2>2, <2>3, IdleStep
<1>2. ASSUME NEW id \in Jobs, Accept(id) \/ Cancel(id) \/ Expire(id) PROVE IInv'
  BY <1>2, CallerStep
<1>3. ASSUME NEW w \in Workers, Work(w) \/ Heartbeat(w) \/ HeartbeatFails(w) \/ StoreFails(w)
      PROVE  IInv'
  BY <1>3, HandleStep, ReturnStep, FailJobStep, ConfirmStep, CompleteJobStep, QuitStep,
     HeartbeatStep, HeartbeatFailsStep, StoreFailsStep DEF Work
<1>4. ASSUME NEW w \in Workers, NEW id \in Jobs, Claim(w, id) PROVE IInv'
  BY <1>4, ClaimStep
<1>5. ASSUME NEW r \in Resumers,
             ResumeStep(r) \/ Abandon(r) \/ \E id \in Jobs : StartResume(r, id)
      PROVE  IInv'
  BY <1>5, ResumeEmbedStep, ResumeMarkStep, ResumeActivateStep, ResumeAdvanceStep,
     ResumeEndStep, ResumeIdleStep, StartResumeStep DEF ResumeStep
<1>6. CASE Crash \/ Restart
  BY <1>6, RestartStep
<1> QED
  BY <1>1, <1>2, <1>3, <1>4, <1>5, <1>6 DEF Next

LEMMA Invariance == Spec => []IInv
<1>1. Init => IInv
  BY InitIInv
<1>2. IInv /\ [Next]_vars => IInv'
  BY StepIInv
<1> QED
  BY <1>1, <1>2, PTL DEF Spec

\* The rows, the goroutines and the resumers keep their types through crashes,
\* lost leases and store failures; faults stays under its bound.
THEOREM PipelineTyped == Spec => []TypeOK
<1>1. IInv => TypeOK
  BY DEF IInv
<1> QED
  BY <1>1, Invariance, PTL

\* Handle, pipeline.go: "Every durable transition is made only after its
\* operation succeeds".  Whatever was interrupted, retried or done twice by two
\* workers, the stage of a job row is evidence of committed work.
THEOREM StagesBacked == Spec => []StagesAreBacked
<1>1. IInv => StagesAreBacked
  BY DEF IInv
<1> QED
  BY <1>1, Invariance, PTL

\* ActivateSnapshot asks for no lease, and yet a worker that lost its job never
\* points a source at a snapshot whose rows or text are missing, and the active
\* identities of a source are those of the snapshot it points at.
THEOREM ActiveViewProjected == Spec => []ActiveViewIsProjected
<1>1. IInv => ActiveViewIsProjected
  BY DEF IInv
<1> QED
  BY <1>1, Invariance, PTL

\* Complete and MarkPartial, called by process and by ResumePartial, end a job
\* only after its snapshot was activated.
THEOREM EndedJobsPublished == Spec => []EndedJobsArePublished
<1>1. IInv => EndedJobsArePublished
  BY DEF IInv
<1> QED
  BY <1>1, Invariance, PTL

\* Handle resumes at the stage of the row it claimed, and while its lease stands
\* no other caller moves the job, so no Advance of a holder is out of order.
THEOREM HoldersInStep == Spec => []HoldersKeepStep
<1>1. IInv => HoldersKeepStep
  BY DEF IInv
<1> QED
  BY <1>1, Invariance, PTL
=============================================================================
