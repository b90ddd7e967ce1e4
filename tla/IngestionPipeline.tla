-------------------------- MODULE IngestionPipeline --------------------------
(***************************************************************************)
(* The executor and the pipeline it runs (internal/ingestion/executor.go   *)
(* and pipeline.go) over the job queue of JobLifecycle and the canonical   *)
(* store: workers claim jobs, each with a heartbeat beside it, and take a  *)
(* bundle through persistence, projections, embeddings and activation.     *)
(*                                                                         *)
(* One step of a handler is one call on a port.  The context is tested     *)
(* where the call returns; a context cancelled after that test may still   *)
(* let the next call take effect, and any call may fail, or take effect    *)
(* and report a failure (a commit whose acknowledgement was lost).         *)
(* A bundle's counters never change, so counts never refuse a call here.   *)
(*                                                                         *)
(* A job and the snapshot it carries are one identity.                     *)
(***************************************************************************)
EXTENDS JobLifecycle

CONSTANTS
    Workers,        \* executor workers; each is a lease owner
    Resumers,       \* callers of Pipeline.ResumePartial
    Sources,        \* sources whose active snapshot a job may change
    SourceOf,       \* the source of each job
    EmbeddingMode,  \* EmbeddingOptions.Mode
    MaxFaults,      \* bound: stalls, crashes and store outages
    Rivals          \* bound: jobs that are accepted beside another one only, and
                    \* with no fault and no resume from then on

NoJob == "none"

ASSUME PipelineAssumption ==
    /\ Owners = Workers \cup Resumers
    /\ Workers \cap Resumers = {}
    /\ SourceOf \in [Jobs -> Sources]
    /\ NoJob \notin Jobs
    /\ EmbeddingMode \in {"not-applicable", "enabled", "forbidden"}
    /\ MaxFaults \in Nat
    /\ Rivals \subseteq Jobs

VARIABLES
    executor,   \* Executor.Run: "running", or "stopping" after a store failure
    worker,     \* what each worker goroutine is doing
    resumer,    \* what each ResumePartial call is doing
    identity,   \* factual_identities.state of the snapshot, "absent" before Persist
    text,       \* snapshots whose textual projection has been built
    vectors,    \* snapshots whose embedding projection is complete
    active,     \* sources.active_snapshot_id
    activated,  \* every snapshot ActivateSnapshot ever committed (history)
    faults      \* faults so far

store == <<identity, text, vectors, active, activated>>
vars  == <<queue, executor, worker, resumer, store, faults>>

----------------------------------------------------------------------------
(* The handler's program.  Only Persist is followed by a jump: what comes  *)
(* after it depends on the stage at which the job was claimed.             *)

\* Mutant of ResumePoint: a job claimed after persistence skips the text.
ResumePointOffByOne ==
    [s \in Stages |->
        CASE s = Validation           -> "toCanonical"
          [] s = CanonicalPersistence -> "toTextual"
          [] s = TextualProjection    -> "toRelational"
          [] s = RelationalProjection -> "toEmbedding"
          [] s = EmbeddingProjection  -> "embed"
          [] s = Activation           -> "return"]

ResumePoint ==
    [s \in Stages |->
        CASE s = Validation           -> "toCanonical"
          [] s = CanonicalPersistence -> "text"
          [] s = TextualProjection    -> "toRelational"
          [] s = RelationalProjection -> "toEmbedding"
          [] s = EmbeddingProjection  -> "embed"
          [] s = Activation           -> "return"]

HandlerSteps ==
    {"load", "persist", "toCanonical", "text", "toTextual", "toRelational",
     "toEmbedding", "embed", "activate", "toActivation", "activatePartial", "markPartial"}

WorkerSteps   == HandlerSteps \cup {"idle", "settle", "fail", "confirm", "complete", "stopped"}
ResumerSteps  == {"idle", "embed", "mark", "activate", "advance", "complete", "fail"}

IdleWorker ==
    [pc |-> "idle", job |-> NoJob, claimed |-> Validation,
     stop |-> FALSE, beat |-> "none", result |-> "none"]
IdleResumer == [pc |-> "idle", job |-> NoJob]

TypeOK ==
    /\ LifecycleTypeOK
    /\ executor \in {"running", "stopping"}
    /\ worker \in [Workers ->
          [pc : WorkerSteps, job : Jobs \cup {NoJob}, claimed : Stages, stop : BOOLEAN,
           beat : {"none", "lost", "store"}, result : {"none", "ok", "partial", "error"}]]
    /\ resumer \in [Resumers -> [pc : ResumerSteps, job : Jobs \cup {NoJob}]]
    /\ identity \in [Jobs -> {"absent", "historical", "active"}]
    /\ text \in SUBSET Jobs
    /\ vectors \in SUBSET Jobs
    /\ active \in [Sources -> Jobs \cup {NoJob}]
    /\ activated \in SUBSET Jobs
    /\ faults \in 0..MaxFaults

Init ==
    /\ LifecycleInit
    /\ executor = "running"
    /\ worker = [w \in Workers |-> IdleWorker]
    /\ resumer = [r \in Resumers |-> IdleResumer]
    /\ identity = [id \in Jobs |-> "absent"]
    /\ text = {}
    /\ vectors = {}
    /\ active = [s \in Sources |-> NoJob]
    /\ activated = {}
    /\ faults = 0

----------------------------------------------------------------------------
(* How a call of the handler returns.                                      *)

Settle(w, result) ==
    worker' = [worker EXCEPT ![w].pc = "settle", ![w].result = result, ![w].claimed = Validation]

Failed(w) == Settle(w, "error")

\* The call succeeded and the context is tested before the next one.  The
\* stage of the claimed row is read once more, after Persist.
Proceed(w, step) ==
    IF worker[w].stop THEN Failed(w)
    ELSE IF step = "return" THEN Settle(w, "ok")
    ELSE worker' = [worker EXCEPT ![w].pc = step,
                                  ![w].claimed = IF step = "persist" THEN @ ELSE Validation]

Returned(w, step) == Proceed(w, step) \/ Failed(w)

\* A worker that is done with its job waits for the next poll.
Poll(w) == worker' = [worker EXCEPT ![w] = IdleWorker]

Fault == faults < MaxFaults /\ faults' = faults + 1

\* A lease that has run out by the time it is granted was granted in a stall.
FaultIfLate(id) == IF queue'[id].lapsed THEN Fault ELSE UNCHANGED faults

\* An error that is not job-level ends the worker and cancels its peers.
StopExecutor(w) ==
    /\ executor' = "stopping"
    /\ worker' = [v \in Workers |->
                     IF v = w THEN [IdleWorker EXCEPT !.pc = "stopped"]
                              ELSE [worker[v] EXCEPT !.stop = TRUE]]

----------------------------------------------------------------------------
(* Activation: one transaction archives the identities of the source's     *)
(* active snapshot, activates those of the new one and moves the pointer.  *)
(* It asks for no lease and knows nothing of jobs.                         *)

\* Mutant of Activate: the identities of the previous snapshot stay active.
ActivateBeside(id) ==
    /\ identity[id] # "absent"
    /\ identity' = [identity EXCEPT ![id] = "active"]
    /\ active' = [active EXCEPT ![SourceOf[id]] = id]
    /\ activated' = activated \cup {id}
    /\ UNCHANGED <<text, vectors>>

Activate(id) ==
    LET src == SourceOf[id] IN
    /\ identity[id] # "absent"
    /\ identity' = [k \in Jobs |->
                       IF k = id THEN "active"
                       ELSE IF SourceOf[k] = src /\ identity[k] = "active" THEN "historical"
                       ELSE identity[k]]
    /\ active' = [active EXCEPT ![src] = id]
    /\ activated' = activated \cup {id}
    /\ UNCHANGED <<text, vectors>>

----------------------------------------------------------------------------
(* Pipeline.Handle, one call at a time.                                    *)

At(w, step) == worker[w].pc = step

\* The call failed and changed nothing.
CallFails(w) ==
    /\ worker[w].pc \in HandlerSteps \ {"embed"}
    /\ Failed(w)
    /\ UNCHANGED <<queue, executor, resumer, store, faults>>

Load(w) ==
    /\ At(w, "load")
    /\ Proceed(w, "persist")
    /\ UNCHANGED <<queue, executor, resumer, store, faults>>

\* Inserts are ON CONFLICT DO NOTHING: a second Persist leaves the state of
\* an identity alone.
Persist(w) ==
    /\ At(w, "persist")
    /\ identity' = [identity EXCEPT ![worker[w].job] = IF @ = "absent" THEN "historical" ELSE @]
    /\ Returned(w, ResumePoint[worker[w].claimed])
    /\ UNCHANGED <<queue, executor, resumer, text, vectors, active, activated, faults>>

RebuildText(w) ==
    /\ At(w, "text")
    /\ text' = text \cup {worker[w].job}
    /\ Returned(w, "toTextual")
    /\ UNCHANGED <<queue, executor, resumer, identity, vectors, active, activated, faults>>

\* A durable transition of the job, and the step it leads to.
AdvanceTo(w, step, stage, next) ==
    /\ At(w, step)
    /\ Advance(w, worker[w].job, stage)
    /\ Returned(w, next)
    /\ UNCHANGED <<executor, resumer, store, faults>>

Transitions(w) ==
    \/ AdvanceTo(w, "toCanonical",  CanonicalPersistence, "text")
    \/ AdvanceTo(w, "toTextual",    TextualProjection,    "toRelational")
    \/ AdvanceTo(w, "toRelational", RelationalProjection, "toEmbedding")
    \/ AdvanceTo(w, "toEmbedding",  EmbeddingProjection,  "embed")
    \/ AdvanceTo(w, "toActivation", Activation,           "return")

Embed(w) ==
    /\ At(w, "embed")
    /\ EmbeddingMode # "forbidden"
    /\ vectors' = IF EmbeddingMode = "enabled" THEN vectors \cup {worker[w].job} ELSE vectors
    /\ Proceed(w, "activate")
    /\ UNCHANGED <<queue, executor, resumer, identity, text, active, activated, faults>>

\* Mutant of EmbedFails: the limitation is recorded before the activation.
EmbedFailsUnpublished(w) ==
    /\ At(w, "embed")
    /\ EmbeddingMode # "not-applicable"
    /\ Proceed(w, "markPartial")
    /\ UNCHANGED <<queue, executor, resumer, store, faults>>

\* A vector limitation does not fail the job unless the context has ended.
EmbedFails(w) ==
    /\ At(w, "embed")
    /\ EmbeddingMode # "not-applicable"
    /\ Proceed(w, "activatePartial")
    /\ UNCHANGED <<queue, executor, resumer, store, faults>>

ActivateSnapshot(w) ==
    /\ \/ At(w, "activate") /\ Returned(w, "toActivation")
       \/ At(w, "activatePartial") /\ Returned(w, "markPartial")
    /\ Activate(worker[w].job)
    /\ UNCHANGED <<queue, executor, resumer, faults>>

MarkPartial(w) ==
    /\ At(w, "markPartial")
    /\ Suspend(w, worker[w].job, EmbeddingProjection)
    /\ Settle(w, "partial") \/ Failed(w)
    /\ UNCHANGED <<executor, resumer, store, faults>>

Handle(w) ==
    \/ CallFails(w) \/ Load(w) \/ Persist(w) \/ RebuildText(w) \/ Transitions(w)
    \/ Embed(w) \/ EmbedFails(w) \/ ActivateSnapshot(w) \/ MarkPartial(w)

----------------------------------------------------------------------------
(* Executor: claim, heartbeat, and what process does when Handle returns.  *)

\* Mutant of Claim: the handler ignores the stage of the claimed row.
ClaimFromStart(w, id) ==
    /\ executor = "running"
    /\ At(w, "idle")
    /\ Take(w, id)
    /\ worker' = [worker EXCEPT ![w] = [IdleWorker EXCEPT !.pc = "load", !.job = id]]
    /\ FaultIfLate(id)
    /\ UNCHANGED <<executor, resumer, store>>

Claim(w, id) ==
    /\ executor = "running"
    /\ At(w, "idle")
    /\ Take(w, id)
    /\ worker' = [worker EXCEPT ![w] =
          [IdleWorker EXCEPT !.pc = "load", !.job = id, !.claimed = queue[id].stage]]
    /\ FaultIfLate(id)
    /\ UNCHANGED <<executor, resumer, store>>

Beating(w) == worker[w].pc \in HandlerSteps /\ worker[w].beat = "none" /\ ~worker[w].stop

Heartbeat(w) ==
    /\ Beating(w)
    /\ Renew(w, worker[w].job)
    /\ FaultIfLate(worker[w].job)
    /\ UNCHANGED <<executor, worker, resumer, store>>

\* The refusal cancels the handler's context and is kept for process.
HeartbeatFails(w) ==
    /\ Beating(w)
    /\ \/ /\ ~Held(w, worker[w].job) \/ queue[worker[w].job].lapsed
          /\ worker' = [worker EXCEPT ![w].stop = TRUE, ![w].beat = "lost"]
          /\ UNCHANGED faults
       \/ /\ Fault
          /\ worker' = [worker EXCEPT ![w].stop = TRUE, ![w].beat = "store"]
    /\ UNCHANGED <<queue, executor, resumer, store>>

\* The executor's own context first, the heartbeat's error next, the
\* handler's result last.
Return(w) ==
    /\ At(w, "settle")
    /\ \/ /\ executor = "stopping"
          /\ worker' = [worker EXCEPT ![w] = [IdleWorker EXCEPT !.pc = "stopped"]]
          /\ UNCHANGED executor
       \/ executor = "running" /\ worker[w].beat = "store" /\ StopExecutor(w)
       \/ /\ executor = "running" /\ worker[w].beat = "lost"
          /\ Poll(w)
          /\ UNCHANGED executor
       \/ /\ executor = "running" /\ worker[w].beat = "none"
          /\ CASE worker[w].result = "partial" -> Poll(w)
               [] worker[w].result = "error" -> worker' = [worker EXCEPT ![w].pc = "fail"]
               [] worker[w].result = "ok" -> worker' = [worker EXCEPT ![w].pc = "confirm"]
          /\ UNCHANGED executor
    /\ UNCHANGED <<queue, resumer, store, faults>>

\* Fail runs on a context of its own.  A refusal is a job-level error.
FailJob(w) ==
    /\ At(w, "fail")
    /\ \/ GiveUp(w, worker[w].job)
       \/ (~Held(w, worker[w].job) \/ queue[worker[w].job].lapsed) /\ UNCHANGED queue
    /\ Poll(w)
    /\ UNCHANGED <<executor, resumer, store, faults>>

\* Get: only a job that is still running is completed.
Confirm(w) ==
    /\ At(w, "confirm")
    /\ IF queue[worker[w].job].state = "running"
       THEN worker' = [worker EXCEPT ![w].pc = "complete"]
       ELSE Poll(w)
    /\ UNCHANGED <<queue, executor, resumer, store, faults>>

CompleteJob(w) ==
    /\ At(w, "complete")
    /\ \/ Finish(w, worker[w].job)
       \/ (~Held(w, worker[w].job) \/ queue[worker[w].job].lapsed) /\ UNCHANGED queue
    /\ Poll(w)
    /\ UNCHANGED <<executor, resumer, store, faults>>

\* Claim, Fail, Get or Complete meets an error of the store, after taking
\* effect or not: the worker ends and with it the executor.
StoreFails(w) ==
    /\ worker[w].pc \in {"idle", "fail", "confirm", "complete"}
    /\ executor = "running"
    /\ Fault
    /\ \/ UNCHANGED queue
       \/ At(w, "idle") /\ \E id \in Jobs : Take(w, id)
       \/ At(w, "fail") /\ GiveUp(w, worker[w].job)
       \/ At(w, "complete") /\ Finish(w, worker[w].job)
    /\ StopExecutor(w)
    /\ UNCHANGED <<resumer, store>>

\* The cancelled context ends a worker between jobs, or before Get or Complete.
Quit(w) ==
    /\ executor = "stopping"
    /\ worker[w].pc \in {"idle", "confirm", "complete"}
    /\ worker' = [worker EXCEPT ![w] = [IdleWorker EXCEPT !.pc = "stopped"]]
    /\ UNCHANGED <<queue, executor, resumer, store, faults>>

----------------------------------------------------------------------------
(* Pipeline.ResumePartial, called by an owner of its own, no heartbeat.    *)

Go(r, step) == resumer' = [resumer EXCEPT ![r].pc = step]
Leave(r)    == resumer' = [resumer EXCEPT ![r] = IdleResumer]

StartResume(r, id) ==
    /\ EmbeddingMode = "enabled" /\ \A k \in Rivals : queue[k].state = "absent"
    /\ resumer[r] = IdleResumer
    /\ Resume(r, id)
    /\ resumer' = [resumer EXCEPT ![r] = [pc |-> "embed", job |-> id]]
    /\ UNCHANGED <<executor, worker, store, faults>>

ResumeEmbed(r) ==
    /\ resumer[r].pc = "embed"
    /\ \/ Go(r, "activate") /\ vectors' = vectors \cup {resumer[r].job}
       \/ Go(r, "mark") /\ UNCHANGED vectors
    /\ UNCHANGED <<queue, executor, worker, identity, text, active, activated, faults>>

ResumeMark(r) ==
    /\ resumer[r].pc = "mark"
    /\ Suspend(r, resumer[r].job, EmbeddingProjection)
    /\ Leave(r)
    /\ UNCHANGED <<executor, worker, store, faults>>

ResumeActivate(r) ==
    /\ resumer[r].pc = "activate"
    /\ Activate(resumer[r].job)
    /\ Go(r, "advance") \/ Go(r, "fail")
    /\ UNCHANGED <<queue, executor, worker, faults>>

ResumeAdvance(r) ==
    /\ resumer[r].pc = "advance"
    /\ Advance(r, resumer[r].job, Activation)
    /\ Go(r, "complete") \/ Go(r, "fail")
    /\ UNCHANGED <<executor, worker, store, faults>>

ResumeComplete(r) ==
    /\ resumer[r].pc = "complete"
    /\ Finish(r, resumer[r].job)
    /\ Leave(r) \/ Go(r, "fail")
    /\ UNCHANGED <<executor, worker, store, faults>>

ResumeFail(r) ==
    /\ resumer[r].pc = "fail"
    /\ GiveUp(r, resumer[r].job)
    /\ Leave(r)
    /\ UNCHANGED <<executor, worker, store, faults>>

\* A call of the resume failed and changed nothing: failResumedJob is next.
ResumeCallFails(r) ==
    /\ resumer[r].pc \in {"activate", "advance", "complete"}
    /\ Go(r, "fail")
    /\ UNCHANGED <<queue, executor, worker, store, faults>>

\* The caller's context ends, its process dies, or its last call is refused:
\* the job stays running until its lease lapses.
Abandon(r) ==
    /\ resumer[r] # IdleResumer
    /\ Leave(r)
    /\ UNCHANGED <<queue, executor, worker, store, faults>>

ResumeStep(r) ==
    \/ ResumeEmbed(r) \/ ResumeMark(r) \/ ResumeActivate(r) \/ ResumeAdvance(r)
    \/ ResumeComplete(r) \/ ResumeFail(r) \/ ResumeCallFails(r)

----------------------------------------------------------------------------
(* The callers of the queue, the clock and the process.                    *)

\* A rival comes into a history without faults, while nobody resumes, and uses
\* up the faults that are left.
Accept(id) ==
    /\ Submit(id)
    /\ id \in Rivals =>
          /\ faults = 0 /\ \A r \in Resumers : resumer[r] = IdleResumer
          /\ \E k \in Jobs \ Rivals : queue[k].state # "absent"
    /\ faults' = IF id \in Rivals THEN MaxFaults ELSE faults
    /\ UNCHANGED <<executor, worker, resumer, store>>

Cancel(id) == CancelJob(id) /\ UNCHANGED <<executor, worker, resumer, store, faults>>

\* The heartbeat keeps the lease of a job somebody works on; only a stall
\* longer than the lease lets it lapse.
Attended(id) ==
    \E w \in Workers : worker[w].job = id /\ Held(w, id) /\ worker[w].pc # "stopped"

Expire(id) ==
    /\ queue[id].state = "running" /\ ~queue[id].lapsed
    /\ Lapse({id})
    /\ IF Attended(id) THEN Fault ELSE UNCHANGED faults
    /\ UNCHANGED <<executor, worker, resumer, store>>

\* The serve process dies and is started again; so is one whose executor
\* stopped.  Everything a worker knew is gone.
Crash ==
    /\ Fault
    /\ executor' = "running"
    /\ worker' = [w \in Workers |-> IdleWorker]
    /\ UNCHANGED <<queue, resumer, store>>

Restart ==
    /\ executor = "stopping"
    /\ \A w \in Workers : At(w, "stopped")
    /\ executor' = "running"
    /\ worker' = [w \in Workers |-> IdleWorker]
    /\ UNCHANGED <<queue, resumer, store, faults>>

Work(w) ==
    Handle(w) \/ Return(w) \/ FailJob(w) \/ Confirm(w) \/ CompleteJob(w) \/ Quit(w)

Next ==
    \/ \E id \in Jobs : Accept(id) \/ Cancel(id) \/ Expire(id)
    \/ \E w \in Workers : Work(w) \/ Heartbeat(w) \/ HeartbeatFails(w) \/ StoreFails(w)
    \/ \E w \in Workers, id \in Jobs : Claim(w, id)
    \/ \E r \in Resumers : ResumeStep(r) \/ Abandon(r) \/ \E id \in Jobs : StartResume(r, id)
    \/ Crash \/ Restart

Spec == Init /\ [][Next]_vars

\* Goroutines run, leases nobody renews run out, the oldest free job is the
\* one claimed, and a process that ended is started again.
Fairness ==
    /\ \A w \in Workers : WF_vars(Work(w))
    /\ \A id \in Jobs : SF_vars(\E w \in Workers : Claim(w, id)) /\ WF_vars(Expire(id))
    /\ WF_vars(Restart)

FairSpec == Spec /\ Fairness

----------------------------------------------------------------------------
(* Safety.                                                                 *)

\* Handle: "Every durable transition is made only after its operation
\* succeeds".  A stage of the job row is evidence that the work behind it is
\* committed, whoever did it and however often it was interrupted.
StagesAreBacked ==
    \A id \in Jobs :
        LET stage == queue[id].stage IN
        /\ stage >= CanonicalPersistence => identity[id] # "absent"
        /\ stage >= TextualProjection => id \in text
        /\ stage = Activation => id \in activated
        /\ id \in activated => stage >= EmbeddingProjection
        /\ stage = Activation /\ EmbeddingMode = "enabled" => id \in vectors

\* SnapshotActivator: the active view of a source is one snapshot whose
\* canonical rows and textual projection are committed.
ActiveViewIsProjected ==
    \A src \in Sources :
        /\ active[src] # NoJob => active[src] \in text
        /\ \A id \in Jobs : SourceOf[id] = src =>
              (identity[id] = "active" <=> active[src] = id)

\* A caller who reads completed or partial can query the snapshot: it was
\* activated, and when it is complete so are its vectors.
EndedJobsArePublished ==
    \A id \in Jobs :
        /\ queue[id].state \in {"completed", "partial"} => id \in activated
        /\ queue[id].state = "completed" => queue[id].stage = Activation

\* Whoever holds a job finds it at the stage its own program expects, so no
\* transition of a lease holder is refused as out of order.
ExpectedStage(w) ==
    CASE worker[w].pc \in {"load", "persist"} -> {worker[w].claimed}
      [] worker[w].pc = "toCanonical" -> {Validation}
      [] worker[w].pc \in {"text", "toTextual"} -> {CanonicalPersistence}
      [] worker[w].pc = "toRelational" -> {TextualProjection}
      [] worker[w].pc = "toEmbedding" -> {RelationalProjection}
      [] worker[w].pc \in {"embed", "activate", "toActivation", "activatePartial",
                           "markPartial"} -> {EmbeddingProjection}
      [] worker[w].pc = "complete" -> {Activation}
      [] OTHER -> Stages

HoldersKeepStep ==
    \A w \in Workers :
        worker[w].job # NoJob /\ Held(w, worker[w].job)
            => queue[worker[w].job].stage \in ExpectedStage(w)

----------------------------------------------------------------------------
(* Liveness.                                                               *)

\* ARCHITECTURE.md:298-299, the executor "recupera jobs pendentes": an accepted
\* job is not lost.  Through crashes, lost leases and store failures it ends,
\* and what ends it is recorded.
AcceptedJobsEnd ==
    \A id \in Jobs : queue[id].state \in {"pending", "running"} ~> queue[id].state \in Ended
=============================================================================
