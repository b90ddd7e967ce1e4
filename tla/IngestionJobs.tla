---------------------------- MODULE IngestionJobs ----------------------------
(***************************************************************************)
(* The durable ingestion queue: the PostgreSQL JobStore of                 *)
(* internal/persistence/jobs.go, with its two tables, ingestion_jobs and   *)
(* ingestion_job_stages.  One action per method; a method is one database  *)
(* transaction, so it is one step, and a method that returns an error      *)
(* rolls its transaction back and changes nothing (it is a stutter here).  *)
(*                                                                         *)
(* Every method reads the application's clock before it opens its          *)
(* transaction and before it waits for the row lock, so the instant t it   *)
(* works with may be older than the instant at which it commits; MaxDelay  *)
(* bounds that delay.  created_at is the only column the database clock    *)
(* fills (CURRENT_TIMESTAMP, the start of Create's transaction).           *)
(*                                                                         *)
(* A stage is its stageIndex; the four monotonic counters move together    *)
(* and are one number; diagnostics, which follow the state, are left out.  *)
(***************************************************************************)
EXTENDS Integers

CONSTANTS
    Jobs,         \* factual identities: one row of ingestion_jobs each
    Owners,       \* lease owner tokens
    Lease,        \* lease duration
    MaxDelay,     \* bound: age of a clock reading when it is used
    MaxTime,      \* bound: the clock stops here
    MaxAttempts,  \* bound: no claim beyond this many attempts of a job
    MaxCount      \* bound: largest counter a caller reports

NoOwner == ""
NoTime  == -1

ASSUME JobsAssumption ==
    /\ NoOwner \notin Owners
    /\ Lease \in Nat \ {0}
    /\ MaxDelay \in Nat
    /\ MaxTime \in Nat
    /\ MaxAttempts \in Nat
    /\ MaxCount \in Nat

Validation           == 0
CanonicalPersistence == 1
TextualProjection    == 2
RelationalProjection == 3
EmbeddingProjection  == 4
Activation           == 5
Stages == Validation..Activation

JobStates == {"absent", "pending", "running", "completed", "partial", "failed"}

JobRows ==
    [state : JobStates, stage : Stages, attempts : Nat, owner : Owners \cup {NoOwner},
     expires : Int, cancelled : BOOLEAN, counts : Nat,
     created : Int, started : Int, finished : Int]

StageRows ==
    [state : JobStates, attempts : Nat, owner : Owners \cup {NoOwner},
     expires : Int, items : Nat]

VARIABLES
    now,    \* the clock, shared by the application and the database
    jobs,   \* ingestion_jobs
    rows    \* ingestion_job_stages, one row per job and stage once ensured

vars == <<now, jobs, rows>>

AbsentJob ==
    [state |-> "absent", stage |-> Validation, attempts |-> 0, owner |-> NoOwner,
     expires |-> NoTime, cancelled |-> FALSE, counts |-> 0,
     created |-> NoTime, started |-> NoTime, finished |-> NoTime]

AbsentRow ==
    [state |-> "absent", attempts |-> 0, owner |-> NoOwner, expires |-> NoTime, items |-> 0]

TypeOK ==
    /\ now \in 0..MaxTime
    /\ jobs \in [Jobs -> JobRows]
    /\ rows \in [Jobs -> [Stages -> StageRows]]

Init ==
    /\ now = 0
    /\ jobs = [id \in Jobs |-> AbsentJob]
    /\ rows = [id \in Jobs |-> [s \in Stages |-> AbsentRow]]

----------------------------------------------------------------------------
(* Clock readings a call may be working with.                              *)

Recent == {t \in 0..now : now - t <= MaxDelay}

\* A lease holder reads its clock after Claim returned the job to it.
HolderTimes(id) == {t \in Recent : t >= jobs[id].started}

----------------------------------------------------------------------------
(* Job.Validate, which scanJob applies to every row a statement returns: a *)
(* row that fails it aborts the transaction with ErrJobStore.              *)

NotBefore(late, early) == late # NoTime /\ early # NoTime => late >= early

RowValid(j) ==
    /\ NotBefore(j.started, j.created)
    /\ NotBefore(j.finished, j.created)
    /\ NotBefore(j.finished, j.started)
    /\ j.owner # NoOwner => j.state = "running"
    /\ j.expires # NoTime => j.state = "running" /\ j.owner # NoOwner
    /\ j.state = "pending" => j.attempts = 0 /\ j.started = NoTime /\ j.finished = NoTime
    /\ j.state = "running" => j.attempts > 0 /\ j.finished = NoTime /\ ~j.cancelled
    /\ j.state \in {"completed", "partial", "failed"} => j.finished # NoTime
    /\ j.cancelled => j.state = "failed"

Write(id, j) == RowValid(j) /\ jobs' = [jobs EXCEPT ![id] = j]

----------------------------------------------------------------------------
(* Statements on ingestion_job_stages.                                     *)

EnsureRow(r) == IF r.state = "absent" THEN [r EXCEPT !.state = "pending"] ELSE r

StartRow(r, o, e) ==
    [EnsureRow(r) EXCEPT !.state = "running", !.attempts = @ + 1, !.owner = o, !.expires = e]

RefreshRow(r, j) ==
    [EnsureRow(r) EXCEPT !.state = "running", !.items = j.counts,
                         !.owner = j.owner, !.expires = j.expires]

FinishRow(r, state, n) ==
    [EnsureRow(r) EXCEPT !.state = state, !.items = n, !.owner = NoOwner, !.expires = NoTime]

----------------------------------------------------------------------------
(* Guards the methods share.                                               *)

ActiveLease(j, o, t) == j.state = "running" /\ j.owner = o /\ t < j.expires

\* Mutant of TransitionAllowed: a later stage may be skipped to.
TransitionSkips(from, to) == to >= from

TransitionAllowed(from, to) == to = from \/ to = from + 1

\* Mutant of Claimable: the WHERE clause forgets the lease.
ClaimableAnyLease(j, t) == ~j.cancelled /\ j.state \in {"pending", "running"}

Claimable(j, t) ==
    /\ ~j.cancelled
    /\ j.state = "pending" \/ (j.state = "running" /\ j.expires <= t)

Oldest(S) == {id \in S : \A k \in S : jobs[id].created <= jobs[k].created}

\* Mutant of ClaimedRow: a reclaimed job starts from the first stage again.
ClaimedRowRestarted(j, o, t) ==
    [j EXCEPT !.state = "running", !.stage = Validation, !.attempts = @ + 1, !.owner = o,
              !.expires = t + Lease, !.started = IF @ = NoTime THEN t ELSE @,
              !.finished = NoTime]

ClaimedRow(j, o, t) ==
    [j EXCEPT !.state = "running",
              !.stage = IF j.state = "running" THEN @ ELSE Validation,
              !.attempts = @ + 1,
              !.owner = o,
              !.expires = t + Lease,
              !.started = IF @ = NoTime THEN t ELSE @,
              !.finished = NoTime]

\* Partial, Complete, Fail and Cancel all give the lease up.
EndedRow(j, state, stage, n, t) ==
    [j EXCEPT !.state = state, !.stage = stage, !.counts = n,
              !.owner = NoOwner, !.expires = NoTime, !.finished = t]

----------------------------------------------------------------------------
(* The methods.                                                            *)

\* An identity that already has a row is returned as it stands.
Create(id) ==
    /\ jobs[id].state = "absent"
    /\ \E t \in Recent : jobs' = [jobs EXCEPT ![id].state = "pending", ![id].created = t]
    /\ rows' = [rows EXCEPT ![id][Validation] = EnsureRow(@)]
    /\ UNCHANGED now

\* FOR UPDATE SKIP LOCKED: rows another transaction holds are passed over.
Claim(o) ==
    \E t \in Recent, locked \in SUBSET Jobs :
    \E id \in Oldest({k \in Jobs \ locked : Claimable(jobs[k], t)}) :
        LET j == ClaimedRow(jobs[id], o, t) IN
        /\ jobs[id].attempts < MaxAttempts
        /\ Write(id, j)
        /\ rows' = [rows EXCEPT ![id][j.stage] = StartRow(@, o, j.expires)]
        /\ UNCHANGED now

\* The stage row is matched by owner too, and must exist.
Heartbeat(o, id) ==
    \E t \in HolderTimes(id) :
        LET j == [jobs[id] EXCEPT !.expires = t + Lease] IN
        /\ ActiveLease(jobs[id], o, t)
        /\ rows[id][j.stage].owner = o
        /\ Write(id, j)
        /\ rows' = [rows EXCEPT ![id][j.stage].expires = j.expires]
        /\ UNCHANGED now

AdvanceStage(o, id, stage, n) ==
    LET from == jobs[id].stage
        j    == [jobs[id] EXCEPT !.stage = stage, !.counts = n] IN
    /\ \E t \in HolderTimes(id) : ActiveLease(jobs[id], o, t)
    /\ TransitionAllowed(from, stage)
    /\ n >= jobs[id].counts
    /\ Write(id, j)
    /\ rows' = IF stage = from
               THEN [rows EXCEPT ![id][stage] = RefreshRow(@, j)]
               ELSE [rows EXCEPT ![id][from]  = FinishRow(@, "completed", n),
                                 ![id][stage] = StartRow(@, o, j.expires)]
    /\ UNCHANGED now

Complete(o, id, n) ==
    \E t \in HolderTimes(id) :
        /\ ActiveLease(jobs[id], o, t)
        /\ jobs[id].stage = Activation
        /\ n >= jobs[id].counts
        /\ Write(id, EndedRow(jobs[id], "completed", Activation, n, t))
        /\ rows' = [rows EXCEPT ![id][Activation] = FinishRow(@, "completed", n)]
        /\ UNCHANGED now

Partial(o, id, stage, n) ==
    \E t \in HolderTimes(id) :
        LET from == jobs[id].stage IN
        /\ ActiveLease(jobs[id], o, t)
        /\ TransitionAllowed(from, stage)
        /\ n >= jobs[id].counts
        /\ Write(id, EndedRow(jobs[id], "partial", stage, n, t))
        /\ rows' = IF stage = from
                   THEN [rows EXCEPT ![id][stage] = FinishRow(@, "partial", n)]
                   ELSE [rows EXCEPT ![id][from]  = FinishRow(@, "completed", n),
                                     ![id][stage] = FinishRow(@, "partial", n)]
        /\ UNCHANGED now

\* Mutant of ResumePartial: the lease columns are left NULL.
ResumePartialUnleased(o, id) ==
    /\ jobs[id].state = "partial" /\ jobs[id].stage = EmbeddingProjection
    /\ jobs[id].attempts < MaxAttempts
    /\ Write(id, [jobs[id] EXCEPT !.state = "running", !.attempts = @ + 1, !.finished = NoTime])
    /\ rows' = [rows EXCEPT ![id][jobs[id].stage] = StartRow(@, NoOwner, NoTime)]
    /\ UNCHANGED now

\* Mutant of ResumePartial: a partial job of any stage is resumed.
ResumePartialAnyStage(o, id) ==
    \E t \in Recent :
        LET j == [jobs[id] EXCEPT !.state = "running", !.attempts = @ + 1, !.owner = o,
                                  !.expires = t + Lease, !.finished = NoTime] IN
        /\ jobs[id].state = "partial" /\ jobs[id].attempts < MaxAttempts
        /\ Write(id, j)
        /\ rows' = [rows EXCEPT ![id][j.stage] = StartRow(@, o, j.expires)]
        /\ UNCHANGED now

ResumePartial(o, id) ==
    \E t \in Recent :
        LET j == [jobs[id] EXCEPT !.state = "running", !.attempts = @ + 1, !.owner = o,
                                  !.expires = t + Lease, !.finished = NoTime] IN
        /\ jobs[id].state = "partial"
        /\ jobs[id].stage = EmbeddingProjection
        /\ ~jobs[id].cancelled
        /\ jobs[id].attempts < MaxAttempts
        /\ Write(id, j)
        /\ rows' = [rows EXCEPT ![id][j.stage] = StartRow(@, o, j.expires)]
        /\ UNCHANGED now

Fail(o, id) ==
    \E t \in HolderTimes(id) :
        LET j == jobs[id] IN
        /\ ActiveLease(j, o, t)
        /\ Write(id, EndedRow(j, "failed", j.stage, j.counts, t))
        /\ rows' = [rows EXCEPT ![id][j.stage] = FinishRow(@, "failed", j.counts)]
        /\ UNCHANGED now

\* No lease is asked for; a job already cancelled is returned as it stands.
Cancel(id) ==
    \E t \in Recent :
        LET j == jobs[id] IN
        /\ j.state \in {"pending", "running"}
        /\ Write(id, [EndedRow(j, "failed", j.stage, j.counts, t) EXCEPT !.cancelled = TRUE])
        /\ rows' = [rows EXCEPT ![id][j.stage] = FinishRow(@, "failed", j.counts)]
        /\ UNCHANGED now

Tick ==
    /\ now < MaxTime
    /\ now' = now + 1
    /\ UNCHANGED <<jobs, rows>>

\* The calls of one lease holder.
Hold(o, id) ==
    \/ Heartbeat(o, id)
    \/ \E stage \in Stages, n \in 0..MaxCount : AdvanceStage(o, id, stage, n)
    \/ \E n \in 0..MaxCount : Complete(o, id, n)
    \/ \E stage \in Stages, n \in 0..MaxCount : Partial(o, id, stage, n)
    \/ Fail(o, id)

Next ==
    \/ Tick
    \/ \E id \in Jobs : Create(id) \/ Cancel(id)
    \/ \E o \in Owners : Claim(o)
    \/ \E o \in Owners, id \in Jobs : ResumePartial(o, id) \/ Hold(o, id)

Spec == Init /\ [][Next]_vars

----------------------------------------------------------------------------
(* The shape the two tables have together.                                 *)

\* The row of the job's current stage tells the same story as the job: the
\* same state, and while it runs the same owner and the same expiry.  The
\* store writes the two tables with separate statements.
CurrentRowMirrorsJob(id) ==
    LET j == jobs[id]
        r == rows[id][j.stage] IN
    r.state = j.state /\ r.owner = j.owner /\ r.expires = j.expires

\* Every earlier stage was completed and holds no lease; no later stage has
\* been started or recorded.
HistoryComplete(id) ==
    \A s \in Stages :
        /\ s < jobs[id].stage => /\ rows[id][s].state = "completed"
                                 /\ rows[id][s].owner = NoOwner
                                 /\ rows[id][s].expires = NoTime
        /\ s > jobs[id].stage => rows[id][s] = AbsentRow

\* A stage is started at most once in an attempt of its job, and never reports
\* more items than the job does.
RowsWithinJob(id) ==
    \A s \in Stages :
        rows[id][s].attempts <= jobs[id].attempts /\ rows[id][s].items <= jobs[id].counts

\* A lease is held exactly while the job runs, by a real owner.
LeaseWhileRunning(id) ==
    LET j == jobs[id] IN
    IF j.state = "running" THEN j.owner \in Owners /\ j.expires \in Nat
                           ELSE j.owner = NoOwner /\ j.expires = NoTime

\* JobStore, transactions of Claim, AdvanceStage, Complete, Partial,
\* ResumePartial, Fail and Cancel: the stage history in ingestion_job_stages
\* agrees with the job row in every committed state.
StageHistoryConsistent ==
    \A id \in Jobs : CurrentRowMirrorsJob(id) /\ HistoryComplete(id) /\ RowsWithinJob(id)

\* A job row carries a lease exactly while it is running.
LeasesMatchState == \A id \in Jobs : LeaseWhileRunning(id)

----------------------------------------------------------------------------
(* What a step may never do.                                               *)

\* A lease passes from one owner to another only after it has expired: no
\* worker takes a job from a worker whose lease is still good (Claim's WHERE).
NoEarlyTakeover ==
    [][\A id \in Jobs :
          /\ jobs[id].owner # NoOwner
          /\ jobs'[id].owner # NoOwner
          /\ jobs'[id].owner # jobs[id].owner
          => jobs[id].expires <= now]_vars

\* completed and failed are final: no call, late or repeated, changes a job or
\* a stage row of a job in either state, and partial is left only by an
\* explicit resume of the embedding stage.
EndedJobsStay ==
    [][\A id \in Jobs :
          /\ jobs[id].state \in {"completed", "failed"} =>
                jobs'[id] = jobs[id] /\ rows'[id] = rows[id]
          /\ jobs[id].state = "partial" /\ jobs'[id] # jobs[id] =>
                jobs'[id].state = "running" /\ jobs'[id].stage = EmbeddingProjection]_vars

\* Progress is durable: across claims by other workers, retries and resumes,
\* a job never returns to an earlier stage, never loses counts, and a stage
\* row once completed is never written again.
ProgressIsDurable ==
    [][\A id \in Jobs :
          /\ jobs'[id].stage >= jobs[id].stage
          /\ jobs'[id].counts >= jobs[id].counts
          /\ jobs'[id].attempts >= jobs[id].attempts
          /\ \A s \in Stages : rows[id][s].state = "completed" => rows'[id][s] = rows[id][s]]_vars

----------------------------------------------------------------------------
(* The store implements the queue its callers rely on.                     *)

Lapsed(j) == j.state = "running" /\ j.expires <= now

\* A job as its callers see it: only whether its lease has run out is left of time.
Entry(j) ==
    [state |-> j.state, stage |-> j.stage, holder |-> j.owner,
     lapsed |-> Lapsed(j), cancelled |-> j.cancelled]

Queue == [id \in Jobs |-> Entry(jobs[id])]

Lifecycle == INSTANCE JobLifecycle WITH queue <- Queue

\* Every transaction of the PostgreSQL store, clock readings included, is one
\* step of the lifecycle the ingestion package is written against, or none.
ImplementsLifecycle == Lifecycle!LifecycleSpec
=============================================================================
