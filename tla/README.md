# Formal model of Manu

Manu analyses source code into facts, carries them in *analysis bundles* to a
server, persists them in PostgreSQL under *snapshots*, derives textual and
embedding projections from them and answers queries over the active snapshot of
each source. This directory holds TLA+ models of the parts of that program
whose correctness depends on interleavings, failures and order, the TLC
configurations that check them, and TLAPS proofs about them.

Paths below are relative to the repository root; `PROJECT.json` gives, for every
definition that models code, the file and the lines it stands for.

## 1. The system

### 1.1 Components

| Component | State it keeps | Operations | What is hard | What makes it correct |
|---|---|---|---|---|
| Job contract, `MemoryStore` (`internal/ingestion/jobs.go`) | one `Job` per factual identity | Create, Claim, Heartbeat, AdvanceStage, Complete, Partial, ResumePartial, Fail, Cancel, Get | leases, late callers | a job has one holder; ended jobs stay; stages go forward by one |
| PostgreSQL job store (`internal/persistence/jobs.go`, migration 0002) | `ingestion_jobs`, `ingestion_job_stages` | the same, each one transaction | clock readings older than their commit; two tables written by separate statements; row check on every returned row | implements the contract; the tables agree |
| Executor (`internal/ingestion/executor.go`) | worker goroutines, heartbeats, one cancel | Run, RunOnce, worker, process, heartbeat | heartbeat, handler and store errors race; a store error stops everybody | accepted jobs end |
| Pipeline (`internal/ingestion/pipeline.go`, `embeddings.go`) | none of its own; position in Handle | Handle, ResumePartial, ApplyIncremental | resumption at a claimed stage; activation needs no lease | a stage is evidence of committed work; only projected snapshots are active |
| Canonical persistence (`internal/persistence/repository_canonical.go`, `batch.go`, `text_projection.go`) | snapshots, factual identities, source pointer, text projection | persist bundle, rebuild text, ActivateSnapshot | two activations of one source | one active snapshot, exactly its identities active |
| Incremental update (`internal/ingestion/incremental.go`, `incremental_apply.go`) | none of its own; makes a snapshot from a previous one | CompareBundles, Apply | previous rows missing, or written by others; keys shared by two facts | the text equals that of a full ingestion; completeness reported truly; vectors stay in their space |
| Upload staging (`internal/cli/serve_ingestion.go`, `internal/bundle/multipart.go`) | directories under the staging root | CreateMultipart, publish, Load | racing uploads, crashes, power failures | a job finds its bundle |
| Serve runtime (`internal/cli/serve_runtime.go`) | HTTP server and executor | start, stop, readiness | the executor's end ends the process | restart recovers jobs |
| AI gateway orchestration (`internal/aigateway/orchestration.go`) | budget ledger, slots, per-call workers | Embed, Generate | concurrent reserve/settle, retries, cancellation | budget respected, complete results, calls return |
| AI providers (`internal/aigateway/openai*.go`, `simulated.go`) | none | HTTP calls | none beyond the orchestrator's | |
| Analysis runner (`internal/analysis`, `internal/state`) | worker pool, `state.json` | Run, incremental Run | files edited under a run, stale cache entries, cancellation, crashes | a completed run equals a full analysis of what it lists |
| Analyzers (`internal/analyzer`) | none | pure parsers | | |
| Derivation (`internal/derivation`, `persistence/factual_derivation_rebuild.go`) | queue, known facts; stored facts with their inputs | fixpoint of rules, rebuild of a snapshot's derivations | limits, order of facts, facts that arrive between rebuilds | complete means the least fixed point; every lineage ends in observed facts |
| Facts, normalisation, contract, evidence | none | digests, validation, conflict classification | | pure functions |
| Bundle codec (`internal/bundle`) | none | read, write, multipart | | round trip |
| Source access (`internal/source`) | none | discovery | | read-only walk |
| Retrieval (`internal/retrieval`, `internal/query/hybrid_retriever.go`) | none | searches, fusion, expansion along relations | scores used as ranks, budgets used up by duplicates | a unit no signal ranks lower is not ranked lower |
| Query execution (`internal/query/orchestrator.go`, `package.go`, `persistence/query_pipeline.go`) | one execution row per query | Create | a caller that leaves, a provider that does not answer, a store that fails around its commit | what is transferred is authorised, what is answered is evidence, what is spent is recorded |
| Context packages (`internal/query/context_*.go`, `internal/mcpadapter`) | cursors, in the client's hands | BuildContext, audit, delivery | derivation, another policy or a restart between two pages | pages add up; what is delivered is supported; what is missing is said |
| Factual repositories (`internal/persistence/factual_*.go`) | fact rows | SQL reads and writes | transaction boundaries | |
| Migrations (`internal/persistence/migrate.go`, `migrations/catalog.go`) | the schema, `manu_schema_migrations`, an advisory lock | Apply, Status | several builds at once, lost commits, sessions that outlive their client | the history tells the schema; reports are true and stay true; calls end |
| HTTP API (`internal/api`), configuration, CLI | none | translation around the ports above | | |
| Evaluation, benchmark | none at run time | offline tools | | |

### 1.2 How they interact

```
 client ──multipart──> HTTP API ──> serve bundle staging ──rename──> staging root
                                        │ jobs.Create                     │ Load
                                        v                                 v
                                   job store <──claim/heartbeat/advance── executor worker
                                        ^                                 │ Handle
                                        │ Complete/Partial/Fail/Cancel    v
                                        │                        canonical store: persist, text,
                                        └──────────────────────  embed (AI gateway), activate
                                                                          │
                                            query, retrieval, MCP  <── active snapshot of a source
```

The job store is the only thing the API, the executor and a caller of
`ResumePartial` share; it is called from several goroutines and several
processes. The canonical store is called under no lease: what keeps a handler
that lost its job from doing harm is idempotence, not fencing. The staging root
is shared by concurrent uploads and by the executor that loads from it.

### 1.3 What is hard to test

`PROJECT.json` lists each hazard at its line with the properties that cover it.
In short: two tables written by separate statements of one method; clock
readings taken before a transaction; a worker dead, stalled or cancelled between
two calls; an answer lost after its commit; an activation by somebody whose job
is no longer his; a rename that is visible and not yet durable; reservations
settled after their slot is free again; the first error of several workers;
files edited under the run that analyses them; facts that arrive between two
derivations of a snapshot; a caller gone while an outcome is written; a page
asked for after the snapshot, the policy or the process changed; a migration
whose commit is decided after its client is gone.

## 2. Plan

Modules, in the order they are written. "Done" marks what this directory holds.

1. **Done** – `JobLifecycle`: the abstract queue. `IngestionJobs`: the
   PostgreSQL store, shown to implement it. `IngestionPipeline`: executor and
   pipeline composed with `JobLifecycle` (EXTENDS) and the canonical store.
2. **Done** – `BundleStaging`: upload, publication and job creation.
3. **Done** – `EmbeddingGateway`: ledger, slots, worker pool, retries.
4. **Done** – `IncrementalDelta`, `IncrementalUpdate`: comparison of bundles and
   Apply over the text and vector tables, with full ingestions beside them.
5. **Done** – `AnalysisRunner`: discovery, worker pool, cache, state file.
6. **Done** – `FactualDerivation`: the executor against a reference definition of
   the least fixed point, and the rebuild that stores its outcome.
7. **Done** – `RetrievalFusion` (operators) and `QueryExecution`, which extends it:
   one query from its pinned snapshot to its terminal row.
8. **Done** – `ContextPackages`: candidates, policy, pages, selection, closure,
   audit and delivery.
9. **Done** – `SchemaMigrations`: migrators and readiness checks of several builds
   on one database.

The detail of the embedding projection, once planned as a module of its own, is
in `IncrementalUpdate`. Every safety property of a run is proved as well
(section 5). Left: the planner of factual updates.

## 3. What each module models

### JobLifecycle – the queue every store promises

State: `queue`, one entry per identity with state, stage, holder, `cancelled`
and one bit for time, `lapsed`. Each method of the `JobStore` port is an action
named for what it does to the entry:

| action | method | action | method |
|---|---|---|---|
| `Submit` | Create | `Suspend` | Partial |
| `Take` | Claim | `Resume` | ResumePartial |
| `Renew` | Heartbeat | `GiveUp` | Fail |
| `Advance` | AdvanceStage | `CancelJob` | Cancel |
| `Finish` | Complete | `Lapse` | time passing |

A holder's call does not require its lease to be unexpired: `MemoryStore` reads
its clock and the store compares it with a reading that may be older than the
commit, so a call may succeed under a lease that has just run out. What the
contract does promise is that nobody else has taken the job.

### IngestionJobs – `internal/persistence/jobs.go`

State: `jobs` and `rows`, the two tables, and `now`. One action per method, with
the methods' names; a method is one transaction and so one step; an error rolls
back and is a stutter. Each action chooses the clock reading `t` it works with
from `Recent` (at most `MaxDelay` old); a lease holder's reading is not older
than its claim (`HolderTimes`). `Write` is the row check that `scanJob` applies
to each returned row: a row that fails `Job.Validate` aborts the transaction.
`Claim` passes over rows that others have locked (`FOR UPDATE SKIP LOCKED`) and
takes the oldest of the rest. `EnsureRow`, `StartRow`, `RefreshRow` and
`FinishRow` are the helpers on stage rows.

Abstractions: the four counters are one number (each is monotonic by the same
check); diagnostics follow the state and are left out.

### IngestionPipeline – `executor.go`, `pipeline.go`

`EXTENDS JobLifecycle`: a call on the job store is the corresponding action.
`worker[w]` holds where a worker goroutine is (`pc`, one value per call on a
port), the job and the stage at which it was claimed, whether the handler's
context is cancelled (`stop`), what its heartbeat met (`beat`) and what `Handle`
returned. `identity`, `text`, `vectors`, `active` are the canonical store as far
as activation is concerned. `resumer[r]` is a call of `ResumePartial`.

Every call of the handler may fail without effect (`CallFails`), or take effect
and return an error (`Returned`). The context is tested where the code tests
it, after the call, so one more call may happen under a lost lease or a
cancelled job. `Return` follows the order of `process`: the executor's own
context, the heartbeat's error, the handler's result. `StoreFails`,
`StopExecutor`, `Quit`, `Crash` and `Restart` are the ways a process ends.

Activation (`Activate`) is one transaction: archive, activate, move the pointer.
`claimed` is kept as far as `Persist`, the last place that reads it. `Rivals`
bounds the run, not the code: a job in it is accepted beside another one only,
before any fault and any resume, and none comes after; the proofs hold for any
`Rivals`, the empty set included, which bounds nothing.

### BundleStaging – `serve_ingestion.go`

A request goes through `Stage`, `FirstCheck`, `MarkReady`, `SecondCheck`,
`Rename`, `SyncRoot`, `CreateJob`; each is a step between which other requests
run. The root is seen twice: `published` as the system shows it, `synced` as far
as it is known to be on disk. `Crash` keeps `published`; `PowerFailure` takes
back any part of `published \ synced` and is remembered in `powerFailed`. The key of a bundle holds its
configuration, the identity of a job does not (`Keys`, `config`).

### EmbeddingGateway – `orchestration.go`

`requests` and `tokens` are the ledger's use, `slots` the channel of tokens,
`main`, `sent`, `ended`, `firstErr`, `results` the caller's side of
`runEmbeddingBatches`, `at`, `batch`, `attempt`, `reply`, `usage` a worker's
locals in `worker` and `embedBatch`. `Hand` is the meeting on the unbuffered
channel; `Acquire`, `Reserve`, `Reply`, `Settle`, `CheckRetry`, `Backoff` are
one attempt. The slot is released in `Reply`, before `Settle`, as in the code.
`started` and `spent` are history. Generation runs the same attempt loop with a
single batch and is covered by the call with one batch. `batch` and `attempt` are
locals of `embedBatch` and are dropped when it returns (`Drop`).

Abstractions: tokens stand for the three dimensions reserved by estimate;
each batch has the same estimate; answers that fail validation are provider
errors; an answer's count of tokens is one of `Usages`.

### IncrementalDelta – `incremental.go`

Operators only. A bundle is a configuration, files with their hashes, evidence
units and gaps; `BundleFacts` gives each a stable key, an external identity and a
digest, as `bundleFacts` does, and the dependencies on which `Reusable` rests.
`ReportValid` is `IncrementalReport.Validate`. Coverage and failures are compared
exactly like gaps and are not repeated; the work-saved figures are left out.

### IncrementalUpdate – `incremental_apply.go`, `text_projection.go`, `embedding_projection.go`

State: `canonical` (the committed bundle of each snapshot), `text` and `vectors`
(the rows of the two projections, each vector with the profile and the hash it
was made from), `active`, and `update[s]`, the Apply that makes snapshot `s`.

| action | code |
|---|---|
| `Ingest` | a whole `Pipeline.Handle`, in one step (`IngestionPipeline` has its steps) |
| `Persist` | `PersistIncremental`: compare, refuse or commit |
| `RebuildText` | `RebuildSnapshotIncremental` of the text; `CopyMatches` is the WHERE clause of the copy |
| `RebuildVectors` | the provider's answer and `RebuildSnapshotIncremental` of the vectors; `CopyVectorMatches`, `Cached` |
| `VectorsFail` | the embedding outcomes that leave the vectors alone |
| `Activate` | `ActivateSnapshot`, complete or partial |
| `Abort` | cancellation, a failed call, a crash |

Each action is one transaction of the code. Updates of different snapshots and
ingestions interleave at every step. The caller's previous bundle is taken to be
the one committed for the base snapshot; its projections may be missing. `meta`
stands for what canonical facts add to a text row (symbol, configuration key,
exact terms): two bundles may differ there and nowhere the comparison looks,
which is why the copy must compare those columns.

### AnalysisRunner – `internal/analysis/runner.go`, `internal/state`

State: `files`, the source tree; `store`, the `state.json` last written; `run`,
the inventory, what it invalidates and the outputs so far; `worker`, the pool of
`runAnalyzers`; `result`, what the last run returned.

| action | code |
|---|---|
| `StartRun` | opens the state, discovers, computes what is invalidated |
| `TakeJob`, `LeavePool` | the jobs channel; a worker leaves when it is closed or the context has ended |
| `Analyze` | one analyzer of the registry: `Reuse`, `Succeed` or `Fail` |
| `Deliver` | the second look at the file (`Revalidated`), the send on the results channel |
| `FinishRun` | combines the outputs, replaces the state also after cancellation |
| `Cancel`, `Edit`, `Crash` | the caller or `MaxDuration`, the user, the process |

`Invalidated` is the set that one pass over the dependencies leaves. They are
sorted by path and a pass never goes back, so a path joins it when it changed, or
depends on one that had joined before its turn came; `Followed` says that of a set,
and one set satisfies it. There is at least one version and one worker:
`runAnalyzers` starts one when it is configured with none.

A file has one of a few contents; a content says which paths its contributions
name (`Imports`). `doubtful` is history: the keys a cancelled run kept without a
second look at their file. An edit under a run is not undone during it, because a
hash cannot see that. Analyzer output is one fact per analyzer; limits on bytes
and counts, wording of failures and the merge of duplicates are left out.

### FactualDerivation – `internal/derivation`, `factual_derivation_rebuild.go`

State: `stored` and `inputs`, the facts of one snapshot with the inputs of the
derived ones; `known`, `support`, `pending`, `iterations`, `next`, `accepted`,
`codes`, the executor's locals. `Start`, `Pop`, `ApplyRule`, `EndIteration` are
the loop, `CommitRebuild` is the insert-only transaction of a rebuild (or the
return of a bounded derivation), `Fail` its interruption, `Observe` another
writer.
`DependencyRule` and `MembershipRule` are the two registered rules. Identities
of facts are hashes, so the order they come in, `Rank`, is a constant that the
run gives two opposite values. `settled` and `refused` are history.
`LeastFixedPoint` is the reference and uses nothing of the executor: what a
component depends on is what is in every set that has its direct dependencies
and theirs (`Reached`).

### RetrievalFusion and QueryExecution – `hybrid_retriever.go`, `fusion.go`, `orchestrator.go`, `package.go`

`RetrievalFusion` holds operators only: how the rows of the text search become
exact and text hits (`ExactRank`, `TextOrder`), what each signal earns a unit,
and the expansion along relations with its budget, its fan-out and its
duplicates (`Refer`). Scores are exact rationals over a common denominator,
`Scale`, where the code has floats; weights are positive, as they are configured. That
the arithmetic is exact is `FusionAssumption`: the store is finite and every rank
that occurs divides `Scale`. `Outranks` compares units in the searches' own
orders, an exact match by its place in the answer; `TurnedRound` names the pairs
of exact matches for which the fusion's exact signal has the other order. Go's
sorts are `Sorted(S, order)`, the sequence in
which an element stands at the place of its rank.

`QueryExecution` is one `Create` per query, `pc` the place it has reached:

| action | code |
|---|---|
| `Resolve` | scope, pinned snapshot |
| `Start`, `StartFault` | the running row, and the store failing around its commit |
| `Retrieve` | the searches (any answer), the fusion, or a failure |
| `Compose` | the package: `Effective`, `Consider`, `Fits` |
| `Abstain`, `Generate`, `Reply`, `Expire` | gate, provider call, validated answer, deadline |
| `Finish`, `FinishFault` | the transaction of the outcome, detached from the caller |
| `Activate`, `Cancel`, `Crash` | ingestion, the caller, the process |

`row` is the stored execution with its package and the audit of the provider
call; `hits`, `sent` and `faulty` are history. `SignalsColumn` says whether the
database takes the array that Finish writes. Relations stay within
a snapshot (`QueryAssumption`), as the queries of the code ask for one. Queries
share the active snapshot and the process only, so the run has one. The repair port is not connected in
production and is left out, and so is a candidate whose unit has gone since the
searches (`hybrid_retriever.go:205`), which is skipped: no property rests on it.
The embedding of the question is part of `Retrieve`
and, as in the code, leaves no audit.

### ContextPackages – `internal/query/context_*.go`, `internal/mcpadapter`

State: `policy` and `key`, the process; `stored`, the facts of the snapshot;
`pc`, `request`, `view`, `package`, the call under way; `logged`, the last audit
record; `cursors`, what the client was given.

| operators | code |
|---|---|
| `Matched`, `Found` | what the searches match, and what `finalizeFusionCandidates` keeps of it |
| `Projected`, `Naming`, `Candidates`, `Precedes` | `ProjectContextCandidates` |
| `Allowed`, `Standing`, `Authorised`, `Relations` | `applyContextPolicy`, the fixpoint over dependents |
| `Sequence`, `Resumes`, `Page`, `Issue` | the authorised sequence and the signed cursor |
| `Gain`, `Choice`, `Pick`, `Select` | `SelectContext`, greedy by utility per token |
| `Accept`, `Close`, `WithinBudget` | `CloseContextSupport` |
| `Degradations` | `contextServiceDegradations` |

`Ask` stands for the four tools, which differ here in intent only, `Build` for
everything from the projection to the package, which no other process observes.
The record is written before the package is delivered (`Record`, `Deliver`), and
a sink that refuses it keeps the package back (`SinkRefuses`). `read` in a cursor
is what the client has seen: the code's cursor does not hold it. Calls share the
store and the sink only, so one is under way at a time. Items are numbers in the
order of their identities; utility weights are one; gaps and coverage of the
snapshot are left out. A retrieval keeps its best `MaxCandidates` and says nothing
of the rest. What a search finds within its own limit, and what relations add
within their budget, is in `Score`, one function for each way the searches may
answer (`Signals`), with or without a reason for a degradation.

The code drops dependents of what the policy dropped until a round drops none;
what is left is the most that stands by itself, and `Authorised` says that of a
set. What a fact is derived from, `Basis`, is likewise the least set that has it
and the inputs of its members. The loops of the selection (at most as many rounds
as the limit on items) and of the closure (one round for each relation) are
recursive functions. `Tabulated` is the identity: it has TLC keep the values of a
function that has been compared.

### SchemaMigrations – `internal/persistence/migrate.go`

State: `schema`, the migrations whose statements took effect, in order; `table`
and `history`, the table `manu_schema_migrations`; `lock`, whose session holds the
advisory lock; `pc`, `call`, `outcome`, `known`, where a call is, what it asks for
with which catalog, what it reports and the rows it works from. `disturbed` is
history: a database operation of the call failed.

| action | code |
|---|---|
| `Call` | `manu migrate` (Apply) or a readiness check (Status), of any build |
| `Lock`, `Unlock` | `withAdvisoryLock`; the lock is given back on every path |
| `Bootstrap`, `Read` | the history table, its rows and `validateApplied` (`Compatible`) |
| `Apply`, `EndApply`, `Confirm` | one migration with its row in one transaction; the second reading |
| `CallFails` | the database's error, or a context found ended |
| `Lose`, `EndSession` | a client that disappears, and the server that ends its session later, with the commit that was under way or without |

A build is its catalog, a sequence of migrations; a migration stands for a name and
a checksum, which the code compares one after the other. That a migration cannot
be run twice is what its `CREATE TABLE` statements do (`Applicable`). A catalog has
no version twice and no gap, which `LoadCatalog` and `Validate` check.

## 4. What each run checks

| run | bounds | question | result |
|---|---|---|---|
| `jobs_store` | 1 job, 2 owners, lease 2, delay 1, clock 4, 3 attempts, counters 0–1 | do the tables agree, are live leases and progress safe, does the store implement the queue | holds |
| `pipeline` | 2 jobs of one source, 2 workers, 1 resume, 2 faults, embeddings on, fair; the second job beside the first only where nothing faults and nobody resumes | is a stage evidence of work, is only projected work active, do holders find the stage they expect, do jobs end | holds |
| `staging` | 2 uploads, 2 identities, 2 configurations, crashes, power failures | does every job find its bundle until the power fails, and for good if its creator synced the root | holds |
| `gateway` | calls of 2 and 1 batches, 2 slots, 2 attempts, budget 3 requests and 2 tokens, estimate 1, answers of 0 or 2, fair | ledger, spending, completeness, cause of errors, do all calls return | holds |
| `update` | 2 snapshots, 2 profiles, 8 revisions of a bundle, embeddings on | text of a full ingestion, true completeness, vectors in their space, provenance of what is reused | holds |
| `analysis` | 2 paths, 2 contents, 2 analyzers on one path, 2 workers, 2 runs, 2 edits, fair | is a completed run a full analysis, does reuse respect dependencies, do runs end | holds |
| `derivation` | 4 components, 1 symbol, 2 artifacts, 2 versions, 6 graphs, 2 late facts, each limit, 2 orders, fair | is a complete derivation the least fixed point, are lineages grounded, do rebuilds repeat and derivations end | holds |
| `query` | 1 query, 5 units in 2 snapshots, 2 hits a search, 3 candidates, 2 units a package, 2 activations, 2 faults, fair | fusion, transfer, citations, spending, durability, return | holds |
| `context` | 3 units of evidence, 3 facts of which 1 derived, 3 entities, 3 policies, 3 limits, 3 retrievals (one degraded, one limited in silence), 2 candidates kept, 3 calls, 1 restart | do pages add up, is what is delivered supported, is what is missing said | holds |
| `migrations` | 2 processes, 4 builds (one older, one newer, one with an edited migration), 3 calls, 2 faults, fair | does the history tell the schema, are reports true for good, do calls end | holds |
| `analysis_cancelled` | as `analysis` | is a run after a cancelled one still a full analysis | violated |
| `query_unrecorded` | as `query`, the column refuses arrays | does every query that runs undisturbed end with its row terminal | violated |

Why the bounds are enough. `jobs_store`: rows of different jobs meet only in
`Claim`'s choice of the oldest, and each property speaks of one job, so one job
loses no behaviour of it; two owners give the take-over, a clock of 4 with a
lease of 2 lets a lease expire, be taken by another and expire again with
readings one unit late, three attempts are a claim, a take-over and a resume.
`pipeline`: with two faults a worker can stall and lose its job while the one
that took it crashes; a resume beside them covers the third writer of that
snapshot. Jobs of one source meet in its activation: each worker has a job of its
own there, both snapshots are activated in either order, and each archives the
other. Calls that fail or lose their answer are part of these histories too;
crashes, stalls and a resume beside a rival's activation are not, for the product
is too large for TLC: they are left to the theorem (`ActiveViewProjected`, for any
jobs, rivals and faults). `staging`: a key is raced for by two requests, and two
identities with two configurations give the same identity under two keys.
`gateway`: three workers may each have a reservation, which the limit of three
requests allows and the limit of two tokens does not; an answer costs nothing or
twice its estimate, so that tokens decide who is admitted and `spent` reaches 4,
over the limit of 2 and under the bound of 5, which an admission that overlooks
reservations passes. Two calls with two slots let a reservation be settled under another's check; the
three batches are more than the slots, so a slot that is not given back stops a
call.
`update`: an update reads one base and writes one snapshot, which may change
roles; each revision differs from the first in one thing the comparison sees
(file, observation, configuration, units, a shared key, a shared gap) or does not
see (metadata). A snapshot may be the base of the other after being an update of
it, so rows are copied from rows that were copied; that longer chains bring
nothing new is proved (section 5). `analysis`: an entry lives from one run to the
next, so two runs; an edit between the inventory and the analysis and one
between the runs, so two edits; two analyzers give an artifact of which one half
is cached. `derivation`: a path of three links needs two rounds, a cycle of the
graph gives facts with several lineages, and a fact that arrives between two
rebuilds gives a shorter one; the limits are each hit in some graph and passed in
another. `query`: three candidates of which two fit, two units of one artifact,
two with one text, one that its source denies, one that it and one that the policy
redacts, two exact matches whose scores the exact signal turns round, one without
a score and one with a fraction only: without the exception for pairs turned round
TLC refutes `FusionRespectsSignals`, with the answer <<4, 2>> of the text search and
the candidates <<2, 4>>. Both snapshots may be active at any point. `context`: three calls are a walk of three
pages, or of two with a call of another question; the derived fact relates what
its inputs do not, so it changes candidates, sequence and relations at once; the
limits give pages of one item, one page with room for everything, and one whose
budget relations exceed; one question matches more than a retrieval keeps, and one
retrieval finds less than another without saying so. `migrations`: two processes contend for one lock, the
third call comes after both and finds what they left; two faults lose a commit and
the call that would have repaired it; catalogs that extend and that contradict one
another give each report. For any number of callers and any catalogs the two safety
properties are proved.

Symmetry is used over owners, workers, requests, identities and configurations
in runs that check safety and action properties, never in runs that check
liveness. `jobs_store` uses it together with the property
`ImplementsLifecycle`, which has no fairness and treats all owners alike.

`CHECK_DEADLOCK FALSE` is given except in `update`, where a snapshot can always be
ingested again, and in `context`, where the end of all calls is an action of its
own: a queue with every job ended, a staging root that nobody uploads to, calls
that have all returned, a tree that nobody analyses any more are where the
program rests (and `now` stops at its bound).

### Fairness

`pipeline`: weak fairness of each worker's own steps (a goroutine that is
not blocked runs; every port call has a deadline or returns), of the expiry of a
lease nobody renews (a clock) and of the restart of a process that ended
(`compose.yaml` restarts it); strong fairness of the claim of each job, because
polling workers may always be busy with another one for a while, and `Claim`
takes the oldest. Resumers have no fairness: an abandoned `ResumePartial` is
saved by its lease. Nothing assumes that calls succeed, and faults are bounded,
since a store that is always down ends no job.

`gateway`: weak fairness of each worker and of each caller's goroutine; the
provider answers, well or badly. That a context ends is never assumed, so what
is shown is that calls return without being cancelled.

`analysis`: weak fairness of each goroutine of the pool and of the goroutine that
waits for them. An analyzer returns; nobody has to cancel.

`derivation`: weak fairness of the loop's steps, which is one goroutine.

`query`: weak fairness of the goroutine that runs `Create`. `Reply` is outside of
it: a provider need not answer, and what ends the call is the deadline, the
caller's or the configured one. A process that dies answers nobody, and the
property says so.

`migrations`: weak fairness of a call's own steps and of the server that ends the
sessions of clients that are gone; strong fairness of `Lock`, because PostgreSQL
hands an advisory lock to those who wait in turn.

`jobs_store`, `staging`, `update` and `context` check safety and need none.

### Disagreements with the code's own texts

Two have a run that shows them.

* `analysis_cancelled`: when the context has ended, `runner.go:624` skips the
  second look at the file, and the output is cached all the same. A later run
  that completes then restores facts of a content the file never had when it was
  listed; the specification of incremental analysis makes no such exception.
* `query_unrecorded`: `query_pipeline.go:720` writes the signals of a candidate
  as a JSON array, and the column's check in migration 0002 (line 310) asks for an
  object. Against that column Finish fails for every query that found anything
  and its row is left running, although `Create` promises to return only after
  the terminal result is committed (`orchestrator.go:214`). `SignalsColumn` is
  FALSE in this run only; `query` shows what holds once the column takes the array.

Others are in the model without a run of their own:

* A request that finds a bundle in place creates its job without syncing the
  root (`serve_ingestion.go:111`). If the request that renamed it has not synced
  yet, a power failure leaves the job without its bundle, against
  `docs/compose.md:30`. `JobsAreLoadable` would say so; what holds is the pair of
  properties that `staging` checks.
* `Claim` reads the clock before its transaction and writes the reading to
  `started_at`; `created_at` is the database's. A job created in between gets a
  start before its creation, the row check refuses it (`jobs.go:455`), and the
  error is not one the executor survives.
* The comment of `Handle` says cancellation prevents activation.
  `ActivateSnapshot` asks for no lease, so a job cancelled after the last test of
  the context is still activated (`pipeline.go:278`). If the answer of an
  activation is lost, the job is failed and its snapshot active
  (`executor.go:225`).
* A comment of the vector rebuild says that a missing previous row is
  reconstructed from the cache; the line below it discards the cache hit
  (`embedding_projection.go:394`). A unit that is reusable, and so was not sent to
  the provider, is then missing: an update over a snapshot activated without
  vectors stays partial although everything it needs is cached.
* `CompareBundles` says that ambiguous keys are treated as added and removed. A
  gap with one key and two messages, present in both snapshots, makes the report
  invalid (`ReportValid`), and two evidence units with one key make the text
  rebuild fail (`RebuildText`): such a source can only be ingested in full.
* A good answer is thrown away when another call's overspending has left the
  ledger above its limit (`orchestration.go:504`).
* A derivation stopped by its limit on iterations after its last new fact and
  before the round that would have confirmed it reports a gap though nothing is
  missing (`limits.go:53`). A rebuild under the version of an earlier one can be
  refused for good when new observed facts give a derived fact another first
  lineage. A stored membership stays after a second definition has made its
  symbol ambiguous.
* `hybrid_retriever.go:138` takes the score of an exact match as its rank, without
  its fraction. A score below one becomes rank zero, which the fusion refuses
  (`fusion.go:775`, `Refused`), and the whole retrieval fails with it although it
  found its evidence (`openspec/specs/evidence-backed-query/spec.md:72`). Scores
  above one turn the order round: the fusion wants a one-based rank
  (`fusion.go:57`), so that of two exact matches whose scores differ by a whole
  part the better one comes last in the exact signal (`ScoresTurnExactRound`).
* A retrieval says nothing of what its limits cut: the fusion's on candidates
  (`fusion.go:717`), the budget of the relations (`fusion.go:622`) and the search's
  own (`hybrid_retriever.go:108`) add no reason for a degradation, so that a
  package may admit none and bring a part of what matches, where
  `openspec/specs/evidence-context-retrieval/spec.md:43` asks for an indication of
  truncation or of a continuation.
* `serveReadiness` (`serve_runtime.go:200`) returns the error of `Status` and drops
  the status, and missing migrations are no error: the process says it is ready
  where the model's report is `behind`, against
  `openspec/specs/evidence-backed-query/spec.md:137` and `docs/compose.md:26`.
  `api.MigrationReadiness` looks at the status, but is not what serve uses.
* A query whose process died, or whose Finish failed, leaves its row running for
  ever: nothing sweeps it (`query_pipeline.go:243`). Degradations of a retrieval
  do not reach the response of a query. A text counts as seen before the limits
  refuse the unit that brought it, so that another unit with the same text is not
  taken either (`package.go`, `Consider`). Duplicate references along relations
  use up budget and ranks (`Refer`).
* The budget test of a relation ignores the relations accepted before
  (`context_support_closure.go:447`), against the comment that each one that fits
  the remaining budget is kept; the check at the end then fails the whole call.
* Items that the budget leaves out of a page are never offered again: the cursor
  goes on behind the page, although the specification of context retrieval asks
  for a continuation when the budget is exceeded. A relation whose ends fall on
  two pages is never delivered (it is flagged). An entity inherits lineage and
  evidence of its best fact and may be dropped though another retained fact names
  it. Facts none of whose evidence was found are left out without a word.
  `UndegradedIsComplete` is stated accordingly: it is relative to what the
  retrieval handed over.

## 5. What is proved

`IngestionJobsProofs` (about `IngestionJobs`, any jobs, owners, lease, delay,
bounds):

* `TypeCorrectness`, `HistoryIsConsistent`, `LeasesAreExact`: the three
  invariants of `jobs_store`. Only together with each other are they inductive:
  `FinishRow` of the row one stage back needs to know that it is the running
  one, and the row ahead that it is absent. `IInv` is the type invariant and,
  for each job, `Sound(job, rows)`, the conjunction of six facts about one job
  and its rows (`Unstarted`, `Mirrors`, `Earlier`, `Later`, `Within`, `Leased`).
  Stating them about a pair of records and not about the tables lets each
  action be proved on one job, and the others left to one lemma.
* `NoTakeoverBeforeExpiry`, `EndedJobsAreFinal`, `NoProgressLost`: the action
  properties, from `IInv` and the guards. The second (`EndedJobsStay`) is proved
  only: in the run `ImplementsLifecycle` implies it for the job rows.
* `StoreImplementsLifecycle`: `Spec => ImplementsLifecycle`. One lemma per action
  gives its image (`Claim` maps to `Take`, with the choice of `late` witnessed by
  whether the lease granted has run out; `Tick` to `Lapse` of the jobs whose
  expiry is reached; calls of a job's holder to the call of the same meaning),
  `StepMaps` collects them, `QueueInit` starts the induction.

`IngestionPipelineProofs` (any jobs, workers, resumers, sources, embedding mode
and number of faults): `PipelineTyped`, `StagesBacked`, `ActiveViewProjected`,
`EndedJobsPublished`, `HoldersInStep`. The invariants the run checks are not inductive:
that a stage is backed by what it promises follows from what the worker did
before it asked for the stage, which only its position remembers. `WorkerDone(w)`
and `ResumerDone(r)` say what a position implies of the rows. It stays true when
the job is lost to somebody else, because no stage goes back and nothing
committed is undone (`WorkerKeeps`, over `Rewrites`, `OthersKeep` and
`StagesGrow`, which summarise the calls of the queue); that the stage is exactly
the one the next call expects is true of the holder only.

`IngestionJobsProofs` on `BundleStaging` (any requests, identities and
configurations): `StagingTypes`; `PublishedBeforeCreated`, that until the
power fails every job finds its bundle, for any number of uploads, with the
strengthening `PastRename` (a request past its rename has its key published);
`SyncedJobsSurvive`, the same for jobs created after their creator's own sync,
power failures included, with `SyncedRequests` and `DirectJobs`.

`EmbeddingGatewayProofs` (any number of calls, batches, workers and attempts,
any limits): `GatewayTyped`, `BudgetIsConserved`, `SpendingIsBounded`,
`SuccessComplete`, `ErrorCause`. Four facts are carried together: ledger and
slots count the workers that are between two places of `embedBatch` (`Counted`);
what is spent plus the most the attempts in flight may use stays under a ceiling
that only an admission below the limit approaches (`Ceiling`, the bound that
leaves one overshoot per worker); a batch handed out is answered, carried by a
worker, or moot because an error is recorded (`Delivered`); a cancellation has a
cause recorded before it (`Caused`).

`SnapshotProofs` on `IncrementalUpdate` (any snapshots, bundles, profiles and
mode):

* `TypeCorrect`: every row belongs to a unit of a committed snapshot.
* `Equivalence`: the text of an update is that of a full ingestion. The proof
  shows that a row the copy's WHERE clause matches is, once relabelled, the row
  that would have been written (`NewTextRow` equals `TextRow`); the invariant
  keeps the snapshot committed and the text built while the update goes on.
* `SpacesApart`: by induction over the vectors, a copied or cached row carries
  the profile and hash it is stored under.
* `CompleteUpdates`: the invariant adds why `complete` was reported
  (`CompleteInv`: nothing was barred from embedding and nothing missing); a later
  rebuild of the same snapshot replaces every vector it removes.
* `ReuseIsSound` (`ReuseKeepsProvenance`): a unit that the comparison reports as
  reusable rests on the same inputs in both bundles.

`SnapshotProofs` on `FactualDerivation` (any components, symbols, artifacts,
versions, limits, orders and finite graphs): `DerivationTyped`,
`DerivationComplete`, `DerivationGrounded`, `DerivationRepeats`. The invariant is
`DerivationInv`:

* What is derived stays below the least fixed point (`Bounded`), because what is
  linked in a set of derived facts was linked in the observed ones. That nothing
  is missing at the end needs `Looping`: while no rule of the round had anything
  accepted and no limit was met, each rule that has had its turn finds nothing
  new (`Silent`), so the facts a complete derivation ends with are closed under
  both rules, and such a set holds the least fixed point.
* A lineage has no cycle because each derived fact, stored or known, rests on
  facts that were there before it: of any set of derived facts one has all its
  inputs outside the set (`Founded`, part of `Traced`), which a batch of a rule
  and a commit both keep (`FoundedGrows`). That the recursive `Grounded` then
  finds every fact within as many steps as there are facts follows by induction
  over the steps: each adds a fact, or there is none left to add.
* A derivation without limits goes through rounds that the observed facts, the
  version and the order determine (`Course`), and comes to rest in one state only
  (`SettlesOnce`). The one under way is on that course (`Coursing`), and what the
  last rebuild of a version came to rest in is stored (`Settled`); over the same
  observed facts the next one therefore derives every fact with the inputs it has.

`AnalysisRunnerProofs` (any files, contents, versions, workers):
`AnalysisTyped`, `ReuseIsCurrent`, `RunsAreEquivalent`. A state that no
cancelled run left holds what the analyzers make of the files it names, and the
entries a cancelled run left are named (`StoreIsSound`); each worker
(`WorkIsSound`) and each output (`OutputIsSound`) holds what they make of the
file as it was discovered; and a discovered path is in exactly one place, the
channel, a worker or the outputs (`EachOnce`, `NoneLost`), so that a run that
ends without cancellation has every one of them. What one pass over the
dependencies leaves exists, by induction over the paths, and has in it every
path that depends on a changed one, which is what `ReuseIsCurrent` needs of it.

`QueryExecutionProofs` (any units, relations, scores, decisions, limits, number
of queries, activations and faults): `QueryTyped`, `FusionKeepsOrder`,
`ScoresTurnExactRound`, `PlacesKeepExact`,
`TransfersAuthorized`, `AnswersRest`, `SpendingRecorded`, `CreatesDurable`. The
invariant says, place by place of a `Create`, what is in its row, its package
and its history: the row is blank before `Start` (`Blank`) and open after it
(`Open`), everything retrieved is of the pinned snapshot (`Scoped`) and in the
order of its ranks but for pairs turned round (`Ranks`), the package keeps its limit and nothing denied
(`Packaged`), nothing is sent before the provider is called (`Unsent`) and the
package is then (`Called`, `Transferred`), an outcome rests on what was sent and
tells of it before it is stored and as it is stored (`Ready`, `Stored`), and what
the caller is told is in the store (`Told`). Fusion and package are folds over
sorted sequences: the first part of the module proves what a fold keeps, that
`InOrder` sorts, and that shares fall with the rank. Which pairs `FusionKeepsOrder`
excepts the next two say: any two exact matches whose scores differ by a whole
part, the lower above zero, are turned round, and none is while no exact match has
a score. `CreatesDurable` is proved
under `SignalsColumn`, as the run checks it: without that column it is false
(section 4, disagreements).

`ContextPackagesProofs` (any items, scores, policies, costs, limits, number of
calls and restarts): `ContextAccounts`, `ContextSupported`, `ContextComplete`.
The invariant `ContextInv` says of every cursor the client may hold that what was
read is the sequence it was issued for up to its offset (`CursorOK`), of the view
of a call that it is a snapshot which has the inputs of its facts, and of a
package that it has the three properties from `Build` to its delivery; `BuildKeeps`
is the step with something to show.

* Pages: a cursor that resumes finds the sequence it was issued for, which has
  every authorised item once (`SequenceAll`, from a strict order of the candidates
  and a lemma on ranks), so two stretches that follow each other are apart, and
  up to the end they are all (`Stretches`, `BuildAccounts`).
* Support: what is authorised stands by itself (`AuthorisedStands`), hence it has
  the inputs of its facts and so all they are derived from, which is the least
  such set (`BasisWithin`); an entity is carried by the fact that names it
  (`AuthorisedGrounded`). Nothing is asked of `Inputs`: the argument holds for
  cyclic lineages too.
* Completeness: without a degradation each place between the retrieval and the
  page has lost none of what was handed over, the closure included: what it has not given up it has accepted
  (`AcceptKeeps`, `CloseKeeps`, by induction over the relations). Nothing is asked
  of `Choice` but that it picks from the page, and nothing of what a retrieval
  finds. A retrieval that handed over fewer than it keeps has cut nothing
  (`BelowTheLimit`, by the ranks of what matched).

`SchemaMigrationsProofs` (any callers, catalogs and bounds):

* `TypesHold`, `HistoryIsKept`, `ReportsStayTrue`: types, `SchemaIsHistory` and
  `ReportsAreTrue`, which are inductive together with two facts: whoever may still
  touch the database, gone or not, has the lock (`Holders`), and while a migrator
  has it the rows it works from are the history (`Current`). From these the pending
  migration is the one behind the schema and can be applied (`NextApplies`), so
  that the refusals in `Apply` and `Confirm` never happen; a report stays true
  because the schema only grows.

The assumptions used are the named ASSUMEs of the modules, which TLC evaluates in
the passing runs: no owner is the empty token, the lease is positive, bounds are
natural numbers; the owners of the queue are the workers and the resumers
(`PipelineAssumption`); finitely many calls, each with a number of batches and
workers, and answers within `MaxActual` (`GatewayAssumption`); `NoConfig` is no configuration; units lie in
artifacts their bundle holds (`UpdateAssumption`); at least one analyzer version
and one worker (`AnalysisAssumption`); exact shares (`FusionAssumption`) and
relations within a snapshot (`QueryAssumption`); a catalog is not empty and has
no migration twice; a snapshot starts with finitely many facts, all of them
observed (`DerivationAssumption`); there are finitely many items, numbered, of one
kind each, a fact rests on some evidence and has that of its inputs, and a
retrieval keeps at least one candidate (`ContextAssumption`).

## 6. What is only model-checked

* Liveness: `AcceptedJobsEnd`, `EveryCallReturns`, `RunsEnd`, `DerivationsEnd`,
  `CreatesReturn`, `CallsEnd`. TLAPS does not reason about fairness here.
* What a recursive definition computes for every input, beyond what the
  properties need of it. Where a proof needs an induction (the folds of a query,
  the pass over the dependencies, the loops of selection and closure, the steps
  of a lineage), it is one over a set of indices, rounds or paths, from the least
  element of a well-founded order; the induction theorems of the library take
  operators, which the provers used do not instantiate.

## 7. What is not modelled

* Analyzers, source discovery, digests, normalisation, redaction, validation,
  the bundle codec: pure functions of their input, with no state between calls;
  what could be wrong in them is in their data, which unit tests enumerate. This
  is the larger part of the code by lines.
* Evaluation and benchmark, about ten thousand lines: offline tools over recorded
  cases, one goroutine, no state shared with the server.
* HTTP, CLI and configuration: translation around ports that are modelled. Of the
  MCP adapter, the tools are (`Ask`, `Record`, `Deliver`); the transport is not,
  nor the `manu_evidence` resource.
* AI providers: one HTTP call; what it may answer is `Reply` in two modules.
* The planner of factual updates (`factual_incremental.go`) and
  `context_gateway_projection.go`: pure, and the latter not used in production.
* Of the migrations, their SQL, and the checks of file names and statements.
* What makes a selection good: `Gain` and `Choice` decide which items are shown as
  the code does, and no property says that they decide well.
* In what is modelled: diagnostics, observers, logging and metrics; counts of a
  bundle in the pipeline (they are constant); the parsing of a multipart body
  (one step that succeeds or changes nothing); directories that nothing removes
  after a crash (no code or document promises their removal).
