----------------------------- MODULE JobLifecycle -----------------------------
(***************************************************************************)
(* What the job queue promises its callers, whichever store implements it: *)
(* the JobStore port of internal/ingestion/jobs.go and the semantics that  *)
(* MemoryStore and the PostgreSQL JobStore share.  Time is abstracted to   *)
(* one bit per job, lapsed: the lease of a running job has run out.  A     *)
(* caller whose clock reading is older than its commit may still succeed   *)
(* under a lapsed lease, and a lease granted by a slow call may be lapsed  *)
(* when it is granted, so the bit never forbids a holder's call: what      *)
(* fences a holder is that nobody has taken the job from it.               *)
(***************************************************************************)
EXTENDS Integers

CONSTANTS
    Jobs,     \* factual identities accepted by Create
    Owners    \* lease owner tokens

NoOwner == ""

ASSUME OwnersAssumption == NoOwner \notin Owners

Validation           == 0
CanonicalPersistence == 1
TextualProjection    == 2
RelationalProjection == 3
EmbeddingProjection  == 4
Activation           == 5
Stages == Validation..Activation

States == {"absent", "pending", "running", "completed", "partial", "failed"}
Ended  == {"completed", "partial", "failed"}

VARIABLE queue

Entries ==
    [state : States, stage : Stages, holder : Owners \cup {NoOwner},
     lapsed : BOOLEAN, cancelled : BOOLEAN]

NoEntry ==
    [state |-> "absent", stage |-> Validation, holder |-> NoOwner,
     lapsed |-> FALSE, cancelled |-> FALSE]

LifecycleTypeOK == queue \in [Jobs -> Entries]

LifecycleInit == queue = [id \in Jobs |-> NoEntry]

----------------------------------------------------------------------------
Held(o, id) == queue[id].state = "running" /\ queue[id].holder = o

\* Mutant of Free: only pending jobs are claimed.
FreeIfPending(id) == ~queue[id].cancelled /\ queue[id].state = "pending"

Free(id) ==
    /\ ~queue[id].cancelled
    /\ queue[id].state = "pending" \/ (queue[id].state = "running" /\ queue[id].lapsed)

Follows(from, to) == to = from \/ to = from + 1

\* A call that ends or interrupts the job leaves it without a lease.
Release(id, state, stage) ==
    [queue EXCEPT ![id].state = state, ![id].stage = stage,
                  ![id].holder = NoOwner, ![id].lapsed = FALSE]

Submit(id) ==
    /\ queue[id].state = "absent"
    /\ queue' = [queue EXCEPT ![id].state = "pending"]

Take(o, id) ==
    /\ Free(id)
    /\ \E late \in BOOLEAN :
          queue' = [queue EXCEPT ![id].state = "running", ![id].holder = o, ![id].lapsed = late]

Renew(o, id) ==
    /\ Held(o, id)
    /\ \E late \in BOOLEAN : queue' = [queue EXCEPT ![id].lapsed = late]

Advance(o, id, stage) ==
    /\ Held(o, id)
    /\ Follows(queue[id].stage, stage)
    /\ queue' = [queue EXCEPT ![id].stage = stage]

Finish(o, id) ==
    /\ Held(o, id)
    /\ queue[id].stage = Activation
    /\ queue' = Release(id, "completed", Activation)

Suspend(o, id, stage) ==
    /\ Held(o, id)
    /\ Follows(queue[id].stage, stage)
    /\ queue' = Release(id, "partial", stage)

Resume(o, id) ==
    /\ queue[id].state = "partial"
    /\ queue[id].stage = EmbeddingProjection
    /\ \E late \in BOOLEAN :
          queue' = [queue EXCEPT ![id].state = "running", ![id].holder = o, ![id].lapsed = late]

GiveUp(o, id) ==
    /\ Held(o, id)
    /\ queue' = Release(id, "failed", queue[id].stage)

CancelJob(id) ==
    /\ queue[id].state \in {"pending", "running"}
    /\ queue' = [Release(id, "failed", queue[id].stage) EXCEPT ![id].cancelled = TRUE]

\* Time passes: leases nobody renewed run out.
Lapse(ids) ==
    /\ \A id \in ids : queue[id].state = "running"
    /\ queue' = [id \in Jobs |-> [queue[id] EXCEPT !.lapsed = @ \/ id \in ids]]

LifecycleNext ==
    \/ \E ids \in SUBSET Jobs : Lapse(ids)
    \/ \E id \in Jobs : Submit(id) \/ CancelJob(id)
    \/ \E o \in Owners, id \in Jobs :
          \/ Take(o, id) \/ Renew(o, id) \/ Finish(o, id) \/ Resume(o, id) \/ GiveUp(o, id)
          \/ \E stage \in Stages : Advance(o, id, stage) \/ Suspend(o, id, stage)

LifecycleSpec == LifecycleInit /\ [][LifecycleNext]_queue
=============================================================================
