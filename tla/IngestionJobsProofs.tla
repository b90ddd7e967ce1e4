-------------------------- MODULE IngestionJobsProofs --------------------------
(***************************************************************************)
(* Proofs about the PostgreSQL job store, for every set of jobs and owners *)
(* and every value of the bounds, and about the staging of the bundles its *)
(* jobs name.                                                              *)
(*                                                                         *)
(* Each transaction writes one job and the stage rows of that job, so the  *)
(* invariant is a property of the pair of them, and the proof that a step  *)
(* keeps it is about the pair the transaction writes (lemma OneJobStep).   *)
(***************************************************************************)
EXTENDS IngestionJobs, BundleStaging, TLAPS

\* The rows of one job.
Histories == [Stages -> StageRows]

\* A job that has not been claimed has never left the first stage, and one
\* that was never accepted has nothing written about it.  Claim sends a pending
\* job to the first stage: without this fact it could leave completed rows
\* beyond the current stage.
Unstarted(j) ==
    /\ j.state = "absent" => j = AbsentJob
    /\ j.state = "pending" => j.stage = Validation

Mirrors(j, h) ==
    /\ h[j.stage].state = j.state
    /\ h[j.stage].owner = j.owner
    /\ h[j.stage].expires = j.expires

Earlier(j, h) ==
    \A s \in Stages : s < j.stage => /\ h[s].state = "completed"
                                     /\ h[s].owner = NoOwner
                                     /\ h[s].expires = NoTime

Later(j, h) == \A s \in Stages : s > j.stage => h[s] = AbsentRow

Within(j, h) == \A s \in Stages : h[s].attempts <= j.attempts /\ h[s].items <= j.counts

Leased(j) ==
    IF j.state = "running" THEN j.owner \in Owners /\ j.expires \in Nat
                           ELSE j.owner = NoOwner /\ j.expires = NoTime

Sound(j, h) ==
    Unstarted(j) /\ Mirrors(j, h) /\ Earlier(j, h) /\ Later(j, h) /\ Within(j, h) /\ Leased(j)

\* The inductive invariant.
IInv == TypeOK /\ \A id \in Jobs : Sound(jobs[id], rows[id])

----------------------------------------------------------------------------
LEMMA IInvImplies == IInv => StageHistoryConsistent /\ LeasesMatchState
  BY DEF IInv, Sound, Mirrors, Earlier, Later, Within, Leased, StageHistoryConsistent,
         CurrentRowMirrorsJob, HistoryComplete, RowsWithinJob, LeasesMatchState,
         LeaseWhileRunning

LEMMA AbsentTyped == AbsentJob \in JobRows /\ AbsentRow \in StageRows
  BY DEF AbsentJob, AbsentRow, JobRows, StageRows, JobStates, Stages, Validation, Activation,
         NoOwner, NoTime

LEMMA InitIInv == Init => IInv
<1> SUFFICES ASSUME Init PROVE IInv
  OBVIOUS
<1>1. TypeOK
  BY AbsentTyped, JobsAssumption DEF Init, TypeOK
<1>2. ASSUME NEW id \in Jobs PROVE Sound(jobs[id], rows[id])
  BY <1>2 DEF Init, Sound, Unstarted, Mirrors, Earlier, Later, Within, Leased,
     AbsentJob, AbsentRow, Stages, Validation, Activation
<1> QED
  BY <1>1, <1>2 DEF IInv

\* A transaction that writes job id and its rows, and nothing else.
LEMMA OneJobStep ==
  ASSUME IInv, NEW id \in Jobs, NEW j \in JobRows, NEW h \in Histories, Sound(j, h),
         jobs' = [jobs EXCEPT ![id] = j], rows' = [rows EXCEPT ![id] = h], now' = now
  PROVE  IInv'
<1>1. TypeOK'
  BY DEF IInv, TypeOK, Histories
<1>2. ASSUME NEW k \in Jobs PROVE Sound(jobs'[k], rows'[k])
  <2>1. CASE k = id
    BY <2>1 DEF IInv, TypeOK
  <2>2. CASE k # id
    BY <2>2 DEF IInv, TypeOK
  <2> QED
    BY <2>1, <2>2
<1>3. (\A k \in Jobs : Sound(jobs[k], rows[k]))'
  BY <1>2
<1> QED
  BY <1>1, <1>3 DEF IInv

----------------------------------------------------------------------------
(* The stage row statements, on typed rows.                                *)

LEMMA EnsureTyped ==
  ASSUME NEW r \in StageRows
  PROVE  /\ EnsureRow(r) \in StageRows
         /\ r.state # "absent" => EnsureRow(r) = r
         /\ r.state = "absent" => EnsureRow(r).state = "pending"
         /\ EnsureRow(r).attempts = r.attempts /\ EnsureRow(r).owner = r.owner
         /\ EnsureRow(r).expires = r.expires /\ EnsureRow(r).items = r.items
<1>1. CASE r.state = "absent"
  BY <1>1 DEF EnsureRow, StageRows, JobStates
<1>2. CASE r.state # "absent"
  BY <1>2 DEF EnsureRow
<1> QED
  BY <1>1, <1>2

LEMMA StartTyped ==
  ASSUME NEW r \in StageRows, NEW o \in Owners, NEW e \in Nat
  PROVE  LET q == StartRow(r, o, e) IN
         /\ q \in StageRows
         /\ q.state = "running" /\ q.owner = o /\ q.expires = e
         /\ q.items = r.items /\ q.attempts = r.attempts + 1
<1> DEFINE f == EnsureRow(r)
<1>1. f \in StageRows /\ f.items = r.items /\ f.attempts = r.attempts
  BY EnsureTyped
<1>2. StartRow(r, o, e) = [f EXCEPT !.state = "running", !.attempts = f.attempts + 1,
                                    !.owner = o, !.expires = e]
  BY DEF StartRow
<1> HIDE DEF f
<1>3. StartRow(r, o, e) \in StageRows
  <2>1. /\ "running" \in JobStates /\ f.attempts + 1 \in Nat
        /\ o \in Owners \cup {NoOwner} /\ e \in Int
    BY <1>1 DEF JobStates, StageRows
  <2> QED
    BY <1>1, <1>2, <2>1 DEF StageRows
<1>4. /\ StartRow(r, o, e).state = "running" /\ StartRow(r, o, e).owner = o
      /\ StartRow(r, o, e).expires = e
      /\ StartRow(r, o, e).items = f.items /\ StartRow(r, o, e).attempts = f.attempts + 1
  BY <1>1, <1>2 DEF StageRows
<1> QED
  BY <1>1, <1>3, <1>4

LEMMA RefreshTyped ==
  ASSUME NEW r \in StageRows, NEW j \in JobRows
  PROVE  LET q == RefreshRow(r, j) IN
         /\ q \in StageRows
         /\ q.state = "running" /\ q.owner = j.owner /\ q.expires = j.expires
         /\ q.items = j.counts /\ q.attempts = r.attempts
<1> DEFINE f == EnsureRow(r)
<1>1. f \in StageRows /\ f.attempts = r.attempts
  BY EnsureTyped
<1>2. RefreshRow(r, j) = [f EXCEPT !.state = "running", !.items = j.counts,
                                   !.owner = j.owner, !.expires = j.expires]
  BY DEF RefreshRow
<1>3. j.counts \in Nat /\ j.owner \in Owners \cup {NoOwner} /\ j.expires \in Int
  BY DEF JobRows
<1> HIDE DEF f
<1> QED
  BY <1>1, <1>2, <1>3 DEF StageRows, JobStates

LEMMA FinishTyped ==
  ASSUME NEW r \in StageRows, NEW s \in JobStates, NEW n \in Nat
  PROVE  LET q == FinishRow(r, s, n) IN
         /\ q \in StageRows
         /\ q.state = s /\ q.owner = NoOwner /\ q.expires = NoTime
         /\ q.items = n /\ q.attempts = r.attempts
<1> DEFINE f == EnsureRow(r)
<1>1. f \in StageRows /\ f.attempts = r.attempts
  BY EnsureTyped
<1>2. FinishRow(r, s, n) = [f EXCEPT !.state = s, !.items = n,
                                     !.owner = NoOwner, !.expires = NoTime]
  BY DEF FinishRow
<1> HIDE DEF f
<1>3. FinishRow(r, s, n) \in StageRows
  <2>1. NoOwner \in Owners \cup {NoOwner} /\ NoTime \in Int
    BY DEF NoTime
  <2> QED
    BY <1>1, <1>2, <2>1 DEF StageRows
<1>4. /\ FinishRow(r, s, n).state = s /\ FinishRow(r, s, n).owner = NoOwner
      /\ FinishRow(r, s, n).expires = NoTime
      /\ FinishRow(r, s, n).items = n /\ FinishRow(r, s, n).attempts = f.attempts
  BY <1>1, <1>2 DEF StageRows
<1> QED
  BY <1>1, <1>3, <1>4

\* What the invariant says of one job and its rows.
LEMMA Typed ==
  ASSUME IInv, NEW id \in Jobs
  PROVE  /\ jobs[id] \in JobRows /\ rows[id] \in Histories /\ Sound(jobs[id], rows[id])
         /\ now \in Nat
         /\ \A s \in Stages : rows[id][s] \in StageRows
         /\ jobs[id].stage \in Stages
  BY JobsAssumption DEF IInv, TypeOK, Histories, JobRows

LEMMA StagesAre == Stages = {0, 1, 2, 3, 4, 5} /\ Stages \subseteq Int
  BY DEF Stages, Validation, Activation

----------------------------------------------------------------------------
(* The two ways a transaction writes stage rows.                           *)

\* The job row j may be written over j0.
MayFollow(j0, j) ==
    /\ Unstarted(j) /\ Leased(j)
    /\ j.counts >= j0.counts
    /\ j.attempts >= j0.attempts
    /\ j0.state \notin {"completed", "failed"}
    /\ j0.state = "partial" => j.state = "running" /\ j.stage = EmbeddingProjection
    /\ j0.owner # NoOwner /\ j.owner # NoOwner /\ j.owner # j0.owner => j0.expires <= now

\* r is the stage row of a job whose current stage it is, q that of a stage left.
Records(j, r) ==
    /\ r.state = j.state /\ r.owner = j.owner /\ r.expires = j.expires
    /\ r.attempts <= j.attempts /\ r.items <= j.counts

Closes(j, q) ==
    /\ q.state = "completed" /\ q.owner = NoOwner /\ q.expires = NoTime
    /\ q.attempts <= j.attempts /\ q.items <= j.counts

\* The current stage, of, is closed with q, and the stage s opened with r.
Passed(h0, of, q, s, r) == [h0 EXCEPT ![of] = q, ![s] = r]

\* The row of the current stage is written.
LEMMA WriteSameStage ==
  ASSUME NEW j0 \in JobRows, NEW h0 \in Histories, Sound(j0, h0),
         NEW j \in JobRows, NEW r \in StageRows, NEW h, h = [h0 EXCEPT ![j.stage] = r],
         j.stage = j0.stage, MayFollow(j0, j), Records(j, r)
  PROVE  /\ h \in Histories
         /\ Sound(j, h)
         /\ \A s \in Stages : h0[s].state = "completed" => h[s] = h0[s]
<1>1. j.stage \in Stages /\ Stages \subseteq Int
  BY StagesAre DEF JobRows
<1>2. \A s \in Stages : h[s] = IF s = j.stage THEN r ELSE h0[s]
  BY <1>1 DEF Histories
<1>3. h \in Histories
  BY <1>1 DEF Histories
<1>4. \A s \in Stages : h0[s] \in StageRows
  BY DEF Histories
<1>5. Mirrors(j, h)
  BY <1>1, <1>2 DEF Mirrors, Records
<1>6. Earlier(j, h) /\ Later(j, h)
  BY <1>1, <1>2 DEF Sound, Earlier, Later
<1>7. Within(j, h)
  <2> SUFFICES ASSUME NEW s \in Stages
               PROVE  h[s].attempts <= j.attempts /\ h[s].items <= j.counts
    BY DEF Within
  <2>1. CASE s = j.stage
    BY <1>2, <2>1 DEF Records
  <2>2. CASE s # j.stage
    <3>1. h[s] = h0[s] /\ h0[s].attempts <= j0.attempts /\ h0[s].items <= j0.counts
      BY <1>2, <2>2 DEF Sound, Within
    <3>2. /\ h0[s].attempts \in Nat /\ h0[s].items \in Nat
          /\ j.attempts \in Nat /\ j0.attempts \in Nat /\ j.counts \in Nat /\ j0.counts \in Nat
      BY <1>4 DEF StageRows, JobRows
    <3> QED
      BY <3>1, <3>2 DEF MayFollow
  <2> QED
    BY <2>1, <2>2
<1>8. ASSUME NEW s \in Stages, h0[s].state = "completed"
      PROVE  h[s] = h0[s]
  BY <1>1, <1>2, <1>8 DEF Sound, Mirrors, MayFollow
<1>9. Sound(j, h)
  BY <1>5, <1>6, <1>7 DEF Sound, MayFollow
<1> QED
  BY <1>3, <1>8, <1>9

\* The row of the current stage is completed and that of the next one written.
LEMMA WriteNextStage ==
  ASSUME NEW j0 \in JobRows, NEW h0 \in Histories, Sound(j0, h0),
         NEW j \in JobRows, NEW q \in StageRows, NEW r \in StageRows,
         NEW h, h = Passed(h0, j0.stage, q, j.stage, r),
         j.stage = j0.stage + 1, MayFollow(j0, j), Closes(j, q), Records(j, r)
  PROVE  /\ h \in Histories
         /\ Sound(j, h)
         /\ \A s \in Stages : h0[s].state = "completed" => h[s] = h0[s]
<1>1. j.stage \in Stages /\ j0.stage \in Stages /\ Stages \subseteq Int
  BY StagesAre DEF JobRows
<1>2. \A s \in Stages : h[s] = IF s = j.stage THEN r ELSE IF s = j0.stage THEN q ELSE h0[s]
  BY <1>1 DEF Histories, Passed
<1>3. h \in Histories
  BY <1>1 DEF Histories, Passed
<1>4. \A s \in Stages : h0[s] \in StageRows
  BY DEF Histories
<1>5. Mirrors(j, h)
  BY <1>1, <1>2 DEF Mirrors, Records
<1>6. Earlier(j, h)
  <2> SUFFICES ASSUME NEW s \in Stages, s < j.stage
               PROVE  h[s].state = "completed" /\ h[s].owner = NoOwner /\ h[s].expires = NoTime
    BY DEF Earlier
  <2>1. CASE s = j0.stage
    <3>1. s # j.stage
      BY <1>1, <2>1
    <3>2. h[s] = q
      BY <1>2, <2>1, <3>1
    <3> QED
      BY <3>2 DEF Closes
  <2>2. CASE s # j0.stage
    <3>1. s \in Int /\ j.stage \in Int /\ j0.stage \in Int
      BY <1>1
    <3>2. s < j0.stage /\ s # j.stage
      BY <3>1, <2>2
    <3>3. h[s] = h0[s]
      BY <1>2, <2>2, <3>2
    <3> QED
      BY <3>2, <3>3 DEF Sound, Earlier
  <2> QED
    BY <2>1, <2>2
<1>7. Later(j, h)
  <2> SUFFICES ASSUME NEW s \in Stages, s > j.stage PROVE h[s] = AbsentRow
    BY DEF Later
  <2>1. s \in Int /\ j.stage \in Int /\ j0.stage \in Int
    BY <1>1
  <2>2. s > j0.stage /\ s # j0.stage /\ s # j.stage
    BY <2>1
  <2>3. h[s] = h0[s]
    BY <1>2, <2>2
  <2> QED
    BY <2>2, <2>3 DEF Sound, Later
<1>8. Within(j, h)
  <2> SUFFICES ASSUME NEW s \in Stages
               PROVE  h[s].attempts <= j.attempts /\ h[s].items <= j.counts
    BY DEF Within
  <2>1. CASE s \in {j.stage, j0.stage}
    BY <1>2, <2>1 DEF Records, Closes
  <2>2. CASE s \notin {j.stage, j0.stage}
    <3>1. h[s] = h0[s] /\ h0[s].attempts <= j0.attempts /\ h0[s].items <= j0.counts
      BY <1>2, <2>2 DEF Sound, Within
    <3>2. /\ h0[s].attempts \in Nat /\ h0[s].items \in Nat
          /\ j.attempts \in Nat /\ j0.attempts \in Nat /\ j.counts \in Nat /\ j0.counts \in Nat
      BY <1>4 DEF StageRows, JobRows
    <3> QED
      BY <3>1, <3>2 DEF MayFollow
  <2> QED
    BY <2>1, <2>2
<1>9. ASSUME NEW s \in Stages, h0[s].state = "completed"
      PROVE  h[s] = h0[s]
  <2>1. s # j0.stage
    BY <1>9 DEF Sound, Mirrors, MayFollow
  <2>2. s # j.stage
    <3> SUFFICES ASSUME s = j.stage PROVE FALSE
      OBVIOUS
    <3>1. s > j0.stage
      BY <1>1
    <3> QED
      BY <3>1, <1>9 DEF Sound, Later, AbsentRow
  <2> QED
    BY <1>2, <2>1, <2>2
<1>10. Sound(j, h)
  BY <1>5, <1>6, <1>7, <1>8 DEF Sound, MayFollow
<1> QED
  BY <1>3, <1>9, <1>10

----------------------------------------------------------------------------
(* What every transaction that writes job id has in common.                *)

\* j is the row it writes and h the stage rows it leaves.
GoodWrite(id, j, h) ==
    /\ Sound(j, h)
    /\ jobs' = [jobs EXCEPT ![id] = j]
    /\ rows' = [rows EXCEPT ![id] = h]
    /\ now' = now
    /\ MayFollow(jobs[id], j)
    /\ j.stage >= jobs[id].stage
    /\ \A s \in Stages : rows[id][s].state = "completed" => h[s] = rows[id][s]

Transaction == \E id \in Jobs : \E j \in JobRows, h \in Histories : GoodWrite(id, j, h)

\* A transaction that writes the row of the current stage.
LEMMA SameStage ==
  ASSUME IInv, NEW id \in Jobs, NEW j \in JobRows, NEW r \in StageRows,
         NEW h, h = [rows[id] EXCEPT ![j.stage] = r],
         jobs' = [jobs EXCEPT ![id] = j], rows' = [rows EXCEPT ![id] = h], now' = now,
         j.stage = jobs[id].stage, MayFollow(jobs[id], j), Records(j, r)
  PROVE  Transaction
<1>1. jobs[id] \in JobRows /\ rows[id] \in Histories /\ Sound(jobs[id], rows[id])
  BY Typed
<1>2. /\ h \in Histories
      /\ Sound(j, h)
      /\ \A s \in Stages : rows[id][s].state = "completed" => h[s] = rows[id][s]
  BY <1>1, WriteSameStage
<1>3. j.stage >= jobs[id].stage
  BY <1>1, StagesAre DEF JobRows
<1>4. GoodWrite(id, j, h)
  BY <1>2, <1>3 DEF GoodWrite
<1> QED
  BY <1>2, <1>4 DEF Transaction

\* A transaction that completes the current stage and writes the next one.
LEMMA NextStage ==
  ASSUME IInv, NEW id \in Jobs, NEW j \in JobRows, NEW q \in StageRows, NEW r \in StageRows,
         NEW h, h = Passed(rows[id], jobs[id].stage, q, j.stage, r),
         jobs' = [jobs EXCEPT ![id] = j], rows' = [rows EXCEPT ![id] = h], now' = now,
         j.stage = jobs[id].stage + 1, MayFollow(jobs[id], j), Closes(j, q), Records(j, r)
  PROVE  Transaction
<1>1. jobs[id] \in JobRows /\ rows[id] \in Histories /\ Sound(jobs[id], rows[id])
  BY Typed
<1>2. /\ h \in Histories
      /\ Sound(j, h)
      /\ \A s \in Stages : rows[id][s].state = "completed" => h[s] = rows[id][s]
  BY <1>1, WriteNextStage
<1>3. j.stage >= jobs[id].stage
  BY <1>1, StagesAre DEF JobRows
<1>4. GoodWrite(id, j, h)
  BY <1>2, <1>3 DEF GoodWrite
<1> QED
  BY <1>2, <1>4 DEF Transaction

----------------------------------------------------------------------------
(* One lemma per transaction.                                              *)

\* What the invariant says of the row of the current stage.
LEMMA CurrentRow ==
  ASSUME IInv, NEW id \in Jobs
  PROVE  LET j == jobs[id]
             r == rows[id][j.stage] IN
         /\ j.stage \in Stages /\ r \in StageRows
         /\ r.state = j.state /\ r.owner = j.owner /\ r.expires = j.expires
         /\ r.attempts <= j.attempts /\ r.items <= j.counts
         /\ j.attempts \in Nat /\ j.counts \in Nat /\ r.attempts \in Nat /\ r.items \in Nat
  BY Typed DEF Sound, Mirrors, Within, JobRows, StageRows

LEMMA CreateIsGood == ASSUME IInv, NEW id \in Jobs, Create(id) PROVE Transaction
<1>1. PICK t \in Recent : jobs' = [jobs EXCEPT ![id].state = "pending", ![id].created = t]
  BY DEF Create
<1> DEFINE j == [AbsentJob EXCEPT !.state = "pending", !.created = t]
           r == EnsureRow(rows[id][Validation])
           h == [rows[id] EXCEPT ![Validation] = r]
<1>2. jobs[id] = AbsentJob
  BY Typed DEF Create, Sound, Unstarted
<1>3. j \in JobRows
  <2>1. "pending" \in JobStates /\ t \in Int
    BY Typed DEF JobStates, Recent
  <2> QED
    BY <2>1, AbsentTyped DEF JobRows
<1>4. /\ j.state = "pending" /\ j.stage = Validation /\ j.attempts = 0 /\ j.counts = 0
      /\ j.owner = NoOwner /\ j.expires = NoTime
  BY DEF AbsentJob
<1>5. /\ AbsentJob.state = "absent" /\ AbsentJob.stage = Validation /\ AbsentJob.attempts = 0
      /\ AbsentJob.counts = 0 /\ AbsentJob.owner = NoOwner /\ AbsentJob.expires = NoTime
  BY DEF AbsentJob
<1>6. jobs' = [jobs EXCEPT ![id] = j]
  BY <1>1, <1>2
<1>7. rows' = [rows EXCEPT ![id] = h] /\ now' = now
  BY DEF Create
<1> HIDE DEF j
<1>8. MayFollow(jobs[id], j)
  BY <1>2, <1>4, <1>5 DEF MayFollow, Unstarted, Leased
<1>9. r \in StageRows /\ Records(j, r)
  BY <1>2, <1>4, <1>5, CurrentRow, EnsureTyped DEF Records
<1>10. h = [rows[id] EXCEPT ![j.stage] = r]
  BY <1>4
<1> HIDE DEF r, h
<1> QED
  BY <1>2, <1>3, <1>4, <1>5, <1>6, <1>7, <1>8, <1>9, <1>10, SameStage

\* The readings of the clock are times, and so is a lease counted from them.
LEMMA Readings ==
  ASSUME IInv
  PROVE  /\ \A t \in Recent : t \in Nat /\ t <= now /\ t + Lease \in Nat
         /\ \A id \in Jobs : HolderTimes(id) \subseteq Recent
         /\ now \in Nat /\ NoTime \in Int
  BY Typed, JobsAssumption DEF Recent, HolderTimes, IInv, TypeOK, NoTime

LEMMA ClaimedRowTyped ==
  ASSUME NEW j0 \in JobRows, NEW o \in Owners, NEW t \in Nat, t + Lease \in Nat
  PROVE  LET j == ClaimedRow(j0, o, t) IN
         /\ j \in JobRows
         /\ j.state = "running" /\ j.owner = o /\ j.expires = t + Lease
         /\ j.stage = (IF j0.state = "running" THEN j0.stage ELSE Validation)
         /\ j.attempts = j0.attempts + 1 /\ j.counts = j0.counts
         /\ j.cancelled = j0.cancelled
<1>1. /\ "running" \in JobStates /\ NoTime \in Int /\ t \in Int /\ t + Lease \in Int
      /\ o \in Owners \cup {NoOwner}
  BY DEF JobStates, NoTime
<1>2. /\ j0.stage \in Stages /\ j0.attempts + 1 \in Nat /\ j0.started \in Int
      /\ Validation \in Stages
  BY StagesAre DEF JobRows, Validation
<1> DEFINE stage == IF j0.state = "running" THEN j0.stage ELSE Validation
           started == IF j0.started = NoTime THEN t ELSE j0.started
<1>3. stage \in Stages /\ started \in Int
  BY <1>1, <1>2
<1>4. ClaimedRow(j0, o, t) =
         [j0 EXCEPT !.state = "running", !.stage = stage, !.attempts = j0.attempts + 1,
                    !.owner = o, !.expires = t + Lease, !.started = started,
                    !.finished = NoTime]
  BY DEF ClaimedRow
<1>5. stage = (IF j0.state = "running" THEN j0.stage ELSE Validation)
  OBVIOUS
<1> HIDE DEF stage, started
<1>6. ClaimedRow(j0, o, t) \in JobRows
  BY <1>1, <1>2, <1>3, <1>4 DEF JobRows
<1>7. /\ ClaimedRow(j0, o, t).state = "running" /\ ClaimedRow(j0, o, t).owner = o
      /\ ClaimedRow(j0, o, t).expires = t + Lease /\ ClaimedRow(j0, o, t).stage = stage
      /\ ClaimedRow(j0, o, t).attempts = j0.attempts + 1
      /\ ClaimedRow(j0, o, t).counts = j0.counts
      /\ ClaimedRow(j0, o, t).cancelled = j0.cancelled
  BY <1>4 DEF JobRows
<1> QED
  BY <1>5, <1>6, <1>7

LEMMA EndedRowTyped ==
  ASSUME NEW j0 \in JobRows, NEW state \in JobStates, NEW stage \in Stages, NEW n \in Nat,
         NEW t \in Int
  PROVE  LET j == EndedRow(j0, state, stage, n, t) IN
         /\ j \in JobRows
         /\ j.state = state /\ j.owner = NoOwner /\ j.expires = NoTime
         /\ j.stage = stage /\ j.attempts = j0.attempts /\ j.counts = n
         /\ j.cancelled = j0.cancelled
<1>1. NoTime \in Int /\ NoOwner \in Owners \cup {NoOwner}
  BY DEF NoTime
<1>2. EndedRow(j0, state, stage, n, t) \in JobRows
  BY <1>1 DEF EndedRow, JobRows
<1>3. LET j == EndedRow(j0, state, stage, n, t) IN
      /\ j.state = state /\ j.owner = NoOwner /\ j.expires = NoTime
      /\ j.stage = stage /\ j.attempts = j0.attempts /\ j.counts = n
      /\ j.cancelled = j0.cancelled
  BY DEF EndedRow, JobRows
<1> QED
  BY <1>2, <1>3

LEMMA ClaimIsGood == ASSUME IInv, NEW o \in Owners, Claim(o) PROVE Transaction
<1>1. PICK t \in Recent, locked \in SUBSET Jobs :
         \E id \in Oldest({k \in Jobs \ locked : Claimable(jobs[k], t)}) :
            /\ Write(id, ClaimedRow(jobs[id], o, t))
            /\ rows' = [rows EXCEPT ![id][ClaimedRow(jobs[id], o, t).stage] =
                                       StartRow(@, o, ClaimedRow(jobs[id], o, t).expires)]
            /\ UNCHANGED now
  BY DEF Claim
<1>2. PICK id \in Jobs :
         /\ Claimable(jobs[id], t)
         /\ Write(id, ClaimedRow(jobs[id], o, t))
         /\ rows' = [rows EXCEPT ![id][ClaimedRow(jobs[id], o, t).stage] =
                                    StartRow(@, o, ClaimedRow(jobs[id], o, t).expires)]
         /\ UNCHANGED now
  BY <1>1 DEF Oldest
<1> DEFINE j0 == jobs[id]
           j  == ClaimedRow(j0, o, t)
           r  == StartRow(rows[id][j.stage], o, j.expires)
           h  == [rows[id] EXCEPT ![j.stage] = r]
<1>3. j0 \in JobRows /\ j0.state \in {"pending", "running"}
  BY <1>2, Typed DEF Claimable
<1>4. t \in Nat /\ t <= now /\ t + Lease \in Nat /\ now \in Nat
  BY Readings
<1>5. /\ j \in JobRows
      /\ j.state = "running" /\ j.owner = o /\ j.expires = t + Lease
      /\ j.stage = (IF j0.state = "running" THEN j0.stage ELSE Validation)
      /\ j.attempts = j0.attempts + 1 /\ j.counts = j0.counts
  BY <1>3, <1>4, ClaimedRowTyped
<1>6. j.stage = j0.stage
  BY <1>3, <1>5, Typed DEF Sound, Unstarted
<1>7. MayFollow(j0, j)
  <2>1. Unstarted(j) /\ Leased(j)
    BY <1>4, <1>5 DEF Unstarted, Leased
  <2>2. j.counts >= j0.counts /\ j.attempts >= j0.attempts
    BY <1>3, <1>5 DEF JobRows
  <2>3. j0.owner # NoOwner => j0.expires <= now
    <3>1. j0.owner # NoOwner => j0.state = "running" /\ j0.expires \in Nat
      BY Typed DEF Sound, Leased
    <3> QED
      BY <1>2, <1>4, <3>1 DEF Claimable
  <2> QED
    BY <1>3, <2>1, <2>2, <2>3 DEF MayFollow
<1>8. r \in StageRows /\ Records(j, r)
  <2>1. rows[id][j.stage] \in StageRows /\ j.expires \in Nat
    BY <1>4, <1>5, <1>6, CurrentRow
  <2>2. /\ r \in StageRows
        /\ r.state = "running" /\ r.owner = o /\ r.expires = j.expires
        /\ r.items = rows[id][j.stage].items /\ r.attempts = rows[id][j.stage].attempts + 1
    BY <2>1, StartTyped
  <2> HIDE DEF j, r
  <2> QED
    BY <1>5, <1>6, <2>1, <2>2, CurrentRow DEF Records
<1>9. jobs' = [jobs EXCEPT ![id] = j]
  BY <1>2 DEF Write
<1>10. rows' = [rows EXCEPT ![id] = h] /\ now' = now
  BY <1>2
<1> HIDE DEF j, r
<1> QED
  BY <1>5, <1>6, <1>7, <1>8, <1>9, <1>10, SameStage

\* A transaction that ends the job at its current stage.
LEMMA EndIsGood ==
  ASSUME IInv, NEW id \in Jobs, NEW j \in JobRows, NEW n \in Nat,
         jobs[id].state \in {"pending", "running"},
         j.state \in {"completed", "partial", "failed"},
         j.owner = NoOwner, j.expires = NoTime, j.stage = jobs[id].stage,
         j.attempts = jobs[id].attempts, j.counts = n, n >= jobs[id].counts,
         jobs' = [jobs EXCEPT ![id] = j],
         rows' = [rows EXCEPT ![id][jobs[id].stage] = FinishRow(@, j.state, n)],
         now' = now
  PROVE  Transaction
<1> DEFINE r == FinishRow(rows[id][j.stage], j.state, n)
           h == [rows[id] EXCEPT ![j.stage] = r]
<1>1. jobs[id] \in JobRows /\ jobs[id].attempts \in Nat /\ jobs[id].counts \in Nat
  BY Typed DEF JobRows
<1>2. MayFollow(jobs[id], j)
  BY <1>1 DEF MayFollow, Unstarted, Leased
<1>3. r \in StageRows /\ Records(j, r)
  <2>1. rows[id][j.stage] \in StageRows /\ j.state \in JobStates
    BY CurrentRow DEF JobStates
  <2>2. /\ r \in StageRows
        /\ r.state = j.state /\ r.owner = NoOwner /\ r.expires = NoTime
        /\ r.items = n /\ r.attempts = rows[id][j.stage].attempts
    BY <2>1, FinishTyped
  <2> HIDE DEF r
  <2> QED
    BY <1>1, <2>1, <2>2, CurrentRow DEF Records
<1>4. rows' = [rows EXCEPT ![id] = h]
  OBVIOUS
<1> HIDE DEF r
<1> QED
  BY <1>2, <1>3, <1>4, SameStage

LEMMA CompleteIsGood ==
  ASSUME IInv, NEW o \in Owners, NEW id \in Jobs, NEW n \in Nat, Complete(o, id, n)
  PROVE  Transaction
<1>1. PICK t \in HolderTimes(id) :
         /\ ActiveLease(jobs[id], o, t)
         /\ jobs[id].stage = Activation
         /\ n >= jobs[id].counts
         /\ Write(id, EndedRow(jobs[id], "completed", Activation, n, t))
         /\ rows' = [rows EXCEPT ![id][Activation] = FinishRow(@, "completed", n)]
         /\ UNCHANGED now
  BY DEF Complete
<1> DEFINE j == EndedRow(jobs[id], "completed", Activation, n, t)
<1>2. jobs[id] \in JobRows /\ t \in Int /\ Activation \in Stages /\ "completed" \in JobStates
  BY Typed, Readings, StagesAre DEF JobStates, Activation
<1>3. /\ j \in JobRows
      /\ j.state = "completed" /\ j.owner = NoOwner /\ j.expires = NoTime
      /\ j.stage = Activation /\ j.attempts = jobs[id].attempts /\ j.counts = n
  BY <1>2, EndedRowTyped
<1>4. jobs' = [jobs EXCEPT ![id] = j] /\ jobs[id].state = "running"
  BY <1>1 DEF Write, ActiveLease
<1> HIDE DEF j
<1>5. rows' = [rows EXCEPT ![id][jobs[id].stage] = FinishRow(@, j.state, n)] /\ now' = now
  BY <1>1, <1>3
<1> QED
  BY <1>1, <1>3, <1>4, <1>5, EndIsGood

LEMMA FailIsGood ==
  ASSUME IInv, NEW o \in Owners, NEW id \in Jobs, Fail(o, id)
  PROVE  Transaction
<1> DEFINE n == jobs[id].counts
<1>1. PICK t \in HolderTimes(id) :
         /\ ActiveLease(jobs[id], o, t)
         /\ Write(id, EndedRow(jobs[id], "failed", jobs[id].stage, n, t))
         /\ rows' = [rows EXCEPT ![id][jobs[id].stage] = FinishRow(@, "failed", n)]
         /\ UNCHANGED now
  BY DEF Fail
<1> DEFINE j == EndedRow(jobs[id], "failed", jobs[id].stage, n, t)
<1>2. /\ jobs[id] \in JobRows /\ t \in Int /\ jobs[id].stage \in Stages
      /\ "failed" \in JobStates /\ n \in Nat
  BY Typed, Readings, StagesAre DEF JobStates, JobRows
<1>3. /\ j \in JobRows
      /\ j.state = "failed" /\ j.owner = NoOwner /\ j.expires = NoTime
      /\ j.stage = jobs[id].stage /\ j.attempts = jobs[id].attempts /\ j.counts = n
  BY <1>2, EndedRowTyped
<1>4. jobs' = [jobs EXCEPT ![id] = j] /\ jobs[id].state = "running"
  BY <1>1 DEF Write, ActiveLease
<1> HIDE DEF j
<1>5. rows' = [rows EXCEPT ![id][jobs[id].stage] = FinishRow(@, j.state, n)] /\ now' = now
  BY <1>1, <1>3
<1>6. n >= jobs[id].counts
  BY <1>2
<1> HIDE DEF n
<1> QED
  BY <1>2, <1>3, <1>4, <1>5, <1>6, EndIsGood

LEMMA CancelIsGood ==
  ASSUME IInv, NEW id \in Jobs, Cancel(id)
  PROVE  Transaction
<1> DEFINE n == jobs[id].counts
<1>1. PICK t \in Recent :
         /\ jobs[id].state \in {"pending", "running"}
         /\ Write(id, [EndedRow(jobs[id], "failed", jobs[id].stage, n, t)
                          EXCEPT !.cancelled = TRUE])
         /\ rows' = [rows EXCEPT ![id][jobs[id].stage] = FinishRow(@, "failed", n)]
         /\ UNCHANGED now
  BY DEF Cancel
<1> DEFINE e == EndedRow(jobs[id], "failed", jobs[id].stage, n, t)
           j == [e EXCEPT !.cancelled = TRUE]
<1>2. /\ jobs[id] \in JobRows /\ t \in Int /\ jobs[id].stage \in Stages
      /\ "failed" \in JobStates /\ n \in Nat
  BY Typed, Readings, StagesAre DEF JobStates, JobRows
<1>3. /\ e \in JobRows
      /\ e.state = "failed" /\ e.owner = NoOwner /\ e.expires = NoTime
      /\ e.stage = jobs[id].stage /\ e.attempts = jobs[id].attempts /\ e.counts = n
  BY <1>2, EndedRowTyped
<1>4. jobs' = [jobs EXCEPT ![id] = j]
  BY <1>1 DEF Write
<1> HIDE DEF e
<1>5. /\ j \in JobRows
      /\ j.state = "failed" /\ j.owner = NoOwner /\ j.expires = NoTime
      /\ j.stage = jobs[id].stage /\ j.attempts = jobs[id].attempts /\ j.counts = n
  BY <1>3 DEF JobRows
<1> HIDE DEF j
<1>6. rows' = [rows EXCEPT ![id][jobs[id].stage] = FinishRow(@, j.state, n)] /\ now' = now
  BY <1>1, <1>5
<1>7. n >= jobs[id].counts
  BY <1>2
<1> HIDE DEF n
<1> QED
  BY <1>1, <1>2, <1>4, <1>5, <1>6, <1>7, EndIsGood

LEMMA HeartbeatIsGood ==
  ASSUME IInv, NEW o \in Owners, NEW id \in Jobs, Heartbeat(o, id)
  PROVE  Transaction
<1> DEFINE j0 == jobs[id]
           r0 == rows[id][j0.stage]
<1>1. PICK t \in HolderTimes(id) :
         /\ ActiveLease(j0, o, t)
         /\ rows[id][[j0 EXCEPT !.expires = t + Lease].stage].owner = o
         /\ Write(id, [j0 EXCEPT !.expires = t + Lease])
         /\ rows' = [rows EXCEPT ![id][[j0 EXCEPT !.expires = t + Lease].stage].expires =
                                    [j0 EXCEPT !.expires = t + Lease].expires]
         /\ UNCHANGED now
  BY DEF Heartbeat
<1> DEFINE j == [j0 EXCEPT !.expires = t + Lease]
           r == [r0 EXCEPT !.expires = t + Lease]
           h == [rows[id] EXCEPT ![j.stage] = r]
<1>2. j0 \in JobRows /\ t + Lease \in Nat /\ t + Lease \in Int
  BY <1>1, Typed, Readings
<1>3. /\ j \in JobRows
      /\ j.state = j0.state /\ j.owner = j0.owner /\ j.expires = t + Lease
      /\ j.stage = j0.stage /\ j.attempts = j0.attempts /\ j.counts = j0.counts
  BY <1>2 DEF JobRows
<1>4. j0.state = "running" /\ j0.owner = o
  BY <1>1 DEF ActiveLease
<1>5. MayFollow(j0, j)
  BY <1>2, <1>3, <1>4 DEF MayFollow, Unstarted, Leased, JobRows
<1>6. /\ r \in StageRows
      /\ r.state = r0.state /\ r.owner = r0.owner /\ r.expires = t + Lease
      /\ r.attempts = r0.attempts /\ r.items = r0.items
  BY <1>2, CurrentRow DEF StageRows
<1>7. Records(j, r)
  BY <1>3, <1>6, CurrentRow DEF Records
<1>8. jobs' = [jobs EXCEPT ![id] = j]
  BY <1>1 DEF Write
<1>9. rows' = [rows EXCEPT ![id] = h] /\ now' = now
  BY <1>1, <1>3
<1> HIDE DEF j, r
<1> QED
  BY <1>3, <1>5, <1>6, <1>7, <1>8, <1>9, SameStage

LEMMA AdvanceIsGood ==
  ASSUME IInv, NEW o \in Owners, NEW id \in Jobs, NEW stage \in Stages, NEW n \in Nat,
         AdvanceStage(o, id, stage, n)
  PROVE  Transaction
<1> DEFINE j0 == jobs[id]
           j  == [j0 EXCEPT !.stage = stage, !.counts = n]
           r0 == rows[id][stage]
<1>1. j0.state = "running" /\ n >= j0.counts /\ (stage = j0.stage \/ stage = j0.stage + 1)
  BY DEF AdvanceStage, ActiveLease, TransitionAllowed
<1>2. jobs' = [jobs EXCEPT ![id] = j] /\ now' = now
  BY DEF AdvanceStage, Write
<1>3. /\ stage = j0.stage => rows' = [rows EXCEPT ![id][stage] = RefreshRow(@, j)]
      /\ stage # j0.stage =>
            rows' = [rows EXCEPT ![id][j0.stage] = FinishRow(@, "completed", n),
                                 ![id][stage] = StartRow(@, o, j.expires)]
  BY DEF AdvanceStage
<1>4. j0 \in JobRows /\ Sound(j0, rows[id]) /\ rows[id] \in Histories /\ r0 \in StageRows
  BY Typed
<1>5. /\ j \in JobRows
      /\ j.state = j0.state /\ j.owner = j0.owner /\ j.expires = j0.expires
      /\ j.stage = stage /\ j.attempts = j0.attempts /\ j.counts = n
  BY <1>4 DEF JobRows
<1>6. j0.owner = o /\ o \in Owners /\ j0.expires \in Nat
  BY <1>1, <1>4 DEF Sound, Leased, AdvanceStage, ActiveLease
<1>7. MayFollow(j0, j)
  BY <1>1, <1>4, <1>5, <1>6 DEF MayFollow, Unstarted, Leased, JobRows
<1> HIDE DEF j
<1>8. CASE stage = j0.stage
  <2> DEFINE r == RefreshRow(r0, j)
             h == [rows[id] EXCEPT ![j.stage] = r]
  <2>1. /\ r \in StageRows
        /\ r.state = "running" /\ r.owner = j.owner /\ r.expires = j.expires
        /\ r.items = j.counts /\ r.attempts = r0.attempts
    BY <1>4, <1>5, RefreshTyped
  <2>2. rows' = [rows EXCEPT ![id] = h]
    BY <1>3, <1>5, <1>8
  <2> HIDE DEF r
  <2>3. Records(j, r)
    BY <1>1, <1>5, <1>8, <2>1, CurrentRow DEF Records
  <2> QED
    BY <1>2, <1>5, <1>7, <1>8, <2>1, <2>2, <2>3, SameStage
<1>9. CASE stage = j0.stage + 1
  <2> DEFINE c == rows[id][j0.stage]
             q == FinishRow(c, "completed", n)
             r == StartRow(r0, o, j.expires)
             h == Passed(rows[id], j0.stage, q, j.stage, r)
  <2>1. j0.stage \in Int /\ stage # j0.stage /\ stage > j0.stage
    BY <1>4, <1>9, StagesAre DEF JobRows
  <2>2. r0 = AbsentRow
    BY <1>4, <2>1 DEF Sound, Later
  <2>3. r0.attempts = 0 /\ r0.items = 0
    BY <2>2 DEF AbsentRow
  <2>4. c \in StageRows /\ "completed" \in JobStates
    BY CurrentRow DEF JobStates
  <2>5. /\ q \in StageRows
        /\ q.state = "completed" /\ q.owner = NoOwner /\ q.expires = NoTime
        /\ q.items = n /\ q.attempts = c.attempts
    BY <2>4, FinishTyped
  <2>6. /\ r \in StageRows
        /\ r.state = "running" /\ r.owner = o /\ r.expires = j.expires
        /\ r.items = r0.items /\ r.attempts = r0.attempts + 1
    <3>1. r0 \in StageRows /\ o \in Owners /\ j.expires \in Nat
      BY <1>4, <1>5, <1>6
    <3> HIDE DEF r0
    <3> QED
      BY <3>1, StartTyped
  <2>7. rows' = [rows EXCEPT ![id] = h]
    BY <1>3, <1>5, <2>1 DEF Passed
  <2>8. j0.attempts \in Nat /\ j0.attempts > 0
    BY <1>1, <1>4, <1>5 DEF AdvanceStage, Write, RowValid, JobRows, j
  <2> HIDE DEF q, r, h
  <2>9. Closes(j, q)
    BY <1>5, <2>5, CurrentRow DEF Closes
  <2>10. Records(j, r)
    BY <1>1, <1>5, <1>6, <2>3, <2>6, <2>8 DEF Records
  <2>11. h = Passed(rows[id], jobs[id].stage, q, j.stage, r)
    BY DEF h
  <2> QED
    BY <1>2, <1>5, <1>7, <1>9, <2>5, <2>6, <2>7, <2>9, <2>10, <2>11, NextStage
<1> QED
  BY <1>1, <1>8, <1>9

LEMMA PartialIsGood ==
  ASSUME IInv, NEW o \in Owners, NEW id \in Jobs, NEW stage \in Stages, NEW n \in Nat,
         Partial(o, id, stage, n)
  PROVE  Transaction
<1> DEFINE j0 == jobs[id]
           r0 == rows[id][stage]
<1>1. PICK t \in HolderTimes(id) :
         /\ ActiveLease(j0, o, t)
         /\ TransitionAllowed(j0.stage, stage)
         /\ n >= j0.counts
         /\ Write(id, EndedRow(j0, "partial", stage, n, t))
         /\ rows' = IF stage = j0.stage
                    THEN [rows EXCEPT ![id][stage] = FinishRow(@, "partial", n)]
                    ELSE [rows EXCEPT ![id][j0.stage] = FinishRow(@, "completed", n),
                                      ![id][stage]    = FinishRow(@, "partial", n)]
         /\ UNCHANGED now
  BY DEF Partial
<1> DEFINE j == EndedRow(j0, "partial", stage, n, t)
<1>2. j0.state = "running" /\ n >= j0.counts /\ (stage = j0.stage \/ stage = j0.stage + 1)
  BY <1>1 DEF ActiveLease, TransitionAllowed
<1>3. jobs' = [jobs EXCEPT ![id] = j] /\ now' = now
  BY <1>1 DEF Write
<1>4. /\ j0 \in JobRows /\ Sound(j0, rows[id]) /\ r0 \in StageRows
      /\ t \in Int /\ "partial" \in JobStates /\ "completed" \in JobStates
      /\ j0.attempts \in Nat
  BY Typed, Readings DEF JobStates, JobRows
<1>5. /\ j \in JobRows
      /\ j.state = "partial" /\ j.owner = NoOwner /\ j.expires = NoTime
      /\ j.stage = stage /\ j.attempts = j0.attempts /\ j.counts = n
  <2>1. j0 \in JobRows /\ t \in Int /\ "partial" \in JobStates
    BY <1>4
  <2> HIDE DEF j0
  <2> QED
    BY <2>1, EndedRowTyped
<1> HIDE DEF j
<1>6. CASE stage = j0.stage
  <2>1. rows' = [rows EXCEPT ![id][j0.stage] = FinishRow(@, j.state, n)]
    BY <1>1, <1>5, <1>6
  <2> QED
    BY <1>2, <1>3, <1>5, <1>6, <2>1, EndIsGood
<1>7. CASE stage = j0.stage + 1
  <2> DEFINE c == rows[id][j0.stage]
             q == FinishRow(c, "completed", n)
             r == FinishRow(r0, "partial", n)
             h == Passed(rows[id], j0.stage, q, j.stage, r)
  <2>1. j0.stage \in Int /\ stage # j0.stage /\ stage > j0.stage
    BY <1>4, <1>7, StagesAre DEF JobRows
  <2>2. r0.attempts = 0
    BY <1>4, <2>1 DEF Sound, Later, AbsentRow
  <2>3. /\ c \in StageRows /\ "completed" \in JobStates
        /\ r0 \in StageRows /\ "partial" \in JobStates
    BY CurrentRow, Typed DEF JobStates
  <2>4. /\ q \in StageRows
        /\ q.state = "completed" /\ q.owner = NoOwner /\ q.expires = NoTime
        /\ q.items = n /\ q.attempts = c.attempts
    BY <2>3, FinishTyped
  <2>5. /\ r \in StageRows
        /\ r.state = "partial" /\ r.owner = NoOwner /\ r.expires = NoTime
        /\ r.items = n /\ r.attempts = r0.attempts
    BY <2>3, FinishTyped
  <2>6. rows' = [rows EXCEPT ![id] = h]
    BY <1>1, <1>5, <2>1 DEF Passed
  <2> HIDE DEF q, r, h
  <2>7. MayFollow(j0, j)
    BY <1>2, <1>4, <1>5 DEF MayFollow, Unstarted, Leased
  <2>8. Closes(j, q)
    BY <1>5, <2>4, CurrentRow DEF Closes
  <2>9. Records(j, r)
    BY <1>4, <1>5, <2>2, <2>5 DEF Records
  <2>10. h = Passed(rows[id], jobs[id].stage, q, j.stage, r)
    BY DEF h
  <2> QED
    BY <1>3, <1>5, <1>7, <2>4, <2>5, <2>6, <2>7, <2>8, <2>9, <2>10, NextStage
<1> QED
  BY <1>2, <1>6, <1>7

LEMMA ResumeIsGood ==
  ASSUME IInv, NEW o \in Owners, NEW id \in Jobs, ResumePartial(o, id)
  PROVE  Transaction
<1> DEFINE j0 == jobs[id]
           Row(t) == [j0 EXCEPT !.state = "running", !.attempts = @ + 1, !.owner = o,
                                !.expires = t + Lease, !.finished = NoTime]
<1>1. PICK t \in Recent :
         /\ j0.state = "partial"
         /\ j0.stage = EmbeddingProjection
         /\ Write(id, Row(t))
         /\ rows' = [rows EXCEPT ![id][Row(t).stage] = StartRow(@, o, Row(t).expires)]
         /\ UNCHANGED now
  BY DEF ResumePartial
<1> DEFINE j == Row(t)
           r == StartRow(rows[id][j.stage], o, j.expires)
           h == [rows[id] EXCEPT ![j.stage] = r]
<1>2. j0 \in JobRows /\ j0.attempts \in Nat /\ j0.counts \in Nat
  BY Typed DEF JobRows
<1>3. /\ "running" \in JobStates /\ j0.attempts + 1 \in Nat /\ o \in Owners \cup {NoOwner}
      /\ t + Lease \in Nat /\ t + Lease \in Int /\ NoTime \in Int
  BY <1>2, Readings DEF JobStates
<1>4. j = [j0 EXCEPT !.state = "running", !.attempts = j0.attempts + 1, !.owner = o,
                     !.expires = t + Lease, !.finished = NoTime]
  OBVIOUS
<1>5. jobs' = [jobs EXCEPT ![id] = j] /\ now' = now
  BY <1>1 DEF Write
<1>6. rows' = [rows EXCEPT ![id] = h]
  BY <1>1
<1> HIDE DEF Row
<1>7. /\ j \in JobRows
      /\ j.state = "running" /\ j.owner = o /\ j.expires = t + Lease
      /\ j.stage = j0.stage /\ j.attempts = j0.attempts + 1 /\ j.counts = j0.counts
  BY <1>2, <1>3, <1>4 DEF JobRows
<1> HIDE DEF j
<1>8. MayFollow(j0, j)
  <2>1. j0.owner = NoOwner
    BY <1>1, Typed DEF Sound, Leased
  <2> QED
    BY <1>1, <1>2, <1>3, <1>7, <2>1 DEF MayFollow, Unstarted, Leased
<1>9. r \in StageRows /\ Records(j, r)
  <2>1. rows[id][j.stage] \in StageRows /\ j.expires \in Nat
    BY <1>3, <1>7, CurrentRow
  <2>2. /\ r \in StageRows
        /\ r.state = "running" /\ r.owner = o /\ r.expires = j.expires
        /\ r.items = rows[id][j.stage].items /\ r.attempts = rows[id][j.stage].attempts + 1
    BY <2>1, StartTyped
  <2> HIDE DEF r
  <2> QED
    BY <1>7, <2>1, <2>2, CurrentRow DEF Records
<1> HIDE DEF r
<1> QED
  BY <1>5, <1>6, <1>7, <1>8, <1>9, SameStage

----------------------------------------------------------------------------
(* The steps of the specification.                                         *)

\* Every step is the clock, a transaction of one job, or nothing.
LEMMA NextIsGood ==
  ASSUME IInv, Next
  PROVE  Transaction \/ Tick
<1>1. CASE Tick
  BY <1>1
<1>2. ASSUME NEW id \in Jobs, Create(id) \/ Cancel(id) PROVE Transaction
  BY <1>2, CreateIsGood, CancelIsGood
<1>3. ASSUME NEW o \in Owners, Claim(o) PROVE Transaction
  BY <1>3, ClaimIsGood
<1>4. ASSUME NEW o \in Owners, NEW id \in Jobs, ResumePartial(o, id) \/ Hold(o, id)
      PROVE  Transaction
  <2>1. 0..MaxCount \subseteq Nat
    BY JobsAssumption
  <2> QED
    BY <1>4, <2>1, ResumeIsGood, HeartbeatIsGood, AdvanceIsGood, CompleteIsGood,
       PartialIsGood, FailIsGood DEF Hold
<1> QED
  BY <1>1, <1>2, <1>3, <1>4 DEF Next

LEMMA StepIInv == IInv /\ [Next]_vars => IInv'
<1> SUFFICES ASSUME IInv, [Next]_vars PROVE IInv'
  OBVIOUS
<1>1. CASE Transaction
  <2>1. PICK id \in Jobs, j \in JobRows, h \in Histories : GoodWrite(id, j, h)
    BY <1>1 DEF Transaction
  <2> QED
    BY <2>1, OneJobStep DEF GoodWrite
<1>2. CASE Tick
  <2>1. now' \in 0..MaxTime
    BY <1>2, JobsAssumption DEF Tick, IInv, TypeOK
  <2> QED
    BY <1>2, <2>1 DEF Tick, IInv, TypeOK
<1>3. CASE UNCHANGED vars
  BY <1>3 DEF vars, IInv, TypeOK
<1> QED
  BY <1>1, <1>2, <1>3, NextIsGood

LEMMA Invariance == Spec => []IInv
  BY InitIInv, StepIInv, PTL DEF Spec

\* The tables only ever hold rows of their types.
THEOREM TypeCorrectness == Spec => []TypeOK
<1>1. IInv => TypeOK
  BY DEF IInv
<1> QED
  BY <1>1, Invariance, PTL

\* After every transaction of the store the stage history agrees with the job
\* row, however stale the clock readings and whoever the callers are.
THEOREM HistoryIsConsistent == Spec => []StageHistoryConsistent
  BY IInvImplies, Invariance, PTL

\* A job row carries a lease, with a real owner, exactly while it is running.
THEOREM LeasesAreExact == Spec => []LeasesMatchState
  BY IInvImplies, Invariance, PTL

----------------------------------------------------------------------------
(* What a step may never do.                                               *)

LEMMA StepCases ==
  ASSUME IInv, [Next]_vars
  PROVE  \/ Transaction
         \/ jobs' = jobs /\ rows' = rows
  BY NextIsGood DEF Tick, vars

\* A transaction writes one job, over a row it may follow.
LEMMA OneJobWritten ==
  ASSUME IInv, Transaction, NEW k \in Jobs
  PROVE  \/ jobs'[k] = jobs[k] /\ rows'[k] = rows[k]
         \/ /\ MayFollow(jobs[k], jobs'[k])
            /\ jobs'[k].stage >= jobs[k].stage
            /\ \A s \in Stages : rows[k][s].state = "completed" => rows'[k][s] = rows[k][s]
<1>1. PICK id \in Jobs, j \in JobRows, h \in Histories : GoodWrite(id, j, h)
  BY DEF Transaction
<1>2. jobs \in [Jobs -> JobRows] /\ rows \in [Jobs -> Histories]
  BY DEF IInv, TypeOK, Histories
<1>3. CASE k = id
  <2>1. jobs'[k] = j /\ rows'[k] = h
    BY <1>1, <1>2, <1>3 DEF GoodWrite
  <2> QED
    BY <1>1, <1>3, <2>1 DEF GoodWrite
<1>4. CASE k # id
  BY <1>1, <1>2, <1>4 DEF GoodWrite
<1> QED
  BY <1>3, <1>4

\* A lease passes to another owner only after it has expired.
THEOREM NoTakeoverBeforeExpiry == Spec => NoEarlyTakeover
<1> DEFINE A == \A id \in Jobs :
                   /\ jobs[id].owner # NoOwner
                   /\ jobs'[id].owner # NoOwner
                   /\ jobs'[id].owner # jobs[id].owner
                   => jobs[id].expires <= now
<1>1. ASSUME IInv, [Next]_vars PROVE A
  BY <1>1, StepCases, OneJobWritten DEF MayFollow
<1>2. ASSUME IInv, [Next]_vars PROVE [A]_vars
  BY <1>1, <1>2
<1>3. Spec => [][A]_vars
  BY <1>2, Invariance, PTL DEF Spec
<1> QED
  BY <1>3 DEF NoEarlyTakeover

\* completed and failed are final, partial is left only by a resume.
THEOREM EndedJobsAreFinal == Spec => EndedJobsStay
<1> DEFINE A == \A id \in Jobs :
                   /\ jobs[id].state \in {"completed", "failed"} =>
                         jobs'[id] = jobs[id] /\ rows'[id] = rows[id]
                   /\ jobs[id].state = "partial" /\ jobs'[id] # jobs[id] =>
                         jobs'[id].state = "running" /\ jobs'[id].stage = EmbeddingProjection
<1>1. ASSUME IInv, [Next]_vars PROVE A
  BY <1>1, StepCases, OneJobWritten DEF MayFollow
<1>2. ASSUME IInv, [Next]_vars PROVE [A]_vars
  BY <1>1, <1>2
<1>3. Spec => [][A]_vars
  BY <1>2, Invariance, PTL DEF Spec
<1> QED
  BY <1>3 DEF EndedJobsStay

\* No claim, retry or resume takes a job back or forgets what it did.
THEOREM NoProgressLost == Spec => ProgressIsDurable
<1> DEFINE A == \A id \in Jobs :
                   /\ jobs'[id].stage >= jobs[id].stage
                   /\ jobs'[id].counts >= jobs[id].counts
                   /\ jobs'[id].attempts >= jobs[id].attempts
                   /\ \A s \in Stages :
                         rows[id][s].state = "completed" => rows'[id][s] = rows[id][s]
<1>1. ASSUME IInv, [Next]_vars PROVE A
  <2> SUFFICES ASSUME NEW id \in Jobs
               PROVE  /\ jobs'[id].stage >= jobs[id].stage
                      /\ jobs'[id].counts >= jobs[id].counts
                      /\ jobs'[id].attempts >= jobs[id].attempts
                      /\ \A s \in Stages :
                            rows[id][s].state = "completed" => rows'[id][s] = rows[id][s]
    OBVIOUS
  <2>1. /\ jobs[id].stage \in Int /\ jobs[id].counts \in Int /\ jobs[id].attempts \in Int
    BY <1>1, Typed, StagesAre DEF JobRows
  <2>2. CASE jobs'[id] = jobs[id] /\ rows'[id] = rows[id]
    BY <2>1, <2>2
  <2>3. CASE ~(jobs'[id] = jobs[id] /\ rows'[id] = rows[id])
    BY <1>1, <2>3, StepCases, OneJobWritten DEF MayFollow
  <2> QED
    BY <2>2, <2>3
<1>2. ASSUME IInv, [Next]_vars PROVE [A]_vars
  BY <1>1, <1>2
<1>3. Spec => [][A]_vars
  BY <1>2, Invariance, PTL DEF Spec
<1> QED
  BY <1>3 DEF ProgressIsDurable

----------------------------------------------------------------------------
(* The store implements the job queue of JobLifecycle: the first state maps *)
(* to the first state, and every transaction, whatever the age of its clock *)
(* reading, to the queue's step of the same meaning.                        *)

LEMMA SameVocabulary ==
  /\ Lifecycle!Stages = Stages /\ Lifecycle!NoOwner = NoOwner
  /\ Lifecycle!Validation = Validation /\ Lifecycle!Activation = Activation
  /\ Lifecycle!EmbeddingProjection = EmbeddingProjection
  BY DEF Lifecycle!Stages, Lifecycle!NoOwner, Lifecycle!Validation, Lifecycle!Activation,
     Lifecycle!EmbeddingProjection, Stages, NoOwner, Validation, Activation,
     EmbeddingProjection

LEMMA LapsedBoolean ==
  ASSUME NEW j
  PROVE  Lapsed(j) \in BOOLEAN /\ (j.state # "running" => Lapsed(j) = FALSE)
  BY Zenon DEF Lapsed

LEMMA QueueInit == Init => Lifecycle!LifecycleInit
<1>1. AbsentJob.state = "absent" /\ AbsentJob.stage = Validation /\ AbsentJob.owner = NoOwner
      /\ AbsentJob.cancelled = FALSE
  BY DEF AbsentJob
<1>2. Lapsed(AbsentJob) = FALSE
  BY <1>1, LapsedBoolean
<1>3. Entry(AbsentJob) = Lifecycle!NoEntry
  BY <1>1, <1>2, SameVocabulary, Zenon DEF Entry, Lifecycle!NoEntry
<1> QED
  BY <1>3 DEF Init, Lifecycle!LifecycleInit, Queue

LEMMA EntryFields ==
  ASSUME NEW j
  PROVE  /\ Entry(j).state = j.state /\ Entry(j).stage = j.stage /\ Entry(j).holder = j.owner
         /\ Entry(j).lapsed = Lapsed(j) /\ Entry(j).cancelled = j.cancelled
  BY DEF Entry

LEMMA QueueAt ==
  ASSUME NEW id \in Jobs PROVE Queue[id] = Entry(jobs[id])
  BY DEF Queue

LEMMA EntryTyped ==
  ASSUME NEW j \in JobRows PROVE Entry(j) \in Lifecycle!Entries
<1>1. /\ j.state \in Lifecycle!States /\ j.stage \in Lifecycle!Stages
      /\ j.owner \in Owners \cup {Lifecycle!NoOwner}
      /\ Lapsed(j) \in BOOLEAN /\ j.cancelled \in BOOLEAN
  BY SameVocabulary, LapsedBoolean DEF JobRows, JobStates, Lifecycle!States
<1> QED
  BY <1>1 DEF Entry, Lifecycle!Entries

LEMMA SameEntry ==
  ASSUME NEW a \in Lifecycle!Entries, NEW b \in Lifecycle!Entries,
         a.state = b.state, a.stage = b.stage, a.holder = b.holder,
         a.lapsed = b.lapsed, a.cancelled = b.cancelled
  PROVE  a = b
  BY DEF Lifecycle!Entries

\* What the invariant says of an entry.
LEMMA QueueTyped ==
  ASSUME IInv, NEW id \in Jobs
  PROVE  /\ Queue[id] \in Lifecycle!Entries
         /\ Queue[id].state = jobs[id].state /\ Queue[id].stage = jobs[id].stage
         /\ Queue[id].holder = jobs[id].owner /\ Queue[id].lapsed = Lapsed(jobs[id])
         /\ Queue[id].cancelled = jobs[id].cancelled
  BY Typed, QueueAt, EntryTyped, EntryFields

\* A transaction that writes j over job id moves that entry and no other.
LEMMA QueueStep ==
  ASSUME IInv, NEW id \in Jobs, NEW j \in JobRows,
         jobs' = [jobs EXCEPT ![id] = j], now' = now
  PROVE  Queue' = [Queue EXCEPT ![id] = Entry(j)]
<1>1. jobs \in [Jobs -> JobRows]
  BY DEF IInv, TypeOK
<1>2. \A k \in Jobs : jobs'[k] = IF k = id THEN j ELSE jobs[k]
  BY <1>1
<1>3. \A k \in Jobs : Entry(jobs[k])' = IF k = id THEN Entry(j) ELSE Entry(jobs[k])
  BY <1>2 DEF Entry, Lapsed
<1> QED
  BY <1>3 DEF Queue

\* The queue's three ways of changing an entry, against the row written.
LEMMA MovedEntry ==
  ASSUME IInv, NEW id \in Jobs, NEW j \in JobRows, NEW late \in BOOLEAN,
         j.state \in Lifecycle!States, j.owner \in Owners \cup {NoOwner},
         j.stage = jobs[id].stage, j.cancelled = jobs[id].cancelled, late = Lapsed(j)
  PROVE  [Queue[id] EXCEPT !.state = j.state, !.holder = j.owner, !.lapsed = late] = Entry(j)
<1> DEFINE e == [Queue[id] EXCEPT !.state = j.state, !.holder = j.owner, !.lapsed = late]
<1>1. /\ e \in Lifecycle!Entries
      /\ e.state = j.state /\ e.holder = j.owner /\ e.lapsed = late
      /\ e.stage = Queue[id].stage /\ e.cancelled = Queue[id].cancelled
  BY QueueTyped, SameVocabulary DEF Lifecycle!Entries
<1> HIDE DEF e
<1>2. e = Entry(j)
  BY <1>1, QueueTyped, EntryTyped, EntryFields, SameEntry
<1> QED
  BY <1>2 DEF e

LEMMA AdvancedEntry ==
  ASSUME IInv, NEW id \in Jobs, NEW j \in JobRows, NEW stage \in Stages,
         j.stage = stage, j.state = jobs[id].state, j.owner = jobs[id].owner,
         j.cancelled = jobs[id].cancelled, Lapsed(j) = Lapsed(jobs[id])
  PROVE  [Queue[id] EXCEPT !.stage = stage] = Entry(j)
<1> DEFINE e == [Queue[id] EXCEPT !.stage = stage]
<1>1. /\ e \in Lifecycle!Entries
      /\ e.stage = stage
      /\ e.state = Queue[id].state /\ e.holder = Queue[id].holder
      /\ e.lapsed = Queue[id].lapsed /\ e.cancelled = Queue[id].cancelled
  BY QueueTyped, SameVocabulary DEF Lifecycle!Entries
<1> HIDE DEF e
<1>2. e = Entry(j)
  BY <1>1, QueueTyped, EntryTyped, EntryFields, SameEntry
<1> QED
  BY <1>2 DEF e

LEMMA ReleasedEntry ==
  ASSUME IInv, NEW id \in Jobs, NEW j \in JobRows, NEW stage \in Stages,
         j.state \in {"completed", "partial", "failed"}, j.owner = NoOwner,
         j.stage = stage, j.cancelled = jobs[id].cancelled
  PROVE  [Queue[id] EXCEPT !.state = j.state, !.stage = stage,
                           !.holder = NoOwner, !.lapsed = FALSE] = Entry(j)
<1> DEFINE e == [Queue[id] EXCEPT !.state = j.state, !.stage = stage,
                                  !.holder = NoOwner, !.lapsed = FALSE]
<1>1. /\ e \in Lifecycle!Entries
      /\ e.state = j.state /\ e.stage = stage /\ e.holder = NoOwner /\ e.lapsed = FALSE
      /\ e.cancelled = Queue[id].cancelled
  <2>1. j.state \in Lifecycle!States /\ FALSE \in BOOLEAN
    BY DEF Lifecycle!States
  <2> QED
    BY <2>1, QueueTyped, SameVocabulary DEF Lifecycle!Entries
<1> HIDE DEF e
<1>2. Lapsed(j) = FALSE
  BY LapsedBoolean
<1>3. /\ Entry(j) \in Lifecycle!Entries
      /\ Entry(j).state = j.state /\ Entry(j).stage = stage /\ Entry(j).holder = NoOwner
      /\ Entry(j).lapsed = FALSE /\ Entry(j).cancelled = Queue[id].cancelled
  BY <1>2, QueueTyped, EntryTyped, EntryFields
<1>4. e = Entry(j)
  BY <1>1, <1>3, SameEntry
<1> QED
  BY <1>4 DEF e

----------------------------------------------------------------------------
(* One step of the store, one step of the queue.                           *)

LEMMA CreateMaps ==
  ASSUME IInv, NEW id \in Jobs, Create(id)
  PROVE  Lifecycle!Submit(id)
<1>1. PICK t \in Recent : jobs' = [jobs EXCEPT ![id].state = "pending", ![id].created = t]
  BY DEF Create
<1> DEFINE j == [jobs[id] EXCEPT !.state = "pending", !.created = t]
           e == [Queue[id] EXCEPT !.state = "pending"]
<1>2. jobs[id] \in JobRows /\ "pending" \in JobStates /\ t \in Int
  BY Typed, Readings DEF JobStates
<1>3. j \in JobRows
  BY <1>2 DEF JobRows
<1>4. /\ j.state = "pending" /\ j.stage = jobs[id].stage /\ j.owner = jobs[id].owner
      /\ j.cancelled = jobs[id].cancelled
  BY <1>2 DEF JobRows
<1>5. /\ e \in Lifecycle!Entries /\ e.state = "pending"
      /\ e.stage = Queue[id].stage /\ e.holder = Queue[id].holder
      /\ e.lapsed = Queue[id].lapsed /\ e.cancelled = Queue[id].cancelled
  BY QueueTyped DEF Lifecycle!Entries, Lifecycle!States
<1>6. jobs[id].state = "absent"
  BY DEF Create
<1>7. jobs' = [jobs EXCEPT ![id] = j] /\ now' = now
  BY <1>1 DEF Create
<1> HIDE DEF j, e
<1>8. Lapsed(j) = Queue[id].lapsed
  BY <1>4, <1>6, QueueTyped, LapsedBoolean
<1>9. e = Entry(j)
  BY <1>3, <1>4, <1>5, <1>8, QueueTyped, EntryTyped, EntryFields, SameEntry
<1>10. Queue' = [Queue EXCEPT ![id] = e]
  BY <1>3, <1>7, <1>9, QueueStep
<1> QED
  BY <1>6, <1>10, QueueTyped DEF Lifecycle!Submit, e

\* Claim and ResumePartial: the job runs again, under a lease of o that a
\* slow call may have let lapse already.
LEMMA Taken ==
  ASSUME IInv, NEW id \in Jobs, NEW o \in Owners, NEW j \in JobRows,
         j.state = "running", j.owner = o,
         j.stage = jobs[id].stage, j.cancelled = jobs[id].cancelled,
         jobs' = [jobs EXCEPT ![id] = j], now' = now
  PROVE  \E late \in BOOLEAN :
            Queue' = [Queue EXCEPT ![id].state = "running", ![id].holder = o,
                                   ![id].lapsed = late]
<1> DEFINE late == Lapsed(j)
           e == [Queue[id] EXCEPT !.state = j.state, !.holder = j.owner, !.lapsed = late]
<1>1. late \in BOOLEAN /\ late = Lapsed(j)
  BY LapsedBoolean
<1> HIDE DEF late
<1>2. e = Entry(j)
  <2>1. j.state \in Lifecycle!States /\ j.owner \in Owners \cup {NoOwner}
    BY DEF Lifecycle!States
  <2> QED
    BY <1>1, <2>1, MovedEntry, ZenonT(40)
<1>3. Queue' = [Queue EXCEPT ![id] = Entry(j)]
  BY QueueStep
<1>4. Queue' = [Queue EXCEPT ![id].state = "running", ![id].holder = o, ![id].lapsed = late]
  BY <1>2, <1>3
<1> QED
  BY <1>1, <1>4

LEMMA ClaimMaps ==
  ASSUME IInv, NEW o \in Owners, Claim(o)
  PROVE  \E id \in Jobs : Lifecycle!Take(o, id)
<1>1. PICK t \in Recent, id \in Jobs :
         Claimable(jobs[id], t) /\ Write(id, ClaimedRow(jobs[id], o, t)) /\ UNCHANGED now
  BY DEF Claim, Oldest
<1> DEFINE j == ClaimedRow(jobs[id], o, t)
<1>2. /\ jobs[id] \in JobRows /\ t \in Nat /\ t + Lease \in Nat /\ t <= now /\ now \in Nat
      /\ jobs[id].state \in {"pending", "running"} /\ ~jobs[id].cancelled
  BY <1>1, Typed, Readings DEF Claimable
<1>3. /\ j \in JobRows
      /\ j.state = "running" /\ j.owner = o
      /\ j.stage = (IF jobs[id].state = "running" THEN jobs[id].stage ELSE Validation)
      /\ j.cancelled = jobs[id].cancelled
  BY <1>2, ClaimedRowTyped
<1>4. j.stage = jobs[id].stage
  BY <1>2, <1>3, Typed DEF Sound, Unstarted
<1>5. jobs' = [jobs EXCEPT ![id] = j] /\ now' = now
  BY <1>1 DEF Write
<1> HIDE DEF j
<1>6. \E late \in BOOLEAN :
         Queue' = [Queue EXCEPT ![id].state = "running", ![id].holder = o, ![id].lapsed = late]
  BY <1>3, <1>4, <1>5, Taken
<1>7. jobs[id].state = "running" => jobs[id].expires \in Int
  BY <1>2 DEF JobRows
<1>8. jobs[id].state = "running" => Lapsed(jobs[id])
  BY <1>1, <1>2, <1>7 DEF Claimable, Lapsed
<1>9. Lifecycle!Free(id)
  BY <1>2, <1>8, QueueTyped DEF Lifecycle!Free
<1> QED
  BY <1>6, <1>9 DEF Lifecycle!Take

LEMMA ResumeMaps ==
  ASSUME IInv, NEW o \in Owners, NEW id \in Jobs, ResumePartial(o, id)
  PROVE  Lifecycle!Resume(o, id)
<1> DEFINE j0 == jobs[id]
<1>1. PICK t \in Recent :
         /\ j0.state = "partial" /\ j0.stage = EmbeddingProjection
         /\ Write(id, [j0 EXCEPT !.state = "running", !.attempts = @ + 1, !.owner = o,
                                 !.expires = t + Lease, !.finished = NoTime])
         /\ UNCHANGED now
  BY DEF ResumePartial
<1> DEFINE j == [j0 EXCEPT !.state = "running", !.attempts = j0.attempts + 1, !.owner = o,
                           !.expires = t + Lease, !.finished = NoTime]
<1>2. /\ j0 \in JobRows /\ "running" \in JobStates /\ j0.attempts + 1 \in Nat
      /\ o \in Owners \cup {NoOwner} /\ t + Lease \in Int /\ NoTime \in Int
  BY Typed, Readings DEF JobRows, JobStates
<1>3. /\ j \in JobRows
      /\ j.state = "running" /\ j.owner = o
      /\ j.stage = j0.stage /\ j.cancelled = j0.cancelled
  BY <1>2 DEF JobRows
<1>4. jobs' = [jobs EXCEPT ![id] = j] /\ now' = now
  BY <1>1 DEF Write
<1> HIDE DEF j
<1>5. \E late \in BOOLEAN :
         Queue' = [Queue EXCEPT ![id].state = "running", ![id].holder = o, ![id].lapsed = late]
  BY <1>3, <1>4, Taken
<1> QED
  BY <1>1, <1>5, QueueTyped, SameVocabulary DEF Lifecycle!Resume

LEMMA HolderHolds ==
  ASSUME IInv, NEW id \in Jobs, NEW o, NEW t, ActiveLease(jobs[id], o, t)
  PROVE  Lifecycle!Held(o, id) /\ jobs[id].state = "running" /\ jobs[id].owner = o
  BY QueueTyped DEF ActiveLease, Lifecycle!Held

LEMMA HeartbeatMaps ==
  ASSUME IInv, NEW o \in Owners, NEW id \in Jobs, Heartbeat(o, id)
  PROVE  Lifecycle!Renew(o, id)
<1> DEFINE j0 == jobs[id]
<1>1. PICK t \in HolderTimes(id) :
         /\ ActiveLease(j0, o, t)
         /\ Write(id, [j0 EXCEPT !.expires = t + Lease])
         /\ UNCHANGED now
  BY DEF Heartbeat
<1> DEFINE j == [j0 EXCEPT !.expires = t + Lease]
           e == [Queue[id] EXCEPT !.lapsed = Lapsed(j)]
<1>2. j0 \in JobRows /\ t + Lease \in Int
  BY Typed, Readings
<1>3. /\ j \in JobRows
      /\ j.state = j0.state /\ j.owner = j0.owner /\ j.stage = j0.stage
      /\ j.cancelled = j0.cancelled
  BY <1>2 DEF JobRows
<1>4. jobs' = [jobs EXCEPT ![id] = j] /\ now' = now
  BY <1>1 DEF Write
<1> HIDE DEF j
<1>5. /\ e \in Lifecycle!Entries
      /\ e.lapsed = Lapsed(j) /\ e.state = Queue[id].state /\ e.stage = Queue[id].stage
      /\ e.holder = Queue[id].holder /\ e.cancelled = Queue[id].cancelled
  BY QueueTyped, LapsedBoolean DEF Lifecycle!Entries
<1> HIDE DEF e
<1>6. e = Entry(j)
  BY <1>3, <1>5, QueueTyped, EntryTyped, EntryFields, SameEntry
<1>7. Queue' = [Queue EXCEPT ![id] = e]
  BY <1>3, <1>4, <1>6, QueueStep
<1>8. Queue' = [Queue EXCEPT ![id].lapsed = Lapsed(j)] /\ Lapsed(j) \in BOOLEAN
  BY <1>7, LapsedBoolean DEF e
<1>9. Lifecycle!Held(o, id)
  BY <1>1, HolderHolds
<1> QED
  BY <1>8, <1>9 DEF Lifecycle!Renew

LEMMA AdvanceMaps ==
  ASSUME IInv, NEW o \in Owners, NEW id \in Jobs, NEW stage \in Stages, NEW n \in Nat,
         AdvanceStage(o, id, stage, n)
  PROVE  Lifecycle!Advance(o, id, stage)
<1> DEFINE j0 == jobs[id]
           j  == [j0 EXCEPT !.stage = stage, !.counts = n]
<1>1. PICK t \in HolderTimes(id) : ActiveLease(j0, o, t)
  BY DEF AdvanceStage
<1>2. jobs' = [jobs EXCEPT ![id] = j] /\ now' = now /\ TransitionAllowed(j0.stage, stage)
  BY DEF AdvanceStage, Write
<1>3. j0 \in JobRows
  BY Typed
<1>4. /\ j \in JobRows
      /\ j.state = j0.state /\ j.owner = j0.owner /\ j.stage = stage
      /\ j.expires = j0.expires /\ j.cancelled = j0.cancelled
  BY <1>3 DEF JobRows
<1> HIDE DEF j
<1>5. Lapsed(j) = Lapsed(j0)
  BY <1>4 DEF Lapsed
<1>6. [Queue[id] EXCEPT !.stage = stage] = Entry(j)
  BY <1>4, <1>5, AdvancedEntry
<1>7. Queue' = [Queue EXCEPT ![id] = Entry(j)]
  BY <1>2, <1>4, QueueStep
<1>8. Queue' = [Queue EXCEPT ![id].stage = stage]
  BY <1>6, <1>7
<1>9. Lifecycle!Held(o, id) /\ Lifecycle!Follows(Queue[id].stage, stage)
  BY <1>1, <1>2, HolderHolds, QueueTyped DEF TransitionAllowed, Lifecycle!Follows
<1> QED
  BY <1>8, <1>9 DEF Lifecycle!Advance

\* Complete, Partial and Fail: the lease is given up.
LEMMA Released ==
  ASSUME IInv, NEW id \in Jobs, NEW state \in {"completed", "partial", "failed"},
         NEW stage \in Stages, NEW n \in Nat, NEW t \in Int,
         jobs' = [jobs EXCEPT ![id] = EndedRow(jobs[id], state, stage, n, t)], now' = now
  PROVE  Queue' = Lifecycle!Release(id, state, stage)
<1> DEFINE j == EndedRow(jobs[id], state, stage, n, t)
           e == [Queue[id] EXCEPT !.state = j.state, !.stage = stage,
                                  !.holder = NoOwner, !.lapsed = FALSE]
<1>1. jobs[id] \in JobRows /\ state \in JobStates
  BY Typed DEF JobStates
<1>2. /\ j \in JobRows
      /\ j.state = state /\ j.owner = NoOwner /\ j.stage = stage
      /\ j.cancelled = jobs[id].cancelled
  BY <1>1, EndedRowTyped
<1> HIDE DEF j
<1>3. e = Entry(j)
  BY <1>2, ReleasedEntry
<1>4. Queue' = [Queue EXCEPT ![id] = Entry(j)]
  BY <1>2, QueueStep DEF j
<1>5. Queue' = [Queue EXCEPT ![id].state = state, ![id].stage = stage,
                             ![id].holder = NoOwner, ![id].lapsed = FALSE]
  BY <1>2, <1>3, <1>4
<1> QED
  BY <1>5, SameVocabulary DEF Lifecycle!Release

LEMMA CompleteMaps ==
  ASSUME IInv, NEW o \in Owners, NEW id \in Jobs, NEW n \in Nat, Complete(o, id, n)
  PROVE  Lifecycle!Finish(o, id)
<1>1. PICK t \in HolderTimes(id) :
         /\ ActiveLease(jobs[id], o, t)
         /\ jobs[id].stage = Activation
         /\ Write(id, EndedRow(jobs[id], "completed", Activation, n, t))
         /\ UNCHANGED now
  BY DEF Complete
<1>2. t \in Int /\ Activation \in Stages
  BY Readings, StagesAre DEF Activation
<1>3. Queue' = Lifecycle!Release(id, "completed", Activation)
  BY <1>1, <1>2, Released DEF Write
<1> QED
  BY <1>1, <1>3, HolderHolds, QueueTyped, SameVocabulary DEF Lifecycle!Finish

LEMMA PartialMaps ==
  ASSUME IInv, NEW o \in Owners, NEW id \in Jobs, NEW stage \in Stages, NEW n \in Nat,
         Partial(o, id, stage, n)
  PROVE  Lifecycle!Suspend(o, id, stage)
<1>1. PICK t \in HolderTimes(id) :
         /\ ActiveLease(jobs[id], o, t)
         /\ TransitionAllowed(jobs[id].stage, stage)
         /\ Write(id, EndedRow(jobs[id], "partial", stage, n, t))
         /\ UNCHANGED now
  BY DEF Partial
<1>2. t \in Int
  BY Readings
<1>3. Queue' = Lifecycle!Release(id, "partial", stage)
  BY <1>1, <1>2, Released DEF Write
<1>4. Lifecycle!Held(o, id) /\ Lifecycle!Follows(Queue[id].stage, stage)
  BY <1>1, HolderHolds, QueueTyped DEF TransitionAllowed, Lifecycle!Follows
<1> QED
  BY <1>3, <1>4 DEF Lifecycle!Suspend

LEMMA FailMaps ==
  ASSUME IInv, NEW o \in Owners, NEW id \in Jobs, Fail(o, id)
  PROVE  Lifecycle!GiveUp(o, id)
<1>1. PICK t \in HolderTimes(id) :
         /\ ActiveLease(jobs[id], o, t)
         /\ Write(id, EndedRow(jobs[id], "failed", jobs[id].stage, jobs[id].counts, t))
         /\ UNCHANGED now
  BY DEF Fail
<1>2. t \in Int /\ jobs[id].stage \in Stages /\ jobs[id].counts \in Nat
  BY Typed, Readings DEF JobRows
<1>3. Queue' = Lifecycle!Release(id, "failed", jobs[id].stage)
  BY <1>1, <1>2, Released DEF Write
<1> QED
  BY <1>1, <1>3, HolderHolds, QueueTyped DEF Lifecycle!GiveUp

LEMMA CancelMaps ==
  ASSUME IInv, NEW id \in Jobs, Cancel(id)
  PROVE  Lifecycle!CancelJob(id)
<1> DEFINE n == jobs[id].counts
           stage == jobs[id].stage
<1>1. PICK t \in Recent :
         /\ jobs[id].state \in {"pending", "running"}
         /\ Write(id, [EndedRow(jobs[id], "failed", stage, n, t) EXCEPT !.cancelled = TRUE])
         /\ UNCHANGED now
  BY DEF Cancel
<1> DEFINE r == EndedRow(jobs[id], "failed", stage, n, t)
           j == [r EXCEPT !.cancelled = TRUE]
           e == [Queue[id] EXCEPT !.state = "failed", !.stage = stage, !.holder = NoOwner,
                                  !.lapsed = FALSE, !.cancelled = TRUE]
<1>2. /\ jobs[id] \in JobRows /\ t \in Int /\ stage \in Stages /\ "failed" \in JobStates
      /\ n \in Nat
  BY Typed, Readings DEF JobStates, JobRows
<1>3. r \in JobRows /\ r.state = "failed" /\ r.owner = NoOwner /\ r.stage = stage
  BY <1>2, EndedRowTyped
<1>4. jobs' = [jobs EXCEPT ![id] = j] /\ now' = now
  BY <1>1 DEF Write
<1> HIDE DEF r
<1>5. /\ j \in JobRows
      /\ j.state = "failed" /\ j.owner = NoOwner /\ j.stage = stage /\ j.cancelled = TRUE
  BY <1>3 DEF JobRows
<1> HIDE DEF j
<1>6. /\ e \in Lifecycle!Entries
      /\ e.state = "failed" /\ e.stage = stage /\ e.holder = NoOwner
      /\ e.lapsed = FALSE /\ e.cancelled = TRUE
  <2>1. "failed" \in Lifecycle!States /\ FALSE \in BOOLEAN /\ TRUE \in BOOLEAN
    BY DEF Lifecycle!States
  <2> QED
    BY <1>2, <2>1, QueueTyped, SameVocabulary DEF Lifecycle!Entries
<1> HIDE DEF e
<1>7. Lapsed(j) = FALSE
  BY <1>5, LapsedBoolean
<1>8. e = Entry(j)
  <2>1. /\ Entry(j) \in Lifecycle!Entries
        /\ Entry(j).state = "failed" /\ Entry(j).stage = stage /\ Entry(j).holder = NoOwner
        /\ Entry(j).lapsed = FALSE /\ Entry(j).cancelled = TRUE
    BY <1>5, <1>7, EntryTyped, EntryFields
  <2> QED
    BY <1>6, <2>1, SameEntry
<1>9. Queue' = [Queue EXCEPT ![id] = e]
  BY <1>4, <1>5, <1>8, QueueStep
<1>10. Queue[id].stage = stage /\ Lifecycle!NoOwner = NoOwner /\ Queue[id].state = jobs[id].state
  BY QueueTyped, SameVocabulary
<1>11. Queue' = [Lifecycle!Release(id, "failed", Queue[id].stage) EXCEPT ![id].cancelled = TRUE]
  <2>1. id \in DOMAIN Queue /\ Queue = [k \in Jobs |-> Queue[k]]
    BY DEF Queue
  <2> QED
    BY <1>9, <1>10, <2>1 DEF Lifecycle!Release, e
<1> QED
  BY <1>1, <1>10, <1>11 DEF Lifecycle!CancelJob

\* The clock lets the leases lapse that nobody renewed.
LEMMA TickMaps ==
  ASSUME IInv, Tick
  PROVE  \E ids \in SUBSET Jobs : Lifecycle!Lapse(ids)
<1> DEFINE ids == {id \in Jobs : jobs[id].state = "running" /\ jobs[id].expires <= now + 1}
           e(id) == [Queue[id] EXCEPT !.lapsed = @ \/ id \in ids]
<1>1. jobs' = jobs /\ now' = now + 1 /\ now \in Nat
  BY Readings DEF Tick
<1>2. ASSUME NEW id \in Jobs PROVE Entry(jobs[id])' = e(id)
  <2> DEFINE j == jobs[id]
             late == Lapsed(j) \/ id \in ids
  <2>1. j \in JobRows /\ j.expires \in Int
    BY <1>2, Typed DEF JobRows
  <2>2. late <=> j.state = "running" /\ j.expires <= now + 1
    BY <1>1, <1>2, <2>1 DEF Lapsed
  <2>3. late \in BOOLEAN
    BY Zenon
  <2>4. e(id) = [Queue[id] EXCEPT !.lapsed = late]
    BY <1>2, QueueTyped
  <2>5. /\ e(id) \in Lifecycle!Entries
        /\ e(id).lapsed = late
        /\ e(id).state = j.state /\ e(id).stage = j.stage /\ e(id).holder = j.owner
        /\ e(id).cancelled = j.cancelled
    <3> HIDE DEF late, e
    <3> QED
      BY <1>2, <2>3, <2>4, QueueTyped DEF Lifecycle!Entries
  <2>6. Lapsed(j)' \in BOOLEAN /\ (Lapsed(j)' <=> j.state = "running" /\ j.expires <= now + 1)
    BY <1>1, Zenon DEF Lapsed
  <2>7. Lapsed(j)' = late
    BY <2>2, <2>3, <2>6, Zenon
  <2>8. Entry(j)' = [state |-> j.state, stage |-> j.stage, holder |-> j.owner,
                     lapsed |-> late, cancelled |-> j.cancelled]
    BY <1>1, <2>7 DEF Entry
  <2> HIDE DEF late, e, j
  <2>9. Entry(j)' \in Lifecycle!Entries
    BY <2>5, <2>8 DEF Lifecycle!Entries
  <2>10. Entry(j)' = e(id)
    BY <2>5, <2>8, <2>9, SameEntry
  <2> QED
    BY <2>10 DEF j
<1>3. Queue' = [id \in Jobs |-> e(id)]
  BY <1>2 DEF Queue
<1>4. \A id \in ids : Queue[id].state = "running"
  BY QueueTyped
<1> QED
  BY <1>3, <1>4 DEF Lifecycle!Lapse

LEMMA StepMaps ==
  ASSUME IInv, [Next]_vars
  PROVE  [Lifecycle!LifecycleNext]_Queue
<1>1. 0..MaxCount \subseteq Nat
  BY JobsAssumption
<1>2. CASE Tick
  BY <1>2, TickMaps DEF Lifecycle!LifecycleNext
<1>3. ASSUME NEW id \in Jobs, Create(id) \/ Cancel(id)
      PROVE  Lifecycle!LifecycleNext
  BY <1>3, CreateMaps, CancelMaps DEF Lifecycle!LifecycleNext
<1>4. ASSUME NEW o \in Owners, Claim(o)
      PROVE  Lifecycle!LifecycleNext
  BY <1>4, ClaimMaps DEF Lifecycle!LifecycleNext
<1>5. ASSUME NEW o \in Owners, NEW id \in Jobs, ResumePartial(o, id) \/ Hold(o, id)
      PROVE  Lifecycle!LifecycleNext
  <2>1. CASE ResumePartial(o, id)
    BY <2>1, ResumeMaps DEF Lifecycle!LifecycleNext
  <2>2. CASE Heartbeat(o, id)
    BY <2>2, HeartbeatMaps DEF Lifecycle!LifecycleNext
  <2>3. ASSUME NEW stage \in Stages, NEW n \in 0..MaxCount, AdvanceStage(o, id, stage, n)
        PROVE  Lifecycle!LifecycleNext
    <3>1. Lifecycle!Advance(o, id, stage)
      BY <1>1, <2>3, AdvanceMaps
    <3> QED
      BY <3>1, SameVocabulary DEF Lifecycle!LifecycleNext
  <2>4. ASSUME NEW n \in 0..MaxCount, Complete(o, id, n)
        PROVE  Lifecycle!LifecycleNext
    <3>1. Lifecycle!Finish(o, id)
      BY <1>1, <2>4, CompleteMaps
    <3> QED
      BY <3>1 DEF Lifecycle!LifecycleNext
  <2>5. ASSUME NEW stage \in Stages, NEW n \in 0..MaxCount, Partial(o, id, stage, n)
        PROVE  Lifecycle!LifecycleNext
    <3>1. Lifecycle!Suspend(o, id, stage)
      BY <1>1, <2>5, PartialMaps
    <3> QED
      BY <3>1, SameVocabulary DEF Lifecycle!LifecycleNext
  <2>6. CASE Fail(o, id)
    BY <2>6, FailMaps DEF Lifecycle!LifecycleNext
  <2> QED
    BY <1>5, <2>1, <2>2, <2>3, <2>4, <2>5, <2>6 DEF Hold
<1>6. CASE UNCHANGED vars
  <2>1. jobs' = jobs /\ now' = now
    BY <1>6 DEF vars
  <2>2. Queue' = Queue
    BY <2>1 DEF Queue, Entry, Lapsed
  <2> QED
    BY <2>2
<1> QED
  BY <1>2, <1>3, <1>4, <1>5, <1>6 DEF Next

\* Whatever the transactions of the PostgreSQL store do, their callers see the
\* queue of JobLifecycle: stale clock readings, slow commits and rows skipped
\* under SKIP LOCKED included.
THEOREM StoreImplementsLifecycle == Spec => ImplementsLifecycle
<1>1. Spec => []IInv
  BY Invariance
<1>2. Spec => Lifecycle!LifecycleInit /\ [][Lifecycle!LifecycleNext]_Queue
  BY <1>1, QueueInit, StepMaps, PTL DEF Spec
<1> QED
  BY <1>2 DEF ImplementsLifecycle, Lifecycle!LifecycleSpec
----------------------------------------------------------------------------
(* Staging and publication, for any number of concurrent uploads,          *)
(* identities and configurations.                                          *)

\* A request that renamed its directory, or found one in place, has its
\* bundle under the root.
PastRename == \A r \in Requests : step[r] \in {"renamed", "synced", "found"} => key[r] \in published

\* While the power has not failed.
StagingIInv == StagingTypeOK /\ (~powerFailed => PastRename /\ JobsAreLoadable)

LEMMA StagingInitIInv == StagingInit => StagingIInv
  BY StagingAssumption DEF StagingInit, StagingIInv, StagingTypeOK, Steps, PastRename, JobsAreLoadable

LEMMA ConfigOfJob ==
  ASSUME StagingTypeOK, NEW i \in Identities
  PROVE  config[i] \in Configs \cup {NoConfig} /\ NoConfig \notin Configs
  BY StagingAssumption DEF StagingTypeOK

LEMMA KeyParts ==
  ASSUME StagingTypeOK, NEW r \in Requests
  PROVE  /\ key[r] \in Keys /\ key[r][1] \in Identities /\ key[r][2] \in Configs
         /\ key[r] = <<key[r][1], key[r][2]>>
<1>1. key[r] \in Keys
  BY DEF StagingTypeOK
<1> QED
  BY <1>1 DEF Keys

LEMMA TypeStep == StagingTypeOK /\ [StagingNext]_stagingVars => StagingTypeOK'
<1> SUFFICES ASSUME StagingTypeOK, [StagingNext]_stagingVars PROVE StagingTypeOK'
  OBVIOUS
<1>1. ASSUME NEW r \in Requests, NEW k \in Keys, Stage(r, k) PROVE StagingTypeOK'
  BY <1>1 DEF StagingTypeOK, Stage, Goto, Steps
<1>2. ASSUME NEW r \in Requests, FirstCheck(r) \/ MarkReady(r) \/ SecondCheck(r) \/ GiveUp(r)
      PROVE  StagingTypeOK'
  BY <1>2 DEF StagingTypeOK, FirstCheck, MarkReady, SecondCheck, GiveUp, Goto, Steps
<1>3. ASSUME NEW r \in Requests, Rename(r) PROVE StagingTypeOK'
  BY <1>3, KeyParts DEF StagingTypeOK, Rename, Goto, Steps
<1>4. ASSUME NEW r \in Requests, SyncRoot(r) PROVE StagingTypeOK'
  BY <1>4 DEF StagingTypeOK, SyncRoot, Goto, Steps
<1>5. ASSUME NEW r \in Requests, CreateJob(r) PROVE StagingTypeOK'
  <2>1. key[r][1] \in Identities /\ key[r][2] \in Configs
    BY KeyParts
  <2>2. config' \in [Identities -> Configs \cup {NoConfig}] /\ direct' \subseteq Identities
    BY <1>5, <2>1 DEF StagingTypeOK, CreateJob
  <2> QED
    BY <1>5, <2>2 DEF StagingTypeOK, CreateJob, Steps
<1>6. CASE Crash
  BY <1>6 DEF StagingTypeOK, Crash, Steps
<1>7. CASE PowerFailure
  BY <1>7 DEF StagingTypeOK, PowerFailure, Steps
<1>8. CASE UNCHANGED stagingVars
  BY <1>8 DEF StagingTypeOK, stagingVars
<1> QED
  BY <1>1, <1>2, <1>3, <1>4, <1>5, <1>6, <1>7, <1>8 DEF StagingNext

\* The sets and functions keep their types in every run, power failures or not.
THEOREM StagingTypes == StagingSpec => []StagingTypeOK
<1>1. StagingInit => StagingTypeOK
  BY StagingInitIInv DEF StagingIInv
<1> QED
  BY <1>1, TypeStep, PTL DEF StagingSpec

----------------------------------------------------------------------------
LEMMA RenameStep ==
  ASSUME StagingIInv, [StagingNext]_stagingVars, ~powerFailed, ~powerFailed'
  PROVE  PastRename'
<1> USE DEF StagingIInv, PastRename
<1>1. ASSUME NEW r \in Requests, NEW k \in Keys, Stage(r, k) PROVE PastRename'
  BY <1>1 DEF StagingTypeOK, Stage, Goto
<1>2. ASSUME NEW r \in Requests, FirstCheck(r) \/ MarkReady(r) \/ SecondCheck(r) \/ GiveUp(r)
      PROVE  PastRename'
  BY <1>2 DEF StagingTypeOK, FirstCheck, MarkReady, SecondCheck, GiveUp, Goto
<1>3. ASSUME NEW r \in Requests, Rename(r) \/ SyncRoot(r) \/ CreateJob(r) PROVE PastRename'
  BY <1>3 DEF StagingTypeOK, Rename, SyncRoot, CreateJob, Goto
<1>4. CASE Crash
  BY <1>4 DEF StagingTypeOK, Crash
<1>5. CASE UNCHANGED stagingVars
  BY <1>5 DEF stagingVars
<1> QED
  BY <1>1, <1>2, <1>3, <1>4, <1>5 DEF StagingNext, PowerFailure

LEMMA JobStep ==
  ASSUME StagingIInv, [StagingNext]_stagingVars, ~powerFailed, ~powerFailed'
  PROVE  JobsAreLoadable'
<1>1. ASSUME NEW r \in Requests, CreateJob(r) PROVE JobsAreLoadable'
  <2>1. key[r] \in published /\ published' = published
    BY <1>1 DEF CreateJob, StagingIInv, PastRename
  <2>2. key[r] = <<key[r][1], key[r][2]>> /\ key[r][1] \in Identities
    BY KeyParts DEF StagingIInv
  <2>3. CASE config' = config
    BY <2>1, <2>3 DEF StagingIInv, JobsAreLoadable, Loadable
  <2>4. CASE config' = [config EXCEPT ![key[r][1]] = key[r][2]]
    BY <2>1, <2>2, <2>4 DEF StagingIInv, StagingTypeOK, JobsAreLoadable, Loadable
  <2> QED
    BY <1>1, <2>3, <2>4 DEF CreateJob
<1>2. CASE config' = config /\ published \subseteq published'
  BY <1>2 DEF StagingIInv, JobsAreLoadable, Loadable
<1>3. \/ \E r \in Requests : CreateJob(r)
      \/ config' = config /\ published \subseteq published'
  BY DEF StagingNext, stagingVars, Stage, FirstCheck, MarkReady, SecondCheck, Rename, SyncRoot, GiveUp,
     Crash, PowerFailure
<1> QED
  BY <1>1, <1>2, <1>3

LEMMA PowerStep == [StagingNext]_stagingVars /\ powerFailed => powerFailed'
  BY DEF StagingNext, stagingVars, Stage, FirstCheck, MarkReady, SecondCheck, Rename, SyncRoot, GiveUp,
     CreateJob, Crash, PowerFailure

\* Until the power fails, every job finds its bundle, whatever processes die.
THEOREM PublishedBeforeCreated == StagingSpec => []LoadableUntilPowerFails
<1>1. StagingIInv /\ [StagingNext]_stagingVars => StagingIInv'
  <2> SUFFICES ASSUME StagingIInv, [StagingNext]_stagingVars PROVE StagingIInv'
    OBVIOUS
  <2>1. StagingTypeOK'
    BY TypeStep DEF StagingIInv
  <2>2. CASE powerFailed'
    BY <2>1, <2>2 DEF StagingIInv
  <2>3. CASE ~powerFailed'
    BY <2>1, <2>3, PowerStep, RenameStep, JobStep DEF StagingIInv
  <2> QED
    BY <2>2, <2>3
<1>2. StagingIInv => LoadableUntilPowerFails
  BY DEF StagingIInv, LoadableUntilPowerFails
<1> QED
  BY <1>1, <1>2, StagingInitIInv, PTL DEF StagingSpec

----------------------------------------------------------------------------
(* With power failures: only what was synced can be relied on.             *)

SyncedRequests ==
    \A r \in Requests :
        /\ step[r] = "renamed" => key[r] \in published
        /\ step[r] = "synced" => key[r] \in synced

DirectJobs == \A i \in direct : <<i, config[i]>> \in synced

PInv == StagingTypeOK /\ SyncedRequests /\ DirectJobs

LEMMA SyncedStep ==
  ASSUME PInv, [StagingNext]_stagingVars
  PROVE  SyncedRequests'
<1> USE DEF PInv, SyncedRequests
<1>1. ASSUME NEW r \in Requests, NEW k \in Keys, Stage(r, k) PROVE SyncedRequests'
  BY <1>1 DEF StagingTypeOK, Stage, Goto
<1>2. ASSUME NEW r \in Requests, FirstCheck(r) \/ MarkReady(r) \/ SecondCheck(r) \/ GiveUp(r)
      PROVE  SyncedRequests'
  BY <1>2 DEF StagingTypeOK, FirstCheck, MarkReady, SecondCheck, GiveUp, Goto
<1>3. ASSUME NEW r \in Requests, Rename(r) \/ SyncRoot(r) \/ CreateJob(r) PROVE SyncedRequests'
  BY <1>3 DEF StagingTypeOK, Rename, SyncRoot, CreateJob, Goto
<1>4. CASE Crash \/ PowerFailure
  BY <1>4 DEF StagingTypeOK, Crash, PowerFailure
<1>5. CASE UNCHANGED stagingVars
  BY <1>5 DEF stagingVars
<1> QED
  BY <1>1, <1>2, <1>3, <1>4, <1>5 DEF StagingNext

LEMMA DirectStep ==
  ASSUME PInv, [StagingNext]_stagingVars
  PROVE  DirectJobs'
<1>1. ASSUME NEW r \in Requests, CreateJob(r) PROVE DirectJobs'
  <2>1. synced' = synced
    BY <1>1 DEF CreateJob
  <2>2. CASE config' = config /\ direct' = direct
    BY <2>1, <2>2 DEF PInv, DirectJobs
  <2>3. CASE /\ config[key[r][1]] = NoConfig
             /\ config' = [config EXCEPT ![key[r][1]] = key[r][2]]
             /\ direct' = IF step[r] = "synced" THEN direct \cup {key[r][1]} ELSE direct
    <3>1. key[r] = <<key[r][1], key[r][2]>> /\ key[r][1] \in Identities
      BY KeyParts DEF PInv
    <3>2. key[r][1] \notin direct
      <4>1. \A i \in direct : config[i] \in Configs
        BY DEF PInv, DirectJobs, StagingTypeOK, Keys
      <4> QED
        BY <2>3, <4>1, StagingAssumption
    <3>3. ASSUME NEW i \in direct' PROVE <<i, config'[i]>> \in synced
      <4>1. CASE i = key[r][1]
        <5>1. step[r] = "synced"
          BY <2>3, <3>2, <3>3, <4>1
        <5>2. key[r] \in synced
          BY <5>1 DEF PInv, SyncedRequests
        <5>3. config'[i] = key[r][2]
          BY <2>3, <3>1, <4>1 DEF PInv, StagingTypeOK
        <5> QED
          BY <3>1, <4>1, <5>2, <5>3
      <4>2. CASE i # key[r][1]
        <5>1. i \in direct /\ i \in Identities
          BY <2>3, <3>3, <4>2 DEF PInv, StagingTypeOK
        <5>2. config'[i] = config[i]
          BY <2>3, <4>2, <5>1 DEF PInv, StagingTypeOK
        <5> QED
          BY <5>1, <5>2 DEF PInv, DirectJobs
      <4> QED
        BY <4>1, <4>2
    <3> QED
      BY <2>1, <3>3 DEF DirectJobs
  <2> QED
    BY <1>1, <2>2, <2>3 DEF CreateJob
<1>2. CASE config' = config /\ direct' = direct /\ synced \subseteq synced'
  BY <1>2 DEF PInv, DirectJobs
<1>3. \/ \E r \in Requests : CreateJob(r)
      \/ config' = config /\ direct' = direct /\ synced \subseteq synced'
  BY DEF StagingNext, stagingVars, Stage, FirstCheck, MarkReady, SecondCheck, Rename, SyncRoot, GiveUp,
     Crash, PowerFailure, PInv, StagingTypeOK
<1> QED
  BY <1>1, <1>2, <1>3

\* Whatever is lost, a job whose creator synced the root itself keeps its bundle.
THEOREM SyncedJobsSurvive == StagingSpec => []DirectJobsSurvive
<1>1. StagingInit => PInv
  BY StagingInitIInv DEF StagingIInv, PInv, StagingInit, SyncedRequests, DirectJobs
<1>2. PInv /\ [StagingNext]_stagingVars => PInv'
  BY TypeStep, SyncedStep, DirectStep DEF PInv
<1>3. PInv => DirectJobsSurvive
  BY DEF PInv, StagingTypeOK, DirectJobs, DirectJobsSurvive, Loadable
<1> QED
  BY <1>1, <1>2, <1>3, PTL DEF StagingSpec
=============================================================================
