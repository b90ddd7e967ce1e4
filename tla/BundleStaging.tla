---------------------------- MODULE BundleStaging ----------------------------
(***************************************************************************)
(* How an upload becomes a bundle on disk and a job in PostgreSQL:         *)
(* serveIngestionService.CreateMultipart and serveBundleStager of          *)
(* internal/cli/serve_ingestion.go.  Each request stages its payload in a  *)
(* directory of its own, publishes it by renaming that directory to the    *)
(* key of the bundle, and only then creates the job.  Requests run         *)
(* concurrently and share nothing but the staging root and the job table.  *)
(*                                                                         *)
(* The root directory is seen twice: published is what the running system  *)
(* sees, synced what is known to be on disk.  A process that dies leaves   *)
(* published alone; a power failure may take back any rename not synced.   *)
(*                                                                         *)
(* A bundle's files are written and synced before its marker, and the      *)
(* marker before the rename, so a published directory is a ready one and   *)
(* its digest the one of its key; the code's treatment of a directory      *)
(* without a marker has no state to act on and is left out.                *)
(***************************************************************************)
EXTENDS Naturals

CONSTANTS
    Requests,       \* concurrent uploads
    Identities,     \* source, snapshot and factual digest of a bundle
    Configs,        \* analysis configurations, a part of the key but not of the identity
    NoConfig        \* the identity has no job

ASSUME StagingAssumption == NoConfig \notin Configs

Keys == Identities \X Configs

Steps == {"idle", "staged", "checked", "marked", "rechecked", "renamed", "synced", "found"}

VARIABLES
    step,        \* where a request is in CreateMultipart
    key,         \* the bundle key of its payload
    published,   \* keys with a directory under the root
    synced,      \* those whose directory entry is on disk
    config,      \* the configuration recorded by the job of an identity
    direct,      \* history: identities whose job followed its creator's own sync
    powerFailed  \* history: the power has failed

stagingVars == <<step, key, published, synced, config, direct, powerFailed>>

StagingTypeOK ==
    /\ step \in [Requests -> Steps]
    /\ key \in [Requests -> Keys]
    /\ synced \subseteq published /\ published \subseteq Keys
    /\ config \in [Identities -> Configs \cup {NoConfig}]
    /\ direct \subseteq Identities
    /\ powerFailed \in BOOLEAN

StagingInit ==
    /\ step = [r \in Requests |-> "idle"]
    /\ key \in [Requests -> Keys]
    /\ published = {} /\ synced = {}
    /\ config = [i \in Identities |-> NoConfig] /\ direct = {}
    /\ powerFailed = FALSE

----------------------------------------------------------------------------
Goto(r, from, to) == step[r] = from /\ step' = [step EXCEPT ![r] = to]

\* A step of publish that fails: what was staged is removed, the caller gets an error.
GiveUp(r) ==
    /\ step[r] \in {"staged", "checked", "marked", "rechecked", "renamed"}
    /\ step' = [step EXCEPT ![r] = "idle"]
    /\ UNCHANGED <<key, published, synced, config, direct, powerFailed>>

\* stage: the multipart body is validated and written.
Stage(r, k) ==
    /\ Goto(r, "idle", "staged")
    /\ key' = [key EXCEPT ![r] = k]
    /\ UNCHANGED <<published, synced, config, direct, powerFailed>>

\* Mutant of FirstCheck: the digest in the marker stands for the whole key.
FirstCheckByDigest(r) ==
    /\ Goto(r, "staged", IF \E c \in Configs : <<key[r][1], c>> \in published
                         THEN "found" ELSE "checked")
    /\ UNCHANGED <<key, published, synced, config, direct, powerFailed>>

\* A bundle found ready under its key is accepted and the staged copy removed.
FirstCheck(r) ==
    /\ Goto(r, "staged", IF key[r] \in published THEN "found" ELSE "checked")
    /\ UNCHANGED <<key, published, synced, config, direct, powerFailed>>

\* The files, the marker and the staged directory are synced.
MarkReady(r) ==
    /\ Goto(r, "checked", "marked")
    /\ UNCHANGED <<key, published, synced, config, direct, powerFailed>>

SecondCheck(r) ==
    /\ Goto(r, "marked", IF key[r] \in published THEN "found" ELSE "rechecked")
    /\ UNCHANGED <<key, published, synced, config, direct, powerFailed>>

\* Another request may have published the key since: the rename then fails
\* with ErrExist and the directory in place is verified instead.
Rename(r) ==
    \/ /\ key[r] \in published
       /\ Goto(r, "rechecked", "found")
       /\ UNCHANGED <<key, published, synced, config, direct, powerFailed>>
    \/ /\ key[r] \notin published
       /\ Goto(r, "rechecked", "renamed")
       /\ published' = published \cup {key[r]}
       /\ UNCHANGED <<key, synced, config, direct, powerFailed>>

\* Mutant of SyncRoot: the answer is given without the sync.
SkipSync(r) ==
    /\ Goto(r, "renamed", "synced")
    /\ UNCHANGED <<key, published, synced, config, direct, powerFailed>>

\* The sync of the root directory covers every entry in it.
SyncRoot(r) ==
    /\ Goto(r, "renamed", "synced")
    /\ synced' = published
    /\ UNCHANGED <<key, published, config, direct, powerFailed>>

\* The job is created, found with the same configuration, or refused with
\* ErrJobConflict; a store error changes nothing, or its answer is lost.
CreateJob(r) ==
    LET id == key[r][1] IN
    /\ step[r] \in {"synced", "found"}
    /\ step' = [step EXCEPT ![r] = "idle"]
    /\ \/ /\ config[id] = NoConfig
          /\ config' = [config EXCEPT ![id] = key[r][2]]
          /\ direct' = IF step[r] = "synced" THEN direct \cup {id} ELSE direct
       \/ UNCHANGED <<config, direct>>
    /\ UNCHANGED <<key, published, synced, powerFailed>>

\* The process ends and is started again.
Crash ==
    /\ step' = [r \in Requests |-> "idle"]
    /\ UNCHANGED <<key, published, synced, config, direct, powerFailed>>

PowerFailure ==
    /\ step' = [r \in Requests |-> "idle"]
    /\ \E lost \in SUBSET (published \ synced) : published' = published \ lost
    /\ synced' = published' /\ powerFailed' = TRUE
    /\ UNCHANGED <<key, config, direct>>

StagingNext ==
    \/ \E r \in Requests :
          \/ \E k \in Keys : Stage(r, k)
          \/ FirstCheck(r) \/ MarkReady(r) \/ SecondCheck(r) \/ Rename(r) \/ SyncRoot(r)
          \/ CreateJob(r) \/ GiveUp(r)
    \/ Crash
    \/ PowerFailure

StagingSpec == StagingInit /\ [][StagingNext]_stagingVars

----------------------------------------------------------------------------
\* What serveBundleStager.Load finds when the executor has claimed the job.
Loadable(i) == <<i, config[i]>> \in published

\* A job can be loaded whenever it exists, so also after any restart: the
\* bundle is published before jobs.Create, under the key that the job row
\* names, whichever of the racing uploads published it, and whichever
\* configuration of the same identity came first (serve_ingestion.go:349-378).
\* Stated for every state, it includes what a power failure takes back.
JobsAreLoadable == \A i \in Identities : config[i] # NoConfig => Loadable(i)

\* The same while only processes die (serve_ingestion.go:100-211).
LoadableUntilPowerFails == ~powerFailed => JobsAreLoadable

\* What is left when the power fails: a job created by the request that
\* renamed its bundle and synced the root is loadable for good.  A job created
\* by a request that found the bundle in place is not covered
\* (serve_ingestion.go:200-211).
DirectJobsSurvive == \A i \in direct : Loadable(i)
=============================================================================
