------------------------------ MODULE JobStore ------------------------------
(***************************************************************************)
(* TrainingJobStore (store.py): the job table behind the training API, its *)
(* JSON file, and the object storage its deletions reach through the       *)
(* on_storage_delete callback.                                             *)
(*                                                                         *)
(* Every public method of the store holds the store's RLock from its first *)
(* read to its last write, so each is one action.  The actions take their  *)
(* arguments from any caller in any order; TrainingService restricts them  *)
(* to the calls that the API and the workers make.                         *)
(***************************************************************************)
EXTENDS Naturals, FiniteSets, TrainingStates

CONSTANTS
  Requests,    \* validated TrainingJobRequest values
  JobIds,      \* job ids; their order is the order of the id strings
  JobOf,       \* stable_job_id(): the id a request's fingerprint hashes to
  Attempts,    \* retry attempt numbers
  RetryId,     \* RetryId[j][k]: the id the k-th retry attempt of j hashes to
  ConfigOf,    \* training_config_hash(): the configuration hash of a request
  Configs,     \* the configuration hashes
  Datasets,    \* dataset hashes
  Runs,        \* names for the bundles (artifact ids) that runs of a job yield
  QueueLimit,  \* queue_limit: most queued + running jobs
  MaxRunning,  \* max_concurrent_running
  StorageDeleteMayFail, \* BOOLEAN: on_storage_delete may raise
  None         \* Python's None

ASSUME JobIdsAssumption == JobIds \subseteq Nat /\ IsFiniteSet(JobIds)

ASSUME RequestsAssumption ==
  /\ JobOf \in [Requests -> JobIds]
  /\ ConfigOf \in [Requests -> Configs]
  /\ Attempts \subseteq Nat
  /\ RetryId \in [JobIds -> [Attempts -> JobIds]]

ASSUME LimitsAssumption == QueueLimit \in Nat /\ MaxRunning \in Nat

ASSUME NoneAssumption ==
  /\ None \notin Requests
  /\ None \notin JobIds
  /\ None \notin [run: Runs, dataset: Datasets, config: Configs]

ASSUME FaultsAssumption == StorageDeleteMayFail \in BOOLEAN

VARIABLES
  jobs,      \* _jobs: the record of every id, with status "absent" when unknown
  rank,      \* position of a present id in the iteration order of _jobs
  disk,      \* the records the persistence file holds
  blobs,     \* objects in object storage, named <<job, run>> by their key
  expired,   \* artifacts <<job, run>> whose retention period is over
  receipt    \* the last DeletionReceipt a DELETE of the job was answered with

storeVars == <<jobs, rank, disk, blobs, expired, receipt>>

Artifact == [run: Runs, dataset: Datasets, keyed: BOOLEAN]

Provenance == [run: Runs, dataset: Datasets, config: Configs]

JobRecord ==
  [ status: Status \cup {"absent"},
    request: Requests \cup {None},
    artifacts: SUBSET Artifact,
    provenance: Provenance \cup {None},
    retryOf: JobIds \cup {None},
    createdAt: Nat ]

AbsentJob ==
  [ status |-> "absent", request |-> None, artifacts |-> {},
    provenance |-> None, retryOf |-> None, createdAt |-> 0 ]

-----------------------------------------------------------------------------
Present(js) == {j \in JobIds : js[j].status # "absent"}

WithStatus(js, s) == {j \in JobIds : js[j].status = s}

ActiveJobs(js) == {j \in JobIds : js[j].status \in ActiveStatus}

\* The count of active_count(); the faulty variant forgets the running jobs.
QueuedCount(js) == Cardinality(WithStatus(js, "queued"))
ActiveCount(js) == Cardinality(ActiveJobs(js))

RunningCount(js) == Cardinality(WithStatus(js, "running"))

HasRun(rec, n) == \E a \in rec.artifacts : a.run = n

Keyed(rec, n) == \E a \in rec.artifacts : a.run = n /\ a.keyed

\* _promote_queued_locked: the oldest queued jobs, in the order of the table,
\* take the running slots that are free.
QueuedFrom(js, j) == {q \in WithStatus(js, "queued") : rank[q] >= rank[j]}  \* faulty: LIFO
QueuedUpTo(js, j) == {q \in WithStatus(js, "queued") : rank[q] <= rank[j]}

\* Faulty variant: the last slot is never filled.
PromotableButOne(js) ==
  {j \in WithStatus(js, "queued") :
     RunningCount(js) + Cardinality(QueuedUpTo(js, j)) < MaxRunning}

Promotable(js) ==
  {j \in WithStatus(js, "queued") :
     RunningCount(js) + Cardinality(QueuedUpTo(js, j)) <= MaxRunning}

Promote(js) ==
  [j \in JobIds |->
     IF j \in Promotable(js) THEN [js[j] EXCEPT !.status = "running"] ELSE js[j]]

\* The table after job j moves to status s; leaving "running" promotes.
Moved(j, s) ==
  LET js == [jobs EXCEPT ![j].status = s]
  IN  IF jobs[j].status = "running" /\ s # "running" THEN Promote(js) ELSE js

\* to_persisted_dict followed by from_persisted_dict: what a record read back
\* from the file looks like.  Storage keys are not written, and a tombstone
\* keeps its provenance only.
PersistBare(rec) ==  \* faulty: the provenance of a tombstone is not written
  [rec EXCEPT !.artifacts = {},
              !.provenance = IF rec.status = "deleted" THEN None ELSE @]

Persist(rec) ==
  [rec EXCEPT !.artifacts =
     IF rec.status = "deleted" THEN {}
     ELSE {[a EXCEPT !.keyed = FALSE] : a \in rec.artifacts}]

Save == disk' = [j \in JobIds |-> Persist(jobs'[j])]

-----------------------------------------------------------------------------
Init ==
  /\ jobs = [j \in JobIds |-> AbsentJob]
  /\ rank = [j \in JobIds |-> 0]
  /\ disk = [j \in JobIds |-> AbsentJob]
  /\ blobs = {}
  /\ expired = {}
  /\ receipt = [j \in JobIds |-> "none"]

\* A new record enters the table as its last entry.
Admit(j, r, original) ==
  /\ jobs' = [jobs EXCEPT ![j] =
                [AbsentJob EXCEPT !.status = "queued", !.request = r,
                                  !.retryOf = original,
                                  !.createdAt = Cardinality(Present(jobs))]]
  /\ rank' = [rank EXCEPT ![j] = Cardinality(Present(jobs))]
  /\ Save
  /\ UNCHANGED <<blobs, expired, receipt>>

\* create(): an id that is known already is returned as it is.
Create(r) ==
  /\ jobs[JobOf[r]].status = "absent"
  /\ ActiveCount(jobs) < QueueLimit
  /\ Admit(JobOf[r], r, None)

\* retry(): the first attempt whose id is free.
Retry(j) ==
  /\ Retryable(jobs[j].status)
  /\ jobs[j].request # None
  /\ ActiveCount(jobs) < QueueLimit
  /\ \E k \in Attempts :
       /\ jobs[RetryId[j][k]].status = "absent"
       /\ \A i \in Attempts : i < k => jobs[RetryId[j][i]].status # "absent"
       /\ Admit(RetryId[j][k], jobs[j].request, j)

\* Faulty variant: the cancel is not saved.
CancelUnsaved(j) ==
  /\ jobs[j].status \in ActiveStatus
  /\ jobs' = Moved(j, "cancelled")
  /\ UNCHANGED <<rank, disk, blobs, expired, receipt>>

\* cancel()
Cancel(j) ==
  /\ jobs[j].status # "absent"
  /\ CancelStatus(jobs[j].status) # jobs[j].status
  /\ jobs' = Moved(j, CancelStatus(jobs[j].status))
  /\ Save
  /\ UNCHANGED <<rank, blobs, expired, receipt>>

\* update_status(): the concurrency limit is not consulted.
UpdateStatus(j, s) ==
  /\ jobs[j].status \notin {"absent", s}
  /\ CanMove(jobs[j].status, s)
  /\ jobs' = Moved(j, s)
  /\ Save
  /\ UNCHANGED <<rank, blobs, expired, receipt>>

\* Faulty variant: the provenance record is not attached.
RegisterUndocumented(j, a, p) ==
  /\ ~HasRun(jobs[j], a.run)
  /\ jobs' = [jobs EXCEPT ![j].artifacts = @ \cup {a}]
  /\ Save
  /\ UNCHANGED <<rank, blobs, expired, receipt>>

\* register_artifact(): whatever the status; a known artifact id changes nothing.
RegisterArtifact(j, a, p) ==
  /\ jobs[j].status # "absent"
  /\ ~HasRun(jobs[j], a.run)
  /\ jobs' = [jobs EXCEPT ![j].artifacts = @ \cup {a}, ![j].provenance = p]
  /\ Save
  /\ UNCHANGED <<rank, blobs, expired, receipt>>

SetStorageKey(j, n) ==
  /\ HasRun(jobs[j], n)
  /\ jobs' = [jobs EXCEPT ![j].artifacts =
                {IF a.run = n THEN [a EXCEPT !.keyed = TRUE] ELSE a : a \in @}]
  /\ Save
  /\ UNCHANGED <<rank, blobs, expired, receipt>>

-----------------------------------------------------------------------------
\* Faulty variant: the request survives in the tombstone.
TombstoneWithRequest(rec, retainProvenance) ==
  [rec EXCEPT !.status = "deleted", !.artifacts = {}]

\* _delete_artifact_locked(): status, request, artifacts and provenance at once.
Tombstone(rec, retainProvenance) ==
  [rec EXCEPT !.status = "deleted", !.request = None, !.artifacts = {},
              !.provenance = IF retainProvenance THEN @ ELSE None]

ArtifactHashes(j, rec) ==
  {<<"artifact", j, a.run>> : a \in rec.artifacts}
    \cup {<<"dataset", a.dataset>> : a \in rec.artifacts}

ProvenanceHashes(j, rec) ==
  IF rec.provenance = None THEN {}
  ELSE { <<"artifact", j, rec.provenance.run>>,
         <<"dataset", rec.provenance.dataset>>,
         <<"config", rec.provenance.config>> }

\* verify_hash_absence(): no serialization of any record holds one of them.
HashesAbsent(hashes, js) ==
  \A j \in JobIds :
    hashes \cap (ArtifactHashes(j, js[j]) \cup ProvenanceHashes(j, js[j])) = {}

\* _hashes_for_artifact()
HashesOf(j, n, rec) ==
  {<<"artifact", j, n>>}
    \cup {<<"dataset", a.dataset>> : a \in {b \in rec.artifacts : b.run = n}}
    \cup ProvenanceHashes(j, rec)

\* delete_artifact() of a record that is not yet a tombstone.  The storage
\* callback runs after the save; when it raises, no receipt is returned.
DeleteArtifact(j, n) ==
  /\ HasRun(jobs[j], n)
  /\ jobs[j].status = "succeeded"
  /\ jobs' = [jobs EXCEPT ![j] = Tombstone(@, FALSE)]
  /\ Save
  /\ \/ /\ blobs' = IF Keyed(jobs[j], n) THEN blobs \ {<<j, n>>} ELSE blobs
        /\ receipt' = [receipt EXCEPT ![j] =
             IF HashesAbsent(HashesOf(j, n, jobs[j]), jobs')
             THEN "verified" ELSE "unverified"]
     \/ /\ StorageDeleteMayFail /\ Keyed(jobs[j], n)
        /\ UNCHANGED <<blobs, receipt>>
  /\ UNCHANGED <<rank, expired>>

\* delete_artifact() of a tombstone, whatever artifact it names.
DeleteAgain(j) ==
  /\ jobs[j].status = "deleted"
  /\ receipt' = [receipt EXCEPT ![j] = "verified"]
  /\ UNCHANGED <<jobs, rank, disk, blobs, expired>>

\* The artifact evaluate_expiry() finds first among those past their retention.
Due(j, n) ==
  /\ jobs[j].status = "succeeded"
  /\ HasRun(jobs[j], n)
  /\ <<j, n>> \in expired

EvaluateExpiry(j) ==
  \E n \in Runs :
    /\ Due(j, n)
    /\ jobs' = [jobs EXCEPT ![j] = Tombstone(@, TRUE)]
    /\ Save
    /\ \/ blobs' = IF Keyed(jobs[j], n) THEN blobs \ {<<j, n>>} ELSE blobs
       \/ StorageDeleteMayFail /\ Keyed(jobs[j], n) /\ UNCHANGED blobs
    /\ UNCHANGED <<rank, expired, receipt>>

\* sweep_expired(): the due jobs in the order of their ids; a storage failure
\* at one of them ends the sweep there.
SweepExpired ==
  LET due == {j \in JobIds : \E n \in Runs : Due(j, n)}
  IN  \E pick \in [due -> Runs], stop \in due :
        /\ \A j \in due : Due(j, pick[j])
        /\ LET done == {j \in due : j <= stop}
               keyed == {j \in done : Keyed(jobs[j], pick[j])}
           IN  /\ jobs' = [j \in JobIds |->
                             IF j \in done THEN Tombstone(jobs[j], TRUE) ELSE jobs[j]]
               /\ \/ done = due /\ blobs' = blobs \ {<<j, pick[j]>> : j \in keyed}
                  \/ /\ StorageDeleteMayFail /\ stop \in keyed
                     /\ blobs' = blobs \ {<<j, pick[j]>> : j \in keyed \ {stop}}
        /\ Save
        /\ UNCHANGED <<rank, expired, receipt>>

-----------------------------------------------------------------------------
\* The retention period of an artifact ends.
Elapse(j, n) ==
  /\ HasRun(jobs[j], n)
  /\ expired' = expired \cup {<<j, n>>}
  /\ UNCHANGED <<jobs, rank, disk, blobs, receipt>>

\* upload() of the bundle of a run under the key that names it, by a service
\* that has seen the job succeeded (it may have been deleted since).
Upload(j, n) ==
  /\ jobs[j].status \in {"succeeded", "deleted"}
  /\ blobs' = blobs \cup {<<j, n>>}
  /\ UNCHANGED <<jobs, rank, disk, expired, receipt>>

\* The process ends and a new one runs _load(): the file is sorted by id.
Restart ==
  /\ jobs' = disk
  /\ rank' = [j \in JobIds |-> Cardinality({i \in Present(disk) : i < j})]
  /\ UNCHANGED <<disk, blobs, expired, receipt>>

\* What a process does while it is up.
Serve ==
  \/ \E r \in Requests : Create(r)
  \/ \E j \in JobIds :
       \/ Cancel(j)
       \/ Retry(j)
       \/ EvaluateExpiry(j)
       \/ DeleteAgain(j)
       \/ \E s \in Status \ {"deleted"} : UpdateStatus(j, s)
       \/ \E n \in Runs :
            \/ DeleteArtifact(j, n)
            \/ SetStorageKey(j, n)
            \/ Upload(j, n)
            \/ Elapse(j, n)
            \/ \E d \in Datasets, c \in Configs :
                 RegisterArtifact(j, [run |-> n, dataset |-> d, keyed |-> FALSE],
                                  [run |-> n, dataset |-> d, config |-> c])
  \/ SweepExpired

Next == Serve \/ Restart

Spec == Init /\ [][Next]_storeVars

-----------------------------------------------------------------------------
(***************************************************************************)
(* Correctness.                                                            *)
(***************************************************************************)

\* Every variable holds a value of the shape that store.py gives it.
TypeOK ==
  /\ jobs \in [JobIds -> JobRecord]
  /\ rank \in [JobIds -> Nat]
  /\ disk \in [JobIds -> JobRecord]
  /\ blobs \subseteq JobIds \X Runs
  /\ expired \subseteq JobIds \X Runs
  /\ receipt \in [JobIds -> {"none", "verified", "unverified"}]

\* The quota of create() and retry() bounds the queued and running jobs at all
\* times, promotions and restarts included.
ActiveWithinLimit == Cardinality(ActiveJobs(jobs)) <= QueueLimit

\* Only a tombstone has lost its request: to_public_dict(), to_persisted_dict()
\* and so every save of the table never meet the record they raise a 500 for.
OnlyTombstonesLackRequest ==
  \A j \in Present(jobs) : jobs[j].request = None <=> jobs[j].status = "deleted"

\* A retry is linked to a job that failed or was cancelled, that stays so, and
\* whose request it runs as long as neither is deleted.
LineageIsSound ==
  \A j \in JobIds :
    LET o == jobs[j].retryOf
    IN  o # None =>
          /\ jobs[o].status \in {"failed", "cancelled"}
          /\ jobs[j].status # "deleted" => jobs[j].request = jobs[o].request

\* The file is current after every operation: a restart at any point brings
\* back the same records, up to the storage keys and a tombstone's leftovers.
DiskIsCurrent == \A j \in JobIds : disk[j] = Persist(jobs[j])

\* No step, a restart included, forgets a job, takes one out of a settled
\* status (except to delete a succeeded one), or rewrites its history.
HistoryIsStable ==
  [][\A j \in Present(jobs) :
       /\ jobs[j].status \in SettledStatus =>
            \/ jobs'[j].status = jobs[j].status
            \/ jobs[j].status = "succeeded" /\ jobs'[j].status = "deleted"
       /\ jobs'[j].status # "absent"
       /\ jobs'[j].retryOf = jobs[j].retryOf
       /\ jobs'[j].createdAt = jobs[j].createdAt]_storeVars

\* The table implements the promise made to its clients.
Queue == INSTANCE JobQueue
           WITH state <- [j \in JobIds |-> jobs[j].status],
                origin <- [j \in JobIds |-> jobs[j].retryOf]

ImplementsQueue == Queue!Spec
=============================================================================
