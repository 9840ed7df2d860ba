-------------------------- MODULE TrainingService ---------------------------
(***************************************************************************)
(* TrainingService (service.py) over the job store: the HTTP server runs   *)
(* one thread per call, a semaphore of max_concurrent_running permits      *)
(* bounds the workers, and cancels, deletes, retention and restarts hit    *)
(* the jobs while workers hold them.                                       *)
(*                                                                         *)
(* A call is one POST that may run a worker (create or retry).  It goes    *)
(* through _run_if_configured, the worker's run_job and the upload; the    *)
(* stages between its accesses to shared state are its program counter.    *)
(* An exception that leaves run_job or the upload ends in the `finally`    *)
(* that releases the semaphore.                                            *)
(***************************************************************************)
EXTENDS JobStore

CONSTANTS
  Calls,           \* the POST calls; their number bounds a behaviour
  GpuJobs,         \* ids of jobs that train the GPU product model, their retries included
  FixtureRun,      \* the artifact id that the fake worker derives from the job
  FixtureDataset,  \* the dataset hash of the fixture
  Faults           \* the faults that happen, of those below

ASSUME CallsAssumption ==
  /\ IsFiniteSet(Calls)
  /\ Runs \subseteq Nat  \* an order in which the artifacts of a job are listed
  /\ Calls \subseteq Runs /\ FixtureRun \in Runs \ Calls
  /\ GpuJobs \subseteq JobIds
  /\ \A j \in JobIds, k \in Attempts : j \in GpuJobs <=> RetryId[j][k] \in GpuJobs
  /\ FixtureDataset \in Datasets
  /\ Faults \subseteq {"timeout", "training", "upload", "restart"}

VARIABLES
  stage,     \* where a call is
  target,    \* the job it works on
  uploads,   \* the artifacts of that job it has yet to upload
  permits,   \* _run_semaphore
  tarballs   \* jobs whose artifact.tar.gz is under the local artifact root

callVars == <<stage, target, uploads, permits, tarballs>>

vars == <<storeVars, callVars>>

\* The stages in which a call holds a permit.
Holding ==
  { "acquired", "starting", "training", "writing", "trained", "built",
    "registered", "uploading", "sending", "sent", "releasing" }

Stage == {"idle", "admitted", "waiting", "done"} \cup Holding

\* The artifact id of the bundle that call c makes: a digest of the bundle on
\* the GPU, of the job alone on the fake worker.
BundleOf(c) == IF target[c] \in GpuJobs THEN c ELSE FixtureRun

ServiceInit ==
  /\ Init
  /\ stage = [c \in Calls |-> "idle"]
  /\ target = [c \in Calls |-> None]
  /\ uploads = [c \in Calls |-> {}]
  /\ permits = MaxRunning
  /\ tarballs = {}

\* Call c moves from one stage to another and touches no other call state.
Goto(c, from, to) ==
  /\ stage[c] = from
  /\ stage' = [stage EXCEPT ![c] = to]
  /\ UNCHANGED <<target, uploads, permits, tarballs>>

Enter(c, j) ==
  /\ stage[c] = "idle"
  /\ stage' = [stage EXCEPT ![c] = "admitted"]
  /\ target' = [target EXCEPT ![c] = j]
  /\ UNCHANGED <<uploads, permits, tarballs>>

-----------------------------------------------------------------------------
\* create_training_job(), retry_training_job(): a refusal (429, 409) has no
\* effect and is not a step.
PostNew(c, r) == Create(r) /\ Enter(c, JobOf[r])

PostReplay(c, r) ==
  /\ jobs[JobOf[r]].status # "absent"
  /\ Enter(c, JobOf[r])
  /\ UNCHANGED storeVars

\* Faulty variant: the failed record itself is queued again.
PostRetryInPlace(c, j) ==
  /\ jobs[j].status = "failed"
  /\ jobs' = [jobs EXCEPT ![j].status = "queued"]
  /\ Save
  /\ Enter(c, j)
  /\ UNCHANGED <<rank, blobs, expired, receipt>>

PostRetry(c, j) ==
  /\ Retry(j)
  /\ \E i \in JobIds : jobs'[i] # jobs[i] /\ Enter(c, i)

\* _run_if_configured(): only a queued or running job waits for a permit.
CheckActive(c) ==
  /\ Goto(c, "admitted",
          IF jobs[target[c]].status \in ActiveStatus THEN "waiting" ELSE "done")
  /\ UNCHANGED storeVars

Acquire(c) ==
  /\ stage[c] = "waiting"
  /\ permits > 0
  /\ permits' = permits - 1
  /\ stage' = [stage EXCEPT ![c] = "acquired"]
  /\ UNCHANGED <<storeVars, target, uploads, tarballs>>

\* Faulty variant: the result of acquire() is not looked at.
AcquireTimeoutIgnored(c) ==
  /\ permits = 0
  /\ Goto(c, "waiting", "acquired")
  /\ UNCHANGED storeVars

\* acquire(timeout=10) gives up; the job stays as it is.
AcquireTimesOut(c) ==
  /\ "timeout" \in Faults
  /\ permits = 0
  /\ Goto(c, "waiting", "done")
  /\ UNCHANGED storeVars

\* run_job() returns a settled job as it is, and a succeeded one is uploaded.
Dispatch(c) ==
  /\ LET s == jobs[target[c]].status
     IN  Goto(c, "acquired", CASE s \in ActiveStatus -> "starting"
                               [] s = "succeeded" -> "uploading"
                               [] OTHER -> "releasing")
  /\ UNCHANGED storeVars

\* update_status(job_id, s) by a worker that goes on to stage `next`, or ends
\* when the job has moved to where s is not reachable from.
WorkerMoves(c, from, s, next) ==
  LET j == target[c] IN
  \/ UpdateStatus(j, s) /\ Goto(c, from, next)
  \/ /\ jobs[j].status = s \/ ~CanMove(jobs[j].status, s)
     /\ Goto(c, from, IF jobs[j].status = s THEN next ELSE "releasing")
     /\ UNCHANGED storeVars

MarkRunning(c) == WorkerMoves(c, "starting", "running", "training")

\* The worker starts on the request it reads; run_training() begins by removing
\* the bundle of an earlier run.
BeginTraining(c) ==
  /\ stage[c] = "training"
  /\ stage' = [stage EXCEPT ![c] =
                 IF jobs[target[c]].request = None THEN "releasing" ELSE "writing"]
  /\ tarballs' = IF stage'[c] = "writing" THEN tarballs \ {target[c]} ELSE tarballs
  /\ UNCHANGED <<storeVars, target, uploads, permits>>

\* Faulty variant: the temporary directory is never renamed.
FinishWithoutRename(c) ==
  /\ Goto(c, "writing", "trained")
  /\ UNCHANGED storeVars

\* The bundle is made: on disk for the GPU worker.
FinishTraining(c) ==
  /\ stage[c] = "writing"
  /\ stage' = [stage EXCEPT ![c] = "trained"]
  /\ tarballs' = tarballs \cup ({target[c]} \cap GpuJobs)
  /\ UNCHANGED <<storeVars, target, uploads, permits>>

\* The request is not one to train, the package cannot be read, or the subprocess
\* exits with an error, times out or answers nonsense.
TrainingFails(c) ==
  /\ "training" \in Faults
  /\ target[c] \in GpuJobs
  /\ \E from \in {"training", "writing", "trained"} :
       WorkerMoves(c, from, "failed", "releasing")

\* running_job.request is read once more for the artifact's retention policy;
\* that of a job which was deleted meanwhile raises.
Build(c) ==
  /\ Goto(c, "trained", IF jobs[target[c]].request = None THEN "releasing" ELSE "built")
  /\ UNCHANGED storeVars

\* The dataset hash is that of the fixture, or whatever the package on disk
\* hashes to when the GPU worker ends.
Register(c) ==
  LET j == target[c]
      n == BundleOf(c)
      hashes == IF j \in GpuJobs THEN Datasets ELSE {FixtureDataset}
  IN  /\ Goto(c, "built", "registered")
      /\ \/ HasRun(jobs[j], n) /\ UNCHANGED storeVars
         \/ \E d \in hashes, k \in Configs :
              /\ jobs[j].request # None => k = ConfigOf[jobs[j].request]
              /\ RegisterArtifact(j, [run |-> n, dataset |-> d, keyed |-> FALSE],
                                  [run |-> n, dataset |-> d, config |-> k])

Succeed(c) == WorkerMoves(c, "registered", "succeeded", "uploading")

\* _upload_artifacts_for_job(): the artifacts listed when the loop starts, if
\* the job has succeeded and its tarball is there.
BeginUpload(c) ==
  LET j == target[c]
      goes == jobs[j].status = "succeeded" /\ j \in tarballs
  IN  /\ stage[c] = "uploading"
      /\ stage' = [stage EXCEPT ![c] = IF goes THEN "sending" ELSE "releasing"]
      /\ uploads' = [uploads EXCEPT ![c] =
                       IF goes THEN {a.run : a \in {b \in jobs[j].artifacts : ~b.keyed}}
                       ELSE {}]
      /\ UNCHANGED <<storeVars, target, permits, tarballs>>

\* The artifacts of a job are uploaded one by one.
NextUpload(c) == CHOOSE n \in uploads[c] : \A m \in uploads[c] : n <= m

Send(c) ==
  /\ uploads[c] # {}
  /\ target[c] \in tarballs
  /\ Upload(target[c], NextUpload(c))
  /\ Goto(c, "sending", "sent")

\* Faulty variants: an upload error is taken for success, or skips the `finally`.
SendErrorIgnored(c) ==
  /\ uploads[c] # {}
  /\ "upload" \in Faults \/ target[c] \notin tarballs
  /\ Goto(c, "sending", "sent")
  /\ UNCHANGED storeVars

SendErrorEscapes(c) ==
  /\ uploads[c] # {}
  /\ "upload" \in Faults \/ target[c] \notin tarballs
  /\ Goto(c, "sending", "done")
  /\ UNCHANGED storeVars

\* upload() raises: storage is unreachable, or the tarball has been removed.
SendFails(c) ==
  /\ uploads[c] # {}
  /\ "upload" \in Faults \/ target[c] \notin tarballs
  /\ Goto(c, "sending", "releasing")
  /\ UNCHANGED storeVars

\* Faulty variant: the thread waits for an artifact that was deleted.
RecordKeyWaits(c) ==
  /\ stage[c] = "sent"
  /\ SetStorageKey(target[c], NextUpload(c))
  /\ stage' = [stage EXCEPT ![c] = "sending"]
  /\ uploads' = [uploads EXCEPT ![c] = @ \ {NextUpload(c)}]
  /\ UNCHANGED <<target, permits, tarballs>>

\* set_artifact_storage_key() raises when the artifact is gone.
RecordKey(c) ==
  LET j == target[c]
      n == NextUpload(c)
  IN  /\ stage[c] = "sent"
      /\ IF HasRun(jobs[j], n)
         THEN /\ SetStorageKey(j, n)
              /\ stage' = [stage EXCEPT ![c] = "sending"]
              /\ uploads' = [uploads EXCEPT ![c] = @ \ {n}]
         ELSE /\ stage' = [stage EXCEPT ![c] = "releasing"]
              /\ UNCHANGED <<storeVars, uploads>>
      /\ UNCHANGED <<target, permits, tarballs>>

EndUpload(c) ==
  /\ uploads[c] = {}
  /\ Goto(c, "sending", "releasing")
  /\ UNCHANGED storeVars

\* Faulty variant: the permit is not given back.
ReleaseLeaks(c) ==
  /\ Goto(c, "releasing", "done")
  /\ UNCHANGED storeVars

\* The `finally` of _run_if_configured().
Release(c) ==
  /\ stage[c] = "releasing"
  /\ stage' = [stage EXCEPT ![c] = "done"]
  /\ permits' = permits + 1
  /\ UNCHANGED <<storeVars, target, uploads, tarballs>>

-----------------------------------------------------------------------------
\* What clients and time do to the jobs while calls are under way.
CancelTrainingJob(j) == Cancel(j) /\ UNCHANGED callVars

Delete(j) ==
  /\ DeleteAgain(j) \/ \E n \in Runs : DeleteArtifact(j, n)
  /\ UNCHANGED callVars

\* Every read of a job, its artifacts or its provenance evaluates its expiry.
Read(j) == EvaluateExpiry(j) /\ UNCHANGED callVars

Sweep == SweepExpired /\ UNCHANGED callVars

RetentionEnds(j, n) ==
  /\ <<j, n>> \notin expired
  /\ Elapse(j, n)
  /\ UNCHANGED callVars

\* The server is killed and started again: calls under way are lost, the
\* semaphore is new, the job file and the artifact root are still there.
RestartServer ==
  /\ "restart" \in Faults
  /\ Restart
  /\ stage' = [c \in Calls |-> IF stage[c] = "idle" THEN "idle" ELSE "done"]
  /\ uploads' = [c \in Calls |-> {}]
  /\ permits' = MaxRunning
  /\ UNCHANGED <<target, tarballs>>

Post(c) ==
  \/ \E r \in Requests : PostNew(c, r) \/ PostReplay(c, r)
  \/ \E j \in JobIds : PostRetry(c, j)

\* What the thread of a call does by itself once it is admitted.
Work(c) ==
  /\ stage[c] \notin {"idle", "done"}
  /\ \/ CheckActive(c) \/ Acquire(c) \/ AcquireTimesOut(c) \/ Dispatch(c)
     \/ MarkRunning(c) \/ BeginTraining(c) \/ FinishTraining(c) \/ TrainingFails(c)
     \/ Build(c) \/ Register(c) \/ Succeed(c)
     \/ BeginUpload(c) \/ Send(c) \/ SendFails(c) \/ RecordKey(c) \/ EndUpload(c)
     \/ Release(c)

Environment ==
  \/ \E j \in JobIds :
       \/ CancelTrainingJob(j) \/ Delete(j) \/ Read(j)
       \/ \E n \in Runs : RetentionEnds(j, n)
  \/ Sweep
  \/ RestartServer

ServiceNext == (\E c \in Calls : Post(c) \/ Work(c)) \/ Environment

ServiceSpec == ServiceInit /\ [][ServiceNext]_vars

\* A thread that can go on does, training included: subprocess.run has a
\* timeout.  No call has to be made, no fault has to happen.
FairServiceSpec == ServiceSpec /\ \A c \in Calls : WF_vars(Work(c))

-----------------------------------------------------------------------------
(***************************************************************************)
(* Correctness.                                                            *)
(***************************************************************************)

\* Every variable of the service holds a value of its shape.
ServiceTypeOK ==
  /\ TypeOK
  /\ stage \in [Calls -> Stage]
  /\ target \in [Calls -> JobIds \cup {None}]
  /\ uploads \in [Calls -> SUBSET Runs]
  /\ permits \in 0 .. MaxRunning
  /\ tarballs \subseteq JobIds

\* No path through _run_if_configured, by return or by exception, loses a
\* permit or returns one twice.
PermitsAreConserved ==
  permits + Cardinality({c \in Calls : stage[c] \in Holding}) = MaxRunning

\* Every step of the service is a step of the job store, or touches none of it.
ImplementsStore == Spec

\* A succeeded job has a provenance record that describes one of its artifacts
\* and the configuration of its own request, whatever was cancelled, retried,
\* or interrupted by a restart on the way there.
SucceededIsDocumented ==
  \A j \in WithStatus(jobs, "succeeded") :
    LET p == jobs[j].provenance
    IN  /\ p # None
        /\ p.config = ConfigOf[jobs[j].request]
        /\ \E a \in jobs[j].artifacts : a.run = p.run /\ a.dataset = p.dataset

\* A tombstone never changes again: no worker that still holds the job gives
\* it content back, and no later DELETE or sweep touches it.
TombstoneIsFinal ==
  [][\A j \in JobIds : jobs[j].status = "deleted" => jobs'[j] = jobs[j]]_vars

\* A download is only ever signed for bytes that are in the storage.
KeyedIsStored ==
  \A j \in JobIds, n \in Runs : Keyed(jobs[j], n) => <<j, n>> \in blobs

\* A queued or running job ends: its call gets a permit in the end and settles
\* it, if a cancel does not.
EveryJobSettles ==
  \A j \in JobIds : jobs[j].status \in ActiveStatus ~> jobs[j].status \in SettledStatus

\* Every call is answered, whatever fails.
EveryCallEnds == \A c \in Calls : stage[c] # "idle" ~> stage[c] = "done"

\* The bundle of every succeeded GPU job becomes downloadable, unless the job
\* is deleted first.
SucceededIsUploaded ==
  \A j \in GpuJobs :
    jobs[j].status = "succeeded"
      ~> \/ jobs[j].status = "deleted"
         \/ \A a \in jobs[j].artifacts : a.keyed

-----------------------------------------------------------------------------
(***************************************************************************)
(* What the documentation claims and the code does not keep.               *)
(***************************************************************************)

\* At most max_concurrent_running jobs are running.
RunningWithinLimit == RunningCount(jobs) <= MaxRunning

\* A cancelled job has no artifacts.
CancelledHasNoArtifacts ==
  \A j \in WithStatus(jobs, "cancelled") : jobs[j].artifacts = {}

\* A storage key that was recorded stays recorded until the deletion.
StorageKeyIsKept ==
  [][\A j \in JobIds, n \in Runs :
       Keyed(jobs[j], n) => \/ jobs'[j].status = "deleted"
                            \/ Keyed(jobs'[j], n)]_vars

\* Once no call is working on a deleted job, none of its bytes are stored.
DeletedBytesAreGone ==
  \A j \in WithStatus(jobs, "deleted"), n \in Runs :
    (\A c \in Calls : target[c] = j => stage[c] \in {"idle", "done"})
      => <<j, n>> \notin blobs

\* A DELETE answered with verified = true leaves no provenance behind.
VerifiedMeansGone ==
  \A j \in JobIds : receipt[j] = "verified" => jobs[j].provenance = None

\* A deleted job has neither artifacts nor a provenance that DELETE wiped.
TombstoneIsEmpty ==
  \A j \in WithStatus(jobs, "deleted") : jobs[j].artifacts = {}
=============================================================================
