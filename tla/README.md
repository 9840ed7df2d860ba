# Scooling Lab in TLA+

A specification of the training API of this repository: the job store, its state
machine and its file, the service that runs jobs through workers under a semaphore,
artifact storage and downloads, the contract of requests, dataset review and package
ingest. TLC checks it on small instances; TLAPS proves the safety properties of each
of these parts, and the refinements between them, for instances of any size. `PROJECT.json` maps every definition to the lines it models and lists
the runs, findings, hazards and theorems.

## The system

| component | state | operations | what must hold |
| --- | --- | --- | --- |
| state machine (`state_machine.py`) | none | `transition`, `cancel` | jobs move along `TRANSITION_TABLE` only |
| job store (`store.py`) | `_jobs` (in order of insertion), the JSON file | create, retry, cancel, update_status, register_artifact, set_artifact_storage_key, delete_artifact, evaluate_expiry, sweep_expired, `_load` | quota; FIFO promotion; settled jobs stay settled; lineage; the file is current; tombstones are empty; what was answered survives a crash |
| training service (`service.py`) | `_run_semaphore`, one thread per HTTP call | POST create/retry, cancel, delete, reads, sweep, dispatch, upload | permits conserved; every call is answered; jobs settle; succeeded jobs are documented and uploaded |
| workers (`fake_worker.py`, `gpu_worker.py`) | the bundle directory, a subprocess | `run_job`, `run_training` | one provenance that describes the artifact |
| artifact storage (`artifact_storage.py`) | objects by key | upload, delete, signed downloads | a recorded key names stored bytes; what is served is whole; deleted bytes are gone and no longer served |
| request contracts and retention (`contracts.py`, `retention.py`) | none | `from_mapping`, `retention_policy_from_mapping`, `is_expired` | just the contract's requests are taken; what is taken runs, and is read back |
| package ingest (`package_ingest.py`) | package and temporary directory of a dataset | `write_package_files` | packages are whole; a lone ingest succeeds; hashes are those of the rows |
| dataset review (`dataset_review.py`) | `_datasets`, in memory | register, submit, approve, reject | only validated shapes are approved; decisions are final |
| provenance text, auth, license policy, BOM, runtime config, HTTP routing | none | validation, parsing | not modelled, see below |

The HTTP server (`ThreadingHTTPServer`) runs one thread per call. A POST thread
goes through the store (under its lock), waits for the semaphore, runs a worker,
which calls back into the store, and uploads. Other threads cancel, delete and
sweep the same jobs in between. The store saves its table at the end of each
operation, then calls the storage to delete bytes. A restart keeps the file, the
storage, the bundles and the packages; it loses the threads, the semaphore, the
order of the queue and all dataset reviews.

What is hard: the gaps between a worker's calls to the store, the two limits on
running jobs (semaphore and promotion) that do not know of each other, failures
between the store and the storage, a save that is cut or raises, restarts, records
serialized without the lock, and unsynchronised directories.

## Modules

- `TrainingStates`: statuses, transition table, `transition`, `cancel`. A raised
  `ApiError(409)` is a disabled action.
- `JobQueue`: the abstract promise of the job table: bounded admission, a life
  cycle per job, retries linked to failed or cancelled jobs, running slots that
  are refilled. It has no file, artifacts or order.
- `JobStore`: `TrainingJobStore`. The store's RLock spans each public method, so
  each is one action that ends in `Save`. `jobs` is `_jobs`; `rank` is the
  insertion order of the dict, which decides promotion; `disk` is the file as
  `from_persisted_dict` would read it; `blobs` is the object storage;
  `expired` the artifacts past their retention; `receipt` the last answer to
  DELETE. An id is a natural number, whose order stands for that of the id
  strings: `_save` sorts by it. `JobOf` and `RetryId` stand for the
  hashes that make ids deterministic. `ImplementsQueue` is the refinement.
- `JobOrder` extends `JobStore` with the history of what a process has read from the
  file, which the order of promotion depends on (`PromotionIsFifo`).
- `TrainingService` extends `JobStore` with the calls: a stage per thread, the
  permits, the bundles on local disk. Each stage is the code between two accesses
  to shared state; `Work(c)` is the thread of call c. `Faults` names what may
  go wrong: semaphore timeouts, failing trainings, failing uploads, restarts.
  `ImplementsStore` states that the service only makes steps of `JobStore`.
- `DurableStore` extends `JobStore` with what lies between two instructions: a method
  takes the lock and changes the table (`Change`; `Mark` and `Wipe` for the assignments
  of a deletion), then `_save` truncates the file and writes it, then the storage is
  called, then the call answers (`Finish`). A save may raise, the process may end
  anywhere (`Crash`), and another thread runs `to_public_dict()` without the lock, in
  the steps in which it looks at the record. `answered` remembers what callers were told.
  `FileImplementsQueue` is a second refinement of `JobQueue`: by the file.
- `ArtifactDownload`: one succeeded job whose bundles are uploaded, deleted or expired,
  and downloaded from the volume: the system calls of `VolumeArtifactStorage`, the
  record with its lock, the issue of a signed URL, its use, and the clock. A content
  token is the artifact and the expiry it was signed with.
- `RequestContract`: a request body through the validators it meets: `from_mapping`
  when it is posted, the GPU worker's checks when it runs, `from_mapping` again when the
  file is read. Strings are named for what the patterns make of them (a known, unknown
  or forbidden key; a practice, own or other dataset), numbers are numbers.
- `PackageIngest`: `write_package_files` at the granularity of file operations,
  `shutil.rmtree` unlink by unlink, with faults of the disk (`Breaks`) and crashes in
  between; the GPU worker's two reads of the package. `write_bytes` and `write_text` are
  two steps: `Create` opens the file at the temporary path, which truncates it; `Fill`
  writes through the descriptor, wherever another ingest has renamed the directory
  to. `pen` is the open file. Directories are identified by their maker, since
  `rmtree` and descriptors work on what was opened whatever its path is by then.
  "partial" is a content that is empty, cut or of the bytes of two ingests; a reader may
  find it while a write is under way (`Readable`). Assumed atomic are mkdir, open, unlink, rmdir,
  rename, and the reading of a file that nobody writes to at the time. The history variables:
  `alone`, the ingests that no other has overlapped and no fault has stopped, and
  `source`, the directory in which a run has read its rows.
- `DatasetReview`: `DatasetStore` and its validation.
- `DatasetAdmission`: `JobStore` with `DatasetReview`: what a restart, which keeps
  the one and forgets the other, does to the approval gate. The history variables
  `native` and `everApproved` tell the jobs of this process, and its approvals, from
  those of earlier ones.
- `MC*`: instances for TLC, which give the constants their values.
- `JobStoreProofs` (also about `JobOrder`), `DurableStoreProofs`, `TrainingServiceProofs`,
  `ArtifactDownloadProofs`, `PackageIngestProofs`, `DatasetReviewProofs`,
  `DatasetAdmissionProofs`, `RequestContractProofs`: what is proved about each module.

Each module also holds a few operators marked *faulty variant*. They are not part
of the specification: each is a plausible bug, next to the definition it would
replace, and the property named for it in `PROJECT.json` ("mutants") fails with it.

## Runs

Runs that pass:

| run | bounds | shows |
| --- | --- | --- |
| JobStoreLife | 4 ids, 4 requests, quota 3, 1 slot, retry chains | quota, refinement of `JobQueue`, FIFO promotion, across restarts |
| JobStoreDeletion | 2 ids, 1 run each, failing storage deletes | types, requests, file, lineage, history, refinement with deletions |
| ServiceSafety | 2 calls, 1 permit, all faults; a GPU job with its retry, a fake-worker job | permits, documentation, keys, tombstones, refinement of `JobStore` |
| ServiceProgress | the same, training may fail, fair threads | calls end, jobs settle, bundles are uploaded |
| Ingest | 3 overlapping ingests, faults, crashes, 1 training run | the next lone ingest recovers; its package stays its own; a run that reads it has all its rows |
| DurableStore | 3 ids, 2 requests, 2 records, 1 reader, crashes, one failing save | what was answered is known to every process that starts, the file follows `JobQueue`, tombstone before bytes, readers |
| ArtifactDownload | 2 artifacts, 2 uploads, 1 client, 5 instants, restarts | whole downloads, none past retention or, while the key is kept, after a deletion; uploads and `rmdir` |
| RequestContract | 12168 bodies around every bound | the validators against the contract, the worker and the reload |
| DatasetReview | 2 datasets, 1 fixture, 4 row counts | validation, reasons, finality |
| Admission | 3 ids, 2 requests, restarts | the approval gate, in one process and across restarts |

Why the bounds are enough for what they show: the interesting interleavings are
those of two parties around one job (worker and canceller, worker and deleter,
two ingests), with one more job or ingest to be promoted or to recover. The store
needs two jobs that compete for one slot, a third for the order among those that
wait, and a fourth to exceed the quota; retries take ids that no request has used
yet. Ids are chosen so that the order of creation differs from that of the ids.
`Calls` bounds the POSTs of a service behaviour and `Ingests` the ingests. The service's
runs, and the ingest's, allow a stop: calls are finite in number.

The bounds of the finer-grained modules: in `DurableStore`, `MaxJobs` records are in the table
at once (a create or a retry, and one job beside it), saves raise in
`FailingCalls` and at most once, a worker registers only on a running job, a key is recorded
only for stored bytes, and retention passes only for succeeded jobs (else it changes
nothing). A process that finds a cut file never starts, so this run may stop. In
`ArtifactDownload`, `Horizon` ends the clock; `Ttl` and `Skew`, 300 and 60 seconds in the
code, are one tick each and `ExpiresAt` is two and three, so that every order of token
expiry, retention and deletion occurs before the end; an uploader is one POST, before or
after a restart; the client asks for one artifact and may use its URL
again and again. `gone` has the artifacts whose deletion is over and that no thread was
uploading as it began, whether the deletion found a storage key or not; `forgotten` those
whose key a restart took. A URL of an artifact that was `forgotten` may serve the bundle
after its deletion, which is the claim `DeletionStopsEveryDownload` below; for all others
`DeletionStopsDownloads` holds. A deletion is over for the artifact that it names: what becomes of
the other artifacts of the record is the claim `DeletionRemovesBytes`. In
`RequestContract` the bodies have each value on either side of each bound, every policy
with every shape, and every set of parameters with every shape; learning rates are whole
millionths, so a positive rate below one is not represented, nor is an integer too large for
`float()` (`contracts.py:271`), which raises OverflowError where the others raise `ApiError`; a
request that is refused goes nowhere, so the run may stop. `DurableTypeOK`, and `TypeOK` of `ArtifactDownload`,
state the shapes of their variables.

Restarts limit two promises, and the runs say so: jobs read from the file wait in the
order of their ids, which are hashes (`_save` sorts), so `PromotionIsFifo` leaves out
pairs of them, although `store.py:285` says "FIFO" without reservation; and a retry
of an earlier process's job is admitted without an approval that this process knows
of, so `JobsKeepTheirApproval` is about the jobs of the process and their retries.

Runs that end in a violation, each of one sentence of the documentation, a
docstring or a test (quoted in `PROJECT.json` under "findings"):

| run | sentence | what happens |
| --- | --- | --- |
| ServiceDeleteRace | DELETE wipes storage | not if it comes between upload and key |
| IngestMixed | ingest writes manifest and rows atomically | two ingests share a temporary directory |

The modules state more sentences of the documentation that the code does not keep, all
marked *Claim* or under "What the documentation claims". They are consequences of the
same few gaps and not part of the listed runs. Each fails when its name replaces the
properties of the configuration named here:

| claim | configuration | what happens |
| --- | --- | --- |
| `EveryJobSettles` (queued jobs wait for a slot, `TRAINING-API-CONTRACT.md:249`) | ServiceProgress with `Faults = {"timeout"}` | a POST that times out leaves a job that nobody runs |
| `SucceededIsUploaded` (`TRAINING-API-CONTRACT.md:377`) | ServiceProgress with `Faults = {"upload"}` | a failed upload is never repeated |
| `RunningWithinLimit` ("at most that many jobs in the running state", `service.py:41-43`) | ServiceDeleteRace with `JobIds`, `Calls` and `GpuJobs` `{1, 2, 3}`, `Runs = {0, 1, 2, 3}`, `RetryId <- ThreeRetryId` | a cancel promotes a job while the cancelled worker holds the permit; another worker marks its own |
| `StorageKeyIsKept` ("`storageKey` (persisted only", `TRAINING-API-CONTRACT.md:378`) | ServiceDeleteRace with `Faults = {"restart"}`, as a PROPERTY | `to_persisted_dict` leaves the key out (`store.py:207`) |
| `TrainedRowsAreWhole` ("atomically", `package_ingest.py:155`) | IngestMixed | an ingest renames the directory in which another has just opened `train.jsonl`; a run loads the cut file |
| `TrainedRowsAreHashed` (`TRAINING-API-CONTRACT.md:342`) | IngestMixed | the package is read when a run starts and hashed when it ends (`gpu_worker.py:337`) |
| `AnsweredDeletionsLast` (`TRAINING-API-CONTRACT.md:113`) | DurableStore | the save of a DELETE raises, the repeated DELETE is answered from memory, a crash brings the job back |
| `TombstoneReplyIsBare` (`TRAINING-API-CONTRACT.md:114`) | DurableStore | a reader that saw the live status shows `deleted` with the request |
| `StartFindsTheTable` ("durable state", `TRAINING-API-CONTRACT.md:359`) | DurableStore | `write_text` truncates, the process ends, `_load` cannot parse |
| `DeletionStopsEveryDownload` (`TRAINING-API-CONTRACT.md:402-403`) | ArtifactDownload | a restart loses the storage key, the DELETE finds nothing to remove, and a URL from before serves the whole bundle |
| `DeletionRemovesBytes` (`TRAINING-API-CONTRACT.md:401`) | ArtifactDownload with `CopyMayFail = FALSE` | only the bytes of the named artifact go; with the record go the keys of the others |
| `CancelledHasNoArtifacts` (`tests/test_data_integrity.py:120`) | ServiceDeleteRace | the worker registers after the cancel |
| `VerifiedMeansGone` (`TRAINING-API-CONTRACT.md:115,291`) | ServiceDeleteRace | DELETE of an expired job verifies and leaves its provenance |
| `TombstoneIsEmpty` (`TRAINING-API-CONTRACT.md:114`) | ServiceDeleteRace with `MaxRunning = 2` | a second worker on the job registers in the tombstone |
| `PackageStaysAvailable` (`TRAINING-API-CONTRACT.md:356`) | IngestMixed | remove, then rename |
| `OnlyApprovedAreAdmitted` (`TRAINING-API-CONTRACT.md:164`) | Admission | retries do not ask, restarts forget |

## Fairness

`FairServiceSpec` assumes weak fairness of `Work(c)` for every call: a thread that
can go on does. The code justifies it: `acquire` blocks until it has the permit or times
out, and training ends because `subprocess.run` has a timeout. The store's lock is held
across one wait, for the storage: `_delete_artifact_locked` calls it after the save
(`store.py:634-635`) under the RLock, and with S3 that is a request over the network. It ends by the
timeout of the request, and whoever waits for the lock goes on after it. No
POST, cancel, fault or passing of time is assumed to happen. Weak fairness does not
make a waiting thread win against an endless stream of others; calls are finite
in number, so it gets its turn. In `ServiceProgress` the ten-second timeout does not
strike, uploads do not fail and the process does not restart; the table above says what
becomes of the properties without the first two assumptions. No liveness is
claimed across a restart: nothing in the code resumes a job.

## Proofs

Every invariant that a passing run checks is proved for all values of the constants, as
are the three refinements and the action properties of the store, the ingest, the file, the
reviews and, for one permit, the service. Every module has an inductive invariant, the
second column; where it is not obvious, TLC had found no counterexample on the module's
instance before it was proved. A proof module has one lemma per action or group of actions, and states with each
group what it leaves alone, so that the parts of an invariant are preserved one by one.

| module | invariant | theorems (property) |
| --- | --- | --- |
| `JobStoreProofs` | `StoreInv` | `StoreInvariant`; `TypeCorrectness`, `QuotaIsKept`, `RequestsAreKept`, `LineageIsKept`, `FileIsCurrent` (its conjuncts); `HistoryIsKept` (`HistoryIsStable`); `StoreImplementsQueue` (`ImplementsQueue`) |
| the same, about `JobOrder` | `StoreInv`, `OrderInv` | `PromotionFollowsCreation` (`PromotionIsFifo`) |
| `DurableStoreProofs` | `DurableInv`, `TornInv`, `QueueInv` | `DurableInvariant`, `DurableTypeCorrectness`; `AnswersAreDurable` (`AcknowledgedIsDurable`), `DeletionsAreSeen` (`DeletedIsSeenDeleted`), `ReadsSurviveWriters` (`OnlyDeletionsBreakReads`), `BytesOutliveRecords` (`BytesAwaitTheTombstone`), `FileIsAQueue` (`FileImplementsQueue`) |
| `TrainingServiceProofs` | `CallInv`, `BundleInv`, `KeyInv`, `AloneInv` | `ServiceTypeCorrectness`, `PermitsAreKept` (`PermitsAreConserved`), `ServiceImplementsStore` (`ImplementsStore`), `SuccessIsDocumented`, `KeysNameStoredBytes` (`KeyedIsStored`), `TombstonesAreFinal` (`TombstoneIsFinal`, for one permit) |
| `ArtifactDownloadProofs` | `DownloadInv` | `DownloadTypeCorrectness`, `LoneUploadsAreWhole`, `DeletionsStopDownloads`, `RetentionEndsUrls` (`NoUrlPastRetention`), `UploadsRaceDeletions` (`UploadsFailBesideDeletions`) |
| `PackageIngestProofs` | `IngestInv` | `IngestInvariant`, `IngestTypeCorrectness`, `PackagesAreTheirOwn` (`LonePackageIsItsOwn`), `OnlyAcceptedRowsAreTrained` (`TrainedRowsWereAccepted`), `LoneIngestsSucceed` |
| `DatasetReviewProofs` | `ReviewInv` | `ReviewInvariant`, `ReviewTypeCorrectness`, `ApprovalIsValidated`, `RejectionKeepsItsReason` (`RejectionIsExplained`), `DecisionsAreFinal` |
| `DatasetAdmissionProofs` | `AdmissionInv` | `AdmissionInvariant`, `RetriesNeedNoReview` (`JobsKeepTheirApproval`), `OnlyApprovedData` (`JobsWereApprovedOnce`) |
| `RequestContractProofs` | `ContractInv` | `ContractInvariant`, `TheContractIsEnforced`, `WhatIsAcceptedReloads`, `WhatIsAcceptedTrains` |

### The invariants and the arguments

The store. A restart replaces `jobs` by `disk`, so nothing about `jobs` is inductive unless
`DiskIsCurrent` is there with it. `LineageIsSound` compares the request of a retry with that
of its original; it survives since the original, failed or cancelled, can neither move nor be
deleted. The lemma `EvolutionKeepsInv` isolates the argument: a step in which every record
*evolves* (along the table, or from succeeded to tombstone), which adds no active job and
which saves, keeps all of it. Moves, registrations, deletions and restarts are instances;
admissions are the one step that adds a record and have a lemma of their own, with the count
against the quota.

The store implements the queue. `Commits(js, ks)` says of two tables that the second is one
operation of `JobQueue` later than the first. `RankInv` has the reason why promotion is one:
no two jobs are at one place of the table and none is behind its end, so the queued jobs that
are promoted are just as many as there are slots (`PromotionFillsSlots`, by the job with the
greatest rank of those promoted and that with the least of those left). `CommitsAreSteps`
makes a step of the instance of `JobQueue` out of it.

The order of promotion. `OrderInv` splits the table: the jobs read from the file come first,
in the order of their ids; behind them rank is creation. Promotion follows rank
(`PromotedAreFirst`), hence creation, except between two jobs of the file.

The file. `AcknowledgedIsDurable` names the instants at which the file does not have what was
answered: between a truncation and its write (`TornInv`, a lemma of its own: while a process
is up the file is cut only there). A process that ends at one of them leaves a file that none starts
from, which is the claim `StartFindsTheTable` and no part of the theorem; every process that
does start has what was answered. `DurableInv` says what the three copies of a status owe each other: what was
answered is in the file *or later in the life of the job*, the file in memory or later, and
they agree between calls. "Later" (`Later`) is needed since a call saves before it answers, and
changes memory before it saves. All of it is under `~failed`: after a
save that raised the code keeps none of it, as the claim `AnsweredDeletionsLast` shows.
`FileIsAQueue` uses the `Commits` of the store's refinement on the file: while a call holds
the lock the table is one operation of the queue ahead of the file (`QueueInv`), so that the
write is that operation and everything else, the end and the start of the process included,
is a stutter.

The service. `CallInv` has the store's invariant, calls whose target is a known job, and the
conservation of permits (`HoldersAreCounted`: a stage that holds a permit is one of
`Holding`). That each step of a thread is one of the store gives `ServiceImplementsStore`;
everything proved of the store then holds of the service, `StoreInvariant` being used so in
these proofs. `BundleInv` follows a bundle from its registration to the success, and says more
than `SucceededIsDocumented`: a record that has an artifact is documented in every status,
since a second worker may finish a job that the first has registered. `KeyInv` follows the
bytes from the upload to the key: a call that has sent a bundle finds it in the storage or the
artifact gone. `TombstonesAreFinal` assumes `MaxRunning = 1`, the default of
`TrainingJobStore` (`store.py:278`); there the one holder of the permit (`OneHolder`) cannot
have its job succeed behind its back. With two permits two workers can run one job and the
property is false (`TombstoneIsEmpty` among the claims above).

Downloads. `ClearInv` orders the deletion: record, then file, then directories. `UrlInv`: what
a client has a URL of has its key in the record still, or lost it in a restart. `GoneInv`: an
artifact that no thread was uploading when its record went is not uploaded any more, since no
upload begins without a record; when its deletion is over its file is away, or it was
`forgotten`, or no client had got as far as a URL. `SharedInv` and `WholeInv`: a file is cut only by a thread that has the
artifact to upload, and `shared` has all of these; so a key, a URL or a verified token is of a
whole file or of one that two threads upload. `RetentionInv`: the clock does not go back
between a request and its check.

Ingests. The invariant names the directories that an ingest can find at the temporary path and
have its open file in. `MadeInv` is the heart: a directory at the path that is not that of an
ingest which has made its own was made while that ingest was under way, so both were overlapped;
`PenInv` says the same of the directory of an open file, and holds after a rename. A lone
ingest therefore finds at each step what it has put there itself (`FindsItsOwn`), which gives
`LoneIngestsSucceed`; nobody writes in its package (`NobodyWrites`), which has its files
and no others (`ContentInv`), none of them cut (`PartialInv`). A run that reads there has all of
its rows (`ReadableRows`). Packages of ingests that overlap may hold cut files, and
runs may load them: nothing is proved of those.

Reviews. `NoneIsPending` (a submission is validated and decided on by one call)
makes the other two parts inductive. Admissions: `AdmissionInv` joins `StoreInv` with the
dataset records; the original of a retry of this process is itself of this process, and its
approval is final.

The contract. The three validators are made of the same parts, and the lemmas say of each part
what it accepts and that it accepts its own output (`AsMapping` of a policy is the same policy
again). TLC has 12168 bodies; the theorems have every integer in every number.

### Assumptions

They are the ASSUMEs of the modules, which TLC evaluates in each run.

- `JobStore`: ids are a finite set of naturals (they have a fixed format), the functions that
  make ids have their types, limits are naturals, `None` is no request, id or provenance.
- `TrainingService`: finitely many calls; the runs are naturals, an order in which the
  artifacts of a job are listed; each call has a run of its own (artifact ids are hashes), a
  retry is a GPU job if its original is one (it has the same request).
- `DurableStore`: the holder of the lock is not `None`. `ArtifactDownload`, `PackageIngest`
  and `RequestContract`: the names of threads and ingests, and the values `Absent`, `Bad` and
  `Refused`, differ from the values they share a variable with (`HolderAssumption`,
  `DownloadAssumption`, `IngestAssumption`, `SentinelsAssumption`). These concern the
  encoding, not the code.
- `RequestContract`: a body is what `json.loads` can make of one, in the classes of strings
  that the module distinguishes (`PayloadsAssumption`).
- `DatasetReview`: the bounds are naturals in order and the least is a count that occurs.

### Only model-checked

All liveness (`EveryJobSettles`, `SucceededIsUploaded`, `EveryCallEnds`), which the prover does
not do under fairness; that the runs can reach the interesting states, which the mutants show;
and everything that fails: the two findings and the claims, whose counterexamples TLC gives.

## Not modelled, and what is planned

Simplifications: outside `DurableStore` a save is one step with the operation; a training
ends or fails in one step; `tarballs` changes in one step although `run_training` renames
a directory; the fake worker's provenance always validates; `auto_run_worker` is true;
outside `ArtifactDownload` retention is a set of expired artifacts rather than a clock.
The S3 backend is the object store of `TrainingService`, whose uploads and deletions may
fail; its URLs are presigned by arithmetic without state. `ArtifactDownload` begins when
a request is authorized, and takes a download of the bytes as one read.

Planned, in this order:

1. The payloads of an ingest, and the dataset's status between its reading and the write.
2. The registration that follows an ingest, composed with the reviews.
3. Proofs of what the faults leave true: the parts of `FileInv` that survive a save that
   raises, and of `TombstoneIsFinal` that survive a second permit.

Left out: `api.py` (a stateless shell), `server_auth.py` and `download_auth.py`
(cryptography, without state), `license_policy.py` and `bom.py` (build-time scans without state),
`runtime_config.py`, `errors.py`.
