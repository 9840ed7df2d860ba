---------------------------- MODULE DurableStore ----------------------------
(***************************************************************************)
(* The job store between two instructions.  JobStore makes each public     *)
(* method of TrainingJobStore one step; here a method is the steps that    *)
(* somebody else can come between: the assignments of a deletion, which    *)
(* threads that serialize a record outside the lock see one by one, and    *)
(* the truncation and the writing of the file, which an error or the end   *)
(* of the process may separate.                                            *)
(*                                                                         *)
(* `disk` is the table that was last written whole; while `torn` holds,    *)
(* the file has been truncated since and cannot be parsed.                 *)
(***************************************************************************)
EXTENDS JobStore

CONSTANTS
  Readers,      \* threads that answer with to_public_dict()
  FailingCalls, \* calls whose save may raise OSError (a bound: any may)
  MaxJobs       \* bound: most records in the table

Calls == {"change", "delete", "expire"}

ASSUME DurableAssumption == FailingCalls \subseteq Calls /\ MaxJobs \in Nat

VARIABLES
  up,        \* a process is serving
  torn,      \* the file is truncated and not written again
  lock,      \* what the thread that holds the store's lock is doing, or None
  reads,     \* where each reader is, and what it has answered
  answered,  \* history: the status of each job when a call on it last returned
  failed     \* history: a save has raised

durableVars == <<storeVars, up, torn, lock, reads, answered, failed>>

\* The holder of the lock.  After the wipe, `run` names the object that
\* on_storage_delete is to remove and `hashes` what the receipt is to find absent.
Hashes ==
  {"artifact"} \X JobIds \X Runs \cup {"dataset"} \X Datasets \cup {"config"} \X Configs

Holder ==
  [ at: {"marked", "saving", "writing", "saved"},
    call: Calls,
    job: JobIds,
    run: Runs \cup {None},
    hashes: SUBSET Hashes ]

Reading ==
  [ at: {"idle", "begun", "live", "shown", "full", "error"},
    job: JobIds \cup {None},
    late: BOOLEAN,
    stale: BOOLEAN ]

ASSUME HolderAssumption == None \notin Holder

Idle == [at |-> "idle", job |-> None, late |-> FALSE, stale |-> FALSE]

DurableInit ==
  /\ Init
  /\ up = TRUE
  /\ torn = FALSE
  /\ lock = None
  /\ reads = [r \in Readers |-> Idle]
  /\ answered = [j \in JobIds |-> "absent"]
  /\ failed = FALSE

Free == up /\ lock = None

\* A call on j returns, and its caller knows the status of the job.
Return(j) == answered' = [answered EXCEPT ![j] = jobs[j].status]

-----------------------------------------------------------------------------
\* A call takes the lock and changes the table in memory; it has to save yet.
Change(j, js) ==
  /\ Free
  /\ jobs' = js
  /\ lock' = [at |-> "saving", call |-> "change", job |-> j, run |-> None,
              hashes |-> {}]
  /\ UNCHANGED <<disk, blobs, expired, receipt, up, torn, reads, answered, failed>>

Enqueue(j, r, original) ==
  /\ Cardinality(Present(jobs)) < MaxJobs
  /\ Change(j, [jobs EXCEPT ![j] =
                  [AbsentJob EXCEPT !.status = "queued", !.request = r,
                                    !.retryOf = original,
                                    !.createdAt = Cardinality(Present(jobs))]])
  /\ rank' = [rank EXCEPT ![j] = Cardinality(Present(jobs))]

BeginCreate(r) ==
  /\ jobs[JobOf[r]].status = "absent"
  /\ ActiveCount(jobs) < QueueLimit
  /\ Enqueue(JobOf[r], r, None)

BeginRetry(j) ==
  /\ Retryable(jobs[j].status)
  /\ jobs[j].request # None
  /\ ActiveCount(jobs) < QueueLimit
  /\ \E k \in Attempts :
       /\ jobs[RetryId[j][k]].status = "absent"
       /\ \A i \in Attempts : i < k => jobs[RetryId[j][i]].status # "absent"
       /\ Enqueue(RetryId[j][k], jobs[j].request, j)

BeginMove(j, s) ==
  /\ jobs[j].status \notin {"absent", s}
  /\ CanMove(jobs[j].status, s)
  /\ Change(j, Moved(j, s))
  /\ UNCHANGED rank

BeginCancel(j) ==
  /\ jobs[j].status \in ActiveStatus
  /\ Change(j, Moved(j, CancelStatus(jobs[j].status)))
  /\ UNCHANGED rank

\* A worker registers the bundle of a job that it has found running.
BeginRegister(j, a, p) ==
  /\ jobs[j].status = "running"
  /\ ~HasRun(jobs[j], a.run)
  /\ Change(j, [jobs EXCEPT ![j].artifacts = @ \cup {a}, ![j].provenance = p])
  /\ UNCHANGED rank

BeginSetKey(j, n) ==
  /\ HasRun(jobs[j], n)
  /\ <<j, n>> \in blobs
  /\ Change(j, [jobs EXCEPT ![j].artifacts =
                  {IF a.run = n THEN [a EXCEPT !.keyed = TRUE] ELSE a : a \in @}])
  /\ UNCHANGED rank

\* A call that finds nothing to do answers without saving: the replay of a
\* POST, a cancel of a settled job, a move to the status the job has.
Replay(j) ==
  /\ Free
  /\ jobs[j].status # "absent"
  /\ Return(j)
  /\ UNCHANGED <<storeVars, up, torn, lock, reads, failed>>

-----------------------------------------------------------------------------
(***************************************************************************)
(* _delete_artifact_locked(): the status first, then request, artifacts    *)
(* and provenance, then the save, then the storage.                        *)
(***************************************************************************)

\* Faulty variant: the request goes before the status.
MarkRequestFirst(call, j, n) ==
  /\ Free
  /\ jobs[j].status = "succeeded"
  /\ HasRun(jobs[j], n)
  /\ jobs' = [jobs EXCEPT ![j].request = None]
  /\ lock' = [at |-> "marked", call |-> call, job |-> j, run |-> n,
              hashes |-> {}]
  /\ UNCHANGED <<rank, disk, blobs, expired, receipt, up, torn, reads, answered, failed>>

Mark(call, j, n) ==
  /\ Free
  /\ jobs[j].status = "succeeded"
  /\ HasRun(jobs[j], n)
  /\ jobs' = [jobs EXCEPT ![j].status = "deleted"]
  /\ lock' = [at |-> "marked", call |-> call, job |-> j, run |-> n,
              hashes |-> {}]
  /\ UNCHANGED <<rank, disk, blobs, expired, receipt, up, torn, reads, answered, failed>>

BeginDelete(j, n) == Mark("delete", j, n)

BeginExpire(j, n) == Due(j, n) /\ Mark("expire", j, n)

\* Faulty variants: the deletion is answered without a save, or removes the
\* bytes before it.
WipeUnsaved ==
  /\ up /\ lock # None
  /\ lock.at = "marked"
  /\ jobs' = [jobs EXCEPT ![lock.job] = Tombstone(@, lock.call = "expire")]
  /\ lock' = None
  /\ receipt' = [receipt EXCEPT ![lock.job] = "verified"]
  /\ answered' = [answered EXCEPT ![lock.job] = "deleted"]
  /\ UNCHANGED <<rank, disk, blobs, expired, up, torn, reads, failed>>

WipeBytesFirst ==
  /\ up /\ lock # None
  /\ lock.at = "marked"
  /\ jobs' = [jobs EXCEPT ![lock.job] = Tombstone(@, lock.call = "expire")]
  /\ blobs' = blobs \ {<<lock.job, lock.run>>}
  /\ lock' = [lock EXCEPT !.at = "saving", !.run = None]
  /\ UNCHANGED <<rank, disk, expired, receipt, up, torn, reads, answered, failed>>

\* The storage key of the artifact is read before it is wiped; whether there
\* is one decides whether the storage is called after the save.
Wipe ==
  /\ up /\ lock # None
  /\ lock.at = "marked"
  /\ jobs' = [jobs EXCEPT ![lock.job] = Tombstone(@, lock.call = "expire")]
  /\ lock' = [lock EXCEPT !.at = "saving",
                          !.run = IF Keyed(jobs[lock.job], @) THEN @ ELSE None,
                          !.hashes = HashesOf(lock.job, lock.run, jobs[lock.job])]
  /\ UNCHANGED <<rank, disk, blobs, expired, receipt, up, torn, reads, answered, failed>>

\* DELETE of a tombstone answers at once.
BeginDeleteAgain(j) ==
  /\ Free
  /\ jobs[j].status = "deleted"
  /\ receipt' = [receipt EXCEPT ![j] = "verified"]
  /\ Return(j)
  /\ UNCHANGED <<jobs, rank, disk, blobs, expired, up, torn, lock, reads, failed>>

-----------------------------------------------------------------------------
(***************************************************************************)
(* _save(): write_text() opens the file, which truncates it, and writes.   *)
(***************************************************************************)
At(place) == up /\ lock # None /\ lock.at = place

Saving == At("saving") \/ At("writing")

\* The call ends: it lets go of the lock and answers.  The receipt of a DELETE
\* says whether the hashes of the artifact are gone.
Finish ==
  /\ lock' = None
  /\ Return(lock.job)
  /\ receipt' = IF lock.call # "delete" THEN receipt
                ELSE [receipt EXCEPT ![lock.job] =
                        IF HashesAbsent(lock.hashes, jobs) THEN "verified" ELSE "unverified"]

Truncate ==
  /\ At("saving")
  /\ torn' = TRUE
  /\ lock' = [lock EXCEPT !.at = "writing"]
  /\ UNCHANGED <<storeVars, up, reads, answered, failed>>

Write ==
  /\ At("writing")
  /\ disk' = [j \in JobIds |-> Persist(jobs[j])]
  /\ torn' = FALSE
  /\ IF lock.run = None THEN Finish
     ELSE /\ lock' = [lock EXCEPT !.at = "saved"]
          /\ UNCHANGED <<receipt, answered>>
  /\ UNCHANGED <<jobs, rank, blobs, expired, up, reads, failed>>

\* OSError: the file cannot be opened, or the disk is full.  The call raises;
\* what it did to the table in memory stays.  At most one save raises (a bound).
SaveRaises ==
  /\ Saving
  /\ lock.call \in FailingCalls /\ ~failed
  /\ lock' = None
  /\ failed' = TRUE
  /\ UNCHANGED <<storeVars, up, torn, reads, answered>>

StorageDelete ==
  /\ At("saved")
  /\ blobs' = blobs \ {<<lock.job, lock.run>>}
  /\ Finish
  /\ UNCHANGED <<jobs, rank, disk, expired, up, torn, reads, failed>>

StorageDeleteRaises ==
  /\ StorageDeleteMayFail
  /\ At("saved")
  /\ lock' = None
  /\ UNCHANGED <<storeVars, up, torn, reads, answered, failed>>

\* The process ends, with whoever was at work in it.
Crash ==
  /\ up
  /\ up' = FALSE
  /\ lock' = None
  /\ reads' = [r \in Readers |-> Idle]
  /\ UNCHANGED <<storeVars, torn, answered, failed>>

\* _load(): a torn file is no JSON, and the constructor raises.
Start ==
  /\ ~up /\ ~torn
  /\ up' = TRUE
  /\ Restart
  /\ UNCHANGED <<torn, lock, reads, answered, failed>>

-----------------------------------------------------------------------------
(***************************************************************************)
(* to_public_dict(), outside the lock, of a record got under the lock.     *)
(***************************************************************************)
Reads(r, from, read) ==
  /\ up /\ reads[r].at = from
  /\ reads' = [reads EXCEPT ![r] = read]
  /\ UNCHANGED <<storeVars, up, torn, lock, answered, failed>>

RecordRead(r) == jobs[reads[r].job]

\* `late`: the read begins after a DELETE of the job has been answered.
BeginRead(r, j) ==
  /\ Free
  /\ jobs[j].status # "absent"
  /\ Reads(r, reads[r].at, [Idle EXCEPT !.at = "begun", !.job = j,
                                       !.late = receipt[j] # "none"])
  /\ reads[r].at \in {"idle", "full", "error"}

\* if self.status == DELETED: the bare tombstone is the answer.
SeeStatus(r) ==
  Reads(r, "begun", IF RecordRead(r).status = "deleted" THEN Idle
                    ELSE [reads[r] EXCEPT !.at = "live"])

\* if self.request is None: raise, else "status": self.status.value
ShowStatus(r) ==
  Reads(r, "live", IF RecordRead(r).request = None THEN [reads[r] EXCEPT !.at = "error"]
                   ELSE [reads[r] EXCEPT !.at = "shown",
                                         !.stale = RecordRead(r).status = "deleted"])

\* "request": self.request.to_public_dict()
ShowRequest(r) ==
  Reads(r, "shown", IF RecordRead(r).request = None THEN [reads[r] EXCEPT !.at = "error"]
                    ELSE [reads[r] EXCEPT !.at = "full", !.job = None])

-----------------------------------------------------------------------------
RetentionPasses(j, n) ==
  /\ jobs[j].status = "succeeded"
  /\ <<j, n>> \notin expired
  /\ Elapse(j, n)
  /\ UNCHANGED <<up, torn, lock, reads, answered, failed>>

StoreBundle(j, n) ==
  /\ HasRun(jobs[j], n) /\ ~Keyed(jobs[j], n)
  /\ Upload(j, n)
  /\ UNCHANGED <<up, torn, lock, reads, answered, failed>>

Call ==
  \/ \E r \in Requests : BeginCreate(r)
  \/ \E j \in JobIds :
       \/ BeginRetry(j) \/ BeginCancel(j) \/ Replay(j) \/ BeginDeleteAgain(j)
       \/ \E s \in Status \ {"cancelled", "deleted"} : BeginMove(j, s)
       \/ \E n \in Runs :
            \/ BeginDelete(j, n) \/ BeginExpire(j, n) \/ BeginSetKey(j, n)
            \/ \E d \in Datasets, c \in Configs :
                 BeginRegister(j, [run |-> n, dataset |-> d, keyed |-> FALSE],
                               [run |-> n, dataset |-> d, config |-> c])

Hold == Wipe \/ Truncate \/ Write \/ SaveRaises \/ StorageDelete \/ StorageDeleteRaises

Answer(r) ==
  \/ \E j \in JobIds : BeginRead(r, j)
  \/ SeeStatus(r) \/ ShowStatus(r) \/ ShowRequest(r)

Surroundings ==
  \/ Crash \/ Start
  \/ \E j \in JobIds, n \in Runs : RetentionPasses(j, n) \/ StoreBundle(j, n)

DurableNext == Call \/ Hold \/ (\E r \in Readers : Answer(r)) \/ Surroundings

DurableSpec == DurableInit /\ [][DurableNext]_durableVars

-----------------------------------------------------------------------------
(***************************************************************************)
(* Correctness.                                                            *)
(***************************************************************************)

\* Every variable has the shape the code gives it, and a process that is not
\* up holds no lock.
DurableTypeOK ==
  /\ TypeOK
  /\ up \in BOOLEAN /\ torn \in BOOLEAN /\ failed \in BOOLEAN
  /\ lock = None \/ (lock \in Holder /\ up)
  /\ reads \in [Readers -> Reading]
  /\ answered \in [JobIds -> Status \cup {"absent"}]

\* The statuses a job can have had s before.
Later(s) ==
  CASE s = "queued" -> Status
    [] s = "running" -> Status \ {"queued"}
    [] s = "succeeded" -> {"succeeded", "deleted"}
    [] OTHER -> {s}

\* Until a save raises, the process that is up, be it the one that answered or one
\* that was started later, knows what a call has answered of a job, or what has
\* overtaken it; and the file has it at every instruction at which the file is not
\* cut, as it is, while a process is up, only between truncation and write of a
\* save.  (A process that ends just there takes everything: no other starts from
\* the file it leaves, see the claim StartFindsTheTable.)
AcknowledgedIsDurable ==
  ~failed =>
    /\ torn /\ up => At("writing")
    /\ \A j \in JobIds : answered[j] # "absent" =>
         /\ up => jobs[j].status \in Later(answered[j])
         /\ ~torn => disk[j].status \in Later(answered[j])

\* Until a save raises, a read that begins after DELETE was answered gets the bare
\* tombstone, in this process and in those that are started after it.  (For what a
\* save that raised leaves of an answered DELETE, see AnsweredDeletionsLast.)
DeletedIsSeenDeleted ==
  ~failed => \A r \in Readers : reads[r].late => reads[r].at \notin {"full", "error"}

\* The unlocked serialization of a record raises only when a deletion of that
\* record came in between.
OnlyDeletionsBreakReads ==
  \A r \in Readers : reads[r].at = "error" => jobs[reads[r].job].status = "deleted"

\* The bytes of an artifact are removed once the tombstone is in the file: the
\* process may end at any instruction, and no record comes back without bytes.
BytesAwaitTheTombstone ==
  [][\A j \in JobIds, n \in Runs :
       <<j, n>> \in blobs \ blobs' => ~torn /\ disk[j].status = "deleted"]_durableVars

\* Until a save raises, the tables that the file holds, one after another, are a
\* behaviour of the abstract queue: each save commits one operation, and a crash
\* or a start commits none.
FileQueue == INSTANCE JobQueue
               WITH state <- [j \in JobIds |-> disk[j].status],
                    origin <- [j \in JobIds |-> disk[j].retryOf]

FileImplementsQueue ==
  /\ FileQueue!Init
  /\ [][failed' \/ [FileQueue!Next]_(FileQueue!queueVars)]_durableVars

-----------------------------------------------------------------------------
(***************************************************************************)
(* What the documentation claims and the code does not keep.               *)
(***************************************************************************)

\* Claim: a job whose DELETE was answered remains a tombstone.
AnsweredDeletionsLast ==
  \A j \in JobIds :
    receipt[j] # "none" /\ up => jobs[j].status = "deleted"

\* Claim: the answer for a deleted job has no request.
TombstoneReplyIsBare ==
  \A r \in Readers : reads[r].at = "full" => ~reads[r].stale

\* Claim: the state is durable, whenever the process ends.
StartFindsTheTable == ~up => ~torn
=============================================================================
