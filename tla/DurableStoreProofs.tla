------------------------- MODULE DurableStoreProofs -------------------------
(***************************************************************************)
(* Proofs about DurableStore for every value of its constants: what the    *)
(* end of the process, a truncated file and a thread that reads without    *)
(* the lock may find between two instructions of the store.                *)
(***************************************************************************)
EXTENDS DurableStore, JobStoreProofs

\* A status comes after itself, after what came before it, and a tombstone is
\* the end.
LEMMA LaterOrder ==
  /\ \A s \in Status : s \in Later(s) /\ Later(s) \subseteq Status
  /\ \A s, t, u : s \in Status /\ t \in Later(s) /\ u \in Later(t) => u \in Later(s)
  /\ Later("deleted") = {"deleted"}
  /\ \A s, t \in Status : CanMove(s, t) => t \in Later(s)
<1>1. /\ Later("queued") = Status /\ Later("running") = Status \ {"queued"}
      /\ Later("succeeded") = {"succeeded", "deleted"}
      /\ Later("failed") = {"failed"} /\ Later("cancelled") = {"cancelled"}
      /\ Later("deleted") = {"deleted"}
  BY DEF Later
<1>2. Status = {"queued", "running", "succeeded", "failed", "cancelled", "deleted"}
  BY DEF Status, ActiveStatus, SettledStatus
<1>3. \A s, t \in Status : CanMove(s, t) => t \in Later(s)
  BY <1>1, <1>2 DEF CanMove, TransitionTable
<1>4. \A s, t, u : s \in Status /\ t \in Later(s) /\ u \in Later(t) => u \in Later(s)
  BY <1>1, <1>2
<1> QED BY <1>1, <1>2, <1>3, <1>4

-----------------------------------------------------------------------------
(***************************************************************************)
(* The inductive invariant.                                                *)
(***************************************************************************)

\* What the holder of the lock has done so far: a deletion has set the status
\* first, and it has the tombstone in the file before it calls the storage.
LockInv ==
  lock # None =>
    /\ lock.call # "change" => jobs[lock.job].status = "deleted"
    /\ lock.at = "marked" => lock.run \in Runs /\ lock.call # "change"
    /\ lock.run # None => lock.call # "change"
    /\ lock.at = "saved" => ~torn /\ disk[lock.job].status = "deleted"

\* A record without a request is a tombstone, in memory and in the file.
Bare(rec) == rec.request = None => rec.status \in {"absent", "deleted"}

RequestInv == \A j \in JobIds : Bare(jobs[j]) /\ Bare(disk[j])

\* A reader at work is in a process that is up and has a record of its table;
\* what broke it is the deletion of that record.
ReadInv ==
  \A r \in Readers :
    /\ ~up => reads[r] = Idle
    /\ reads[r].at \notin {"idle", "full"} =>
         reads[r].job \in JobIds /\ jobs[reads[r].job].status # "absent"
    /\ reads[r].at = "error" => jobs[reads[r].job].status = "deleted"

\* Until a save raises, the file is what the calls have answered or later, the
\* table is what the file holds or later, and the two agree between calls.
FileInv ==
  ~failed =>
    \A j \in JobIds :
      /\ answered[j] # "absent" => disk[j].status \in Later(answered[j])
      /\ receipt[j] # "none" => disk[j].status = "deleted"
      /\ up /\ disk[j].status # "absent" => jobs[j].status \in Later(disk[j].status)
      /\ up /\ (lock = None \/ lock.at = "saved") => jobs[j].status = disk[j].status

\* A read that began after the deletion was answered has only begun.
LateInv ==
  ~failed =>
    \A r \in Readers :
      reads[r].late => reads[r].at = "begun" /\ jobs[reads[r].job].status = "deleted"

DurableInv ==
  DurableTypeOK /\ LockInv /\ RequestInv /\ ReadInv /\ FileInv /\ LateInv

\* What a call may do to a record in memory.
Grows(old, new) ==
  /\ old.status # "absent" => new.status # "absent" /\ new.status \in Later(old.status)
  /\ Bare(new)

\* Readers and finished calls are not disturbed by records that grow.
LEMMA GrowthKeepsReads ==
  ASSUME DurableInv, UNCHANGED <<up, reads, failed>>,
         \A j \in JobIds : Grows(jobs[j], jobs'[j])
  PROVE  ReadInv' /\ LateInv'
<1>1. \A j \in JobIds : jobs[j].status = "deleted" => jobs'[j].status = "deleted"
  BY LaterOrder DEF Grows
<1>2. \A j \in JobIds : jobs[j].status # "absent" => jobs'[j].status # "absent"
  BY DEF Grows
<1>3. ReadInv'
  BY <1>1, <1>2 DEF DurableInv, ReadInv
<1>4. LateInv'
  BY <1>1, <1>2 DEF DurableInv, LateInv, ReadInv
<1> QED BY <1>3, <1>4

\* A call that has changed the table and holds the lock, before its save.
LEMMA ChangeKeepsInv ==
  ASSUME DurableInv, Free, NEW j \in JobIds, NEW h \in Holder,
         jobs' \in [JobIds -> JobRecord], rank' \in [JobIds -> Nat],
         \A i \in JobIds : Grows(jobs[i], jobs'[i]),
         h.job = j, h.at # "saved",
         h.call # "change" => jobs'[j].status = "deleted",
         h.at = "marked" => h.run \in Runs /\ h.call # "change",
         h.run # None => h.call # "change",
         lock' = h,
         UNCHANGED <<disk, blobs, expired, receipt, up, torn, reads, answered, failed>>
  PROVE  DurableInv'
<1>1. up /\ lock = None
  BY DEF Free
<1>2. h # None
  BY HolderAssumption
<1>3. DurableTypeOK'
  BY <1>1 DEF DurableInv, DurableTypeOK, TypeOK
<1>4. LockInv'
  BY <1>2 DEF LockInv
<1>5. RequestInv'
  BY DEF DurableInv, RequestInv, Grows, Bare
<1>6. FileInv'
  <2> SUFFICES ASSUME ~failed, NEW i \in JobIds
               PROVE  /\ answered[i] # "absent" => disk[i].status \in Later(answered[i])
                      /\ receipt[i] # "none" => disk[i].status = "deleted"
                      /\ disk[i].status # "absent" =>
                           jobs'[i].status \in Later(disk[i].status)
    BY <1>1, <1>2 DEF FileInv
  <2>1. jobs[i].status = disk[i].status
    BY <1>1 DEF DurableInv, FileInv
  <2>2. jobs[i].status # "absent" => jobs'[i].status \in Later(jobs[i].status)
    BY DEF Grows
  <2> QED BY <2>1, <2>2 DEF DurableInv, FileInv
<1>7. ReadInv' /\ LateInv'
  BY GrowthKeepsReads
<1> QED BY <1>3, <1>4, <1>5, <1>6, <1>7 DEF DurableInv

-----------------------------------------------------------------------------
(***************************************************************************)
(* The calls that change the table and have to save.                       *)
(***************************************************************************)

\* A call that is no deletion keeps the invariant when its records grow.
LEMMA PlainChange ==
  ASSUME DurableInv, NEW j \in JobIds, NEW js \in [JobIds -> JobRecord], Change(j, js),
         rank' \in [JobIds -> Nat],
         \A i \in JobIds : Grows(jobs[i], js[i])
  PROVE  DurableInv'
<1> DEFINE h == [at |-> "saving", call |-> "change", job |-> j, run |-> None,
                 hashes |-> {}]
<1>1. h \in Holder
  BY DEF Holder, Calls
<1>2. h.job = j /\ h.at = "saving" /\ h.call = "change" /\ h.run = None
  OBVIOUS
<1>3. Free /\ jobs' = js /\ lock' = h
      /\ UNCHANGED <<disk, blobs, expired, receipt, up, torn, reads, answered, failed>>
  BY DEF Change
<1> HIDE DEF h
<1> QED BY <1>1, <1>2, <1>3, ChangeKeepsInv

\* A new job enters the table with its request.
LEMMA EnqueueStep ==
  ASSUME DurableInv, NEW j \in JobIds, NEW r \in Requests, NEW o \in JobIds \cup {None},
         jobs[j].status = "absent", Enqueue(j, r, o)
  PROVE  DurableInv'
<1> DEFINE new == [AbsentJob EXCEPT !.status = "queued", !.request = r, !.retryOf = o,
                                    !.createdAt = Cardinality(Present(jobs))]
           js == [jobs EXCEPT ![j] = new]
<1>1. Cardinality(Present(jobs)) \in Nat
  <2>1. IsFiniteSet(Present(jobs))
    BY JobIdsAssumption, FS_Subset DEF Present
  <2> QED BY <2>1, FS_CardinalityType
<1>2. new \in JobRecord /\ new.status = "queued" /\ new.request = r
  BY <1>1 DEF AbsentJob, JobRecord, Status, ActiveStatus
<1>3. jobs \in [JobIds -> JobRecord] /\ rank \in [JobIds -> Nat]
  BY DEF DurableInv, DurableTypeOK, TypeOK
<1>4. Change(j, js) /\ rank' = [rank EXCEPT ![j] = Cardinality(Present(jobs))]
  BY DEF Enqueue
<1> HIDE DEF new
<1>5. js \in [JobIds -> JobRecord] /\ rank' \in [JobIds -> Nat]
  BY <1>1, <1>2, <1>3, <1>4
<1>6. \A i \in JobIds : jobs[i] \in JobRecord /\ Bare(jobs[i])
  BY <1>3 DEF DurableInv, RequestInv
<1>7. \A i \in JobIds : Grows(jobs[i], js[i])
  <2> SUFFICES ASSUME NEW i \in JobIds PROVE Grows(jobs[i], js[i])
    OBVIOUS
  <2>1. CASE i = j
    BY <2>1, <1>2, <1>3, NoneAssumption DEF Grows, Bare
  <2>2. CASE i # j
    <3>1. js[i] = jobs[i]
      BY <2>2, <1>3
    <3>2. jobs[i].status # "absent" => jobs[i].status \in Status
      BY <1>6 DEF JobRecord
    <3> QED BY <3>1, <3>2, <1>6, LaterOrder DEF Grows
  <2> QED BY <2>1, <2>2
<1> HIDE DEF js
<1> QED BY <1>4, <1>5, <1>7, PlainChange

\* A job moves along the table of transitions, and queued ones may start.
LEMMA MoveChange ==
  ASSUME DurableInv, NEW j \in JobIds, NEW s \in Status \ {"queued", "deleted"},
         jobs[j].status # "absent", CanMove(jobs[j].status, s),
         Change(j, Moved(j, s)), UNCHANGED rank
  PROVE  DurableInv'
<1>1. jobs \in [JobIds -> JobRecord] /\ rank \in [JobIds -> Nat]
  BY DEF DurableInv, DurableTypeOK, TypeOK
<1>2. \A i \in JobIds : /\ jobs[i] \in JobRecord /\ Bare(jobs[i])
                        /\ jobs[i].status # "absent" => jobs[i].status \in Status
  BY <1>1 DEF DurableInv, RequestInv, JobRecord
<1>3. /\ Moved(j, s) \in [JobIds -> JobRecord]
      /\ Moved(j, s)[j] = [jobs[j] EXCEPT !.status = s]
      /\ \A i \in JobIds \ {j} :
           \/ Moved(j, s)[i] = jobs[i]
           \/ /\ jobs[i].status = "queued"
              /\ Moved(j, s)[i] = [jobs[i] EXCEPT !.status = "running"]
  BY <1>1, MovedEffect
<1>4. \A i \in JobIds : Grows(jobs[i], Moved(j, s)[i])
  <2> SUFFICES ASSUME NEW i \in JobIds PROVE Grows(jobs[i], Moved(j, s)[i])
    OBVIOUS
  <2>1. CASE Moved(j, s)[i] = jobs[i]
    BY <2>1, <1>2, LaterOrder DEF Grows
  <2>2. CASE i = j
    <3>1. Moved(j, s)[j].status = s /\ Moved(j, s)[j].request = jobs[j].request
      BY <1>2, <1>3 DEF JobRecord
    <3>2. s \in Later(jobs[j].status) /\ s # "absent"
      BY <1>2, LaterOrder DEF Status, ActiveStatus, SettledStatus
    <3>3. jobs[j].request # None \/ jobs[j].status = "deleted"
      BY <1>2 DEF Bare
    <3>4. jobs[j].request # None
      BY <3>2, <3>3, LaterOrder
    <3> QED BY <2>2, <3>1, <3>2, <3>4 DEF Grows, Bare
  <2>3. CASE jobs[i].status = "queued" /\ Moved(j, s)[i] = [jobs[i] EXCEPT !.status = "running"]
    <3>1. Moved(j, s)[i].status = "running" /\ Moved(j, s)[i].request = jobs[i].request
      BY <2>3, <1>2 DEF JobRecord
    <3>2. "running" \in Later("queued")
      BY LaterOrder DEF CanMove, TransitionTable, Status, ActiveStatus
    <3> QED BY <2>3, <3>1, <3>2, <1>2 DEF Grows, Bare
  <2> QED BY <2>1, <2>2, <2>3, <1>3
<1> QED BY <1>1, <1>3, <1>4, PlainChange

\* A record whose artifacts and provenance change grows.
LEMMA RecordChange ==
  ASSUME DurableInv, NEW j \in JobIds, NEW rec \in JobRecord,
         rec.status = jobs[j].status, rec.request = jobs[j].request,
         Change(j, [jobs EXCEPT ![j] = rec]), UNCHANGED rank
  PROVE  DurableInv'
<1>1. jobs \in [JobIds -> JobRecord] /\ rank \in [JobIds -> Nat]
  BY DEF DurableInv, DurableTypeOK, TypeOK
<1>2. \A i \in JobIds : /\ Bare(jobs[i])
                        /\ jobs[i].status # "absent" => jobs[i].status \in Status
  BY <1>1 DEF DurableInv, RequestInv, JobRecord
<1>3. \A i \in JobIds : Grows(jobs[i], [jobs EXCEPT ![j] = rec][i])
  <2>1. \A i \in JobIds : Grows(jobs[i], jobs[i])
    BY <1>2, LaterOrder DEF Grows
  <2>2. Grows(jobs[j], rec)
    BY <1>2, LaterOrder DEF Grows, Bare
  <2> QED BY <1>1, <2>1, <2>2
<1>4. [jobs EXCEPT ![j] = rec] \in [JobIds -> JobRecord]
  BY <1>1
<1> QED BY <1>1, <1>3, <1>4, PlainChange

-----------------------------------------------------------------------------
(***************************************************************************)
(* The deletion, instruction by instruction.                               *)
(***************************************************************************)

\* The status of a deletion is set while the request is still there.
LEMMA MarkStep ==
  ASSUME DurableInv, NEW call \in {"delete", "expire"}, NEW j \in JobIds, NEW n \in Runs,
         Mark(call, j, n)
  PROVE  DurableInv'
<1> DEFINE h == [at |-> "marked", call |-> call, job |-> j, run |-> n, hashes |-> {}]
           rec == [jobs[j] EXCEPT !.status = "deleted"]
<1>1. h \in Holder /\ h.job = j /\ h.at = "marked" /\ h.call # "change" /\ h.run = n
  BY DEF Holder, Calls
<1>2. jobs \in [JobIds -> JobRecord] /\ rank \in [JobIds -> Nat]
  BY DEF DurableInv, DurableTypeOK, TypeOK
<1>3. /\ Free /\ jobs[j].status = "succeeded" /\ jobs' = [jobs EXCEPT ![j].status = "deleted"]
      /\ lock' = h
      /\ UNCHANGED <<rank, disk, blobs, expired, receipt, up, torn, reads, answered, failed>>
  BY DEF Mark
<1>4. rec \in JobRecord /\ rec.status = "deleted"
  BY <1>2 DEF JobRecord, Status, SettledStatus
<1>5. jobs'[j] = rec /\ \A i \in JobIds \ {j} : jobs'[i] = jobs[i]
  BY <1>2, <1>3
<1>6. jobs' \in [JobIds -> JobRecord]
  BY <1>2, <1>3, <1>4
<1>7. \A i \in JobIds : Grows(jobs[i], jobs'[i])
  <2>1. \A i \in JobIds : /\ Bare(jobs[i])
                          /\ jobs[i].status # "absent" => jobs[i].status \in Status
    BY <1>2 DEF DurableInv, RequestInv, JobRecord
  <2>2. Grows(jobs[j], rec)
    <3>1. "deleted" \in Later("succeeded")
      BY LaterOrder DEF CanMove, TransitionTable, Status, ActiveStatus, SettledStatus
    <3> QED BY <3>1, <1>3, <1>4 DEF Grows, Bare
  <2>3. \A i \in JobIds : Grows(jobs[i], jobs[i])
    BY <2>1, LaterOrder DEF Grows
  <2> QED BY <1>5, <2>2, <2>3
<1> HIDE DEF h, rec
<1> QED BY <1>1, <1>2, <1>3, <1>4, <1>5, <1>6, <1>7, ChangeKeepsInv

\* What a receipt is to find absent has the names of hashes.
LEMMA HashesType ==
  ASSUME NEW j \in JobIds, NEW n \in Runs, NEW rec \in JobRecord
  PROVE  HashesOf(j, n, rec) \in SUBSET Hashes
<1>1. \A a \in rec.artifacts : a.dataset \in Datasets
  BY DEF JobRecord, Artifact
<1>2. {<<"dataset", a.dataset>> : a \in {b \in rec.artifacts : b.run = n}} \subseteq Hashes
  BY <1>1 DEF Hashes
<1>3. ProvenanceHashes(j, rec) \subseteq Hashes
  <2>1. CASE rec.provenance = None
    BY <2>1 DEF ProvenanceHashes
  <2>2. CASE rec.provenance # None
    <3>1. /\ rec.provenance.run \in Runs /\ rec.provenance.dataset \in Datasets
          /\ rec.provenance.config \in Configs
      BY <2>2 DEF JobRecord, Provenance
    <3> QED BY <2>2, <3>1 DEF ProvenanceHashes, Hashes
  <2> QED BY <2>1, <2>2
<1>4. <<"artifact", j, n>> \in Hashes
  BY DEF Hashes
<1> QED BY <1>2, <1>3, <1>4 DEF HashesOf

\* The wipe takes request, artifacts and provenance of a marked record.
LEMMA WipeStep ==
  ASSUME DurableInv, Wipe
  PROVE  DurableInv' /\ lock' \in Holder /\ lock'.at = "saving"
<1>1. lock \in Holder /\ up /\ lock # None /\ lock.at = "marked"
  BY DEF DurableInv, DurableTypeOK, Wipe
<1>2. lock.job \in JobIds /\ lock.run \in Runs \cup {None} /\ lock.call \in Calls
  BY <1>1 DEF Holder
<1>3. jobs \in [JobIds -> JobRecord]
  BY DEF DurableInv, DurableTypeOK, TypeOK
<1>4. lock.call # "change" /\ jobs[lock.job].status = "deleted"
  BY <1>1 DEF DurableInv, LockInv
<1> DEFINE rec == Tombstone(jobs[lock.job], lock.call = "expire")
           run == IF Keyed(jobs[lock.job], lock.run) THEN lock.run ELSE None
           hs == HashesOf(lock.job, lock.run, jobs[lock.job])
           h == [lock EXCEPT !.at = "saving", !.run = run, !.hashes = hs]
<1>5. rec \in JobRecord
  BY <1>2, <1>3, TombstoneType
<1>6. rec.status = "deleted"
  BY <1>2, <1>3 DEF Tombstone, JobRecord
<1>7. /\ jobs' = [jobs EXCEPT ![lock.job] = rec] /\ lock' = h
      /\ UNCHANGED <<rank, disk, blobs, expired, receipt, up, torn, reads, answered, failed>>
  BY DEF Wipe
<1>8. run \in {lock.run, None}
  OBVIOUS
<1>9. hs \in SUBSET Hashes
  <2>1. lock.run \in Runs
    BY <1>1 DEF DurableInv, LockInv
  <2> QED BY <1>2, <1>3, <2>1, HashesType
<1> HIDE DEF rec, run, hs
<1>10. h \in Holder /\ h.at = "saving" /\ h.job = lock.job /\ h.call = lock.call
  BY <1>1, <1>2, <1>8, <1>9 DEF Holder
<1> HIDE DEF h
<1>11. h # None
  BY <1>10, HolderAssumption
<1>12. jobs' \in [JobIds -> JobRecord]
  BY <1>3, <1>5, <1>7
<1>13. \A i \in JobIds : jobs'[i].status = jobs[i].status
  BY <1>3, <1>4, <1>6, <1>7
<1>14. DurableTypeOK'
  BY <1>1, <1>7, <1>10, <1>12 DEF DurableInv, DurableTypeOK, TypeOK
<1>15. LockInv'
  BY <1>2, <1>4, <1>7, <1>10, <1>13 DEF LockInv
<1>16. \A i \in JobIds : Grows(jobs[i], jobs'[i])
  <2>1. \A i \in JobIds : Bare(jobs'[i])
    BY <1>3, <1>6, <1>7 DEF DurableInv, RequestInv, Bare
  <2>2. \A i \in JobIds : jobs[i].status # "absent" => jobs[i].status \in Status
    BY <1>3 DEF JobRecord
  <2> QED BY <1>13, <2>1, <2>2, LaterOrder DEF Grows
<1>17. RequestInv'
  BY <1>7, <1>16 DEF DurableInv, RequestInv, Grows, Bare
<1>18. FileInv'
  BY <1>1, <1>7, <1>10, <1>11, <1>13 DEF DurableInv, FileInv
<1>19. ReadInv' /\ LateInv'
  BY <1>7, <1>16, GrowthKeepsReads
<1> QED BY <1>7, <1>10, <1>14, <1>15, <1>17, <1>18, <1>19 DEF DurableInv

-----------------------------------------------------------------------------
(***************************************************************************)
(* Calls that answer, the save, and the storage.                           *)
(***************************************************************************)

\* A call that finds nothing to do answers what the file holds.
LEMMA AnswerStep ==
  ASSUME DurableInv, NEW j \in JobIds, Replay(j) \/ BeginDeleteAgain(j)
  PROVE  DurableInv'
<1>1. /\ up /\ lock = None /\ jobs[j].status # "absent" /\ Return(j)
      /\ UNCHANGED <<jobs, rank, disk, blobs, expired, up, torn, lock, reads, failed>>
      /\ \/ UNCHANGED receipt
         \/ receipt' = [receipt EXCEPT ![j] = "verified"] /\ jobs[j].status = "deleted"
  BY DEF Replay, BeginDeleteAgain, Free, storeVars
<1>2. jobs[j].status \in Status
  BY <1>1 DEF DurableInv, DurableTypeOK, TypeOK, JobRecord
<1>3. DurableTypeOK'
  BY <1>1, <1>2 DEF DurableInv, DurableTypeOK, TypeOK, Return
<1>4. LockInv' /\ RequestInv'
  BY <1>1 DEF DurableInv, LockInv, RequestInv
<1>5. ReadInv' /\ LateInv'
  BY <1>1 DEF DurableInv, ReadInv, LateInv
<1>6. FileInv'
  <2> SUFFICES ASSUME ~failed, NEW i \in JobIds
               PROVE  /\ answered'[i] # "absent" => disk[i].status \in Later(answered'[i])
                      /\ receipt'[i] # "none" => disk[i].status = "deleted"
                      /\ disk[i].status # "absent" =>
                           jobs[i].status \in Later(disk[i].status)
                      /\ jobs[i].status = disk[i].status
    BY <1>1 DEF FileInv
  <2>1. jobs[j].status = disk[j].status /\ jobs[i].status = disk[i].status
    BY <1>1 DEF DurableInv, FileInv
  <2>2. receipt'[i] # "none" => disk[i].status = "deleted"
    BY <1>1, <2>1 DEF DurableInv, FileInv, DurableTypeOK, TypeOK
  <2>3. answered'[i] # "absent" => disk[i].status \in Later(answered'[i])
    <3>1. /\ answered' = [answered EXCEPT ![j] = jobs[j].status]
          /\ answered \in [JobIds -> Status \cup {"absent"}]
      BY <1>1 DEF Return, DurableInv, DurableTypeOK
    <3>2. answered[i] # "absent" => disk[i].status \in Later(answered[i])
      BY DEF DurableInv, FileInv
    <3>3. CASE i = j
      BY <1>2, <2>1, <3>1, <3>3, LaterOrder
    <3>4. CASE i # j
      BY <3>1, <3>2, <3>4
    <3> QED BY <3>3, <3>4
  <2> QED BY <1>1, <2>1, <2>2, <2>3 DEF DurableInv, FileInv
<1> QED BY <1>3, <1>4, <1>5, <1>6 DEF DurableInv

\* The opening of the file cuts it, and the table it held last is still `disk`.
LEMMA TruncateStep ==
  ASSUME DurableInv, Truncate
  PROVE  DurableInv'
<1>1. /\ lock \in Holder /\ up /\ lock # None /\ lock.at = "saving"
      /\ lock' = [lock EXCEPT !.at = "writing"]
      /\ UNCHANGED <<storeVars, up, reads, answered, failed>> /\ torn' = TRUE
  BY DEF DurableInv, DurableTypeOK, Truncate, At
<1>2. /\ lock' \in Holder /\ lock'.at = "writing" /\ lock'.call = lock.call
      /\ lock'.job = lock.job /\ lock'.run = lock.run
  BY <1>1 DEF Holder
<1>3. lock' # None
  BY <1>2, HolderAssumption
<1>4. DurableTypeOK'
  BY <1>1, <1>2 DEF DurableInv, DurableTypeOK, TypeOK, storeVars
<1>5. LockInv'
  BY <1>1, <1>2 DEF DurableInv, LockInv, storeVars
<1>6. RequestInv' /\ ReadInv' /\ LateInv'
  BY <1>1 DEF DurableInv, RequestInv, ReadInv, LateInv, storeVars
<1>7. FileInv'
  BY <1>1, <1>2, <1>3 DEF DurableInv, FileInv, storeVars
<1> QED BY <1>4, <1>5, <1>6, <1>7 DEF DurableInv

\* The receipts and answers of a call that ends are those of its job.
LEMMA FinishAnswers ==
  ASSUME DurableInv, lock \in Holder, Finish
  PROVE  /\ receipt' \in [JobIds -> {"none", "verified", "unverified"}]
         /\ answered' = [answered EXCEPT ![lock.job] = jobs[lock.job].status]
         /\ \A i \in JobIds :
              \/ receipt'[i] = receipt[i]
              \/ i = lock.job /\ lock.call # "change"
<1>1. receipt \in [JobIds -> {"none", "verified", "unverified"}]
  BY DEF DurableInv, DurableTypeOK, TypeOK
<1>2. PICK v \in {"verified", "unverified"} :
        receipt' = IF lock.call # "delete" THEN receipt
                   ELSE [receipt EXCEPT ![lock.job] = v]
  BY DEF Finish
<1>3. lock.job \in JobIds
  BY DEF Holder
<1>4. answered' = [answered EXCEPT ![lock.job] = jobs[lock.job].status]
  BY DEF Finish, Return
<1>5. \A i \in JobIds : \/ receipt'[i] = receipt[i]
                        \/ i = lock.job /\ lock.call # "change"
  BY <1>1, <1>2, <1>3
<1>6. receipt' \in [JobIds -> {"none", "verified", "unverified"}]
  BY <1>1, <1>2, <1>3
<1> QED BY <1>4, <1>5, <1>6

\* The file is written whole: it holds the table.
LEMMA WriteStep ==
  ASSUME DurableInv, Write
  PROVE  DurableInv'
<1>1. /\ lock \in Holder /\ up /\ lock # None /\ lock.at = "writing"
      /\ disk' = [j \in JobIds |-> Persist(jobs[j])] /\ torn' = FALSE
      /\ UNCHANGED <<jobs, rank, blobs, expired, up, reads, failed>>
      /\ \/ Finish
         \/ /\ lock.run # None /\ lock' = [lock EXCEPT !.at = "saved"]
            /\ UNCHANGED <<receipt, answered>>
  BY DEF DurableInv, DurableTypeOK, Write, At
<1>2. jobs \in [JobIds -> JobRecord] /\ lock.job \in JobIds
  BY <1>1 DEF DurableInv, DurableTypeOK, TypeOK, Holder
<1>3. disk' \in [JobIds -> JobRecord]
  BY <1>1, <1>2, PersistType
<1>4. \A j \in JobIds : /\ disk'[j].status = jobs[j].status
                        /\ disk'[j].request = jobs[j].request
  BY <1>1, <1>2, PersistKeeps
<1>5. RequestInv'
  BY <1>1, <1>4 DEF DurableInv, RequestInv, Bare
<1>6. ReadInv' /\ LateInv'
  BY <1>1 DEF DurableInv, ReadInv, LateInv
<1>7. \A j \in JobIds : jobs[j].status # "absent" => jobs[j].status \in Status
  BY <1>2 DEF JobRecord
<1>8. ~failed => \A j \in JobIds :
        /\ answered[j] # "absent" => jobs[j].status \in Later(answered[j])
        /\ receipt[j] # "none" => jobs[j].status = "deleted"
  <2> SUFFICES ASSUME ~failed, NEW j \in JobIds
               PROVE  /\ answered[j] # "absent" => jobs[j].status \in Later(answered[j])
                      /\ receipt[j] # "none" => jobs[j].status = "deleted"
    OBVIOUS
  <2>1. /\ answered[j] # "absent" => disk[j].status \in Later(answered[j])
        /\ receipt[j] # "none" => disk[j].status = "deleted"
        /\ disk[j].status # "absent" => jobs[j].status \in Later(disk[j].status)
    BY <1>1 DEF DurableInv, FileInv
  <2>2. answered[j] # "absent" => answered[j] \in Status
    BY DEF DurableInv, DurableTypeOK
  <2>3. "absent" \notin Status
    BY DEF Status, ActiveStatus, SettledStatus
  <2> QED BY <2>1, <2>2, <2>3, LaterOrder
<1>9. CASE Finish
  <2>1. /\ receipt' \in [JobIds -> {"none", "verified", "unverified"}]
        /\ answered' = [answered EXCEPT ![lock.job] = jobs[lock.job].status]
        /\ \A i \in JobIds : \/ receipt'[i] = receipt[i]
                             \/ i = lock.job /\ lock.call # "change"
    BY <1>1, <1>9, FinishAnswers
  <2>2. lock' = None
    BY <1>9 DEF Finish
  <2>3. DurableTypeOK'
    BY <1>1, <1>2, <1>3, <2>1, <2>2 DEF DurableInv, DurableTypeOK, TypeOK, JobRecord
  <2>4. lock.call # "change" => jobs[lock.job].status = "deleted"
    BY <1>1 DEF DurableInv, LockInv
  <2>5. FileInv'
    <3> SUFFICES ASSUME ~failed, NEW i \in JobIds
                 PROVE  /\ answered'[i] # "absent" => jobs[i].status \in Later(answered'[i])
                        /\ receipt'[i] # "none" => jobs[i].status = "deleted"
                        /\ jobs[i].status # "absent" =>
                             jobs[i].status \in Later(jobs[i].status)
      BY <1>1, <1>4 DEF FileInv
    <3>1. answered'[i] # "absent" => jobs[i].status \in Later(answered'[i])
      BY <1>7, <1>8, <2>1, LaterOrder DEF DurableInv, DurableTypeOK
    <3> QED BY <3>1, <1>7, <1>8, <2>1, <2>4, LaterOrder
  <2>6. LockInv'
    BY <2>2 DEF LockInv
  <2> QED BY <1>5, <1>6, <2>3, <2>5, <2>6 DEF DurableInv
<1>10. CASE /\ lock.run # None /\ lock' = [lock EXCEPT !.at = "saved"]
            /\ UNCHANGED <<receipt, answered>>
  <2>1. /\ lock' \in Holder /\ lock'.at = "saved" /\ lock'.call = lock.call
        /\ lock'.job = lock.job /\ lock'.run = lock.run
    BY <1>1, <1>10 DEF Holder
  <2>2. DurableTypeOK'
    BY <1>1, <1>3, <1>10, <2>1 DEF DurableInv, DurableTypeOK, TypeOK
  <2>3. lock.call # "change" /\ jobs[lock.job].status = "deleted"
    BY <1>1, <1>10 DEF DurableInv, LockInv
  <2>4. LockInv'
    BY <1>1, <1>2, <1>4, <2>1, <2>3 DEF LockInv
  <2>5. FileInv'
    BY <1>1, <1>4, <1>7, <1>8, <1>10, LaterOrder DEF FileInv
  <2> QED BY <1>5, <1>6, <2>2, <2>4, <2>5 DEF DurableInv
<1> QED BY <1>1, <1>9, <1>10

\* The lock is let go of by a save that raises: what the table holds beyond the
\* file is nobody's answer.
LEMMA RaiseStep ==
  ASSUME DurableInv, SaveRaises \/ StorageDeleteRaises
  PROVE  DurableInv'
<1>1. /\ lock' = None /\ UNCHANGED <<storeVars, up, torn, reads, answered>>
      /\ failed' = TRUE \/ (failed' = failed /\ lock # None /\ lock.at = "saved")
  BY DEF SaveRaises, StorageDeleteRaises, At
<1>2. DurableTypeOK'
  BY <1>1 DEF DurableInv, DurableTypeOK, TypeOK, storeVars
<1>3. LockInv' /\ RequestInv' /\ ReadInv' /\ LateInv'
  BY <1>1 DEF DurableInv, LockInv, RequestInv, ReadInv, LateInv, storeVars
<1>4. FileInv'
  BY <1>1 DEF DurableInv, FileInv, storeVars
<1> QED BY <1>2, <1>3, <1>4 DEF DurableInv

\* The bytes go after the tombstone is in the file, and the call answers.
LEMMA StorageDeleteStep ==
  ASSUME DurableInv, StorageDelete
  PROVE  DurableInv'
<1>1. /\ lock \in Holder /\ up /\ lock # None /\ lock.at = "saved" /\ Finish
      /\ blobs' \subseteq blobs
      /\ UNCHANGED <<jobs, rank, disk, expired, up, torn, reads, failed>>
  BY DEF DurableInv, DurableTypeOK, StorageDelete, At
<1>2. /\ receipt' \in [JobIds -> {"none", "verified", "unverified"}]
      /\ answered' = [answered EXCEPT ![lock.job] = jobs[lock.job].status]
      /\ \A i \in JobIds : \/ receipt'[i] = receipt[i]
                           \/ i = lock.job /\ lock.call # "change"
  BY <1>1, FinishAnswers
<1>3. lock' = None
  BY <1>1 DEF Finish
<1>4. jobs \in [JobIds -> JobRecord] /\ lock.job \in JobIds
  BY <1>1 DEF DurableInv, DurableTypeOK, TypeOK, Holder
<1>5. DurableTypeOK'
  <2>1. blobs \subseteq JobIds \X Runs
    BY DEF DurableInv, DurableTypeOK, TypeOK
  <2>2. blobs' \subseteq JobIds \X Runs
    BY <1>1, <2>1
  <2> QED BY <1>1, <1>2, <1>3, <1>4, <2>2 DEF DurableInv, DurableTypeOK, TypeOK, JobRecord
<1>6. RequestInv' /\ ReadInv' /\ LateInv' /\ LockInv'
  BY <1>1, <1>3 DEF DurableInv, RequestInv, ReadInv, LateInv, LockInv
<1>7. FileInv'
  <2> SUFFICES ASSUME ~failed, NEW i \in JobIds
               PROVE  /\ answered'[i] # "absent" => disk[i].status \in Later(answered'[i])
                      /\ receipt'[i] # "none" => disk[i].status = "deleted"
                      /\ disk[i].status # "absent" =>
                           jobs[i].status \in Later(disk[i].status)
                      /\ jobs[i].status = disk[i].status
    BY <1>1 DEF FileInv
  <2>1. jobs[i].status = disk[i].status
    BY <1>1 DEF DurableInv, FileInv
  <2>2. lock.call # "change" => jobs[lock.job].status = "deleted"
    BY <1>1 DEF DurableInv, LockInv
  <2>3. jobs[i].status # "absent" => jobs[i].status \in Status
    BY <1>4 DEF JobRecord
  <2>4. answered'[i] # "absent" => disk[i].status \in Later(answered'[i])
    BY <1>2, <2>1, <2>3, LaterOrder DEF DurableInv, DurableTypeOK, FileInv
  <2> QED BY <1>1, <1>2, <2>1, <2>2, <2>4 DEF DurableInv, FileInv
<1> QED BY <1>5, <1>6, <1>7 DEF DurableInv

-----------------------------------------------------------------------------
(***************************************************************************)
(* The process, its readers and its surroundings.                          *)
(***************************************************************************)

\* With the process go its lock and its readers.
LEMMA CrashStep ==
  ASSUME DurableInv, Crash
  PROVE  DurableInv'
<1>1. /\ up' = FALSE /\ lock' = None /\ reads' = [r \in Readers |-> Idle]
      /\ UNCHANGED <<storeVars, torn, answered, failed>>
  BY DEF Crash
<1>2. DurableTypeOK'
  BY <1>1 DEF DurableInv, DurableTypeOK, TypeOK, storeVars, Reading, Idle
<1>3. ReadInv' /\ LateInv'
  BY <1>1 DEF ReadInv, LateInv, Idle
<1>4. LockInv' /\ RequestInv' /\ FileInv'
  BY <1>1 DEF DurableInv, LockInv, RequestInv, FileInv, storeVars
<1> QED BY <1>2, <1>3, <1>4 DEF DurableInv

\* A new process serves what the file holds.
LEMMA StartStep ==
  ASSUME DurableInv, Start
  PROVE  DurableInv'
<1>1. /\ up' = TRUE /\ jobs' = disk
      /\ rank' = [j \in JobIds |-> Cardinality({i \in Present(disk) : i < j})]
      /\ UNCHANGED <<disk, blobs, expired, receipt, torn, lock, reads, answered, failed>>
  BY DEF Start, Restart
<1>0. lock = None /\ \A r \in Readers : reads[r] = Idle
  BY DEF Start, DurableInv, DurableTypeOK, ReadInv
<1>2. rank' \in [JobIds -> Nat]
  <2>1. \A j \in JobIds : IsFiniteSet({i \in Present(disk) : i < j})
    BY JobIdsAssumption, FS_Subset DEF Present
  <2>2. \A j \in JobIds : Cardinality({i \in Present(disk) : i < j}) \in Nat
    BY <2>1, FS_CardinalityType
  <2> QED BY <1>1, <2>2
<1>3. DurableTypeOK'
  BY <1>1, <1>2 DEF DurableInv, DurableTypeOK, TypeOK
<1>4. ReadInv' /\ LateInv'
  BY <1>0, <1>1 DEF ReadInv, LateInv, Idle
<1>5. LockInv'
  BY <1>0, <1>1 DEF LockInv
<1>6. RequestInv'
  BY <1>1 DEF DurableInv, RequestInv
<1>7. \A j \in JobIds : disk[j].status # "absent" => disk[j].status \in Status
  BY DEF DurableInv, DurableTypeOK, TypeOK, JobRecord
<1>8. FileInv'
  BY <1>1, <1>7, LaterOrder DEF DurableInv, FileInv
<1> QED BY <1>3, <1>4, <1>5, <1>6, <1>8 DEF DurableInv

\* A step of a reader that leaves it with a record that is still there.
LEMMA ReaderStep ==
  ASSUME DurableInv, NEW r \in Readers, NEW read \in Reading,
         reads' = [reads EXCEPT ![r] = read],
         UNCHANGED <<storeVars, up, torn, lock, answered, failed>>, up,
         read.at \notin {"idle", "full"} =>
           read.job \in JobIds /\ jobs[read.job].status # "absent",
         read.at = "error" => jobs[read.job].status = "deleted",
         ~failed /\ read.late =>
           read.at = "begun" /\ jobs[read.job].status = "deleted"
  PROVE  DurableInv'
<1>1. reads \in [Readers -> Reading]
  BY DEF DurableInv, DurableTypeOK
<1>2. DurableTypeOK'
  BY <1>1 DEF DurableInv, DurableTypeOK, TypeOK, storeVars
<1>3. ReadInv' /\ LateInv'
  BY <1>1 DEF DurableInv, ReadInv, LateInv, storeVars
<1>4. LockInv' /\ RequestInv' /\ FileInv'
  BY DEF DurableInv, LockInv, RequestInv, FileInv, storeVars
<1> QED BY <1>2, <1>3, <1>4 DEF DurableInv

\* The steps of to_public_dict().
LEMMA AnswerReaderStep ==
  ASSUME DurableInv, NEW r \in Readers, Answer(r)
  PROVE  DurableInv'
<1>1. reads[r] \in Reading /\ reads \in [Readers -> Reading]
  BY DEF DurableInv, DurableTypeOK
<1>2. /\ reads[r].at \notin {"idle", "full"} =>
           reads[r].job \in JobIds /\ jobs[reads[r].job].status # "absent"
      /\ ~failed /\ reads[r].late =>
           reads[r].at = "begun" /\ jobs[reads[r].job].status = "deleted"
  BY DEF DurableInv, ReadInv, LateInv
<1>3. Idle \in Reading /\ Idle.at = "idle" /\ ~Idle.late
  BY DEF Idle, Reading
<1>4. CASE \E j \in JobIds : BeginRead(r, j)
  <2>1. PICK j \in JobIds : BeginRead(r, j)
    BY <1>4
  <2> DEFINE read == [Idle EXCEPT !.at = "begun", !.job = j, !.late = receipt[j] # "none"]
  <2>2. /\ Free /\ up /\ jobs[j].status # "absent" /\ reads' = [reads EXCEPT ![r] = read]
        /\ UNCHANGED <<storeVars, up, torn, lock, answered, failed>>
    BY <2>1 DEF BeginRead, Reads, Free
  <2>3. read \in Reading /\ read.at = "begun" /\ read.job = j
        /\ (read.late <=> receipt[j] # "none")
    BY DEF Idle, Reading
  <2>4. ~failed /\ receipt[j] # "none" => jobs[j].status = "deleted"
    BY <2>2 DEF DurableInv, FileInv, Free
  <2> HIDE DEF read
  <2> QED BY <2>2, <2>3, <2>4, ReaderStep
<1>5. CASE SeeStatus(r)
  <2> DEFINE read == IF RecordRead(r).status = "deleted" THEN Idle
                     ELSE [reads[r] EXCEPT !.at = "live"]
  <2>1. /\ up /\ reads[r].at = "begun" /\ reads' = [reads EXCEPT ![r] = read]
        /\ UNCHANGED <<storeVars, up, torn, lock, answered, failed>>
    BY <1>5 DEF SeeStatus, Reads
  <2>2. CASE jobs[reads[r].job].status = "deleted"
    <3>1. read = Idle
      BY <2>2 DEF RecordRead
    <3> QED BY <2>1, <3>1, <1>3, ReaderStep
  <2>3. CASE jobs[reads[r].job].status # "deleted"
    <3>1. read = [reads[r] EXCEPT !.at = "live"]
      BY <2>3 DEF RecordRead
    <3>2. read \in Reading /\ read.at = "live" /\ read.job = reads[r].job
          /\ read.late = reads[r].late
      BY <1>1, <3>1 DEF Reading
    <3> HIDE DEF read
    <3> QED BY <2>1, <2>3, <3>2, <1>2, ReaderStep
  <2> QED BY <2>2, <2>3
<1>6. ASSUME NEW from \in {"live", "shown"}, NEW read, Reads(r, from, read),
             read = [reads[r] EXCEPT !.at = "error"], RecordRead(r).request = None
      PROVE  DurableInv'
  <2>1. read \in Reading /\ read.at = "error" /\ read.job = reads[r].job
        /\ read.late = reads[r].late
    BY <1>1, <1>6 DEF Reading
  <2>2. jobs[reads[r].job].status = "deleted"
    BY <1>2, <1>6 DEF RecordRead, DurableInv, RequestInv, Bare, Reads
  <2> QED BY <1>2, <1>6, <2>1, <2>2, ReaderStep DEF Reads
<1>7. ASSUME NEW from \in {"live", "shown"}, NEW read \in Reading, Reads(r, from, read),
             read.at \in {"shown", "full"}, read.late = reads[r].late,
             read.at = "shown" => read.job = reads[r].job
      PROVE  DurableInv'
  BY <1>2, <1>7, ReaderStep DEF Reads
<1>8. CASE ShowStatus(r)
  <2>1. CASE RecordRead(r).request = None
    BY <1>6, <1>8, <2>1 DEF ShowStatus
  <2>2. CASE RecordRead(r).request # None
    <3> DEFINE read == [reads[r] EXCEPT !.at = "shown",
                                        !.stale = RecordRead(r).status = "deleted"]
    <3>1. read \in Reading /\ read.at = "shown" /\ read.job = reads[r].job
          /\ read.late = reads[r].late
      BY <1>1 DEF Reading
    <3>2. Reads(r, "live", read)
      BY <1>8, <2>2 DEF ShowStatus
    <3> HIDE DEF read
    <3> QED BY <1>7, <3>1, <3>2
  <2> QED BY <2>1, <2>2
<1>9. CASE ShowRequest(r)
  <2>1. CASE RecordRead(r).request = None
    BY <1>6, <1>9, <2>1 DEF ShowRequest
  <2>2. CASE RecordRead(r).request # None
    <3> DEFINE read == [reads[r] EXCEPT !.at = "full", !.job = None]
    <3>1. read \in Reading /\ read.at = "full" /\ read.late = reads[r].late
      BY <1>1 DEF Reading
    <3>2. Reads(r, "shown", read)
      BY <1>9, <2>2 DEF ShowRequest
    <3> HIDE DEF read
    <3> QED BY <1>7, <3>1, <3>2
  <2> QED BY <2>1, <2>2
<1> QED BY <1>4, <1>5, <1>8, <1>9 DEF Answer

\* Time and uploads leave the table alone.
LEMMA BlobStep ==
  ASSUME DurableInv, NEW j \in JobIds, NEW n \in Runs,
         RetentionPasses(j, n) \/ StoreBundle(j, n)
  PROVE  DurableInv'
<1>1. /\ UNCHANGED <<jobs, rank, disk, receipt, up, torn, lock, reads, answered, failed>>
      /\ blobs' \subseteq blobs \cup {<<j, n>>} /\ expired' \subseteq expired \cup {<<j, n>>}
  BY DEF RetentionPasses, StoreBundle, Elapse, Upload
<1>2. blobs' \subseteq JobIds \X Runs /\ expired' \subseteq JobIds \X Runs
  BY <1>1 DEF DurableInv, DurableTypeOK, TypeOK
<1>3. DurableTypeOK'
  BY <1>1, <1>2 DEF DurableInv, DurableTypeOK, TypeOK
<1>4. LockInv' /\ RequestInv' /\ ReadInv' /\ FileInv' /\ LateInv'
  BY <1>1 DEF DurableInv, LockInv, RequestInv, ReadInv, FileInv, LateInv
<1> QED BY <1>3, <1>4 DEF DurableInv

-----------------------------------------------------------------------------
\* The calls, one by one.
LEMMA CallStep ==
  ASSUME DurableInv, Call
  PROVE  DurableInv'
<1>0. jobs \in [JobIds -> JobRecord]
  BY DEF DurableInv, DurableTypeOK, TypeOK
<1>1. ASSUME NEW r \in Requests, BeginCreate(r) PROVE DurableInv'
  <2>1. JobOf[r] \in JobIds
    BY RequestsAssumption
  <2> QED BY <1>1, <2>1, EnqueueStep DEF BeginCreate
<1>2. ASSUME NEW j \in JobIds, BeginRetry(j) PROVE DurableInv'
  <2>1. PICK k \in Attempts : /\ jobs[RetryId[j][k]].status = "absent"
                              /\ Enqueue(RetryId[j][k], jobs[j].request, j)
    BY <1>2 DEF BeginRetry
  <2>2. RetryId[j][k] \in JobIds
    BY RequestsAssumption
  <2>3. jobs[j].request \in Requests
    BY <1>0, <1>2 DEF BeginRetry, JobRecord
  <2> QED BY <2>1, <2>2, <2>3, EnqueueStep
<1>3. ASSUME NEW j \in JobIds, BeginCancel(j) PROVE DurableInv'
  <2>1. /\ jobs[j].status \in ActiveStatus /\ CancelStatus(jobs[j].status) = "cancelled"
        /\ Change(j, Moved(j, CancelStatus(jobs[j].status))) /\ UNCHANGED rank
    BY <1>3 DEF BeginCancel, CancelStatus, ActiveStatus, SettledStatus
  <2>2. CanMove(jobs[j].status, "cancelled") /\ jobs[j].status # "absent"
    BY <2>1 DEF CanMove, TransitionTable, ActiveStatus
  <2>3. "cancelled" \in Status \ {"queued", "deleted"}
    BY DEF Status, SettledStatus
  <2> QED BY <2>1, <2>2, <2>3, MoveChange
<1>4. ASSUME NEW j \in JobIds, Replay(j) \/ BeginDeleteAgain(j) PROVE DurableInv'
  BY <1>4, AnswerStep
<1>5. ASSUME NEW j \in JobIds, NEW s \in Status \ {"cancelled", "deleted"}, BeginMove(j, s)
      PROVE  DurableInv'
  <2>1. jobs[j].status \in Status /\ jobs[j].status # s /\ CanMove(jobs[j].status, s)
    BY <1>0, <1>5 DEF BeginMove, JobRecord
  <2>2. s # "queued"
    BY <2>1 DEF CanMove, TransitionTable, Status, ActiveStatus, SettledStatus
  <2>3. jobs[j].status # "absent" /\ Change(j, Moved(j, s)) /\ UNCHANGED rank
    BY <1>5 DEF BeginMove
  <2> QED BY <2>1, <2>2, <2>3, MoveChange
<1>6. ASSUME NEW j \in JobIds, NEW n \in Runs, BeginDelete(j, n) \/ BeginExpire(j, n)
      PROVE  DurableInv'
  BY <1>6, MarkStep DEF BeginDelete, BeginExpire
<1>7. ASSUME NEW j \in JobIds, NEW n \in Runs, BeginSetKey(j, n) PROVE DurableInv'
  <2> DEFINE as == {IF a.run = n THEN [a EXCEPT !.keyed = TRUE] ELSE a :
                      a \in jobs[j].artifacts}
             rec == [jobs[j] EXCEPT !.artifacts = as]
  <2>1. \A a \in Artifact : [a EXCEPT !.keyed = TRUE] \in Artifact
    BY DEF Artifact
  <2>2. as \in SUBSET Artifact
    BY <1>0, <2>1 DEF JobRecord
  <2>3. Change(j, [jobs EXCEPT ![j] = rec]) /\ UNCHANGED rank
    <3>1. [jobs EXCEPT ![j].artifacts = as] = [jobs EXCEPT ![j] = rec]
      BY <1>0
    <3>2. Change(j, [jobs EXCEPT ![j].artifacts = as]) /\ UNCHANGED rank
      BY <1>7 DEF BeginSetKey
    <3> QED BY <3>1, <3>2
  <2> HIDE DEF as
  <2>4. rec \in JobRecord /\ rec.status = jobs[j].status /\ rec.request = jobs[j].request
    BY <1>0, <2>2 DEF JobRecord
  <2> HIDE DEF rec
  <2> QED BY <2>3, <2>4, RecordChange
<1>8. ASSUME NEW j \in JobIds, NEW n \in Runs, NEW d \in Datasets, NEW c \in Configs,
             BeginRegister(j, [run |-> n, dataset |-> d, keyed |-> FALSE],
                           [run |-> n, dataset |-> d, config |-> c])
      PROVE  DurableInv'
  <2> DEFINE a == [run |-> n, dataset |-> d, keyed |-> FALSE]
             p == [run |-> n, dataset |-> d, config |-> c]
             rec == [jobs[j] EXCEPT !.artifacts = @ \cup {a}, !.provenance = p]
  <2>1. a \in Artifact /\ p \in Provenance
    BY DEF Artifact, Provenance
  <2>2. Change(j, [jobs EXCEPT ![j].artifacts = @ \cup {a}, ![j].provenance = p])
        /\ UNCHANGED rank
    BY <1>8 DEF BeginRegister
  <2> HIDE DEF a, p
  <2>3. [jobs EXCEPT ![j].artifacts = @ \cup {a}, ![j].provenance = p]
          = [jobs EXCEPT ![j] = rec]
    BY <1>0
  <2>4. rec \in JobRecord /\ rec.status = jobs[j].status /\ rec.request = jobs[j].request
    BY <1>0, <2>1 DEF JobRecord
  <2> HIDE DEF rec
  <2> QED BY <2>2, <2>3, <2>4, RecordChange
<1> QED BY <1>1, <1>2, <1>3, <1>4, <1>5, <1>6, <1>7, <1>8 DEF Call

LEMMA DurableStep ==
  ASSUME DurableInv, [DurableNext]_durableVars
  PROVE  DurableInv'
<1>1. CASE Call
  BY <1>1, CallStep
<1>2. CASE Hold
  BY <1>2, WipeStep, TruncateStep, WriteStep, RaiseStep, StorageDeleteStep DEF Hold
<1>3. CASE \E r \in Readers : Answer(r)
  BY <1>3, AnswerReaderStep
<1>4. CASE Surroundings
  BY <1>4, CrashStep, StartStep, BlobStep DEF Surroundings
<1>5. CASE UNCHANGED durableVars
  BY <1>5 DEF durableVars, storeVars, DurableInv, DurableTypeOK, TypeOK, LockInv,
     RequestInv, ReadInv, FileInv, LateInv
<1> QED BY <1>1, <1>2, <1>3, <1>4, <1>5 DEF DurableNext

LEMMA DurableInitially ==
  ASSUME DurableInit
  PROVE  DurableInv
<1>1. AbsentJob \in JobRecord /\ AbsentJob.status = "absent"
  BY DEF AbsentJob, JobRecord
<1>2. Idle \in Reading /\ Idle.at = "idle" /\ ~Idle.late
  BY DEF Idle, Reading
<1> QED BY <1>1, <1>2 DEF DurableInit, Init, DurableInv, DurableTypeOK, TypeOK, LockInv,
        RequestInv, Bare, ReadInv, FileInv, LateInv

-----------------------------------------------------------------------------
(***************************************************************************)
(* The theorems.                                                           *)
(***************************************************************************)
\* Every conjunct of the invariant holds between any two instructions.
THEOREM DurableInvariant == DurableSpec => []DurableInv
BY DurableInitially, DurableStep, PTL DEF DurableSpec

\* The table, the file, the lock and the readers have the shape the code gives
\* them, between any two instructions of the store.
THEOREM DurableTypeCorrectness == DurableSpec => []DurableTypeOK
<1>1. DurableInv => DurableTypeOK
  BY DEF DurableInv
<1> QED BY <1>1, DurableInvariant, PTL

\* The file of a process that is up is cut only while a save is at work on it,
\* unless one has raised.
TornInv == torn /\ up => failed \/ At("writing")

LEMMA TornStep ==
  ASSUME DurableInv, TornInv, [DurableNext]_durableVars
  PROVE  TornInv'
<1>1. ASSUME Free, UNCHANGED <<torn, up, failed>> PROVE TornInv'
  BY <1>1 DEF TornInv, Free, At
<1>2. CASE Call
  <2>1. ASSUME NEW j, NEW js, Change(j, js) PROVE TornInv'
    BY <1>1, <2>1 DEF Change
  <2>2. ASSUME NEW r, BeginCreate(r) PROVE TornInv'
    BY <2>1, <2>2 DEF BeginCreate, Enqueue
  <2>3. ASSUME NEW j, BeginRetry(j) PROVE TornInv'
    BY <2>1, <2>3 DEF BeginRetry, Enqueue
  <2>4. ASSUME NEW j, BeginCancel(j) \/ \E s : BeginMove(j, s) PROVE TornInv'
    BY <2>1, <2>4 DEF BeginCancel, BeginMove
  <2>5. ASSUME NEW j, Replay(j) \/ BeginDeleteAgain(j) PROVE TornInv'
    BY <1>1, <2>5 DEF Replay, BeginDeleteAgain
  <2>6. ASSUME NEW j, NEW n, BeginDelete(j, n) \/ BeginExpire(j, n) PROVE TornInv'
    BY <1>1, <2>6 DEF BeginDelete, BeginExpire, Mark
  <2>7. ASSUME NEW j, NEW n, BeginSetKey(j, n) PROVE TornInv'
    BY <2>1, <2>7 DEF BeginSetKey
  <2>8. ASSUME NEW j, NEW a, NEW p, BeginRegister(j, a, p) PROVE TornInv'
    BY <2>1, <2>8 DEF BeginRegister
  <2> QED BY <1>2, <2>2, <2>3, <2>4, <2>5, <2>6, <2>7, <2>8 DEF Call
<1>3. CASE Wipe
  BY <1>3 DEF TornInv, Wipe, At
<1>4. CASE Truncate
  <2>1. lock' = [lock EXCEPT !.at = "writing"] /\ lock \in Holder /\ up
    BY <1>4 DEF Truncate, At, DurableInv, DurableTypeOK
  <2>2. lock'.at = "writing" /\ lock' \in Holder
    BY <2>1 DEF Holder
  <2>3. lock' # None /\ up'
    BY <1>4, <2>1, <2>2, HolderAssumption DEF Truncate
  <2> QED BY <2>2, <2>3 DEF TornInv, At
<1>5. CASE Write
  BY <1>5 DEF TornInv, Write
<1>6. CASE SaveRaises
  BY <1>6 DEF TornInv, SaveRaises
<1>7. CASE StorageDelete \/ StorageDeleteRaises
  BY <1>7 DEF TornInv, StorageDelete, StorageDeleteRaises, At
<1>8. CASE \E r \in Readers : Answer(r)
  <2>1. UNCHANGED <<torn, up, failed, lock>>
    BY <1>8 DEF Answer, BeginRead, SeeStatus, ShowStatus, ShowRequest, Reads
  <2> QED BY <2>1 DEF TornInv, At
<1>9. CASE Crash \/ Start
  BY <1>9 DEF TornInv, Crash, Start
<1>10. CASE \E j \in JobIds, n \in Runs : RetentionPasses(j, n) \/ StoreBundle(j, n)
  <2>1. UNCHANGED <<torn, up, failed, lock>>
    BY <1>10 DEF RetentionPasses, StoreBundle
  <2> QED BY <2>1 DEF TornInv, At
<1>11. CASE UNCHANGED durableVars
  BY <1>11 DEF TornInv, At, durableVars
<1> QED
  BY <1>2, <1>3, <1>4, <1>5, <1>6, <1>7, <1>8, <1>9, <1>10, <1>11
  DEF DurableNext, Hold, Surroundings

\* Until a save raises, the file has what was answered at every instruction but those
\* between a truncation and its write, and the process that is up has it at every
\* instruction.  A process that ends between the two leaves a file without it, and
\* none starts from that file.
THEOREM AnswersAreDurable == DurableSpec => []AcknowledgedIsDurable
<1>1. DurableInv /\ TornInv => AcknowledgedIsDurable
  <2> SUFFICES ASSUME DurableInv, TornInv, ~failed, NEW j \in JobIds, answered[j] # "absent"
               PROVE  /\ disk[j].status \in Later(answered[j])
                      /\ up => jobs[j].status \in Later(answered[j])
    BY DEF AcknowledgedIsDurable, TornInv
  <2>1. answered[j] \in Status
    BY DEF DurableInv, DurableTypeOK
  <2>2. disk[j].status \in Later(answered[j])
    BY DEF DurableInv, FileInv
  <2>3. disk[j].status \in Status /\ disk[j].status # "absent"
    BY <2>1, <2>2, LaterOrder DEF Status, ActiveStatus, SettledStatus
  <2>4. up => jobs[j].status \in Later(disk[j].status)
    BY <2>3 DEF DurableInv, FileInv
  <2> QED BY <2>1, <2>2, <2>3, <2>4, LaterOrder
<1>2. DurableInit => TornInv
  BY DEF DurableInit, TornInv
<1>3. DurableInv /\ TornInv /\ [DurableNext]_durableVars => TornInv'
  BY TornStep
<1>4. DurableSpec => []TornInv
  BY <1>2, <1>3, DurableInvariant, PTL DEF DurableSpec
<1> QED BY <1>1, <1>4, DurableInvariant, PTL

\* Until a save raises, whoever asks for a job after its DELETE was answered gets the
\* tombstone.
THEOREM DeletionsAreSeen == DurableSpec => []DeletedIsSeenDeleted
<1>1. DurableInv => DeletedIsSeenDeleted
  BY DEF DurableInv, LateInv, DeletedIsSeenDeleted
<1> QED BY <1>1, DurableInvariant, PTL

\* to_public_dict(), which runs without the lock, raises for a record only when
\* a deletion of that record came in between.
THEOREM ReadsSurviveWriters == DurableSpec => []OnlyDeletionsBreakReads
<1>1. DurableInv => OnlyDeletionsBreakReads
  BY DEF DurableInv, ReadInv, OnlyDeletionsBreakReads
<1> QED BY <1>1, DurableInvariant, PTL

\* A step that takes bytes from the storage is that of a deletion whose tombstone
\* the file holds.
LEMMA BytesStep ==
  ASSUME DurableInv, [DurableNext]_durableVars
  PROVE  \A j \in JobIds, n \in Runs :
           <<j, n>> \in blobs \ blobs' => ~torn /\ disk[j].status = "deleted"
<1>1. CASE StorageDelete
  <2>1. /\ lock # None /\ lock.at = "saved" /\ blobs' = blobs \ {<<lock.job, lock.run>>}
    BY <1>1 DEF StorageDelete, At
  <2>2. ~torn /\ disk[lock.job].status = "deleted"
    BY <2>1 DEF DurableInv, LockInv
  <2> QED BY <2>1, <2>2
<1>2. CASE ~StorageDelete
  <2>1. CASE Call
    <3>1. \A j, js : Change(j, js) => blobs' = blobs
      BY DEF Change
    <3>2. \A call, j, n : Mark(call, j, n) => blobs' = blobs
      BY DEF Mark
    <3>3. \A j : Replay(j) \/ BeginDeleteAgain(j) => blobs' = blobs
      BY DEF Replay, BeginDeleteAgain, storeVars
    <3>4. \A j, r, o : Enqueue(j, r, o) => blobs' = blobs
      BY <3>1 DEF Enqueue
    <3>5. \A j : BeginRetry(j) \/ BeginCreate(j) => blobs' = blobs
      BY <3>4 DEF BeginRetry, BeginCreate
    <3>6. \A j, s : BeginCancel(j) \/ BeginMove(j, s) => blobs' = blobs
      BY <3>1 DEF BeginCancel, BeginMove
    <3>7. \A j, n : BeginSetKey(j, n) \/ BeginDelete(j, n) \/ BeginExpire(j, n)
                      => blobs' = blobs
      BY <3>1, <3>2 DEF BeginSetKey, BeginDelete, BeginExpire
    <3>8. \A j, a, p : BeginRegister(j, a, p) => blobs' = blobs
      BY <3>1 DEF BeginRegister
    <3>9. blobs' = blobs
      BY <2>1, <3>3, <3>5, <3>6, <3>7, <3>8 DEF Call
    <3> QED BY <3>9
  <2>2. CASE Hold
    <3>1. blobs' = blobs
      BY <1>2, <2>2 DEF Hold, Wipe, Truncate, Write, SaveRaises, StorageDeleteRaises,
         storeVars
    <3> QED BY <3>1
  <2>3. CASE \E r \in Readers : Answer(r)
    <3>1. blobs' = blobs
      BY <2>3 DEF Answer, BeginRead, SeeStatus, ShowStatus, ShowRequest, Reads, storeVars
    <3> QED BY <3>1
  <2>4. CASE Surroundings
    <3>1. blobs \subseteq blobs'
      BY <2>4 DEF Surroundings, Crash, Start, Restart, RetentionPasses, Elapse, StoreBundle,
         Upload, storeVars
    <3> QED BY <3>1
  <2>5. CASE UNCHANGED durableVars
    BY <2>5 DEF durableVars, storeVars
  <2> QED BY <2>1, <2>2, <2>3, <2>4, <2>5 DEF DurableNext
<1> QED BY <1>1, <1>2

\* The process may end at any instruction of a deletion: no record comes back
\* from the file without its bytes.
THEOREM BytesOutliveRecords == DurableSpec => BytesAwaitTheTombstone
<1>1. DurableInv /\ [DurableNext]_durableVars =>
        [\A j \in JobIds, n \in Runs :
           <<j, n>> \in blobs \ blobs' => ~torn /\ disk[j].status = "deleted"]_durableVars
  BY BytesStep
<1> QED BY <1>1, DurableInvariant, PTL DEF DurableSpec, BytesAwaitTheTombstone

-----------------------------------------------------------------------------
(***************************************************************************)
(* The file implements the abstract queue.  Until a save raises, the file  *)
(* and the table agree between calls, and a call that holds the lock has   *)
(* made one operation of the queue that its save will commit.              *)
(***************************************************************************)
Agree(js, ks) ==
  \A i \in JobIds : js[i].status = ks[i].status /\ js[i].retryOf = ks[i].retryOf

QueueInv ==
  /\ RankInv
  /\ ~failed /\ up /\ (lock = None \/ lock.at = "saved") => Agree(disk, jobs)
  /\ ~failed /\ up /\ lock # None => Commits(disk, jobs)

\* An operation on a table is one on a table that says the same, and leads to one.
LEMMA CommitsOfEquals ==
  ASSUME NEW js, NEW ks, NEW ls, NEW ms, Agree(js, ks), Commits(ks, ls), Agree(ls, ms)
  PROVE  Commits(js, ms)
<1>1. /\ ActiveCount(js) = ActiveCount(ks)
      /\ RunningCount(ls) = RunningCount(ms)
      /\ \A s : WithStatus(js, s) = WithStatus(ks, s)
  <2>1. ActiveJobs(js) = ActiveJobs(ks)
    BY DEF ActiveJobs, Agree
  <2>2. \A s : WithStatus(js, s) = WithStatus(ks, s)
    BY DEF WithStatus, Agree
  <2>3. WithStatus(ls, "running") = WithStatus(ms, "running")
    BY DEF WithStatus, Agree
  <2> QED BY <2>1, <2>2, <2>3 DEF ActiveCount, RunningCount
<1>2. ASSUME NEW j \in JobIds, NEW o \in JobIds \cup {None}, Admits(ks, ls, j, o)
      PROVE  Admits(js, ms, j, o)
  BY <1>1, <1>2, NoneAssumption DEF Admits, Agree
<1>3. ASSUME NEW j \in JobIds, NEW s \in Status, Advances(ks, ls, j, s)
      PROVE  Advances(js, ms, j, s)
  BY <1>3 DEF Advances, Agree
<1>4. ASSUME NEW j \in JobIds, NEW s \in Status, Finishes(ks, ls, j, s)
      PROVE  Finishes(js, ms, j, s)
  <2>1. PICK started \in SUBSET WithStatus(ks, "queued") :
          /\ \A i \in JobIds : ls[i].status = IF i = j THEN s
                                              ELSE IF i \in started THEN "running"
                                              ELSE ks[i].status
          /\ started # {} => RunningCount(ls) <= MaxRunning
          /\ started # WithStatus(ks, "queued") => RunningCount(ls) >= MaxRunning
    BY <1>4 DEF Finishes
  <2>2. \A i \in JobIds : ms[i].status = IF i = j THEN s
                                         ELSE IF i \in started THEN "running"
                                         ELSE js[i].status
    BY <2>1 DEF Agree
  <2>3. js[j].status = "running" /\ s \in TransitionTable["running"]
    BY <1>4 DEF Finishes, Agree
  <2> QED BY <1>1, <2>1, <2>2, <2>3 DEF Finishes
<1>5. ASSUME NEW gone \in SUBSET JobIds, Retires(ks, ls, gone)
      PROVE  Retires(js, ms, gone)
  BY <1>1, <1>5 DEF Retires, Agree
<1>6. (\A i \in JobIds : ls[i].retryOf = ks[i].retryOf) =>
        \A i \in JobIds : ms[i].retryOf = js[i].retryOf
  BY DEF Agree
<1> QED BY <1>2, <1>3, <1>4, <1>5, <1>6 DEF Commits

\* A call that changes the table has made one operation.
LEMMA ChangeCommits ==
  ASSUME DurableInv, QueueInv, Free, Commits(jobs, jobs'), RankInv',
         UNCHANGED <<disk, up, failed>>, lock' # None, lock'.at # "saved"
  PROVE  QueueInv'
<1>1. ~failed => Agree(disk, jobs)
  BY DEF QueueInv, Free
<1>2. Agree(jobs', jobs')
  BY DEF Agree
<1>3. ~failed => Commits(disk, jobs')
  BY <1>1, <1>2, CommitsOfEquals
<1> QED BY <1>3 DEF QueueInv

LEMMA PlainChangeCommits ==
  ASSUME DurableInv, QueueInv, NEW j \in JobIds, NEW js, Change(j, js),
         Commits(jobs, js), RankInv'
  PROVE  QueueInv'
<1> DEFINE h == [at |-> "saving", call |-> "change", job |-> j, run |-> None,
                 hashes |-> {}]
<1>1. h \in Holder /\ h.at = "saving"
  BY DEF Holder, Calls
<1>2. Free /\ jobs' = js /\ lock' = h /\ UNCHANGED <<disk, up, failed>>
  BY DEF Change
<1>3. h # None
  BY <1>1, HolderAssumption
<1> HIDE DEF h
<1> QED BY <1>1, <1>2, <1>3, ChangeCommits

LEMMA EnqueueCommits ==
  ASSUME DurableInv, QueueInv, NEW j \in JobIds, NEW r, NEW o \in JobIds \cup {None},
         jobs[j].status = "absent", ActiveCount(jobs) < QueueLimit,
         o # None => jobs[o].status \in {"failed", "cancelled"},
         Enqueue(j, r, o)
  PROVE  QueueInv'
<1> DEFINE new == [AbsentJob EXCEPT !.status = "queued", !.request = r, !.retryOf = o,
                                    !.createdAt = Cardinality(Present(jobs))]
           js == [jobs EXCEPT ![j] = new]
<1>1. new.status = "queued" /\ new.retryOf = o
  BY DEF AbsentJob
<1>2. Change(j, js) /\ rank' = [rank EXCEPT ![j] = Cardinality(Present(jobs))]
  BY DEF Enqueue
<1>3. jobs \in [JobIds -> JobRecord] /\ rank \in [JobIds -> Nat]
  BY DEF DurableInv, DurableTypeOK, TypeOK
<1> HIDE DEF new
<1>4. js[j] = new /\ \A i \in JobIds \ {j} : js[i] = jobs[i]
  BY <1>3
<1> HIDE DEF js
<1>5. Admits(jobs, js, j, o)
  BY <1>1, <1>4 DEF Admits
<1>6. jobs' = js
  BY <1>2 DEF Change
<1>7. RankInv'
  BY <1>1, <1>2, <1>3, <1>4, <1>6, RankOfNew DEF QueueInv
<1>8. Commits(jobs, js)
  BY <1>5 DEF Commits
<1> QED BY <1>2, <1>7, <1>8, PlainChangeCommits

LEMMA MoveChangeCommits ==
  ASSUME DurableInv, QueueInv, NEW j \in JobIds, NEW s \in Status \ {"queued", "deleted"},
         jobs[j].status \notin {"absent", s}, CanMove(jobs[j].status, s),
         Change(j, Moved(j, s)), UNCHANGED rank
  PROVE  QueueInv'
<1>1. jobs \in [JobIds -> JobRecord] /\ rank \in [JobIds -> Nat] /\ RankInv
  BY DEF DurableInv, DurableTypeOK, TypeOK, QueueInv
<1>2. Commits(jobs, Moved(j, s))
  BY <1>1, MoveCommits
<1>3. jobs' = Moved(j, s) /\ Present(Moved(j, s)) = Present(jobs)
  BY <1>1, MovePresence DEF Change
<1>4. RankInv'
  BY <1>1, <1>3, RankStays
<1> QED BY <1>2, <1>4, PlainChangeCommits

LEMMA RecordChangeCommits ==
  ASSUME DurableInv, QueueInv, NEW j \in JobIds, NEW js, Change(j, js), UNCHANGED rank,
         \A i \in JobIds : js[i].status = jobs[i].status /\ js[i].retryOf = jobs[i].retryOf
  PROVE  QueueInv'
<1>1. jobs' = js /\ RankInv
  BY DEF Change, QueueInv
<1>2. RankInv'
  BY <1>1, RecordCommits
<1>3. Commits(jobs, js)
  BY SameCommits
<1> QED BY <1>2, <1>3, PlainChangeCommits

\* A step that leaves the table, the file, the process and the lock.
LEMMA QueueUnchanged ==
  ASSUME QueueInv, UNCHANGED <<jobs, rank, disk, up, lock, failed>>
  PROVE  QueueInv'
BY DEF QueueInv, RankInv, Present

LEMMA CallQueueStep ==
  ASSUME DurableInv, QueueInv, Call
  PROVE  QueueInv'
<1>0. jobs \in [JobIds -> JobRecord]
  BY DEF DurableInv, DurableTypeOK, TypeOK
<1>1. ASSUME NEW r \in Requests, BeginCreate(r) PROVE QueueInv'
  <2>1. JobOf[r] \in JobIds
    BY RequestsAssumption
  <2> QED BY <1>1, <2>1, EnqueueCommits DEF BeginCreate
<1>2. ASSUME NEW j \in JobIds, BeginRetry(j) PROVE QueueInv'
  <2>1. PICK k \in Attempts : /\ jobs[RetryId[j][k]].status = "absent"
                              /\ Enqueue(RetryId[j][k], jobs[j].request, j)
    BY <1>2 DEF BeginRetry
  <2>2. RetryId[j][k] \in JobIds /\ jobs[j].status \in {"failed", "cancelled"}
        /\ ActiveCount(jobs) < QueueLimit
    BY <1>2, RequestsAssumption DEF BeginRetry, Retryable
  <2> QED BY <2>1, <2>2, EnqueueCommits
<1>3. ASSUME NEW j \in JobIds, BeginCancel(j) PROVE QueueInv'
  <2>1. /\ jobs[j].status \in ActiveStatus /\ CancelStatus(jobs[j].status) = "cancelled"
        /\ Change(j, Moved(j, CancelStatus(jobs[j].status))) /\ UNCHANGED rank
    BY <1>3 DEF BeginCancel, CancelStatus, ActiveStatus, SettledStatus
  <2>2. CanMove(jobs[j].status, "cancelled") /\ jobs[j].status \notin {"absent", "cancelled"}
    BY <2>1 DEF CanMove, TransitionTable, ActiveStatus
  <2>3. "cancelled" \in Status \ {"queued", "deleted"}
    BY DEF Status, SettledStatus
  <2> QED BY <2>1, <2>2, <2>3, MoveChangeCommits
<1>4. ASSUME NEW j \in JobIds, Replay(j) \/ BeginDeleteAgain(j) PROVE QueueInv'
  BY <1>4, QueueUnchanged DEF Replay, BeginDeleteAgain, storeVars
<1>5. ASSUME NEW j \in JobIds, NEW s \in Status \ {"cancelled", "deleted"}, BeginMove(j, s)
      PROVE  QueueInv'
  <2>1. jobs[j].status \in Status /\ jobs[j].status # s /\ CanMove(jobs[j].status, s)
    BY <1>0, <1>5 DEF BeginMove, JobRecord
  <2>2. s # "queued"
    BY <2>1 DEF CanMove, TransitionTable, Status, ActiveStatus, SettledStatus
  <2>3. jobs[j].status # "absent" /\ Change(j, Moved(j, s)) /\ UNCHANGED rank
    BY <1>5 DEF BeginMove
  <2> QED BY <2>1, <2>2, <2>3, MoveChangeCommits
<1>6. ASSUME NEW call \in {"delete", "expire"}, NEW j \in JobIds, NEW n \in Runs,
             Mark(call, j, n)
      PROVE  QueueInv'
  <2> DEFINE h == [at |-> "marked", call |-> call, job |-> j, run |-> n, hashes |-> {}]
  <2>1. /\ Free /\ jobs[j].status = "succeeded" /\ jobs' = [jobs EXCEPT ![j].status = "deleted"]
        /\ lock' = h /\ UNCHANGED <<rank, disk, up, failed>>
    BY <1>6 DEF Mark
  <2>2. h \in Holder /\ h.at = "marked"
    BY DEF Holder, Calls
  <2> HIDE DEF h
  <2>3. h # None
    BY <2>2, HolderAssumption
  <2>4. \A i \in JobIds : /\ jobs'[i].status = IF i \in {j} THEN "deleted" ELSE jobs[i].status
                          /\ jobs'[i].retryOf = jobs[i].retryOf
    BY <1>0, <2>1 DEF JobRecord
  <2>5. Retires(jobs, jobs', {j})
    BY <2>1, <2>4 DEF Retires, WithStatus
  <2>6. Commits(jobs, jobs')
    BY <2>4, <2>5 DEF Commits
  <2>7. Present(jobs') = Present(jobs)
    BY <2>1, <2>4 DEF Present
  <2>8. RankInv'
    BY <2>1, <2>7, RankStays DEF QueueInv
  <2> QED BY <2>1, <2>2, <2>3, <2>6, <2>8, ChangeCommits
<1>7. ASSUME NEW j \in JobIds, NEW n \in Runs, BeginSetKey(j, n) PROVE QueueInv'
  <2>1. PICK a : Change(j, [jobs EXCEPT ![j].artifacts = a]) /\ UNCHANGED rank
    BY <1>7 DEF BeginSetKey
  <2>2. \A i \in JobIds : /\ [jobs EXCEPT ![j].artifacts = a][i].status = jobs[i].status
                          /\ [jobs EXCEPT ![j].artifacts = a][i].retryOf = jobs[i].retryOf
    BY <1>0 DEF JobRecord
  <2> QED BY <2>1, <2>2, RecordChangeCommits
<1>8. ASSUME NEW j \in JobIds, NEW n \in Runs, NEW d \in Datasets, NEW c \in Configs,
             BeginRegister(j, [run |-> n, dataset |-> d, keyed |-> FALSE],
                           [run |-> n, dataset |-> d, config |-> c])
      PROVE  QueueInv'
  <2>1. PICK a, p : Change(j, [jobs EXCEPT ![j].artifacts = a, ![j].provenance = p])
                    /\ UNCHANGED rank
    BY <1>8 DEF BeginRegister
  <2> DEFINE js == [jobs EXCEPT ![j].artifacts = a, ![j].provenance = p]
  <2>2. \A i \in JobIds : js[i].status = jobs[i].status /\ js[i].retryOf = jobs[i].retryOf
    BY <1>0 DEF JobRecord
  <2> HIDE DEF js
  <2> QED BY <2>1, <2>2, RecordChangeCommits DEF js
<1>9. ASSUME NEW j \in JobIds, NEW n \in Runs, BeginDelete(j, n) \/ BeginExpire(j, n)
      PROVE  QueueInv'
  BY <1>6, <1>9 DEF BeginDelete, BeginExpire
<1> QED BY <1>1, <1>2, <1>3, <1>4, <1>5, <1>7, <1>8, <1>9 DEF Call

\* The holder of the lock keeps what it has yet to commit, and commits it whole.
LEMMA HoldQueueStep ==
  ASSUME DurableInv, QueueInv, Hold
  PROVE  QueueInv'
<1>0. /\ jobs \in [JobIds -> JobRecord]
      /\ lock # None => lock \in Holder
      /\ \A j \in JobIds : jobs[j] \in JobRecord
  BY DEF DurableInv, DurableTypeOK, TypeOK
<1>1. CASE Wipe
  <2>1. PICK retain \in BOOLEAN :
          /\ up /\ lock # None /\ lock.at = "marked"
          /\ jobs' = [jobs EXCEPT ![lock.job] = Tombstone(@, retain)]
          /\ UNCHANGED <<rank, disk, up, failed>>
    <3>1. (lock.call = "expire") \in BOOLEAN
      OBVIOUS
    <3> QED BY <1>1, <3>1 DEF Wipe
  <2>2. lock.job \in JobIds /\ jobs[lock.job].status = "deleted"
    <3>1. lock \in Holder /\ lock.call # "change"
      BY <1>0, <2>1 DEF DurableInv, LockInv
    <3> QED BY <2>1, <3>1 DEF Holder, DurableInv, LockInv
  <2>3. \A i \in JobIds : jobs'[i].status = jobs[i].status /\ jobs'[i].retryOf = jobs[i].retryOf
    <3>1. \A rec \in JobRecord : /\ Tombstone(rec, retain).status = "deleted"
                                 /\ Tombstone(rec, retain).retryOf = rec.retryOf
      BY DEF Tombstone, JobRecord
    <3> QED BY <1>0, <2>1, <2>2, <3>1
  <2>4. Agree(jobs, jobs') /\ Agree(disk, disk)
    BY <2>3 DEF Agree
  <2>5. ~failed => Commits(disk, jobs')
    BY <2>1, <2>4, CommitsOfEquals DEF QueueInv
  <2>6. RankInv'
    BY <2>1, <2>3, RecordCommits DEF QueueInv
  <2>7. lock' # None /\ lock'.at = "saving"
    BY <1>1, WipeStep, HolderAssumption
  <2> QED BY <2>1, <2>2, <2>5, <2>6, <2>7 DEF QueueInv
<1>2. CASE Truncate
  <2>1. /\ UNCHANGED <<jobs, rank, disk, up, failed>> /\ up /\ lock # None
        /\ lock' = [lock EXCEPT !.at = "writing"]
    BY <1>2 DEF Truncate, At, storeVars
  <2>2. lock' \in Holder /\ lock'.at = "writing"
    BY <1>0, <2>1 DEF Holder
  <2>3. lock.at = "saving" /\ RankInv'
    BY <1>2, <2>1 DEF Truncate, At, QueueInv, RankInv, Present
  <2>4. lock' # None
    BY <2>2, HolderAssumption
  <2> QED BY <2>1, <2>2, <2>3, <2>4 DEF QueueInv
<1>3. CASE Write
  <2>1. /\ UNCHANGED <<jobs, rank, up, failed>> /\ up /\ lock # None
        /\ disk' = [j \in JobIds |-> Persist(jobs[j])]
        /\ lock' = None \/ lock' = [lock EXCEPT !.at = "saved"]
    BY <1>3 DEF Write, At, Finish
  <2>2. Agree(disk', jobs')
    BY <1>0, <2>1, PersistKeeps DEF Agree
  <2>3. Commits(disk', jobs')
    BY <2>2, SameCommits DEF Agree
  <2>4. RankInv'
    BY <2>1 DEF QueueInv, RankInv, Present
  <2> QED BY <2>2, <2>3, <2>4 DEF QueueInv
<1>4. CASE SaveRaises \/ StorageDeleteRaises \/ StorageDelete
  <2>1. /\ UNCHANGED <<jobs, rank, disk, up>> /\ lock' = None
        /\ failed' = TRUE \/ (failed' = failed /\ lock.at = "saved")
    BY <1>4 DEF SaveRaises, StorageDeleteRaises, StorageDelete, At, Finish, storeVars
  <2> QED BY <2>1 DEF QueueInv, RankInv, Present
<1> QED BY <1>1, <1>2, <1>3, <1>4 DEF Hold

LEMMA DurableQueueStep ==
  ASSUME DurableInv, QueueInv, [DurableNext]_durableVars
  PROVE  QueueInv'
<1>1. CASE Call
  BY <1>1, CallQueueStep
<1>2. CASE Hold
  BY <1>2, HoldQueueStep
<1>3. CASE \E r \in Readers : Answer(r)
  <2>1. UNCHANGED <<jobs, rank, disk, up, lock, failed>>
    BY <1>3 DEF Answer, BeginRead, SeeStatus, ShowStatus, ShowRequest, Reads, storeVars
  <2> QED BY <2>1, QueueUnchanged
<1>4. CASE Crash
  BY <1>4 DEF Crash, storeVars, QueueInv, RankInv, Present
<1>5. CASE Start
  <2>1. /\ jobs' = disk /\ disk' = disk /\ lock = None /\ lock' = None
        /\ rank' = [j \in JobIds |-> Cardinality({i \in Present(disk) : i < j})]
    BY <1>5 DEF Start, Restart, DurableInv, DurableTypeOK
  <2>2. Agree(disk', jobs')
    BY <2>1 DEF Agree
  <2> QED BY <2>1, <2>2, RankOfRestart DEF QueueInv
<1>6. CASE \E j \in JobIds, n \in Runs : RetentionPasses(j, n) \/ StoreBundle(j, n)
  BY <1>6, QueueUnchanged DEF RetentionPasses, StoreBundle, Elapse, Upload
<1>7. CASE UNCHANGED durableVars
  BY <1>7, QueueUnchanged DEF durableVars, storeVars
<1> QED BY <1>1, <1>2, <1>3, <1>4, <1>5, <1>6, <1>7 DEF DurableNext, Surroundings

\* So are the definitions of the queue that the file stands for.
LEMMA FileQueueDefinitions ==
  /\ FileQueue!TransitionTable = TransitionTable
  /\ FileQueue!ActiveStatus = ActiveStatus
  /\ FileQueue!Status = Status
  /\ \A S : FileQueue!Cardinality(S) = Cardinality(S)
<1>1. FileQueue!ActiveStatus = ActiveStatus /\ FileQueue!SettledStatus = SettledStatus
  BY DEF FileQueue!ActiveStatus, ActiveStatus, FileQueue!SettledStatus, SettledStatus
<1>2. FileQueue!Status = Status
  BY <1>1 DEF FileQueue!Status, Status
<1>3. FileQueue!TransitionTable = TransitionTable
  BY DEF FileQueue!TransitionTable, TransitionTable
<1>4. \A S : FileQueue!Cardinality(S) = Cardinality(S)
  BY DEF FileQueue!Cardinality, Cardinality
<1> QED BY <1>1, <1>2, <1>3, <1>4

\* A save commits a step of the queue that the file stands for.
LEMMA FileCommitsAreSteps ==
  ASSUME disk \in [JobIds -> JobRecord], disk' \in [JobIds -> JobRecord],
         Commits(disk, disk')
  PROVE  FileQueue!Next
<1> DEFINE state == [j \in JobIds |-> disk[j].status]
           newState == [j \in JobIds |-> disk'[j].status]
           origin == [j \in JobIds |-> disk[j].retryOf]
           newOrigin == [j \in JobIds |-> disk'[j].retryOf]
<1>1. ASSUME NEW j \in JobIds, NEW o \in JobIds \cup {None}, Admits(disk, disk', j, o)
      PROVE  FileQueue!Admit(j, o)
  <2>1. FileQueue!Jobs(FileQueue!ActiveStatus) = ActiveJobs(disk)
    BY FileQueueDefinitions DEF FileQueue!Jobs, ActiveJobs
  <2>2. newState = [state EXCEPT ![j] = "queued"] /\ newOrigin = [origin EXCEPT ![j] = o]
    BY <1>1 DEF Admits
  <2>3. /\ state[j] = "absent" /\ Cardinality(ActiveJobs(disk)) < QueueLimit
        /\ o # None => state[o] \in {"failed", "cancelled"}
    BY <1>1 DEF Admits, ActiveCount
  <2> QED BY <2>1, <2>2, <2>3, FileQueueDefinitions DEF FileQueue!Admit
<1>2. ASSUME \A i \in JobIds : disk'[i].retryOf = disk[i].retryOf
      PROVE  newOrigin = origin
  BY <1>2
<1>3. ASSUME NEW j \in JobIds, NEW s \in Status, Advances(disk, disk', j, s),
             newOrigin = origin
      PROVE  FileQueue!Advance(j, s)
  <2>1. newState = [state EXCEPT ![j] = s]
    BY <1>3 DEF Advances
  <2>2. state[j] \in Status \ {"running"} /\ s \in TransitionTable[state[j]]
    BY <1>3 DEF Advances
  <2> QED BY <1>3, <2>1, <2>2, FileQueueDefinitions DEF FileQueue!Advance
<1>4. ASSUME NEW j \in JobIds, NEW s \in Status, Finishes(disk, disk', j, s),
             newOrigin = origin
      PROVE  FileQueue!Finish(j, s)
  <2>1. FileQueue!Jobs({"queued"}) = WithStatus(disk, "queued")
    BY DEF FileQueue!Jobs, WithStatus
  <2>2. Cardinality(FileQueue!Running(newState)) = RunningCount(disk')
    <3>1. FileQueue!Running(newState) = WithStatus(disk', "running")
      BY DEF FileQueue!Running, WithStatus
    <3> QED BY <3>1 DEF RunningCount
  <2>3. PICK started \in SUBSET WithStatus(disk, "queued") :
          /\ \A i \in JobIds : disk'[i].status = IF i = j THEN s
                                                 ELSE IF i \in started THEN "running"
                                                 ELSE disk[i].status
          /\ started # {} => RunningCount(disk') <= MaxRunning
          /\ started # WithStatus(disk, "queued") => RunningCount(disk') >= MaxRunning
    BY <1>4 DEF Finishes
  <2>4. newState = [i \in JobIds |-> IF i = j THEN s
                                     ELSE IF i \in started THEN "running" ELSE state[i]]
    BY <2>3
  <2>5. state[j] = "running" /\ s \in TransitionTable["running"]
    BY <1>4 DEF Finishes
  <2> QED BY <1>4, <2>1, <2>2, <2>3, <2>4, <2>5, FileQueueDefinitions DEF FileQueue!Finish
<1>5. ASSUME NEW gone \in SUBSET JobIds, Retires(disk, disk', gone), newOrigin = origin
      PROVE  FileQueue!Retire(gone)
  <2>1. FileQueue!Jobs({"succeeded"}) = WithStatus(disk, "succeeded")
    BY DEF FileQueue!Jobs, WithStatus
  <2>2. newState = [j \in JobIds |-> IF j \in gone THEN "deleted" ELSE state[j]]
    BY <1>5 DEF Retires
  <2>3. gone \subseteq WithStatus(disk, "succeeded")
    BY <1>5 DEF Retires
  <2> QED BY <1>5, <2>1, <2>2, <2>3 DEF FileQueue!Retire
<1> HIDE DEF state, newState, origin, newOrigin
<1> QED BY <1>1, <1>2, <1>3, <1>4, <1>5, FileQueueDefinitions DEF Commits, FileQueue!Next

\* Only the writing of the file changes what it holds.
LEMMA DiskChange ==
  ASSUME [DurableNext]_durableVars, disk' # disk
  PROVE  Write
<1>1. CASE Call
  <2>1. \A j, js : Change(j, js) => disk' = disk
    BY DEF Change
  <2>2. \A call, j, n : Mark(call, j, n) => disk' = disk
    BY DEF Mark
  <2>3. \A j : Replay(j) \/ BeginDeleteAgain(j) => disk' = disk
    BY DEF Replay, BeginDeleteAgain, storeVars
  <2>4. \A j, r, o : Enqueue(j, r, o) => disk' = disk
    BY <2>1 DEF Enqueue
  <2>5. \A j : BeginRetry(j) \/ BeginCreate(j) => disk' = disk
    BY <2>4 DEF BeginRetry, BeginCreate
  <2>6. \A j, s : BeginCancel(j) \/ BeginMove(j, s) => disk' = disk
    BY <2>1 DEF BeginCancel, BeginMove
  <2>7. \A j, n : BeginSetKey(j, n) \/ BeginDelete(j, n) \/ BeginExpire(j, n) => disk' = disk
    BY <2>1, <2>2 DEF BeginSetKey, BeginDelete, BeginExpire
  <2>8. \A j, a, p : BeginRegister(j, a, p) => disk' = disk
    BY <2>1 DEF BeginRegister
  <2> QED BY <1>1, <2>3, <2>5, <2>6, <2>7, <2>8 DEF Call
<1>2. CASE Hold
  BY <1>2 DEF Hold, Wipe, Truncate, SaveRaises, StorageDelete, StorageDeleteRaises, storeVars
<1>3. CASE \E r \in Readers : Answer(r)
  BY <1>3 DEF Answer, BeginRead, SeeStatus, ShowStatus, ShowRequest, Reads, storeVars
<1>4. CASE Surroundings
  BY <1>4 DEF Surroundings, Crash, Start, Restart, RetentionPasses, Elapse, StoreBundle,
     Upload, storeVars
<1>5. CASE UNCHANGED durableVars
  BY <1>5 DEF durableVars, storeVars
<1> QED BY <1>1, <1>2, <1>3, <1>4, <1>5 DEF DurableNext

\* The tables the file holds, one after another, are a behaviour of the queue as
\* long as no save raises: a save commits one operation, and the end of the
\* process or its start commits none.
THEOREM FileIsAQueue == DurableSpec => FileImplementsQueue
<1>1. DurableInit => QueueInv /\ FileQueue!Init
  <2> SUFFICES ASSUME DurableInit PROVE QueueInv /\ FileQueue!Init
    OBVIOUS
  <2>1. \A j \in JobIds : /\ jobs[j].status = "absent" /\ jobs[j].retryOf = None
                          /\ disk[j].status = "absent" /\ disk[j].retryOf = None
    BY DEF DurableInit, Init, AbsentJob
  <2>2. Present(jobs) = {}
    BY <2>1 DEF Present
  <2>3. Agree(disk, jobs) /\ Commits(disk, jobs)
    BY <2>1, SameCommits DEF Agree
  <2> QED BY <2>1, <2>2, <2>3 DEF QueueInv, RankInv, FileQueue!Init
<1>2. DurableInv /\ QueueInv /\ [DurableNext]_durableVars =>
        [failed' \/ [FileQueue!Next]_(FileQueue!queueVars)]_durableVars
  <2> SUFFICES ASSUME DurableInv, QueueInv, [DurableNext]_durableVars, ~failed'
               PROVE  [FileQueue!Next]_(FileQueue!queueVars)
    OBVIOUS
  <2>1. CASE disk' = disk
    BY <2>1 DEF FileQueue!queueVars
  <2>2. CASE disk' # disk
    <3>1. Write
      BY <2>2, DiskChange
    <3>2. /\ UNCHANGED failed /\ up /\ lock # None
          /\ disk' = [j \in JobIds |-> Persist(jobs[j])]
      BY <3>1 DEF Write, At
    <3>3. jobs \in [JobIds -> JobRecord] /\ disk \in [JobIds -> JobRecord]
      BY DEF DurableInv, DurableTypeOK, TypeOK
    <3>4. disk' \in [JobIds -> JobRecord]
      BY <3>2, <3>3, PersistType
    <3>5. Agree(jobs, disk') /\ Agree(disk, disk)
      BY <3>2, <3>3, PersistKeeps DEF Agree
    <3>6. Commits(disk, disk')
      BY <3>2, <3>5, CommitsOfEquals DEF QueueInv
    <3> QED BY <3>3, <3>4, <3>6, FileCommitsAreSteps
  <2> QED BY <2>1, <2>2
<1>3. DurableInv /\ QueueInv /\ [DurableNext]_durableVars => QueueInv'
  BY DurableQueueStep
<1> QED BY <1>1, <1>2, <1>3, DurableInvariant, PTL DEF DurableSpec, FileImplementsQueue
=============================================================================
