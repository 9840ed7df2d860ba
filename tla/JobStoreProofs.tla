--------------------------- MODULE JobStoreProofs ---------------------------
(***************************************************************************)
(* Proofs about JobStore, and JobOrder, for every value of the constants.  *)
(***************************************************************************)
EXTENDS JobOrder, FiniteSetTheorems, WellFoundedInduction, TLAPS

\* What moving one job does to the table: the statuses of other jobs change
\* from queued to running only, and no other field of any record changes.
LEMMA MovedEffect ==
  ASSUME jobs \in [JobIds -> JobRecord],
         NEW j \in JobIds, NEW s \in Status \ {"queued"}
  PROVE  /\ Moved(j, s) \in [JobIds -> JobRecord]
         /\ Moved(j, s)[j] = [jobs[j] EXCEPT !.status = s]
         /\ \A i \in JobIds \ {j} :
              \/ Moved(j, s)[i] = jobs[i]
              \/ /\ jobs[i].status = "queued"
                 /\ Moved(j, s)[i] = [jobs[i] EXCEPT !.status = "running"]
<1> DEFINE js == [jobs EXCEPT ![j].status = s]
<1>1. js \in [JobIds -> JobRecord]
  BY DEF JobRecord, Status
<1>2. js[j].status = s /\ js[j] = [jobs[j] EXCEPT !.status = s]
  BY DEF JobRecord
<1>3. \A i \in JobIds \ {j} : js[i] = jobs[i]
  OBVIOUS
<1>4. j \notin Promotable(js)
  BY <1>2 DEF Promotable, WithStatus
<1>5. \A i \in Promotable(js) : i \in JobIds /\ js[i].status = "queued"
  BY DEF Promotable, WithStatus
<1> HIDE DEF js
<1>6. Promote(js) \in [JobIds -> JobRecord]
  BY <1>1 DEF Promote, JobRecord, Status, ActiveStatus
<1>7. Promote(js)[j] = js[j]
  BY <1>4 DEF Promote
<1>8. \A i \in JobIds \ {j} :
        \/ Promote(js)[i] = jobs[i]
        \/ /\ jobs[i].status = "queued"
           /\ Promote(js)[i] = [jobs[i] EXCEPT !.status = "running"]
  BY <1>3, <1>5 DEF Promote
<1>9. Moved(j, s) = Promote(js) \/ Moved(j, s) = js
  BY DEF Moved, js
<1> QED BY <1>1, <1>2, <1>3, <1>6, <1>7, <1>8, <1>9

\* What the file keeps of a record is a record.
LEMMA PersistType ==
  ASSUME NEW rec \in JobRecord
  PROVE  Persist(rec) \in JobRecord
<1>1. \A a \in Artifact : [a EXCEPT !.keyed = FALSE] \in Artifact
  BY DEF Artifact
<1>2. {[a EXCEPT !.keyed = FALSE] : a \in rec.artifacts} \subseteq Artifact
  BY <1>1 DEF JobRecord
<1> QED BY <1>2 DEF Persist, JobRecord

\* The file keeps all of a record but its artifacts.
LEMMA PersistKeeps ==
  ASSUME NEW rec \in JobRecord
  PROVE  /\ Persist(rec).status = rec.status
         /\ Persist(rec).request = rec.request
         /\ Persist(rec).retryOf = rec.retryOf
         /\ Persist(rec).createdAt = rec.createdAt
<1> DEFINE as == IF rec.status = "deleted" THEN {}
                 ELSE {[a EXCEPT !.keyed = FALSE] : a \in rec.artifacts}
<1>1. Persist(rec) = [rec EXCEPT !.artifacts = as]
  BY DEF Persist
<1> HIDE DEF as
<1> QED BY <1>1 DEF JobRecord

\* Saving a table of records leaves records on disk.
LEMMA SaveType ==
  ASSUME jobs' \in [JobIds -> JobRecord], Save
  PROVE  disk' \in [JobIds -> JobRecord]
BY PersistType DEF Save

LEMMA TombstoneType ==
  ASSUME NEW rec \in JobRecord, NEW retain \in BOOLEAN
  PROVE  Tombstone(rec, retain) \in JobRecord
BY DEF Tombstone, JobRecord, Status, SettledStatus

-----------------------------------------------------------------------------
(***************************************************************************)
(* The inductive invariant.  A retry shares its request with its original, *)
(* which the restart has to find unchanged on disk: the lineage, the       *)
(* requests and the currency of the file are preserved together.           *)
(***************************************************************************)
StoreInv ==
  /\ TypeOK
  /\ DiskIsCurrent
  /\ OnlyTombstonesLackRequest
  /\ LineageIsSound
  /\ ActiveWithinLimit

\* The statuses, requests and lineage that a set of calls may leave a record with.
Evolves(old, new) ==
  /\ new.retryOf = old.retryOf
  /\ new.createdAt = old.createdAt
  /\ \/ new.status = old.status /\ new.request = old.request
     \/ /\ CanMove(old.status, new.status) /\ new.status # "deleted"
        /\ old.status # "absent" /\ new.request = old.request
     \/ old.status = "succeeded" /\ new.status = "deleted" /\ new.request = None

\* A table all of whose records evolve keeps the invariant.
LEMMA EvolutionKeepsInv ==
  ASSUME StoreInv, jobs' \in [JobIds -> JobRecord], Save,
         \A j \in JobIds : Evolves(jobs[j], jobs'[j]),
         ActiveJobs(jobs') \subseteq ActiveJobs(jobs)
  PROVE  /\ DiskIsCurrent' /\ OnlyTombstonesLackRequest'
         /\ LineageIsSound' /\ ActiveWithinLimit'
<1>1. \A j \in JobIds : jobs[j] \in JobRecord /\ jobs'[j] \in JobRecord
  BY DEF StoreInv, TypeOK
<1>2. DiskIsCurrent'
  BY DEF DiskIsCurrent, Save
<1>3. OnlyTombstonesLackRequest'
  BY <1>1, NoneAssumption DEF StoreInv, OnlyTombstonesLackRequest, Present, Evolves,
     CanMove, TransitionTable, JobRecord, Status, ActiveStatus, SettledStatus
<1>4. LineageIsSound'
  <2> SUFFICES ASSUME NEW j \in JobIds, jobs'[j].retryOf # None
               PROVE  LET o == jobs'[j].retryOf
                      IN  /\ jobs'[o].status \in {"failed", "cancelled"}
                          /\ jobs'[j].status # "deleted" =>
                               jobs'[j].request = jobs'[o].request
    BY DEF LineageIsSound
  <2> DEFINE o == jobs[j].retryOf
  <2>1. Evolves(jobs[j], jobs'[j])
    OBVIOUS
  <2>2. jobs'[j].retryOf = o /\ o # None /\ o \in JobIds
    BY <1>1, <2>1 DEF Evolves, JobRecord
  <2>3. /\ jobs[o].status \in {"failed", "cancelled"}
        /\ jobs[j].status # "deleted" => jobs[j].request = jobs[o].request
    BY <2>2 DEF StoreInv, LineageIsSound
  <2>4. Evolves(jobs[o], jobs'[o])
    BY <2>2
  <2>5. jobs'[o].status = jobs[o].status /\ jobs'[o].request = jobs[o].request
    BY <2>3, <2>4 DEF Evolves, CanMove, TransitionTable
  <2>6. jobs'[j].status # "deleted" =>
          jobs[j].status # "deleted" /\ jobs'[j].request = jobs[j].request
    BY <2>1 DEF Evolves, CanMove, TransitionTable
  <2> QED BY <2>2, <2>3, <2>5, <2>6
<1>5. ActiveWithinLimit'
  <2>1. IsFiniteSet(ActiveJobs(jobs))
    BY JobIdsAssumption, FS_Subset DEF ActiveJobs
  <2>2. Cardinality(ActiveJobs(jobs')) <= Cardinality(ActiveJobs(jobs))
    BY <2>1, FS_Subset
  <2>3. /\ Cardinality(ActiveJobs(jobs')) \in Nat
        /\ Cardinality(ActiveJobs(jobs)) \in Nat
    BY <2>1, FS_Subset, FS_CardinalityType
  <2>4. ActiveWithinLimit' <=> Cardinality(ActiveJobs(jobs')) <= QueueLimit
    BY DEF ActiveWithinLimit
  <2> QED BY <2>2, <2>3, <2>4, LimitsAssumption DEF StoreInv, ActiveWithinLimit
<1> QED BY <1>2, <1>3, <1>4, <1>5

\* Moving a job along the table, which is what cancel() and update_status() do.
LEMMA MoveStep ==
  ASSUME StoreInv, NEW j \in JobIds, NEW s \in Status \ {"queued", "deleted"},
         jobs[j].status # "absent", CanMove(jobs[j].status, s),
         jobs' = Moved(j, s), Save,
         UNCHANGED <<rank, blobs, expired, receipt>>
  PROVE  StoreInv' /\ \A i \in JobIds : Evolves(jobs[i], jobs'[i])
<1>1. jobs \in [JobIds -> JobRecord]
  BY DEF StoreInv, TypeOK
<1>2. /\ jobs' \in [JobIds -> JobRecord]
      /\ jobs'[j] = [jobs[j] EXCEPT !.status = s]
      /\ \A i \in JobIds \ {j} :
           \/ jobs'[i] = jobs[i]
           \/ /\ jobs[i].status = "queued"
              /\ jobs'[i] = [jobs[i] EXCEPT !.status = "running"]
  BY <1>1, MovedEffect
<1>3. Evolves(jobs[j], jobs'[j])
  BY <1>1, <1>2 DEF Evolves, JobRecord
<1>4. \A i \in JobIds \ {j} : Evolves(jobs[i], jobs'[i])
  BY <1>1, <1>2 DEF Evolves, JobRecord, CanMove, TransitionTable
<1>5. ActiveJobs(jobs') \subseteq ActiveJobs(jobs)
  <2>1. \A i \in JobIds \ {j} :
          jobs'[i].status \in ActiveStatus => jobs[i].status \in ActiveStatus
    BY <1>1, <1>2 DEF ActiveStatus, JobRecord
  <2>2. jobs'[j].status = s
    BY <1>1, <1>2 DEF JobRecord
  <2>3. s \in ActiveStatus => jobs[j].status \in ActiveStatus
    BY <1>1 DEF CanMove, TransitionTable, ActiveStatus, SettledStatus, Status, JobRecord
  <2> QED BY <2>1, <2>2, <2>3 DEF ActiveJobs
<1>6. TypeOK'
  BY <1>2, SaveType DEF StoreInv, TypeOK
<1> QED BY <1>2, <1>3, <1>4, <1>5, <1>6, EvolutionKeepsInv DEF StoreInv

\* Attaching artifacts, provenance or storage keys to a record.
LEMMA ArtifactStep ==
  ASSUME StoreInv, NEW j \in JobIds, NEW rec \in JobRecord,
         rec.status = jobs[j].status, rec.request = jobs[j].request,
         rec.retryOf = jobs[j].retryOf, rec.createdAt = jobs[j].createdAt,
         jobs' = [jobs EXCEPT ![j] = rec], Save,
         UNCHANGED <<rank, blobs, expired, receipt>>
  PROVE  StoreInv' /\ \A i \in JobIds : Evolves(jobs[i], jobs'[i])
<1>1. jobs \in [JobIds -> JobRecord]
  BY DEF StoreInv, TypeOK
<1>2. jobs' \in [JobIds -> JobRecord]
  BY <1>1
<1>3. \A i \in JobIds : Evolves(jobs[i], jobs'[i])
  BY <1>1 DEF Evolves
<1>4. ActiveJobs(jobs') \subseteq ActiveJobs(jobs)
  BY <1>1 DEF ActiveJobs
<1>5. TypeOK'
  BY <1>2, SaveType DEF StoreInv, TypeOK
<1> QED BY <1>2, <1>3, <1>4, <1>5, EvolutionKeepsInv DEF StoreInv

\* Turning succeeded jobs into tombstones, whatever becomes of their bytes.
LEMMA DeletionStep ==
  ASSUME StoreInv, NEW gone \in SUBSET JobIds, NEW retain \in BOOLEAN,
         \A j \in gone : jobs[j].status = "succeeded",
         jobs' = [j \in JobIds |->
                    IF j \in gone THEN Tombstone(jobs[j], retain) ELSE jobs[j]],
         Save, UNCHANGED <<rank, expired>>, blobs' \subseteq blobs,
         receipt' \in [JobIds -> {"none", "verified", "unverified"}]
  PROVE  StoreInv' /\ \A i \in JobIds : Evolves(jobs[i], jobs'[i])
<1>1. jobs \in [JobIds -> JobRecord]
  BY DEF StoreInv, TypeOK
<1>2. jobs' \in [JobIds -> JobRecord]
  BY <1>1, TombstoneType
<1>3. \A i \in gone :
        /\ jobs'[i].status = "deleted" /\ jobs'[i].request = None
        /\ jobs'[i].retryOf = jobs[i].retryOf
        /\ jobs'[i].createdAt = jobs[i].createdAt
  BY <1>1 DEF Tombstone, JobRecord
<1>4. \A i \in JobIds : Evolves(jobs[i], jobs'[i])
  BY <1>3 DEF Evolves
<1>5. ActiveJobs(jobs') \subseteq ActiveJobs(jobs)
  BY <1>3 DEF ActiveJobs, ActiveStatus
<1>6. TypeOK'
  BY <1>2, SaveType DEF StoreInv, TypeOK
<1> QED BY <1>2, <1>4, <1>5, <1>6, EvolutionKeepsInv DEF StoreInv

\* Admitting a new job, or a retry of a failed or cancelled one.
LEMMA AdmitStep ==
  ASSUME StoreInv, NEW j \in JobIds, NEW r \in Requests, NEW o \in JobIds \cup {None},
         jobs[j].status = "absent", ActiveCount(jobs) < QueueLimit,
         o # None => jobs[o].status \in {"failed", "cancelled"} /\ jobs[o].request = r,
         Admit(j, r, o)
  PROVE  StoreInv'
<1> DEFINE new == [AbsentJob EXCEPT !.status = "queued", !.request = r, !.retryOf = o,
                                    !.createdAt = Cardinality(Present(jobs))]
<1>1. jobs \in [JobIds -> JobRecord]
  BY DEF StoreInv, TypeOK
<1>2. Cardinality(Present(jobs)) \in Nat
  BY JobIdsAssumption, FS_Subset, FS_CardinalityType DEF Present
<1>3. new \in JobRecord
  BY <1>2 DEF AbsentJob, JobRecord, Status, ActiveStatus
<1>4. /\ new.status = "queued" /\ new.request = r /\ new.retryOf = o
  BY DEF AbsentJob
<1>5. jobs' = [jobs EXCEPT ![j] = new] /\ Save
  BY DEF Admit
<1> HIDE DEF new
<1>6. jobs' \in [JobIds -> JobRecord] /\ jobs'[j] = new
      /\ \A i \in JobIds \ {j} : jobs'[i] = jobs[i]
  BY <1>1, <1>3, <1>5
<1>7. TypeOK'
  BY <1>2, <1>5, <1>6, SaveType DEF StoreInv, TypeOK, Admit
<1>8. DiskIsCurrent'
  BY <1>5 DEF DiskIsCurrent, Save
<1>9. OnlyTombstonesLackRequest'
  BY <1>4, <1>6, NoneAssumption DEF StoreInv, OnlyTombstonesLackRequest, Present
<1>10. LineageIsSound'
  <2> SUFFICES ASSUME NEW i \in JobIds, jobs'[i].retryOf # None
               PROVE  LET p == jobs'[i].retryOf
                      IN  /\ jobs'[p].status \in {"failed", "cancelled"}
                          /\ jobs'[i].status # "deleted" =>
                               jobs'[i].request = jobs'[p].request
    BY DEF LineageIsSound
  <2>1. CASE i = j
    BY <1>4, <1>6, <2>1
  <2>2. CASE i # j
    <3>1. jobs'[i] = jobs[i] /\ jobs[i].retryOf \in JobIds
      BY <1>1, <1>6, <2>2 DEF JobRecord
    <3>2. jobs[jobs[i].retryOf].status \in {"failed", "cancelled"}
      BY <3>1 DEF StoreInv, LineageIsSound
    <3>3. jobs[i].retryOf # j
      BY <3>2
    <3> QED BY <1>6, <3>1, <3>2, <3>3 DEF StoreInv, LineageIsSound
  <2> QED BY <2>1, <2>2
<1>11. ActiveWithinLimit'
  <2>1. IsFiniteSet(ActiveJobs(jobs))
    BY JobIdsAssumption, FS_Subset DEF ActiveJobs
  <2>2. ActiveJobs(jobs') = ActiveJobs(jobs) \cup {j} /\ j \notin ActiveJobs(jobs)
    BY <1>4, <1>6 DEF ActiveJobs, ActiveStatus
  <2>3. Cardinality(ActiveJobs(jobs')) = Cardinality(ActiveJobs(jobs)) + 1
    BY <2>1, <2>2, FS_AddElement
  <2>4. Cardinality(ActiveJobs(jobs)) \in Nat
    BY <2>1, FS_CardinalityType
  <2>5. ActiveWithinLimit' <=> Cardinality(ActiveJobs(jobs')) <= QueueLimit
    BY DEF ActiveWithinLimit
  <2>6. Cardinality(ActiveJobs(jobs)) < QueueLimit
    BY DEF ActiveCount
  <2>7. Cardinality(ActiveJobs(jobs)) + 1 <= QueueLimit
    BY <2>4, <2>6, LimitsAssumption
  <2> QED BY <2>3, <2>5, <2>7
<1> QED BY <1>7, <1>8, <1>9, <1>10, <1>11 DEF StoreInv

\* A restart: the table on disk is that in memory, up to what Persist drops.
LEMMA RestartStep ==
  ASSUME StoreInv, Restart
  PROVE  StoreInv' /\ \A i \in JobIds : Evolves(jobs[i], jobs'[i])
<1>1. jobs \in [JobIds -> JobRecord] /\ disk \in [JobIds -> JobRecord]
  BY DEF StoreInv, TypeOK
<1>2. \A j \in JobIds : jobs'[j] = Persist(jobs[j])
  BY DEF Restart, StoreInv, DiskIsCurrent
<1>3. \A j \in JobIds : /\ jobs'[j].status = jobs[j].status
                        /\ jobs'[j].request = jobs[j].request
                        /\ jobs'[j].retryOf = jobs[j].retryOf
                        /\ jobs'[j].createdAt = jobs[j].createdAt
  BY <1>1, <1>2, PersistKeeps
<1> DEFINE before(j) == Cardinality({i \in Present(disk) : i < j})
<1>4. rank' \in [JobIds -> Nat]
  <2>1. \A j \in JobIds : before(j) \in Nat
    <3> SUFFICES ASSUME NEW j \in JobIds PROVE before(j) \in Nat
      OBVIOUS
    <3>1. {i \in Present(disk) : i < j} \subseteq JobIds
      BY DEF Present
    <3>2. IsFiniteSet({i \in Present(disk) : i < j})
      BY <3>1, JobIdsAssumption, FS_Subset
    <3> QED BY <3>2, FS_CardinalityType
  <2>2. rank' = [j \in JobIds |-> before(j)]
    BY DEF Restart
  <2> HIDE DEF before
  <2> QED BY <2>1, <2>2
<1>5. TypeOK'
  BY <1>1, <1>4 DEF Restart, StoreInv, TypeOK
<1>6. \A rec \in JobRecord : Persist(Persist(rec)) = Persist(rec)
  <2> TAKE rec \in JobRecord
  <2>1. \A a \in Artifact : [[a EXCEPT !.keyed = FALSE] EXCEPT !.keyed = FALSE]
                              = [a EXCEPT !.keyed = FALSE]
    BY DEF Artifact
  <2> DEFINE bare(as) == {[a EXCEPT !.keyed = FALSE] : a \in as}
  <2>2. rec.artifacts \subseteq Artifact
    BY DEF JobRecord
  <2>3. \A x \in bare(rec.artifacts) : [x EXCEPT !.keyed = FALSE] = x
    BY <2>1, <2>2
  <2>4. bare(bare(rec.artifacts)) = bare(rec.artifacts)
    <3> DEFINE B == bare(rec.artifacts)
    <3> HIDE DEF B
    <3>1. \A x \in B : [x EXCEPT !.keyed = FALSE] = x
      BY <2>3 DEF B
    <3>2. {[x EXCEPT !.keyed = FALSE] : x \in B} = B
      BY <3>1
    <3> QED BY <3>2 DEF B
  <2>5. /\ Persist(rec).status = rec.status
        /\ Persist(rec).artifacts =
             IF rec.status = "deleted" THEN {} ELSE bare(rec.artifacts)
    BY DEF Persist, JobRecord
  <2>6. Persist(rec) \in JobRecord
    BY PersistType
  <2>7. CASE rec.status = "deleted"
    BY <2>5, <2>6, <2>7 DEF Persist, JobRecord
  <2>8. CASE rec.status # "deleted"
    <3> DEFINE p == Persist(rec)
    <3>1. p.artifacts = bare(rec.artifacts) /\ p.status # "deleted"
      BY <2>5, <2>8
    <3>2. Persist(p) = [p EXCEPT !.artifacts = bare(p.artifacts)]
      BY <3>1 DEF Persist
    <3>3. bare(p.artifacts) = p.artifacts
      BY <2>4, <3>1
    <3> HIDE DEF bare, p
    <3>4. p \in JobRecord
      BY <2>6 DEF p
    <3> QED BY <3>2, <3>3, <3>4 DEF JobRecord, p
  <2> QED BY <2>7, <2>8
<1>7. Save
  BY <1>1, <1>2, <1>6 DEF Save, Restart
<1>8. \A i \in JobIds : Evolves(jobs[i], jobs'[i])
  BY <1>3 DEF Evolves
<1>9. ActiveJobs(jobs') \subseteq ActiveJobs(jobs)
  BY <1>3 DEF ActiveJobs
<1>10. jobs' \in [JobIds -> JobRecord]
  BY <1>1 DEF Restart
<1> QED BY <1>5, <1>7, <1>8, <1>9, <1>10, EvolutionKeepsInv DEF StoreInv

-----------------------------------------------------------------------------
LEMMA InitEstablishesInv ==
  ASSUME Init
  PROVE  StoreInv
<1>1. AbsentJob \in JobRecord /\ AbsentJob.status = "absent"
      /\ AbsentJob.retryOf = None /\ AbsentJob.artifacts = {}
  BY DEF AbsentJob, JobRecord
<1>2. TypeOK
  BY <1>1 DEF Init, TypeOK
<1>3. Persist(AbsentJob) = AbsentJob
  <2>1. {[a EXCEPT !.keyed = FALSE] : a \in {}} = {}
    OBVIOUS
  <2> QED BY <2>1 DEF Persist, AbsentJob
<1>4. DiskIsCurrent
  BY <1>3 DEF DiskIsCurrent, Init
<1>5. OnlyTombstonesLackRequest
  BY <1>1 DEF OnlyTombstonesLackRequest, Init, Present
<1>6. LineageIsSound
  BY <1>1 DEF LineageIsSound, Init
<1>7. ActiveWithinLimit
  <2>1. ActiveJobs(jobs) = {}
    BY <1>1 DEF ActiveJobs, Init, ActiveStatus
  <2> QED BY <2>1, FS_EmptySet, LimitsAssumption DEF ActiveWithinLimit
<1> QED BY <1>2, <1>4, <1>5, <1>6, <1>7 DEF StoreInv

\* No known job is forgotten or changes its history, and every record evolves.
Stable ==
  \A j \in Present(jobs) : Evolves(jobs[j], jobs'[j])

\* The admission of an unknown id leaves the known records alone.
LEMMA AdmitIsStable ==
  ASSUME jobs \in [JobIds -> JobRecord], NEW j \in JobIds, NEW r, NEW o,
         jobs[j].status = "absent", Admit(j, r, o)
  PROVE  Stable
<1>1. \A i \in Present(jobs) : jobs'[i] = jobs[i]
  BY DEF Admit, Present
<1> QED BY <1>1 DEF Stable, Evolves

LEMMA CreateStep ==
  ASSUME StoreInv, NEW r \in Requests, Create(r)
  PROVE  StoreInv' /\ Stable
<1>1. JobOf[r] \in JobIds
  BY RequestsAssumption
<1>2. /\ jobs[JobOf[r]].status = "absent" /\ ActiveCount(jobs) < QueueLimit
      /\ Admit(JobOf[r], r, None)
  BY DEF Create
<1>3. StoreInv'
  BY <1>1, <1>2, AdmitStep
<1>4. Stable
  BY <1>1, <1>2, AdmitIsStable DEF StoreInv, TypeOK
<1> QED BY <1>3, <1>4

LEMMA RetryStep ==
  ASSUME StoreInv, NEW j \in JobIds, Retry(j)
  PROVE  StoreInv' /\ Stable
<1>1. PICK k \in Attempts : /\ jobs[RetryId[j][k]].status = "absent"
                            /\ Admit(RetryId[j][k], jobs[j].request, j)
  BY DEF Retry
<1>2. RetryId[j][k] \in JobIds
  BY RequestsAssumption
<1>3. /\ jobs[j].status \in {"failed", "cancelled"} /\ jobs[j].request # None
      /\ ActiveCount(jobs) < QueueLimit
  BY DEF Retry, Retryable
<1>4. jobs[j].request \in Requests
  BY <1>3 DEF StoreInv, TypeOK, JobRecord
<1>5. StoreInv'
  BY <1>1, <1>2, <1>3, <1>4, AdmitStep
<1>6. Stable
  BY <1>1, <1>2, AdmitIsStable DEF StoreInv, TypeOK
<1> QED BY <1>5, <1>6

LEMMA CancelStep ==
  ASSUME StoreInv, NEW j \in JobIds, Cancel(j)
  PROVE  StoreInv' /\ Stable
<1>1. jobs[j].status \in ActiveStatus
  BY DEF Cancel, CancelStatus, StoreInv, TypeOK, JobRecord, Status
<1>2. CancelStatus(jobs[j].status) = "cancelled"
  BY <1>1 DEF CancelStatus, ActiveStatus, SettledStatus
<1>3. CanMove(jobs[j].status, "cancelled") /\ "cancelled" \in Status \ {"queued", "deleted"}
  BY <1>1 DEF CanMove, TransitionTable, ActiveStatus, Status, SettledStatus
<1>4. /\ jobs[j].status # "absent" /\ jobs' = Moved(j, "cancelled") /\ Save
      /\ UNCHANGED <<rank, blobs, expired, receipt>>
  BY <1>2 DEF Cancel
<1> QED BY <1>3, <1>4, MoveStep DEF Stable, Present

LEMMA UpdateStatusStep ==
  ASSUME StoreInv, NEW j \in JobIds, NEW s \in Status \ {"deleted"}, UpdateStatus(j, s)
  PROVE  StoreInv' /\ Stable
<1>1. jobs[j].status \in Status /\ jobs[j].status # s
  BY DEF UpdateStatus, StoreInv, TypeOK, JobRecord
<1>2. s # "queued"
  BY <1>1 DEF UpdateStatus, CanMove, TransitionTable, Status, ActiveStatus, SettledStatus
<1>3. /\ jobs[j].status # "absent" /\ CanMove(jobs[j].status, s)
      /\ jobs' = Moved(j, s) /\ Save
      /\ UNCHANGED <<rank, blobs, expired, receipt>>
  BY DEF UpdateStatus
<1> QED BY <1>2, <1>3, MoveStep DEF Stable, Present

LEMMA RegisterStep ==
  ASSUME StoreInv, NEW j \in JobIds, NEW a \in Artifact, NEW p \in Provenance,
         RegisterArtifact(j, a, p)
  PROVE  StoreInv' /\ Stable
<1> DEFINE rec == [jobs[j] EXCEPT !.artifacts = @ \cup {a}, !.provenance = p]
<1>1. jobs \in [JobIds -> JobRecord] /\ jobs[j] \in JobRecord
  BY DEF StoreInv, TypeOK
<1>2. rec \in JobRecord
  BY <1>1 DEF JobRecord
<1>3. /\ rec.status = jobs[j].status /\ rec.request = jobs[j].request
      /\ rec.retryOf = jobs[j].retryOf /\ rec.createdAt = jobs[j].createdAt
  BY <1>1 DEF JobRecord
<1>4. /\ jobs' = [jobs EXCEPT ![j] = rec] /\ Save
      /\ UNCHANGED <<rank, blobs, expired, receipt>>
  BY <1>1 DEF RegisterArtifact, JobRecord
<1> HIDE DEF rec
<1> QED BY <1>2, <1>3, <1>4, ArtifactStep DEF Stable, Present

LEMMA SetStorageKeyStep ==
  ASSUME StoreInv, NEW j \in JobIds, NEW n \in Runs, SetStorageKey(j, n)
  PROVE  StoreInv' /\ Stable
<1> DEFINE as == {IF a.run = n THEN [a EXCEPT !.keyed = TRUE] ELSE a :
                    a \in jobs[j].artifacts}
           rec == [jobs[j] EXCEPT !.artifacts = as]
<1>1. jobs \in [JobIds -> JobRecord] /\ jobs[j] \in JobRecord
  BY DEF StoreInv, TypeOK
<1>2. as \subseteq Artifact
  <2>1. jobs[j].artifacts \subseteq Artifact
    BY <1>1 DEF JobRecord
  <2>2. \A a \in Artifact : [a EXCEPT !.keyed = TRUE] \in Artifact
    BY DEF Artifact
  <2> QED BY <2>1, <2>2
<1>3. /\ jobs' = [jobs EXCEPT ![j] = rec] /\ Save
      /\ UNCHANGED <<rank, blobs, expired, receipt>>
  BY <1>1 DEF SetStorageKey
<1> HIDE DEF as
<1>4. rec \in JobRecord
  BY <1>1, <1>2 DEF JobRecord
<1>5. /\ rec.status = jobs[j].status /\ rec.request = jobs[j].request
      /\ rec.retryOf = jobs[j].retryOf /\ rec.createdAt = jobs[j].createdAt
  BY <1>1 DEF JobRecord
<1> HIDE DEF rec
<1> QED BY <1>3, <1>4, <1>5, ArtifactStep DEF Stable, Present

\* The three calls that turn jobs into tombstones, as instances of DeletionStep.
LEMMA DeleteArtifactStep ==
  ASSUME StoreInv, NEW j \in JobIds, NEW n \in Runs, DeleteArtifact(j, n)
  PROVE  StoreInv' /\ Stable
<1>1. jobs \in [JobIds -> JobRecord]
      /\ receipt \in [JobIds -> {"none", "verified", "unverified"}]
  BY DEF StoreInv, TypeOK
<1>2. /\ \A i \in {j} : jobs[i].status = "succeeded"
      /\ jobs' = [jobs EXCEPT ![j] = Tombstone(jobs[j], FALSE)]
      /\ Save /\ UNCHANGED <<rank, expired>> /\ blobs' \subseteq blobs
  BY <1>1 DEF DeleteArtifact
<1>3. receipt' \in [JobIds -> {"none", "verified", "unverified"}]
  BY <1>1 DEF DeleteArtifact
<1>4. jobs' = [i \in JobIds |->
                 IF i \in {j} THEN Tombstone(jobs[i], FALSE) ELSE jobs[i]]
  BY <1>1, <1>2
<1>5. {j} \in SUBSET JobIds /\ FALSE \in BOOLEAN
  OBVIOUS
<1> HIDE DEF DeleteArtifact
<1> QED BY <1>2, <1>3, <1>4, <1>5, DeletionStep DEF Stable, Present

LEMMA EvaluateExpiryStep ==
  ASSUME StoreInv, NEW j \in JobIds, EvaluateExpiry(j)
  PROVE  StoreInv' /\ Stable
<1>1. jobs \in [JobIds -> JobRecord]
      /\ receipt \in [JobIds -> {"none", "verified", "unverified"}]
  BY DEF StoreInv, TypeOK
<1>2. PICK n \in Runs :
        /\ Due(j, n)
        /\ jobs' = [jobs EXCEPT ![j] = Tombstone(@, TRUE)]
        /\ Save
        /\ blobs' \subseteq blobs
        /\ UNCHANGED <<rank, expired, receipt>>
  BY DEF EvaluateExpiry
<1>3. \A i \in {j} : jobs[i].status = "succeeded"
  BY <1>2 DEF Due
<1>4. jobs' = [i \in JobIds |->
                 IF i \in {j} THEN Tombstone(jobs[i], TRUE) ELSE jobs[i]]
  BY <1>1, <1>2
<1>5. {j} \in SUBSET JobIds /\ TRUE \in BOOLEAN
  OBVIOUS
<1>6. receipt' \in [JobIds -> {"none", "verified", "unverified"}]
  BY <1>1, <1>2
<1> QED BY <1>2, <1>3, <1>4, <1>5, <1>6, DeletionStep DEF Stable, Present

LEMMA SweepStep ==
  ASSUME StoreInv, SweepExpired
  PROVE  StoreInv' /\ Stable
<1> DEFINE due == {j \in JobIds : \E n \in Runs : Due(j, n)}
<1>1. jobs \in [JobIds -> JobRecord]
      /\ receipt \in [JobIds -> {"none", "verified", "unverified"}]
  BY DEF StoreInv, TypeOK
<1>2. PICK stop \in due :
        /\ jobs' = [j \in JobIds |->
                      IF j \in {i \in due : i <= stop}
                      THEN Tombstone(jobs[j], TRUE) ELSE jobs[j]]
        /\ blobs' \subseteq blobs
        /\ Save
        /\ UNCHANGED <<rank, expired, receipt>>
  BY DEF SweepExpired
<1> DEFINE done == {i \in due : i <= stop}
<1>3. done \in SUBSET JobIds /\ TRUE \in BOOLEAN
  OBVIOUS
<1>4. \A j \in done : jobs[j].status = "succeeded"
  BY DEF Due
<1>5. jobs' = [j \in JobIds |->
                 IF j \in done THEN Tombstone(jobs[j], TRUE) ELSE jobs[j]]
  BY <1>2
<1>6. receipt' \in [JobIds -> {"none", "verified", "unverified"}]
  BY <1>1, <1>2
<1> HIDE DEF done
<1> QED BY <1>2, <1>3, <1>4, <1>5, <1>6, DeletionStep DEF Stable, Present

\* Calls that leave the table and its file alone.
LEMMA TableUnchanged ==
  ASSUME StoreInv, UNCHANGED <<jobs, rank, disk>>,
         blobs' \subseteq JobIds \X Runs, expired' \subseteq JobIds \X Runs,
         receipt' \in [JobIds -> {"none", "verified", "unverified"}]
  PROVE  StoreInv' /\ Stable
<1>1. StoreInv'
  BY DEF StoreInv, TypeOK, DiskIsCurrent, OnlyTombstonesLackRequest, Present,
     LineageIsSound, ActiveWithinLimit, ActiveJobs
<1>2. Stable
  BY DEF Stable, Evolves
<1> QED BY <1>1, <1>2

-----------------------------------------------------------------------------
\* StoreInv is inductive, and the records that are known evolve.
LEMMA NextKeepsInv ==
  ASSUME StoreInv, [Next]_storeVars
  PROVE  StoreInv' /\ Stable
<1> USE DEF StoreInv
<1>1. CASE \E r \in Requests : Create(r)
  BY <1>1, CreateStep
<1>2. ASSUME NEW j \in JobIds, Cancel(j) PROVE StoreInv' /\ Stable
  BY <1>2, CancelStep
<1>3. ASSUME NEW j \in JobIds, Retry(j) PROVE StoreInv' /\ Stable
  BY <1>3, RetryStep
<1>4. ASSUME NEW j \in JobIds, EvaluateExpiry(j) PROVE StoreInv' /\ Stable
  BY <1>4, EvaluateExpiryStep
<1>5. ASSUME NEW j \in JobIds, DeleteAgain(j) PROVE StoreInv' /\ Stable
  <2>1. receipt' \in [JobIds -> {"none", "verified", "unverified"}]
    BY <1>5 DEF DeleteAgain, TypeOK
  <2> QED BY <1>5, <2>1, TableUnchanged DEF DeleteAgain, TypeOK
<1>6. ASSUME NEW j \in JobIds, NEW s \in Status \ {"deleted"}, UpdateStatus(j, s)
      PROVE  StoreInv' /\ Stable
  BY <1>6, UpdateStatusStep
<1>7. ASSUME NEW j \in JobIds, NEW n \in Runs, DeleteArtifact(j, n)
      PROVE  StoreInv' /\ Stable
  BY <1>7, DeleteArtifactStep
<1>8. ASSUME NEW j \in JobIds, NEW n \in Runs, SetStorageKey(j, n)
      PROVE  StoreInv' /\ Stable
  BY <1>8, SetStorageKeyStep
<1>9. ASSUME NEW j \in JobIds, NEW n \in Runs, Upload(j, n)
      PROVE  StoreInv' /\ Stable
  <2>1. blobs' \subseteq JobIds \X Runs
    BY <1>9 DEF Upload, TypeOK
  <2> QED BY <1>9, <2>1, TableUnchanged DEF Upload, TypeOK
<1>10. ASSUME NEW j \in JobIds, NEW n \in Runs, Elapse(j, n)
       PROVE  StoreInv' /\ Stable
  <2>1. expired' \subseteq JobIds \X Runs
    BY <1>10 DEF Elapse, TypeOK
  <2> QED BY <1>10, <2>1, TableUnchanged DEF Elapse, TypeOK
<1>11. ASSUME NEW j \in JobIds, NEW n \in Runs, NEW d \in Datasets, NEW c \in Configs,
              RegisterArtifact(j, [run |-> n, dataset |-> d, keyed |-> FALSE],
                                  [run |-> n, dataset |-> d, config |-> c])
       PROVE  StoreInv' /\ Stable
  <2>1. /\ [run |-> n, dataset |-> d, keyed |-> FALSE] \in Artifact
        /\ [run |-> n, dataset |-> d, config |-> c] \in Provenance
    BY DEF Artifact, Provenance
  <2> QED BY <1>11, <2>1, RegisterStep
<1>12. CASE SweepExpired
  BY <1>12, SweepStep
<1>13. CASE Restart
  BY <1>13, RestartStep DEF Stable, Present
<1>14. CASE UNCHANGED storeVars
  BY <1>14, TableUnchanged DEF storeVars, TypeOK
<1> QED
  BY <1>1, <1>2, <1>3, <1>4, <1>5, <1>6, <1>7, <1>8, <1>9, <1>10, <1>11, <1>12,
     <1>13, <1>14 DEF Next, Serve

\* The table, its file, the lineage and the quota stay consistent with each
\* other in every behaviour of the store.
THEOREM StoreInvariant == Spec => []StoreInv
<1>1. Init => StoreInv
  BY InitEstablishesInv
<1>2. StoreInv /\ [Next]_storeVars => StoreInv'
  BY NextKeepsInv
<1> QED BY <1>1, <1>2, PTL DEF Spec

\* Type correctness of the store's state.
THEOREM TypeCorrectness == Spec => []TypeOK
<1>1. StoreInv => TypeOK
  BY DEF StoreInv
<1> QED BY <1>1, StoreInvariant, PTL

\* The queued and running jobs never exceed the quota, whatever the order of
\* creates, retries, promotions, worker updates and restarts.
THEOREM QuotaIsKept == Spec => []ActiveWithinLimit
<1>1. StoreInv => ActiveWithinLimit
  BY DEF StoreInv
<1> QED BY <1>1, StoreInvariant, PTL

\* No save of the table meets a live record that has lost its request.
THEOREM RequestsAreKept == Spec => []OnlyTombstonesLackRequest
<1>1. StoreInv => OnlyTombstonesLackRequest
  BY DEF StoreInv
<1> QED BY <1>1, StoreInvariant, PTL

\* The original of a retry stays failed or cancelled, with the retry's request.
THEOREM LineageIsKept == Spec => []LineageIsSound
<1>1. StoreInv => LineageIsSound
  BY DEF StoreInv
<1> QED BY <1>1, StoreInvariant, PTL

\* After every completed operation the file holds the table.
THEOREM FileIsCurrent == Spec => []DiskIsCurrent
<1>1. StoreInv => DiskIsCurrent
  BY DEF StoreInv
<1> QED BY <1>1, StoreInvariant, PTL

\* A settled job stays settled: no call, no worker and no restart brings it
\* back, forgets it, or rewrites its lineage.
THEOREM HistoryIsKept == Spec => HistoryIsStable
<1> DEFINE Kept ==
      \A j \in Present(jobs) :
        /\ jobs[j].status \in SettledStatus =>
             \/ jobs'[j].status = jobs[j].status
             \/ jobs[j].status = "succeeded" /\ jobs'[j].status = "deleted"
        /\ jobs'[j].status # "absent"
        /\ jobs'[j].retryOf = jobs[j].retryOf
        /\ jobs'[j].createdAt = jobs[j].createdAt
<1>1. StoreInv /\ [Next]_storeVars => [Kept]_storeVars
  <2> SUFFICES ASSUME StoreInv, [Next]_storeVars, NEW j \in Present(jobs)
               PROVE  /\ jobs[j].status \in SettledStatus =>
                           \/ jobs'[j].status = jobs[j].status
                           \/ jobs[j].status = "succeeded" /\ jobs'[j].status = "deleted"
                      /\ jobs'[j].status # "absent"
                      /\ jobs'[j].retryOf = jobs[j].retryOf
                      /\ jobs'[j].createdAt = jobs[j].createdAt
    OBVIOUS
  <2>1. Evolves(jobs[j], jobs'[j])
    BY NextKeepsInv DEF Stable
  <2>2. jobs[j].status \in Status
    BY DEF Present, StoreInv, TypeOK, JobRecord
  <2> QED BY <2>1, <2>2 DEF Evolves, CanMove, TransitionTable, Status, ActiveStatus,
             SettledStatus
<1>2. HistoryIsStable <=> [][Kept]_storeVars
  BY DEF HistoryIsStable
<1> HIDE DEF Kept
<1> QED BY <1>1, <1>2, StoreInvariant, PTL DEF Spec

-----------------------------------------------------------------------------
(***************************************************************************)
(* The table implements the abstract queue.  What one operation may make   *)
(* of the table js is said of two tables, so that it can be said of what   *)
(* the file holds too.                                                     *)
(***************************************************************************)
Admits(js, ks, j, o) ==
  /\ js[j].status = "absent"
  /\ ActiveCount(js) < QueueLimit
  /\ o # None => js[o].status \in {"failed", "cancelled"}
  /\ ks[j].status = "queued" /\ ks[j].retryOf = o
  /\ \A i \in JobIds \ {j} : ks[i].status = js[i].status /\ ks[i].retryOf = js[i].retryOf

Advances(js, ks, j, s) ==
  /\ js[j].status \in Status \ {"running"}
  /\ s \in TransitionTable[js[j].status]
  /\ ks[j].status = s
  /\ \A i \in JobIds \ {j} : ks[i].status = js[i].status

Finishes(js, ks, j, s) ==
  /\ js[j].status = "running"
  /\ s \in TransitionTable["running"]
  /\ \E started \in SUBSET WithStatus(js, "queued") :
       /\ \A i \in JobIds : ks[i].status = IF i = j THEN s
                                           ELSE IF i \in started THEN "running"
                                           ELSE js[i].status
       /\ started # {} => RunningCount(ks) <= MaxRunning
       /\ started # WithStatus(js, "queued") => RunningCount(ks) >= MaxRunning

Retires(js, ks, gone) ==
  /\ gone \subseteq WithStatus(js, "succeeded")
  /\ \A i \in JobIds : ks[i].status = IF i \in gone THEN "deleted" ELSE js[i].status

Commits(js, ks) ==
  \/ \E j \in JobIds, o \in JobIds \cup {None} : Admits(js, ks, j, o)
  \/ /\ \A i \in JobIds : ks[i].retryOf = js[i].retryOf
     /\ \/ \E j \in JobIds, s \in Status : Advances(js, ks, j, s) \/ Finishes(js, ks, j, s)
        \/ \E gone \in SUBSET JobIds : Retires(js, ks, gone)

\* The iteration order of the table is an order: no two jobs are at one place of
\* it, and no job is behind its end.
RankInv ==
  /\ \A i, j \in Present(jobs) : rank[i] = rank[j] => i = j
  /\ \A i \in Present(jobs) : rank[i] < Cardinality(Present(jobs))

\* A set of naturals that is not empty has a least element.
LEMMA LeastOfNat ==
  ASSUME NEW S \in SUBSET Nat, S # {}
  PROVE  \E n \in S : \A m \in S : n <= m
<1>1. PICK R : R = OpToRel(<, Nat)
  OBVIOUS
<1>2. IsWellFoundedOn(R, Nat)
  BY <1>1, NatLessThanWellFounded
<1>3. PICK n \in S : \A m \in S : ~(<<m, n>> \in R)
  BY <1>2, WFMin
<1>4. \A i, k \in Nat : <<i, k>> \in R <=> i < k
  BY <1>1 DEF OpToRel
<1>5. \A m \in S : ~(m < n)
  BY <1>3, <1>4
<1>6. \A m \in S : n \in Nat /\ m \in Nat
  OBVIOUS
<1>7. \A m \in S : n <= m
  BY <1>5, <1>6
<1> QED BY <1>7

\* Sets of jobs are finite.
LEMMA JobSetsAreFinite ==
  ASSUME NEW S \in SUBSET JobIds
  PROVE  IsFiniteSet(S) /\ Cardinality(S) \in Nat
BY JobIdsAssumption, FS_Subset, FS_CardinalityType

\* Among jobs whose ranks have a bound, one has the highest rank; among any jobs,
\* one has the lowest.
LEMMA ExtremeRanks ==
  ASSUME rank \in [JobIds -> Nat], NEW S \in SUBSET JobIds, S # {}
  PROVE  /\ \E m \in S : \A q \in S : rank[m] <= rank[q]
         /\ \A bound \in Nat :
              (\A q \in S : rank[q] < bound) => \E m \in S : \A q \in S : rank[q] <= rank[m]
<1>1. \E m \in S : \A q \in S : rank[m] <= rank[q]
  <2>1. {rank[q] : q \in S} \in SUBSET Nat /\ {rank[q] : q \in S} # {}
    OBVIOUS
  <2>2. PICK n \in {rank[q] : q \in S} : \A k \in {rank[q] : q \in S} : n <= k
    BY <2>1, LeastOfNat
  <2> QED BY <2>2
<1>2. ASSUME NEW bound \in Nat, \A q \in S : rank[q] < bound
      PROVE  \E m \in S : \A q \in S : rank[q] <= rank[m]
  <2>1. \A q \in S : rank[q] \in Nat /\ bound - rank[q] \in Nat
    BY <1>2
  <2>2. {bound - rank[q] : q \in S} \in SUBSET Nat /\ {bound - rank[q] : q \in S} # {}
    BY <2>1
  <2>3. PICK n \in {bound - rank[q] : q \in S} : \A k \in {bound - rank[q] : q \in S} : n <= k
    BY <2>2, LeastOfNat
  <2>4. PICK m \in S : n = bound - rank[m]
    BY <2>3
  <2>5. \A q \in S : bound - rank[m] <= bound - rank[q]
    BY <2>3, <2>4
  <2>6. \A q \in S : rank[q] <= rank[m]
    BY <2>1, <2>5
  <2> QED BY <2>6
<1> QED BY <1>1, <1>2

\* A promotion starts no more jobs than fit, and leaves none queued while a slot
\* is free.
LEMMA PromotionFillsSlots ==
  ASSUME NEW js \in [JobIds -> JobRecord], rank \in [JobIds -> Nat], NEW bound \in Nat,
         \A p, q \in WithStatus(js, "queued") : rank[p] = rank[q] => p = q,
         \A q \in WithStatus(js, "queued") : rank[q] < bound
  PROVE  /\ Promotable(js) # {} => RunningCount(Promote(js)) <= MaxRunning
         /\ Promotable(js) # WithStatus(js, "queued") =>
              RunningCount(Promote(js)) >= MaxRunning
<1> DEFINE queued == WithStatus(js, "queued")
           started == Promotable(js)
           running == WithStatus(js, "running")
<1>1. started \in SUBSET queued /\ queued \in SUBSET JobIds /\ running \in SUBSET JobIds
      /\ started \cap running = {}
  BY DEF Promotable, WithStatus
<1>2. WithStatus(Promote(js), "running") = running \cup started
  <2>1. \A j \in JobIds : Promote(js)[j].status = IF j \in started THEN "running"
                                                  ELSE js[j].status
    BY DEF Promote, JobRecord
  <2> HIDE DEF started
  <2> QED BY <1>1, <2>1 DEF WithStatus
<1>3. RunningCount(Promote(js)) = RunningCount(js) + Cardinality(started)
  <2>0. started \in SUBSET JobIds
    BY <1>1
  <2> HIDE DEF running, started, queued
  <2>1. /\ IsFiniteSet(running) /\ Cardinality(running) \in Nat
        /\ IsFiniteSet(started) /\ Cardinality(started) \in Nat
    BY <1>1, <2>0, JobSetsAreFinite
  <2>2. running \cap started = {}
    BY <1>1
  <2>3. Cardinality(running \cap started) = 0
    BY <2>2, FS_EmptySet
  <2>4. Cardinality(running \cup started)
          = Cardinality(running) + Cardinality(started) - Cardinality(running \cap started)
    BY <2>1, FS_Union
  <2>5. Cardinality(running \cup started) = Cardinality(running) + Cardinality(started)
    BY <2>1, <2>3, <2>4
  <2> QED BY <1>2, <2>5 DEF RunningCount, running
<1>4. \A q \in queued : /\ QueuedUpTo(js, q) = {p \in queued : rank[p] <= rank[q]}
                        /\ q \in started <=>
                             RunningCount(js) + Cardinality(QueuedUpTo(js, q)) <= MaxRunning
  BY DEF QueuedUpTo, Promotable
<1>5. /\ MaxRunning \in Nat /\ RunningCount(js) \in Nat /\ Cardinality(started) \in Nat
      /\ IsFiniteSet(started)
      /\ \A q \in queued : /\ IsFiniteSet(QueuedUpTo(js, q))
                           /\ Cardinality(QueuedUpTo(js, q)) \in Nat
  BY <1>1, <1>4, LimitsAssumption, JobSetsAreFinite DEF RunningCount, QueuedUpTo
<1> HIDE DEF queued, started, running
<1>6. ASSUME started # {} PROVE RunningCount(Promote(js)) <= MaxRunning
  <2>1. PICK m \in started : \A q \in started : rank[q] <= rank[m]
    BY <1>1, <1>6, ExtremeRanks DEF queued
  <2>2. started \in SUBSET QueuedUpTo(js, m)
    BY <1>1, <1>4, <2>1
  <2>3. Cardinality(started) <= Cardinality(QueuedUpTo(js, m))
    BY <1>1, <1>5, <2>2, FS_Subset
  <2>4. RunningCount(js) + Cardinality(QueuedUpTo(js, m)) <= MaxRunning
    BY <1>1, <1>4
  <2>5. Cardinality(QueuedUpTo(js, m)) \in Nat
    BY <1>1, <1>5
  <2> QED BY <1>3, <1>5, <2>3, <2>4, <2>5
<1>7. ASSUME started # queued PROVE RunningCount(Promote(js)) >= MaxRunning
  <2>1. queued \ started \in SUBSET JobIds /\ queued \ started # {}
    BY <1>1, <1>7
  <2>2. PICK m \in queued \ started : \A q \in queued \ started : rank[m] <= rank[q]
    BY <2>1, ExtremeRanks
  <2>3. \A p \in QueuedUpTo(js, m) \ {m} : p \in started
    <3> SUFFICES ASSUME NEW p \in QueuedUpTo(js, m), p # m, p \notin started PROVE FALSE
      OBVIOUS
    <3>1. p \in queued /\ rank[p] <= rank[m] /\ rank[m] <= rank[p]
      BY <1>4, <2>2
    <3>2. rank[p] \in Nat /\ rank[m] \in Nat
      BY <1>1, <2>2, <3>1
    <3>3. rank[p] = rank[m]
      BY <3>1, <3>2
    <3> QED BY <2>2, <3>1, <3>3 DEF queued
  <2>4. QueuedUpTo(js, m) \in SUBSET (started \cup {m})
    BY <2>3
  <2>5. IsFiniteSet(started \cup {m}) /\ Cardinality(started \cup {m}) = Cardinality(started) + 1
    BY <1>5, <2>2, FS_AddElement
  <2>6. Cardinality(QueuedUpTo(js, m)) <= Cardinality(started) + 1
    BY <2>4, <2>5, FS_Subset
  <2>7. ~(RunningCount(js) + Cardinality(QueuedUpTo(js, m)) <= MaxRunning)
    BY <1>4, <2>2
  <2>8. Cardinality(QueuedUpTo(js, m)) \in Nat
    BY <1>5, <2>2
  <2> QED BY <1>3, <1>5, <2>6, <2>7, <2>8
<1> QED BY <1>6, <1>7 DEF started, queued

\* A job that moves leaves its slot to queued ones, or takes none from them.
LEMMA MoveCommits ==
  ASSUME jobs \in [JobIds -> JobRecord], rank \in [JobIds -> Nat], RankInv,
         NEW j \in JobIds, NEW s \in Status \ {"queued", "deleted"},
         jobs[j].status \notin {"absent", s}, CanMove(jobs[j].status, s)
  PROVE  Commits(jobs, Moved(j, s))
<1> DEFINE js == [jobs EXCEPT ![j].status = s]
<1>1. js \in [JobIds -> JobRecord] /\ js[j].status = s /\ js[j].retryOf = jobs[j].retryOf
      /\ \A i \in JobIds \ {j} : js[i] = jobs[i]
  BY DEF JobRecord
<1>2. jobs[j].status \in Status /\ s \in TransitionTable[jobs[j].status]
  BY DEF JobRecord, CanMove
<1>3. \A i \in JobIds : Moved(j, s)[i].retryOf = jobs[i].retryOf
  <2>1. \A i \in JobIds : jobs[i] \in JobRecord
    OBVIOUS
  <2>2. \A rec \in JobRecord, t \in Status : [rec EXCEPT !.status = t].retryOf = rec.retryOf
    BY DEF JobRecord
  <2>3. "running" \in Status /\ s \in Status
    BY DEF Status, ActiveStatus
  <2>4. /\ Moved(j, s)[j] = [jobs[j] EXCEPT !.status = s]
        /\ \A i \in JobIds \ {j} : \/ Moved(j, s)[i] = jobs[i]
                                  \/ Moved(j, s)[i] = [jobs[i] EXCEPT !.status = "running"]
    BY MovedEffect
  <2>5. [jobs[j] EXCEPT !.status = s].retryOf = jobs[j].retryOf
    BY <2>1, <2>2, <2>3
  <2>6. \A i \in JobIds : [jobs[i] EXCEPT !.status = "running"].retryOf = jobs[i].retryOf
    BY <2>1, <2>2, <2>3
  <2> QED BY <2>4, <2>5, <2>6
<1>4. CASE jobs[j].status # "running"
  <2>1. Moved(j, s) = js
    BY <1>4 DEF Moved
  <2> HIDE DEF js
  <2>2. Advances(jobs, js, j, s)
    BY <1>1, <1>2, <1>4 DEF Advances
  <2> QED BY <1>3, <2>1, <2>2 DEF Commits
<1>5. CASE jobs[j].status = "running"
  <2>1. Moved(j, s) = Promote(js)
    BY <1>5 DEF Moved
  <2> HIDE DEF js
  <2>2. WithStatus(js, "queued") = WithStatus(jobs, "queued")
    BY <1>1, <1>5 DEF WithStatus
  <2>3. WithStatus(jobs, "queued") \subseteq Present(jobs)
    BY DEF WithStatus, Present
  <2>4. Cardinality(Present(jobs)) \in Nat
    BY JobSetsAreFinite DEF Present
  <2>5. /\ Promotable(js) # {} => RunningCount(Promote(js)) <= MaxRunning
        /\ Promotable(js) # WithStatus(js, "queued") =>
             RunningCount(Promote(js)) >= MaxRunning
    BY <1>1, <2>2, <2>3, <2>4, PromotionFillsSlots DEF RankInv
  <2>6. Promotable(js) \in SUBSET WithStatus(jobs, "queued")
    BY <2>2 DEF Promotable
  <2>7. \A i \in JobIds : Promote(js)[i].status =
          IF i = j THEN s ELSE IF i \in Promotable(js) THEN "running" ELSE jobs[i].status
    <3>1. \A i \in JobIds : Promote(js)[i].status =
            IF i \in Promotable(js) THEN "running" ELSE js[i].status
      BY <1>1 DEF Promote, JobRecord
    <3>2. j \notin Promotable(js)
      BY <1>5, <2>6 DEF WithStatus
    <3> QED BY <1>1, <3>1, <3>2
  <2>8. Finishes(jobs, Promote(js), j, s)
    BY <1>2, <1>5, <2>2, <2>5, <2>6, <2>7 DEF Finishes
  <2> QED BY <1>3, <2>1, <2>8 DEF Commits
<1> QED BY <1>4, <1>5

\* A table with the statuses and the lineage of another says the same to clients.
LEMMA SameCommits ==
  ASSUME NEW js, NEW ks,
         \A i \in JobIds : ks[i].status = js[i].status /\ ks[i].retryOf = js[i].retryOf
  PROVE  Commits(js, ks)
<1>1. Retires(js, ks, {})
  BY DEF Retires
<1> QED BY <1>1 DEF Commits

\* The order of the table survives what leaves every job in its place.
LEMMA RankStays ==
  ASSUME RankInv, UNCHANGED rank, Present(jobs') = Present(jobs)
  PROVE  RankInv'
BY DEF RankInv, Present

\* A new job goes to the end of the table.
LEMMA RankOfNew ==
  ASSUME RankInv, rank \in [JobIds -> Nat], NEW j \in JobIds, jobs[j].status = "absent",
         jobs'[j].status # "absent",
         \A i \in JobIds \ {j} : jobs'[i].status = jobs[i].status,
         rank' = [rank EXCEPT ![j] = Cardinality(Present(jobs))]
  PROVE  RankInv'
<1>1. Present(jobs)' = Present(jobs) \cup {j} /\ j \notin Present(jobs)
  BY DEF Present
<1>2. IsFiniteSet(Present(jobs)) /\ Cardinality(Present(jobs)) \in Nat
  BY JobSetsAreFinite DEF Present
<1>3. Cardinality(Present(jobs)') = Cardinality(Present(jobs)) + 1
  BY <1>1, <1>2, FS_AddElement
<1>4. \A i \in Present(jobs) : rank'[i] = rank[i] /\ rank[i] < Cardinality(Present(jobs))
                               /\ rank[i] \in Nat
  BY <1>1 DEF RankInv, Present
<1>5. rank'[j] = Cardinality(Present(jobs))
  OBVIOUS
<1>6. \A i \in Present(jobs)' : rank'[i] < Cardinality(Present(jobs)')
  BY <1>1, <1>2, <1>3, <1>4, <1>5
<1>7. \A i, k \in Present(jobs)' : rank'[i] = rank'[k] => i = k
  <2> SUFFICES ASSUME NEW i \in Present(jobs)', NEW k \in Present(jobs)', rank'[i] = rank'[k]
               PROVE  i = k
    OBVIOUS
  <2>1. CASE i \in Present(jobs) /\ k \in Present(jobs)
    BY <1>4, <2>1 DEF RankInv
  <2>2. CASE i = j /\ k \in Present(jobs)
    BY <1>2, <1>4, <1>5, <2>2
  <2>3. CASE i \in Present(jobs) /\ k = j
    BY <1>2, <1>4, <1>5, <2>3
  <2> QED BY <1>1, <2>1, <2>2, <2>3
<1> QED BY <1>6, <1>7 DEF RankInv

\* A table read from the file is in the order of the ids.
LEMMA RankOfRestart ==
  ASSUME jobs' = disk,
         rank' = [j \in JobIds |-> Cardinality({i \in Present(disk) : i < j})]
  PROVE  RankInv'
<1> DEFINE below(j) == {i \in Present(disk) : i < j}
<1>1. Present(disk) \in SUBSET JobIds /\ IsFiniteSet(Present(disk)) /\ JobIds \subseteq Nat
  BY JobSetsAreFinite, JobIdsAssumption DEF Present
<1>2. \A j \in JobIds : /\ below(j) \in SUBSET Present(disk)
                        /\ IsFiniteSet(below(j)) /\ Cardinality(below(j)) \in Nat
  BY <1>1, JobSetsAreFinite
<1>3. \A i \in JobIds : rank'[i] = Cardinality(below(i))
  OBVIOUS
<1>4. ASSUME NEW S \in SUBSET Present(disk), NEW T \in SUBSET S, NEW x \in S, x \notin T
      PROVE  Cardinality(T) < Cardinality(S)
  <2>1. IsFiniteSet(S) /\ Cardinality(S) \in Nat /\ Cardinality(T) \in Nat
    BY <1>1, JobSetsAreFinite
  <2>2. Cardinality(T) <= Cardinality(S) /\ (Cardinality(S) = Cardinality(T) => S = T)
    BY <2>1, FS_Subset
  <2> QED BY <1>4, <2>1, <2>2
<1>5. ASSUME NEW i \in Present(disk), NEW k \in Present(disk), i < k
      PROVE  Cardinality(below(i)) < Cardinality(below(k))
  <2>1. i \in Nat /\ k \in Nat /\ i \in JobIds /\ k \in JobIds
    BY <1>1
  <2>2. i \in below(k) /\ i \notin below(i)
    BY <1>5, <2>1
  <2>3. \A x \in below(i) : x \in below(k)
    BY <1>1, <1>5, <2>1
  <2>4. below(i) \in SUBSET below(k) /\ below(k) \in SUBSET Present(disk)
    BY <2>3
  <2> HIDE DEF below
  <2> QED BY <1>4, <2>2, <2>4
<1>6. \A i \in Present(disk) : Cardinality(below(i)) < Cardinality(Present(disk))
  <2> SUFFICES ASSUME NEW i \in Present(disk)
               PROVE  Cardinality(below(i)) < Cardinality(Present(disk))
    OBVIOUS
  <2>1. i \in Nat
    BY <1>1
  <2>2. below(i) \in SUBSET Present(disk) /\ i \notin below(i)
    BY <2>1
  <2> HIDE DEF below
  <2> QED BY <1>4, <2>2
<1> HIDE DEF below
<1>7. \A i, k \in Present(disk) : rank'[i] = rank'[k] => i = k
  <2> SUFFICES ASSUME NEW i \in Present(disk), NEW k \in Present(disk), i # k
               PROVE  rank'[i] # rank'[k]
    OBVIOUS
  <2>1. i \in Nat /\ k \in Nat /\ i \in JobIds /\ k \in JobIds
    BY <1>1
  <2>2. i < k \/ k < i
    BY <2>1
  <2>3. Cardinality(below(i)) \in Nat /\ Cardinality(below(k)) \in Nat
    BY <1>2, <2>1
  <2>4. Cardinality(below(i)) # Cardinality(below(k))
    BY <1>5, <2>2, <2>3
  <2> QED BY <1>3, <2>1, <2>4
<1>8. Present(jobs)' = Present(disk)
  BY DEF Present
<1>9. \A i \in Present(disk) : rank'[i] < Cardinality(Present(disk))
  BY <1>1, <1>3, <1>6
<1> QED BY <1>7, <1>8, <1>9 DEF RankInv

\* A move leaves every job in the table.
LEMMA MovePresence ==
  ASSUME NEW j \in JobIds, NEW s \in Status \ {"queued"},
         jobs \in [JobIds -> JobRecord], jobs[j].status # "absent"
  PROVE  Present(Moved(j, s)) = Present(jobs)
<1>1. /\ Moved(j, s)[j] = [jobs[j] EXCEPT !.status = s]
      /\ \A i \in JobIds \ {j} :
           \/ Moved(j, s)[i] = jobs[i]
           \/ /\ jobs[i].status = "queued"
              /\ Moved(j, s)[i] = [jobs[i] EXCEPT !.status = "running"]
  BY MovedEffect
<1>2. \A i \in JobIds : jobs[i] \in JobRecord
  OBVIOUS
<1>3. \A rec \in JobRecord, t \in Status : [rec EXCEPT !.status = t].status = t
  BY DEF JobRecord
<1>4. "absent" \notin Status /\ "running" \in Status
  BY DEF Status, ActiveStatus, SettledStatus
<1>5. Moved(j, s)[j].status # "absent"
  BY <1>1, <1>2, <1>3, <1>4
<1>6. \A i \in JobIds : [jobs[i] EXCEPT !.status = "running"].status = "running"
  BY <1>2, <1>3, <1>4
<1>7. \A i \in JobIds \ {j} : Moved(j, s)[i].status = "absent" <=> jobs[i].status = "absent"
  BY <1>1, <1>6
<1> QED BY <1>5, <1>7 DEF Present

\* One operation of the store is one operation of the queue.
LEMMA AdmitCommits ==
  ASSUME StoreInv, RankInv, NEW j \in JobIds, NEW r, NEW o \in JobIds \cup {None},
         jobs[j].status = "absent", ActiveCount(jobs) < QueueLimit,
         o # None => jobs[o].status \in {"failed", "cancelled"},
         Admit(j, r, o)
  PROVE  Commits(jobs, jobs') /\ RankInv'
<1> DEFINE new == [AbsentJob EXCEPT !.status = "queued", !.request = r, !.retryOf = o,
                                    !.createdAt = Cardinality(Present(jobs))]
<1>1. new.status = "queued" /\ new.retryOf = o
  BY DEF AbsentJob
<1>2. jobs' = [jobs EXCEPT ![j] = new] /\ rank' = [rank EXCEPT ![j] = Cardinality(Present(jobs))]
  BY DEF Admit
<1>3. jobs \in [JobIds -> JobRecord] /\ rank \in [JobIds -> Nat]
  BY DEF StoreInv, TypeOK
<1> HIDE DEF new
<1>4. jobs'[j] = new /\ \A i \in JobIds \ {j} : jobs'[i] = jobs[i]
  BY <1>2, <1>3
<1>5. Admits(jobs, jobs', j, o)
  BY <1>1, <1>4 DEF Admits
<1>6. RankInv'
  BY <1>1, <1>2, <1>3, <1>4, RankOfNew
<1> QED BY <1>5, <1>6 DEF Commits

LEMMA MoveStepCommits ==
  ASSUME StoreInv, RankInv, NEW j \in JobIds, NEW s \in Status \ {"queued", "deleted"},
         jobs[j].status \notin {"absent", s}, CanMove(jobs[j].status, s),
         jobs' = Moved(j, s), UNCHANGED rank
  PROVE  Commits(jobs, jobs') /\ RankInv'
<1>1. jobs \in [JobIds -> JobRecord] /\ rank \in [JobIds -> Nat]
  BY DEF StoreInv, TypeOK
<1>2. Commits(jobs, jobs')
  BY <1>1, MoveCommits
<1>3. Present(jobs') = Present(jobs)
  BY <1>1, MovePresence
<1> QED BY <1>2, <1>3, RankStays

LEMMA RetireCommits ==
  ASSUME StoreInv, RankInv, NEW gone \in SUBSET JobIds, NEW retain \in BOOLEAN,
         \A j \in gone : jobs[j].status = "succeeded",
         jobs' = [j \in JobIds |->
                    IF j \in gone THEN Tombstone(jobs[j], retain) ELSE jobs[j]],
         UNCHANGED rank
  PROVE  Commits(jobs, jobs') /\ RankInv'
<1>1. \A j \in JobIds : jobs[j] \in JobRecord
  BY DEF StoreInv, TypeOK
<1>2. \A rec \in JobRecord : /\ Tombstone(rec, retain).status = "deleted"
                             /\ Tombstone(rec, retain).retryOf = rec.retryOf
  BY DEF Tombstone, JobRecord
<1>3. \A j \in JobIds : /\ jobs'[j].status = IF j \in gone THEN "deleted" ELSE jobs[j].status
                        /\ jobs'[j].retryOf = jobs[j].retryOf
  BY <1>1, <1>2
<1>4. Retires(jobs, jobs', gone)
  BY <1>3 DEF Retires, WithStatus
<1>5. Present(jobs') = Present(jobs)
  BY <1>3 DEF Present
<1> QED BY <1>3, <1>4, <1>5, RankStays DEF Commits

LEMMA RecordCommits ==
  ASSUME RankInv, UNCHANGED rank,
         \A i \in JobIds : jobs'[i].status = jobs[i].status /\ jobs'[i].retryOf = jobs[i].retryOf
  PROVE  Commits(jobs, jobs') /\ RankInv'
<1>1. Commits(jobs, jobs')
  BY SameCommits
<1>2. Present(jobs') = Present(jobs)
  BY DEF Present
<1> QED BY <1>1, <1>2, RankStays

LEMMA NextCommits ==
  ASSUME StoreInv, RankInv, [Next]_storeVars
  PROVE  Commits(jobs, jobs') /\ RankInv'
<1>0. jobs \in [JobIds -> JobRecord]
  BY DEF StoreInv, TypeOK
<1>1. ASSUME NEW r \in Requests, Create(r) PROVE Commits(jobs, jobs') /\ RankInv'
  <2>1. JobOf[r] \in JobIds
    BY RequestsAssumption
  <2> QED BY <1>1, <2>1, AdmitCommits DEF Create
<1>2. ASSUME NEW j \in JobIds, Retry(j) PROVE Commits(jobs, jobs') /\ RankInv'
  <2>1. PICK k \in Attempts : /\ jobs[RetryId[j][k]].status = "absent"
                              /\ Admit(RetryId[j][k], jobs[j].request, j)
    BY <1>2 DEF Retry
  <2>2. RetryId[j][k] \in JobIds /\ jobs[j].status \in {"failed", "cancelled"}
        /\ ActiveCount(jobs) < QueueLimit
    BY <1>2, RequestsAssumption DEF Retry, Retryable
  <2> QED BY <2>1, <2>2, AdmitCommits
<1>3. ASSUME NEW j \in JobIds, Cancel(j) PROVE Commits(jobs, jobs') /\ RankInv'
  <2>1. jobs[j].status \in ActiveStatus
    BY <1>0, <1>3 DEF Cancel, CancelStatus, JobRecord, Status
  <2>2. CancelStatus(jobs[j].status) = "cancelled"
    BY <2>1 DEF CancelStatus, ActiveStatus, SettledStatus
  <2>3. /\ CanMove(jobs[j].status, "cancelled") /\ jobs[j].status \notin {"absent", "cancelled"}
        /\ "cancelled" \in Status \ {"queued", "deleted"}
    BY <2>1 DEF CanMove, TransitionTable, ActiveStatus, SettledStatus, Status
  <2> QED BY <1>3, <2>2, <2>3, MoveStepCommits DEF Cancel
<1>4. ASSUME NEW j \in JobIds, NEW s \in Status \ {"deleted"}, UpdateStatus(j, s)
      PROVE  Commits(jobs, jobs') /\ RankInv'
  <2>1. jobs[j].status \in Status /\ jobs[j].status # s
    BY <1>0, <1>4 DEF UpdateStatus, JobRecord
  <2>2. s # "queued"
    BY <1>4, <2>1 DEF UpdateStatus, CanMove, TransitionTable, Status, ActiveStatus,
       SettledStatus
  <2> QED BY <1>4, <2>2, MoveStepCommits DEF UpdateStatus
<1>5. ASSUME NEW j \in JobIds, NEW n \in Runs, NEW d \in Datasets, NEW c \in Configs,
             RegisterArtifact(j, [run |-> n, dataset |-> d, keyed |-> FALSE],
                              [run |-> n, dataset |-> d, config |-> c])
      PROVE  Commits(jobs, jobs') /\ RankInv'
  <2>1. PICK a, p : jobs' = [jobs EXCEPT ![j].artifacts = a, ![j].provenance = p]
                    /\ UNCHANGED rank
    BY <1>5 DEF RegisterArtifact
  <2>2. \A i \in JobIds : jobs'[i].status = jobs[i].status /\ jobs'[i].retryOf = jobs[i].retryOf
    BY <1>0, <2>1 DEF JobRecord
  <2> QED BY <2>1, <2>2, RecordCommits
<1>6. ASSUME NEW j \in JobIds, NEW n \in Runs, SetStorageKey(j, n)
      PROVE  Commits(jobs, jobs') /\ RankInv'
  <2>1. PICK a : jobs' = [jobs EXCEPT ![j].artifacts = a] /\ UNCHANGED rank
    BY <1>6 DEF SetStorageKey
  <2>2. \A i \in JobIds : jobs'[i].status = jobs[i].status /\ jobs'[i].retryOf = jobs[i].retryOf
    BY <1>0, <2>1 DEF JobRecord
  <2> QED BY <2>1, <2>2, RecordCommits
<1>7. ASSUME NEW j \in JobIds, NEW n \in Runs, DeleteArtifact(j, n)
      PROVE  Commits(jobs, jobs') /\ RankInv'
  <2>1. /\ jobs[j].status = "succeeded" /\ UNCHANGED rank
        /\ jobs' = [jobs EXCEPT ![j] = Tombstone(@, FALSE)]
    BY <1>7 DEF DeleteArtifact
  <2>2. jobs' = [i \in JobIds |-> IF i \in {j} THEN Tombstone(jobs[i], FALSE) ELSE jobs[i]]
    BY <1>0, <2>1
  <2> QED BY <2>1, <2>2, RetireCommits
<1>8. ASSUME NEW j \in JobIds, EvaluateExpiry(j) PROVE Commits(jobs, jobs') /\ RankInv'
  <2>1. /\ jobs[j].status = "succeeded" /\ UNCHANGED rank
        /\ jobs' = [jobs EXCEPT ![j] = Tombstone(@, TRUE)]
    BY <1>8 DEF EvaluateExpiry, Due
  <2>2. jobs' = [i \in JobIds |-> IF i \in {j} THEN Tombstone(jobs[i], TRUE) ELSE jobs[i]]
    BY <1>0, <2>1
  <2> QED BY <2>1, <2>2, RetireCommits
<1>9. CASE SweepExpired
  <2> DEFINE due == {j \in JobIds : \E n \in Runs : Due(j, n)}
  <2>1. PICK done \in SUBSET due :
          /\ jobs' = [j \in JobIds |-> IF j \in done THEN Tombstone(jobs[j], TRUE) ELSE jobs[j]]
          /\ UNCHANGED rank
    BY <1>9 DEF SweepExpired
  <2>2. \A j \in done : jobs[j].status = "succeeded"
    BY DEF Due
  <2> QED BY <2>1, <2>2, RetireCommits
<1>10. ASSUME UNCHANGED <<jobs, rank>> PROVE Commits(jobs, jobs') /\ RankInv'
  BY <1>10, RecordCommits
<1>11. ASSUME NEW j \in JobIds, NEW n \in Runs, DeleteAgain(j) \/ Upload(j, n) \/ Elapse(j, n)
       PROVE  Commits(jobs, jobs') /\ RankInv'
  BY <1>10, <1>11 DEF DeleteAgain, Upload, Elapse
<1>12. CASE Restart
  <2>1. \A i \in JobIds : jobs'[i] = Persist(jobs[i])
    BY <1>12 DEF Restart, StoreInv, DiskIsCurrent
  <2>2. \A i \in JobIds : jobs'[i].status = jobs[i].status /\ jobs'[i].retryOf = jobs[i].retryOf
    BY <1>0, <2>1, PersistKeeps
  <2>3. RankInv'
    BY <1>12, RankOfRestart DEF Restart
  <2> QED BY <2>2, <2>3, SameCommits
<1>13. CASE Next
  <2>1. CASE \E j \in JobIds : DeleteAgain(j)
    BY <1>10, <2>1 DEF DeleteAgain
  <2> QED BY <1>1, <1>2, <1>3, <1>4, <1>5, <1>6, <1>7, <1>8, <1>9, <1>11, <1>12, <1>13, <2>1
          DEF Next, Serve
<1>14. CASE UNCHANGED storeVars
  BY <1>10, <1>14 DEF storeVars
<1> QED BY <1>13, <1>14

\* The queue's own copies of the common definitions are those definitions.
LEMMA QueueDefinitions ==
  /\ Queue!TransitionTable = TransitionTable
  /\ Queue!ActiveStatus = ActiveStatus
  /\ Queue!Status = Status
  /\ \A S : Queue!Cardinality(S) = Cardinality(S)
<1>1. Queue!ActiveStatus = ActiveStatus /\ Queue!SettledStatus = SettledStatus
  BY DEF Queue!ActiveStatus, ActiveStatus, Queue!SettledStatus, SettledStatus
<1>2. Queue!Status = Status
  BY <1>1 DEF Queue!Status, Status
<1>3. Queue!TransitionTable = TransitionTable
  BY DEF Queue!TransitionTable, TransitionTable
<1>4. \A S : Queue!Cardinality(S) = Cardinality(S)
  BY DEF Queue!Cardinality, Cardinality
<1> QED BY <1>1, <1>2, <1>3, <1>4

\* What one operation makes of the table is a step of the queue that the table
\* stands for.
LEMMA CommitsAreSteps ==
  ASSUME jobs \in [JobIds -> JobRecord], jobs' \in [JobIds -> JobRecord],
         Commits(jobs, jobs')
  PROVE  Queue!Next
<1> DEFINE state == [j \in JobIds |-> jobs[j].status]
           newState == [j \in JobIds |-> jobs'[j].status]
           origin == [j \in JobIds |-> jobs[j].retryOf]
           newOrigin == [j \in JobIds |-> jobs'[j].retryOf]
<1>1. ASSUME NEW j \in JobIds, NEW o \in JobIds \cup {None}, Admits(jobs, jobs', j, o)
      PROVE  Queue!Admit(j, o)
  <2>1. Queue!Jobs(Queue!ActiveStatus) = ActiveJobs(jobs)
    BY QueueDefinitions DEF Queue!Jobs, ActiveJobs
  <2>2. newState = [state EXCEPT ![j] = "queued"] /\ newOrigin = [origin EXCEPT ![j] = o]
    BY <1>1 DEF Admits
  <2>3. /\ state[j] = "absent" /\ Cardinality(ActiveJobs(jobs)) < QueueLimit
        /\ o # None => state[o] \in {"failed", "cancelled"}
    BY <1>1 DEF Admits, ActiveCount
  <2> QED BY <2>1, <2>2, <2>3, QueueDefinitions DEF Queue!Admit
<1>2. ASSUME \A i \in JobIds : jobs'[i].retryOf = jobs[i].retryOf
      PROVE  newOrigin = origin
  BY <1>2
<1>3. ASSUME NEW j \in JobIds, NEW s \in Status, Advances(jobs, jobs', j, s),
             newOrigin = origin
      PROVE  Queue!Advance(j, s)
  <2>1. newState = [state EXCEPT ![j] = s]
    BY <1>3 DEF Advances
  <2>2. state[j] \in Status \ {"running"} /\ s \in TransitionTable[state[j]]
    BY <1>3 DEF Advances
  <2> QED BY <1>3, <2>1, <2>2, QueueDefinitions DEF Queue!Advance
<1>4. ASSUME NEW j \in JobIds, NEW s \in Status, Finishes(jobs, jobs', j, s),
             newOrigin = origin
      PROVE  Queue!Finish(j, s)
  <2>1. Queue!Jobs({"queued"}) = WithStatus(jobs, "queued")
    BY DEF Queue!Jobs, WithStatus
  <2>2. Cardinality(Queue!Running(newState)) = RunningCount(jobs')
    <3>1. Queue!Running(newState) = WithStatus(jobs', "running")
      BY DEF Queue!Running, WithStatus
    <3> QED BY <3>1 DEF RunningCount
  <2>3. PICK started \in SUBSET WithStatus(jobs, "queued") :
          /\ \A i \in JobIds : jobs'[i].status = IF i = j THEN s
                                                 ELSE IF i \in started THEN "running"
                                                 ELSE jobs[i].status
          /\ started # {} => RunningCount(jobs') <= MaxRunning
          /\ started # WithStatus(jobs, "queued") => RunningCount(jobs') >= MaxRunning
    BY <1>4 DEF Finishes
  <2>4. newState = [i \in JobIds |-> IF i = j THEN s
                                     ELSE IF i \in started THEN "running" ELSE state[i]]
    BY <2>3
  <2>5. state[j] = "running" /\ s \in TransitionTable["running"]
    BY <1>4 DEF Finishes
  <2> QED BY <1>4, <2>1, <2>2, <2>3, <2>4, <2>5, QueueDefinitions DEF Queue!Finish
<1>5. ASSUME NEW gone \in SUBSET JobIds, Retires(jobs, jobs', gone), newOrigin = origin
      PROVE  Queue!Retire(gone)
  <2>1. Queue!Jobs({"succeeded"}) = WithStatus(jobs, "succeeded")
    BY DEF Queue!Jobs, WithStatus
  <2>2. newState = [j \in JobIds |-> IF j \in gone THEN "deleted" ELSE state[j]]
    BY <1>5 DEF Retires
  <2>3. gone \subseteq WithStatus(jobs, "succeeded")
    BY <1>5 DEF Retires
  <2> QED BY <1>5, <2>1, <2>2, <2>3 DEF Queue!Retire
<1> HIDE DEF state, newState, origin, newOrigin
<1> QED BY <1>1, <1>2, <1>3, <1>4, <1>5, QueueDefinitions DEF Commits, Queue!Next

\* Every step of the store is a step of the queue or none, the restart included:
\* nothing is forgotten, slots are refilled, and quotas are kept.
THEOREM StoreImplementsQueue == Spec => ImplementsQueue
<1>1. Init => RankInv /\ Queue!Init
  <2> SUFFICES ASSUME Init PROVE RankInv /\ Queue!Init
    OBVIOUS
  <2>1. \A j \in JobIds : jobs[j].status = "absent" /\ jobs[j].retryOf = None
    BY DEF Init, AbsentJob
  <2>2. Present(jobs) = {}
    BY <2>1 DEF Present
  <2> QED BY <2>1, <2>2 DEF RankInv, Queue!Init
<1>2. StoreInv /\ RankInv /\ [Next]_storeVars => RankInv' /\ [Queue!Next]_(Queue!queueVars)
  <2> SUFFICES ASSUME StoreInv, RankInv, [Next]_storeVars
               PROVE  RankInv' /\ Queue!Next
    OBVIOUS
  <2>1. Commits(jobs, jobs') /\ RankInv'
    BY NextCommits
  <2>2. StoreInv'
    BY NextKeepsInv
  <2>3. jobs \in [JobIds -> JobRecord] /\ jobs' \in [JobIds -> JobRecord]
    BY <2>2 DEF StoreInv, TypeOK
  <2> QED BY <2>1, <2>3, CommitsAreSteps
<1> QED BY <1>1, <1>2, StoreInvariant, PTL DEF Spec, ImplementsQueue, Queue!Spec

-----------------------------------------------------------------------------
(***************************************************************************)
(* The order of promotion.                                                 *)
(***************************************************************************)

\* An operation admits a job at the end of the table, moves one, or moves none but
\* those that it deletes.
LEMMA ServeKinds ==
  ASSUME StoreInv, Serve
  PROVE  \/ \E j \in JobIds, r \in Requests, o \in JobIds \cup {None} :
              jobs[j].status = "absent" /\ Admit(j, r, o)
         \/ /\ UNCHANGED rank
            /\ \E m \in JobIds, s \in Status \ {"queued"} :
                 jobs[m].status # "absent" /\ jobs' = Moved(m, s)
         \/ /\ UNCHANGED rank
            /\ \A i \in JobIds : \/ jobs'[i].status = jobs[i].status
                                 \/ jobs[i].status = "succeeded" /\ jobs'[i].status = "deleted"
<1> DEFINE admits == \E j \in JobIds, r \in Requests, o \in JobIds \cup {None} :
                       jobs[j].status = "absent" /\ Admit(j, r, o)
           moves == /\ UNCHANGED rank
                    /\ \E m \in JobIds, s \in Status \ {"queued"} :
                         jobs[m].status # "absent" /\ jobs' = Moved(m, s)
           rests == /\ UNCHANGED rank
                    /\ \A i \in JobIds :
                         \/ jobs'[i].status = jobs[i].status
                         \/ jobs[i].status = "succeeded" /\ jobs'[i].status = "deleted"
<1>0. jobs \in [JobIds -> JobRecord]
  BY DEF StoreInv, TypeOK
<1>1. ASSUME NEW r \in Requests, Create(r) PROVE admits
  <2>1. JobOf[r] \in JobIds
    BY RequestsAssumption
  <2> QED BY <1>1, <2>1 DEF Create
<1>2. ASSUME NEW j \in JobIds, Retry(j) PROVE admits
  <2>1. PICK k \in Attempts : /\ jobs[RetryId[j][k]].status = "absent"
                              /\ Admit(RetryId[j][k], jobs[j].request, j)
    BY <1>2 DEF Retry
  <2>2. RetryId[j][k] \in JobIds /\ jobs[j].request \in Requests
    BY <1>0, <1>2, RequestsAssumption DEF Retry, JobRecord
  <2> QED BY <2>1, <2>2
<1>3. ASSUME NEW j \in JobIds, Cancel(j) PROVE moves
  <2>1. jobs[j].status \in ActiveStatus
    BY <1>0, <1>3 DEF Cancel, CancelStatus, JobRecord, Status
  <2>2. CancelStatus(jobs[j].status) = "cancelled" /\ "cancelled" \in Status \ {"queued"}
    BY <2>1 DEF CancelStatus, ActiveStatus, SettledStatus, Status
  <2> QED BY <1>3, <2>2 DEF Cancel
<1>4. ASSUME NEW j \in JobIds, NEW s \in Status \ {"deleted"}, UpdateStatus(j, s)
      PROVE  moves
  <2>1. jobs[j].status \in Status
    BY <1>0, <1>4 DEF UpdateStatus, JobRecord
  <2>2. s # "queued"
    BY <1>4, <2>1 DEF UpdateStatus, CanMove, TransitionTable, Status, ActiveStatus,
       SettledStatus
  <2> QED BY <1>4, <2>2 DEF UpdateStatus
<1>5. ASSUME NEW j \in JobIds, NEW n \in Runs, NEW d \in Datasets, NEW c \in Configs,
             RegisterArtifact(j, [run |-> n, dataset |-> d, keyed |-> FALSE],
                              [run |-> n, dataset |-> d, config |-> c])
      PROVE  rests
  <2>1. PICK a, p : jobs' = [jobs EXCEPT ![j].artifacts = a, ![j].provenance = p]
                    /\ UNCHANGED rank
    BY <1>5 DEF RegisterArtifact
  <2> QED BY <1>0, <2>1 DEF JobRecord
<1>6. ASSUME NEW j \in JobIds, NEW n \in Runs, SetStorageKey(j, n) PROVE rests
  <2>1. PICK a : jobs' = [jobs EXCEPT ![j].artifacts = a] /\ UNCHANGED rank
    BY <1>6 DEF SetStorageKey
  <2> QED BY <1>0, <2>1 DEF JobRecord
<1>7. ASSUME NEW gone \in SUBSET JobIds, NEW retain \in BOOLEAN,
             \A j \in gone : jobs[j].status = "succeeded", UNCHANGED rank,
             jobs' = [j \in JobIds |-> IF j \in gone THEN Tombstone(jobs[j], retain) ELSE jobs[j]]
      PROVE  rests
  <2>1. \A rec \in JobRecord : Tombstone(rec, retain).status = "deleted"
    BY DEF Tombstone, JobRecord
  <2> QED BY <1>0, <1>7, <2>1
<1>8. ASSUME NEW j \in JobIds, NEW n \in Runs, DeleteArtifact(j, n) PROVE rests
  <2>1. /\ jobs[j].status = "succeeded" /\ UNCHANGED rank
        /\ jobs' = [jobs EXCEPT ![j] = Tombstone(@, FALSE)]
    BY <1>8 DEF DeleteArtifact
  <2>2. jobs' = [i \in JobIds |-> IF i \in {j} THEN Tombstone(jobs[i], FALSE) ELSE jobs[i]]
    BY <1>0, <2>1
  <2> QED BY <1>7, <2>1, <2>2
<1>9. ASSUME NEW j \in JobIds, EvaluateExpiry(j) PROVE rests
  <2>1. /\ jobs[j].status = "succeeded" /\ UNCHANGED rank
        /\ jobs' = [jobs EXCEPT ![j] = Tombstone(@, TRUE)]
    BY <1>9 DEF EvaluateExpiry, Due
  <2>2. jobs' = [i \in JobIds |-> IF i \in {j} THEN Tombstone(jobs[i], TRUE) ELSE jobs[i]]
    BY <1>0, <2>1
  <2> QED BY <1>7, <2>1, <2>2
<1>10. ASSUME SweepExpired PROVE rests
  <2> DEFINE due == {j \in JobIds : \E n \in Runs : Due(j, n)}
  <2>1. PICK done \in SUBSET due :
          /\ jobs' = [j \in JobIds |-> IF j \in done THEN Tombstone(jobs[j], TRUE) ELSE jobs[j]]
          /\ UNCHANGED rank
    BY <1>10 DEF SweepExpired
  <2>2. \A j \in done : jobs[j].status = "succeeded"
    BY DEF Due
  <2> QED BY <1>7, <2>1, <2>2
<1>11. ASSUME UNCHANGED <<jobs, rank>> PROVE rests
  BY <1>11
<1>12. ASSUME NEW j \in JobIds, NEW n \in Runs, Upload(j, n) \/ Elapse(j, n) PROVE rests
  BY <1>11, <1>12 DEF Upload, Elapse
<1>13. ASSUME NEW j \in JobIds, DeleteAgain(j) PROVE rests
  BY <1>11, <1>13 DEF DeleteAgain
<1> HIDE DEF admits, moves, rests
<1>14. ASSUME NEW j \in JobIds, NEW n \in Runs,
              \/ DeleteArtifact(j, n)
              \/ SetStorageKey(j, n)
              \/ Upload(j, n)
              \/ Elapse(j, n)
              \/ \E d \in Datasets, c \in Configs :
                   RegisterArtifact(j, [run |-> n, dataset |-> d, keyed |-> FALSE],
                                    [run |-> n, dataset |-> d, config |-> c])
       PROVE  rests
  BY <1>5, <1>6, <1>8, <1>12, <1>14
<1>15. ASSUME NEW j \in JobIds,
              \/ Cancel(j)
              \/ Retry(j)
              \/ EvaluateExpiry(j)
              \/ DeleteAgain(j)
              \/ \E s \in Status \ {"deleted"} : UpdateStatus(j, s)
       PROVE  admits \/ moves \/ rests
  BY <1>2, <1>3, <1>4, <1>9, <1>13, <1>15
<1>16. admits \/ moves \/ rests
  <2>1. CASE \E r \in Requests : Create(r)
    BY <1>1, <2>1
  <2>2. CASE SweepExpired
    BY <1>10, <2>2
  <2>3. CASE ~(\E r \in Requests : Create(r)) /\ ~SweepExpired
    BY <1>14, <1>15, <2>3 DEF Serve
  <2> QED BY <2>1, <2>2, <2>3
<1> QED BY <1>16 DEF admits, moves, rests

\* A job that is promoted is before those that wait in the order of the table.
LEMMA PromotedAreFirst ==
  ASSUME NEW js \in [JobIds -> JobRecord], rank \in [JobIds -> Nat],
         NEW j \in Promotable(js), NEW q \in WithStatus(js, "queued") \ Promotable(js)
  PROVE  rank[j] < rank[q]
<1>1. j \in JobIds /\ q \in JobIds /\ rank[j] \in Nat /\ rank[q] \in Nat
  BY DEF Promotable, WithStatus
<1>2. QueuedUpTo(js, j) \in SUBSET JobIds /\ QueuedUpTo(js, q) \in SUBSET JobIds
      /\ WithStatus(js, "running") \in SUBSET JobIds
  BY DEF QueuedUpTo, WithStatus
<1>3. ASSUME rank[q] <= rank[j] PROVE FALSE
  <2>1. \A p \in JobIds : rank[p] \in Nat
    OBVIOUS
  <2>2. QueuedUpTo(js, q) \in SUBSET QueuedUpTo(js, j)
    BY <1>1, <1>3, <2>1 DEF QueuedUpTo, WithStatus
  <2>3. Cardinality(QueuedUpTo(js, q)) <= Cardinality(QueuedUpTo(js, j))
    BY <1>2, <2>2, JobSetsAreFinite, FS_Subset
  <2>4. RunningCount(js) + Cardinality(QueuedUpTo(js, j)) <= MaxRunning
    BY DEF Promotable
  <2>5. /\ Cardinality(QueuedUpTo(js, q)) \in Nat /\ Cardinality(QueuedUpTo(js, j)) \in Nat
        /\ RunningCount(js) \in Nat /\ MaxRunning \in Nat
    BY <1>2, JobSetsAreFinite, LimitsAssumption DEF RunningCount
  <2>6. RunningCount(js) + Cardinality(QueuedUpTo(js, q)) <= MaxRunning
    BY <2>3, <2>4, <2>5
  <2> QED BY <2>6 DEF Promotable
<1> QED BY <1>1, <1>3

\* The jobs that this process has admitted follow in the table those that it has
\* read from the file, and follow each other in the order of their creation.
OrderInv ==
  /\ loaded \subseteq Present(jobs)
  /\ \A j \in Present(jobs) : jobs[j].createdAt < Cardinality(Present(jobs))
  /\ \A j \in loaded : rank[j] < Cardinality(loaded)
                       /\ jobs[j].createdAt < Cardinality(loaded)
  /\ \A j \in Present(jobs) \ loaded : rank[j] = jobs[j].createdAt
                                       /\ Cardinality(loaded) <= rank[j]

\* Jobs that stay at their places keep the order.
LEMMA OrderStays ==
  ASSUME OrderInv, Stable, UNCHANGED <<rank, loaded>>, Present(jobs)' = Present(jobs)
  PROVE  OrderInv'
<1>1. \A j \in Present(jobs) : jobs'[j].createdAt = jobs[j].createdAt
  BY DEF Stable, Evolves
<1>2. Cardinality(Present(jobs))' = Cardinality(Present(jobs))
      /\ Cardinality(loaded)' = Cardinality(loaded)
  OBVIOUS
<1>3. \A j \in Present(jobs)' :
        j \in Present(jobs) /\ rank'[j] = rank[j] /\ jobs'[j].createdAt = jobs[j].createdAt
  BY <1>1
<1>4. loaded' \subseteq Present(jobs)'
  BY DEF OrderInv
<1> QED BY <1>2, <1>3, <1>4 DEF OrderInv

\* A new job is last in the table and the latest of those that it holds.
LEMMA OrderOfNew ==
  ASSUME StoreInv, OrderInv, Stable, UNCHANGED loaded,
         NEW j \in JobIds, NEW r, NEW o, jobs[j].status = "absent", Admit(j, r, o)
  PROVE  OrderInv'
<1> DEFINE end == Cardinality(Present(jobs))
           new == [AbsentJob EXCEPT !.status = "queued", !.request = r, !.retryOf = o,
                                    !.createdAt = end]
<1>1. new.status = "queued" /\ new.createdAt = end
  BY DEF AbsentJob
<1>2. jobs' = [jobs EXCEPT ![j] = new] /\ rank' = [rank EXCEPT ![j] = end]
  BY DEF Admit
<1>3. jobs \in [JobIds -> JobRecord] /\ rank \in [JobIds -> Nat]
  BY DEF StoreInv, TypeOK
<1> HIDE DEF new
<1>4. /\ jobs'[j] = new /\ \A i \in JobIds \ {j} : jobs'[i] = jobs[i]
      /\ rank'[j] = end /\ \A i \in JobIds \ {j} : rank'[i] = rank[i]
  BY <1>2, <1>3
<1>5. Present(jobs)' = Present(jobs) \cup {j} /\ j \notin Present(jobs)
  BY <1>1, <1>4 DEF Present
<1>6. IsFiniteSet(Present(jobs)) /\ end \in Nat
  BY JobSetsAreFinite DEF Present
<1>7. Cardinality(Present(jobs)') = end + 1
  BY <1>5, <1>6, FS_AddElement
<1>8. loaded \subseteq Present(jobs) /\ Cardinality(loaded) <= end
  BY <1>6, FS_Subset DEF OrderInv
<1>9. \A i \in Present(jobs) : /\ i # j /\ i \in JobIds
                               /\ rank'[i] = rank[i]
                               /\ jobs'[i].createdAt = jobs[i].createdAt
                               /\ jobs[i].createdAt < end /\ jobs[i].createdAt \in Nat
  BY <1>3, <1>4, <1>5 DEF OrderInv, Present, JobRecord
<1>10. \A i \in Present(jobs)' : jobs'[i].createdAt < Cardinality(Present(jobs)')
  BY <1>1, <1>4, <1>5, <1>6, <1>7, <1>9
<1>11. j \notin loaded /\ loaded' = loaded
  BY <1>5, <1>8
<1>12. \A i \in loaded' : rank'[i] < Cardinality(loaded')
                          /\ jobs'[i].createdAt < Cardinality(loaded')
  BY <1>8, <1>9, <1>11 DEF OrderInv
<1>13. \A i \in Present(jobs)' \ loaded' : rank'[i] = jobs'[i].createdAt
                                           /\ Cardinality(loaded') <= rank'[i]
  <2>1. \A i \in Present(jobs) \ loaded : rank'[i] = jobs'[i].createdAt
                                          /\ Cardinality(loaded') <= rank'[i]
    BY <1>9, <1>11 DEF OrderInv
  <2>2. rank'[j] = jobs'[j].createdAt /\ Cardinality(loaded') <= rank'[j]
    BY <1>1, <1>4, <1>8, <1>11
  <2> QED BY <1>5, <1>11, <2>1, <2>2
<1> QED BY <1>5, <1>8, <1>10, <1>11, <1>12, <1>13 DEF OrderInv

\* After a restart every job of the table is one that was read from the file.
LEMMA OrderOfRestart ==
  ASSUME StoreInv, OrderInv, Stable, Restart, loaded' = Present(disk)
  PROVE  OrderInv'
<1>1. jobs' = disk /\ rank' = [j \in JobIds |-> Cardinality({i \in Present(disk) : i < j})]
  BY DEF Restart
<1>2. RankInv'
  BY <1>1, RankOfRestart
<1>3. \A j \in JobIds : disk[j].status = jobs[j].status
  BY PersistKeeps DEF StoreInv, TypeOK, DiskIsCurrent
<1>4. Present(jobs)' = Present(jobs) /\ loaded' = Present(jobs)'
  BY <1>1, <1>3 DEF Present
<1>5. \A j \in Present(jobs) : jobs'[j].createdAt = jobs[j].createdAt
                               /\ jobs[j].createdAt < Cardinality(Present(jobs))
  BY DEF Stable, Evolves, OrderInv
<1>6. \A j \in Present(jobs)' : rank'[j] < Cardinality(Present(jobs)')
  BY <1>2 DEF RankInv
<1> QED BY <1>4, <1>5, <1>6 DEF OrderInv

\* OrderInv is inductive beside the invariant of the table.
LEMMA OrderStep ==
  ASSUME StoreInv, OrderInv, [OrderNext]_orderVars
  PROVE  OrderInv'
<1>1. Stable
  BY NextKeepsInv DEF OrderNext, Next, orderVars
<1>2. jobs \in [JobIds -> JobRecord]
  BY DEF StoreInv, TypeOK
<1>3. ASSUME UNCHANGED <<rank, loaded>>, NEW m \in JobIds, NEW s \in Status \ {"queued"},
             jobs[m].status # "absent", jobs' = Moved(m, s)
      PROVE  OrderInv'
  <2>1. Present(Moved(m, s)) = Present(jobs)
    BY <1>2, <1>3, MovePresence
  <2>2. Present(jobs)' = Present(jobs)
    BY <1>3, <2>1 DEF Present
  <2> QED BY <1>1, <1>3, <2>2, OrderStays
<1>4. ASSUME UNCHANGED <<rank, loaded>>,
             \A i \in JobIds : \/ jobs'[i].status = jobs[i].status
                               \/ jobs[i].status = "succeeded" /\ jobs'[i].status = "deleted"
      PROVE  OrderInv'
  <2>1. Present(jobs)' = Present(jobs)
    BY <1>4 DEF Present
  <2> QED BY <1>1, <1>4, <2>1, OrderStays
<1>5. CASE Serve /\ UNCHANGED loaded
  BY <1>1, <1>3, <1>4, <1>5, ServeKinds, OrderOfNew
<1>6. CASE Restart /\ loaded' = Present(disk)
  BY <1>1, <1>6, OrderOfRestart
<1>7. CASE UNCHANGED orderVars
  BY <1>4, <1>7 DEF orderVars, storeVars
<1> QED BY <1>5, <1>6, <1>7 DEF OrderNext

\* A slot that a job leaves goes to the first of the table, and the first is the
\* earliest.
LEMMA PromotedWereCreatedEarlier ==
  ASSUME StoreInv, OrderInv, [OrderNext]_orderVars,
         NEW j \in JobIds, NEW q \in JobIds, NEW i \in JobIds,
         jobs[j].status = "queued", jobs'[j].status = "running",
         jobs[i].status = "running", jobs'[i].status # "running",
         jobs[q].status = "queued", jobs'[q].status = "queued",
         ~({j, q} \subseteq loaded)
  PROVE  jobs[j].createdAt < jobs[q].createdAt
<1>1. jobs \in [JobIds -> JobRecord] /\ rank \in [JobIds -> Nat]
  BY DEF StoreInv, TypeOK
<1>2. Serve
  <2>1. CASE Restart
    <3>1. jobs'[j].status = jobs[j].status
      BY <1>1, <2>1, PersistKeeps DEF Restart, StoreInv, DiskIsCurrent
    <3> QED BY <3>1
  <2>2. CASE UNCHANGED orderVars
    BY <2>2 DEF orderVars, storeVars
  <2> QED BY <2>1, <2>2 DEF OrderNext
<1>3. ASSUME NEW m \in JobIds, NEW s \in Status \ {"queued"}, jobs' = Moved(m, s)
      PROVE  rank[j] < rank[q]
  <2> DEFINE js == [jobs EXCEPT ![m].status = s]
  <2>1. i = m
    BY <1>1, <1>3, MovedEffect
  <2>2. s # "running"
    <3>1. Moved(m, s)[m] = [jobs[m] EXCEPT !.status = s]
      BY <1>1, MovedEffect
    <3>2. [jobs[m] EXCEPT !.status = s].status = s
      BY <1>1 DEF JobRecord
    <3> QED BY <1>3, <2>1, <3>1, <3>2
  <2>3. jobs' = Promote(js)
    BY <1>3, <2>1, <2>2 DEF Moved
  <2>4. js \in [JobIds -> JobRecord] /\ js[j] = jobs[j] /\ js[q] = jobs[q]
    BY <1>1, <2>1 DEF JobRecord
  <2> HIDE DEF js
  <2>5. j \in Promotable(js)
    BY <2>3, <2>4 DEF Promote
  <2>6. q \notin Promotable(js)
    BY <2>3, <2>4 DEF Promote, JobRecord
  <2>7. q \in WithStatus(js, "queued")
    BY <2>4 DEF WithStatus
  <2> QED BY <1>1, <2>4, <2>5, <2>6, <2>7, PromotedAreFirst
<1>4. ASSUME NEW k \in JobIds, NEW r, NEW o, jobs[k].status = "absent", Admit(k, r, o)
      PROVE  FALSE
  <2>1. jobs'[j] = jobs[j]
    BY <1>1, <1>4 DEF Admit
  <2> QED BY <2>1
<1>5. rank[j] < rank[q]
  BY <1>2, <1>3, <1>4, ServeKinds
<1>6. j \in Present(jobs) /\ q \in Present(jobs)
  BY DEF Present
<1>7. /\ rank[j] \in Nat /\ rank[q] \in Nat /\ Cardinality(loaded) \in Nat
      /\ jobs[j].createdAt \in Nat /\ jobs[q].createdAt \in Nat
  <2>1. loaded \in SUBSET JobIds
    BY DEF OrderInv, Present
  <2> QED BY <1>1, <2>1, JobSetsAreFinite DEF JobRecord
<1>8. q \notin loaded
  BY <1>5, <1>6, <1>7 DEF OrderInv
<1>9. rank[q] = jobs[q].createdAt /\ Cardinality(loaded) <= rank[q]
  BY <1>6, <1>8 DEF OrderInv
<1>10. CASE j \in loaded
  BY <1>7, <1>9, <1>10 DEF OrderInv
<1>11. CASE j \notin loaded
  BY <1>5, <1>6, <1>9, <1>11 DEF OrderInv
<1> QED BY <1>10, <1>11

\* The running slot that a job leaves goes to the queued job that was created
\* first, whatever was cancelled, retried, deleted and restarted before; of the
\* jobs read from the file nothing is said but that they precede the others.
THEOREM PromotionFollowsCreation == OrderSpec => PromotionIsFifo
<1> DEFINE Fifo ==
      \A j, q \in JobIds :
        /\ jobs[j].status = "queued" /\ jobs'[j].status = "running"
        /\ \E i \in JobIds : jobs[i].status = "running" /\ jobs'[i].status # "running"
        /\ jobs[q].status = "queued" /\ jobs'[q].status = "queued"
        /\ ~({j, q} \subseteq loaded)
        => jobs[j].createdAt < jobs[q].createdAt
<1>1. OrderInit => StoreInv /\ OrderInv
  <2> SUFFICES ASSUME OrderInit PROVE StoreInv /\ OrderInv
    OBVIOUS
  <2>1. StoreInv
    BY InitEstablishesInv DEF OrderInit
  <2>2. Present(jobs) = {} /\ loaded = {}
    BY DEF OrderInit, Init, AbsentJob, Present
  <2> QED BY <2>1, <2>2 DEF OrderInv
<1>2. StoreInv /\ OrderInv /\ [OrderNext]_orderVars => StoreInv' /\ OrderInv'
  <2> SUFFICES ASSUME StoreInv, OrderInv, [OrderNext]_orderVars PROVE StoreInv' /\ OrderInv'
    OBVIOUS
  <2>1. [Next]_storeVars
    BY DEF OrderNext, Next, orderVars
  <2> QED BY <2>1, NextKeepsInv, OrderStep
<1>3. StoreInv /\ OrderInv /\ [OrderNext]_orderVars => [Fifo]_orderVars
  BY PromotedWereCreatedEarlier
<1>4. PromotionIsFifo <=> [][Fifo]_orderVars
  BY DEF PromotionIsFifo
<1> HIDE DEF Fifo
<1> QED BY <1>1, <1>2, <1>3, <1>4, PTL DEF OrderSpec
=============================================================================
