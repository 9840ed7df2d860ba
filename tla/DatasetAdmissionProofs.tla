----------------------- MODULE DatasetAdmissionProofs -----------------------
(***************************************************************************)
(* Proofs about DatasetAdmission for every value of its constants: what    *)
(* the table of jobs, which outlives the process, owes to the dataset      *)
(* store, which does not.                                                  *)
(***************************************************************************)
EXTENDS DatasetAdmission, JobStoreProofs

-----------------------------------------------------------------------------
(***************************************************************************)
(* The dataset store takes no approval back.                               *)
(***************************************************************************)
Fields(rec) == \E S, R, H : rec \in [status: S, reason: R, shape: H]

\* What the updates of the dataset store make of a record.
LEMMA RecordUpdates ==
  ASSUME NEW rec, Fields(rec), NEW s, NEW r, NEW h
  PROVE  /\ Fields([rec EXCEPT !.status = s])
         /\ [rec EXCEPT !.status = s].status = s
         /\ Fields([rec EXCEPT !.status = s, !.reason = r])
         /\ Fields([rec EXCEPT !.status = s, !.shape = h])
         /\ [rec EXCEPT !.status = s, !.shape = h].status = s
<1>1. PICK S, R, H : rec \in [status: S, reason: R, shape: H]
  BY DEF Fields
<1>2. PICK S2, R2, H2 : S2 = S \cup {s} /\ R2 = R \cup {r} /\ H2 = H \cup {h}
  OBVIOUS
<1>3. /\ [rec EXCEPT !.status = s] \in [status: S2, reason: R2, shape: H2]
      /\ [rec EXCEPT !.status = s].status = s
  BY <1>1, <1>2
<1>4. [rec EXCEPT !.status = s, !.reason = r] \in [status: S2, reason: R2, shape: H2]
  BY <1>1, <1>2
<1>5. /\ [rec EXCEPT !.status = s, !.shape = h] \in [status: S2, reason: R2, shape: H2]
      /\ [rec EXCEPT !.status = s, !.shape = h].status = s
  BY <1>1, <1>2
<1> QED BY <1>3, <1>4, <1>5 DEF Fields

\* The dataset store has a record of every id.
DatasetsInv ==
  /\ datasets = [d \in DatasetIds |-> datasets[d]]
  /\ \A d \in DatasetIds : Fields(datasets[d])

\* A new process has forgotten the reviews and knows the fixtures.
Forgotten ==
  [d \in DatasetIds |->
     IF d \in FixtureIds THEN [DS!UnknownDataset EXCEPT !.status = "approved"]
     ELSE DS!UnknownDataset]

LEMMA ForgottenDatasets ==
  /\ Fields(DS!UnknownDataset)
  /\ \A d \in DatasetIds : /\ Fields(Forgotten[d])
                           /\ Forgotten[d].status = "approved" => d \in FixtureIds
  /\ Forgotten = [d \in DatasetIds |-> Forgotten[d]]
<1>1. Fields(DS!UnknownDataset) /\ DS!UnknownDataset.status = "unknown"
  <2>1. DS!UnknownDataset \in [status: {"unknown"}, reason: {NoReason},
                               shape: {DS!DefaultShape}]
    BY DEF DS!UnknownDataset
  <2> QED BY <2>1 DEF Fields
<1>2. Fields([DS!UnknownDataset EXCEPT !.status = "approved"])
  BY <1>1, RecordUpdates
<1> QED BY <1>1, <1>2 DEF Forgotten

\* The record of one dataset is replaced; an approved one by an approved one.
LEMMA ReviewOfOne ==
  ASSUME DatasetsInv, NEW d \in DatasetIds, NEW rec, Fields(rec),
         datasets' = [datasets EXCEPT ![d] = rec],
         datasets[d].status = "approved" => rec.status = "approved"
  PROVE  DatasetsInv' /\ \A e \in DatasetIds : DS!Approved(e) => DS!Approved(e)'
<1>1. datasets'[d] = rec /\ \A e \in DatasetIds \ {d} : datasets'[e] = datasets[e]
  BY DEF DatasetsInv
<1>2. datasets' = [e \in DatasetIds |-> datasets'[e]]
  BY DEF DatasetsInv
<1>3. \A e \in DatasetIds : Fields(datasets'[e])
  BY <1>1 DEF DatasetsInv
<1>4. \A e \in DatasetIds : DS!Approved(e) => DS!Approved(e)'
  BY <1>1 DEF DS!Approved
<1> QED BY <1>2, <1>3, <1>4 DEF DatasetsInv

LEMMA ReviewKeepsApprovals ==
  ASSUME DatasetsInv, DS!Review
  PROVE  DatasetsInv' /\ \A d \in DatasetIds : DS!Approved(d) => DS!Approved(d)'
<1> DEFINE Kept == DatasetsInv' /\ \A d \in DatasetIds : DS!Approved(d) => DS!Approved(d)'
<1>1. \A d \in DatasetIds : Fields(datasets[d])
  BY DEF DatasetsInv
<1>2. ASSUME NEW d \in DatasetIds, NEW shape, DS!Register(d, shape) PROVE Kept
  <2>1. PICK rec : rec = [DS!UnknownDataset EXCEPT !.status = "registered", !.shape = shape]
    OBVIOUS
  <2>2. datasets' = [datasets EXCEPT ![d] = rec] /\ datasets[d].status = "unknown"
    BY <1>2, <2>1 DEF DS!Register
  <2>3. Fields(rec)
    BY <2>1, ForgottenDatasets, RecordUpdates
  <2> QED BY <2>2, <2>3, ReviewOfOne
<1>3. ASSUME NEW d \in DatasetIds, DS!Submit(d) PROVE Kept
  <2>1. PICK s, r : datasets' = [datasets EXCEPT ![d].status = s, ![d].reason = r]
    BY <1>3 DEF DS!Submit
  <2>2. PICK rec : rec = [datasets[d] EXCEPT !.status = s, !.reason = r]
    OBVIOUS
  <2>3. datasets' = [datasets EXCEPT ![d] = rec]
    BY <2>1, <2>2 DEF DatasetsInv
  <2>4. datasets[d].status # "approved"
    BY <1>3 DEF DS!Submit, DS!CanReview, DS!DatasetTransitions
  <2>5. Fields(rec)
    BY <1>1, <2>2, RecordUpdates
  <2> QED BY <2>3, <2>4, <2>5, ReviewOfOne
<1>4. ASSUME NEW d \in DatasetIds, DS!Approve(d) PROVE Kept
  <2>1. PICK rec : rec = [datasets[d] EXCEPT !.status = "approved"]
    OBVIOUS
  <2>2. datasets' = [datasets EXCEPT ![d] = rec]
    BY <1>4, <2>1 DEF DS!Approve, DatasetsInv
  <2>3. Fields(rec) /\ rec.status = "approved"
    BY <1>1, <2>1, RecordUpdates
  <2> QED BY <2>2, <2>3, ReviewOfOne
<1>5. ASSUME NEW d \in DatasetIds, NEW reason, DS!Reject(d, reason) PROVE Kept
  <2>1. datasets[d].status # "approved"
    BY <1>5 DEF DS!Reject, DS!CanReview, DS!DatasetTransitions
  <2>2. CASE datasets' = datasets
    BY <2>2 DEF DatasetsInv, DS!Approved
  <2>3. CASE datasets' # datasets
    <3>1. PICK rec : rec = [datasets[d] EXCEPT !.status = "rejected", !.reason = reason]
      OBVIOUS
    <3>2. datasets' = [datasets EXCEPT ![d].status = "rejected", ![d].reason = reason]
      BY <1>5, <2>3 DEF DS!Reject
    <3>3. datasets' = [datasets EXCEPT ![d] = rec]
      BY <3>1, <3>2 DEF DatasetsInv
    <3>4. Fields(rec)
      BY <1>1, <3>1, RecordUpdates
    <3> QED BY <2>1, <3>3, <3>4, ReviewOfOne
  <2> QED BY <2>2, <2>3
<1> HIDE DEF Kept
<1>6. Kept
  BY <1>2, <1>3, <1>4, <1>5 DEF DS!Review
<1> QED BY <1>6 DEF Kept

-----------------------------------------------------------------------------
(***************************************************************************)
(* The inductive invariant: the jobs of this process are in its table, the *)
(* approvals that stand are remembered, and so are the fixtures, which the *)
(* next process approves without a review.                                 *)
(***************************************************************************)
AdmissionInv ==
  /\ StoreInv
  /\ DatasetsInv
  /\ native \subseteq Present(jobs)
  /\ FixtureIds \subseteq everApproved
  /\ \A d \in DatasetIds : DS!Approved(d) => d \in everApproved
  /\ JobsKeepTheirApproval
  /\ JobsWereApprovedOnce

\* A new job on a dataset that is approved, or the retry of a job in the table.
LEMMA AdmissionOfOne ==
  ASSUME AdmissionInv, StoreInv', NEW j \in JobIds, NEW r \in Requests,
         NEW o \in JobIds \cup {None},
         jobs[j].status = "absent", Admit(j, r, o), UNCHANGED <<datasets, everApproved>>,
         native' \subseteq native \cup {j},
         DatasetOf[r] \in everApproved,
         j \in native' => DS!Approved(DatasetOf[r])
  PROVE  AdmissionInv'
<1> DEFINE new == [AbsentJob EXCEPT !.status = "queued", !.request = r, !.retryOf = o,
                                    !.createdAt = Cardinality(Present(jobs))]
<1>1. jobs \in [JobIds -> JobRecord]
  BY DEF AdmissionInv, StoreInv, TypeOK
<1>2. new.status = "queued" /\ new.request = r
  BY DEF AbsentJob
<1>3. jobs' = [jobs EXCEPT ![j] = new]
  BY DEF Admit
<1> HIDE DEF new
<1>4. jobs'[j].status = "queued" /\ jobs'[j].request = r
      /\ \A i \in JobIds \ {j} : jobs'[i] = jobs[i]
  BY <1>1, <1>2, <1>3
<1>5. Present(jobs)' = Present(jobs) \cup {j}
  BY <1>4 DEF Present
<1>6. native' \subseteq Present(jobs)'
  BY <1>5 DEF AdmissionInv
<1>7. JobsKeepTheirApproval'
  <2> SUFFICES ASSUME NEW i \in native', jobs'[i].request # None
               PROVE  datasets[DatasetOf[jobs'[i].request]].status = "approved"
    BY DEF JobsKeepTheirApproval, DS!Approved
  <2>1. CASE i = j
    BY <1>4, <2>1 DEF DS!Approved
  <2>2. CASE i # j
    <3>1. i \in native /\ i \in JobIds
      BY <2>2 DEF AdmissionInv, Present
    <3>2. jobs'[i] = jobs[i]
      BY <1>4, <2>2, <3>1
    <3>3. datasets[DatasetOf[jobs[i].request]].status = "approved"
      BY <3>1, <3>2 DEF AdmissionInv, JobsKeepTheirApproval, DS!Approved
    <3> QED BY <3>2, <3>3
  <2> QED BY <2>1, <2>2
<1>8. JobsWereApprovedOnce'
  BY <1>4, <1>5 DEF AdmissionInv, JobsWereApprovedOnce, Present
<1>9. DatasetsInv' /\ \A d \in DatasetIds : DS!Approved(d)' => d \in everApproved'
  BY DEF AdmissionInv, DatasetsInv, DS!Approved
<1> QED BY <1>6, <1>7, <1>8, <1>9 DEF AdmissionInv

\* What clients, workers and restarts do to the jobs keeps their requests.
LEMMA RequestsStay ==
  ASSUME AdmissionInv, StoreInv',
         \A i \in JobIds : /\ jobs'[i].request \in {jobs[i].request, None}
                           /\ jobs'[i].status = "absent" <=> jobs[i].status = "absent",
         UNCHANGED everApproved,
         UNCHANGED <<datasets, native>> \/ (datasets' = Forgotten /\ native' = {})
  PROVE  AdmissionInv'
<1>1. Present(jobs)' = Present(jobs)
  BY DEF Present
<1>2. native' \subseteq Present(jobs)'
  BY <1>1 DEF AdmissionInv
<1>3. JobsWereApprovedOnce'
  BY <1>1 DEF AdmissionInv, JobsWereApprovedOnce, Present
<1>4. JobsKeepTheirApproval'
  BY DEF AdmissionInv, JobsKeepTheirApproval, Present, DS!Approved
<1>5. DatasetsInv' /\ \A d \in DatasetIds : DS!Approved(d)' => d \in everApproved'
  <2>1. CASE datasets' = Forgotten
    BY <2>1, ForgottenDatasets DEF AdmissionInv, DatasetsInv, DS!Approved
  <2>2. CASE datasets' = datasets
    BY <2>2 DEF AdmissionInv, DatasetsInv, DS!Approved
  <2> QED BY <2>1, <2>2
<1> QED BY <1>2, <1>3, <1>4, <1>5 DEF AdmissionInv

\* A move keeps every request.
LEMMA MovesKeepRequests ==
  ASSUME jobs \in [JobIds -> JobRecord], NEW j \in JobIds, NEW s \in Status \ {"queued"},
         jobs[j].status # "absent", jobs' = Moved(j, s)
  PROVE  \A i \in JobIds : /\ jobs'[i].request = jobs[i].request
                           /\ jobs'[i].status = "absent" <=> jobs[i].status = "absent"
<1>1. /\ jobs'[j] = [jobs[j] EXCEPT !.status = s]
      /\ \A i \in JobIds \ {j} : \/ jobs'[i] = jobs[i]
                                 \/ jobs'[i] = [jobs[i] EXCEPT !.status = "running"]
  BY MovedEffect
<1>2. \A i \in JobIds : /\ [jobs[i] EXCEPT !.status = s].request = jobs[i].request
                        /\ [jobs[i] EXCEPT !.status = "running"].request = jobs[i].request
  BY DEF JobRecord
<1>3. Present(jobs') = Present(jobs)
  BY MovePresence
<1>4. \A i \in JobIds : jobs'[i].status = "absent" <=> jobs[i].status = "absent"
  BY <1>3 DEF Present
<1>5. ASSUME NEW i \in JobIds PROVE jobs'[i].request = jobs[i].request
  <2>1. CASE i = j
    BY <1>1, <1>2, <2>1
  <2>2. CASE i # j
    BY <1>1, <1>2, <2>2
  <2> QED BY <2>1, <2>2
<1>6. ASSUME NEW i \in JobIds
      PROVE  jobs'[i].status = "absent" <=> jobs[i].status = "absent"
  BY <1>4
<1> QED BY <1>5, <1>6

LEMMA AdmissionStep ==
  ASSUME AdmissionInv, [AdmissionNext]_vars
  PROVE  AdmissionInv'
<1>0. StoreInv /\ jobs \in [JobIds -> JobRecord]
  BY DEF AdmissionInv, StoreInv, TypeOK
<1>1. ASSUME NEW r \in Requests, CreateApproved(r) PROVE AdmissionInv'
  <2>1. /\ JobOf[r] \in JobIds /\ DatasetOf[r] \in DatasetIds
        /\ DS!Approved(DatasetOf[r]) /\ Create(r) /\ native' = native \cup {JobOf[r]}
        /\ UNCHANGED <<datasets, everApproved>>
    BY <1>1, RequestsAssumption, DatasetOfAssumption DEF CreateApproved
  <2>2. jobs[JobOf[r]].status = "absent" /\ Admit(JobOf[r], r, None)
    BY <2>1 DEF Create
  <2>3. StoreInv'
    BY <1>0, <2>1, CreateStep
  <2>4. DatasetOf[r] \in everApproved
    BY <2>1 DEF AdmissionInv
  <2> QED BY <2>1, <2>2, <2>3, <2>4, AdmissionOfOne
<1>2. ASSUME NEW j \in JobIds, RetryJob(j) PROVE AdmissionInv'
  <2>1. /\ Retry(j) /\ UNCHANGED <<datasets, everApproved>>
        /\ native' = native \cup {k \in Present(jobs') \ Present(jobs) : j \in native}
    BY <1>2 DEF RetryJob
  <2>2. PICK k \in Attempts : /\ jobs[RetryId[j][k]].status = "absent"
                              /\ Admit(RetryId[j][k], jobs[j].request, j)
    BY <2>1 DEF Retry
  <2>3. /\ RetryId[j][k] \in JobIds /\ jobs[j].request \in Requests /\ j \in Present(jobs)
    BY <1>0, <2>1, RequestsAssumption DEF Retry, Retryable, Present, JobRecord
  <2>4. StoreInv'
    BY <1>0, <2>1, RetryStep
  <2>5. Present(jobs') \ Present(jobs) \subseteq {RetryId[j][k]}
    BY <1>0, <2>2, <2>3 DEF Admit, Present
  <2>6. RetryId[j][k] \in native' => DS!Approved(DatasetOf[jobs[j].request])
    <3>1. RetryId[j][k] \notin native
      BY <2>2 DEF AdmissionInv, Present
    <3>2. j \in native => DS!Approved(DatasetOf[jobs[j].request])
      BY <2>3, NoneAssumption DEF AdmissionInv, JobsKeepTheirApproval
    <3> QED BY <2>1, <3>1, <3>2
  <2>7. DatasetOf[jobs[j].request] \in everApproved
    BY <2>3, NoneAssumption DEF AdmissionInv, JobsWereApprovedOnce
  <2>8. native' \subseteq native \cup {RetryId[j][k]}
    BY <2>1, <2>5
  <2> QED BY <2>1, <2>2, <2>3, <2>4, <2>6, <2>7, <2>8, AdmissionOfOne
<1>3. ASSUME NEW j \in JobIds, MoveJob(j) PROVE AdmissionInv'
  <2>1. /\ Cancel(j) \/ \E s \in {"running", "succeeded", "failed"} : UpdateStatus(j, s)
        /\ UNCHANGED <<datasets, everApproved, native>>
    BY <1>3 DEF MoveJob, admissionVars
  <2>2. {"running", "succeeded", "failed"} \subseteq Status \ {"deleted", "queued"}
        /\ "cancelled" \in Status \ {"queued"}
    BY DEF Status, ActiveStatus, SettledStatus
  <2>3. StoreInv'
    BY <1>0, <2>1, <2>2, CancelStep, UpdateStatusStep
  <2>4. PICK s \in Status \ {"queued"} : jobs[j].status # "absent" /\ jobs' = Moved(j, s)
    <3>1. CASE Cancel(j)
      <4>1. CancelStatus(jobs[j].status) = "cancelled" /\ jobs[j].status # "absent"
            /\ jobs' = Moved(j, CancelStatus(jobs[j].status))
        BY <3>1 DEF Cancel, CancelStatus
      <4> QED BY <2>2, <4>1
    <3>2. CASE ~Cancel(j)
      BY <2>1, <2>2, <3>2 DEF UpdateStatus
    <3> QED BY <3>1, <3>2
  <2>5. \A i \in JobIds : /\ jobs'[i].request = jobs[i].request
                          /\ jobs'[i].status = "absent" <=> jobs[i].status = "absent"
    BY <1>0, <2>4, MovesKeepRequests
  <2> QED BY <2>1, <2>3, <2>5, RequestsStay
<1>4. CASE ReviewDataset
  <2>1. /\ DS!Review /\ UNCHANGED <<storeVars, native>>
        /\ everApproved' = everApproved \cup {d \in DatasetIds : datasets'[d].status = "approved"}
    BY <1>4 DEF ReviewDataset
  <2>2. DatasetsInv' /\ \A d \in DatasetIds : DS!Approved(d) => DS!Approved(d)'
    BY <2>1, ReviewKeepsApprovals DEF AdmissionInv
  <2>3. StoreInv' /\ UNCHANGED jobs
    BY <1>0, <2>1, NextKeepsInv DEF storeVars
  <2>4. \A d \in DatasetIds : DS!Approved(d)' => d \in everApproved'
    BY <2>1 DEF DS!Approved
  <2>5. JobsKeepTheirApproval'
    <3> SUFFICES ASSUME NEW j \in native, jobs[j].request # None
                 PROVE  datasets'[DatasetOf[jobs[j].request]].status = "approved"
      BY <2>1, <2>3 DEF JobsKeepTheirApproval, DS!Approved
    <3>1. jobs[j].request \in Requests
      BY <1>0 DEF AdmissionInv, Present, JobRecord
    <3>2. DatasetOf[jobs[j].request] \in DatasetIds
      BY <3>1, DatasetOfAssumption
    <3>3. DS!Approved(DatasetOf[jobs[j].request])
      BY DEF AdmissionInv, JobsKeepTheirApproval
    <3> QED BY <2>2, <3>2, <3>3 DEF DS!Approved
  <2>6. JobsWereApprovedOnce' /\ native' \subseteq Present(jobs)'
        /\ FixtureIds \subseteq everApproved'
    BY <2>1, <2>3 DEF AdmissionInv, JobsWereApprovedOnce, Present
  <2> QED BY <2>2, <2>3, <2>4, <2>5, <2>6 DEF AdmissionInv
<1>5. CASE RestartBoth
  <2>1. Restart /\ datasets' = Forgotten /\ native' = {} /\ UNCHANGED everApproved
    BY <1>5 DEF RestartBoth, Forgotten
  <2>2. StoreInv'
    BY <1>0, <2>1, RestartStep
  <2>3. \A i \in JobIds : jobs'[i] = Persist(jobs[i])
    BY <1>0, <2>1 DEF Restart, StoreInv, DiskIsCurrent
  <2>4. \A i \in JobIds : /\ jobs'[i].request = jobs[i].request
                          /\ jobs'[i].status = "absent" <=> jobs[i].status = "absent"
    BY <1>0, <2>3, PersistKeeps
  <2> QED BY <2>1, <2>2, <2>4, RequestsStay
<1>6. CASE UNCHANGED vars
  <2>1. UNCHANGED <<storeVars, datasets, everApproved, native>>
    BY <1>6 DEF vars, admissionVars
  <2>2. StoreInv' /\ UNCHANGED jobs
    BY <1>0, <2>1, NextKeepsInv DEF storeVars
  <2> QED BY <2>1, <2>2, RequestsStay
<1> QED BY <1>1, <1>2, <1>3, <1>4, <1>5, <1>6 DEF AdmissionNext

\* Jobs, datasets and the approvals that join them agree at all times.
THEOREM AdmissionInvariant == AdmissionSpec => []AdmissionInv
<1>1. AdmissionInit => AdmissionInv
  <2> SUFFICES ASSUME AdmissionInit PROVE AdmissionInv
    OBVIOUS
  <2>1. /\ Init /\ datasets = Forgotten /\ everApproved = FixtureIds /\ native = {}
    BY DEF AdmissionInit, DS!Init, Forgotten
  <2>2. StoreInv
    BY <2>1, InitEstablishesInv
  <2>3. Present(jobs) = {}
    BY <2>1 DEF Init, Present, AbsentJob
  <2> QED BY <2>1, <2>2, <2>3, ForgottenDatasets DEF AdmissionInv, DatasetsInv, DS!Approved,
          JobsKeepTheirApproval, JobsWereApprovedOnce
<1>2. AdmissionInv /\ [AdmissionNext]_vars => AdmissionInv'
  BY AdmissionStep
<1> QED BY <1>1, <1>2, PTL DEF AdmissionSpec

\* retry_training_job() need not ask for the approval again: within the process
\* that created the original, the dataset is still approved.
THEOREM RetriesNeedNoReview == AdmissionSpec => []JobsKeepTheirApproval
<1>1. AdmissionInv => JobsKeepTheirApproval
  BY DEF AdmissionInv
<1> QED BY <1>1, AdmissionInvariant, PTL

\* No restart lets a job in that trains on data nobody has approved.
THEOREM OnlyApprovedData == AdmissionSpec => []JobsWereApprovedOnce
<1>1. AdmissionInv => JobsWereApprovedOnce
  BY DEF AdmissionInv
<1> QED BY <1>1, AdmissionInvariant, PTL
=============================================================================
