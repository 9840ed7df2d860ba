-------------------------- MODULE DatasetAdmission --------------------------
(***************************************************************************)
(* The two stores behind TrainingApiService together: jobs are persisted,  *)
(* datasets are not.  create_training_job() asks the dataset store before  *)
(* it admits a job, retry_training_job() does not.                         *)
(***************************************************************************)
EXTENDS JobStore

CONSTANTS
  DatasetIds, FixtureIds, MinRows, MaxRows, RowCounts, NoReason,
  DatasetOf     \* the dataset of a request

ASSUME DatasetOfAssumption == DatasetOf \in [Requests -> DatasetIds]

VARIABLES
  datasets,     \* the dataset store of the process
  everApproved, \* history: the datasets that some process has approved
  native        \* history: jobs created by this process, and retries of them

DS == INSTANCE DatasetReview

admissionVars == <<datasets, everApproved, native>>

vars == <<storeVars, admissionVars>>

AdmissionInit ==
  /\ Init
  /\ DS!Init
  /\ everApproved = FixtureIds
  /\ native = {}

\* Faulty variant: the approval is not asked for.
CreateUnapproved(r) ==
  /\ Create(r)
  /\ native' = native \cup {JobOf[r]}
  /\ UNCHANGED <<datasets, everApproved>>

\* create_training_job()
CreateApproved(r) ==
  /\ DS!Approved(DatasetOf[r])
  /\ Create(r)
  /\ native' = native \cup {JobOf[r]}
  /\ UNCHANGED <<datasets, everApproved>>

\* retry_training_job()
RetryJob(j) ==
  /\ Retry(j)
  /\ native' = native \cup {k \in Present(jobs') \ Present(jobs) : j \in native}
  /\ UNCHANGED <<datasets, everApproved>>

\* What clients and workers do to the jobs otherwise.
MoveJob(j) ==
  /\ \/ Cancel(j)
     \/ \E s \in {"running", "succeeded", "failed"} : UpdateStatus(j, s)
  /\ UNCHANGED admissionVars

ReviewDataset ==
  /\ DS!Review
  /\ everApproved' = everApproved \cup {d \in DatasetIds : datasets'[d].status = "approved"}
  /\ UNCHANGED <<storeVars, native>>

\* A new process loads the jobs and starts with a new DatasetStore.
RestartBoth ==
  /\ Restart
  /\ datasets' = [d \in DatasetIds |->
                    IF d \in FixtureIds THEN [DS!UnknownDataset EXCEPT !.status = "approved"]
                    ELSE DS!UnknownDataset]
  /\ native' = {}
  /\ UNCHANGED everApproved

AdmissionNext ==
  \/ \E r \in Requests : CreateApproved(r)
  \/ \E j \in JobIds : RetryJob(j) \/ MoveJob(j)
  \/ ReviewDataset
  \/ RestartBoth

AdmissionSpec == AdmissionInit /\ [][AdmissionNext]_vars

\* The dataset of a job that this process has created, and of every retry of it,
\* is approved for as long as the process lives: an approval is not taken back,
\* so that retry_training_job() need not ask for it again.
JobsKeepTheirApproval ==
  \A j \in native :
    jobs[j].request # None => DS!Approved(DatasetOf[jobs[j].request])

\* No job of the table, a retry in a later process that has forgotten the reviews
\* included, is on a dataset that was never approved.
JobsWereApprovedOnce ==
  \A j \in Present(jobs) :
    jobs[j].request # None => DatasetOf[jobs[j].request] \in everApproved

\* Claim: a job enters the table only while its dataset is approved.
OnlyApprovedAreAdmitted ==
  [][\A j \in JobIds :
       jobs[j].status = "absent" /\ jobs'[j].status # "absent"
         => DS!Approved(DatasetOf[jobs'[j].request])]_vars
=============================================================================
