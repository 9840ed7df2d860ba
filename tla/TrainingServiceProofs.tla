----------------------- MODULE TrainingServiceProofs ------------------------
(***************************************************************************)
(* Proofs about TrainingService for every value of its constants.          *)
(***************************************************************************)
EXTENDS TrainingService, JobStoreProofs

-----------------------------------------------------------------------------
(***************************************************************************)
(* Lemmas about sets and operators.                                        *)
(***************************************************************************)

\* The artifact that a call uploads next is one of those it has yet to upload.
LEMMA NextUploadIsListed ==
  ASSUME uploads \in [Calls -> SUBSET Runs], NEW c \in Calls, uploads[c] # {}
  PROVE  NextUpload(c) \in uploads[c] /\ NextUpload(c) \in Runs
<1>1. uploads[c] \in SUBSET Nat
  BY CallsAssumption
<1>2. \E n \in uploads[c] : \A m \in uploads[c] : n <= m
  BY <1>1, LeastOfNat
<1> QED BY <1>2 DEF NextUpload

-----------------------------------------------------------------------------
(***************************************************************************)
(* Every step of the service is a step of the store.                       *)
(***************************************************************************)
CallsTypeOK ==
  /\ stage \in [Calls -> Stage]
  /\ target \in [Calls -> JobIds \cup {None}]
  /\ uploads \in [Calls -> SUBSET Runs]
  /\ permits \in Nat
  /\ tarballs \subseteq GpuJobs

\* A call that has begun works on a job of the table: nothing takes it out.
CallsHaveJobs == \A c \in Calls : stage[c] # "idle" => target[c] \in Present(jobs)

LEMMA WorkerMovesTheStore ==
  ASSUME NEW c \in Calls, target[c] \in JobIds,
         NEW from, NEW next, NEW s \in {"running", "failed", "succeeded"},
         WorkerMoves(c, from, s, next)
  PROVE  [Next]_storeVars
<1>1. CASE UpdateStatus(target[c], s)
  BY <1>1 DEF Next, Serve, Status, ActiveStatus, SettledStatus
<1>2. CASE UNCHANGED storeVars
  BY <1>2
<1> QED BY <1>1, <1>2 DEF WorkerMoves

LEMMA WorkMovesTheStore ==
  ASSUME StoreInv, CallsTypeOK, CallsHaveJobs, NEW c \in Calls, Work(c)
  PROVE  [Next]_storeVars
<1>1. target[c] \in JobIds
  BY DEF Work, CallsHaveJobs, Present
<1>2. CASE MarkRunning(c)
  BY <1>1, <1>2, WorkerMovesTheStore DEF MarkRunning
<1>3. CASE TrainingFails(c)
  <2>1. PICK from \in {"training", "writing", "trained"} :
          WorkerMoves(c, from, "failed", "releasing")
    BY <1>3 DEF TrainingFails
  <2> QED BY <1>1, <2>1, WorkerMovesTheStore
<1>4. CASE Succeed(c)
  BY <1>1, <1>4, WorkerMovesTheStore DEF Succeed
<1>5. CASE Register(c)
  <2> DEFINE j == target[c]
             n == BundleOf(c)
             hashes == IF j \in GpuJobs THEN Datasets ELSE {FixtureDataset}
  <2>1. n \in Runs
    BY CallsAssumption DEF BundleOf
  <2>2. hashes \subseteq Datasets
    BY CallsAssumption
  <2>3. \/ UNCHANGED storeVars
        \/ \E d \in hashes, k \in Configs :
             RegisterArtifact(j, [run |-> n, dataset |-> d, keyed |-> FALSE],
                              [run |-> n, dataset |-> d, config |-> k])
    BY <1>5 DEF Register
  <2> HIDE DEF n, hashes
  <2> QED BY <1>1, <2>1, <2>2, <2>3 DEF Next, Serve
<1>6. CASE Send(c)
  <2>1. NextUpload(c) \in Runs
    BY <1>6, NextUploadIsListed DEF Send, CallsTypeOK
  <2> QED BY <1>1, <1>6, <2>1 DEF Send, Next, Serve
<1>7. CASE RecordKey(c)
  <2> DEFINE n == NextUpload(c)
  <2>1. CASE UNCHANGED storeVars
    BY <2>1
  <2>2. CASE HasRun(jobs[target[c]], n) /\ SetStorageKey(target[c], n)
    <3>1. n \in Runs
      BY <1>1, <2>2 DEF StoreInv, TypeOK, JobRecord, Artifact, HasRun
    <3> HIDE DEF n
    <3> QED BY <1>1, <2>2, <3>1 DEF Next, Serve
  <2> QED BY <1>7, <2>1, <2>2 DEF RecordKey
<1>8. CASE \/ CheckActive(c) \/ Acquire(c) \/ AcquireTimesOut(c) \/ Dispatch(c)
           \/ BeginTraining(c) \/ FinishTraining(c) \/ Build(c) \/ BeginUpload(c)
           \/ SendFails(c) \/ EndUpload(c) \/ Release(c)
  BY <1>8 DEF CheckActive, Acquire, AcquireTimesOut, Dispatch, BeginTraining,
     FinishTraining, Build, BeginUpload, SendFails, EndUpload, Release, storeVars
<1> QED BY <1>2, <1>3, <1>4, <1>5, <1>6, <1>7, <1>8 DEF Work

LEMMA PostMovesTheStore ==
  ASSUME NEW c \in Calls, Post(c)
  PROVE  [Next]_storeVars
BY DEF Post, PostNew, PostReplay, PostRetry, Next, Serve

LEMMA EnvironmentMovesTheStore ==
  ASSUME Environment
  PROVE  [Next]_storeVars
BY DEF Environment, CancelTrainingJob, Delete, Read, RetentionEnds, Sweep, RestartServer,
       Next, Serve

LEMMA ServiceMovesTheStore ==
  ASSUME StoreInv, CallsTypeOK, CallsHaveJobs, [ServiceNext]_vars
  PROVE  [Next]_storeVars
BY WorkMovesTheStore, PostMovesTheStore, EnvironmentMovesTheStore
   DEF ServiceNext, vars, storeVars

-----------------------------------------------------------------------------
(***************************************************************************)
(* What the steps do to the calls and to the permits.                      *)
(***************************************************************************)

\* Work on a call moves that call alone, keeps the job it works on, and takes or
\* gives back a permit exactly when the call begins or ceases to hold one.
CallMoves(c) ==
  /\ target' = target
  /\ uploads' \in [Calls -> SUBSET Runs]
  /\ tarballs' \subseteq GpuJobs
  /\ \E to \in Stage \ {"idle"} :
       /\ stage' = [stage EXCEPT ![c] = to]
       /\ \/ (stage[c] \in Holding <=> to \in Holding) /\ permits' = permits
          \/ stage[c] \notin Holding /\ to \in Holding /\ permits > 0 /\ permits' = permits - 1
          \/ stage[c] \in Holding /\ to \notin Holding /\ permits' = permits + 1

LEMMA GotoMoves ==
  ASSUME CallsTypeOK, NEW c \in Calls, NEW from, NEW to \in Stage \ {"idle"},
         from \in Holding <=> to \in Holding, Goto(c, from, to)
  PROVE  CallMoves(c)
BY DEF Goto, CallMoves, CallsTypeOK

LEMMA WorkerMovesTheCall ==
  ASSUME CallsTypeOK, NEW c \in Calls, NEW from \in Holding, NEW next \in Holding,
         NEW s, WorkerMoves(c, from, s, next)
  PROVE  CallMoves(c)
<1>1. "releasing" \in Holding /\ "idle" \notin Holding /\ Holding \subseteq Stage
  BY DEF Holding, Stage
<1>2. Goto(c, from, next) \/ Goto(c, from, "releasing")
  BY DEF WorkerMoves
<1> QED BY <1>1, <1>2, GotoMoves

LEMMA WorkMovesTheCall ==
  ASSUME StoreInv, CallsTypeOK, CallsHaveJobs, NEW c \in Calls, Work(c)
  PROVE  CallMoves(c)
<1> USE DEF Holding, Stage
<1>1. CASE MarkRunning(c)
  BY <1>1, WorkerMovesTheCall DEF MarkRunning
<1>2. CASE TrainingFails(c)
  BY <1>2, WorkerMovesTheCall DEF TrainingFails
<1>3. CASE Succeed(c)
  BY <1>3, WorkerMovesTheCall DEF Succeed
<1>4. CASE CheckActive(c)
  BY <1>4, GotoMoves DEF CheckActive
<1>5. CASE AcquireTimesOut(c)
  BY <1>5, GotoMoves DEF AcquireTimesOut
<1>6. CASE Dispatch(c)
  <2> DEFINE s == jobs[target[c]].status
             to == CASE s \in ActiveStatus -> "starting"
                     [] s = "succeeded" -> "uploading"
                     [] OTHER -> "releasing"
  <2>1. to \in {"starting", "uploading", "releasing"}
    OBVIOUS
  <2>2. Goto(c, "acquired", to)
    BY <1>6 DEF Dispatch
  <2> HIDE DEF to
  <2> QED BY <2>1, <2>2, GotoMoves
<1>7. CASE Build(c)
  BY <1>7, GotoMoves DEF Build
<1>8. CASE Register(c)
  BY <1>8, GotoMoves DEF Register
<1>9. CASE Send(c) \/ SendFails(c) \/ EndUpload(c)
  BY <1>9, GotoMoves DEF Send, SendFails, EndUpload
<1>10. CASE Acquire(c)
  BY <1>10 DEF Acquire, CallMoves, CallsTypeOK
<1>11. CASE Release(c)
  <2>1. /\ stage[c] \in Holding /\ "done" \notin Holding /\ "done" \in Stage \ {"idle"}
        /\ stage' = [stage EXCEPT ![c] = "done"] /\ permits' = permits + 1
    BY <1>11 DEF Release
  <2>2. target' = target /\ uploads' = uploads /\ tarballs' = tarballs
    BY <1>11 DEF Release
  <2> QED BY <2>1, <2>2 DEF CallMoves, CallsTypeOK
<1>12. CASE BeginTraining(c)
  BY <1>12 DEF BeginTraining, CallMoves, CallsTypeOK
<1>13. CASE FinishTraining(c)
  BY <1>13 DEF FinishTraining, CallMoves, CallsTypeOK
<1>14. CASE BeginUpload(c)
  <2> DEFINE todo == {a.run : a \in {b \in jobs[target[c]].artifacts : ~b.keyed}}
  <2>1. target[c] \in JobIds
    BY DEF Work, CallsHaveJobs, Present
  <2>2. todo \subseteq Runs
    BY <2>1 DEF StoreInv, TypeOK, JobRecord, Artifact
  <2>3. PICK to \in {"sending", "releasing"}, us \in {todo, {}} :
          /\ stage[c] = "uploading"
          /\ stage' = [stage EXCEPT ![c] = to]
          /\ uploads' = [uploads EXCEPT ![c] = us]
    BY <1>14 DEF BeginUpload
  <2>4. UNCHANGED <<target, permits, tarballs>>
    BY <1>14 DEF BeginUpload
  <2> HIDE DEF todo
  <2>5. uploads' \in [Calls -> SUBSET Runs]
    BY <2>2, <2>3 DEF CallsTypeOK
  <2>6. to \in Stage \ {"idle"} /\ to \in Holding /\ stage[c] \in Holding
    BY <2>3
  <2> QED BY <2>3, <2>4, <2>5, <2>6 DEF CallMoves, CallsTypeOK
<1>15. CASE RecordKey(c)
  BY <1>15 DEF RecordKey, CallMoves, CallsTypeOK
<1> QED BY <1>1, <1>2, <1>3, <1>4, <1>5, <1>6, <1>7, <1>8, <1>9, <1>10, <1>11, <1>12,
           <1>13, <1>14, <1>15 DEF Work

Holders == {c \in Calls : stage[c] \in Holding}

LEMMA HoldersAreCounted ==
  /\ PermitsAreConserved <=> permits + Cardinality(Holders) = MaxRunning
  /\ PermitsAreConserved' <=> permits' + Cardinality(Holders') = MaxRunning
  /\ IsFiniteSet(Holders) /\ Cardinality(Holders) \in Nat
  /\ IsFiniteSet(Holders') /\ Cardinality(Holders') \in Nat
<1>1. IsFiniteSet(Holders) /\ IsFiniteSet(Holders')
  BY CallsAssumption, FS_Subset DEF Holders
<1>2. Cardinality(Holders) \in Nat /\ Cardinality(Holders') \in Nat
  BY <1>1, FS_CardinalityType
<1> QED BY <1>1, <1>2 DEF PermitsAreConserved, Holders

LEMMA WorkKeepsPermits ==
  ASSUME CallsTypeOK, PermitsAreConserved, NEW c \in Calls, CallMoves(c)
  PROVE  PermitsAreConserved' /\ permits' \in Nat
<1>1. permits \in Nat /\ MaxRunning \in Nat
  BY LimitsAssumption DEF CallsTypeOK
<1>2. PICK to \in Stage \ {"idle"} :
        /\ stage' = [stage EXCEPT ![c] = to]
        /\ \/ (stage[c] \in Holding <=> to \in Holding) /\ permits' = permits
           \/ stage[c] \notin Holding /\ to \in Holding /\ permits > 0 /\ permits' = permits - 1
           \/ stage[c] \in Holding /\ to \notin Holding /\ permits' = permits + 1
  BY DEF CallMoves
<1>3. stage'[c] = to /\ \A d \in Calls \ {c} : stage'[d] = stage[d]
  BY <1>2 DEF CallsTypeOK
<1>4. CASE (stage[c] \in Holding <=> to \in Holding) /\ permits' = permits
  <2>1. Holders' = Holders
    BY <1>3, <1>4 DEF Holders
  <2> QED BY <1>1, <1>4, <2>1, HoldersAreCounted
<1>5. CASE stage[c] \notin Holding /\ to \in Holding /\ permits > 0 /\ permits' = permits - 1
  <2>1. Holders' = Holders \cup {c} /\ c \notin Holders
    BY <1>3, <1>5 DEF Holders
  <2>2. Cardinality(Holders') = Cardinality(Holders) + 1
    BY <2>1, HoldersAreCounted, FS_AddElement
  <2> QED BY <1>1, <1>5, <2>2, HoldersAreCounted
<1>6. CASE stage[c] \in Holding /\ to \notin Holding /\ permits' = permits + 1
  <2>1. Holders' = Holders \ {c} /\ c \in Holders
    BY <1>3, <1>6 DEF Holders
  <2>2. Cardinality(Holders') = Cardinality(Holders) - 1
    BY <2>1, HoldersAreCounted, FS_RemoveElement
  <2> QED BY <1>1, <1>6, <2>2, HoldersAreCounted
<1> QED BY <1>2, <1>4, <1>5, <1>6

\* A POST enters a call of its own for a job that is in the table afterwards.
LEMMA PostEnters ==
  ASSUME StoreInv, NEW c \in Calls, Post(c)
  PROVE  \E j \in JobIds : Enter(c, j) /\ jobs'[j].status # "absent"
<1>1. ASSUME NEW r \in Requests, PostNew(c, r)
      PROVE  Enter(c, JobOf[r]) /\ jobs'[JobOf[r]].status # "absent"
  <2>1. Admit(JobOf[r], r, None) /\ JobOf[r] \in JobIds
    BY <1>1, RequestsAssumption DEF PostNew, Create
  <2>2. jobs'[JobOf[r]].status = "queued"
    BY <2>1 DEF Admit, AbsentJob, StoreInv, TypeOK
  <2> QED BY <1>1, <2>2 DEF PostNew
<1>2. ASSUME NEW r \in Requests, PostReplay(c, r)
      PROVE  Enter(c, JobOf[r]) /\ jobs'[JobOf[r]].status # "absent"
  BY <1>2 DEF PostReplay, storeVars
<1>3. ASSUME NEW j \in JobIds, PostRetry(c, j)
      PROVE  \E i \in JobIds : Enter(c, i) /\ jobs'[i].status # "absent"
  <2>1. PICK i \in JobIds : jobs'[i] # jobs[i] /\ Enter(c, i)
    BY <1>3 DEF PostRetry
  <2>2. PICK k \in Attempts : Admit(RetryId[j][k], jobs[j].request, j)
    BY <1>3 DEF PostRetry, Retry
  <2>3. i = RetryId[j][k]
    BY <2>1, <2>2 DEF Admit, StoreInv, TypeOK
  <2>4. jobs'[i].status = "queued"
    BY <2>2, <2>3 DEF Admit, AbsentJob, StoreInv, TypeOK
  <2> QED BY <2>1, <2>4
<1> QED BY <1>1, <1>2, <1>3, RequestsAssumption DEF Post

LEMMA PresentStays ==
  ASSUME StoreInv, [Next]_storeVars
  PROVE  Present(jobs) \subseteq Present(jobs')
<1>1. \A j \in Present(jobs) : Evolves(jobs[j], jobs'[j])
  BY NextKeepsInv DEF Stable
<1>2. \A j \in Present(jobs) : jobs[j].status \in Status
  BY DEF StoreInv, TypeOK, JobRecord, Present
<1>3. \A j \in Present(jobs) : jobs'[j].status # "absent"
  BY <1>1, <1>2 DEF Evolves, CanMove, TransitionTable, Present, Status, ActiveStatus, SettledStatus
<1> QED BY <1>3 DEF Present

-----------------------------------------------------------------------------
(***************************************************************************)
(* The first inductive invariant: the store, the calls and the permits.    *)
(***************************************************************************)
CallInv == StoreInv /\ CallsTypeOK /\ CallsHaveJobs /\ PermitsAreConserved

LEMMA CallInvInitially ==
  ASSUME ServiceInit
  PROVE  CallInv
<1>1. StoreInv
  BY InitEstablishesInv DEF ServiceInit
<1>2. CallsTypeOK /\ CallsHaveJobs
  BY LimitsAssumption DEF ServiceInit, CallsTypeOK, CallsHaveJobs, Stage
<1>3. Holders = {}
  BY DEF ServiceInit, Holders, Holding
<1>4. PermitsAreConserved
  BY <1>3, FS_EmptySet, HoldersAreCounted, LimitsAssumption DEF ServiceInit
<1> QED BY <1>1, <1>2, <1>4 DEF CallInv

LEMMA ServiceKeepsCallInv ==
  ASSUME CallInv, [ServiceNext]_vars
  PROVE  CallInv'
<1> USE DEF CallInv
<1>1. [Next]_storeVars /\ StoreInv'
  BY ServiceMovesTheStore, NextKeepsInv
<1>2. Present(jobs) \subseteq Present(jobs')
  BY <1>1, PresentStays
<1>3. ASSUME NEW c \in Calls, Work(c)
      PROVE  CallsTypeOK' /\ CallsHaveJobs' /\ PermitsAreConserved'
  <2>1. CallMoves(c)
    BY <1>3, WorkMovesTheCall
  <2>2. PermitsAreConserved' /\ permits' \in Nat
    BY <2>1, WorkKeepsPermits
  <2>3. CallsTypeOK'
    BY <2>1, <2>2 DEF CallMoves, CallsTypeOK
  <2>4. stage[c] # "idle"
    BY <1>3 DEF Work
  <2>5. \A d \in Calls : target'[d] = target[d] /\ (stage'[d] # "idle" => stage[d] # "idle")
    BY <2>1, <2>4 DEF CallMoves, CallsTypeOK
  <2>6. CallsHaveJobs'
    BY <1>2, <2>5 DEF CallsHaveJobs
  <2> QED BY <2>2, <2>3, <2>6
<1>4. ASSUME NEW c \in Calls, Post(c)
      PROVE  CallsTypeOK' /\ CallsHaveJobs' /\ PermitsAreConserved'
  <2>1. PICK j \in JobIds : Enter(c, j) /\ jobs'[j].status # "absent"
    BY <1>4, PostEnters
  <2>2. CallsTypeOK'
    BY <2>1 DEF Enter, CallsTypeOK, Stage
  <2>3. CallsHaveJobs'
    BY <1>2, <2>1 DEF Enter, CallsTypeOK, CallsHaveJobs, Present
  <2>4. Holders' = Holders /\ permits' = permits
    BY <2>1 DEF Holders, Enter, CallsTypeOK, Holding
  <2> QED BY <2>2, <2>3, <2>4, HoldersAreCounted
<1>5. CASE UNCHANGED callVars
  <2>1. CallsTypeOK' /\ CallsHaveJobs'
    BY <1>2, <1>5 DEF callVars, CallsTypeOK, CallsHaveJobs
  <2>2. Holders' = Holders /\ permits' = permits
    BY <1>5 DEF callVars, Holders
  <2> QED BY <1>1, <2>1, <2>2, HoldersAreCounted
<1>6. CASE RestartServer
  <2>1. CallsTypeOK'
    BY <1>6, LimitsAssumption DEF RestartServer, CallsTypeOK, Stage
  <2>2. CallsHaveJobs'
    BY <1>2, <1>6 DEF RestartServer, CallsHaveJobs
  <2>3. Holders' = {}
    BY <1>6 DEF RestartServer, Holders, Holding
  <2>4. PermitsAreConserved'
    BY <1>6, <2>3, FS_EmptySet, HoldersAreCounted, LimitsAssumption DEF RestartServer
  <2> QED BY <1>1, <2>1, <2>2, <2>4
<1> QED BY <1>1, <1>3, <1>4, <1>5, <1>6 DEF ServiceNext, Environment, CancelTrainingJob,
           Delete, Read, RetentionEnds, Sweep, vars

-----------------------------------------------------------------------------
(***************************************************************************)
(* Where the stages of a call are entered from.                            *)
(***************************************************************************)

\* From these stages a call registers nothing any more.
Past == {"registered", "uploading", "sending", "sent", "releasing", "done"}

LEMMA GotoStage ==
  ASSUME CallsTypeOK, NEW c \in Calls, NEW from, NEW to, Goto(c, from, to)
  PROVE  stage[c] = from /\ stage'[c] = to /\ uploads' = uploads
BY DEF Goto, CallsTypeOK

LEMMA WorkerMovesStage ==
  ASSUME CallsTypeOK, NEW c \in Calls, NEW from, NEW next, NEW s,
         WorkerMoves(c, from, s, next)
  PROVE  stage[c] = from /\ stage'[c] \in {next, "releasing"} /\ uploads' = uploads
BY GotoStage DEF WorkerMoves

StageEntry(c) ==
  /\ stage'[c] = "training" => MarkRunning(c)
  /\ stage'[c] = "writing" => BeginTraining(c)
  /\ stage'[c] = "trained" => FinishTraining(c)
  /\ stage'[c] = "built" => Build(c)
  /\ stage'[c] = "registered" => Register(c)
  /\ stage'[c] = "sent" => Send(c)
  /\ stage[c] \in Past => stage'[c] \in Past
  /\ uploads' = uploads \/ BeginUpload(c) \/ RecordKey(c)

LEMMA WorkStages ==
  ASSUME CallsTypeOK, NEW c \in Calls, Work(c)
  PROVE  StageEntry(c)
<1> USE DEF StageEntry, Past
<1>1. CASE MarkRunning(c)
  <2>1. stage[c] = "starting" /\ stage'[c] \in {"training", "releasing"} /\ uploads' = uploads
    BY <1>1, WorkerMovesStage DEF MarkRunning
  <2> QED BY <1>1, <2>1
<1>2. CASE TrainingFails(c)
  <2>1. /\ stage[c] \in {"training", "writing", "trained"}
        /\ stage'[c] = "releasing" /\ uploads' = uploads
    BY <1>2, WorkerMovesStage DEF TrainingFails
  <2> QED BY <2>1
<1>3. CASE Succeed(c)
  <2>1. stage'[c] \in {"uploading", "releasing"} /\ uploads' = uploads
    BY <1>3, WorkerMovesStage DEF Succeed
  <2> QED BY <2>1
<1>4. CASE CheckActive(c)
  <2>1. stage[c] = "admitted" /\ stage'[c] \in {"waiting", "done"} /\ uploads' = uploads
    BY <1>4, GotoStage DEF CheckActive
  <2> QED BY <2>1
<1>5. CASE AcquireTimesOut(c)
  <2>1. stage'[c] = "done" /\ uploads' = uploads
    BY <1>5, GotoStage DEF AcquireTimesOut
  <2> QED BY <2>1
<1>6. CASE Dispatch(c)
  <2>1. /\ stage[c] = "acquired" /\ stage'[c] \in {"starting", "uploading", "releasing"}
        /\ uploads' = uploads
    BY <1>6 DEF Dispatch, Goto, CallsTypeOK
  <2> QED BY <2>1
<1>7. CASE Build(c)
  <2>1. stage[c] = "trained" /\ stage'[c] \in {"built", "releasing"} /\ uploads' = uploads
    BY <1>7, GotoStage DEF Build
  <2> QED BY <1>7, <2>1
<1>8. CASE Register(c)
  <2>1. stage'[c] = "registered" /\ uploads' = uploads
    BY <1>8, GotoStage DEF Register
  <2> QED BY <1>8, <2>1
<1>9. CASE Send(c)
  <2>1. stage'[c] = "sent" /\ uploads' = uploads
    BY <1>9, GotoStage DEF Send
  <2> QED BY <1>9, <2>1
<1>10. CASE SendFails(c) \/ EndUpload(c)
  <2>1. stage'[c] = "releasing" /\ uploads' = uploads
    BY <1>10, GotoStage DEF SendFails, EndUpload
  <2> QED BY <2>1
<1>11. CASE Acquire(c)
  <2>1. stage[c] = "waiting" /\ stage'[c] = "acquired" /\ uploads' = uploads
    BY <1>11 DEF Acquire, CallsTypeOK
  <2> QED BY <2>1
<1>12. CASE Release(c)
  <2>1. stage'[c] = "done" /\ uploads' = uploads
    BY <1>12 DEF Release, CallsTypeOK
  <2> QED BY <2>1
<1>13. CASE BeginTraining(c)
  <2>1. /\ stage[c] = "training" /\ stage'[c] \in {"writing", "releasing"}
        /\ uploads' = uploads
    BY <1>13 DEF BeginTraining, CallsTypeOK
  <2> QED BY <1>13, <2>1
<1>14. CASE FinishTraining(c)
  <2>1. stage[c] = "writing" /\ stage'[c] = "trained" /\ uploads' = uploads
    BY <1>14 DEF FinishTraining, CallsTypeOK
  <2> QED BY <1>14, <2>1
<1>15. CASE BeginUpload(c)
  <2>1. stage'[c] \in {"sending", "releasing"}
    BY <1>15 DEF BeginUpload, CallsTypeOK
  <2> QED BY <1>15, <2>1
<1>16. CASE RecordKey(c)
  <2>1. stage'[c] \in {"sending", "releasing"}
    BY <1>16 DEF RecordKey, CallsTypeOK
  <2> QED BY <1>16, <2>1
<1> QED BY <1>1, <1>2, <1>3, <1>4, <1>5, <1>6, <1>7, <1>8, <1>9, <1>10, <1>11, <1>12,
           <1>13, <1>14, <1>15, <1>16 DEF Work

-----------------------------------------------------------------------------
(***************************************************************************)
(* What the steps do to the records.                                       *)
(***************************************************************************)

\* The record describes the same bundles.
SameBundles(old, new) ==
  /\ new.request = old.request /\ new.provenance = old.provenance
  /\ new.artifacts = {} <=> old.artifacts = {}
  /\ \A n \in Runs, d \in Datasets :
       (\E a \in new.artifacts : a.run = n /\ a.dataset = d)
         <=> (\E a \in old.artifacts : a.run = n /\ a.dataset = d)
  /\ \A n \in Runs : HasRun(new, n) <=> HasRun(old, n)

NoNewKeys(old, new) == \A n \in Runs : Keyed(new, n) => Keyed(old, n)

\* A record is admitted, becomes a tombstone, or keeps its bundles, gets no storage
\* key and does not become a success: a step that is none of a worker's.  One that
\* is an empty tombstone already is left alone.
Passive(old, new) ==
  /\ \/ old.status = "absent" /\ new.status = "queued" /\ new.artifacts = {}
     \/ new.status = "deleted" /\ new.artifacts = {}
     \/ /\ SameBundles(old, new) /\ NoNewKeys(old, new)
        /\ old.status = "deleted" <=> new.status = "deleted"
        /\ new.status = "succeeded" => old.status = "succeeded"
  /\ old.status = "deleted" /\ old.artifacts = {} => new = old

\* Bytes go only with the record that names them.
BytesGoWithRecords ==
  \A j \in JobIds, n \in Runs : <<j, n>> \in blobs \ blobs' => jobs'[j].artifacts = {}

PassiveStep == (\A j \in JobIds : Passive(jobs[j], jobs'[j])) /\ BytesGoWithRecords

LEMMA StatusKeepsBundles ==
  ASSUME NEW rec \in JobRecord, NEW s
  PROVE  LET new == [rec EXCEPT !.status = s]
         IN  SameBundles(rec, new) /\ NoNewKeys(rec, new) /\ new.status = s
BY DEF SameBundles, NoNewKeys, JobRecord, HasRun, Keyed

LEMMA PersistIsPassive ==
  ASSUME NEW rec \in JobRecord
  PROVE  Passive(rec, Persist(rec))
<1> DEFINE bare == {[a EXCEPT !.keyed = FALSE] : a \in rec.artifacts}
           as == IF rec.status = "deleted" THEN {} ELSE bare
           new == [rec EXCEPT !.artifacts = as]
<1>1. Persist(rec) = new
  BY DEF Persist
<1>2. /\ new.status = rec.status /\ new.request = rec.request
      /\ new.provenance = rec.provenance /\ new.artifacts = as
  BY DEF JobRecord
<1>3. CASE rec.status = "deleted"
  <2>1. as = {} /\ (rec.artifacts = {} => new = rec)
    BY <1>3 DEF JobRecord
  <2> HIDE DEF as, new
  <2> QED BY <1>1, <1>2, <1>3, <2>1 DEF Passive
<1>4. CASE rec.status # "deleted"
  <2>1. rec.artifacts \subseteq Artifact
    BY DEF JobRecord
  <2>2. \A a \in Artifact : LET b == [a EXCEPT !.keyed = FALSE]
                            IN  b.run = a.run /\ b.dataset = a.dataset /\ b.keyed = FALSE
    BY DEF Artifact
  <2>3. /\ \A a \in rec.artifacts : \E b \in bare : b.run = a.run /\ b.dataset = a.dataset
        /\ \A b \in bare : ~b.keyed /\ \E a \in rec.artifacts : b.run = a.run /\ b.dataset = a.dataset
    BY <2>1, <2>2
  <2>4. bare = {} <=> rec.artifacts = {}
    OBVIOUS
  <2>5. new.artifacts = bare
    BY <1>2, <1>4
  <2> HIDE DEF bare, new
  <2>6. SameBundles(rec, new) /\ NoNewKeys(rec, new)
    BY <1>2, <2>3, <2>4, <2>5 DEF SameBundles, NoNewKeys, HasRun, Keyed
  <2> QED BY <1>1, <1>2, <1>4, <2>6 DEF Passive
<1> QED BY <1>3, <1>4

LEMMA SameIsPassive ==
  ASSUME NEW rec
  PROVE  Passive(rec, rec) /\ SameBundles(rec, rec)
BY DEF Passive, SameBundles, NoNewKeys

\* A move of an active job is passive for the others, and keeps its bundles.
LEMMA MoveEffect ==
  ASSUME StoreInv, NEW j \in JobIds, NEW s \in Status \ {"queued", "deleted"},
         jobs[j].status # "absent", jobs[j].status # s, CanMove(jobs[j].status, s),
         jobs' = Moved(j, s), blobs' = blobs
  PROVE  /\ \A i \in JobIds \ {j} : Passive(jobs[i], jobs'[i])
         /\ SameBundles(jobs[j], jobs'[j]) /\ NoNewKeys(jobs[j], jobs'[j]) /\ jobs'[j].status = s
         /\ jobs[j].status \in ActiveStatus
         /\ BytesGoWithRecords
<1>1. jobs \in [JobIds -> JobRecord]
  BY DEF StoreInv, TypeOK
<1>2. /\ jobs'[j] = [jobs[j] EXCEPT !.status = s]
      /\ \A i \in JobIds \ {j} :
           \/ jobs'[i] = jobs[i]
           \/ /\ jobs[i].status = "queued"
              /\ jobs'[i] = [jobs[i] EXCEPT !.status = "running"]
  BY <1>1, MovedEffect
<1>3. ASSUME NEW i \in JobIds \ {j} PROVE Passive(jobs[i], jobs'[i])
  <2>1. CASE jobs'[i] = jobs[i]
    BY <2>1, SameIsPassive
  <2>2. CASE jobs[i].status = "queued" /\ jobs'[i] = [jobs[i] EXCEPT !.status = "running"]
    <3>1. /\ SameBundles(jobs[i], jobs'[i]) /\ NoNewKeys(jobs[i], jobs'[i])
          /\ jobs'[i].status = "running"
      BY <1>1, <2>2, StatusKeepsBundles
    <3> QED BY <2>2, <3>1 DEF Passive
  <2> QED BY <1>2, <2>1, <2>2
<1>4. SameBundles(jobs[j], jobs'[j]) /\ NoNewKeys(jobs[j], jobs'[j]) /\ jobs'[j].status = s
  BY <1>1, <1>2, StatusKeepsBundles
<1>5. jobs[j].status \in ActiveStatus
  <2>1. jobs[j].status \in Status
    BY <1>1 DEF JobRecord
  <2> QED BY <2>1 DEF CanMove, TransitionTable, Status, ActiveStatus, SettledStatus
<1> QED BY <1>3, <1>4, <1>5 DEF BytesGoWithRecords

LEMMA MoveIsPassive ==
  ASSUME StoreInv, NEW j \in JobIds, NEW s \in {"running", "failed", "cancelled"},
         jobs[j].status # "absent", jobs[j].status # s, CanMove(jobs[j].status, s),
         jobs' = Moved(j, s), blobs' = blobs
  PROVE  PassiveStep
<1>1. s \in Status \ {"queued", "deleted"}
  BY DEF Status, ActiveStatus, SettledStatus
<1>2. /\ \A i \in JobIds \ {j} : Passive(jobs[i], jobs'[i])
      /\ SameBundles(jobs[j], jobs'[j]) /\ NoNewKeys(jobs[j], jobs'[j]) /\ jobs'[j].status = s
      /\ jobs[j].status \in ActiveStatus
      /\ BytesGoWithRecords
  BY <1>1, MoveEffect
<1>3. Passive(jobs[j], jobs'[j])
  BY <1>2 DEF Passive, ActiveStatus
<1> QED BY <1>2, <1>3 DEF PassiveStep

LEMMA AdmitIsPassive ==
  ASSUME StoreInv, NEW j \in JobIds, NEW r, NEW o, jobs[j].status = "absent", Admit(j, r, o)
  PROVE  PassiveStep
<1>1. jobs'[j].status = "queued" /\ jobs'[j].artifacts = {}
  BY DEF Admit, AbsentJob, StoreInv, TypeOK
<1>2. \A i \in JobIds \ {j} : jobs'[i] = jobs[i]
  BY DEF Admit, StoreInv, TypeOK
<1>3. \A i \in JobIds : Passive(jobs[i], jobs'[i])
  BY <1>1, <1>2, SameIsPassive DEF Passive
<1>4. BytesGoWithRecords
  BY DEF Admit, BytesGoWithRecords
<1> QED BY <1>3, <1>4 DEF PassiveStep

LEMMA DeletionIsPassive ==
  ASSUME StoreInv, NEW gone \in SUBSET JobIds, NEW retain \in BOOLEAN,
         jobs' = [j \in JobIds |->
                    IF j \in gone THEN Tombstone(jobs[j], retain) ELSE jobs[j]],
         \A j \in gone : jobs[j].status = "succeeded",
         \A j \in JobIds, n \in Runs : <<j, n>> \in blobs \ blobs' => j \in gone
  PROVE  PassiveStep
<1>1. jobs \in [JobIds -> JobRecord]
  BY DEF StoreInv, TypeOK
<1>2. \A j \in gone : jobs'[j].status = "deleted" /\ jobs'[j].artifacts = {}
  BY <1>1 DEF Tombstone, JobRecord
<1>3. \A j \in JobIds \ gone : jobs'[j] = jobs[j]
  OBVIOUS
<1>4. \A j \in JobIds : Passive(jobs[j], jobs'[j])
  BY <1>2, <1>3, SameIsPassive DEF Passive
<1> QED BY <1>2, <1>4 DEF PassiveStep, BytesGoWithRecords

\* The operations of the store that are passive.
LEMMA DeleteArtifactIsPassive ==
  ASSUME StoreInv, NEW j \in JobIds, NEW n \in Runs, DeleteArtifact(j, n)
  PROVE  PassiveStep
<1>1. jobs' = [i \in JobIds |-> IF i \in {j} THEN Tombstone(jobs[i], FALSE) ELSE jobs[i]]
  BY DEF DeleteArtifact, StoreInv, TypeOK
<1>2. blobs' = blobs \/ blobs' = blobs \ {<<j, n>>}
  BY DEF DeleteArtifact
<1>3. \A i \in JobIds, m \in Runs : <<i, m>> \in blobs \ blobs' => i \in {j}
  BY <1>2
<1>4. \A i \in {j} : jobs[i].status = "succeeded"
  BY DEF DeleteArtifact
<1> QED BY <1>1, <1>3, <1>4, DeletionIsPassive

LEMMA EvaluateExpiryIsPassive ==
  ASSUME StoreInv, NEW j \in JobIds, EvaluateExpiry(j)
  PROVE  PassiveStep
<1>1. PICK n \in Runs :
        /\ jobs' = [jobs EXCEPT ![j] = Tombstone(@, TRUE)]
        /\ blobs' = blobs \/ blobs' = blobs \ {<<j, n>>}
  BY DEF EvaluateExpiry
<1>2. jobs' = [i \in JobIds |-> IF i \in {j} THEN Tombstone(jobs[i], TRUE) ELSE jobs[i]]
  <2>1. jobs \in [JobIds -> JobRecord]
    BY DEF StoreInv, TypeOK
  <2> QED BY <1>1, <2>1
<1>3. \A i \in JobIds, m \in Runs : <<i, m>> \in blobs \ blobs' => i \in {j}
  BY <1>1
<1>4. \A i \in {j} : jobs[i].status = "succeeded"
  BY DEF EvaluateExpiry, Due
<1> QED BY <1>2, <1>3, <1>4, DeletionIsPassive

LEMMA SweepIsPassive ==
  ASSUME StoreInv, SweepExpired
  PROVE  PassiveStep
<1> DEFINE due == {j \in JobIds : \E n \in Runs : Due(j, n)}
<1>1. PICK pick \in [due -> Runs], stop \in due :
        LET done == {j \in due : j <= stop}
            keyed == {j \in done : Keyed(jobs[j], pick[j])}
        IN  /\ jobs' = [j \in JobIds |->
                           IF j \in done THEN Tombstone(jobs[j], TRUE) ELSE jobs[j]]
            /\ \/ blobs' = blobs \ {<<j, pick[j]>> : j \in keyed}
               \/ blobs' = blobs \ {<<j, pick[j]>> : j \in keyed \ {stop}}
  BY DEF SweepExpired
<1> DEFINE done == {j \in due : j <= stop}
<1>2. done \in SUBSET JobIds /\ \A j \in done : jobs[j].status = "succeeded"
  BY DEF Due
<1>3. jobs' = [j \in JobIds |-> IF j \in done THEN Tombstone(jobs[j], TRUE) ELSE jobs[j]]
  BY <1>1
<1>4. \A j \in JobIds, n \in Runs : <<j, n>> \in blobs \ blobs' => j \in done
  BY <1>1
<1> HIDE DEF done
<1> QED BY <1>2, <1>3, <1>4, DeletionIsPassive

LEMMA RestartIsPassive ==
  ASSUME StoreInv, Restart
  PROVE  PassiveStep
<1>1. \A j \in JobIds : jobs[j] \in JobRecord /\ jobs'[j] = Persist(jobs[j])
  BY DEF StoreInv, TypeOK, DiskIsCurrent, Restart
<1>2. \A j \in JobIds : Passive(jobs[j], jobs'[j])
  BY <1>1, PersistIsPassive
<1> QED BY <1>2 DEF PassiveStep, BytesGoWithRecords, Restart

LEMMA TableUntouchedIsPassive ==
  ASSUME jobs' = jobs, blobs \subseteq blobs'
  PROVE  PassiveStep
BY SameIsPassive DEF PassiveStep, BytesGoWithRecords

-----------------------------------------------------------------------------
(***************************************************************************)
(* The three steps of a worker that are not passive.                       *)
(***************************************************************************)

\* Every other record keeps what it holds, and all bytes stay.
Others(j) == /\ \A i \in JobIds \ {j} : Passive(jobs[i], jobs'[i])
             /\ BytesGoWithRecords

Registers(c) ==
  LET j == target[c]
  IN  /\ Register(c) /\ Others(j)
      /\ ~HasRun(jobs[j], BundleOf(c))
      /\ \E d \in Datasets, k \in Configs :
           /\ jobs[j].request # None => k = ConfigOf[jobs[j].request]
           /\ jobs'[j] = [jobs[j] EXCEPT
                           !.artifacts = @ \cup {[run |-> BundleOf(c), dataset |-> d, keyed |-> FALSE]},
                           !.provenance = [run |-> BundleOf(c), dataset |-> d, config |-> k]]

Succeeds(c) ==
  LET j == target[c]
  IN  /\ Succeed(c) /\ Others(j)
      /\ SameBundles(jobs[j], jobs'[j]) /\ NoNewKeys(jobs[j], jobs'[j])
      /\ jobs[j].status \in ActiveStatus /\ jobs'[j].status = "succeeded"

RecordsKey(c) ==
  LET j == target[c]
  IN  /\ RecordKey(c) /\ Others(j)
      /\ HasRun(jobs[j], NextUpload(c))
      /\ SameBundles(jobs[j], jobs'[j]) /\ jobs'[j].status = jobs[j].status
      /\ \A n \in Runs \ {NextUpload(c)} : Keyed(jobs'[j], n) => Keyed(jobs[j], n)

LEMMA SetKeyEffect ==
  ASSUME StoreInv, NEW j \in JobIds, NEW n, SetStorageKey(j, n)
  PROVE  /\ \A i \in JobIds \ {j} : jobs'[i] = jobs[i]
         /\ SameBundles(jobs[j], jobs'[j]) /\ jobs'[j].status = jobs[j].status
         /\ \A m \in Runs \ {n} : Keyed(jobs'[j], m) => Keyed(jobs[j], m)
         /\ blobs' = blobs
<1> DEFINE old == jobs[j].artifacts
           mark(a) == IF a.run = n THEN [a EXCEPT !.keyed = TRUE] ELSE a
           as == {mark(a) : a \in old}
           new == [jobs[j] EXCEPT !.artifacts = as]
<1>1. jobs \in [JobIds -> JobRecord] /\ jobs[j] \in JobRecord /\ old \subseteq Artifact
  BY DEF StoreInv, TypeOK, JobRecord
<1>2. jobs' = [jobs EXCEPT ![j] = new] /\ blobs' = blobs
  BY <1>1 DEF SetStorageKey
<1>3. \A a \in old : /\ mark(a).run = a.run /\ mark(a).dataset = a.dataset
                     /\ a.run # n => mark(a) = a
  BY <1>1 DEF Artifact
<1>4. /\ \A a \in old : mark(a) \in as
      /\ \A b \in as : \E a \in old : b = mark(a)
  OBVIOUS
<1>5. as = {} <=> old = {}
  OBVIOUS
<1>6. /\ new.status = jobs[j].status /\ new.request = jobs[j].request
      /\ new.provenance = jobs[j].provenance /\ new.artifacts = as
  BY <1>1 DEF JobRecord
<1>7. jobs'[j] = new /\ \A i \in JobIds \ {j} : jobs'[i] = jobs[i]
  BY <1>1, <1>2
<1> HIDE DEF old, mark, as, new
<1>8. \A a \in old : \E b \in as : b.run = a.run /\ b.dataset = a.dataset
  BY <1>3, <1>4
<1>9. \A b \in as : \E a \in old :
        b.run = a.run /\ b.dataset = a.dataset /\ (b.run # n => b = a)
  <2> TAKE b \in as
  <2>1. PICK a \in old : b = mark(a)
    BY <1>4
  <2> QED BY <1>3, <2>1
<1>10. SameBundles(jobs[j], new)
  <2>1. new.artifacts = as /\ jobs[j].artifacts = old
    BY <1>6 DEF old
  <2>2. ASSUME NEW m \in Runs, NEW d \in Datasets
        PROVE  (\E b \in new.artifacts : b.run = m /\ b.dataset = d)
                 <=> (\E a \in jobs[j].artifacts : a.run = m /\ a.dataset = d)
    <3>1. ASSUME \E b \in as : b.run = m /\ b.dataset = d
          PROVE  \E a \in old : a.run = m /\ a.dataset = d
      <4>1. PICK b \in as : b.run = m /\ b.dataset = d
        BY <3>1
      <4>2. PICK a \in old : b.run = a.run /\ b.dataset = a.dataset
        BY <1>9
      <4> QED BY <4>1, <4>2
    <3>2. ASSUME \E a \in old : a.run = m /\ a.dataset = d
          PROVE  \E b \in as : b.run = m /\ b.dataset = d
      <4>1. PICK a \in old : a.run = m /\ a.dataset = d
        BY <3>2
      <4>2. PICK b \in as : b.run = a.run /\ b.dataset = a.dataset
        BY <1>8
      <4> QED BY <4>1, <4>2
    <3> QED BY <2>1, <3>1, <3>2
  <2>3. ASSUME NEW m \in Runs
        PROVE  HasRun(new, m) <=> HasRun(jobs[j], m)
    <3>1. (\E b \in as : b.run = m) <=> (\E a \in old : a.run = m)
      BY <1>8, <1>9
    <3> QED BY <2>1, <3>1 DEF HasRun
  <2> QED BY <1>5, <1>6, <2>1, <2>2, <2>3 DEF SameBundles
<1>11. \A m \in Runs \ {n} : Keyed(new, m) => Keyed(jobs[j], m)
  <2> SUFFICES ASSUME NEW m \in Runs \ {n}, NEW b \in as, b.run = m /\ b.keyed
               PROVE  \E a \in old : a.run = m /\ a.keyed
    BY <1>6 DEF Keyed, old
  <2> QED BY <1>9
<1> QED BY <1>2, <1>6, <1>7, <1>10, <1>11

LEMMA WorkerMoveIsPassive ==
  ASSUME StoreInv, NEW c \in Calls, target[c] \in JobIds, NEW from, NEW next,
         NEW s \in {"running", "failed"}, WorkerMoves(c, from, s, next)
  PROVE  PassiveStep
<1>1. CASE UpdateStatus(target[c], s)
  BY <1>1, MoveIsPassive DEF UpdateStatus
<1>2. CASE UNCHANGED storeVars
  BY <1>2, TableUntouchedIsPassive DEF storeVars
<1> QED BY <1>1, <1>2 DEF WorkerMoves

LEMMA RegisterCases ==
  ASSUME StoreInv, NEW c \in Calls, target[c] \in JobIds, Register(c)
  PROVE  \/ PassiveStep /\ HasRun(jobs[target[c]], BundleOf(c))
         \/ Registers(c)
<1> DEFINE j == target[c]
           n == BundleOf(c)
           hashes == IF j \in GpuJobs THEN Datasets ELSE {FixtureDataset}
<1>1. hashes \subseteq Datasets
  BY CallsAssumption
<1>2. \/ HasRun(jobs[j], n) /\ UNCHANGED storeVars
      \/ \E d \in hashes, k \in Configs :
           /\ jobs[j].request # None => k = ConfigOf[jobs[j].request]
           /\ RegisterArtifact(j, [run |-> n, dataset |-> d, keyed |-> FALSE],
                               [run |-> n, dataset |-> d, config |-> k])
  BY DEF Register
<1> HIDE DEF n, hashes
<1>3. CASE HasRun(jobs[j], n) /\ UNCHANGED storeVars
  BY <1>3, TableUntouchedIsPassive DEF storeVars, n
<1>4. ASSUME NEW d \in hashes, NEW k \in Configs,
             jobs[j].request # None => k = ConfigOf[jobs[j].request],
             RegisterArtifact(j, [run |-> n, dataset |-> d, keyed |-> FALSE],
                              [run |-> n, dataset |-> d, config |-> k])
      PROVE  Registers(c)
  <2> DEFINE a == [run |-> n, dataset |-> d, keyed |-> FALSE]
             p == [run |-> n, dataset |-> d, config |-> k]
  <2>1. d \in Datasets
    BY <1>1
  <2>2. jobs \in [JobIds -> JobRecord] /\ jobs[j] \in JobRecord
    BY DEF StoreInv, TypeOK
  <2>3. a.run = n
    OBVIOUS
  <2>4. /\ ~HasRun(jobs[j], n)
        /\ jobs' = [jobs EXCEPT ![j].artifacts = @ \cup {a}, ![j].provenance = p]
        /\ blobs' = blobs
    BY <1>4, <2>3 DEF RegisterArtifact
  <2> HIDE DEF a, p
  <2>5. /\ jobs'[j] = [jobs[j] EXCEPT !.artifacts = @ \cup {a}, !.provenance = p]
        /\ \A i \in JobIds \ {j} : jobs'[i] = jobs[i]
    BY <2>2, <2>4 DEF JobRecord
  <2>6. Others(j)
    BY <2>4, <2>5, SameIsPassive DEF Others, BytesGoWithRecords
  <2> QED BY <1>4, <2>1, <2>4, <2>5, <2>6 DEF Registers, n, a, p
<1> QED BY <1>2, <1>3, <1>4

LEMMA SucceedCases ==
  ASSUME StoreInv, NEW c \in Calls, target[c] \in JobIds, Succeed(c)
  PROVE  PassiveStep \/ Succeeds(c)
<1>1. CASE UpdateStatus(target[c], "succeeded")
  <2>1. "succeeded" \in Status \ {"queued", "deleted"}
    BY DEF Status, SettledStatus
  <2> QED BY <1>1, <2>1, MoveEffect DEF UpdateStatus, Succeeds, Others
<1>2. CASE UNCHANGED storeVars
  BY <1>2, TableUntouchedIsPassive DEF storeVars
<1> QED BY <1>1, <1>2 DEF Succeed, WorkerMoves

LEMMA RecordKeyCases ==
  ASSUME StoreInv, NEW c \in Calls, target[c] \in JobIds, RecordKey(c)
  PROVE  PassiveStep \/ RecordsKey(c)
<1>1. CASE UNCHANGED storeVars
  BY <1>1, TableUntouchedIsPassive DEF storeVars
<1>2. CASE HasRun(jobs[target[c]], NextUpload(c)) /\ SetStorageKey(target[c], NextUpload(c))
  BY <1>2, SetKeyEffect, SameIsPassive DEF RecordsKey, Others, BytesGoWithRecords
<1> QED BY <1>1, <1>2 DEF RecordKey

LEMMA WorkCases ==
  ASSUME StoreInv, CallsHaveJobs, NEW c \in Calls, Work(c)
  PROVE  \/ PassiveStep /\ (Register(c) => HasRun(jobs[target[c]], BundleOf(c)))
         \/ Registers(c) \/ Succeeds(c) \/ RecordsKey(c)
<1>1. target[c] \in JobIds
  BY DEF Work, CallsHaveJobs, Present
<1>2. CASE Register(c)
  BY <1>1, <1>2, RegisterCases
<1>3. CASE ~Register(c)
  <2>1. CASE MarkRunning(c)
    BY <1>1, <2>1, WorkerMoveIsPassive, <1>3 DEF MarkRunning
  <2>2. CASE TrainingFails(c)
    BY <1>1, <2>2, WorkerMoveIsPassive, <1>3 DEF TrainingFails
  <2>3. CASE Succeed(c)
    BY <1>1, <2>3, SucceedCases, <1>3
  <2>4. CASE RecordKey(c)
    BY <1>1, <2>4, RecordKeyCases, <1>3
  <2>5. CASE Send(c)
    BY <1>3, <2>5, TableUntouchedIsPassive DEF Send, Upload
  <2>6. CASE \/ CheckActive(c) \/ Acquire(c) \/ AcquireTimesOut(c) \/ Dispatch(c)
             \/ BeginTraining(c) \/ FinishTraining(c) \/ Build(c) \/ BeginUpload(c)
             \/ SendFails(c) \/ EndUpload(c) \/ Release(c)
    <3>1. UNCHANGED storeVars
      BY <2>6 DEF CheckActive, Acquire, AcquireTimesOut, Dispatch, BeginTraining,
         FinishTraining, Build, BeginUpload, SendFails, EndUpload, Release, storeVars
    <3> QED BY <1>3, <3>1, TableUntouchedIsPassive DEF storeVars
  <2> QED BY <1>3, <2>1, <2>2, <2>3, <2>4, <2>5, <2>6 DEF Work
<1> QED BY <1>2, <1>3

LEMMA PostIsPassive ==
  ASSUME StoreInv, NEW c \in Calls, Post(c)
  PROVE  PassiveStep
<1>1. ASSUME NEW r \in Requests, Create(r) PROVE PassiveStep
  BY <1>1, AdmitIsPassive, RequestsAssumption DEF Create
<1>2. ASSUME NEW j \in JobIds, Retry(j) PROVE PassiveStep
  <2>1. PICK k \in Attempts : /\ jobs[RetryId[j][k]].status = "absent"
                             /\ Admit(RetryId[j][k], jobs[j].request, j)
    BY <1>2 DEF Retry
  <2> QED BY <2>1, AdmitIsPassive, RequestsAssumption
<1>3. CASE UNCHANGED storeVars
  BY <1>3, TableUntouchedIsPassive DEF storeVars
<1> QED BY <1>1, <1>2, <1>3 DEF Post, PostNew, PostReplay, PostRetry

LEMMA EnvironmentIsPassive ==
  ASSUME StoreInv, Environment
  PROVE  PassiveStep
<1>1. ASSUME NEW j \in JobIds, Cancel(j) PROVE PassiveStep
  <2>1. jobs[j].status \in ActiveStatus
    BY <1>1 DEF Cancel, CancelStatus, StoreInv, TypeOK, JobRecord, Status
  <2>2. CancelStatus(jobs[j].status) = "cancelled"
    BY <2>1 DEF CancelStatus, ActiveStatus, SettledStatus
  <2>3. CanMove(jobs[j].status, "cancelled")
    BY <2>1 DEF CanMove, TransitionTable, ActiveStatus
  <2> QED BY <1>1, <2>2, <2>3, MoveIsPassive DEF Cancel
<1>2. ASSUME NEW j \in JobIds, Delete(j) PROVE PassiveStep
  BY <1>2, DeleteArtifactIsPassive, TableUntouchedIsPassive DEF Delete, DeleteAgain
<1>3. ASSUME NEW j \in JobIds, EvaluateExpiry(j) PROVE PassiveStep
  BY <1>3, EvaluateExpiryIsPassive
<1>4. ASSUME NEW j \in JobIds, NEW n \in Runs, Elapse(j, n) PROVE PassiveStep
  BY <1>4, TableUntouchedIsPassive DEF Elapse
<1>5. CASE SweepExpired
  BY <1>5, SweepIsPassive
<1>6. CASE Restart
  BY <1>6, RestartIsPassive
<1> QED BY <1>1, <1>2, <1>3, <1>4, <1>5, <1>6 DEF Environment, CancelTrainingJob, Read,
           RetentionEnds, Sweep, RestartServer

-----------------------------------------------------------------------------
(***************************************************************************)
(* What any step of the service does to the calls, runs, keys and bytes.   *)
(***************************************************************************)
CallKeeps(c) == stage'[c] = stage[c] /\ target'[c] = target[c] /\ uploads'[c] = uploads[c]

CallEnters(c) == stage[c] = "idle" /\ stage'[c] = "admitted" /\ uploads'[c] = uploads[c]

CallIsLost(c) == /\ stage'[c] = IF stage[c] = "idle" THEN "idle" ELSE "done"
                 /\ target'[c] = target[c] /\ uploads'[c] = {}

CallWorks(c) == Work(c) /\ StageEntry(c) /\ target'[c] = target[c]

LEMMA CallEffect ==
  ASSUME CallInv, [ServiceNext]_vars, NEW c \in Calls
  PROVE  CallKeeps(c) \/ CallEnters(c) \/ CallIsLost(c) \/ CallWorks(c)
<1> USE DEF CallInv
<1>1. ASSUME NEW d \in Calls, Work(d) PROVE CallKeeps(c) \/ CallWorks(c)
  <2>1. CallMoves(d) /\ StageEntry(d)
    BY <1>1, WorkMovesTheCall, WorkStages
  <2>2. CASE c = d
    BY <1>1, <2>1, <2>2 DEF CallWorks, CallMoves
  <2>3. CASE c # d
    <3>1. target' = target /\ stage'[c] = stage[c]
      BY <2>1, <2>3 DEF CallMoves, CallsTypeOK
    <3>2. uploads'[c] = uploads[c]
      <4>1. uploads' = uploads \/ BeginUpload(d) \/ RecordKey(d)
        BY <2>1 DEF StageEntry
      <4>2. CASE BeginUpload(d)
        BY <2>3, <4>2 DEF BeginUpload, CallsTypeOK
      <4>3. CASE RecordKey(d)
        BY <2>3, <4>3 DEF RecordKey, CallsTypeOK
      <4> QED BY <4>1, <4>2, <4>3
    <3> QED BY <3>1, <3>2 DEF CallKeeps
  <2> QED BY <2>2, <2>3
<1>2. ASSUME NEW d \in Calls, Post(d) PROVE CallKeeps(c) \/ CallEnters(c)
  <2>1. PICK j \in JobIds : Enter(d, j)
    BY <1>2, PostEnters
  <2> QED BY <2>1 DEF Enter, CallKeeps, CallEnters, CallsTypeOK
<1>3. CASE UNCHANGED callVars
  BY <1>3 DEF callVars, CallKeeps
<1>4. CASE RestartServer
  BY <1>4 DEF RestartServer, CallIsLost
<1> QED BY <1>1, <1>2, <1>3, <1>4 DEF ServiceNext, Environment, CancelTrainingJob, Delete,
           Read, RetentionEnds, Sweep, vars

\* A step that is none of those three of a worker is passive.
LEMMA ServiceCases ==
  ASSUME CallInv, [ServiceNext]_vars
  PROVE  PassiveStep \/ \E c \in Calls : Work(c) /\ (Registers(c) \/ Succeeds(c) \/ RecordsKey(c))
<1> USE DEF CallInv
<1>1. CASE UNCHANGED vars
  BY <1>1, TableUntouchedIsPassive DEF vars, storeVars
<1> QED BY <1>1, WorkCases, PostIsPassive, EnvironmentIsPassive DEF ServiceNext

LEMMA CallsWorkOnJobs ==
  ASSUME CallInv, NEW c \in Calls, Work(c)
  PROVE  target[c] \in JobIds /\ jobs[target[c]].status # "absent"
BY DEF CallInv, CallsHaveJobs, Work, Present

LEMMA PassiveKeepsRuns ==
  ASSUME NEW old, NEW new, Passive(old, new), NEW n \in Runs
  PROVE  (HasRun(new, n) => HasRun(old, n)) /\ (Keyed(new, n) => Keyed(old, n))
BY DEF Passive, HasRun, Keyed, SameBundles, NoNewKeys

\* Only a registration brings a run to a record, and only RecordKey a key.
LEMMA RunsComeFromWorkers ==
  ASSUME CallInv, [ServiceNext]_vars, NEW j \in JobIds, NEW n \in Runs
  PROVE  /\ HasRun(jobs'[j], n) =>
              \/ HasRun(jobs[j], n)
              \/ \E c \in Calls : Register(c) /\ j = target[c] /\ n = BundleOf(c)
         /\ Keyed(jobs'[j], n) =>
              \/ Keyed(jobs[j], n)
              \/ \E c \in Calls : /\ RecordKey(c) /\ j = target[c] /\ n = NextUpload(c)
                                  /\ HasRun(jobs[j], n)
         /\ BytesGoWithRecords
<1>1. CASE PassiveStep
  BY <1>1, PassiveKeepsRuns DEF PassiveStep
<1>2. ASSUME NEW c \in Calls, Work(c), j # target[c], Others(target[c])
      PROVE  /\ HasRun(jobs'[j], n) => HasRun(jobs[j], n)
             /\ Keyed(jobs'[j], n) => Keyed(jobs[j], n)
             /\ BytesGoWithRecords
  BY <1>2, PassiveKeepsRuns DEF Others
<1>3. ASSUME NEW c \in Calls, Work(c), Registers(c), j = target[c]
      PROVE  /\ HasRun(jobs'[j], n) => HasRun(jobs[j], n) \/ n = BundleOf(c)
             /\ Keyed(jobs'[j], n) => Keyed(jobs[j], n)
             /\ Register(c) /\ BytesGoWithRecords
  <2>1. jobs[j] \in JobRecord
    BY DEF CallInv, StoreInv, TypeOK
  <2>2. PICK d \in Datasets :
          jobs'[j].artifacts = jobs[j].artifacts
                                 \cup {[run |-> BundleOf(c), dataset |-> d, keyed |-> FALSE]}
    BY <1>3, <2>1 DEF Registers, JobRecord
  <2>3. \A a \in jobs'[j].artifacts :
          a \in jobs[j].artifacts \/ (a.run = BundleOf(c) /\ a.keyed = FALSE)
    BY <2>2
  <2> QED BY <1>3, <2>3 DEF HasRun, Keyed, Registers, Others
<1>4. ASSUME NEW c \in Calls, Work(c), Succeeds(c), j = target[c]
      PROVE  /\ HasRun(jobs'[j], n) => HasRun(jobs[j], n)
             /\ Keyed(jobs'[j], n) => Keyed(jobs[j], n)
             /\ BytesGoWithRecords
  BY <1>4 DEF Succeeds, SameBundles, NoNewKeys, Others
<1>5. ASSUME NEW c \in Calls, Work(c), RecordsKey(c), j = target[c]
      PROVE  /\ HasRun(jobs'[j], n) => HasRun(jobs[j], n)
             /\ Keyed(jobs'[j], n) => Keyed(jobs[j], n) \/ n = NextUpload(c)
             /\ n = NextUpload(c) => HasRun(jobs[j], n)
             /\ RecordKey(c) /\ BytesGoWithRecords
  BY <1>5 DEF RecordsKey, SameBundles, Others
<1>6. \A c \in Calls : Registers(c) \/ Succeeds(c) \/ RecordsKey(c) => Others(target[c])
  BY DEF Registers, Succeeds, RecordsKey
<1> QED BY <1>1, <1>2, <1>3, <1>4, <1>5, <1>6, ServiceCases

-----------------------------------------------------------------------------
(***************************************************************************)
(* Every success is documented.                                            *)
(***************************************************************************)
Describes(rec) ==
  /\ rec.provenance # None
  /\ rec.provenance.config = ConfigOf[rec.request]
  /\ \E a \in rec.artifacts : a.run = rec.provenance.run /\ a.dataset = rec.provenance.dataset

DocumentedRecord(rec) ==
  rec.status # "deleted" => /\ rec.artifacts # {} => Describes(rec)
                            /\ rec.status = "succeeded" => rec.artifacts # {}

Bundled(rec) == rec.status = "deleted" \/ rec.artifacts # {}

\* A worker marks its job succeeded only when the job has the bundle, and a job
\* with a bundle has the record that describes it.
BundleInv ==
  /\ \A j \in JobIds : DocumentedRecord(jobs[j])
  /\ \A c \in Calls : stage[c] = "registered" => Bundled(jobs[target[c]])

LEMMA SameBundlesAreDescribed ==
  ASSUME NEW old \in JobRecord, NEW new, SameBundles(old, new), Describes(old)
  PROVE  Describes(new)
<1> DEFINE p == old.provenance
<1>1. p \in Provenance
  BY DEF JobRecord, Describes
<1>2. p.run \in Runs /\ p.dataset \in Datasets
  BY <1>1 DEF Provenance
<1>3. \E a \in old.artifacts : a.run = p.run /\ a.dataset = p.dataset
  BY DEF Describes
<1>4. \E a \in new.artifacts : a.run = p.run /\ a.dataset = p.dataset
  BY <1>2, <1>3 DEF SameBundles
<1> QED BY <1>4 DEF Describes, SameBundles

LEMMA PassiveKeepsDocuments ==
  ASSUME NEW old \in JobRecord, NEW new, Passive(old, new), DocumentedRecord(old)
  PROVE  DocumentedRecord(new)
<1>1. CASE new.artifacts = {} /\ new.status \in {"queued", "deleted"}
  BY <1>1 DEF DocumentedRecord
<1>2. CASE /\ SameBundles(old, new)
           /\ old.status = "deleted" => new.status = "deleted"
           /\ new.status = "succeeded" => old.status = "succeeded"
  BY <1>2, SameBundlesAreDescribed DEF DocumentedRecord, SameBundles
<1> QED BY <1>1, <1>2 DEF Passive

LEMMA PassiveKeepsBundles ==
  ASSUME NEW old, NEW new, Passive(old, new), old.status # "absent", Bundled(old)
  PROVE  Bundled(new)
BY DEF Passive, Bundled, SameBundles

LEMMA RegisteredIsDescribed ==
  ASSUME CallInv, NEW c \in Calls, Work(c), Registers(c)
  PROVE  DocumentedRecord(jobs'[target[c]]) /\ Bundled(jobs'[target[c]])
<1> DEFINE j == target[c]
           n == BundleOf(c)
<1>1. jobs[j] \in JobRecord /\ j \in JobIds /\ jobs[j].status # "absent"
  BY CallsWorkOnJobs DEF CallInv, StoreInv, TypeOK
<1>2. n \in Runs
  BY CallsAssumption DEF BundleOf
<1>3. PICK d \in Datasets, k \in Configs :
        /\ jobs[j].request # None => k = ConfigOf[jobs[j].request]
        /\ jobs'[j] = [jobs[j] EXCEPT
                         !.artifacts = @ \cup {[run |-> n, dataset |-> d, keyed |-> FALSE]},
                         !.provenance = [run |-> n, dataset |-> d, config |-> k]]
  BY DEF Registers
<1> HIDE DEF n, j
<1>4. /\ jobs'[j].status = jobs[j].status /\ jobs'[j].request = jobs[j].request
      /\ jobs'[j].provenance = [run |-> n, dataset |-> d, config |-> k]
      /\ [run |-> n, dataset |-> d, keyed |-> FALSE] \in jobs'[j].artifacts
  BY <1>1, <1>3 DEF JobRecord
<1>5. jobs'[j].provenance # None
  BY <1>2, <1>4, NoneAssumption
<1>6. jobs[j].status # "deleted" => k = ConfigOf[jobs[j].request]
  BY <1>1, <1>3 DEF CallInv, StoreInv, OnlyTombstonesLackRequest, Present
<1>7. jobs'[j].status # "deleted" => Describes(jobs'[j])
  BY <1>4, <1>5, <1>6 DEF Describes
<1> QED BY <1>4, <1>7 DEF DocumentedRecord, Bundled, j

LEMMA ServiceKeepsBundles ==
  ASSUME CallInv, BundleInv, [ServiceNext]_vars
  PROVE  BundleInv'
<1>1. \A j \in JobIds : jobs[j] \in JobRecord /\ DocumentedRecord(jobs[j])
  BY DEF CallInv, StoreInv, TypeOK, BundleInv
<1>2. ASSUME NEW c \in Calls, Succeeds(c)
      PROVE  DocumentedRecord(jobs'[target[c]]) /\ Bundled(jobs'[target[c]])
  <2>1. stage[c] = "registered"
    BY <1>2, WorkerMovesStage DEF Succeeds, Succeed, CallInv
  <2>2. target[c] \in JobIds
    BY <2>1 DEF CallInv, CallsHaveJobs, Present
  <2>3. jobs[target[c]].artifacts # {} /\ jobs[target[c]].status # "deleted"
    BY <1>2, <2>1 DEF BundleInv, Bundled, Succeeds, ActiveStatus
  <2>4. Describes(jobs[target[c]])
    BY <1>1, <2>2, <2>3 DEF DocumentedRecord
  <2>5. Describes(jobs'[target[c]])
    BY <1>1, <1>2, <2>2, <2>4, SameBundlesAreDescribed DEF Succeeds
  <2> QED BY <1>2, <2>3, <2>5 DEF DocumentedRecord, Bundled, Succeeds, SameBundles
<1>3. ASSUME NEW c \in Calls, Work(c), RecordsKey(c)
      PROVE  DocumentedRecord(jobs'[target[c]])
             /\ (Bundled(jobs[target[c]]) => Bundled(jobs'[target[c]]))
  <2>1. /\ SameBundles(jobs[target[c]], jobs'[target[c]])
        /\ jobs'[target[c]].status = jobs[target[c]].status
    BY <1>3 DEF RecordsKey
  <2>2. target[c] \in JobIds
    BY <1>3, CallsWorkOnJobs
  <2> QED BY <1>1, <2>1, <2>2, SameBundlesAreDescribed DEF DocumentedRecord, Bundled, SameBundles
<1>4. \A c \in Calls : Registers(c) \/ Succeeds(c) \/ RecordsKey(c) => Others(target[c])
  BY DEF Registers, Succeeds, RecordsKey
<1>5. ASSUME NEW j \in JobIds
      PROVE  /\ DocumentedRecord(jobs'[j])
             /\ jobs[j].status # "absent" /\ Bundled(jobs[j]) => Bundled(jobs'[j])
  <2>1. CASE Passive(jobs[j], jobs'[j])
    BY <1>1, <2>1, PassiveKeepsDocuments, PassiveKeepsBundles
  <2>2. CASE ~Passive(jobs[j], jobs'[j])
    <3>1. PICK c \in Calls : Work(c) /\ (Registers(c) \/ Succeeds(c) \/ RecordsKey(c))
      BY <2>2, ServiceCases DEF PassiveStep
    <3>2. j = target[c]
      BY <1>4, <2>2, <3>1 DEF Others
    <3> QED BY <1>2, <1>3, <3>1, <3>2, RegisteredIsDescribed
  <2> QED BY <2>1, <2>2
<1>6. ASSUME NEW c \in Calls, Work(c), Register(c)
      PROVE  Bundled(jobs'[target[c]])
  <2>1. target[c] \in JobIds /\ jobs[target[c]].status # "absent"
    BY <1>6, CallsWorkOnJobs
  <2>2. CASE HasRun(jobs[target[c]], BundleOf(c))
    BY <1>5, <2>1, <2>2 DEF HasRun, Bundled
  <2>3. CASE ~HasRun(jobs[target[c]], BundleOf(c))
    <3>1. Registers(c)
      BY <1>6, <2>1, <2>3, RegisterCases DEF CallInv
    <3> QED BY <1>6, <3>1, RegisteredIsDescribed
  <2> QED BY <2>2, <2>3
<1>7. ASSUME NEW c \in Calls, stage'[c] = "registered"
      PROVE  Bundled(jobs'[target'[c]])
  <2>1. CASE CallKeeps(c)
    <3>1. target'[c] = target[c] /\ target[c] \in Present(jobs) /\ Bundled(jobs[target[c]])
      BY <1>7, <2>1 DEF CallKeeps, BundleInv, CallInv, CallsHaveJobs
    <3> QED BY <1>5, <3>1 DEF Present
  <2>2. CASE CallWorks(c)
    BY <1>6, <1>7, <2>2 DEF CallWorks, StageEntry
  <2>3. ~CallEnters(c) /\ ~CallIsLost(c)
    BY <1>7 DEF CallEnters, CallIsLost
  <2> QED BY <2>1, <2>2, <2>3, CallEffect
<1> QED BY <1>5, <1>7 DEF BundleInv

-----------------------------------------------------------------------------
(***************************************************************************)
(* What is recorded as stored is stored.  A call records a key after it    *)
(* sent the bytes; in between, a deletion may take both the artifact and   *)
(* the bytes away.  The artifact cannot come back with the bytes gone: its *)
(* name is that of the call that made it, which registers nothing again.   *)
(***************************************************************************)
RunsAreTheirCalls ==
  \A j \in GpuJobs, n \in Runs : HasRun(jobs[j], n) => n \in Calls /\ stage[n] \in Past

UploadsAreRegistered ==
  \A c \in Calls : \A n \in uploads[c] :
    stage[c] # "idle" /\ target[c] \in GpuJobs /\ n \in Calls /\ stage[n] \in Past

SentIsThere ==
  \A c \in Calls : stage[c] = "sent" =>
    LET n == NextUpload(c)
    IN  uploads[c] # {} /\ (<<target[c], n>> \in blobs \/ ~HasRun(jobs[target[c]], n))

KeyInv == RunsAreTheirCalls /\ UploadsAreRegistered /\ SentIsThere /\ KeyedIsStored

\* A call that is past its registration stays so.
LEMMA PastStays ==
  ASSUME CallInv, [ServiceNext]_vars, NEW c \in Calls, stage[c] \in Past
  PROVE  stage'[c] \in Past
<1>1. stage[c] # "idle" /\ "done" \in Past
  BY DEF Past
<1> QED BY <1>1, CallEffect DEF CallKeeps, CallEnters, CallIsLost, CallWorks, StageEntry

\* Register() takes a call from "built" to "registered".
LEMMA RegisterStages ==
  ASSUME CallInv, NEW c \in Calls, Register(c)
  PROVE  stage[c] = "built" /\ stage'[c] = "registered" /\ stage[c] \notin Past
BY DEF Register, Goto, CallInv, CallsTypeOK, Past

LEMMA ServiceKeepsRuns ==
  ASSUME CallInv, RunsAreTheirCalls, [ServiceNext]_vars
  PROVE  RunsAreTheirCalls'
<1> SUFFICES ASSUME NEW j \in GpuJobs, NEW n \in Runs, HasRun(jobs'[j], n)
             PROVE  n \in Calls /\ stage'[n] \in Past
  BY DEF RunsAreTheirCalls, HasRun
<1>1. j \in JobIds
  BY CallsAssumption
<1>2. CASE HasRun(jobs[j], n)
  BY <1>2, PastStays DEF RunsAreTheirCalls
<1>3. ASSUME NEW c \in Calls, Register(c), j = target[c], n = BundleOf(c)
      PROVE  n \in Calls /\ stage'[n] \in Past
  BY <1>3, RegisterStages DEF BundleOf, Past
<1> QED BY <1>1, <1>2, <1>3, RunsComeFromWorkers

LEMMA ServiceKeepsUploads ==
  ASSUME CallInv, RunsAreTheirCalls, UploadsAreRegistered, [ServiceNext]_vars
  PROVE  UploadsAreRegistered'
<1> SUFFICES ASSUME NEW c \in Calls, NEW n \in uploads'[c]
             PROVE  stage'[c] # "idle" /\ target'[c] \in GpuJobs /\ n \in Calls /\ stage'[n] \in Past
  BY DEF UploadsAreRegistered
<1>1. CASE n \in uploads[c] /\ target'[c] = target[c]
  <2>1. stage[c] # "idle" /\ target[c] \in GpuJobs /\ n \in Calls /\ stage[n] \in Past
    BY <1>1 DEF UploadsAreRegistered
  <2>2. stage'[c] # "idle"
    <3>1. CASE CallWorks(c)
      <4>1. CallMoves(c)
        BY <3>1, WorkMovesTheCall DEF CallWorks, CallInv
      <4> QED BY <4>1 DEF CallMoves, CallInv, CallsTypeOK
    <3> QED BY <2>1, <3>1, CallEffect DEF CallKeeps, CallEnters, CallIsLost
  <2> QED BY <1>1, <2>1, <2>2, PastStays
<1>2. CASE CallKeeps(c)
  BY <1>1, <1>2 DEF CallKeeps
<1>3. CASE CallEnters(c)
  BY <1>3 DEF CallEnters, UploadsAreRegistered
<1>4. CASE CallIsLost(c)
  BY <1>4 DEF CallIsLost
<1>5. CASE CallWorks(c)
  <2>1. uploads' = uploads \/ BeginUpload(c) \/ RecordKey(c)
    BY <1>5 DEF CallWorks, StageEntry
  <2>2. CASE uploads' = uploads
    BY <1>1, <1>5, <2>2 DEF CallWorks
  <2>3. CASE RecordKey(c)
    <3>1. uploads'[c] \subseteq uploads[c]
      BY <2>3 DEF RecordKey, CallInv, CallsTypeOK
    <3> QED BY <1>1, <1>5, <3>1 DEF CallWorks
  <2>4. CASE BeginUpload(c)
    <3> DEFINE j == target[c]
               goes == jobs[j].status = "succeeded" /\ j \in tarballs
               todo == {a.run : a \in {b \in jobs[j].artifacts : ~b.keyed}}
    <3>1. j \in JobIds /\ uploads \in [Calls -> SUBSET Runs] /\ stage \in [Calls -> Stage]
      BY <1>5, CallsWorkOnJobs DEF CallWorks, CallInv, CallsTypeOK
    <3>2. /\ uploads'[c] = IF goes THEN todo ELSE {}
          /\ stage'[c] = IF goes THEN "sending" ELSE "releasing"
      BY <2>4, <3>1 DEF BeginUpload
    <3>3. j \in GpuJobs /\ n \in todo /\ stage'[c] # "idle"
      BY <3>2 DEF CallInv, CallsTypeOK
    <3>4. HasRun(jobs[j], n)
      BY <3>3 DEF HasRun
    <3>5. n \in Runs
      BY <3>1, <3>4 DEF HasRun, CallInv, StoreInv, TypeOK, JobRecord, Artifact
    <3>6. n \in Calls /\ stage[n] \in Past
      BY <3>3, <3>4, <3>5 DEF RunsAreTheirCalls
    <3> QED BY <1>5, <3>3, <3>6, PastStays DEF CallWorks
  <2> QED BY <2>1, <2>2, <2>3, <2>4
<1> QED BY <1>2, <1>3, <1>4, <1>5, CallEffect

LEMMA ServiceKeepsSent ==
  ASSUME CallInv, UploadsAreRegistered, SentIsThere, [ServiceNext]_vars
  PROVE  SentIsThere'
<1> SUFFICES ASSUME NEW c \in Calls, stage'[c] = "sent"
             PROVE  /\ uploads'[c] # {}
                    /\ \/ <<target'[c], NextUpload(c)'>> \in blobs'
                       \/ ~HasRun(jobs'[target'[c]], NextUpload(c)')
  BY DEF SentIsThere, HasRun
<1> DEFINE j == target[c]
           n == NextUpload(c)
<1>1. ~CallEnters(c) /\ ~CallIsLost(c)
  BY DEF CallEnters, CallIsLost
<1>2. CASE CallWorks(c)
  <2>1. Send(c) /\ target'[c] = j /\ Work(c)
    BY <1>2 DEF CallWorks, StageEntry
  <2>2. uploads' = uploads /\ uploads[c] # {} /\ blobs' = blobs \cup {<<j, n>>}
    BY <2>1 DEF Send, Goto, Upload
  <2>3. NextUpload(c)' = n
    BY <2>2 DEF NextUpload
  <2> QED BY <2>1, <2>2, <2>3
<1>3. CASE CallKeeps(c)
  <2>1. stage[c] = "sent" /\ target'[c] = j /\ uploads'[c] = uploads[c]
    BY <1>3 DEF CallKeeps
  <2>2. NextUpload(c)' = n
    BY <2>1 DEF NextUpload
  <2>3. uploads[c] # {} /\ (<<j, n>> \in blobs \/ ~HasRun(jobs[j], n))
    BY <2>1 DEF SentIsThere
  <2>4. n \in uploads[c] /\ n \in Runs
    BY <2>3, NextUploadIsListed DEF CallInv, CallsTypeOK
  <2>5. j \in GpuJobs /\ stage[n] \in Past
    BY <2>4 DEF UploadsAreRegistered
  <2>6. j \in JobIds
    BY <2>5, CallsAssumption
  <2>7. ASSUME NEW d \in Calls, Register(d), j = target[d], n = BundleOf(d)
        PROVE  FALSE
    <3>1. stage[d] \notin Past /\ n = d
      BY <2>5, <2>7, RegisterStages DEF BundleOf
    <3> QED BY <2>5, <3>1
  <2>8. HasRun(jobs'[j], n) => HasRun(jobs[j], n)
    BY <2>4, <2>6, <2>7, RunsComeFromWorkers
  <2>9. <<j, n>> \in blobs => <<j, n>> \in blobs' \/ ~HasRun(jobs'[j], n)
    BY <2>4, <2>6, RunsComeFromWorkers DEF BytesGoWithRecords, HasRun
  <2> QED BY <2>1, <2>2, <2>3, <2>8, <2>9
<1> QED BY <1>1, <1>2, <1>3, CallEffect

LEMMA ServiceKeepsKeys ==
  ASSUME CallInv, SentIsThere, KeyedIsStored, [ServiceNext]_vars
  PROVE  KeyedIsStored'
<1> SUFFICES ASSUME NEW j \in JobIds, NEW n \in Runs, Keyed(jobs'[j], n)
             PROVE  <<j, n>> \in blobs'
  BY DEF KeyedIsStored, Keyed
<1>1. \/ Keyed(jobs[j], n)
      \/ \E c \in Calls : RecordKey(c) /\ j = target[c] /\ n = NextUpload(c) /\ HasRun(jobs[j], n)
  BY RunsComeFromWorkers
<1>2. ASSUME NEW c \in Calls, RecordKey(c), j = target[c], n = NextUpload(c), HasRun(jobs[j], n)
      PROVE  <<j, n>> \in blobs
  BY <1>2 DEF RecordKey, SentIsThere
<1>3. <<j, n>> \in blobs
  BY <1>1, <1>2 DEF KeyedIsStored
<1>4. jobs'[j].artifacts # {} /\ BytesGoWithRecords
  BY RunsComeFromWorkers DEF Keyed
<1> QED BY <1>3, <1>4 DEF BytesGoWithRecords

-----------------------------------------------------------------------------
(***************************************************************************)
(* With one permit, which is what store.py configures by default, a worker *)
(* that makes a bundle is alone: no other can end its job and let a DELETE *)
(* at it before the bundle is registered.                                  *)
(***************************************************************************)
Making == {"training", "writing", "trained", "built"}

MakersHaveOpenJobs ==
  \A c \in Calls : stage[c] \in Making => jobs[target[c]].status \notin {"succeeded", "deleted"}

AloneInv == TombstoneIsEmpty /\ MakersHaveOpenJobs

LEMMA OneHolder ==
  ASSUME MaxRunning = 1, CallInv, NEW c \in Holders, NEW d \in Holders
  PROVE  c = d
<1> SUFFICES ASSUME c # d PROVE FALSE
  OBVIOUS
<1>1. Cardinality({c, d}) = 2
  <2>1. Cardinality({c}) = 1 /\ IsFiniteSet({c})
    BY FS_Singleton
  <2>2. Cardinality({c} \cup {d}) = Cardinality({c}) + 1
    BY <2>1, FS_AddElement
  <2>3. {c} \cup {d} = {c, d}
    OBVIOUS
  <2> QED BY <2>1, <2>2, <2>3
<1>2. Cardinality({c, d}) <= Cardinality(Holders)
  BY HoldersAreCounted, FS_Subset
<1>3. permits + Cardinality(Holders) = 1 /\ permits \in Nat
  BY HoldersAreCounted DEF CallInv, CallsTypeOK
<1> QED BY <1>1, <1>2, <1>3, HoldersAreCounted

LEMMA RegisteringKeepsStatus ==
  ASSUME CallInv, NEW c \in Calls, target[c] \in JobIds, Registers(c)
  PROVE  jobs'[target[c]].status = jobs[target[c]].status
<1>1. jobs[target[c]] \in JobRecord
  BY DEF CallInv, StoreInv, TypeOK
<1>2. PICK new : \E as, p : /\ jobs'[target[c]] = new
                            /\ new = [jobs[target[c]] EXCEPT !.artifacts = as, !.provenance = p]
  BY DEF Registers
<1> QED BY <1>1, <1>2 DEF JobRecord

\* An open job of one that makes a bundle is not ended by another worker.
LEMMA OpenStaysOpen ==
  ASSUME MaxRunning = 1, CallInv, [ServiceNext]_vars, NEW d \in Calls, stage[d] \in Making,
         jobs[target[d]].status \notin {"succeeded", "deleted"}
  PROVE  jobs'[target[d]].status \notin {"succeeded", "deleted"}
<1> DEFINE j == target[d]
<1>1. j \in JobIds /\ jobs[j].status # "absent" /\ d \in Holders
  BY DEF CallInv, CallsHaveJobs, Present, Making, Holders, Holding
<1>2. Evolves(jobs[j], jobs'[j])
  BY <1>1, ServiceMovesTheStore, NextKeepsInv DEF CallInv, Stable, Present
<1>3. jobs[j].status \in Status
  BY <1>1 DEF CallInv, StoreInv, TypeOK, JobRecord
<1>4. jobs'[j].status # "deleted"
  BY <1>2 DEF Evolves
<1>5. ASSUME NEW c \in Calls, Succeeds(c), j = target[c] PROVE FALSE
  <2>1. stage[c] = "registered"
    BY <1>5, WorkerMovesStage DEF Succeeds, Succeed, CallInv
  <2>2. c \in Holders
    BY <2>1 DEF Holders, Holding
  <2>3. c = d
    BY <1>1, <2>2, OneHolder
  <2> QED BY <2>1, <2>3 DEF Making
<1>6. jobs'[j].status # "succeeded"
  <2>1. CASE PassiveStep
    BY <1>1, <2>1 DEF PassiveStep, Passive
  <2>2. ASSUME NEW c \in Calls, Work(c), Registers(c) \/ Succeeds(c) \/ RecordsKey(c)
        PROVE  jobs'[j].status # "succeeded"
    <3>1. CASE j # target[c]
      BY <1>1, <2>2, <3>1 DEF Registers, Succeeds, RecordsKey, Others, Passive
    <3>2. CASE j = target[c] /\ Registers(c)
      <4>1. jobs'[j].status = jobs[j].status
        BY <1>1, <3>2, RegisteringKeepsStatus
      <4> QED BY <4>1
    <3>3. CASE j = target[c] /\ RecordsKey(c)
      BY <3>3 DEF RecordsKey
    <3> QED BY <1>5, <2>2, <3>1, <3>2, <3>3
  <2> QED BY <2>1, <2>2, ServiceCases
<1> QED BY <1>4, <1>6

LEMMA TombstonesStay ==
  ASSUME CallInv, AloneInv, [ServiceNext]_vars, NEW j \in JobIds, jobs[j].status = "deleted"
  PROVE  jobs'[j] = jobs[j]
<1>1. jobs[j].artifacts = {}
  BY DEF AloneInv, TombstoneIsEmpty, WithStatus
<1>2. CASE Passive(jobs[j], jobs'[j])
  BY <1>1, <1>2 DEF Passive
<1>3. ASSUME NEW c \in Calls, Work(c), Registers(c), j = target[c] PROVE FALSE
  <2>1. stage[c] \in Making
    BY <1>3, RegisterStages DEF Registers, Making
  <2> QED BY <1>3, <2>1 DEF AloneInv, MakersHaveOpenJobs
<1>4. ASSUME NEW c \in Calls, Succeeds(c), j = target[c] PROVE FALSE
  BY <1>4 DEF Succeeds, ActiveStatus
<1>5. ASSUME NEW c \in Calls, RecordsKey(c), j = target[c] PROVE FALSE
  BY <1>1, <1>5 DEF RecordsKey, HasRun
<1> QED BY <1>2, <1>3, <1>4, <1>5, ServiceCases
        DEF PassiveStep, Registers, Succeeds, RecordsKey, Others

LEMMA ServiceKeepsAloneInv ==
  ASSUME MaxRunning = 1, CallInv, AloneInv, [ServiceNext]_vars
  PROVE  AloneInv'
<1>1. TombstoneIsEmpty'
  <2> SUFFICES ASSUME NEW j \in JobIds, jobs'[j].status = "deleted"
               PROVE  jobs'[j].artifacts = {}
    BY DEF TombstoneIsEmpty, WithStatus
  <2>1. CASE jobs[j].status = "deleted"
    BY <2>1, TombstonesStay DEF AloneInv, TombstoneIsEmpty, WithStatus
  <2>2. CASE jobs[j].status # "deleted"
    <3>1. ASSUME NEW c \in Calls, Work(c), Registers(c), j = target[c] PROVE FALSE
      <4>1. jobs'[j].status = jobs[j].status
        BY <3>1, RegisteringKeepsStatus
      <4> QED BY <2>2, <4>1
    <3>2. ASSUME NEW c \in Calls, Succeeds(c) \/ RecordsKey(c), j = target[c] PROVE FALSE
      BY <2>2, <3>2 DEF Succeeds, RecordsKey
    <3>3. Passive(jobs[j], jobs'[j])
      BY <3>1, <3>2, ServiceCases DEF PassiveStep, Registers, Succeeds, RecordsKey, Others
    <3> QED BY <2>2, <3>3 DEF Passive
  <2> QED BY <2>1, <2>2
<1>2. ASSUME NEW c \in Calls, stage'[c] \in Making
      PROVE  jobs'[target'[c]].status \notin {"succeeded", "deleted"}
  <2>1. CASE CallKeeps(c)
    <3>1. stage[c] \in Making /\ target'[c] = target[c]
      BY <1>2, <2>1 DEF CallKeeps
    <3>2. jobs[target[c]].status \notin {"succeeded", "deleted"}
      BY <3>1 DEF AloneInv, MakersHaveOpenJobs
    <3> QED BY <3>1, <3>2, OpenStaysOpen
  <2>2. CASE CallWorks(c)
    <3>1. target'[c] = target[c] /\ target[c] \in JobIds
      BY <2>2, CallsWorkOnJobs DEF CallWorks
    <3>2. MarkRunning(c) \/ BeginTraining(c) \/ FinishTraining(c) \/ Build(c)
      BY <1>2, <2>2 DEF CallWorks, StageEntry, Making
    <3>3. CASE MarkRunning(c)
      <4>1. stage'[c] # "releasing"
        BY <1>2 DEF Making
      <4>2. \/ UpdateStatus(target[c], "running")
            \/ jobs[target[c]].status = "running" /\ UNCHANGED storeVars
        BY <3>3, <4>1 DEF MarkRunning, WorkerMoves, Goto, CallInv, CallsTypeOK
      <4>3. "running" \in Status \ {"queued", "deleted"}
        BY DEF Status, ActiveStatus
      <4>4. jobs'[target[c]].status = "running"
        BY <3>1, <4>2, <4>3, MoveEffect DEF UpdateStatus, CallInv, storeVars
      <4> QED BY <3>1, <4>4
    <3>4. CASE BeginTraining(c) \/ FinishTraining(c) \/ Build(c)
      <4>1. stage[c] \in Making /\ jobs' = jobs
        BY <3>4 DEF BeginTraining, FinishTraining, Build, Goto, Making, storeVars
      <4> QED BY <3>1, <4>1 DEF AloneInv, MakersHaveOpenJobs
    <3> QED BY <3>2, <3>3, <3>4
  <2>3. ~CallEnters(c) /\ ~CallIsLost(c)
    BY <1>2 DEF CallEnters, CallIsLost, Making
  <2> QED BY <2>1, <2>2, <2>3, CallEffect
<1> QED BY <1>1, <1>2 DEF AloneInv, MakersHaveOpenJobs

-----------------------------------------------------------------------------
(***************************************************************************)
(* Theorems about the behaviours of the service.                           *)
(***************************************************************************)
LEMMA CallInvariant == ServiceSpec => []CallInv
<1>1. ServiceInit => CallInv
  BY CallInvInitially
<1>2. CallInv /\ [ServiceNext]_vars => CallInv'
  BY ServiceKeepsCallInv
<1> QED BY <1>1, <1>2, PTL DEF ServiceSpec

\* Type correctness of the service's state; that the permits never exceed
\* max_concurrent_running follows from their conservation.
THEOREM ServiceTypeCorrectness == ServiceSpec => []ServiceTypeOK
<1>1. CallInv => ServiceTypeOK
  <2> SUFFICES ASSUME CallInv PROVE ServiceTypeOK
    OBVIOUS
  <2>1. permits + Cardinality(Holders) = MaxRunning
    BY HoldersAreCounted DEF CallInv
  <2>2. permits \in Nat /\ Cardinality(Holders) \in Nat /\ MaxRunning \in Nat
    BY HoldersAreCounted, LimitsAssumption DEF CallInv, CallsTypeOK
  <2>3. permits \in 0 .. MaxRunning
    BY <2>1, <2>2
  <2> QED BY <2>3, CallsAssumption DEF CallInv, StoreInv, CallsTypeOK, ServiceTypeOK
<1> QED BY <1>1, CallInvariant, PTL

\* The semaphore of _run_if_configured() neither leaks a permit nor gives one
\* back twice, on any path and for any number of permits and calls.
THEOREM PermitsAreKept == ServiceSpec => []PermitsAreConserved
<1>1. CallInv => PermitsAreConserved
  BY DEF CallInv
<1> QED BY <1>1, CallInvariant, PTL

\* The service uses the store only through its operations: every behaviour of
\* the threads, clients, timers and restarts is one of the job store.
THEOREM ServiceImplementsStore == ServiceSpec => ImplementsStore
<1>1. ServiceInit => Init
  BY DEF ServiceInit
<1>2. CallInv /\ [ServiceNext]_vars => [Next]_storeVars
  BY ServiceMovesTheStore DEF CallInv
<1> QED BY <1>1, <1>2, CallInvariant, PTL DEF ServiceSpec, ImplementsStore, Spec

\* A succeeded job has the provenance record of one of its bundles, with the
\* configuration of its own request, whatever happens on the way there.
THEOREM SuccessIsDocumented == ServiceSpec => []SucceededIsDocumented
<1>1. ServiceInit => BundleInv
  BY DEF ServiceInit, Init, AbsentJob, BundleInv, DocumentedRecord
<1>2. CallInv /\ BundleInv /\ [ServiceNext]_vars => BundleInv'
  BY ServiceKeepsBundles
<1>3. BundleInv => SucceededIsDocumented
  BY DEF BundleInv, DocumentedRecord, Describes, SucceededIsDocumented, WithStatus
<1> QED BY <1>1, <1>2, <1>3, CallInvariant, PTL DEF ServiceSpec

\* Whatever interleaving of uploads, deletions, retention and restarts: an
\* artifact with a storage key has its bytes in the storage.
THEOREM KeysNameStoredBytes == ServiceSpec => []KeyedIsStored
<1>1. ServiceInit => KeyInv
  <2> SUFFICES ASSUME ServiceInit PROVE KeyInv
    OBVIOUS
  <2>1. \A j \in JobIds : jobs[j].artifacts = {}
    BY DEF ServiceInit, Init, AbsentJob
  <2>2. \A c \in Calls : stage[c] = "idle" /\ uploads[c] = {}
    BY DEF ServiceInit
  <2>3. RunsAreTheirCalls /\ KeyedIsStored
    BY <2>1, CallsAssumption DEF RunsAreTheirCalls, KeyedIsStored, HasRun, Keyed
  <2>4. UploadsAreRegistered /\ SentIsThere
    BY <2>2 DEF UploadsAreRegistered, SentIsThere
  <2> QED BY <2>3, <2>4 DEF KeyInv
<1>2. CallInv /\ KeyInv /\ [ServiceNext]_vars => KeyInv'
  BY ServiceKeepsRuns, ServiceKeepsUploads, ServiceKeepsSent, ServiceKeepsKeys DEF KeyInv
<1>3. KeyInv => KeyedIsStored
  BY DEF KeyInv
<1> QED BY <1>1, <1>2, <1>3, CallInvariant, PTL DEF ServiceSpec

\* With the single permit that is the default, no worker that still holds a
\* deleted job gives it content back, and nothing else touches a tombstone.
THEOREM TombstonesAreFinal ==
  ASSUME MaxRunning = 1
  PROVE  ServiceSpec => TombstoneIsFinal
<1> DEFINE Final == \A j \in JobIds : jobs[j].status = "deleted" => jobs'[j] = jobs[j]
<1>1. ServiceInit => AloneInv
  BY DEF ServiceInit, Init, AbsentJob, AloneInv, TombstoneIsEmpty, WithStatus,
     MakersHaveOpenJobs, Making
<1>2. CallInv /\ AloneInv /\ [ServiceNext]_vars => AloneInv'
  BY ServiceKeepsAloneInv
<1>3. CallInv /\ AloneInv /\ [ServiceNext]_vars => [Final]_vars
  BY TombstonesStay
<1>4. TombstoneIsFinal <=> [][Final]_vars
  BY DEF TombstoneIsFinal
<1> HIDE DEF Final
<1> QED BY <1>1, <1>2, <1>3, <1>4, CallInvariant, PTL DEF ServiceSpec
=============================================================================
