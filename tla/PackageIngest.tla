--------------------------- MODULE PackageIngest ----------------------------
(***************************************************************************)
(* write_package_files() (package_ingest.py) of concurrent ingest calls of *)
(* one dataset, and the GPU worker that reads the package: its rows when a *)
(* run starts, its hash when the run ends.  Every ingest of the dataset    *)
(* works in the same temporary directory, `<id>.tmp-ingest`, without a     *)
(* lock; an OSError of a file operation ends the call.                     *)
(*                                                                         *)
(* A directory is named by the ingest that made it, a file's content by    *)
(* the ingest that wrote it.  A file is written in two steps: it is opened *)
(* at the temporary path, which truncates it, and written through its      *)
(* descriptor, into whatever directory it has come to by then.  mkdir,     *)
(* open, unlink, rmdir, rename and a write that nobody disturbs are        *)
(* atomic; shutil.rmtree is the sequence of its unlinks and its rmdir.     *)
(***************************************************************************)
EXTENDS Naturals, FiniteSets

CONSTANTS
  Ingests,     \* the ingest calls, which bound a behaviour
  Trainings,   \* the runs of GPU workers on the dataset
  None         \* a missing file or directory, an unknown content

ASSUME IngestAssumption ==
  None \notin Ingests \cup {"partial"} /\ "partial" \notin Ingests

VARIABLES
  step,      \* the next file operation of an ingest
  clearing,  \* the directory its rmtree has opened, the files left to unlink
  accepted,  \* history: ingests that were answered
  alone,     \* history: ingests that nothing has overlapped or broken off
  tmp,       \* the directory at the temporary path
  package,   \* the directory at the package path
  files,     \* the files of every directory
  pen,       \* the directory of the file that an ingest has open for writing
  training,  \* the stage of a training run
  source,    \* history: the directory that it has read its rows in
  rows,      \* the content it trains on
  hashed     \* the content whose hash goes into its provenance

callVars == <<clearing, accepted, alone>>
fileVars == <<tmp, package, files, pen>>
trainingVars == <<training, source, rows, hashed>>
vars == <<step, callVars, fileVars, trainingVars>>

Files == {"train", "manifest"}

\* "partial": empty, cut short, or of the bytes of two ingests.
Content == Ingests \cup {None, "partial"}

\* `dir`: where the open file is, None once it is unlinked.  `sole`: no other
\* ingest has had it open at the same time.
NoPen == [dir |-> None, sole |-> TRUE]

Filling == [train |-> "fillTrain", manifest |-> "fillManifest"]

Writes(i, dir, f) == step[i] = Filling[f] /\ pen[i].dir = dir

NoFiles == [f \in Files |-> None]

Holds(dir) == {f \in Files : files[dir][f] # None}

\* rmdir() removes a directory that is empty, rename() replaces it.
IsEmpty(dir) == dir # None /\ Holds(dir) = {}

Replaceable(dir) == dir # None => IsEmpty(dir)

PackageRows == IF package = None THEN None ELSE files[package].train

\* What a reader of the package may get: a write under way may show.
Readable ==
  IF package # None /\ \E i \in Ingests : Writes(i, package, "train")
  THEN {PackageRows, "partial"} ELSE {PackageRows}

Init ==
  /\ step = [i \in Ingests |-> "idle"]
  /\ clearing = [i \in Ingests |-> [dir |-> None, left |-> {}]]
  /\ accepted = {}
  /\ alone = Ingests
  /\ tmp = None
  /\ package = None
  /\ files = [i \in Ingests |-> NoFiles]
  /\ pen = [i \in Ingests |-> NoPen]
  /\ training = [t \in Trainings |-> "idle"]
  /\ source = [t \in Trainings |-> None]
  /\ rows = [t \in Trainings |-> None]
  /\ hashed = [t \in Trainings |-> None]

\* The operation of ingest i at `from` succeeds and leads to `to`.
Step(i, from, to) ==
  /\ step[i] = from
  /\ step' = [step EXCEPT ![i] = to]
  /\ UNCHANGED trainingVars

UnderWay == {i \in Ingests : step[i] \notin {"idle", "done", "crashed"}}

Begin(i) ==
  /\ Step(i, "idle", "checkTmp")
  /\ alone' = IF UnderWay = {} THEN alone ELSE alone \ (UnderWay \cup {i})
  /\ UNCHANGED <<clearing, accepted, fileVars>>

\* Faulty variant: what an earlier ingest left behind is not looked for.
CheckNothing(i) ==
  /\ Step(i, "checkTmp", "makeTmp")
  /\ UNCHANGED <<callVars, fileVars>>

CheckTmp(i) ==
  /\ Step(i, "checkTmp", IF tmp # None THEN "clearTmp" ELSE "makeTmp")
  /\ UNCHANGED <<callVars, fileVars>>

\* shutil.rmtree() opens the directory and lists it, unlinks what it has listed
\* in the directory it has opened, and removes the directory at the path.
Open(i, dir) ==
  /\ dir # None
  /\ clearing' = [clearing EXCEPT ![i] = [dir |-> dir, left |-> Holds(dir)]]
  /\ UNCHANGED <<accepted, alone, fileVars>>

OpenTmp(i) == Step(i, "clearTmp", "unlinkTmp") /\ Open(i, tmp)

OpenPackage(i) == Step(i, "clearPackage", "unlinkPackage") /\ Open(i, package)

\* A file that is gone already is passed over (or see Raises).
Unlink(i) ==
  /\ step[i] \in {"unlinkTmp", "unlinkPackage"}
  /\ \E f \in clearing[i].left :
       /\ clearing' = [clearing EXCEPT ![i].left = @ \ {f}]
       /\ files' = [files EXCEPT ![clearing[i].dir][f] = None]
       /\ pen' = [k \in Ingests |-> IF Writes(k, clearing[i].dir, f)
                                   THEN [pen[k] EXCEPT !.dir = None] ELSE pen[k]]
  /\ UNCHANGED <<step, accepted, alone, tmp, package, trainingVars>>

RemoveTmp(i) ==
  /\ clearing[i].left = {} /\ IsEmpty(tmp)
  /\ Step(i, "unlinkTmp", "makeTmp")
  /\ tmp' = None
  /\ UNCHANGED <<callVars, package, files, pen>>

RemovePackage(i) ==
  /\ clearing[i].left = {} /\ IsEmpty(package)
  /\ Step(i, "unlinkPackage", "rename")
  /\ package' = None
  /\ UNCHANGED <<callVars, tmp, files, pen>>

MakeTmp(i) ==
  /\ tmp = None
  /\ Step(i, "makeTmp", "writeTrain")
  /\ tmp' = i
  /\ UNCHANGED <<callVars, package, files, pen>>

\* write_bytes() and write_text() open the file at the temporary path, which
\* truncates the one that is there, and another ingest may be writing to.
Create(i, f, from) ==
  LET others == {k \in Ingests \ {i} : Writes(k, tmp, f)}
  IN  /\ tmp # None
      /\ Step(i, from, Filling[f])
      /\ files' = [files EXCEPT ![tmp][f] = "partial"]
      /\ pen' = [k \in Ingests |->
                   CASE k = i -> [dir |-> tmp, sole |-> others = {}]
                     [] k \in others -> [pen[k] EXCEPT !.sole = FALSE]
                     [] OTHER -> pen[k]]
      /\ UNCHANGED <<callVars, tmp, package>>

\* The bytes go to where the open file is by now.  Those of two ingests that
\* have had it open together may be mixed.
Fill(i, f, to) ==
  LET dir == pen[i].dir
  IN  /\ Step(i, Filling[f], to)
      /\ \E c \in IF pen[i].sole THEN {i} ELSE {i, "partial"} :
           files' = IF dir = None THEN files ELSE [files EXCEPT ![dir][f] = c]
      /\ pen' = [pen EXCEPT ![i] = NoPen]
      /\ UNCHANGED <<callVars, tmp, package>>

CreateTrain(i) == Create(i, "train", "writeTrain")

\* Faulty variant: the rows go into a package that is there already, too.
FillTrainInPlace(i) ==
  /\ Step(i, "fillTrain", "writeManifest")
  /\ files' = [d \in Ingests |->
                 IF d \in {pen[i].dir, package} THEN [files[d] EXCEPT !.train = i] ELSE files[d]]
  /\ pen' = [pen EXCEPT ![i] = NoPen]
  /\ UNCHANGED <<callVars, tmp, package>>

FillTrain(i) == Fill(i, "train", "writeManifest")

CreateManifest(i) == Create(i, "manifest", "writeManifest")

FillManifest(i) == Fill(i, "manifest", "checkPackage")

CheckPackage(i) ==
  /\ Step(i, "checkPackage", IF package # None THEN "clearPackage" ELSE "rename")
  /\ UNCHANGED <<callVars, fileVars>>

\* Faulty variant: the ingest is answered without the rename.
AnswerEarly(i) ==
  /\ Step(i, "rename", "done")
  /\ accepted' = accepted \cup {i}
  /\ UNCHANGED <<clearing, alone, fileVars>>

Rename(i) ==
  /\ tmp # None /\ Replaceable(package)
  /\ Step(i, "rename", "done")
  /\ package' = tmp
  /\ tmp' = None
  /\ accepted' = accepted \cup {i}
  /\ UNCHANGED <<clearing, alone, files, pen>>

\* The next operation of ingest i raises an OSError.
Fails(i) ==
  \/ step[i] \in {"clearTmp", "writeTrain", "writeManifest"} /\ tmp = None
  \/ step[i] = "makeTmp" /\ tmp # None
  \/ step[i] = "clearPackage" /\ package = None
  \/ step[i] \in {"unlinkTmp", "unlinkPackage"} /\ clearing[i].left \ Holds(clearing[i].dir) # {}
  \/ step[i] = "unlinkTmp" /\ clearing[i].left = {} /\ ~IsEmpty(tmp)
  \/ step[i] = "unlinkPackage" /\ clearing[i].left = {} /\ ~IsEmpty(package)
  \/ step[i] = "rename" /\ ~(tmp # None /\ Replaceable(package))

\* Faulty variant: an error has a step of its own that nothing leaves.
RaisesToLimbo(i) ==
  /\ Fails(i)
  /\ Step(i, step[i], "error")
  /\ UNCHANGED <<callVars, fileVars>>

Raises(i) ==
  /\ Fails(i)
  /\ Step(i, step[i], "done")
  /\ UNCHANGED <<callVars, fileVars>>

\* The ingests of s stop where they are.  What they have open may hold part of
\* their bytes, in whichever directory it is.
Stop(s, end) ==
  /\ \E cut \in SUBSET {df \in Ingests \X Files : \E i \in s : Writes(i, df[1], df[2])} :
       files' = [d \in Ingests |->
                   [f \in Files |-> IF <<d, f>> \in cut THEN "partial" ELSE files[d][f]]]
  /\ step' = [i \in Ingests |-> IF i \in s THEN end ELSE step[i]]
  /\ pen' = [i \in Ingests |-> IF i \in s THEN NoPen ELSE pen[i]]
  /\ UNCHANGED <<clearing, accepted, tmp, package, trainingVars>>

\* An operation fails for a reason of its own, a full disk or a permission.
Breaks(i) ==
  /\ i \in UnderWay
  /\ Stop({i}, "done")
  /\ alone' = alone \ {i}

\* The server process ends in the middle of its ingests; the files stay.
Crash ==
  /\ UnderWay # {}
  /\ Stop(UnderWay, "crashed")
  /\ UNCHANGED alone

-----------------------------------------------------------------------------
\* load_train_jsonl(): a run without a train.jsonl fails; one that finds it cut
\* short fails too, unless what is there parses.
Load(t) ==
  /\ training[t] = "idle"
  /\ \E r \in Readable :
       /\ \E stage \in IF r = None THEN {"failed"}
                       ELSE IF r = "partial" THEN {"failed", "trains"} ELSE {"trains"} :
            training' = [training EXCEPT ![t] = stage]
       /\ rows' = [rows EXCEPT ![t] = r]
       /\ source' = [source EXCEPT ![t] = IF r = None THEN None ELSE package]
  /\ UNCHANGED <<step, callVars, fileVars, hashed>>

\* package_dataset_hash() at the end of the run.
Hash(t) ==
  /\ training[t] = "trains"
  /\ \E r \in Readable :
       /\ training' = [training EXCEPT ![t] = IF r = None THEN "failed" ELSE "ended"]
       /\ hashed' = [hashed EXCEPT ![t] = r]
  /\ UNCHANGED <<step, callVars, fileVars, source, rows>>

Ingest(i) ==
  \/ Begin(i) \/ CheckTmp(i) \/ OpenTmp(i) \/ RemoveTmp(i) \/ MakeTmp(i)
  \/ CreateTrain(i) \/ FillTrain(i) \/ CreateManifest(i) \/ FillManifest(i)
  \/ CheckPackage(i) \/ OpenPackage(i) \/ RemovePackage(i) \/ Rename(i)
  \/ Unlink(i) \/ Raises(i) \/ Breaks(i)

Next ==
  \/ \E i \in Ingests : Ingest(i)
  \/ \E t \in Trainings : Load(t) \/ Hash(t)
  \/ Crash

Spec == Init /\ [][Next]_vars

-----------------------------------------------------------------------------
\* Every variable holds a value of its shape.
TypeOK ==
  /\ step \in [Ingests -> {"idle", "checkTmp", "clearTmp", "unlinkTmp", "makeTmp",
                           "writeTrain", "fillTrain", "writeManifest", "fillManifest",
                           "checkPackage",
                           "clearPackage", "unlinkPackage", "rename", "done", "crashed"}]
  /\ clearing \in [Ingests -> [dir: Ingests \cup {None}, left: SUBSET Files]]
  /\ accepted \subseteq Ingests /\ alone \subseteq Ingests
  /\ {tmp, package} \subseteq Ingests \cup {None}
  /\ files \in [Ingests -> [Files -> Content]]
  /\ pen \in [Ingests -> [dir: Ingests \cup {None}, sole: BOOLEAN]]
  /\ training \in [Trainings -> {"idle", "trains", "failed", "ended"}]
  /\ source \in [Trainings -> Ingests \cup {None}]
  /\ rows \in [Trainings -> Content] /\ hashed \in [Trainings -> Content]

\* An ingest that no other overlaps, and no full disk or permission stops, ends
\* in success and has then published its own rows and manifest, in whatever state
\* earlier, overlapping or interrupted ingests have left the two directories.
LoneIngestSucceeds ==
  [][\A i \in alone :
       step[i] # "done" /\ step'[i] = "done" /\ i \in alone'
         => /\ i \in accepted'
            /\ package' = i
            /\ files'[i] = [f \in Files |-> i]]_vars

\* What such an ingest has published stays its own content, or is missing: the
\* ingests after it, overlapping each other or interrupted, remove its files and
\* do not write among them.
LonePackageIsItsOwn ==
  package \in alone => \A f \in Files : files[package][f] \in {package, None}

\* A run that reads the package of an ingest that no other overlapped trains on
\* the rows of that ingest, whole; and rows of such an ingest are trained on or
\* hashed only if it was answered, never if it was interrupted or is under way.
\* (What ingests that overlap publish may be cut: claim TrainedRowsAreWhole.)
TrainedRowsWereAccepted ==
  \A t \in Trainings :
    /\ source[t] \in alone => rows[t] = source[t]
    /\ {rows[t], hashed[t]} \cap (alone \ accepted) = {}

\* Claim: ingest writes the package atomically, so that no run trains on a cut
\* train.jsonl.
TrainedRowsAreWhole == \A t \in Trainings : training[t] = "trains" => rows[t] # "partial"

\* Claim: ingest writes the package as one, so that its rows and its manifest
\* come from one ingest.
PackageIsOfOneIngest ==
  package # None /\ {files[package].train, files[package].manifest} \subseteq Ingests
    => files[package].manifest = files[package].train

\* Claim: the dataset hash in the provenance of a run is that of the rows that
\* it was trained on.
TrainedRowsAreHashed ==
  \A t \in Trainings : training[t] = "ended" => hashed[t] = rows[t]

\* Claim: a re-ingest replaces the package atomically.
PackageStaysAvailable == [][PackageRows # None => PackageRows' # None]_vars
=============================================================================
