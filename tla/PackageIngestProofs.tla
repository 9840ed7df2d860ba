------------------------- MODULE PackageIngestProofs -------------------------
(***************************************************************************)
(* Proofs about PackageIngest, for any number of ingests of one dataset,   *)
(* overlapping and interrupted in any way: its types, that an ingest which *)
(* no other overlaps succeeds, that its package is not written to by       *)
(* another, and that a run which reads its package trains on all of it and *)
(* nothing else.                                                           *)
(*                                                                         *)
(* Everything follows from who can have made the temporary directory that  *)
(* an ingest finds at the path: when it is not the ingest's own, both have *)
(* overlapped (MadeInv).  So it is with the directory of a file that an    *)
(* ingest has open (PenInv), wherever the directory has been renamed to.   *)
(***************************************************************************)
EXTENDS PackageIngest, TLAPS

Fills == {"fillTrain", "fillManifest"}

Steps ==
  {"idle", "checkTmp", "clearTmp", "unlinkTmp", "makeTmp", "writeTrain", "fillTrain",
   "writeManifest", "fillManifest", "checkPackage", "clearPackage", "unlinkPackage",
   "rename", "done", "crashed"}

\* The steps of an ingest before and after it has made its directory.
Before == {"idle", "checkTmp", "clearTmp", "unlinkTmp", "makeTmp"}

After ==
  {"writeTrain", "fillTrain", "writeManifest", "fillManifest", "checkPackage",
   "clearPackage", "unlinkPackage", "rename"}

Opened == [dir: Ingests \cup {None}, left: SUBSET Files]

Pen == [dir: Ingests \cup {None}, sole: BOOLEAN]

\* An ingest that is alone is the only one under way.
AloneInv == \A i \in alone \cap UnderWay : UnderWay = {i}

\* The directory of an ingest is made once, and empty.
BeforeInv ==
  \A i \in Ingests : step[i] \in Before =>
    /\ tmp # i /\ package # i /\ files[i] = NoFiles
    /\ \A k \in Ingests : pen[k].dir # i

\* A directory at the temporary path that is not of an ingest that has made one
\* was made while that ingest was under way.
MadeInv ==
  \A i \in Ingests : step[i] \in After /\ tmp \notin {i, None} =>
    i \notin alone /\ tmp \notin alone

\* So was the directory of another in which an ingest has a file open.
PenInv ==
  \A i \in Ingests :
    /\ step[i] \notin Fills => pen[i].dir = None
    /\ pen[i].dir \notin {i, None} => i \notin alone /\ pen[i].dir \notin alone

PathInv == tmp # None => tmp # package

\* What one ingest has written into the directory of another, both overlapped.
ContentInv ==
  \A d \in Ingests, f \in Files : files[d][f] \notin {d, None, "partial"} =>
    d \notin alone /\ files[d][f] \notin alone

\* The package of an ingest that was alone is whole, and that ingest is over.
PartialInv == package \in alone => \A f \in Files : files[package][f] # "partial"

PublishedInv == package \in alone => package \in accepted /\ step[package] = "done"

\* What an ingest that is alone finds at each of its steps.
Clears(i, dir) == dir # None /\ clearing[i].dir = dir /\ clearing[i].left = Holds(dir)

FindsItsOwn(i) ==
  /\ step[i] = "clearTmp" => tmp # None
  /\ step[i] = "unlinkTmp" => Clears(i, tmp)
  /\ step[i] = "makeTmp" => tmp = None
  /\ step[i] \in After => tmp = i
  /\ step[i] \in Fills => pen[i].dir = i /\ pen[i].sole
  /\ step[i] \in After \ {"writeTrain", "fillTrain"} => files[i].train = i
  /\ step[i] \in After \ {"writeTrain", "fillTrain", "writeManifest", "fillManifest"} =>
       files[i].manifest = i
  /\ step[i] = "clearPackage" => package # None
  /\ step[i] = "unlinkPackage" => Clears(i, package)
  /\ step[i] = "rename" => package = None

LoneInv == \A i \in alone : FindsItsOwn(i)

\* What holds of the two paths, the directories and their files.
DirsInv ==
  /\ BeforeInv /\ MadeInv /\ PenInv /\ PathInv
  /\ ContentInv /\ PartialInv /\ PublishedInv

IngestInv ==
  TypeOK /\ AloneInv /\ DirsInv /\ LoneInv /\ TrainedRowsWereAccepted

-----------------------------------------------------------------------------
(***************************************************************************)
(* What a step does to the step of its ingest.                             *)
(***************************************************************************)

LEMMA Types ==
  ASSUME TypeOK
  PROVE  /\ step \in [Ingests -> Steps] /\ clearing \in [Ingests -> Opened]
         /\ accepted \subseteq Ingests /\ alone \subseteq Ingests
         /\ tmp \in Ingests \cup {None} /\ package \in Ingests \cup {None}
         /\ files \in [Ingests -> [Files -> Content]] /\ pen \in [Ingests -> Pen]
BY DEF TypeOK, Steps, Opened, Pen

LEMMA StepEffect ==
  ASSUME TypeOK, NEW i \in Ingests, NEW from, NEW to, Step(i, from, to)
  PROVE  /\ step[i] = from /\ step'[i] = to
         /\ \A k \in Ingests \ {i} : step'[k] = step[k]
         /\ DOMAIN step' = Ingests
         /\ UNCHANGED trainingVars
<1>1. step \in [Ingests -> Steps]
  BY Types
<1> QED BY <1>1 DEF Step

\* A step of an ingest that is under way ends in a step of the code.
LEMMA StepTypes ==
  ASSUME TypeOK, NEW i \in Ingests, NEW from, NEW to \in Steps, Step(i, from, to)
  PROVE  step' \in [Ingests -> Steps]
<1>1. step \in [Ingests -> Steps]
  BY Types
<1> QED BY <1>1 DEF Step

\* No ingest makes a directory, and none that is over begins again.
Onward ==
  \A k \in Ingests :
    /\ step'[k] \in Before => step[k] \in Before
    /\ step'[k] \in After => step[k] \in After
    /\ step[k] = "done" => step'[k] = "done"

LEMMA StepOnward ==
  ASSUME TypeOK, NEW i \in Ingests, NEW from, NEW to, Step(i, from, to), from # "done",
         to \in Before => from \in Before, to \in After => from \in After
  PROVE  Onward
BY StepEffect DEF Onward

\* What the directories hold is a set of files.
LEMMA HeldFiles == ASSUME NEW dir PROVE Holds(dir) \in SUBSET Files
  BY DEF Holds

\* A directory that is opened is remembered with the files it holds.
LEMMA OpenEffect ==
  ASSUME TypeOK, NEW i \in Ingests, NEW dir \in Ingests \cup {None}, Open(i, dir)
  PROVE  /\ clearing' \in [Ingests -> Opened]
         /\ dir # None /\ clearing'[i].dir = dir /\ clearing'[i].left = Holds(dir)
         /\ \A k \in Ingests \ {i} : clearing'[k] = clearing[k]
         /\ UNCHANGED <<accepted, alone, fileVars>>
<1>1. clearing \in [Ingests -> Opened]
  BY Types
<1>2. PICK opened : opened = [dir |-> dir, left |-> Holds(dir)]
  OBVIOUS
<1>3. opened \in Opened /\ opened.dir = dir /\ opened.left = Holds(dir)
  BY <1>2, HeldFiles DEF Opened
<1>4. clearing' = [clearing EXCEPT ![i] = opened]
  BY <1>2 DEF Open
<1>5. clearing' \in [Ingests -> Opened]
      /\ clearing'[i] = opened /\ \A k \in Ingests \ {i} : clearing'[k] = clearing[k]
  BY <1>1, <1>3, <1>4
<1> QED BY <1>3, <1>5 DEF Open

\* One file is unlinked of those that were listed, in the directory that was opened.
LEMMA UnlinkEffect ==
  ASSUME TypeOK, NEW i \in Ingests, Unlink(i)
  PROVE  /\ step[i] \in {"unlinkTmp", "unlinkPackage"} /\ step' = step
         /\ UNCHANGED <<accepted, alone, tmp, package, trainingVars>>
         /\ clearing' \in [Ingests -> Opened]
         /\ \A k \in Ingests \ {i} : clearing'[k] = clearing[k]
         /\ files' \in [Ingests -> [Files -> Content]]
         /\ pen' \in [Ingests -> Pen]
         /\ \A k \in Ingests : pen'[k].dir \in {pen[k].dir, None}
         /\ \E f \in clearing[i].left :
              /\ f \in Files
              /\ clearing'[i].dir = clearing[i].dir
              /\ clearing'[i].left = clearing[i].left \ {f}
              /\ \A d \in Ingests, g \in Files :
                   files'[d][g] = IF d = clearing[i].dir /\ g = f THEN None ELSE files[d][g]
<1>1. /\ clearing \in [Ingests -> Opened] /\ files \in [Ingests -> [Files -> Content]]
      /\ pen \in [Ingests -> Pen]
  BY Types
<1>2. PICK f \in clearing[i].left :
        /\ clearing' = [clearing EXCEPT ![i].left = @ \ {f}]
        /\ files' = [files EXCEPT ![clearing[i].dir][f] = None]
        /\ pen' = [k \in Ingests |-> IF Writes(k, clearing[i].dir, f)
                                     THEN [pen[k] EXCEPT !.dir = None] ELSE pen[k]]
  BY DEF Unlink
<1>3. f \in Files /\ None \in Content
  BY <1>1 DEF Content, Opened
<1>4. PICK rest : rest = [clearing[i] EXCEPT !.left = @ \ {f}]
  OBVIOUS
<1>5. rest \in Opened /\ rest.dir = clearing[i].dir /\ rest.left = clearing[i].left \ {f}
  BY <1>1, <1>4 DEF Opened
<1>6. clearing' = [clearing EXCEPT ![i] = rest]
  BY <1>2, <1>4
<1>7. /\ clearing' \in [Ingests -> Opened] /\ clearing'[i] = rest
      /\ \A k \in Ingests \ {i} : clearing'[k] = clearing[k]
  BY <1>1, <1>5, <1>6
<1>8. files' \in [Ingests -> [Files -> Content]]
  BY <1>1, <1>2, <1>3
<1>9. \A d \in Ingests, g \in Files :
        files'[d][g] = IF d = clearing[i].dir /\ g = f THEN None ELSE files[d][g]
  BY <1>1, <1>2, <1>3
<1>10. ASSUME NEW k \in Ingests
       PROVE  pen'[k] \in Pen /\ pen'[k].dir \in {pen[k].dir, None}
  <2>1. pen[k] \in Pen
    BY <1>1
  <2>2. pen'[k] = [pen[k] EXCEPT !.dir = None] \/ pen'[k] = pen[k]
    BY <1>2
  <2> QED BY <2>1, <2>2 DEF Pen
<1>11. pen' \in [Ingests -> Pen]
  BY <1>2, <1>10
<1>12. /\ step[i] \in {"unlinkTmp", "unlinkPackage"} /\ step' = step
       /\ UNCHANGED <<accepted, alone, tmp, package, trainingVars>>
  BY DEF Unlink
<1> QED BY <1>3, <1>5, <1>7, <1>8, <1>9, <1>10, <1>11, <1>12

\* A file is truncated or made in the directory at the temporary path.
LEMMA CreateEffect ==
  ASSUME TypeOK, NEW i \in Ingests, NEW f \in Files, NEW from, Create(i, f, from)
  PROVE  /\ tmp \in Ingests
         /\ Step(i, from, Filling[f])
         /\ files' \in [Ingests -> [Files -> Content]]
         /\ \A d \in Ingests, g \in Files :
              files'[d][g] = IF d = tmp /\ g = f THEN "partial" ELSE files[d][g]
         /\ pen' \in [Ingests -> Pen]
         /\ pen'[i].dir = tmp
         /\ pen'[i].sole <=> \A k \in Ingests \ {i} : ~Writes(k, tmp, f)
         /\ \A k \in Ingests \ {i} : pen'[k].dir = pen[k].dir
         /\ UNCHANGED <<callVars, tmp, package>>
<1> DEFINE others == {k \in Ingests \ {i} : Writes(k, tmp, f)}
           new == [dir |-> tmp, sole |-> others = {}]
<1>1. /\ files \in [Ingests -> [Files -> Content]] /\ tmp \in Ingests /\ "partial" \in Content
      /\ pen \in [Ingests -> Pen]
  BY Types DEF Create, Content
<1>2. /\ files' = [files EXCEPT ![tmp][f] = "partial"]
      /\ pen' = [k \in Ingests |->
                   CASE k = i -> new
                     [] k \in others -> [pen[k] EXCEPT !.sole = FALSE]
                     [] OTHER -> pen[k]]
      /\ Step(i, from, Filling[f]) /\ UNCHANGED <<callVars, tmp, package>>
  BY DEF Create
<1>3. /\ files' \in [Ingests -> [Files -> Content]]
      /\ \A d \in Ingests, g \in Files :
           files'[d][g] = IF d = tmp /\ g = f THEN "partial" ELSE files[d][g]
  BY <1>1, <1>2
<1>4. new \in Pen /\ new.dir = tmp /\ (new.sole <=> others = {})
  BY <1>1 DEF Pen
<1>5. others = {} <=> \A k \in Ingests \ {i} : ~Writes(k, tmp, f)
  OBVIOUS
<1>6. pen'[i] = new
  BY <1>2
<1> HIDE DEF others, new
<1>7. ASSUME NEW k \in Ingests \ {i} PROVE pen'[k] \in Pen /\ pen'[k].dir = pen[k].dir
  <2>1. pen[k] \in Pen
    BY <1>1
  <2>2. pen'[k] = [pen[k] EXCEPT !.sole = FALSE] \/ pen'[k] = pen[k]
    BY <1>2
  <2> QED BY <2>1, <2>2 DEF Pen
<1>8. pen' \in [Ingests -> Pen]
  BY <1>2, <1>4, <1>6, <1>7
<1> QED BY <1>1, <1>2, <1>3, <1>4, <1>5, <1>6, <1>7, <1>8

\* A file gets its bytes where it is, or nowhere.
LEMMA FillEffect ==
  ASSUME TypeOK, NEW i \in Ingests, NEW f \in Files, NEW to, Fill(i, f, to)
  PROVE  /\ Step(i, Filling[f], to)
         /\ files' \in [Ingests -> [Files -> Content]]
         /\ \E c \in {i, "partial"} :
              /\ pen[i].sole => c = i
              /\ \A d \in Ingests, g \in Files :
                   files'[d][g] = IF d = pen[i].dir /\ g = f THEN c ELSE files[d][g]
         /\ pen' \in [Ingests -> Pen]
         /\ pen'[i].dir = None
         /\ \A k \in Ingests \ {i} : pen'[k].dir = pen[k].dir
         /\ UNCHANGED <<callVars, tmp, package>>
<1>1. /\ files \in [Ingests -> [Files -> Content]] /\ pen \in [Ingests -> Pen]
      /\ {i, "partial"} \subseteq Content /\ NoPen \in Pen /\ NoPen.dir = None
  BY Types DEF Content, NoPen, Pen
<1>2. pen[i].dir \in Ingests \cup {None} /\ pen[i].sole \in BOOLEAN
  BY <1>1 DEF Pen
<1>3. PICK c \in {i, "partial"} :
        /\ pen[i].sole => c = i
        /\ files' = IF pen[i].dir = None THEN files ELSE [files EXCEPT ![pen[i].dir][f] = c]
  BY <1>2 DEF Fill
<1>4. /\ Step(i, Filling[f], to) /\ pen' = [pen EXCEPT ![i] = NoPen]
      /\ UNCHANGED <<callVars, tmp, package>>
  BY DEF Fill
<1>5. None \notin Ingests
  BY IngestAssumption
<1>6. files' \in [Ingests -> [Files -> Content]]
  BY <1>1, <1>2, <1>3
<1>7. \A d \in Ingests, g \in Files :
        files'[d][g] = IF d = pen[i].dir /\ g = f THEN c ELSE files[d][g]
  BY <1>1, <1>2, <1>3, <1>5
<1>8. /\ pen' \in [Ingests -> Pen] /\ pen'[i].dir = None
      /\ \A k \in Ingests \ {i} : pen'[k].dir = pen[k].dir
  BY <1>1, <1>4
<1> QED BY <1>3, <1>4, <1>6, <1>7, <1>8

\* The writing of the two files, by name.
LEMMA Writing ==
  ASSUME NEW i
  PROVE  /\ CreateTrain(i) => Create(i, "train", "writeTrain")
         /\ FillTrain(i) => Fill(i, "train", "writeManifest")
         /\ CreateManifest(i) => Create(i, "manifest", "writeManifest")
         /\ FillManifest(i) => Fill(i, "manifest", "checkPackage")
         /\ Filling["train"] = "fillTrain" /\ Filling["manifest"] = "fillManifest"
         /\ "train" \in Files /\ "manifest" \in Files
  BY DEF CreateTrain, FillTrain, CreateManifest, FillManifest, Filling, Files

\* Ingests that stop may leave the files cut short that they have open.
LEMMA StopEffect ==
  ASSUME TypeOK, NEW s \in SUBSET UnderWay, NEW end \in {"done", "crashed"}, Stop(s, end)
  PROVE  /\ step' \in [Ingests -> Steps]
         /\ \A i \in Ingests : step'[i] = IF i \in s THEN end ELSE step[i]
         /\ Onward
         /\ files' \in [Ingests -> [Files -> Content]]
         /\ \A d \in Ingests, f \in Files :
              \/ files'[d][f] = files[d][f]
              \/ files'[d][f] = "partial" /\ \E k \in Ingests : pen[k].dir = d
         /\ pen' \in [Ingests -> Pen]
         /\ \A i \in Ingests : pen'[i].dir = IF i \in s THEN None ELSE pen[i].dir
         /\ UNCHANGED <<clearing, accepted, tmp, package, trainingVars>>
<1>1. PICK cut \in SUBSET {df \in Ingests \X Files : \E i \in s : Writes(i, df[1], df[2])} :
        files' = [d \in Ingests |->
                    [f \in Files |-> IF <<d, f>> \in cut THEN "partial" ELSE files[d][f]]]
  BY DEF Stop
<1>2. /\ files \in [Ingests -> [Files -> Content]] /\ "partial" \in Content
      /\ step \in [Ingests -> Steps] /\ end \in Steps /\ s \subseteq Ingests
      /\ pen \in [Ingests -> Pen] /\ NoPen \in Pen /\ NoPen.dir = None
  BY Types DEF Content, Steps, UnderWay, NoPen, Pen
<1>3. files' \in [Ingests -> [Files -> Content]]
  BY <1>1, <1>2
<1>4. \A d \in Ingests, f \in Files : <<d, f>> \in cut => \E k \in Ingests : pen[k].dir = d
  BY <1>1, <1>2 DEF Writes
<1>5. \A d \in Ingests, f \in Files :
        \/ files'[d][f] = files[d][f]
        \/ files'[d][f] = "partial" /\ \E k \in Ingests : pen[k].dir = d
  BY <1>1, <1>4
<1>6. /\ step' = [i \in Ingests |-> IF i \in s THEN end ELSE step[i]]
      /\ pen' = [i \in Ingests |-> IF i \in s THEN NoPen ELSE pen[i]]
      /\ UNCHANGED <<clearing, accepted, tmp, package, trainingVars>>
  BY DEF Stop
<1>7. step' \in [Ingests -> Steps]
      /\ \A i \in Ingests : step'[i] = IF i \in s THEN end ELSE step[i]
  BY <1>2, <1>6
<1>8. Onward
  BY <1>7 DEF Onward, UnderWay, Before, After
<1>9. /\ pen' \in [Ingests -> Pen]
      /\ \A i \in Ingests : pen'[i].dir = IF i \in s THEN None ELSE pen[i].dir
  BY <1>2, <1>6
<1> QED BY <1>3, <1>5, <1>6, <1>7, <1>8, <1>9

\* One ingest breaks off, or all do in a crash.
LEMMA StopsEffect ==
  ASSUME TypeOK
  PROVE  /\ \A i : Breaks(i) => i \in UnderWay /\ {i} \in SUBSET UnderWay
                                /\ Stop({i}, "done") /\ alone' = alone \ {i}
         /\ Crash => Stop(UnderWay, "crashed") /\ alone' = alone
BY DEF Breaks, Crash

-----------------------------------------------------------------------------
(***************************************************************************)
(* Types.                                                                  *)
(***************************************************************************)

\* The steps of an ingest that leave the directories and their files as they are.
Quiet(i) ==
  Begin(i) \/ CheckTmp(i) \/ OpenTmp(i) \/ CheckPackage(i) \/ OpenPackage(i) \/ Raises(i)

LEMMA QuietEffect ==
  ASSUME TypeOK, NEW i \in Ingests, Quiet(i)
  PROVE  /\ step' \in [Ingests -> Steps]
         /\ \A k \in Ingests \ {i} : step'[k] = step[k]
         /\ step[i] \notin Fills /\ step'[i] \notin Fills
         /\ Onward
         /\ accepted' = accepted /\ alone' \subseteq alone
         /\ UNCHANGED <<fileVars, trainingVars>>
         /\ clearing' \in [Ingests -> Opened]
<1>0. /\ step \in [Ingests -> Steps] /\ {tmp, package} \subseteq Ingests \cup {None}
      /\ clearing \in [Ingests -> Opened]
  BY Types
<1>1. CASE Begin(i)
  <2>1. Step(i, "idle", "checkTmp") /\ "checkTmp" \in Steps
    BY <1>1 DEF Begin, Steps
  <2>2. step' \in [Ingests -> Steps] /\ Onward
    BY <2>1, StepTypes, StepOnward DEF Before, After
  <2> QED BY <1>0, <1>1, <2>1, <2>2, StepEffect DEF Begin, Fills
<1>2. CASE CheckTmp(i)
  <2>1. PICK to \in {"clearTmp", "makeTmp"} : Step(i, "checkTmp", to)
    BY <1>2 DEF CheckTmp
  <2>2. to \in Steps
    BY DEF Steps
  <2>3. step' \in [Ingests -> Steps] /\ Onward
    BY <2>1, <2>2, StepTypes, StepOnward DEF Before, After
  <2> QED BY <1>0, <1>2, <2>1, <2>3, StepEffect DEF CheckTmp, Fills, callVars
<1>3. CASE OpenTmp(i)
  <2>1. Step(i, "clearTmp", "unlinkTmp") /\ "unlinkTmp" \in Steps /\ Open(i, tmp)
    BY <1>3 DEF OpenTmp, Steps
  <2>2. step' \in [Ingests -> Steps] /\ Onward
    BY <2>1, StepTypes, StepOnward DEF Before, After
  <2> QED BY <1>0, <2>1, <2>2, StepEffect, OpenEffect DEF Fills
<1>4. CASE CheckPackage(i)
  <2>1. PICK to \in {"clearPackage", "rename"} : Step(i, "checkPackage", to)
    BY <1>4 DEF CheckPackage
  <2>2. to \in Steps
    BY DEF Steps
  <2>3. step' \in [Ingests -> Steps] /\ Onward
    BY <2>1, <2>2, StepTypes, StepOnward DEF Before, After
  <2> QED BY <1>0, <1>4, <2>1, <2>3, StepEffect DEF CheckPackage, Fills, callVars
<1>5. CASE OpenPackage(i)
  <2>1. /\ Step(i, "clearPackage", "unlinkPackage") /\ "unlinkPackage" \in Steps
        /\ Open(i, package)
    BY <1>5 DEF OpenPackage, Steps
  <2>2. step' \in [Ingests -> Steps] /\ Onward
    BY <2>1, StepTypes, StepOnward DEF Before, After
  <2> QED BY <1>0, <2>1, <2>2, StepEffect, OpenEffect DEF Fills
<1>6. CASE Raises(i)
  <2>1. Step(i, step[i], "done") /\ "done" \in Steps
    BY <1>6 DEF Raises, Steps
  <2>2. step[i] \notin Fills \cup {"done"}
    BY <1>6 DEF Raises, Fails, Fills
  <2>3. step' \in [Ingests -> Steps] /\ Onward
    BY <2>1, <2>2, StepTypes, StepOnward DEF Before, After
  <2> QED BY <1>0, <1>6, <2>1, <2>2, <2>3, StepEffect DEF Raises, Fills, callVars
<1> QED BY <1>1, <1>2, <1>3, <1>4, <1>5, <1>6 DEF Quiet

\* What a training run reads is what it may find in the package.
LEMMA TrainingEffect ==
  ASSUME TypeOK, NEW t \in Trainings, Load(t) \/ Hash(t)
  PROVE  /\ step' = step /\ UNCHANGED <<callVars, fileVars>>
         /\ training' \in [Trainings -> {"idle", "trains", "failed", "ended"}]
         /\ source' \in [Trainings -> Ingests \cup {None}]
         /\ rows' \in [Trainings -> Content] /\ hashed' \in [Trainings -> Content]
         /\ \A u \in Trainings :
              /\ \/ rows'[u] = rows[u] /\ source'[u] = source[u]
                 \/ /\ rows'[u] \in Readable
                    /\ source'[u] = IF rows'[u] = None THEN None ELSE package
              /\ hashed'[u] = hashed[u] \/ hashed'[u] \in Readable
<1>1. Readable \subseteq Content
  BY DEF TypeOK, Readable, PackageRows, Content, Files
<1>2. package \in Ingests \cup {None}
  BY Types
<1>3. /\ training \in [Trainings -> {"idle", "trains", "failed", "ended"}]
      /\ source \in [Trainings -> Ingests \cup {None}]
      /\ rows \in [Trainings -> Content] /\ hashed \in [Trainings -> Content]
  BY DEF TypeOK
<1>4. CASE Load(t)
  <2>1. PICK r \in Readable :
          /\ \E stage \in {"failed", "trains"} : training' = [training EXCEPT ![t] = stage]
          /\ rows' = [rows EXCEPT ![t] = r]
          /\ source' = [source EXCEPT ![t] = IF r = None THEN None ELSE package]
    BY <1>4 DEF Load
  <2>2. UNCHANGED <<step, callVars, fileVars, hashed>>
    BY <1>4 DEF Load
  <2>3. training' \in [Trainings -> {"idle", "trains", "failed", "ended"}]
    BY <1>3, <2>1
  <2>4. source' \in [Trainings -> Ingests \cup {None}] /\ rows' \in [Trainings -> Content]
    BY <1>1, <1>2, <1>3, <2>1
  <2>5. \A u \in Trainings :
          \/ rows'[u] = rows[u] /\ source'[u] = source[u]
          \/ rows'[u] \in Readable /\ source'[u] = IF rows'[u] = None THEN None ELSE package
    BY <1>3, <2>1
  <2> QED BY <1>3, <2>2, <2>3, <2>4, <2>5
<1>5. CASE Hash(t)
  <2>1. PICK r \in Readable :
          /\ training' = [training EXCEPT ![t] = IF r = None THEN "failed" ELSE "ended"]
          /\ hashed' = [hashed EXCEPT ![t] = r]
    BY <1>5 DEF Hash
  <2>2. UNCHANGED <<step, callVars, fileVars, source, rows>>
    BY <1>5 DEF Hash
  <2>3. training' \in [Trainings -> {"idle", "trains", "failed", "ended"}]
    BY <1>3, <2>1
  <2>4. hashed' \in [Trainings -> Content]
    BY <1>1, <1>3, <2>1
  <2>5. \A u \in Trainings : hashed'[u] = hashed[u] \/ hashed'[u] \in Readable
    BY <1>3, <2>1
  <2> QED BY <1>3, <2>2, <2>3, <2>4, <2>5
<1> QED BY <1>4, <1>5

\* The steps that make, remove or move a directory.
LEMMA PathEffect ==
  ASSUME TypeOK, NEW i \in Ingests,
         RemoveTmp(i) \/ RemovePackage(i) \/ MakeTmp(i) \/ Rename(i)
  PROVE  /\ UNCHANGED <<clearing, alone, files, pen, trainingVars>>
         /\ accepted' \in {accepted, accepted \cup {i}}
         /\ step' \in [Ingests -> Steps]
         /\ tmp' \in {tmp, None, i} /\ package' \in {package, None, tmp}
         /\ i \in UnderWay /\ step[i] \notin Fills /\ step'[i] \notin Fills
         /\ \A k \in Ingests \ {i} : step'[k] = step[k]
<1>1. \E from, to \in Steps \ (Fills \cup {"idle", "crashed"}) : from # "done" /\ Step(i, from, to)
  BY DEF RemoveTmp, RemovePackage, MakeTmp, Rename, Steps, Fills
<1>2. PICK from, to \in Steps \ (Fills \cup {"idle", "crashed"}) : from # "done" /\ Step(i, from, to)
  BY <1>1
<1>3. /\ step' \in [Ingests -> Steps] /\ step[i] = from /\ step'[i] = to
      /\ \A k \in Ingests \ {i} : step'[k] = step[k]
      /\ UNCHANGED trainingVars
  BY <1>2, StepTypes, StepEffect
<1>4. /\ UNCHANGED <<clearing, alone, files, pen>>
      /\ accepted' \in {accepted, accepted \cup {i}}
      /\ tmp' \in {tmp, None, i} /\ package' \in {package, None, tmp}
  BY DEF RemoveTmp, RemovePackage, MakeTmp, Rename, callVars
<1> QED BY <1>2, <1>3, <1>4 DEF UnderWay

\* What can happen, by the kinds of steps.
LEMMA Kinds ==
  ASSUME [Next]_vars
  PROVE  \/ \E i \in Ingests : Ingest(i)
         \/ \E t \in Trainings : Load(t) \/ Hash(t)
         \/ Crash \/ UNCHANGED vars
BY DEF Next

LEMMA IngestKinds ==
  ASSUME NEW i \in Ingests, Ingest(i)
  PROVE  \/ Quiet(i) \/ Unlink(i) \/ Breaks(i)
         \/ \E f \in Files, from \in {"writeTrain", "writeManifest"} : Create(i, f, from)
         \/ \E f \in Files, to \in {"writeManifest", "checkPackage"} : Fill(i, f, to)
         \/ RemoveTmp(i) \/ RemovePackage(i) \/ MakeTmp(i) \/ Rename(i)
BY Writing DEF Ingest, Quiet

LEMMA TypeStep ==
  ASSUME TypeOK, [Next]_vars
  PROVE  TypeOK'
<1> DEFINE Dirs == Ingests \cup {None}
<1>0. /\ step \in [Ingests -> Steps] /\ clearing \in [Ingests -> Opened]
      /\ accepted \subseteq Ingests /\ alone \subseteq Ingests
      /\ tmp \in Dirs /\ package \in Dirs
      /\ files \in [Ingests -> [Files -> Content]] /\ pen \in [Ingests -> Pen]
  BY Types
<1>1. /\ training \in [Trainings -> {"idle", "trains", "failed", "ended"}]
      /\ source \in [Trainings -> Dirs]
      /\ rows \in [Trainings -> Content] /\ hashed \in [Trainings -> Content]
  BY DEF TypeOK
<1>2. ASSUME /\ step' \in [Ingests -> Steps] /\ clearing' \in [Ingests -> Opened]
             /\ accepted' \subseteq Ingests /\ alone' \subseteq Ingests
             /\ tmp' \in Dirs /\ package' \in Dirs
             /\ files' \in [Ingests -> [Files -> Content]] /\ pen' \in [Ingests -> Pen]
             /\ UNCHANGED trainingVars
      PROVE  TypeOK'
  BY <1>1, <1>2 DEF TypeOK, Steps, Opened, Pen, trainingVars
<1>3. ASSUME NEW i \in Ingests, Ingest(i) PROVE TypeOK'
  <2>1. CASE Quiet(i)
    BY <1>0, <1>2, <2>1, QuietEffect DEF fileVars
  <2>2. CASE Unlink(i)
    BY <1>0, <1>2, <2>2, UnlinkEffect
  <2>3. CASE Breaks(i)
    <3>1. {i} \in SUBSET UnderWay /\ Stop({i}, "done") /\ alone' = alone \ {i}
      BY <2>3, StopsEffect
    <3> QED BY <1>0, <1>2, <3>1, StopEffect
  <2>4. ASSUME NEW f \in Files, NEW from, Create(i, f, from) PROVE TypeOK'
    <3>1. Step(i, from, Filling[f]) /\ Filling[f] \in Steps
      BY <2>4 DEF Create, Filling, Steps, Files
    <3>2. step' \in [Ingests -> Steps] /\ UNCHANGED trainingVars
      BY <3>1, StepTypes, StepEffect
    <3> QED BY <1>0, <1>2, <2>4, <3>2, CreateEffect DEF callVars
  <2>5. ASSUME NEW f \in Files, NEW to \in {"writeManifest", "checkPackage"}, Fill(i, f, to)
        PROVE  TypeOK'
    <3>1. Step(i, Filling[f], to) /\ to \in Steps
      BY <2>5 DEF Fill, Steps
    <3>2. step' \in [Ingests -> Steps] /\ UNCHANGED trainingVars
      BY <3>1, StepTypes, StepEffect
    <3> QED BY <1>0, <1>2, <2>5, <3>2, FillEffect DEF callVars
  <2>6. CASE RemoveTmp(i) \/ RemovePackage(i) \/ MakeTmp(i) \/ Rename(i)
    <3>1. tmp' \in Dirs /\ package' \in Dirs /\ accepted' \subseteq Ingests
      BY <1>0, <2>6, PathEffect
    <3>2. step' \in [Ingests -> Steps] /\ UNCHANGED <<clearing, alone, files, pen, trainingVars>>
      BY <2>6, PathEffect
    <3> QED BY <1>0, <1>2, <3>1, <3>2
  <2> QED BY <1>3, <2>1, <2>2, <2>3, <2>4, <2>5, <2>6, IngestKinds
<1>4. ASSUME NEW t \in Trainings, Load(t) \/ Hash(t) PROVE TypeOK'
  <2>1. step' = step /\ UNCHANGED <<callVars, fileVars>>
    BY <1>4, TrainingEffect
  <2>2. /\ training' \in [Trainings -> {"idle", "trains", "failed", "ended"}]
        /\ source' \in [Trainings -> Ingests \cup {None}]
        /\ rows' \in [Trainings -> Content] /\ hashed' \in [Trainings -> Content]
    BY <1>4, TrainingEffect
  <2> QED BY <1>0, <2>1, <2>2 DEF TypeOK, Steps, Opened, Pen, callVars, fileVars
<1>5. CASE Crash
  <2>1. Stop(UnderWay, "crashed") /\ alone' = alone
    BY <1>5, StopsEffect
  <2> QED BY <1>0, <1>2, <2>1, StopEffect
<1>6. CASE UNCHANGED vars
  BY <1>0, <1>2, <1>6 DEF vars, callVars, fileVars
<1> QED BY <1>3, <1>4, <1>5, <1>6, Kinds

-----------------------------------------------------------------------------
(***************************************************************************)
(* The paths, the directories and their files.                             *)
(***************************************************************************)

\* No ingest has a file open in the package of one that was alone.
LEMMA NobodyWrites ==
  ASSUME TypeOK, DirsInv, package \in alone, NEW k \in Ingests
  PROVE  pen[k].dir # package
<1>1. package \in Ingests /\ package # None
  BY IngestAssumption DEF TypeOK
<1>2. step[package] = "done"
  BY DEF DirsInv, PublishedInv
<1>3. pen[package].dir = None
  BY <1>1, <1>2 DEF DirsInv, PenInv, Fills
<1>4. CASE k = package
  BY <1>1, <1>3, <1>4
<1>5. CASE k # package
  BY <1>1, <1>5 DEF DirsInv, PenInv
<1> QED BY <1>4, <1>5

\* A step that leaves the two paths alone: files are opened where the temporary
\* path leads, written where they are open, and unlinked.
LEMMA FilesDirs ==
  ASSUME TypeOK, TypeOK', DirsInv, Onward, alone' \subseteq alone,
         UNCHANGED <<accepted, tmp, package>>,
         \A k \in Ingests : \/ pen'[k].dir \in {pen[k].dir, None}
                            \/ pen'[k].dir = tmp /\ tmp # None /\ step[k] \in After,
         \A k \in Ingests : step'[k] \notin Fills => pen'[k].dir = None,
         \A d \in Ingests, f \in Files :
           \/ files'[d][f] \in {files[d][f], None}
           \/ d = tmp /\ files'[d][f] = "partial"
           \/ \E k \in Ingests : pen[k].dir = d /\ files'[d][f] \in {k, "partial"}
  PROVE  DirsInv'
<1>1. /\ files \in [Ingests -> [Files -> Content]]
      /\ files' \in [Ingests -> [Files -> Content]]
      /\ package \in Ingests \cup {None} /\ tmp \in Ingests \cup {None}
      /\ alone \subseteq Ingests /\ None \notin Ingests /\ None # "partial"
  BY IngestAssumption DEF TypeOK
<1>2. BeforeInv'
  <2> SUFFICES ASSUME NEW i \in Ingests, step'[i] \in Before
               PROVE  /\ tmp # i /\ package # i /\ files'[i] = NoFiles
                      /\ \A k \in Ingests : pen'[k].dir # i
    BY DEF BeforeInv
  <2>1. /\ tmp # i /\ package # i /\ files[i] = NoFiles
        /\ \A k \in Ingests : pen[k].dir # i
    BY DEF Onward, DirsInv, BeforeInv
  <2>2. \A f \in Files : files[i][f] = None /\ files'[i][f] = files[i][f]
    BY <2>1 DEF NoFiles
  <2>3. files'[i] = files[i]
    BY <1>1, <2>2
  <2>4. \A k \in Ingests : pen'[k].dir # i
    BY <1>1, <2>1
  <2> QED BY <2>1, <2>3, <2>4
<1>3. MadeInv'
  BY DEF Onward, DirsInv, MadeInv
<1>4. PenInv'
  <2> SUFFICES ASSUME NEW i \in Ingests, pen'[i].dir \notin {i, None}
               PROVE  i \notin alone /\ pen'[i].dir \notin alone
    BY DEF PenInv
  <2>1. CASE pen'[i].dir = pen[i].dir
    BY <2>1 DEF DirsInv, PenInv
  <2>2. CASE pen'[i].dir = tmp /\ tmp # None /\ step[i] \in After
    BY <2>2 DEF DirsInv, MadeInv
  <2> QED BY <2>1, <2>2
<1>5. PathInv'
  BY DEF DirsInv, PathInv
<1>6. ContentInv'
  <2> SUFFICES ASSUME NEW d \in Ingests, NEW f \in Files,
                      files'[d][f] \notin {d, None, "partial"}
               PROVE  d \notin alone /\ files'[d][f] \notin alone
    BY DEF ContentInv
  <2>1. CASE files'[d][f] = files[d][f]
    BY <2>1 DEF DirsInv, ContentInv
  <2>2. ASSUME NEW k \in Ingests, pen[k].dir = d, files'[d][f] = k
        PROVE  d \notin alone /\ k \notin alone
    BY <1>1, <2>2 DEF DirsInv, PenInv
  <2> QED BY <2>1, <2>2
<1>7. PartialInv'
  <2> SUFFICES ASSUME package \in alone, NEW f \in Files PROVE files'[package][f] # "partial"
    BY DEF PartialInv
  <2>1. package \in Ingests /\ package # tmp
    BY <1>1 DEF DirsInv, PathInv
  <2>2. files[package][f] # "partial"
    BY DEF DirsInv, PartialInv
  <2>3. \A k \in Ingests : pen[k].dir # package
    BY NobodyWrites
  <2> QED BY <1>1, <2>1, <2>2, <2>3
<1>8. PublishedInv'
  BY <1>1 DEF Onward, DirsInv, PublishedInv
<1> QED BY <1>2, <1>3, <1>4, <1>5, <1>6, <1>7, <1>8 DEF DirsInv

\* An ingest opens a file in its own directory, or in one made beside it.
LEMMA CreateDirs ==
  ASSUME TypeOK, TypeOK', DirsInv, NEW i \in Ingests, NEW f \in Files,
         NEW from \in {"writeTrain", "writeManifest"}, Create(i, f, from)
  PROVE  DirsInv'
<1>1. /\ tmp \in Ingests /\ Step(i, from, Filling[f])
      /\ \A d \in Ingests, g \in Files :
           files'[d][g] = IF d = tmp /\ g = f THEN "partial" ELSE files[d][g]
      /\ pen'[i].dir = tmp /\ \A k \in Ingests \ {i} : pen'[k].dir = pen[k].dir
      /\ UNCHANGED <<callVars, tmp, package>>
  BY CreateEffect
<1>2. Filling[f] \in Fills /\ from \in After /\ Filling[f] \in After /\ Filling[f] \notin Before
  BY DEF Filling, Files, Fills, After, Before
<1>3. /\ step[i] \in After /\ step'[i] \in Fills
      /\ \A k \in Ingests \ {i} : step'[k] = step[k]
  BY <1>1, <1>2, StepEffect
<1>4. Onward
  BY <1>1, <1>2, StepOnward
<1>5. tmp # None
  BY <1>1, IngestAssumption
<1>6. \A k \in Ingests : \/ pen'[k].dir \in {pen[k].dir, None}
                         \/ pen'[k].dir = tmp /\ tmp # None /\ step[k] \in After
  BY <1>1, <1>3, <1>5
<1>7. \A k \in Ingests : step'[k] \notin Fills => pen'[k].dir = None
  BY <1>1, <1>3 DEF DirsInv, PenInv
<1> QED BY <1>1, <1>4, <1>6, <1>7, FilesDirs DEF callVars

LEMMA FillDirs ==
  ASSUME TypeOK, TypeOK', DirsInv, NEW i \in Ingests, NEW f \in Files,
         NEW to \in {"writeManifest", "checkPackage"}, Fill(i, f, to)
  PROVE  DirsInv'
<1>1. PICK c \in {i, "partial"} :
        \A d \in Ingests, g \in Files :
          files'[d][g] = IF d = pen[i].dir /\ g = f THEN c ELSE files[d][g]
  BY FillEffect
<1>2. /\ Step(i, Filling[f], to)
      /\ pen'[i].dir = None /\ \A k \in Ingests \ {i} : pen'[k].dir = pen[k].dir
      /\ UNCHANGED <<callVars, tmp, package>>
  BY FillEffect
<1>3. /\ Filling[f] \in After /\ Filling[f] # "done"
      /\ to \in After /\ to \notin Before /\ to \notin Fills
  BY DEF Filling, Files, Fills, After, Before
<1>4. Onward /\ \A k \in Ingests \ {i} : step'[k] = step[k]
  BY <1>2, <1>3, StepOnward, StepEffect
<1>5. \A k \in Ingests : step'[k] \notin Fills => pen'[k].dir = None
  BY <1>2, <1>4 DEF DirsInv, PenInv
<1> QED BY <1>1, <1>2, <1>4, <1>5, FilesDirs DEF callVars

LEMMA UnlinkDirs ==
  ASSUME TypeOK, TypeOK', DirsInv, NEW i \in Ingests, Unlink(i)
  PROVE  DirsInv'
<1>1. /\ step' = step /\ UNCHANGED <<accepted, alone, tmp, package>>
      /\ \A k \in Ingests : pen'[k].dir \in {pen[k].dir, None}
      /\ \A d \in Ingests, g \in Files : files'[d][g] \in {files[d][g], None}
  BY UnlinkEffect
<1>2. Onward
  BY <1>1 DEF Onward
<1>3. \A k \in Ingests : step'[k] \notin Fills => pen'[k].dir = None
  BY <1>1 DEF DirsInv, PenInv
<1> QED BY <1>1, <1>2, <1>3, FilesDirs

\* What stopped ingests leave open may be cut short, but not in the package of
\* one that was alone.
LEMMA StopDirs ==
  ASSUME TypeOK, TypeOK', DirsInv, NEW s \in SUBSET UnderWay,
         NEW end \in {"done", "crashed"}, Stop(s, end), alone' \subseteq alone
  PROVE  DirsInv'
<1>1. /\ Onward /\ UNCHANGED <<accepted, tmp, package>>
      /\ \A i \in Ingests : step'[i] = IF i \in s THEN end ELSE step[i]
      /\ \A i \in Ingests : pen'[i].dir = IF i \in s THEN None ELSE pen[i].dir
      /\ \A d \in Ingests, f \in Files :
           \/ files'[d][f] = files[d][f]
           \/ files'[d][f] = "partial" /\ \E k \in Ingests : pen[k].dir = d
  BY StopEffect
<1>2. \A k \in Ingests : step'[k] \notin Fills => pen'[k].dir = None
  BY <1>1 DEF DirsInv, PenInv
<1> QED BY <1>1, <1>2, FilesDirs

\* Where nothing of the directories changes and no ingest makes one.
LEMMA QuietDirs ==
  ASSUME TypeOK, TypeOK', DirsInv, Onward, alone' \subseteq alone,
         UNCHANGED <<accepted, fileVars>>,
         \A k \in Ingests : step'[k] \notin Fills => step[k] \notin Fills
  PROVE  DirsInv'
<1>1. \A k \in Ingests : step'[k] \notin Fills => pen'[k].dir = None
  BY DEF DirsInv, PenInv, fileVars
<1> QED BY <1>1, FilesDirs DEF fileVars

LEMMA RemoveDirs ==
  ASSUME TypeOK, DirsInv, NEW i \in Ingests, RemoveTmp(i) \/ RemovePackage(i)
  PROVE  DirsInv'
<1>1. /\ UNCHANGED <<files, pen, accepted, alone>>
      /\ tmp' \in {tmp, None} /\ package' \in {package, None}
      /\ Step(i, "unlinkTmp", "makeTmp") \/ Step(i, "unlinkPackage", "rename")
  BY DEF RemoveTmp, RemovePackage, callVars
<1>2. Onward
  BY <1>1, StepOnward DEF Before, After
<1>3. step[i] \notin Fills /\ \A k \in Ingests \ {i} : step'[k] = step[k]
  BY PathEffect
<1>4. alone \subseteq Ingests /\ None \notin Ingests
  BY IngestAssumption DEF TypeOK
<1>5. BeforeInv'
  BY <1>1, <1>2, <1>4 DEF Onward, DirsInv, BeforeInv
<1>6. MadeInv'
  BY <1>1, <1>2 DEF Onward, DirsInv, MadeInv
<1>7. PenInv'
  BY <1>1, <1>3 DEF DirsInv, PenInv
<1>8. PathInv' /\ ContentInv'
  BY <1>1 DEF DirsInv, PathInv, ContentInv
<1>9. PartialInv' /\ PublishedInv'
  BY <1>1, <1>2, <1>4 DEF Onward, DirsInv, PartialInv, PublishedInv
<1> QED BY <1>5, <1>6, <1>7, <1>8, <1>9 DEF DirsInv

\* A directory is made beside the ingests that are under way: none of them is alone.
LEMMA MakeDirs ==
  ASSUME TypeOK, AloneInv, DirsInv, NEW i \in Ingests, MakeTmp(i)
  PROVE  DirsInv'
<1>1. /\ UNCHANGED <<files, pen, accepted, alone, package>>
      /\ tmp' = i /\ Step(i, "makeTmp", "writeTrain")
  BY DEF MakeTmp, callVars
<1>2. /\ step[i] = "makeTmp" /\ step'[i] = "writeTrain"
      /\ \A k \in Ingests \ {i} : step'[k] = step[k]
  BY <1>1, StepEffect
<1>3. package # i
  BY <1>2 DEF DirsInv, BeforeInv, Before
<1>4. alone \subseteq Ingests
  BY DEF TypeOK
<1>5. BeforeInv'
  BY <1>1, <1>2 DEF DirsInv, BeforeInv, Before
<1>6. MadeInv'
  <2> SUFFICES ASSUME NEW k \in Ingests, step'[k] \in After, i # k
               PROVE  k \notin alone /\ i \notin alone
    BY <1>1 DEF MadeInv
  <2>1. {i, k} \subseteq UnderWay
    BY <1>2 DEF UnderWay, After
  <2> QED BY <2>1 DEF AloneInv
<1>7. PenInv'
  BY <1>1, <1>2 DEF DirsInv, PenInv, Fills
<1>8. PathInv' /\ ContentInv'
  BY <1>1, <1>3 DEF DirsInv, PathInv, ContentInv
<1>9. PartialInv' /\ PublishedInv'
  BY <1>1, <1>2, <1>3, <1>4 DEF DirsInv, PartialInv, PublishedInv
<1> QED BY <1>5, <1>6, <1>7, <1>8, <1>9 DEF DirsInv

\* What an ingest that is alone renames is its own directory, and whole.
LEMMA RenameDirs ==
  ASSUME TypeOK, DirsInv, LoneInv, NEW i \in Ingests, Rename(i)
  PROVE  DirsInv'
<1>1. /\ UNCHANGED <<files, pen, alone>> /\ accepted' = accepted \cup {i}
      /\ tmp # None /\ tmp' = None /\ package' = tmp
      /\ Step(i, "rename", "done")
  BY DEF Rename
<1>2. /\ step[i] = "rename" /\ step[i] \in After /\ step'[i] = "done"
      /\ \A k \in Ingests \ {i} : step'[k] = step[k]
  BY <1>1, StepEffect DEF After
<1>3. BeforeInv'
  BY <1>1, <1>2, IngestAssumption DEF DirsInv, BeforeInv, Before
<1>4. MadeInv' /\ PathInv' /\ ContentInv'
  BY <1>1 DEF DirsInv, MadeInv, PathInv, ContentInv
<1>5. PenInv'
  BY <1>1, <1>2 DEF DirsInv, PenInv, Fills
<1>6. tmp \in alone => tmp = i
  BY <1>1, <1>2 DEF DirsInv, MadeInv
<1>7. PublishedInv'
  BY <1>1, <1>2, <1>6 DEF PublishedInv
<1>8. tmp \in alone => \A f \in Files : files[tmp][f] # "partial"
  <2> SUFFICES ASSUME tmp \in alone PROVE \A f \in Files : files[i][f] # "partial"
    BY <1>6
  <2>1. files[i].train = i /\ files[i].manifest = i
    BY <1>2, <1>6 DEF LoneInv, FindsItsOwn, After
  <2> QED BY <2>1, IngestAssumption DEF Files
<1>9. PartialInv'
  BY <1>1, <1>8 DEF PartialInv
<1> QED BY <1>3, <1>4, <1>5, <1>7, <1>9 DEF DirsInv

LEMMA DirsStep ==
  ASSUME TypeOK, AloneInv, DirsInv, LoneInv, [Next]_vars
  PROVE  DirsInv'
<1>0. TypeOK'
  BY TypeStep
<1>1. ASSUME NEW i \in Ingests, Ingest(i) PROVE DirsInv'
  <2>1. CASE Quiet(i)
    <3>1. /\ Onward /\ alone' \subseteq alone /\ UNCHANGED <<accepted, fileVars>>
          /\ \A k \in Ingests : step'[k] \notin Fills => step[k] \notin Fills
      BY <2>1, QuietEffect
    <3> QED BY <1>0, <3>1, QuietDirs
  <2>2. CASE Unlink(i)
    BY <1>0, <2>2, UnlinkDirs
  <2>3. CASE Breaks(i)
    <3>1. {i} \in SUBSET UnderWay /\ Stop({i}, "done") /\ alone' = alone \ {i}
      BY <2>3, StopsEffect
    <3> QED BY <1>0, <3>1, StopDirs
  <2>4. ASSUME NEW f \in Files, NEW from \in {"writeTrain", "writeManifest"}, Create(i, f, from)
        PROVE  DirsInv'
    BY <1>0, <2>4, CreateDirs
  <2>5. ASSUME NEW f \in Files, NEW to \in {"writeManifest", "checkPackage"}, Fill(i, f, to)
        PROVE  DirsInv'
    BY <1>0, <2>5, FillDirs
  <2>6. CASE RemoveTmp(i) \/ RemovePackage(i)
    BY <2>6, RemoveDirs
  <2>7. CASE MakeTmp(i)
    BY <2>7, MakeDirs
  <2>8. CASE Rename(i)
    BY <2>8, RenameDirs
  <2> QED BY <1>1, <2>1, <2>2, <2>3, <2>4, <2>5, <2>6, <2>7, <2>8, IngestKinds
<1>2. ASSUME Onward, UNCHANGED <<step, accepted, alone, fileVars>> PROVE DirsInv'
  BY <1>0, <1>2, QuietDirs
<1>3. UNCHANGED step => Onward
  BY DEF Onward
<1>4. ASSUME NEW t \in Trainings, Load(t) \/ Hash(t) PROVE DirsInv'
  BY <1>2, <1>3, <1>4, TrainingEffect DEF callVars
<1>5. CASE Crash
  <2>1. Stop(UnderWay, "crashed") /\ alone' = alone
    BY <1>5, StopsEffect
  <2> QED BY <1>0, <2>1, StopDirs
<1>6. CASE UNCHANGED vars
  BY <1>2, <1>3, <1>6 DEF vars, callVars
<1> QED BY <1>1, <1>4, <1>5, <1>6, Kinds

-----------------------------------------------------------------------------
(***************************************************************************)
(* Ingests that are alone.                                                 *)
(***************************************************************************)

\* Apart from its beginning, a step of an ingest is one of an ingest under way,
\* changes the step of no other, and leaves `alone` as it is, unless it breaks off.
LEMMA IngestEffect ==
  ASSUME TypeOK, NEW i \in Ingests, Ingest(i)
  PROVE  /\ \A k \in Ingests \ {i} : step'[k] = step[k]
         /\ \/ Begin(i)
            \/ i \in UnderWay /\ (alone' = alone \/ (Breaks(i) /\ alone' = alone \ {i}))
<1>1. CASE Begin(i)
  BY <1>1, StepEffect DEF Begin
<1>2. CASE Unlink(i)
  BY <1>2, UnlinkEffect DEF UnderWay
<1>3. CASE OpenTmp(i) \/ OpenPackage(i)
  <2>1. \/ Step(i, "clearTmp", "unlinkTmp") /\ alone' = alone
        \/ Step(i, "clearPackage", "unlinkPackage") /\ alone' = alone
    BY <1>3 DEF OpenTmp, OpenPackage, Open
  <2> QED BY <2>1, StepEffect DEF UnderWay
<1>4. CASE Raises(i)
  <2>1. Step(i, step[i], "done") /\ alone' = alone
    BY <1>4 DEF Raises, callVars
  <2>2. i \in UnderWay
    BY <1>4 DEF Raises, Fails, UnderWay
  <2> QED BY <2>1, <2>2, StepEffect
<1>5. CASE CheckTmp(i) \/ CheckPackage(i)
  <2>1. /\ \E to : Step(i, "checkTmp", to) \/ Step(i, "checkPackage", to)
        /\ alone' = alone
    BY <1>5 DEF CheckTmp, CheckPackage, callVars
  <2> QED BY <2>1, StepEffect DEF UnderWay
<1>6. CASE RemoveTmp(i) \/ MakeTmp(i) \/ RemovePackage(i) \/ Rename(i)
  BY <1>6, PathEffect
<1>7. CASE Breaks(i)
  <2>1. {i} \in SUBSET UnderWay /\ Stop({i}, "done") /\ alone' = alone \ {i} /\ i \in UnderWay
    BY <1>7, StopsEffect
  <2>2. \A k \in Ingests \ {i} : step'[k] = step[k]
    BY <2>1, StopEffect
  <2> QED BY <1>7, <2>1, <2>2
<1>8. ASSUME NEW f \in Files, NEW from \in {"writeTrain", "writeManifest"}, Create(i, f, from)
      PROVE  /\ \A k \in Ingests \ {i} : step'[k] = step[k]
             /\ i \in UnderWay /\ alone' = alone
  <2>1. Step(i, from, Filling[f]) /\ alone' = alone
    BY <1>8 DEF Create, callVars
  <2> QED BY <2>1, StepEffect DEF UnderWay
<1>9. ASSUME NEW f \in Files, NEW to, Fill(i, f, to)
      PROVE  /\ \A k \in Ingests \ {i} : step'[k] = step[k]
             /\ i \in UnderWay /\ alone' = alone
  <2>1. Step(i, Filling[f], to) /\ alone' = alone
    BY <1>9 DEF Fill, callVars
  <2> QED BY <2>1, StepEffect DEF UnderWay, Filling, Files
<1> QED
  BY <1>1, <1>2, <1>3, <1>4, <1>5, <1>6, <1>7, <1>8, <1>9, IngestKinds DEF Quiet

LEMMA AloneStep ==
  ASSUME TypeOK, AloneInv, [Next]_vars
  PROVE  AloneInv' /\ alone' \subseteq alone
<1>1. ASSUME UnderWay' \subseteq UnderWay, alone' \subseteq alone
      PROVE  AloneInv' /\ alone' \subseteq alone
  BY <1>1 DEF AloneInv
<1>2. ASSUME NEW i \in Ingests, Begin(i)
      PROVE  AloneInv' /\ alone' \subseteq alone
  <2>1. /\ step[i] = "idle" /\ step'[i] = "checkTmp"
        /\ \A k \in Ingests \ {i} : step'[k] = step[k]
    BY <1>2, StepEffect DEF Begin
  <2>2. UnderWay' = UnderWay \cup {i}
    BY <2>1 DEF UnderWay
  <2>3. alone' = IF UnderWay = {} THEN alone ELSE alone \ (UnderWay \cup {i})
    BY <1>2 DEF Begin
  <2> QED BY <2>2, <2>3 DEF AloneInv
<1>3. ASSUME NEW i \in Ingests, Ingest(i)
      PROVE  AloneInv' /\ alone' \subseteq alone
  <2>1. CASE Begin(i)
    BY <1>2, <2>1
  <2>2. CASE ~Begin(i)
    <3>1. /\ i \in UnderWay /\ alone' \subseteq alone
          /\ \A k \in Ingests \ {i} : step'[k] = step[k]
      BY <1>3, <2>2, IngestEffect
    <3>2. UnderWay' \subseteq UnderWay
      BY <3>1 DEF UnderWay
    <3> QED BY <1>1, <3>1, <3>2
  <2> QED BY <2>1, <2>2
<1>4. ASSUME NEW t \in Trainings, Load(t) \/ Hash(t)
      PROVE  AloneInv' /\ alone' \subseteq alone
  BY <1>1, <1>4, TrainingEffect DEF UnderWay, callVars
<1>5. CASE Crash
  <2>1. Stop(UnderWay, "crashed") /\ alone' = alone
    BY <1>5, StopsEffect
  <2>2. \A i \in Ingests : step'[i] = IF i \in UnderWay THEN "crashed" ELSE step[i]
    BY <2>1, StopEffect
  <2>3. UnderWay' \subseteq UnderWay
    BY <2>2 DEF UnderWay
  <2> QED BY <1>1, <2>1, <2>3
<1>6. CASE UNCHANGED vars
  BY <1>1, <1>6 DEF vars, callVars, UnderWay
<1> QED BY <1>3, <1>4, <1>5, <1>6, Kinds

\* Where one ingest takes a step, another that is alone is not under way.
LEMMA OthersRest ==
  ASSUME TypeOK, AloneInv, NEW i \in Ingests, Ingest(i), NEW k \in alone', k # i
  PROVE  FindsItsOwn(k)'
<1>1. alone \subseteq Ingests /\ step \in [Ingests -> Steps]
  BY Types
<1>2. k \notin UnderWay /\ k \in Ingests
  <2>1. CASE Begin(i)
    BY <1>1, <2>1 DEF Begin
  <2>2. CASE ~Begin(i)
    BY <1>1, <2>2, IngestEffect DEF AloneInv
  <2> QED BY <2>1, <2>2
<1>3. step'[k] = step[k] /\ step[k] \in {"idle", "done", "crashed"}
  BY <1>2, IngestEffect DEF UnderWay
<1> QED BY <1>3 DEF FindsItsOwn, After, Fills

\* No operation of an ingest that is alone raises an error.
LEMMA AloneNeverFails ==
  ASSUME TypeOK, LoneInv, NEW i \in alone
  PROVE  ~Fails(i)
<1>1. FindsItsOwn(i) /\ i # None
  BY IngestAssumption DEF LoneInv, TypeOK
<1>2. step[i] \in {"unlinkTmp", "unlinkPackage"} =>
        clearing[i].left \ Holds(clearing[i].dir) = {}
  BY <1>1 DEF FindsItsOwn, Clears
<1>3. step[i] = "unlinkTmp" /\ clearing[i].left = {} => IsEmpty(tmp)
  BY <1>1 DEF FindsItsOwn, Clears, IsEmpty
<1>4. step[i] = "unlinkPackage" /\ clearing[i].left = {} => IsEmpty(package)
  BY <1>1 DEF FindsItsOwn, Clears, IsEmpty
<1>5. step[i] = "rename" => tmp # None /\ Replaceable(package)
  BY <1>1 DEF FindsItsOwn, After, Replaceable
<1>6. /\ step[i] \in {"clearTmp", "writeTrain", "writeManifest"} => tmp # None
      /\ step[i] = "makeTmp" => tmp = None
      /\ step[i] = "clearPackage" => package # None
  BY <1>1 DEF FindsItsOwn, After, Fills
<1> QED BY <1>2, <1>3, <1>4, <1>5, <1>6 DEF Fails

\* An ingest that is alone finds at its next step what it has left there.
LEMMA OwnStep ==
  ASSUME TypeOK, TypeOK', DirsInv, LoneInv, NEW i \in Ingests, i \in alone, Ingest(i)
  PROVE  FindsItsOwn(i)'
<1>0. FindsItsOwn(i) /\ i # None
  BY IngestAssumption DEF LoneInv
<1>1. CASE Begin(i)
  <2>1. step'[i] = "checkTmp"
    BY <1>1, StepEffect DEF Begin
  <2> QED BY <2>1 DEF FindsItsOwn, After, Fills
<1>2. CASE CheckTmp(i)
  <2>1. /\ Step(i, "checkTmp", IF tmp # None THEN "clearTmp" ELSE "makeTmp")
        /\ tmp' = tmp
    BY <1>2 DEF CheckTmp, fileVars
  <2>2. step'[i] = IF tmp # None THEN "clearTmp" ELSE "makeTmp"
    BY <2>1, StepEffect
  <2> QED BY <2>1, <2>2 DEF FindsItsOwn, After, Fills
<1>3. CASE OpenTmp(i)
  <2>1. Step(i, "clearTmp", "unlinkTmp") /\ Open(i, tmp) /\ tmp \in Ingests \cup {None}
    BY <1>3 DEF OpenTmp, TypeOK
  <2>2. step'[i] = "unlinkTmp"
    BY <2>1, StepEffect
  <2>3. /\ tmp # None /\ clearing'[i].dir = tmp /\ clearing'[i].left = Holds(tmp)
        /\ tmp' = tmp /\ files' = files
    BY <2>1, OpenEffect DEF fileVars
  <2> QED BY <2>2, <2>3 DEF FindsItsOwn, After, Fills, Clears, Holds
<1>4. CASE RemoveTmp(i)
  <2>1. Step(i, "unlinkTmp", "makeTmp") /\ tmp' = None
    BY <1>4 DEF RemoveTmp
  <2>2. step'[i] = "makeTmp"
    BY <2>1, StepEffect
  <2> QED BY <2>1, <2>2 DEF FindsItsOwn, After, Fills
<1>5. CASE MakeTmp(i)
  <2>1. Step(i, "makeTmp", "writeTrain") /\ tmp' = i
    BY <1>5 DEF MakeTmp
  <2>2. step'[i] = "writeTrain"
    BY <2>1, StepEffect
  <2> QED BY <2>1, <2>2 DEF FindsItsOwn, After, Fills
<1>6. ASSUME NEW f \in Files, NEW from \in {"writeTrain", "writeManifest"},
             Create(i, f, from), from = IF f = "train" THEN "writeTrain" ELSE "writeManifest"
      PROVE  FindsItsOwn(i)'
  <2>1. /\ Step(i, from, Filling[f]) /\ pen'[i].dir = tmp /\ tmp' = tmp
        /\ pen'[i].sole <=> \A k \in Ingests \ {i} : ~Writes(k, tmp, f)
        /\ \A d \in Ingests, g \in Files :
             files'[d][g] = IF d = tmp /\ g = f THEN "partial" ELSE files[d][g]
    BY <1>6, CreateEffect
  <2>2. step[i] = from /\ step'[i] = Filling[f]
    BY <2>1, StepEffect
  <2>3. tmp = i /\ (f = "manifest" => files[i].train = i)
    BY <1>0, <1>6, <2>2 DEF FindsItsOwn, After, Files
  <2>4. \A k \in Ingests \ {i} : ~Writes(k, i, f)
    BY <1>0 DEF DirsInv, PenInv, Writes
  <2>5. tmp' = i /\ pen'[i].dir = i /\ pen'[i].sole
    BY <2>1, <2>3, <2>4
  <2>6. f = "manifest" => files'[i]["train"] = i
    BY <2>1, <2>3 DEF Files
  <2>7. step'[i] = IF f = "train" THEN "fillTrain" ELSE "fillManifest"
    BY <2>2 DEF Filling, Files
  <2> QED BY <2>5, <2>6, <2>7 DEF FindsItsOwn, After, Fills, Files
<1>7. ASSUME NEW f \in Files, NEW to \in {"writeManifest", "checkPackage"},
             Fill(i, f, to), to = IF f = "train" THEN "writeManifest" ELSE "checkPackage"
      PROVE  FindsItsOwn(i)'
  <2>1. Step(i, Filling[f], to) /\ tmp' = tmp
    BY <1>7, FillEffect
  <2>2. step[i] = Filling[f] /\ step'[i] = to
    BY <2>1, StepEffect
  <2>3. /\ tmp = i /\ pen[i].dir = i /\ pen[i].sole
        /\ f = "manifest" => files[i].train = i
    BY <1>0, <2>2 DEF FindsItsOwn, After, Fills, Filling, Files
  <2>4. \A d \in Ingests, g \in Files :
          files'[d][g] = IF d = i /\ g = f THEN i ELSE files[d][g]
    BY <1>7, <2>3, FillEffect
  <2>5. tmp' = i /\ files'[i]["train"] = i /\ (f = "manifest" => files'[i]["manifest"] = i)
    BY <2>1, <2>3, <2>4 DEF Files
  <2> QED BY <1>7, <2>2, <2>5 DEF FindsItsOwn, After, Fills, Files
<1>8. CASE CheckPackage(i)
  <2>1. /\ Step(i, "checkPackage", IF package # None THEN "clearPackage" ELSE "rename")
        /\ tmp' = tmp /\ package' = package /\ files' = files
    BY <1>8 DEF CheckPackage, fileVars
  <2>2. /\ step[i] = "checkPackage"
        /\ step'[i] = IF package # None THEN "clearPackage" ELSE "rename"
    BY <2>1, StepEffect
  <2>3. tmp = i /\ files[i].train = i /\ files[i].manifest = i
    BY <1>0, <2>2 DEF FindsItsOwn, After, Fills
  <2> QED BY <2>1, <2>2, <2>3 DEF FindsItsOwn, After, Fills
<1>9. CASE OpenPackage(i)
  <2>1. /\ Step(i, "clearPackage", "unlinkPackage") /\ Open(i, package)
        /\ package \in Ingests \cup {None}
    BY <1>9 DEF OpenPackage, TypeOK
  <2>2. step[i] = "clearPackage" /\ step'[i] = "unlinkPackage"
    BY <2>1, StepEffect
  <2>3. /\ package # None
        /\ clearing'[i].dir = package /\ clearing'[i].left = Holds(package)
        /\ tmp' = tmp /\ package' = package /\ files' = files
    BY <2>1, OpenEffect DEF fileVars
  <2>4. tmp = i /\ files[i].train = i /\ files[i].manifest = i
    BY <1>0, <2>2 DEF FindsItsOwn, After, Fills
  <2> QED BY <2>2, <2>3, <2>4 DEF FindsItsOwn, After, Fills, Clears, Holds
<1>10. CASE RemovePackage(i)
  <2>1. /\ Step(i, "unlinkPackage", "rename")
        /\ package' = None /\ tmp' = tmp /\ files' = files
    BY <1>10 DEF RemovePackage
  <2>2. step[i] = "unlinkPackage" /\ step'[i] = "rename"
    BY <2>1, StepEffect
  <2>3. tmp = i /\ files[i].train = i /\ files[i].manifest = i
    BY <1>0, <2>2 DEF FindsItsOwn, After, Fills
  <2> QED BY <2>1, <2>2, <2>3 DEF FindsItsOwn, After, Fills
<1>11. CASE Rename(i) \/ Raises(i)
  <2>1. Step(i, "rename", "done") \/ Step(i, step[i], "done")
    BY <1>11 DEF Rename, Raises
  <2>2. step'[i] = "done"
    BY <2>1, StepEffect
  <2> QED BY <2>2 DEF FindsItsOwn, After, Fills
<1>12. CASE Unlink(i)
  <2>1. PICK f \in clearing[i].left :
          /\ f \in Files /\ clearing'[i].dir = clearing[i].dir
          /\ clearing'[i].left = clearing[i].left \ {f}
          /\ \A d \in Ingests, g \in Files :
               files'[d][g] = IF d = clearing[i].dir /\ g = f THEN None ELSE files[d][g]
    BY <1>12, UnlinkEffect
  <2>2. /\ step[i] \in {"unlinkTmp", "unlinkPackage"} /\ step'[i] = step[i]
        /\ tmp' = tmp /\ package' = package
    BY <1>12, UnlinkEffect
  <2>3. tmp \in Ingests \cup {None} /\ package \in Ingests \cup {None}
    BY DEF TypeOK
  <2>4. ASSUME NEW dir \in Ingests, Clears(i, dir)
        PROVE  /\ dir # None /\ clearing'[i].dir = dir
               /\ clearing'[i].left = {g \in Files : files'[dir][g] # None}
    <3>1. {g \in Files : files'[dir][g] # None} = Holds(dir) \ {f}
      BY <2>1, <2>4 DEF Clears, Holds
    <3> QED BY <2>1, <2>4, <3>1 DEF Clears
  <2>5. CASE step[i] = "unlinkTmp"
    <3>1. Clears(i, tmp) /\ tmp \in Ingests
      BY <1>0, <2>3, <2>5 DEF FindsItsOwn, Clears
    <3> QED BY <2>2, <2>4, <2>5, <3>1 DEF FindsItsOwn, After, Fills, Clears, Holds
  <2>6. CASE step[i] = "unlinkPackage"
    <3>1. /\ Clears(i, package) /\ package \in Ingests
          /\ tmp = i /\ files[i].train = i /\ files[i].manifest = i
      BY <1>0, <2>3, <2>6 DEF FindsItsOwn, Clears, After
    <3>2. i # package
      BY <1>0, <3>1 DEF DirsInv, PathInv
    <3>3. files'[i]["train"] = i /\ files'[i]["manifest"] = i
      BY <2>1, <3>1, <3>2 DEF Files, Clears
    <3> QED BY <2>2, <2>4, <2>6, <3>1, <3>3 DEF FindsItsOwn, After, Fills, Clears, Holds
  <2> QED BY <2>2, <2>5, <2>6
<1>13. CASE Breaks(i)
  <2>1. {i} \in SUBSET UnderWay /\ Stop({i}, "done")
    BY <1>13, StopsEffect
  <2>2. step'[i] = "done"
    BY <2>1, StopEffect
  <2> QED BY <2>2 DEF FindsItsOwn, After, Fills
<1>14. CASE CreateTrain(i) \/ FillTrain(i) \/ CreateManifest(i) \/ FillManifest(i)
  BY <1>6, <1>7, <1>14, Writing
<1> QED
  BY <1>1, <1>2, <1>3, <1>4, <1>5, <1>8, <1>9, <1>10, <1>11, <1>12, <1>13, <1>14 DEF Ingest

LEMMA LoneStep ==
  ASSUME TypeOK, AloneInv, DirsInv, LoneInv, [Next]_vars
  PROVE  LoneInv'
<1>0. TypeOK' /\ alone' \subseteq alone /\ alone \subseteq Ingests
  BY TypeStep, AloneStep, Types
<1>1. ASSUME NEW i \in Ingests, Ingest(i), NEW k \in alone' PROVE FindsItsOwn(k)'
  <2>1. CASE k = i
    BY <1>0, <1>1, <2>1, OwnStep
  <2>2. CASE k # i
    BY <1>0, <1>1, <2>2, OthersRest
  <2> QED BY <2>1, <2>2
<1>2. ASSUME UNCHANGED <<step, clearing, fileVars>>, NEW k \in alone'
      PROVE  FindsItsOwn(k)'
  <2>1. FindsItsOwn(k)
    BY <1>0 DEF LoneInv
  <2> QED BY <1>2, <2>1 DEF FindsItsOwn, Clears, Holds, fileVars
<1>3. ASSUME NEW t \in Trainings, Load(t) \/ Hash(t), NEW k \in alone'
      PROVE  FindsItsOwn(k)'
  BY <1>2, <1>3, TrainingEffect DEF callVars
<1>4. ASSUME Crash, NEW k \in alone' PROVE FindsItsOwn(k)'
  <2>1. Stop(UnderWay, "crashed")
    BY <1>4, StopsEffect
  <2>2. \A i \in Ingests : step'[i] = IF i \in UnderWay THEN "crashed" ELSE step[i]
    BY <2>1, StopEffect
  <2>3. step'[k] \in {"idle", "done", "crashed"}
    BY <1>0, <2>2 DEF UnderWay
  <2> QED BY <2>3 DEF FindsItsOwn, After, Fills
<1>5. ASSUME UNCHANGED vars, NEW k \in alone' PROVE FindsItsOwn(k)'
  BY <1>2, <1>5 DEF vars, callVars
<1>6. \A k \in alone' : FindsItsOwn(k)'
  BY <1>1, <1>3, <1>4, <1>5, Kinds
<1> QED BY <1>6 DEF LoneInv


-----------------------------------------------------------------------------
(***************************************************************************)
(* The rows that are trained on.                                           *)
(***************************************************************************)

\* What a run may read now is not of an unanswered ingest that was alone; in the
\* package of one that was, it is that ingest's.
LEMMA ReadableRows ==
  ASSUME TypeOK, DirsInv, NEW r \in Readable
  PROVE  /\ r \notin alone \ accepted
         /\ package \in alone /\ r # None => r = package
<1>1. None \notin alone /\ "partial" \notin alone /\ package \in Ingests \cup {None}
  BY IngestAssumption DEF TypeOK
<1>2. CASE r = "partial" /\ r # PackageRows
  <2>1. PICK k \in Ingests : pen[k].dir = package
    BY <1>2 DEF Readable, Writes
  <2>2. package \notin alone
    BY <2>1, NobodyWrites
  <2> QED BY <1>1, <1>2, <2>2
<1>3. CASE r = PackageRows
  <2>1. CASE package = None
    BY <1>1, <1>3, <2>1 DEF PackageRows
  <2>2. CASE package # None
    <3>1. r = files[package]["train"] /\ package \in Ingests /\ "train" \in Files
      BY <1>1, <1>3, <2>2 DEF PackageRows, Files
    <3>2. r \notin {package, None, "partial"} => package \notin alone /\ r \notin alone
      BY <3>1 DEF DirsInv, ContentInv
    <3>3. package \in alone => r # "partial" /\ package \in accepted
      BY <3>1 DEF DirsInv, PartialInv, PublishedInv
    <3> QED BY <1>1, <3>2, <3>3
  <2> QED BY <2>1, <2>2
<1> QED BY <1>2, <1>3 DEF Readable

\* A step of an ingest takes no answer back and changes nothing of a training run.
LEMMA IngestRows ==
  ASSUME TypeOK, NEW i \in Ingests, Ingest(i)
  PROVE  accepted \subseteq accepted' /\ UNCHANGED trainingVars
<1>1. CASE Quiet(i)
  BY <1>1, QuietEffect
<1>2. CASE Unlink(i)
  BY <1>2, UnlinkEffect
<1>3. CASE Breaks(i)
  <2>1. {i} \in SUBSET UnderWay /\ Stop({i}, "done")
    BY <1>3, StopsEffect
  <2> QED BY <2>1, StopEffect
<1>4. ASSUME NEW f \in Files, NEW from, Create(i, f, from)
      PROVE  accepted \subseteq accepted' /\ UNCHANGED trainingVars
  BY <1>4, CreateEffect, StepEffect DEF callVars
<1>5. ASSUME NEW f \in Files, NEW to, Fill(i, f, to)
      PROVE  accepted \subseteq accepted' /\ UNCHANGED trainingVars
  BY <1>5, FillEffect, StepEffect DEF callVars
<1>6. CASE RemoveTmp(i) \/ RemovePackage(i) \/ MakeTmp(i) \/ Rename(i)
  BY <1>6, PathEffect
<1> QED BY <1>1, <1>2, <1>3, <1>4, <1>5, <1>6, IngestKinds

\* In any step, a run keeps its rows or takes those that it may read.
LEMMA RunsRead ==
  ASSUME TypeOK, [Next]_vars, NEW u \in Trainings
  PROVE  /\ accepted \subseteq accepted'
         /\ \/ rows'[u] = rows[u] /\ source'[u] = source[u]
            \/ /\ rows'[u] \in Readable
               /\ source'[u] = IF rows'[u] = None THEN None ELSE package
         /\ hashed'[u] = hashed[u] \/ hashed'[u] \in Readable
<1>1. CASE \E i \in Ingests : Ingest(i)
  BY <1>1, IngestRows DEF trainingVars
<1>2. CASE \E t \in Trainings : Load(t) \/ Hash(t)
  BY <1>2, TrainingEffect DEF callVars
<1>3. CASE Crash
  <2>1. Stop(UnderWay, "crashed")
    BY <1>3, StopsEffect
  <2> QED BY <2>1, StopEffect DEF trainingVars
<1>4. CASE UNCHANGED vars
  BY <1>4 DEF vars, callVars, trainingVars
<1> QED BY <1>1, <1>2, <1>3, <1>4, Kinds

LEMMA RowsStep ==
  ASSUME TypeOK, AloneInv, DirsInv, TrainedRowsWereAccepted, [Next]_vars
  PROVE  TrainedRowsWereAccepted'
<1> SUFFICES ASSUME NEW u \in Trainings
             PROVE  /\ source'[u] \in alone' => rows'[u] = source'[u]
                    /\ {rows'[u], hashed'[u]} \cap (alone' \ accepted') = {}
  BY DEF TrainedRowsWereAccepted
<1>1. /\ accepted \subseteq accepted' /\ alone' \subseteq alone
      /\ None \notin alone
  BY RunsRead, AloneStep, Types, IngestAssumption
<1>2. /\ source[u] \in alone => rows[u] = source[u]
      /\ rows[u] \notin alone \ accepted /\ hashed[u] \notin alone \ accepted
  BY DEF TrainedRowsWereAccepted
<1>3. rows'[u] \notin alone \ accepted /\ (source'[u] \in alone => rows'[u] = source'[u])
  <2>1. CASE rows'[u] = rows[u] /\ source'[u] = source[u]
    BY <1>2, <2>1
  <2>2. CASE /\ rows'[u] \in Readable
             /\ source'[u] = IF rows'[u] = None THEN None ELSE package
    BY <1>1, <2>2, ReadableRows
  <2> QED BY <2>1, <2>2, RunsRead
<1>4. hashed'[u] \notin alone \ accepted
  BY <1>2, RunsRead, ReadableRows
<1> QED BY <1>1, <1>3, <1>4

-----------------------------------------------------------------------------
(***************************************************************************)
(* The theorems.                                                           *)
(***************************************************************************)

LEMMA IngestInit == Init => IngestInv
<1> SUFFICES ASSUME Init PROVE IngestInv
  OBVIOUS
<1>1. /\ \A i \in Ingests : step[i] = "idle" /\ files[i] = NoFiles /\ pen[i] = NoPen
      /\ \A t \in Trainings : rows[t] = None /\ source[t] = None /\ hashed[t] = None
      /\ tmp = None /\ package = None /\ accepted = {} /\ alone = Ingests
  BY DEF Init
<1>2. TypeOK
  <2>1. NoFiles \in [Files -> Content]
    BY DEF NoFiles, Content
  <2>2. [dir |-> None, left |-> {}] \in [dir: Ingests \cup {None}, left: SUBSET Files]
    OBVIOUS
  <2>3. None \in Content
    BY DEF Content
  <2>4. NoPen \in [dir: Ingests \cup {None}, sole: BOOLEAN]
    BY DEF NoPen
  <2> QED BY <2>1, <2>2, <2>3, <2>4 DEF Init, TypeOK
<1>3. AloneInv
  BY <1>1 DEF AloneInv, UnderWay
<1>4. \A i \in Ingests : pen[i].dir = None
  BY <1>1 DEF NoPen
<1>5. BeforeInv /\ MadeInv /\ PenInv /\ PathInv
  BY <1>1, <1>4, IngestAssumption DEF BeforeInv, MadeInv, PenInv, PathInv, After
<1>6. ContentInv /\ PartialInv /\ PublishedInv
  BY <1>1, IngestAssumption DEF ContentInv, PartialInv, PublishedInv, NoFiles
<1>7. LoneInv
  BY <1>1 DEF LoneInv, FindsItsOwn, After, Fills
<1>8. TrainedRowsWereAccepted
  BY <1>1, IngestAssumption DEF TrainedRowsWereAccepted
<1> QED BY <1>2, <1>3, <1>5, <1>6, <1>7, <1>8 DEF IngestInv, DirsInv

LEMMA IngestNext == IngestInv /\ [Next]_vars => IngestInv'
  BY TypeStep, AloneStep, DirsStep, LoneStep, RowsStep DEF IngestInv

\* The inductive invariant: which directories an ingest can find at the temporary path
\* and have its open file in.
THEOREM IngestInvariant == Spec => []IngestInv
<1> QED BY IngestInit, IngestNext, PTL DEF Spec

\* However ingests overlap, fail and are interrupted, every variable of the ingest
\* keeps a value of its shape.
THEOREM IngestTypeCorrectness == Spec => []TypeOK
<1>1. IngestInv => TypeOK
  BY DEF IngestInv
<1> QED BY <1>1, IngestInvariant, PTL

\* What an ingest that no other overlapped has published is never mixed with files of
\* another, whatever follows it: no later ingest writes among it, not even one that has
\* a file open while another renames the directory of that file into place.
THEOREM PackagesAreTheirOwn == Spec => []LonePackageIsItsOwn
<1>1. IngestInv => LonePackageIsItsOwn
  <2> SUFFICES ASSUME IngestInv, package \in alone, NEW f \in Files
               PROVE  files[package][f] \in {package, None}
    BY DEF LonePackageIsItsOwn
  <2>1. package \in Ingests /\ package # None
    BY IngestAssumption DEF IngestInv, TypeOK
  <2>2. files[package][f] # "partial"
    BY <2>1 DEF IngestInv, DirsInv, PartialInv
  <2> QED BY <2>1, <2>2 DEF IngestInv, DirsInv, ContentInv
<1> QED BY <1>1, IngestInvariant, PTL

\* A run that reads the package of an ingest which no other overlapped has read all of
\* that ingest's rows, and they stay its rows until its end; an ingest which no other
\* overlapped and which was not answered is never trained on or hashed.  Nothing is
\* said of the rows of ingests that overlap: those may be cut.
THEOREM OnlyAcceptedRowsAreTrained == Spec => []TrainedRowsWereAccepted
<1>1. IngestInv => TrainedRowsWereAccepted
  BY DEF IngestInv
<1> QED BY <1>1, IngestInvariant, PTL

\* No step of an ingest that is alone and goes on being alone ends it, but its rename.
LEMMA AloneEnds ==
  ASSUME TypeOK, LoneInv, NEW i \in Ingests, i \in alone, Ingest(i),
         step[i] # "done", step'[i] = "done", i \in alone'
  PROVE  Rename(i)
<1>1. ~Raises(i)
  BY AloneNeverFails DEF Raises
<1>2. ~Unlink(i)
  BY UnlinkEffect
<1>3. ~Breaks(i)
  BY StopsEffect
<1>4. ASSUME NEW from, NEW to, Step(i, from, to) PROVE to = "done"
  BY <1>4, StepEffect
<1>5. ~(CreateTrain(i) \/ FillTrain(i) \/ CreateManifest(i) \/ FillManifest(i))
  BY <1>4, Writing DEF Create, Fill
<1> QED
  BY <1>1, <1>2, <1>3, <1>4, <1>5
  DEF Ingest, Begin, CheckTmp, OpenTmp, RemoveTmp, MakeTmp, CheckPackage, OpenPackage,
      RemovePackage

\* An ingest that no other overlaps, and no fault of the disk stops, is answered with
\* success, whatever directories the failed, interrupted and overlapping ones before it
\* have left behind.
THEOREM LoneIngestsSucceed == Spec => LoneIngestSucceeds
<1> DEFINE Ends == \A i \in alone :
                     step[i] # "done" /\ step'[i] = "done" /\ i \in alone'
                       => /\ i \in accepted'
                          /\ package' = i
                          /\ files'[i] = [f \in Files |-> i]
<1>1. ASSUME IngestInv, [Next]_vars PROVE Ends
  <2> SUFFICES ASSUME NEW i \in alone, step[i] # "done", step'[i] = "done", i \in alone'
               PROVE  i \in accepted' /\ package' = i /\ files'[i] = [f \in Files |-> i]
    OBVIOUS
  <2>0. TypeOK /\ LoneInv /\ i \in Ingests
    BY <1>1 DEF IngestInv, TypeOK
  <2>1. ASSUME NEW k \in Ingests, Ingest(k) PROVE k = i
    BY <2>0, <2>1, IngestEffect
  <2>2. Ingest(i)
    <3>1. ASSUME NEW t \in Trainings, Load(t) \/ Hash(t) PROVE FALSE
      BY <2>0, <3>1, TrainingEffect
    <3>2. ASSUME Crash PROVE FALSE
      <4>1. Stop(UnderWay, "crashed")
        BY <2>0, <3>2, StopsEffect
      <4>2. step'[i] = IF i \in UnderWay THEN "crashed" ELSE step[i]
        BY <2>0, <4>1, StopEffect
      <4> QED BY <4>2
    <3>3. ~UNCHANGED vars
      BY DEF vars
    <3> QED BY <1>1, <2>1, <3>1, <3>2, <3>3, Kinds
  <2>3. Rename(i)
    BY <2>0, <2>2, AloneEnds
  <2>4. /\ step[i] = "rename" /\ package' = tmp /\ files' = files
        /\ accepted' = accepted \cup {i}
    BY <2>0, <2>3, StepEffect DEF Rename
  <2>5. tmp = i /\ files[i].train = i /\ files[i].manifest = i
    BY <2>0, <2>4 DEF LoneInv, FindsItsOwn, After, Fills
  <2>6. files[i] \in [Files -> Content]
    BY <2>0 DEF TypeOK
  <2>7. files[i] = [f \in Files |-> i]
    BY <2>5, <2>6 DEF Files
  <2> QED BY <2>4, <2>5, <2>7
<1>2. IngestInv /\ [Next]_vars => [Ends]_vars
  BY <1>1
<1> QED BY <1>2, IngestInvariant, PTL DEF Spec, LoneIngestSucceeds
=============================================================================
