----------------------- MODULE ArtifactDownloadProofs -----------------------
(***************************************************************************)
(* Proofs about ArtifactDownload for every value of its constants.         *)
(***************************************************************************)
EXTENDS ArtifactDownload, TLAPS, WellFoundedInduction

-----------------------------------------------------------------------------
(***************************************************************************)
(* Lemmas about the operators.                                             *)
(***************************************************************************)

\* A set of artifacts that is not empty has a first.
LEMMA FirstIsListed ==
  ASSUME NEW s \in SUBSET Artifacts, s # {}
  PROVE  First(s) \in s /\ First(s) \in Artifacts
<1>1. PICK R : R = OpToRel(<, Nat)
  OBVIOUS
<1>2. IsWellFoundedOn(R, Nat)
  BY <1>1, NatLessThanWellFounded
<1>3. s \in SUBSET Nat
  BY DownloadAssumption
<1>4. PICK n \in s : \A m \in s : ~(<<m, n>> \in R)
  BY <1>2, <1>3, WFMin
<1>5. \A i, k \in Nat : <<i, k>> \in R <=> i < k
  BY <1>1 DEF OpToRel
<1>6. \A m \in s : ~(m < n) /\ m \in Nat /\ n \in Nat
  BY <1>3, <1>4, <1>5
<1>7. \A m \in s : n <= m
  BY <1>6
<1> QED BY <1>7 DEF First

-----------------------------------------------------------------------------
(***************************************************************************)
(* The shapes of the variables.                                            *)
(***************************************************************************)

\* A thread that uploads has something to upload.
BusyHaveWork == \A u \in Uploaders : upload[u].at \in Uploading => upload[u].todo # {}

ShapeInv == TypeOK /\ BusyHaveWork

LEMMA CurrentIsListed ==
  ASSUME ShapeInv, NEW u \in Uploaders, upload[u].at \in Uploading
  PROVE  Current(u) \in upload[u].todo /\ Current(u) \in Artifacts
BY FirstIsListed DEF ShapeInv, TypeOK, BusyHaveWork, Current, Upload

\* A step of an uploader that keeps its list.
LEMMA StepMoves ==
  ASSUME ShapeInv, NEW u \in Uploaders, NEW from \in Uploading,
         NEW to \in {"raced", "broken"} \cup Uploading, Step(u, from, to)
  PROVE  /\ upload[u].at = from /\ upload'[u].at = to /\ upload'[u].todo = upload[u].todo
         /\ \A v \in Uploaders \ {u} : upload'[v] = upload[v]
         /\ upload' \in [Uploaders -> Upload] /\ BusyHaveWork'
         /\ Current(u)' = Current(u) /\ Current(u) \in upload[u].todo /\ Current(u) \in Artifacts
<1>1. upload \in [Uploaders -> Upload]
  BY DEF ShapeInv, TypeOK
<1>2. /\ upload[u].at = from /\ upload'[u].at = to /\ upload'[u].todo = upload[u].todo
      /\ \A v \in Uploaders \ {u} : upload'[v] = upload[v]
      /\ upload' \in [Uploaders -> Upload]
  BY <1>1 DEF Step, Upload
<1>3. BusyHaveWork'
  BY <1>2 DEF ShapeInv, BusyHaveWork
<1>4. Current(u)' = Current(u)
  BY <1>2 DEF Current
<1> QED BY <1>2, <1>3, <1>4, CurrentIsListed

\* What the upload loop does besides the steps through one upload.
LEMMA ListMoves ==
  ASSUME ShapeInv, NEW u \in Uploaders, List(u)
  PROVE  /\ upload[u].at = "idle"
         /\ upload'[u].at \in {"done", "makedirs"}
         /\ upload'[u].todo = IF deleted THEN {} ELSE Artifacts \ keyed
         /\ upload'[u].at = "makedirs" => upload'[u].todo # {}
         /\ \A v \in Uploaders \ {u} : upload'[v] = upload[v]
         /\ upload' \in [Uploaders -> Upload] /\ BusyHaveWork'
         /\ shared' = shared \cup ({u} \X upload'[u].todo)
<1> DEFINE todo == IF deleted THEN {} ELSE Artifacts \ keyed
           new == [at |-> IF todo = {} THEN "done" ELSE "makedirs", todo |-> todo]
<1>1. upload \in [Uploaders -> Upload] /\ todo \subseteq Artifacts
  BY DEF ShapeInv, TypeOK
<1>2. /\ upload[u].at = "idle"
      /\ upload' = [upload EXCEPT ![u] = new]
      /\ shared' = shared \cup ({u} \X todo)
  BY DEF List
<1>3. new \in Upload /\ new.todo = todo /\ new.at \in {"done", "makedirs"}
      /\ (new.at = "makedirs" => todo # {})
  BY <1>1 DEF Upload, Uploading
<1> HIDE DEF new
<1>4. /\ upload'[u] = new
      /\ \A v \in Uploaders \ {u} : upload'[v] = upload[v]
      /\ upload' \in [Uploaders -> Upload]
  BY <1>1, <1>2, <1>3
<1>5. BusyHaveWork'
  BY <1>3, <1>4 DEF ShapeInv, BusyHaveWork, Uploading
<1> QED BY <1>2, <1>3, <1>4, <1>5

LEMMA RecordMoves ==
  ASSUME ShapeInv, NEW u \in Uploaders, Record(u)
  PROVE  /\ upload[u].at = "record"
         /\ upload'[u].at \in {"raced", "done", "makedirs"}
         /\ upload'[u].at = "raced" <=> deleted
         /\ upload'[u].todo = IF deleted THEN upload[u].todo
                              ELSE upload[u].todo \ {Current(u)}
         /\ \A v \in Uploaders \ {u} : upload'[v] = upload[v]
         /\ upload' \in [Uploaders -> Upload] /\ BusyHaveWork'
         /\ keyed' = IF deleted THEN keyed ELSE keyed \cup {Current(u)}
         /\ forgotten' = IF deleted THEN forgotten ELSE forgotten \ {Current(u)}
         /\ Current(u) \in Artifacts /\ Current(u) \in upload[u].todo
<1> DEFINE a == Current(u)
           rest == upload[u].todo \ {a}
           new == [ at |-> IF deleted THEN "raced"
                           ELSE IF rest = {} THEN "done" ELSE "makedirs",
                    todo |-> IF deleted THEN upload[u].todo ELSE rest ]
<1>1. upload \in [Uploaders -> Upload] /\ deleted \in BOOLEAN
  BY DEF ShapeInv, TypeOK
<1>2. /\ upload[u].at = "record"
      /\ upload' = [upload EXCEPT ![u] = new]
      /\ keyed' = IF deleted THEN keyed ELSE keyed \cup {a}
      /\ forgotten' = IF deleted THEN forgotten ELSE forgotten \ {a}
  BY <1>1 DEF Record
<1>3. a \in Artifacts /\ a \in upload[u].todo
  BY <1>2, CurrentIsListed DEF Uploading
<1> HIDE DEF a
<1>4. /\ new \in Upload /\ new.at \in {"raced", "done", "makedirs"}
      /\ new.at = "raced" <=> deleted
      /\ new.at = "makedirs" => rest # {} /\ ~deleted
      /\ new.todo = IF deleted THEN upload[u].todo ELSE rest
  BY <1>1 DEF Upload, Uploading
<1> HIDE DEF new
<1>5. /\ upload'[u] = new
      /\ \A v \in Uploaders \ {u} : upload'[v] = upload[v]
      /\ upload' \in [Uploaders -> Upload]
  BY <1>1, <1>2, <1>4
<1>6. BusyHaveWork'
  BY <1>4, <1>5 DEF ShapeInv, BusyHaveWork, Uploading
<1> QED BY <1>2, <1>3, <1>4, <1>5, <1>6 DEF a

\* What a step of an uploader leaves alone, and how it moves.
SendMoves(u) ==
  /\ UNCHANGED <<now, deleted, removal, client, gone>>
  /\ \A v \in Uploaders \ {u} : upload'[v] = upload[v]
  /\ upload' \in [Uploaders -> Upload] /\ BusyHaveWork'
  /\ List(u) \/ Record(u)
       \/ \E from \in Uploading, to \in {"raced", "broken"} \cup Uploading : Step(u, from, to)
  /\ List(u) \/ shared' = shared
  /\ Record(u) \/ (keyed' = keyed /\ forgotten' = forgotten)

LEMMA SendEffect ==
  ASSUME ShapeInv, NEW u \in Uploaders, Send(u)
  PROVE  SendMoves(u)
<1> USE DEF SendMoves, Uploading
<1>1. CASE List(u)
  BY <1>1, ListMoves DEF List
<1>2. CASE Record(u)
  BY <1>2, RecordMoves DEF Record
<1>3. ASSUME NEW from \in Uploading, NEW to \in {"raced", "broken"} \cup Uploading,
             Step(u, from, to),
             UNCHANGED <<now, deleted, removal, client, gone, shared, keyed, forgotten>>
      PROVE  SendMoves(u)
  BY <1>3, StepMoves
<1>4. CASE MakeDirs(u)
  BY <1>3, <1>4 DEF MakeDirs
<1>5. CASE MakeJob(u)
  BY <1>3, <1>5 DEF MakeJob
<1>6. CASE MakeLeaf(u)
  BY <1>3, <1>6 DEF MakeLeaf
<1>7. CASE Open(u)
  BY <1>3, <1>7 DEF Open
<1>8. CASE Copy(u)
  BY <1>3, <1>8 DEF Copy
<1>9. CASE CopyBreaks(u)
  BY <1>3, <1>9 DEF CopyBreaks
<1> QED BY <1>1, <1>2, <1>4, <1>5, <1>6, <1>7, <1>8, <1>9 DEF Send

\* Uploads fill the volume: a file is cut when it is opened, by the thread that
\* writes it, and is whole when that thread has written it.
SendFills(u) ==
  /\ dirs \subseteq dirs' /\ dirs' \subseteq Artifacts
  /\ jobdir' \in BOOLEAN /\ (jobdir => jobdir') /\ (dirs' # {} => jobdir')
  /\ file' \in [Artifacts -> {"absent", "whole"} \cup Uploaders]
  /\ \A a \in Artifacts :
       \/ file'[a] = file[a]
       \/ Open(u) /\ a = Current(u) /\ a \in dirs /\ file'[a] = u
       \/ Copy(u) /\ a = Current(u) /\ file[a] = u /\ file'[a] = "whole"

LEMMA SendEffectOnVolume ==
  ASSUME ShapeInv, NEW u \in Uploaders, Send(u)
  PROVE  SendFills(u)
<1> USE DEF SendFills, ShapeInv, TypeOK
<1> DEFINE c == Current(u)
<1>1. CASE List(u) \/ CopyBreaks(u) \/ Record(u)
  BY <1>1 DEF List, CopyBreaks, Record
<1>2. upload[u].at \in Uploading => c \in Artifacts
  BY CurrentIsListed
<1>3. CASE MakeDirs(u)
  <2>1. c \in Artifacts
    BY <1>2, <1>3 DEF MakeDirs, Step, Uploading
  <2> HIDE DEF c
  <2>2. dirs' = IF jobdir THEN dirs \cup {c} ELSE dirs
    BY <1>3 DEF MakeDirs, c
  <2> QED BY <1>3, <2>1, <2>2 DEF MakeDirs
<1>4. CASE MakeJob(u)
  BY <1>4 DEF MakeJob
<1>5. CASE MakeLeaf(u)
  <2>1. c \in Artifacts
    BY <1>2, <1>5 DEF MakeLeaf, Step, Uploading
  <2> HIDE DEF c
  <2>2. dirs' = IF jobdir THEN dirs \cup {c} ELSE dirs
    BY <1>5 DEF MakeLeaf, c
  <2> QED BY <1>5, <2>1, <2>2 DEF MakeLeaf
<1>6. CASE Open(u)
  <2>1. c \in Artifacts
    BY <1>2, <1>6 DEF Open, Step, Uploading
  <2>2. /\ file' = IF c \in dirs THEN [file EXCEPT ![c] = u] ELSE file
        /\ UNCHANGED <<jobdir, dirs>>
    BY <1>6 DEF Open
  <2> HIDE DEF c
  <2>3. file' \in [Artifacts -> {"absent", "whole"} \cup Uploaders]
    BY <2>1, <2>2
  <2>4. \A a \in Artifacts : file'[a] = file[a] \/ (a = c /\ a \in dirs /\ file'[a] = u)
    BY <2>1, <2>2
  <2> QED BY <1>6, <2>2, <2>3, <2>4 DEF c
<1>7. CASE Copy(u)
  <2>1. c \in Artifacts
    BY <1>2, <1>7 DEF Copy, Step, Uploading
  <2>2. /\ file' = IF file[c] = u THEN [file EXCEPT ![c] = "whole"] ELSE file
        /\ UNCHANGED <<jobdir, dirs>>
    BY <1>7 DEF Copy
  <2> HIDE DEF c
  <2>3. file' \in [Artifacts -> {"absent", "whole"} \cup Uploaders]
    BY <2>1, <2>2
  <2>4. \A a \in Artifacts : file'[a] = file[a] \/ (a = c /\ file[a] = u /\ file'[a] = "whole")
    BY <2>1, <2>2
  <2> QED BY <1>7, <2>2, <2>3, <2>4 DEF c
<1> QED BY <1>1, <1>3, <1>4, <1>5, <1>6, <1>7 DEF Send

LEMMA SendKeepsShape ==
  ASSUME ShapeInv, NEW u \in Uploaders, Send(u)
  PROVE  ShapeInv'
<1>1. SendMoves(u) /\ SendFills(u)
  BY SendEffect, SendEffectOnVolume
<1>2. \A a \in Artifacts : file'[a] # "absent" => a \in dirs'
  BY <1>1, DownloadAssumption DEF SendFills, ShapeInv, TypeOK
<1>3. keyed' \subseteq Artifacts
  <2>1. CASE Record(u)
    <3>1. keyed' = keyed \/ (keyed' = keyed \cup {Current(u)} /\ Current(u) \in Artifacts)
      BY <2>1, RecordMoves
    <3> QED BY <3>1 DEF ShapeInv, TypeOK
  <2> QED BY <1>1, <2>1 DEF SendMoves, ShapeInv, TypeOK
<1>4. shared' \subseteq Uploaders \X Artifacts
  BY <1>1, ListMoves DEF SendMoves, ShapeInv, TypeOK
<1>5. forgotten' \subseteq Artifacts
  BY <1>1, RecordMoves DEF SendMoves, ShapeInv, TypeOK
<1> QED BY <1>1, <1>2, <1>3, <1>4, <1>5 DEF ShapeInv, TypeOK, SendMoves, SendFills

\* A deletion takes away from the volume.
RemoveClears ==
  /\ removal # None /\ removal \in Removal
  /\ UNCHANGED <<now, deleted, keyed, upload, client, shared, forgotten>>
  /\ \/ removal.at = "unlink" /\ file' = [file EXCEPT ![removal.artifact] = "absent"]
     \/ removal.at # "unlink" /\ file' = file
  /\ removal' = None \/ /\ removal' \in Removal
                        /\ removal'.artifact = removal.artifact
                        /\ removal'.alone = removal.alone
  /\ removal'.at # "unlink" \/ removal' = None
  /\ gone' = gone \/ /\ removal.alone /\ removal.at # "unlink"
                     /\ gone' = gone \cup {removal.artifact} /\ removal' = None

LEMMA RemoveEffect ==
  ASSUME ShapeInv, Remove
  PROVE  RemoveClears /\ ShapeInv'
<1> USE DEF RemoveClears, ShapeInv, BusyHaveWork
<1>1. removal # None /\ removal \in Removal
  BY DEF Remove, Unlink, SeeLeaf, RemoveLeaf, SeeJob, RemoveJob, RemoveRaises, TypeOK
<1>2. removal.artifact \in Artifacts /\ removal.alone \in BOOLEAN
  BY <1>1 DEF Removal
<1>3. ASSUME NEW at \in {"leaf", "empty", "job", "jobempty"}
      PROVE  LET r == [removal EXCEPT !.at = at]
             IN  /\ r \in Removal /\ r.at = at
                 /\ r.artifact = removal.artifact /\ r.alone = removal.alone
  BY <1>1 DEF Removal
<1>4. CASE Unlink
  <2>1. /\ file' = [file EXCEPT ![removal.artifact] = "absent"]
        /\ removal' = [removal EXCEPT !.at = "leaf"] /\ removal.at = "unlink"
        /\ UNCHANGED <<now, deleted, keyed, jobdir, dirs, upload, client, shared, gone, forgotten>>
    BY <1>4 DEF Unlink
  <2>2. /\ removal' \in Removal /\ removal'.at = "leaf"
        /\ removal'.artifact = removal.artifact /\ removal'.alone = removal.alone
    BY <1>3, <2>1
  <2>3. TypeOK'
    BY <1>2, <2>1, <2>2 DEF TypeOK
  <2> QED BY <1>1, <1>4, <2>1, <2>2, <2>3
<1>5. CASE SeeLeaf
  <2>1. PICK at \in {"empty", "job"} : removal' = [removal EXCEPT !.at = at]
    BY <1>5 DEF SeeLeaf
  <2>2. /\ UNCHANGED <<now, deleted, keyed, jobdir, dirs, file, upload, client, shared, gone, forgotten>>
        /\ removal.at = "leaf"
    BY <1>5 DEF SeeLeaf
  <2>3. /\ removal' \in Removal /\ removal'.at = at
        /\ removal'.artifact = removal.artifact /\ removal'.alone = removal.alone
    BY <1>3, <2>1
  <2>4. TypeOK'
    BY <2>2, <2>3 DEF TypeOK
  <2> QED BY <1>1, <2>2, <2>3, <2>4
<1>6. CASE RemoveLeaf
  <2>1. removal' = [removal EXCEPT !.at = "job"]
    BY <1>6 DEF RemoveLeaf
  <2>2. /\ UNCHANGED <<now, deleted, keyed, jobdir, file, upload, client, shared, gone, forgotten>>
        /\ dirs' = dirs \ {removal.artifact} /\ file[removal.artifact] = "absent"
        /\ removal.at = "empty"
    BY <1>6 DEF RemoveLeaf
  <2>3. /\ removal' \in Removal /\ removal'.at = "job"
        /\ removal'.artifact = removal.artifact /\ removal'.alone = removal.alone
    BY <1>3, <2>1
  <2>4. TypeOK'
    BY <2>2, <2>3 DEF TypeOK
  <2> QED BY <1>1, <2>2, <2>3, <2>4
<1>7. CASE SeeJob
  <2>1. UNCHANGED <<now, deleted, keyed, jobdir, dirs, file, upload, client, shared, forgotten>>
    BY <1>7 DEF SeeJob
  <2>2. removal.at = "job"
    BY <1>7 DEF SeeJob
  <2>3. CASE removal' = [removal EXCEPT !.at = "jobempty"] /\ UNCHANGED gone
    <3>1. /\ removal' \in Removal /\ removal'.at = "jobempty"
          /\ removal'.artifact = removal.artifact /\ removal'.alone = removal.alone
      BY <1>3, <2>3
    <3>2. TypeOK'
      BY <2>1, <2>3, <3>1 DEF TypeOK
    <3> QED BY <1>1, <2>1, <2>2, <2>3, <3>1, <3>2
  <2>4. CASE Removed
    <3>1. TypeOK'
      BY <1>2, <2>1, <2>4 DEF TypeOK, Removed
    <3> QED BY <1>1, <2>1, <2>2, <2>4, <3>1 DEF Removed
  <2> QED BY <1>7, <2>3, <2>4 DEF SeeJob
<1>8. CASE RemoveJob
  <2>1. /\ UNCHANGED <<now, deleted, keyed, dirs, file, upload, client, shared, forgotten>>
        /\ Removed /\ dirs = {} /\ jobdir' = FALSE /\ removal.at = "jobempty"
    BY <1>8 DEF RemoveJob
  <2>2. TypeOK'
    BY <1>2, <2>1 DEF TypeOK, Removed
  <2> QED BY <1>1, <2>1, <2>2 DEF Removed
<1>9. CASE RemoveRaises
  <2>1. /\ UNCHANGED <<now, deleted, keyed, jobdir, dirs, file, upload, client, shared, forgotten>>
        /\ Removed /\ removal.at \in {"empty", "jobempty"}
    BY <1>9 DEF RemoveRaises
  <2>2. TypeOK'
    BY <1>2, <2>1 DEF TypeOK, Removed
  <2> QED BY <1>1, <2>1, <2>2 DEF Removed
<1> QED BY <1>4, <1>5, <1>6, <1>7, <1>8, <1>9 DEF Remove

LEMMA DeleteKeepsShape ==
  ASSUME ShapeInv, NEW a \in Artifacts, Delete(a)
  PROVE  ShapeInv'
<1>1. [at |-> "unlink", artifact |-> a, alone |-> ~Busy(a)] \in Removal
  BY DEF Removal, Busy
<1>2. removal' \in Removal \cup {None}
  BY <1>1 DEF Delete
<1>3. gone' \subseteq Artifacts
  BY DEF Delete, ShapeInv, TypeOK
<1>4. /\ deleted' = TRUE /\ keyed' = {}
      /\ UNCHANGED <<now, jobdir, dirs, file, upload, client, shared, forgotten>>
  BY DEF Delete
<1> QED BY <1>2, <1>3, <1>4 DEF ShapeInv, TypeOK, BusyHaveWork

LEMMA ExpireDeletes ==
  ASSUME ShapeInv, Expire
  PROVE  \E a \in Artifacts : Delete(a)
<1>1. Overdue \subseteq Artifacts /\ Overdue # {}
  BY DEF Overdue, Expire
<1> QED BY <1>1, FirstIsListed DEF Expire

\* What a step of a client leaves alone, and how it moves.
ServeMoves(c) ==
  /\ UNCHANGED <<now, deleted, keyed, jobdir, dirs, file, upload, removal, shared, gone, forgotten>>
  /\ \A d \in Clients \ {c} : client'[d] = client[d]
  /\ client' \in [Clients -> Client]
  /\ \/ \E a \in Artifacts :
          client'[c] = [Quiet EXCEPT !.at = "asked", !.artifact = a,
                                     !.overdue = \E b \in Artifacts : now >= ExpiresAt[b]]
     \/ /\ client'[c].artifact = client[c].artifact
        /\ client'[c].overdue = client[c].overdue
        /\ \/ client'[c].late = client[c].late
           \/ client[c].at = "url" /\ client'[c].at = "verified"
              /\ client'[c].late = (client[c].artifact \in gone)
        /\ \/ client[c].at = "asked" /\ client'[c].at = "evaluated" /\ Overdue = {}
           \/ client[c].at = "evaluated" /\ client'[c].at = "refused"
           \/ client[c].at = "evaluated" /\ client'[c].at = "found"
              /\ client[c].artifact \in keyed
           \/ client[c].at = "found" /\ client'[c].at = "url"
           \/ client[c].at = "url" /\ client'[c].at = "verified"
              /\ client'[c].late = (client[c].artifact \in gone)
           \/ client[c].at = "verified" /\ client'[c].at = "missing"
           \/ client[c].at = "verified" /\ client'[c].at = "there"
              /\ file[client[c].artifact] # "absent"
           \/ client[c].at = "there" /\ client'[c].at \in {"missing", "whole"}
           \/ client[c].at = "there" /\ client'[c].at = "torn"
              /\ file[client[c].artifact] \notin {"absent", "whole"}
           \/ client[c].at \in {"whole", "torn", "missing"} /\ client'[c].at = "url"

LEMMA ServeEffect ==
  ASSUME ShapeInv, NEW c \in Clients, Serve(c)
  PROVE  ServeMoves(c)
<1> DEFINE Frame ==
      /\ UNCHANGED <<now, deleted, keyed, jobdir, dirs, file, upload, removal, shared, gone, forgotten>>
      /\ \A d \in Clients \ {c} : client'[d] = client[d]
      /\ client' \in [Clients -> Client]
    Kept(s) == s.artifact = client[c].artifact /\ s.overdue = client[c].overdue
<1>1. client \in [Clients -> Client] /\ client[c] \in Client
  BY DEF ShapeInv, TypeOK
<1>2. ASSUME NEW from, NEW state \in Client, Answer(c, from, state)
      PROVE  Frame /\ client[c].at = from /\ client'[c] = state
  BY <1>1, <1>2 DEF Answer
<1>3. ASSUME NEW place \in { "evaluated", "found", "refused", "url",
                             "verified", "there", "whole", "torn", "missing" }
      PROVE  LET s == At(c, place)
             IN  s \in Client /\ s.at = place /\ Kept(s) /\ s.late = client[c].late
  BY <1>1 DEF At, Client
<1>4. ASSUME NEW from, NEW place \in { "evaluated", "found", "refused", "url",
                                       "verified", "there", "whole", "torn", "missing" },
             Answer(c, from, At(c, place))
      PROVE  /\ Frame /\ client[c].at = from /\ client'[c].at = place
             /\ Kept(client'[c]) /\ client'[c].late = client[c].late
  <2> DEFINE s == At(c, place)
  <2>1. s \in Client /\ s.at = place /\ Kept(s) /\ s.late = client[c].late
    BY <1>3
  <2>2. Answer(c, from, s)
    BY <1>4
  <2> HIDE DEF s, Frame
  <2> QED BY <1>2, <2>1, <2>2
<1>5. ASSUME NEW a \in Artifacts, Ask(c, a) PROVE ServeMoves(c)
  <2> DEFINE s == [Quiet EXCEPT !.at = "asked", !.artifact = a,
                                !.overdue = \E b \in Artifacts : now >= ExpiresAt[b]]
  <2>1. s \in Client
    BY DEF Quiet, Client
  <2>2. Answer(c, "idle", s)
    BY <1>5 DEF Ask
  <2> HIDE DEF s
  <2>3. Frame /\ client'[c] = s
    BY <1>2, <2>1, <2>2
  <2> QED BY <2>1, <2>3 DEF s, ServeMoves
<1>6. CASE Evaluate(c)
  <2>1. Answer(c, "asked", At(c, "evaluated")) /\ Overdue = {}
    BY <1>6 DEF Evaluate
  <2> QED BY <1>4, <2>1 DEF ServeMoves
<1>7. CASE Look(c)
  <2>1. CASE client[c].artifact \in keyed
    <3>1. Answer(c, "evaluated", At(c, "found"))
      BY <1>7, <2>1 DEF Look
    <3> QED BY <1>4, <2>1, <3>1 DEF ServeMoves
  <2>2. CASE client[c].artifact \notin keyed
    <3>1. Answer(c, "evaluated", At(c, "refused"))
      BY <1>7, <2>2 DEF Look
    <3> QED BY <1>4, <3>1 DEF ServeMoves
  <2> QED BY <2>1, <2>2
<1>8. CASE Issue(c)
  <2> DEFINE t == At(c, "url")
             s == [t EXCEPT !.expires = now + Ttl]
  <2>1. t \in Client /\ t.at = "url" /\ Kept(t) /\ t.late = client[c].late
    BY <1>3
  <2>2. now + Ttl \in Nat
    BY DownloadAssumption DEF ShapeInv, TypeOK
  <2>3. Answer(c, "found", s)
    BY <1>8 DEF Issue
  <2> HIDE DEF t, Frame
  <2>4. s \in Client /\ s.at = "url" /\ Kept(s) /\ s.late = client[c].late
    BY <2>1, <2>2 DEF Client
  <2> HIDE DEF s
  <2>5. Frame /\ client[c].at = "found" /\ client'[c] = s
    BY <1>2, <2>3, <2>4
  <2> QED BY <2>4, <2>5 DEF Frame, ServeMoves
<1>9. CASE Verify(c)
  <2> DEFINE t == At(c, "verified")
             l == client[c].artifact \in gone
             s == [t EXCEPT !.late = l]
  <2>1. t \in Client /\ t.at = "verified" /\ Kept(t)
    BY <1>3
  <2>2. l \in BOOLEAN
    OBVIOUS
  <2>3. Answer(c, "url", s)
    BY <1>9 DEF Verify
  <2> HIDE DEF t, l, Frame
  <2>4. s \in Client /\ s.at = "verified" /\ Kept(s) /\ s.late = l
    BY <2>1, <2>2 DEF Client
  <2> HIDE DEF s
  <2>5. Frame /\ client[c].at = "url" /\ client'[c] = s
    BY <1>2, <2>3, <2>4
  <2> QED BY <2>4, <2>5 DEF Frame, l, ServeMoves
<1>10. CASE Find(c)
  <2>1. CASE file[client[c].artifact] = "absent"
    <3>1. Answer(c, "verified", At(c, "missing"))
      BY <1>10, <2>1 DEF Find
    <3> QED BY <1>4, <3>1 DEF ServeMoves
  <2>2. CASE file[client[c].artifact] # "absent"
    <3>1. Answer(c, "verified", At(c, "there"))
      BY <1>10, <2>2 DEF Find
    <3> QED BY <1>4, <2>2, <3>1 DEF ServeMoves
  <2> QED BY <2>1, <2>2
<1>11. CASE Read(c)
  <2>1. CASE file[client[c].artifact] \in {"absent", "whole"}
    <3>1. PICK place \in {"missing", "whole"} : Answer(c, "there", At(c, place))
      BY <1>11, <2>1 DEF Read
    <3> QED BY <1>4, <3>1 DEF ServeMoves
  <2>2. CASE file[client[c].artifact] \notin {"absent", "whole"}
    <3>1. Answer(c, "there", At(c, "torn"))
      BY <1>11, <2>2 DEF Read
    <3> QED BY <1>4, <2>2, <3>1 DEF ServeMoves
  <2> QED BY <2>1, <2>2
<1>12. CASE Again(c)
  <2>1. PICK from \in {"whole", "torn", "missing"} : Answer(c, from, At(c, "url"))
    BY <1>12 DEF Again
  <2> QED BY <1>4, <2>1 DEF ServeMoves
<1> QED BY <1>5, <1>6, <1>7, <1>8, <1>9, <1>10, <1>11, <1>12 DEF Serve

\* A restart breaks off the requests and uploads that are under way.
RestartMoves ==
  /\ UNCHANGED <<now, deleted, jobdir, dirs, file, shared, gone>>
  /\ keyed' = {} /\ removal' = None /\ forgotten' = forgotten \cup keyed
  /\ upload' \in [Uploaders -> Upload] /\ client' \in [Clients -> Client]
  /\ \A u \in Uploaders :
       /\ upload'[u].at \notin Uploading /\ upload'[u].todo = upload[u].todo
       /\ upload'[u].at = upload[u].at \/ (upload[u].at \in Uploading /\ upload'[u].at = "broken")
  /\ \A c \in Clients :
       /\ client'[c].artifact = client[c].artifact
       /\ client'[c].overdue = client[c].overdue /\ client'[c].late = client[c].late
       /\ \/ client'[c].at = client[c].at
          \/ client'[c].at = "refused"
          \/ client[c].at \in {"verified", "there"} /\ client'[c].at = "missing"

LEMMA RestartEffect ==
  ASSUME ShapeInv, Restart
  PROVE  RestartMoves /\ ShapeInv'
<1>1. upload \in [Uploaders -> Upload] /\ client \in [Clients -> Client]
  BY DEF ShapeInv, TypeOK
<1>2. ASSUME NEW u \in Uploaders
      PROVE  /\ upload'[u] \in Upload
             /\ upload'[u].at \notin Uploading /\ upload'[u].todo = upload[u].todo
             /\ \/ upload'[u].at = upload[u].at
                \/ upload[u].at \in Uploading /\ upload'[u].at = "broken"
  <2>1. upload[u] \in Upload /\ "broken" \notin Uploading
    BY <1>1 DEF Uploading
  <2>2. upload'[u] = IF upload[u].at \in Uploading
                     THEN [upload[u] EXCEPT !.at = "broken"] ELSE upload[u]
    BY DEF Restart
  <2> QED BY <2>1, <2>2 DEF Upload
<1>3. ASSUME NEW c \in Clients
      PROVE  /\ client'[c] \in Client
             /\ client'[c].artifact = client[c].artifact
             /\ client'[c].overdue = client[c].overdue /\ client'[c].late = client[c].late
             /\ \/ client'[c].at = client[c].at
                \/ client'[c].at = "refused"
                \/ client[c].at \in {"verified", "there"} /\ client'[c].at = "missing"
  <2>1. client[c] \in Client
    BY <1>1
  <2>2. client'[c] = CASE client[c].at \in {"asked", "evaluated", "found"} -> At(c, "refused")
                       [] client[c].at \in {"verified", "there"} -> At(c, "missing")
                       [] OTHER -> client[c]
    BY DEF Restart
  <2> QED BY <2>1, <2>2 DEF At, Client
<1>4. upload' \in [Uploaders -> Upload] /\ client' \in [Clients -> Client]
  <2>1. /\ upload' = [u \in Uploaders |-> upload'[u]]
        /\ client' = [c \in Clients |-> client'[c]]
    BY DEF Restart
  <2> QED BY <1>2, <1>3, <2>1
<1>5. BusyHaveWork'
  BY <1>2 DEF BusyHaveWork
<1>6. /\ UNCHANGED <<now, deleted, jobdir, dirs, file, shared, gone>>
      /\ keyed' = {} /\ removal' = None /\ forgotten' = forgotten \cup keyed
  BY DEF Restart
<1>7. RestartMoves
  BY <1>2, <1>3, <1>4, <1>6 DEF RestartMoves
<1>8. TypeOK'
  BY <1>4, <1>6 DEF ShapeInv, TypeOK
<1> QED BY <1>5, <1>7, <1>8 DEF ShapeInv

LEMMA NextKeepsShape ==
  ASSUME ShapeInv, [Next]_vars
  PROVE  ShapeInv'
<1>1. ASSUME NEW c \in Clients, Serve(c) PROVE ShapeInv'
  <2>1. ServeMoves(c)
    BY <1>1, ServeEffect
  <2> QED BY <2>1 DEF ServeMoves, ShapeInv, TypeOK, BusyHaveWork
<1>2. CASE Tick
  BY <1>2, DownloadAssumption DEF Tick, ShapeInv, TypeOK, BusyHaveWork
<1>3. CASE UNCHANGED vars
  BY <1>3 DEF vars, ShapeInv, TypeOK, BusyHaveWork
<1> QED BY <1>1, <1>2, <1>3, SendKeepsShape, RemoveEffect, RestartEffect, DeleteKeepsShape,
           ExpireDeletes DEF Next, DeleteArtifact

-----------------------------------------------------------------------------
(***************************************************************************)
(* What any step does to the record, the clock, the files and the uploads. *)
(***************************************************************************)
Works(u, a) == upload[u].at \in Uploading /\ a \in upload[u].todo

\* A tombstone stays one; only a deletion makes one, and only a thread that has
\* the artifact to upload touches its file otherwise.
Progress ==
  /\ deleted => deleted'
  /\ now <= now'
  /\ gone \subseteq gone' /\ shared \subseteq shared'
  /\ deleted => forgotten \subseteq forgotten'
  /\ removal' = removal \/ removal' = None
       \/ (\E a \in Artifacts : Delete(a)) \/ RemoveClears
  /\ \A u \in Uploaders, a \in Artifacts :
       Works(u, a)' => Works(u, a) \/ (List(u) /\ ~deleted)
  /\ \A a \in Artifacts :
       \/ file'[a] = file[a]
       \/ file'[a] = "absent"
       \/ \E u \in Uploaders : /\ Works(u, a)
                               /\ \/ file'[a] = u /\ Open(u) /\ a = Current(u)
                                  \/ file'[a] = "whole"

LEMMA NextProgresses ==
  ASSUME ShapeInv, [Next]_vars
  PROVE  Progress
<1> USE DEF Progress
<1>1. ASSUME NEW u \in Uploaders, Send(u) PROVE Progress
  <2>1. SendMoves(u) /\ SendFills(u)
    BY <1>1, SendEffect, SendEffectOnVolume
  <2>2. UNCHANGED <<now, deleted, removal, gone>>
    BY <2>1 DEF SendMoves
  <2>3. shared \subseteq shared'
    BY <2>1, ListMoves DEF SendMoves
  <2>4. ASSUME NEW v \in Uploaders, NEW a \in Artifacts, Works(v, a)'
        PROVE  Works(v, a) \/ (List(v) /\ ~deleted)
    <3>1. CASE v # u
      BY <2>1, <2>4, <3>1 DEF SendMoves, Works
    <3>2. CASE v = u /\ List(u)
      BY <2>4, <3>2, ListMoves DEF Works
    <3>3. CASE v = u /\ Record(u)
      <4>1. upload[u].at = "record" /\ upload'[u].todo \subseteq upload[u].todo
        BY <3>3, RecordMoves
      <4> QED BY <2>4, <3>3, <4>1 DEF Works, Uploading
    <3>4. ASSUME v = u, NEW from \in Uploading, NEW to \in {"raced", "broken"} \cup Uploading,
                 Step(u, from, to)
          PROVE  Works(v, a)
      <4>1. upload[u].at = from /\ upload'[u].todo = upload[u].todo
        BY <3>4, StepMoves
      <4> QED BY <2>4, <3>4, <4>1 DEF Works
    <3> QED BY <2>1, <3>1, <3>2, <3>3, <3>4 DEF SendMoves
  <2>5. ASSUME Open(u) \/ Copy(u) PROVE Works(u, Current(u))
    <3>1. upload[u].at \in Uploading
      BY <2>5 DEF Open, Copy, Step, Uploading
    <3> QED BY <3>1, CurrentIsListed DEF Works
  <2>6. now <= now'
    BY <2>2 DEF ShapeInv, TypeOK
  <2>7. \A a \in Artifacts :
          \/ file'[a] = file[a]
          \/ \E v \in Uploaders : /\ Works(v, a)
                                  /\ \/ file'[a] = v /\ Open(v) /\ a = Current(v)
                                     \/ file'[a] = "whole"
    BY <2>1, <2>5 DEF SendFills
  <2>8. removal' = removal
    BY <2>2
  <2>9. deleted => forgotten \subseteq forgotten'
    BY <2>1, RecordMoves DEF SendMoves
  <2> QED BY <2>2, <2>3, <2>4, <2>6, <2>7, <2>8, <2>9
<1>2. CASE Remove
  <2>1. RemoveClears
    BY <1>2, RemoveEffect
  <2>2. \A a \in Artifacts : file'[a] = file[a] \/ file'[a] = "absent"
    BY <2>1 DEF RemoveClears, ShapeInv, TypeOK
  <2> QED BY <2>1, <2>2 DEF RemoveClears, Works, ShapeInv, TypeOK
<1>3. ASSUME NEW a \in Artifacts, Delete(a) PROVE Progress
  BY <1>3 DEF Delete, Works, ShapeInv, TypeOK
<1>4. ASSUME NEW c \in Clients, Serve(c) PROVE Progress
  <2>1. ServeMoves(c)
    BY <1>4, ServeEffect
  <2>2. UNCHANGED <<now, deleted, keyed, jobdir, dirs, file, upload, removal, shared, gone, forgotten>>
    BY <2>1 DEF ServeMoves
  <2> QED BY <2>2 DEF Works, ShapeInv, TypeOK
<1>5. CASE Tick
  BY <1>5 DEF Tick, Works, ShapeInv, TypeOK
<1>6. CASE Restart
  <2>1. RestartMoves
    BY <1>6, RestartEffect
  <2> QED BY <2>1 DEF RestartMoves, Works, ShapeInv, TypeOK
<1>7. CASE UNCHANGED vars
  BY <1>7 DEF vars, Works, ShapeInv, TypeOK
<1> QED BY <1>1, <1>2, <1>3, <1>4, <1>5, <1>6, <1>7, ExpireDeletes DEF Next, DeleteArtifact

-----------------------------------------------------------------------------
(***************************************************************************)
(* A deletion and an upload fail only beside each other.                   *)
(***************************************************************************)
ClearInv ==
  /\ removal # None => deleted
  /\ deleted => keyed = {}
  /\ \A u \in Uploaders :
       /\ upload[u].at = "raced" => deleted
       /\ upload[u].at = "makeleaf" => jobdir \/ deleted
       /\ upload[u].at = "open" => Current(u) \in dirs \/ deleted

LEMMA NextKeepsClear ==
  ASSUME ShapeInv, ClearInv, [Next]_vars
  PROVE  ClearInv'
<1>1. CASE deleted
  <2>1. deleted'
    BY <1>1, NextProgresses DEF Progress
  <2>2. keyed' = {}
    <3>1. keyed' = keyed \/ keyed' = {}
      <4>1. ASSUME NEW u \in Uploaders, Send(u) PROVE keyed' = keyed
        BY <1>1, <4>1, SendEffect, RecordMoves DEF SendMoves
      <4>2. CASE Remove
        BY <4>2, RemoveEffect DEF RemoveClears
      <4>3. ASSUME NEW c \in Clients, Serve(c) PROVE keyed' = keyed
        BY <4>3, ServeEffect DEF ServeMoves
      <4> QED BY <4>1, <4>2, <4>3, ExpireDeletes DEF Next, DeleteArtifact, Delete, Tick, Restart, vars
    <3> QED BY <1>1, <3>1 DEF ClearInv
  <2> QED BY <2>1, <2>2 DEF ClearInv
<1>2. CASE ~deleted
  <2>1. removal = None /\ \A u \in Uploaders : upload[u].at # "raced"
    BY <1>2 DEF ClearInv
  <2>2. ASSUME NEW a \in Artifacts, Delete(a) PROVE ClearInv'
    BY <2>2 DEF Delete, ClearInv
  <2>3. CASE Restart
    BY <1>2, <2>1, <2>3, RestartEffect DEF RestartMoves, ClearInv, ShapeInv, TypeOK, Uploading
  <2>4. ASSUME NEW u \in Uploaders, Send(u) PROVE ClearInv'
    <3>1. SendMoves(u) /\ SendFills(u)
      BY <2>4, SendEffect, SendEffectOnVolume
    <3>2. removal' = None /\ deleted' = deleted
      BY <2>1, <3>1 DEF SendMoves
    <3>3. ASSUME NEW v \in Uploaders \ {u}
          PROVE  /\ upload'[v].at # "raced"
                 /\ upload'[v].at = "makeleaf" => jobdir'
                 /\ upload'[v].at = "open" => Current(v)' \in dirs'
      <4>1. upload'[v] = upload[v] /\ Current(v)' = Current(v)
        BY <3>1 DEF SendMoves, Current
      <4> QED BY <1>2, <2>1, <3>1, <4>1 DEF SendFills, ClearInv
    <3>4. /\ upload'[u].at # "raced"
          /\ upload'[u].at = "makeleaf" => jobdir'
          /\ upload'[u].at = "open" => Current(u)' \in dirs'
      <4>1. CASE List(u)
        BY <4>1, ListMoves
      <4>2. CASE Record(u)
        BY <1>2, <4>2, RecordMoves
      <4>3. CASE MakeDirs(u)
        <5>1. PICK to \in {"open", "makejob"} :
                Step(u, "makedirs", to) /\ (to = "open" => dirs' = dirs \cup {Current(u)})
          BY <4>3 DEF MakeDirs
        <5> QED BY <5>1, StepMoves DEF Uploading
      <4>4. CASE MakeJob(u)
        <5>1. Step(u, "makejob", "makeleaf") /\ jobdir' = TRUE
          BY <4>4 DEF MakeJob
        <5> QED BY <5>1, StepMoves DEF Uploading
      <4>5. CASE MakeLeaf(u)
        <5>1. upload[u].at = "makeleaf"
          BY <4>5 DEF MakeLeaf, Step
        <5>2. jobdir
          BY <1>2, <5>1 DEF ClearInv
        <5>3. Step(u, "makeleaf", "open") /\ dirs' = dirs \cup {Current(u)}
          BY <4>5, <5>2 DEF MakeLeaf
        <5> QED BY <5>3, StepMoves DEF Uploading
      <4>6. CASE Open(u)
        <5>1. upload[u].at = "open"
          BY <4>6 DEF Open, Step
        <5>2. Current(u) \in dirs
          BY <1>2, <5>1 DEF ClearInv
        <5>3. Step(u, "open", "copy")
          BY <4>6, <5>2 DEF Open
        <5> QED BY <5>3, StepMoves DEF Uploading
      <4>7. CASE Copy(u)
        <5>1. Step(u, "copy", "record")
          BY <4>7 DEF Copy
        <5> QED BY <5>1, StepMoves DEF Uploading
      <4>8. CASE CopyBreaks(u)
        <5>1. Step(u, "copy", "broken")
          BY <4>8 DEF CopyBreaks
        <5> QED BY <5>1, StepMoves DEF Uploading
      <4> QED BY <2>4, <4>1, <4>2, <4>3, <4>4, <4>5, <4>6, <4>7, <4>8 DEF Send
    <3> QED BY <1>2, <3>2, <3>3, <3>4 DEF ClearInv
  <2>5. ~Remove
    BY <2>1, RemoveEffect DEF RemoveClears
  <2>6. CASE UNCHANGED <<deleted, keyed, jobdir, dirs, upload, removal>>
    BY <2>6 DEF ClearInv, Current
  <2>7. ASSUME NEW c \in Clients, Serve(c)
        PROVE  UNCHANGED <<deleted, keyed, jobdir, dirs, upload, removal>>
    BY <2>7, ServeEffect DEF ServeMoves
  <2> QED BY <2>2, <2>3, <2>4, <2>5, <2>6, <2>7, ExpireDeletes
          DEF Next, DeleteArtifact, Tick, vars
<1> QED BY <1>1, <1>2

-----------------------------------------------------------------------------
(***************************************************************************)
(* Retention: a request that comes too late finds the record gone, because *)
(* time does not go back between the request and the check.                *)
(***************************************************************************)
RetentionInv ==
  \A c \in Clients : client[c].overdue =>
    /\ \E b \in Artifacts : now >= ExpiresAt[b]
    /\ client[c].at \in {"asked", "evaluated", "refused"}
    /\ client[c].at = "evaluated" => deleted

\* A client that is not served keeps its state, or is refused by a restart.
LEMMA ClientsElsewhere ==
  ASSUME ShapeInv, [Next]_vars, NEW c \in Clients, ~Serve(c)
  PROVE  /\ client'[c].artifact = client[c].artifact
         /\ client'[c].overdue = client[c].overdue /\ client'[c].late = client[c].late
         /\ \/ client'[c].at = client[c].at
            \/ client'[c].at = "refused"
            \/ client[c].at \in {"verified", "there"} /\ client'[c].at = "missing"
<1>1. ASSUME NEW d \in Clients, Serve(d) PROVE client'[c] = client[c]
  BY <1>1, ServeEffect DEF ServeMoves
<1>2. CASE Restart
  BY <1>2, RestartEffect DEF RestartMoves
<1>3. CASE client' = client
  BY <1>3
<1>4. (\E u \in Uploaders : Send(u)) \/ Remove => client' = client
  BY SendEffect, RemoveEffect DEF SendMoves, RemoveClears
<1> QED BY <1>1, <1>2, <1>3, <1>4, ExpireDeletes DEF Next, DeleteArtifact, Delete, Tick, vars

LEMMA NextKeepsRetention ==
  ASSUME ShapeInv, ClearInv, RetentionInv, [Next]_vars
  PROVE  RetentionInv'
<1> SUFFICES ASSUME NEW c \in Clients, client'[c].overdue
             PROVE  /\ \E b \in Artifacts : now' >= ExpiresAt[b]
                    /\ client'[c].at \in {"asked", "evaluated", "refused"}
                    /\ client'[c].at = "evaluated" => deleted'
  BY DEF RetentionInv
<1>1. (deleted => deleted') /\ now <= now' /\ now \in Nat /\ now' \in Nat
  BY NextProgresses, NextKeepsShape DEF Progress, ShapeInv, TypeOK
<1>2. \A b \in Artifacts : ExpiresAt[b] \in Nat
  BY DownloadAssumption
<1>3. ASSUME \E b \in Artifacts : now >= ExpiresAt[b]
      PROVE  \E b \in Artifacts : now' >= ExpiresAt[b]
  <2>1. PICK b \in Artifacts : now >= ExpiresAt[b]
    BY <1>3
  <2>2. now' >= ExpiresAt[b]
    BY <1>1, <1>2, <2>1
  <2> QED BY <2>2
<1>4. CASE ~Serve(c)
  BY <1>1, <1>3, <1>4, ClientsElsewhere DEF RetentionInv
<1>5. CASE Serve(c)
  <2>1. ServeMoves(c)
    BY <1>5, ServeEffect
  <2>2. now' = now /\ deleted' = deleted
    BY <2>1 DEF ServeMoves
  <2>3. ASSUME NEW a \in Artifacts,
               client'[c] = [Quiet EXCEPT !.at = "asked", !.artifact = a,
                               !.overdue = \E b \in Artifacts : now >= ExpiresAt[b]]
        PROVE  client'[c].at = "asked" /\ \E b \in Artifacts : now >= ExpiresAt[b]
    BY <2>3 DEF Quiet
  <2>4. CASE client'[c].overdue = client[c].overdue
    <3>1. /\ \E b \in Artifacts : now >= ExpiresAt[b]
          /\ client[c].at \in {"asked", "evaluated", "refused"}
          /\ client[c].at = "evaluated" => deleted
      BY <2>4 DEF RetentionInv
    <3>2. Overdue = {} => deleted
      BY <3>1 DEF Overdue
    <3>3. deleted => client[c].artifact \notin keyed
      BY DEF ClearInv
    <3>4. CASE client[c].at = "asked"
      <4>1. client'[c].at = "asked" \/ (client'[c].at = "evaluated" /\ Overdue = {})
        BY <2>1, <2>3, <3>4 DEF ServeMoves
      <4> QED BY <2>2, <3>1, <3>2, <4>1
    <3>5. CASE client[c].at = "evaluated"
      BY <2>1, <2>2, <2>3, <3>1, <3>3, <3>5 DEF ServeMoves
    <3>6. CASE client[c].at = "refused"
      BY <2>1, <2>2, <2>3, <3>1, <3>6 DEF ServeMoves
    <3> QED BY <3>1, <3>4, <3>5, <3>6
  <2> QED BY <2>1, <2>2, <2>3, <2>4 DEF ServeMoves
<1> QED BY <1>4, <1>5

-----------------------------------------------------------------------------
(***************************************************************************)
(* Deletion.  An artifact that no thread was uploading when its record     *)
(* went is not uploaded any more.  When its deletion is over, its file is  *)
(* away and stays away, or a restart had taken its key, or nobody has got  *)
(* as far as its key: without one, no client had been shown a key either.  *)
(***************************************************************************)
Served == {"found", "url", "verified", "there", "whole", "torn", "missing"}

Holds(c, a) == client[c].at \in Served /\ client[c].artifact = a

\* What a client was shown the key of still has it, or lost it in a restart.
UrlInv ==
  \A c \in Clients : client[c].at \in Served /\ ~deleted =>
    client[c].artifact \in keyed \cup forgotten

Cleared(a) == file[a] = "absent" \/ a \in forgotten \/ \A c \in Clients : ~Holds(c, a)

GoneInv ==
  /\ \A a \in gone : deleted /\ ~Busy(a) /\ Cleared(a)
  /\ removal # None /\ removal.alone =>
       /\ ~Busy(removal.artifact)
       /\ removal.at # "unlink" => file[removal.artifact] = "absent"
  /\ \A c \in Clients : client[c].late =>
       /\ client[c].artifact \in gone
       /\ client[c].at \in {"there", "whole", "torn"} => client[c].artifact \in forgotten

\* A client gets on to a key only by finding one on record.
LEMMA ServedBefore ==
  ASSUME ShapeInv, [Next]_vars, NEW c \in Clients, client'[c].at \in Served
  PROVE  /\ client'[c].artifact = client[c].artifact
         /\ \/ client[c].at \in Served
            \/ client[c].artifact \in keyed /\ Serve(c)
<1>1. CASE ~Serve(c)
  BY <1>1, ClientsElsewhere DEF Served
<1>2. CASE Serve(c)
  <2>1. ServeMoves(c)
    BY <1>2, ServeEffect
  <2>2. client'[c].at # "asked"
    BY DEF Served
  <2>3. \A b \in Artifacts : [Quiet EXCEPT !.at = "asked", !.artifact = b,
            !.overdue = \E d \in Artifacts : now >= ExpiresAt[d]].at = "asked"
    BY DEF Quiet
  <2> QED BY <1>2, <2>1, <2>2, <2>3 DEF ServeMoves, Served
<1> QED BY <1>1, <1>2

LEMMA NextKeepsUrl ==
  ASSUME ShapeInv, UrlInv, [Next]_vars
  PROVE  UrlInv'
<1> SUFFICES ASSUME NEW c \in Clients, client'[c].at \in Served, ~deleted'
             PROVE  client'[c].artifact \in keyed' \cup forgotten'
  BY DEF UrlInv
<1>1. ~deleted
  BY NextProgresses DEF Progress
<1>2. client'[c].artifact = client[c].artifact /\ client[c].artifact \in keyed \cup forgotten
  BY <1>1, ServedBefore DEF UrlInv
<1>3. ASSUME NEW u \in Uploaders, Send(u)
      PROVE  keyed \cup forgotten \subseteq keyed' \cup forgotten'
  BY <1>1, <1>3, SendEffect, RecordMoves DEF SendMoves
<1>4. CASE Restart
  BY <1>2, <1>4, RestartEffect DEF RestartMoves
<1>5. ASSUME NEW a \in Artifacts, Delete(a) PROVE FALSE
  BY <1>5 DEF Delete
<1>6. CASE UNCHANGED <<keyed, forgotten>>
  BY <1>2, <1>6
<1>7. (\E d \in Clients : Serve(d)) => UNCHANGED <<keyed, forgotten>>
  BY ServeEffect DEF ServeMoves
<1>8. Remove => UNCHANGED <<keyed, forgotten>>
  BY RemoveEffect DEF RemoveClears
<1> QED BY <1>2, <1>3, <1>4, <1>5, <1>6, <1>7, <1>8, ExpireDeletes
        DEF Next, DeleteArtifact, Tick, vars

\* What nobody uploads beside a tombstone stays absent and is not uploaded.
LEMMA AbsentStays ==
  ASSUME ShapeInv, [Next]_vars, deleted, NEW a \in Artifacts, ~Busy(a)
  PROVE  ~Busy(a)' /\ (file[a] = "absent" => file'[a] = "absent")
<1>1. \A u \in Uploaders : ~Works(u, a)
  BY DEF Busy, Works
<1>2. \A u \in Uploaders : ~Works(u, a)'
  BY <1>1, NextProgresses DEF Progress
<1>3. ~Busy(a)'
  BY <1>2 DEF Busy, Works
<1>4. file[a] = "absent" => file'[a] = "absent"
  BY <1>1, NextProgresses DEF Progress
<1> QED BY <1>3, <1>4

LEMMA ClearedStays ==
  ASSUME ShapeInv, ClearInv, [Next]_vars, deleted, NEW a \in Artifacts, ~Busy(a), Cleared(a)
  PROVE  Cleared(a)'
<1>1. file[a] = "absent" => file'[a] = "absent"
  BY AbsentStays
<1>2. a \in forgotten => a \in forgotten'
  BY NextProgresses DEF Progress
<1>3. ASSUME NEW c \in Clients, Holds(c, a)' PROVE Holds(c, a)
  <2>1. client'[c].at \in Served /\ client'[c].artifact = a
    BY <1>3 DEF Holds
  <2>2. client[c].artifact = a /\ (client[c].at \in Served \/ client[c].artifact \in keyed)
    BY <2>1, ServedBefore
  <2>3. keyed = {}
    BY DEF ClearInv
  <2> QED BY <2>2, <2>3 DEF Holds
<1>4. (\A c \in Clients : ~Holds(c, a)) => \A c \in Clients : ~Holds(c, a)'
  BY <1>3
<1> QED BY <1>1, <1>2, <1>4 DEF Cleared

\* A deletion is over when it has cleared the volume, or at once without a key.
LEMMA GoneGrows ==
  ASSUME ShapeInv, UrlInv, [Next]_vars, NEW a \in gone', a \notin gone
  PROVE  \/ RemoveClears
         \/ /\ a \in Artifacts /\ ~Busy(a) /\ Cleared(a)
            /\ deleted' /\ UNCHANGED <<file, upload, client, forgotten>>
<1>1. ASSUME NEW u \in Uploaders, Send(u) PROVE gone' = gone
  BY <1>1, SendEffect DEF SendMoves
<1>2. ASSUME NEW c \in Clients, Serve(c) PROVE gone' = gone
  BY <1>2, ServeEffect DEF ServeMoves
<1>3. ASSUME NEW b \in Artifacts, Delete(b)
      PROVE  /\ a \in Artifacts /\ ~Busy(a) /\ Cleared(a)
             /\ deleted' /\ UNCHANGED <<file, upload, client, forgotten>>
  <2>1. ~deleted /\ deleted' /\ UNCHANGED <<file, upload, client, forgotten>>
    BY <1>3 DEF Delete
  <2>2. a = b /\ b \notin keyed /\ ~Busy(b)
    BY <1>3 DEF Delete
  <2>3. ASSUME NEW c \in Clients, Holds(c, a) PROVE a \in forgotten
    BY <2>1, <2>2, <2>3 DEF Holds, UrlInv
  <2> QED BY <2>1, <2>2, <2>3 DEF Cleared
<1> QED BY <1>1, <1>2, <1>3, RemoveEffect, ExpireDeletes
        DEF Next, DeleteArtifact, Tick, Restart, vars

LEMMA NextKeepsGone ==
  ASSUME ShapeInv, ClearInv, UrlInv, GoneInv, [Next]_vars
  PROVE  GoneInv'
<1>1. gone \subseteq gone' /\ (deleted => deleted' /\ forgotten \subseteq forgotten')
  BY NextProgresses DEF Progress
<1>2. \A a \in Artifacts : Busy(a)' <=> \E u \in Uploaders : upload'[u].at \in Uploading /\ a \in upload'[u].todo
  BY DEF Busy
<1>3. ASSUME removal' # None, removal'.alone
      PROVE  /\ ~(\E u \in Uploaders : upload'[u].at \in Uploading /\ removal'.artifact \in upload'[u].todo)
             /\ removal'.at # "unlink" => file'[removal'.artifact] = "absent"
  <2> PICK a : a = removal'.artifact
    OBVIOUS
  <2>1. CASE removal' = removal
    <3>1. deleted /\ ~Busy(a) /\ (removal.at # "unlink" => file[a] = "absent")
      BY <1>3, <2>1 DEF ClearInv, GoneInv
    <3>2. a \in Artifacts
      BY <1>3, <2>1 DEF ShapeInv, TypeOK, Removal
    <3>3. ~Busy(a)' /\ (file[a] = "absent" => file'[a] = "absent")
      BY <3>1, <3>2, AbsentStays
    <3> QED BY <1>2, <2>1, <3>1, <3>2, <3>3
  <2>2. ASSUME NEW b \in Artifacts, Delete(b)
        PROVE  /\ ~(\E u \in Uploaders : upload'[u].at \in Uploading /\ a \in upload'[u].todo)
               /\ removal'.at = "unlink"
    <3>1. removal' = [at |-> "unlink", artifact |-> b, alone |-> ~Busy(b)] /\ upload' = upload
      BY <1>3, <2>2 DEF Delete
    <3> QED BY <1>3, <3>1 DEF Busy
  <2>3. CASE RemoveClears
    <3>1. removal # None /\ removal.alone /\ a = removal.artifact /\ upload' = upload /\ a \in Artifacts
      BY <1>3, <2>3 DEF RemoveClears, Removal
    <3>2. deleted /\ ~Busy(a)
      BY <3>1 DEF ClearInv, GoneInv
    <3>3. file'[a] = "absent"
      BY <2>3, <3>1 DEF RemoveClears, GoneInv, ShapeInv, TypeOK
    <3> QED BY <3>1, <3>2, <3>3 DEF Busy
  <2> QED BY <1>3, <2>1, <2>2, <2>3, NextProgresses DEF Progress
<1>4. ASSUME NEW a \in gone'
      PROVE  deleted' /\ ~Busy(a)' /\ Cleared(a)'
  <2>1. a \in Artifacts
    BY NextKeepsShape DEF ShapeInv, TypeOK
  <2>2. CASE a \in gone
    <3>1. deleted /\ Cleared(a) /\ ~Busy(a)
      BY <2>2 DEF GoneInv
    <3> QED BY <1>1, <2>1, <3>1, AbsentStays, ClearedStays
  <2>3. CASE a \notin gone /\ RemoveClears
    <3>1. removal # None /\ removal.alone /\ removal.at # "unlink" /\ a = removal.artifact
      BY <1>4, <2>3 DEF RemoveClears
    <3>2. deleted /\ file[a] = "absent" /\ ~Busy(a)
      BY <3>1 DEF GoneInv, ClearInv
    <3>3. Cleared(a)
      BY <3>2 DEF Cleared
    <3> QED BY <1>1, <2>1, <3>2, <3>3, AbsentStays, ClearedStays
  <2>4. CASE a \notin gone /\ ~RemoveClears
    <3>1. /\ ~Busy(a) /\ Cleared(a)
          /\ deleted' /\ UNCHANGED <<file, upload, client, forgotten>>
      BY <1>4, <2>4, GoneGrows
    <3>2. (Busy(a)' <=> Busy(a)) /\ (Cleared(a)' <=> Cleared(a))
      BY <3>1 DEF Busy, Cleared, Holds
    <3> QED BY <3>1, <3>2
  <2> QED BY <2>2, <2>3, <2>4
<1>5. ASSUME NEW c \in Clients, client'[c].late
      PROVE  /\ client'[c].artifact \in gone'
             /\ client'[c].at \in {"there", "whole", "torn"} => client'[c].artifact \in forgotten'
  <2> PICK a : a = client[c].artifact
    OBVIOUS
  <2>1. CASE ~Serve(c)
    <3>1. client[c].late => deleted
      BY DEF GoneInv
    <3> QED BY <1>1, <1>5, <2>1, <3>1, ClientsElsewhere DEF GoneInv
  <2>2. CASE Serve(c)
    <3>1. ServeMoves(c)
      BY <2>2, ServeEffect
    <3>2. \A b \in Artifacts : ~[Quiet EXCEPT !.at = "asked", !.artifact = b,
                                   !.overdue = \E d \in Artifacts : now >= ExpiresAt[d]].late
      BY DEF Quiet
    <3>3. client'[c].artifact = a
      BY <1>5, <3>1, <3>2 DEF ServeMoves
    <3>4. CASE client'[c].late = client[c].late
      <4>1. a \in gone /\ (client[c].at \in {"there", "whole", "torn"} => a \in forgotten)
        BY <1>5, <3>4 DEF GoneInv
      <4>2. Cleared(a) /\ deleted
        BY <4>1 DEF GoneInv
      <4>3. client'[c].at \in {"there", "whole", "torn"} =>
              \/ client[c].at \in {"there", "whole", "torn"}
              \/ client[c].at = "verified" /\ file[a] # "absent"
        BY <1>5, <3>1, <3>2 DEF ServeMoves
      <4>4. client[c].at = "verified" => Holds(c, a)
        BY DEF Holds, Served
      <4>5. client'[c].at \in {"there", "whole", "torn"} => a \in forgotten
        BY <4>1, <4>2, <4>3, <4>4 DEF Cleared
      <4> QED BY <1>1, <3>3, <4>1, <4>2, <4>5
    <3>5. CASE client'[c].at = "verified" /\ client'[c].late = (client[c].artifact \in gone)
      BY <1>1, <1>5, <3>3, <3>5
    <3> QED BY <1>5, <3>1, <3>2, <3>4, <3>5 DEF ServeMoves
  <2> QED BY <2>1, <2>2
<1>6. (\A a \in gone : deleted /\ ~Busy(a) /\ Cleared(a))'
  BY <1>4
<1> QED BY <1>3, <1>5, <1>6 DEF GoneInv, Busy

-----------------------------------------------------------------------------
(***************************************************************************)
(* A lone upload: from the time its key is recorded, the file is whole     *)
(* until another thread sets out to upload the same artifact.              *)
(***************************************************************************)

\* `shared` has every thread that may still cut a file, and has cut one.
SharedInv ==
  /\ \A u \in Uploaders, a \in Artifacts :
       /\ upload[u].at = "idle" => <<u, a>> \notin shared
       /\ Works(u, a) => <<u, a>> \in shared
  /\ \A a \in Artifacts : file[a] \in Uploaders => <<file[a], a>> \in shared

LEMMA NextKeepsShared ==
  ASSUME ShapeInv, SharedInv, [Next]_vars
  PROVE  SharedInv'
<1>1. Progress
  BY NextProgresses
<1>2. ASSUME NEW u \in Uploaders, NEW a \in Artifacts, Works(u, a)'
      PROVE  <<u, a>> \in shared'
  <2>1. CASE Works(u, a)
    BY <1>1, <2>1 DEF SharedInv, Progress
  <2>2. CASE List(u)
    BY <1>2, <2>2, ListMoves DEF Works
  <2> QED BY <1>1, <1>2, <2>1, <2>2 DEF Progress
<1>3. ASSUME NEW a \in Artifacts, file'[a] \in Uploaders
      PROVE  <<file'[a], a>> \in shared'
  <2>1. CASE file'[a] = file[a]
    BY <1>1, <1>3, <2>1 DEF SharedInv, Progress
  <2>2. CASE file'[a] # file[a]
    <3>1. file'[a] \notin {"absent", "whole"}
      BY <1>3, DownloadAssumption
    <3>2. Works(file'[a], a)
      BY <1>1, <2>2, <3>1 DEF Progress
    <3> QED BY <1>1, <1>3, <3>2 DEF SharedInv, Progress
  <2> QED BY <2>1, <2>2
<1>4. ASSUME NEW u \in Uploaders, upload'[u].at = "idle", NEW a \in Artifacts
      PROVE  <<u, a>> \notin shared'
  <2>1. ASSUME NEW v \in Uploaders, Send(v)
        PROVE  upload[u].at = "idle" /\ <<u, a>> \notin shared'
    <3>1. SendMoves(v)
      BY <2>1, SendEffect
    <3>2. v # u
      <4>1. upload'[v].at # "idle"
        <5>1. ASSUME NEW from \in Uploading, NEW to \in {"raced", "broken"} \cup Uploading,
                     Step(v, from, to)
              PROVE  upload'[v].at # "idle"
          BY <5>1, StepMoves DEF Uploading
        <5>2. List(v) => upload'[v].at # "idle"
          BY ListMoves
        <5>3. Record(v) => upload'[v].at # "idle"
          BY RecordMoves
        <5> QED BY <3>1, <5>1, <5>2, <5>3 DEF SendMoves
      <4> QED BY <1>4, <4>1
    <3>3. upload[u].at = "idle"
      BY <1>4, <3>1, <3>2 DEF SendMoves
    <3>4. <<u, a>> \in shared' => <<u, a>> \in shared
      BY <3>1, <3>2, ListMoves DEF SendMoves
    <3> QED BY <3>3, <3>4 DEF SharedInv
  <2>2. CASE upload' = upload /\ shared' = shared
    BY <1>4, <2>2 DEF SharedInv
  <2>3. CASE Restart
    <3>1. upload[u].at = "idle" /\ shared' = shared
      BY <1>4, <2>3, RestartEffect DEF RestartMoves
    <3> QED BY <3>1 DEF SharedInv
  <2>4. CASE Remove
    BY <2>2, <2>4, RemoveEffect DEF RemoveClears
  <2>5. ASSUME NEW c \in Clients, Serve(c) PROVE upload' = upload /\ shared' = shared
    BY <2>5, ServeEffect DEF ServeMoves
  <2> QED BY <2>1, <2>2, <2>3, <2>4, <2>5, ExpireDeletes
          DEF Next, DeleteArtifact, Delete, Tick, vars
<1> QED BY <1>2, <1>3, <1>4 DEF SharedInv

Two(a) ==
  \E u, v \in Uploaders : u # v /\ {<<u, a>>, <<v, a>>} \subseteq shared

\* Some thread has uploaded it, and its file is not cut.
Settled(a) ==
  \E u \in Uploaders : <<u, a>> \in shared /\ ~Works(u, a) /\ file[a] \notin Uploaders

Safe(a) == Two(a) \/ Settled(a)

WholeInv ==
  /\ \A u \in Uploaders :
       upload[u].at = "record" => Two(Current(u)) \/ file[Current(u)] \notin Uploaders
  /\ \A a \in keyed : Safe(a)
  /\ \A c \in Clients :
       /\ client[c].at \in Served => client[c].artifact \in Artifacts /\ Safe(client[c].artifact)
       /\ client[c].at = "torn" => Two(client[c].artifact)

\* A file is cut by a thread that has the artifact to upload.
LEMMA CutByUploader ==
  ASSUME ShapeInv, SharedInv, [Next]_vars, NEW a \in Artifacts,
         file[a] \notin Uploaders, file'[a] \in Uploaders
  PROVE  \E u \in Uploaders : /\ file'[a] = u /\ Works(u, a) /\ Open(u) /\ a = Current(u)
                              /\ <<u, a>> \in shared
<1>1. file'[a] \notin {"absent", "whole"} /\ file'[a] # file[a]
  BY DownloadAssumption
<1> QED BY <1>1, NextProgresses DEF Progress, SharedInv

LEMMA TwoStays ==
  ASSUME ShapeInv, [Next]_vars, NEW a, Two(a)
  PROVE  \E u, v \in Uploaders : u # v /\ {<<u, a>>, <<v, a>>} \subseteq shared'
BY NextProgresses DEF Progress, Two

LEMMA SafeStays ==
  ASSUME ShapeInv, SharedInv, [Next]_vars, NEW a \in Artifacts, Safe(a)
  PROVE  Safe(a)'
<1>1. CASE Two(a)
  <2>1. Two(a)'
    BY <1>1, TwoStays DEF Two
  <2> QED BY <2>1 DEF Safe
<1>2. CASE ~Two(a)
  <2>1. PICK u \in Uploaders : <<u, a>> \in shared /\ ~Works(u, a) /\ file[a] \notin Uploaders
    BY <1>2 DEF Safe, Settled
  <2>2. <<u, a>> \in shared'
    BY <2>1, NextProgresses DEF Progress
  <2>3. ~List(u)
    BY <2>1, ListMoves DEF SharedInv
  <2>4. ~Works(u, a)'
    BY <2>1, <2>3, NextProgresses DEF Progress
  <2>5. file'[a] \notin Uploaders
    <3> SUFFICES ASSUME file'[a] \in Uploaders PROVE FALSE
      OBVIOUS
    <3>1. PICK v \in Uploaders : Works(v, a) /\ <<v, a>> \in shared
      BY <2>1, CutByUploader
    <3>2. v # u
      BY <2>1, <3>1
    <3> QED BY <1>2, <2>1, <3>1, <3>2 DEF Two
  <2>6. Settled(a)'
    BY <2>2, <2>4, <2>5 DEF Settled
  <2> QED BY <2>6 DEF Safe
<1> QED BY <1>1, <1>2

LEMMA NextKeepsWhole ==
  ASSUME ShapeInv, ClearInv, SharedInv, WholeInv, [Next]_vars
  PROVE  WholeInv'
<1>1. ASSUME NEW u \in Uploaders, upload'[u].at = "record"
      PROVE  Two(Current(u))' \/ file'[Current(u)'] \notin Uploaders
  <2>1. CASE upload'[u] = upload[u]
    <3>1. PICK a : a = Current(u)
      OBVIOUS
    <3>2. Current(u)' = a /\ upload[u].at = "record"
      BY <1>1, <2>1, <3>1 DEF Current
    <3>3. a \in Artifacts /\ Works(u, a)
      BY <3>1, <3>2, CurrentIsListed DEF Works, Uploading
    <3>4. Two(a) \/ file[a] \notin Uploaders
      BY <3>1, <3>2 DEF WholeInv
    <3>5. CASE Two(a)
      BY <3>2, <3>5, TwoStays DEF Two
    <3>6. CASE file[a] \notin Uploaders /\ file'[a] \in Uploaders
      <4>1. PICK v \in Uploaders : Open(v) /\ <<v, a>> \in shared
        BY <3>3, <3>6, CutByUploader
      <4>2. v # u
        BY <3>2, <4>1 DEF Open, Step
      <4>3. Two(a)
        BY <3>3, <4>1, <4>2 DEF Two, SharedInv
      <4> QED BY <3>5, <4>3
    <3> QED BY <3>2, <3>4, <3>5, <3>6
  <2>2. CASE Copy(u)
    <3>1. PICK a : a = Current(u)
      OBVIOUS
    <3>2. Step(u, "copy", "record")
      BY <2>2 DEF Copy
    <3>3. Current(u)' = a /\ a \in Artifacts /\ Works(u, a)
      BY <3>1, <3>2, StepMoves DEF Works, Uploading
    <3>4. file' = (IF file[a] = u THEN [file EXCEPT ![a] = "whole"] ELSE file)
      BY <2>2, <3>1 DEF Copy
    <3>5. CASE file[a] = u
      <4>1. file'[a] = "whole"
        BY <3>3, <3>4, <3>5 DEF ShapeInv, TypeOK
      <4> QED BY <3>3, <4>1, DownloadAssumption
    <3>6. CASE file[a] # u /\ file[a] \in Uploaders
      <4>1. Two(a)
        BY <3>3, <3>6 DEF Two, SharedInv
      <4> QED BY <3>3, <4>1, TwoStays DEF Two
    <3> QED BY <3>3, <3>4, <3>5, <3>6
  <2>3. upload'[u] = upload[u] \/ Copy(u)
    <3>1. ASSUME NEW v \in Uploaders, Send(v), v # u PROVE upload'[u] = upload[u]
      BY <3>1, SendEffect DEF SendMoves
    <3>2. CASE Send(u)
      <4>1. ASSUME NEW from \in Uploading,
                   NEW to \in {"raced", "broken"} \cup Uploading,
                   Step(u, from, to)
            PROVE  to = "record"
        BY <1>1, <4>1, StepMoves
      <4>2. ~List(u) /\ ~Record(u)
        BY <1>1, ListMoves, RecordMoves
      <4>3. ~MakeDirs(u) /\ ~MakeJob(u) /\ ~MakeLeaf(u)
        BY <4>1 DEF MakeDirs, MakeJob, MakeLeaf, Uploading
      <4>4. ~Open(u) /\ ~CopyBreaks(u)
        BY <4>1 DEF Open, CopyBreaks, Uploading
      <4> QED BY <3>2, <4>2, <4>3, <4>4 DEF Send
    <3>3. ~Restart
      BY <1>1, RestartEffect DEF RestartMoves, Uploading
    <3>4. CASE Remove
      BY <3>4, RemoveEffect DEF RemoveClears
    <3>5. ASSUME NEW c \in Clients, Serve(c) PROVE upload' = upload
      BY <3>5, ServeEffect DEF ServeMoves
    <3> QED BY <3>1, <3>2, <3>3, <3>4, <3>5, ExpireDeletes
            DEF Next, DeleteArtifact, Delete, Tick, vars
  <2> QED BY <2>1, <2>2, <2>3
<1>2. ASSUME NEW a \in keyed' PROVE Safe(a)'
  <2>1. a \in Artifacts
    BY NextKeepsShape DEF ShapeInv, TypeOK
  <2>2. CASE a \in keyed
    BY <2>1, <2>2, SafeStays DEF WholeInv
  <2>3. ASSUME NEW u \in Uploaders, Send(u), a \notin keyed PROVE Safe(a)'
    <3>1. Record(u)
      BY <1>2, <2>3, SendEffect DEF SendMoves
    <3>2. /\ a = Current(u) /\ upload[u].at = "record" /\ a \in upload[u].todo
          /\ a \notin upload'[u].todo /\ file' = file /\ shared' = shared
      BY <1>2, <2>3, <3>1, RecordMoves DEF Record
    <3>3. Two(a) \/ file[a] \notin Uploaders
      BY <3>2 DEF WholeInv
    <3>4. <<u, a>> \in shared
      BY <2>1, <3>2 DEF SharedInv, Works, Uploading
    <3>5. CASE Two(a)
      BY <2>1, <3>5, SafeStays DEF Safe
    <3>6. CASE file[a] \notin Uploaders
      <4>1. Settled(a)'
        BY <3>2, <3>4, <3>6 DEF Settled, Works
      <4> QED BY <4>1 DEF Safe
    <3> QED BY <3>3, <3>5, <3>6
  <2>4. (\E u \in Uploaders : Send(u)) \/ a \in keyed
    <3>1. ASSUME NEW c \in Clients, Serve(c) PROVE keyed' = keyed
      BY <3>1, ServeEffect DEF ServeMoves
    <3>2. CASE Remove
      BY <1>2, <3>2, RemoveEffect DEF RemoveClears
    <3> QED BY <1>2, <3>1, <3>2, ExpireDeletes
            DEF Next, DeleteArtifact, Delete, Tick, Restart, vars
  <2> QED BY <2>2, <2>3, <2>4
<1>3. ASSUME NEW c \in Clients
      PROVE  /\ (client[c].at \in Served =>
                  client[c].artifact \in Artifacts /\ Safe(client[c].artifact))'
             /\ (client[c].at = "torn" => Two(client[c].artifact))'
  <2> PICK a : a = client[c].artifact
    OBVIOUS
  <2>1. CASE ~Serve(c)
    <3>1. /\ client'[c].artifact = a
          /\ client'[c].at \in Served => client[c].at \in Served
          /\ client'[c].at = "torn" => client[c].at = "torn"
      BY <2>1, ClientsElsewhere DEF Served
    <3>2. client[c].at \in Served => a \in Artifacts /\ Safe(a)'
      BY SafeStays DEF WholeInv
    <3>3. client[c].at = "torn" => Two(a)'
      BY TwoStays DEF WholeInv, Two
    <3> QED BY <3>1, <3>2, <3>3
  <2>2. CASE Serve(c)
    <3>1. ServeMoves(c)
      BY <2>2, ServeEffect
    <3>2. UNCHANGED <<file, upload, shared>>
      BY <3>1 DEF ServeMoves
    <3>3. (Safe(a)' <=> Safe(a)) /\ (Two(a)' <=> Two(a))
      BY <3>2 DEF Safe, Two, Settled, Works
    <3>4. CASE client'[c].at \notin Served
      BY <3>4 DEF Served
    <3>5. CASE client'[c].at \in Served
      <4>1. client'[c].at # "asked"
        BY <3>5 DEF Served
      <4>2. \A b \in Artifacts : [Quiet EXCEPT !.at = "asked", !.artifact = b,
                !.overdue = \E d \in Artifacts : now >= ExpiresAt[d]].at = "asked"
        BY DEF Quiet
      <4>3. client'[c].artifact = a
        BY <3>1, <4>1, <4>2 DEF ServeMoves
      <4>4. \/ client[c].at \in Served
            \/ client[c].at = "evaluated" /\ a \in keyed
        BY <3>1, <3>5, <4>1, <4>2 DEF ServeMoves, Served
      <4>5. a \in Artifacts /\ Safe(a)
        BY <4>4 DEF WholeInv, ShapeInv, TypeOK
      <4>6. client'[c].at = "torn" => file[a] \in Uploaders
        <5>1. client'[c].at = "torn" => file[a] \notin {"absent", "whole"}
          BY <3>1, <4>1, <4>2 DEF ServeMoves
        <5> QED BY <4>5, <5>1 DEF ShapeInv, TypeOK
      <4>7. client'[c].at = "torn" => Two(a)
        BY <4>5, <4>6 DEF Safe, Settled
      <4> QED BY <3>3, <4>3, <4>5, <4>7
    <3> QED BY <3>4, <3>5
  <2> QED BY <2>1, <2>2
<1> QED BY <1>1, <1>2, <1>3 DEF WholeInv

-----------------------------------------------------------------------------
(***************************************************************************)
(* Theorems about the behaviours of uploads, deletions and downloads.      *)
(***************************************************************************)
DownloadInv ==
  ShapeInv /\ ClearInv /\ RetentionInv /\ UrlInv /\ GoneInv /\ SharedInv /\ WholeInv

LEMMA InitEstablishesDownloadInv ==
  ASSUME Init
  PROVE  DownloadInv
<1> USE DEF Init
<1>1. Quiet \in Client /\ Quiet.at = "idle" /\ Quiet.overdue = FALSE /\ Quiet.late = FALSE
  BY DEF Quiet, Client
<1>2. \A c \in Clients : client[c] = Quiet
  OBVIOUS
<1>3. \A u \in Uploaders : upload[u].at = "idle" /\ upload[u].todo = {}
  OBVIOUS
<1>4. \A a \in Artifacts : file[a] \notin Uploaders
  BY DownloadAssumption
<1>5. TypeOK
  <2>1. upload \in [Uploaders -> Upload]
    BY DEF Upload
  <2>2. client \in [Clients -> Client]
    BY <1>1
  <2>3. now \in 0 .. Horizon
    BY DownloadAssumption
  <2>4. file \in [Artifacts -> {"absent", "whole"} \cup Uploaders]
    OBVIOUS
  <2>5. \A a \in Artifacts : file[a] = "absent"
    OBVIOUS
  <2> QED BY <2>1, <2>2, <2>3, <2>4, <2>5 DEF TypeOK
<1>6. ShapeInv
  BY <1>3, <1>5 DEF ShapeInv, BusyHaveWork, Uploading
<1>7. ClearInv
  BY <1>3 DEF ClearInv
<1>8. RetentionInv /\ UrlInv /\ GoneInv
  BY <1>1, <1>2 DEF RetentionInv, UrlInv, GoneInv, Served
<1>9. SharedInv
  BY <1>3, <1>4 DEF SharedInv, Works
<1>10. WholeInv
  BY <1>1, <1>2, <1>3 DEF WholeInv, Served
<1> QED BY <1>6, <1>7, <1>8, <1>9, <1>10 DEF DownloadInv

LEMMA DownloadInvariant == Spec => []DownloadInv
<1>1. Init => DownloadInv
  BY InitEstablishesDownloadInv
<1>2. DownloadInv /\ [Next]_vars => DownloadInv'
  BY NextKeepsShape, NextKeepsClear, NextKeepsRetention, NextKeepsUrl, NextKeepsGone, NextKeepsShared,
     NextKeepsWhole DEF DownloadInv
<1> QED BY <1>1, <1>2, PTL DEF Spec

\* Type correctness, with the directories above every file and artifact.
THEOREM DownloadTypeCorrectness == Spec => []TypeOK
<1>1. DownloadInv => TypeOK
  BY DEF DownloadInv, ShapeInv
<1> QED BY <1>1, DownloadInvariant, PTL

\* The bundle that one thread alone uploaded is never served in part.
THEOREM LoneUploadsAreWhole == Spec => []LoneUploadIsServedWhole
<1>1. DownloadInv => LoneUploadIsServedWhole
  BY DEF DownloadInv, WholeInv, Two, LoneUploadIsServedWhole
<1> QED BY <1>1, DownloadInvariant, PTL

\* A signed URL gives nothing once the deletion that names its artifact is over,
\* for as long as the token is honoured, except where a thread was uploading the
\* artifact as the record went, or a restart had taken its key before.
THEOREM DeletionsStopDownloads == Spec => []DeletionStopsDownloads
<1>1. DownloadInv => DeletionStopsDownloads
  BY DEF DownloadInv, GoneInv, DeletionStopsDownloads
<1> QED BY <1>1, DownloadInvariant, PTL

\* A request that comes after the end of retention never gets a URL.
THEOREM RetentionEndsUrls == Spec => []NoUrlPastRetention
<1>1. DownloadInv => NoUrlPastRetention
  BY DEF DownloadInv, RetentionInv, NoUrlPastRetention
<1> QED BY <1>1, DownloadInvariant, PTL

\* The rmdir of a deletion and the mkdir of an upload only fail each other when
\* the record is deleted: no upload of a live job stumbles over directories.
THEOREM UploadsRaceDeletions == Spec => []UploadsFailBesideDeletions
<1>1. DownloadInv => UploadsFailBesideDeletions
  BY DEF DownloadInv, ClearInv, UploadsFailBesideDeletions
<1> QED BY <1>1, DownloadInvariant, PTL
=============================================================================
