-------------------------- MODULE ArtifactDownload --------------------------
(***************************************************************************)
(* The bytes of the artifacts of one succeeded job, on the volume          *)
(* (VolumeArtifactStorage): threads that upload the bundle, the deletion   *)
(* that removes it, and clients that ask for a signed URL and fetch from   *)
(* it, each at the file system calls and the accesses to the record        *)
(* between which the others can come.                                      *)
(*                                                                         *)
(* Deletions hold the store's lock throughout; setting a storage key and   *)
(* evaluating the expiry take it; uploads and fetches do without.          *)
(***************************************************************************)
EXTENDS Naturals, FiniteSets

CONSTANTS
  Artifacts,      \* the artifacts of the job, in the order of its list
  Uploaders,      \* POST threads that found the job succeeded
  Clients,        \* download clients
  ExpiresAt,      \* ExpiresAt[a]: created_at + ttl_seconds of artifact a
  Ttl,            \* _DEFAULT_DOWNLOAD_TTL_SECONDS
  Skew,           \* the 60 seconds a content token is honoured after its expiry
  Horizon,        \* bound: the last time of the clock
  CopyMayFail,    \* BOOLEAN: a copy may break off with a full disk
  None

ASSUME DownloadAssumption ==
  /\ Artifacts \subseteq Nat /\ IsFiniteSet(Artifacts)
  /\ ExpiresAt \in [Artifacts -> Nat]
  /\ Ttl \in Nat /\ Skew \in Nat /\ Horizon \in Nat
  /\ CopyMayFail \in BOOLEAN
  /\ Uploaders \cap {None, "absent", "whole"} = {}

VARIABLES
  now,      \* the clock
  deleted,  \* the record is a tombstone
  keyed,    \* artifacts whose record holds a storage key
  jobdir,   \* root/<job> is a directory
  dirs,     \* artifacts a with the directory root/<job>/<a>
  file,     \* artifact.tar.gz of a: "absent", "whole", or cut by the uploader named
  upload,   \* where each uploader is
  removal,  \* the storage part of a deletion, by the thread with the lock, or None
  client,   \* where each client is
  shared,   \* history: <<u, a>> that u has set out to upload
  gone,     \* history: artifacts whose deletion is over, with no thread uploading them
  forgotten \* history: artifacts whose storage key a restart took from the record

vars ==
  <<now, deleted, keyed, jobdir, dirs, file, upload, removal, client, shared, gone, forgotten>>

Uploading == {"makedirs", "makejob", "makeleaf", "open", "copy", "record"}

Upload ==
  [ at: {"idle", "done", "raced", "broken"} \cup Uploading,
    todo: SUBSET Artifacts ]

\* "empty" and "jobempty": the directory was seen to be empty and goes next.
\* `alone`: no thread was uploading the artifact when the record was deleted.
Removal ==
  [ at: {"unlink", "leaf", "empty", "job", "jobempty"},
    artifact: Artifacts,
    alone: BOOLEAN ]

Client ==
  [ at: { "idle", "asked", "evaluated", "found", "refused", "url",
          "verified", "there", "whole", "torn", "missing" },
    artifact: Artifacts \cup {None},
    expires: Nat,      \* exp of the content token
    overdue: BOOLEAN,  \* an artifact of the job was past its retention at the request
    late: BOOLEAN ]    \* the fetch began after the deletion of the artifact

Quiet ==
  [at |-> "idle", artifact |-> None, expires |-> 0, overdue |-> FALSE, late |-> FALSE]

Init ==
  /\ now = 0
  /\ deleted = FALSE
  /\ keyed = {}
  /\ jobdir = FALSE
  /\ dirs = {}
  /\ file = [a \in Artifacts |-> "absent"]
  /\ upload = [u \in Uploaders |-> [at |-> "idle", todo |-> {}]]
  /\ removal = None
  /\ client = [c \in Clients |-> Quiet]
  /\ shared = {}
  /\ gone = {}
  /\ forgotten = {}

Unlocked == removal = None

First(s) == CHOOSE a \in s : \A b \in s : a <= b

\* is_expired() of an artifact still on record: now is at or past created_at +
\* ttl.  The faulty variant is late by one.
OverdueLate == {a \in Artifacts : ~deleted /\ now > ExpiresAt[a]}
Overdue == {a \in Artifacts : ~deleted /\ now >= ExpiresAt[a]}

-----------------------------------------------------------------------------
(***************************************************************************)
(* _upload_artifacts_for_job() and VolumeArtifactStorage.upload().         *)
(***************************************************************************)
Current(u) == First(upload[u].todo)

Step(u, from, to) ==
  /\ upload[u].at = from
  /\ upload' = [upload EXCEPT ![u].at = to]

\* The artifacts without a key when the loop starts.
List(u) ==
  LET todo == IF deleted THEN {} ELSE Artifacts \ keyed
  IN  /\ upload[u].at = "idle" /\ Unlocked
      /\ upload' = [upload EXCEPT ![u] =
                      [at |-> IF todo = {} THEN "done" ELSE "makedirs", todo |-> todo]]
      /\ shared' = shared \cup ({u} \X todo)
      /\ UNCHANGED <<now, deleted, keyed, jobdir, dirs, file, removal, client, gone, forgotten>>

\* Faulty variant: mkdir() without parents=True.
MakeLeafOnly(u) ==
  /\ Step(u, "makedirs", IF jobdir THEN "open" ELSE "raced")
  /\ dirs' = IF jobdir THEN dirs \cup {Current(u)} ELSE dirs
  /\ UNCHANGED <<now, deleted, keyed, jobdir, file, removal, client, shared, gone, forgotten>>

\* mkdir(parents=True, exist_ok=True) tries the leaf, then the parent, then the
\* leaf again.
MakeDirs(u) ==
  /\ Step(u, "makedirs", IF jobdir THEN "open" ELSE "makejob")
  /\ dirs' = IF jobdir THEN dirs \cup {Current(u)} ELSE dirs
  /\ UNCHANGED <<now, deleted, keyed, jobdir, file, removal, client, shared, gone, forgotten>>

MakeJob(u) ==
  /\ Step(u, "makejob", "makeleaf")
  /\ jobdir' = TRUE
  /\ UNCHANGED <<now, deleted, keyed, dirs, file, removal, client, shared, gone, forgotten>>

MakeLeaf(u) ==
  /\ Step(u, "makeleaf", IF jobdir THEN "open" ELSE "raced")
  /\ dirs' = IF jobdir THEN dirs \cup {Current(u)} ELSE dirs
  /\ UNCHANGED <<now, deleted, keyed, jobdir, file, removal, client, shared, gone, forgotten>>

\* copyfile() truncates what is there.
Open(u) ==
  LET a == Current(u) IN
  /\ Step(u, "open", IF a \in dirs THEN "copy" ELSE "raced")
  /\ file' = IF a \in dirs THEN [file EXCEPT ![a] = u] ELSE file
  /\ UNCHANGED <<now, deleted, keyed, jobdir, dirs, removal, client, shared, gone, forgotten>>

\* The file is whole once the thread that cut it last has written all of it.  A
\* thread whose file was unlinked or cut again writes without effect on it.
Copy(u) ==
  LET a == Current(u) IN
  /\ Step(u, "copy", "record")
  /\ file' = IF file[a] = u THEN [file EXCEPT ![a] = "whole"] ELSE file
  /\ UNCHANGED <<now, deleted, keyed, jobdir, dirs, removal, client, shared, gone, forgotten>>

\* Faulty variant: the error of a copy is swallowed.
CopyBreaksUnnoticed(u) ==
  /\ CopyMayFail
  /\ Step(u, "copy", "record")
  /\ UNCHANGED <<now, deleted, keyed, jobdir, dirs, file, removal, client, shared, gone, forgotten>>

CopyBreaks(u) ==
  /\ CopyMayFail
  /\ Step(u, "copy", "broken")
  /\ UNCHANGED <<now, deleted, keyed, jobdir, dirs, file, removal, client, shared, gone, forgotten>>

\* set_artifact_storage_key() raises when the artifact is no longer on record.
Record(u) ==
  LET a == Current(u)
      rest == upload[u].todo \ {a}
  IN  /\ upload[u].at = "record" /\ Unlocked
      /\ upload' = [upload EXCEPT ![u] =
                      [ at |-> IF deleted THEN "raced"
                               ELSE IF rest = {} THEN "done" ELSE "makedirs",
                        todo |-> IF deleted THEN @.todo ELSE rest ]]
      /\ keyed' = IF deleted THEN keyed ELSE keyed \cup {a}
      /\ forgotten' = IF deleted THEN forgotten ELSE forgotten \ {a}
      /\ UNCHANGED <<now, deleted, jobdir, dirs, file, removal, client, shared, gone>>

-----------------------------------------------------------------------------
(***************************************************************************)
(* A deletion: the record first, then VolumeArtifactStorage.delete() of    *)
(* the artifact that it was for.                                           *)
(***************************************************************************)
Busy(a) == \E u \in Uploaders : upload[u].at \in Uploading /\ a \in upload[u].todo

\* Without a storage key on record there is nothing to remove, and the deletion
\* returns at once.
Delete(a) ==
  /\ Unlocked /\ ~deleted
  /\ deleted' = TRUE
  /\ keyed' = {}
  /\ IF a \in keyed
     THEN /\ removal' = [at |-> "unlink", artifact |-> a, alone |-> ~Busy(a)]
          /\ UNCHANGED gone
     ELSE /\ removal' = None
          /\ gone' = IF Busy(a) THEN gone ELSE gone \cup {a}
  /\ UNCHANGED <<now, jobdir, dirs, file, upload, client, shared, forgotten>>

DeleteArtifact(a) == Delete(a)

\* evaluate_expiry() or sweep_expired(): the first that is past its retention.
Expire == Overdue # {} /\ Delete(First(Overdue))

\* The deletion returns, or raises; the faulty variant of Unlink returns at once.
Removed ==
  /\ removal' = None
  /\ gone' = IF removal.alone THEN gone \cup {removal.artifact} ELSE gone

UnlinkNothing ==
  /\ removal # None /\ removal.at = "unlink"
  /\ Removed
  /\ UNCHANGED <<now, deleted, keyed, jobdir, dirs, file, upload, client, shared, forgotten>>

Unlink ==
  /\ removal # None /\ removal.at = "unlink"
  /\ file' = [file EXCEPT ![removal.artifact] = "absent"]
  /\ removal' = [removal EXCEPT !.at = "leaf"]
  /\ UNCHANGED <<now, deleted, keyed, jobdir, dirs, upload, client, shared, gone, forgotten>>

\* any(parent.iterdir())
SeeLeaf ==
  LET a == removal.artifact IN
  /\ removal # None /\ removal.at = "leaf"
  /\ removal' = [removal EXCEPT !.at =
                   IF a \in dirs /\ file[a] = "absent" THEN "empty" ELSE "job"]
  /\ UNCHANGED <<now, deleted, keyed, jobdir, dirs, file, upload, client, shared, gone, forgotten>>

\* Faulty variant: the directory is removed with what is in it.
RemoveLeafForced ==
  /\ removal # None /\ removal.at = "empty"
  /\ dirs' = dirs \ {removal.artifact}
  /\ removal' = [removal EXCEPT !.at = "job"]
  /\ UNCHANGED <<now, deleted, keyed, jobdir, file, upload, client, shared, gone, forgotten>>

RemoveLeaf ==
  LET a == removal.artifact IN
  /\ removal # None /\ removal.at = "empty" /\ file[a] = "absent"
  /\ dirs' = dirs \ {a}
  /\ removal' = [removal EXCEPT !.at = "job"]
  /\ UNCHANGED <<now, deleted, keyed, jobdir, file, upload, client, shared, gone, forgotten>>

SeeJob ==
  /\ removal # None /\ removal.at = "job"
  /\ IF jobdir /\ dirs = {}
     THEN removal' = [removal EXCEPT !.at = "jobempty"] /\ UNCHANGED gone
     ELSE Removed
  /\ UNCHANGED <<now, deleted, keyed, jobdir, dirs, file, upload, client, shared, forgotten>>

RemoveJob ==
  /\ removal # None /\ removal.at = "jobempty" /\ dirs = {}
  /\ jobdir' = FALSE
  /\ Removed
  /\ UNCHANGED <<now, deleted, keyed, dirs, file, upload, client, shared, forgotten>>

\* rmdir() raises: the directory has been filled since it was seen empty.
RemoveRaises ==
  /\ removal # None
  /\ removal.at = "empty" => file[removal.artifact] # "absent"
  /\ removal.at = "jobempty" => dirs # {}
  /\ removal.at \in {"empty", "jobempty"}
  /\ Removed
  /\ UNCHANGED <<now, deleted, keyed, jobdir, dirs, file, upload, client, shared, forgotten>>

-----------------------------------------------------------------------------
(***************************************************************************)
(* get_artifact_download() and read_artifact_content().                    *)
(***************************************************************************)
Answer(c, from, state) ==
  /\ client[c].at = from
  /\ client' = [client EXCEPT ![c] = state]
  /\ UNCHANGED <<now, deleted, keyed, jobdir, dirs, file, upload, removal, shared, gone, forgotten>>

At(c, place) == [client[c] EXCEPT !.at = place]

\* A client asks for one artifact, with a JWT for it.
Ask(c, a) ==
  Answer(c, "idle", [Quiet EXCEPT !.at = "asked", !.artifact = a,
                                  !.overdue = \E b \in Artifacts : now >= ExpiresAt[b]])

\* evaluate_expiry() of a job whose retention is over is Expire; the request
\* goes on when nothing is due (any more).
Evaluate(c) == Unlocked /\ Overdue = {} /\ Answer(c, "asked", At(c, "evaluated"))

\* The storage key is read from the record's list, outside the lock.
Look(c) ==
  Answer(c, "evaluated",
         At(c, IF client[c].artifact \in keyed THEN "found" ELSE "refused"))

\* issue_download(), by the clock of now.
Issue(c) == Answer(c, "found", [At(c, "url") EXCEPT !.expires = now + Ttl])

\* verify_volume_content_token(); the store is not asked.
Verify(c) ==
  /\ client[c].expires + Skew >= now
  /\ Answer(c, "url", [At(c, "verified") EXCEPT !.late = client[c].artifact \in gone])

\* is_file()
Find(c) ==
  Answer(c, "verified",
         At(c, IF file[client[c].artifact] = "absent" THEN "missing" ELSE "there"))

\* read_bytes(): a copy under way during the read shows.
Read(c) ==
  Answer(c, "there",
         At(c, CASE file[client[c].artifact] = "absent" -> "missing"
                 [] file[client[c].artifact] = "whole" -> "whole"
                 [] OTHER -> "torn"))

\* The URL can be used again.
Again(c) == \E from \in {"whole", "torn", "missing"} : Answer(c, from, At(c, "url"))

-----------------------------------------------------------------------------
Tick ==
  /\ now < Horizon
  /\ now' = now + 1
  /\ UNCHANGED <<deleted, keyed, jobdir, dirs, file, upload, removal, client>>
  /\ UNCHANGED <<shared, gone, forgotten>>

\* The process ends and starts again: its threads are gone, storage keys are not
\* read back, and clients keep the URLs that they have.  An uploader that has not
\* begun is a POST to the next process.
Restart ==
  /\ keyed' = {}
  /\ forgotten' = forgotten \cup keyed
  /\ removal' = None
  /\ upload' = [u \in Uploaders |->
                  IF upload[u].at \in Uploading
                  THEN [upload[u] EXCEPT !.at = "broken"] ELSE upload[u]]
  /\ client' = [c \in Clients |->
                  CASE client[c].at \in {"asked", "evaluated", "found"} -> At(c, "refused")
                    [] client[c].at \in {"verified", "there"} -> At(c, "missing")
                    [] OTHER -> client[c]]
  /\ UNCHANGED <<now, deleted, jobdir, dirs, file, shared, gone>>

Send(u) ==
  \/ List(u) \/ MakeDirs(u) \/ MakeJob(u) \/ MakeLeaf(u)
  \/ Open(u) \/ Copy(u) \/ CopyBreaks(u) \/ Record(u)

Remove == Unlink \/ SeeLeaf \/ RemoveLeaf \/ SeeJob \/ RemoveJob \/ RemoveRaises

Serve(c) ==
  \/ \E a \in Artifacts : Ask(c, a)
  \/ Evaluate(c) \/ Look(c) \/ Issue(c) \/ Verify(c) \/ Find(c) \/ Read(c) \/ Again(c)

Next ==
  \/ \E u \in Uploaders : Send(u)
  \/ \E a \in Artifacts : DeleteArtifact(a)
  \/ Expire \/ Remove
  \/ \E c \in Clients : Serve(c)
  \/ Tick \/ Restart

Spec == Init /\ [][Next]_vars

-----------------------------------------------------------------------------
(***************************************************************************)
(* Correctness.                                                            *)
(***************************************************************************)

\* Every variable has its shape; a file and the directory of an artifact are
\* never without the directory above them.
TypeOK ==
  /\ now \in 0..Horizon
  /\ deleted \in BOOLEAN
  /\ keyed \subseteq Artifacts
  /\ jobdir \in BOOLEAN
  /\ dirs \subseteq Artifacts
  /\ dirs # {} => jobdir
  /\ file \in [Artifacts -> {"absent", "whole"} \cup Uploaders]
  /\ \A a \in Artifacts : file[a] # "absent" => a \in dirs
  /\ upload \in [Uploaders -> Upload]
  /\ removal \in Removal \cup {None}
  /\ client \in [Clients -> Client]
  /\ shared \subseteq Uploaders \X Artifacts
  /\ gone \subseteq Artifacts
  /\ forgotten \subseteq Artifacts

\* A client is served a bundle that is cut only when two threads have set out to
\* upload it: what one thread has uploaded is whole before its key is recorded.
LoneUploadIsServedWhole ==
  \A c \in Clients :
    client[c].at = "torn" =>
      \E u, v \in Uploaders : u # v /\ {<<u, client[c].artifact>>, <<v, client[c].artifact>>} \subseteq shared

\* A URL that was handed out before the deletion of its artifact is over yields
\* nothing after it, with these exceptions: a thread was uploading the artifact
\* as its record was deleted; or a restart had taken its storage key, so that
\* the deletion left the bytes (claim DeletionStopsEveryDownload).  It is about
\* the one artifact that the deletion names, and a deletion that the end of the
\* process cuts short is never over.
DeletionStopsDownloads ==
  \A c \in Clients :
    client[c].late /\ client[c].at \in {"there", "whole", "torn"} =>
      client[c].artifact \in forgotten

\* No URL is issued to a request that arrives when the retention of an artifact
\* of the job is over, whatever has restarted or failed in between.
NoUrlPastRetention == \A c \in Clients : client[c].overdue => client[c].at # "url"

\* The directories that a deletion clears away fail an upload, and the upload
\* the deletion, only when they meet: an upload alone makes its directories.
UploadsFailBesideDeletions == \A u \in Uploaders : upload[u].at = "raced" => deleted

-----------------------------------------------------------------------------
(***************************************************************************)
(* What the documentation claims and the code does not keep.               *)
(***************************************************************************)

\* Claim: the deletion of an artifact wipes its storage.  After a restart the
\* record has no storage key, and the old URL serves the bundle to its end.
DeletionStopsEveryDownload ==
  \A c \in Clients : client[c].late => client[c].at \notin {"there", "whole", "torn"}

\* Claim: a deletion, that of the retention sweep included, removes the bytes.
\* It removes those of one artifact; with the record go the keys of the others.
DeletionRemovesBytes ==
  gone # {} /\ (\A u \in Uploaders : upload[u].at \notin Uploading) =>
    \A a \in Artifacts : file[a] = "absent"
=============================================================================
