------------------------------ MODULE MediaStore ------------------------------
(***************************************************************************)
(* The content-addressed media store: blobs on disk, rows in table media,  *)
(* the requests that publish a blob and refer to it, and the garbage       *)
(* collector that removes what is no longer referred to.                   *)
(*                                                                         *)
(* Disk and database are not updated together.  A blob is written before   *)
(* its row, and the collector leaves alone what is younger than            *)
(* mediaGracePeriod; ages are reduced to "fresh" and "old".                *)
(***************************************************************************)
EXTENDS Naturals, FiniteSets

CONSTANTS
    Hashes,
    Uploads,    \* bound: publishing requests
    HashOf,     \* the hash of what each of them uploads
    Streamed,   \* those that stream an attachment to disk; the others hold the bytes
    MaxStops,   \* bound: runs of the collector cut short
    None

Assumptions ==
    /\ HashOf \in [Uploads -> Hashes] /\ Streamed \subseteq Uploads
    /\ MaxStops \in Nat /\ None \notin Hashes

VARIABLES
    file,       \* per hash: "absent", "fresh" or "old" (mtime)
    row,        \* per hash: "absent", "fresh" or "old" (created_at)
    refs,       \* per hash: the requests whose references stand
    up,         \* per request: its step
    gc,         \* the collector's step
    list,       \* hashes it has still to look at (rows, then files)
    cur,        \* the one it looks at
    exists,     \* did the file of cur exist?
    stops,      \* runs cut short so far
    reused      \* history: hashes published again when their blob or row was old

storeVars == <<file, row, refs>>
gcVars == <<gc, list, cur, exists>>
vars == <<storeVars, up, gcVars, stops, reused>>

Ages == {"absent", "fresh", "old"}

TypeOK ==
    /\ file \in [Hashes -> Ages]
    /\ row \in [Hashes -> Ages]
    /\ refs \in [Hashes -> SUBSET Uploads]
    /\ \A h \in Hashes : refs[h] # {} => row[h] # "absent"
    /\ up \in [Uploads -> {"idle", "write", "insert", "get", "refer", "done", "failed", "released"}]
    /\ gc \in {"idle", "rows", "check", "delete", "unlink", "scan", "files", "remove"}
    /\ list \in SUBSET Hashes
    /\ cur \in Hashes \cup {None}
    /\ exists \in BOOLEAN
    /\ stops \in 0 .. MaxStops
    /\ reused \in SUBSET Hashes

Init ==
    /\ file = [h \in Hashes |-> "absent"]
    /\ row = [h \in Hashes |-> "absent"]
    /\ refs = [h \in Hashes |-> {}]
    /\ up = [u \in Uploads |-> "idle"]
    /\ gc = "idle" /\ list = {} /\ cur = None /\ exists = FALSE
    /\ stops = 0
    /\ reused = {}

-----------------------------------------------------------------------------
\* Publishing.

Goto(u, l) == up' = [up EXCEPT ![u] = l]

\* StoreMediaFromBytes looks whether the blob is there; storeAttachment, with the
\* content in a temporary file, does not.
StatBlob(u) ==
    LET h == HashOf[u] IN
    /\ up[u] = "idle"
    /\ Goto(u, IF u \in Streamed \/ file[h] = "absent" THEN "write" ELSE "insert")
    /\ reused' = IF "old" \in {file[h], row[h]} THEN reused \cup {h} ELSE reused
    /\ UNCHANGED <<storeVars, gcVars, stops>>

\* The rename of writeMediaFile and moveToBlob.
WriteBlob(u) ==
    /\ up[u] = "write"
    /\ file' = [file EXCEPT ![HashOf[u]] = "fresh"]
    /\ Goto(u, "insert")
    /\ UNCHANGED <<row, refs, gcVars, stops, reused>>

\* INSERT ... ON CONFLICT DO NOTHING, and the error of either statement.
InsertMediaIfAbsent(u) ==
    LET h == HashOf[u] IN
    /\ \/ /\ up[u] = "insert" /\ row[h] = "absent"
          /\ row' = [row EXCEPT ![h] = "fresh"]
          /\ Goto(u, "refer")
       \/ /\ up[u] = "insert" /\ row[h] # "absent"
          /\ Goto(u, "get") /\ UNCHANGED row
       \/ /\ up[u] = "get"
          /\ Goto(u, IF row[h] = "absent" THEN "failed" ELSE "refer")
          /\ UNCHANGED row
       \/ up[u] = "insert" /\ Goto(u, "failed") /\ UNCHANGED row
    /\ UNCHANGED <<file, refs, gcVars, stops, reused>>

\* The row that refers to the media (attachment, avatar, icon, emoji, embed, ...),
\* which its foreign key checks; the request may also fail before.
Refer(u) ==
    LET h == HashOf[u] IN
    /\ up[u] = "refer"
    /\ \/ /\ row[h] # "absent"
          /\ refs' = [refs EXCEPT ![h] = @ \cup {u}]
          /\ Goto(u, "done")
       \/ Goto(u, "failed") /\ UNCHANGED refs
    /\ UNCHANGED <<file, row, gcVars, stops, reused>>

\* The avatar is replaced, the message or the emoji deleted, the attachment an orphan.
Release(u) ==
    /\ up[u] = "done"
    /\ refs' = [refs EXCEPT ![HashOf[u]] = @ \ {u}]
    /\ Goto(u, "released")
    /\ UNCHANGED <<file, row, gcVars, stops, reused>>

\* An hour passes; no request takes that long.
Publishing(h) == \E u \in Uploads : HashOf[u] = h /\ up[u] \in {"write", "insert", "get", "refer"}

Age(h) ==
    /\ "fresh" \in {file[h], row[h]} /\ ~Publishing(h)
    /\ file' = [file EXCEPT ![h] = IF @ = "fresh" THEN "old" ELSE @]
    /\ row' = [row EXCEPT ![h] = IF @ = "fresh" THEN "old" ELSE @]
    /\ UNCHANGED <<refs, up, gcVars, stops, reused>>

-----------------------------------------------------------------------------
\* The collector: cleanupStaleMedia, then cleanupOrphanMediaFiles.

ListMediaHashesBefore ==
    /\ gc = "idle"
    /\ gc' = "rows"
    /\ list' = {h \in Hashes : row[h] = "old"}
    /\ UNCHANGED <<storeVars, up, cur, exists, stops, reused>>

\* The next row: os.Stat of its blob; or the end of the first phase.
StatMedia ==
    /\ gc = "rows"
    /\ \/ \E h \in list :
            /\ cur' = h
            /\ list' = list \ {h}
            /\ exists' = (file[h] # "absent")
            /\ gc' = "check"
       \/ list = {} /\ gc' = "scan" /\ UNCHANGED <<cur, list, exists>>
    /\ UNCHANGED <<storeVars, up, stops, reused>>

MediaIsReferenced ==
    /\ gc = "check"
    /\ gc' = IF refs[cur] # {} THEN "rows" ELSE "delete"
    /\ UNCHANGED <<storeVars, up, list, cur, exists, stops, reused>>

\* The DELETE; a reference made meanwhile makes it fail, which ends the run.
DeleteMediaByHash ==
    /\ gc = "delete"
    /\ IF refs[cur] = {}
       THEN row' = [row EXCEPT ![cur] = "absent"] /\ gc' = IF exists THEN "unlink" ELSE "rows"
       ELSE gc' = "idle" /\ UNCHANGED row
    /\ UNCHANGED <<file, refs, up, list, cur, exists, stops, reused>>

RemoveBlob ==
    /\ gc = "unlink"
    /\ file' = [file EXCEPT ![cur] = "absent"]
    /\ gc' = "rows"
    /\ UNCHANGED <<row, refs, up, list, cur, exists, stops, reused>>

\* Variant: mtime is not looked at.
ScanAllMediaFiles ==
    /\ gc = "scan"
    /\ list' = {h \in Hashes : file[h] # "absent"}
    /\ gc' = "files"
    /\ UNCHANGED <<storeVars, up, cur, exists, stops, reused>>

ScanMediaFiles ==
    /\ gc = "scan"
    /\ list' = {h \in Hashes : file[h] = "old"}
    /\ gc' = "files"
    /\ UNCHANGED <<storeVars, up, cur, exists, stops, reused>>

FindExistingMediaHashes ==
    /\ gc = "files"
    /\ list' = {h \in list : row[h] = "absent"}
    /\ gc' = "remove"
    /\ UNCHANGED <<storeVars, up, cur, exists, stops, reused>>

RemoveOrphanFile ==
    /\ gc = "remove"
    /\ \/ \E h \in list :
            /\ file' = [file EXCEPT ![h] = "absent"]
            /\ list' = list \ {h}
            /\ UNCHANGED gc
       \/ list = {} /\ gc' = "idle" /\ UNCHANGED <<file, list>>
    /\ UNCHANGED <<row, refs, up, cur, exists, stops, reused>>

\* A crash, a timeout or an error ends the run.
RunEnds ==
    /\ gc # "idle"
    /\ stops < MaxStops
    /\ stops' = stops + 1
    /\ gc' = "idle" /\ list' = {}
    /\ UNCHANGED <<storeVars, up, cur, exists, reused>>

-----------------------------------------------------------------------------
Publish(u) ==
    \/ StatBlob(u)
    \/ WriteBlob(u)
    \/ InsertMediaIfAbsent(u)
    \/ Refer(u)

CleanupMedia ==
    \/ ListMediaHashesBefore
    \/ StatMedia
    \/ MediaIsReferenced
    \/ DeleteMediaByHash
    \/ RemoveBlob
    \/ ScanMediaFiles
    \/ FindExistingMediaHashes
    \/ RemoveOrphanFile

Next ==
    \/ \E u \in Uploads : Publish(u) \/ Release(u)
    \/ \E h \in Hashes : Age(h)
    \/ CleanupMedia
    \/ RunEnds

Spec == Init /\ [][Next]_vars

\* The collector runs every twelve hours, and time passes.
Fairness == WF_vars(CleanupMedia) /\ \A h \in Hashes : WF_vars(Age(h))

FairSpec == Spec /\ Fairness

-----------------------------------------------------------------------------
\* Properties.

\* The grace period protects uploads: the blob of a referenced row can be missing
\* only if the same content had been uploaded more than an hour before and was
\* published again (mediaGracePeriod, disk before database).
FirstUploadsSurvive ==
    \A h \in Hashes : refs[h] # {} /\ file[h] = "absent" => h \in reused

Quiet(h) == \A u \in Uploads : HashOf[u] = h => up[u] \in {"idle", "failed", "released"}

\* When the last request for a content is through and nothing refers to it, both
\* its row and its blob go, whatever run was cut short and whichever of the two
\* was left behind.
GarbageGoes ==
    \A h \in Hashes : [](Quiet(h) => <>(~Quiet(h) \/ (file[h] = "absent" /\ row[h] = "absent")))

\* "um leitor nunca encontra a row sem o arquivo completo" (media.go).
RowsHaveBlobs ==
    \A h \in Hashes : refs[h] # {} => file[h] # "absent"
=============================================================================
