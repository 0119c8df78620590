---------------------------- MODULE DocumentStorage ----------------------------
(***************************************************************************)
(* A document's file and its metadata row: POST /documents writes the file *)
(* and then commits the row, DELETE /documents/{id} renames the file away, *)
(* commits the row's deletion and then removes the file.  The file system  *)
(* and PostgreSQL share no transaction: a handler can fail or die between  *)
(* any two of these steps, and several requests delete one document.       *)
(*                                                                         *)
(* A storage key is a fresh UUID, so a document and its key are one name   *)
(* here.  A request answered 404 or 409 changes nothing: a stuttering step.*)
(* A definition right before Store, Rename or MoveBack is a defect that no *)
(* action uses; README.md says what these variants are for.                *)
(***************************************************************************)
EXTENDS FiniteSets

CONSTANTS
    Docs,         \* documents; each is uploaded by one request
    Deletes,      \* DELETE requests
    DocOf,        \* the document each one names
    Faults,       \* what may go wrong, a subset of FaultKinds
    None          \* no request

FaultKinds ==
    { "commitError",    \* a flush or commit fails and is rolled back
      "unknownCommit",  \* a commit takes effect and is reported as failed
      "ioError",        \* unlink or rename fails
      "crash" }         \* the process dies between two steps

ASSUME ConstantsAssumption ==
    /\ DocOf \in [Deletes -> Docs]
    /\ None \notin Deletes
    /\ Faults \subseteq FaultKinds

VARIABLES
    row,       \* the documents table
    file,      \* what is stored under the key
    staged,    \* whether <key>.deleting exists
    lock,      \* the DELETE whose open transaction holds the row
    uploading, \* how far the upload of a document has come
    deleting   \* how far a DELETE has come

vars == <<row, file, staged, lock, uploading, deleting>>

UploadPhases == {"idle", "writing", "stored", "cleaning", "done", "failed", "crashed"}
\* unstaged: stage_delete found no file and returned None
DeletePhases == {"idle", "staged", "unstaged", "removing", "restoring",
                 "done", "failed", "crashed"}

TypeOK ==
    /\ row \in [Docs -> {"none", "present", "gone"}]
    /\ file \in [Docs -> {"none", "partial", "full"}]
    /\ staged \in [Docs -> BOOLEAN]
    /\ lock \in [Docs -> Deletes \cup {None}]
    /\ uploading \in [Docs -> UploadPhases]
    /\ deleting \in [Deletes -> DeletePhases]

Init ==
    /\ row = [d \in Docs |-> "none"]
    /\ file = [d \in Docs |-> "none"]
    /\ staged = [d \in Docs |-> FALSE]
    /\ lock = [d \in Docs |-> None]
    /\ uploading = [d \in Docs |-> "idle"]
    /\ deleting = [c \in Deletes |-> "idle"]

-----------------------------------------------------------------------------
(* upload_document                                                         *)

Upload(d, from, to) ==
    /\ uploading[d] = from
    /\ uploading' = [uploading EXCEPT ![d] = to]

OpenFile(d) ==
    /\ Upload(d, "idle", "writing")
    /\ file' = [file EXCEPT ![d] = "partial"]
    /\ UNCHANGED <<row, staged, lock, deleting>>

\* Too large, not what its extension says, empty, or a write error: unlinked.
RejectContent(d) ==
    /\ Upload(d, "writing", "failed")
    /\ file' = [file EXCEPT ![d] = "none"]
    /\ UNCHANGED <<row, staged, lock, deleting>>

StoreUnflushed(d) ==
    /\ Upload(d, "writing", "stored")
    /\ file' = [file EXCEPT ![d] = "unflushed"]
    /\ UNCHANGED <<row, staged, lock, deleting>>
Store(d) ==
    /\ Upload(d, "writing", "stored")
    /\ file' = [file EXCEPT ![d] = "full"]
    /\ UNCHANGED <<row, staged, lock, deleting>>

CommitUpload(d) ==
    /\ Upload(d, "stored", "done")
    /\ row' = [row EXCEPT ![d] = "present"]
    /\ UNCHANGED <<file, staged, lock, deleting>>

CommitUploadFails(d) ==
    /\ Upload(d, "stored", "cleaning")
    /\ \/ "commitError" \in Faults /\ UNCHANGED row
       \/ "unknownCommit" \in Faults /\ row' = [row EXCEPT ![d] = "present"]
    /\ UNCHANGED <<file, staged, lock, deleting>>

CleanUpload(d) ==
    /\ Upload(d, "cleaning", "failed")
    /\ \/ file' = [file EXCEPT ![d] = "none"]
       \/ "ioError" \in Faults /\ UNCHANGED file
    /\ UNCHANGED <<row, staged, lock, deleting>>

UploadCrashes(d) ==
    /\ "crash" \in Faults
    /\ uploading[d] \in {"writing", "stored", "cleaning"}
    /\ Upload(d, uploading[d], "crashed")
    /\ UNCHANGED <<row, file, staged, lock, deleting>>

-----------------------------------------------------------------------------
(* delete_document                                                         *)

Delete(c, from, to) ==
    /\ deleting[c] = from
    /\ deleting' = [deleting EXCEPT ![c] = to]

Unlock(c) == lock' = [lock EXCEPT ![DocOf[c]] = None]

UnlinkInsteadOfRename(c) ==
    /\ file' = [file EXCEPT ![DocOf[c]] = "none"]
    /\ UNCHANGED staged
Rename(c) ==
    /\ file' = [file EXCEPT ![DocOf[c]] = "none"]
    /\ staged' = [staged EXCEPT ![DocOf[c]] = TRUE]

LockRow(c) ==
    /\ row[DocOf[c]] = "present"
    /\ lock[DocOf[c]] = None
    /\ lock' = [lock EXCEPT ![DocOf[c]] = c]

Stage(c) ==
    /\ Delete(c, "idle", "staged")
    /\ LockRow(c)
    /\ file[DocOf[c]] # "none"
    /\ ~staged[DocOf[c]]
    /\ Rename(c)
    /\ UNCHANGED <<row, uploading>>

FindNoFile(c) ==
    /\ Delete(c, "idle", "unstaged")
    /\ LockRow(c)
    /\ file[DocOf[c]] = "none"
    /\ UNCHANGED <<row, file, staged, uploading>>

\* An OSError of the rename rolls the transaction back; nothing has changed.
StageFails(c) ==
    /\ "ioError" \in Faults
    /\ Delete(c, "idle", "failed")
    /\ row[DocOf[c]] = "present"
    /\ lock[DocOf[c]] = None
    /\ UNCHANGED <<row, file, staged, lock, uploading>>

CommitDelete(c) ==
    /\ \/ Delete(c, "staged", "removing")
       \/ Delete(c, "unstaged", "done")
    /\ row' = [row EXCEPT ![DocOf[c]] = "gone"]
    /\ Unlock(c)
    /\ UNCHANGED <<file, staged, uploading>>

\* The rollback releases the row before the file has its name back.
CommitDeleteFails(c) ==
    /\ \/ Delete(c, "staged", "restoring")
       \/ Delete(c, "unstaged", "failed")
    /\ \/ "commitError" \in Faults /\ UNCHANGED row
       \/ "unknownCommit" \in Faults /\ row' = [row EXCEPT ![DocOf[c]] = "gone"]
    /\ Unlock(c)
    /\ UNCHANGED <<file, staged, uploading>>

\* restore(): the target does not exist here (OneName below).
CopyBack(c) ==
    /\ file' = [file EXCEPT ![DocOf[c]] = "full"]
    /\ UNCHANGED staged
MoveBack(c) ==
    /\ file' = [file EXCEPT ![DocOf[c]] = "full"]
    /\ staged' = [staged EXCEPT ![DocOf[c]] = FALSE]

Restore(c) ==
    /\ Delete(c, "restoring", "failed")
    /\ \/ file[DocOf[c]] = "none" /\ staged[DocOf[c]] /\ MoveBack(c)
       \/ "ioError" \in Faults /\ UNCHANGED <<file, staged>>
    /\ UNCHANGED <<row, lock, uploading>>

Remove(c) ==
    /\ Delete(c, "removing", "done")
    /\ staged' = [staged EXCEPT ![DocOf[c]] = FALSE]
    /\ UNCHANGED <<row, file, lock, uploading>>

\* 503 "Metadata deleted; file cleanup pending"
RemoveFails(c) ==
    /\ "ioError" \in Faults
    /\ Delete(c, "removing", "failed")
    /\ UNCHANGED <<row, file, staged, lock, uploading>>

DeleteCrashes(c) ==
    /\ "crash" \in Faults
    /\ deleting[c] \in {"staged", "unstaged", "removing", "restoring"}
    /\ Delete(c, deleting[c], "crashed")
    /\ lock' = IF lock[DocOf[c]] = c THEN [lock EXCEPT ![DocOf[c]] = None] ELSE lock
    /\ UNCHANGED <<row, file, staged, uploading>>

-----------------------------------------------------------------------------

Next ==
    \/ \E d \in Docs :
         \/ OpenFile(d) \/ RejectContent(d) \/ Store(d)
         \/ CommitUpload(d) \/ CommitUploadFails(d) \/ CleanUpload(d) \/ UploadCrashes(d)
    \/ \E c \in Deletes :
         \/ Stage(c) \/ FindNoFile(c) \/ StageFails(c)
         \/ CommitDelete(c) \/ CommitDeleteFails(c) \/ Restore(c)
         \/ Remove(c) \/ RemoveFails(c) \/ DeleteCrashes(c)

Spec == Init /\ [][Next]_vars

-----------------------------------------------------------------------------
(* Correctness.                                                            *)

\* A document never has its file and a staged copy at once, so neither rename
\* can meet an existing target: stage_delete's "already pending" and restore's
\* "cannot overwrite" never arise, also among concurrent deletes.
OneName == \A d \in Docs : ~(file[d] # "none" /\ staged[d])

\* A failed or interrupted delete never destroys content that metadata still
\* refers to: a document that exists has its whole file, under its key or staged
\* (where an operator finds it), whoever deletes it and whichever step fails.
\* Only an upload that is answered with an error can leave a row without one.
ContentSurvives ==
    \A d \in Docs :
        row[d] = "present" /\ uploading[d] \notin {"cleaning", "failed"} =>
            file[d] = "full" \/ staged[d]
=============================================================================
