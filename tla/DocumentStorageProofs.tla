------------------------- MODULE DocumentStorageProofs -------------------------
(***************************************************************************)
(* Type correctness of DocumentStorage, and that no delete, however many   *)
(* run at once and whichever of their steps fails, destroys content that   *)
(* metadata refers to.  The row lock is not needed for it: the argument    *)
(* is that a delete works on a document only once its upload is over, and  *)
(* unlinks the staged copy only once the row is gone for good.             *)
(***************************************************************************)
EXTENDS DocumentStorage, TLAPS

LEMMA DocOfType == \A c \in Deletes : DocOf[c] \in Docs
  BY ConstantsAssumption

LEMMA TypeOKStep == TypeOK /\ [Next]_vars => TypeOK'
<1>0. SUFFICES ASSUME TypeOK, [Next]_vars PROVE TypeOK'
  OBVIOUS
<1> USE DocOfType DEF TypeOK, UploadPhases, DeletePhases, Upload, Delete
<1>1. ASSUME NEW d \in Docs,
             OpenFile(d) \/ RejectContent(d) \/ Store(d) \/ CommitUpload(d)
      PROVE  TypeOK'
  BY <1>0, <1>1 DEF OpenFile, RejectContent, Store, CommitUpload
<1>2. ASSUME NEW d \in Docs, CommitUploadFails(d) \/ CleanUpload(d) \/ UploadCrashes(d)
      PROVE  TypeOK'
  <2>1. CASE CommitUploadFails(d)
    BY <1>0, <2>1 DEF CommitUploadFails
  <2>2. CASE CleanUpload(d)
    BY <1>0, <2>2 DEF CleanUpload
  <2>3. CASE UploadCrashes(d)
    BY <1>0, <2>3 DEF UploadCrashes
  <2> QED
    BY <1>2, <2>1, <2>2, <2>3
<1>3. ASSUME NEW c \in Deletes, Stage(c) \/ FindNoFile(c) \/ StageFails(c)
      PROVE  TypeOK'
  <2>1. CASE Stage(c)
    BY <1>0, <2>1 DEF Stage, LockRow, Rename
  <2>2. CASE FindNoFile(c)
    BY <1>0, <2>2 DEF FindNoFile, LockRow
  <2>3. CASE StageFails(c)
    BY <1>0, <2>3 DEF StageFails
  <2> QED
    BY <1>3, <2>1, <2>2, <2>3
<1>4. ASSUME NEW c \in Deletes, CommitDelete(c) \/ CommitDeleteFails(c)
      PROVE  TypeOK'
  BY <1>0, <1>4 DEF CommitDelete, CommitDeleteFails, Unlock
<1>5. ASSUME NEW c \in Deletes, Restore(c) \/ Remove(c) \/ RemoveFails(c)
      PROVE  TypeOK'
  BY <1>0, <1>5 DEF Restore, MoveBack, Remove, RemoveFails
<1>6. ASSUME NEW c \in Deletes, DeleteCrashes(c)
      PROVE  TypeOK'
  BY <1>0, <1>6 DEF DeleteCrashes
<1>7. CASE UNCHANGED vars
  BY <1>0, <1>7 DEF vars
<1> QED
  BY <1>0, <1>1, <1>2, <1>3, <1>4, <1>5, <1>6, <1>7 DEF Next

(* Rows, files and phases have their types, whatever happens.                *)
THEOREM TypesHold == Spec => []TypeOK
<1>1. Init => TypeOK
  BY DEF Init, TypeOK, UploadPhases, DeletePhases
<1> QED
  BY <1>1, TypeOKStep, PTL DEF Spec

-----------------------------------------------------------------------------
(* The inductive invariant.                                                *)

(* Before its row is committed a document is its upload's alone: no row, so  *)
(* no delete, so no staged copy; and what is about to be committed is whole. *)
UploadIsAlone ==
    \A d \in Docs :
        /\ uploading[d] \in {"idle", "writing", "stored"} => row[d] = "none" /\ ~staged[d]
        /\ uploading[d] = "stored" => file[d] = "full"

(* A delete under way has found a row, and one that removes the staged copy  *)
(* has seen the row go.                                                      *)
DeleteFollowsRow ==
    \A c \in Deletes :
        /\ deleting[c] \in {"staged", "unstaged", "removing", "restoring"} =>
             row[DocOf[c]] # "none"
        /\ deleting[c] = "removing" => row[DocOf[c]] = "gone"

(* ContentSurvives, of uploads that are still cleaning up too.               *)
ContentIsThere ==
    \A d \in Docs :
        row[d] = "present" /\ uploading[d] # "failed" => file[d] = "full" \/ staged[d]

StorageInv == UploadIsAlone /\ DeleteFollowsRow /\ OneName /\ ContentIsThere

LEMMA StorageInit == Init => StorageInv
  BY DocOfType
     DEF Init, StorageInv, UploadIsAlone, DeleteFollowsRow, OneName, ContentIsThere

LEMMA StorageStep == TypeOK /\ StorageInv /\ [Next]_vars => StorageInv'
<1>0. SUFFICES ASSUME TypeOK, StorageInv, [Next]_vars PROVE StorageInv'
  OBVIOUS
<1> USE DocOfType DEF TypeOK, StorageInv, UploadIsAlone, DeleteFollowsRow, OneName,
                      ContentIsThere, Upload, Delete
<1>1. ASSUME NEW d \in Docs, OpenFile(d) \/ RejectContent(d) \/ Store(d)
      PROVE  StorageInv'
  BY <1>0, <1>1 DEF OpenFile, RejectContent, Store
<1>2. ASSUME NEW d \in Docs, CommitUpload(d) \/ CommitUploadFails(d)
      PROVE  StorageInv'
  BY <1>0, <1>2 DEF CommitUpload, CommitUploadFails
<1>3. ASSUME NEW d \in Docs, CleanUpload(d) \/ UploadCrashes(d)
      PROVE  StorageInv'
  BY <1>0, <1>3 DEF CleanUpload, UploadCrashes
<1>4. ASSUME NEW c \in Deletes, Stage(c) PROVE StorageInv'
  BY <1>0, <1>4 DEF Stage, LockRow, Rename
<1>5. ASSUME NEW c \in Deletes, FindNoFile(c) \/ StageFails(c) PROVE StorageInv'
  BY <1>0, <1>5 DEF FindNoFile, StageFails, LockRow
<1>6. ASSUME NEW c \in Deletes, CommitDelete(c) PROVE StorageInv'
  BY <1>0, <1>6 DEF CommitDelete
<1>7. ASSUME NEW c \in Deletes, CommitDeleteFails(c) PROVE StorageInv'
  BY <1>0, <1>7 DEF CommitDeleteFails
<1>8. ASSUME NEW c \in Deletes, Restore(c) PROVE StorageInv'
  BY <1>0, <1>8 DEF Restore, MoveBack
<1>9. ASSUME NEW c \in Deletes, Remove(c) \/ RemoveFails(c) \/ DeleteCrashes(c)
      PROVE  StorageInv'
  BY <1>0, <1>9 DEF Remove, RemoveFails, DeleteCrashes
<1>10. CASE UNCHANGED vars
  BY <1>0, <1>10 DEF vars
<1> QED
  BY <1>0, <1>1, <1>2, <1>3, <1>4, <1>5, <1>6, <1>7, <1>8, <1>9, <1>10 DEF Next

LEMMA StorageIsSafe == Spec => []StorageInv
  BY StorageInit, StorageStep, TypesHold, PTL DEF Spec

(* A key never names a file and a staged copy at once: neither stage_delete  *)
(* nor restore can meet an existing target, among any number of deletes.     *)
THEOREM OneNameHolds == Spec => []OneName
<1>1. StorageInv => OneName
  BY DEF StorageInv
<1> QED
  BY <1>1, StorageIsSafe, PTL

(* A document that exists has its whole file, under its key or staged,       *)
(* whichever step of its deletes fails, except after a failed upload.        *)
THEOREM ContentSurvivesFaults == Spec => []ContentSurvives
<1>1. StorageInv => ContentSurvives
  BY DEF StorageInv, ContentIsThere, ContentSurvives
<1> QED
  BY <1>1, StorageIsSafe, PTL
=============================================================================
