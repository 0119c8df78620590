------------------------ MODULE DocumentPipelineProofs ------------------------
(***************************************************************************)
(* Theorems about DocumentPipeline, for any number of documents, calls,    *)
(* workers and retries and any set of faults.  First its types and the     *)
(* invariant that everything else rests on: a worker inside its            *)
(* transaction keeps the row lock and the claim it checked.  Then the      *)
(* safety properties; most steps change no table, NextWrites lists the few *)
(* kinds of write, and each invariant is shown to survive those.  Last,    *)
(* DocumentPipeline implements SearchableLibrary: every state shows a      *)
(* library that says of each document that it can be searched in its       *)
(* current text or not at all, and every step of a handler, a worker or a  *)
(* fault is one step of that library or leaves it as it is.                *)
(***************************************************************************)
EXTENDS DocumentPipeline, TLAPS

LEMMA DocOfType == \A c \in Calls : DocOf[c] \in Docs
  BY ConstantsAssumption

LEMMA RowUpdates ==
    /\ NewRow \in Row /\ NoRow("absent") \in Row /\ NoRow("deleted") \in Row
    /\ \A r \in Row :
         /\ \A s \in Statuses : [r EXCEPT !.status = s] \in Row
         /\ \A e \in EmbeddingStatuses : [r EXCEPT !.embedding_status = e] \in Row
         /\ ClaimedForProcessing(r) \in Row
         /\ [r EXCEPT !.status = "processed", !.embedding_status = "pending"] \in Row
         /\ [r EXCEPT !.embedding_status = "indexed", !.embedded_at = TRUE] \in Row
         /\ \A c \in Calls : FailedRow(r, c) \in Row /\ SafelyFailedRow(r, c) \in Row
<1>1. NewRow \in Row /\ NoRow("absent") \in Row /\ NoRow("deleted") \in Row
  BY DEF NewRow, NoRow, Row, Statuses, EmbeddingStatuses
<1>2. ASSUME NEW r \in Row PROVE
        /\ \A s \in Statuses : [r EXCEPT !.status = s] \in Row
        /\ \A e \in EmbeddingStatuses : [r EXCEPT !.embedding_status = e] \in Row
  BY <1>2 DEF Row, Statuses, EmbeddingStatuses
<1>3. ASSUME NEW r \in Row PROVE
        /\ ClaimedForProcessing(r) \in Row
        /\ [r EXCEPT !.status = "processed", !.embedding_status = "pending"] \in Row
        /\ [r EXCEPT !.embedding_status = "indexed", !.embedded_at = TRUE] \in Row
  BY <1>3 DEF ClaimedForProcessing, Row, Statuses, EmbeddingStatuses
<1>4. ASSUME NEW r \in Row, NEW c \in Calls
      PROVE  FailedRow(r, c) \in Row /\ SafelyFailedRow(r, c) \in Row
  BY <1>4 DEF FailedRow, SafelyFailedRow, Row, Statuses, EmbeddingStatuses
<1> QED
  BY <1>1, <1>2, <1>3, <1>4

LEMMA PushType ==
    ASSUME NEW c \in Calls, queue \in Seq(Calls), run \in [Calls -> RunStates], Push(c)
    PROVE  queue' \in Seq(Calls) /\ run' \in [Calls -> RunStates]
<1>1. queue' \in Seq(Calls)
  BY DEF Push
<1>2. run' \in [Calls -> RunStates]
  BY DEF Push, RunStates
<1> QED
  BY <1>1, <1>2

LEMMA AnswerType ==
    ASSUME NEW c \in Calls, NEW from, NEW to \in ApiStates,
           api \in [Calls -> ApiStates], prev \in [Calls -> Row], Answer(c, from, to)
    PROVE  api' \in [Calls -> ApiStates] /\ prev' \in [Calls -> Row]
  BY RowUpdates DEF Answer

LEMMA RestoredRowType ==
    ASSUME NEW r \in Row, NEW c \in Calls, prev[c] \in Row
    PROVE  RestoredRow(r, c) \in Row
<1>1. (prev[c].embedded_at \/ r.embedded_at) \in BOOLEAN
  OBVIOUS
<1>2. CASE c \in ProcessCalls
  BY <1>1, <1>2 DEF RestoredRow, Row
<1>3. CASE c \notin ProcessCalls
  BY <1>3 DEF RestoredRow, Row
<1> QED
  BY <1>2, <1>3

LEMMA TypeOKInit == Init => TypeOK
<1> SUFFICES ASSUME Init PROVE TypeOK
  OBVIOUS
<1>1. row \in [Docs -> Row] /\ prev \in [Calls -> Row]
  BY RowUpdates DEF Init
<1>2. queue \in Seq(Calls)
  BY DEF Init
<1>3. /\ chunks \in [Docs -> Calls \cup {None}]
      /\ vectors \in [Docs -> Calls \cup {None}]
      /\ lock \in [Docs -> Calls \cup {None}]
      /\ seen \in [Calls -> Calls \cup {None}]
  BY DEF Init
<1>4. left \in [Calls -> 0 .. MaxRetries]
  BY ConstantsAssumption DEF Init
<1>5. api \in [Calls -> ApiStates] /\ run \in [Calls -> RunStates]
  BY DEF Init, ApiStates, RunStates
<1> QED
  BY <1>1, <1>2, <1>3, <1>4, <1>5 DEF TypeOK

LEMMA TypeOKStep == TypeOK /\ [Next]_vars => TypeOK'
<1>0. SUFFICES ASSUME TypeOK, [Next]_vars PROVE TypeOK'
  OBVIOUS
<1> USE ConstantsAssumption, DocOfType
    DEF TypeOK, RunStates, Running, ApiStates, rowVars, apiVars, jobVars, Statuses, EmbeddingStatuses

<1>1. ASSUME NEW d \in Docs, Upload(d)
      PROVE  TypeOK'
  BY <1>0, RowUpdates, <1>1 DEF Upload
<1>2. ASSUME NEW d \in Docs, Delete(d)
      PROVE  TypeOK'
  BY <1>0, RowUpdates, <1>2 DEF Delete, Inactive, Present, Unlocked
<1>3. ASSUME NEW c \in Calls, ClaimProcess(c)
      PROVE  TypeOK'
  BY <1>0, RowUpdates, <1>3 DEF ClaimProcess
<1>4. ASSUME NEW c \in Calls, ClaimIndex(c)
      PROVE  TypeOK'
  BY <1>0, RowUpdates, <1>4 DEF ClaimIndex, Unlocked, MayIndex
<1>5. ASSUME NEW c \in Calls, EnqueueAccepted(c)
      PROVE  TypeOK'
  <2>1. Answer(c, {"claimed"}, "accepted") /\ Push(c)
    BY <1>5 DEF EnqueueAccepted
  <2>2. api' \in [Calls -> ApiStates] /\ prev' \in [Calls -> Row]
    BY <1>0, <2>1, AnswerType
  <2>3. queue' \in Seq(Calls) /\ run' \in [Calls -> RunStates]
    BY <1>0, <2>1, PushType DEF RunStates
  <2>4. left' \in [Calls -> 0 .. MaxRetries]
    <3>1. MaxRetries \in 0 .. MaxRetries
      BY ConstantsAssumption
    <3> QED
      BY <1>0, <1>5, <3>1 DEF EnqueueAccepted
  <2> QED
    BY <1>0, <1>5, <2>2, <2>3, <2>4 DEF EnqueueAccepted
<1>6. ASSUME NEW c \in Calls, EnqueueRefused(c)
      PROVE  TypeOK'
  BY <1>0, <1>6 DEF EnqueueRefused
<1>7. ASSUME NEW c \in Calls, EnqueueUnknown(c)
      PROVE  TypeOK'
  <2>1. queue' \in Seq(Calls) /\ run' \in [Calls -> RunStates]
    BY <1>0, <1>7, PushType DEF EnqueueUnknown, RunStates
  <2>2. left' \in [Calls -> 0 .. MaxRetries]
    <3>1. MaxRetries \in 0 .. MaxRetries
      BY ConstantsAssumption
    <3> QED
      BY <1>0, <1>7, <3>1 DEF EnqueueUnknown
  <2> QED
    BY <1>0, <1>7, <2>1, <2>2 DEF EnqueueUnknown
<1>8. ASSUME NEW c \in Calls, Restore(c)
      PROVE  TypeOK'
  <2>1. api' \in [Calls -> ApiStates] /\ prev' \in [Calls -> Row]
    BY <1>0, <1>8, AnswerType DEF Restore
  <2>2. RestoredRow(row[DocOf[c]], c) \in Row
    BY <1>0, RestoredRowType
  <2>3. row' \in [Docs -> Row]
    BY <1>0, <1>8, <2>2 DEF Restore
  <2> QED
    BY <1>0, <1>8, <2>1, <2>3 DEF Restore
<1>9. ASSUME NEW c \in Calls, BackendCrash(c)
      PROVE  TypeOK'
  <2>1. api' \in [Calls -> ApiStates] /\ prev' \in [Calls -> Row]
    BY <1>0, <1>9, AnswerType DEF BackendCrash
  <2> QED
    BY <1>0, <1>9, <2>1 DEF BackendCrash
<1>10. ASSUME NEW c \in Calls, TargetMissing(c)
      PROVE  TypeOK'
  BY <1>0, <1>10 DEF TargetMissing, Step, Present
<1>11. ASSUME NEW c \in Calls, Begin(c)
      PROVE  TypeOK'
  BY <1>0, <1>11 DEF Begin, Step, Unlocked, Present
<1>12. ASSUME NEW c \in Calls, RejectStale(c)
      PROVE  TypeOK'
  BY <1>0, <1>12 DEF RejectStale, Step, Unlocked
<1>13. ASSUME NEW c \in Calls, Complete(c)
      PROVE  TypeOK'
  <2>1. CASE PublishChunks(c)
    BY <1>0, RowUpdates, <1>13, <2>1 DEF Complete, PublishChunks, Step, Release
  <2>2. CASE PublishVectors(c)
    BY <1>0, RowUpdates, <1>13, <2>2 DEF Complete, PublishVectors, Step, Release
  <2> QED
    BY <1>13, <2>1, <2>2 DEF Complete
<1>14. ASSUME NEW c \in Calls, CommitUnacknowledged(c)
      PROVE  TypeOK'
  <2>1. CASE PublishChunks(c)
    BY <1>0, RowUpdates, <1>14, <2>1 DEF CommitUnacknowledged, PublishChunks, Step, Release
  <2>2. CASE PublishVectors(c)
    BY <1>0, RowUpdates, <1>14, <2>2 DEF CommitUnacknowledged, PublishVectors, Step, Release
  <2> QED
    BY <1>14, <2>1, <2>2 DEF CommitUnacknowledged
<1>15. ASSUME NEW c \in Calls, FailBody(c)
      PROVE  TypeOK'
  BY <1>0, <1>15 DEF FailBody, Step, Release
<1>16. ASSUME NEW c \in Calls, RecordFailure(c)
      PROVE  TypeOK'
  BY <1>0, RowUpdates, <1>16 DEF RecordFailure, Step
<1>17. ASSUME NEW c \in Calls, ReportFailure(c)
      PROVE  TypeOK'
  BY <1>0, RowUpdates, <1>17 DEF ReportFailure, Step, PersistSafeFailure
<1>18. ASSUME NEW c \in Calls, DbErrorEscapes(c)
      PROVE  TypeOK'
  <2>1. run' \in [Calls -> RunStates]
    BY <1>0, <1>18 DEF DbErrorEscapes
  <2>2. CASE RetriesRemain(c)
    <3>1. left[c] - 1 \in 0 .. MaxRetries
      BY <1>0, <2>2 DEF RetriesRemain
    <3>2. left' \in [Calls -> 0 .. MaxRetries]
      BY <1>0, <1>18, <2>2, <3>1 DEF DbErrorEscapes
    <3> QED
      BY <1>0, <1>18, <2>1, <3>2 DEF DbErrorEscapes
  <2>3. CASE ~RetriesRemain(c)
    BY <1>0, <1>18, <2>1, <2>3 DEF DbErrorEscapes
  <2> QED
    BY <2>2, <2>3
<1>19. ASSUME NEW c \in Calls, FailureCallback(c)
      PROVE  TypeOK'
  BY <1>0, RowUpdates, <1>19 DEF FailureCallback, Step, PersistSafeFailure
<1>20. ASSUME NEW c \in Calls, FailureCallbackFails(c)
      PROVE  TypeOK'
  BY <1>0, <1>20 DEF FailureCallbackFails, Step
<1>21. ASSUME NEW c \in Calls, RequeueScheduled(c)
      PROVE  TypeOK'
  <2>1. queue' \in Seq(Calls) /\ run' \in [Calls -> RunStates]
    BY <1>0, <1>21, PushType DEF RequeueScheduled, RunStates
  <2> QED
    BY <1>0, <1>21, <2>1 DEF RequeueScheduled
<1>22. ASSUME NEW c \in Calls, Redeliver(c)
      PROVE  TypeOK'
  <2>1. lock' \in [Docs -> Calls \cup {None}] /\ seen' \in [Calls -> Calls \cup {None}]
    BY <1>0, <1>22 DEF Redeliver, ReleaseIfHeld, Release
  <2>2. queue' \in Seq(Calls) /\ run' \in [Calls -> RunStates]
    BY <1>0, <1>22, PushType DEF Redeliver, RunStates
  <2> QED
    BY <1>0, <1>22, <2>1, <2>2 DEF Redeliver
<1>23. ASSUME NEW c \in Calls, LoseJob(c)
      PROVE  TypeOK'
  BY <1>0, <1>23 DEF LoseJob, ReleaseIfHeld, Release
<1>24. ASSUME Take
      PROVE  TypeOK'
  <2>1. Head(queue) \in Calls /\ Tail(queue) \in Seq(Calls)
    BY <1>0, <1>24 DEF Take
  <2>2. run' \in [Calls -> RunStates]
    BY <1>0, <1>24, <2>1 DEF Take, Step
  <2> QED
    BY <1>0, <1>24, <2>1, <2>2 DEF Take
<1>25. ASSUME Quiescent
      PROVE  TypeOK'
  BY <1>0, <1>25 DEF Quiescent, vars
<1>26. CASE UNCHANGED vars
  BY <1>0, <1>26 DEF vars
<1> QED
  BY <1>0, <1>1, <1>2, <1>3, <1>4, <1>5, <1>6, <1>7, <1>8, <1>9, <1>10, <1>11, <1>12, <1>13, <1>14, <1>15, <1>16, <1>17, <1>18, <1>19, <1>20, <1>21, <1>22, <1>23, <1>24, <1>25, <1>26 DEF Next, Handler, WorkerStep

(* Types hold in every state: the row, lock, queue and retry counters of the *)
(* pipeline stay within what the code ever writes.                          *)
THEOREM TypesHold == Spec => []TypeOK
<1>1. Init => TypeOK
  BY TypeOKInit
<1>2. TypeOK /\ [Next]_vars => TypeOK'
  BY TypeOKStep
<1> QED
  BY <1>1, <1>2, PTL DEF Spec

Keeps(h) ==
    /\ lock[DocOf[h]] = h
    /\ ClaimIsActive(h)
    /\ seen[h] = chunks[DocOf[h]]

LEMMA HolderInit == Init => HolderKeepsItsClaim
  BY DEF Init, HolderKeepsItsClaim

LEMMA HolderStep == TypeOK /\ HolderKeepsItsClaim /\ [Next]_vars => HolderKeepsItsClaim'
<1>0. SUFFICES ASSUME TypeOK, HolderKeepsItsClaim, [Next]_vars,
                      NEW h \in Calls, run'[h] = "holding"
               PROVE  Keeps(h)'
  BY DEF HolderKeepsItsClaim, Keeps
<1>h. run[h] = "holding" => Keeps(h)
  BY <1>0 DEF HolderKeepsItsClaim, Keeps
<1>f. ASSUME run[h] = "holding",
             row'[DocOf[h]] = row[DocOf[h]], chunks'[DocOf[h]] = chunks[DocOf[h]],
             lock'[DocOf[h]] = lock[DocOf[h]], seen'[h] = seen[h]
      PROVE  Keeps(h)'
  BY <1>h, <1>f DEF Keeps, ClaimIsActive, Target
<1>r. ASSUME NEW c \in Calls, run[c] = "holding",
             NEW to, to # "holding", run' = [run EXCEPT ![c] = to]
      PROVE  h # c /\ run[h] = "holding" /\ DocOf[h] # DocOf[c]
  <2>1. h # c /\ run[h] = "holding"
    BY <1>0, <1>r DEF TypeOK
  <2>2. lock[DocOf[h]] = h /\ lock[DocOf[c]] = c
    BY <1>0, <1>r, <2>1 DEF HolderKeepsItsClaim
  <2> QED
    BY <2>1, <2>2
<1> USE ConstantsAssumption, DocOfType
    DEF TypeOK, Keeps, ClaimIsActive, Target, rowVars, apiVars, jobVars

<1>1. ASSUME NEW d \in Docs, Upload(d)
      PROVE  Keeps(h)'
  BY <1>0, <1>h, <1>1 DEF Upload, NewRow
<1>2. ASSUME NEW d \in Docs, Delete(d)
      PROVE  Keeps(h)'
  BY <1>0, <1>h, <1>2 DEF Delete, Unlocked
<1>3. ASSUME NEW c \in Calls, ClaimProcess(c)
      PROVE  Keeps(h)'
  BY <1>0, <1>h, <1>3 DEF ClaimProcess, Unlocked
<1>4. ASSUME NEW c \in Calls, ClaimIndex(c)
      PROVE  Keeps(h)'
  BY <1>0, <1>h, <1>4 DEF ClaimIndex, Unlocked
<1>5. ASSUME NEW c \in Calls, EnqueueAccepted(c)
      PROVE  Keeps(h)'
  BY <1>0, <1>h, <1>5 DEF EnqueueAccepted, Push
<1>6. ASSUME NEW c \in Calls, EnqueueRefused(c)
      PROVE  Keeps(h)'
  BY <1>0, <1>h, <1>6 DEF EnqueueRefused
<1>7. ASSUME NEW c \in Calls, EnqueueUnknown(c)
      PROVE  Keeps(h)'
  BY <1>0, <1>h, <1>7 DEF EnqueueUnknown, Push
<1>8. ASSUME NEW c \in Calls, Restore(c)
      PROVE  Keeps(h)'
  BY <1>0, <1>h, <1>8 DEF Restore, Unlocked
<1>9. ASSUME NEW c \in Calls, BackendCrash(c)
      PROVE  Keeps(h)'
  BY <1>0, <1>h, <1>9 DEF BackendCrash
<1>10. ASSUME NEW c \in Calls, TargetMissing(c)
      PROVE  Keeps(h)'
  BY <1>0, <1>h, <1>10 DEF TargetMissing, Step
<1>11. ASSUME NEW c \in Calls, Begin(c)
      PROVE  Keeps(h)'
  BY <1>0, <1>h, <1>11 DEF Begin, Step, Unlocked, Present
<1>12. ASSUME NEW c \in Calls, RejectStale(c)
      PROVE  Keeps(h)'
  BY <1>0, <1>h, <1>12 DEF RejectStale, Step, Unlocked
<1>13. ASSUME NEW c \in Calls, Complete(c)
      PROVE  Keeps(h)'
  <2>1. h # c /\ run[h] = "holding" /\ DocOf[h] # DocOf[c]
    BY <1>13, <1>r DEF Complete, Step
  <2>2. lock'[DocOf[h]] = lock[DocOf[h]] /\ seen'[h] = seen[h]
    BY <1>0, <1>13, <2>1 DEF Complete, Release
  <2>3. row'[DocOf[h]] = row[DocOf[h]] /\ chunks'[DocOf[h]] = chunks[DocOf[h]]
    BY <1>0, <1>13, <2>1 DEF Complete, PublishChunks, PublishVectors
  <2> QED
    BY <1>f, <2>1, <2>2, <2>3
<1>14. ASSUME NEW c \in Calls, CommitUnacknowledged(c)
      PROVE  Keeps(h)'
  <2>1. h # c /\ run[h] = "holding" /\ DocOf[h] # DocOf[c]
    BY <1>14, <1>r DEF CommitUnacknowledged, Step
  <2>2. lock'[DocOf[h]] = lock[DocOf[h]] /\ seen'[h] = seen[h]
    BY <1>0, <1>14, <2>1 DEF CommitUnacknowledged, Release
  <2>3. row'[DocOf[h]] = row[DocOf[h]] /\ chunks'[DocOf[h]] = chunks[DocOf[h]]
    BY <1>0, <1>14, <2>1 DEF CommitUnacknowledged, PublishChunks, PublishVectors
  <2> QED
    BY <1>f, <2>1, <2>2, <2>3
<1>15. ASSUME NEW c \in Calls, FailBody(c)
      PROVE  Keeps(h)'
  <2>1. h # c /\ run[h] = "holding" /\ DocOf[h] # DocOf[c]
    BY <1>15, <1>r DEF FailBody, Step
  <2> QED
    BY <1>0, <1>15, <1>f, <2>1 DEF FailBody, Release
<1>16. ASSUME NEW c \in Calls, RecordFailure(c)
      PROVE  Keeps(h)'
  BY <1>0, <1>h, <1>16 DEF RecordFailure, Step, Unlocked
<1>17. ASSUME NEW c \in Calls, ReportFailure(c)
      PROVE  Keeps(h)'
  BY <1>0, <1>h, <1>17 DEF ReportFailure, Step, PersistSafeFailure, Unlocked
<1>18. ASSUME NEW c \in Calls, DbErrorEscapes(c)
      PROVE  Keeps(h)'
  BY <1>0, <1>h, <1>18 DEF DbErrorEscapes
<1>19. ASSUME NEW c \in Calls, FailureCallback(c)
      PROVE  Keeps(h)'
  BY <1>0, <1>h, <1>19 DEF FailureCallback, Step, PersistSafeFailure, Unlocked
<1>20. ASSUME NEW c \in Calls, FailureCallbackFails(c)
      PROVE  Keeps(h)'
  BY <1>0, <1>h, <1>20 DEF FailureCallbackFails, Step
<1>21. ASSUME NEW c \in Calls, RequeueScheduled(c)
      PROVE  Keeps(h)'
  BY <1>0, <1>h, <1>21 DEF RequeueScheduled, Push
<1>22. ASSUME NEW c \in Calls, Redeliver(c)
      PROVE  Keeps(h)'
  <2>1. CASE run[c] = "holding"
    <3>1. h # c /\ run[h] = "holding" /\ DocOf[h] # DocOf[c]
      BY <1>22, <1>r, <2>1 DEF Redeliver, Push
    <3> QED
      BY <1>0, <1>22, <1>f, <2>1, <3>1 DEF Redeliver, ReleaseIfHeld, Release
  <2>2. CASE run[c] # "holding"
    <3>1. run[h] = "holding"
      BY <1>0, <1>22 DEF Redeliver, Push
    <3> QED
      BY <1>22, <1>f, <2>2, <3>1 DEF Redeliver, ReleaseIfHeld
  <2> QED
    BY <2>1, <2>2
<1>23. ASSUME NEW c \in Calls, LoseJob(c)
      PROVE  Keeps(h)'
  <2>1. CASE run[c] = "holding"
    <3>1. h # c /\ run[h] = "holding" /\ DocOf[h] # DocOf[c]
      BY <1>23, <1>r, <2>1 DEF LoseJob
    <3> QED
      BY <1>0, <1>23, <1>f, <2>1, <3>1 DEF LoseJob, ReleaseIfHeld, Release
  <2>2. CASE run[c] # "holding"
    <3>1. run[h] = "holding"
      BY <1>0, <1>23 DEF LoseJob
    <3> QED
      BY <1>23, <1>f, <2>2, <3>1 DEF LoseJob, ReleaseIfHeld
  <2> QED
    BY <2>1, <2>2
<1>24. ASSUME Take
      PROVE  Keeps(h)'
  BY <1>0, <1>h, <1>24 DEF Take, Step
<1>25. ASSUME Quiescent
      PROVE  Keeps(h)'
  BY <1>0, <1>h, <1>25 DEF Quiescent, vars
<1>26. CASE UNCHANGED vars
  BY <1>0, <1>h, <1>26 DEF vars
<1> QED
  BY <1>0, <1>1, <1>2, <1>3, <1>4, <1>5, <1>6, <1>7, <1>8, <1>9, <1>10, <1>11, <1>12, <1>13, <1>14, <1>15, <1>16, <1>17, <1>18, <1>19, <1>20, <1>21, <1>22, <1>23, <1>24, <1>25, <1>26 DEF Next, Handler, WorkerStep

(* While a worker holds the row lock between the active-state check and its  *)
(* commit, no other handler or worker changes the claim it checked.          *)
THEOREM HolderIsSafe == Spec => []HolderKeepsItsClaim
<1>1. Init => HolderKeepsItsClaim
  BY HolderInit
<1>2. TypeOK /\ HolderKeepsItsClaim /\ [Next]_vars => HolderKeepsItsClaim'
  BY HolderStep
<1> QED
  BY <1>1, <1>2, TypesHold, PTL DEF Spec

-----------------------------------------------------------------------------
(* Safety.                                                                 *)

\* What a step does to the tables and to the handlers' saved values: nothing,
\* or one of the few writes below.
NoWrite == UNCHANGED <<row, chunks, vectors, prev>>
DropSaved(c) ==
    UNCHANGED <<row, chunks, vectors>> /\ prev' = [prev EXCEPT ![c] = NewRow]
Publish(c) ==
    /\ run[c] = "holding" /\ UNCHANGED prev
    /\ PublishChunks(c) \/ PublishVectors(c)
Fail(c) ==
    /\ UNCHANGED <<chunks, vectors, prev>>
    /\ \/ UNCHANGED row
       \/ /\ c \in ProcessCalls => Present(DocOf[c])
          /\ row' = [row EXCEPT ![DocOf[c]] = FailedRow(row[DocOf[c]], c)]

StillUnavailable == \A c \in Calls : api[c] = "unavailable" => api'[c] = "unavailable"

LEMMA NextWrites ==
    ASSUME TypeOK, [Next]_vars
    PROVE  /\ StillUnavailable
           /\ \/ NoWrite
              \/ \E d \in Docs : Upload(d) \/ Delete(d)
              \/ \E c \in Calls : \/ ClaimProcess(c) \/ ClaimIndex(c) \/ Restore(c)
                                  \/ DropSaved(c) \/ Publish(c) \/ Fail(c)
<1> DEFINE Claim == \E d \in Docs : Upload(d) \/ Delete(d)
           Write == \E c \in Calls : \/ ClaimProcess(c) \/ ClaimIndex(c) \/ Restore(c)
                                     \/ DropSaved(c) \/ Publish(c) \/ Fail(c)
           Goal == StillUnavailable /\ (NoWrite \/ Claim \/ Write)
<1> USE DEF StillUnavailable, rowVars, apiVars, jobVars
<1>1. ASSUME NEW d \in Docs, Upload(d) \/ Delete(d) PROVE Goal
  BY <1>1 DEF Upload, Delete
<1>2. ASSUME NEW c \in Calls, ClaimProcess(c) \/ ClaimIndex(c) PROVE Goal
  BY <1>2 DEF ClaimProcess, ClaimIndex, TypeOK
<1>3. ASSUME NEW c \in Calls, EnqueueAccepted(c) \/ BackendCrash(c) PROVE Goal
  BY <1>3 DEF EnqueueAccepted, BackendCrash, Answer, DropSaved, TypeOK
<1>4. ASSUME NEW c \in Calls, EnqueueRefused(c) \/ EnqueueUnknown(c) PROVE Goal
  BY <1>4 DEF EnqueueRefused, EnqueueUnknown, NoWrite, TypeOK
<1>5. ASSUME NEW c \in Calls, Restore(c) PROVE Goal
  BY <1>5 DEF Restore, Answer, TypeOK
<1>6. ASSUME NEW c \in Calls,
             \/ TargetMissing(c) \/ Begin(c) \/ RejectStale(c) \/ FailBody(c)
             \/ DbErrorEscapes(c) \/ FailureCallbackFails(c)
             \/ RequeueScheduled(c) \/ Redeliver(c) \/ LoseJob(c)
      PROVE  Goal
  BY <1>6 DEF TargetMissing, Begin, RejectStale, FailBody, DbErrorEscapes,
              FailureCallbackFails, RequeueScheduled, Redeliver, LoseJob, NoWrite
<1>7. ASSUME NEW c \in Calls, Complete(c) \/ CommitUnacknowledged(c) PROVE Goal
  BY <1>7 DEF Complete, CommitUnacknowledged, Step, Publish
<1>8. ASSUME NEW c \in Calls, RecordFailure(c) PROVE Goal
  BY <1>8 DEF RecordFailure, Fail
<1>9. ASSUME NEW c \in Calls, ReportFailure(c) \/ FailureCallback(c) PROVE Goal
  <2>1. /\ UNCHANGED <<chunks, vectors, prev, api>>
        /\ PersistSafeFailure(c)
    BY <1>9 DEF ReportFailure, FailureCallback
  <2>2. DocOf[c] \in Docs
    BY DocOfType
  <2>3. Fail(c)
    <3>1. CASE SafelyFailedRow(row[DocOf[c]], c) = row[DocOf[c]]
      <4>1. row' = row
        BY <2>1, <2>2, <3>1 DEF PersistSafeFailure, TypeOK
      <4> QED
        BY <2>1, <4>1 DEF Fail
    <3>2. CASE SafelyFailedRow(row[DocOf[c]], c) # row[DocOf[c]]
      <4>1. SafelyFailedRow(row[DocOf[c]], c) = FailedRow(row[DocOf[c]], c)
        BY <3>2 DEF SafelyFailedRow
      <4>2. c \in ProcessCalls => row[DocOf[c]].status = "processing"
        BY <3>2, ConstantsAssumption DEF SafelyFailedRow
      <4> QED
        BY <2>1, <4>1, <4>2 DEF Fail, PersistSafeFailure, Present
    <3> QED
      BY <3>1, <3>2
  <2> QED
    BY <2>1, <2>3
<1>10. ASSUME Take \/ Quiescent \/ UNCHANGED vars PROVE Goal
  BY <1>10 DEF Take, Quiescent, vars, NoWrite
<1>11. Goal
  BY <1>1, <1>2, <1>3, <1>4, <1>5, <1>6, <1>7, <1>8, <1>9, <1>10
     DEF Next, Handler, WorkerStep
<1> QED
  BY <1>11

-----------------------------------------------------------------------------

(* What a handler saved before its claim was never an active state.         *)
SavedInactive ==
    \A c \in Calls : prev[c].status # "processing" /\ prev[c].embedding_status # "indexing"

ExclusionInv == SavedInactive /\ NeverBothActive

LEMMA ExclusionInit == Init => ExclusionInv
  BY DEF Init, ExclusionInv, SavedInactive, NeverBothActive, NoRow, NewRow

LEMMA ExclusionStep == TypeOK /\ ExclusionInv /\ [Next]_vars => ExclusionInv'
<1>0. SUFFICES ASSUME TypeOK, ExclusionInv, [Next]_vars PROVE ExclusionInv'
  OBVIOUS
<1> USE DocOfType DEF TypeOK, Row, ExclusionInv, SavedInactive, NeverBothActive, NewRow
<1>1. CASE NoWrite
  BY <1>0, <1>1 DEF NoWrite
<1>2. ASSUME NEW d \in Docs, Upload(d) \/ Delete(d) PROVE ExclusionInv'
  <2>1. CASE Upload(d)
    BY <1>0, <2>1 DEF Upload, apiVars, rowVars
  <2>2. CASE Delete(d)
    BY <1>0, <2>2 DEF Delete, NoRow, apiVars
  <2> QED
    BY <1>2, <2>1, <2>2
<1>3. ASSUME NEW c \in Calls, ClaimProcess(c) PROVE ExclusionInv'
  BY <1>0, <1>3 DEF ClaimProcess, ClaimedForProcessing, Inactive
<1>4. ASSUME NEW c \in Calls, ClaimIndex(c) PROVE ExclusionInv'
  BY <1>0, <1>4 DEF ClaimIndex, MayIndex
<1>5. ASSUME NEW c \in Calls, Restore(c) PROVE ExclusionInv'
  BY <1>0, <1>5 DEF Restore, Answer, RestoredRow
<1>6. ASSUME NEW c \in Calls, DropSaved(c) PROVE ExclusionInv'
  BY <1>0, <1>6 DEF DropSaved
<1>7. ASSUME NEW c \in Calls, Publish(c) PROVE ExclusionInv'
  <2>1. CASE PublishChunks(c)
    BY <1>0, <1>7, <2>1 DEF Publish, PublishChunks
  <2>2. CASE PublishVectors(c)
    BY <1>0, <1>7, <2>2 DEF Publish, PublishVectors
  <2> QED
    BY <1>7, <2>1, <2>2 DEF Publish
<1>8. ASSUME NEW c \in Calls, Fail(c) PROVE ExclusionInv'
  <2>1. CASE UNCHANGED row
    BY <1>0, <1>8, <2>1 DEF Fail
  <2>2. CASE row' = [row EXCEPT ![DocOf[c]].status = "failed"]
    BY <1>0, <1>8, <2>2 DEF Fail, FailedRow
  <2>3. CASE row' = [row EXCEPT ![DocOf[c]].embedding_status = "failed"]
    BY <1>0, <1>8, <2>3 DEF Fail
  <2> QED
    BY <1>8, <2>1, <2>2, <2>3 DEF Fail, FailedRow
<1> QED
  BY <1>0, <1>1, <1>2, <1>3, <1>4, <1>5, <1>6, <1>7, <1>8, NextWrites

(* Processing and indexing of one document exclude each other in every       *)
(* state, whatever faults happen: claims and restores never combine the two. *)
THEOREM NeverProcessedWhileIndexed == Spec => []NeverBothActive
<1>1. Init => ExclusionInv
  BY ExclusionInit
<1>2. TypeOK /\ ExclusionInv /\ [Next]_vars => ExclusionInv'
  BY ExclusionStep
<1>3. ExclusionInv => NeverBothActive
  BY DEF ExclusionInv
<1> QED
  BY <1>1, <1>2, <1>3, TypesHold, PTL DEF Spec

-----------------------------------------------------------------------------

(* A handler saves the row of an existing document; one that saved processed *)
(* saved it of a document with chunks, and chunks go only with the document. *)
SavedProcessedHasChunks ==
    \A c \in Calls :
        /\ prev[c].status \notin {"absent", "deleted"}
        /\ prev[c].status = "processed" =>
             /\ row[DocOf[c]].status # "absent"
             /\ row[DocOf[c]].status = "deleted" \/ chunks[DocOf[c]] # None

ChunksInv == SavedProcessedHasChunks /\ ProcessedHasChunks

LEMMA ChunksInit == Init => ChunksInv
  BY DEF Init, ChunksInv, SavedProcessedHasChunks, ProcessedHasChunks, NoRow, NewRow

LEMMA ChunksStep ==
    TypeOK /\ HolderKeepsItsClaim /\ ChunksInv /\ [Next]_vars => ChunksInv'
<1>0. SUFFICES ASSUME TypeOK, HolderKeepsItsClaim, ChunksInv, [Next]_vars PROVE ChunksInv'
  OBVIOUS
<1> USE ConstantsAssumption, DocOfType
    DEF TypeOK, Row, ChunksInv, SavedProcessedHasChunks, ProcessedHasChunks, NewRow, Present
<1>1. CASE NoWrite
  BY <1>0, <1>1 DEF NoWrite
<1>2. ASSUME NEW d \in Docs, Upload(d) \/ Delete(d) PROVE ChunksInv'
  <2>1. CASE Upload(d)
    BY <1>0, <2>1 DEF Upload, apiVars, rowVars
  <2>2. CASE Delete(d)
    <3>1. row'[d].status = "deleted"
      BY <1>0, <2>2 DEF Delete, NoRow
    <3>2. \A e \in Docs : e # d => row'[e] = row[e] /\ chunks'[e] = chunks[e]
      BY <1>0, <2>2 DEF Delete
    <3>3. prev' = prev
      BY <2>2 DEF Delete, apiVars
    <3>4. SavedProcessedHasChunks'
      BY <1>0, <3>1, <3>2, <3>3
    <3>5. ASSUME NEW e \in Docs, row'[e].status = "processed" PROVE chunks'[e] # None
      BY <1>0, <3>1, <3>2, <3>5
    <3> QED
      BY <3>4, <3>5
  <2> QED
    BY <1>2, <2>1, <2>2
<1>3. ASSUME NEW c \in Calls, ClaimProcess(c) PROVE ChunksInv'
  BY <1>0, <1>3 DEF ClaimProcess, ClaimedForProcessing, rowVars
<1>4. ASSUME NEW c \in Calls, ClaimIndex(c) PROVE ChunksInv'
  BY <1>0, <1>4 DEF ClaimIndex, MayIndex, rowVars
<1>5. ASSUME NEW c \in Calls, Restore(c) PROVE ChunksInv'
  BY <1>0, <1>5 DEF Restore, Answer, RestoredRow, rowVars
<1>6. ASSUME NEW c \in Calls, DropSaved(c) PROVE ChunksInv'
  BY <1>0, <1>6 DEF DropSaved
<1>7. ASSUME NEW c \in Calls, Publish(c) PROVE ChunksInv'
  <2>1. ClaimIsActive(c)
    BY <1>0, <1>7 DEF HolderKeepsItsClaim, Publish
  <2>2. CASE PublishChunks(c)
    BY <1>0, <1>7, <2>1, <2>2 DEF Publish, PublishChunks, ClaimIsActive, Target
  <2>3. CASE PublishVectors(c)
    BY <1>0, <1>7, <2>3 DEF Publish, PublishVectors
  <2> QED
    BY <1>7, <2>2, <2>3 DEF Publish
<1>8. ASSUME NEW c \in Calls, Fail(c) PROVE ChunksInv'
  <2>1. CASE UNCHANGED row
    BY <1>0, <1>8, <2>1 DEF Fail
  <2>2. CASE c \in ProcessCalls /\ row' = [row EXCEPT ![DocOf[c]].status = "failed"]
    BY <1>0, <1>8, <2>2 DEF Fail
  <2>3. CASE row' = [row EXCEPT ![DocOf[c]].embedding_status = "failed"]
    BY <1>0, <1>8, <2>3 DEF Fail
  <2> QED
    BY <1>8, <2>1, <2>2, <2>3 DEF Fail, FailedRow
<1> QED
  BY <1>0, <1>1, <1>2, <1>3, <1>4, <1>5, <1>6, <1>7, <1>8, NextWrites

(* A processed document always has chunks to index, also after a restore.    *)
THEOREM ProcessedDocumentsHaveChunks == Spec => []ProcessedHasChunks
<1>1. Init => ChunksInv
  BY ChunksInit
<1>2. TypeOK /\ HolderKeepsItsClaim /\ ChunksInv /\ [Next]_vars => ChunksInv'
  BY ChunksStep
<1>3. ChunksInv => ProcessedHasChunks
  BY DEF ChunksInv
<1> QED
  BY <1>1, <1>2, <1>3, TypesHold, HolderIsSafe, PTL DEF Spec

-----------------------------------------------------------------------------

(* Up to the first restore on a document: a document that says indexed, or   *)
(* carries the time of an indexing, is not being processed and its vectors   *)
(* are those of its chunks.                                                  *)
CurrentInv ==
    \A d \in Docs : Undisturbed(d) /\ SaysIndexed(d) =>
        row[d].status # "processing" /\ HasCurrentVectors(d)

LEMMA CurrentInit == Init => CurrentInv
  BY DEF Init, CurrentInv, SaysIndexed, NoRow, NewRow

LEMMA CurrentStep ==
    TypeOK /\ HolderKeepsItsClaim /\ CurrentInv /\ [Next]_vars => CurrentInv'
<1>0. SUFFICES ASSUME TypeOK, HolderKeepsItsClaim, CurrentInv, [Next]_vars PROVE CurrentInv'
  OBVIOUS
<1>u. ASSUME NEW d \in Docs, Undisturbed(d)' PROVE Undisturbed(d)
  BY <1>0, <1>u, NextWrites DEF Undisturbed, StillUnavailable
<1>f. ASSUME NEW d \in Docs, row'[d] = row[d], chunks'[d] = chunks[d], vectors'[d] = vectors[d],
             Undisturbed(d)', SaysIndexed(d)'
      PROVE  (row[d].status # "processing" /\ HasCurrentVectors(d))'
  BY <1>0, <1>u, <1>f DEF CurrentInv, SaysIndexed, HasCurrentVectors
<1> SUFFICES ASSUME NEW e \in Docs, Undisturbed(e)', SaysIndexed(e)'
             PROVE  (row[e].status # "processing" /\ HasCurrentVectors(e))'
  BY DEF CurrentInv
<1> DEFINE Goal == (row[e].status # "processing" /\ HasCurrentVectors(e))'
<1>e. SaysIndexed(e) => row[e].status # "processing" /\ HasCurrentVectors(e)
  BY <1>0, <1>u DEF CurrentInv
<1> USE DocOfType DEF TypeOK, Row, SaysIndexed, HasCurrentVectors
<1>1. CASE NoWrite
  BY <1>f, <1>1 DEF NoWrite
<1>2. ASSUME NEW d \in Docs, Upload(d) \/ Delete(d) PROVE Goal
  <2>1. CASE e = d
    <3>1. row'[d].embedding_status = "pending" /\ ~row'[d].embedded_at
      <4>1. CASE Upload(d)
        BY <1>0, <4>1 DEF Upload, NewRow
      <4>2. CASE Delete(d)
        <5>1. row'[d] = NoRow("deleted")
          BY <1>0, <4>2 DEF Delete
        <5> QED
          BY <5>1 DEF NoRow, NewRow
      <4> QED
        BY <1>2, <4>1, <4>2
    <3> QED
      BY <2>1, <3>1
  <2>2. CASE e # d
    BY <1>0, <1>2, <1>f, <2>2 DEF Upload, Delete, rowVars
  <2> QED
    BY <2>1, <2>2
<1>3. ASSUME NEW c \in Calls, ClaimProcess(c) PROVE Goal
  <2>1. CASE e = DocOf[c]
    BY <1>0, <1>3, <2>1 DEF ClaimProcess, ClaimedForProcessing
  <2>2. CASE e # DocOf[c]
    BY <1>0, <1>3, <1>f, <2>2 DEF ClaimProcess, rowVars
  <2> QED
    BY <2>1, <2>2
<1>4. ASSUME NEW c \in Calls, ClaimIndex(c) PROVE Goal
  <2>1. CASE e = DocOf[c]
    BY <1>0, <1>4, <1>e, <2>1 DEF ClaimIndex, MayIndex, rowVars
  <2>2. CASE e # DocOf[c]
    BY <1>0, <1>4, <1>f, <2>2 DEF ClaimIndex, rowVars
  <2> QED
    BY <2>1, <2>2
<1>5. ASSUME NEW c \in Calls, Restore(c) PROVE Goal
  <2>1. e # DocOf[c]
    BY <1>0, <1>5 DEF Restore, Answer, Undisturbed
  <2> QED
    BY <1>0, <1>5, <1>f, <2>1 DEF Restore, rowVars
<1>6. ASSUME NEW c \in Calls, DropSaved(c) PROVE Goal
  BY <1>f, <1>6 DEF DropSaved
<1>7. ASSUME NEW c \in Calls, Publish(c) PROVE Goal
  <2>1. ClaimIsActive(c) /\ seen[c] = chunks[DocOf[c]]
    BY <1>0, <1>7 DEF HolderKeepsItsClaim, Publish
  <2>2. CASE e # DocOf[c]
    BY <1>0, <1>7, <1>f, <2>2 DEF Publish, PublishChunks, PublishVectors
  <2>3. CASE e = DocOf[c] /\ PublishChunks(c)
    BY <1>0, <1>e, <2>1, <2>3, ConstantsAssumption
       DEF PublishChunks, ClaimIsActive, Target
  <2>4. CASE e = DocOf[c] /\ PublishVectors(c)
    BY <1>0, <2>1, <2>4, ConstantsAssumption
       DEF PublishVectors, ClaimIsActive, Target
  <2> QED
    BY <1>7, <2>2, <2>3, <2>4 DEF Publish
<1>8. ASSUME NEW c \in Calls, Fail(c) PROVE Goal
  <2>1. chunks' = chunks /\ vectors' = vectors
    BY <1>8 DEF Fail
  <2>2. CASE row'[e] = row[e]
    BY <1>f, <2>1, <2>2
  <2>3. CASE row'[e] = [row[e] EXCEPT !.status = "failed"]
    BY <1>0, <1>e, <2>1, <2>3
  <2>4. CASE row'[e] = [row[e] EXCEPT !.embedding_status = "failed"]
    BY <1>0, <1>e, <2>1, <2>4
  <2> QED
    BY <1>0, <1>8, <2>2, <2>3, <2>4 DEF Fail, FailedRow
<1> QED
  BY <1>0, <1>1, <1>2, <1>3, <1>4, <1>5, <1>6, <1>7, <1>8, NextWrites

(* Only the restore after a failed enqueue can make a document say indexed   *)
(* while its vectors are missing or belong to other chunks.                  *)
THEOREM IndexedDocumentsAreCurrent == Spec => []IndexedUnlessRestored
<1>1. Init => CurrentInv
  BY CurrentInit
<1>2. TypeOK /\ HolderKeepsItsClaim /\ CurrentInv /\ [Next]_vars => CurrentInv'
  BY CurrentStep
<1>3. CurrentInv => IndexedUnlessRestored
  BY DEF CurrentInv, IndexedUnlessRestored
<1> QED
  BY <1>1, <1>2, <1>3, TypesHold, HolderIsSafe, PTL DEF Spec

-----------------------------------------------------------------------------

(* A stale or duplicate delivery never replaces chunks or embeddings: every  *)
(* such write, of every worker, happens under an active claim or with the    *)
(* document's deletion.                                                      *)
THEOREM DerivedDataIsGuarded == Spec => DerivedDataOnlyUnderClaim
<1> DEFINE Guarded ==
      \A d \in Docs :
        /\ chunks'[d] # chunks[d] =>
             row[d].status = "processing" \/ row'[d].status = "deleted"
        /\ vectors'[d] # vectors[d] =>
             \/ row[d].status = "processing" \/ row[d].embedding_status = "indexing"
             \/ row'[d].status = "deleted"
<1>1. ASSUME TypeOK, HolderKeepsItsClaim, [Next]_vars PROVE Guarded
  <2> USE DocOfType DEF TypeOK
  <2>1. CASE NoWrite
    BY <2>1 DEF NoWrite
  <2>2. ASSUME NEW d \in Docs, Upload(d) \/ Delete(d) PROVE Guarded
    BY <1>1, <2>2 DEF Upload, Delete, rowVars, NoRow, NewRow
  <2>3. ASSUME NEW c \in Calls,
               \/ ClaimProcess(c) \/ ClaimIndex(c) \/ Restore(c) \/ DropSaved(c) \/ Fail(c)
        PROVE  Guarded
    BY <2>3 DEF ClaimProcess, ClaimIndex, Restore, DropSaved, Fail, rowVars
  <2>4. ASSUME NEW c \in Calls, Publish(c) PROVE Guarded
    <3>1. ClaimIsActive(c)
      BY <1>1, <2>4 DEF HolderKeepsItsClaim, Publish
    <3> QED
      BY <1>1, <2>4, <3>1, ConstantsAssumption
         DEF Publish, PublishChunks, PublishVectors, ClaimIsActive, Target
  <2> QED
    BY <1>1, <2>1, <2>2, <2>3, <2>4, NextWrites
<1>2. TypeOK /\ HolderKeepsItsClaim /\ [Next]_vars => [Guarded]_vars
  BY <1>1
<1> QED
  BY <1>2, TypesHold, HolderIsSafe, PTL DEF Spec, DerivedDataOnlyUnderClaim
-----------------------------------------------------------------------------

(* The faults that take a handler or a job away without its cleanup.         *)
NothingIsLost == Faults \cap {"backendCrash", "callbackError", "jobLoss"} = {}

(* A row that is not there has no claim on it.                               *)
CarrierInv ==
    /\ ClaimHasCarrier
    /\ \A d \in Docs : ~Present(d) => row[d].embedding_status # "indexing"

(* The last step of a handler or a job: it cleans its claim up.              *)
CleansUp(h) ==
    Restore(h) \/ Complete(h) \/ ReportFailure(h) \/ FailureCallback(h) \/ TargetMissing(h)

LEMMA CarrierInit == Init => CarrierInv
  BY DEF Init, CarrierInv, ClaimHasCarrier, NoRow, NewRow

LEMMA CarriersStay ==
    ASSUME NothingIsLost, TypeOK, [Next]_vars, NEW h \in Calls, Carries(h)
    PROVE  Carries(h)' \/ CleansUp(h)
<1> DEFINE Goal == Carries(h)' \/ CleansUp(h)
<1> USE DEF TypeOK, Carries, CleansUp, Running, rowVars, apiVars, jobVars
<1>1. ASSUME NEW d \in Docs, Upload(d) \/ Delete(d) PROVE Goal
  BY <1>1 DEF Upload, Delete
<1>2. ASSUME NEW c \in Calls, ClaimProcess(c) \/ ClaimIndex(c) PROVE Goal
  BY <1>2 DEF ClaimProcess, ClaimIndex
<1>3. ASSUME NEW c \in Calls, EnqueueAccepted(c) PROVE Goal
  BY <1>3 DEF EnqueueAccepted, Answer, Push
<1>4. ASSUME NEW c \in Calls, EnqueueRefused(c) \/ EnqueueUnknown(c) PROVE Goal
  BY <1>4 DEF EnqueueRefused, EnqueueUnknown, Push
<1>5. ASSUME NEW c \in Calls, c # h, CleansUp(c) PROVE Goal
  <2>1. CASE Restore(c)
    BY <1>5, <2>1 DEF Restore, Answer
  <2>2. CASE ~Restore(c)
    BY <1>5, <2>2 DEF Complete, ReportFailure, FailureCallback, TargetMissing, Step
  <2> QED
    BY <2>1, <2>2
<1>6. ASSUME NEW c \in Calls,
             \/ Begin(c) \/ RejectStale(c) \/ FailBody(c) \/ CommitUnacknowledged(c)
             \/ RecordFailure(c)
      PROVE  Goal
  BY <1>6 DEF Begin, RejectStale, FailBody, CommitUnacknowledged, RecordFailure, Step
<1>7. ASSUME NEW c \in Calls, DbErrorEscapes(c) PROVE Goal
  BY <1>7 DEF DbErrorEscapes
<1>8. ASSUME NEW c \in Calls, RequeueScheduled(c) \/ Redeliver(c) PROVE Goal
  BY <1>8 DEF RequeueScheduled, Redeliver, Push
<1>9. ASSUME NEW c \in Calls, BackendCrash(c) \/ FailureCallbackFails(c) \/ LoseJob(c)
      PROVE  FALSE
  BY <1>9 DEF BackendCrash, FailureCallbackFails, LoseJob, NothingIsLost
<1>10. CASE Take
  BY <1>10 DEF Take, Step
<1>11. CASE Quiescent \/ UNCHANGED vars
  BY <1>11 DEF Quiescent, vars
<1> QED
  BY <1>1, <1>2, <1>3, <1>4, <1>5, <1>6, <1>7, <1>8, <1>9, <1>10, <1>11
     DEF Next, Handler, WorkerStep

LEMMA CleanUpEndsTheClaim ==
    ASSUME TypeOK, HolderKeepsItsClaim, ExclusionInv, CarrierInv, NEW h \in Calls, CleansUp(h)
    PROVE  /\ h \in ProcessCalls => row'[DocOf[h]].status # "processing"
           /\ h \in IndexCalls => row'[DocOf[h]].embedding_status # "indexing"
<1> DEFINE Goal == /\ h \in ProcessCalls => row'[DocOf[h]].status # "processing"
                   /\ h \in IndexCalls => row'[DocOf[h]].embedding_status # "indexing"
<1> USE ConstantsAssumption, DocOfType DEF TypeOK, Row, Calls
<1>1. CASE Restore(h)
  <2>1. CASE Present(DocOf[h])
    <3>1. row'[DocOf[h]] = RestoredRow(row[DocOf[h]], h)
      BY <1>1, <2>1 DEF Restore
    <3> QED
      BY <3>1 DEF RestoredRow, ExclusionInv, SavedInactive
  <2>2. CASE ~Present(DocOf[h])
    BY <1>1, <2>2 DEF Restore, CarrierInv, Present
  <2> QED
    BY <2>1, <2>2
<1>2. CASE Complete(h)
  <2>1. CASE PublishChunks(h)
    BY <2>1 DEF PublishChunks
  <2>2. CASE PublishVectors(h)
    BY <2>2 DEF PublishVectors
  <2> QED
    BY <1>2, <2>1, <2>2 DEF Complete
<1>3. CASE ReportFailure(h) \/ FailureCallback(h)
  <2>1. row'[DocOf[h]] = SafelyFailedRow(row[DocOf[h]], h)
    BY <1>3 DEF ReportFailure, FailureCallback, PersistSafeFailure
  <2> QED
    BY <2>1 DEF SafelyFailedRow, FailedRow
<1>4. CASE TargetMissing(h)
  BY <1>4 DEF TargetMissing, CarrierInv, Present
<1> QED
  BY <1>1, <1>2, <1>3, <1>4 DEF CleansUp

LEMMA OnlyClaimsActivate ==
    ASSUME TypeOK, ExclusionInv, [Next]_vars, NEW d \in Docs
    PROVE  /\ row'[d].status = "processing" /\ row[d].status # "processing" =>
                \E c \in ProcessCalls : DocOf[c] = d /\ ClaimProcess(c)
           /\ row'[d].embedding_status = "indexing" /\ row[d].embedding_status # "indexing" =>
                \E c \in IndexCalls : DocOf[c] = d /\ ClaimIndex(c)
<1> DEFINE Goal ==
       /\ row'[d].status = "processing" /\ row[d].status # "processing" =>
            \E c \in ProcessCalls : DocOf[c] = d /\ ClaimProcess(c)
       /\ row'[d].embedding_status = "indexing" /\ row[d].embedding_status # "indexing" =>
            \E c \in IndexCalls : DocOf[c] = d /\ ClaimIndex(c)
<1> USE DocOfType DEF TypeOK, Row
<1>1. CASE NoWrite
  BY <1>1 DEF NoWrite
<1>2. ASSUME NEW e \in Docs, Upload(e) \/ Delete(e) PROVE Goal
  <2>1. CASE Upload(e)
    BY <2>1 DEF Upload, NewRow
  <2>2. CASE Delete(e)
    <3>1. row' = [row EXCEPT ![e] = NoRow("deleted")]
      BY <2>2 DEF Delete
    <3>2. NoRow("deleted").status = "deleted" /\ NoRow("deleted").embedding_status = "pending"
      BY DEF NoRow, NewRow
    <3> QED
      BY <3>1, <3>2
  <2> QED
    BY <1>2, <2>1, <2>2
<1>3. ASSUME NEW c \in Calls, ClaimProcess(c) PROVE Goal
  BY <1>3 DEF ClaimProcess, ClaimedForProcessing
<1>4. ASSUME NEW c \in Calls, ClaimIndex(c) PROVE Goal
  <2>1. c \in IndexCalls /\ row' = [row EXCEPT ![DocOf[c]].embedding_status = "indexing"]
    BY <1>4 DEF ClaimIndex
  <2>2. row'[d].status = row[d].status
    BY <2>1
  <2>3. CASE d = DocOf[c]
    BY <1>4, <2>1, <2>2, <2>3
  <2>4. CASE d # DocOf[c]
    BY <2>1, <2>4
  <2> QED
    BY <2>3, <2>4
<1>5. ASSUME NEW c \in Calls, Restore(c) PROVE Goal
  BY <1>5 DEF Restore, RestoredRow, ExclusionInv, SavedInactive
<1>6. ASSUME NEW c \in Calls, DropSaved(c) PROVE Goal
  BY <1>6 DEF DropSaved
<1>7. ASSUME NEW c \in Calls, Publish(c) PROVE Goal
  <2>1. CASE PublishChunks(c)
    BY <2>1 DEF PublishChunks
  <2>2. CASE PublishVectors(c)
    BY <2>2 DEF PublishVectors
  <2> QED
    BY <1>7, <2>1, <2>2 DEF Publish
<1>8. ASSUME NEW c \in Calls, Fail(c) PROVE Goal
  <2>1. CASE UNCHANGED row
    BY <2>1
  <2>2. CASE row' = [row EXCEPT ![DocOf[c]].status = "failed"]
    BY <2>2
  <2>3. CASE row' = [row EXCEPT ![DocOf[c]].embedding_status = "failed"]
    BY <2>3
  <2> QED
    BY <1>8, <2>1, <2>2, <2>3 DEF Fail, FailedRow
<1> QED
  BY <1>1, <1>2, <1>3, <1>4, <1>5, <1>6, <1>7, <1>8, NextWrites

LEMMA GoneStaysUnclaimed ==
    ASSUME TypeOK, HolderKeepsItsClaim, ChunksInv, ExclusionInv, CarrierInv, [Next]_vars,
           NEW d \in Docs, ~Present(d)'
    PROVE  row'[d].embedding_status # "indexing"
<1>1. CASE row[d].embedding_status # "indexing"
  <2>1. CASE row'[d].embedding_status = "indexing"
    <3>1. PICK c \in IndexCalls : DocOf[c] = d /\ ClaimIndex(c)
      BY <1>1, <2>1, OnlyClaimsActivate
    <3> QED
      BY <3>1, DocOfType DEF ClaimIndex, MayIndex, Present, TypeOK, Row, Calls
  <2> QED
    BY <2>1
<1>2. CASE Present(d)
  <2> DEFINE Goal == ~Present(d)' => row'[d].embedding_status # "indexing"
  <2> USE DocOfType DEF TypeOK, Row, Present
  <2>1. CASE NoWrite
    BY <1>2, <2>1 DEF NoWrite
  <2>2. ASSUME NEW e \in Docs, Upload(e) \/ Delete(e) PROVE Goal
    <3>1. CASE Upload(e)
      BY <1>2, <3>1 DEF Upload, NewRow
    <3>2. CASE Delete(e)
      <4>1. row' = [row EXCEPT ![e] = NoRow("deleted")]
        BY <3>2 DEF Delete
      <4>2. NoRow("deleted").embedding_status = "pending"
        BY DEF NoRow, NewRow
      <4> QED
        BY <1>2, <4>1, <4>2
    <3> QED
      BY <2>2, <3>1, <3>2
  <2>3. ASSUME NEW c \in Calls, ClaimProcess(c) \/ ClaimIndex(c) \/ DropSaved(c) PROVE Goal
    <3>1. CASE ClaimProcess(c)
      BY <1>2, <3>1 DEF ClaimProcess, ClaimedForProcessing
    <3>2. CASE ClaimIndex(c)
      <4>1. row'[d].status = row[d].status
        BY <3>2 DEF ClaimIndex
      <4> QED
        BY <1>2, <4>1
    <3>3. CASE DropSaved(c)
      BY <1>2, <3>3 DEF DropSaved
    <3> QED
      BY <2>3, <3>1, <3>2, <3>3
  <2>4. ASSUME NEW c \in Calls, Restore(c) PROVE Goal
    BY <1>2, <2>4 DEF Restore, RestoredRow, ChunksInv, SavedProcessedHasChunks
  <2>5. ASSUME NEW c \in Calls, Publish(c) PROVE Goal
    <3>1. CASE PublishChunks(c)
      BY <1>2, <3>1 DEF PublishChunks
    <3>2. CASE PublishVectors(c)
      <4>1. row'[d].status = row[d].status
        BY <3>2 DEF PublishVectors
      <4> QED
        BY <1>2, <4>1
    <3> QED
      BY <2>5, <3>1, <3>2 DEF Publish
  <2>6. ASSUME NEW c \in Calls, Fail(c) PROVE Goal
    <3>1. CASE UNCHANGED row
      BY <1>2, <3>1
    <3>2. CASE row' = [row EXCEPT ![DocOf[c]].status = "failed"]
      <4>1. row'[d].status \in {"failed", row[d].status}
        BY <3>2
      <4> QED
        BY <1>2, <4>1
    <3>3. CASE row' = [row EXCEPT ![DocOf[c]].embedding_status = "failed"]
      <4>1. row'[d].status = row[d].status
        BY <3>3
      <4> QED
        BY <1>2, <4>1
    <3> QED
      BY <2>6, <3>1, <3>2, <3>3 DEF Fail, FailedRow
  <2> QED
    BY <2>1, <2>2, <2>3, <2>4, <2>5, <2>6, NextWrites
<1> QED
  BY <1>1, <1>2 DEF CarrierInv

(* While no crash takes a handler or a job away, an active claim always has  *)
(* a handler or a job that is going to end it: failed and stale enqueues,    *)
(* duplicate deliveries, database errors and retries leave no row stuck.     *)
THEOREM ClaimsAreCarried == NothingIsLost => (Spec => []ClaimHasCarrier)
<1> SUFFICES ASSUME NothingIsLost PROVE Spec => []ClaimHasCarrier
  OBVIOUS
<1>1. Init => CarrierInv /\ ExclusionInv /\ ChunksInv
  BY CarrierInit, ExclusionInit, ChunksInit
<1>2. ASSUME TypeOK, HolderKeepsItsClaim, ExclusionInv, ChunksInv, CarrierInv, [Next]_vars
      PROVE  CarrierInv'
  <2>1. ASSUME NEW d \in Docs, row'[d].status = "processing"
        PROVE  \E c \in ProcessCalls : DocOf[c] = d /\ Carries(c)'
    <3>1. CASE row[d].status = "processing"
      <4>1. PICK h \in ProcessCalls : DocOf[h] = d /\ Carries(h)
        BY <1>2, <3>1 DEF CarrierInv, ClaimHasCarrier
      <4>2. ~CleansUp(h)
        BY <1>2, <2>1, <4>1, CleanUpEndsTheClaim DEF Calls
      <4> QED
        BY <1>2, <4>1, <4>2, CarriersStay DEF Calls
    <3>2. CASE row[d].status # "processing"
      BY <1>2, <2>1, <3>2, OnlyClaimsActivate DEF ClaimProcess, Carries, TypeOK, Calls
    <3> QED
      BY <3>1, <3>2
  <2>2. ASSUME NEW d \in Docs, row'[d].embedding_status = "indexing"
        PROVE  \E c \in IndexCalls : DocOf[c] = d /\ Carries(c)'
    <3>1. CASE row[d].embedding_status = "indexing"
      <4>1. PICK h \in IndexCalls : DocOf[h] = d /\ Carries(h)
        BY <1>2, <3>1 DEF CarrierInv, ClaimHasCarrier
      <4>2. ~CleansUp(h)
        BY <1>2, <2>2, <4>1, CleanUpEndsTheClaim DEF Calls
      <4> QED
        BY <1>2, <4>1, <4>2, CarriersStay DEF Calls
    <3>2. CASE row[d].embedding_status # "indexing"
      <4>1. PICK c \in IndexCalls : DocOf[c] = d /\ ClaimIndex(c)
        BY <1>2, <2>2, <3>2, OnlyClaimsActivate
      <4>2. api'[c] = "claimed"
        BY <1>2, <4>1 DEF ClaimIndex, TypeOK, Calls
      <4> QED
        BY <4>1, <4>2 DEF Carries
    <3> QED
      BY <3>1, <3>2
  <2>3. \A d \in Docs : ~Present(d)' => row'[d].embedding_status # "indexing"
    BY <1>2, GoneStaysUnclaimed
  <2> QED
    BY <2>1, <2>2, <2>3 DEF CarrierInv, ClaimHasCarrier, Present
<1>3. CarrierInv => ClaimHasCarrier
  BY DEF CarrierInv
<1> QED
  BY <1>1, <1>2, <1>3, ExclusionStep, ChunksStep, TypesHold, HolderIsSafe, PTL DEF Spec

-----------------------------------------------------------------------------
(* The refinement.                                                         *)

Shown == [d \in Docs |-> Candidates(d)]

(* Embeddings hang on chunk rows: they are those of the current chunks, or   *)
(* there are none.                                                           *)
VectorsInv == \A d \in Docs : vectors[d] \in {None, chunks[d]}

LEMMA VectorsInit == Init => VectorsInv
  BY DEF Init, VectorsInv

LEMMA VectorsStep == TypeOK /\ VectorsInv /\ [Next]_vars => VectorsInv'
<1>0. SUFFICES ASSUME TypeOK, VectorsInv, [Next]_vars PROVE VectorsInv'
  OBVIOUS
<1> USE DocOfType DEF TypeOK, VectorsInv
<1>1. CASE NoWrite
  BY <1>0, <1>1 DEF NoWrite
<1>2. ASSUME NEW d \in Docs, Upload(d) \/ Delete(d) PROVE VectorsInv'
  BY <1>0, <1>2 DEF Upload, Delete, rowVars
<1>3. ASSUME NEW c \in Calls,
             ClaimProcess(c) \/ ClaimIndex(c) \/ Restore(c) \/ DropSaved(c) \/ Fail(c)
      PROVE  VectorsInv'
  BY <1>0, <1>3 DEF ClaimProcess, ClaimIndex, Restore, DropSaved, Fail, rowVars
<1>4. ASSUME NEW c \in Calls, Publish(c) PROVE VectorsInv'
  BY <1>0, <1>4 DEF Publish, PublishChunks, PublishVectors
<1> QED
  BY <1>0, <1>1, <1>2, <1>3, <1>4, NextWrites

LEMMA LibraryInit == Init => Library!Init
<1> SUFFICES ASSUME Init PROVE Library!Init
  OBVIOUS
<1>1. \A d \in Docs : Candidates(d) = None
  BY DEF Init, Candidates
<1> QED
  BY <1>1 DEF Init, Library!Init

(* Whoever rewrites only the row of a document hides the document or shows   *)
(* it: the embeddings that a status makes visible are the current ones.      *)
LEMMA RowWriteShowsOrHides ==
    ASSUME VectorsInv, NEW d \in Docs,
           UNCHANGED <<chunks, vectors>>,
           \A e \in Docs \ {d} : row'[e] = row[e]
    PROVE  Library!Show(d) \/ Library!Hide(d)
<1>1. \A e \in Docs \ {d} : Shown'[e] = Shown[e]
  BY DEF Shown, Candidates
<1>2. CASE Shown'[d] = None
  <2>1. Shown' = [Shown EXCEPT ![d] = None]
    BY <1>1, <1>2 DEF Shown
  <2> QED
    BY <2>1 DEF Library!Hide, Shown
<1>3. CASE Shown'[d] # None
  <2>1. Shown'[d] = chunks[d] /\ chunks[d] # None
    BY <1>3 DEF Shown, Candidates, VectorsInv
  <2>2. Shown' = [Shown EXCEPT ![d] = chunks[d]]
    BY <1>1, <2>1 DEF Shown
  <2> QED
    BY <2>1, <2>2 DEF Library!Show, Shown
<1> QED
  BY <1>2, <1>3

(* A job that replaces chunks does so while its claim hides the document.    *)
LEMMA PublishedChunksAreHidden ==
    ASSUME TypeOK, NEW c \in Calls, ClaimIsActive(c), PublishChunks(c)
    PROVE  Library!Replace(DocOf[c])
<1> DEFINE d == DocOf[c]
<1>0. d \in Docs
  BY DocOfType
<1>1. Shown[d] = None
  BY <1>0, ConstantsAssumption DEF ClaimIsActive, Target, PublishChunks, Shown, Candidates
<1>2. row'[d].embedding_status = "pending"
  BY <1>0 DEF TypeOK, Row, PublishChunks
<1>3. Shown'[d] = None
  BY <1>0, <1>2 DEF Shown, Candidates
<1>4. \A e \in Docs \ {d} : Shown'[e] = Shown[e]
  BY DEF PublishChunks, TypeOK, Shown, Candidates
<1>5. Shown' = Shown
  BY <1>1, <1>3, <1>4 DEF Shown
<1> QED
  BY <1>1, <1>5 DEF Library!Replace, Shown, PublishChunks

(* A job that publishes embeddings publishes those of the current chunks.    *)
LEMMA PublishedVectorsAreShown ==
    ASSUME TypeOK, NEW c \in Calls, ClaimIsActive(c), PublishVectors(c)
    PROVE  Library!Show(DocOf[c])
<1> DEFINE d == DocOf[c]
<1>0. d \in Docs
  BY DocOfType
<1>1. chunks[d] # None /\ row[d].status = "processed"
  BY ConstantsAssumption DEF ClaimIsActive, Target, PublishVectors
<1>2. row'[d].status = "processed" /\ row'[d].embedding_status = "indexed"
  BY <1>0, <1>1 DEF TypeOK, Row, PublishVectors
<1>3. Shown'[d] = chunks[d]
  BY <1>0, <1>2 DEF Shown, Candidates, PublishVectors, TypeOK
<1>4. \A e \in Docs \ {d} : Shown'[e] = Shown[e]
  BY DEF PublishVectors, TypeOK, Shown, Candidates
<1>5. Shown' = [Shown EXCEPT ![d] = chunks[d]]
  BY <1>3, <1>4 DEF Shown
<1> QED
  BY <1>1, <1>5 DEF Library!Show, Shown, PublishVectors

LEMMA DeletionRemoves ==
    ASSUME TypeOK, NEW d \in Docs, Delete(d)
    PROVE  Library!Remove(d)
<1>1. Shown'[d] = None
  BY DEF Delete, TypeOK, Shown, Candidates
<1>2. \A e \in Docs \ {d} : Shown'[e] = Shown[e]
  BY DEF Delete, TypeOK, Shown, Candidates
<1>3. Shown' = [Shown EXCEPT ![d] = None]
  BY <1>1, <1>2 DEF Shown
<1> QED
  BY <1>3 DEF Library!Remove, Shown, Delete

LEMMA LibraryStep ==
    TypeOK /\ HolderKeepsItsClaim /\ VectorsInv /\ [Next]_vars
        => [Library!Next]_(Library!library)
<1>0. SUFFICES ASSUME TypeOK, HolderKeepsItsClaim, VectorsInv, [Next]_vars
               PROVE  Library!Next \/ (chunks' = chunks /\ Shown' = Shown)
  BY DEF Library!library, Shown
<1> DEFINE Goal == Library!Next \/ (chunks' = chunks /\ Shown' = Shown)
<1>r. ASSUME NEW d \in Docs, UNCHANGED <<chunks, vectors>>,
             \A e \in Docs \ {d} : row'[e] = row[e]
      PROVE  Goal
  BY <1>0, <1>r, RowWriteShowsOrHides DEF Library!Next
<1>1. CASE NoWrite
  BY <1>1 DEF NoWrite, Shown, Candidates
<1>2. ASSUME NEW d \in Docs, Upload(d) PROVE Goal
  BY <1>0, <1>2, <1>r DEF Upload, rowVars, TypeOK
<1>3. ASSUME NEW d \in Docs, Delete(d) PROVE Goal
  BY <1>0, <1>3, DeletionRemoves DEF Library!Next
<1>4. ASSUME NEW c \in Calls,
             ClaimProcess(c) \/ ClaimIndex(c) \/ Restore(c) \/ DropSaved(c) \/ Fail(c)
      PROVE  Goal
  <2>1. UNCHANGED <<chunks, vectors>>
    BY <1>4 DEF ClaimProcess, ClaimIndex, Restore, DropSaved, Fail, rowVars
  <2>2. \A e \in Docs \ {DocOf[c]} : row'[e] = row[e]
    BY <1>0, <1>4 DEF TypeOK, ClaimProcess, ClaimIndex, Restore, DropSaved, Fail
  <2> QED
    BY <1>r, <2>1, <2>2, DocOfType
<1>5. ASSUME NEW c \in Calls, Publish(c) PROVE Goal
  <2>1. ClaimIsActive(c)
    BY <1>0, <1>5 DEF HolderKeepsItsClaim, Publish
  <2>2. CASE PublishChunks(c)
    BY <1>0, <2>1, <2>2, PublishedChunksAreHidden, DocOfType DEF Library!Next
  <2>3. CASE PublishVectors(c)
    BY <1>0, <2>1, <2>3, PublishedVectorsAreShown, DocOfType DEF Library!Next
  <2> QED
    BY <1>5, <2>2, <2>3 DEF Publish
<1> QED
  BY <1>0, <1>1, <1>2, <1>3, <1>4, <1>5, NextWrites

(* The pipeline implements the library: with any number of calls, workers,   *)
(* retries and faults, what a search compares belongs to the current chunks  *)
(* and no chunk is replaced under a search that can see it.                  *)
THEOREM PipelineImplementsLibrary == Spec => LibraryIsSearchable
<1>1. Init => Library!Init
  BY LibraryInit
<1>2. Init => VectorsInv
  BY VectorsInit
<1>3. TypeOK /\ VectorsInv /\ [Next]_vars => VectorsInv'
  BY VectorsStep
<1>4. TypeOK /\ HolderKeepsItsClaim /\ VectorsInv /\ [Next]_vars
        => [Library!Next]_(Library!library)
  BY LibraryStep
<1> QED
  BY <1>1, <1>2, <1>3, <1>4, TypesHold, HolderIsSafe, PTL
     DEF Spec, LibraryIsSearchable, Library!Spec
=============================================================================
