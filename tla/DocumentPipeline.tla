-------------------------- MODULE DocumentPipeline --------------------------
(***************************************************************************)
(* The asynchronous document pipeline: the HTTP handlers that claim a      *)
(* document row and enqueue an RQ job, the RQ queue, and the workers that  *)
(* process (extract and chunk) or index (embed) the document.  PostgreSQL, *)
(* Redis and RQ are not under src/; what the code uses of them -- a row    *)
(* lock, a commit, a rollback, a FIFO queue with bounded delayed retries   *)
(* and a failure callback -- is modelled as the code relies on it.         *)
(*                                                                         *)
(* A call is one accepted-or-failed POST /documents/{id}/process or        *)
(* /index; it creates at most one RQ job, so the job has the call's name.  *)
(* A call answered 404 or 409 changes nothing and is a stuttering step.    *)
(*                                                                         *)
(* Unlocked, MayIndex and a few others are preceded by a variant that no   *)
(* action uses: the same code with a defect, kept to show that the         *)
(* properties below tell the two apart (see README.md).                    *)
(***************************************************************************)
EXTENDS Integers, Sequences, FiniteSets

CONSTANTS
    Docs,           \* document identities; a UUID is never used twice
    ProcessCalls,   \* POST /documents/{id}/process calls
    IndexCalls,     \* POST /documents/{id}/index calls
    DocOf,          \* the document each call names
    MaxRetries,     \* Retry(max=...)
    WorkerCount,    \* RQ workers on the document queue
    WithScheduler,  \* whether something moves delayed retries back to the queue
    Faults,         \* the faults that may happen, a subset of FaultKinds
    None            \* no call

Calls == ProcessCalls \cup IndexCalls

FaultKinds ==
    { "unknownEnqueue",  \* enqueue raises although Redis took the job
      "backendCrash",    \* the API dies, or its restore transaction fails
      "dbError",         \* an OperationalError reaches the worker
      "callbackError",   \* the failure callback's own transaction fails
      "redelivery",      \* a job runs again after its worker died
      "jobLoss" }        \* an accepted job is lost with its worker

ASSUME ConstantsAssumption ==
    /\ ProcessCalls \cap IndexCalls = {}
    /\ DocOf \in [Calls -> Docs]
    /\ None \notin Calls
    /\ MaxRetries \in Nat
    /\ WorkerCount \in Nat \ {0}
    /\ WithScheduler \in BOOLEAN
    /\ Faults \subseteq FaultKinds

VARIABLES
    row,      \* the documents table: status, embedding_status, embedded_at set or not
    chunks,   \* the call whose job wrote the document's current chunk set
    vectors,  \* the chunk set the stored embeddings belong to
    lock,     \* the job whose open transaction holds the row lock
    api,      \* how far the HTTP handler of a call has come
    prev,     \* the handler's `previous` values
    queue,    \* the RQ list
    run,      \* how far the RQ job of a call has come
    left,     \* its retries_left
    seen      \* the chunk set an indexing job has read

rowVars == <<chunks, vectors>>
apiVars == <<api, prev>>
jobVars == <<queue, run, left, seen>>
vars == <<row, chunks, vectors, lock, api, prev, queue, run, left, seen>>

-----------------------------------------------------------------------------

Statuses == {"absent", "uploaded", "processing", "processed", "failed", "deleted"}
EmbeddingStatuses == {"pending", "indexing", "indexed", "failed"}

Row == [status : Statuses, embedding_status : EmbeddingStatuses, embedded_at : BOOLEAN]

NewRow == [status |-> "uploaded", embedding_status |-> "pending", embedded_at |-> FALSE]
NoRow(why) == [NewRow EXCEPT !.status = why]

\* Where a worker is with a job: delivered to it, inside the row-locked
\* transaction, between the rollback and the failed-status UPDATE, before
\* _persist_safe_failure, or before RQ's failure callback.
Running == {"delivered", "holding", "failing", "reporting", "exhausted"}
RunStates == Running \cup {"none", "queued", "scheduled", "finished"}
ApiStates == {"idle", "claimed", "restoring", "accepted", "unavailable"}

TypeOK ==
    /\ row \in [Docs -> Row]
    /\ chunks \in [Docs -> Calls \cup {None}]
    /\ vectors \in [Docs -> Calls \cup {None}]
    /\ lock \in [Docs -> Calls \cup {None}]
    /\ api \in [Calls -> ApiStates]
    /\ prev \in [Calls -> Row]
    /\ queue \in Seq(Calls)
    /\ run \in [Calls -> RunStates]
    /\ left \in [Calls -> 0 .. MaxRetries]
    /\ seen \in [Calls -> Calls \cup {None}]

Present(d) == row[d].status \notin {"absent", "deleted"}
Target(c) == row[DocOf[c]]

\* SELECT ... FOR UPDATE returns: no other open transaction holds the row.
UnlockedIgnoringOthers(d) == d \in Docs
Unlocked(d) == lock[d] = None

Init ==
    /\ row = [d \in Docs |-> NoRow("absent")]
    /\ chunks = [d \in Docs |-> None]
    /\ vectors = [d \in Docs |-> None]
    /\ lock = [d \in Docs |-> None]
    /\ api = [c \in Calls |-> "idle"]
    /\ prev = [c \in Calls |-> NewRow]
    /\ queue = <<>>
    /\ run = [c \in Calls |-> "none"]
    /\ left = [c \in Calls |-> 0]
    /\ seen = [c \in Calls |-> None]

-----------------------------------------------------------------------------
(* POST /documents and DELETE /documents/{id}, as far as the row goes.     *)

Upload(d) ==
    /\ row[d].status = "absent"
    /\ row' = [row EXCEPT ![d] = NewRow]
    /\ UNCHANGED <<rowVars, lock, apiVars, jobVars>>

Inactive(d) ==
    /\ row[d].status # "processing"
    /\ row[d].embedding_status # "indexing"

\* The chunk and embedding rows go with the document (ON DELETE CASCADE).
Delete(d) ==
    /\ Unlocked(d)
    /\ Present(d)
    /\ Inactive(d)
    /\ row' = [row EXCEPT ![d] = NoRow("deleted")]
    /\ chunks' = [chunks EXCEPT ![d] = None]
    /\ vectors' = [vectors EXCEPT ![d] = None]
    /\ UNCHANGED <<lock, apiVars, jobVars>>

-----------------------------------------------------------------------------
(* The HTTP handlers.  The claim is one short transaction under the row    *)
(* lock; the enqueue and the restore after a failed enqueue follow it.     *)

ClaimedForProcessingKeepingTimestamp(r) ==
    [r EXCEPT !.status = "processing", !.embedding_status = "pending"]
ClaimedForProcessing(r) ==
    [status |-> "processing", embedding_status |-> "pending", embedded_at |-> FALSE]

MayIndexUnprocessed(r) == r.embedding_status # "indexing"
MayIndex(r) == r.status = "processed" /\ r.embedding_status # "indexing"

ClaimProcess(c) ==
    LET d == DocOf[c] IN
    /\ c \in ProcessCalls
    /\ api[c] = "idle"
    /\ Unlocked(d)
    /\ Present(d)
    /\ Inactive(d)
    /\ prev' = [prev EXCEPT ![c] = row[d]]
    /\ row' = [row EXCEPT ![d] = ClaimedForProcessing(row[d])]
    /\ api' = [api EXCEPT ![c] = "claimed"]
    /\ UNCHANGED <<rowVars, lock, jobVars>>

ClaimIndex(c) ==
    LET d == DocOf[c] IN
    /\ c \in IndexCalls
    /\ api[c] = "idle"
    /\ Unlocked(d)
    /\ MayIndex(row[d])
    /\ prev' = [prev EXCEPT ![c] = row[d]]
    /\ row' = [row EXCEPT ![d].embedding_status = "indexing"]
    /\ api' = [api EXCEPT ![c] = "claimed"]
    /\ UNCHANGED <<rowVars, lock, jobVars>>

Push(c) ==
    /\ queue' = Append(queue, c)
    /\ run' = [run EXCEPT ![c] = "queued"]

\* The handler is done and its local `previous` is gone.
Answer(c, from, to) ==
    /\ api[c] \in from
    /\ api' = [api EXCEPT ![c] = to]
    /\ prev' = [prev EXCEPT ![c] = NewRow]

EnqueueAccepted(c) ==
    /\ Answer(c, {"claimed"}, "accepted")
    /\ Push(c)
    /\ left' = [left EXCEPT ![c] = MaxRetries]
    /\ UNCHANGED <<row, rowVars, lock, seen>>

\* queue.enqueue raised and Redis did not take the job.
EnqueueRefused(c) ==
    /\ api[c] = "claimed"
    /\ api' = [api EXCEPT ![c] = "restoring"]
    /\ UNCHANGED <<row, rowVars, lock, prev, jobVars>>

\* queue.enqueue raised (a socket timeout) after Redis had taken the job.
EnqueueUnknown(c) ==
    /\ "unknownEnqueue" \in Faults
    /\ api[c] = "claimed"
    /\ api' = [api EXCEPT ![c] = "restoring"]
    /\ Push(c)
    /\ left' = [left EXCEPT ![c] = MaxRetries]
    /\ UNCHANGED <<row, rowVars, lock, prev, seen>>

\* The session still holds the claimed object: nothing expired it, and the
\* second SELECT ... FOR UPDATE does not populate existing attributes.  The
\* flush therefore writes only the columns whose saved value differs from the
\* claimed one, whatever the table holds by then.
RestoredAsProcessed(r, c) ==
    IF c \in Calls THEN [r EXCEPT !.status = "processed"] ELSE r
RestoredRow(r, c) ==
    IF c \in ProcessCalls
    THEN [ status |-> prev[c].status,
           embedding_status |-> IF prev[c].embedding_status = "pending"
                                THEN r.embedding_status ELSE prev[c].embedding_status,
           embedded_at |-> prev[c].embedded_at \/ r.embedded_at ]
    ELSE [ r EXCEPT !.embedding_status = prev[c].embedding_status ]

Restore(c) ==
    LET d == DocOf[c] IN
    /\ Answer(c, {"restoring"}, "unavailable")
    /\ Unlocked(d)
    /\ row' = IF Present(d) THEN [row EXCEPT ![d] = RestoredRow(row[d], c)] ELSE row
    /\ UNCHANGED <<rowVars, lock, jobVars>>

BackendCrash(c) ==
    /\ "backendCrash" \in Faults
    /\ Answer(c, {"claimed", "restoring"}, "unavailable")
    /\ UNCHANGED <<row, rowVars, lock, jobVars>>

-----------------------------------------------------------------------------
(* The worker.  With already_claimed=True it commits nothing before its    *)
(* result, so the row lock taken for the check is held until then.         *)

Step(c, from, to) ==
    /\ run[c] = from
    /\ run' = [run EXCEPT ![c] = to]

\* Commit or rollback ends the transaction; what the job had read goes with it.
Release(c) ==
    /\ lock' = [lock EXCEPT ![DocOf[c]] = None]
    /\ seen' = [seen EXCEPT ![c] = None]

Take ==
    /\ queue # <<>>
    /\ Cardinality({c \in Calls : run[c] \in Running}) < WorkerCount
    /\ Step(Head(queue), "queued", "delivered")
    /\ queue' = Tail(queue)
    /\ UNCHANGED <<row, rowVars, lock, apiVars, left, seen>>

AnyClaimIsActive(c) == Present(DocOf[c])
ClaimIsActive(c) ==
    \/ /\ c \in ProcessCalls
       /\ Target(c).status = "processing"
       /\ Target(c).embedding_status # "indexing"
    \/ /\ c \in IndexCalls
       /\ Target(c).status = "processed"
       /\ Target(c).embedding_status = "indexing"
       /\ chunks[DocOf[c]] # None

TargetMissing(c) ==
    /\ ~Present(DocOf[c])
    /\ Step(c, "delivered", "finished")
    /\ UNCHANGED <<row, rowVars, lock, apiVars, queue, left, seen>>

Begin(c) ==
    /\ Unlocked(DocOf[c])
    /\ Present(DocOf[c])
    /\ ClaimIsActive(c)
    /\ Step(c, "delivered", "holding")
    /\ lock' = [lock EXCEPT ![DocOf[c]] = c]
    /\ seen' = [seen EXCEPT ![c] = chunks[DocOf[c]]]
    /\ UNCHANGED <<row, rowVars, apiVars, queue, left>>

\* The 409 of the services' own checks is not retried: _run_job reports it.
RejectStale(c) ==
    /\ Unlocked(DocOf[c])
    /\ Present(DocOf[c])
    /\ ~ClaimIsActive(c)
    /\ Step(c, "delivered", "reporting")
    /\ UNCHANGED <<row, rowVars, lock, apiVars, queue, left, seen>>

\* The transaction that replaces all chunks; old embeddings cascade away.
PublishChunks(c) ==
    LET d == DocOf[c] IN
    /\ c \in ProcessCalls
    /\ chunks' = [chunks EXCEPT ![d] = c]
    /\ vectors' = [vectors EXCEPT ![d] = None]
    /\ row' = [row EXCEPT ![d].status = "processed", ![d].embedding_status = "pending"]

\* The transaction that replaces all embeddings.  chunk_id is a foreign key:
\* it cannot commit for chunks that are gone.
PublishVectors(c) ==
    LET d == DocOf[c] IN
    /\ c \in IndexCalls
    /\ chunks[d] = seen[c]
    /\ vectors' = [vectors EXCEPT ![d] = seen[c]]
    /\ row' = [row EXCEPT ![d].embedding_status = "indexed", ![d].embedded_at = TRUE]
    /\ UNCHANGED chunks

Complete(c) ==
    /\ PublishChunks(c) \/ PublishVectors(c)
    /\ Step(c, "holding", "finished")
    /\ Release(c)
    /\ UNCHANGED <<apiVars, queue, left>>

\* The commit succeeds and its acknowledgement is lost: the same except block
\* runs as for a body that failed.
CommitUnacknowledged(c) ==
    /\ "dbError" \in Faults
    /\ PublishChunks(c) \/ PublishVectors(c)
    /\ Step(c, "holding", "failing")
    /\ Release(c)
    /\ UNCHANGED <<apiVars, queue, left>>

\* Extraction, chunking, embedding or the job timeout fails, or a statement of
\* the body raises an OperationalError, which the same except block catches and
\* replaces by the service's own error: rollback, and no retry.
FailBody(c) ==
    /\ Step(c, "holding", "failing")
    /\ Release(c)
    /\ UNCHANGED <<row, rowVars, apiVars, queue, left>>

FailedRow(r, c) ==
    IF c \in ProcessCalls THEN [r EXCEPT !.status = "failed"]
    ELSE [r EXCEPT !.embedding_status = "failed"]

\* A second transaction: an UPDATE with no condition on the status.
RecordFailure(c) ==
    LET d == DocOf[c] IN
    /\ Unlocked(d)
    /\ Step(c, "failing", "reporting")
    /\ row' = IF Present(d) THEN [row EXCEPT ![d] = FailedRow(row[d], c)] ELSE row
    /\ UNCHANGED <<rowVars, lock, apiVars, queue, left, seen>>

\* _persist_safe_failure: fails the row only while the claim's state is there.
SafelyFailedRow(r, c) ==
    IF \/ c \in ProcessCalls /\ r.status = "processing"
       \/ c \in IndexCalls /\ r.embedding_status = "indexing"
    THEN FailedRow(r, c) ELSE r

ReportNothing(c) == c \in Calls /\ UNCHANGED row
PersistSafeFailure(c) ==
    /\ Unlocked(DocOf[c])
    /\ row' = [row EXCEPT ![DocOf[c]] = SafelyFailedRow(row[DocOf[c]], c)]

ReportFailure(c) ==
    /\ Step(c, "reporting", "finished")
    /\ PersistSafeFailure(c)
    /\ UNCHANGED <<rowVars, lock, apiVars, queue, left, seen>>

-----------------------------------------------------------------------------
(* RQ retries, the failure callback and the faults of a worker.            *)

RetriesRemainOffByOne(c) == left[c] >= 0
RetriesRemain(c) == left[c] > 0

\* RetryableDocumentJobError leaves the job function: an OperationalError
\* before the services' try blocks or in a failure report.
DbErrorEscapes(c) ==
    /\ "dbError" \in Faults
    /\ run[c] \in {"delivered", "failing", "reporting"}
    /\ \/ /\ RetriesRemain(c)
          /\ run' = [run EXCEPT ![c] = "scheduled"]
          /\ left' = [left EXCEPT ![c] = @ - 1]
       \/ /\ ~RetriesRemain(c)
          /\ run' = [run EXCEPT ![c] = "exhausted"]
          /\ UNCHANGED left
    /\ UNCHANGED <<row, rowVars, lock, apiVars, queue, seen>>

RequeueScheduled(c) ==
    /\ WithScheduler
    /\ run[c] = "scheduled"
    /\ Push(c)
    /\ UNCHANGED <<row, rowVars, lock, apiVars, left, seen>>

FailureCallback(c) ==
    /\ Step(c, "exhausted", "finished")
    /\ PersistSafeFailure(c)
    /\ UNCHANGED <<rowVars, lock, apiVars, queue, left, seen>>

FailureCallbackFails(c) ==
    /\ "callbackError" \in Faults
    /\ Step(c, "exhausted", "finished")
    /\ UNCHANGED <<row, rowVars, lock, apiVars, queue, left, seen>>

\* A worker that dies rolls its transaction back with its connection.
ReleaseIfHeld(c) ==
    \/ run[c] = "holding" /\ Release(c)
    \/ run[c] # "holding" /\ UNCHANGED <<lock, seen>>

\* The same job runs again: its worker died at any point, the last one being
\* after the job's commit and before RQ took note of it.
Redeliver(c) ==
    /\ "redelivery" \in Faults
    /\ run[c] \in Running \cup {"finished"}
    /\ ReleaseIfHeld(c)
    /\ Push(c)
    /\ UNCHANGED <<row, rowVars, apiVars, left>>

LoseJob(c) ==
    /\ "jobLoss" \in Faults
    /\ run[c] \in Running
    /\ ReleaseIfHeld(c)
    /\ run' = [run EXCEPT ![c] = "finished"]
    /\ UNCHANGED <<row, rowVars, apiVars, queue, left>>

-----------------------------------------------------------------------------

Handler(c) ==
    EnqueueAccepted(c) \/ EnqueueRefused(c) \/ EnqueueUnknown(c) \/ Restore(c)

\* What a live worker does with a job it has taken.
WorkerStep(c) ==
    \/ TargetMissing(c) \/ Begin(c) \/ RejectStale(c)
    \/ Complete(c) \/ CommitUnacknowledged(c) \/ FailBody(c)
    \/ RecordFailure(c) \/ ReportFailure(c)
    \/ DbErrorEscapes(c) \/ FailureCallback(c) \/ FailureCallbackFails(c)

\* No handler and no worker has anything under way: the system may stay here.
Quiescent ==
    /\ \A c \in Calls : api[c] \notin {"claimed", "restoring"} /\ run[c] \notin Running
    /\ queue = <<>>
    /\ UNCHANGED vars

Next ==
    \/ \E d \in Docs : Upload(d) \/ Delete(d)
    \/ \E c \in Calls :
         \/ ClaimProcess(c) \/ ClaimIndex(c)
         \/ Handler(c) \/ BackendCrash(c)
         \/ WorkerStep(c) \/ RequeueScheduled(c)
         \/ Redeliver(c) \/ LoseJob(c)
    \/ Take
    \/ Quiescent

Spec == Init /\ [][Next]_vars

\* A handler that has claimed finishes its request, a worker takes queued jobs
\* and finishes the job it took, and RQ's scheduler, where there is one, moves
\* delayed retries back.  Nobody is obliged to upload, claim or delete.
Fairness ==
    /\ \A c \in Calls : WF_vars(Handler(c)) /\ WF_vars(WorkerStep(c))
    /\ \A c \in Calls : WF_vars(RequeueScheduled(c))
    /\ WF_vars(Take)

FairSpec == Spec /\ Fairness

-----------------------------------------------------------------------------
(* Correctness.                                                            *)

\* A document is never processed and indexed at the same time, whatever
\* enqueues fail, jobs run twice or transactions are lost: the guards of the
\* two claims and of the restore exclude it together.
NeverBothActive ==
    \A d \in Docs : ~(row[d].status = "processing" /\ row[d].embedding_status = "indexing")

\* A worker inside its transaction still has the claim it checked: nothing --
\* a restore, a late failure report, a delete, another worker -- moves the row
\* from under it between the check and the commit.
HolderKeepsItsClaim ==
    \A c \in Calls : run[c] = "holding" =>
        /\ lock[DocOf[c]] = c
        /\ ClaimIsActive(c)
        /\ seen[c] = chunks[DocOf[c]]

\* Chunks are replaced only out of an active processing claim and embeddings
\* only out of an active claim (or by the document's deletion): a stale or
\* duplicate delivery never rewrites derived data.
DerivedDataOnlyUnderClaim ==
    [][ \A d \in Docs :
          /\ chunks'[d] # chunks[d] =>
               row[d].status = "processing" \/ row'[d].status = "deleted"
          /\ vectors'[d] # vectors[d] =>
               \/ row[d].status = "processing" \/ row[d].embedding_status = "indexing"
               \/ row'[d].status = "deleted" ]_vars

\* A document that says processed has chunks, so the 409 "no chunks to index"
\* cannot answer an accepted index claim.
ProcessedHasChunks ==
    \A d \in Docs : row[d].status = "processed" => chunks[d] # None

\* What semantic search relies on: a document that says indexed, or carries the
\* time of an indexing, has embeddings for exactly its current chunks.
HasCurrentVectors(d) == chunks[d] # None /\ vectors[d] = chunks[d]
SaysIndexed(d) == row[d].embedding_status = "indexed" \/ row[d].embedded_at

\* It holds of every document on which no enqueue was ever answered 503: the
\* restore is the only code that can break it, whatever else fails.
Undisturbed(d) == \A c \in Calls : DocOf[c] = d => api[c] # "unavailable"
IndexedUnlessRestored ==
    \A d \in Docs : Undisturbed(d) /\ SaysIndexed(d) => HasCurrentVectors(d)

\* The candidates of search_documents: embeddings, joined with their chunks, of
\* documents that are processed and indexed.
CandidatesWhateverTheStatus(d) == vectors[d]
Candidates(d) ==
    IF row[d].status = "processed" /\ row[d].embedding_status = "indexed"
    THEN vectors[d] ELSE None

\* The pipeline implements SearchableLibrary: whatever is claimed, restored,
\* retried, run twice or lost, what a search compares belongs to the document's
\* current chunks, and no chunk is replaced under a search that can see it.
Library ==
    INSTANCE SearchableLibrary
        WITH Versions <- Calls, current <- chunks,
             searchable <- [d \in Docs |-> Candidates(d)]
LibraryIsSearchable == Library!Spec

\* Someone is still going to end the claim of call c.
Carries(c) ==
    \/ api[c] \in {"claimed", "restoring"}
    \/ run[c] \in Running \cup {"queued", "scheduled"}

\* An active claim always has a handler or a job that will end it: the row is
\* never left processing or indexing, which would refuse every further
\* process, index and delete request.
ClaimHasCarrier ==
    \A d \in Docs :
        /\ row[d].status = "processing" =>
             \E c \in ProcessCalls : DocOf[c] = d /\ Carries(c)
        /\ row[d].embedding_status = "indexing" =>
             \E c \in IndexCalls : DocOf[c] = d /\ Carries(c)

\* Every claim ends: processing and indexing are never forever.
ClaimsEnd ==
    \A d \in Docs : ~Inactive(d) ~> Inactive(d)

\* processing and indexing mean "accepted, queued or running": a job that waits
\* in the queue for its first delivery still finds the claim it was queued for.
QueuedJobHoldsItsClaim ==
    \A c \in Calls : api[c] = "accepted" /\ run[c] = "queued" => ClaimIsActive(c)
=============================================================================
