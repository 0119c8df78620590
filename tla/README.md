# Verification of the legal AI platform

TLA+ modules that model the stateful parts of this repository, the TLC
configurations that check them on small instances, and theorems about all of
them that TLAPS proves for every instance.

The platform is a FastAPI backend over PostgreSQL/pgvector and Redis, an RQ
worker, and a Next.js frontend. Users upload legal documents, have them
processed (text extraction and chunking) and indexed (embeddings), and ask
questions that are answered from the indexed chunks.

## 1. Inventory

| Component | State it keeps | Operations | What makes it correct |
| --- | --- | --- | --- |
| Document claims (`services/document_queue.py`, `api/documents.py`) | the row's `status`, `embedding_status`, `embedded_at` | claim under `SELECT ... FOR UPDATE`, enqueue, restore after a failed enqueue | no document processed and indexed at once; a claim always has someone who ends it; a restore says nothing untrue |
| Document worker (`workers/document_jobs.py`, `worker.py`) | RQ's queue, retries left, delayed retries | run a job, reject a stale one, report failures, retry, failure callback | a stale or duplicate delivery changes nothing; every claim ends |
| Processing, indexing (`services/document_processing.py`, `document_indexing.py`) | chunk rows, embedding rows | replace all chunks, replace all embeddings, record a failure | what says *processed* has chunks, what says *indexed* has embeddings of its current chunks |
| Metadata and files (`services/documents.py`, `document_storage.py`) | the row and `<uuid>.<ext>` / `<uuid>.<ext>.deleting` | upload, delete (stage, commit, remove, restore) | no content of an existing document is lost; a file has one name |
| Conversations and chat (`services/conversation.py`, `chat.py`, `api/conversations.py`) | conversations, messages, citations | create, rename, delete, post a message | contiguous numbering, answer next to its question, history = what preceded, evidence exists and is in scope |
| Semantic search, RAG (`services/semantic_search.py`, `rag.py`, `rag_context.py`, `query_rewrite.py`) | none | authorize, select candidates, build a context, validate citations | only the caller's processed and indexed documents; budget respected; unknown references fail closed |
| Rate limiter (`core/rate_limit.py`) | one counter per policy, identity and window in Redis | count, admit, refuse | at most the limit per window; refusals are earned; Retry-After is about right |
| Embedding service, LLM client (`services/embeddings.py`, `llm.py`) | one lazily loaded model and its lock | load, encode, rewrite, generate | one model, one load at a time, no thread waits for itself, invalid output is never stored |
| Users, tokens (`services/auth.py`, `core/security.py`, `api/dependencies.py`) | users | register, authenticate, verify a token, promote | one account per address, the losers of a race are told so |
| Session in the browser (`auth-provider.tsx`, `lib/api/client.ts`, the two route guards) | token, user, `isLoading` | restore, log in and out, end the session on a 401 | the profile shown is the one the requests act for |
| Sending of questions (`use-conversation-messages.ts`) | histories, submissions, request versions | send, stop, reconcile, acknowledge, load, forget | never sends twice on its own, says of the outcome only what it knows |
| Conversation list (`conversation-provider.tsx`) | the list, its total, `listRevision` | first page, more pages, create, rename, delete, upsert | an older answer does not undo a newer one |
| Documents page (`documents-workspace.tsx`) | the page shown, poll timer and count, the busy row | load, poll, process, index, upload, delete | what is out of date gets corrected; only an empty library looks empty |
| Document detail, sources (`document-detail-workspace.tsx`, `citation-source.tsx`) | one document, its poll count; a page of chunks | load, poll, process, index, delete; scroll | as the documents page |
| Text algorithms (`services/text_chunking.py`, `text_normalization.py`, `text_extraction.py`) | none | extract, normalize, chunk | progress, no text skipped, size bound |
| Administration (`api/admin.py`), middleware, configuration, health | none of their own | read-only listings, wiring, probes | nothing another component's state depends on |

How they interact: an HTTP handler checks the rate limit in Redis, then works
in a synchronous SQLAlchemy session of its own. The process and index handlers
put a job on RQ's queue; the worker shares only PostgreSQL, Redis and the
storage directory with the backend, and the document row is where they meet.
Search and chat read what the worker publishes, in several queries with model
calls between them, and share one embedding model with each other and its lock.
Citations hang on chunk rows and vanish with them. The frontend learns of all of
it by polling, and any answer it gets may be older than what it shows.

The hard parts: transactions that commit between remote calls; a queue that
delivers at least once and may lose; an enqueue whose outcome is unknown;
retries and a failure callback that touch the database that just failed; a file
system without transactions next to a database; numbering fixed before a slow
call; clocks cut to seconds; answers in the browser that overtake each other,
or that belong to a session or a conversation that is over. `PROJECT.json` lists each at its line ("hazards").

## 2. Modules

| Module | Models | Run by |
| --- | --- | --- |
| `DocumentPipeline` | claims, queue, worker, processing and indexing of documents | `MCDocumentPipeline` and four configurations |
| `SearchableLibrary` | what the library promises to search and chat: the abstract specification of the pipeline | `MCDocumentPipeline` (its refinement) |
| `DocumentStorage` | a document's row and file through upload and delete | `MCDocumentStorage` |
| `Conversation` | conversations, messages, citations and the library they cite | `MCConversation` |
| `RagAnswer` | search and answering: the shared model, the two queries, the prompt's budget, the references | `MCRagAnswer` |
| `RateLimiter` | the fixed-window limiter | `MCRateLimiter` |
| `Session` | registration, tokens, and the browser's session | `MCSession` |
| `MessageSubmission` | the browser's sending of questions in one conversation | `MCMessageSubmission` |
| `ConversationList` | the sidebar's list of conversations | `MCConversationList` |
| `DocumentsPage` | the list of documents and its polling | `MCDocumentsPage` |
| `DocumentPipelineProofs`, `DocumentStorageProofs`, `ConversationProofs`, `RagAnswerProofs`, `RateLimiterProofs`, `MessageSubmissionProofs`, `DocumentsPageProofs` | theorems about the module each is named after | TLAPS |
| `ProviderProofs` | theorems about the two providers every page stands in, `Session` and `ConversationList` | TLAPS |

Common conventions. A request the code answers with 404 or 409 changes nothing
and is a stuttering step. An identifier that is a fresh UUID in the code is
used once in a model. A text, a vector or a score is abstracted to what it is
derived from.

**Defect variants.** Some definitions are preceded by one with a longer name
(`MayIndexUnprocessed` before `MayIndex`, `UnlinkInsteadOfRename` before
`Rename`, ...). No action uses it. It is the same code with a plausible bug;
putting it in the place of the definition that follows makes TLC report the
property that `PROJECT.json` pairs with it under "mutants". They show that each
property depends on what the code does.

### DocumentPipeline

A *call* is one `POST /documents/{id}/process` or `/index` and, once enqueued,
its RQ job. `row` is the documents table; `chunks[d]` names the call whose job
wrote the current chunk set, and `vectors[d]` the chunk set that the stored
embeddings belong to, so that "the embeddings are those of the current chunks"
is `vectors[d] = chunks[d]`. `lock[d]` is the job whose open transaction holds
the row. `api` and `prev` are a handler's progress and its local `previous`;
`queue`, `run`, `left` and `seen` are RQ's list, each job's progress, its
`retries_left` and the chunk set it has read.

| Code | Actions |
| --- | --- |
| `enqueue_processing`, `enqueue_indexing` | `ClaimProcess`, `ClaimIndex`; `EnqueueAccepted`, `EnqueueRefused`, `EnqueueUnknown`; `Restore`; `BackendCrash` |
| `_run_job` with `process_document`, `index_document` | `Take`, `TargetMissing`, `RejectStale`, `Begin`, `Complete`, `CommitUnacknowledged`, `FailBody`, `RecordFailure`, `ReportFailure` |
| `RetryableDocumentJobError`, `Retry(max=2, ...)`, `handle_job_failure` | `DbErrorEscapes`, `RequeueScheduled`, `FailureCallback`, `FailureCallbackFails` |
| a dying worker, RQ's at-least-once delivery | `Redeliver`, `LoseJob` |
| `upload_document`, `delete_document`, as far as the row goes | `Upload`, `Delete` |

Three details of the code shape the model.

- With `already_claimed=True`, which is how the worker always calls the
  services, nothing is committed between the check of the claim and the result:
  the row lock is held through extraction or embedding. `Begin` takes the lock
  and `Complete`, `FailBody` or the worker's death releases it.
- A failed body is recorded twice: `process_document`/`index_document` run an
  unconditional `UPDATE` after their rollback (`RecordFailure`), and `_run_job`
  then calls `_persist_safe_failure`, which only touches a row that is still
  processing or indexing (`ReportFailure`). These are two transactions.
- The restore after a failed enqueue works on the object the session still
  holds. The session is made with `expire_on_commit=False`, `db.rollback()` has
  no transaction to roll back there, and `_get_owned_locked` does not ask for
  `populate_existing`: attributes keep their claimed values, and SQLAlchemy
  writes only those that the restore changes (`RestoredRow`). If the row is gone
  the handler answers 404, if it is there it is overwritten without a look at
  its present state.

PostgreSQL (row locks, commit, rollback, cascades, `READ COMMITTED`), SQLAlchemy
and RQ (FIFO list, delayed retries, failure callback after the last one, jobs
that run again or get lost with a worker) are not in the repository; the model
takes of them what the code relies on. `Faults` says which of their failures a
run admits.

### SearchableLibrary

The abstract specification: per document its current text and the text a search
compares, no locks, queues, claims or statuses. A document can be searched in
its current text or not at all, and its text is not exchanged while it can be
searched.

`DocumentPipeline` implements it (`LibraryIsSearchable`): `current` is `chunks`,
and `searchable[d]` is `vectors[d]` while the row says *processed* and *indexed*,
which is what `search_documents` asks for. So a claim hides a document, and only
the commit of an indexing, or a restore, shows it again.

For the composition with chat the question is the other one: whether chat's
properties survive everything a library may do. `ConversationProofs` answers it
for more than `SearchableLibrary`: in `OpenSpec` the requests of `Conversation` run
next to `AnyLibraryStep`, which replaces chunks and what is searchable in any way,
of several documents at once, uploads included, and keeps only what the foreign
keys do: a citation goes with its chunk. Numbering, answers, history and evidence
hold there too (`ChatOnAnyLibrary`). So they do not rest on the claims of the
pipeline or on the order of `Conversation`'s own document actions.

### DocumentStorage

One row and one file per document. `file` is what the key holds, `staged` that
`<key>.deleting` exists. An upload writes, flushes, commits; a delete locks the
row, renames, commits, removes. Failures of each step, commits that take effect
and are reported as failed, and crashes are `Faults`. The checks of processing
and indexing that `delete_document` makes under the same lock are
`DocumentPipeline`'s.

A removal that fails after the commit leaves a staged file without a row, which
nothing looks for afterwards. `ContentSurvives` does not speak of it; nor of an
orphan that needs no failed removal, below.

### Conversation

A *post* is one `POST /conversations/{id}/messages`; `phase` says between which
of its transactions it is. The chunk table is one chunk per document and
generation: a reprocessing removes the old one, and with it its citations
(foreign keys with `ON DELETE CASCADE`). An LLM or embedding call is the gap
between two actions, its failure `Abandon`. Search may return any subset of the
candidates. `Answer` is `_insert_assistant_message`: it can only happen if the
constraints of the tables let the INSERTs through. `LoadMessage` and
`LoadSources` are the separate SELECTs of `selectinload`, which see different
snapshots.

One consequence is worth knowing: the number of an answer is that of its
question plus one, and a second question asked before the answer is stored gets
that very number, so the first question stays without an answer (its INSERT
meets the unique constraint, 503). The numbering stays contiguous because of
it, not in spite of it.

### RagAnswer

A *request* is a thread of one backend process: a search, a `POST /rag/ask`
("ask"), or a chat whose question is rewritten first ("chat"). `library` is what
the two queries of `search_documents` read; between them the request waits for
the model. `service`, `lock` and `loaded` are `_service`, the `RLock` and
`_model` of `embeddings.py`. A question fixes an order of the chunks and those
close enough; the prompt is built from that as `RAGContextBuilder` does, block
by block against the budget: `Among` keeps the passages of a set in their order,
`Top` cuts at `TopK`, `Context` is the builder's loop with what it has used so
far. `Used` is the length of a finished context on its own account, separators
counted where they stand, so that the budget is checked against something else
than the builder's own sum. The provider answers with any references, also to
numbers that no block has.

| Code | Actions |
| --- | --- |
| `get_embedding_service`, `_encode`, `load_model` | `Start`, `EnterEncode`, `EnterLoadModel`, `Build`, `Encode` |
| `search_documents`, `RAGContextBuilder.build` | `Check`, `Rank`, `RankFails` |
| `rewrite_query`, `generate_answer`, `validated_citations` | `Rewrite`, `Generate`, `GenerateFails` |
| claims, publications and deletions by others | `Change` |

`OneModel` needs the lock twice over: `_encode` holds it while `load_model` takes
it again, so a lock that is not reentrant would make the first request wait for
itself (`EveryRequestEnds`).

### RateLimiter

Time is in ticks, `Ticks` to a second, because the script cuts Redis' clock to
seconds where it computes the bucket and the lifetime, while `EXPIRE` counts
from the exact time and `TTL` rounds to the nearest second. The script is one
action. `ttl < 0` (a key without expiry) cannot arise from the script itself and
is left out, as is a counter lost with Redis' memory.

### MessageSubmission

A *send* is one press of the send button, or the first question queued by
`createNew`; `ContentOf` says which sends ask the same. `history` and
`submission` are the hook's refs for one conversation, `local` and `aborted` what
a running `submitMessage` holds across its await, `reads` the history reads in
flight with the submission each will write back. The hook's version numbers
are only compared for being the latest, so a read is `fresh` or not. `server`,
`rows` and `wire` are what the server does with a send, what it stored, and what
the browser heard: the three come apart when a connection breaks, a gateway
answers 408, 502 or 504, or the user stops. `at`, `error` and `deletion` are the
page and the delete dialog, which covers the page from its request until the
answer has been handled, also while the answer is on its way back
(conversation-provider.tsx, `DeleteDialog`). `NoneIsNoSubmission` says of the model
values what the code has by `null` not being an object.

| Code | Actions |
| --- | --- |
| `createNew`, `queueMessage`, the provider's effect | `CreateNew`, `SendQueued` |
| `submitMessage`, `stopMessage` | `Send`, `Stop`, `SendEnds` |
| `readHistory`, `reconcile`, `loadHistory`, `reload`, the mount effect | `Open`, `Leave`, `Reload`, `ServeRead`, `BreakRead`, `ReadArrives`, `ReadFails` |
| `acknowledge`, `confirmDelete`, `forget` | `Acknowledge`, `ConfirmDelete`, `ServeDelete`, `RefuseDelete`, `DeleteReturns` |
| the POST at the server and on the way | `Store`, `Answer`, `Fail`, `Drop`, `Reply`, `Break` |

The texts of drafts and the selected sources are left out, and so is a second
tab. The model opens a conversation only after its creation was answered; the
list can show it earlier, and a question sent in that moment would be overwritten
by the queued one (a hazard in `PROJECT.json`). A reload that is under way when
its conversation is deleted also writes its submission back into the provider;
the history stays forgotten (`ForgottenStaysForgotten`).

### Session

The users table with its unique index, and one tab of the browser. `reg` is a
registration between its SELECT and its INSERT. A login has the name of the
token it obtains, so `token`, `expired` and the tokens that requests carry are
logins. `restore`, `login` and `req` are the exchanges under way with the token
each was sent with; a request or its answer may be lost, or the database be down
(`ServeRequest`). `listing` is the sidebar's list: not asked for before the workspace
is mounted, asked for, or failed, which the sidebar shows; `asking` is which requests
are the sidebar's. A 401 clears token and user whichever token it answers
(`RequestArrives`). `overlapped` is a history variable: two logins ran at once,
which switching between the login and the register form permits; then each may
leave its token and the other its user, and the page shows one user while its
requests act for the other (`ShownUserOwnsToken` excludes it). A late 401 of an
old session clears the token of a newer login; where that login still succeeds,
the page shows a user without a token. Its first request asks for the list, without a
token: a 401 ends the session, but if that request breaks or is answered 503,
conversation-provider.tsx:73 only sets an error, and nothing forces another one. So
`UserWithoutTokenEnds` says that the state ends or its failure is shown.

### ConversationList

`updated` is the server's `updated_at`, drawn from `clock`; the list is a set of
conversations with the stamp they were last heard of, since the sidebar orders
by it. `first`, `more`, `create`, `dialog` and `read` are the requests under way;
`changed` in the first two says that `listRevision` has moved since they were
sent. `told`, `gone` and `asof` record what the user has been told.

Three behaviours of the code that the property does not rule out. A history
that was read before a rename takes the old title back, and a creation answered
after a reloaded list showed the conversation, and after it was deleted there,
brings it back (`raced` names those conversations). The total is one too many
or too few when a list already counts a creation or deletion that is answered
afterwards. And a conversation opened by its address joins the list beyond the
loaded pages, so that `loadMore`'s offset, the length of the list, skips an entry,
where docs/PHASE_8E_VALIDATION.md:88 asks that sidebar pagination remain correct.

### DocumentsPage

A *task* is one activation of `load`, `mutate` or `confirmDelete`; the last two
call the server, then load. `library` and `status` are the server's, changed by
workers (`EndJob`) and by what the page asks for (`ServeCall`). `timer` and
`attempts` are the polling effect. `failed`, `raced` and `slipped` are history
variables that say which of the behaviours below has happened.

- A load carries no version. Of a poll, a page turn and the reload after an
  action, the oldest answer may be shown last; if it shows a row as finished
  that is not, nothing polls.
- A load that fails changes nothing the polling effect depends on, so it is the
  last poll, contrary to docs/PHASE_9C_VALIDATION.md:28.
- The late answer of an action on a row of a page that has been left goes back
  to that page, which may be empty by then. A delete that is done but answered
  with an error, or whose load fails, leaves an empty page too.
- `busy` is one row: a second action overwrites it, the first to end clears it.
  So a second delete can be confirmed while the first is under way, when another
  action ended in between. On the last two rows of a page each of the two takes
  the other's row to stay, neither steps back, and the page is left empty with
  the library not. It takes two rows to a page, which the run does not have: it
  was the inductive invariant of the proof that would not go through, and TLC
  found the behaviour then with pages of two (four documents, four clicks).

## 3. Runs

TLC finishes each in about a minute and a half at most, with two workers.

| Run | Shows |
| --- | --- |
| `pipeline_faults` | all six kinds of fault: `NeverBothActive`, `HolderKeepsItsClaim`, `ProcessedHasChunks`, `IndexedUnlessRestored`, `DerivedDataOnlyUnderClaim`, and the refinement `LibraryIsSearchable` |
| `pipeline_retry` | database errors and retries with a scheduler: `ClaimHasCarrier`, and `ClaimsEnd` under fairness |
| `storage_faults` | three concurrent deletes and every fault: `OneName`, `ContentSurvives` |
| `conversation_posts` | three questions in one conversation, its deletion, and a changing library: `SequencesAreContiguous`, `AnswerFollowsQuestion`, `HistoryIsWhatPreceded`, `StoredEvidence` |
| `rag_requests` | a chat and two searches on one model and a changing library: `AnswerIsSupported`, `PromptIsOfOneLibrary`, `OneModel`, and `EveryRequestEnds` under fairness |
| `limiter_window` | three windows of two seconds: `AtMostLimitPerWindow`, `RefusalIsEarned` |
| `session_tab` | two racing registrations, two people's logins in one tab, expiry, deactivation, a reload, late 401s: `RegistrationIsExclusive`, `ShownUserOwnsToken`, and `UserWithoutTokenEnds` under fairness |
| `submission_sends` | two sends of the same question against a server that may lose requests and answers and go on after an abort: `PostedAtMostOnce`, `NotSavedIsTrue`, `SavedQuestionIsNew`, `ForgottenStaysForgotten`, and `SubmissionsSettle` under fairness |
| `sidebar_list` | list answers, creations, renames, deletes and histories in every order: `OlderAnswersDoNotUndo` |
| `documents_list` | loads, polls and actions that overlap and fail: `StaleIsCorrected`, `EmptyMeansNone` |

Each also checks its module's `TypeOK` (`ListTypeOK` in `sidebar_list`;
`pipeline_retry` excepted, which is an instance of the same module).

Two runs end in a counterexample: there the code does other than the
repository's documents say. `PROJECT.json` quotes the documents ("findings").

| Run | Counterexample, in short |
| --- | --- |
| `pipeline_late_report` | no fault: job 1 fails and records it, a new process call claims the row and queues job 2, the second report of job 1 fails that claim, job 2 is rejected as stale |
| `pipeline_no_scheduler` | the worker runs without RQ's scheduler: the first delayed retry never returns and the claim never ends |

More disagreements are behaviours of the models without a run of their own:

- An enqueue times out although Redis took the job, and the restore writes
  *indexed* back over a document whose chunks the job replaces
  (document_queue.py:57; docs/ARCHITECTURE.md:27: "enqueue failure restores the
  prior state"). `IndexedUnlessRestored` excludes every document an
  enqueue of which was answered 503, also where Redis had not taken the job.
- A delete's commit fails, its rollback frees the row, a second delete finds no
  file and deletes the row, the first then restores the file: an orphan
  (documents.py:77; README.md:433 of the repository).
- A reprocessing between the SELECT of an answer's citations and that of their
  chunks makes the response fail although the answer is saved
  (conversations.py:152; docs/ARCHITECTURE.md:89). `LoadSources` ends in
  "crashed".
- A question is stopped, its page left and opened again, and the history read
  fails: the composer is disabled, and neither the reload button nor the retry is
  shown (conversation-detail-workspace.tsx:84;
  docs/PRE_8G_CHAT_UX_VALIDATION.md:69).
- A question is sent and never heard of (its connection breaks, or it is stopped);
  an identical one is then written under a history that does not show the first,
  which is stored after that, and fails. The page calls the second saved, because
  the late row is of its content and not among the ids seen before
  (message-flow.ts:36). docs/PHASE_8E_VALIDATION.md:30 rules it out ("an identical
  earlier question does not falsely count as this send"), and the comment at
  message-flow.ts:32 is about an earlier turn in general. `SavedQuestionIsNew`
  states no more than what the code compares and is true of this behaviour; that
  the question is this very send's is proved only where every other send of the
  same question has been heard of (`SavedIsThisSend`, section 4).
- Retry-After may end up to half a second before the window, because `TTL`
  rounds, although docs/PHASE_9B_VALIDATION.md:74 expects normal processing after
  it.
- A database error *inside* the services' `try` blocks is caught by their
  `except Exception` and recorded as a permanent failure; only errors before
  those blocks, or in a failure report, are retried (`FailBody`,
  `DbErrorEscapes`).

**Bounds.** Two process calls and one index call on one document (two index
calls where an earlier indexing matters) contain every pair of actors the code
can bring together on a row: claim against restore, job against job of the same
and of the other kind, report against newer claim. Documents do not interact, so
one is enough. `MaxRetries` is the code's 2, except in `pipeline_faults`, where
redelivery already repeats jobs without limit. Two workers contain every race of
two jobs. Three deletes include two that race and one that comes late; three
questions include an answer that is late twice. `MaxGenerations` bounds
reprocessing, `MaxTime` and `MaxRequests` the limiter's time and load;
`HistoryLimit` is 2 so that the limit cuts something off. Two sends contain
one that is judged by what became of the other. With four ticks to a
second every fraction that rounding tells apart occurs.

In `session_tab` two registrations race for one address; two logins of different
people contain a login that meets what is left of the other's session
(`MaxReloads` is 1). One request under way is enough for an old 401, because it
carries its token into the next session. `documents_list` has pages of one row,
two documents and a third to be uploaded: a page that gets empty, a page beyond
the end, and a first page that shifts. Pages of two rows take TLC beyond what a
run should, and the theorems hold for pages of any size; two `Tasks` contain every overlap of two
loads, `MaxAttempts` of 2 contains the end of polling. `sidebar_list` has three
conversations in pages of one, so that a further page is asked for while the list
changes; `MaxClock` and `MaxClicks` bound the changes and the user. In
`rag_requests` a chat and two searches, one of them within one document, meet
on the model; two of the three passages fit into the prompt (`MaxChars` 6),
and two of them fit only if the separator is forgotten; `TopK` of 2 cuts the third off. "ask" is "chat" from
its second step on, and has no request of its own there.

**Deadlock** is checked in the pipeline runs, where `Quiescent` names the states
the system may rest in. The other models stop when all their requests are over
or their bounds used up, so `CHECK_DEADLOCK FALSE`; that no request of
`RagAnswer` waits for ever is its liveness property.

**Fairness** (`FairSpec`): a handler that has claimed a document goes on to its
end, since nothing between the claim and the response waits for ever; a worker
that has taken a job goes on with it (RQ's job timeouts end bodies that hang);
an idle worker takes the next job; and where there is a scheduler, delayed
retries come back. Weak fairness is enough: `Unlocked` becomes false again and
again, but only finitely often. Uploading, claiming and deleting are never
forced. In the browser a POST or GET ends in an answer or an error, because
servers, gateways and connections time out, and the event loop runs what waits
for it; the user and the server are not fair. In `Session`, likewise, effects
run and requests are answered, and nobody need log in, out or reload. In
`RagAnswer` a thread runs on, and the model, the database and the provider return
(the provider's client has a time-out); a thread that waits for the lock is not
helped by its fairness, only by the lock's release.

## 4. Proofs

Each `*Proofs` module proves the invariants of its component for every value of
the constants: any number of documents, calls, questions, sends, requests,
workers, retries and conversations, any library and page size, any limit and window. TLAPS
checks them to the last leaf; nothing is assumed but the named assumptions on
the constants, which TLC evaluates in every run of the module.

| Module | Theorem | States |
| --- | --- | --- |
| `DocumentPipelineProofs` | `TypesHold` | `Spec => []TypeOK` |
| | `HolderIsSafe` | `Spec => []HolderKeepsItsClaim` |
| | `NeverProcessedWhileIndexed` | `Spec => []NeverBothActive` |
| | `ProcessedDocumentsHaveChunks` | `Spec => []ProcessedHasChunks` |
| | `IndexedDocumentsAreCurrent` | `Spec => []IndexedUnlessRestored` |
| | `DerivedDataIsGuarded` | `Spec => DerivedDataOnlyUnderClaim` |
| | `ClaimsAreCarried` | `NothingIsLost => (Spec => []ClaimHasCarrier)` |
| | `PipelineImplementsLibrary` | `Spec => LibraryIsSearchable` |
| `DocumentStorageProofs` | `TypesHold`, `OneNameHolds`, `ContentSurvivesFaults` | `TypeOK`, `OneName`, `ContentSurvives` are invariant |
| `ConversationProofs` | `TypesHold`, `NumbersAreContiguous`, `AnswersFollowQuestions`, `HistoryStays`, `EvidenceIsThere` | `TypeOK`, `SequencesAreContiguous`, `AnswerFollowsQuestion`, `HistoryIsWhatPreceded`, `StoredEvidence` are invariant |
| | `ChatOnAnyLibrary` | `OpenSpec => []` of the last four, next to any library |
| `RagAnswerProofs` | `TypesHold`, `ProcessHasOneModel`, `ShownAnswersAreSupported` | `TypeOK`, `OneModel`, `AnswerIsSupported` are invariant |
| | `PromptsAreOfOneLibrary` | `Spec => PromptIsOfOneLibrary` |
| | `WaitsEndInside` | `NoCircularWait` is invariant |
| | `RequestsAdvance` | `Spec => EveryStepIsProgress` |
| `RateLimiterProofs` | `TypesHold`, `NoWindowExceedsLimit`, `RefusalsAreEarned` | `TypeOK`, `AtMostLimitPerWindow`, `RefusalIsEarned` are invariant |
| `ProviderProofs`, of `Session` | `TypesHold`, `ShownUserIsTokenOwner`, `RegistrationsAreExclusive` | `TypeOK`, `ShownUserOwnsToken`, `RegistrationIsExclusive` are invariant |
| | `TokenlessUsersAreNoticed` | `TokenlessIsFoundOut` is invariant |
| `ProviderProofs`, of `ConversationList` | `ListTypesHold`, `AcknowledgedStays` | `ListTypeOK`, `OlderAnswersDoNotUndo` are invariant |
| `MessageSubmissionProofs` | `TypesHold`, `NothingIsPostedTwice`, `NotSavedHolds`, `SavedHolds`, `DeletionForgets` | `TypeOK`, `PostedAtMostOnce`, `NotSavedIsTrue`, `SavedQuestionIsNew`, `ForgottenStaysForgotten` are invariant |
| | `SavedIsThisSendHolds` | `SavedIsThisSend` is invariant |
| | `BusyComposerIsAttended` | `PendingIsAttended` is invariant |
| `DocumentsPageProofs` | `TypesHold`, `StaleRowsArePolled`, `EmptyPageMeansEmptyLibrary` | `TypeOK`, `StaleIsCorrected`, `EmptyMeansNone` are invariant |

**Assumptions.** `ConstantsAssumption` of each module (`ListAssumption` in
`ConversationList`); in `MessageSubmission` also that `None` is no submission. They
say what kind of thing a constant is, and: the posts of a conversation and the
conversations are finitely many (a number, a total, an offset is counted from them),
a ranking names no passage twice (a chunk is one row of the query's result), and
the clock of `RateLimiter` is long enough for its first second
(`Ticks <= MaxTime + 1`), so that `Init` is within `TypeOK`. One theorem has a
hypothesis of its own, `NothingIsLost`: below.

**How the proofs go.** An invariant that a run checks is seldom preserved by a
step on its own. Each module states the strengthening it needs in named parts,
shows that the initial states have it, and that each action keeps it, one step
of the proof per action. The strengthenings were checked by TLC on the runs'
instances before they were proved.

*DocumentPipeline.* `HolderKeepsItsClaim` is nearly inductive: whoever writes a
row needs it unlocked, so it is inductive together with the types. It is the
invariant all others build on, because it says that a commit meets the row its
check saw. `NeverBothActive` and `ProcessedHasChunks` are not inductive because
of the restore, which writes values saved long before: the strengthening carries
them over to `prev`, saying which saved values a handler between claim and answer
can hold (`SavedInactive`, `SavedProcessedHasChunks`). For `IndexedUnlessRestored`
it adds that a document no restore has touched is not being processed while it
says indexed. `ClaimHasCarrier` needs that a job which stops carrying a claim also
ends it, and that nobody else's step makes a claim without carrying it. The lemma
`NextWrites` lists what a step may do to one document's row, so that each proof
about rows has a handful of cases rather than one per action. `NothingIsLost`
excludes three faults (API crash, lost job, failing callback): each of them
strands a claim, because nothing in the code looks for claims without a job. For
the last one the repository says otherwise (docs/ARCHITECTURE.md:75, "state cannot
remain active indefinitely"): the callback is one more transaction of the database
that just failed.

`PipelineImplementsLibrary` needs one more invariant, that embeddings belong to
the current chunks or are not there, which is inductive by itself because both
go together. Then a step that writes only a row shows the document or hides it,
whatever it writes, also a restore; and a job that replaces chunks holds its claim
(`HolderKeepsItsClaim`), which hides the document.

*DocumentStorage.* Before its row is committed a document is its upload's alone
(`UploadIsAlone`), and a delete that unlinks has seen the row go
(`DeleteFollowsRow`); with these `OneName` and `ContentSurvives` are inductive. The
row lock plays no part in it.

*Conversation.* The types and the numbering need each other: a number is one
more than the greatest there is, so it is a number only while the numbers are
`1 .. n`. That an answer finds its place needs that the question stands where it
was numbered until then, or that the conversation is gone (`QuestionIsThere`).
`HistoryIsWhatPreceded` speaks of the last messages before a question; the proof
first shows that for contiguous numbers this is an interval of numbers, and that
no later message comes into it. Neither invariant speaks of the library but
through the cascade, so a step of any library keeps them (`AnyLibraryKeepsChat`),
which is all that `ChatOnAnyLibrary` adds.

*RagAnswer.* `OneModel` rests on the lock: between entering and leaving `_encode`
a thread holds its service's lock, and whoever has asked for the service has the
one there is. `AnswerIsSupported` rests on what the builder's loop computes: its
context has only passages it was given, and `Used` of it is what the loop has
counted, hence within the budget. These are statements about recursive functions
on sequences. They are proved by induction on a set of numbers: `InductionUpTo`
is a theorem about sets (a set with 0 and the successors of its members has all
numbers up to N), so that it needs no operator as a parameter, and
`RecursionExists` gives the function that the recursive definition chooses.
`PromptIsOfOneLibrary` needs that a request has no prompt before its ranking and
never returns there (`NoPromptYet`).

*RateLimiter.* The counter of a bucket lives until the bucket ends
(`CounterOutlivesBucket`), although the script cuts the clock to seconds before it
computes the life, and rounding up is what makes it so; it stands between what
its bucket admitted and what arrived. The arithmetic of seconds and buckets is a
set of lemmas of its own.

*Session.* Until `refreshCurrentUser` has ended nothing else runs
(`RestoringRunsAlone`), and logins that did not overlap run while nobody is shown,
with their own token or none stored (`LoginRunsAlone`): so when a profile arrives,
the token is still the one it was asked with.

*MessageSubmission.* Three facts that no single step establishes: which send the
running `submitMessage` and the reads in flight belong to (`FlowInv`); that a
history under which the user may write shows every stored question whose fate the
browser has heard of (`HistoryInv`); and what a submission may claim wherever it
is carried, in the hook, in a closure across an await or in a read (`Sound`). The
last is a predicate of the submission and the state of server and table, so that
the same submission can be judged before and after a step. `SubmissionInvariant`
is their conjunction. The proof brought one thing to light: a user who could write
under the delete dialog, once its request is done, would get the history back
after the deletion; the dialog is still open then, so `Controls` says so.

*DocumentsPage.* For `StaleIsCorrected`: as long as a row is active, a poll is armed,
a load is under way, the attempts are used up or the last load failed
(`ArmedInv`); and rows, shown or on their way, that differ from the server's are
active, or an action's answer is here and its load still to come (`ServedInv`,
`ShownInv`). For `EmptyMeansNone`: while no delete has been carried out that the page
does not know of (`Undisturbed`), the page, its timer and its loads are about pages
that are there; and the page a delete goes back to is there also without the
row (`BackInv`). That there is one such delete at a time is what `slipped` had to
learn from the proof (section 2).

*ConversationList.* `OlderAnswersDoNotUndo` rests on four facts about answers on
their way, and each is about a different guard of the provider. A list answer
that will be used knows of everything acknowledged so far, because every
acknowledgement moves `listRevision` (`LoadInv`). What the dialog's answer says of
its conversation is still so, because only a dialog deletes and it is modal
(`DialogInv`). The answer of a creation or of a history may be old, but is not
older than an acknowledged change of its conversation unless the two have raced
(`OlderInv`, `raced`). And an acknowledged change has happened and lies in the past
(`ServerInv`). That `total` keeps its type needs one more: it can exceed the
conversations ever created by one and no more, because a list may count a creation
before it is answered, and the next one is begun only after that (`TotalInv`).
`ListInv` is their conjunction. `ProviderProofs` extends both this module and
`Session`, hence the prefixes of `ListInit`, `ListSpec` and the like.

**Only model-checked.** The liveness properties `ClaimsEnd`, `SubmissionsSettle`,
`UserWithoutTokenEnds` and `EveryRequestEnds`, because the prover has no rule for
fairness and ENABLED. The two runs that end in a counterexample are TLC's alone.
Every safety invariant and action property that a passing run checks is a theorem.

What is proved of the liveness properties is the part that is a safety property:
that whatever has to end is in the hands of something that ends it, so that
fairness of the steps named in section 3 is all that is missing.

| Liveness property | Proved of it |
| --- | --- |
| `ClaimsEnd` | `ClaimHasCarrier`: an active claim has a handler, a job or a retry that will end it |
| `SubmissionsSettle` | `PendingIsAttended`: a pending submission has a running `submitMessage` that waits for its POST, or for the read of that very submission |
| `UserWithoutTokenEnds` | `TokenlessIsFoundOut`: a user without a token is still to ask for the conversations, is shown a failure, or has a request without a token under way, which ends in a 401 or a failure that is shown |
| `EveryRequestEnds` | `NoCircularWait` and `EveryStepIsProgress`: each step of a request brings it closer to its end, of which it is at most nine steps away, and one that waits for the lock waits for another thread that waits for nobody |

## 5. Not modelled

- Extraction of PDF and DOCX text, normalization and chunking: pure functions
  on texts. A chunk set is one value in the models.
- What vectors hold and how similarity is computed: a question fixes an order.
- The document detail page polls one document as the documents page polls a
  page of them; the source reader scrolls. Rendering, drafts, wording of errors.
- Roles, `promote_user` and the administration listings: nothing else's state
  depends on them.
- Several tabs: localStorage is shared, the rest of `Session` is not.
- `embed_documents` in the worker runs in another process with a model of its
  own; the pipeline has it as the body of an indexing.
- Schema validation, logging, metrics, middleware, configuration, health,
  migrations.

Ownership appears only as the guard that answers 404, except where two users
meet (`Session`). The services' `already_claimed=False` paths have no caller in
the application. That `updated_at` is the start of a transaction, so that its
order can differ from that of commits, is not modelled; `ConversationList` takes
it as the order of changes.

## 6. Plan

Done, in the order of what is most at stake: `DocumentPipeline` with its proofs,
`DocumentStorage`, `Conversation`, `RateLimiter`, `MessageSubmission`,
`SearchableLibrary` with its two refinements, `RagAnswer`, `Session`,
`ConversationList`, `DocumentsPage`.

The theorems of section 4 are done for every module.

Left:

1. `chunk_text` as a function, checked against a reference definition; the
   document detail page; `MessageSubmission` composed with `Conversation` as its
   server.
