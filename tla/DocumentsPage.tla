----------------------------- MODULE DocumentsPage -----------------------------
(***************************************************************************)
(* The list of documents in the browser (documents-workspace.tsx): loads   *)
(* of a page, after a user's action or by polling, against documents that  *)
(* workers change meanwhile.  A load carries no version: whatever arrives  *)
(* last is shown.                                                          *)
(*                                                                         *)
(* A task is one activation of load(), mutate() or confirmDelete(); the    *)
(* last two call the server and then load.  Dialogs are modal: an upload,  *)
(* during which nothing else can be pressed, is one step.                  *)
(*                                                                         *)
(* The two definitions before Rearm and the one before PageAfterDelete are *)
(* defects that no action uses; README.md says what they are for.          *)
(***************************************************************************)
EXTENDS Integers, Sequences, SequencesExt, FiniteSetsExt

CONSTANTS
    Docs,         \* document identities
    Uploaded,     \* the documents there are at first, newest first
    PageSize,     \* PAGE_SIZE
    MaxAttempts,  \* MAX_POLL_ATTEMPTS
    MaxClicks,    \* actions the user starts (a bound of the model)
    Tasks,        \* activations under way at once (a bound of the model)
    None          \* no document, no timer

ASSUME ConstantsAssumption ==
    /\ Uploaded \in Seq(Docs) /\ IsInjective(Uploaded)
    /\ PageSize \in Nat \ {0}
    /\ {MaxAttempts, MaxClicks} \subseteq Nat
    /\ None \notin Docs \cup Nat

VARIABLES
    library,    \* the user's documents at the server, newest first
    status,     \* status and embedding_status of each, as one value
    documents,  \* what the page shows
    skip, total,
    isLoading, error,
    busy,       \* the row whose action is under way, and the action
    target,     \* the document the delete dialog is about
    timer,      \* the skip of the armed poll
    attempts,   \* pollAttempts
    task,
    clicks,
    failed,     \* the last load to end failed
    raced,      \* the last load to start found another under way
    slipped     \* some load raced or went back to the page of an earlier click, two
                \* deletes overlapped, or the page was not told of a delete or an upload

server == <<library, status>>
page == <<documents, skip, total>>
shown == <<isLoading, error, busy, target>>
polling == <<timer, attempts>>
history == <<clicks, failed, raced, slipped>>
vars == <<server, page, shown, polling, task, history>>

Statuses == {"uploaded", "processing", "processed", "failed", "indexing", "indexed", "unindexed"}
Row == [doc : Docs, status : Statuses]
Mutations == {"process", "index", "delete"}
Idle == [phase |-> "idle", kind |-> "page", doc |-> None, skip |-> 0, back |-> 0,
         ok |-> TRUE, rows |-> <<>>, total |-> 0]

Task ==
    [phase : {"idle", "calling", "answered", "loading", "served", "broken"},
     kind : Mutations \cup {"page", "poll"}, doc : Docs \cup {None}, skip : Nat, back : Nat,
     ok : BOOLEAN, rows : Seq(Row), total : Nat]

TypeOK ==
    /\ library \in Seq(Docs) /\ IsInjective(library)
    /\ status \in [Docs -> Statuses]
    /\ documents \in Seq(Row) /\ Len(documents) <= PageSize
    /\ skip \in Nat /\ total \in Nat /\ skip % PageSize = 0
    /\ {isLoading, error, failed, raced, slipped} \subseteq BOOLEAN
    /\ busy = None \/ busy \in [doc : Docs, action : Mutations]
    /\ target \in Docs \cup {None}
    /\ timer \in Nat \cup {None}
    /\ attempts \in 0 .. MaxAttempts /\ clicks \in 0 .. MaxClicks
    /\ task \in [Tasks -> Task]

\* isPipelineActive, canProcess, canIndex
Active(r) == r.status \in {"processing", "indexing"}
CanProcess(r) == r.status \in {"uploaded", "failed"}
CanIndex(r) == r.status \in {"processed", "unindexed"}

Settled == \A t \in Tasks : task[t].phase = "idle"
Loads == {t \in Tasks : task[t].phase \in {"loading", "served", "broken"}}

\* The page has just been mounted and its first load is under way.
Init ==
    /\ library = Uploaded
    /\ status = [d \in Docs |-> "uploaded"]
    /\ documents = <<>> /\ skip = 0 /\ total = 0
    /\ isLoading = TRUE /\ error = FALSE /\ busy = None /\ target = None
    /\ timer = None /\ attempts = 0 /\ clicks = 0
    /\ \E t \in Tasks : task = [u \in Tasks |-> IF u = t THEN [Idle EXCEPT !.phase = "loading"] ELSE Idle]
    /\ failed = FALSE /\ raced = FALSE /\ slipped = FALSE

-----------------------------------------------------------------------------
(* The server.                                                             *)

\* A worker ends its claim; every other change is the user's.
EndJob(d) ==
    /\ \E s \in Statuses :
        /\ \/ status[d] = "processing" /\ s \in {"processed", "failed"}
           \/ status[d] = "indexing" /\ s \in {"indexed", "unindexed"}
        /\ status' = [status EXCEPT ![d] = s]
    /\ UNCHANGED <<library, page, shown, polling, task, history>>

\* What the page asked for: claimed for processing or indexing, or gone.
Serves(kind, d) ==
    /\ Contains(library, d)
    /\ ~Active([doc |-> d, status |-> status[d]])
    /\ \/ kind = "process" /\ status' = [status EXCEPT ![d] = "processing"] /\ UNCHANGED library
       \/ /\ kind = "index" /\ status[d] \in {"processed", "unindexed", "indexed"}
          /\ status' = [status EXCEPT ![d] = "indexing"] /\ UNCHANGED library
       \/ /\ kind = "delete" /\ UNCHANGED status
          /\ \E i \in DOMAIN library : library[i] = d /\ library' = RemoveAt(library, i)

\* The request is carried out, or refused or lost before; the answer may be lost.
ServeCall(t) ==
    /\ task[t].phase = "calling"
    /\ \E done, ok \in BOOLEAN :
        /\ IF done THEN Serves(task[t].kind, task[t].doc) ELSE UNCHANGED server
        /\ ok => done
        /\ task' = [task EXCEPT ![t].phase = "answered", ![t].ok = ok]
        /\ slipped' = (slipped \/ (~ok /\ ~Contains(library', task[t].doc)))
    /\ UNCHANGED <<page, shown, polling, clicks, failed, raced>>

Rows(from) == [i \in 1 .. Min({PageSize, Len(library) - from}) |->
                  [doc |-> library[from + i], status |-> status[library[from + i]]]]

\* list_documents
ServeLoad(t) ==
    /\ task[t].phase = "loading"
    /\ task' = [task EXCEPT ![t].phase = "served", ![t].rows = Rows(task[t].skip), ![t].total = Len(library)]
    /\ UNCHANGED <<server, page, shown, polling, history>>

BreakLoad(t) ==
    /\ task[t].phase = "loading"
    /\ task' = [task EXCEPT ![t].phase = "broken"]
    /\ UNCHANGED <<server, page, shown, polling, history>>

-----------------------------------------------------------------------------
(* load().                                                                 *)

Click(t) ==
    /\ task[t].phase = "idle"
    /\ clicks < MaxClicks
    /\ clicks' = clicks + 1

\* Task t starts to load; a load that is not a poll hides the table.
StartLoad(t, loading) ==
    /\ task' = [task EXCEPT ![t] = [loading EXCEPT !.phase = "loading"]]
    /\ isLoading' = (isLoading \/ loading.kind # "poll")
    /\ error' = FALSE
    /\ raced' = (Loads # {})
    /\ slipped' = (slipped \/ raced' \/ (loading.kind \in Mutations /\ task[t].skip # skip))
    /\ UNCHANGED failed

\* finally, and what a mutation still does once its load has ended
EndLoad(t) ==
    /\ task' = [task EXCEPT ![t] = Idle]
    /\ isLoading' = (isLoading /\ task[t].kind = "poll")
    /\ busy' = IF task[t].kind \in Mutations THEN None ELSE busy
    /\ UNCHANGED <<server, target, clicks, raced>>

\* The polling effect, which runs when the documents shown have changed.
RearmOnNewPage(rows, at) ==
    IF ~\E i \in DOMAIN rows : Active(rows[i])
    THEN timer' = None /\ attempts' = 0
    ELSE /\ timer' = IF attempts >= MaxAttempts \/ at = skip THEN None ELSE at
         /\ UNCHANGED attempts
RearmForever(rows, at) ==
    IF ~\E i \in DOMAIN rows : Active(rows[i])
    THEN timer' = None /\ attempts' = 0
    ELSE timer' = at /\ UNCHANGED attempts
Rearm(rows, at) ==
    IF ~\E i \in DOMAIN rows : Active(rows[i])
    THEN timer' = None /\ attempts' = 0
    ELSE /\ timer' = IF attempts >= MaxAttempts THEN None ELSE at
         /\ UNCHANGED attempts

Arrive(t) ==
    /\ task[t].phase = "served"
    /\ documents' = task[t].rows /\ total' = task[t].total /\ skip' = task[t].skip
    /\ Rearm(task[t].rows, task[t].skip)
    /\ error' = (error \/ ~task[t].ok)
    /\ failed' = FALSE /\ UNCHANGED slipped
    /\ EndLoad(t)

\* Nothing the polling effect depends on changes.
LoadFails(t) ==
    /\ task[t].phase = "broken"
    /\ error' = TRUE /\ failed' = TRUE
    /\ slipped' = (slipped \/ task[t].kind = "delete")
    /\ EndLoad(t)
    /\ UNCHANGED <<page, polling>>

Poll(t) ==
    /\ task[t].phase = "idle"
    /\ timer # None
    /\ timer' = None /\ attempts' = attempts + 1
    /\ StartLoad(t, [Idle EXCEPT !.kind = "poll", !.skip = timer])
    /\ UNCHANGED <<server, page, busy, target, clicks>>

-----------------------------------------------------------------------------
(* The user.                                                               *)

\* The table and the pages are there, and no dialog is in front of them.
Busy(d) == busy # None /\ busy.doc = d
TableShown == ~isLoading /\ documents # <<>> /\ target = None

\* mutate: only the buttons of the busy row are disabled.
Mutate(t, kind) ==
    /\ Click(t)
    /\ TableShown
    /\ \E i \in DOMAIN documents :
        LET d == documents[i].doc IN
        /\ ~Busy(d)
        /\ \/ kind = "process" /\ CanProcess(documents[i])
           \/ kind = "index" /\ CanIndex(documents[i])
        /\ busy' = [doc |-> d, action |-> kind]
        /\ task' = [task EXCEPT ![t] = [Idle EXCEPT
               !.phase = "calling", !.kind = kind, !.doc = d, !.skip = skip, !.back = skip]]
    /\ error' = FALSE
    /\ UNCHANGED <<server, page, isLoading, target, polling, failed, raced, slipped>>

OpenDelete ==
    /\ TableShown
    /\ \E i \in DOMAIN documents :
        /\ ~Busy(documents[i].doc)
        /\ ~Active(documents[i])
        /\ target' = documents[i].doc
    /\ error' = FALSE
    /\ UNCHANGED <<server, page, isLoading, busy, polling, task, history>>

Deleting == busy # None /\ busy.action = "delete"

CancelDelete ==
    /\ target # None /\ ~Deleting
    /\ target' = None
    /\ UNCHANGED <<server, page, isLoading, error, busy, polling, task, history>>

\* The page to show after a delete: the one before, when the page gets empty.
PageAfterDeleteStays == skip
PageAfterDelete ==
    IF Len(documents) = 1 /\ skip > 0 THEN (IF skip < PageSize THEN 0 ELSE skip - PageSize) ELSE skip

ConfirmDelete(t) ==
    /\ Click(t)
    /\ target # None /\ ~Deleting
    /\ busy' = [doc |-> target, action |-> "delete"]
    /\ error' = FALSE
    /\ task' = [task EXCEPT ![t] = [Idle EXCEPT !.phase = "calling", !.kind = "delete",
           !.doc = target, !.skip = skip, !.back = PageAfterDelete]]
    /\ slipped' = (slipped \/ \E u \in Tasks : task[u].phase # "idle" /\ task[u].kind = "delete")
    /\ UNCHANGED <<server, page, isLoading, target, polling, failed, raced>>

\* The call has been answered: reload, whatever the answer.
Return(t) ==
    /\ task[t].phase = "answered"
    /\ StartLoad(t, [task[t] EXCEPT !.skip = IF task[t].ok THEN task[t].back ELSE task[t].skip])
    /\ target' = IF task[t].ok /\ task[t].kind = "delete" THEN None ELSE target
    /\ UNCHANGED <<server, page, busy, polling, clicks>>

\* Previous, next, and the reload beside an error.
TurnPage(t) ==
    /\ Click(t)
    /\ ~isLoading /\ target = None
    /\ \E at \in {IF skip < PageSize THEN 0 ELSE skip - PageSize, skip, skip + PageSize} :
        /\ \/ at < skip /\ documents # <<>>
           \/ at > skip /\ documents # <<>> /\ at < total
           \/ at = skip /\ error /\ busy = None
        /\ StartLoad(t, [Idle EXCEPT !.skip = at])
    /\ UNCHANGED <<server, page, busy, target, polling>>

\* Only an upload whose answer arrives closes the dialog and loads the first page.
Upload(t, d) ==
    /\ Click(t) /\ target = None
    /\ ~Contains(library, d) /\ status[d] = "uploaded"
    /\ library' = <<d>> \o library
    /\ \/ StartLoad(t, Idle)
       \/ slipped' = TRUE /\ UNCHANGED <<task, isLoading, error, failed, raced>>
    /\ UNCHANGED <<status, page, busy, target, polling>>

Next ==
    \/ \E d \in Docs : EndJob(d)
    \/ \E t \in Tasks :
        \/ ServeCall(t) \/ ServeLoad(t) \/ BreakLoad(t)
        \/ Arrive(t) \/ LoadFails(t) \/ Poll(t)
        \/ \E kind \in {"process", "index"} : Mutate(t, kind)
        \/ ConfirmDelete(t) \/ Return(t) \/ TurnPage(t)
        \/ \E d \in Docs : Upload(t, d)
    \/ OpenDelete \/ CancelDelete

Spec == Init /\ [][Next]_vars

-----------------------------------------------------------------------------
(* Properties.                                                             *)

\* Once everything has been answered, a row whose status is no longer the
\* server's will be corrected: a poll is armed, until the attempts are used up.
\* This holds through requests that fail or whose answers are lost, but a load
\* that fails is the last poll (the effect that arms them is not run again,
\* documents-workspace.tsx:41), and of two loads that overlap the older answer
\* may arrive last and show a row as finished that is not.
StaleIsCorrected ==
    Settled /\ ~raced /\ ~failed /\ attempts < MaxAttempts =>
        \A i \in DOMAIN documents :
            documents[i].status # status[documents[i].doc] => timer # None

\* The empty state ("there are no documents yet", without the page buttons) is
\* shown to users who have none: deleting the last row of a page steps back to
\* the page before.  Not so a delete that is done but answered with an error,
\* two deletes that overlap on the last two rows of a page, each of which leaves
\* one row as it sees it, nor the late answer of an action on a row of a page that
\* is gone by then: its load goes back to that page.
EmptyMeansNone ==
    Settled /\ ~error /\ ~slipped /\ documents = <<>> => library = <<>>

=============================================================================
