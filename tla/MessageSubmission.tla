--------------------------- MODULE MessageSubmission ---------------------------
(***************************************************************************)
(* How the browser sends questions of one conversation: the provider's     *)
(* histories and submissions (use-conversation-messages.ts), the page that *)
(* shows them, and creation and deletion of the conversation around them.  *)
(* The provider keys everything by conversation, so one is enough.         *)
(*                                                                         *)
(* A send is one press of the send button.  The hook numbers its history   *)
(* reads and drops an answer that is not the latest; here each read in     *)
(* flight is fresh or not, which says the same.  Reads come from two       *)
(* places, the end of a send and loadHistory, one at a time from each.     *)
(*                                                                         *)
(* The conversation is opened only after its creation has been answered.   *)
(*                                                                         *)
(* A definition right before Definitive, Claimed, Persistence, Forget,     *)
(* MayAcknowledge or ReadFailed is a defect that no action uses; README.md *)
(* says what these variants are for.                                       *)
(***************************************************************************)
EXTENDS FiniteSets, Naturals

CONSTANTS
    Sends,
    Contents,
    ContentOf,   \* the question of each send; two sends may ask the same
    None

ASSUME ConstantsAssumption ==
    /\ IsFiniteSet(Sends)
    /\ ContentOf \in [Sends -> Contents]
    /\ None \notin Sends

VARIABLES
    conversation,  \* the server's conversation
    server,        \* how far the server is with each send
    rows,          \* the sends whose question the server has stored
    posts,         \* how many POSTs each send has caused
    wire,          \* what the browser heard of each send's POST
    history,       \* the history the provider holds, None before the first
    submission,    \* the conversation's submission, None before the first
    local,         \* the submission a running submitMessage carries
    aborted,       \* its AbortController has been used
    reads,         \* the history reads in flight
    at,            \* the page of the conversation is mounted
    error,         \* the page's error
    deletion       \* the delete dialog's request

backend == <<conversation, server, rows>>
network == <<posts, wire>>
page == <<at, error>>
vars == <<conversation, server, rows, posts, wire, history, submission, local,
          aborted, reads, at, error, deletion>>

Phases == {"queued", "sending", "stopping", "reconciling", "settled"}
Submission ==
    [send : Sends, previous : SUBSET Sends, phase : Phases, stopped : BOOLEAN,
     persistence : {"saved", "not-saved", "unknown"}, postError : BOOLEAN,
     syncError : BOOLEAN, definitive : BOOLEAN, acknowledged : BOOLEAN]
ASSUME NoneIsNoSubmission == None \notin Submission

Read ==
    [state : {"idle", "asked", "answered", "missing", "failed"},
     seen : SUBSET Sends, fresh : BOOLEAN, of : {None} \cup Submission]
Readers == {"submit", "load"}

NoRead == [state |-> "idle", seen |-> {}, fresh |-> FALSE, of |-> None]

TypeOK ==
    /\ conversation \in {"absent", "open", "deleted"}
    /\ server \in [Sends -> {"unsent", "sent", "stored", "answered", "failed", "dropped"}]
    /\ rows \in SUBSET Sends
    /\ posts \in [Sends -> Nat]
    /\ wire \in [Sends -> {"none", "waiting", "ok", "refused", "broken", "aborted"}]
    /\ history = None \/ history \in SUBSET Sends
    /\ submission = None \/ submission \in Submission
    /\ local = None \/ local \in Submission
    /\ aborted \in BOOLEAN
    /\ reads \in [Readers -> Read]
    /\ at \in BOOLEAN
    /\ error \in {"none", "failed", "missing"}
    /\ deletion \in {"none", "asked", "done", "failed", "over"}
    /\ submission # None /\ submission.acknowledged => submission.phase = "settled"

Init ==
    /\ conversation = "absent"
    /\ server = [s \in Sends |-> "unsent"]
    /\ rows = {}
    /\ posts = [s \in Sends |-> 0]
    /\ wire = [s \in Sends |-> "none"]
    /\ history = None
    /\ submission = None
    /\ local = None
    /\ aborted = FALSE
    /\ reads = [r \in Readers |-> NoRead]
    /\ at = FALSE
    /\ error = "none"
    /\ deletion = "none"

-----------------------------------------------------------------------------
(* What the hook and the page decide.                                      *)

NewSubmission(s, before, phase) ==
    [send |-> s, previous |-> before, phase |-> phase, stopped |-> FALSE,
     persistence |-> "unknown", postError |-> FALSE, syncError |-> FALSE,
     definitive |-> FALSE, acknowledged |-> FALSE]

Loading == reads["load"].state # "idle"
Pending == submission # None /\ submission.phase # "settled"
IsSending == Loading \/ Pending

\* A submission the user still has to look at.
Recovery(u) == u # None /\ ~u.acknowledged /\ (u.postError \/ u.syncError)

\* Every answer that is an error status is final, except 408, 502 and 504, which
\* the model counts with the broken connections.
DefinitiveAlways(w) == w \in {"refused", "broken"}
Definitive(w) == w = "refused"

\* A user message of this content that was not there before the send.
PersistenceByContent(u, seen) ==
    IF \E r \in seen : ContentOf[r] = ContentOf[u.send] THEN "saved"
    ELSE IF u.definitive THEN "not-saved" ELSE "unknown"
Persistence(u, seen) ==
    IF \E r \in seen \ u.previous : ContentOf[r] = ContentOf[u.send] THEN "saved"
    ELSE IF u.definitive THEN "not-saved" ELSE "unknown"

Reconciled(u, seen) ==
    [u EXCEPT !.phase = "settled", !.syncError = FALSE,
              !.acknowledged = @ \/ u.stopped,
              !.persistence = IF u.postError \/ u.stopped THEN Persistence(u, seen)
                              ELSE "saved"]
ReadFailedUnnoticed(u) == u
ReadFailed(u) == [u EXCEPT !.phase = "settled", !.syncError = TRUE]

\* The dialog covers the page until the answer to its request has been handled.
Controls == at /\ error # "missing" /\ deletion \in {"none", "over"}

MayAcknowledgePending ==
    /\ Recovery(submission) /\ ~submission.stopped
    /\ ~submission.syncError
    /\ ~Loading
MayAcknowledge ==
    /\ Recovery(submission) /\ ~submission.stopped
    /\ submission.phase = "settled" /\ ~submission.syncError
    /\ ~Loading

MayReload ==
    /\ ~Loading /\ ~Pending
    /\ IF submission # None /\ submission.stopped THEN submission.syncError
       ELSE error # "none" \/ Recovery(submission)

MayCompose ==
    /\ history # None
    /\ error = "none"
    /\ ~Recovery(submission)
    /\ ~Loading /\ ~Pending

-----------------------------------------------------------------------------
(* History reads.                                                          *)

\* Starting a read makes every earlier one out of date.
Stale == [r \in Readers |-> [reads[r] EXCEPT !.fresh = FALSE]]
StartRead(r, u) ==
    reads' = [Stale EXCEPT ![r] = [state |-> "asked", seen |-> {}, fresh |-> TRUE, of |-> u]]

\* loadHistory: joins the load in flight, does nothing while a submission is
\* pending, and otherwise reads, reconciling a submission that needs it.
LoadHistory ==
    IF IsSending THEN UNCHANGED reads
    ELSE StartRead("load", IF Recovery(submission) THEN submission ELSE None)

ServeRead(r) ==
    /\ reads[r].state = "asked"
    /\ \/ /\ conversation = "open"
          /\ reads' = [reads EXCEPT ![r].state = "answered", ![r].seen = rows]
       \/ /\ conversation = "deleted"
          /\ reads' = [reads EXCEPT ![r].state = "missing"]
    /\ UNCHANGED <<backend, network, history, submission, local, aborted, page, deletion>>

BreakRead(r) ==
    /\ reads[r].state = "asked"
    /\ reads' = [reads EXCEPT ![r].state = "failed"]
    /\ UNCHANGED <<backend, network, history, submission, local, aborted, page, deletion>>

EndRead(r) ==
    /\ reads' = [reads EXCEPT ![r] = NoRead]
    /\ local' = IF r = "submit" THEN None ELSE local
    /\ UNCHANGED <<backend, network, aborted, at, deletion>>

ReadArrives(r) ==
    LET read == reads[r] IN
    /\ read.state = "answered"
    /\ history' = IF read.fresh THEN read.seen ELSE history
    /\ submission' = IF read.of = None THEN submission
                     ELSE Reconciled(read.of, read.seen)
    /\ EndRead(r)
    /\ UNCHANGED error

\* Without a submission to reconcile the error is the page's, if it is mounted.
ReadFails(r) ==
    LET read == reads[r] IN
    /\ read.state \in {"failed", "missing"}
    /\ submission' = IF read.of = None THEN submission ELSE ReadFailed(read.of)
    /\ error' = IF read.of = None /\ at THEN read.state ELSE error
    /\ EndRead(r)
    /\ UNCHANGED history

-----------------------------------------------------------------------------
(* The user's conversation: create, open, leave, reload, acknowledge.      *)

\* createNew, with or without a first question.
CreateNew(first) ==
    /\ conversation = "absent"
    /\ conversation' = "open"
    /\ IF first = None THEN UNCHANGED <<history, submission>>
       ELSE history' = {} /\ submission' = NewSubmission(first, {}, "queued")
    /\ UNCHANGED <<server, rows, network, local, aborted, reads, page, deletion>>

Open ==
    /\ conversation # "absent" /\ ~at
    /\ at' = TRUE
    /\ error' = "none"
    /\ LoadHistory
    /\ UNCHANGED <<backend, network, history, submission, local, aborted, deletion>>

Leave ==
    /\ at
    /\ at' = FALSE
    /\ error' = "none"
    /\ UNCHANGED <<backend, network, history, submission, local, aborted, reads, deletion>>

Reload ==
    /\ Controls /\ MayReload
    /\ error' = "none"
    /\ LoadHistory
    /\ UNCHANGED <<backend, network, history, submission, local, aborted, at, deletion>>

Acknowledge ==
    /\ Controls /\ MayAcknowledge
    /\ submission' = [submission EXCEPT !.acknowledged = TRUE]
    /\ UNCHANGED <<backend, network, history, local, aborted, reads, page, deletion>>

-----------------------------------------------------------------------------
(* submitMessage and stopMessage.                                          *)

\* The claim saved before anything is awaited.
ClaimedLate(s) == NewSubmission(s, history, "queued")
Claimed(s) == NewSubmission(s, history, "sending")

Submit(s) ==
    /\ submission' = Claimed(s)
    /\ local' = Claimed(s)
    /\ aborted' = FALSE
    /\ reads' = Stale
    /\ posts' = [posts EXCEPT ![s] = @ + 1]
    /\ wire' = [wire EXCEPT ![s] = "waiting"]
    /\ server' = [server EXCEPT ![s] = "sent"]
    /\ UNCHANGED <<conversation, rows, history, page, deletion>>

Send(s) ==
    /\ Controls /\ MayCompose
    /\ posts[s] = 0
    /\ Submit(s)

\* The provider's effect, once the page of the conversation is the URL.
SendQueued ==
    /\ at /\ history # None
    /\ submission # None /\ submission.phase = "queued"
    /\ Submit(submission.send)

Stop ==
    /\ Controls
    /\ submission # None /\ submission.phase = "sending"
    /\ submission' = [submission EXCEPT !.phase = "stopping", !.stopped = TRUE]
    /\ aborted' = TRUE
    /\ wire' = [wire EXCEPT ![submission.send] = IF @ = "waiting" THEN "aborted" ELSE @]
    /\ UNCHANGED <<backend, posts, history, local, reads, page, deletion>>

\* After the POST ended: what is carried on, where a stop wins over any answer.
Ended(u) ==
    LET w == wire[u.send] IN
    [u EXCEPT !.phase = "reconciling", !.stopped = aborted,
              !.postError = ~aborted /\ w # "ok",
              !.definitive = ~aborted /\ Definitive(w)]

SendEnds ==
    /\ local # None /\ local.phase = "sending"
    /\ wire[local.send] # "waiting"
    /\ submission' = Ended(local)
    /\ local' = Ended(local)
    /\ StartRead("submit", Ended(local))
    /\ UNCHANGED <<backend, network, history, aborted, page, deletion>>

-----------------------------------------------------------------------------
(* The server and the network, as the browser can meet them.               *)

client == <<posts, history, submission, local, aborted, reads, page, deletion>>

\* The question is committed before anything else is done with it.
Store(s) ==
    /\ server[s] = "sent" /\ conversation = "open"
    /\ server' = [server EXCEPT ![s] = "stored"]
    /\ rows' = rows \cup {s}
    /\ UNCHANGED <<conversation, wire, client>>

Answer(s) ==
    /\ server[s] = "stored" /\ conversation = "open"
    /\ server' = [server EXCEPT ![s] = "answered"]
    /\ UNCHANGED <<conversation, rows, wire, client>>

\* Refused before the question is stored, or failed after it.
Fail(s) ==
    /\ server[s] \in {"sent", "stored"}
    /\ server' = [server EXCEPT ![s] = "failed"]
    /\ UNCHANGED <<conversation, rows, wire, client>>

\* The request never reaches the server.
Drop(s) ==
    /\ server[s] = "sent"
    /\ server' = [server EXCEPT ![s] = "dropped"]
    /\ UNCHANGED <<conversation, rows, wire, client>>

Reply(s) ==
    /\ wire[s] = "waiting"
    /\ \/ server[s] = "answered" /\ wire' = [wire EXCEPT ![s] = "ok"]
       \/ server[s] = "failed" /\ wire' = [wire EXCEPT ![s] = "refused"]
    /\ UNCHANGED <<backend, client>>

\* A lost connection or a gateway's timeout; the server may go on.
Break(s) ==
    /\ wire[s] = "waiting"
    /\ wire' = [wire EXCEPT ![s] = "broken"]
    /\ UNCHANGED <<backend, client>>

-----------------------------------------------------------------------------
(* confirmDelete.                                                          *)

ConfirmDelete ==
    /\ conversation # "absent" /\ deletion = "none"
    /\ ~IsSending
    /\ deletion' = "asked"
    /\ UNCHANGED <<backend, network, history, submission, local, aborted, reads, page>>

ServeDelete ==
    /\ deletion = "asked" /\ conversation = "open"
    /\ conversation' = "deleted"
    /\ deletion' \in {"done", "failed"}
    /\ UNCHANGED <<server, rows, network, history, submission, local, aborted, reads, page>>

RefuseDelete ==
    /\ deletion = "asked"
    /\ deletion' = "failed"
    /\ UNCHANGED <<backend, network, history, submission, local, aborted, reads, page>>

\* forget: what the provider holds goes, and reads in flight come too late.
ForgetKeepingReads == history' = None /\ submission' = None /\ UNCHANGED reads
Forget == history' = None /\ submission' = None /\ reads' = Stale

DeleteReturns ==
    \/ /\ deletion = "done"
       /\ Forget
       /\ deletion' = "over"
       /\ at' = FALSE
       /\ error' = "none"
       /\ UNCHANGED <<backend, network, local, aborted>>
    \/ /\ deletion = "failed"
       /\ deletion' = "none"
       /\ UNCHANGED <<backend, network, history, submission, local, aborted, reads, page>>

-----------------------------------------------------------------------------
Unsent == {s \in Sends : posts[s] = 0}

Serve(s) == Store(s) \/ Answer(s) \/ Fail(s) \/ Drop(s) \/ Reply(s) \/ Break(s)
Reading(r) == ServeRead(r) \/ BreakRead(r) \/ ReadArrives(r) \/ ReadFails(r)

Next ==
    \/ \E s \in Sends : Send(s) \/ Serve(s)
    \/ \E r \in Readers : Reading(r)
    \/ \E first \in Sends \cup {None} : CreateNew(first)
    \/ Open \/ Leave \/ Reload \/ Acknowledge
    \/ SendQueued \/ Stop \/ SendEnds
    \/ ConfirmDelete \/ ServeDelete \/ RefuseDelete \/ DeleteReturns

Spec == Init /\ [][Next]_vars

\* A request ends in an answer or an error, and the browser runs what waits for it.
FairSpec ==
    /\ Spec
    /\ \A s \in Sends : WF_vars(Reply(s) \/ Break(s))
    /\ WF_vars(SendEnds)
    /\ \A r \in Readers :
        /\ WF_vars(ServeRead(r) \/ BreakRead(r))
        /\ WF_vars(ReadArrives(r) \/ ReadFails(r))

-----------------------------------------------------------------------------
(* Properties.                                                             *)

\* No question is POSTed twice, whatever is stopped, retried, reopened or lost.
PostedAtMostOnce == \A s \in Sends : posts[s] <= 1

\* When the page offers to restore a draft because the question was not saved,
\* the server does not have it and will not store it later.
NotSavedIsTrue ==
    submission # None /\ submission.persistence = "not-saved" =>
        /\ submission.send \notin rows
        /\ server[submission.send] \in {"failed", "dropped"}

\* What the page calls saved, the server has, and it is no question that stood in
\* the history this one was written under: an identical earlier turn that the user
\* saw does not count, however late or out of date the reads are.
SavedQuestionIsNew ==
    submission # None /\ submission.persistence = "saved" =>
        \E r \in rows \ submission.previous : ContentOf[r] = ContentOf[submission.send]

\* The history of a deleted conversation does not come back into the provider.
ForgottenStaysForgotten == deletion = "over" => history = None

\* Every POST's submission settles, so the composer does not stay busy.
SubmissionsSettle ==
    \A s \in Sends :
        posts[s] > 0 ~> ~(Pending /\ submission.send = s)
=============================================================================
