------------------------ MODULE MessageSubmissionProofs ------------------------
(***************************************************************************)
(* The safety properties of MessageSubmission, for any number of sends.    *)
(* What the page says of a send rests on three facts that no single step   *)
(* establishes: which send the running submitMessage and the reads in      *)
(* flight belong to (FlowInv), that a history the user may write under     *)
(* shows every question whose fate the browser has heard of (HistoryInv),  *)
(* and what each submission on its way may claim (Sound).                  *)
(***************************************************************************)
EXTENDS MessageSubmission, TLAPS

(* A send and its POST: the server knows what was posted, stores what it     *)
(* answers, and the browser hears what the server has decided.               *)
SendInv ==
    \A s \in Sends :
        /\ posts[s] <= 1
        /\ posts[s] = 0 <=> wire[s] = "none"
        /\ posts[s] = 0 <=> server[s] = "unsent"
        /\ s \in rows => server[s] \in {"stored", "answered", "failed"}
        /\ server[s] \in {"stored", "answered"} => s \in rows
        /\ wire[s] = "ok" => server[s] = "answered"
        /\ wire[s] = "refused" => server[s] = "failed"

\* Before its creation is answered a conversation has nothing.
AbsentInv ==
    conversation = "absent" =>
        /\ \A s \in Sends : posts[s] = 0
        /\ ~at /\ history = None /\ submission = None /\ deletion = "none"
        /\ \A r \in Readers : reads[r].state = "idle"

\* The running submitMessage and its submission are about the same send.
RunningInv ==
    local # None =>
        /\ submission # None /\ submission.send = local.send
        /\ submission.phase \in {"sending", "stopping", "reconciling"}
        /\ reads["load"].state = "idle"
        /\ \/ local.phase = "sending" /\ reads["submit"].state = "idle"
           \/ /\ local.phase = "reconciling"
              /\ submission = local /\ reads["submit"].of = local

ReadInv ==
    /\ \A r \in Readers : reads[r].state = "idle" => reads[r] = NoRead
    /\ \A r \in Readers : ~reads[r].fresh => reads[r].state = "idle" \/ deletion = "over"
    /\ reads["submit"].state # "idle" => local # None /\ local.phase = "reconciling"
    /\ Loading =>
        /\ ~Pending
        /\ LET u == reads["load"].of IN
           u # None => submission \in {None, u} /\ u.phase = "settled" /\ ~u.acknowledged

WaitingInv ==
    \A s \in Sends : wire[s] = "waiting" =>
        local # None /\ local.send = s /\ local.phase = "sending"

QueuedInv ==
    submission # None /\ submission.phase = "queued" => \A s \in Sends : posts[s] = 0

DeletionInv ==
    /\ deletion # "none" => ~Pending
    /\ deletion \in {"done", "over"} => conversation = "deleted"
    /\ deletion = "over" =>
        history = None /\ \A r \in Readers : reads[r].state = "answered" => ~reads[r].fresh

FlowInv == AbsentInv /\ RunningInv /\ ReadInv /\ WaitingInv /\ QueuedInv /\ DeletionInv

\* The browser has heard that the server is done with the send.
Heard(s) == wire[s] \in {"ok", "refused"}

(* A history under which the user may write shows every stored question that *)
(* the browser has heard of.                                                 *)
HistoryInv ==
    /\ history # None => history \subseteq rows
    /\ history # None => \A s \in rows : Heard(s) =>
        \/ s \in history
        \/ submission # None /\ submission.send = s /\ (Pending \/ submission.syncError)
    /\ \A r \in Readers :
        /\ reads[r].seen \subseteq rows
        /\ reads[r].state = "answered" /\ reads[r].fresh =>
             \A s \in rows : Heard(s) => s \in reads[r].seen
        /\ LET u == reads[r].of IN
           reads[r].state = "answered" /\ u # None /\ u.definitive /\ u.send \in rows =>
             u.send \in reads[r].seen

(* What a submission may say, wherever it is carried.  The state of server,  *)
(* table and network is a parameter, so that the same submission can be      *)
(* looked at before and after a step.                                        *)
Sound(u, sv, rs, w) ==
    /\ u.send \notin u.previous /\ u.previous \subseteq rs
    /\ u.definitive => sv[u.send] = "failed"
    /\ u.phase \in {"reconciling", "settled"} /\ ~u.postError /\ ~u.stopped => u.send \in rs
    /\ \A r \in rs \ u.previous : r = u.send \/ w[r] \in {"broken", "aborted"}
    /\ u.persistence = "not-saved" =>
        u.send \notin rs /\ sv[u.send] \in {"failed", "dropped"}
    /\ u.persistence = "saved" =>
        \E r \in rs \ u.previous : ContentOf[r] = ContentOf[u.send]
    /\ u.acknowledged => u.phase = "settled" /\ ~u.syncError

SoundInv ==
    /\ submission # None => Sound(submission, server, rows, wire)
    /\ local # None => Sound(local, server, rows, wire)
    /\ \A r \in Readers :
        reads[r].of # None => Sound(reads[r].of, server, rows, wire)

SubmissionInv == TypeOK /\ SendInv /\ FlowInv /\ HistoryInv /\ SoundInv

-----------------------------------------------------------------------------
(* What the operators on submissions and reads give.                       *)

LEMMA SubmissionFields ==
    ASSUME NEW u \in Submission
    PROVE  /\ u.send \in Sends /\ u.previous \in SUBSET Sends /\ u.phase \in Phases
           /\ u.persistence \in {"saved", "not-saved", "unknown"}
           /\ u.stopped \in BOOLEAN /\ u.postError \in BOOLEAN /\ u.syncError \in BOOLEAN
           /\ u.definitive \in BOOLEAN /\ u.acknowledged \in BOOLEAN
  BY DEF Submission

LEMMA NewSubmissionIs ==
    ASSUME NEW s \in Sends, NEW b \in SUBSET Sends, NEW p \in Phases
    PROVE  LET u == NewSubmission(s, b, p) IN
           /\ u \in Submission
           /\ u.send = s /\ u.previous = b /\ u.phase = p /\ u.persistence = "unknown"
           /\ ~u.stopped /\ ~u.postError /\ ~u.syncError /\ ~u.definitive /\ ~u.acknowledged
  BY DEF NewSubmission, Submission

LEMMA ReconciledIs ==
    ASSUME NEW u \in Submission, NEW seen \in SUBSET Sends
    PROVE  LET v == Reconciled(u, seen) IN
           /\ v \in Submission
           /\ v.send = u.send /\ v.previous = u.previous /\ v.phase = "settled"
           /\ v.stopped = u.stopped /\ v.postError = u.postError /\ ~v.syncError
           /\ v.definitive = u.definitive
           /\ v.persistence = IF u.postError \/ u.stopped THEN Persistence(u, seen) ELSE "saved"
<1>1. Persistence(u, seen) \in {"saved", "not-saved", "unknown"}
  BY DEF Persistence
<1> DEFINE v == Reconciled(u, seen)
<1>2. v \in Submission
  BY <1>1 DEF Reconciled, Submission, Phases
<1>3. v.phase = "settled" /\ v.syncError = FALSE /\ v.persistence =
        IF u.postError \/ u.stopped THEN Persistence(u, seen) ELSE "saved"
  BY DEF Reconciled, Submission
<1>4. /\ v.send = u.send /\ v.previous = u.previous /\ v.stopped = u.stopped
      /\ v.postError = u.postError /\ v.definitive = u.definitive
  BY DEF Reconciled, Submission
<1> QED
  BY <1>2, <1>3, <1>4

LEMMA ReadFailedIs ==
    ASSUME NEW u \in Submission
    PROVE  LET v == ReadFailed(u) IN
           /\ v \in Submission
           /\ v.send = u.send /\ v.previous = u.previous /\ v.phase = "settled"
           /\ v.stopped = u.stopped /\ v.postError = u.postError /\ v.syncError
           /\ v.definitive = u.definitive /\ v.persistence = u.persistence
           /\ v.acknowledged = u.acknowledged
<1> DEFINE v == ReadFailed(u)
<1>1. v \in Submission
  BY DEF ReadFailed, Submission, Phases
<1>2. v.phase = "settled" /\ v.syncError = TRUE
  BY DEF ReadFailed, Submission
<1> QED
  BY <1>1, <1>2 DEF ReadFailed, Submission

LEMMA EndedIs ==
    ASSUME TypeOK, NEW u \in Submission
    PROVE  LET v == Ended(u) IN
           /\ v \in Submission
           /\ v.send = u.send /\ v.previous = u.previous /\ v.phase = "reconciling"
           /\ v.stopped = aborted /\ v.syncError = u.syncError
           /\ v.postError = (~aborted /\ wire[u.send] # "ok")
           /\ v.definitive = (~aborted /\ wire[u.send] = "refused")
           /\ v.persistence = u.persistence /\ v.acknowledged = u.acknowledged
<1>1. aborted \in BOOLEAN
  BY DEF TypeOK
<1> QED
  BY <1>1 DEF Ended, Definitive, Phases, Submission

LEMMA ReadFields ==
    ASSUME NEW read \in Read
    PROVE  /\ read.state \in {"idle", "asked", "answered", "missing", "failed"}
           /\ read.seen \in SUBSET Sends /\ read.fresh \in BOOLEAN
           /\ read.of \in {None} \cup Submission
  BY DEF Read

LEMMA NoReadIs ==
    /\ NoRead \in Read
    /\ NoRead.state = "idle" /\ NoRead.seen = {} /\ ~NoRead.fresh /\ NoRead.of = None
  BY DEF NoRead, Read

LEMMA StaleIs ==
    ASSUME TypeOK
    PROVE  /\ Stale \in [Readers -> Read]
           /\ \A r \in Readers :
                /\ Stale[r].state = reads[r].state /\ Stale[r].seen = reads[r].seen
                /\ Stale[r].of = reads[r].of /\ ~Stale[r].fresh
                /\ reads[r] = NoRead => Stale[r] = NoRead
<1>1. \A r \in Readers : reads[r] \in Read
  BY DEF TypeOK
<1>2. \A r \in Readers : [reads[r] EXCEPT !.fresh = FALSE] \in Read
  BY <1>1 DEF Read
<1> QED
  BY <1>1, <1>2 DEF Stale, Read, NoRead

LEMMA StartReadIs ==
    ASSUME TypeOK, NEW r \in Readers, NEW u \in {None} \cup Submission, StartRead(r, u)
    PROVE  /\ reads' \in [Readers -> Read]
           /\ reads'[r].state = "asked" /\ reads'[r].seen = {}
           /\ reads'[r].fresh /\ reads'[r].of = u
           /\ \A q \in Readers \ {r} : reads'[q] = Stale[q]
<1>1. [state |-> "asked", seen |-> {}, fresh |-> TRUE, of |-> u] \in Read
  BY DEF Read
<1> QED
  BY <1>1, StaleIs DEF StartRead

LEMMA EndReadIs ==
    ASSUME TypeOK, NEW r \in Readers, EndRead(r)
    PROVE  /\ reads' \in [Readers -> Read]
           /\ reads'[r] = NoRead
           /\ \A q \in Readers \ {r} : reads'[q] = reads[q]
  BY NoReadIs DEF TypeOK, EndRead

LEMMA ServeReadIs ==
    ASSUME TypeOK, NEW r \in Readers, ServeRead(r) \/ BreakRead(r)
    PROVE  /\ reads' \in [Readers -> Read]
           /\ reads[r].state = "asked"
           /\ \A q \in Readers \ {r} : reads'[q] = reads[q]
           /\ reads'[r].of = reads[r].of /\ reads'[r].fresh = reads[r].fresh
           /\ \/ reads'[r].state = "answered" /\ reads'[r].seen = rows /\ conversation = "open"
              \/ reads'[r].state \in {"missing", "failed"} /\ reads'[r].seen = reads[r].seen
<1> USE DEF TypeOK, Read
<1>1. CASE BreakRead(r)
  BY <1>1 DEF BreakRead
<1>2. CASE ServeRead(r)
  BY <1>2 DEF ServeRead
<1> QED
  BY <1>1, <1>2

-----------------------------------------------------------------------------
(* Types.                                                                  *)

SubmissionTypes ==
    /\ submission = None \/ submission \in Submission
    /\ local = None \/ local \in Submission
    /\ submission # None /\ submission.acknowledged => submission.phase = "settled"

SendTypes ==
    /\ server \in [Sends -> {"unsent", "sent", "stored", "answered", "failed", "dropped"}]
    /\ rows \in SUBSET Sends
    /\ posts \in [Sends -> Nat]
    /\ wire \in [Sends -> {"none", "waiting", "ok", "refused", "broken", "aborted"}]

PageTypes ==
    /\ conversation \in {"absent", "open", "deleted"}
    /\ history = None \/ history \in SUBSET Sends
    /\ aborted \in BOOLEAN
    /\ at \in BOOLEAN
    /\ error \in {"none", "failed", "missing"}
    /\ deletion \in {"none", "asked", "done", "failed", "over"}

ReadTypes == reads \in [Readers -> Read]

LEMMA TypesAre ==
    /\ TypeOK <=> SubmissionTypes /\ SendTypes /\ PageTypes /\ ReadTypes
    /\ TypeOK' <=> SubmissionTypes' /\ SendTypes' /\ PageTypes' /\ ReadTypes'
  BY DEF TypeOK, SubmissionTypes, SendTypes, PageTypes, ReadTypes

LEMMA SubmitTypes ==
    ASSUME TypeOK, NEW s \in Sends, Submit(s), history # None
    PROVE  TypeOK'
<1>1. Claimed(s) \in Submission /\ ~Claimed(s).acknowledged
  BY NewSubmissionIs DEF Claimed, TypeOK, Phases
<1>2. SubmissionTypes'
  BY <1>1 DEF Submit, SubmissionTypes
<1>3. SendTypes'
  BY DEF Submit, SendTypes, TypeOK
<1>4. PageTypes'
  BY DEF Submit, PageTypes, TypeOK, page
<1>5. ReadTypes'
  BY StaleIs DEF Submit, ReadTypes
<1> QED
  BY <1>2, <1>3, <1>4, <1>5, TypesAre

LEMMA LoadTypes ==
    ASSUME TypeOK, LoadHistory
    PROVE  reads' \in [Readers -> Read]
  BY StartReadIs DEF LoadHistory, TypeOK, Readers

LEMMA TypeStep ==
    SubmissionInv /\ [Next]_vars => TypeOK'
<1>0. SUFFICES ASSUME SubmissionInv, [Next]_vars PROVE TypeOK'
  OBVIOUS
<1>t. SubmissionTypes /\ SendTypes /\ PageTypes /\ ReadTypes /\ TypeOK
  BY <1>0, TypesAre DEF SubmissionInv
<1>s. ASSUME NEW s \in Sends, Serve(s) PROVE TypeOK'
  <2>1. SendTypes'
    <3> USE <1>t DEF SendTypes, backend, client
    <3>1. CASE Store(s)
      BY <3>1 DEF Store
    <3>2. CASE Answer(s)
      BY <3>2 DEF Answer
    <3>3. CASE Fail(s)
      BY <3>3 DEF Fail
    <3>4. CASE Drop(s)
      BY <3>4 DEF Drop
    <3>5. CASE Reply(s)
      BY <3>5 DEF Reply
    <3>6. CASE Break(s)
      BY <3>6 DEF Break
    <3> QED
      BY <1>s, <3>1, <3>2, <3>3, <3>4, <3>5, <3>6 DEF Serve
  <2>2. UNCHANGED client /\ UNCHANGED conversation
    BY <1>s DEF Serve, Store, Answer, Fail, Drop, Reply, Break, backend
  <2> QED
    BY <1>t, <2>1, <2>2, TypesAre DEF client, page, SubmissionTypes, PageTypes, ReadTypes
<1>1. ASSUME NEW s \in Sends, Send(s) PROVE TypeOK'
  BY <1>t, <1>1, SubmitTypes DEF Send, MayCompose
<1>2. CASE SendQueued
  BY <1>t, <1>2, SubmitTypes, SubmissionFields DEF SendQueued, SubmissionTypes
<1>3. ASSUME NEW r \in Readers, Reading(r) PROVE TypeOK'
  <2>0. reads[r] \in Read
    BY <1>t DEF ReadTypes
  <2>1. CASE ServeRead(r) \/ BreakRead(r)
    <3>1. UNCHANGED <<backend, network, history, submission, local, aborted, page, deletion>>
      BY <2>1 DEF ServeRead, BreakRead
    <3> QED
      BY <1>t, <2>1, <3>1, ServeReadIs, TypesAre
         DEF backend, network, page, SubmissionTypes, SendTypes, PageTypes, ReadTypes
  <2>2. CASE ReadArrives(r)
    <3>1. ReadTypes'
      BY <1>t, <2>2, EndReadIs DEF ReadArrives, ReadTypes
    <3>2. SubmissionTypes'
      BY <1>t, <2>0, <2>2, ReconciledIs, ReadFields
         DEF ReadArrives, EndRead, SubmissionTypes
    <3>3. PageTypes'
      BY <1>t, <2>0, <2>2, ReadFields DEF ReadArrives, EndRead, PageTypes, backend
    <3>4. SendTypes'
      BY <1>t, <2>2 DEF ReadArrives, EndRead, SendTypes, backend, network
    <3> QED
      BY <3>1, <3>2, <3>3, <3>4, TypesAre
  <2>3. CASE ReadFails(r)
    <3>1. ReadTypes'
      BY <1>t, <2>3, EndReadIs DEF ReadFails, ReadTypes
    <3>2. SubmissionTypes'
      BY <1>t, <2>0, <2>3, ReadFailedIs, ReadFields
         DEF ReadFails, EndRead, SubmissionTypes
    <3>3. PageTypes'
      BY <1>t, <2>0, <2>3, ReadFields DEF ReadFails, EndRead, PageTypes, backend
    <3>4. SendTypes'
      BY <1>t, <2>3 DEF ReadFails, EndRead, SendTypes, backend, network
    <3> QED
      BY <3>1, <3>2, <3>3, <3>4, TypesAre
  <2> QED
    BY <1>3, <2>1, <2>2, <2>3 DEF Reading
<1>4. ASSUME NEW first \in Sends \cup {None}, CreateNew(first) PROVE TypeOK'
  <2>1. first \in Sends => NewSubmission(first, {}, "queued") \in Submission
                           /\ ~NewSubmission(first, {}, "queued").acknowledged
    BY NewSubmissionIs DEF Phases
  <2>2. SubmissionTypes'
    BY <1>t, <1>4, <2>1 DEF CreateNew, SubmissionTypes
  <2>3. SendTypes' /\ PageTypes' /\ ReadTypes'
    BY <1>t, <1>4 DEF CreateNew, SendTypes, PageTypes, ReadTypes, network, page
  <2> QED
    BY <2>2, <2>3, TypesAre
<1>5. CASE Open \/ Reload
  <2>1. /\ UNCHANGED <<conversation, server, rows, posts, wire, history, submission, local,
                       aborted, deletion>>
        /\ at' \in BOOLEAN /\ error' = "none" /\ LoadHistory
    BY <1>t, <1>5 DEF Open, Reload, PageTypes, backend, network
  <2> QED
    BY <1>t, <2>1, LoadTypes, TypesAre DEF SubmissionTypes, SendTypes, PageTypes, ReadTypes
<1>6. CASE Leave
  BY <1>t, <1>6, TypesAre
     DEF Leave, SubmissionTypes, SendTypes, PageTypes, ReadTypes, backend, network
<1>7. CASE Acknowledge
  <2>1. submission' \in Submission /\ submission'.phase = "settled"
    BY <1>t, <1>7 DEF Acknowledge, MayAcknowledge, Recovery, SubmissionTypes, Submission
  <2> QED
    BY <1>t, <1>7, <2>1, TypesAre
       DEF Acknowledge, SubmissionTypes, SendTypes, PageTypes, ReadTypes, backend, network, page
<1>8. CASE Stop
  <2>1. /\ submission' \in Submission /\ submission'.acknowledged = submission.acknowledged
        /\ submission.phase = "sending" /\ submission # None
    BY <1>t, <1>8 DEF Stop, SubmissionTypes, Submission, Phases
  <2>2. SubmissionTypes'
    BY <1>t, <1>8, <2>1 DEF Stop, SubmissionTypes
  <2>3. SendTypes' /\ PageTypes' /\ ReadTypes'
    BY <1>t, <1>8 DEF Stop, SendTypes, PageTypes, ReadTypes, backend, page
  <2> QED
    BY <2>2, <2>3, TypesAre
<1>9. CASE SendEnds
  <2>1. local \in Submission /\ local # None /\ ~local.acknowledged
    <3>1. local \in Submission /\ local # None /\ local.phase = "sending"
      BY <1>t, <1>9 DEF SendEnds, SubmissionTypes
    <3> QED
      BY <1>0, <3>1, SubmissionFields DEF SubmissionInv, SoundInv, Sound
  <2>2. Ended(local) \in Submission /\ ~Ended(local).acknowledged
    BY <1>t, <2>1, EndedIs
  <2>3. SubmissionTypes'
    BY <1>9, <2>2 DEF SendEnds, SubmissionTypes
  <2>4. ReadTypes'
    BY <1>t, <1>9, <2>2, StartReadIs DEF SendEnds, ReadTypes, Readers
  <2>5. SendTypes' /\ PageTypes'
    BY <1>t, <1>9 DEF SendEnds, SendTypes, PageTypes, backend, network, page
  <2> QED
    BY <2>3, <2>4, <2>5, TypesAre
<1>10. CASE ConfirmDelete \/ ServeDelete \/ RefuseDelete
  BY <1>t, <1>10, TypesAre
     DEF ConfirmDelete, ServeDelete, RefuseDelete, SubmissionTypes, SendTypes, PageTypes,
         ReadTypes, backend, network, page
<1>11. CASE DeleteReturns
  BY <1>t, <1>11, StaleIs, TypesAre
     DEF DeleteReturns, Forget, SubmissionTypes, SendTypes, PageTypes,
         ReadTypes, backend, network, page
<1>12. CASE UNCHANGED vars
  BY <1>t, <1>12, TypesAre DEF vars, SubmissionTypes, SendTypes, PageTypes, ReadTypes
<1> QED
  BY <1>0, <1>s, <1>1, <1>2, <1>3, <1>4, <1>5, <1>6, <1>7, <1>8, <1>9, <1>10, <1>11, <1>12
     DEF Next
-----------------------------------------------------------------------------
(* Sends.                                                                  *)

\* The steps that leave sends, server and network as they are.
Quiet ==
    \/ \E r \in Readers : Reading(r)
    \/ \E first \in Sends \cup {None} : CreateNew(first)
    \/ Open \/ Leave \/ Reload \/ Acknowledge \/ SendEnds
    \/ ConfirmDelete \/ ServeDelete \/ RefuseDelete \/ DeleteReturns
    \/ UNCHANGED vars

LEMMA QuietIs == Quiet => UNCHANGED <<server, rows, posts, wire>>
<1> SUFFICES ASSUME Quiet PROVE UNCHANGED <<server, rows, posts, wire>>
  OBVIOUS
<1> USE DEF backend, network
<1>1. ASSUME NEW r \in Readers, Reading(r) PROVE UNCHANGED <<server, rows, posts, wire>>
  BY <1>1 DEF Reading, ServeRead, BreakRead, ReadArrives, ReadFails, EndRead
<1>2. ASSUME NEW first \in Sends \cup {None}, CreateNew(first)
      PROVE  UNCHANGED <<server, rows, posts, wire>>
  BY <1>2 DEF CreateNew
<1>3. CASE Open \/ Leave \/ Reload \/ Acknowledge \/ SendEnds
  BY <1>3 DEF Open, Leave, Reload, Acknowledge, SendEnds
<1>4. CASE ConfirmDelete \/ ServeDelete \/ RefuseDelete \/ DeleteReturns
  BY <1>4 DEF ConfirmDelete, ServeDelete, RefuseDelete, DeleteReturns
<1>5. CASE UNCHANGED vars
  BY <1>5 DEF vars
<1> QED
  BY <1>1, <1>2, <1>3, <1>4, <1>5 DEF Quiet

\* What holds whenever a submitMessage starts.
MaySubmit(s) ==
    /\ posts[s] = 0 /\ history # None /\ at
    /\ local = None /\ \A r \in Readers : reads[r] = NoRead
    /\ deletion \in {"none", "over"}
    /\ submission # None /\ submission.phase = "settled" => ~Recovery(submission)
    /\ ~Pending \/ (\A q \in Sends : posts[q] = 0)

LEMMA StepKinds ==
    ASSUME SubmissionInv, [Next]_vars
    PROVE  \/ Quiet
           \/ Stop
           \/ \E s \in Sends : Serve(s)
           \/ \E s \in Sends : MaySubmit(s) /\ Submit(s)
<1> USE DEF SubmissionInv
<1>r. ASSUME local = None, ~Loading PROVE \A r \in Readers : reads[r] = NoRead
  BY <1>r DEF FlowInv, ReadInv, Loading, Readers
<1>1. ASSUME NEW s \in Sends, Send(s) PROVE MaySubmit(s) /\ Submit(s)
  <2>1. local = None /\ ~Loading
    BY <1>1 DEF Send, MayCompose, Pending, FlowInv, RunningInv
  <2> QED
    BY <1>r, <1>1, <2>1 DEF Send, MayCompose, Controls, MaySubmit
<1>2. CASE SendQueued
  <2> DEFINE s == submission.send
  <2>1. s \in Sends
    BY <1>2, SubmissionFields DEF SendQueued, TypeOK
  <2>2. local = None
    BY <1>2 DEF SendQueued, FlowInv, RunningInv
  <2>3. ~Loading /\ deletion = "none"
    BY <1>2 DEF SendQueued, FlowInv, ReadInv, DeletionInv, Pending
  <2>4. \A q \in Sends : posts[q] = 0
    BY <1>2 DEF SendQueued, FlowInv, QueuedInv
  <2>5. MaySubmit(s)
    BY <1>r, <1>2, <2>1, <2>2, <2>3, <2>4 DEF SendQueued, MaySubmit
  <2> QED
    BY <1>2, <2>1, <2>5 DEF SendQueued
<1> QED
  BY <1>1, <1>2 DEF Next, Quiet

LEMMA SendStep ==
    SubmissionInv /\ [Next]_vars => SendInv'
<1>0. SUFFICES ASSUME SubmissionInv, [Next]_vars PROVE SendInv'
  OBVIOUS
<1>t. SendTypes
  BY <1>0, TypesAre DEF SubmissionInv
<1> USE <1>t DEF SubmissionInv, SendInv, SendTypes
<1>1. CASE Quiet
  BY <1>0, <1>1, QuietIs
<1>2. CASE Stop
  BY <1>0, <1>2 DEF Stop, backend
<1>3. ASSUME NEW s \in Sends, MaySubmit(s), Submit(s) PROVE SendInv'
  BY <1>0, <1>3 DEF MaySubmit, Submit
<1>4. ASSUME NEW s \in Sends, Serve(s) PROVE SendInv'
  <2> USE <1>0 DEF client, backend
  <2>1. CASE Store(s)
    BY <2>1 DEF Store
  <2>2. CASE Answer(s)
    BY <2>2 DEF Answer
  <2>3. CASE Fail(s)
    BY <2>3 DEF Fail
  <2>4. CASE Drop(s)
    BY <2>4 DEF Drop
  <2>5. CASE Reply(s)
    BY <2>5 DEF Reply
  <2>6. CASE Break(s)
    BY <2>6 DEF Break
  <2> QED
    BY <1>4, <2>1, <2>2, <2>3, <2>4, <2>5, <2>6 DEF Serve
<1> QED
  BY <1>0, <1>1, <1>2, <1>3, <1>4, StepKinds
-----------------------------------------------------------------------------
(* Which send the running submitMessage and the reads belong to.           *)

LEMMA FlowAfterSubmit ==
    ASSUME SubmissionInv, NEW s \in Sends, MaySubmit(s), Submit(s)
    PROVE  FlowInv'
<1> DEFINE u == Claimed(s)
<1>t. TypeOK
  BY DEF SubmissionInv
<1>1. u # None /\ u.send = s /\ u.phase = "sending"
  BY <1>t, NewSubmissionIs, NoneIsNoSubmission DEF Claimed, MaySubmit, TypeOK, Phases
<1>2. submission' = u /\ local' = u
  BY DEF Submit
<1> HIDE DEF u
<1>3. \A r \in Readers : reads'[r] = NoRead
  BY <1>t, StaleIs DEF MaySubmit, Submit
<1>4. deletion = "none" /\ deletion' = "none" /\ conversation # "absent"
  BY DEF SubmissionInv, MaySubmit, Submit, FlowInv, DeletionInv, AbsentInv
<1>5. AbsentInv' /\ QueuedInv' /\ DeletionInv'
  BY <1>1, <1>2, <1>4 DEF Submit, AbsentInv, QueuedInv, DeletionInv
<1>6. RunningInv' /\ ReadInv'
  BY <1>1, <1>2, <1>3, NoReadIs DEF RunningInv, ReadInv, Readers, Loading
<1>7. WaitingInv'
  BY <1>1, <1>2, <1>t DEF Submit, SubmissionInv, MaySubmit, FlowInv, WaitingInv, TypeOK
<1> QED
  BY <1>5, <1>6, <1>7 DEF FlowInv

LEMMA FlowAfterServe ==
    ASSUME SubmissionInv, NEW s \in Sends, Serve(s)
    PROVE  FlowInv'
<1>1. UNCHANGED client /\ UNCHANGED conversation
  BY DEF Serve, Store, Answer, Fail, Drop, Reply, Break, backend
<1>2. \A q \in Sends : wire'[q] = "waiting" => wire[q] = "waiting"
  BY DEF Serve, Store, Answer, Fail, Drop, Reply, Break, SubmissionInv, TypeOK
<1>3. /\ UNCHANGED <<conversation, posts, history, submission, local, reads, at, deletion>>
  BY <1>1 DEF client, page
<1> QED
  BY <1>2, <1>3
     DEF SubmissionInv, FlowInv, AbsentInv, RunningInv, ReadInv, WaitingInv, QueuedInv,
         DeletionInv, Loading, Pending

LEMMA FlowAfterStop ==
    ASSUME SubmissionInv, Stop
    PROVE  FlowInv'
<1>t. TypeOK /\ submission \in Submission /\ submission.phase = "sending" /\ submission # None
  BY DEF SubmissionInv, Stop, TypeOK
<1>1. /\ submission' # None /\ submission'.send = submission.send
      /\ submission'.phase = "stopping"
  <2>1. submission' \in Submission
    BY <1>t DEF Stop, Submission, Phases
  <2> QED
    BY <1>t, <2>1, NoneIsNoSubmission DEF Stop, Submission
<1>2. UNCHANGED <<conversation, posts, history, local, reads, at, deletion>>
  BY DEF Stop, backend, page
<1>3. \A q \in Sends : wire'[q] = "waiting" => wire[q] = "waiting"
  BY <1>t DEF Stop, TypeOK
<1>4. local # None => local.phase = "sending"
  BY <1>t DEF SubmissionInv, FlowInv, RunningInv
<1>5. ~Loading
  BY <1>t DEF SubmissionInv, FlowInv, ReadInv, Pending
<1>6. deletion = "none" /\ conversation # "absent"
  BY <1>t DEF SubmissionInv, FlowInv, DeletionInv, AbsentInv, Pending
<1> QED
  BY <1>t, <1>1, <1>2, <1>3, <1>4, <1>5, <1>6
     DEF SubmissionInv, FlowInv, AbsentInv, RunningInv, ReadInv, WaitingInv, QueuedInv,
         DeletionInv, Loading, Pending

LEMMA FlowAfterServedRead ==
    ASSUME SubmissionInv, NEW r \in Readers, ServeRead(r) \/ BreakRead(r)
    PROVE  FlowInv'
<1>1. UNCHANGED <<conversation, posts, wire, history, submission, local, at, deletion>>
  BY DEF ServeRead, BreakRead, backend, network, page
<1>2. /\ reads[r].state = "asked"
      /\ \A q \in Readers \ {r} : reads'[q] = reads[q]
      /\ reads'[r].of = reads[r].of /\ reads'[r].fresh = reads[r].fresh
      /\ reads'[r].state # "idle"
      /\ reads'[r].state = "answered" => conversation = "open"
  BY ServeReadIs DEF SubmissionInv
<1> USE <1>1, <1>2 DEF SubmissionInv, FlowInv
<1>3. AbsentInv' /\ WaitingInv' /\ QueuedInv'
  BY DEF AbsentInv, WaitingInv, QueuedInv
<1>4. RunningInv'
  BY DEF RunningInv, Readers
<1>5. ReadInv'
  BY DEF ReadInv, Loading, Pending, Readers
<1>6. DeletionInv'
  BY DEF DeletionInv, Pending
<1> QED
  BY <1>3, <1>4, <1>5, <1>6

\* What a read that ends makes of the submission it has carried.
Settles(r, v) ==
    /\ reads[r].of # None
    /\ v # None /\ v.send = reads[r].of.send /\ v.phase = "settled" /\ submission' = v

LEMMA FlowAfterRead ==
    ASSUME SubmissionInv, NEW r \in Readers, reads[r].state # "idle", EndRead(r),
           \/ reads[r].of = None /\ submission' = submission
           \/ \E v : Settles(r, v),
           \/ history' = history
           \/ reads[r].state = "answered" /\ reads[r].fresh
    PROVE  FlowInv'
<1> USE DEF SubmissionInv, FlowInv
<1>1. UNCHANGED <<conversation, posts, wire, at, deletion>>
  BY DEF EndRead, backend, network
<1>2. /\ reads'[r] = NoRead
      /\ \A q \in Readers \ {r} : reads'[q] = reads[q]
  BY EndReadIs
<1>3. conversation # "absent"
  BY DEF AbsentInv
<1>4. CASE r = "submit"
  <2>1. local # None /\ local' = None /\ reads["load"].state = "idle"
    BY <1>4 DEF EndRead, ReadInv, RunningInv
  <2>2. reads'["load"] = NoRead /\ reads'["submit"] = NoRead
    BY <1>2, <1>4, <2>1 DEF ReadInv, Readers
  <2>3. AbsentInv' /\ RunningInv'
    BY <1>1, <1>3, <2>1 DEF AbsentInv, RunningInv
  <2>4. ReadInv'
    BY <2>2, NoReadIs DEF ReadInv, Readers, Loading
  <2>5. reads["submit"].of = local /\ local.phase = "reconciling"
    BY <1>4, <2>1 DEF RunningInv
  <2>6. submission'.phase = "settled" /\ submission' # None
    BY <1>4, <2>1, <2>5 DEF Settles
  <2>7. WaitingInv'
    BY <1>1, <2>5 DEF WaitingInv
  <2>8. QueuedInv'
    BY <2>6 DEF QueuedInv
  <2>9. DeletionInv'
    BY <1>1, <2>2, <2>6, NoReadIs DEF DeletionInv, Pending, Readers
  <2> QED
    BY <2>3, <2>4, <2>7, <2>8, <2>9
<1>5. CASE r = "load"
  <2>1. local' = local /\ ~Pending /\ local = None /\ reads["submit"].state = "idle"
    BY <1>5 DEF EndRead, ReadInv, RunningInv, Loading, Readers
  <2>2. reads'["load"] = NoRead /\ reads'["submit"] = NoRead
    BY <1>2, <1>5, <2>1 DEF ReadInv, Readers
  <2>3. AbsentInv' /\ RunningInv'
    BY <1>1, <1>3, <2>1 DEF AbsentInv, RunningInv
  <2>4. ReadInv'
    BY <2>2, NoReadIs DEF ReadInv, Readers, Loading
  <2>5. submission' = None \/ submission'.phase = "settled"
    BY <2>1 DEF Settles, Pending
  <2>7. WaitingInv'
    BY <1>1, <2>1 DEF WaitingInv
  <2>8. QueuedInv'
    BY <2>5 DEF QueuedInv
  <2>9. DeletionInv'
    BY <1>1, <2>2, <2>5, NoReadIs, <1>5 DEF DeletionInv, Pending, Readers
  <2> QED
    BY <2>3, <2>4, <2>7, <2>8, <2>9
<1> QED
  BY <1>4, <1>5 DEF Readers

LEMMA ArrivedReadIs ==
    ASSUME SubmissionInv, NEW r \in Readers, ReadArrives(r)
    PROVE  \/ reads[r].of = None /\ submission' = submission
           \/ Settles(r, Reconciled(reads[r].of, reads[r].seen))
<1>1. reads[r] \in Read
  BY DEF SubmissionInv, TypeOK
<1>2. CASE reads[r].of # None
  <2>1. reads[r].of \in Submission /\ reads[r].seen \in SUBSET Sends
    BY <1>1, <1>2, ReadFields
  <2> QED
    BY <1>2, <2>1, ReconciledIs, NoneIsNoSubmission DEF ReadArrives, Settles
<1> QED
  BY <1>2 DEF ReadArrives

LEMMA FailedReadIs ==
    ASSUME SubmissionInv, NEW r \in Readers, ReadFails(r)
    PROVE  \/ reads[r].of = None /\ submission' = submission
           \/ Settles(r, ReadFailed(reads[r].of))
<1>1. reads[r] \in Read
  BY DEF SubmissionInv, TypeOK
<1>2. CASE reads[r].of # None
  <2>1. reads[r].of \in Submission
    BY <1>1, <1>2, ReadFields
  <2> QED
    BY <1>2, <2>1, ReadFailedIs, NoneIsNoSubmission DEF ReadFails, Settles
<1> QED
  BY <1>2 DEF ReadFails
(* A load starts only when nothing is under way, from either place that      *)
(* starts one.                                                               *)
LEMMA LoadHistoryIs ==
    ASSUME SubmissionInv, LoadHistory
    PROVE  \/ reads' = reads
           \/ /\ ~Pending /\ local = None /\ reads["submit"] = NoRead
              /\ reads'["submit"] = NoRead
              /\ reads'["load"].state = "asked" /\ reads'["load"].fresh
              /\ reads'["load"].seen = {}
              /\ \/ reads'["load"].of = None
                 \/ reads'["load"].of = submission /\ Recovery(submission)
<1>t. TypeOK
  BY DEF SubmissionInv
<1>1. CASE ~IsSending
  <2>1. local = None
    BY <1>1 DEF IsSending, Pending, SubmissionInv, FlowInv, RunningInv
  <2>2. reads["submit"] = NoRead
    BY <2>1 DEF SubmissionInv, FlowInv, ReadInv, Readers
  <2> DEFINE u == IF Recovery(submission) THEN submission ELSE None
  <2>3. u \in {None} \cup Submission /\ StartRead("load", u)
    BY <1>t, <1>1 DEF LoadHistory, TypeOK, Recovery
  <2>4. /\ reads'["load"].state = "asked" /\ reads'["load"].seen = {}
        /\ reads'["load"].fresh /\ reads'["load"].of = u
        /\ reads'["submit"] = NoRead
    BY <1>t, <2>2, <2>3, StartReadIs, StaleIs DEF Readers
  <2> QED
    BY <1>1, <2>1, <2>2, <2>4 DEF IsSending
<1> QED
  BY <1>1 DEF LoadHistory

LEMMA FlowAfterLoad ==
    ASSUME SubmissionInv, LoadHistory, conversation # "absent",
           UNCHANGED <<conversation, posts, wire, history, submission, local, deletion>>
    PROVE  FlowInv'
<1> USE DEF SubmissionInv, FlowInv
<1>1. AbsentInv' /\ WaitingInv' /\ QueuedInv'
  BY DEF AbsentInv, WaitingInv, QueuedInv
<1>2. CASE reads' = reads
  BY <1>1, <1>2 DEF RunningInv, ReadInv, DeletionInv, Loading, Pending
<1>3. CASE reads' # reads
  <2>1. /\ ~Pending /\ local = None
        /\ reads'["submit"] = NoRead
        /\ reads'["load"].state = "asked" /\ reads'["load"].fresh
        /\ \/ reads'["load"].of = None
           \/ reads'["load"].of = submission /\ Recovery(submission)
    BY <1>3, LoadHistoryIs
  <2>2. RunningInv'
    BY <2>1 DEF RunningInv
  <2>3. ReadInv'
    BY <2>1, NoReadIs DEF ReadInv, Loading, Pending, Readers, Recovery
  <2>4. DeletionInv'
    BY <2>1, NoReadIs DEF DeletionInv, Pending, Readers
  <2> QED
    BY <1>1, <2>2, <2>3, <2>4
<1> QED
  BY <1>2, <1>3

LEMMA FlowAfterSendEnds ==
    ASSUME SubmissionInv, SendEnds
    PROVE  FlowInv'
<1> DEFINE u == Ended(local)
<1>t. TypeOK /\ local \in Submission /\ local # None
  BY DEF SubmissionInv, SendEnds, TypeOK
<1>1. u \in Submission /\ u # None /\ u.send = local.send /\ u.phase = "reconciling"
  BY <1>t, EndedIs, NoneIsNoSubmission
<1>2. submission' = u /\ local' = u /\ StartRead("submit", u)
  BY DEF SendEnds
<1> HIDE DEF u
<1>3. UNCHANGED <<conversation, posts, wire, history, at, deletion>>
  BY DEF SendEnds, backend, network, page
<1>4. reads["load"] = NoRead
  BY <1>t DEF SubmissionInv, FlowInv, RunningInv, ReadInv, Readers
<1>5. /\ reads'["submit"].state = "asked" /\ reads'["submit"].fresh
      /\ reads'["submit"].of = u /\ reads'["load"] = NoRead
  BY <1>t, <1>1, <1>2, <1>4, StartReadIs, StaleIs DEF Readers
<1>6. /\ submission.phase \in {"sending", "stopping", "reconciling"}
      /\ submission # None /\ local.phase = "sending"
  BY <1>t DEF SendEnds, SubmissionInv, FlowInv, RunningInv
<1>7. deletion = "none" /\ conversation # "absent"
  BY <1>6 DEF SubmissionInv, FlowInv, DeletionInv, AbsentInv, Pending
<1>8. AbsentInv' /\ DeletionInv' /\ QueuedInv'
  BY <1>1, <1>2, <1>3, <1>7 DEF AbsentInv, DeletionInv, QueuedInv
<1>9. RunningInv' /\ ReadInv'
  BY <1>1, <1>2, <1>3, <1>5, NoReadIs DEF RunningInv, ReadInv, Readers, Loading
<1>10. \A s \in Sends : wire[s] # "waiting"
  BY <1>t DEF SendEnds, SubmissionInv, FlowInv, WaitingInv
<1>11. WaitingInv'
  BY <1>3, <1>10 DEF WaitingInv
<1> QED
  BY <1>8, <1>9, <1>11 DEF FlowInv

LEMMA FlowAfterCreation ==
    ASSUME SubmissionInv, NEW first \in Sends \cup {None}, CreateNew(first)
    PROVE  FlowInv'
<1> USE DEF SubmissionInv, FlowInv
<1>1. /\ \A s \in Sends : posts[s] = 0
      /\ ~at /\ history = None /\ submission = None /\ deletion = "none"
      /\ \A r \in Readers : reads[r].state = "idle"
  BY DEF CreateNew, AbsentInv
<1>2. local = None
  BY <1>1 DEF RunningInv
<1>3. UNCHANGED <<posts, wire, local, reads, at, deletion>> /\ conversation' = "open"
  BY DEF CreateNew, network, page
<1>4. submission' = None \/ submission'.phase = "queued"
  BY <1>1, NewSubmissionIs DEF CreateNew, Phases
<1>5. AbsentInv' /\ RunningInv' /\ QueuedInv' /\ DeletionInv'
  BY <1>1, <1>2, <1>3 DEF AbsentInv, RunningInv, QueuedInv, DeletionInv
<1>6. ReadInv' /\ WaitingInv'
  BY <1>1, <1>2, <1>3 DEF ReadInv, WaitingInv, Loading, Readers
<1> QED
  BY <1>5, <1>6

LEMMA FlowAfterDeletion ==
    ASSUME SubmissionInv, ConfirmDelete \/ ServeDelete \/ RefuseDelete \/ DeleteReturns
    PROVE  FlowInv'
<1> USE DEF SubmissionInv, FlowInv
<1>1. CASE deletion = "done" /\ deletion' = "over"
  <2>1. /\ Forget /\ at' = FALSE /\ UNCHANGED <<conversation, posts, wire, local>>
    BY <1>1 DEF ConfirmDelete, ServeDelete, RefuseDelete, DeleteReturns, backend, network
  <2>2. ~Pending /\ conversation = "deleted"
    BY <1>1 DEF DeletionInv
  <2>3. local = None
    BY <2>2 DEF RunningInv, Pending
  <2>4. history' = None /\ submission' = None /\ reads' = Stale
    BY <2>1 DEF Forget
  <2>5. \A r \in Readers :
          /\ reads'[r].state = reads[r].state /\ reads'[r].of = reads[r].of
          /\ ~reads'[r].fresh
          /\ reads[r] = NoRead => reads'[r] = NoRead
    BY <2>4, StaleIs
  <2>6. AbsentInv' /\ RunningInv' /\ QueuedInv' /\ WaitingInv'
    BY <2>1, <2>2, <2>3, <2>4 DEF AbsentInv, RunningInv, QueuedInv, WaitingInv
  <2>7. DeletionInv'
    BY <1>1, <2>1, <2>2, <2>4, <2>5 DEF DeletionInv, Pending
  <2>8. ReadInv'
    BY <1>1, <2>3, <2>4, <2>5 DEF ReadInv, Loading, Pending, Readers
  <2> QED
    BY <2>6, <2>7, <2>8
<1>2. CASE ~(deletion = "done" /\ deletion' = "over")
  <2>1. UNCHANGED <<posts, wire, history, submission, local, reads, at>>
    BY <1>2 DEF ConfirmDelete, ServeDelete, RefuseDelete, DeleteReturns, backend, network, page
  <2>2. /\ deletion # "over" /\ deletion' # "over"
        /\ deletion = "none" => ~Pending /\ conversation # "absent"
        /\ deletion' = "done" => conversation' = "deleted"
        /\ conversation' = conversation \/ (deletion = "asked" /\ conversation' # "absent")
    <3>1. CASE ConfirmDelete
      BY <3>1 DEF ConfirmDelete, backend, IsSending
    <3>2. CASE ServeDelete
      BY <3>2 DEF ServeDelete
    <3>3. CASE RefuseDelete
      BY <3>3 DEF RefuseDelete, backend
    <3>4. CASE DeleteReturns
      BY <1>2, <3>4 DEF DeleteReturns, backend
    <3> QED
      BY <3>1, <3>2, <3>3, <3>4
  <2>3. AbsentInv'
    BY <2>1, <2>2 DEF AbsentInv
  <2>4. RunningInv' /\ QueuedInv' /\ WaitingInv'
    BY <2>1 DEF RunningInv, QueuedInv, WaitingInv
  <2>5. DeletionInv'
    BY <2>1, <2>2 DEF DeletionInv, Pending
  <2>6. ReadInv'
    BY <2>1, <2>2 DEF ReadInv, Loading, Pending
  <2> QED
    BY <2>3, <2>4, <2>5, <2>6
<1> QED
  BY <1>1, <1>2

LEMMA FlowStep ==
    SubmissionInv /\ [Next]_vars => FlowInv'
<1>0. SUFFICES ASSUME SubmissionInv, [Next]_vars PROVE FlowInv'
  OBVIOUS
<1>1. ASSUME NEW r \in Readers, Reading(r) PROVE FlowInv'
  <2>1. CASE ReadArrives(r)
    BY <1>0, <2>1, ArrivedReadIs, FlowAfterRead DEF ReadArrives
  <2>2. CASE ReadFails(r)
    BY <1>0, <2>2, FailedReadIs, FlowAfterRead DEF ReadFails
  <2> QED
    BY <1>0, <1>1, <2>1, <2>2, FlowAfterServedRead DEF Reading
<1>2. CASE Open \/ Reload
  <2>1. /\ UNCHANGED <<conversation, posts, wire, history, submission, local, deletion>>
        /\ LoadHistory /\ conversation # "absent"
    BY <1>0, <1>2
       DEF Open, Reload, Controls, SubmissionInv, FlowInv, AbsentInv, backend, network
  <2> QED
    BY <1>0, <2>1, FlowAfterLoad
<1>3. CASE Leave
  BY <1>0, <1>3
     DEF Leave, SubmissionInv, FlowInv, AbsentInv, RunningInv, ReadInv, WaitingInv,
         QueuedInv, DeletionInv, Loading, Pending, backend, network
<1>4. CASE Acknowledge
  <2>1. submission # None /\ submission.phase = "settled" /\ ~Loading /\ submission \in Submission
    BY <1>0, <1>4 DEF Acknowledge, MayAcknowledge, Recovery, SubmissionInv, TypeOK
  <2>2. submission'.phase = "settled" /\ submission' # None
    BY <1>4, <2>1, NoneIsNoSubmission DEF Acknowledge, Submission
  <2>3. UNCHANGED <<conversation, posts, wire, history, local, reads, at, deletion>>
    BY <1>4 DEF Acknowledge, backend, network, page
  <2>4. local = None /\ conversation # "absent"
    BY <1>0, <2>1 DEF SubmissionInv, FlowInv, RunningInv, AbsentInv
  <2> QED
    BY <1>0, <2>1, <2>2, <2>3, <2>4
       DEF SubmissionInv, FlowInv, AbsentInv, RunningInv, ReadInv, WaitingInv,
           QueuedInv, DeletionInv, Loading, Pending
<1>5. CASE UNCHANGED vars
  BY <1>0, <1>5
     DEF vars, SubmissionInv, FlowInv, AbsentInv, RunningInv, ReadInv, WaitingInv,
         QueuedInv, DeletionInv, Loading, Pending
<1>6. CASE Quiet
  BY <1>0, <1>1, <1>2, <1>3, <1>4, <1>5, <1>6, FlowAfterCreation, FlowAfterSendEnds,
     FlowAfterDeletion DEF Quiet
<1> QED
  BY <1>0, <1>6, StepKinds, FlowAfterSubmit, FlowAfterServe, FlowAfterStop
-----------------------------------------------------------------------------
(* What the histories show.                                                *)

HistoryShows ==
    /\ history # None => history \subseteq rows
    /\ history # None => \A s \in rows : Heard(s) =>
        \/ s \in history
        \/ submission # None /\ submission.send = s /\ (Pending \/ submission.syncError)

ReadShows(read) ==
    /\ read.seen \subseteq rows
    /\ read.state = "answered" /\ read.fresh => \A s \in rows : Heard(s) => s \in read.seen
    /\ read.state = "answered" /\ read.of # None /\ read.of.definitive /\ read.of.send \in rows =>
         read.of.send \in read.seen

LEMMA HistoryInvIs ==
    /\ HistoryInv <=> HistoryShows /\ \A r \in Readers : ReadShows(reads[r])
    /\ HistoryInv' <=> HistoryShows' /\ \A r \in Readers : ReadShows(reads[r])'
  BY DEF HistoryInv, HistoryShows, ReadShows

LEMMA NoReadShows == reads' \in [Readers -> Read] =>
    \A r \in Readers : reads'[r] = NoRead => ReadShows(reads[r])'
  BY NoReadIs DEF ReadShows

LEMMA HistoryAfterSubmit ==
    ASSUME SubmissionInv, NEW s \in Sends, MaySubmit(s), Submit(s)
    PROVE  HistoryInv'
<1>t. TypeOK /\ HistoryShows
  BY HistoryInvIs DEF SubmissionInv
<1>1. \A r \in Readers : reads'[r] = NoRead
  BY <1>t, StaleIs DEF MaySubmit, Submit
<1>2. \A r \in Readers : ReadShows(reads[r])'
  BY <1>t, <1>1, NoReadShows, StaleIs DEF Submit
<1>3. UNCHANGED <<history, rows>> /\ \A q \in Sends : Heard(q)' => Heard(q)
  BY <1>t DEF Submit, Heard, TypeOK
<1>4. \A q \in Sends : Heard(q) => posts[q] # 0
  BY DEF SubmissionInv, SendInv, Heard
<1>5. submission # None /\ submission.phase = "settled" => ~submission.syncError
  BY DEF SubmissionInv, SoundInv, Sound, MaySubmit, Recovery
<1>6. \A q \in rows : Heard(q) => q \in history
  BY <1>t, <1>4, <1>5 DEF HistoryShows, MaySubmit, Pending, TypeOK
<1>7. HistoryShows'
  BY <1>t, <1>3, <1>6 DEF HistoryShows, TypeOK
<1> QED
  BY <1>2, <1>7, HistoryInvIs

LEMMA ServedIs ==
    ASSUME SubmissionInv, NEW s \in Sends, Serve(s)
    PROVE  /\ rows \subseteq rows' /\ rows' \subseteq Sends
           /\ \A q \in rows' \ rows : server[q] = "sent"
           /\ \A q \in rows' : Heard(q)' => wire[q] = "waiting" \/ (q \in rows /\ Heard(q))
           /\ \A q \in Sends : wire[q] \in {"broken", "aborted"} => wire'[q] = wire[q]
           /\ \A q \in Sends : server[q] \in {"failed", "dropped"} => server'[q] = server[q]
<1> USE DEF Heard, backend, client, SubmissionInv, TypeOK, SendInv
<1>1. CASE Store(s)
  BY <1>1 DEF Store
<1>2. CASE Answer(s)
  BY <1>2 DEF Answer
<1>3. CASE Fail(s)
  BY <1>3 DEF Fail
<1>4. CASE Drop(s)
  BY <1>4 DEF Drop
<1>5. CASE Reply(s)
  BY <1>5 DEF Reply
<1>6. CASE Break(s)
  BY <1>6 DEF Break
<1> QED
  BY <1>1, <1>2, <1>3, <1>4, <1>5, <1>6 DEF Serve

LEMMA HistoryAfterServe ==
    ASSUME SubmissionInv, NEW s \in Sends, Serve(s)
    PROVE  HistoryInv'
<1>t. TypeOK /\ HistoryShows /\ \A r \in Readers : ReadShows(reads[r])
  BY HistoryInvIs DEF SubmissionInv
<1>1. UNCHANGED <<history, submission, local, reads>>
  BY DEF Serve, Store, Answer, Fail, Drop, Reply, Break, client
<1>2. \A q \in Sends : wire[q] = "waiting" =>
        /\ submission # None /\ submission.send = q /\ Pending
        /\ \A r \in Readers : reads[r].state = "idle"
  BY DEF SubmissionInv, FlowInv, WaitingInv, RunningInv, Pending, Readers
<1>3. /\ rows \subseteq rows' /\ rows' \subseteq Sends
      /\ \A q \in rows' \ rows : server[q] = "sent"
      /\ \A q \in rows' : Heard(q)' => wire[q] = "waiting" \/ (q \in rows /\ Heard(q))
  BY ServedIs
<1>4. HistoryShows'
  BY <1>t, <1>1, <1>2, <1>3 DEF HistoryShows, Pending
<1>5. ASSUME NEW r \in Readers PROVE ReadShows(reads[r])'
  <2>1. /\ reads[r].of # None /\ reads[r].of.definitive => server[reads[r].of.send] = "failed"
    BY DEF SubmissionInv, SoundInv, Sound
  <2>2. (reads[r].seen \subseteq rows)'
    BY <1>t, <1>1, <1>3 DEF ReadShows
  <2>3. reads'[r].state = "answered" /\ reads'[r].fresh
          => \A q \in rows' : Heard(q)' => q \in reads'[r].seen
    BY <1>t, <1>1, <1>2, <1>3 DEF ReadShows
  <2>4. reads'[r].state = "answered" /\ reads'[r].of # None /\ reads'[r].of.definitive
          /\ reads'[r].of.send \in rows'
          => reads'[r].of.send \in reads'[r].seen
    BY <1>t, <1>1, <1>3, <2>1 DEF ReadShows
  <2> QED
    BY <2>2, <2>3, <2>4 DEF ReadShows
<1> QED
  BY <1>4, <1>5, HistoryInvIs

LEMMA HistoryAfterStop ==
    ASSUME SubmissionInv, Stop
    PROVE  HistoryInv'
<1>t. TypeOK /\ HistoryInv /\ submission \in Submission /\ submission # None
      /\ submission.phase = "sending"
  BY DEF SubmissionInv, Stop, TypeOK
<1>1. submission' # None /\ submission'.send = submission.send /\ submission'.phase = "stopping"
  <2>1. submission' \in Submission
    BY <1>t DEF Stop, Submission, Phases
  <2> QED
    BY <1>t, <2>1, NoneIsNoSubmission DEF Stop, Submission
<1>2. UNCHANGED <<rows, history, reads>> /\ \A q \in Sends : Heard(q)' => Heard(q)
  BY <1>t DEF Stop, backend, Heard, TypeOK
<1> QED
  BY <1>t, <1>1, <1>2 DEF HistoryInv, Pending, TypeOK

\* The steps below leave sends and rows, so only history, submission and reads
\* can make a difference.
LEMMA QuietHearing == Quiet => UNCHANGED rows /\ \A q \in Sends : Heard(q)' = Heard(q)
  BY QuietIs DEF Heard

LEMMA HistoryAfterArrival ==
    ASSUME SubmissionInv, NEW r \in Readers, ReadArrives(r)
    PROVE  HistoryInv'
<1>t. TypeOK /\ HistoryShows /\ \A q \in Readers : ReadShows(reads[q])
  BY HistoryInvIs DEF SubmissionInv
<1>1. UNCHANGED rows /\ \A q \in Sends : Heard(q)' = Heard(q)
  BY QuietHearing DEF Quiet, Reading
<1>2. /\ reads' \in [Readers -> Read]
      /\ reads'[r] = NoRead /\ \A q \in Readers \ {r} : reads'[q] = reads[q]
  BY <1>t, EndReadIs DEF ReadArrives
<1>3. ASSUME NEW q \in Readers PROVE ReadShows(reads[q])'
  <2>1. CASE q = r
    BY <1>2, <2>1, NoReadShows
  <2>2. CASE q # r
    BY <1>t, <1>1, <1>2, <2>2 DEF ReadShows, TypeOK
  <2> QED
    BY <2>1, <2>2
<1>4. HistoryShows'
  <2>1. CASE reads[r].fresh
    BY <1>t, <1>1, <2>1 DEF ReadArrives, HistoryShows, ReadShows, TypeOK
  <2>2. CASE ~reads[r].fresh
    BY <2>2
       DEF ReadArrives, HistoryShows, SubmissionInv, FlowInv, ReadInv, DeletionInv
  <2> QED
    BY <2>1, <2>2
<1> QED
  BY <1>3, <1>4, HistoryInvIs

LEMMA HistoryAfterFailedRead ==
    ASSUME SubmissionInv, NEW r \in Readers, ReadFails(r)
    PROVE  HistoryInv'
<1>t. TypeOK /\ HistoryShows /\ \A q \in Readers : ReadShows(reads[q])
  BY HistoryInvIs DEF SubmissionInv
<1>1. UNCHANGED <<rows, history>> /\ \A q \in Sends : Heard(q)' = Heard(q)
  BY QuietHearing DEF Quiet, Reading, ReadFails
<1>2. /\ reads' \in [Readers -> Read]
      /\ reads'[r] = NoRead /\ \A q \in Readers \ {r} : reads'[q] = reads[q]
  BY <1>t, EndReadIs DEF ReadFails
<1>3. ASSUME NEW q \in Readers PROVE ReadShows(reads[q])'
  <2>1. CASE q = r
    BY <1>2, <2>1, NoReadShows
  <2>2. CASE q # r
    BY <1>t, <1>1, <1>2, <2>2 DEF ReadShows, TypeOK
  <2> QED
    BY <2>1, <2>2
<1>4. HistoryShows'
  <2>1. CASE reads[r].of = None
    BY <1>t, <1>1, <2>1 DEF ReadFails, HistoryShows, Pending, TypeOK
  <2>2. CASE reads[r].of # None
    <3>1. reads[r].of \in Submission
      BY <1>t, <2>2, ReadFields DEF TypeOK
    <3>2. submission' # None /\ submission'.send = reads[r].of.send /\ submission'.syncError
      BY <2>2, <3>1, ReadFailedIs, NoneIsNoSubmission DEF ReadFails
    <3>3. submission # None => submission.send = reads[r].of.send
      BY <2>2 DEF ReadFails, SubmissionInv, FlowInv, ReadInv, RunningInv, Readers, Loading
    <3> QED
      BY <1>t, <1>1, <3>2, <3>3 DEF HistoryShows, TypeOK
  <2> QED
    BY <2>1, <2>2
<1> QED
  BY <1>3, <1>4, HistoryInvIs

LEMMA HistoryAfterServedRead ==
    ASSUME SubmissionInv, NEW r \in Readers, ServeRead(r) \/ BreakRead(r)
    PROVE  HistoryInv'
<1>t. TypeOK /\ HistoryShows /\ \A q \in Readers : ReadShows(reads[q])
  BY HistoryInvIs DEF SubmissionInv
<1>1. UNCHANGED <<rows, history, submission>> /\ \A q \in Sends : Heard(q)' = Heard(q)
  BY QuietHearing DEF Quiet, Reading, ServeRead, BreakRead
<1>2. HistoryShows'
  BY <1>t, <1>1 DEF HistoryShows, Pending, TypeOK
<1>3. ASSUME NEW q \in Readers PROVE ReadShows(reads[q])'
  <2>1. CASE q = r
    BY <1>t, <1>1, <2>1, ServeReadIs DEF ReadShows, TypeOK
  <2>2. CASE q # r
    BY <1>t, <1>1, <2>2, ServeReadIs DEF ReadShows, TypeOK
  <2> QED
    BY <2>1, <2>2
<1> QED
  BY <1>2, <1>3, HistoryInvIs

LEMMA HistoryAfterSendEnds ==
    ASSUME SubmissionInv, SendEnds
    PROVE  HistoryInv'
<1> DEFINE u == Ended(local)
<1>t. /\ TypeOK /\ HistoryShows /\ \A q \in Readers : ReadShows(reads[q])
      /\ local \in Submission /\ local # None
  BY HistoryInvIs DEF SubmissionInv, SendEnds, TypeOK
<1>1. UNCHANGED <<rows, history>> /\ \A q \in Sends : Heard(q)' = Heard(q)
  BY QuietHearing DEF Quiet, SendEnds
<1>2. u \in Submission /\ u # None /\ u.send = local.send /\ u.phase = "reconciling"
  BY <1>t, EndedIs, NoneIsNoSubmission
<1>3. submission' = u /\ StartRead("submit", u)
  BY DEF SendEnds
<1> HIDE DEF u
<1>4. submission # None => submission.send = local.send
  BY <1>t DEF SubmissionInv, FlowInv, RunningInv
<1>5. HistoryShows'
  BY <1>t, <1>1, <1>2, <1>3, <1>4 DEF HistoryShows, Pending, TypeOK
<1>6. /\ reads' \in [Readers -> Read]
      /\ reads'["submit"].state = "asked" /\ reads'["submit"].seen = {}
      /\ reads'["load"].state = reads["load"].state
      /\ reads'["load"].seen = reads["load"].seen
      /\ reads'["load"].of = reads["load"].of
      /\ ~reads'["load"].fresh
  BY <1>t, <1>2, <1>3, StartReadIs, StaleIs DEF Readers
<1>7. ReadShows(reads["submit"])' /\ ReadShows(reads["load"])'
  BY <1>t, <1>1, <1>6 DEF ReadShows, Readers
<1> QED
  BY <1>5, <1>7, HistoryInvIs DEF Readers

LEMMA HistoryAfterLoad ==
    ASSUME SubmissionInv, LoadHistory, UNCHANGED <<rows, history, submission, wire>>
    PROVE  HistoryInv'
<1>t. /\ TypeOK /\ HistoryShows /\ \A q \in Readers : ReadShows(reads[q])
  BY HistoryInvIs DEF SubmissionInv
<1>1. \A q \in Sends : Heard(q)' = Heard(q)
  BY DEF Heard
<1>2. HistoryShows'
  BY <1>t, <1>1 DEF HistoryShows, Pending, TypeOK
<1>3. CASE reads' = reads
  BY <1>t, <1>1, <1>2, <1>3, HistoryInvIs DEF ReadShows, TypeOK
<1>4. CASE reads' # reads
  <2>1. /\ reads'["submit"] = NoRead
        /\ reads'["load"].state = "asked" /\ reads'["load"].seen = {}
    BY <1>4, LoadHistoryIs
  <2>2. ReadShows(reads["submit"])' /\ ReadShows(reads["load"])'
    BY <2>1, NoReadIs DEF ReadShows
  <2> QED
    BY <1>2, <2>2, HistoryInvIs DEF Readers
<1> QED
  BY <1>3, <1>4

LEMMA HistoryAfterDeletion ==
    ASSUME SubmissionInv, ConfirmDelete \/ ServeDelete \/ RefuseDelete \/ DeleteReturns
    PROVE  HistoryInv'
<1>t. /\ TypeOK /\ HistoryShows /\ \A q \in Readers : ReadShows(reads[q])
  BY HistoryInvIs DEF SubmissionInv
<1>1. UNCHANGED rows /\ \A q \in Sends : Heard(q)' = Heard(q)
  BY QuietHearing DEF Quiet
<1>2. CASE UNCHANGED <<history, submission, reads>>
  BY <1>t, <1>1, <1>2, HistoryInvIs DEF HistoryShows, ReadShows, Pending, TypeOK
<1>3. CASE Forget
  <2>1. history' = None /\ reads' = Stale
    BY <1>3 DEF Forget
  <2>2. HistoryShows'
    BY <2>1 DEF HistoryShows
  <2>3. ASSUME NEW r \in Readers PROVE ReadShows(reads[r])'
    BY <1>t, <1>1, <2>1, StaleIs DEF ReadShows
  <2> QED
    BY <2>2, <2>3, HistoryInvIs
<1>4. UNCHANGED <<history, submission, reads>> \/ Forget
  BY DEF ConfirmDelete, ServeDelete, RefuseDelete, DeleteReturns
<1> QED
  BY <1>2, <1>3, <1>4

LEMMA HistoryAfterCreation ==
    ASSUME SubmissionInv, NEW first \in Sends \cup {None}, CreateNew(first)
    PROVE  HistoryInv'
<1>t. /\ TypeOK /\ HistoryShows /\ \A q \in Readers : ReadShows(reads[q])
  BY HistoryInvIs DEF SubmissionInv
<1>1. UNCHANGED rows /\ \A q \in Sends : Heard(q)' = Heard(q)
  BY QuietHearing DEF Quiet
<1>2. \A s \in Sends : ~Heard(s)
  BY DEF CreateNew, SubmissionInv, SendInv, FlowInv, AbsentInv, Heard
<1>3. reads' = reads /\ (history' = {} \/ history' = history)
  BY DEF CreateNew
<1>4. HistoryShows'
  BY <1>t, <1>1, <1>2, <1>3 DEF HistoryShows, TypeOK
<1>5. ASSUME NEW r \in Readers PROVE ReadShows(reads[r])'
  BY <1>t, <1>1, <1>3 DEF ReadShows, TypeOK
<1> QED
  BY <1>4, <1>5, HistoryInvIs

LEMMA HistoryStep ==
    SubmissionInv /\ [Next]_vars => HistoryInv'
<1>0. SUFFICES ASSUME SubmissionInv, [Next]_vars PROVE HistoryInv'
  OBVIOUS
<1>1. ASSUME NEW r \in Readers, Reading(r) PROVE HistoryInv'
  BY <1>0, <1>1, HistoryAfterServedRead, HistoryAfterArrival, HistoryAfterFailedRead
     DEF Reading
<1>2. CASE Open \/ Reload
  <2>1. LoadHistory /\ UNCHANGED <<rows, history, submission, wire>>
    BY <1>2 DEF Open, Reload, backend, network
  <2> QED
    BY <1>0, <2>1, HistoryAfterLoad
<1>3. CASE Leave \/ UNCHANGED vars
  BY <1>0, <1>3
     DEF Leave, vars, SubmissionInv, HistoryInv, Heard, Pending, backend, network
<1>4. CASE Acknowledge
  <2>1. /\ submission # None /\ submission.phase = "settled" /\ ~submission.syncError
        /\ UNCHANGED <<rows, wire, history, reads>>
    BY <1>4 DEF Acknowledge, MayAcknowledge, Recovery, backend, network
  <2> QED
    BY <1>0, <2>1 DEF SubmissionInv, HistoryInv, Heard, Pending
<1>5. CASE Quiet
  BY <1>0, <1>1, <1>2, <1>3, <1>4, <1>5, HistoryAfterCreation, HistoryAfterSendEnds,
     HistoryAfterDeletion DEF Quiet
<1> QED
  BY <1>0, <1>5, StepKinds, HistoryAfterSubmit, HistoryAfterServe, HistoryAfterStop
-----------------------------------------------------------------------------
(* What a submission may say.                                              *)

(* A submission stays sound while the rows only grow, and only by its own    *)
(* send or by sends whose answer the browser will never hear; what the       *)
(* server has given up and what the wire has lost stay as they are.          *)
SoundStays(u, sv, rs, w, sv2, rs2, w2) ==
    /\ rs \subseteq rs2
    /\ \A r \in rs2 \ rs : r = u.send \/ w2[r] \in {"broken", "aborted"}
    /\ sv[u.send] \in {"failed", "dropped"} =>
         sv2[u.send] = sv[u.send] /\ (u.send \in rs2 => u.send \in rs)
    /\ \A r \in rs : w[r] \in {"broken", "aborted"} => w2[r] = w[r]

LEMMA SoundLasts ==
    ASSUME NEW u, NEW sv, NEW rs, NEW w, NEW sv2, NEW rs2, NEW w2,
           Sound(u, sv, rs, w), SoundStays(u, sv, rs, w, sv2, rs2, w2)
    PROVE  Sound(u, sv2, rs2, w2)
  BY DEF Sound, SoundStays

(* What a read makes of a sound submission is sound: the rows it has seen    *)
(* are rows, and where the server has failed it has seen the send if that    *)
(* was stored at all.                                                        *)
LEMMA ReconciledIsSound ==
    ASSUME NEW u \in Submission, NEW seen \in SUBSET Sends,
           Sound(u, server, rows, wire), u.phase \in {"reconciling", "settled"},
           seen \subseteq rows,
           u.definitive /\ u.send \in rows => u.send \in seen
    PROVE  Sound(Reconciled(u, seen), server, rows, wire)
<1> DEFINE v == Reconciled(u, seen)
<1>1. /\ v.send = u.send /\ v.previous = u.previous /\ v.phase = "settled"
      /\ v.stopped = u.stopped /\ v.postError = u.postError /\ ~v.syncError
      /\ v.definitive = u.definitive
      /\ v.persistence = IF u.postError \/ u.stopped THEN Persistence(u, seen) ELSE "saved"
  BY ReconciledIs
<1> HIDE DEF v
<1>2. /\ u.send \notin u.previous /\ u.previous \subseteq rows
      /\ u.definitive => server[u.send] = "failed"
      /\ ~u.postError /\ ~u.stopped => u.send \in rows
      /\ \A r \in rows \ u.previous : r = u.send \/ wire[r] \in {"broken", "aborted"}
  BY DEF Sound
<1>3. v.persistence = "not-saved" => u.definitive /\ u.send \notin seen \ u.previous
  BY <1>1 DEF Persistence
<1>4. v.persistence = "not-saved" => u.send \notin rows /\ server[u.send] = "failed"
  BY <1>2, <1>3
<1>5. ASSUME v.persistence = "saved"
      PROVE  \E r \in rows \ u.previous : ContentOf[r] = ContentOf[u.send]
  <2>1. CASE u.send \in rows
    BY <1>2, <2>1
  <2>2. CASE Persistence(u, seen) = "saved"
    BY <2>2 DEF Persistence
  <2> QED
    BY <1>1, <1>2, <1>5, <2>1, <2>2
<1> QED
  BY <1>1, <1>2, <1>4, <1>5 DEF Sound, v

LEMMA ReadFailedIsSound ==
    ASSUME NEW u \in Submission,
           Sound(u, server, rows, wire), u.phase \in {"reconciling", "settled"},
           ~u.acknowledged
    PROVE  Sound(ReadFailed(u), server, rows, wire)
  BY ReadFailedIs DEF Sound

LEMMA EndedIsSound ==
    ASSUME TypeOK, SendInv, NEW u \in Submission,
           Sound(u, server, rows, wire), u.phase = "sending"
    PROVE  Sound(Ended(u), server, rows, wire)
<1> DEFINE v == Ended(u)
<1>1. /\ v.send = u.send /\ v.previous = u.previous /\ v.phase = "reconciling"
      /\ v.stopped = aborted
      /\ v.postError = (~aborted /\ wire[u.send] # "ok")
      /\ v.definitive = (~aborted /\ wire[u.send] = "refused")
      /\ v.persistence = u.persistence /\ v.acknowledged = u.acknowledged
  BY EndedIs
<1>2. u.send \in Sends /\ ~u.acknowledged
  BY SubmissionFields DEF Sound
<1> HIDE DEF v
<1>3. v.definitive => server[v.send] = "failed"
  BY <1>1, <1>2 DEF SendInv
<1>4. ~v.postError /\ ~v.stopped => v.send \in rows
  BY <1>1, <1>2 DEF SendInv, TypeOK
<1> QED
  BY <1>1, <1>2, <1>3, <1>4 DEF Sound, v

(* A new submission is sound: everything stored that its history lacks is a  *)
(* send whose answer was lost.                                               *)
LEMMA ClaimedIsSound ==
    ASSUME SubmissionInv, NEW s \in Sends, MaySubmit(s), Submit(s)
    PROVE  Sound(Claimed(s), server', rows', wire')
<1> DEFINE u == Claimed(s)
<1>t. TypeOK
  BY DEF SubmissionInv
<1>1. /\ u.send = s /\ u.previous = history /\ u.phase = "sending"
      /\ u.persistence = "unknown" /\ ~u.definitive /\ ~u.acknowledged
  BY <1>t, NewSubmissionIs DEF Claimed, MaySubmit, TypeOK, Phases
<1> HIDE DEF u
<1>2. s \notin rows /\ history \subseteq rows
  BY DEF SubmissionInv, SendInv, HistoryInv, MaySubmit
<1>3. submission # None /\ submission.phase = "settled" => ~submission.syncError
  BY DEF SubmissionInv, SoundInv, Sound, MaySubmit, Recovery
<1>4. \A q \in Sends : Heard(q) => posts[q] # 0
  BY DEF SubmissionInv, SendInv, Heard
<1>5. \A q \in rows : Heard(q) => q \in history
  BY <1>t, <1>3, <1>4 DEF SubmissionInv, HistoryInv, MaySubmit, Pending, TypeOK
<1>6. \A q \in rows : wire[q] \notin {"none", "waiting"}
  BY <1>t DEF SubmissionInv, SendInv, FlowInv, WaitingInv, MaySubmit, TypeOK
<1>7. \A q \in rows \ history : wire[q] \in {"broken", "aborted"}
  BY <1>t, <1>5, <1>6 DEF Heard, TypeOK
<1>8. rows' = rows /\ \A q \in rows : wire'[q] = wire[q]
  BY <1>t, <1>2 DEF Submit, TypeOK
<1> QED
  BY <1>1, <1>2, <1>7, <1>8 DEF Sound, u
\* The submissions that are on their way.
Carried(u) ==
    \/ u = submission /\ submission # None
    \/ u = local /\ local # None
    \/ \E r \in Readers : u = reads[r].of /\ reads[r].of # None

LEMMA SoundInvIs == SoundInv <=> \A u : Carried(u) => Sound(u, server, rows, wire)
  BY DEF SoundInv, Carried

LEMMA CarriedAreSubmissions ==
    ASSUME TypeOK, NEW u, Carried(u)
    PROVE  u \in Submission
  BY ReadFields DEF TypeOK, Carried

LEMMA ServeKeepsSound ==
    ASSUME SubmissionInv, NEW s \in Sends, Serve(s), NEW u, Carried(u)
    PROVE  Sound(u, server', rows', wire')
<1>t. TypeOK /\ u \in Submission /\ u.send \in Sends
  BY CarriedAreSubmissions, SubmissionFields DEF SubmissionInv
<1>1. Sound(u, server, rows, wire)
  BY SoundInvIs DEF SubmissionInv
<1>2. ASSUME NEW q \in rows' \ rows PROVE q = u.send \/ wire'[q] \in {"broken", "aborted"}
  <2>1. q \in Sends /\ server[q] = "sent"
    BY <1>2, ServedIs
  <2>2. wire[q] \in {"waiting", "broken", "aborted"}
    BY <1>t, <2>1 DEF SubmissionInv, SendInv, TypeOK
  <2>3. CASE wire[q] = "waiting"
    <3>1. local # None /\ local.send = q /\ local.phase = "sending"
      BY <2>1, <2>3 DEF SubmissionInv, FlowInv, WaitingInv
    <3>2. submission.send = q /\ \A r \in Readers : reads[r] = NoRead
      BY <3>1 DEF SubmissionInv, FlowInv, RunningInv, ReadInv, Readers
    <3> QED
      BY <3>1, <3>2, NoReadIs DEF Carried
  <2> QED
    BY <2>1, <2>2, <2>3, ServedIs
<1>3. SoundStays(u, server, rows, wire, server', rows', wire')
  BY <1>t, <1>2, ServedIs DEF SoundStays, TypeOK
<1> QED
  BY <1>1, <1>3, SoundLasts

LEMMA QuietKeepsSound ==
    ASSUME Quiet \/ Stop, TypeOK, NEW u, Sound(u, server, rows, wire)
    PROVE  Sound(u, server', rows', wire')
<1>1. SoundStays(u, server, rows, wire, server', rows', wire')
  <2>1. CASE Quiet
    BY <2>1, QuietIs DEF SoundStays
  <2>2. CASE Stop
    BY <2>2 DEF Stop, backend, SoundStays, TypeOK
  <2> QED
    BY <2>1, <2>2
<1> QED
  BY <1>1, SoundLasts

\* A read in flight carries a submission that is reconciled or was left settled.
LEMMA CarriedByReads ==
    ASSUME SubmissionInv, NEW r \in Readers, reads[r].of # None
    PROVE  /\ reads[r].of \in Submission
           /\ Sound(reads[r].of, server, rows, wire)
           /\ reads[r].of.phase \in {"reconciling", "settled"}
           /\ ~reads[r].of.acknowledged
<1>1. reads[r].of \in Submission
  BY ReadFields DEF SubmissionInv, TypeOK
<1>2. Sound(reads[r].of, server, rows, wire)
  BY DEF SubmissionInv, SoundInv
<1>3. reads[r].state # "idle"
  BY NoReadIs DEF SubmissionInv, FlowInv, ReadInv
<1>4. /\ reads[r].of.phase \in {"reconciling", "settled"}
      /\ reads[r].of.phase = "reconciling" \/ ~reads[r].of.acknowledged
  BY <1>3 DEF SubmissionInv, FlowInv, ReadInv, RunningInv, Loading, Readers
<1> QED
  BY <1>1, <1>2, <1>4 DEF Sound

LEMMA SoundStep ==
    SubmissionInv /\ [Next]_vars => SoundInv'
<1>0. SUFFICES ASSUME SubmissionInv, [Next]_vars PROVE SoundInv'
  OBVIOUS
<1>t. TypeOK
  BY <1>0 DEF SubmissionInv
<1>c. ASSUME NEW u, Carried(u), Quiet \/ Stop PROVE Sound(u, server', rows', wire')
  BY <1>0, <1>c, <1>t, SoundInvIs, QuietKeepsSound DEF SubmissionInv
\* It is enough to look at the submissions that a step has written.
<1>w. ASSUME \A u : Carried(u)' => Carried(u) \/ Sound(u, server', rows', wire'),
             Quiet \/ Stop
      PROVE  SoundInv'
  BY <1>c, <1>w DEF SoundInv, Carried
<1>1. ASSUME NEW r \in Readers, Reading(r) PROVE SoundInv'
  <2>q. Quiet
    BY <1>1 DEF Quiet
  <2>1. CASE ServeRead(r) \/ BreakRead(r)
    <3>1. UNCHANGED <<submission, local>> /\ \A q \in Readers : reads'[q].of = reads[q].of
      BY <1>t, <2>1, ServeReadIs DEF ServeRead, BreakRead
    <3> QED
      BY <2>q, <1>w, <3>1 DEF Carried
  <2>2. CASE ReadArrives(r)
    <3>1. reads'[r] = NoRead /\ \A q \in Readers \ {r} : reads'[q] = reads[q]
      BY <1>t, <2>2, EndReadIs DEF ReadArrives
    <3>2. local' \in {None, local}
      BY <2>2 DEF ReadArrives, EndRead
    <3>3. reads[r].of # None => Sound(Reconciled(reads[r].of, reads[r].seen), server, rows, wire)
      <4>1. reads[r] \in Read
        BY <1>t DEF TypeOK
      <4>2. /\ reads[r].seen \in SUBSET Sends /\ reads[r].seen \subseteq rows
            /\ reads[r].of # None /\ reads[r].of.definitive /\ reads[r].of.send \in rows
                 => reads[r].of.send \in reads[r].seen
        BY <1>0, <2>2, <4>1, ReadFields DEF ReadArrives, SubmissionInv, HistoryInv
      <4> QED
        BY <1>0, <4>2, CarriedByReads, ReconciledIsSound
    <3>4. reads[r].of # None =>
            Sound(Reconciled(reads[r].of, reads[r].seen), server', rows', wire')
      BY <1>t, <2>q, <3>3, QuietKeepsSound
    <3>5. submission' \in {submission, Reconciled(reads[r].of, reads[r].seen)}
          /\ (reads[r].of = None => submission' = submission)
      BY <2>2 DEF ReadArrives
    <3> QED
      BY <2>q, <1>w, <3>1, <3>2, <3>4, <3>5, NoReadIs DEF Carried
  <2>3. CASE ReadFails(r)
    <3>1. reads'[r] = NoRead /\ \A q \in Readers \ {r} : reads'[q] = reads[q]
      BY <1>t, <2>3, EndReadIs DEF ReadFails
    <3>2. local' \in {None, local}
      BY <2>3 DEF ReadFails, EndRead
    <3>3. reads[r].of # None => Sound(ReadFailed(reads[r].of), server', rows', wire')
      BY <1>0, <1>t, <2>q, CarriedByReads, ReadFailedIsSound, QuietKeepsSound
    <3>4. submission' \in {submission, ReadFailed(reads[r].of)}
          /\ (reads[r].of = None => submission' = submission)
      BY <2>3 DEF ReadFails
    <3> QED
      BY <2>q, <1>w, <3>1, <3>2, <3>3, <3>4, NoReadIs DEF Carried
  <2> QED
    BY <1>1, <2>1, <2>2, <2>3 DEF Reading
<1>2. CASE Open \/ Reload
  <2>1. LoadHistory /\ UNCHANGED <<submission, local>>
    BY <1>2 DEF Open, Reload
  <2>2. \A q \in Readers : reads'[q].of \in {None, submission, reads[q].of}
    BY <1>0, <2>1, LoadHistoryIs, NoReadIs DEF Readers
  <2> QED
    BY <1>2, <1>w, <2>1, <2>2 DEF Carried, Quiet
<1>3. CASE SendEnds
  <2>q. Quiet
    BY <1>3 DEF Quiet
  <2>1. local \in Submission /\ local # None /\ local.phase = "sending"
    BY <1>t, <1>3 DEF SendEnds, TypeOK
  <2>2. Sound(Ended(local), server, rows, wire) /\ Ended(local) \in Submission
    BY <1>0, <1>t, <2>1, EndedIsSound, EndedIs DEF SubmissionInv, SoundInv
  <2>3. Sound(Ended(local), server', rows', wire')
    BY <1>t, <2>q, <2>2, QuietKeepsSound
  <2>4. /\ submission' = Ended(local) /\ local' = Ended(local)
        /\ reads'["submit"].of = Ended(local)
        /\ reads'["load"].of = reads["load"].of
    BY <1>t, <1>3, <2>2, StartReadIs, StaleIs DEF SendEnds, Readers
  <2> QED
    BY <1>w, <2>q, <2>3, <2>4 DEF Carried, Readers
<1>4. ASSUME NEW first \in Sends \cup {None}, CreateNew(first) PROVE SoundInv'
  <2>q. Quiet
    BY <1>4 DEF Quiet
  <2>1. UNCHANGED <<local, reads>>
    BY <1>4 DEF CreateNew
  <2>2. \A q \in Sends : posts[q] = 0
    BY <1>0, <1>4 DEF CreateNew, SubmissionInv, FlowInv, AbsentInv
  <2>3. rows = {}
    BY <1>0, <1>t, <2>2 DEF SubmissionInv, SendInv, TypeOK
  <2>4. first \in Sends => Sound(NewSubmission(first, {}, "queued"), server, rows, wire)
    BY <2>3, NewSubmissionIs DEF Sound, Phases
  <2>5. submission' = submission
          \/ (first \in Sends /\ submission' = NewSubmission(first, {}, "queued"))
    BY <1>4 DEF CreateNew
  <2> QED
    BY <1>t, <1>w, <2>q, <2>1, <2>4, <2>5, QuietKeepsSound DEF Carried
<1>5. CASE Acknowledge
  <2>q. Quiet
    BY <1>5 DEF Quiet
  <2>1. /\ submission \in Submission /\ submission # None
        /\ submission.phase = "settled" /\ ~submission.syncError
    BY <1>t, <1>5 DEF Acknowledge, MayAcknowledge, Recovery, TypeOK
  <2>2. Sound(submission, server, rows, wire)
    BY <1>0, <2>1 DEF SubmissionInv, SoundInv
  <2>3. Sound(submission', server, rows, wire)
    <3>1. /\ submission'.send = submission.send /\ submission'.previous = submission.previous
          /\ submission'.phase = "settled" /\ submission'.stopped = submission.stopped
          /\ submission'.postError = submission.postError /\ ~submission'.syncError
          /\ submission'.definitive = submission.definitive
          /\ submission'.persistence = submission.persistence
      BY <1>5, <2>1 DEF Acknowledge, Submission
    <3> QED
      BY <2>1, <2>2, <3>1 DEF Sound
  <2>4. UNCHANGED <<local, reads>>
    BY <1>5 DEF Acknowledge
  <2> QED
    BY <1>t, <1>w, <2>q, <2>3, <2>4, QuietKeepsSound DEF Carried
<1>6. CASE ConfirmDelete \/ ServeDelete \/ RefuseDelete \/ DeleteReturns
  <2>1. local' = local /\ submission' \in {None, submission}
    BY <1>6 DEF ConfirmDelete, ServeDelete, RefuseDelete, DeleteReturns, Forget
  <2>2. \A q \in Readers : reads'[q].of = reads[q].of
    BY <1>t, <1>6, StaleIs DEF ConfirmDelete, ServeDelete, RefuseDelete, DeleteReturns, Forget
  <2> QED
    BY <1>6, <1>w, <2>1, <2>2 DEF Carried, Quiet
<1>7. CASE Leave \/ UNCHANGED vars
  <2>1. UNCHANGED <<submission, local, reads>>
    BY <1>7 DEF Leave, vars
  <2> QED
    BY <1>7, <1>w, <2>1 DEF Carried, Quiet
<1>8. CASE Stop
  <2>1. submission \in Submission /\ submission # None /\ submission.phase = "sending"
    BY <1>t, <1>8 DEF Stop, TypeOK
  <2>2. Sound(submission, server, rows, wire)
    BY <1>0, <2>1 DEF SubmissionInv, SoundInv
  <2>3. Sound(submission', server, rows, wire)
    <3>1. /\ submission'.send = submission.send /\ submission'.previous = submission.previous
          /\ submission'.phase = "stopping"
          /\ submission'.definitive = submission.definitive
          /\ submission'.persistence = submission.persistence
          /\ submission'.acknowledged = submission.acknowledged
      BY <1>8, <2>1 DEF Stop, Submission
    <3> QED
      BY <2>1, <2>2, <3>1 DEF Sound
  <2>4. UNCHANGED <<local, reads>>
    BY <1>8 DEF Stop
  <2> QED
    BY <1>t, <1>8, <1>w, <2>3, <2>4, QuietKeepsSound DEF Carried
<1>9. ASSUME NEW s \in Sends, Serve(s) PROVE SoundInv'
  <2>1. UNCHANGED <<submission, local, reads>>
    BY <1>9 DEF Serve, Store, Answer, Fail, Drop, Reply, Break, client
  <2> QED
    BY <1>0, <1>9, <2>1, ServeKeepsSound DEF SoundInv, Carried
<1>10. ASSUME NEW s \in Sends, MaySubmit(s), Submit(s) PROVE SoundInv'
  <2>1. Sound(Claimed(s), server', rows', wire')
    BY <1>0, <1>10, ClaimedIsSound
  <2>2. submission' = Claimed(s) /\ local' = Claimed(s)
    BY <1>10 DEF Submit
  <2>3. \A r \in Readers : reads'[r].of = None
    BY <1>t, <1>10, StaleIs, NoReadIs DEF MaySubmit, Submit
  <2> QED
    BY <2>1, <2>2, <2>3 DEF SoundInv
<1> QED
  BY <1>0, <1>1, <1>2, <1>3, <1>4, <1>5, <1>6, <1>7, <1>8, <1>9, <1>10, StepKinds DEF Quiet
-----------------------------------------------------------------------------
LEMMA SubmissionInit == Init => SubmissionInv
<1> SUFFICES ASSUME Init PROVE SubmissionInv
  OBVIOUS
<1>1. TypeOK
  <2>1. SubmissionTypes
    BY DEF Init, SubmissionTypes
  <2>2. SendTypes
    BY DEF Init, SendTypes
  <2>3. PageTypes /\ ReadTypes
    BY NoReadIs DEF Init, PageTypes, ReadTypes
  <2> QED
    BY <2>1, <2>2, <2>3, TypesAre
<1>2. SendInv
  BY DEF Init, SendInv
<1>3. FlowInv
  BY NoReadIs
     DEF Init, FlowInv, AbsentInv, RunningInv, ReadInv, WaitingInv, QueuedInv, DeletionInv,
         Loading, Pending, Readers
<1>4. HistoryInv
  BY NoReadIs DEF Init, HistoryInv
<1>5. SoundInv
  BY NoReadIs DEF Init, SoundInv
<1> QED
  BY <1>1, <1>2, <1>3, <1>4, <1>5 DEF SubmissionInv

(* The inductive invariant, part by part.                                    *)
THEOREM SubmissionInvariant == Spec => []SubmissionInv
<1>1. SubmissionInv /\ [Next]_vars => SubmissionInv'
  BY TypeStep, SendStep, FlowStep, HistoryStep, SoundStep DEF SubmissionInv
<1> QED
  BY <1>1, SubmissionInit, PTL DEF Spec

(* Every variable keeps its type; only a settled submission is acknowledged. *)
THEOREM TypesHold == Spec => []TypeOK
<1>1. SubmissionInv => TypeOK
  BY DEF SubmissionInv
<1> QED
  BY <1>1, SubmissionInvariant, PTL

(* The hook never POSTs a question again on its own, whatever is stopped,    *)
(* lost, reloaded or reopened in between.                                    *)
THEOREM NothingIsPostedTwice == Spec => []PostedAtMostOnce
<1>1. SubmissionInv => PostedAtMostOnce
  BY DEF SubmissionInv, SendInv, PostedAtMostOnce
<1> QED
  BY <1>1, SubmissionInvariant, PTL

(* What the page calls not saved is not on the server and never will be.     *)
THEOREM NotSavedHolds == Spec => []NotSavedIsTrue
<1>1. SubmissionInv => NotSavedIsTrue
  BY DEF SubmissionInv, SoundInv, Sound, NotSavedIsTrue
<1> QED
  BY <1>1, SubmissionInvariant, PTL

(* What the page calls saved, the server has, and the user had not seen it   *)
(* before.                                                                   *)
THEOREM SavedHolds == Spec => []SavedQuestionIsNew
<1>1. SubmissionInv => SavedQuestionIsNew
  BY DEF SubmissionInv, SoundInv, Sound, SavedQuestionIsNew
<1> QED
  BY <1>1, SubmissionInvariant, PTL

(* It is this very send that is saved when the browser has heard of every    *)
(* other send of the same question.  Only then: a question whose answer was  *)
(* lost may be stored late, and is then new although it is another send's.   *)
SavedIsThisSend ==
    /\ submission # None /\ submission.persistence = "saved"
    /\ \A r \in Sends \ {submission.send} :
         ContentOf[r] = ContentOf[submission.send] => wire[r] \notin {"broken", "aborted"}
    => submission.send \in rows

THEOREM SavedIsThisSendHolds == Spec => []SavedIsThisSend
<1>1. SubmissionInv => SavedIsThisSend
  BY DEF SubmissionInv, SoundInv, Sound, SavedIsThisSend, TypeOK, SendTypes
<1> QED
  BY <1>1, SubmissionInvariant, PTL

(* No read in flight brings the history of a deleted conversation back.      *)
THEOREM DeletionForgets == Spec => []ForgottenStaysForgotten
<1>1. SubmissionInv => ForgottenStaysForgotten
  BY DEF SubmissionInv, FlowInv, DeletionInv, ForgottenStaysForgotten
<1> QED
  BY <1>1, SubmissionInvariant, PTL
-----------------------------------------------------------------------------
(* A busy composer.                                                        *)

\* While a submission that was POSTed is pending, its submitMessage runs: its POST
\* is under way or has ended, or it waits for the read that will reconcile the very
\* submission the page shows.
PendingIsAttended ==
    Pending /\ posts[submission.send] > 0 =>
        /\ local # None /\ local.send = submission.send
        /\ \/ local.phase = "sending"
           \/ /\ local = submission
              /\ reads["submit"].of = local /\ reads["submit"].state # "idle"

\* A submission between its claim and its settling belongs to a submitMessage.
PendingRuns == Pending /\ submission.phase # "queued" => local # None

LEMMA PendingStep == SubmissionInv /\ PendingRuns /\ [Next]_vars => PendingRuns'
<1>0. SUFFICES ASSUME SubmissionInv, PendingRuns, [Next]_vars PROVE PendingRuns'
  OBVIOUS
<1> USE DEF PendingRuns, Pending
<1>1. CASE UNCHANGED <<submission, local>>
  BY <1>0, <1>1
<1>2. CASE submission' = None \/ submission'.phase \in {"queued", "settled"}
  BY <1>2
<1>3. ASSUME NEW s \in Sends, MaySubmit(s), Submit(s) PROVE PendingRuns'
  <2>1. Claimed(s) # None
    BY <1>0, <1>3, NewSubmissionIs, NoneIsNoSubmission
       DEF SubmissionInv, TypeOK, MaySubmit, Claimed, Phases
  <2> QED
    BY <1>3, <2>1 DEF Submit
<1>4. CASE Stop
  BY <1>0, <1>4 DEF Stop
<1>5. CASE SendEnds
  <2>1. Ended(local) # None
    BY <1>0, <1>5, EndedIs, NoneIsNoSubmission DEF SubmissionInv, TypeOK, SendEnds
  <2> QED
    BY <1>5, <2>1 DEF SendEnds
<1>6. ASSUME NEW r \in Readers, ReadArrives(r) \/ ReadFails(r) PROVE PendingRuns'
  <2>1. \/ reads[r].of = None /\ submission' = submission
        \/ submission'.phase = "settled"
    BY <1>0, <1>6, ArrivedReadIs, FailedReadIs DEF Settles
  <2>2. CASE reads[r].of = None /\ submission' = submission
    <3>1. r = "load"
      BY <1>0, <1>6, <2>2
         DEF ReadArrives, ReadFails, Readers, SubmissionInv, FlowInv, RunningInv, ReadInv
    <3> QED
      BY <1>1, <1>6, <2>2, <3>1 DEF ReadArrives, ReadFails, EndRead
  <2> QED
    BY <1>2, <2>1, <2>2
<1>7. ASSUME NEW r \in Readers, Reading(r) PROVE PendingRuns'
  BY <1>1, <1>6, <1>7 DEF Reading, ServeRead, BreakRead
<1>8. ASSUME NEW first \in Sends \cup {None}, CreateNew(first) PROVE PendingRuns'
  <2>1. submission = None
    BY <1>0, <1>8 DEF CreateNew, SubmissionInv, FlowInv, AbsentInv
  <2>2. submission' = None \/ submission'.phase = "queued"
    BY <1>8, <2>1, NewSubmissionIs DEF CreateNew, Phases
  <2> QED
    BY <1>2, <2>2
<1>9. CASE Acknowledge
  <2>1. submission \in Submission /\ submission.phase = "settled"
    BY <1>0, <1>9 DEF Acknowledge, MayAcknowledge, Recovery, SubmissionInv, TypeOK
  <2>2. submission'.phase = "settled"
    BY <1>9, <2>1 DEF Acknowledge, Submission
  <2> QED
    BY <1>2, <2>2
<1>10. CASE Open \/ Leave \/ Reload \/ ConfirmDelete \/ ServeDelete \/ RefuseDelete
  BY <1>1, <1>10 DEF Open, Leave, Reload, ConfirmDelete, ServeDelete, RefuseDelete
<1>11. CASE DeleteReturns
  BY <1>1, <1>2, <1>11 DEF DeleteReturns, Forget
<1>12. ASSUME NEW s \in Sends, Serve(s) PROVE PendingRuns'
  BY <1>1, <1>12 DEF Serve, Store, Answer, Fail, Drop, Reply, Break, client
<1>13. CASE UNCHANGED vars
  BY <1>1, <1>13 DEF vars
<1> QED
  BY <1>0, <1>3, <1>4, <1>5, <1>7, <1>8, <1>9, <1>10, <1>11, <1>12, <1>13, StepKinds DEF Quiet

\* What SubmissionsSettle rests on: a busy composer never waits for nothing.
THEOREM BusyComposerIsAttended == Spec => []PendingIsAttended
<1>1. Init => PendingRuns
  BY DEF Init, PendingRuns, Pending
<1>2. SubmissionInv /\ PendingRuns => PendingIsAttended
  <2> SUFFICES ASSUME SubmissionInv, PendingRuns, Pending, posts[submission.send] > 0
               PROVE  /\ local # None /\ local.send = submission.send
                      /\ \/ local.phase = "sending"
                         \/ /\ local = submission
                            /\ reads["submit"].of = local /\ reads["submit"].state # "idle"
    BY DEF PendingIsAttended
  <2>1. submission.send \in Sends
    BY SubmissionFields DEF Pending, SubmissionInv, TypeOK
  <2>2. submission.phase # "queued"
    BY <2>1 DEF Pending, SubmissionInv, FlowInv, QueuedInv
  <2>3. local # None
    BY <2>2 DEF PendingRuns
  <2>4. reads["submit"].of # None => reads["submit"].state # "idle"
    BY NoReadIs DEF SubmissionInv, FlowInv, ReadInv, Readers
  <2> QED
    BY <2>3, <2>4 DEF SubmissionInv, FlowInv, RunningInv
<1> QED
  BY <1>1, <1>2, PendingStep, SubmissionInvariant, PTL DEF Spec
=============================================================================
