---------------------------- MODULE ConversationList ----------------------------
(***************************************************************************)
(* The conversations in the sidebar (conversation-provider.tsx): a first   *)
(* page and more pages by offset, merged with what the user's own actions  *)
(* answer, in whatever order the answers arrive.  The list is ordered by   *)
(* updated_at, so a conversation is represented by that stamp and the list *)
(* by a set.                                                               *)
(*                                                                         *)
(* The bounds of the model: one first page, one creation and one history   *)
(* under way at a time; of the last two the page itself ensures only the   *)
(* creation.  Dialogs are modal.                                           *)
(*                                                                         *)
(* The names that every specification has are prefixed here: this provider *)
(* and Session's are proved about in one module.                           *)
(*                                                                         *)
(* A definition right before FirstReturns or OneLess is a defect that no   *)
(* action uses; README.md says what these variants are for.                *)
(***************************************************************************)
EXTENDS Integers, FiniteSets, FiniteSetsExt

CONSTANTS
    Convs,     \* conversation identities
    PageSize,  \* PAGE_SIZE
    MaxClock,  \* changes at the server (a bound of the model)
    MaxClicks, \* actions the user starts (a bound of the model)
    NoConv     \* no conversation

ASSUME ListAssumption ==
    /\ IsFiniteSet(Convs)
    /\ PageSize \in Nat \ {0}
    /\ {MaxClock, MaxClicks} \subseteq Nat
    /\ NoConv \notin Convs

VARIABLES
    updated,  \* of a conversation: its updated_at; 0 before it is created, -1 once deleted
    clock,
    list,     \* conversations: what the sidebar shows
    total,
    error,
    first,    \* loadFirstPage; changed: listRevision has moved since it asked
    more,     \* loadMore
    create,   \* createNew
    dialog,   \* submitRename or confirmDelete
    read,     \* a listHistory read, after a question was sent or not
    clicks,
    told,     \* of a conversation: the last change of it that was acknowledged
    gone,     \* conversations whose deletion was acknowledged
    asof,     \* the clock of the first page shown
    raced     \* conversations renamed or deleted while an older answer about one was
              \* on its way: its creation, or its history

serverState == <<updated, clock>>
sidebar == <<list, total, error>>
listHistory == <<clicks, told, gone, asof, raced>>
listVars == <<serverState, sidebar, first, more, create, dialog, read, listHistory>>

Entry == [id : Convs, stamp : 1 .. MaxClock]
Phases == {"idle", "posting", "asked", "answered", "broken"}
NoLoad == [phase |-> "idle", changed |-> FALSE, again |-> FALSE, offset |-> 0,
           items |-> {}, total |-> 0, clock |-> 0]
NoTask == [phase |-> "idle", kind |-> "none", conv |-> NoConv, stamp |-> 0]

Load == [phase : Phases, changed : BOOLEAN, again : BOOLEAN, offset : 0 .. Cardinality(Convs),
         items : SUBSET Entry, total : 0 .. Cardinality(Convs), clock : 0 .. MaxClock]
Task == [phase : Phases, kind : {"none", "rename", "delete"}, conv : Convs \cup {NoConv}, stamp : 0 .. MaxClock]

ListTypeOK ==
    /\ updated \in [Convs -> -1 .. MaxClock] /\ clock \in 0 .. MaxClock
    /\ list \subseteq Entry /\ \A e, f \in list : e.id = f.id => e = f
    /\ total \in 0 .. Cardinality(Convs) + 1 /\ error \in BOOLEAN
    /\ {first, more} \subseteq Load
    /\ {create, dialog, read} \subseteq Task
    /\ clicks \in 0 .. MaxClicks
    /\ told \in [Convs -> 0 .. MaxClock] /\ asof \in 0 .. MaxClock
    /\ gone \subseteq Convs /\ raced \subseteq Convs

ListInit ==
    /\ clock \in 1 .. MaxClock
    /\ updated \in {f \in [Convs -> 0 .. clock] : \A s \in 1 .. clock : Cardinality({c \in Convs : f[c] = s}) = 1}
    /\ list = {} /\ total = 0 /\ error = FALSE
    /\ first = [NoLoad EXCEPT !.phase = "asked"]
    /\ more = NoLoad
    /\ create = NoTask /\ dialog = NoTask /\ read = NoTask
    /\ clicks = 0
    /\ told = [c \in Convs |-> 0] /\ gone = {} /\ asof = 0 /\ raced = {}

Exists(c) == updated[c] > 0
Stored == {c \in Convs : Exists(c)}
Listed(c) == \E e \in list : e.id = c

-----------------------------------------------------------------------------
(* The server.                                                             *)

\* list_conversations: the existing ones in descending order of updated_at.
Newer(c) == Cardinality({d \in Stored : updated[d] > updated[c]})
Page(offset) ==
    {[id |-> c, stamp |-> updated[c]] : c \in {d \in Stored : Newer(d) \in offset .. offset + PageSize - 1}}

Answered(l) ==
    [l EXCEPT !.phase = "answered", !.items = Page(l.offset),
              !.total = Cardinality(Stored), !.clock = clock]
Broken(l) == [l EXCEPT !.phase = "broken"]

ServeFirst ==
    /\ first.phase = "asked"
    /\ first' \in {Answered(first), Broken(first)}
    /\ UNCHANGED <<serverState, sidebar, more, create, dialog, read, listHistory>>

ServeMore ==
    /\ more.phase = "asked"
    /\ more' \in {Answered(more), Broken(more)}
    /\ UNCHANGED <<serverState, sidebar, first, create, dialog, read, listHistory>>

Touch(c) ==
    /\ clock < MaxClock
    /\ clock' = clock + 1
    /\ updated' = [updated EXCEPT ![c] = clock + 1]

\* create_conversation; a broken answer does not say whether it was done.
ServeCreate ==
    /\ create.phase = "asked"
    /\ \/ \E c \in Convs :
            /\ updated[c] = 0 /\ Touch(c)
            /\ create' \in {[create EXCEPT !.phase = "answered", !.conv = c, !.stamp = clock'],
                            [create EXCEPT !.phase = "broken"]}
       \/ create' = [create EXCEPT !.phase = "broken"] /\ UNCHANGED serverState
    /\ UNCHANGED <<sidebar, first, more, dialog, read, listHistory>>

\* rename_conversation and delete_conversation
ServeDialog ==
    LET c == dialog.conv
        older == create.conv = c \/ (read.conv = c /\ read.phase = "answered")
        done == [dialog EXCEPT !.phase = "answered", !.stamp = clock']
        lost == [dialog EXCEPT !.phase = "broken"]
    IN /\ dialog.phase = "asked"
       /\ \/ /\ Exists(c)
             /\ \/ dialog.kind = "rename" /\ Touch(c)
                \/ /\ dialog.kind = "delete" /\ UNCHANGED clock
                   /\ updated' = [updated EXCEPT ![c] = -1]
             /\ dialog' \in {done, lost}
             /\ raced' = IF older THEN raced \cup {c} ELSE raced
          \/ dialog' = lost /\ UNCHANGED <<serverState, raced>>
       /\ UNCHANGED <<sidebar, first, more, create, read, clicks, told, gone, asof>>

\* A question is stored, or it fails; either way the history is read.
ServePost ==
    /\ read.phase = "posting"
    /\ read' = [read EXCEPT !.phase = "asked"]
    /\ \/ Exists(read.conv) /\ Touch(read.conv)
       \/ UNCHANGED serverState
    /\ UNCHANGED <<sidebar, first, more, create, dialog, listHistory>>

ServeRead ==
    /\ read.phase = "asked"
    /\ \/ Exists(read.conv) /\ read' = [read EXCEPT !.phase = "answered", !.stamp = updated[read.conv]]
       \/ read' = [read EXCEPT !.phase = "broken"]
    /\ UNCHANGED <<serverState, sidebar, first, more, create, dialog, listHistory>>

-----------------------------------------------------------------------------
(* The provider.                                                           *)

\* listRevision moves: the lists on their way do not know of the change.
BumpRevision ==
    /\ first' = [first EXCEPT !.changed = first.phase # "idle"]
    /\ more' = [more EXCEPT !.changed = more.phase # "idle"]

Without(c) == {e \in list : e.id # c}
Upsert(c, stamp) ==
    /\ BumpRevision
    /\ list' = Without(c) \cup {[id |-> c, stamp |-> stamp]}

\* A list answer is used unless the revision has moved; the first page is then
\* asked for once more.
FirstReturnsUnchecked ==
    /\ first.phase = "answered"
    /\ first' = NoLoad
    /\ list' = first.items /\ total' = first.total /\ asof' = first.clock
    /\ UNCHANGED <<serverState, error, more, create, dialog, read, clicks, told, gone, raced>>
FirstReturns ==
    /\ first.phase = "answered"
    /\ \/ /\ ~first.changed
          /\ first' = NoLoad
          /\ list' = first.items /\ total' = first.total /\ asof' = first.clock
          /\ UNCHANGED error
       \/ /\ first.changed /\ ~first.again
          /\ first' = [NoLoad EXCEPT !.phase = "asked", !.again = TRUE]
          /\ UNCHANGED <<sidebar, asof>>
       \/ /\ first.changed /\ first.again
          /\ first' = NoLoad
          /\ error' = TRUE /\ UNCHANGED <<list, total, asof>>
    /\ UNCHANGED <<serverState, more, create, dialog, read, clicks, told, gone, raced>>

MoreReturns ==
    /\ more.phase = "answered"
    /\ more' = NoLoad
    /\ IF more.changed
       THEN error' = TRUE /\ UNCHANGED <<list, total>>
       ELSE /\ list' = list \cup {e \in more.items : ~Listed(e.id)}
            /\ total' = more.total /\ UNCHANGED error
    /\ UNCHANGED <<serverState, first, create, dialog, read, listHistory>>

ListFails ==
    /\ \/ first.phase = "broken" /\ first' = NoLoad /\ UNCHANGED more
       \/ more.phase = "broken" /\ more' = NoLoad /\ UNCHANGED first
    /\ error' = TRUE
    /\ UNCHANGED <<serverState, list, total, create, dialog, read, listHistory>>

CreateReturns ==
    /\ create.phase \in {"answered", "broken"}
    /\ create' = NoTask
    /\ IF create.phase = "answered"
       THEN /\ Upsert(create.conv, create.stamp)
            /\ total' = total + 1
            /\ told' = [told EXCEPT ![create.conv] = create.stamp]
            /\ UNCHANGED error
       ELSE error' = TRUE /\ UNCHANGED <<list, total, told, first, more>>
    /\ UNCHANGED <<serverState, dialog, read, clicks, gone, asof, raced>>

RenameReturns ==
    /\ dialog.kind = "rename" /\ dialog.phase = "answered"
    /\ dialog' = NoTask
    /\ Upsert(dialog.conv, dialog.stamp)
    /\ told' = [told EXCEPT ![dialog.conv] = dialog.stamp]
    /\ UNCHANGED <<serverState, total, error, create, read, clicks, gone, asof, raced>>

OneLessUnclamped == total - 1
OneLess == Max({0, total - 1})

DeleteReturns ==
    /\ dialog.kind = "delete" /\ dialog.phase = "answered"
    /\ dialog' = NoTask
    /\ BumpRevision
    /\ list' = Without(dialog.conv)
    /\ total' = OneLess
    /\ gone' = gone \cup {dialog.conv}
    /\ UNCHANGED <<serverState, error, create, read, clicks, told, asof, raced>>

\* The dialog stays open with its own error; the user closes it or tries again.
DialogFails ==
    /\ dialog.phase = "broken"
    /\ \/ dialog' = NoTask /\ UNCHANGED clicks
       \/ /\ clicks < MaxClicks /\ clicks' = clicks + 1
          /\ dialog' = [dialog EXCEPT !.phase = "asked"]
    /\ UNCHANGED <<serverState, sidebar, first, more, create, read, told, gone, asof, raced>>

ReadReturns ==
    /\ read.phase \in {"answered", "broken"}
    /\ read' = NoTask
    /\ IF read.phase = "answered" THEN Upsert(read.conv, read.stamp) ELSE UNCHANGED <<list, first, more>>
    /\ UNCHANGED <<serverState, total, error, create, dialog, listHistory>>

-----------------------------------------------------------------------------
(* The user, who is kept from everything else by an open dialog.           *)

Click ==
    /\ dialog.phase = "idle"
    /\ clicks < MaxClicks
    /\ clicks' = clicks + 1

Retry ==
    /\ Click /\ error /\ first.phase = "idle"
    /\ first' = [NoLoad EXCEPT !.phase = "asked"]
    /\ error' = FALSE
    /\ UNCHANGED <<serverState, list, total, more, create, dialog, read, told, gone, asof, raced>>

LoadMore ==
    /\ Click /\ first.phase = "idle" /\ more.phase = "idle"
    /\ Cardinality(list) < total
    /\ more' = [NoLoad EXCEPT !.phase = "asked", !.offset = Cardinality(list)]
    /\ error' = FALSE
    /\ UNCHANGED <<serverState, list, total, first, create, dialog, read, told, gone, asof, raced>>

CreateNew ==
    /\ Click /\ create.phase = "idle"
    /\ create' = [NoTask EXCEPT !.phase = "asked"]
    /\ error' = FALSE
    /\ UNCHANGED <<serverState, list, total, first, more, dialog, read, told, gone, asof, raced>>

\* Not offered for a conversation whose history is being read or written.
Confirm(kind, c) ==
    /\ Click /\ first.phase = "idle" /\ Listed(c)
    /\ kind = "delete" => read.conv # c
    /\ dialog' = [NoTask EXCEPT !.phase = "asked", !.kind = kind, !.conv = c]
    /\ UNCHANGED <<serverState, sidebar, first, more, create, read, told, gone, asof, raced>>

\* A conversation is opened, also one the list does not show; a question is sent.
Open(c) ==
    /\ Click /\ read.phase = "idle" /\ Exists(c)
    /\ \E phase \in {"asked", "posting"} : read' = [NoTask EXCEPT !.phase = phase, !.conv = c]
    /\ UNCHANGED <<serverState, sidebar, first, more, create, dialog, told, gone, asof, raced>>

ListNext ==
    \/ ServeFirst \/ ServeMore \/ ServeCreate \/ ServeDialog \/ ServePost \/ ServeRead
    \/ FirstReturns \/ MoreReturns \/ ListFails
    \/ CreateReturns \/ RenameReturns \/ DeleteReturns \/ DialogFails \/ ReadReturns
    \/ Retry \/ LoadMore \/ CreateNew
    \/ \E c \in Convs : Open(c) \/ (\E kind \in {"rename", "delete"} : Confirm(kind, c))

ListSpec == ListInit /\ [][ListNext]_listVars

-----------------------------------------------------------------------------
(* Properties.                                                             *)

\* No list answer, however late, undoes what the user was told: a conversation
\* that was created or renamed after the first page shown is in the list, no
\* older than it was then, and a deleted one does not come back.  Two late answers
\* that are not lists do: a history that was read before a rename takes the title
\* back, and a creation brings back a conversation that a reloaded list already
\* showed, and that was deleted, before the creation was answered.
OlderAnswersDoNotUndo ==
    \A c \in Convs \ raced :
        /\ c \in gone => ~Listed(c)
        /\ told[c] > asof /\ c \notin gone =>
               \E e \in list : e.id = c /\ e.stamp >= told[c]

=============================================================================
