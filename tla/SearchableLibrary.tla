--------------------------- MODULE SearchableLibrary ---------------------------
(***************************************************************************)
(* What the library of documents promises to those who search it and cite  *)
(* from it, without locks, queues, claims or statuses: a document can be   *)
(* searched in its current text or not at all, and its text is never       *)
(* exchanged while it can be searched.  DocumentPipeline implements it.    *)
(***************************************************************************)
CONSTANTS
    Docs,       \* document identities
    Versions,   \* the texts (sets of chunks) a document may have
    None        \* no text

VARIABLES
    current,    \* the version of each document's chunks
    searchable  \* the version whose embeddings a search compares, or None

library == <<current, searchable>>

Init ==
    /\ current \in [Docs -> Versions \cup {None}]
    /\ searchable \in [Docs -> Versions \cup {None}]
    /\ \A d \in Docs : searchable[d] \in {None, current[d]}

Show(d) ==
    /\ current[d] # None
    /\ searchable' = [searchable EXCEPT ![d] = current[d]]
    /\ UNCHANGED current

Hide(d) ==
    /\ searchable' = [searchable EXCEPT ![d] = None]
    /\ UNCHANGED current

Replace(d) ==
    /\ searchable[d] = None
    /\ \E v \in Versions : current' = [current EXCEPT ![d] = v]
    /\ UNCHANGED searchable

Remove(d) ==
    /\ current' = [current EXCEPT ![d] = None]
    /\ searchable' = [searchable EXCEPT ![d] = None]

Next == \E d \in Docs : Show(d) \/ Hide(d) \/ Replace(d) \/ Remove(d)

Spec == Init /\ [][Next]_library
=============================================================================
