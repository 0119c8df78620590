----------------------------- MODULE Conversation -----------------------------
(***************************************************************************)
(* Conversations and multi-turn RAG: POST /conversations/{id}/messages     *)
(* runs in several short transactions with LLM and embedding calls between *)
(* them, next to other posts of the same conversation, its deletion, and   *)
(* the reprocessing and deletion of the documents it cites.                *)
(*                                                                         *)
(* A post is one such request; it makes at most one user and one assistant *)
(* message.  A chunk is a document and the generation of its chunk set;    *)
(* one chunk stands for all chunks of that set.                            *)
(*                                                                         *)
(* A definition right before NextSequence, Before, Candidates,             *)
(* AnswerSequence or MayInsert is a defect that no action uses; README.md  *)
(* says what these variants are for.                                       *)
(***************************************************************************)
EXTENDS Integers, FiniteSets, FiniteSetsExt

CONSTANTS
    Conversations, Posts, Docs,
    ConvOf,          \* the conversation of each post
    Scope,           \* its document_ids; Docs when they are omitted
    HistoryLimit,    \* chat_history_max_messages
    MaxGenerations   \* how often a document is reprocessed (a bound of the model)

ASSUME ConstantsAssumption ==
    /\ IsFiniteSet(Posts)
    /\ ConvOf \in [Posts -> Conversations]
    /\ Scope \in [Posts -> SUBSET Docs]
    /\ HistoryLimit \in Nat
    /\ MaxGenerations \in Nat

VARIABLES
    conversations,  \* which conversations exist
    messages,       \* the messages table
    citations,      \* the message_citations table
    chunks,         \* the document_chunks table; a document always has some here
    searchable,     \* documents that are processed and indexed
    phase,          \* how far each request has come
    asked,          \* sequence_number of its user message
    history,        \* the messages it read as history
    sources         \* the chunks it retrieved, then the citations it loads

tables == <<conversations, messages, citations>>
library == <<chunks, searchable>>
locals == <<asked, history, sources>>
vars == <<conversations, messages, citations, chunks, searchable,
          phase, asked, history, sources>>

Chunk == [doc : Docs, generation : 0 .. MaxGenerations]
Message == [post : Posts, role : {"user", "assistant"}, seq : Nat \ {0},
            grounded : BOOLEAN, retrieval_query : BOOLEAN]
Phases == {"idle", "asked", "remembering", "rewritten", "searching", "retrieved",
           "answered", "loading", "done", "crashed"}
Generating == {"asked", "remembering", "rewritten", "searching", "retrieved"}

TypeOK ==
    /\ conversations \in [Conversations -> {"absent", "open", "deleted"}]
    /\ messages \in SUBSET Message
    /\ citations \in SUBSET (Posts \X Chunk)
    /\ chunks \in SUBSET Chunk
    /\ searchable \in SUBSET Docs
    /\ phase \in [Posts -> Phases]
    /\ asked \in [Posts -> Nat]
    /\ history \in [Posts -> SUBSET (Posts \X {"user", "assistant"})]
    /\ sources \in [Posts -> SUBSET Chunk]

Of(v) == {m \in messages : ConvOf[m.post] = v}
Sequences(v) == {m.seq : m \in Of(v)}
Key(m) == <<m.post, m.role>>
Existing == {k.doc : k \in chunks}

Init ==
    /\ conversations = [v \in Conversations |-> "absent"]
    /\ messages = {}
    /\ citations = {}
    /\ chunks = [doc : Docs, generation : {0}]
    /\ searchable = Docs
    /\ phase = [p \in Posts |-> "idle"]
    /\ asked = [p \in Posts |-> 0]
    /\ history = [p \in Posts |-> {}]
    /\ sources = [p \in Posts |-> {}]

-----------------------------------------------------------------------------
(* The conversation itself, and what happens to the documents meanwhile.   *)

Create(v) ==
    /\ conversations[v] = "absent"
    /\ conversations' = [conversations EXCEPT ![v] = "open"]
    /\ UNCHANGED <<messages, citations, library, phase, locals>>

\* Messages and their citations go with the conversation (ON DELETE CASCADE).
DeleteConversation(v) ==
    /\ conversations[v] = "open"
    /\ conversations' = [conversations EXCEPT ![v] = "deleted"]
    /\ messages' = messages \ Of(v)
    /\ citations' = {x \in citations : ConvOf[x[1]] # v}
    /\ UNCHANGED <<library, phase, locals>>

\* A citation row goes with its chunk.
DropChunksOf(d) ==
    /\ citations' = {x \in citations : x[2].doc # d}
    /\ searchable' = searchable \ {d}
    /\ UNCHANGED <<conversations, messages, phase, locals>>

\* A claim for processing or indexing takes the document out of every search; the
\* worker replaces its chunks, or ends the claim without.
HideDocument(d) ==
    /\ d \in searchable
    /\ searchable' = searchable \ {d}
    /\ UNCHANGED <<tables, chunks, phase, locals>>

Reprocess(d) ==
    /\ d \notin searchable
    /\ \E k \in chunks :
        /\ k.doc = d
        /\ k.generation < MaxGenerations
        /\ chunks' = (chunks \ {k}) \cup {[k EXCEPT !.generation = @ + 1]}
    /\ DropChunksOf(d)

Index(d) ==
    /\ d \in Existing \ searchable
    /\ searchable' = searchable \cup {d}
    /\ UNCHANGED <<tables, chunks, phase, locals>>

DeleteDocument(d) ==
    /\ d \in Existing
    /\ chunks' = {k \in chunks : k.doc # d}
    /\ DropChunksOf(d)

-----------------------------------------------------------------------------
(* One request: post_message and then _load_message_read.                  *)

Go(p, from, to) ==
    /\ phase[p] = from
    /\ phase' = [phase EXCEPT ![p] = to]

\* The handler needs its history and the question's number no more.
Forget(p) ==
    /\ asked' = [asked EXCEPT ![p] = 0]
    /\ history' = [history EXCEPT ![p] = {}]
    /\ sources' = [sources EXCEPT ![p] = {}]

\* select max(sequence_number) + 1, under the conversation's row lock.
NextSequenceFromZero(v) == Max(Sequences(v) \cup {-1}) + 1
NextSequence(v) == Max(Sequences(v) \cup {0}) + 1

Ask(p) ==
    /\ Go(p, "idle", "asked")
    /\ conversations[ConvOf[p]] = "open"
    /\ Scope[p] = Docs \/ Scope[p] \subseteq Existing
    /\ LET n == NextSequence(ConvOf[p]) IN
         /\ messages' = messages \cup
              {[post |-> p, role |-> "user", seq |-> n,
                grounded |-> FALSE, retrieval_query |-> FALSE]}
         /\ asked' = [asked EXCEPT ![p] = n]
    /\ UNCHANGED <<conversations, citations, library, history, sources>>

\* ORDER BY sequence_number DESC LIMIT HistoryLimit
MostRecent(S) == {m \in S : Cardinality({k \in S : k.seq > m.seq}) < HistoryLimit}
BeforeOwnIncluded(p) == Of(ConvOf[p])
Before(p) == {m \in Of(ConvOf[p]) : m.seq < asked[p]}

ReadHistory(p) ==
    /\ Go(p, "asked", "remembering")
    /\ history' = [history EXCEPT ![p] = {Key(m) : m \in MostRecent(Before(p))}]
    /\ UNCHANGED <<tables, library, asked, sources>>

\* The rewrite has answered.  db.get finds the message in the session and asks
\* no database; an UPDATE that meets no row raises StaleDataError (Abandon).
StoreRetrievalQuery(p) ==
    /\ Go(p, "remembering", "rewritten")
    /\ \E m \in messages :
         /\ Key(m) = <<p, "user">>
         /\ messages' = (messages \ {m}) \cup {[m EXCEPT !.retrieval_query = TRUE]}
    /\ UNCHANGED <<conversations, citations, library, locals>>

\* search_documents checks the scope again, then embeds the query.
AuthorizeSearch(p) ==
    /\ Go(p, "rewritten", "searching")
    /\ Scope[p] = Docs \/ Scope[p] \subseteq Existing
    /\ UNCHANGED <<tables, library, locals>>

\* Any of the candidates: similarity, top_k and the context budget decide.
CandidatesOfLibrary(p) == {k \in chunks : k.doc \in searchable /\ p \in Posts}
Candidates(p) == {k \in chunks : k.doc \in searchable \cap Scope[p]}

Search(p) ==
    /\ Go(p, "searching", "retrieved")
    /\ \E found \in SUBSET Candidates(p) : sources' = [sources EXCEPT ![p] = found]
    /\ UNCHANGED <<tables, library, asked, history>>

AnswerSequenceAtEnd(p) == NextSequence(ConvOf[p])
AnswerSequence(p) == asked[p] + 1

\* Constraints the INSERT meets: the conversation's row, the unique sequence
\* number, and the foreign keys of the citations.
MayInsertAnyNumber(p, n, cited) ==
    n \in Nat /\ conversations[ConvOf[p]] = "open" /\ cited \subseteq chunks
MayInsert(p, n, cited) ==
    /\ conversations[ConvOf[p]] = "open"
    /\ n \notin Sequences(ConvOf[p])
    /\ cited \subseteq chunks

\* cited = {} stands for NO_CONTEXT and for an answer that cites nothing.
Answer(p) ==
    /\ Go(p, "retrieved", "answered")
    /\ \E cited \in SUBSET sources[p] :
         /\ MayInsert(p, AnswerSequence(p), cited)
         /\ messages' = messages \cup
              {[post |-> p, role |-> "assistant", seq |-> AnswerSequence(p),
                grounded |-> cited # {}, retrieval_query |-> FALSE]}
         /\ citations' = citations \cup ({p} \X cited)
    /\ Forget(p)
    /\ UNCHANGED <<conversations, library>>

\* An LLM, embedding or database error, a constraint above, or a 404: the open
\* transaction is rolled back and what is committed stays.
Abandon(p) ==
    /\ phase[p] \in Generating \cup {"answered", "loading"}
    /\ phase' = [phase EXCEPT ![p] = "done"]
    /\ Forget(p)
    /\ UNCHANGED <<tables, library>>

\* The response is read back by separate SELECTs, each of its own snapshot:
\* first the message with its citations, ...
Citing(p) == {x[2] : x \in {y \in citations : y[1] = p}}
LoadMessage(p) ==
    /\ \E m \in messages : Key(m) = <<p, "assistant">>
    /\ Go(p, "answered", "loading")
    /\ sources' = [sources EXCEPT ![p] = Citing(p)]
    /\ UNCHANGED <<tables, library, asked, history>>

MessageGone(p) ==
    /\ ~ \E m \in messages : Key(m) = <<p, "assistant">>
    /\ Go(p, "answered", "done")
    /\ UNCHANGED <<tables, library, locals>>

\* ... then their documents and chunks: a citation whose chunk is gone has None
\* there, and _message_read takes its attributes.
LoadSources(p) ==
    /\ Go(p, "loading", IF sources[p] \subseteq chunks THEN "done" ELSE "crashed")
    /\ Forget(p)
    /\ UNCHANGED <<tables, library>>

-----------------------------------------------------------------------------

Request(p) ==
    \/ Ask(p) \/ ReadHistory(p) \/ StoreRetrievalQuery(p) \/ AuthorizeSearch(p)
    \/ Search(p) \/ Answer(p) \/ Abandon(p)
    \/ LoadMessage(p) \/ MessageGone(p) \/ LoadSources(p)

Next ==
    \/ \E v \in Conversations : Create(v) \/ DeleteConversation(v)
    \/ \E d \in Docs : HideDocument(d) \/ Reprocess(d) \/ Index(d) \/ DeleteDocument(d)
    \/ \E p \in Posts : Request(p)

Spec == Init /\ [][Next]_vars

-----------------------------------------------------------------------------
(* Correctness.                                                            *)

\* The messages of a conversation are numbered 1, 2, 3, ... without a gap,
\* although an answer's number is fixed before the question is processed and
\* other questions are numbered meanwhile.
SequencesAreContiguous ==
    \A v \in Conversations :
        /\ Sequences(v) = 1 .. Cardinality(Of(v))
        /\ \A m, n \in Of(v) : m.seq = n.seq => m = n

\* An answer stands directly after the question it answers, and that question
\* carries the query the answer was retrieved with.
AnswerFollowsQuestion ==
    \A a \in messages : a.role = "assistant" =>
        \E q \in messages :
            /\ Key(q) = <<a.post, "user">>
            /\ q.seq = a.seq - 1
            /\ q.retrieval_query

\* The history a question was rewritten and answered with stays what precedes
\* it: no later message is inserted before the question.
HistoryIsWhatPreceded ==
    \A p \in Posts :
        phase[p] \in Generating \ {"asked"} /\ conversations[ConvOf[p]] = "open" =>
            history[p] = {Key(m) : m \in MostRecent(Before(p))}

\* Every stored citation belongs to a grounded answer of an open conversation,
\* to a chunk that still exists, and to a document the question was scoped to.
StoredEvidence ==
    \A x \in citations :
        /\ x[2] \in chunks
        /\ x[2].doc \in Scope[x[1]]
        /\ \E m \in messages : Key(m) = <<x[1], "assistant">> /\ m.grounded
=============================================================================
