------------------------------- MODULE RagAnswer -------------------------------
(***************************************************************************)
(* Search and question answering: the request threads of one process share *)
(* one embedding service, whose model is loaded lazily under a reentrant   *)
(* lock, read a library that changes between their two queries, number the *)
(* passages that fit in the prompt, and check the answer's references.     *)
(*                                                                         *)
(* A question ranks the passages; Ranked[q] is that order and Close[q] the *)
(* passages that reach the minimal similarity.  References of an answer    *)
(* are numbers.                                                            *)
(*                                                                         *)
(* A definition right before ServiceOf, CanAcquire, Candidate, BlockCost   *)
(* or Accepted is a defect that no action uses; README.md says what these  *)
(* variants are for.                                                       *)
(***************************************************************************)
EXTENDS Integers, Sequences, SequencesExt, FiniteSetsExt

CONSTANTS
    Requests,   \* request threads
    Kind,       \* of each: "search", "ask", or "chat" with a history to rewrite
    Docs, Chunks,
    DocOf,      \* the document of a chunk
    Scope,      \* of a request: the documents it names, or Docs
    Questions,
    Ranked,     \* of a question: the chunks by distance
    Close,      \* of a question: the chunks that reach rag_min_similarity
    Cost,       \* of a chunk: the length of its block in the prompt
    Separator,  \* the length between two blocks
    TopK,       \* top_k
    MaxChars,   \* rag_max_context_chars
    None

ASSUME ConstantsAssumption ==
    /\ Kind \in [Requests -> {"search", "ask", "chat"}]
    /\ DocOf \in [Chunks -> Docs]
    /\ Scope \in [Requests -> SUBSET Docs]
    /\ Ranked \in [Questions -> Seq(Chunks)]
    /\ \A q \in Questions : IsInjective(Ranked[q])
    /\ Close \in [Questions -> SUBSET Chunks]
    /\ Cost \in [Chunks -> Nat]
    /\ {Separator, TopK, MaxChars} \subseteq Nat
    /\ None \notin Requests \cup Questions

VARIABLES
    library,   \* of a document: searchable, hidden or absent
    service,   \* _service: the request that created it, or None
    lock,      \* of a service: the thread that holds its RLock, or None
    loaded,    \* of a service: _model is set
    phase,     \* how far each request has come
    question,  \* its search query
    using,     \* the service it got
    prompt,    \* the numbered passages, in the order of their labels
    refs       \* the references in the answer the user sees

engine == <<service, lock, loaded>>
request == <<phase, question, using, prompt, refs>>
vars == <<library, engine, request>>

Searching == {"embed", "model", "building", "encoding", "rank"}
Ended == {"empty", "searched", "answered", "rejected", "missing", "error"}

TypeOK ==
    /\ library \in [Docs -> {"searchable", "hidden", "absent"}]
    /\ service \in Requests \cup {None}
    /\ lock \in [Requests -> Requests \cup {None}]
    /\ loaded \in [Requests -> BOOLEAN]
    /\ phase \in [Requests -> {"start", "rewrite", "check", "generate"} \cup Searching \cup Ended]
    /\ question \in [Requests -> Questions \cup {None}]
    /\ using \in [Requests -> Requests \cup {None}]
    /\ prompt \in [Requests -> Seq(Chunks)]
    /\ refs \in [Requests -> SUBSET (1 .. TopK)]

Init ==
    /\ library \in [Docs -> {"searchable", "hidden"}]
    /\ service = None
    /\ lock = [i \in Requests |-> None]
    /\ loaded = [i \in Requests |-> FALSE]
    /\ phase = [r \in Requests |-> "start"]
    /\ question = [r \in Requests |-> None]
    /\ using = [r \in Requests |-> None]
    /\ prompt = [r \in Requests |-> <<>>]
    /\ refs = [r \in Requests |-> {}]

Moves(r, from, to) == phase[r] = from /\ phase' = [phase EXCEPT ![r] = to]

\* A document becomes searchable, is claimed, or is deleted.
Change(d) ==
    /\ library[d] # "absent"
    /\ \E s \in {"searchable", "hidden", "absent"} : library' = [library EXCEPT ![d] = s]
    /\ UNCHANGED <<engine, request>>

-----------------------------------------------------------------------------
(* The embedding service.                                                  *)

\* get_embedding_service, under its own lock; the first caller creates it.
ServicePerRequest(r) == r
ServiceOf(r) == IF service = None THEN r ELSE service

\* A chat's query is still to be written; on a search's nothing here depends.
Start(r) ==
    /\ Moves(r, "start", IF Kind[r] = "chat" THEN "rewrite" ELSE "check")
    /\ service' = ServiceOf(r)
    /\ using' = [using EXCEPT ![r] = ServiceOf(r)]
    /\ \E q \in IF Kind[r] = "ask" THEN Questions ELSE {None} : question' = [question EXCEPT ![r] = q]
    /\ UNCHANGED <<library, lock, loaded, prompt, refs>>

\* The lock is reentrant: _encode holds it when load_model takes it again.
CanAcquireOnce(r) == lock[using[r]] = None
CanAcquire(r) == lock[using[r]] \in {None, r}

EnterEncode(r) ==
    /\ Moves(r, "embed", "model")
    /\ CanAcquire(r)
    /\ lock' = [lock EXCEPT ![using[r]] = r]
    /\ UNCHANGED <<library, service, loaded, question, using, prompt, refs>>

EnterLoadModel(r) ==
    /\ phase[r] = "model" /\ CanAcquire(r)
    /\ Moves(r, "model", IF loaded[using[r]] THEN "encoding" ELSE "building")
    /\ UNCHANGED <<library, engine, question, using, prompt, refs>>

\* A failed build, or a model of the wrong dimension, leaves _model unset.
Build(r) ==
    /\ \/ /\ Moves(r, "building", "encoding")
          /\ loaded' = [loaded EXCEPT ![using[r]] = TRUE]
          /\ UNCHANGED lock
       \/ /\ Moves(r, "building", "error")
          /\ lock' = [lock EXCEPT ![using[r]] = None]
          /\ UNCHANGED loaded
    /\ UNCHANGED <<library, service, question, using, prompt, refs>>

\* encode and validate_vectors
Encode(r) ==
    /\ \E to \in {"rank", "error"} : Moves(r, "encoding", to)
    /\ lock' = [lock EXCEPT ![using[r]] = None]
    /\ UNCHANGED <<library, service, loaded, question, using, prompt, refs>>

-----------------------------------------------------------------------------
(* search_documents.                                                       *)

CandidateOnceChecked(r, c) == DocOf[c] \in Scope[r]
Candidate(r, c) == DocOf[c] \in Scope[r] /\ library[DocOf[c]] = "searchable"

\* The documents named must be there; without a candidate no model is loaded.
Check(r) ==
    /\ \/ /\ \E d \in Scope[r] : Scope[r] # Docs /\ library[d] = "absent"
          /\ Moves(r, "check", "missing")
       \/ /\ Scope[r] = Docs \/ \A d \in Scope[r] : library[d] # "absent"
          /\ Moves(r, "check", IF \E c \in Chunks : Candidate(r, c) THEN "embed"
                               ELSE IF Kind[r] = "search" THEN "searched" ELSE "empty")
       \/ Moves(r, "check", "error")
    /\ UNCHANGED <<library, engine, question, using, prompt, refs>>

\* RAGContextBuilder.build: a block that does not fit is skipped, not cut.
BlockCostUnseparated(blocks, c) == Cost[c]
BlockCost(blocks, c) == Cost[c] + (IF blocks = <<>> THEN 0 ELSE Separator)

Context(chunks) ==
    LET built[n \in 0 .. Len(chunks)] ==
            IF n = 0 THEN [blocks |-> <<>>, used |-> 0]
            ELSE LET before == built[n - 1]
                     used == before.used + BlockCost(before.blocks, chunks[n])
                 IN IF used <= MaxChars
                    THEN [blocks |-> Append(before.blocks, chunks[n]), used |-> used]
                    ELSE before
    IN built[Len(chunks)].blocks

\* The chunks that are in S, in their order: a WHERE, or a comprehension's if.
Among(chunks, S) ==
    LET kept[n \in 0 .. Len(chunks)] ==
            IF n = 0 THEN <<>>
            ELSE kept[n - 1] \o (IF chunks[n] \in S THEN <<chunks[n]>> ELSE <<>>)
    IN kept[Len(chunks)]

Top(found) == SubSeq(found, 1, Min({TopK, Len(found)}))

\* The second query, on the library as it is now, and the prompt made from it.
\* (Each \E over a singleton names a value, which TLC then computes once.)
Rank(r) ==
    /\ IF Kind[r] = "search"
       THEN Moves(r, "rank", "searched") /\ UNCHANGED prompt
       ELSE /\ phase[r] = "rank"
            /\ \E found \in {Among(Ranked[question[r]], {c \in Chunks : Candidate(r, c)})} :
               \E near \in {Among(Top(found), Close[question[r]])} :
               \E context \in {Context(near)} :
                /\ Moves(r, "rank", IF context = <<>> THEN "empty" ELSE "generate")
                /\ prompt' = [prompt EXCEPT ![r] = context]
    /\ UNCHANGED <<library, engine, question, using, refs>>

RankFails(r) ==
    /\ Moves(r, "rank", "error")
    /\ UNCHANGED <<library, engine, question, using, prompt, refs>>

-----------------------------------------------------------------------------
(* The provider.  Every failure of _chat is an LLMError: configuration,    *)
(* time-out, status, a cut or empty answer, an echo of the key.            *)

\* rewrite_query: any query may come back.
Rewrite(r) ==
    /\ \/ Moves(r, "rewrite", "check") /\ \E q \in Questions : question' = [question EXCEPT ![r] = q]
       \/ Moves(r, "rewrite", "error") /\ UNCHANGED question
    /\ UNCHANGED <<library, engine, using, prompt, refs>>

\* validated_citations: one reference to no source, and the answer is dropped.
AcceptedIfAnyValid(r, cited) == cited = {} \/ cited \cap DOMAIN prompt[r] # {}
Accepted(r, cited) == cited \subseteq DOMAIN prompt[r]

Generate(r) ==
    /\ \E cited \in SUBSET (1 .. TopK + 1) :
        /\ Moves(r, "generate", IF Accepted(r, cited) THEN "answered" ELSE "rejected")
        /\ refs' = [refs EXCEPT ![r] = IF Accepted(r, cited) THEN cited ELSE {}]
    /\ UNCHANGED <<library, engine, question, using, prompt>>

GenerateFails(r) ==
    /\ Moves(r, "generate", "error")
    /\ UNCHANGED <<library, engine, question, using, prompt, refs>>

Step(r) ==
    \/ Start(r) \/ Rewrite(r) \/ Check(r)
    \/ EnterEncode(r) \/ EnterLoadModel(r) \/ Build(r) \/ Encode(r)
    \/ Rank(r) \/ RankFails(r) \/ Generate(r) \/ GenerateFails(r)

Next == (\E d \in Docs : Change(d)) \/ (\E r \in Requests : Step(r))

Spec == Init /\ [][Next]_vars

\* A thread runs on, and calls of the model, the database and the provider
\* return (the provider's have a time-out).
FairSpec == Spec /\ \A r \in Requests : WF_vars(Step(r))

-----------------------------------------------------------------------------
(* Properties.                                                             *)

\* The length of the blocks once they are joined.
Used(blocks) ==
    LET used[n \in 0 .. Len(blocks)] ==
            IF n = 0 THEN 0
            ELSE used[n - 1] + Cost[blocks[n]] + (IF n = 1 THEN 0 ELSE Separator)
    IN used[Len(blocks)]

Citations(r) == {prompt[r][n] : n \in refs[r]}

\* An answer the user sees makes no reference that the prompt does not support
\* ("Fail closed rather than retaining unsupported claims", rag.py:51): what it
\* cites was found in the scope of the request, is close enough to the question,
\* and fitted in the prompt's budget together with all the rest of the prompt.
AnswerIsSupported ==
    \A r \in Requests : phase[r] = "answered" =>
        /\ refs[r] \subseteq DOMAIN prompt[r]
        /\ Citations(r) \subseteq {c \in Close[question[r]] : DocOf[c] \in Scope[r]}
        /\ Used(prompt[r]) <= MaxChars

\* A prompt is made once, of one state of the library: whatever was claimed or
\* deleted since the request's scope and candidates were checked, each passage is
\* of a document that is searchable as the prompt is made, and a prompt is never
\* made anew from a later state.
PromptIsOfOneLibrary ==
    [][\A r \in Requests : prompt'[r] # prompt[r] =>
        /\ prompt[r] = <<>>
        /\ \A n \in DOMAIN prompt'[r] : library[DocOf[prompt'[r][n]]] = "searchable"]_vars

\* However many requests arrive together, and whichever of them fails to load
\* it, the process holds one model, and one thread at a time builds or runs it
\* (embeddings.py:46: "One load at a time; serialize encode calls").
OneModel ==
    /\ \A i, j \in Requests : loaded[i] /\ loaded[j] => i = j
    /\ \A r, s \in Requests :
        phase[r] \in {"building", "encoding"} /\ phase[s] \in {"building", "encoding"} => r = s

\* No request waits for the model for ever, and none for itself.
EveryRequestEnds == \A r \in Requests : phase[r] # "start" ~> phase[r] \in Ended

=============================================================================
