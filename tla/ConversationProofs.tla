--------------------------- MODULE ConversationProofs ---------------------------
(***************************************************************************)
(* Conversation, for any number of conversations, posts, documents and     *)
(* generations: its types and the numbering of its messages (which need    *)
(* each other: a number is one more than the greatest there is), what an   *)
(* answer follows, what the history remains, what a citation stands on,    *)
(* and that all this needs nothing of the documents but the cascade.       *)
(***************************************************************************)
EXTENDS Conversation, FiniteSetTheorems, TLAPS

LEMMA PostTypes ==
    \A p \in Posts : ConvOf[p] \in Conversations /\ Scope[p] \subseteq Docs
  BY ConstantsAssumption

-----------------------------------------------------------------------------
(* The numbers of a conversation.                                          *)

LEMMA MaxOfNumbers ==
    ASSUME NEW n \in Nat
    PROVE  Max(1 .. n \cup {0}) = n
<1>1. n \in 1 .. n \cup {0} /\ \A y \in 1 .. n \cup {0} : n >= y
  OBVIOUS
<1>2. \A x \in 1 .. n \cup {0} : (\A y \in 1 .. n \cup {0} : x >= y) => x = n
  BY <1>1
<1> QED
  BY <1>1, <1>2 DEF Max

LEMMA NextNumber ==
    ASSUME IsFiniteSet(messages), SequencesAreContiguous, NEW v \in Conversations
    PROVE  /\ IsFiniteSet(Of(v)) /\ Cardinality(Of(v)) \in Nat
           /\ NextSequence(v) = Cardinality(Of(v)) + 1
<1>1. IsFiniteSet(Of(v)) /\ Cardinality(Of(v)) \in Nat
  <2>1. Of(v) \in SUBSET messages
    BY DEF Of
  <2> QED
    BY <2>1, FS_Subset, FS_CardinalityType
<1>2. Sequences(v) = 1 .. Cardinality(Of(v))
  BY DEF SequencesAreContiguous
<1> QED
  BY <1>1, <1>2, MaxOfNumbers DEF NextSequence

(* The next message of a conversation keeps its numbers without a gap, ...   *)
LEMMA AppendKeepsNumbers ==
    ASSUME IsFiniteSet(messages), SequencesAreContiguous,
           NEW m, ConvOf[m.post] \in Conversations,
           m.seq = Cardinality(Of(ConvOf[m.post])) + 1,
           messages' = messages \cup {m}
    PROVE  IsFiniteSet(messages)' /\ SequencesAreContiguous'
<1> DEFINE v == ConvOf[m.post]
           n == Cardinality(Of(v))
<1>1. IsFiniteSet(messages')
  BY FS_AddElement
<1>2. IsFiniteSet(Of(v)) /\ n \in Nat
  BY NextNumber
<1>3. Of(v)' = Of(v) \cup {m} /\ \A w \in Conversations \ {v} : Of(w)' = Of(w)
  BY DEF Of
<1>4. Sequences(v) = 1 .. n /\ \A k, l \in Of(v) : k.seq = l.seq => k = l
  BY DEF SequencesAreContiguous
<1>5. \A k \in Of(v) : k.seq \in 1 .. n
  BY <1>4 DEF Sequences
<1>6. m \notin Of(v)
  BY <1>2, <1>5
<1>7. Cardinality(Of(v)') = n + 1
  BY <1>2, <1>3, <1>6, FS_AddElement
<1>8. Sequences(v)' = 1 .. n + 1
  <2>1. Sequences(v)' = Sequences(v) \cup {n + 1}
    BY <1>3 DEF Sequences
  <2> QED
    BY <1>2, <1>4, <2>1
<1>9. \A k, l \in Of(v)' : k.seq = l.seq => k = l
  BY <1>2, <1>3, <1>4, <1>5
<1>10. ASSUME NEW w \in Conversations \ {v}
       PROVE  /\ Sequences(w)' = 1 .. Cardinality(Of(w)')
              /\ \A k, l \in Of(w)' : k.seq = l.seq => k = l
  BY <1>3 DEF SequencesAreContiguous, Sequences
<1> QED
  BY <1>1, <1>7, <1>8, <1>9, <1>10 DEF SequencesAreContiguous

(* ... so does a message that takes another's place and number, ...          *)
LEMMA ReplaceKeepsNumbers ==
    ASSUME IsFiniteSet(messages), SequencesAreContiguous,
           NEW m \in messages, NEW n, n.post = m.post, n.seq = m.seq,
           ConvOf[m.post] \in Conversations,
           messages' = (messages \ {m}) \cup {n}
    PROVE  IsFiniteSet(messages)' /\ SequencesAreContiguous'
<1> DEFINE v == ConvOf[m.post]
<1>1. IsFiniteSet(messages')
  BY FS_RemoveElement, FS_AddElement
<1>2. IsFiniteSet(Of(v)) /\ Cardinality(Of(v)) \in Nat
  BY NextNumber
<1>3. Of(v)' = (Of(v) \ {m}) \cup {n} /\ \A w \in Conversations \ {v} : Of(w)' = Of(w)
  BY DEF Of
<1>4. m \in Of(v)
  BY DEF Of
<1>5. Sequences(v) = 1 .. Cardinality(Of(v)) /\ \A k, l \in Of(v) : k.seq = l.seq => k = l
  BY DEF SequencesAreContiguous
<1>6. n \notin Of(v) \ {m}
  BY <1>4, <1>5
<1>7. Cardinality(Of(v)') = Cardinality(Of(v))
  <2>1. IsFiniteSet(Of(v) \ {m}) /\ Cardinality(Of(v) \ {m}) = Cardinality(Of(v)) - 1
    BY <1>2, <1>4, FS_RemoveElement
  <2>2. Cardinality((Of(v) \ {m}) \cup {n}) = Cardinality(Of(v) \ {m}) + 1
    BY <1>6, <2>1, FS_AddElement
  <2> QED
    BY <1>2, <1>3, <2>1, <2>2
<1>8. Sequences(v)' = Sequences(v)
  BY <1>3, <1>4 DEF Sequences
<1>9. \A k, l \in Of(v)' : k.seq = l.seq => k = l
  BY <1>3, <1>4, <1>5
<1>10. ASSUME NEW w \in Conversations \ {v}
       PROVE  /\ Sequences(w)' = 1 .. Cardinality(Of(w)')
              /\ \A k, l \in Of(w)' : k.seq = l.seq => k = l
  BY <1>3 DEF SequencesAreContiguous, Sequences
<1> QED
  BY <1>1, <1>5, <1>7, <1>8, <1>9, <1>10 DEF SequencesAreContiguous

(* ... and the end of a conversation, which takes all its messages.          *)
LEMMA CascadeKeepsNumbers ==
    ASSUME IsFiniteSet(messages), SequencesAreContiguous,
           NEW v \in Conversations, messages' = messages \ Of(v)
    PROVE  IsFiniteSet(messages)' /\ SequencesAreContiguous'
<1>1. IsFiniteSet(messages')
  <2>1. messages \ Of(v) \in SUBSET messages
    OBVIOUS
  <2> QED
    BY <2>1, FS_Subset
<1>2. Of(v)' = {} /\ \A w \in Conversations \ {v} : Of(w)' = Of(w)
  BY DEF Of
<1>3. Sequences(v)' = 1 .. Cardinality(Of(v)')
  BY <1>2, FS_EmptySet DEF Sequences
<1>4. ASSUME NEW w \in Conversations \ {v}
      PROVE  /\ Sequences(w)' = 1 .. Cardinality(Of(w)')
             /\ \A k, l \in Of(w)' : k.seq = l.seq => k = l
  BY <1>2 DEF SequencesAreContiguous, Sequences
<1> QED
  BY <1>1, <1>2, <1>3, <1>4 DEF SequencesAreContiguous

-----------------------------------------------------------------------------
(* Types.                                                                  *)

NumbersInv == TypeOK /\ IsFiniteSet(messages) /\ SequencesAreContiguous

LEMMA UserMessageType ==
    ASSUME NumbersInv, NEW p \in Posts
    PROVE  /\ NextSequence(ConvOf[p]) \in Nat \ {0}
           /\ [post |-> p, role |-> "user", seq |-> NextSequence(ConvOf[p]),
               grounded |-> FALSE, retrieval_query |-> FALSE] \in Message
<1>1. NextSequence(ConvOf[p]) \in Nat \ {0}
  BY PostTypes, NextNumber DEF NumbersInv
<1> QED
  BY <1>1 DEF Message

LEMMA ReprocessTypes ==
    ASSUME TypeOK, NEW d \in Docs, Reprocess(d)
    PROVE  /\ chunks' \in SUBSET Chunk
           /\ \E k \in chunks : /\ k.doc = d
                               /\ chunks' = (chunks \ {k}) \cup {[k EXCEPT !.generation = @ + 1]}
<1>1. PICK k \in chunks :
        /\ k.doc = d /\ k.generation < MaxGenerations
        /\ chunks' = (chunks \ {k}) \cup {[k EXCEPT !.generation = @ + 1]}
  BY DEF Reprocess
<1>2. k \in Chunk
  BY DEF TypeOK
<1>3. k.generation + 1 \in 0 .. MaxGenerations
  BY <1>1, <1>2, ConstantsAssumption DEF Chunk
<1>4. [k EXCEPT !.generation = @ + 1] \in Chunk
  BY <1>2, <1>3 DEF Chunk
<1> QED
  BY <1>1, <1>4 DEF TypeOK

LEMMA ForgetTypes ==
    ASSUME TypeOK, NEW p \in Posts, Forget(p)
    PROVE  /\ asked' \in [Posts -> Nat]
           /\ history' \in [Posts -> SUBSET (Posts \X {"user", "assistant"})]
           /\ sources' \in [Posts -> SUBSET Chunk]
  BY DEF TypeOK, Forget

LEMMA CitingType ==
    ASSUME TypeOK, NEW p \in Posts
    PROVE  Citing(p) \in SUBSET Chunk
  BY DEF TypeOK, Citing

LEMMA TypeOKStep == NumbersInv /\ [Next]_vars => TypeOK'
<1>0. SUFFICES ASSUME NumbersInv, [Next]_vars PROVE TypeOK'
  OBVIOUS
<1>t. TypeOK
  BY <1>0 DEF NumbersInv
<1> USE PostTypes DEF TypeOK, tables, library, locals, Go, Phases
<1>1. ASSUME NEW v \in Conversations, Create(v) PROVE TypeOK'
  BY <1>t, <1>1 DEF Create
<1>2. ASSUME NEW v \in Conversations, DeleteConversation(v) PROVE TypeOK'
  BY <1>t, <1>2 DEF DeleteConversation
<1>3. ASSUME NEW d \in Docs, HideDocument(d) \/ Index(d) PROVE TypeOK'
  BY <1>t, <1>3 DEF HideDocument, Index
<1>4. ASSUME NEW d \in Docs, Reprocess(d) PROVE TypeOK'
  <2>1. chunks' \in SUBSET Chunk
    BY <1>t, <1>4, ReprocessTypes DEF Reprocess
  <2>2. DropChunksOf(d)
    BY <1>4 DEF Reprocess
  <2> QED
    BY <1>t, <2>1, <2>2 DEF DropChunksOf
<1>5. ASSUME NEW d \in Docs, DeleteDocument(d) PROVE TypeOK'
  BY <1>t, <1>5 DEF DeleteDocument, DropChunksOf
<1>6. ASSUME NEW p \in Posts, Ask(p) PROVE TypeOK'
  <2>1. messages' \in SUBSET Message /\ asked' \in [Posts -> Nat]
    BY <1>0, <1>t, <1>6, UserMessageType DEF Ask
  <2> QED
    BY <1>t, <1>6, <2>1 DEF Ask
<1>7. ASSUME NEW p \in Posts, ReadHistory(p) PROVE TypeOK'
  <2>1. {Key(m) : m \in MostRecent(Before(p))} \in SUBSET (Posts \X {"user", "assistant"})
    <3>1. MostRecent(Before(p)) \subseteq messages
      BY DEF MostRecent, Before, Of
    <3>2. \A m \in messages : Key(m) \in Posts \X {"user", "assistant"}
      BY <1>t DEF Key, Message
    <3> QED
      BY <3>1, <3>2
  <2> QED
    BY <1>t, <1>7, <2>1 DEF ReadHistory
<1>8. ASSUME NEW p \in Posts, StoreRetrievalQuery(p) PROVE TypeOK'
  <2>1. messages' \in SUBSET Message
    BY <1>t, <1>8 DEF StoreRetrievalQuery, Message
  <2> QED
    BY <1>t, <1>8, <2>1 DEF StoreRetrievalQuery
<1>9. ASSUME NEW p \in Posts, AuthorizeSearch(p) \/ MessageGone(p) PROVE TypeOK'
  BY <1>t, <1>9 DEF AuthorizeSearch, MessageGone
<1>10. ASSUME NEW p \in Posts, Search(p) PROVE TypeOK'
  <2>1. PICK found \in SUBSET Candidates(p) : sources' = [sources EXCEPT ![p] = found]
    BY <1>10 DEF Search
  <2>2. found \in SUBSET Chunk
    BY <1>t DEF Candidates
  <2> QED
    BY <1>t, <1>10, <2>1, <2>2 DEF Search
<1>11. ASSUME NEW p \in Posts, Answer(p) PROVE TypeOK'
  <2>1. PICK cited \in SUBSET sources[p] :
          /\ messages' = messages \cup
              {[post |-> p, role |-> "assistant", seq |-> asked[p] + 1,
                grounded |-> cited # {}, retrieval_query |-> FALSE]}
          /\ citations' = citations \cup ({p} \X cited)
    BY <1>11 DEF Answer, AnswerSequence
  <2>2. asked[p] + 1 \in Nat \ {0}
    BY <1>t
  <2>3. messages' \in SUBSET Message
    <3>1. [post |-> p, role |-> "assistant", seq |-> asked[p] + 1,
           grounded |-> cited # {}, retrieval_query |-> FALSE] \in Message
      <4>1. CASE cited = {}
        BY <2>2, <4>1 DEF Message
      <4>2. CASE cited # {}
        BY <2>2, <4>2 DEF Message
      <4> QED
        BY <4>1, <4>2
    <3> QED
      BY <1>t, <2>1, <3>1
  <2>4. citations' \in SUBSET (Posts \X Chunk)
    BY <1>t, <2>1
  <2>5. UNCHANGED <<conversations, library>> /\ Forget(p) /\ Go(p, "retrieved", "answered")
    BY <1>11 DEF Answer
  <2> QED
    BY <1>t, <2>3, <2>4, <2>5, ForgetTypes
<1>12. ASSUME NEW p \in Posts, Abandon(p) PROVE TypeOK'
  BY <1>t, <1>12, ForgetTypes DEF Abandon
<1>13. ASSUME NEW p \in Posts, LoadMessage(p) PROVE TypeOK'
  BY <1>t, <1>13, CitingType DEF LoadMessage
<1>14. ASSUME NEW p \in Posts, LoadSources(p) PROVE TypeOK'
  BY <1>t, <1>14, ForgetTypes DEF LoadSources
<1>15. CASE UNCHANGED vars
  BY <1>t, <1>15 DEF vars
<1> QED
  BY <1>0, <1>1, <1>2, <1>3, <1>4, <1>5, <1>6, <1>7, <1>8, <1>9, <1>10, <1>11, <1>12,
     <1>13, <1>14, <1>15 DEF Next, Request

-----------------------------------------------------------------------------
(* The inductive invariant: what a request can rely on between its          *)
(* transactions.                                                            *)

(* Messages are those of open conversations, and posts go to conversations   *)
(* that exist or have existed.                                               *)
MessagesAreOwned == \A m \in messages : conversations[ConvOf[m.post]] = "open"
PostsHaveConversations ==
    \A p \in Posts : phase[p] # "idle" => conversations[ConvOf[p]] # "absent"

(* A post has one message of each role, the second one once it has answered. *)
KeysAreUnique == \A m, n \in messages : Key(m) = Key(n) => m = n
MessagesFollowPhases ==
    \A m \in messages :
        /\ phase[m.post] # "idle"
        /\ m.role = "assistant" => phase[m.post] \notin Generating

(* Until it answers, a request's question stands where it numbered it, with  *)
(* its query once that is stored, or the whole conversation is gone.         *)
Queried == {"rewritten", "searching", "retrieved"}
QuestionIsThere ==
    \A p \in Posts :
        phase[p] \in Generating /\ conversations[ConvOf[p]] = "open" =>
            \E m \in messages :
                /\ Key(m) = <<p, "user">> /\ m.seq = asked[p]
                /\ phase[p] \in Queried => m.retrieval_query

PostInv ==
    /\ IsFiniteSet(messages) /\ SequencesAreContiguous
    /\ MessagesAreOwned /\ PostsHaveConversations
    /\ KeysAreUnique /\ MessagesFollowPhases
    /\ QuestionIsThere /\ AnswerFollowsQuestion

ConversationInv == TypeOK /\ PostInv

(* The number an answer will have follows the question's, which exists.      *)
LEMMA QuestionIsNumbered ==
    ASSUME ConversationInv, NEW p \in Posts,
           phase[p] \in Generating, conversations[ConvOf[p]] = "open"
    PROVE  asked[p] \in 1 .. Cardinality(Of(ConvOf[p]))
<1>1. PICK m \in messages : Key(m) = <<p, "user">> /\ m.seq = asked[p]
  BY DEF ConversationInv, PostInv, QuestionIsThere
<1>2. m.seq \in Sequences(ConvOf[p])
  BY <1>1 DEF Sequences, Of, Key
<1>3. Sequences(ConvOf[p]) = 1 .. Cardinality(Of(ConvOf[p]))
  BY PostTypes DEF ConversationInv, PostInv, SequencesAreContiguous
<1> QED
  BY <1>1, <1>2, <1>3

LEMMA PostInvInit == Init => PostInv
<1> SUFFICES ASSUME Init PROVE PostInv
  OBVIOUS
<1>1. messages = {} /\ \A v \in Conversations : Of(v) = {}
  BY DEF Init, Of
<1>2. IsFiniteSet(messages) /\ SequencesAreContiguous
  BY <1>1, FS_EmptySet DEF SequencesAreContiguous, Sequences
<1> QED
  BY <1>1, <1>2
     DEF Init, PostInv, MessagesAreOwned, PostsHaveConversations, KeysAreUnique,
         MessagesFollowPhases, QuestionIsThere, AnswerFollowsQuestion, Generating

(* A step that touches neither messages, conversations nor requests.         *)
LEMMA LibraryKeepsPosts ==
    ASSUME PostInv, UNCHANGED <<conversations, messages, phase, asked>>
    PROVE  PostInv'
<1> USE DEF PostInv
<1>1. IsFiniteSet(messages)' /\ SequencesAreContiguous'
  BY DEF SequencesAreContiguous, Sequences, Of
<1>2. MessagesAreOwned' /\ PostsHaveConversations' /\ MessagesFollowPhases'
  BY DEF MessagesAreOwned, PostsHaveConversations, MessagesFollowPhases
<1>3. KeysAreUnique' /\ QuestionIsThere' /\ AnswerFollowsQuestion'
  BY DEF KeysAreUnique, Key, QuestionIsThere, AnswerFollowsQuestion
<1> QED
  BY <1>1, <1>2, <1>3

LEMMA CreateKeepsPosts ==
    ASSUME ConversationInv, NEW v \in Conversations, Create(v)
    PROVE  PostInv'
<1> USE PostTypes DEF ConversationInv, TypeOK, PostInv, Create, tables, library, locals
<1>1. IsFiniteSet(messages)' /\ SequencesAreContiguous'
  BY DEF SequencesAreContiguous, Sequences, Of
<1>2. MessagesAreOwned' /\ PostsHaveConversations'
  BY DEF MessagesAreOwned, PostsHaveConversations
<1>3. KeysAreUnique' /\ MessagesFollowPhases' /\ AnswerFollowsQuestion'
  BY DEF KeysAreUnique, Key, MessagesFollowPhases, AnswerFollowsQuestion
<1>4. \A p \in Posts : ConvOf[p] = v => phase[p] = "idle"
  BY DEF PostsHaveConversations
<1>5. QuestionIsThere'
  BY <1>4 DEF QuestionIsThere, Key, Generating
<1> QED
  BY <1>1, <1>2, <1>3, <1>5

LEMMA DeleteKeepsPosts ==
    ASSUME ConversationInv, NEW v \in Conversations, DeleteConversation(v)
    PROVE  PostInv'
<1> USE PostTypes DEF ConversationInv, TypeOK, PostInv, tables, library, locals
<1>0. /\ messages' = messages \ Of(v) /\ UNCHANGED <<phase, asked>>
      /\ conversations' = [conversations EXCEPT ![v] = "deleted"]
  BY DEF DeleteConversation
<1>1. IsFiniteSet(messages)' /\ SequencesAreContiguous'
  BY <1>0, CascadeKeepsNumbers
<1>2. MessagesAreOwned' /\ PostsHaveConversations'
  BY <1>0 DEF MessagesAreOwned, PostsHaveConversations, Of, Message
<1>3. KeysAreUnique' /\ MessagesFollowPhases'
  BY <1>0 DEF KeysAreUnique, Key, MessagesFollowPhases
<1>4. \A m \in messages : m \in messages' <=> ConvOf[m.post] # v
  BY <1>0 DEF Of
<1>5. AnswerFollowsQuestion'
  <2>1. SUFFICES ASSUME NEW a \in messages', a.role = "assistant"
                 PROVE  \E q \in messages' :
                          /\ Key(q) = <<a.post, "user">> /\ q.seq = a.seq - 1
                          /\ q.retrieval_query
    BY DEF AnswerFollowsQuestion, Key
  <2>2. a \in messages /\ ConvOf[a.post] # v
    BY <1>0, <1>4, <2>1
  <2>3. PICK q \in messages :
          Key(q) = <<a.post, "user">> /\ q.seq = a.seq - 1 /\ q.retrieval_query
    BY <2>1, <2>2 DEF AnswerFollowsQuestion
  <2>4. q \in messages'
    BY <1>4, <2>2, <2>3 DEF Key
  <2> QED
    BY <2>3, <2>4
<1>6. QuestionIsThere'
  <2>1. SUFFICES ASSUME NEW p \in Posts, phase[p] \in Generating,
                        conversations'[ConvOf[p]] = "open"
                 PROVE  \E m \in messages' :
                          /\ Key(m) = <<p, "user">> /\ m.seq = asked[p]
                          /\ phase[p] \in Queried => m.retrieval_query
    BY <1>0 DEF QuestionIsThere, Key
  <2>2. ConvOf[p] # v /\ conversations[ConvOf[p]] = "open"
    BY <1>0, <2>1
  <2>3. PICK m \in messages :
          /\ Key(m) = <<p, "user">> /\ m.seq = asked[p]
          /\ phase[p] \in Queried => m.retrieval_query
    BY <2>1, <2>2 DEF QuestionIsThere
  <2>4. m \in messages'
    BY <1>4, <2>2, <2>3 DEF Key
  <2> QED
    BY <2>3, <2>4
<1> QED
  BY <1>1, <1>2, <1>3, <1>5, <1>6

LEMMA AskKeepsPosts ==
    ASSUME ConversationInv, NEW p \in Posts, Ask(p)
    PROVE  PostInv'
<1> DEFINE n == NextSequence(ConvOf[p])
           u == [post |-> p, role |-> "user", seq |-> n,
                 grounded |-> FALSE, retrieval_query |-> FALSE]
<1> USE PostTypes DEF ConversationInv, TypeOK, PostInv
<1>0. /\ messages' = messages \cup {u} /\ conversations' = conversations
      /\ phase[p] = "idle" /\ phase' = [phase EXCEPT ![p] = "asked"]
      /\ asked' = [asked EXCEPT ![p] = n]
      /\ conversations[ConvOf[p]] = "open"
  BY DEF Ask, Go
<1>1. u.post = p /\ u.role = "user" /\ u.seq = n /\ Key(u) = <<p, "user">>
  BY DEF Key
<1>2. n = Cardinality(Of(ConvOf[p])) + 1
  BY NextNumber
<1> HIDE DEF n, u
<1>3. IsFiniteSet(messages)' /\ SequencesAreContiguous'
  BY <1>0, <1>1, <1>2, AppendKeepsNumbers
<1>4. MessagesAreOwned' /\ PostsHaveConversations'
  BY <1>0, <1>1 DEF MessagesAreOwned, PostsHaveConversations, Message
<1>5. \A m \in messages : m.post # p
  BY <1>0 DEF MessagesFollowPhases
<1>6. KeysAreUnique'
  BY <1>0, <1>1, <1>5 DEF KeysAreUnique, Key
<1>7. MessagesFollowPhases'
  BY <1>0, <1>1, <1>5 DEF MessagesFollowPhases, Message
<1>8. AnswerFollowsQuestion'
  BY <1>0, <1>1 DEF AnswerFollowsQuestion, Key
<1>9. QuestionIsThere'
  BY <1>0, <1>1, <1>5 DEF QuestionIsThere, Key, Queried
<1> QED
  BY <1>3, <1>4, <1>6, <1>7, <1>8, <1>9

LEMMA QueryKeepsPosts ==
    ASSUME ConversationInv, NEW p \in Posts, StoreRetrievalQuery(p)
    PROVE  PostInv'
<1> USE PostTypes DEF ConversationInv, TypeOK, PostInv, tables, library, locals
<1>0. /\ conversations' = conversations /\ asked' = asked
      /\ phase[p] = "remembering" /\ phase' = [phase EXCEPT ![p] = "rewritten"]
  BY DEF StoreRetrievalQuery, Go
<1>1. PICK m \in messages :
        /\ Key(m) = <<p, "user">>
        /\ messages' = (messages \ {m}) \cup {[m EXCEPT !.retrieval_query = TRUE]}
  BY DEF StoreRetrievalQuery
<1> DEFINE n == [m EXCEPT !.retrieval_query = TRUE]
<1>2. m \in Message /\ m.post = p /\ m.role = "user"
  BY <1>1 DEF Key
<1>3. /\ n.post = p /\ n.role = "user" /\ n.seq = m.seq /\ n.retrieval_query = TRUE
      /\ Key(n) = <<p, "user">>
  BY <1>2 DEF Message, Key
<1>4. messages' = (messages \ {m}) \cup {n}
  BY <1>1
<1> HIDE DEF n
<1>5. IsFiniteSet(messages)' /\ SequencesAreContiguous'
  BY <1>2, <1>3, <1>4, ReplaceKeepsNumbers
<1>6. MessagesAreOwned' /\ PostsHaveConversations'
  BY <1>0, <1>2, <1>3, <1>4 DEF MessagesAreOwned, PostsHaveConversations
<1>7. KeysAreUnique'
  BY <1>1, <1>3, <1>4 DEF KeysAreUnique, Key
<1>8. MessagesFollowPhases'
  BY <1>0, <1>3, <1>4 DEF MessagesFollowPhases, Message, Generating
<1>9. AnswerFollowsQuestion'
  <2>1. SUFFICES ASSUME NEW a \in messages', a.role = "assistant"
                 PROVE  \E q \in messages' :
                          /\ Key(q) = <<a.post, "user">> /\ q.seq = a.seq - 1
                          /\ q.retrieval_query
    BY DEF AnswerFollowsQuestion, Key
  <2>2. a \in messages
    BY <1>3, <1>4, <2>1
  <2>3. PICK q \in messages :
          Key(q) = <<a.post, "user">> /\ q.seq = a.seq - 1 /\ q.retrieval_query
    BY <2>1, <2>2 DEF AnswerFollowsQuestion
  <2>4. CASE q = m
    BY <1>1, <1>3, <1>4, <2>3, <2>4
  <2>5. CASE q # m
    BY <1>4, <2>3, <2>5
  <2> QED
    BY <2>4, <2>5
<1>10. QuestionIsThere'
  <2>1. SUFFICES ASSUME NEW r \in Posts, phase'[r] \in Generating,
                        conversations[ConvOf[r]] = "open"
                 PROVE  \E k \in messages' :
                          /\ Key(k) = <<r, "user">> /\ k.seq = asked[r]
                          /\ phase'[r] \in Queried => k.retrieval_query
    BY <1>0 DEF QuestionIsThere, Key
  <2>2. phase[r] \in Generating /\ (r # p => phase'[r] = phase[r])
    BY <1>0, <2>1 DEF Generating
  <2>3. PICK k \in messages :
          /\ Key(k) = <<r, "user">> /\ k.seq = asked[r]
          /\ phase[r] \in Queried => k.retrieval_query
    BY <2>1, <2>2 DEF QuestionIsThere
  <2>4. CASE r = p
    <3>1. k = m
      BY <1>1, <2>3, <2>4 DEF KeysAreUnique
    <3> QED
      BY <1>3, <1>4, <2>3, <2>4, <3>1
  <2>5. CASE r # p
    <3>1. k # m
      BY <1>1, <2>3, <2>5
    <3> QED
      BY <1>4, <2>2, <2>3, <2>5, <3>1
  <2> QED
    BY <2>4, <2>5
<1> QED
  BY <1>5, <1>6, <1>7, <1>8, <1>9, <1>10

LEMMA AnswerKeepsPosts ==
    ASSUME ConversationInv, NEW p \in Posts, Answer(p)
    PROVE  PostInv'
<1> USE PostTypes DEF ConversationInv, TypeOK, PostInv
<1>0. /\ conversations' = conversations /\ conversations[ConvOf[p]] = "open"
      /\ phase[p] = "retrieved" /\ phase' = [phase EXCEPT ![p] = "answered"]
      /\ asked' = [asked EXCEPT ![p] = 0]
      /\ asked[p] + 1 \notin Sequences(ConvOf[p])
  BY DEF Answer, Go, MayInsert, Forget, AnswerSequence
<1>1. PICK cited \in SUBSET sources[p] :
        messages' = messages \cup
          {[post |-> p, role |-> "assistant", seq |-> asked[p] + 1,
            grounded |-> cited # {}, retrieval_query |-> FALSE]}
  BY DEF Answer, AnswerSequence
<1> DEFINE a == [post |-> p, role |-> "assistant", seq |-> asked[p] + 1,
                 grounded |-> cited # {}, retrieval_query |-> FALSE]
<1>2. a.post = p /\ a.role = "assistant" /\ a.seq = asked[p] + 1 /\ Key(a) = <<p, "assistant">>
  BY DEF Key
<1>3. messages' = messages \cup {a}
  BY <1>1
<1> HIDE DEF a
<1>4. phase[p] \in Generating /\ phase[p] \in Queried
  BY <1>0 DEF Generating, Queried
<1>5. asked[p] + 1 = Cardinality(Of(ConvOf[p])) + 1
  <2>1. asked[p] \in 1 .. Cardinality(Of(ConvOf[p]))
    BY <1>0, <1>4, QuestionIsNumbered
  <2>2. Sequences(ConvOf[p]) = 1 .. Cardinality(Of(ConvOf[p]))
    BY DEF SequencesAreContiguous
  <2>3. Cardinality(Of(ConvOf[p])) \in Nat
    BY NextNumber
  <2> QED
    BY <1>0, <2>1, <2>2, <2>3
<1>6. IsFiniteSet(messages)' /\ SequencesAreContiguous'
  BY <1>2, <1>3, <1>5, AppendKeepsNumbers
<1>7. MessagesAreOwned' /\ PostsHaveConversations'
  BY <1>0, <1>2, <1>3 DEF MessagesAreOwned, PostsHaveConversations
<1>8. \A m \in messages : Key(m) # <<p, "assistant">>
  BY <1>4 DEF MessagesFollowPhases, Key
<1>9. KeysAreUnique'
  BY <1>2, <1>3, <1>8 DEF KeysAreUnique, Key
<1>10. MessagesFollowPhases'
  BY <1>0, <1>2, <1>3 DEF MessagesFollowPhases, Generating, Message
<1>11. AnswerFollowsQuestion'
  <2>1. \E q \in messages :
          Key(q) = <<p, "user">> /\ q.seq = (asked[p] + 1) - 1 /\ q.retrieval_query
    BY <1>0, <1>4 DEF QuestionIsThere
  <2> QED
    BY <1>2, <1>3, <2>1 DEF AnswerFollowsQuestion, Key
<1>12. QuestionIsThere'
  BY <1>0, <1>3 DEF QuestionIsThere, Key, Generating
<1> QED
  BY <1>6, <1>7, <1>9, <1>10, <1>11, <1>12

(* A request that only reads, or gives up.                                   *)
LEMMA ReadsKeepPosts ==
    ASSUME ConversationInv, NEW p \in Posts,
           ReadHistory(p) \/ AuthorizeSearch(p) \/ Search(p) \/ Abandon(p)
             \/ LoadMessage(p) \/ MessageGone(p) \/ LoadSources(p)
    PROVE  PostInv'
<1> USE PostTypes DEF ConversationInv, TypeOK, PostInv, tables, library, locals
<1>1. /\ UNCHANGED <<conversations, messages>>
      /\ phase[p] # "idle" /\ \E to \in Phases : phase' = [phase EXCEPT ![p] = to]
      /\ phase'[p] \in Generating => phase[p] \in Generating /\ asked' = asked
      /\ phase'[p] \in Queried => phase[p] \in Queried
      /\ phase'[p] # "idle" /\ \A q \in Posts : q # p => asked'[q] = asked[q]
  <2>1. CASE ReadHistory(p)
    BY <2>1 DEF ReadHistory, Go, Generating, Queried, Phases
  <2>2. CASE AuthorizeSearch(p)
    BY <2>2 DEF AuthorizeSearch, Go, Generating, Queried, Phases
  <2>3. CASE Search(p)
    BY <2>3 DEF Search, Go, Generating, Queried, Phases
  <2>4. CASE Abandon(p)
    BY <2>4 DEF Abandon, Forget, Generating, Queried, Phases
  <2>5. CASE LoadMessage(p)
    BY <2>5 DEF LoadMessage, Go, Generating, Queried, Phases
  <2>6. CASE MessageGone(p)
    BY <2>6 DEF MessageGone, Go, Generating, Queried, Phases
  <2>7. CASE LoadSources(p)
    BY <2>7 DEF LoadSources, Forget, Go, Generating, Queried, Phases
  <2> QED
    BY <2>1, <2>2, <2>3, <2>4, <2>5, <2>6, <2>7
<1>2. \A q \in Posts : q # p => phase'[q] = phase[q]
  BY <1>1
<1>3. IsFiniteSet(messages)' /\ SequencesAreContiguous'
  BY <1>1 DEF SequencesAreContiguous, Sequences, Of
<1>4. MessagesAreOwned' /\ PostsHaveConversations' /\ KeysAreUnique' /\ AnswerFollowsQuestion'
  BY <1>1, <1>2
     DEF MessagesAreOwned, PostsHaveConversations, KeysAreUnique, AnswerFollowsQuestion, Key
<1>5. MessagesFollowPhases'
  BY <1>1, <1>2 DEF MessagesFollowPhases, Message
<1>6. QuestionIsThere'
  BY <1>1, <1>2 DEF QuestionIsThere, Key
<1> QED
  BY <1>3, <1>4, <1>5, <1>6

LEMMA ConversationInit == Init => ConversationInv
<1> SUFFICES ASSUME Init PROVE ConversationInv
  OBVIOUS
<1>1. chunks \in SUBSET Chunk
  BY ConstantsAssumption DEF Init, Chunk
<1>2. TypeOK
  BY <1>1 DEF Init, TypeOK, Phases
<1> QED
  BY <1>2, PostInvInit DEF ConversationInv

LEMMA ConversationStep == ConversationInv /\ [Next]_vars => ConversationInv'
<1>0. SUFFICES ASSUME ConversationInv, [Next]_vars PROVE ConversationInv'
  OBVIOUS
<1>1. TypeOK'
  BY <1>0, TypeOKStep DEF ConversationInv, PostInv, NumbersInv
<1>p. PostInv
  BY <1>0 DEF ConversationInv
<1>2. ASSUME NEW v \in Conversations, Create(v) \/ DeleteConversation(v) PROVE PostInv'
  BY <1>0, <1>2, CreateKeepsPosts, DeleteKeepsPosts
<1>3. ASSUME NEW d \in Docs, HideDocument(d) \/ Reprocess(d) \/ Index(d) \/ DeleteDocument(d)
      PROVE  PostInv'
  BY <1>p, <1>3, LibraryKeepsPosts
     DEF HideDocument, Reprocess, Index, DeleteDocument, DropChunksOf,
         tables, locals
<1>4. ASSUME NEW p \in Posts, Request(p) PROVE PostInv'
  BY <1>0, <1>4, AskKeepsPosts, QueryKeepsPosts, AnswerKeepsPosts, ReadsKeepPosts DEF Request
<1>5. ASSUME UNCHANGED vars PROVE PostInv'
  <2>1. UNCHANGED <<conversations, messages, phase, asked>>
    BY <1>5 DEF vars
  <2> QED
    BY <1>p, <2>1, LibraryKeepsPosts
<1>6. PostInv'
  <2>1. ASSUME Next PROVE PostInv'
    BY <1>2, <1>3, <1>4, <2>1 DEF Next
  <2> QED
    BY <1>0, <1>5, <2>1
<1> QED
  BY <1>1, <1>6 DEF ConversationInv

LEMMA ConversationIsSafe == Spec => []ConversationInv
  BY ConversationInit, ConversationStep, PTL DEF Spec

(* Messages, citations, chunks and what requests carry have their types.     *)
THEOREM TypesHold == Spec => []TypeOK
<1>1. ConversationInv => TypeOK
  BY DEF ConversationInv
<1> QED
  BY <1>1, ConversationIsSafe, PTL

(* However many posts of a conversation run at once, its messages are        *)
(* numbered 1, 2, 3, ... without a gap.                                      *)
THEOREM NumbersAreContiguous == Spec => []SequencesAreContiguous
<1>1. ConversationInv => SequencesAreContiguous
  BY DEF ConversationInv, PostInv
<1> QED
  BY <1>1, ConversationIsSafe, PTL

(* Every answer directly follows its question, with its query stored.        *)
THEOREM AnswersFollowQuestions == Spec => []AnswerFollowsQuestion
<1>1. ConversationInv => AnswerFollowsQuestion
  BY DEF ConversationInv, PostInv
<1> QED
  BY <1>1, ConversationIsSafe, PTL

-----------------------------------------------------------------------------
(* The history.                                                            *)

(* In a conversation without gaps ORDER BY sequence_number DESC LIMIT n      *)
(* takes the messages of the last n numbers before the question.             *)
Recent(p) == {m \in Before(p) : asked[p] - m.seq <= HistoryLimit}

LEMMA RecentByNumber ==
    ASSUME ConversationInv, NEW p \in Posts,
           phase[p] \in Generating, conversations[ConvOf[p]] = "open"
    PROVE  MostRecent(Before(p)) = Recent(p)
<1> DEFINE v == ConvOf[p]
           n == Cardinality(Of(v))
<1>0. n \in Nat /\ asked[p] \in 1 .. n /\ HistoryLimit \in Nat
  BY PostTypes, NextNumber, QuestionIsNumbered, ConstantsAssumption DEF ConversationInv, PostInv
<1>1. Sequences(v) = 1 .. n /\ \A k, l \in Of(v) : k.seq = l.seq => k = l
  BY PostTypes DEF ConversationInv, PostInv, SequencesAreContiguous
<1>2. /\ Before(p) = {m \in Of(v) : m.seq < asked[p]}
      /\ \A m \in Of(v) : m.seq \in 1 .. n
      /\ \A j \in 1 .. n : \E m \in Of(v) : m.seq = j
  BY <1>1 DEF Before, Sequences
<1>3. ASSUME NEW m \in Before(p)
      PROVE  Cardinality({k \in Before(p) : k.seq > m.seq}) = asked[p] - 1 - m.seq
  <2> DEFINE later == {k \in Before(p) : k.seq > m.seq}
             range == m.seq + 1 .. asked[p] - 1
             f == [j \in range |-> CHOOSE k \in later : k.seq = j]
  <2>1. m.seq \in 1 .. n /\ m.seq < asked[p]
    BY <1>2
  <2>2. \A j \in range : \E k \in later : k.seq = j
    BY <1>0, <1>2, <2>1
  <2>3. \A k \in later : k.seq \in range
    BY <1>0, <1>2, <2>1
  <2>4. \A k, l \in later : k.seq = l.seq => k = l
    BY <1>1, <1>2
  <2> HIDE DEF later, range
  <2>5. \A j \in range : f[j] \in later /\ f[j].seq = j
    BY <2>2
  <2> HIDE DEF f
  <2>6. f \in [range -> later]
    BY <2>5 DEF f
  <2>7. f \in Bijection(range, later)
    <3>1. \A k \in later : f[k.seq] = k
      BY <2>3, <2>4, <2>5
    <3>2. \A i, j \in range : f[i] = f[j] => i = j
      BY <2>5
    <3> QED
      BY <2>3, <2>6, <3>1, <3>2 DEF Bijection, Injection, Surjection, IsInjective
  <2>8. IsFiniteSet(range) /\ Cardinality(range) = asked[p] - 1 - m.seq
    <3>1. m.seq + 1 \in Int /\ asked[p] - 1 \in Int
      BY <1>0, <2>1
    <3>2. /\ IsFiniteSet(range)
          /\ Cardinality(range) = IF m.seq + 1 > asked[p] - 1 THEN 0
                                  ELSE (asked[p] - 1) - (m.seq + 1) + 1
      BY <3>1, FS_Interval DEF range
    <3> QED
      BY <1>0, <2>1, <3>2
  <2>9. Cardinality(later) = Cardinality(range)
    BY <2>7, <2>8, FS_Bijection DEF ExistsBijection
  <2> QED
    BY <2>8, <2>9 DEF later
<1>4. ASSUME NEW m \in Before(p)
      PROVE  Cardinality({k \in Before(p) : k.seq > m.seq}) < HistoryLimit
               <=> asked[p] - m.seq <= HistoryLimit
  <2>1. m.seq \in Nat /\ m.seq < asked[p]
    BY <1>2
  <2> QED
    BY <1>0, <1>3, <2>1
<1> QED
  BY <1>4 DEF MostRecent, Recent

(* HistoryIsWhatPreceded, with what a request read counted by number.        *)
HistoryInv ==
    \A p \in Posts :
        phase[p] \in Generating \ {"asked"} /\ conversations[ConvOf[p]] = "open" =>
            history[p] = {Key(m) : m \in Recent(p)}

LEMMA HistoryStep == ConversationInv /\ HistoryInv /\ [Next]_vars => HistoryInv'
<1>0. SUFFICES ASSUME ConversationInv, HistoryInv, [Next]_vars PROVE HistoryInv'
  OBVIOUS
<1> USE PostTypes DEF tables, library, locals
<1>t. TypeOK /\ PostInv
  BY <1>0 DEF ConversationInv
(* A request in the midst of its work, and a step that leaves it as it is.   *)
<1>r. ASSUME NEW p \in Posts, phase'[p] \in Generating \ {"asked"},
             conversations'[ConvOf[p]] = "open",
             phase[p] \in Generating \ {"asked"}, conversations[ConvOf[p]] = "open",
             history'[p] = history[p], asked'[p] = asked[p],
             {Key(m) : m \in Recent(p)'} = {Key(m) : m \in Recent(p)}
      PROVE  history'[p] = {Key(m) : m \in Recent(p)'}
  BY <1>0, <1>r DEF HistoryInv
<1>q. ASSUME NEW p \in Posts, messages' = messages, asked'[p] = asked[p]
      PROVE  Recent(p)' = Recent(p)
  BY <1>q DEF Recent, Before, Of
<1>n. ASSUME NEW p \in Posts, phase[p] \in Generating, conversations[ConvOf[p]] = "open",
             asked'[p] = asked[p], NEW m, messages' = messages \cup {m},
             NEW w \in Conversations, ConvOf[m.post] = w, m.seq = Cardinality(Of(w)) + 1
      PROVE  Recent(p)' = Recent(p)
  <2>1. asked[p] \in 1 .. Cardinality(Of(ConvOf[p]))
    BY <1>0, <1>n, QuestionIsNumbered
  <2>2. Cardinality(Of(ConvOf[p])) \in Nat
    BY <1>t, NextNumber DEF PostInv
  <2>3. ~(ConvOf[m.post] = ConvOf[p] /\ m.seq < asked[p])
    BY <1>n, <2>1, <2>2
  <2>4. Before(p)' = Before(p)
    BY <1>n, <2>3 DEF Before, Of
  <2> QED
    BY <1>n, <2>4 DEF Recent
<1>1. ASSUME NEW v \in Conversations, Create(v) PROVE HistoryInv'
  <2>1. \A p \in Posts : ConvOf[p] = v => phase[p] = "idle"
    BY <1>t, <1>1 DEF Create, PostInv, PostsHaveConversations
  <2> QED
    BY <1>0, <1>t, <1>1, <2>1, <1>q DEF Create, HistoryInv, TypeOK, Generating
<1>2. ASSUME NEW v \in Conversations, DeleteConversation(v) PROVE HistoryInv'
  <2>1. ASSUME NEW p \in Posts, ConvOf[p] # v PROVE Recent(p)' = Recent(p)
    BY <1>2, <2>1 DEF DeleteConversation, Recent, Before, Of
  <2>2. \A p \in Posts : conversations'[ConvOf[p]] = "open" =>
          ConvOf[p] # v /\ conversations[ConvOf[p]] = "open"
    BY <1>t, <1>2 DEF DeleteConversation, TypeOK
  <2> QED
    BY <1>0, <1>2, <2>1, <2>2 DEF DeleteConversation, HistoryInv
<1>3. ASSUME NEW d \in Docs, HideDocument(d) \/ Reprocess(d) \/ Index(d) \/ DeleteDocument(d)
      PROVE  HistoryInv'
  <2>1. UNCHANGED <<conversations, messages, phase, asked, history>>
    BY <1>3 DEF HideDocument, Reprocess, Index, DeleteDocument, DropChunksOf
  <2> QED
    BY <1>0, <2>1, <1>q DEF HistoryInv
<1>4. ASSUME NEW p \in Posts, Ask(p) PROVE HistoryInv'
  <2>1. /\ conversations' = conversations /\ history' = history
        /\ phase' = [phase EXCEPT ![p] = "asked"]
        /\ asked' = [asked EXCEPT ![p] = NextSequence(ConvOf[p])]
        /\ messages' = messages \cup
             {[post |-> p, role |-> "user", seq |-> NextSequence(ConvOf[p]),
               grounded |-> FALSE, retrieval_query |-> FALSE]}
        /\ NextSequence(ConvOf[p]) = Cardinality(Of(ConvOf[p])) + 1
    BY <1>t, <1>4, NextNumber DEF Ask, Go, PostInv
  <2>2. ASSUME NEW r \in Posts, phase'[r] \in Generating \ {"asked"},
               conversations'[ConvOf[r]] = "open"
        PROVE  history'[r] = {Key(m) : m \in Recent(r)'}
    <3>1. r # p /\ phase[r] = phase'[r] /\ asked'[r] = asked[r]
      BY <1>t, <2>1, <2>2 DEF TypeOK
    <3>2. Recent(r)' = Recent(r)
      <4> DEFINE u == [post |-> p, role |-> "user", seq |-> NextSequence(ConvOf[p]),
                       grounded |-> FALSE, retrieval_query |-> FALSE]
      <4>1. messages' = messages \cup {u} /\ ConvOf[u.post] = ConvOf[p]
        BY <2>1
      <4>2. u.seq = Cardinality(Of(ConvOf[p])) + 1
        BY <2>1
      <4>3. phase[r] \in Generating /\ conversations[ConvOf[r]] = "open"
        BY <2>1, <2>2, <3>1
      <4> HIDE DEF u
      <4> QED
        BY <3>1, <4>1, <4>2, <4>3, <1>n
    <3> QED
      BY <2>1, <2>2, <3>1, <3>2, <1>r
  <2> QED
    BY <2>2 DEF HistoryInv, Key
<1>5. ASSUME NEW p \in Posts, ReadHistory(p) PROVE HistoryInv'
  <2>1. /\ phase[p] = "asked" /\ phase' = [phase EXCEPT ![p] = "remembering"]
        /\ UNCHANGED <<conversations, messages, asked>>
        /\ history' = [history EXCEPT ![p] = {Key(m) : m \in MostRecent(Before(p))}]
    BY <1>5 DEF ReadHistory, Go
  <2>2. ASSUME NEW r \in Posts, phase'[r] \in Generating \ {"asked"},
               conversations'[ConvOf[r]] = "open"
        PROVE  history'[r] = {Key(m) : m \in Recent(r)'}
    <3>1. Recent(r)' = Recent(r)
      BY <2>1, <1>q
    <3>2. CASE r = p
      <4>1. MostRecent(Before(p)) = Recent(p)
        BY <1>0, <2>1, <2>2, <3>2, RecentByNumber DEF Generating
      <4> QED
        BY <1>t, <2>1, <3>1, <3>2, <4>1 DEF TypeOK
    <3>3. CASE r # p
      BY <1>t, <2>1, <2>2, <3>1, <3>3, <1>r DEF TypeOK
    <3> QED
      BY <3>2, <3>3
  <2> QED
    BY <2>2 DEF HistoryInv, Key
<1>6. ASSUME NEW p \in Posts, StoreRetrievalQuery(p) PROVE HistoryInv'
  <2>1. /\ phase[p] = "remembering" /\ phase' = [phase EXCEPT ![p] = "rewritten"]
        /\ UNCHANGED <<conversations, asked, history>>
    BY <1>6 DEF StoreRetrievalQuery, Go
  <2>2. PICK m \in messages :
          /\ Key(m) = <<p, "user">>
          /\ messages' = (messages \ {m}) \cup {[m EXCEPT !.retrieval_query = TRUE]}
    BY <1>6 DEF StoreRetrievalQuery
  <2> DEFINE n == [m EXCEPT !.retrieval_query = TRUE]
  <2>3. n.post = m.post /\ n.seq = m.seq /\ Key(n) = Key(m) /\ messages' = (messages \ {m}) \cup {n}
    BY <1>t, <2>2 DEF TypeOK, Message, Key
  <2> HIDE DEF n
  <2>4. ASSUME NEW r \in Posts
        PROVE  {Key(k) : k \in Recent(r)'} = {Key(k) : k \in Recent(r)}
    <3>1. \A k \in Recent(r) : k \in Recent(r)' \/ (k = m /\ n \in Recent(r)')
      BY <2>1, <2>3 DEF Recent, Before, Of
    <3>2. \A k \in Recent(r)' : k \in Recent(r) \/ (k = n /\ m \in Recent(r))
      BY <2>1, <2>2, <2>3 DEF Recent, Before, Of
    <3> QED
      BY <2>3, <3>1, <3>2
  <2>5. ASSUME NEW r \in Posts, phase'[r] \in Generating \ {"asked"},
               conversations'[ConvOf[r]] = "open"
        PROVE  history'[r] = {Key(k) : k \in Recent(r)'}
    <3>1. phase[r] \in Generating \ {"asked"}
      BY <1>t, <2>1, <2>5 DEF TypeOK, Generating
    <3> QED
      BY <2>1, <2>4, <2>5, <3>1, <1>r
  <2> QED
    BY <2>5 DEF HistoryInv, Key
<1>7. ASSUME NEW p \in Posts, Answer(p) PROVE HistoryInv'
  <2>1. PICK cited \in SUBSET sources[p] :
          messages' = messages \cup
            {[post |-> p, role |-> "assistant", seq |-> asked[p] + 1,
              grounded |-> cited # {}, retrieval_query |-> FALSE]}
    BY <1>7 DEF Answer, AnswerSequence
  <2>2. /\ conversations' = conversations /\ conversations[ConvOf[p]] = "open"
        /\ phase[p] = "retrieved" /\ phase' = [phase EXCEPT ![p] = "answered"]
        /\ asked[p] + 1 \notin Sequences(ConvOf[p])
        /\ \A r \in Posts : r # p => asked'[r] = asked[r] /\ history'[r] = history[r]
    BY <1>t, <1>7 DEF Answer, Go, MayInsert, Forget, AnswerSequence, TypeOK
  <2>3. asked[p] + 1 = Cardinality(Of(ConvOf[p])) + 1
    <3>1. asked[p] \in 1 .. Cardinality(Of(ConvOf[p]))
      BY <1>0, <2>2, QuestionIsNumbered DEF Generating
    <3>2. Sequences(ConvOf[p]) = 1 .. Cardinality(Of(ConvOf[p]))
      BY <1>t DEF PostInv, SequencesAreContiguous
    <3>3. Cardinality(Of(ConvOf[p])) \in Nat
      BY <1>t, NextNumber DEF PostInv
    <3> QED
      BY <2>2, <3>1, <3>2, <3>3
  <2>4. ASSUME NEW r \in Posts, phase'[r] \in Generating \ {"asked"},
               conversations'[ConvOf[r]] = "open"
        PROVE  history'[r] = {Key(m) : m \in Recent(r)'}
    <3>1. r # p /\ phase[r] = phase'[r]
      BY <1>t, <2>2, <2>4 DEF TypeOK, Generating
    <3>2. Recent(r)' = Recent(r)
      <4> DEFINE a == [post |-> p, role |-> "assistant", seq |-> asked[p] + 1,
                       grounded |-> cited # {}, retrieval_query |-> FALSE]
      <4>1. messages' = messages \cup {a} /\ ConvOf[a.post] = ConvOf[p]
        BY <2>1
      <4>2. a.seq = Cardinality(Of(ConvOf[p])) + 1
        BY <2>3
      <4>3. phase[r] \in Generating /\ conversations[ConvOf[r]] = "open"
        BY <2>2, <2>4, <3>1
      <4> HIDE DEF a
      <4> QED
        BY <2>2, <3>1, <4>1, <4>2, <4>3, <1>n
    <3> QED
      BY <2>2, <2>4, <3>1, <3>2, <1>r
  <2> QED
    BY <2>4 DEF HistoryInv, Key
<1>8. ASSUME NEW p \in Posts,
             AuthorizeSearch(p) \/ Search(p) \/ Abandon(p)
               \/ LoadMessage(p) \/ MessageGone(p) \/ LoadSources(p)
      PROVE  HistoryInv'
  <2>1. /\ UNCHANGED <<conversations, messages>>
        /\ \A r \in Posts : phase'[r] \in Generating \ {"asked"} =>
             /\ phase[r] \in Generating \ {"asked"}
             /\ asked'[r] = asked[r] /\ history'[r] = history[r]
    <3>1. CASE AuthorizeSearch(p)
      BY <1>t, <3>1 DEF AuthorizeSearch, Go, TypeOK, Generating
    <3>2. CASE Search(p)
      BY <1>t, <3>2 DEF Search, Go, TypeOK, Generating
    <3>3. CASE Abandon(p)
      BY <1>t, <3>3 DEF Abandon, Forget, TypeOK, Generating
    <3>4. CASE LoadMessage(p)
      BY <1>t, <3>4 DEF LoadMessage, Go, TypeOK, Generating
    <3>5. CASE MessageGone(p)
      BY <1>t, <3>5 DEF MessageGone, Go, TypeOK, Generating
    <3>6. CASE LoadSources(p)
      BY <1>t, <3>6 DEF LoadSources, Forget, Go, TypeOK, Generating
    <3> QED
      BY <1>8, <3>1, <3>2, <3>3, <3>4, <3>5, <3>6
  <2> QED
    BY <1>0, <2>1, <1>q DEF HistoryInv
<1>9. CASE UNCHANGED vars
  <2>1. UNCHANGED <<conversations, messages, phase, asked, history>>
    BY <1>9 DEF vars
  <2> QED
    BY <1>0, <2>1, <1>q DEF HistoryInv
<1> QED
  BY <1>0, <1>1, <1>2, <1>3, <1>4, <1>5, <1>6, <1>7, <1>8, <1>9 DEF Next, Request

(* What a question was rewritten and answered with stays, for any number of  *)
(* posts and any limit, the last messages before it.                         *)
THEOREM HistoryStays == Spec => []HistoryIsWhatPreceded
<1>1. Init => HistoryInv
  BY DEF Init, HistoryInv, Generating
<1>2. ConversationInv /\ HistoryInv => HistoryIsWhatPreceded
  BY RecentByNumber DEF HistoryInv, HistoryIsWhatPreceded
<1> QED
  BY <1>1, <1>2, HistoryStep, ConversationIsSafe, PTL DEF Spec

-----------------------------------------------------------------------------
(* The evidence.                                                           *)

(* What a search found, and an answer may cite, is of its question's scope.  *)
SourcesAreScoped ==
    \A p \in Posts : phase[p] = "retrieved" => \A k \in sources[p] : k.doc \in Scope[p]

EvidenceInv == SourcesAreScoped /\ StoredEvidence

LEMMA EvidenceStep == ConversationInv /\ EvidenceInv /\ [Next]_vars => EvidenceInv'
<1>0. SUFFICES ASSUME ConversationInv, EvidenceInv, [Next]_vars PROVE EvidenceInv'
  OBVIOUS
<1>t. TypeOK /\ SourcesAreScoped /\ StoredEvidence
  BY <1>0 DEF ConversationInv, EvidenceInv
<1> USE PostTypes DEF tables, library, locals
<1>1. ASSUME UNCHANGED <<messages, citations>>, chunks \subseteq chunks',
             \A p \in Posts : phase'[p] = "retrieved" =>
                 phase[p] = "retrieved" /\ sources'[p] = sources[p]
      PROVE  EvidenceInv'
  BY <1>t, <1>1 DEF EvidenceInv, SourcesAreScoped, StoredEvidence, Key
<1>2. ASSUME NEW v \in Conversations, DeleteConversation(v) PROVE EvidenceInv'
  <2>1. /\ messages' = messages \ Of(v) /\ UNCHANGED <<chunks, phase, sources>>
        /\ citations' = {x \in citations : ConvOf[x[1]] # v}
    BY <1>2 DEF DeleteConversation
  <2>2. StoredEvidence'
    <3>1. SUFFICES ASSUME NEW x \in citations, ConvOf[x[1]] # v
                   PROVE  /\ x[2] \in chunks /\ x[2].doc \in Scope[x[1]]
                          /\ \E m \in messages' : Key(m) = <<x[1], "assistant">> /\ m.grounded
      BY <2>1 DEF StoredEvidence, Key
    <3>2. PICK m \in messages : Key(m) = <<x[1], "assistant">> /\ m.grounded
      BY <1>t DEF StoredEvidence
    <3>3. m \in messages'
      BY <2>1, <3>1, <3>2 DEF Key, Of
    <3> QED
      BY <1>t, <3>2, <3>3 DEF StoredEvidence
  <2> QED
    BY <1>t, <2>1, <2>2 DEF EvidenceInv, SourcesAreScoped
<1>3. ASSUME NEW d \in Docs, DropChunksOf(d),
             \A k \in chunks : k.doc # d => k \in chunks'
      PROVE  EvidenceInv'
  <2>1. /\ UNCHANGED <<messages, phase, sources>>
        /\ citations' = {x \in citations : x[2].doc # d}
    BY <1>3 DEF DropChunksOf
  <2> QED
    BY <1>t, <1>3, <2>1 DEF EvidenceInv, SourcesAreScoped, StoredEvidence, Key
<1>4. ASSUME NEW d \in Docs, Reprocess(d) \/ DeleteDocument(d) PROVE EvidenceInv'
  <2>1. DropChunksOf(d) /\ \A k \in chunks : k.doc # d => k \in chunks'
    <3>1. CASE Reprocess(d)
      BY <3>1 DEF Reprocess
    <3>2. CASE DeleteDocument(d)
      BY <3>2 DEF DeleteDocument
    <3> QED
      BY <1>4, <3>1, <3>2
  <2> QED
    BY <2>1, <1>3
<1>5. ASSUME NEW p \in Posts, Ask(p) PROVE EvidenceInv'
  <2>1. /\ messages \subseteq messages' /\ UNCHANGED <<citations, chunks, sources>>
        /\ phase' = [phase EXCEPT ![p] = "asked"]
    BY <1>5 DEF Ask, Go
  <2>2. SourcesAreScoped'
    BY <1>t, <2>1 DEF TypeOK, SourcesAreScoped
  <2>3. StoredEvidence'
    BY <1>t, <2>1 DEF StoredEvidence, Key
  <2> QED
    BY <2>2, <2>3 DEF EvidenceInv
<1>6. ASSUME NEW p \in Posts, StoreRetrievalQuery(p) PROVE EvidenceInv'
  <2>1. PICK m \in messages :
          /\ Key(m) = <<p, "user">>
          /\ messages' = (messages \ {m}) \cup {[m EXCEPT !.retrieval_query = TRUE]}
    BY <1>6 DEF StoreRetrievalQuery
  <2>2. \A a \in messages : a.role = "assistant" => a \in messages'
    BY <2>1 DEF Key
  <2>3. /\ UNCHANGED <<citations, chunks, sources>> /\ phase' = [phase EXCEPT ![p] = "rewritten"]
    BY <1>6 DEF StoreRetrievalQuery, Go
  <2>4. StoredEvidence'
    BY <1>t, <2>2, <2>3 DEF StoredEvidence, Key
  <2>5. SourcesAreScoped'
    BY <1>t, <2>3 DEF TypeOK, SourcesAreScoped
  <2> QED
    BY <2>4, <2>5 DEF EvidenceInv
<1>7. ASSUME NEW p \in Posts, Search(p) PROVE EvidenceInv'
  <2>1. PICK found \in SUBSET Candidates(p) : sources' = [sources EXCEPT ![p] = found]
    BY <1>7 DEF Search
  <2>2. UNCHANGED <<messages, citations, chunks>> /\ phase' = [phase EXCEPT ![p] = "retrieved"]
    BY <1>7 DEF Search, Go
  <2>3. SourcesAreScoped'
    BY <1>t, <2>1, <2>2 DEF TypeOK, SourcesAreScoped, Candidates
  <2>4. StoredEvidence'
    BY <1>t, <2>2 DEF StoredEvidence, Key
  <2> QED
    BY <2>3, <2>4 DEF EvidenceInv
<1>8. ASSUME NEW p \in Posts, Answer(p) PROVE EvidenceInv'
  <2>1. PICK cited \in SUBSET sources[p] :
          /\ cited \subseteq chunks
          /\ messages' = messages \cup
               {[post |-> p, role |-> "assistant", seq |-> asked[p] + 1,
                 grounded |-> cited # {}, retrieval_query |-> FALSE]}
          /\ citations' = citations \cup ({p} \X cited)
    BY <1>8 DEF Answer, AnswerSequence, MayInsert
  <2>2. /\ UNCHANGED chunks /\ phase[p] = "retrieved" /\ phase' = [phase EXCEPT ![p] = "answered"]
        /\ sources' = [sources EXCEPT ![p] = {}]
    BY <1>8 DEF Answer, Go, Forget
  <2>3. SourcesAreScoped'
    BY <1>t, <2>2 DEF TypeOK, SourcesAreScoped
  <2> DEFINE a == [post |-> p, role |-> "assistant", seq |-> asked[p] + 1,
                   grounded |-> cited # {}, retrieval_query |-> FALSE]
  <2>4. a \in messages' /\ Key(a) = <<p, "assistant">> /\ (cited # {} => a.grounded)
    BY <2>1 DEF Key
  <2> HIDE DEF a
  <2>5. ASSUME NEW x \in citations'
        PROVE  /\ x[2] \in chunks /\ x[2].doc \in Scope[x[1]]
               /\ \E m \in messages' : Key(m) = <<x[1], "assistant">> /\ m.grounded
    <3>1. CASE x \in citations
      BY <1>t, <2>1, <3>1 DEF StoredEvidence
    <3>2. CASE x \in {p} \X cited
      <4>1. x[1] = p /\ x[2] \in cited
        BY <3>2
      <4>2. x[2].doc \in Scope[p]
        BY <1>t, <2>1, <2>2, <4>1 DEF SourcesAreScoped
      <4> QED
        BY <2>1, <2>4, <4>1, <4>2
    <3> QED
      BY <2>1, <2>5, <3>1, <3>2
  <2>6. StoredEvidence'
    BY <2>2, <2>5 DEF StoredEvidence, Key
  <2> QED
    BY <2>3, <2>6 DEF EvidenceInv
<1>9. ASSUME NEW p \in Posts,
             ReadHistory(p) \/ AuthorizeSearch(p) \/ Abandon(p)
               \/ LoadMessage(p) \/ MessageGone(p) \/ LoadSources(p)
      PROVE  EvidenceInv'
  <2>1. /\ UNCHANGED <<messages, citations, chunks>>
        /\ \A r \in Posts : phase'[r] = "retrieved" =>
              phase[r] = "retrieved" /\ sources'[r] = sources[r]
    <3>1. CASE ReadHistory(p)
      BY <1>t, <3>1 DEF ReadHistory, Go, TypeOK
    <3>2. CASE AuthorizeSearch(p)
      BY <1>t, <3>2 DEF AuthorizeSearch, Go, TypeOK
    <3>3. CASE Abandon(p)
      BY <1>t, <3>3 DEF Abandon, Forget, TypeOK
    <3>4. CASE LoadMessage(p)
      BY <1>t, <3>4 DEF LoadMessage, Go, TypeOK
    <3>5. CASE MessageGone(p)
      BY <1>t, <3>5 DEF MessageGone, Go, TypeOK
    <3>6. CASE LoadSources(p)
      BY <1>t, <3>6 DEF LoadSources, Forget, Go, TypeOK
    <3> QED
      BY <1>9, <3>1, <3>2, <3>3, <3>4, <3>5, <3>6
  <2> QED
    BY <2>1, <1>1
<1>10. ASSUME \/ \E v \in Conversations : Create(v)
              \/ \E d \in Docs : HideDocument(d) \/ Index(d)
              \/ UNCHANGED vars
       PROVE  EvidenceInv'
  <2>1. UNCHANGED <<messages, citations, chunks, phase, sources>>
    BY <1>10 DEF Create, HideDocument, Index, vars
  <2> QED
    BY <2>1, <1>1
<1> QED
  BY <1>0, <1>2, <1>4, <1>5, <1>6, <1>7, <1>8, <1>9, <1>10 DEF Next, Request

(* Whatever is reprocessed or deleted meanwhile, a stored citation belongs   *)
(* to a grounded answer, a chunk that exists and a document of the scope.    *)
THEOREM EvidenceIsThere == Spec => []StoredEvidence
<1>1. Init => EvidenceInv
  BY DEF Init, EvidenceInv, SourcesAreScoped, StoredEvidence
<1>2. EvidenceInv => StoredEvidence
  BY DEF EvidenceInv
<1> QED
  BY <1>1, <1>2, EvidenceStep, ConversationIsSafe, PTL DEF Spec

-----------------------------------------------------------------------------
(* Any documents.                                                          *)

(* Documents are uploaded, shown, hidden, replaced and deleted in any way,   *)
(* several at once, as long as a citation goes with its chunk, which is the  *)
(* database's doing (ON DELETE CASCADE).  What SearchableLibrary and so the  *)
(* pipeline allow is a part of it.                                           *)
AnyLibraryStep ==
    /\ chunks' \in SUBSET Chunk /\ searchable' \in SUBSET Docs
    /\ citations' = {x \in citations : x[2] \in chunks'}
    /\ UNCHANGED <<conversations, messages, phase, locals>>

ChatStep ==
    \/ \E v \in Conversations : Create(v) \/ DeleteConversation(v)
    \/ \E p \in Posts : Request(p)

OpenSpec == Init /\ [][ChatStep \/ AnyLibraryStep]_vars

OpenInv == ConversationInv /\ HistoryInv /\ EvidenceInv

LEMMA AnyLibraryKeepsChat ==
    ASSUME OpenInv, AnyLibraryStep
    PROVE  OpenInv'
<1> USE DEF OpenInv, AnyLibraryStep, locals
<1>1. TypeOK /\ PostInv
  BY DEF ConversationInv
<1>2. TypeOK'
  BY <1>1 DEF TypeOK
<1>3. PostInv'
  BY <1>1, LibraryKeepsPosts
<1>4. HistoryInv'
  BY DEF HistoryInv, Recent, Before, Of, Key
<1>5. EvidenceInv'
  BY DEF EvidenceInv, SourcesAreScoped, StoredEvidence, Key
<1> QED
  BY <1>2, <1>3, <1>4, <1>5 DEF ConversationInv

(* Whatever the pipeline, or anything in its place, does with the documents  *)
(* meanwhile: numbers have no gaps, answers follow their questions, the      *)
(* history is what preceded, and citations stand on chunks that exist.       *)
THEOREM ChatOnAnyLibrary ==
    OpenSpec => [](/\ SequencesAreContiguous /\ AnswerFollowsQuestion
                   /\ HistoryIsWhatPreceded /\ StoredEvidence)
<1>1. Init => OpenInv
  BY ConversationInit
     DEF Init, OpenInv, HistoryInv, Generating, EvidenceInv, SourcesAreScoped, StoredEvidence
<1>2. OpenInv /\ [ChatStep \/ AnyLibraryStep]_vars => OpenInv'
  <2>1. ChatStep => Next
    BY DEF ChatStep, Next
  <2> QED
    BY <2>1, ConversationStep, HistoryStep, EvidenceStep, AnyLibraryKeepsChat DEF OpenInv
<1>3. OpenInv => /\ SequencesAreContiguous /\ AnswerFollowsQuestion
                 /\ HistoryIsWhatPreceded /\ StoredEvidence
  BY RecentByNumber
     DEF OpenInv, ConversationInv, PostInv, HistoryInv, HistoryIsWhatPreceded, EvidenceInv
<1> QED
  BY <1>1, <1>2, <1>3, PTL DEF OpenSpec
=============================================================================
