---------------------------- MODULE RagAnswerProofs ----------------------------
(***************************************************************************)
(* Theorems about RagAnswer: its types, the one model of a process, and    *)
(* what supports the references of an answer.                              *)
(*                                                                         *)
(* The prompt is built by recursive functions on sequences.  What they     *)
(* compute is proved by induction on a set of numbers (InductionUpTo), and *)
(* that they are what their equations say by constructing them             *)
(* (RecursionExists).                                                      *)
(***************************************************************************)
EXTENDS RagAnswer, WellFoundedInduction, TLAPS

-----------------------------------------------------------------------------
(* Induction and recursion over 0 .. N.                                    *)

\* A set that has 0 and the successor of each of its numbers below N has all up to N.
LEMMA InductionUpTo ==
    ASSUME NEW N \in Nat, NEW T,
           0 \in T,
           \A n \in 1 .. N : n - 1 \in T => n \in T
    PROVE  \A n \in 0 .. N : n \in T
<1> DEFINE Missing == (0 .. N) \ T
           Below == OpToRel(<, Nat)
<1>1. SUFFICES ASSUME Missing # {} PROVE FALSE
    OBVIOUS
<1>2. PICK x \in Missing : \A y \in Missing : <<y, x>> \notin Below
    <2>1. IsWellFoundedOn(Below, Nat)
        BY NatLessThanWellFounded
    <2>2. Missing \subseteq Nat
        OBVIOUS
    <2> HIDE DEF Missing, Below
    <2> QED
        BY <1>1, <2>1, <2>2, WFMin
<1>3. ASSUME NEW y \in Missing, y < x
      PROVE  FALSE
    <2>1. <<y, x>> \in {ss \in Nat \X Nat : ss[1] < ss[2]}
        BY <1>3
    <2> QED
        BY <1>2, <2>1 DEF OpToRel
<1>4. x # 0
    OBVIOUS
<1>5. x - 1 \in 0 .. N /\ x \in 1 .. N /\ x - 1 < x
    BY <1>4
<1>6. x - 1 \in T
    BY <1>3, <1>5
<1> QED
    BY <1>5, <1>6

\* The steps of a recursion over S.
Steps(N, S) == [1 .. N -> [S -> S]]

\* A first value and a function for each step determine a recursive function.
LEMMA RecursionExists ==
    ASSUME NEW N \in Nat, NEW S, NEW first \in S, NEW step \in Steps(N, S)
    PROVE  \E f \in [0 .. N -> S] :
                f[0] = first /\ \A n \in 1 .. N : f[n] = step[n][f[n - 1]]
<1> DEFINE Solves(f, m) == f[0] = first /\ \A n \in 1 .. m : f[n] = step[n][f[n - 1]]
           Solved == {m \in 0 .. N : \E f \in [0 .. m -> S] : Solves(f, m)}
<1>1. 0 \in Solved
    <2> DEFINE f == [n \in 0 .. 0 |-> first]
    <2>1. f \in [0 .. 0 -> S]
        OBVIOUS
    <2>2. Solves(f, 0)
        OBVIOUS
    <2>3. 0 \in 0 .. N
        OBVIOUS
    <2> HIDE DEF f, Solves
    <2> QED
        BY <2>1, <2>2, <2>3
<1>2. ASSUME NEW m \in 1 .. N, m - 1 \in Solved
      PROVE  m \in Solved
    <2>1. PICK f \in [0 .. m - 1 -> S] : Solves(f, m - 1)
        BY <1>2
    <2> DEFINE g == [n \in 0 .. m |-> IF n = m THEN step[m][f[m - 1]] ELSE f[n]]
    <2>2. step[m] \in [S -> S] /\ f[m - 1] \in S
        BY <1>2 DEF Steps
    <2>3. g \in [0 .. m -> S]
        BY <2>2
    <2>4. ASSUME NEW n \in 1 .. m
          PROVE  g[n] = step[n][g[n - 1]]
        <3>1. g[n - 1] = f[n - 1]
            OBVIOUS
        <3>2. n # m => g[n] = step[n][f[n - 1]]
            BY <2>1
        <3>3. n = m => g[n] = step[n][f[n - 1]]
            OBVIOUS
        <3> QED
            BY <3>1, <3>2, <3>3
    <2>5. Solves(g, m)
        <3>1. g[0] = first
            BY <2>1, 0 # m
        <3> QED
            BY <2>4, <3>1
    <2> HIDE DEF g, Solves
    <2> QED
        BY <2>3, <2>5
<1>3. \A m \in 0 .. N : m \in Solved
    <2> HIDE DEF Solved
    <2> QED
        BY <1>1, <1>2, InductionUpTo
<1>4. N \in Solved
    BY <1>3
<1> QED
    BY <1>4

-----------------------------------------------------------------------------
(* Among, Used and Context.                                                *)

LEMMA KeepOne ==
    ASSUME NEW C, NEW S, NEW kept \in Seq(C \cap S), NEW c \in C
    PROVE  LET more == kept \o (IF c \in S THEN <<c>> ELSE <<>>)
           IN more \in Seq(C \cap S) /\ Len(more) <= Len(kept) + 1
<1> DEFINE one == IF c \in S THEN <<c>> ELSE <<>>
<1>1. CASE c \in S
    <2>1. one = <<c>>
        BY <1>1
    <2>2. one \in Seq(C \cap S) /\ Len(one) = 1
        BY <1>1, <2>1
    <2> HIDE DEF one
    <2> QED
        BY <2>2 DEF one
<1>2. CASE c \notin S
    <2>1. one = <<>>
        BY <1>2
    <2>2. one \in Seq(C \cap S) /\ Len(one) = 0
        BY <2>1
    <2> HIDE DEF one
    <2> QED
        BY <2>2 DEF one
<1> QED
    BY <1>1, <1>2

\* Among keeps chunks of S, and no more than there were.
LEMMA AmongKeeps ==
    ASSUME NEW C, NEW chunks \in Seq(C), NEW S
    PROVE  /\ Among(chunks, S) \in Seq(C \cap S)
           /\ Len(Among(chunks, S)) <= Len(chunks)
<1>1. PICK N \in Nat : N = Len(chunks) /\ \A n \in 1 .. N : chunks[n] \in C
    OBVIOUS
<1> DEFINE X == Seq(C \cap S)
           Is(f) == f = [n \in 0 .. Len(chunks) |->
                            IF n = 0 THEN <<>>
                            ELSE f[n - 1] \o (IF chunks[n] \in S THEN <<chunks[n]>> ELSE <<>>)]
           kept == CHOOSE f : Is(f)
           step == [n \in 1 .. N |-> [b \in X |->
                        b \o (IF chunks[n] \in S THEN <<chunks[n]>> ELSE <<>>)]]
<1>2. step \in Steps(N, X)
    <2>1. ASSUME NEW n \in 1 .. N, NEW b \in X
          PROVE  b \o (IF chunks[n] \in S THEN <<chunks[n]>> ELSE <<>>) \in X
        BY <1>1, KeepOne
    <2> QED
        BY <2>1 DEF Steps
<1>3. PICK f \in [0 .. N -> X] : Is(f)
    <2>1. <<>> \in X
        OBVIOUS
    <2>2. PICK f \in [0 .. N -> X] : f[0] = <<>> /\ \A n \in 1 .. N : f[n] = step[n][f[n - 1]]
        <3> HIDE DEF X, step
        <3> QED
            BY <1>2, <2>1, RecursionExists
    <2>3. ASSUME NEW n \in 0 .. N, n # 0
          PROVE  f[n] = f[n - 1] \o (IF chunks[n] \in S THEN <<chunks[n]>> ELSE <<>>)
        <3>1. n - 1 \in 0 .. N /\ n \in 1 .. N
            BY <2>3
        <3>2. f[n - 1] \in X
            BY <3>1
        <3> QED
            BY <2>2, <3>1, <3>2
    <2>4. Is(f)
        BY <1>1, <2>2, <2>3, Zenon
    <2> QED
        BY <2>4
<1>4. Is(kept)
    <2> HIDE DEF Is
    <2> QED
        BY <1>3, Zenon
<1>5. Among(chunks, S) = kept[Len(chunks)]
    BY DEF Among
<1>6. \A n \in 0 .. N : kept[n] = IF n = 0 THEN <<>>
                                    ELSE kept[n - 1] \o (IF chunks[n] \in S THEN <<chunks[n]>> ELSE <<>>)
    <2> HIDE DEF kept
    <2> QED
        BY <1>1, <1>4, Zenon
<1> HIDE DEF kept, Is
<1> DEFINE Good == {n \in 0 .. N : kept[n] \in X /\ Len(kept[n]) <= n}
<1>7. 0 \in Good
    <2>1. 0 \in 0 .. N
        OBVIOUS
    <2>2. kept[0] = <<>>
        BY <1>6, <2>1, Zenon
    <2>3. <<>> \in X /\ Len(<<>>) <= 0
        OBVIOUS
    <2> HIDE DEF X
    <2> QED
        BY <2>1, <2>2, <2>3
<1>8. ASSUME NEW n \in 1 .. N, n - 1 \in Good
      PROVE  n \in Good
    <2> DEFINE b == kept[n - 1]
    <2>1. b \in X /\ Len(b) <= n - 1 /\ n \in 0 .. N
        BY <1>1, <1>8
    <2>2. kept[n] = b \o (IF chunks[n] \in S THEN <<chunks[n]>> ELSE <<>>)
        BY <1>6, <2>1, n # 0
    <2> HIDE DEF b
    <2>3. kept[n] \in X /\ Len(kept[n]) <= Len(b) + 1
        BY <1>1, <2>1, <2>2, KeepOne
    <2>4. Len(kept[n]) <= n
        BY <2>1, <2>3
    <2> QED
        BY <2>1, <2>3, <2>4
<1>9. \A n \in 0 .. N : n \in Good
    <2> HIDE DEF Good
    <2> QED
        BY <1>1, <1>7, <1>8, InductionUpTo
<1> QED
    BY <1>1, <1>5, <1>9

\* The equation of Used.
LEMMA UsedEquation ==
    ASSUME NEW blocks \in Seq(Chunks)
    PROVE  \E used \in [0 .. Len(blocks) -> Nat] :
              /\ used[0] = 0
              /\ \A n \in 1 .. Len(blocks) :
                    used[n] = used[n - 1] + Cost[blocks[n]] + (IF n = 1 THEN 0 ELSE Separator)
              /\ Used(blocks) = used[Len(blocks)]
<1>1. PICK N \in Nat : N = Len(blocks) /\ \A n \in 1 .. N : blocks[n] \in Chunks
    OBVIOUS
<1> DEFINE Is(f) == f = [n \in 0 .. Len(blocks) |->
                            IF n = 0 THEN 0
                            ELSE f[n - 1] + Cost[blocks[n]] + (IF n = 1 THEN 0 ELSE Separator)]
           used == CHOOSE f : Is(f)
           step == [n \in 1 .. N |-> [k \in Nat |->
                        k + Cost[blocks[n]] + (IF n = 1 THEN 0 ELSE Separator)]]
<1>2. step \in Steps(N, Nat)
    <2>1. ASSUME NEW n \in 1 .. N, NEW k \in Nat
          PROVE  k + Cost[blocks[n]] + (IF n = 1 THEN 0 ELSE Separator) \in Nat
        <3>1. Cost[blocks[n]] \in Nat /\ Separator \in Nat
            BY <1>1, ConstantsAssumption
        <3> QED
            BY <3>1
    <2> QED
        BY <2>1 DEF Steps
<1>3. PICK f \in [0 .. N -> Nat] : f[0] = 0 /\ \A n \in 1 .. N : f[n] = step[n][f[n - 1]]
    <2> DEFINE Values == Nat
               none == 0
    <2>1. none \in Values /\ step \in Steps(N, Values)
        BY <1>2
    <2> HIDE DEF step, Values, none, Is, used
    <2>2. \E f \in [0 .. N -> Values] : f[0] = none /\ \A n \in 1 .. N : f[n] = step[n][f[n - 1]]
        BY <2>1, RecursionExists, Z3
    <2> QED
        BY <2>2 DEF Values, none
<1>4. ASSUME NEW n \in 0 .. N, n # 0
      PROVE  f[n] = f[n - 1] + Cost[blocks[n]] + (IF n = 1 THEN 0 ELSE Separator)
    <2>1. n - 1 \in 0 .. N /\ n \in 1 .. N
        BY <1>4
    <2>2. f[n - 1] \in Nat
        BY <2>1
    <2> QED
        BY <1>3, <2>1, <2>2
<1>5. Is(f)
    BY <1>1, <1>3, <1>4, Zenon
<1>6. Is(used)
    <2> HIDE DEF Is
    <2> QED
        BY <1>5, Zenon
<1>7. Used(blocks) = used[Len(blocks)]
    BY DEF Used
<1>8. \A n \in 0 .. N : used[n] = IF n = 0 THEN 0
                                  ELSE used[n - 1] + Cost[blocks[n]] + (IF n = 1 THEN 0 ELSE Separator)
    <2> HIDE DEF used
    <2> QED
        BY <1>1, <1>6, Zenon
<1>9. DOMAIN used = 0 .. N
    <2> HIDE DEF used
    <2> QED
        BY <1>1, <1>6
<1> HIDE DEF used, Is
<1> DEFINE Numbers == {n \in 0 .. N : used[n] \in Nat}
<1>10. 0 \in Numbers
    <2>1. 0 \in 0 .. N
        OBVIOUS
    <2> QED
        BY <1>8, <2>1
<1>11. ASSUME NEW n \in 1 .. N, n - 1 \in Numbers
       PROVE  n \in Numbers
    <2>1. n \in 0 .. N /\ n # 0 /\ used[n - 1] \in Nat
        BY <1>11
    <2>2. Cost[blocks[n]] \in Nat /\ Separator \in Nat
        BY <1>1, ConstantsAssumption
    <2>3. used[n] = used[n - 1] + Cost[blocks[n]] + (IF n = 1 THEN 0 ELSE Separator)
        BY <1>8, <2>1, Zenon
    <2>4. used[n] \in Nat
        BY <2>1, <2>2, <2>3
    <2> QED
        BY <2>1, <2>4
<1>12. \A n \in 0 .. N : n \in Numbers
    <2> HIDE DEF Numbers
    <2> QED
        BY <1>10, <1>11, InductionUpTo
<1>13. used \in [0 .. N -> Nat]
    BY <1>6, <1>9, <1>12 DEF Is
<1>14. \A n \in 1 .. N : used[n] = used[n - 1] + Cost[blocks[n]] + (IF n = 1 THEN 0 ELSE Separator)
    BY <1>8
<1>15. used[0] = 0
    <2>1. 0 \in 0 .. N
        OBVIOUS
    <2> QED
        BY <1>8, <2>1
<1> QED
    BY <1>1, <1>7, <1>13, <1>14, <1>15

\* One block more takes up what BlockCost adds for it.
LEMMA UsedAppend ==
    ASSUME NEW blocks \in Seq(Chunks), NEW c \in Chunks
    PROVE  /\ Used(blocks) \in Nat
           /\ Used(Append(blocks, c)) = Used(blocks) + BlockCost(blocks, c)
<1> DEFINE longer == Append(blocks, c)
<1>1. PICK N \in Nat : N = Len(blocks)
    OBVIOUS
<1>2. /\ longer \in Seq(Chunks) /\ Len(longer) = N + 1
      /\ longer[N + 1] = c /\ \A n \in 1 .. N : longer[n] = blocks[n]
    BY <1>1
<1>3. PICK f \in [0 .. N -> Nat] :
            /\ f[0] = 0
            /\ \A n \in 1 .. N : f[n] = f[n - 1] + Cost[blocks[n]] + (IF n = 1 THEN 0 ELSE Separator)
            /\ Used(blocks) = f[N]
    BY <1>1, UsedEquation
<1>4. PICK g \in [0 .. N + 1 -> Nat] :
            /\ g[0] = 0
            /\ \A n \in 1 .. N + 1 : g[n] = g[n - 1] + Cost[longer[n]] + (IF n = 1 THEN 0 ELSE Separator)
            /\ Used(longer) = g[N + 1]
    <2> HIDE DEF longer
    <2> QED
        BY <1>2, UsedEquation
<1> DEFINE Same == {n \in 0 .. N : f[n] = g[n]}
<1>5. 0 \in Same
    BY <1>3, <1>4
<1>6. ASSUME NEW n \in 1 .. N, n - 1 \in Same
      PROVE  n \in Same
    <2> HIDE DEF longer
    <2>1. n \in 1 .. N + 1 /\ n \in 0 .. N /\ longer[n] = blocks[n]
        BY <1>2
    <2>2. f[n - 1] = g[n - 1]
        BY <1>6
    <2>3. f[n] = f[n - 1] + Cost[blocks[n]] + (IF n = 1 THEN 0 ELSE Separator)
        BY <1>3, Zenon
    <2>4. g[n] = g[n - 1] + Cost[longer[n]] + (IF n = 1 THEN 0 ELSE Separator)
        BY <1>4, <2>1, Zenon
    <2>5. f[n] = g[n]
        BY <2>1, <2>2, <2>3, <2>4
    <2> QED
        BY <2>1, <2>5
<1>7. N \in Same
    <2>1. \A n \in 0 .. N : n \in Same
        <3> HIDE DEF Same
        <3> QED
            BY <1>5, <1>6, InductionUpTo
    <2> QED
        BY <2>1
<1>8. g[N + 1] = g[N] + Cost[c] + (IF N = 0 THEN 0 ELSE Separator)
    <2> HIDE DEF longer
    <2>1. N + 1 \in 1 .. N + 1 /\ (N + 1) - 1 = N /\ (N + 1 = 1 <=> N = 0)
        OBVIOUS
    <2> QED
        BY <1>2, <1>4, <2>1
<1>9. blocks = <<>> <=> N = 0
    BY <1>1
<1>10. f[N] = g[N] /\ f[N] \in Nat /\ Cost[c] \in Nat /\ Separator \in Nat
    BY <1>3, <1>7, ConstantsAssumption
<1>11. Used(longer) = f[N] + BlockCost(blocks, c)
    <2> HIDE DEF longer
    <2> QED
        BY <1>4, <1>8, <1>9, <1>10 DEF BlockCost
<1> QED
    BY <1>3, <1>10, <1>11

LEMMA NothingUsed == Used(<<>>) = 0
<1>1. <<>> \in Seq(Chunks) /\ Len(<<>>) = 0
    OBVIOUS
<1> QED
    BY <1>1, UsedEquation

\* A context is made of the chunks given to it, and the count that the builder
\* keeps is the length of the prompt, which stays within the budget.
LEMMA ContextFits ==
    ASSUME NEW C, C \subseteq Chunks, NEW chunks \in Seq(C)
    PROVE  /\ Context(chunks) \in Seq(C)
           /\ Len(Context(chunks)) <= Len(chunks)
           /\ Used(Context(chunks)) <= MaxChars
<1>1. PICK N \in Nat : N = Len(chunks) /\ \A n \in 1 .. N : chunks[n] \in C
    OBVIOUS
<1> DEFINE X == [blocks : Seq(C), used : Nat]
           Longer(b, c) ==
                LET used == b.used + BlockCost(b.blocks, c)
                IN IF used <= MaxChars THEN [blocks |-> Append(b.blocks, c), used |-> used] ELSE b
           Is(f) == f = [n \in 0 .. Len(chunks) |->
                            IF n = 0 THEN [blocks |-> <<>>, used |-> 0]
                            ELSE Longer(f[n - 1], chunks[n])]
           built == CHOOSE f : Is(f)
           step == [n \in 1 .. N |-> [b \in X |-> Longer(b, chunks[n])]]
<1>2. ASSUME NEW b \in X, NEW c \in C
      PROVE  /\ Longer(b, c) \in X
             /\ Longer(b, c) = b \/ /\ Longer(b, c).blocks = Append(b.blocks, c)
                                    /\ Longer(b, c).used = b.used + BlockCost(b.blocks, c)
                                    /\ Longer(b, c).used <= MaxChars
    <2>1. BlockCost(b.blocks, c) \in Nat
        BY <1>2, ConstantsAssumption DEF BlockCost
    <2>2. Append(b.blocks, c) \in Seq(C) /\ b.used \in Nat
        BY <1>2
    <2> QED
        BY <2>1, <2>2
<1> HIDE DEF Longer
<1>3. step \in Steps(N, X)
    <2>1. ASSUME NEW n \in 1 .. N, NEW b \in X
          PROVE  Longer(b, chunks[n]) \in X
        <3> HIDE DEF X
        <3> QED
            BY <1>1, <1>2
    <2> HIDE DEF X
    <2> QED
        BY <2>1 DEF Steps
<1>4. [blocks |-> <<>>, used |-> 0] \in X
    OBVIOUS
<1> HIDE DEF X
<1>5. PICK f \in [0 .. N -> X] : Is(f)
    <2>1. PICK f \in [0 .. N -> X] :
                f[0] = [blocks |-> <<>>, used |-> 0] /\ \A n \in 1 .. N : f[n] = step[n][f[n - 1]]
        <3> HIDE DEF step
        <3> QED
            BY <1>3, <1>4, RecursionExists
    <2>2. ASSUME NEW n \in 0 .. N, n # 0
          PROVE  f[n] = Longer(f[n - 1], chunks[n])
        <3>1. n - 1 \in 0 .. N /\ n \in 1 .. N
            BY <2>2
        <3>2. f[n - 1] \in X
            BY <3>1
        <3> QED
            BY <2>1, <3>1, <3>2
    <2>3. Is(f)
        BY <1>1, <2>1, <2>2, Zenon
    <2> QED
        BY <2>3
<1>6. Is(built)
    <2> HIDE DEF Is
    <2> QED
        BY <1>5, Zenon
<1>7. Context(chunks) = built[Len(chunks)].blocks
    BY DEF Context, Longer
<1>8. \A n \in 0 .. N : built[n] = IF n = 0 THEN [blocks |-> <<>>, used |-> 0]
                                   ELSE Longer(built[n - 1], chunks[n])
    <2> HIDE DEF built
    <2> QED
        BY <1>1, <1>6, Zenon
<1> HIDE DEF built, Is
<1> DEFINE Counts(b) == Used(b.blocks) = b.used /\ b.used <= MaxChars
           Good == {n \in 0 .. N : built[n] \in X /\ Len(built[n].blocks) <= n /\ Counts(built[n])}
<1>9. 0 \in Good
    <2>1. 0 \in 0 .. N
        OBVIOUS
    <2>2. built[0] = [blocks |-> <<>>, used |-> 0]
        BY <1>8, <2>1, Zenon
    <2>3. Len(<<>>) <= 0 /\ Used(<<>>) = 0 /\ 0 <= MaxChars
        BY NothingUsed, ConstantsAssumption
    <2> QED
        BY <1>4, <2>1, <2>2, <2>3
<1>10. ASSUME NEW n \in 1 .. N, n - 1 \in Good
       PROVE  n \in Good
    <2> DEFINE b == built[n - 1]
    <2>1. b \in X /\ Len(b.blocks) <= n - 1 /\ Counts(b) /\ n \in 0 .. N /\ chunks[n] \in C
        BY <1>1, <1>10
    <2>2. built[n] = Longer(b, chunks[n])
        BY <1>8, <2>1, n # 0
    <2> HIDE DEF b
    <2>3. b.blocks \in Seq(C) /\ b.used \in Nat
        BY <2>1 DEF X
    <2>4. built[n] \in X
        BY <1>2, <2>1, <2>2
    <2>5. CASE built[n] = b
        BY <2>1, <2>3, <2>4, <2>5
    <2>6. CASE /\ built[n].blocks = Append(b.blocks, chunks[n])
               /\ built[n].used = b.used + BlockCost(b.blocks, chunks[n])
               /\ built[n].used <= MaxChars
        <3>1. Len(built[n].blocks) = Len(b.blocks) + 1
            BY <2>3, <2>6
        <3>2. b.blocks \in Seq(Chunks) /\ chunks[n] \in Chunks
            BY <2>1, <2>3
        <3>3. Used(built[n].blocks) = Used(b.blocks) + BlockCost(b.blocks, chunks[n])
            BY <2>6, <3>2, UsedAppend
        <3>4. Counts(built[n])
            BY <2>1, <2>6, <3>3
        <3>5. Len(built[n].blocks) <= n
            BY <2>1, <2>3, <3>1
        <3> QED
            BY <2>1, <2>4, <3>4, <3>5
    <2> QED
        BY <1>2, <2>1, <2>2, <2>5, <2>6
<1>11. \A n \in 0 .. N : n \in Good
    <2> HIDE DEF Good
    <2> QED
        BY <1>1, <1>9, <1>10, InductionUpTo
<1>12. built[N] \in X /\ Len(built[N].blocks) <= N /\ Counts(built[N])
    BY <1>11
<1> QED
    BY <1>1, <1>7, <1>12 DEF X

\* The first of the chunks found.
LEMMA TopOfFound ==
    ASSUME NEW C, NEW found \in Seq(C)
    PROVE  Top(found) \in Seq(C) /\ Len(Top(found)) <= TopK
<1> DEFINE k == Min({TopK, Len(found)})
<1>1. TopK \in Nat /\ Len(found) \in Nat
    BY ConstantsAssumption
<1>2. \E m \in {TopK, Len(found)} : \A n \in {TopK, Len(found)} : m <= n
    BY <1>1
<1>3. k \in {TopK, Len(found)} /\ k <= TopK /\ k <= Len(found)
    BY <1>2 DEF Min
<1> HIDE DEF k
<1>4. k \in 0 .. Len(found)
    BY <1>1, <1>3
<1>5. SubSeq(found, 1, k) \in Seq(C) /\ Len(SubSeq(found, 1, k)) = k
    BY <1>4
<1> QED
    BY <1>3, <1>5 DEF k, Top

\* What Rank puts in the prompt.
LEMMA RankedPrompt ==
    ASSUME NEW r \in Requests, NEW q \in Questions
    PROVE  LET found == Among(Ranked[q], {c \in Chunks : Candidate(r, c)})
               context == Context(Among(Top(found), Close[q]))
           IN /\ context \in Seq(Chunks)
              /\ \A n \in DOMAIN context :
                    context[n] \in Close[q] /\ Candidate(r, context[n])
              /\ Len(context) <= TopK
              /\ Used(context) <= MaxChars
<1> DEFINE Cand == {c \in Chunks : Candidate(r, c)}
           found == Among(Ranked[q], Cand)
           top == Top(found)
           near == Among(top, Close[q])
           context == Context(near)
<1>1. Ranked[q] \in Seq(Chunks)
    BY ConstantsAssumption
<1>2. found \in Seq(Chunks \cap Cand)
    <2> HIDE DEF Cand
    <2> QED
        BY <1>1, AmongKeeps
<1>3. top \in Seq(Chunks \cap Cand) /\ Len(top) <= TopK
    <2> HIDE DEF Cand, found
    <2> QED
        BY <1>2, TopOfFound
<1>4. near \in Seq((Chunks \cap Cand) \cap Close[q]) /\ Len(near) <= Len(top)
    <2> HIDE DEF Cand, found, top
    <2> QED
        BY <1>3, AmongKeeps
<1>5. /\ context \in Seq((Chunks \cap Cand) \cap Close[q])
      /\ Len(context) <= Len(near)
      /\ Used(context) <= MaxChars
    <2> HIDE DEF Cand, found, top, near
    <2> QED
        BY <1>4, ContextFits
<1>6. Len(context) <= TopK
    <2> HIDE DEF Cand, found, top, near, context
    <2> QED
        BY <1>3, <1>4, <1>5, ConstantsAssumption
<1>7. context \in Seq(Chunks)
    <2> HIDE DEF Cand, context
    <2> QED
        BY <1>5
<1>8. ASSUME NEW n \in DOMAIN context
      PROVE  context[n] \in Close[q] /\ Candidate(r, context[n])
    <2>1. context[n] \in Cand /\ context[n] \in Close[q]
        <3> HIDE DEF Cand, context
        <3> QED
            BY <1>5, <1>8
    <2> QED
        BY <2>1
<1> QED
    BY <1>5, <1>6, <1>7, <1>8

-----------------------------------------------------------------------------
(* Types.                                                                  *)

\* From the check of its scope to the ranking, a request that is to be answered
\* has its query.
QuestionIsPosed ==
    \A r \in Requests :
        phase[r] \in {"check"} \cup Searching /\ Kind[r] # "search" => question[r] \in Questions

PromptsAreShort == \A r \in Requests : Len(prompt[r]) <= TopK

TypeInv == TypeOK /\ QuestionIsPosed /\ PromptsAreShort

Phases == {"start", "rewrite", "check", "generate"} \cup Searching \cup Ended

LEMMA InitTypes == Init => TypeInv
<1>1. ASSUME Init PROVE TypeOK
    BY <1>1 DEF Init, TypeOK
<1>2. ASSUME Init PROVE QuestionIsPosed
    BY <1>2 DEF Init, QuestionIsPosed, Searching
<1>3. ASSUME Init PROVE PromptsAreShort
    BY <1>3, ConstantsAssumption DEF Init, PromptsAreShort
<1> QED
    BY <1>1, <1>2, <1>3 DEF TypeInv

LEMMA MovesType ==
    ASSUME phase \in [Requests -> Phases], NEW r \in Requests, NEW from, NEW to \in Phases,
           Moves(r, from, to)
    PROVE  phase' \in [Requests -> Phases]
BY DEF Moves

LEMMA StepTypes == TypeInv /\ [Next]_vars => TypeInv'
<1> SUFFICES ASSUME TypeInv, [Next]_vars PROVE TypeInv'
    OBVIOUS
<1> USE DEF TypeInv
<1>0. CASE UNCHANGED vars
    BY <1>0 DEF vars, engine, request, TypeOK, QuestionIsPosed, PromptsAreShort
<1>1. ASSUME NEW d \in Docs, Change(d) PROVE TypeInv'
    <2>1. TypeOK'
        BY <1>1 DEF Change, engine, request, TypeOK
    <2> QED
        BY <1>1, <2>1 DEF Change, engine, request, QuestionIsPosed, PromptsAreShort
<1>2. ASSUME NEW r \in Requests, Start(r) PROVE TypeInv'
    <2>1. ServiceOf(r) \in Requests
        BY DEF ServiceOf, TypeOK
    <2>2. phase' \in [Requests -> Phases]
        BY <1>2, MovesType DEF Start, TypeOK, Phases
    <2>3. question' \in [Requests -> Questions \cup {None}]
        BY <1>2 DEF Start, TypeOK
    <2>4. TypeOK'
        BY <1>2, <2>1, <2>2, <2>3 DEF Start, TypeOK, Phases
    <2>5. QuestionIsPosed'
        <3> SUFFICES ASSUME NEW s \in Requests,
                            phase'[s] \in {"check"} \cup Searching, Kind[s] # "search"
                     PROVE  question'[s] \in Questions
            BY DEF QuestionIsPosed
        <3>1. CASE s = r
            <4>1. Kind[r] = "ask"
                BY <1>2, <3>1, ConstantsAssumption DEF Start, Moves, TypeOK, Searching
            <4> QED
                BY <1>2, <3>1, <4>1 DEF Start, TypeOK
        <3>2. CASE s # r
            BY <1>2, <3>2 DEF Start, Moves, TypeOK, QuestionIsPosed
        <3> QED
            BY <3>1, <3>2
    <2> QED
        BY <1>2, <2>4, <2>5 DEF Start, PromptsAreShort
<1>3. ASSUME NEW r \in Requests, Rewrite(r) PROVE TypeInv'
    <2>1. phase' \in [Requests -> Phases]
        <3>1. CASE Moves(r, "rewrite", "check")
            BY <3>1, MovesType DEF TypeOK, Phases
        <3>2. CASE Moves(r, "rewrite", "error")
            BY <3>2, MovesType DEF TypeOK, Phases, Ended
        <3> QED
            BY <1>3, <3>1, <3>2 DEF Rewrite
    <2>2. question' \in [Requests -> Questions \cup {None}]
        BY <1>3 DEF Rewrite, TypeOK
    <2>3. TypeOK'
        BY <1>3, <2>1, <2>2 DEF Rewrite, engine, TypeOK, Phases
    <2>4. QuestionIsPosed'
        BY <1>3 DEF Rewrite, Moves, TypeOK, QuestionIsPosed, Searching
    <2> QED
        BY <1>3, <2>3, <2>4 DEF Rewrite, PromptsAreShort
<1>4. ASSUME NEW r \in Requests, Check(r) PROVE TypeInv'
    <2>1. PICK to \in {"missing", "embed", "searched", "empty", "error"} : Moves(r, "check", to)
        BY <1>4 DEF Check
    <2>2. phase' \in [Requests -> Phases]
        BY <2>1, MovesType DEF TypeOK, Phases, Searching, Ended
    <2>3. TypeOK'
        BY <1>4, <2>2 DEF Check, engine, TypeOK, Phases
    <2>4. QuestionIsPosed'
        BY <1>4, <2>1 DEF Check, Moves, TypeOK, QuestionIsPosed, Searching
    <2> QED
        BY <1>4, <2>3, <2>4 DEF Check, PromptsAreShort
<1>5. ASSUME NEW r \in Requests, EnterEncode(r) PROVE TypeInv'
    <2>1. phase' \in [Requests -> Phases]
        BY <1>5, MovesType DEF EnterEncode, TypeOK, Phases, Searching
    <2>2. TypeOK'
        BY <1>5, <2>1 DEF EnterEncode, TypeOK, Phases
    <2>3. QuestionIsPosed'
        BY <1>5 DEF EnterEncode, Moves, TypeOK, QuestionIsPosed, Searching
    <2> QED
        BY <1>5, <2>2, <2>3 DEF EnterEncode, PromptsAreShort
<1>6. ASSUME NEW r \in Requests, EnterLoadModel(r) PROVE TypeInv'
    <2>1. PICK to \in {"encoding", "building"} : Moves(r, "model", to)
        BY <1>6 DEF EnterLoadModel
    <2>2. phase' \in [Requests -> Phases]
        BY <2>1, MovesType DEF TypeOK, Phases, Searching
    <2>3. TypeOK'
        BY <1>6, <2>2 DEF EnterLoadModel, engine, TypeOK, Phases
    <2>4. QuestionIsPosed'
        BY <1>6, <2>1 DEF EnterLoadModel, Moves, TypeOK, QuestionIsPosed, Searching
    <2> QED
        BY <1>6, <2>3, <2>4 DEF EnterLoadModel, PromptsAreShort
<1>7. ASSUME NEW r \in Requests, Build(r) PROVE TypeInv'
    <2>1. PICK to \in {"encoding", "error"} : Moves(r, "building", to)
        BY <1>7 DEF Build
    <2>2. phase' \in [Requests -> Phases]
        BY <2>1, MovesType DEF TypeOK, Phases, Searching, Ended
    <2>3. lock' \in [Requests -> Requests \cup {None}]
        BY <1>7 DEF Build, TypeOK
    <2>4. loaded' \in [Requests -> BOOLEAN]
        BY <1>7 DEF Build, TypeOK
    <2>5. TypeOK'
        BY <1>7, <2>2, <2>3, <2>4 DEF Build, TypeOK, Phases
    <2>6. QuestionIsPosed'
        BY <1>7, <2>1 DEF Build, Moves, TypeOK, QuestionIsPosed, Searching
    <2> QED
        BY <1>7, <2>5, <2>6 DEF Build, PromptsAreShort
<1>8. ASSUME NEW r \in Requests, Encode(r) PROVE TypeInv'
    <2>1. PICK to \in {"rank", "error"} : Moves(r, "encoding", to)
        BY <1>8 DEF Encode
    <2>2. phase' \in [Requests -> Phases]
        BY <2>1, MovesType DEF TypeOK, Phases, Searching, Ended
    <2>3. TypeOK'
        BY <1>8, <2>2 DEF Encode, TypeOK, Phases
    <2>4. QuestionIsPosed'
        BY <1>8, <2>1 DEF Encode, Moves, TypeOK, QuestionIsPosed, Searching
    <2> QED
        BY <1>8, <2>3, <2>4 DEF Encode, PromptsAreShort
<1>9. ASSUME NEW r \in Requests, Rank(r) PROVE TypeInv'
    <2>1. PICK to \in {"searched", "empty", "generate"} : Moves(r, "rank", to)
        BY <1>9 DEF Rank, Moves
    <2>2. phase' \in [Requests -> Phases]
        BY <2>1, MovesType DEF TypeOK, Phases, Ended
    <2>3. PICK context \in Seq(Chunks) :
                Len(context) <= TopK /\ (prompt' = prompt \/ prompt' = [prompt EXCEPT ![r] = context])
        <3>1. CASE Kind[r] = "search"
            <4>1. prompt' = prompt
                BY <1>9, <3>1 DEF Rank
            <4>2. <<>> \in Seq(Chunks) /\ Len(<<>>) <= TopK
                BY ConstantsAssumption
            <4> QED
                BY <4>1, <4>2
        <3>2. CASE Kind[r] # "search"
            <4>1. question[r] \in Questions
                BY <1>9, <3>2 DEF Rank, QuestionIsPosed, Searching
            <4> QED
                BY <1>9, <3>2, <4>1, RankedPrompt DEF Rank
        <3> QED
            BY <3>1, <3>2
    <2>4. prompt' \in [Requests -> Seq(Chunks)]
        BY <2>3 DEF TypeOK
    <2>5. PromptsAreShort'
        BY <2>3 DEF TypeOK, PromptsAreShort
    <2>6. TypeOK'
        BY <1>9, <2>2, <2>4 DEF Rank, engine, TypeOK, Phases
    <2>7. QuestionIsPosed'
        BY <1>9, <2>1 DEF Rank, Moves, TypeOK, QuestionIsPosed, Searching
    <2> QED
        BY <2>5, <2>6, <2>7
<1>10. ASSUME NEW r \in Requests, RankFails(r) PROVE TypeInv'
    <2>1. phase' \in [Requests -> Phases]
        BY <1>10, MovesType DEF RankFails, TypeOK, Phases, Ended
    <2>2. TypeOK'
        BY <1>10, <2>1 DEF RankFails, engine, TypeOK, Phases
    <2>3. QuestionIsPosed'
        BY <1>10 DEF RankFails, Moves, TypeOK, QuestionIsPosed, Searching
    <2> QED
        BY <1>10, <2>2, <2>3 DEF RankFails, PromptsAreShort
<1>11. ASSUME NEW r \in Requests, Generate(r) PROVE TypeInv'
    <2>1. PICK cited : /\ Moves(r, "generate", IF Accepted(r, cited) THEN "answered" ELSE "rejected")
                       /\ refs' = [refs EXCEPT ![r] = IF Accepted(r, cited) THEN cited ELSE {}]
        BY <1>11 DEF Generate
    <2>2. phase' \in [Requests -> Phases]
        BY <2>1, MovesType DEF TypeOK, Phases, Ended
    <2>3. refs' \in [Requests -> SUBSET (1 .. TopK)]
        <3>1. DOMAIN prompt[r] \subseteq 1 .. TopK
            BY ConstantsAssumption DEF TypeOK, PromptsAreShort
        <3>2. (IF Accepted(r, cited) THEN cited ELSE {}) \subseteq 1 .. TopK
            BY <3>1 DEF Accepted
        <3> QED
            BY <2>1, <3>2 DEF TypeOK
    <2>4. TypeOK'
        BY <1>11, <2>2, <2>3 DEF Generate, engine, TypeOK, Phases
    <2>5. QuestionIsPosed'
        BY <1>11, <2>1 DEF Generate, Moves, TypeOK, QuestionIsPosed, Searching
    <2> QED
        BY <1>11, <2>4, <2>5 DEF Generate, PromptsAreShort
<1>12. ASSUME NEW r \in Requests, GenerateFails(r) PROVE TypeInv'
    <2>1. phase' \in [Requests -> Phases]
        BY <1>12, MovesType DEF GenerateFails, TypeOK, Phases, Ended
    <2>2. TypeOK'
        BY <1>12, <2>1 DEF GenerateFails, engine, TypeOK, Phases
    <2>3. QuestionIsPosed'
        BY <1>12 DEF GenerateFails, Moves, TypeOK, QuestionIsPosed, Searching
    <2> QED
        BY <1>12, <2>2, <2>3 DEF GenerateFails, PromptsAreShort
<1> QED
    BY <1>0, <1>1, <1>2, <1>3, <1>4, <1>5, <1>6, <1>7, <1>8, <1>9, <1>10, <1>11, <1>12 DEF Next, Step

\* Every reachable state is of the declared types; in particular the references
\* of an answer are numbers that a prompt of top_k passages can have.
THEOREM TypesHold == Spec => []TypeOK
<1>1. TypeInv => TypeOK
    BY DEF TypeInv
<1> QED
    BY <1>1, InitTypes, StepTypes, PTL DEF Spec

-----------------------------------------------------------------------------
(* One model, one thread at a time.                                        *)

\* Whoever has asked for the service has the one there is.
UsesService ==
    \A r \in Requests : phase[r] # "start" => service # None /\ using[r] = service

OnlyServiceLoads == \A i \in Requests : loaded[i] => i = service

Holding == {"model", "building", "encoding"}

\* Between entering and leaving _encode a thread holds its service's lock.
HolderHasLock == \A r \in Requests : phase[r] \in Holding => lock[using[r]] = r

EngineInv == UsesService /\ OnlyServiceLoads /\ HolderHasLock

LEMMA InitEngine == Init => EngineInv
BY DEF Init, EngineInv, UsesService, OnlyServiceLoads, HolderHasLock, Holding

LEMMA StepEngine == TypeOK /\ EngineInv /\ [Next]_vars => EngineInv'
<1> SUFFICES ASSUME TypeOK, EngineInv, [Next]_vars PROVE EngineInv'
    OBVIOUS
<1> USE DEF EngineInv, Holding
<1>0. CASE UNCHANGED vars
    BY <1>0 DEF vars, engine, request, UsesService, OnlyServiceLoads, HolderHasLock
<1>1. ASSUME NEW d \in Docs, Change(d) PROVE EngineInv'
    BY <1>1 DEF Change, engine, request, UsesService, OnlyServiceLoads, HolderHasLock
<1>2. ASSUME NEW r \in Requests, Start(r) PROVE EngineInv'
    <2>1. service' \in Requests /\ service' # None /\ (service # None => service' = service)
        BY <1>2, ConstantsAssumption DEF Start, ServiceOf, TypeOK
    <2>2. UsesService'
        BY <1>2, <2>1 DEF Start, Moves, TypeOK, UsesService
    <2>3. OnlyServiceLoads'
        BY <1>2, <2>1, ConstantsAssumption DEF Start, TypeOK, OnlyServiceLoads
    <2>4. HolderHasLock'
        BY <1>2 DEF Start, Moves, TypeOK, HolderHasLock
    <2> QED
        BY <2>2, <2>3, <2>4
<1>3. ASSUME NEW r \in Requests, NEW from \in (Searching \cup {"rewrite", "check", "generate"}) \ Holding,
             NEW to, to \notin {"start"} \cup Holding, Moves(r, from, to), UNCHANGED <<engine, using>>
      PROVE  EngineInv'
    BY <1>3 DEF Moves, TypeOK, Searching, engine, UsesService, OnlyServiceLoads, HolderHasLock
<1>4. ASSUME NEW r \in Requests, Rewrite(r) PROVE EngineInv'
    BY <1>3, <1>4 DEF Rewrite
<1>5. ASSUME NEW r \in Requests, Check(r) PROVE EngineInv'
    BY <1>3, <1>5 DEF Check
<1>6. ASSUME NEW r \in Requests, EnterEncode(r) PROVE EngineInv'
    <2>1. UsesService'
        BY <1>6 DEF EnterEncode, Moves, TypeOK, UsesService
    <2>2. OnlyServiceLoads'
        BY <1>6 DEF EnterEncode, OnlyServiceLoads
    <2>3. ASSUME NEW s \in Requests, phase'[s] \in Holding PROVE lock'[using[s]] = s
        <3>1. using[r] = service /\ using[s] = service /\ service \in Requests
            BY <1>6, <2>3 DEF EnterEncode, Moves, TypeOK, UsesService
        <3>2. CASE s = r
            BY <1>6, <3>1, <3>2 DEF EnterEncode, TypeOK
        <3>3. CASE s # r
            <4>1. lock[using[s]] = s
                BY <1>6, <2>3, <3>3 DEF EnterEncode, Moves, TypeOK, HolderHasLock
            <4> QED
                BY <1>6, <3>1, <3>3, <4>1, ConstantsAssumption DEF EnterEncode, CanAcquire
        <3> QED
            BY <3>2, <3>3
    <2> QED
        BY <1>6, <2>1, <2>2, <2>3 DEF EnterEncode, HolderHasLock
<1>7. ASSUME NEW r \in Requests, EnterLoadModel(r) PROVE EngineInv'
    BY <1>7 DEF EnterLoadModel, Moves, TypeOK, engine, UsesService, OnlyServiceLoads, HolderHasLock
<1>8. ASSUME NEW r \in Requests, NEW from \in Holding, NEW to, to \notin {"start"} \cup Holding,
             Moves(r, from, to), lock' = [lock EXCEPT ![using[r]] = None],
             UNCHANGED <<service, loaded, using>>
      PROVE  EngineInv'
    <2>1. UsesService'
        BY <1>8 DEF Moves, TypeOK, UsesService
    <2>2. OnlyServiceLoads'
        BY <1>8 DEF OnlyServiceLoads
    <2>3. ASSUME NEW s \in Requests, phase'[s] \in Holding PROVE lock'[using[s]] = s
        <3>1. s # r /\ phase[s] \in Holding
            BY <1>8, <2>3 DEF Moves, TypeOK
        <3>2. using[r] = using[s] /\ lock[using[s]] = s /\ lock[using[r]] = r
            BY <1>8, <3>1 DEF Moves, UsesService, HolderHasLock
        <3> QED
            BY <3>1, <3>2
    <2> QED
        BY <1>8, <2>1, <2>2, <2>3 DEF HolderHasLock
<1>9. ASSUME NEW r \in Requests, Build(r) PROVE EngineInv'
    <2>1. CASE Moves(r, "building", "encoding") /\ loaded' = [loaded EXCEPT ![using[r]] = TRUE] /\ UNCHANGED lock
        <3>1. UsesService'
            BY <1>9, <2>1 DEF Build, Moves, TypeOK, UsesService
        <3>2. OnlyServiceLoads'
            BY <1>9, <2>1 DEF Build, Moves, TypeOK, UsesService, OnlyServiceLoads
        <3>3. HolderHasLock'
            BY <1>9, <2>1 DEF Build, Moves, TypeOK, HolderHasLock
        <3> QED
            BY <3>1, <3>2, <3>3
    <2>2. CASE Moves(r, "building", "error") /\ lock' = [lock EXCEPT ![using[r]] = None] /\ UNCHANGED loaded
        BY <1>8, <1>9, <2>2 DEF Build
    <2> QED
        BY <1>9, <2>1, <2>2 DEF Build
<1>10. ASSUME NEW r \in Requests, Encode(r) PROVE EngineInv'
    BY <1>8, <1>10 DEF Encode
<1>11. ASSUME NEW r \in Requests, Rank(r) PROVE EngineInv'
    BY <1>3, <1>11 DEF Rank, Searching, Moves
<1>12. ASSUME NEW r \in Requests, RankFails(r) PROVE EngineInv'
    BY <1>3, <1>12 DEF RankFails, Searching
<1>13. ASSUME NEW r \in Requests, Generate(r) PROVE EngineInv'
    BY <1>3, <1>13 DEF Generate
<1>14. ASSUME NEW r \in Requests, GenerateFails(r) PROVE EngineInv'
    BY <1>3, <1>14 DEF GenerateFails
<1> QED
    BY <1>0, <1>1, <1>2, <1>4, <1>5, <1>6, <1>7, <1>9, <1>10, <1>11, <1>12, <1>13, <1>14 DEF Next, Step

\* However many requests meet, and whichever of them fails to load it, a process
\* holds one model, and one thread at a time builds or runs it.
THEOREM ProcessHasOneModel == Spec => []OneModel
<1>1. EngineInv => OneModel
    <2> SUFFICES ASSUME EngineInv PROVE OneModel
        OBVIOUS
    <2>1. \A i, j \in Requests : loaded[i] /\ loaded[j] => i = j
        BY DEF EngineInv, OnlyServiceLoads
    <2>2. ASSUME NEW r \in Requests, NEW s \in Requests,
                 phase[r] \in {"building", "encoding"}, phase[s] \in {"building", "encoding"}
          PROVE  r = s
        <3>1. using[r] = using[s]
            BY <2>2 DEF EngineInv, UsesService
        <3> QED
            BY <2>2, <3>1 DEF EngineInv, HolderHasLock, Holding
    <2> QED
        BY <2>1, <2>2 DEF OneModel
<1> QED
    BY <1>1, TypesHold, InitEngine, StepEngine, PTL DEF Spec

-----------------------------------------------------------------------------
(* Waiting for the lock.                                                   *)

\* Who holds a service's lock has asked for that service and is inside _encode.
LockHolderIsInside ==
    \A i \in Requests : lock[i] # None => using[lock[i]] = i /\ phase[lock[i]] \in Holding

LEMMA StepLock == TypeOK /\ LockHolderIsInside /\ [Next]_vars => LockHolderIsInside'
<1> SUFFICES ASSUME TypeOK, LockHolderIsInside, [Next]_vars PROVE LockHolderIsInside'
    OBVIOUS
<1> USE DEF Holding
<1>0. CASE UNCHANGED vars
    BY <1>0 DEF vars, engine, request, LockHolderIsInside
<1>1. ASSUME NEW d \in Docs, Change(d) PROVE LockHolderIsInside'
    BY <1>1 DEF Change, engine, request, LockHolderIsInside
<1>2. ASSUME NEW r \in Requests, Start(r) PROVE LockHolderIsInside'
    BY <1>2, ConstantsAssumption DEF Start, Moves, TypeOK, LockHolderIsInside
<1>3. ASSUME NEW r \in Requests, NEW from, from \notin Holding, NEW to,
             Moves(r, from, to), UNCHANGED <<lock, using>>
      PROVE  LockHolderIsInside'
    BY <1>3 DEF Moves, TypeOK, LockHolderIsInside
<1>4. ASSUME NEW r \in Requests, EnterEncode(r) PROVE LockHolderIsInside'
    BY <1>4, ConstantsAssumption DEF EnterEncode, Moves, TypeOK, LockHolderIsInside
<1>5. ASSUME NEW r \in Requests, NEW from, NEW to \in Holding,
             Moves(r, from, to), UNCHANGED <<lock, using>>
      PROVE  LockHolderIsInside'
    BY <1>5, ConstantsAssumption DEF Moves, TypeOK, LockHolderIsInside
<1>6. ASSUME NEW r \in Requests, NEW from, NEW to, Moves(r, from, to),
             lock' = [lock EXCEPT ![using[r]] = None], UNCHANGED using
      PROVE  LockHolderIsInside'
    BY <1>6, ConstantsAssumption DEF Moves, TypeOK, LockHolderIsInside
<1>7. ASSUME NEW r \in Requests, EnterLoadModel(r) PROVE LockHolderIsInside'
    BY <1>5, <1>7 DEF EnterLoadModel, engine
<1>8. ASSUME NEW r \in Requests, Build(r) PROVE LockHolderIsInside'
    BY <1>5, <1>6, <1>8 DEF Build
<1>9. ASSUME NEW r \in Requests, Encode(r) PROVE LockHolderIsInside'
    BY <1>6, <1>9 DEF Encode
<1>10. ASSUME NEW r \in Requests, Rewrite(r) \/ Check(r) PROVE LockHolderIsInside'
    BY <1>3, <1>10 DEF Rewrite, Check, engine
<1>11. ASSUME NEW r \in Requests, Rank(r) \/ RankFails(r) PROVE LockHolderIsInside'
    BY <1>3, <1>11 DEF Rank, RankFails, engine
<1>12. ASSUME NEW r \in Requests, Generate(r) \/ GenerateFails(r) PROVE LockHolderIsInside'
    BY <1>3, <1>12 DEF Generate, GenerateFails, engine
<1> QED
    BY <1>0, <1>1, <1>2, <1>4, <1>7, <1>8, <1>9, <1>10, <1>11, <1>12 DEF Next, Step

\* No thread waits for the lock of the embedding service while it holds it, as
\* load_model called by _encode would with a lock that is not reentrant; and who
\* waits, waits for another thread that is inside _encode and waits for nobody.
NoCircularWait ==
    \A r \in Requests :
        /\ phase[r] = "model" => CanAcquire(r)
        /\ phase[r] = "embed" /\ ~CanAcquire(r) =>
            \E s \in Requests \ {r} :
                lock[using[r]] = s /\ phase[s] \in Holding /\ (phase[s] = "model" => CanAcquire(s))

\* The threads that share the embedding service never wait in a circle.
THEOREM WaitsEndInside == Spec => []NoCircularWait
<1>1. Init => LockHolderIsInside
    BY DEF Init, LockHolderIsInside
<1>2. TypeOK /\ EngineInv /\ LockHolderIsInside => NoCircularWait
    <2> SUFFICES ASSUME TypeOK, EngineInv, LockHolderIsInside, NEW r \in Requests
                 PROVE  /\ phase[r] = "model" => CanAcquire(r)
                        /\ phase[r] = "embed" /\ ~CanAcquire(r) =>
                            \E s \in Requests \ {r} :
                                /\ lock[using[r]] = s /\ phase[s] \in Holding
                                /\ phase[s] = "model" => CanAcquire(s)
        BY DEF NoCircularWait
    <2>1. ASSUME NEW s \in Requests, phase[s] = "model" PROVE CanAcquire(s)
        BY <2>1 DEF CanAcquire, EngineInv, HolderHasLock, Holding
    <2>2. ASSUME phase[r] = "embed", ~CanAcquire(r)
          PROVE  lock[using[r]] \in Requests \ {r} /\ phase[lock[using[r]]] \in Holding
        <3>1. using[r] \in Requests
            BY <2>2 DEF EngineInv, UsesService, TypeOK
        <3>2. lock[using[r]] # None /\ lock[using[r]] # r
            BY <2>2 DEF CanAcquire
        <3> QED
            BY <3>1, <3>2 DEF LockHolderIsInside, TypeOK
    <2> QED
        BY <2>1, <2>2
<1> QED
    BY <1>1, <1>2, TypesHold, InitEngine, StepEngine, StepLock, PTL DEF Spec

\* How many steps a request has before it at most.
StepsLeft(r) ==
    CASE phase[r] = "start" -> 9
      [] phase[r] = "rewrite" -> 8
      [] phase[r] = "check" -> 7
      [] phase[r] = "embed" -> 6
      [] phase[r] = "model" -> 5
      [] phase[r] = "building" -> 4
      [] phase[r] = "encoding" -> 3
      [] phase[r] = "rank" -> 2
      [] phase[r] = "generate" -> 1
      [] OTHER -> 0

\* A step of a request brings it closer to its end and leaves the others where
\* they are: nothing is tried again, a failed load of the model neither.
EveryStepIsProgress ==
    [][\A r \in Requests : phase'[r] # phase[r] =>
        /\ StepsLeft(r)' < StepsLeft(r)
        /\ \A s \in Requests \ {r} : phase'[s] = phase[s]]_vars

\* With WaitsEndInside: at most nine steps from its end, a request is kept from
\* the next one only by a thread that is kept by nobody.
THEOREM RequestsAdvance == Spec => EveryStepIsProgress
<1> DEFINE Advances == \A r \in Requests : phase'[r] # phase[r] =>
                        /\ StepsLeft(r)' < StepsLeft(r)
                        /\ \A s \in Requests \ {r} : phase'[s] = phase[s]
<1>1. TypeOK /\ [Next]_vars => Advances
    <2> SUFFICES ASSUME TypeOK, [Next]_vars PROVE Advances
        OBVIOUS
    <2>1. ASSUME UNCHANGED phase PROVE Advances
        BY <2>1
    <2>2. ASSUME NEW r \in Requests, NEW from, NEW to, Moves(r, from, to),
                 \/ from = "start" /\ to \in {"rewrite", "check"}
                 \/ from = "rewrite" /\ to \in {"check", "error"}
                 \/ from = "check" /\ to \in {"embed"} \cup Ended
                 \/ from = "embed" /\ to = "model"
                 \/ from = "model" /\ to \in {"building", "encoding"}
                 \/ from = "building" /\ to \in {"encoding", "error"}
                 \/ from = "encoding" /\ to \in {"rank", "error"}
                 \/ from = "rank" /\ to \in {"generate"} \cup Ended
                 \/ from = "generate" /\ to \in Ended
          PROVE  Advances
        <3>1. phase[r] = from /\ phase'[r] = to
            BY <2>2 DEF Moves, TypeOK
        <3>2. \A s \in Requests \ {r} : phase'[s] = phase[s]
            BY <2>2 DEF Moves, TypeOK
        <3>3. StepsLeft(r)' < StepsLeft(r)
            BY <2>2, <3>1 DEF StepsLeft, Ended
        <3> QED
            BY <3>2, <3>3
    <2>3. ASSUME NEW r \in Requests, Step(r) PROVE Advances
        <3>1. CASE Start(r) \/ Rewrite(r)
            BY <2>2, <3>1 DEF Start, Rewrite
        <3>2. CASE Check(r)
            BY <2>2, <3>2 DEF Check, Ended
        <3>3. CASE EnterEncode(r) \/ EnterLoadModel(r) \/ Build(r) \/ Encode(r)
            BY <2>2, <3>3 DEF EnterEncode, EnterLoadModel, Build, Encode
        <3>4. CASE Rank(r) \/ RankFails(r)
            BY <2>2, <3>4 DEF Rank, RankFails, Ended
        <3>5. CASE Generate(r) \/ GenerateFails(r)
            BY <2>2, <3>5 DEF Generate, GenerateFails, Ended
        <3> QED
            BY <2>3, <3>1, <3>2, <3>3, <3>4, <3>5 DEF Step
    <2>4. ASSUME NEW d \in Docs, Change(d) PROVE Advances
        BY <2>1, <2>4 DEF Change, request
    <2> QED
        BY <2>1, <2>3, <2>4 DEF Next, vars, request
<1> QED
    BY <1>1, TypesHold, PTL DEF Spec, EveryStepIsProgress

-----------------------------------------------------------------------------
(* Answers.                                                                *)

\* What is in the prompt is close to the question, in the request's scope, and
\* together within the budget.
PromptIsSupported ==
    \A r \in Requests : phase[r] \in {"generate", "answered"} =>
        /\ \A n \in DOMAIN prompt[r] :
                prompt[r][n] \in Close[question[r]] /\ DocOf[prompt[r][n]] \in Scope[r]
        /\ Used(prompt[r]) <= MaxChars

ReferencesArePrompted ==
    \A r \in Requests : phase[r] = "answered" => refs[r] \subseteq DOMAIN prompt[r]

AnswerInv == PromptIsSupported /\ ReferencesArePrompted

LEMMA InitAnswer == Init => AnswerInv
BY DEF Init, AnswerInv, PromptIsSupported, ReferencesArePrompted

LEMMA StepAnswer == TypeInv /\ AnswerInv /\ [Next]_vars => AnswerInv'
<1> SUFFICES ASSUME TypeInv, AnswerInv, [Next]_vars PROVE AnswerInv'
    OBVIOUS
<1> USE DEF TypeInv, AnswerInv
<1>0. CASE UNCHANGED <<request>>
    BY <1>0 DEF request, PromptIsSupported, ReferencesArePrompted
\* A step before the prompt, or one that ends without an answer.
<1>1. ASSUME NEW r \in Requests, NEW from, NEW to, to \notin {"generate", "answered"},
             Moves(r, from, to), UNCHANGED <<prompt, refs>>,
             \A s \in Requests \ {r} : question'[s] = question[s]
      PROVE  AnswerInv'
    BY <1>1 DEF Moves, TypeOK, PromptIsSupported, ReferencesArePrompted
<1>2. ASSUME NEW r \in Requests, Start(r) PROVE AnswerInv'
    <2>1. \A s \in Requests \ {r} : question'[s] = question[s]
        BY <1>2 DEF Start, TypeOK
    <2> QED
        BY <1>1, <1>2, <2>1 DEF Start
<1>3. ASSUME NEW r \in Requests, Rewrite(r) PROVE AnswerInv'
    <2>1. \A s \in Requests \ {r} : question'[s] = question[s]
        BY <1>3 DEF Rewrite, TypeOK
    <2> QED
        BY <1>1, <1>3, <2>1 DEF Rewrite
<1>4. ASSUME NEW r \in Requests, Check(r) PROVE AnswerInv'
    BY <1>1, <1>4 DEF Check
<1>5. ASSUME NEW r \in Requests, EnterEncode(r) PROVE AnswerInv'
    BY <1>1, <1>5 DEF EnterEncode
<1>6. ASSUME NEW r \in Requests, EnterLoadModel(r) PROVE AnswerInv'
    BY <1>1, <1>6 DEF EnterLoadModel
<1>7. ASSUME NEW r \in Requests, Build(r) PROVE AnswerInv'
    BY <1>1, <1>7 DEF Build
<1>8. ASSUME NEW r \in Requests, Encode(r) PROVE AnswerInv'
    BY <1>1, <1>8 DEF Encode
<1>9. ASSUME NEW r \in Requests, Rank(r) PROVE AnswerInv'
    <2>1. CASE Kind[r] = "search"
        BY <1>1, <1>9, <2>1 DEF Rank
    <2>2. CASE Kind[r] # "search"
        <3>1. question[r] \in Questions
            BY <1>9, <2>2 DEF Rank, QuestionIsPosed, Searching
        <3>2. PICK context \in Seq(Chunks) :
                /\ \A n \in DOMAIN context :
                        context[n] \in Close[question[r]] /\ Candidate(r, context[n])
                /\ Used(context) <= MaxChars
                /\ Moves(r, "rank", IF context = <<>> THEN "empty" ELSE "generate")
                /\ prompt' = [prompt EXCEPT ![r] = context]
            BY <1>9, <2>2, <3>1, RankedPrompt DEF Rank
        <3>3. PromptIsSupported'
            <4> SUFFICES ASSUME NEW s \in Requests, phase'[s] \in {"generate", "answered"}
                         PROVE  /\ \A n \in DOMAIN prompt'[s] :
                                        /\ prompt'[s][n] \in Close[question[s]]
                                        /\ DocOf[prompt'[s][n]] \in Scope[s]
                                /\ Used(prompt'[s]) <= MaxChars
                BY <1>9 DEF Rank, PromptIsSupported
            <4>1. CASE s = r
                <5>1. prompt'[r] = context
                    BY <3>2 DEF TypeOK
                <5> QED
                    BY <3>2, <4>1, <5>1 DEF Candidate
            <4>2. CASE s # r
                <5>1. prompt'[s] = prompt[s] /\ phase'[s] = phase[s]
                    BY <3>2, <4>2 DEF Moves, TypeOK
                <5> QED
                    BY <5>1 DEF PromptIsSupported
            <4> QED
                BY <4>1, <4>2
        <3>4. ReferencesArePrompted'
            BY <1>9, <3>2 DEF Rank, Moves, TypeOK, ReferencesArePrompted
        <3> QED
            BY <3>3, <3>4
    <2> QED
        BY <2>1, <2>2
<1>10. ASSUME NEW r \in Requests, RankFails(r) PROVE AnswerInv'
    BY <1>1, <1>10 DEF RankFails
<1>11. ASSUME NEW r \in Requests, Generate(r) PROVE AnswerInv'
    <2>1. PICK cited : /\ Moves(r, "generate", IF Accepted(r, cited) THEN "answered" ELSE "rejected")
                       /\ refs' = [refs EXCEPT ![r] = IF Accepted(r, cited) THEN cited ELSE {}]
        BY <1>11 DEF Generate
    <2>2. PromptIsSupported'
        BY <1>11, <2>1 DEF Generate, Moves, TypeOK, PromptIsSupported
    <2>3. ReferencesArePrompted'
        <3> SUFFICES ASSUME NEW s \in Requests, phase'[s] = "answered"
                     PROVE  refs'[s] \subseteq DOMAIN prompt[s]
            BY <1>11 DEF Generate, ReferencesArePrompted
        <3>1. CASE s = r
            <4>1. phase'[r] = IF Accepted(r, cited) THEN "answered" ELSE "rejected"
                BY <2>1 DEF Moves, TypeOK
            <4>2. Accepted(r, cited)
                BY <3>1, <4>1
            <4>3. refs'[r] = cited
                BY <2>1, <4>2 DEF TypeOK
            <4> QED
                BY <3>1, <4>2, <4>3 DEF Accepted
        <3>2. CASE s # r
            <4>1. phase[s] = "answered" /\ refs'[s] = refs[s]
                BY <2>1, <3>2 DEF Moves, TypeOK
            <4> QED
                BY <4>1 DEF ReferencesArePrompted
        <3> QED
            BY <3>1, <3>2
    <2> QED
        BY <2>2, <2>3
<1>12. ASSUME NEW r \in Requests, GenerateFails(r) PROVE AnswerInv'
    BY <1>1, <1>12 DEF GenerateFails
<1>13. CASE UNCHANGED vars \/ \E d \in Docs : Change(d)
    BY <1>0, <1>13 DEF vars, Change
<1> QED
    BY <1>2, <1>3, <1>4, <1>5, <1>6, <1>7, <1>8, <1>9, <1>10, <1>11, <1>12, <1>13 DEF Next, Step

\* Every reference of an answer that is shown names a passage of its prompt that
\* is in the request's scope and close to its question, and the prompt keeps to
\* the budget: for any library, ranking, lengths, top_k and provider.
THEOREM ShownAnswersAreSupported == Spec => []AnswerIsSupported
<1>1. TypeInv /\ AnswerInv => AnswerIsSupported
    <2> SUFFICES ASSUME TypeInv, AnswerInv, NEW r \in Requests, phase[r] = "answered"
                 PROVE  /\ refs[r] \subseteq DOMAIN prompt[r]
                        /\ Citations(r) \subseteq {c \in Close[question[r]] : DocOf[c] \in Scope[r]}
                        /\ Used(prompt[r]) <= MaxChars
        BY DEF AnswerIsSupported
    <2>1. refs[r] \subseteq DOMAIN prompt[r]
        BY DEF AnswerInv, ReferencesArePrompted
    <2>2. \A n \in refs[r] : prompt[r][n] \in {c \in Close[question[r]] : DocOf[c] \in Scope[r]}
        BY <2>1 DEF AnswerInv, PromptIsSupported
    <2> QED
        BY <2>1, <2>2 DEF Citations, AnswerInv, PromptIsSupported
<1> QED
    BY <1>1, InitTypes, StepTypes, InitAnswer, StepAnswer, PTL DEF Spec

-----------------------------------------------------------------------------
(* One state of the library.                                               *)

\* Until its ranking a request has no prompt.
NoPromptYet ==
    \A r \in Requests :
        phase[r] \in {"start", "rewrite", "check"} \cup Searching => prompt[r] = <<>>

\* What may be written into the prompts.
Prompts(r) ==
    /\ phase[r] = "rank" /\ phase'[r] \notin {"start", "rewrite", "check"} \cup Searching
    /\ \A s \in Requests \ {r} : UNCHANGED <<phase[s], prompt[s]>>
    /\ \/ UNCHANGED prompt[r]
       \/ \A n \in DOMAIN prompt'[r] : library[DocOf[prompt'[r][n]]] = "searchable"

LEMMA RankPrompts ==
    ASSUME TypeInv, NEW r \in Requests, Rank(r)
    PROVE  Prompts(r)
<1> USE DEF TypeInv
<1>1. CASE Kind[r] = "search"
    BY <1>1 DEF Rank, Moves, TypeOK, Prompts, Searching
<1>2. CASE Kind[r] # "search"
    <2>1. question[r] \in Questions
        BY <1>2 DEF Rank, QuestionIsPosed, Searching
    <2>2. PICK context \in Seq(Chunks) :
            /\ \A n \in DOMAIN context : Candidate(r, context[n])
            /\ Moves(r, "rank", IF context = <<>> THEN "empty" ELSE "generate")
            /\ prompt' = [prompt EXCEPT ![r] = context]
        BY <1>2, <2>1, RankedPrompt DEF Rank
    <2>3. prompt'[r] = context /\ \A s \in Requests \ {r} : prompt'[s] = prompt[s]
        BY <2>2 DEF TypeOK
    <2>4. /\ phase[r] = "rank" /\ phase'[r] \in {"empty", "generate"}
          /\ \A s \in Requests \ {r} : phase'[s] = phase[s]
        BY <2>2 DEF Moves, TypeOK
    <2>5. \A n \in DOMAIN prompt'[r] : library[DocOf[prompt'[r][n]]] = "searchable"
        BY <2>2, <2>3 DEF Candidate
    <2> QED
        BY <2>3, <2>4, <2>5 DEF Prompts, Searching
<1> QED
    BY <1>1, <1>2

\* No other step writes a prompt or leads back before the ranking.
LEMMA OthersKeepPrompts ==
    ASSUME TypeInv, [Next]_vars
    PROVE  \/ \E r \in Requests : Prompts(r)
           \/ /\ UNCHANGED prompt
              /\ \A r \in Requests :
                   phase'[r] \in {"start", "rewrite", "check"} \cup Searching =>
                       phase[r] \in {"start", "rewrite", "check"} \cup Searching
<1> DEFINE Before == {"start", "rewrite", "check"} \cup Searching
           Keeps == UNCHANGED prompt /\ \A r \in Requests : phase'[r] \in Before => phase[r] \in Before
<1> USE DEF TypeInv
<1>1. ASSUME NEW r \in Requests, NEW from \in Before \cup {"generate"}, NEW to, Moves(r, from, to),
             from \in Before \/ to \notin Before, UNCHANGED prompt
      PROVE  Keeps
    BY <1>1 DEF Moves, TypeOK
<1>2. ASSUME NEW r \in Requests, Step(r), ~Rank(r) PROVE Keeps
    <2>1. CASE Start(r) \/ Rewrite(r) \/ Check(r)
        BY <1>1, <2>1 DEF Start, Rewrite, Check
    <2>2. CASE EnterEncode(r) \/ EnterLoadModel(r) \/ Build(r) \/ Encode(r)
        BY <1>1, <2>2 DEF EnterEncode, EnterLoadModel, Build, Encode, Searching
    <2>3. CASE RankFails(r)
        BY <1>1, <2>3 DEF RankFails, Searching
    <2>4. CASE Generate(r) \/ GenerateFails(r)
        BY <1>1, <2>4 DEF Generate, GenerateFails, Searching
    <2> QED
        BY <1>2, <2>1, <2>2, <2>3, <2>4 DEF Step
<1>3. CASE UNCHANGED vars \/ \E d \in Docs : Change(d)
    BY <1>3 DEF vars, Change, request
<1> QED
    BY <1>2, <1>3, RankPrompts DEF Next

\* Whatever happens to the documents between a request's queries, its prompt is
\* made once and of passages that are searchable as it is made.
THEOREM PromptsAreOfOneLibrary == Spec => PromptIsOfOneLibrary
<1>1. Init => NoPromptYet
    BY DEF Init, NoPromptYet
<1>2. TypeInv /\ NoPromptYet /\ [Next]_vars => NoPromptYet'
    BY OthersKeepPrompts DEF NoPromptYet, Prompts
<1>3. TypeInv /\ NoPromptYet /\ [Next]_vars =>
        \A r \in Requests : prompt'[r] # prompt[r] =>
            /\ prompt[r] = <<>>
            /\ \A n \in DOMAIN prompt'[r] : library[DocOf[prompt'[r][n]]] = "searchable"
    BY OthersKeepPrompts DEF NoPromptYet, Prompts, Searching
<1> QED
    BY <1>1, <1>2, <1>3, InitTypes, StepTypes, PTL DEF Spec, PromptIsOfOneLibrary

================================================================================
