-------------------------- MODULE DocumentsPageProofs --------------------------
(***************************************************************************)
(* The properties of DocumentsPage for any library, page size, number of   *)
(* poll attempts and number of activations under way.                      *)
(***************************************************************************)
EXTENDS DocumentsPage, TLAPS

Deletes == {t \in Tasks : task[t].phase # "idle" /\ task[t].kind = "delete"}
Served == {t \in Tasks : task[t].phase = "served"}

(* Loads that have not raced are alone, and so are deletes that have not     *)
(* slipped.                                                                  *)
AloneInv ==
    /\ raced => slipped
    /\ ~raced => \A t, u \in Loads : t = u
    /\ ~slipped => \A t, u \in Deletes : t = u

\* What a task carries belongs to its kind, and pages begin where pages do.
Carries(u) ==
    /\ u.phase \in {"calling", "answered"} =>
         /\ u.kind \in Mutations /\ u.doc \in Docs
         /\ u.kind # "delete" => u.back = u.skip
    /\ u.skip % PageSize = 0 /\ u.back % PageSize = 0
    /\ Len(u.rows) <= PageSize

CarryInv ==
    /\ \A t \in Tasks : Carries(task[t])
    /\ timer # None => timer % PageSize = 0 /\ attempts < MaxAttempts

-----------------------------------------------------------------------------
(* What is out of date gets polled.                                        *)

SomeActive(rows) == \E i \in DOMAIN rows : Active(rows[i])
Answering == \E t \in Tasks : task[t].phase = "answered"

(* Every row is as the server has it, or active.  The server's statuses are  *)
(* a parameter, so that the same rows can be looked at before and after a    *)
(* step.                                                                     *)
UpToDate(rows, st) ==
    \A i \in DOMAIN rows : rows[i].status # st[rows[i].doc] => Active(rows[i])

\* As long as a row is active there will be another load.
ArmedInv ==
    SomeActive(documents) => timer # None \/ attempts = MaxAttempts \/ Loads # {} \/ failed

\* Rows are up to date, or the answer of an action is here and its load to come.
ServedInv == ~raced => \A t \in Served : Answering \/ UpToDate(task[t].rows, status)
ShownInv == ~raced /\ ~failed /\ Loads = {} => Answering \/ UpToDate(documents, status)

PollInv == ArmedInv /\ ServedInv /\ ShownInv

-----------------------------------------------------------------------------
(* Which pages there are, in a library of n documents.                     *)

Safe(at, n) == at = 0 \/ at < n
Within(at, rows, n) == IF rows = <<>> THEN at = 0 ELSE at + Len(rows) <= n

(* No delete has taken a row away that the page does not know of: there is   *)
(* none, or its call has not been carried out.                               *)
Undisturbed ==
    \A t \in Deletes : task[t].phase = "calling" \/ (task[t].phase = "answered" /\ ~task[t].ok)

(* As long as that is so, the page, its timer and its loads are about pages  *)
(* that are there; otherwise the page the delete goes back to is.            *)
HereInv ==
    Undisturbed =>
        /\ Safe(skip, Len(library)) /\ Within(skip, documents, Len(library)) /\ total <= Len(library)
        /\ timer # None => Safe(timer, Len(library))

\* Here u is a task in the phase of a load.
LoadsThere(u, n) ==
    /\ Safe(u.skip, n)
    /\ u.phase = "served" =>
         u.total <= n /\ Within(u.skip, u.rows, n) /\ (u.rows = <<>> => n = 0)

ThereInv ==
    \A t \in Loads : Undisturbed \/ task[t].kind = "delete" => LoadsThere(task[t], Len(library))

BackInv ==
    \A t \in Deletes :
        /\ task[t].phase = "calling" => task[t].back = 0 \/ task[t].back + 1 < Len(library)
        /\ task[t].phase = "answered" /\ task[t].ok => Safe(task[t].back, Len(library))

EmptyInv ==
    Loads = {} /\ Deletes = {} /\ ~error /\ documents = <<>> => Len(library) = 0

PageInv == ~slipped => HereInv /\ ThereInv /\ BackInv /\ EmptyInv

PageProofInv == TypeOK /\ AloneInv /\ CarryInv /\ PollInv /\ PageInv

-----------------------------------------------------------------------------
(* Pages, and the server's answers to what is asked of it.                 *)

LEMMA NextPageIsAligned ==
    ASSUME NEW at \in Nat, at % PageSize = 0
    PROVE  at + PageSize \in Nat /\ (at + PageSize) % PageSize = 0
<1>1. PageSize \in Nat \ {0}
  BY ConstantsAssumption
<1>2. PICK n \in Int : at = PageSize * n
  BY <1>1, Z3
<1> QED BY <1>1, <1>2, Z3

LEMMA PageBeforeIsAligned ==
    ASSUME NEW at \in Nat, at % PageSize = 0, at >= PageSize
    PROVE  at - PageSize \in Nat /\ (at - PageSize) % PageSize = 0
<1>1. PageSize \in Nat \ {0}
  BY ConstantsAssumption
<1>2. PICK n \in Int : at = PageSize * n
  BY <1>1, Z3
<1>3. at - PageSize = PageSize * (n - 1)
  BY <1>1, <1>2, Z3
<1> QED BY <1>1, <1>3, Z3

LEMMA FirstPageIsAligned == 0 % PageSize = 0
  BY ConstantsAssumption, Z3

LEMMA LesserOfTwo ==
    ASSUME NEW a \in Int, NEW b \in Int
    PROVE  Min({a, b}) \in {a, b} /\ Min({a, b}) <= a /\ Min({a, b}) <= b
<1>1. \E x \in {a, b} : \A y \in {a, b} : x =< y
  BY Z3
<1> QED BY <1>1 DEF Min

LibraryTypes == library \in Seq(Docs) /\ IsInjective(library) /\ status \in [Docs -> Statuses]

(* What the server lists is what it has, and it lists something unless the   *)
(* page lies behind the last document.                                       *)
LEMMA RowsAre ==
    ASSUME LibraryTypes, NEW at \in Nat
    PROVE  /\ Rows(at) \in Seq(Row) /\ Len(Rows(at)) <= PageSize
           /\ UpToDate(Rows(at), status)
           /\ Safe(at, Len(library)) => Within(at, Rows(at), Len(library))
           /\ Safe(at, Len(library)) /\ Rows(at) = <<>> => Len(library) = 0
<1> DEFINE n == Min({PageSize, Len(library) - at})
<1>1. library \in Seq(Docs) /\ Len(library) \in Nat /\ PageSize \in Nat \ {0}
  BY ConstantsAssumption DEF LibraryTypes
<1>2. n \in Int /\ n <= PageSize /\ n <= Len(library) - at /\ (n = PageSize \/ n = Len(library) - at)
  <2>1. PageSize \in Int /\ Len(library) - at \in Int
    BY <1>1
  <2>2. n \in {PageSize, Len(library) - at} /\ n <= PageSize /\ n <= Len(library) - at
    BY <2>1, LesserOfTwo
  <2> QED BY <2>1, <2>2
<1>3. Rows(at) = [i \in 1 .. n |-> [doc |-> library[at + i], status |-> status[library[at + i]]]]
  BY DEF Rows
<1> HIDE DEF n
<1>4. ASSUME NEW i \in 1 .. n
      PROVE  /\ Rows(at)[i] = [doc |-> library[at + i], status |-> status[library[at + i]]]
             /\ Rows(at)[i] \in Row /\ Rows(at)[i].status = status[Rows(at)[i].doc]
  <2>1. at + i \in 1 .. Len(library)
    BY <1>1, <1>2
  <2>2. library[at + i] \in Docs
    BY <1>1, <2>1
  <2> QED BY <1>3, <2>2 DEF LibraryTypes, Row
<1>5. CASE n <= 0
  <2>1. Rows(at) = <<>>
    BY <1>2, <1>3, <1>5
  <2>2. Len(library) <= at
    BY <1>1, <1>2, <1>5
  <2>3. Safe(at, Len(library)) => at = 0 /\ Len(library) = 0
    BY <1>1, <2>2 DEF Safe
  <2> QED BY <1>1, <2>1, <2>3 DEF Within, UpToDate
<1>6. CASE n > 0
  <2>1. Rows(at) \in [1 .. n -> Row]
    BY <1>3, <1>4
  <2>2. Rows(at) \in Seq(Row) /\ Len(Rows(at)) = n /\ DOMAIN Rows(at) = 1 .. n
    BY <1>2, <1>6, <2>1
  <2>3. Rows(at) # <<>> /\ at + n <= Len(library)
    BY <1>1, <1>2, <1>6, <2>2
  <2> QED BY <1>2, <1>4, <2>2, <2>3 DEF Within, UpToDate
<1> QED BY <1>2, <1>5, <1>6

\* A deleted document is gone, and the others keep their order.
LEMMA RemovedIs ==
    ASSUME LibraryTypes, NEW i \in DOMAIN library
    PROVE  LET rest == RemoveAt(library, i) IN
           /\ rest \in Seq(Docs) /\ IsInjective(rest)
           /\ Len(rest) = Len(library) - 1
           /\ ~Contains(rest, library[i])
<1> DEFINE rest == RemoveAt(library, i)
<1>1. library \in Seq(Docs) /\ i \in 1 .. Len(library) /\ Len(library) \in Nat
  BY DEF LibraryTypes
<1>2. /\ rest \in Seq(Docs) /\ Len(rest) = Len(library) - 1
      /\ \A j \in 1 .. Len(library) - 1 : rest[j] = IF j < i THEN library[j] ELSE library[j + 1]
  <2> DEFINE before == SubSeq(library, 1, i - 1)
             after == SubSeq(library, i + 1, Len(library))
  <2>1. /\ before \in Seq(Docs) /\ Len(before) = i - 1
        /\ \A j \in 1 .. i - 1 : before[j] = library[j]
    BY <1>1
  <2>2. /\ after \in Seq(Docs) /\ Len(after) = Len(library) - i
        /\ \A j \in 1 .. Len(library) - i : after[j] = library[i + j]
    BY <1>1
  <2>3. rest = before \o after
    BY DEF RemoveAt
  <2> HIDE DEF before, after, rest
  <2>4. rest \in Seq(Docs) /\ Len(rest) = Len(library) - 1
    BY <1>1, <2>1, <2>2, <2>3
  <2>5. ASSUME NEW j \in 1 .. Len(library) - 1
        PROVE  rest[j] = IF j < i THEN library[j] ELSE library[j + 1]
    <3>1. CASE j < i
      BY <1>1, <2>1, <2>2, <2>3, <3>1
    <3>2. CASE j >= i
      <4>1. j - (i - 1) \in 1 .. Len(library) - i /\ i + (j - (i - 1)) = j + 1
        BY <1>1, <3>2
      <4>2. rest[j] = after[j - (i - 1)]
        BY <1>1, <2>1, <2>2, <2>3, <3>2
      <4> QED BY <1>1, <2>2, <3>2, <4>1, <4>2
    <3> QED BY <1>1, <3>1, <3>2
  <2> QED BY <2>4, <2>5
<1> HIDE DEF rest
<1>3. \A j, k \in 1 .. Len(library) : library[j] = library[k] => j = k
  BY <1>1 DEF LibraryTypes, IsInjective
<1>4. DOMAIN rest = 1 .. Len(library) - 1
  BY <1>1, <1>2
<1>5. ASSUME NEW j \in DOMAIN rest, NEW k \in DOMAIN rest, rest[j] = rest[k]
      PROVE  j = k
  <2> DEFINE at(m) == IF m < i THEN m ELSE m + 1
  <2>1. at(j) \in 1 .. Len(library) /\ at(k) \in 1 .. Len(library)
    BY <1>1, <1>4
  <2>2. rest[j] = library[at(j)] /\ rest[k] = library[at(k)]
    BY <1>2, <1>4
  <2>3. at(j) = at(k)
    BY <1>5, <1>3, <2>1, <2>2
  <2> QED BY <1>1, <1>4, <2>3
<1>6. ASSUME NEW j \in DOMAIN rest
      PROVE  rest[j] # library[i]
  <2>1. CASE j < i
    BY <1>1, <1>2, <1>3, <1>4, <2>1
  <2>2. CASE j >= i
    BY <1>1, <1>2, <1>3, <1>4, <2>2
  <2> QED BY <1>1, <1>4, <2>1, <2>2
<1> QED BY <1>2, <1>5, <1>6 DEF rest, IsInjective, Contains

LEMMA UploadedIs ==
    ASSUME LibraryTypes, NEW d \in Docs, ~Contains(library, d)
    PROVE  LET more == <<d>> \o library IN
           /\ more \in Seq(Docs) /\ IsInjective(more)
           /\ Len(more) = Len(library) + 1
<1> DEFINE more == <<d>> \o library
<1>1. library \in Seq(Docs) /\ Len(library) \in Nat
  BY DEF LibraryTypes
<1>2. /\ more \in Seq(Docs) /\ Len(more) = Len(library) + 1
      /\ more[1] = d /\ \A j \in 2 .. Len(library) + 1 : more[j] = library[j - 1]
  BY <1>1
<1> HIDE DEF more
<1>3. \A j \in 1 .. Len(library) : library[j] # d
  BY <1>1 DEF Contains
<1>4. \A j, k \in DOMAIN more : more[j] = more[k] => j = k
  BY <1>1, <1>2, <1>3 DEF LibraryTypes, IsInjective
<1> QED BY <1>2, <1>4 DEF more, IsInjective

-----------------------------------------------------------------------------
(* What the steps do to the tasks.                                         *)

TaskTypes == task \in [Tasks -> Task]

LEMMA TaskFields ==
    ASSUME NEW u \in Task
    PROVE  /\ u.phase \in {"idle", "calling", "answered", "loading", "served", "broken"}
           /\ u.kind \in Mutations \cup {"page", "poll"} /\ u.doc \in Docs \cup {None}
           /\ u.skip \in Nat /\ u.back \in Nat /\ u.ok \in BOOLEAN
           /\ u.rows \in Seq(Row) /\ u.total \in Nat
  BY DEF Task

LEMMA IdleIs == Idle \in Task /\ Idle.phase = "idle" /\ Idle.kind = "page" /\ Idle.skip = 0
                /\ Idle.back = 0 /\ Idle.ok = TRUE /\ Idle.rows = <<>> /\ Idle.doc = None
  BY DEF Idle, Task

Others(t) == \A u \in Tasks \ {t} : task'[u] = task[u]

LEMMA ServeCallIs ==
    ASSUME TaskTypes, NEW t \in Tasks, ServeCall(t)
    PROVE  /\ TaskTypes' /\ Others(t) /\ task'[t].phase = "answered"
           /\ task'[t].kind = task[t].kind /\ task'[t].doc = task[t].doc
           /\ task'[t].skip = task[t].skip /\ task'[t].back = task[t].back
           /\ task'[t].rows = task[t].rows /\ task'[t].total = task[t].total
           /\ Loads' = Loads /\ Served' = Served /\ Deletes' = Deletes /\ Answering'
<1>1. PICK ok \in BOOLEAN : task' = [task EXCEPT ![t].phase = "answered", ![t].ok = ok]
  BY DEF ServeCall
<1>2. task'[t] = [task[t] EXCEPT !.phase = "answered", !.ok = ok] /\ task'[t] \in Task
  BY <1>1 DEF TaskTypes, Task
<1>3. TaskTypes' /\ Others(t)
  BY <1>1, <1>2 DEF TaskTypes, Others
<1>4. /\ task'[t].phase = "answered"
      /\ task'[t].kind = task[t].kind /\ task'[t].doc = task[t].doc
      /\ task'[t].skip = task[t].skip /\ task'[t].back = task[t].back
      /\ task'[t].rows = task[t].rows /\ task'[t].total = task[t].total
  BY <1>2 DEF TaskTypes, Task
<1>5. Loads' = Loads /\ Served' = Served /\ Deletes' = Deletes /\ Answering'
  BY <1>3, <1>4 DEF ServeCall, Others, Loads, Served, Deletes, Answering
<1> QED BY <1>3, <1>4, <1>5

LEMMA ServeLoadIs ==
    ASSUME TypeOK, NEW t \in Tasks, ServeLoad(t)
    PROVE  /\ TaskTypes' /\ Others(t) /\ task'[t].phase = "served"
           /\ task'[t].kind = task[t].kind
           /\ task'[t].skip = task[t].skip /\ task'[t].back = task[t].back
           /\ task'[t].rows = Rows(task[t].skip) /\ task'[t].total = Len(library)
           /\ t \in Loads /\ Loads' = Loads /\ Served' = Served \cup {t} /\ Deletes' = Deletes
           /\ Answering' <=> Answering
<1>1. TaskTypes /\ LibraryTypes
  BY DEF TypeOK, TaskTypes, LibraryTypes
<1>2. task[t] \in Task /\ task[t].skip \in Nat
  BY <1>1, TaskFields DEF TaskTypes
<1>3. Rows(task[t].skip) \in Seq(Row) /\ Len(library) \in Nat
  <2>1. Rows(task[t].skip) \in Seq(Row)
    BY <1>1, <1>2, RowsAre
  <2>2. library \in Seq(Docs)
    BY <1>1 DEF LibraryTypes
  <2> QED BY <2>1, <2>2
<1>4. /\ task'[t] = [task[t] EXCEPT !.phase = "served", !.rows = Rows(task[t].skip), !.total = Len(library)]
      /\ task'[t] \in Task
  BY <1>1, <1>2, <1>3 DEF ServeLoad, TaskTypes, Task
<1>5. TaskTypes' /\ Others(t)
  BY <1>1, <1>4 DEF ServeLoad, TaskTypes, Others
<1>6. /\ task'[t].phase = "served"
      /\ task'[t].kind = task[t].kind
      /\ task'[t].skip = task[t].skip /\ task'[t].back = task[t].back
      /\ task'[t].rows = Rows(task[t].skip) /\ task'[t].total = Len(library)
  BY <1>2, <1>4 DEF Task
<1>7. /\ t \in Loads /\ Loads' = Loads /\ Served' = Served \cup {t} /\ Deletes' = Deletes
      /\ Answering' <=> Answering
  BY <1>5, <1>6 DEF ServeLoad, Others, Loads, Served, Deletes, Answering
<1> QED BY <1>5, <1>6, <1>7

LEMMA BreakLoadIs ==
    ASSUME TaskTypes, NEW t \in Tasks, BreakLoad(t)
    PROVE  /\ TaskTypes' /\ Others(t) /\ task'[t].phase = "broken"
           /\ task'[t].kind = task[t].kind
           /\ task'[t].skip = task[t].skip /\ task'[t].back = task[t].back
           /\ task'[t].rows = task[t].rows /\ task'[t].total = task[t].total
           /\ Loads' = Loads /\ Served' = Served /\ t \notin Served /\ Deletes' = Deletes
           /\ Answering' <=> Answering
<1>1. task'[t] = [task[t] EXCEPT !.phase = "broken"] /\ task'[t] \in Task
  BY DEF BreakLoad, TaskTypes, Task
<1>2. TaskTypes' /\ Others(t)
  BY <1>1 DEF BreakLoad, TaskTypes, Others
<1>3. /\ task'[t].phase = "broken"
      /\ task'[t].kind = task[t].kind
      /\ task'[t].skip = task[t].skip /\ task'[t].back = task[t].back
      /\ task'[t].rows = task[t].rows /\ task'[t].total = task[t].total
  BY <1>1 DEF TaskTypes, Task
<1>4. /\ Loads' = Loads /\ Served' = Served /\ t \notin Served /\ Deletes' = Deletes
      /\ Answering' <=> Answering
  BY <1>2, <1>3 DEF BreakLoad, Others, Loads, Served, Deletes, Answering
<1> QED BY <1>2, <1>3, <1>4

LEMMA EndLoadIs ==
    ASSUME TaskTypes, NEW t \in Tasks, task[t].phase \in {"served", "broken"}, EndLoad(t)
    PROVE  /\ TaskTypes' /\ Others(t) /\ task'[t] = Idle
           /\ t \in Loads /\ Loads' = Loads \ {t} /\ Served' = Served \ {t}
           /\ Deletes' = Deletes \ {t} /\ (t \in Deletes <=> task[t].kind = "delete")
           /\ Answering' <=> Answering
<1>1. task'[t] = Idle /\ Idle \in Task /\ Idle.phase = "idle"
  BY IdleIs DEF EndLoad, TaskTypes
<1>2. TaskTypes' /\ Others(t)
  BY <1>1 DEF EndLoad, TaskTypes, Others
<1>3. /\ t \in Loads /\ Loads' = Loads \ {t} /\ Served' = Served \ {t}
      /\ Deletes' = Deletes \ {t} /\ (t \in Deletes <=> task[t].kind = "delete")
      /\ Answering' <=> Answering
  BY <1>1, <1>2 DEF Others, Loads, Served, Deletes, Answering
<1> QED BY <1>1, <1>2, <1>3

LEMMA StartLoadIs ==
    ASSUME TaskTypes, NEW t \in Tasks, NEW l \in Task, StartLoad(t, l)
    PROVE  /\ TaskTypes' /\ Others(t) /\ task'[t].phase = "loading"
           /\ task'[t].kind = l.kind /\ task'[t].skip = l.skip /\ task'[t].back = l.back
           /\ task'[t].rows = l.rows /\ task'[t].ok = l.ok
           /\ Loads' = Loads \cup {t} /\ Served' = Served \ {t}
<1>1. task'[t] = [l EXCEPT !.phase = "loading"] /\ task'[t] \in Task
  BY DEF StartLoad, TaskTypes, Task
<1>2. TaskTypes' /\ Others(t)
  BY <1>1 DEF StartLoad, TaskTypes, Others
<1>3. /\ task'[t].phase = "loading"
      /\ task'[t].kind = l.kind /\ task'[t].skip = l.skip /\ task'[t].back = l.back
      /\ task'[t].rows = l.rows /\ task'[t].ok = l.ok
  BY <1>1 DEF Task
<1>4. Loads' = Loads \cup {t} /\ Served' = Served \ {t}
  BY <1>2, <1>3 DEF Others, Loads, Served
<1> QED BY <1>2, <1>3, <1>4

\* A load that answers no action: by the timer, by the page buttons, or after an upload.
Opens(t, l) ==
    /\ task[t].phase = "idle" /\ StartLoad(t, l)
    /\ l \in Task /\ l.kind \in {"page", "poll"} /\ l.rows = <<>> /\ l.back = 0

LEMMA OpensIs ==
    ASSUME TaskTypes, NEW t \in Tasks, NEW l, Opens(t, l)
    PROVE  /\ TaskTypes' /\ Others(t) /\ task'[t].phase = "loading"
           /\ task'[t].kind = l.kind /\ task'[t].skip = l.skip /\ task'[t].back = 0
           /\ task'[t].rows = <<>>
           /\ Loads' = Loads \cup {t} /\ Served' = Served /\ Deletes' = Deletes
           /\ Answering' <=> Answering
<1>1. /\ TaskTypes' /\ Others(t) /\ task'[t].phase = "loading"
      /\ task'[t].kind = l.kind /\ task'[t].skip = l.skip /\ task'[t].back = l.back
      /\ task'[t].rows = l.rows
      /\ Loads' = Loads \cup {t} /\ Served' = Served \ {t}
  BY StartLoadIs DEF Opens
<1>2. t \notin Served
  BY DEF Opens, Served
<1>3. Deletes' = Deletes /\ (Answering' <=> Answering)
  BY <1>1 DEF Opens, Others, Deletes, Answering
<1> QED BY <1>1, <1>2, <1>3 DEF Opens

LEMMA PollOpens ==
    ASSUME TypeOK, NEW t \in Tasks, Poll(t)
    PROVE  Opens(t, [Idle EXCEPT !.kind = "poll", !.skip = timer]) /\ timer \in Nat
<1>1. timer \in Nat
  BY DEF Poll, TypeOK
<1> DEFINE l == [Idle EXCEPT !.kind = "poll", !.skip = timer]
<1>2. l \in Task /\ l.kind = "poll" /\ l.rows = <<>> /\ l.back = 0
  BY <1>1, IdleIs DEF Task
<1>3. task[t].phase = "idle" /\ StartLoad(t, l)
  BY DEF Poll
<1> HIDE DEF l
<1>4. Opens(t, l)
  BY <1>2, <1>3 DEF Opens
<1> QED BY <1>1, <1>4 DEF l

LEMMA UploadOpens ==
    ASSUME NEW t \in Tasks, task[t].phase = "idle", StartLoad(t, Idle)
    PROVE  Opens(t, Idle)
  BY IdleIs DEF Opens

(* The page buttons lead to pages, and to one the server has said is there.  *)
LEMMA TurnPageOpens ==
    ASSUME TypeOK, NEW t \in Tasks, TurnPage(t)
    PROVE  \E at \in Nat :
             /\ Opens(t, [Idle EXCEPT !.skip = at])
             /\ at % PageSize = 0
             /\ at = 0 \/ at <= skip \/ at < total
<1>1. PICK at \in {IF skip < PageSize THEN 0 ELSE skip - PageSize, skip, skip + PageSize} :
        /\ \/ at < skip /\ documents # <<>>
           \/ at > skip /\ documents # <<>> /\ at < total
           \/ at = skip /\ error /\ busy = None
        /\ StartLoad(t, [Idle EXCEPT !.skip = at])
  BY DEF TurnPage
<1>2. skip \in Nat /\ skip % PageSize = 0 /\ PageSize \in Nat \ {0}
  BY ConstantsAssumption DEF TypeOK
<1>3. at \in Nat /\ at % PageSize = 0
  <2>1. CASE at = IF skip < PageSize THEN 0 ELSE skip - PageSize
    <3>1. CASE skip < PageSize
      BY <2>1, <3>1, FirstPageIsAligned
    <3>2. CASE skip >= PageSize
      <4>1. at = skip - PageSize
        BY <1>2, <2>1, <3>2
      <4> QED BY <1>2, <3>2, <4>1, PageBeforeIsAligned
    <3> QED BY <1>2, <3>1, <3>2
  <2>2. CASE at = skip
    BY <1>2, <2>2
  <2>3. CASE at = skip + PageSize
    <3>1. skip + PageSize \in Nat /\ (skip + PageSize) % PageSize = 0
      BY <1>2, NextPageIsAligned, Zenon
    <3> QED BY <2>3, <3>1
  <2> QED BY <1>1, <2>1, <2>2, <2>3
<1>4. at <= skip \/ at < total
  BY <1>1, <1>2, <1>3
<1> DEFINE l == [Idle EXCEPT !.skip = at]
<1>5. l \in Task /\ l.kind = "page" /\ l.rows = <<>> /\ l.back = 0
  BY <1>3, IdleIs DEF Task
<1>6. task[t].phase = "idle" /\ StartLoad(t, l)
  BY <1>1 DEF TurnPage, Click
<1> HIDE DEF l
<1>7. Opens(t, l)
  BY <1>5, <1>6 DEF Opens
<1> QED BY <1>3, <1>4, <1>7 DEF l

LEMMA ReturnIs ==
    ASSUME TypeOK, CarryInv, NEW t \in Tasks, Return(t)
    PROVE  /\ TaskTypes' /\ Others(t) /\ task'[t].phase = "loading"
           /\ task'[t].kind = task[t].kind /\ task[t].kind \in Mutations
           /\ task'[t].skip = IF task[t].ok THEN task[t].back ELSE task[t].skip
           /\ task'[t].back = task[t].back /\ task'[t].rows = task[t].rows
           /\ task[t].phase = "answered"
           /\ task[t].skip # skip => slipped'
           /\ Loads' = Loads \cup {t} /\ Served' = Served /\ Deletes' = Deletes
           /\ raced' = (Loads # {}) /\ (raced' => slipped')
<1>1. TaskTypes
  BY DEF TypeOK, TaskTypes
<1>2. task[t] \in Task /\ task[t].skip \in Nat /\ task[t].back \in Nat /\ task[t].ok \in BOOLEAN
  BY <1>1, TaskFields DEF TaskTypes
<1> DEFINE at == IF task[t].ok THEN task[t].back ELSE task[t].skip
           l == [task[t] EXCEPT !.skip = at]
<1>3. at \in Nat
  BY <1>2
<1>4. /\ l \in Task /\ l.kind = task[t].kind /\ l.skip = at
      /\ l.back = task[t].back /\ l.rows = task[t].rows
  BY <1>2, <1>3 DEF Task
<1>5. task[t].phase = "answered" /\ StartLoad(t, l)
  BY DEF Return
<1>6. task[t].kind \in Mutations
  BY <1>5 DEF CarryInv, Carries
<1> HIDE DEF l
<1>7. /\ TaskTypes' /\ Others(t) /\ task'[t].phase = "loading"
      /\ task'[t].kind = task[t].kind /\ task'[t].skip = at
      /\ task'[t].back = task[t].back /\ task'[t].rows = task[t].rows
      /\ Loads' = Loads \cup {t} /\ Served' = Served \ {t}
  BY <1>1, <1>4, <1>5, StartLoadIs
<1>8. t \notin Served /\ Deletes' = Deletes
  BY <1>5, <1>7 DEF Others, Served, Deletes
<1>9. /\ raced' = (Loads # {}) /\ (raced' => slipped')
      /\ task[t].skip # skip => slipped'
  BY <1>4, <1>5, <1>6 DEF StartLoad
<1> QED BY <1>5, <1>6, <1>7, <1>8, <1>9

LEMMA MutateIs ==
    ASSUME TypeOK, NEW t \in Tasks, NEW kind \in {"process", "index"}, Mutate(t, kind)
    PROVE  /\ TaskTypes' /\ Others(t) /\ task'[t].phase = "calling"
           /\ task'[t].kind = kind /\ task'[t].doc \in Docs
           /\ task'[t].skip = skip /\ task'[t].back = skip /\ task'[t].rows = <<>>
           /\ busy' \in [doc : Docs, action : Mutations]
           /\ Loads' = Loads /\ Served' = Served /\ Deletes' = Deletes
           /\ Answering' <=> Answering
<1>1. PICK i \in DOMAIN documents :
        /\ busy' = [doc |-> documents[i].doc, action |-> kind]
        /\ task' = [task EXCEPT ![t] = [Idle EXCEPT !.phase = "calling", !.kind = kind,
                       !.doc = documents[i].doc, !.skip = skip, !.back = skip]]
  BY DEF Mutate
<1>2. documents[i].doc \in Docs /\ skip \in Nat /\ TaskTypes
  <2>1. documents \in Seq(Row) /\ skip \in Nat /\ TaskTypes
    BY DEF TypeOK, TaskTypes
  <2>2. documents[i] \in Row
    BY <2>1
  <2> QED BY <2>1, <2>2 DEF Row
<1>3. /\ task'[t] \in Task /\ task'[t].phase = "calling"
      /\ task'[t].kind = kind /\ task'[t].doc \in Docs
      /\ task'[t].skip = skip /\ task'[t].back = skip /\ task'[t].rows = <<>>
  BY <1>1, <1>2, IdleIs DEF TaskTypes, Task, Mutations
<1>4. TaskTypes' /\ Others(t)
  BY <1>1, <1>2, <1>3 DEF TaskTypes, Others
<1>5. /\ Loads' = Loads /\ Served' = Served /\ Deletes' = Deletes
      /\ Answering' <=> Answering
  BY <1>3, <1>4 DEF Mutate, Click, Others, Loads, Served, Deletes, Answering
<1>6. busy' \in [doc : Docs, action : Mutations]
  BY <1>1, <1>2 DEF Mutations
<1> QED BY <1>3, <1>4, <1>5, <1>6

LEMMA ConfirmDeleteIs ==
    ASSUME TypeOK, NEW t \in Tasks, ConfirmDelete(t)
    PROVE  /\ TaskTypes' /\ Others(t) /\ task'[t].phase = "calling"
           /\ task'[t].kind = "delete" /\ task'[t].doc \in Docs
           /\ task'[t].skip = skip /\ task'[t].rows = <<>>
           /\ task'[t].back = PageAfterDelete /\ task'[t].back % PageSize = 0
           /\ busy' \in [doc : Docs, action : Mutations]
           /\ Loads' = Loads /\ Served' = Served /\ Deletes' = Deletes \cup {t}
           /\ (Answering' <=> Answering) /\ (Deletes # {} => slipped')
<1>1. target \in Docs /\ skip \in Nat /\ skip % PageSize = 0 /\ TaskTypes
      /\ PageSize \in Nat \ {0}
  BY ConstantsAssumption DEF ConfirmDelete, TypeOK, TaskTypes
<1>2. PageAfterDelete \in Nat /\ PageAfterDelete % PageSize = 0
  <2>1. CASE PageAfterDelete = 0
    BY <2>1, FirstPageIsAligned
  <2>2. CASE PageAfterDelete = skip
    BY <1>1, <2>2
  <2>3. CASE skip >= PageSize /\ PageAfterDelete = skip - PageSize
    BY <1>1, <2>3, PageBeforeIsAligned
  <2> QED BY <1>1, <2>1, <2>2, <2>3 DEF PageAfterDelete
<1>3. task' = [task EXCEPT ![t] = [Idle EXCEPT !.phase = "calling", !.kind = "delete",
                  !.doc = target, !.skip = skip, !.back = PageAfterDelete]]
  BY DEF ConfirmDelete
<1>4. /\ task'[t] \in Task /\ task'[t].phase = "calling"
      /\ task'[t].kind = "delete" /\ task'[t].doc \in Docs
      /\ task'[t].skip = skip /\ task'[t].rows = <<>> /\ task'[t].back = PageAfterDelete
  BY <1>1, <1>2, <1>3, IdleIs DEF TaskTypes, Task, Mutations
<1>5. TaskTypes' /\ Others(t)
  BY <1>1, <1>3, <1>4 DEF TaskTypes, Others
<1>6. /\ Loads' = Loads /\ Served' = Served /\ Deletes' = Deletes \cup {t}
      /\ Answering' <=> Answering
  BY <1>4, <1>5 DEF ConfirmDelete, Click, Others, Loads, Served, Deletes, Answering
<1>7. Deletes # {} => slipped'
  BY DEF ConfirmDelete, Deletes
<1>8. busy' \in [doc : Docs, action : Mutations]
  BY <1>1 DEF ConfirmDelete, Mutations
<1> QED BY <1>2, <1>4, <1>5, <1>6, <1>7, <1>8

-----------------------------------------------------------------------------
(* Types, and what the tasks carry.                                        *)

PageTypes ==
    documents \in Seq(Row) /\ Len(documents) <= PageSize
    /\ skip \in Nat /\ total \in Nat /\ skip % PageSize = 0

ShownTypes ==
    /\ isLoading \in BOOLEAN /\ error \in BOOLEAN
    /\ busy = None \/ busy \in [doc : Docs, action : Mutations]
    /\ target \in Docs \cup {None}

PollTypes == timer \in Nat \cup {None} /\ attempts \in 0 .. MaxAttempts

HistoryTypes ==
    clicks \in 0 .. MaxClicks /\ failed \in BOOLEAN /\ raced \in BOOLEAN /\ slipped \in BOOLEAN

LEMMA TypesAre ==
    /\ TypeOK <=> LibraryTypes /\ PageTypes /\ ShownTypes /\ PollTypes /\ HistoryTypes /\ TaskTypes
    /\ TypeOK' <=> LibraryTypes' /\ PageTypes' /\ ShownTypes' /\ PollTypes' /\ HistoryTypes' /\ TaskTypes'
<1>1. TypeOK <=> LibraryTypes /\ PageTypes /\ ShownTypes /\ PollTypes /\ HistoryTypes /\ TaskTypes
  BY Zenon DEF TypeOK, LibraryTypes, PageTypes, ShownTypes, PollTypes, HistoryTypes, TaskTypes
<1>2. TypeOK' <=> LibraryTypes' /\ PageTypes' /\ ShownTypes' /\ PollTypes' /\ HistoryTypes' /\ TaskTypes'
  BY Zenon DEF TypeOK, LibraryTypes, PageTypes, ShownTypes, PollTypes, HistoryTypes, TaskTypes
<1> QED BY <1>1, <1>2

LEMMA PageChanges ==
    ASSUME [Next]_vars
    PROVE  UNCHANGED page \/ \E t \in Tasks : Arrive(t)
  BY DEF Next, vars, EndJob, ServeCall, ServeLoad, BreakLoad, LoadFails, Poll, Mutate, OpenDelete,
         CancelDelete, ConfirmDelete, Return, TurnPage, Upload, page, server, shown, polling, history

LEMMA PollingChanges ==
    ASSUME [Next]_vars
    PROVE  UNCHANGED polling \/ \E t \in Tasks : Arrive(t) \/ Poll(t)
  BY DEF Next, vars, EndJob, ServeCall, ServeLoad, BreakLoad, LoadFails, Mutate, OpenDelete,
         CancelDelete, ConfirmDelete, Return, TurnPage, Upload, page, server, shown, polling, history

LEMMA ServerChanges ==
    ASSUME [Next]_vars
    PROVE  \/ UNCHANGED server
           \/ \E d \in Docs : EndJob(d)
           \/ \E t \in Tasks : ServeCall(t) \/ \E d \in Docs : Upload(t, d)
  BY DEF Next, vars, ServeLoad, BreakLoad, Arrive, LoadFails, EndLoad, Poll, Mutate, OpenDelete,
         CancelDelete, ConfirmDelete, Return, TurnPage, page, server, shown, polling, history

LEMMA ServesIs ==
    ASSUME LibraryTypes, NEW kind, NEW d \in Docs, Serves(kind, d)
    PROVE  /\ LibraryTypes'
           /\ kind # "delete" => library' = library
           /\ kind = "delete" => Len(library') = Len(library) - 1 /\ ~Contains(library', d)
<1>1. CASE kind = "delete"
  <2>1. PICK i \in DOMAIN library : library[i] = d /\ library' = RemoveAt(library, i)
    BY <1>1 DEF Serves
  <2>2. /\ library' \in Seq(Docs) /\ IsInjective(library')
        /\ Len(library') = Len(library) - 1 /\ ~Contains(library', d)
    BY <2>1, RemovedIs
  <2>3. status' = status
    BY <1>1 DEF Serves
  <2> QED BY <1>1, <2>2, <2>3 DEF LibraryTypes
<1>2. CASE kind # "delete"
  <2>1. library' = library
    BY <1>2 DEF Serves
  <2>2. status' \in [Docs -> Statuses]
    BY <1>2 DEF Serves, LibraryTypes, Statuses
  <2> QED BY <1>2, <2>1, <2>2 DEF LibraryTypes
<1> QED BY <1>1, <1>2

(* A call changes the list only when it deletes; the page is told so, or the *)
(* step is recorded as one it does not know of.                              *)
LEMMA ServeCallServes ==
    ASSUME TypeOK, CarryInv, NEW t \in Tasks, ServeCall(t)
    PROVE  /\ LibraryTypes'
           /\ \/ library' = library /\ (task[t].kind = "delete" => ~task'[t].ok)
              \/ /\ task[t].kind = "delete" /\ Len(library') = Len(library) - 1
                 /\ task'[t].ok \/ slipped'
<1>1. TaskTypes /\ LibraryTypes /\ task[t].doc \in Docs
  BY TypesAre DEF CarryInv, Carries, ServeCall
<1>2. PICK done, ok \in BOOLEAN :
        /\ IF done THEN Serves(task[t].kind, task[t].doc) ELSE UNCHANGED server
        /\ ok => done
        /\ task' = [task EXCEPT ![t].phase = "answered", ![t].ok = ok]
        /\ slipped' = (slipped \/ (~ok /\ ~Contains(library', task[t].doc)))
  BY DEF ServeCall
<1>3. task'[t].ok = ok
  BY <1>1, <1>2 DEF TaskTypes, Task
<1>4. CASE ~done
  <2>1. library' = library /\ status' = status /\ ~ok
    BY <1>2, <1>4 DEF server
  <2> QED BY <1>1, <1>3, <2>1 DEF LibraryTypes
<1>5. CASE done
  <2>1. /\ LibraryTypes'
        /\ task[t].kind # "delete" => library' = library
        /\ task[t].kind = "delete" =>
             Len(library') = Len(library) - 1 /\ ~Contains(library', task[t].doc)
    BY <1>1, <1>2, <1>5, ServesIs
  <2> QED BY <1>2, <1>3, <2>1
<1> QED BY <1>4, <1>5

LEMMA LibraryStep ==
    ASSUME TypeOK, CarryInv, [Next]_vars
    PROVE  LibraryTypes'
<1>1. LibraryTypes
  BY TypesAre
<1>2. CASE UNCHANGED server
  BY <1>1, <1>2 DEF LibraryTypes, server
<1>3. ASSUME NEW d \in Docs, EndJob(d)
      PROVE  LibraryTypes'
  BY <1>1, <1>3 DEF EndJob, LibraryTypes
<1>4. ASSUME NEW t \in Tasks, ServeCall(t)
      PROVE  LibraryTypes'
  BY <1>4, ServeCallServes
<1>5. ASSUME NEW t \in Tasks, NEW d \in Docs, Upload(t, d)
      PROVE  LibraryTypes'
  <2>1. ~Contains(library, d) /\ library' = <<d>> \o library /\ status' = status
    BY <1>5 DEF Upload
  <2> QED BY <1>1, <2>1, UploadedIs DEF LibraryTypes
<1> QED BY <1>2, <1>3, <1>4, <1>5, ServerChanges

LEMMA PageStep ==
    ASSUME TypeOK, CarryInv, [Next]_vars
    PROVE  PageTypes'
<1>1. PageTypes /\ TaskTypes
  BY TypesAre
<1>2. CASE UNCHANGED page
  BY <1>1, <1>2, Zenon DEF PageTypes, page
<1>3. ASSUME NEW t \in Tasks, Arrive(t)
      PROVE  PageTypes'
  <2>1. documents' = task[t].rows /\ total' = task[t].total /\ skip' = task[t].skip
    BY <1>3 DEF Arrive
  <2>2. task[t].rows \in Seq(Row) /\ task[t].total \in Nat /\ task[t].skip \in Nat
    BY <1>1, TaskFields DEF TaskTypes
  <2>3. task[t].skip % PageSize = 0 /\ Len(task[t].rows) <= PageSize
    BY Zenon DEF CarryInv, Carries
  <2> QED BY <2>1, <2>2, <2>3, Zenon DEF PageTypes
<1> QED BY <1>2, <1>3, PageChanges

LEMMA RearmIs ==
    ASSUME PollTypes, NEW rows, NEW at \in Nat, Rearm(rows, at)
    PROVE  /\ PollTypes' /\ timer' \in {None, at}
           /\ timer' # None => attempts' < MaxAttempts
           /\ SomeActive(rows) => timer' # None \/ attempts' = MaxAttempts
  BY ConstantsAssumption DEF PollTypes, Rearm, SomeActive

LEMMA ShownStep ==
    ASSUME TypeOK, [Next]_vars
    PROVE  ShownTypes' /\ HistoryTypes'
<1>1. ShownTypes /\ HistoryTypes /\ PageTypes /\ TaskTypes
  BY TypesAre
<1>2. ASSUME NEW d \in Docs, EndJob(d)
      PROVE  ShownTypes' /\ HistoryTypes'
  BY <1>1, <1>2 DEF EndJob, shown, history, ShownTypes, HistoryTypes
<1>3. ASSUME NEW t \in Tasks, ServeCall(t)
      PROVE  ShownTypes' /\ HistoryTypes'
  <2>1. slipped' \in BOOLEAN
    BY <1>3 DEF ServeCall
  <2> QED BY <1>1, <1>3, <2>1 DEF ServeCall, shown, ShownTypes, HistoryTypes
<1>4. ASSUME NEW t \in Tasks, ServeLoad(t) \/ BreakLoad(t)
      PROVE  ShownTypes' /\ HistoryTypes'
  BY <1>1, <1>4 DEF ServeLoad, BreakLoad, shown, history, ShownTypes, HistoryTypes
<1>5. ASSUME NEW t \in Tasks, Arrive(t) \/ LoadFails(t)
      PROVE  ShownTypes' /\ HistoryTypes'
  <2>1. error' \in BOOLEAN /\ failed' \in BOOLEAN /\ slipped' \in BOOLEAN /\ isLoading' \in BOOLEAN
    BY <1>1, <1>5 DEF Arrive, LoadFails, EndLoad, HistoryTypes
  <2>2. busy' = None \/ busy' \in [doc : Docs, action : Mutations]
    BY <1>1, <1>5 DEF Arrive, LoadFails, EndLoad, ShownTypes
  <2>3. target' = target /\ clicks' = clicks /\ raced' = raced
    BY <1>5 DEF Arrive, LoadFails, EndLoad
  <2> QED BY <1>1, <2>1, <2>2, <2>3 DEF ShownTypes, HistoryTypes
<1>6. ASSUME NEW t \in Tasks, NEW l, StartLoad(t, l)
      PROVE  isLoading' \in BOOLEAN /\ error' \in BOOLEAN /\ failed' \in BOOLEAN
             /\ raced' \in BOOLEAN /\ slipped' \in BOOLEAN
  BY <1>1, <1>6 DEF StartLoad, HistoryTypes
<1>7. ASSUME NEW t \in Tasks, Click(t)
      PROVE  clicks' \in 0 .. MaxClicks
  BY <1>1, <1>7, ConstantsAssumption DEF Click, HistoryTypes
<1>8. ASSUME NEW t \in Tasks, Poll(t)
      PROVE  ShownTypes' /\ HistoryTypes'
  BY <1>1, <1>6, <1>8 DEF Poll, ShownTypes, HistoryTypes
<1>9. ASSUME NEW t \in Tasks, NEW kind \in {"process", "index"}, Mutate(t, kind)
      PROVE  ShownTypes' /\ HistoryTypes'
  <2>1. busy' \in [doc : Docs, action : Mutations]
    BY <1>9, MutateIs
  <2> QED BY <1>1, <1>7, <1>9, <2>1 DEF Mutate, ShownTypes, HistoryTypes
<1>10. ASSUME NEW t \in Tasks, ConfirmDelete(t)
       PROVE  ShownTypes' /\ HistoryTypes'
  <2>1. busy' \in [doc : Docs, action : Mutations]
    BY <1>10, ConfirmDeleteIs
  <2>2. slipped' \in BOOLEAN
    BY <1>10 DEF ConfirmDelete
  <2> QED BY <1>1, <1>7, <1>10, <2>1, <2>2 DEF ConfirmDelete, ShownTypes, HistoryTypes
<1>11. ASSUME NEW t \in Tasks, Return(t)
       PROVE  ShownTypes' /\ HistoryTypes'
  <2>1. target' \in Docs \cup {None} /\ busy' = busy /\ clicks' = clicks
    BY <1>1, <1>11 DEF Return, ShownTypes
  <2>2. /\ isLoading' \in BOOLEAN /\ error' \in BOOLEAN /\ failed' \in BOOLEAN
        /\ raced' \in BOOLEAN /\ slipped' \in BOOLEAN
    BY <1>6, <1>11 DEF Return
  <2> QED BY <1>1, <2>1, <2>2 DEF ShownTypes, HistoryTypes
<1>12. ASSUME NEW t \in Tasks, TurnPage(t)
       PROVE  ShownTypes' /\ HistoryTypes'
  <2>1. target' = target /\ busy' = busy /\ clicks' \in 0 .. MaxClicks
    BY <1>7, <1>12 DEF TurnPage
  <2>2. /\ isLoading' \in BOOLEAN /\ error' \in BOOLEAN /\ failed' \in BOOLEAN
        /\ raced' \in BOOLEAN /\ slipped' \in BOOLEAN
    BY <1>6, <1>12 DEF TurnPage
  <2> QED BY <1>1, <2>1, <2>2 DEF ShownTypes, HistoryTypes
<1>13. ASSUME NEW t \in Tasks, NEW d \in Docs, Upload(t, d)
       PROVE  ShownTypes' /\ HistoryTypes'
  <2>1. target' = target /\ busy' = busy /\ clicks' \in 0 .. MaxClicks
    BY <1>7, <1>13 DEF Upload
  <2>2. /\ isLoading' \in BOOLEAN /\ error' \in BOOLEAN /\ failed' \in BOOLEAN
        /\ raced' \in BOOLEAN /\ slipped' \in BOOLEAN
    BY <1>1, <1>6, <1>13 DEF Upload, ShownTypes, HistoryTypes
  <2> QED BY <1>1, <2>1, <2>2 DEF ShownTypes, HistoryTypes
<1>14. ASSUME OpenDelete \/ CancelDelete
       PROVE  ShownTypes' /\ HistoryTypes'
  <2>1. ASSUME NEW i \in DOMAIN documents
        PROVE  documents[i].doc \in Docs
    <3>1. documents \in Seq(Row)
      BY <1>1 DEF PageTypes
    <3>2. documents[i] \in Row
      BY <3>1
    <3> QED BY <3>2 DEF Row
  <2>2. target' \in Docs \cup {None} /\ error' \in BOOLEAN
    BY <1>1, <1>14, <2>1 DEF OpenDelete, CancelDelete, ShownTypes
  <2> QED BY <1>1, <1>14, <2>2 DEF OpenDelete, CancelDelete, history, ShownTypes, HistoryTypes
<1>15. CASE UNCHANGED vars
  BY <1>1, <1>15 DEF vars, shown, history, ShownTypes, HistoryTypes
<1> QED BY <1>2, <1>3, <1>4, <1>5, <1>8, <1>9, <1>10, <1>11, <1>12, <1>13, <1>14, <1>15 DEF Next

LEMMA PollStep ==
    ASSUME TypeOK, CarryInv, [Next]_vars
    PROVE  PollTypes' /\ (timer' # None => timer' % PageSize = 0 /\ attempts' < MaxAttempts)
<1>1. PollTypes /\ TaskTypes
  BY TypesAre
<1>2. timer # None => timer % PageSize = 0 /\ attempts < MaxAttempts
  BY Zenon DEF CarryInv
<1>3. CASE UNCHANGED polling
  BY <1>1, <1>2, <1>3, Zenon DEF PollTypes, polling
<1>4. ASSUME NEW t \in Tasks, Arrive(t)
      PROVE  PollTypes' /\ (timer' # None => timer' % PageSize = 0 /\ attempts' < MaxAttempts)
  <2>1. task[t].skip \in Nat /\ task[t].skip % PageSize = 0
    BY <1>1, TaskFields, Zenon DEF TaskTypes, CarryInv, Carries
  <2>2. /\ PollTypes' /\ timer' \in {None, task[t].skip}
        /\ timer' # None => attempts' < MaxAttempts
    BY <1>1, <1>4, <2>1, RearmIs DEF Arrive
  <2> QED BY <2>1, <2>2, Zenon
<1>5. ASSUME NEW t \in Tasks, Poll(t)
      PROVE  PollTypes' /\ (timer' # None => timer' % PageSize = 0 /\ attempts' < MaxAttempts)
  <2>1. timer' = None /\ attempts' = attempts + 1 /\ attempts < MaxAttempts
    BY <1>2, <1>5 DEF Poll
  <2> QED BY <1>1, <2>1, ConstantsAssumption DEF PollTypes
<1> QED BY <1>3, <1>4, <1>5, PollingChanges

LEMMA OpensCarries ==
    ASSUME TaskTypes, NEW t \in Tasks, NEW l, Opens(t, l), l.skip % PageSize = 0
    PROVE  TaskTypes' /\ Others(t) /\ Carries(task'[t])
<1>1. /\ TaskTypes' /\ Others(t) /\ task'[t].phase = "loading"
      /\ task'[t].skip = l.skip /\ task'[t].back = 0 /\ task'[t].rows = <<>>
  BY OpensIs
<1>2. task'[t].skip % PageSize = 0 /\ task'[t].back % PageSize = 0
  BY <1>1, FirstPageIsAligned, Zenon
<1>3. Len(task'[t].rows) <= PageSize
  BY <1>1, ConstantsAssumption
<1>4. task'[t].phase \notin {"calling", "answered"}
  BY <1>1
<1> QED BY <1>1, <1>2, <1>3, <1>4, Zenon DEF Carries

LEMMA TaskStep ==
    ASSUME TypeOK, CarryInv, [Next]_vars
    PROVE  TaskTypes' /\ \A u \in Tasks : Carries(task'[u])
<1> DEFINE Goal == TaskTypes' /\ \A u \in Tasks : Carries(task'[u])
<1>1. TaskTypes
  BY TypesAre
<1>2. \A u \in Tasks : Carries(task[u])
  BY DEF CarryInv
<1>3. ASSUME NEW t \in Tasks, TaskTypes', Others(t), Carries(task'[t])
      PROVE  Goal
  BY <1>2, <1>3, Zenon DEF Others
<1>4. Goal \/ task' # task
  BY <1>1, <1>2, Zenon DEF TaskTypes
<1> HIDE DEF Goal
<1>5. ASSUME NEW t \in Tasks, ServeCall(t)
      PROVE  Goal
  <2>1. /\ TaskTypes' /\ Others(t) /\ task'[t].phase = "answered"
        /\ task'[t].kind = task[t].kind /\ task'[t].doc = task[t].doc
        /\ task'[t].skip = task[t].skip /\ task'[t].back = task[t].back
        /\ task'[t].rows = task[t].rows
    BY <1>1, <1>5, ServeCallIs
  <2>2. task[t].phase = "calling"
    BY <1>5 DEF ServeCall
  <2>3. Carries(task'[t])
    BY <1>2, <2>1, <2>2, Zenon DEF Carries
  <2> QED BY <1>3, <2>1, <2>3
<1>6. ASSUME NEW t \in Tasks, ServeLoad(t)
      PROVE  Goal
  <2>1. /\ TaskTypes' /\ Others(t) /\ task'[t].phase = "served"
        /\ task'[t].skip = task[t].skip /\ task'[t].back = task[t].back
        /\ task'[t].rows = Rows(task[t].skip)
    BY <1>6, ServeLoadIs
  <2>2. task[t].skip \in Nat /\ LibraryTypes
    BY <1>1, TaskFields, TypesAre DEF TaskTypes
  <2>3. Len(task'[t].rows) <= PageSize
    BY <2>1, <2>2, RowsAre
  <2>4. task'[t].phase \notin {"calling", "answered"}
    BY <2>1
  <2>5. Carries(task'[t])
    BY <1>2, <2>1, <2>3, <2>4, Zenon DEF Carries
  <2> QED BY <1>3, <2>1, <2>5
<1>7. ASSUME NEW t \in Tasks, BreakLoad(t)
      PROVE  Goal
  <2>1. /\ TaskTypes' /\ Others(t) /\ task'[t].phase = "broken"
        /\ task'[t].skip = task[t].skip /\ task'[t].back = task[t].back
        /\ task'[t].rows = task[t].rows
    BY <1>1, <1>7, BreakLoadIs
  <2>2. task'[t].phase \notin {"calling", "answered"}
    BY <2>1
  <2>3. Carries(task'[t])
    BY <1>2, <2>1, <2>2, Zenon DEF Carries
  <2> QED BY <1>3, <2>1, <2>3
<1>8. ASSUME NEW t \in Tasks, Arrive(t) \/ LoadFails(t)
      PROVE  Goal
  <2>1. TaskTypes' /\ Others(t) /\ task'[t] = Idle
    BY <1>1, <1>8, EndLoadIs DEF Arrive, LoadFails
  <2>2. Carries(Idle)
    BY IdleIs, FirstPageIsAligned, ConstantsAssumption DEF Carries
  <2> QED BY <1>3, <2>1, <2>2
<1>9. ASSUME NEW t \in Tasks, Poll(t)
      PROVE  Goal
  <2> DEFINE l == [Idle EXCEPT !.kind = "poll", !.skip = timer]
  <2>1. Opens(t, l) /\ l.skip = timer
    BY <1>9, PollOpens DEF Idle
  <2>2. timer % PageSize = 0
    BY <1>9, Zenon DEF Poll, CarryInv
  <2> HIDE DEF l
  <2>3. l.skip % PageSize = 0
    BY <2>1, <2>2, Zenon
  <2> QED BY <1>1, <1>3, <2>1, <2>3, OpensCarries
<1>10. ASSUME NEW t \in Tasks, TurnPage(t)
       PROVE  Goal
  <2>1. PICK at \in Nat : Opens(t, [Idle EXCEPT !.skip = at]) /\ at % PageSize = 0
    BY <1>10, TurnPageOpens
  <2> DEFINE l == [Idle EXCEPT !.skip = at]
  <2>2. l.skip = at
    BY DEF Idle
  <2>3. l.skip % PageSize = 0 /\ Opens(t, l)
    BY <2>1, <2>2, Zenon
  <2> HIDE DEF l
  <2> QED BY <1>1, <1>3, <2>3, OpensCarries
<1>11. ASSUME NEW t \in Tasks, NEW d \in Docs, Upload(t, d)
       PROVE  Goal
  <2>1. CASE StartLoad(t, Idle)
    <3>1. Opens(t, Idle)
      BY <1>11, <2>1, UploadOpens DEF Upload, Click
    <3>2. Idle.skip % PageSize = 0
      BY IdleIs, FirstPageIsAligned, Zenon
    <3> QED BY <1>1, <1>3, <3>1, <3>2, OpensCarries
  <2>2. CASE task' = task
    BY <1>4, <2>2
  <2> QED BY <1>11, <2>1, <2>2 DEF Upload
<1>12. ASSUME NEW t \in Tasks, Return(t)
       PROVE  Goal
  <2>1. /\ TaskTypes' /\ Others(t) /\ task'[t].phase = "loading"
        /\ task'[t].skip = IF task[t].ok THEN task[t].back ELSE task[t].skip
        /\ task'[t].back = task[t].back /\ task'[t].rows = task[t].rows
    BY <1>12, ReturnIs
  <2>2. task'[t].phase \notin {"calling", "answered"}
    BY <2>1
  <2>3. Carries(task'[t])
    BY <1>2, <2>1, <2>2, Zenon DEF Carries
  <2> QED BY <1>3, <2>1, <2>3
<1>13. ASSUME NEW t \in Tasks, NEW kind \in {"process", "index"}, Mutate(t, kind)
       PROVE  Goal
  <2>1. /\ TaskTypes' /\ Others(t) /\ task'[t].kind = kind /\ task'[t].doc \in Docs
        /\ task'[t].skip = skip /\ task'[t].back = skip /\ task'[t].rows = <<>>
    BY <1>13, MutateIs
  <2>2. skip % PageSize = 0 /\ kind \in Mutations
    BY <1>13, TypesAre DEF PageTypes, Mutations
  <2>3. Len(task'[t].rows) <= PageSize
    BY <2>1, ConstantsAssumption
  <2>4. Carries(task'[t])
    BY <2>1, <2>2, <2>3, Zenon DEF Carries
  <2> QED BY <1>3, <2>1, <2>4
<1>14. ASSUME NEW t \in Tasks, ConfirmDelete(t)
       PROVE  Goal
  <2>1. /\ TaskTypes' /\ Others(t) /\ task'[t].kind = "delete" /\ task'[t].doc \in Docs
        /\ task'[t].skip = skip /\ task'[t].back % PageSize = 0 /\ task'[t].rows = <<>>
    BY <1>14, ConfirmDeleteIs
  <2>2. skip % PageSize = 0 /\ task'[t].kind \in Mutations
    BY <2>1, TypesAre DEF PageTypes, Mutations
  <2>3. Len(task'[t].rows) <= PageSize
    BY <2>1, ConstantsAssumption
  <2>4. Carries(task'[t])
    BY <2>1, <2>2, <2>3, Zenon DEF Carries
  <2> QED BY <1>3, <2>1, <2>4
<1>15. ASSUME \/ \E d \in Docs : EndJob(d)
              \/ OpenDelete \/ CancelDelete \/ UNCHANGED vars
       PROVE  Goal
  <2>1. task' = task
    BY <1>15 DEF EndJob, OpenDelete, CancelDelete, vars
  <2> QED BY <1>4, <2>1
<1> QED BY <1>5, <1>6, <1>7, <1>8, <1>9, <1>10, <1>11, <1>12, <1>13, <1>14, <1>15 DEF Next, Goal

LEMMA TypesStep ==
    ASSUME TypeOK, CarryInv, [Next]_vars
    PROVE  TypeOK' /\ CarryInv'
<1>1. LibraryTypes' /\ PageTypes' /\ ShownTypes' /\ HistoryTypes' /\ PollTypes' /\ TaskTypes'
  BY LibraryStep, PageStep, ShownStep, PollStep, TaskStep
<1>2. (\A u \in Tasks : Carries(task'[u]))
      /\ (timer' # None => timer' % PageSize = 0 /\ attempts' < MaxAttempts)
  BY PollStep, TaskStep, Zenon
<1>3. CarryInv'
  BY <1>2, Zenon DEF CarryInv, Carries
<1> QED BY <1>1, <1>3, TypesAre

-----------------------------------------------------------------------------
(* A load that starts while another is under way is recorded, and so is a  *)
(* second delete.                                                          *)

LEMMA OpensAlone ==
    ASSUME TaskTypes, HistoryTypes, NEW t \in Tasks, NEW l, Opens(t, l)
    PROVE  /\ Loads' = Loads \cup {t} /\ Deletes' = Deletes
           /\ raced' = (Loads # {}) /\ (raced' => slipped') /\ (slipped => slipped')
<1>1. raced' = (Loads # {}) /\ (raced' => slipped') /\ (slipped => slipped')
  BY DEF Opens, StartLoad, HistoryTypes
<1> QED BY <1>1, OpensIs

(* What a step without a load leaves of the rows: they are the same, or the  *)
(* answer of an action is here.                                              *)
Follows ==
    \/ Answering'
    \/ /\ Answering' <=> Answering
       /\ status' = status \/ \E d \in Docs : EndJob(d)
       /\ \A u \in Served' :
            \/ u \in Served /\ task'[u].rows = task[u].rows
            \/ status' = status /\ task[u].skip \in Nat /\ task'[u].rows = Rows(task[u].skip)

Stays == Loads' = Loads /\ raced' = raced /\ failed' = failed /\ UNCHANGED <<page, polling>> /\ Follows

Starts ==
    /\ \E t \in Tasks : Loads' = Loads \cup {t} /\ Served' = Served
    /\ raced' = (Loads # {}) /\ (raced' => slipped') /\ failed' = failed

Ends == \E t \in Tasks : Arrive(t) \/ LoadFails(t)

DeletesAlone ==
    \/ Deletes' \subseteq Deletes
    \/ /\ \E t \in Tasks : Deletes' = Deletes \cup {t}
       /\ Deletes # {} => slipped'

Kinds == (Stays \/ Starts \/ Ends) /\ DeletesAlone /\ (slipped => slipped')

LEMMA StepKinds ==
    ASSUME TypeOK, CarryInv, [Next]_vars
    PROVE  Kinds
<1>1. TaskTypes /\ HistoryTypes
  BY TypesAre
<1>2. ASSUME Stays, Deletes' \subseteq Deletes, slipped => slipped'
      PROVE  Kinds
  BY <1>2, Zenon DEF Kinds, DeletesAlone
<1>3. ASSUME NEW t \in Tasks, NEW l, Opens(t, l)
      PROVE  Kinds
  <2>1. /\ Loads' = Loads \cup {t} /\ Deletes' = Deletes /\ Served' = Served
        /\ raced' = (Loads # {}) /\ (raced' => slipped') /\ (slipped => slipped')
    BY <1>1, <1>3, OpensAlone, OpensIs
  <2>2. Deletes' \subseteq Deletes /\ failed' = failed
    BY <1>3, <2>1 DEF Opens, StartLoad
  <2>3. Starts
    BY <2>1, <2>2, Zenon DEF Starts
  <2> QED BY <2>1, <2>2, <2>3, Zenon DEF Kinds, DeletesAlone
<1>4. ASSUME NEW t \in Tasks, ServeCall(t)
      PROVE  Kinds
  <2>1. Loads' = Loads /\ Deletes' = Deletes /\ Answering'
    BY <1>1, <1>4, ServeCallIs
  <2>2. Stays /\ (slipped => slipped')
    BY <1>1, <1>4, <2>1 DEF ServeCall, HistoryTypes, Stays, Follows
  <2> QED BY <1>2, <2>1, <2>2
<1>5. ASSUME NEW t \in Tasks, ServeLoad(t)
      PROVE  Kinds
  <2>1. /\ Loads' = Loads /\ Deletes' = Deletes /\ Served' = Served \cup {t} /\ Others(t)
        /\ task'[t].rows = Rows(task[t].skip) /\ (Answering' <=> Answering)
    BY <1>5, ServeLoadIs
  <2>2. task[t].skip \in Nat
    BY <1>1, TaskFields DEF TaskTypes
  <2>3. raced' = raced /\ slipped' = slipped /\ failed' = failed /\ status' = status /\ UNCHANGED <<page, polling>>
    BY <1>5 DEF ServeLoad, history, server
  <2>4. Served \subseteq Tasks
    BY DEF Served
  <2>5. ASSUME NEW u \in Served'
        PROVE  \/ u \in Served /\ task'[u].rows = task[u].rows
               \/ status' = status /\ task[u].skip \in Nat /\ task'[u].rows = Rows(task[u].skip)
    BY <2>1, <2>2, <2>3, <2>4, Zenon DEF Others
  <2>6. Stays
    BY <2>1, <2>3, <2>5, Zenon DEF Stays, Follows
  <2> QED BY <1>2, <2>1, <2>3, <2>6
<1>6. ASSUME NEW t \in Tasks, Arrive(t) \/ LoadFails(t)
      PROVE  Kinds
  <2>1. Deletes' = Deletes \ {t}
    BY <1>1, <1>6, EndLoadIs DEF Arrive, LoadFails
  <2>2. slipped => slipped'
    BY <1>1, <1>6 DEF Arrive, LoadFails, HistoryTypes
  <2>3. Ends /\ Deletes' \subseteq Deletes
    BY <1>6, <2>1 DEF Ends
  <2> QED BY <2>2, <2>3, Zenon DEF Kinds, DeletesAlone
<1>7. ASSUME NEW t \in Tasks, Poll(t)
      PROVE  Kinds
  BY <1>3, <1>7, PollOpens
<1>8. ASSUME NEW t \in Tasks, TurnPage(t)
      PROVE  Kinds
  BY <1>3, <1>8, TurnPageOpens
<1>9. ASSUME Loads' = Loads, Served' = Served, raced' = raced, failed' = failed, Answering' <=> Answering,
             UNCHANGED <<page, polling>>, status' = status \/ \E d \in Docs : EndJob(d),
             \A u \in Served : task'[u].rows = task[u].rows
      PROVE  Stays
  BY <1>9, Zenon DEF Stays, Follows
<1>10. ASSUME NEW t \in Tasks, NEW d \in Docs, Upload(t, d)
       PROVE  Kinds
  <2>1. CASE StartLoad(t, Idle)
    <3>1. Opens(t, Idle)
      BY <1>10, <2>1, UploadOpens DEF Upload, Click
    <3> QED BY <1>3, <3>1
  <2>2. CASE slipped' = TRUE /\ UNCHANGED <<task, isLoading, error, failed, raced>>
    <3>1. /\ Loads' = Loads /\ Deletes' = Deletes /\ Served' = Served /\ (Answering' <=> Answering)
          /\ raced' = raced /\ failed' = failed /\ slipped' /\ task' = task
      BY <2>2 DEF Loads, Deletes, Served, Answering
    <3>2. UNCHANGED <<page, polling>> /\ status' = status
      BY <1>10 DEF Upload
    <3>3. Stays
      BY <1>9, <3>1, <3>2, Zenon
    <3> QED BY <1>2, <3>1, <3>3
  <2> QED BY <1>10, <2>1, <2>2 DEF Upload
<1>11. ASSUME NEW t \in Tasks, Return(t)
       PROVE  Kinds
  <2>1. /\ Loads' = Loads \cup {t} /\ Deletes' = Deletes /\ Served' = Served
        /\ raced' = (Loads # {}) /\ (raced' => slipped')
    BY <1>11, ReturnIs
  <2>2. (slipped => slipped') /\ failed' = failed
    BY <1>1, <1>11 DEF Return, StartLoad, HistoryTypes
  <2>3. Starts
    BY <2>1, <2>2, Zenon DEF Starts
  <2>4. Deletes' \subseteq Deletes
    BY <2>1
  <2> QED BY <2>2, <2>3, <2>4, Zenon DEF Kinds, DeletesAlone
<1>12. ASSUME NEW t \in Tasks, NEW kind \in {"process", "index"}, Mutate(t, kind)
       PROVE  Kinds
  <2>1. Loads' = Loads /\ Deletes' = Deletes /\ Served' = Served /\ (Answering' <=> Answering) /\ Others(t)
    BY <1>12, MutateIs
  <2>2. /\ raced' = raced /\ slipped' = slipped /\ failed' = failed
        /\ UNCHANGED <<page, polling>> /\ status' = status /\ task[t].phase = "idle"
    BY <1>12 DEF Mutate, Click, server
  <2>3. \A u \in Served : task'[u].rows = task[u].rows
    BY <2>1, <2>2 DEF Served, Others
  <2>4. Stays
    BY <1>9, <2>1, <2>2, <2>3, Zenon
  <2> QED BY <1>2, <2>1, <2>2, <2>4
<1>13. ASSUME NEW t \in Tasks, ConfirmDelete(t)
       PROVE  Kinds
  <2>1. /\ Loads' = Loads /\ Deletes' = Deletes \cup {t} /\ Served' = Served
        /\ (Answering' <=> Answering) /\ Others(t) /\ (Deletes # {} => slipped')
    BY <1>13, ConfirmDeleteIs
  <2>2. /\ raced' = raced /\ (slipped => slipped') /\ failed' = failed
        /\ UNCHANGED <<page, polling>> /\ status' = status /\ task[t].phase = "idle"
    BY <1>1, <1>13 DEF ConfirmDelete, Click, server, HistoryTypes
  <2>3. \A u \in Served : task'[u].rows = task[u].rows
    BY <2>1, <2>2 DEF Served, Others
  <2>4. Stays
    BY <1>9, <2>1, <2>2, <2>3, Zenon
  <2> QED BY <2>1, <2>2, <2>4, Zenon DEF Kinds, DeletesAlone
<1>14. ASSUME NEW t \in Tasks, BreakLoad(t)
       PROVE  Kinds
  <2>1. Loads' = Loads /\ Deletes' = Deletes /\ Served' = Served /\ (Answering' <=> Answering) /\ Others(t)
        /\ task'[t].rows = task[t].rows
    BY <1>1, <1>14, BreakLoadIs
  <2>2. /\ raced' = raced /\ slipped' = slipped /\ failed' = failed
        /\ UNCHANGED <<page, polling>> /\ status' = status
    BY <1>14 DEF BreakLoad, history, server
  <2>3. \A u \in Served : task'[u].rows = task[u].rows
    BY <2>1 DEF Served, Others
  <2>4. Stays
    BY <1>9, <2>1, <2>2, <2>3, Zenon
  <2> QED BY <1>2, <2>1, <2>2, <2>4
<1>15. ASSUME \/ \E d \in Docs : EndJob(d)
              \/ OpenDelete \/ CancelDelete \/ UNCHANGED vars
       PROVE  Kinds
  <2>1. /\ raced' = raced /\ slipped' = slipped /\ failed' = failed /\ task' = task
        /\ UNCHANGED <<page, polling>>
    BY <1>15 DEF EndJob, OpenDelete, CancelDelete, vars, history
  <2>2. Loads' = Loads /\ Deletes' = Deletes /\ Served' = Served /\ (Answering' <=> Answering)
    BY <2>1 DEF Loads, Deletes, Served, Answering
  <2>3. status' = status \/ \E d \in Docs : EndJob(d)
    BY <1>15 DEF OpenDelete, CancelDelete, vars, server
  <2>4. Stays
    BY <1>9, <2>1, <2>2, <2>3, Zenon
  <2> QED BY <1>2, <2>1, <2>2, <2>4
<1> QED BY <1>4, <1>5, <1>6, <1>7, <1>8, <1>10, <1>11, <1>12, <1>13, <1>14, <1>15 DEF Next

LEMMA AloneStep ==
    ASSUME TypeOK, CarryInv, AloneInv, [Next]_vars
    PROVE  AloneInv'
<1>1. /\ raced => slipped
      /\ ~raced => \A t, u \in Loads : t = u
      /\ ~slipped => \A t, u \in Deletes : t = u
  BY DEF AloneInv
<1>2. Kinds /\ TaskTypes
  BY StepKinds, TypesAre
<1>3. ASSUME Ends
      PROVE  Loads' \subseteq Loads /\ raced' = raced
  <2>1. PICK t \in Tasks : Arrive(t) \/ LoadFails(t)
    BY <1>3 DEF Ends
  <2>2. Loads' = Loads \ {t} /\ raced' = raced
    BY <1>2, <2>1, EndLoadIs DEF Arrive, LoadFails, EndLoad
  <2> QED BY <2>2
<1>4. \/ Loads' \subseteq Loads /\ raced' = raced
      \/ Starts
  BY <1>2, <1>3 DEF Kinds, Stays
<1>5. raced' => slipped'
  BY <1>1, <1>2, <1>4 DEF Kinds, Starts
<1>6. ASSUME ~raced'
      PROVE  \A t, u \in Loads' : t = u
  <2>1. CASE Loads' \subseteq Loads /\ raced' = raced
    BY <1>1, <1>6, <2>1, Zenon
  <2>2. ASSUME NEW t \in Tasks, Loads' = Loads \cup {t}, raced' = (Loads # {})
        PROVE  \A u, v \in Loads' : u = v
    <3>1. Loads' = {t}
      BY <1>6, <2>2
    <3> QED BY <3>1
  <2> QED BY <1>4, <2>1, <2>2, Zenon DEF Starts
<1>7. ~slipped' => \A t, u \in Deletes' : t = u
  BY <1>1, <1>2 DEF Kinds, DeletesAlone
<1> QED BY <1>5, <1>6, <1>7 DEF AloneInv

-----------------------------------------------------------------------------
(* What is out of date gets polled.                                        *)

\* A worker's end leaves the rows it makes stale active.
LEMMA EndJobIsSeen ==
    ASSUME LibraryTypes, NEW d \in Docs, EndJob(d), NEW rows \in Seq(Row), UpToDate(rows, status)
    PROVE  UpToDate(rows, status')
<1>1. PICK s \in Statuses :
        status[d] \in {"processing", "indexing"} /\ status' = [status EXCEPT ![d] = s]
  BY DEF EndJob
<1>2. ASSUME NEW i \in DOMAIN rows, rows[i].status # status'[rows[i].doc]
      PROVE  Active(rows[i])
  <2>1. rows[i] \in Row
    OBVIOUS
  <2>2. rows[i].doc \in Docs
    BY <2>1 DEF Row
  <2>3. CASE rows[i].status = status[rows[i].doc]
    <3>1. rows[i].doc = d
      BY <1>1, <1>2, <2>2, <2>3 DEF LibraryTypes
    <3> QED BY <1>1, <2>3, <3>1 DEF Active
  <2>4. CASE rows[i].status # status[rows[i].doc]
    BY <2>4 DEF UpToDate
  <2> QED BY <2>3, <2>4
<1> QED BY <1>2 DEF UpToDate

LEMMA ArmedStep ==
    ASSUME TypeOK, CarryInv, ArmedInv, [Next]_vars
    PROVE  ArmedInv'
<1>1. TaskTypes /\ PollTypes
  BY TypesAre
<1>2. Stays \/ Starts \/ Ends
  BY StepKinds DEF Kinds
<1>3. CASE Stays
  BY <1>3 DEF ArmedInv, Stays, page, polling, SomeActive
<1>4. CASE Starts
  <2>1. Loads' # {}
    BY <1>4 DEF Starts
  <2> QED BY <2>1 DEF ArmedInv
<1>5. ASSUME NEW t \in Tasks, Arrive(t)
      PROVE  ArmedInv'
  <2>1. documents' = task[t].rows /\ Rearm(task[t].rows, task[t].skip)
    BY <1>5 DEF Arrive
  <2>2. task[t].skip \in Nat
    BY <1>1, TaskFields DEF TaskTypes
  <2>3. SomeActive(task[t].rows) => timer' # None \/ attempts' = MaxAttempts
    BY <1>1, <2>1, <2>2, RearmIs
  <2> QED BY <2>1, <2>3 DEF ArmedInv, SomeActive
<1>6. ASSUME NEW t \in Tasks, LoadFails(t)
      PROVE  ArmedInv'
  <2>1. failed'
    BY <1>6 DEF LoadFails
  <2> QED BY <2>1 DEF ArmedInv
<1> QED BY <1>2, <1>3, <1>4, <1>5, <1>6 DEF Ends

LEMMA ServedStep ==
    ASSUME TypeOK, CarryInv, ServedInv, [Next]_vars
    PROVE  ServedInv'
<1>1. TaskTypes /\ LibraryTypes /\ Served \subseteq Tasks
  BY TypesAre DEF Served
<1>2. Stays \/ Starts \/ Ends
  BY StepKinds DEF Kinds
<1>3. SUFFICES ASSUME ~raced', ~Answering', NEW u \in Served'
               PROVE  UpToDate(task'[u].rows, status')
  BY DEF ServedInv
<1>4. CASE Stays
  <2>1. /\ ~Answering /\ ~raced
        /\ status' = status \/ \E d \in Docs : EndJob(d)
        /\ \/ u \in Served /\ task'[u].rows = task[u].rows
           \/ status' = status /\ task[u].skip \in Nat /\ task'[u].rows = Rows(task[u].skip)
    BY <1>3, <1>4, Zenon DEF Stays, Follows
  <2>2. CASE u \in Served /\ task'[u].rows = task[u].rows
    <3>1. UpToDate(task[u].rows, status)
      BY <2>1, <2>2 DEF ServedInv
    <3>2. task[u].rows \in Seq(Row)
      BY <1>1, <2>2, TaskFields DEF TaskTypes
    <3>3. UpToDate(task[u].rows, status')
      BY <1>1, <2>1, <3>1, <3>2, EndJobIsSeen
    <3> QED BY <2>2, <3>3
  <2>3. CASE status' = status /\ task[u].skip \in Nat /\ task'[u].rows = Rows(task[u].skip)
    <3>1. UpToDate(Rows(task[u].skip), status)
      BY <1>1, <2>3, RowsAre
    <3> QED BY <2>3, <3>1
  <2> QED BY <2>1, <2>2, <2>3
<1>5. CASE Starts
  <2>1. Loads = {} /\ Served' = Served
    BY <1>3, <1>5 DEF Starts
  <2>2. u \in Loads
    BY <1>3, <2>1 DEF Served, Loads
  <2> QED BY <2>1, <2>2
<1>6. CASE Ends
  <2>1. PICK t \in Tasks : Arrive(t) \/ LoadFails(t)
    BY <1>6 DEF Ends
  <2>2. Served' = Served \ {t} /\ Others(t) /\ (Answering' <=> Answering) /\ raced' = raced /\ status' = status
    BY <1>1, <2>1, EndLoadIs DEF Arrive, LoadFails, EndLoad, server
  <2>3. u \in Served /\ task'[u] = task[u]
    BY <1>1, <1>3, <2>2 DEF Others
  <2>4. UpToDate(task[u].rows, status)
    BY <1>3, <2>2, <2>3 DEF ServedInv
  <2> QED BY <2>2, <2>3, <2>4
<1> QED BY <1>2, <1>4, <1>5, <1>6

LEMMA ShownRowsStep ==
    ASSUME TypeOK, CarryInv, ServedInv, ShownInv, [Next]_vars
    PROVE  ShownInv'
<1>1. TaskTypes /\ LibraryTypes /\ documents \in Seq(Row)
  BY TypesAre DEF PageTypes
<1>2. Stays \/ Starts \/ Ends
  BY StepKinds DEF Kinds
<1>3. SUFFICES ASSUME ~raced', ~failed', Loads' = {}, ~Answering'
               PROVE  UpToDate(documents', status')
  BY DEF ShownInv
<1>4. CASE Stays
  <2>1. /\ ~Answering /\ ~raced /\ ~failed /\ Loads = {} /\ documents' = documents
        /\ status' = status \/ \E d \in Docs : EndJob(d)
    BY <1>3, <1>4 DEF Stays, Follows, page
  <2>2. UpToDate(documents, status)
    BY <2>1 DEF ShownInv
  <2>3. UpToDate(documents, status')
    BY <1>1, <2>1, <2>2, EndJobIsSeen
  <2> QED BY <2>1, <2>3
<1>5. CASE Starts
  BY <1>3, <1>5 DEF Starts
<1>6. ASSUME NEW t \in Tasks, Arrive(t)
      PROVE  UpToDate(documents', status')
  <2>1. /\ (Answering' <=> Answering) /\ raced' = raced /\ status' = status
        /\ documents' = task[t].rows /\ t \in Served
    BY <1>1, <1>6, EndLoadIs DEF Arrive, EndLoad, server, Served
  <2>2. UpToDate(task[t].rows, status)
    BY <1>3, <2>1 DEF ServedInv
  <2> QED BY <2>1, <2>2
<1>7. ASSUME NEW t \in Tasks, LoadFails(t)
      PROVE  FALSE
  BY <1>3, <1>7 DEF LoadFails
<1> QED BY <1>2, <1>4, <1>5, <1>6, <1>7 DEF Ends

-----------------------------------------------------------------------------
(* The page shows a page that is there.                                    *)

\* A library that has not shrunk still has the pages it had.
LEMMA PagesStay ==
    ASSUME NEW n \in Nat, NEW m \in Nat, n <= m, NEW at \in Nat
    PROVE  /\ Safe(at, n) => Safe(at, m)
           /\ \A rows \in Seq(Row) : Within(at, rows, n) => Within(at, rows, m)
<1>1. Safe(at, n) => Safe(at, m)
  BY DEF Safe
<1>2. ASSUME NEW rows \in Seq(Row), Within(at, rows, n)
      PROVE  Within(at, rows, m)
  <2>1. Len(rows) \in Nat
    OBVIOUS
  <2> QED BY <1>2, <2>1 DEF Within
<1> QED BY <1>1, <1>2

LEMMA PageFacts ==
    ASSUME TypeOK, CarryInv, AloneInv, PageInv, [Next]_vars, ~slipped'
    PROVE  /\ ~slipped /\ ~raced /\ HereInv /\ ThereInv /\ BackInv /\ EmptyInv
           /\ \A t, u \in Loads : t = u
           /\ \A t, u \in Deletes : t = u
           /\ TaskTypes /\ PageTypes /\ LibraryTypes /\ PollTypes
           /\ Len(library) \in Nat /\ Len(library') \in Nat
           /\ Loads \subseteq Tasks /\ Deletes \subseteq Tasks
<1>1. ~slipped
  BY StepKinds DEF Kinds
<1>2. ~raced /\ (\A t, u \in Loads : t = u) /\ (\A t, u \in Deletes : t = u)
  BY <1>1 DEF AloneInv
<1>3. HereInv /\ ThereInv /\ BackInv /\ EmptyInv
  BY <1>1 DEF PageInv
<1>4. TaskTypes /\ PageTypes /\ LibraryTypes /\ PollTypes /\ LibraryTypes'
  BY TypesAre, TypesStep
<1>5. Len(library) \in Nat /\ Len(library') \in Nat
  BY <1>4 DEF LibraryTypes
<1> QED BY <1>1, <1>2, <1>3, <1>4, <1>5 DEF Loads, Deletes

\* A task that deletes nothing disturbs no page.
LEMMA BystandersKeep ==
    ASSUME NEW t \in Tasks, Others(t), t \notin Deletes, Deletes' = Deletes
    PROVE  (Undisturbed' <=> Undisturbed) /\ \A u \in Deletes : task'[u] = task[u]
<1>1. \A u \in Deletes : u \in Tasks \ {t}
  BY DEF Deletes
<1>2. \A u \in Deletes : task'[u] = task[u]
  BY <1>1, Zenon DEF Others
<1>3. Undisturbed' <=> Undisturbed
  BY <1>2, Zenon DEF Undisturbed
<1> QED BY <1>2, <1>3

LEMMA OpensPage ==
    ASSUME TypeOK, CarryInv, AloneInv, PageInv, [Next]_vars, NEW t \in Tasks, NEW l, Opens(t, l),
           Len(library') >= Len(library), UNCHANGED page, timer' \in {timer, None},
           Undisturbed => Safe(l.skip, Len(library'))
    PROVE  PageInv'
<1>1. SUFFICES ASSUME ~slipped'
               PROVE  HereInv' /\ ThereInv' /\ BackInv' /\ EmptyInv'
  BY DEF PageInv
<1>2. /\ ~slipped /\ ~raced /\ HereInv /\ ThereInv /\ BackInv /\ EmptyInv
      /\ TaskTypes /\ PageTypes /\ LibraryTypes /\ PollTypes
      /\ Len(library) \in Nat /\ Len(library') \in Nat
  BY <1>1, PageFacts
<1>3. /\ TaskTypes' /\ Others(t) /\ task'[t].phase = "loading"
      /\ task'[t].kind = l.kind /\ task'[t].skip = l.skip
      /\ Loads' = Loads \cup {t} /\ Deletes' = Deletes
  BY <1>2, OpensIs
<1>4. Loads' = {t}
  <2>1. raced' = (Loads # {}) /\ (raced' => slipped')
    BY <1>2, OpensAlone, TypesAre
  <2>2. Loads = {}
    BY <1>1, <2>1
  <2> QED BY <1>3, <2>2
<1>5. t \notin Deletes /\ task'[t].kind # "delete"
  BY <1>3 DEF Opens, Deletes
<1>6. (Undisturbed' <=> Undisturbed) /\ \A u \in Deletes : task'[u] = task[u]
  BY <1>3, <1>5, BystandersKeep
<1>7. HereInv'
  <2>1. SUFFICES ASSUME Undisturbed
                 PROVE  /\ Safe(skip, Len(library')) /\ Within(skip, documents, Len(library'))
                        /\ total <= Len(library')
                        /\ timer' # None => Safe(timer', Len(library'))
    BY <1>6 DEF HereInv, page
  <2>2. /\ Safe(skip, Len(library)) /\ Within(skip, documents, Len(library)) /\ total <= Len(library)
        /\ timer # None => Safe(timer, Len(library))
    BY <1>2, <2>1 DEF HereInv
  <2>3. /\ skip \in Nat /\ total \in Nat /\ documents \in Seq(Row)
        /\ timer # None => timer \in Nat
    BY <1>2 DEF PageTypes, PollTypes
  <2>4. Safe(skip, Len(library')) /\ Within(skip, documents, Len(library')) /\ total <= Len(library')
    BY <1>2, <2>2, <2>3, PagesStay
  <2>5. timer' # None => Safe(timer', Len(library'))
    BY <1>2, <2>2, <2>3, PagesStay
  <2> QED BY <2>4, <2>5
<1>8. ThereInv'
  <2>1. Undisturbed => LoadsThere(task'[t], Len(library'))
    BY <1>3 DEF LoadsThere
  <2> QED BY <1>4, <1>5, <1>6, <2>1 DEF ThereInv
<1>9. BackInv'
  <2>1. ASSUME NEW u \in Deletes
        PROVE  /\ task[u].phase = "calling" => task[u].back = 0 \/ task[u].back + 1 < Len(library')
               /\ task[u].phase = "answered" /\ task[u].ok => Safe(task[u].back, Len(library'))
    <3>1. task[u].back \in Nat
      BY <1>2, <2>1, TaskFields DEF TaskTypes, Deletes
    <3>2. /\ task[u].phase = "calling" => task[u].back = 0 \/ task[u].back + 1 < Len(library)
          /\ task[u].phase = "answered" /\ task[u].ok => Safe(task[u].back, Len(library))
      BY <1>2, <2>1 DEF BackInv
    <3> QED BY <1>2, <3>1, <3>2 DEF Safe
  <2> QED BY <1>3, <1>6, <2>1 DEF BackInv
<1>10. EmptyInv'
  BY <1>4 DEF EmptyInv
<1> QED BY <1>7, <1>8, <1>9, <1>10

LEMMA OpenedPage ==
    ASSUME TypeOK, CarryInv, AloneInv, PageInv, [Next]_vars, NEW t \in Tasks,
           Poll(t) \/ TurnPage(t) \/ \E d \in Docs : Upload(t, d)
    PROVE  PageInv'
<1>1. SUFFICES ASSUME ~slipped'
               PROVE  PageInv'
  BY DEF PageInv
<1>2. /\ HereInv /\ PageTypes /\ LibraryTypes /\ PollTypes
      /\ Len(library) \in Nat /\ Len(library') \in Nat
  BY <1>1, PageFacts
<1>3. CASE Poll(t)
  <2> DEFINE l == [Idle EXCEPT !.kind = "poll", !.skip = timer]
  <2>1. Opens(t, l) /\ l.skip = timer /\ timer # None
    BY <1>3, PollOpens DEF Idle, Poll
  <2>2. library' = library /\ UNCHANGED page /\ timer' = None
    BY <1>3 DEF Poll, server
  <2> HIDE DEF l
  <2>3. Undisturbed => Safe(l.skip, Len(library'))
    BY <1>2, <2>1, <2>2 DEF HereInv
  <2> QED BY <1>2, <2>1, <2>2, <2>3, OpensPage
<1>4. CASE TurnPage(t)
  <2>1. PICK at \in Nat : /\ Opens(t, [Idle EXCEPT !.skip = at])
                          /\ at = 0 \/ at <= skip \/ at < total
    BY <1>4, TurnPageOpens
  <2> DEFINE l == [Idle EXCEPT !.skip = at]
  <2>2. Opens(t, l) /\ l.skip = at
    BY <2>1 DEF Idle
  <2>3. library' = library /\ UNCHANGED page /\ timer' = timer
    BY <1>4 DEF TurnPage, server, polling
  <2> HIDE DEF l
  <2>4. skip \in Nat /\ total \in Nat
    BY <1>2 DEF PageTypes
  <2>5. Undisturbed => Safe(at, Len(library))
    BY <1>2, <2>1, <2>4 DEF HereInv, Safe
  <2> QED BY <1>2, <2>2, <2>3, <2>5, OpensPage
<1>5. ASSUME NEW d \in Docs, Upload(t, d)
      PROVE  PageInv'
  <2>1. StartLoad(t, Idle)
    BY <1>1, <1>5 DEF Upload
  <2>2. Opens(t, Idle) /\ Idle.skip = 0
    BY <1>5, <2>1, UploadOpens, IdleIs DEF Upload, Click
  <2>3. Len(library') = Len(library) + 1
    BY <1>2, <1>5, UploadedIs DEF Upload
  <2>4. UNCHANGED page /\ timer' = timer
    BY <1>5 DEF Upload, polling
  <2>5. Safe(Idle.skip, Len(library'))
    BY <2>2 DEF Safe
  <2>6. Len(library') >= Len(library)
    BY <1>2, <2>3
  <2> QED BY <2>2, <2>4, <2>5, <2>6, OpensPage
<1> QED BY <1>3, <1>4, <1>5

\* Steps that leave pages, library and loads as they are.
LEMMA SamePage ==
    ASSUME TypeOK, PageInv, Loads' = Loads, \A u \in Loads : task'[u] = task[u],
           Deletes' = Deletes, \A u \in Deletes : task'[u] = task[u],
           library' = library, UNCHANGED <<page, polling>>, slipped' = slipped,
           error' = error \/ documents # <<>>
    PROVE  PageInv'
<1>1. SUFFICES ASSUME ~slipped'
               PROVE  HereInv' /\ ThereInv' /\ BackInv' /\ EmptyInv'
  BY DEF PageInv
<1>2. HereInv /\ ThereInv /\ BackInv /\ EmptyInv
  BY <1>1 DEF PageInv
<1>3. Undisturbed' <=> Undisturbed
  BY Zenon DEF Undisturbed
<1>4. HereInv'
  BY <1>2, <1>3 DEF HereInv, page, polling
<1>5. ThereInv'
  BY <1>2, <1>3 DEF ThereInv
<1>6. BackInv'
  BY <1>2 DEF BackInv
<1>7. EmptyInv'
  BY <1>2 DEF EmptyInv, page
<1> QED BY <1>4, <1>5, <1>6, <1>7

LEMMA QuietPage ==
    ASSUME TypeOK, PageInv,
           \/ \E d \in Docs : EndJob(d)
           \/ OpenDelete \/ CancelDelete \/ UNCHANGED vars
    PROVE  PageInv'
<1>1. /\ task' = task /\ library' = library /\ UNCHANGED <<page, polling>> /\ slipped' = slipped
      /\ error' = error \/ documents # <<>>
  BY DEF EndJob, OpenDelete, CancelDelete, TableShown, vars, history, shown, server
<1>2. Loads' = Loads /\ Deletes' = Deletes
  BY <1>1 DEF Loads, Deletes
<1> QED BY <1>1, <1>2, SamePage

LEMMA MutatePage ==
    ASSUME TypeOK, PageInv, NEW t \in Tasks, NEW kind \in {"process", "index"}, Mutate(t, kind)
    PROVE  PageInv'
<1>1. Loads' = Loads /\ Deletes' = Deletes /\ Others(t)
  BY MutateIs
<1>2. /\ task[t].phase = "idle" /\ library' = library /\ UNCHANGED <<page, polling>>
      /\ slipped' = slipped /\ documents # <<>>
  BY DEF Mutate, Click, TableShown, server
<1>3. (\A u \in Loads : task'[u] = task[u]) /\ (\A u \in Deletes : task'[u] = task[u])
  BY <1>1, <1>2 DEF Loads, Deletes, Others
<1> QED BY <1>1, <1>2, <1>3, SamePage

(* A call that takes the last row of the page away takes one that the page   *)
(* to go back to does not need.                                              *)
LEMMA ServeCallPage ==
    ASSUME TypeOK, CarryInv, AloneInv, PageInv, [Next]_vars, NEW t \in Tasks, ServeCall(t)
    PROVE  PageInv'
<1>1. SUFFICES ASSUME ~slipped'
               PROVE  HereInv' /\ ThereInv' /\ BackInv' /\ EmptyInv'
  BY DEF PageInv
<1>2. /\ ~slipped /\ HereInv /\ ThereInv /\ BackInv /\ EmptyInv
      /\ \A u, v \in Deletes : u = v
      /\ TaskTypes /\ Len(library) \in Nat /\ Len(library') \in Nat
      /\ Loads \subseteq Tasks /\ Deletes \subseteq Tasks
  BY <1>1, PageFacts
<1>3. /\ Others(t) /\ task'[t].phase = "answered" /\ task'[t].kind = task[t].kind
      /\ task'[t].back = task[t].back /\ Loads' = Loads /\ Deletes' = Deletes
  BY <1>2, ServeCallIs
<1>4. task[t].phase = "calling" /\ UNCHANGED <<page, polling>> /\ error' = error
  BY DEF ServeCall, shown
<1>5. t \notin Loads /\ (t \in Deletes <=> task[t].kind = "delete")
  BY <1>4 DEF Loads, Deletes
<1>6. \A u \in Loads : task'[u] = task[u]
  BY <1>2, <1>3, <1>5 DEF Others
<1>7. \/ library' = library /\ (task[t].kind = "delete" => ~task'[t].ok)
      \/ task[t].kind = "delete" /\ Len(library') = Len(library) - 1 /\ task'[t].ok
  BY <1>1, ServeCallServes
<1>8. CASE library' = library /\ (task[t].kind = "delete" => ~task'[t].ok)
  <2>1. \A u \in Deletes : /\ u # t => task'[u] = task[u]
                           /\ u = t => ~task'[u].ok
    BY <1>2, <1>3, <1>5, <1>8 DEF Others
  <2>2. Undisturbed' <=> Undisturbed
    BY <1>3, <1>4, <2>1 DEF Undisturbed
  <2>3. HereInv'
    BY <1>2, <1>4, <1>8, <2>2 DEF HereInv, page, polling
  <2>4. ThereInv'
    BY <1>2, <1>3, <1>6, <1>8, <2>2 DEF ThereInv
  <2>5. BackInv'
    BY <1>2, <1>3, <1>8, <2>1 DEF BackInv
  <2>6. EmptyInv'
    BY <1>2, <1>3, <1>4, <1>8 DEF EmptyInv, page
  <2> QED BY <2>3, <2>4, <2>5, <2>6
<1>9. CASE task[t].kind = "delete" /\ Len(library') = Len(library) - 1 /\ task'[t].ok
  <2>1. Deletes = {t} /\ Deletes' = {t}
    BY <1>2, <1>3, <1>5, <1>9
  <2>2. ~Undisturbed'
    BY <1>3, <1>9, <2>1 DEF Undisturbed
  <2>3. \A u \in Loads : task'[u].kind # "delete"
    BY <1>5, <1>6, <2>1 DEF Loads, Deletes
  <2>4. ThereInv'
    BY <1>3, <2>2, <2>3 DEF ThereInv
  <2>5. Safe(task'[t].back, Len(library'))
    <3>1. task[t].back = 0 \/ task[t].back + 1 < Len(library)
      BY <1>2, <1>4, <2>1 DEF BackInv
    <3>2. task[t].back \in Nat
      BY <1>2, TaskFields DEF TaskTypes
    <3> QED BY <1>2, <1>3, <1>9, <3>1, <3>2 DEF Safe
  <2>6. BackInv'
    BY <1>3, <2>1, <2>5 DEF BackInv
  <2>7. HereInv' /\ EmptyInv'
    BY <2>1, <2>2 DEF HereInv, EmptyInv
  <2> QED BY <2>4, <2>6, <2>7
<1> QED BY <1>7, <1>8, <1>9

LEMMA ServeLoadPage ==
    ASSUME TypeOK, CarryInv, AloneInv, PageInv, [Next]_vars, NEW t \in Tasks,
           ServeLoad(t) \/ BreakLoad(t)
    PROVE  PageInv'
<1>1. SUFFICES ASSUME ~slipped'
               PROVE  HereInv' /\ ThereInv' /\ BackInv' /\ EmptyInv'
  BY DEF PageInv
<1>2. /\ ~slipped /\ HereInv /\ ThereInv /\ BackInv /\ EmptyInv
      /\ \A u, v \in Loads : u = v
      /\ TaskTypes /\ LibraryTypes /\ Len(library) \in Nat
      /\ Loads \subseteq Tasks /\ Deletes \subseteq Tasks
  BY <1>1, PageFacts
<1>3. /\ Others(t) /\ task'[t].kind = task[t].kind /\ task'[t].skip = task[t].skip
      /\ task'[t].phase \in {"served", "broken"}
      /\ task'[t].phase = "served" =>
           task'[t].rows = Rows(task[t].skip) /\ task'[t].total = Len(library)
      /\ Loads' = Loads /\ Deletes' = Deletes
  BY <1>2, ServeLoadIs, BreakLoadIs
<1>4. /\ task[t].phase = "loading" /\ library' = library
      /\ UNCHANGED <<page, polling>> /\ error' = error
  BY DEF ServeLoad, BreakLoad, shown, server
<1>5. Loads = {t} /\ task[t].skip \in Nat
  <2>1. t \in Loads
    BY <1>4 DEF Loads
  <2> QED BY <1>2, <2>1, TaskFields DEF TaskTypes
<1>6. \A u \in Deletes : /\ u # t => task'[u] = task[u]
                         /\ task[u].phase \notin {"calling", "answered"} <=>
                              task'[u].phase \notin {"calling", "answered"}
  BY <1>2, <1>3, <1>4 DEF Others
<1>7. Undisturbed' <=> Undisturbed
  BY <1>3, <1>4, <1>6 DEF Undisturbed
<1>8. HereInv'
  BY <1>2, <1>4, <1>7 DEF HereInv, page, polling
<1>9. ThereInv'
  <2>1. SUFFICES ASSUME Undisturbed \/ task[t].kind = "delete"
                 PROVE  LoadsThere(task'[t], Len(library))
    BY <1>3, <1>4, <1>5, <1>7 DEF ThereInv
  <2>2. Safe(task[t].skip, Len(library))
    BY <1>2, <1>5, <2>1 DEF ThereInv, LoadsThere
  <2>3. /\ Within(task[t].skip, Rows(task[t].skip), Len(library))
        /\ Rows(task[t].skip) = <<>> => Len(library) = 0
    BY <1>2, <1>5, <2>2, RowsAre
  <2> QED BY <1>2, <1>3, <2>2, <2>3 DEF LoadsThere
<1>10. BackInv'
  BY <1>2, <1>3, <1>4, <1>6 DEF BackInv
<1>11. EmptyInv'
  BY <1>3, <1>5 DEF EmptyInv
<1> QED BY <1>8, <1>9, <1>10, <1>11

LEMMA ArrivePage ==
    ASSUME TypeOK, CarryInv, AloneInv, PageInv, [Next]_vars, NEW t \in Tasks, Arrive(t)
    PROVE  PageInv'
<1>1. SUFFICES ASSUME ~slipped'
               PROVE  HereInv' /\ ThereInv' /\ BackInv' /\ EmptyInv'
  BY DEF PageInv
<1>2. /\ HereInv /\ ThereInv /\ BackInv
      /\ (\A u, v \in Loads : u = v) /\ (\A u, v \in Deletes : u = v)
      /\ TaskTypes /\ PollTypes /\ Deletes \subseteq Tasks
  BY <1>1, PageFacts
<1>3. /\ Others(t) /\ t \in Loads /\ Loads' = Loads \ {t}
      /\ Deletes' = Deletes \ {t} /\ (t \in Deletes <=> task[t].kind = "delete")
  BY <1>2, EndLoadIs DEF Arrive
<1>4. /\ task[t].phase = "served" /\ library' = library
      /\ documents' = task[t].rows /\ total' = task[t].total /\ skip' = task[t].skip
  BY DEF Arrive, EndLoad, server
<1>5. Loads' = {}
  BY <1>2, <1>3
<1>6. timer' \in {None, task[t].skip}
  BY <1>2, TaskFields, RearmIs DEF Arrive, TaskTypes
<1>7. \A u \in Deletes' : u \in Deletes /\ task'[u] = task[u]
  BY <1>2, <1>3 DEF Others
<1>8. Undisturbed' => Undisturbed \/ task[t].kind = "delete"
  BY <1>3, <1>7 DEF Undisturbed
<1>9. Deletes' = {} => Undisturbed \/ task[t].kind = "delete"
  BY <1>3 DEF Undisturbed
<1>10. Undisturbed \/ task[t].kind = "delete" => LoadsThere(task[t], Len(library))
  BY <1>2, <1>3 DEF ThereInv
<1>11. HereInv'
  BY <1>4, <1>6, <1>8, <1>10 DEF HereInv, LoadsThere
<1>12. ThereInv'
  BY <1>5 DEF ThereInv
<1>13. BackInv'
  BY <1>2, <1>4, <1>7 DEF BackInv
<1>14. EmptyInv'
  BY <1>4, <1>9, <1>10 DEF EmptyInv, LoadsThere
<1> QED BY <1>11, <1>12, <1>13, <1>14

LEMMA LoadFailsPage ==
    ASSUME TypeOK, CarryInv, AloneInv, PageInv, [Next]_vars, NEW t \in Tasks, LoadFails(t)
    PROVE  PageInv'
<1>1. SUFFICES ASSUME ~slipped'
               PROVE  HereInv' /\ ThereInv' /\ BackInv' /\ EmptyInv'
  BY DEF PageInv
<1>2. /\ HereInv /\ ThereInv /\ BackInv
      /\ (\A u, v \in Loads : u = v)
      /\ TaskTypes /\ Deletes \subseteq Tasks
  BY <1>1, PageFacts
<1>3. /\ task[t].phase = "broken" /\ task[t].kind # "delete" /\ error' /\ library' = library
      /\ UNCHANGED <<page, polling>>
  BY <1>1 DEF LoadFails, EndLoad, server
<1>4. /\ Others(t) /\ t \in Loads /\ Loads' = Loads \ {t}
      /\ Deletes' = Deletes \ {t} /\ (t \in Deletes <=> task[t].kind = "delete")
  BY <1>2, <1>3, EndLoadIs DEF LoadFails
<1>5. Loads' = {} /\ Deletes' = Deletes /\ t \notin Deletes
  BY <1>2, <1>3, <1>4
<1>6. (Undisturbed' <=> Undisturbed) /\ \A u \in Deletes : task'[u] = task[u]
  BY <1>4, <1>5, BystandersKeep
<1>7. HereInv'
  BY <1>2, <1>3, <1>6 DEF HereInv, page, polling
<1>8. ThereInv'
  BY <1>5 DEF ThereInv
<1>9. BackInv'
  BY <1>2, <1>3, <1>5, <1>6 DEF BackInv
<1>10. EmptyInv'
  BY <1>3 DEF EmptyInv
<1> QED BY <1>7, <1>8, <1>9, <1>10

(* The page a delete goes back to is there also when the row is gone.        *)
LEMMA ConfirmDeletePage ==
    ASSUME TypeOK, CarryInv, AloneInv, PageInv, [Next]_vars, NEW t \in Tasks, ConfirmDelete(t)
    PROVE  PageInv'
<1>1. SUFFICES ASSUME ~slipped'
               PROVE  HereInv' /\ ThereInv' /\ BackInv' /\ EmptyInv'
  BY DEF PageInv
<1>2. /\ HereInv /\ ThereInv /\ TaskTypes /\ PageTypes /\ Loads \subseteq Tasks
      /\ Len(library) \in Nat
  BY <1>1, PageFacts
<1>3. /\ Others(t) /\ task'[t].phase = "calling" /\ task'[t].back = PageAfterDelete
      /\ Loads' = Loads /\ Deletes' = Deletes \cup {t} /\ Deletes = {}
  BY <1>1, ConfirmDeleteIs
<1>4. task[t].phase = "idle" /\ library' = library /\ UNCHANGED <<page, polling>>
  BY DEF ConfirmDelete, Click, server
<1>5. Deletes' = {t}
  BY <1>3
<1>6. Undisturbed /\ Undisturbed'
  BY <1>3, <1>5 DEF Undisturbed
<1>7. HereInv'
  BY <1>2, <1>4, <1>6 DEF HereInv, page, polling
<1>8. ThereInv'
  <2>1. \A u \in Loads : task'[u] = task[u]
    BY <1>2, <1>3, <1>4 DEF Loads, Others
  <2> QED BY <1>2, <1>3, <1>4, <1>6, <2>1 DEF ThereInv
<1>9. PageAfterDelete = 0 \/ PageAfterDelete + 1 < Len(library)
  <2>1. Safe(skip, Len(library)) /\ Within(skip, documents, Len(library))
    BY <1>2, <1>6 DEF HereInv
  <2>2. skip \in Nat /\ documents \in Seq(Row) /\ Len(documents) \in Nat /\ PageSize \in Nat \ {0}
    BY <1>2, ConstantsAssumption DEF PageTypes
  <2>3. CASE skip = 0
    BY <2>2, <2>3 DEF PageAfterDelete
  <2>4. CASE skip > 0 /\ Len(documents) = 1
    BY <1>2, <2>1, <2>2, <2>4 DEF PageAfterDelete, Safe
  <2>5. CASE skip > 0 /\ Len(documents) # 1
    <3>1. PageAfterDelete = skip
      BY <2>5 DEF PageAfterDelete
    <3>2. documents # <<>> /\ skip + Len(documents) <= Len(library)
      BY <2>1, <2>2, <2>5 DEF Within
    <3>3. Len(documents) # 0
      BY <2>2, <3>2
    <3>4. \A m, n, k \in Nat : m # 0 /\ m # 1 /\ k + m <= n => k + 1 < n
      OBVIOUS
    <3>5. skip + 1 < Len(library)
      BY <1>2, <2>2, <2>5, <3>2, <3>3, <3>4
    <3> QED BY <3>1, <3>5
  <2> QED BY <2>2, <2>3, <2>4, <2>5
<1>10. BackInv'
  BY <1>3, <1>4, <1>5, <1>9 DEF BackInv
<1>11. EmptyInv'
  BY <1>5 DEF EmptyInv
<1> QED BY <1>7, <1>8, <1>10, <1>11

LEMMA ReturnPage ==
    ASSUME TypeOK, CarryInv, AloneInv, PageInv, [Next]_vars, NEW t \in Tasks, Return(t)
    PROVE  PageInv'
<1>1. SUFFICES ASSUME ~slipped'
               PROVE  HereInv' /\ ThereInv' /\ BackInv' /\ EmptyInv'
  BY DEF PageInv
<1>2. /\ HereInv /\ ThereInv /\ BackInv
      /\ (\A u, v \in Deletes : u = v)
      /\ TaskTypes /\ Deletes \subseteq Tasks
  BY <1>1, PageFacts
<1>3. /\ Others(t) /\ task'[t].phase = "loading"
      /\ task'[t].kind = task[t].kind
      /\ task'[t].skip = IF task[t].ok THEN task[t].back ELSE task[t].skip
      /\ task[t].phase = "answered" /\ task[t].skip = skip
      /\ Loads' = Loads \cup {t} /\ Deletes' = Deletes /\ Loads = {}
  <2>1. /\ task[t].skip # skip => slipped'
        /\ raced' = (Loads # {}) /\ (raced' => slipped')
    BY ReturnIs
  <2>2. task[t].skip = skip /\ Loads = {}
    BY <1>1, <2>1
  <2> QED BY <2>2, ReturnIs
<1>4. library' = library /\ UNCHANGED <<page, polling>>
  BY DEF Return, server
<1>5. Loads' = {t} /\ (t \in Deletes <=> task[t].kind = "delete")
  BY <1>3 DEF Deletes
<1>6. CASE task[t].kind = "delete"
  <2>1. Deletes = {t}
    BY <1>2, <1>5, <1>6
  <2>2. ~Undisturbed'
    BY <1>3, <2>1 DEF Undisturbed
  <2>3. Safe(task'[t].skip, Len(library))
    <3>1. task[t].ok => Safe(task[t].back, Len(library))
      BY <1>2, <1>3, <2>1 DEF BackInv
    <3>2. ~task[t].ok => Safe(skip, Len(library))
      BY <1>2, <1>3, <2>1 DEF Undisturbed, HereInv
    <3> QED BY <1>3, <3>1, <3>2
  <2>4. ThereInv'
    BY <1>3, <1>4, <1>5, <2>3 DEF ThereInv, LoadsThere
  <2>5. BackInv'
    BY <1>3, <2>1 DEF BackInv
  <2>6. HereInv' /\ EmptyInv'
    BY <1>5, <2>2 DEF HereInv, EmptyInv
  <2> QED BY <2>4, <2>5, <2>6
<1>7. CASE task[t].kind # "delete"
  <2>1. (Undisturbed' <=> Undisturbed) /\ \A u \in Deletes : task'[u] = task[u]
    BY <1>3, <1>5, <1>7, BystandersKeep
  <2>2. task'[t].skip = skip
    BY <1>3, <1>7, Zenon DEF CarryInv, Carries
  <2>3. HereInv'
    BY <1>2, <1>4, <2>1 DEF HereInv, page, polling
  <2>4. ThereInv'
    <3>1. Undisturbed => Safe(task'[t].skip, Len(library))
      BY <1>2, <2>2 DEF HereInv
    <3> QED BY <1>3, <1>4, <1>5, <1>7, <2>1, <3>1 DEF ThereInv, LoadsThere
  <2>5. BackInv'
    BY <1>2, <1>3, <1>4, <2>1 DEF BackInv
  <2>6. EmptyInv'
    BY <1>5 DEF EmptyInv
  <2> QED BY <2>3, <2>4, <2>5, <2>6
<1> QED BY <1>6, <1>7

LEMMA PagesStep ==
    ASSUME TypeOK, CarryInv, AloneInv, PageInv, [Next]_vars
    PROVE  PageInv'
  BY QuietPage, MutatePage, ServeCallPage, ServeLoadPage, ArrivePage, LoadFailsPage,
     ConfirmDeletePage, ReturnPage, OpenedPage DEF Next

-----------------------------------------------------------------------------
(* The theorems.                                                           *)

LEMMA InitIsProofInv == Init => PageProofInv
<1> SUFFICES ASSUME Init
             PROVE  PageProofInv
  OBVIOUS
<1>1. PICK t \in Tasks :
        task = [u \in Tasks |-> IF u = t THEN [Idle EXCEPT !.phase = "loading"] ELSE Idle]
  BY DEF Init
<1> DEFINE first == [Idle EXCEPT !.phase = "loading"]
<1>2. /\ first \in Task /\ first.phase = "loading" /\ first.kind = "page" /\ first.skip = 0
      /\ first.back = 0 /\ first.rows = <<>>
  BY IdleIs DEF Task
<1>3. task[t] = first /\ \A u \in Tasks \ {t} : task[u] = Idle
  BY <1>1
<1>4. TaskTypes
  BY <1>1, <1>2, IdleIs DEF TaskTypes
<1> HIDE DEF first
<1>5. Loads = {t} /\ Served = {} /\ Deletes = {} /\ ~Answering
  BY <1>2, <1>3, IdleIs DEF Loads, Served, Deletes, Answering
<1>6. TypeOK
  <2>1. LibraryTypes
    BY ConstantsAssumption DEF Init, LibraryTypes, Statuses
  <2>2. PageTypes
    BY FirstPageIsAligned, ConstantsAssumption DEF Init, PageTypes
  <2>3. ShownTypes
    BY DEF Init, ShownTypes
  <2>4. MaxAttempts \in Nat /\ MaxClicks \in Nat
    BY ConstantsAssumption
  <2>5. PollTypes
    BY <2>4 DEF Init, PollTypes
  <2>6. HistoryTypes
    <3>1. clicks \in 0 .. MaxClicks
      BY <2>4 DEF Init
    <3>2. failed = FALSE /\ raced = FALSE /\ slipped = FALSE
      BY DEF Init
    <3> QED BY <3>1, <3>2, Zenon DEF HistoryTypes
  <2> QED BY <1>4, <2>1, <2>2, <2>3, <2>5, <2>6, TypesAre
<1>7. AloneInv
  BY <1>5 DEF Init, AloneInv
<1>8. CarryInv
  <2>1. Carries(first) /\ Carries(Idle)
    BY <1>2, IdleIs, FirstPageIsAligned, ConstantsAssumption DEF Carries
  <2>2. \A u \in Tasks : Carries(task[u])
    BY <1>3, <2>1, Zenon
  <2> QED BY <2>2, Zenon DEF Init, CarryInv
<1>9. PollInv
  BY <1>5 DEF Init, PollInv, ArmedInv, ServedInv, ShownInv, SomeActive
<1>10. PageInv
  <2>1. HereInv
    BY ConstantsAssumption DEF Init, HereInv, Safe, Within
  <2>2. ThereInv
    BY <1>2, <1>3, <1>5 DEF ThereInv, LoadsThere, Safe
  <2>3. BackInv /\ EmptyInv
    BY <1>5 DEF BackInv, EmptyInv
  <2> QED BY <2>1, <2>2, <2>3 DEF PageInv
<1> QED BY <1>6, <1>7, <1>8, <1>9, <1>10 DEF PageProofInv

(* The strengthening of the properties below that every step preserves.      *)
THEOREM PageInvariant == Spec => []PageProofInv
<1>1. Init => PageProofInv
  BY InitIsProofInv
<1>2. PageProofInv /\ [Next]_vars => PageProofInv'
  <2> SUFFICES ASSUME PageProofInv, [Next]_vars
               PROVE  PageProofInv'
    OBVIOUS
  <2>1. TypeOK /\ AloneInv /\ CarryInv /\ ArmedInv /\ ServedInv /\ ShownInv /\ PageInv
    BY DEF PageProofInv, PollInv
  <2>2. TypeOK' /\ CarryInv' /\ AloneInv' /\ PageInv'
    BY <2>1, TypesStep, AloneStep, PagesStep
  <2>3. ArmedInv' /\ ServedInv' /\ ShownInv'
    BY <2>1, ArmedStep, ServedStep, ShownRowsStep
  <2> QED BY <2>2, <2>3, Zenon DEF PageProofInv, PollInv
<1> QED BY <1>1, <1>2, PTL DEF Spec

(* Every variable keeps its type; a page starts at a multiple of the page    *)
(* size and shows no more rows than that (documents-workspace.tsx, load and  *)
(* the page buttons), and polling never exceeds MAX_POLL_ATTEMPTS.           *)
THEOREM TypesHold == Spec => []TypeOK
<1>1. PageProofInv => TypeOK
  BY DEF PageProofInv
<1> QED BY <1>1, PageInvariant, PTL

(* Once everything is answered, a row the server has moved on from has a     *)
(* poll armed for it, unless loads raced, the last one failed or the         *)
(* attempts are used up (the polling effect, documents-workspace.tsx).       *)
THEOREM StaleRowsArePolled == Spec => []StaleIsCorrected
<1>1. PageProofInv => StaleIsCorrected
  <2> SUFFICES ASSUME PageProofInv, Settled, ~raced, ~failed, attempts < MaxAttempts,
                      NEW i \in DOMAIN documents, documents[i].status # status[documents[i].doc]
               PROVE  timer # None
    BY DEF StaleIsCorrected
  <2>1. ArmedInv /\ ShownInv /\ PollTypes
    BY TypesAre DEF PageProofInv, PollInv
  <2>2. Loads = {} /\ ~Answering
    BY DEF Settled, Loads, Answering
  <2>3. UpToDate(documents, status)
    BY <2>1, <2>2 DEF ShownInv
  <2>4. SomeActive(documents)
    BY <2>3 DEF UpToDate, SomeActive
  <2> QED BY <2>1, <2>2, <2>4, ConstantsAssumption DEF ArmedInv, PollTypes
<1> QED BY <1>1, PageInvariant, PTL

(* Whatever the size of a page, the page steps back far enough after a       *)
(* delete: the empty state is shown only to users who have no documents, if  *)
(* no answer was lost, no loads raced and no deletes overlapped              *)
(* (confirmDelete, documents-workspace.tsx).                                 *)
THEOREM EmptyPageMeansEmptyLibrary == Spec => []EmptyMeansNone
<1>1. PageProofInv => EmptyMeansNone
  <2> SUFFICES ASSUME PageProofInv, Settled, ~error, ~slipped, documents = <<>>
               PROVE  library = <<>>
    BY DEF EmptyMeansNone
  <2>1. EmptyInv /\ library \in Seq(Docs)
    BY TypesAre DEF PageProofInv, PageInv, LibraryTypes
  <2>2. Loads = {} /\ Deletes = {}
    BY DEF Settled, Loads, Deletes
  <2>3. Len(library) = 0
    BY <2>1, <2>2 DEF EmptyInv
  <2> QED BY <2>1, <2>3
<1> QED BY <1>1, PageInvariant, PTL
=============================================================================
