----------------------------- MODULE ProviderProofs -----------------------------
(***************************************************************************)
(* The two React providers that everything signed in is rendered under:    *)
(* AuthProvider (Session) and ConversationProvider (ConversationList).     *)
(*                                                                         *)
(* Of Session: its types, that a registration is answered truly, and that  *)
(* the profile on the page belongs to the token its requests carry.  The   *)
(* last one rests on how the page keeps its activities apart: until        *)
(* refreshCurrentUser has ended nothing else runs, and a login that does   *)
(* not overlap another runs only while nobody is shown.                    *)
(*                                                                         *)
(* Of ConversationList: its types, and that no late answer takes back what *)
(* the user was told.  That rests on listRevision: what is acknowledged    *)
(* moves it, so a list answer that is used knows of all of it; and on the  *)
(* dialog, which is the only one to delete and is modal.                   *)
(***************************************************************************)
EXTENDS Session, ConversationList, FiniteSetTheorems, TLAPS

-----------------------------------------------------------------------------
(* Session.                                                                  *)

LEMMA AddressTypes ==
    /\ \A r \in Registrations : EmailOf[r] \in Emails
    /\ \A l \in Logins : AccountOf[l] \in Emails
    /\ None \notin Logins /\ None \notin Emails /\ None \notin Registrations
  BY ConstantsAssumption

LEMMA VerdictIsAnswer == \A t : Verdict(t) \in {"ok", "401", "403"}
  BY DEF Verdict

PageTypes ==
    /\ token \in Tokens /\ user \in Emails \cup {None} /\ loading \in BOOLEAN
    /\ listing \in {"unasked", "asked", "failed"} /\ asking \in SUBSET Requests

LEMMA PageUpdates ==
    ASSUME TypeOK
    PROVE  /\ SignedOut => PageTypes'
           /\ \A e \in Emails : SignedIn(e) => PageTypes'
           /\ LoginFailed => PageTypes'
           /\ UNCHANGED page => PageTypes'
<1> USE DEF TypeOK, PageTypes, Tokens, Unmounted
<1>1. SignedOut => PageTypes'
  BY DEF SignedOut
<1>2. ASSUME NEW e \in Emails, SignedIn(e) PROVE PageTypes'
  BY <1>2 DEF SignedIn
<1>3. LoginFailed => PageTypes'
  BY DEF LoginFailed
<1>4. UNCHANGED page => PageTypes'
  BY DEF page
<1> QED
  BY <1>1, <1>2, <1>3, <1>4

-----------------------------------------------------------------------------
(* The inductive invariant of the page.                                    *)

(* Until refreshCurrentUser has ended the page shows nobody, no form and no  *)
(* workspace, so no login and no request is under way; what it sent is the   *)
(* token that is stored.                                                     *)
RestoringRunsAlone ==
    /\ restore.phase # "over" =>
         /\ loading /\ user = None
         /\ \A l \in Logins : ~InFlight(l)
         /\ \A q \in Requests : req[q] = Idle
    /\ restore.phase \in {"sent"} \cup Answers => restore.token = token /\ token # None

(* Logins that did not overlap: there is one at most, nobody is shown while  *)
(* it runs, and since its token is stored there is that token or none.       *)
LoginRunsAlone ==
    ~overlapped =>
        /\ \A k, l \in Logins : InFlight(k) /\ InFlight(l) => k = l
        /\ \A l \in Logins : InFlight(l) => user = None
        /\ \A l \in Logins : login[l] \in {"me"} \cup Answers => token \in {l, None}

SessionInv == TypeOK /\ RestoringRunsAlone /\ LoginRunsAlone /\ ShownUserOwnsToken

(* The steps that touch nothing of the page or of what it has under way.     *)
TableStep ==
    \/ \E r \in Registrations :
         CheckAddress(r) \/ Insert(r) \/ InsertConflicts(r) \/ InsertFails(r)
    \/ \E e \in Emails : Deactivate(e)
    \/ \E l \in Logins : Expire(l)

LEMMA SessionInit == Init => SessionInv
<1> SUFFICES ASSUME Init PROVE SessionInv
  OBVIOUS
<1>1. TypeOK
  <2>1. PageTypes
    BY DEF Init, PageTypes, Tokens
  <2>2. /\ accounts \in [Emails -> {"absent", "active", "inactive"}]
        /\ creator \in [Emails -> Registrations \cup {None}]
        /\ overlapped \in BOOLEAN
    BY ConstantsAssumption DEF Init
  <2>4. reloads \in 0 .. MaxReloads
    BY ConstantsAssumption DEF Init
  <2>3. /\ restore \in Exchange
        /\ login \in [Logins -> {"idle", "sent", "me", "over"} \cup Answers]
        /\ req \in [Requests -> Exchange]
    BY DEF Init, Tokens, Idle, Exchange
  <2> QED
    BY <2>1, <2>2, <2>3, <2>4 DEF Init, TypeOK, PageTypes
<1>2. RestoringRunsAlone /\ LoginRunsAlone /\ ShownUserOwnsToken
  BY DEF Init, RestoringRunsAlone, LoginRunsAlone, ShownUserOwnsToken, InFlight, Answers, Idle
<1> QED
  BY <1>1, <1>2 DEF SessionInv

LEMMA TableStepKeepsTypes ==
    ASSUME TypeOK, TableStep
    PROVE  TypeOK' /\ UNCHANGED <<page, exchanges, history>>
<1> USE AddressTypes DEF TypeOK, page, exchanges, history, Registers
<1>1. ASSUME NEW r \in Registrations, CheckAddress(r)
      PROVE  TypeOK' /\ UNCHANGED <<page, exchanges, history>>
  BY <1>1 DEF CheckAddress
<1>2. ASSUME NEW r \in Registrations, Insert(r)
      PROVE  TypeOK' /\ UNCHANGED <<page, exchanges, history>>
  BY <1>2 DEF Insert, Row
<1>3. ASSUME NEW r \in Registrations, InsertConflicts(r)
      PROVE  TypeOK' /\ UNCHANGED <<page, exchanges, history>>
  BY <1>3 DEF InsertConflicts
<1>4. ASSUME NEW r \in Registrations, InsertFails(r)
      PROVE  TypeOK' /\ UNCHANGED <<page, exchanges, history>>
  <2>1. CASE Row(r)
    BY <1>4, <2>1 DEF InsertFails, Row
  <2>2. CASE UNCHANGED <<accounts, creator>>
    BY <1>4, <2>2 DEF InsertFails
  <2> QED
    BY <1>4, <2>1, <2>2 DEF InsertFails
<1>5. ASSUME NEW e \in Emails, Deactivate(e)
      PROVE  TypeOK' /\ UNCHANGED <<page, exchanges, history>>
  BY <1>5 DEF Deactivate
<1>6. ASSUME NEW l \in Logins, Expire(l)
      PROVE  TypeOK' /\ UNCHANGED <<page, exchanges, history>>
  BY <1>6 DEF Expire
<1> QED
  BY <1>1, <1>2, <1>3, <1>4, <1>5, <1>6 DEF TableStep

LEMMA SessionStep == SessionInv /\ [Next]_vars => SessionInv'
<1>0. SUFFICES ASSUME SessionInv, [Next]_vars PROVE SessionInv'
  OBVIOUS
<1> USE AddressTypes
    DEF SessionInv, TypeOK, RestoringRunsAlone, LoginRunsAlone, ShownUserOwnsToken,
        InFlight, Answers, Tokens, Exchange, Idle, Over, table, page, exchanges, history, Unmounted
<1>1. CASE TableStep
  <2>1. TypeOK' /\ UNCHANGED <<page, exchanges, history>>
    BY <1>0, <1>1, TableStepKeepsTypes
  <2> QED
    BY <1>0, <2>1
<1>2. CASE Mount
  <2>0. UNCHANGED <<table, login, req, history>>
    BY <1>2 DEF Mount
  <2>1. CASE token = None /\ SignedOut /\ restore' = Over
    <3>1. TypeOK'
      BY <1>0, <2>0, <2>1, PageUpdates DEF PageTypes
    <3>2. RestoringRunsAlone' /\ LoginRunsAlone' /\ ShownUserOwnsToken'
      BY <1>0, <2>0, <2>1 DEF SignedOut
    <3> QED
      BY <3>1, <3>2
  <2>2. CASE token # None /\ restore' = [token |-> token, phase |-> "sent"] /\ UNCHANGED page
    <3>1. TypeOK'
      BY <1>0, <2>0, <2>2, PageUpdates DEF PageTypes
    <3>2. restore.phase = "idle"
      BY <1>2 DEF Mount
    <3>3. RestoringRunsAlone'
      BY <1>0, <2>0, <2>2, <3>2
    <3>4. LoginRunsAlone' /\ ShownUserOwnsToken'
      BY <1>0, <2>0, <2>2
    <3> QED
      BY <3>1, <3>3, <3>4
  <2> QED
    BY <1>2, <2>1, <2>2 DEF Mount
<1>3. CASE ServeRestore
  BY <1>0, <1>3, VerdictIsAnswer DEF ServeRestore
<1>4. CASE RestoreArrives
  <2>1. TypeOK'
    <3>1. restore.phase = "ok" => AccountOf[restore.token] \in Emails
      BY <1>0
    <3>2. PageTypes'
      BY <1>0, <1>4, <3>1, PageUpdates DEF RestoreArrives
    <3> QED
      BY <1>0, <1>4, <3>2 DEF RestoreArrives, PageTypes
  <2>2. RestoringRunsAlone'
    BY <1>0, <1>4 DEF RestoreArrives, SignedIn, SignedOut
  <2>3. LoginRunsAlone'
    BY <1>0, <1>4 DEF RestoreArrives, SignedIn, SignedOut
  <2>4. ShownUserOwnsToken'
    BY <1>0, <1>4 DEF RestoreArrives, SignedIn, SignedOut
  <2> QED
    BY <2>1, <2>2, <2>3, <2>4
<1>5. ASSUME NEW l \in Logins, SubmitLogin(l) PROVE SessionInv'
  <2>1. TypeOK'
    BY <1>0, <1>5 DEF SubmitLogin, FormShown
  <2>2. RestoringRunsAlone'
    BY <1>0, <1>5 DEF SubmitLogin, FormShown
  <2>3. LoginRunsAlone'
    <3>1. ~overlapped' => ~overlapped /\ \A k \in Logins : ~InFlight(k)
      BY <1>0, <1>5 DEF SubmitLogin
    <3>2. \A k \in Logins : k # l => login'[k] = login[k]
      BY <1>0, <1>5 DEF SubmitLogin
    <3>3. login'[l] = "sent" /\ user' = None
      BY <1>0, <1>5 DEF SubmitLogin, FormShown
    <3> QED
      BY <3>1, <3>2, <3>3
  <2>4. ShownUserOwnsToken'
    BY <1>0, <1>5 DEF SubmitLogin, FormShown
  <2> QED
    BY <2>1, <2>2, <2>3, <2>4
<1>6. ASSUME NEW l \in Logins, LoginGranted(l) PROVE SessionInv'
  BY <1>0, <1>6 DEF LoginGranted
<1>7. ASSUME NEW l \in Logins, LoginRefused(l) PROVE SessionInv'
  BY <1>0, <1>7 DEF LoginRefused
<1>8. ASSUME NEW l \in Logins, ServeMe(l) PROVE SessionInv'
  BY <1>0, <1>8, VerdictIsAnswer DEF ServeMe
<1>9. ASSUME NEW l \in Logins, MeArrives(l) PROVE SessionInv'
  <2>1. TypeOK'
    <3>1. PageTypes'
      BY <1>0, <1>9, PageUpdates DEF MeArrives
    <3> QED
      BY <1>0, <1>9, <3>1 DEF MeArrives, PageTypes
  <2>2. RestoringRunsAlone'
    BY <1>0, <1>9 DEF MeArrives, SignedIn, SignedOut, LoginFailed
  <2>3. LoginRunsAlone'
    BY <1>0, <1>9 DEF MeArrives, SignedIn, SignedOut, LoginFailed
  <2>4. ShownUserOwnsToken'
    BY <1>0, <1>9 DEF MeArrives, SignedIn, SignedOut, LoginFailed
  <2> QED
    BY <2>1, <2>2, <2>3, <2>4
<1>10. ASSUME NEW q \in Requests, SidebarSends(q) PROVE SessionInv'
  BY <1>0, <1>10 DEF SidebarSends, Sends
<1>11. ASSUME NEW q \in Requests, MountWorkspace(q) \/ SendRequest(q) PROVE SessionInv'
  <2>1. CASE SidebarSends(q)
    BY <1>10, <2>1
  <2>2. CASE Sends(q) /\ UNCHANGED <<listing, asking>>
    BY <1>0, <2>2 DEF Sends
  <2> QED
    BY <1>11, <2>1, <2>2 DEF MountWorkspace, SendRequest
<1>12. ASSUME NEW q \in Requests, ServeRequest(q) PROVE SessionInv'
  BY <1>0, <1>12, VerdictIsAnswer DEF ServeRequest
<1>13. ASSUME NEW q \in Requests, RequestArrives(q) PROVE SessionInv'
  <2>1. /\ restore.phase = "over" /\ UNCHANGED <<table, restore, login, history>>
        /\ req' = [req EXCEPT ![q] = Idle]
    BY <1>0, <1>13 DEF RequestArrives
  <2>2. CASE SignedOut
    <3>1. TypeOK'
      BY <1>0, <2>1, <2>2, PageUpdates DEF PageTypes
    <3>2. RestoringRunsAlone' /\ LoginRunsAlone' /\ ShownUserOwnsToken'
      BY <1>0, <2>1, <2>2 DEF SignedOut
    <3> QED
      BY <3>1, <3>2
  <2>3. CASE /\ UNCHANGED <<token, user, loading>>
             /\ listing' \in {listing, "failed"} /\ asking' \in SUBSET Requests
    <3>1. TypeOK'
      BY <1>0, <2>1, <2>3
    <3>2. RestoringRunsAlone' /\ LoginRunsAlone' /\ ShownUserOwnsToken'
      BY <1>0, <2>1, <2>3
    <3> QED
      BY <3>1, <3>2
  <2> QED
    BY <1>0, <1>13, <2>2, <2>3 DEF RequestArrives
<1>14. CASE Logout
  BY <1>0, <1>14 DEF Logout, SignedOut
<1>15. CASE Reload
  <2>1. TypeOK'
    <3>1. PageTypes'
      BY <1>0, <1>15 DEF Reload, PageTypes
    <3>2. overlapped' \in BOOLEAN
      BY <1>15 DEF Reload
    <3>4. reloads' \in 0 .. MaxReloads
      BY <1>0, <1>15, ConstantsAssumption DEF Reload
    <3>3. /\ restore' \in Exchange
          /\ login' \in [Logins -> {"idle", "sent", "me", "over"} \cup Answers]
          /\ req' \in [Requests -> Exchange]
      BY <1>0, <1>15 DEF Reload
    <3> QED
      BY <1>0, <1>15, <3>1, <3>2, <3>3, <3>4 DEF Reload, PageTypes
  <2>2. RestoringRunsAlone'
    BY <1>0, <1>15 DEF Reload
  <2>3. LoginRunsAlone'
    BY <1>0, <1>15 DEF Reload
  <2>4. ShownUserOwnsToken'
    BY <1>0, <1>15 DEF Reload
  <2> QED
    BY <2>1, <2>2, <2>3, <2>4
<1>16. CASE UNCHANGED vars
  BY <1>0, <1>16 DEF vars
<1> QED
  BY <1>0, <1>1, <1>2, <1>3, <1>4, <1>5, <1>6, <1>7, <1>8, <1>9, <1>10, <1>11, <1>12,
     <1>13, <1>14, <1>15, <1>16 DEF Next, TableStep

LEMMA SessionIsSafe == Spec => []SessionInv
  BY SessionInit, SessionStep, PTL DEF Spec

(* Accounts, the token, the profile and every exchange have their types.     *)
THEOREM TypesHold == Spec => []TypeOK
<1>1. SessionInv => TypeOK
  BY DEF SessionInv
<1> QED
  BY <1>1, SessionIsSafe, PTL

(* With any number of logins, requests and reloads the profile on the page   *)
(* is the account its requests act for, unless two logins overlapped.        *)
THEOREM ShownUserIsTokenOwner == Spec => []ShownUserOwnsToken
<1>1. SessionInv => ShownUserOwnsToken
  BY DEF SessionInv
<1> QED
  BY <1>1, SessionIsSafe, PTL

-----------------------------------------------------------------------------
(* Registration.                                                           *)

(* An address whose registration was answered 201 stays taken, so the unique *)
(* index lets nobody take its row over.                                      *)
CreatedIsTaken ==
    \A r \in Registrations : reg[r] = "created" => accounts[EmailOf[r]] # "absent"

RegistrationInv == RegistrationIsExclusive /\ CreatedIsTaken

LEMMA RegistrationStep == TypeOK /\ RegistrationInv /\ [Next]_vars => RegistrationInv'
<1>0. SUFFICES ASSUME TypeOK, RegistrationInv, [Next]_vars PROVE RegistrationInv'
  OBVIOUS
<1> USE AddressTypes
    DEF TypeOK, RegistrationInv, RegistrationIsExclusive, CreatedIsTaken, Registers,
        IndexAdmits
<1>1. ASSUME NEW r \in Registrations, CheckAddress(r) PROVE RegistrationInv'
  BY <1>0, <1>1 DEF CheckAddress
<1>2. ASSUME NEW r \in Registrations, Insert(r) PROVE RegistrationInv'
  BY <1>0, <1>2 DEF Insert, Row
<1>3. ASSUME NEW r \in Registrations, InsertConflicts(r) PROVE RegistrationInv'
  BY <1>0, <1>3 DEF InsertConflicts
<1>4. ASSUME NEW r \in Registrations, InsertFails(r) PROVE RegistrationInv'
  <2>1. CASE IndexAdmits(r) /\ Row(r)
    BY <1>0, <1>4, <2>1 DEF InsertFails, Row
  <2>2. CASE UNCHANGED <<accounts, creator>>
    BY <1>0, <1>4, <2>2 DEF InsertFails
  <2> QED
    BY <1>4, <2>1, <2>2 DEF InsertFails
<1>5. ASSUME NEW e \in Emails, Deactivate(e) PROVE RegistrationInv'
  BY <1>0, <1>5 DEF Deactivate
<1>6. CASE UNCHANGED <<accounts, creator, reg>>
  BY <1>0, <1>6
<1> QED
  BY <1>0, <1>1, <1>2, <1>3, <1>4, <1>5, <1>6
     DEF Next, vars, table, Mount, ServeRestore, RestoreArrives, SubmitLogin, LoginGranted,
         LoginRefused, ServeMe, MeArrives, Expire, MountWorkspace, SendRequest, SidebarSends, Sends,
         ServeRequest, RequestArrives, Logout, Reload

(* However many registrations race for an address, one at most is told 201   *)
(* and owns the account; who is told 409 is told the truth.                  *)
THEOREM RegistrationsAreExclusive == Spec => []RegistrationIsExclusive
<1>1. Init => RegistrationInv
  BY DEF Init, RegistrationInv, RegistrationIsExclusive, CreatedIsTaken
<1>2. RegistrationInv => RegistrationIsExclusive
  BY DEF RegistrationInv
<1> QED
  BY <1>1, <1>2, RegistrationStep, TypesHold, PTL DEF Spec

-----------------------------------------------------------------------------
(* A user without a token.                                                 *)

(* A profile that is shown without a token is still to ask for the list of   *)
(* conversations, or shows that a request failed, or one of the sidebar's    *)
(* requests carries no token: the 401 that ends the session, or the failure  *)
(* that is shown, is on its way.                                             *)
TokenlessIsFoundOut ==
    user # None /\ token = None /\ listing = "asked" =>
        \E q \in asking : /\ req[q].token = None
                          /\ req[q].phase \in {"sent", "401", "broken"}

(* The workspace has asked for its list only while somebody is shown, and a  *)
(* request without a token is refused or lost.                               *)
TokenlessInv ==
    /\ TokenlessIsFoundOut
    /\ listing # "unasked" \/ asking # {} => user # None
    /\ \A q \in Requests : req[q].token = None => req[q].phase \in {"idle", "sent", "401", "broken"}

LEMMA TokenlessStep == SessionInv /\ TokenlessInv /\ [Next]_vars => TokenlessInv'
<1>0. SUFFICES ASSUME SessionInv, TokenlessInv, [Next]_vars PROVE TokenlessInv'
  OBVIOUS
<1>t. TypeOK
  BY <1>0 DEF SessionInv
<1> USE DEF TokenlessInv, TokenlessIsFoundOut, Idle
<1>1. CASE UNCHANGED <<page, req>>
  BY <1>0, <1>1 DEF page
<1>2. ASSUME UNCHANGED req, SignedOut \/ LoginFailed PROVE TokenlessInv'
  BY <1>0, <1>2 DEF SignedOut, LoginFailed, Unmounted
<1>3. ASSUME NEW e \in Emails, UNCHANGED req, SignedIn(e) PROVE TokenlessInv'
  BY <1>0, <1>3, ConstantsAssumption DEF SignedIn
<1>4. CASE Mount
  BY <1>1, <1>2, <1>4 DEF Mount
<1>5. CASE RestoreArrives
  <2>1. restore.phase = "ok" => AccountOf[restore.token] \in Emails
    <3>1. ASSUME restore.phase = "ok" PROVE restore.token \in Logins
      BY <1>0, <1>t, <3>1 DEF SessionInv, RestoringRunsAlone, TypeOK, Tokens, Answers
    <3> QED
      BY <3>1, ConstantsAssumption
  <2> QED
    BY <1>2, <1>3, <1>5, <2>1 DEF RestoreArrives
<1>6. ASSUME NEW l \in Logins, LoginGranted(l) PROVE TokenlessInv'
  BY <1>0, <1>6, ConstantsAssumption DEF LoginGranted
<1>7. ASSUME NEW l \in Logins, MeArrives(l) PROVE TokenlessInv'
  BY <1>2, <1>3, <1>7, ConstantsAssumption DEF MeArrives
<1>8. ASSUME NEW q \in Requests, SidebarSends(q) PROVE TokenlessInv'
  <2>1. /\ req'[q] = [token |-> token, phase |-> "sent"] /\ user # None /\ UNCHANGED <<token, user>>
        /\ \A p \in Requests : p # q => req'[p] = req[p]
    BY <1>t, <1>8 DEF SidebarSends, Sends, TypeOK
  <2>2. q \in asking'
    BY <1>8 DEF SidebarSends
  <2> QED
    BY <1>0, <2>1, <2>2
<1>9. ASSUME NEW q \in Requests, Sends(q), UNCHANGED <<listing, asking>> PROVE TokenlessInv'
  <2>1. /\ req'[q] = [token |-> token, phase |-> "sent"] /\ UNCHANGED <<token, user>>
        /\ req[q].phase = "idle"
        /\ \A p \in Requests : p # q => req'[p] = req[p]
    BY <1>t, <1>9 DEF Sends, TypeOK
  <2>2. asking \subseteq Requests
    BY <1>t DEF TypeOK
  <2> QED
    BY <1>0, <1>9, <2>1, <2>2
<1>10. ASSUME NEW q \in Requests, ServeRequest(q) PROVE TokenlessInv'
  <2>1. req[q].token = None => Verdict(req[q].token) = "401"
    BY DEF Verdict
  <2>2. /\ req'[q].token = req[q].token /\ req'[q].phase \in {Verdict(req[q].token), "broken"}
        /\ \A p \in Requests : p # q => req'[p] = req[p]
    BY <1>t, <1>10 DEF ServeRequest, TypeOK, Exchange
  <2>3. UNCHANGED page /\ asking \subseteq Requests
    BY <1>t, <1>10 DEF ServeRequest, TypeOK
  <2> QED
    BY <1>0, <2>1, <2>2, <2>3 DEF page
<1>11. ASSUME NEW q \in Requests, RequestArrives(q) PROVE TokenlessInv'
  <2>1. /\ req'[q] = Idle
        /\ \A p \in Requests : p # q => req'[p] = req[p]
    BY <1>t, <1>11 DEF RequestArrives, TypeOK
  <2>2. CASE req[q].phase = "401"
    BY <1>0, <1>11, <2>1, <2>2 DEF RequestArrives, SignedOut, Unmounted
  <2>3. CASE req[q].phase # "401"
    <3>1. /\ UNCHANGED <<token, user>> /\ asking' = asking \ {q} /\ asking \subseteq Requests
          /\ listing' = IF q \in asking /\ req[q].phase # "ok" THEN "failed" ELSE listing
      BY <1>t, <1>11, <2>3 DEF RequestArrives, TypeOK
    <3>2. req[q].token = None => req[q].phase # "ok"
      BY <1>0, <1>11 DEF RequestArrives, Answers
    <3>3. CASE listing' = "failed"
      <4>2. q \in asking \/ listing = "failed"
        BY <3>1, <3>3
      <4>3. user # None
        BY <1>0, <4>2
      <4> QED
        BY <1>0, <2>1, <3>1, <3>3, <4>3
    <3>4. CASE listing' # "failed"
      BY <1>0, <2>1, <3>1, <3>2, <3>4
    <3> QED
      BY <3>3, <3>4
  <2> QED
    BY <2>2, <2>3
<1>12. CASE Logout
  BY <1>2, <1>12 DEF Logout, exchanges
<1>13. CASE Reload
  BY <1>0, <1>13 DEF Reload, Unmounted
<1> QED
  BY <1>0, <1>1, <1>4, <1>5, <1>6, <1>7, <1>8, <1>9, <1>10, <1>11, <1>12, <1>13
     DEF Next, vars, exchanges, Registers, CheckAddress, Insert, InsertConflicts, InsertFails,
         Deactivate, Expire, ServeRestore, SubmitLogin, LoginRefused, ServeMe,
         MountWorkspace, SendRequest

(* A user without a token, whatever late 401 took it, does not go unnoticed: *)
(* the 401 or the failure that the page shows is on its way.  This is what   *)
(* UserWithoutTokenEnds rests on, however requests end, lost ones included.  *)
THEOREM TokenlessUsersAreNoticed == Spec => []TokenlessIsFoundOut
<1>1. Init => TokenlessInv
  BY DEF Init, TokenlessInv, TokenlessIsFoundOut, Idle
<1>2. TokenlessInv => TokenlessIsFoundOut
  BY DEF TokenlessInv
<1> QED
  BY <1>1, <1>2, TokenlessStep, SessionIsSafe, PTL DEF Spec

-----------------------------------------------------------------------------
(* ConversationList: the inductive invariant.                                *)

(* The server's clock is ahead of every change, and of what was acknowledged *)
(* of a conversation; a deletion is acknowledged once it is done.            *)
ServerInv ==
    \A c \in Convs :
        /\ updated[c] <= clock /\ told[c] <= clock
        /\ Exists(c) => told[c] <= updated[c]
        /\ c \in gone => updated[c] = -1

(* A list answer that will be used knows of everything acknowledged so far:  *)
(* nothing has been acknowledged since it was asked for, or listRevision     *)
(* would have moved.                                                         *)
Fresh(load) == load.phase = "answered" /\ ~load.changed
LoadInv ==
    /\ \A load \in {first, more} :
         /\ \A e, f \in load.items : e.id = f.id => e = f
         /\ Fresh(load) => \A e \in load.items : e.id \notin gone
    /\ Fresh(first) => \A c \in Convs : told[c] <= first.clock

(* The dialog's conversation is what its answer says it is: nobody else      *)
(* deletes one.                                                              *)
DialogInv ==
    /\ dialog.phase # "idle" => dialog.conv \in Convs /\ dialog.kind \in {"rename", "delete"}
    /\ dialog.phase = "answered" =>
         /\ dialog.kind = "rename" => dialog.stamp \in 1 .. updated[dialog.conv]
         /\ dialog.kind = "delete" => updated[dialog.conv] = -1

(* An answer with an older state of a conversation is not older than a       *)
(* change that is acknowledged before it arrives, unless the two have raced. *)
OlderInv ==
    /\ create.phase = "answered" =>
         /\ create.conv \in Convs /\ create.stamp \in 1 .. clock
         /\ updated[create.conv] # 0
         /\ Exists(create.conv) => create.stamp <= updated[create.conv]
         /\ create.conv \notin raced => Exists(create.conv)
    /\ read.phase # "idle" => read.conv \in Convs /\ updated[read.conv] # 0
    /\ read.phase = "answered" =>
         /\ read.stamp \in 1 .. clock
         /\ read.conv \notin raced =>
              /\ told[read.conv] <= read.stamp /\ read.stamp <= updated[read.conv]
              /\ dialog.phase = "answered" /\ dialog.conv = read.conv => dialog.stamp <= read.stamp
              /\ create.phase = "answered" /\ create.conv = read.conv => create.stamp <= read.stamp

(* The total counts a creation twice at most once: a list may know of it     *)
(* before it is answered, and the next is begun only after that.             *)
Created == {c \in Convs : updated[c] # 0}
TotalInv ==
    /\ {first.total, more.total} \subseteq 0 .. Cardinality(Created)
    /\ total <= Cardinality(Created) + 1
    /\ create.phase = "answered" => total <= Cardinality(Created)

ListInv ==
    /\ ListTypeOK /\ ServerInv /\ LoadInv /\ DialogInv /\ OlderInv /\ TotalInv
    /\ OlderAnswersDoNotUndo

-----------------------------------------------------------------------------
(* What pages, lists and sets of conversations are.                          *)

(* What is in the list, and what is on a page of it.                         *)
LEMMA PageType ==
    ASSUME ListTypeOK, NEW offset
    PROVE  /\ Page(offset) \subseteq Entry
           /\ \A e, f \in Page(offset) : e.id = f.id => e = f
           /\ \A e \in Page(offset) : Exists(e.id)
<1> USE DEF ListTypeOK, Page, Entry, Stored, Exists
<1>1. ASSUME NEW c \in Convs, Exists(c)
      PROVE  [id |-> c, stamp |-> updated[c]] \in Entry
  BY <1>1, ListAssumption
<1> QED
  BY <1>1

LEMMA ListIsFinite ==
    ASSUME ListTypeOK
    PROVE  Cardinality(list) \in 0 .. Cardinality(Convs)
<1> DEFINE id == [e \in list |-> e.id]
<1>1. id \in Injection(list, Convs)
  <2>1. id \in [list -> Convs]
    BY DEF ListTypeOK, Entry
  <2>2. \A e, f \in list : id[e] = id[f] => e = f
    BY DEF ListTypeOK
  <2> QED
    BY <2>1, <2>2 DEF Injection, IsInjective
<1>2. IsFiniteSet(list) /\ Cardinality(list) <= Cardinality(Convs)
  BY <1>1, FS_Injection, ListAssumption
<1> QED
  BY <1>2, FS_CardinalityType, ListAssumption

LEMMA ConvsAreCounted ==
    /\ Cardinality(Convs) \in Nat
    /\ \A S \in SUBSET Convs : IsFiniteSet(S) /\ Cardinality(S) \in 0 .. Cardinality(Convs)
<1>1. Cardinality(Convs) \in Nat
  BY FS_CardinalityType, ListAssumption
<1>2. ASSUME NEW S \in SUBSET Convs
      PROVE  IsFiniteSet(S) /\ Cardinality(S) \in 0 .. Cardinality(Convs)
  <2>1. IsFiniteSet(S) /\ Cardinality(S) <= Cardinality(Convs)
    BY FS_Subset, ListAssumption
  <2> QED
    BY <2>1, FS_CardinalityType, <1>1
<1> QED
  BY <1>1, <1>2

LEMMA OneLessIs ==
    ASSUME total \in Nat
    PROVE  OneLess = IF total = 0 THEN 0 ELSE total - 1
<1>1. ASSUME NEW n \in Int, NEW S, S = {0, n},
             NEW m \in S, \A y \in S : m >= y
      PROVE  Max(S) = m
  BY <1>1 DEF Max
<1>2. CASE total = 0
  <2>1. total - 1 = -1
    BY <1>2
  <2>2. Max({0, total - 1}) = 0
    BY <2>1, <1>1
  <2> QED
    BY <1>2, <2>2 DEF OneLess
<1>3. CASE total # 0
  <2>1. total - 1 \in Nat
    BY <1>3
  <2>2. Max({0, total - 1}) = total - 1
    BY <2>1, <1>1
  <2> QED
    BY <1>3, <2>2 DEF OneLess
<1> QED
  BY <1>2, <1>3

LEMMA ConstantsAreNumbers == MaxClock \in Nat /\ MaxClicks \in Nat /\ NoConv \notin Convs
  BY ListAssumption

LEMMA NothingHasItsType ==
    /\ NoTask \in Task
    /\ NoLoad \in Load
<1>1. 0 \in 0 .. Cardinality(Convs) /\ 0 \in 0 .. MaxClock
  BY ConvsAreCounted, ConstantsAreNumbers
<1> QED
  BY <1>1 DEF NoTask, NoLoad, Task, Load, Phases

-----------------------------------------------------------------------------
(* The types.                                                                *)

SidebarTypes ==
    list \subseteq Entry /\ (\A e, f \in list : e.id = f.id => e = f)
    /\ total \in 0 .. Cardinality(Convs) + 1 /\ error \in BOOLEAN
ServerTypes == updated \in [Convs -> -1 .. MaxClock] /\ clock \in 0 .. MaxClock
RequestTypes == {first, more} \subseteq Load /\ {create, dialog, read} \subseteq Task
HistoryTypes ==
    /\ clicks \in 0 .. MaxClicks
    /\ told \in [Convs -> 0 .. MaxClock] /\ asof \in 0 .. MaxClock
    /\ gone \subseteq Convs /\ raced \subseteq Convs

LEMMA TypesAreFour == ListTypeOK <=> ServerTypes /\ SidebarTypes /\ RequestTypes /\ HistoryTypes
  BY DEF ListTypeOK, ServerTypes, SidebarTypes, RequestTypes, HistoryTypes

LEMMA TouchTypes ==
    ASSUME ListTypeOK, NEW c \in Convs, Touch(c)
    PROVE  /\ ServerTypes' /\ clock' = clock + 1 /\ clock' \in 1 .. MaxClock
           /\ updated' = [updated EXCEPT ![c] = clock']
  BY ConstantsAreNumbers DEF Touch, ListTypeOK, ServerTypes

LEMMA UpsertTypes ==
    ASSUME ListTypeOK, NEW c \in Convs, NEW stamp \in 1 .. MaxClock, Upsert(c, stamp)
    PROVE  /\ list' \subseteq Entry /\ \A e, f \in list' : e.id = f.id => e = f
           /\ {first', more'} \subseteq Load
<1>1. [id |-> c, stamp |-> stamp] \in Entry
  BY DEF Entry
<1>2. list' \subseteq Entry /\ \A e, f \in list' : e.id = f.id => e = f
  BY <1>1 DEF Upsert, Without, ListTypeOK
<1>3. {first', more'} \subseteq Load
  BY DEF Upsert, BumpRevision, ListTypeOK, Load
<1> QED
  BY <1>2, <1>3

LEMMA ListTypeStep ==
    ListTypeOK /\ DialogInv /\ OlderInv /\ TotalInv /\ LoadInv /\ [ListNext]_listVars => ListTypeOK'
<1>0. SUFFICES ASSUME ListTypeOK, DialogInv, OlderInv, TotalInv, LoadInv, [ListNext]_listVars
               PROVE  ServerTypes' /\ SidebarTypes' /\ RequestTypes' /\ HistoryTypes'
  BY DEF ListTypeOK, ServerTypes, SidebarTypes, RequestTypes, HistoryTypes
<1>a. ServerTypes /\ SidebarTypes /\ RequestTypes /\ HistoryTypes
  BY <1>0, TypesAreFour
<1>b. NoTask \in Task /\ NoLoad \in Load
  BY NothingHasItsType
<1>c. MaxClock \in Nat /\ MaxClicks \in Nat /\ NoConv \notin Convs /\ Cardinality(Convs) \in Nat
  BY ConstantsAreNumbers, ConvsAreCounted
<1>u. /\ UNCHANGED serverState => ServerTypes'
      /\ UNCHANGED sidebar => SidebarTypes'
      /\ UNCHANGED <<first, more, create, dialog, read>> => RequestTypes'
      /\ UNCHANGED listHistory => HistoryTypes'
  BY <1>a DEF serverState, sidebar, listHistory, ServerTypes, SidebarTypes, RequestTypes, HistoryTypes
<1>d. Cardinality(Created) \in 0 .. Cardinality(Convs)
  BY ConvsAreCounted DEF Created
<1>1. CASE ServeFirst \/ ServeMore
  <2>1. \A load \in Load : Answered(load) \in Load /\ Broken(load) \in Load
    <3>1. ASSUME NEW load \in Load PROVE Answered(load) \in Load
      <4>1. Page(load.offset) \in SUBSET Entry
        BY <1>0, PageType
      <4>2. Cardinality(Stored) \in 0 .. Cardinality(Convs)
        BY ConvsAreCounted DEF Stored
      <4> QED
        BY <1>a, <4>1, <4>2 DEF Answered, Load, Phases, ServerTypes
    <3> QED
      BY <3>1 DEF Broken, Load, Phases
  <2> QED
    BY <1>1, <1>a, <1>u, <2>1 DEF ServeFirst, ServeMore, RequestTypes
<1>2. CASE ServeCreate
  <2>1. CASE UNCHANGED serverState /\ create' = [create EXCEPT !.phase = "broken"]
    BY <1>2, <2>1, <1>a, <1>u DEF ServeCreate, RequestTypes, Task, Phases
  <2>2. ASSUME NEW c \in Convs, Touch(c),
               create' \in {[create EXCEPT !.phase = "answered", !.conv = c, !.stamp = clock'],
                            [create EXCEPT !.phase = "broken"]}
        PROVE  ServerTypes' /\ create' \in Task
    <3>1. ServerTypes' /\ clock' \in 0 .. MaxClock
      BY <2>2, <1>0, TouchTypes DEF ServerTypes
    <3>2. create' \in Task
      BY <2>2, <3>1, <1>a DEF RequestTypes, Task, Phases
    <3> QED
      BY <3>1, <3>2
  <2> QED
    BY <1>2, <2>1, <2>2, <1>a, <1>u DEF ServeCreate, RequestTypes
<1>3. CASE ServeDialog
  <2>1. dialog.phase = "asked" /\ dialog.conv \in Convs
    BY <1>3, <1>0 DEF ServeDialog, DialogInv
  <2>2. ServerTypes'
    <3>1. CASE UNCHANGED serverState
      BY <3>1, <1>u
    <3>2. CASE Touch(dialog.conv)
      BY <3>2, <2>1, <1>0, TouchTypes
    <3>3. CASE UNCHANGED clock /\ updated' = [updated EXCEPT ![dialog.conv] = -1]
      <4>1. -1 \in -1 .. MaxClock
        BY <1>c
      <4> QED
        BY <3>3, <4>1, <1>a DEF ServerTypes
    <3> QED
      BY <1>3, <3>1, <3>2, <3>3 DEF ServeDialog
  <2>3. dialog' \in Task
    BY <1>3, <1>a, <2>2 DEF ServeDialog, RequestTypes, ServerTypes, Task, Phases
  <2>4. raced' \subseteq Convs
    BY <1>3, <1>a, <2>1 DEF ServeDialog, HistoryTypes
  <2> QED
    BY <1>3, <1>a, <1>u, <2>2, <2>3, <2>4 DEF ServeDialog, RequestTypes, HistoryTypes
<1>4. CASE ServePost
  <2>1. read.conv \in Convs
    BY <1>4, <1>0 DEF ServePost, OlderInv
  <2>2. ServerTypes'
    BY <1>4, <2>1, <1>0, <1>u, TouchTypes DEF ServePost
  <2> QED
    BY <1>4, <1>a, <1>u, <2>2 DEF ServePost, RequestTypes, Task, Phases
<1>5. CASE ServeRead
  <2>1. read.conv \in Convs
    BY <1>5, <1>0 DEF ServeRead, OlderInv
  <2>2. read' \in Task
    <3>1. CASE Exists(read.conv) /\ read' = [read EXCEPT !.phase = "answered", !.stamp = updated[read.conv]]
      <4>1. updated[read.conv] \in 0 .. MaxClock
        BY <3>1, <2>1, <1>a, <1>c DEF ServerTypes, Exists
      <4> QED
        BY <3>1, <4>1, <1>a DEF RequestTypes, Task, Phases
    <3>2. CASE read' = [read EXCEPT !.phase = "broken"]
      BY <3>2, <1>a DEF RequestTypes, Task, Phases
    <3> QED
      BY <1>5, <3>1, <3>2 DEF ServeRead
  <2> QED
    BY <1>5, <1>a, <1>u, <2>2 DEF ServeRead, RequestTypes
<1>6. CASE FirstReturns
  <2>1. first \in Load /\ \A e, f \in first.items : e.id = f.id => e = f
    BY <1>0, <1>a DEF RequestTypes, LoadInv
  <2>2. first' \in Load
    BY <1>6, <1>b DEF FirstReturns, Load, Phases
  <2>3. SidebarTypes'
    <3>1. CASE UNCHANGED sidebar
      BY <3>1, <1>u
    <3>2. CASE list' = first.items /\ total' = first.total /\ UNCHANGED error
      BY <3>2, <1>a, <1>c, <2>1 DEF SidebarTypes, Load
    <3>3. CASE error' = TRUE /\ UNCHANGED <<list, total>>
      BY <3>3, <1>a DEF SidebarTypes
    <3> QED
      BY <1>6, <3>1, <3>2, <3>3 DEF FirstReturns
  <2>4. HistoryTypes'
    BY <1>6, <1>a, <2>1 DEF FirstReturns, HistoryTypes, Load
  <2> QED
    BY <1>6, <1>a, <1>u, <2>2, <2>3, <2>4 DEF FirstReturns, RequestTypes
<1>7. CASE MoreReturns
  <2>1. more \in Load /\ \A e, f \in more.items : e.id = f.id => e = f
    BY <1>0, <1>a DEF RequestTypes, LoadInv
  <2>2. SidebarTypes'
    <3>1. CASE more.changed
      BY <1>7, <3>1, <1>a DEF MoreReturns, SidebarTypes
    <3>2. CASE ~more.changed
      <4>1. list' = list \cup {e \in more.items : ~Listed(e.id)}
        BY <1>7, <3>2 DEF MoreReturns
      <4>2. list' \subseteq Entry
        BY <4>1, <2>1, <1>a DEF SidebarTypes, Load
      <4>3. \A e, f \in list' : e.id = f.id => e = f
        BY <4>1, <2>1, <1>a DEF SidebarTypes, Listed
      <4>4. total' \in 0 .. Cardinality(Convs) + 1 /\ error' = error
        BY <1>7, <3>2, <2>1, <1>c DEF MoreReturns, Load
      <4> QED
        BY <4>2, <4>3, <4>4, <1>a DEF SidebarTypes
    <3> QED
      BY <3>1, <3>2
  <2> QED
    BY <1>7, <1>a, <1>b, <1>u, <2>2 DEF MoreReturns, RequestTypes
<1>8. CASE ListFails
  BY <1>8, <1>a, <1>b, <1>u DEF ListFails, SidebarTypes, RequestTypes
<1>9. CASE CreateReturns
  <2>1. CASE create.phase = "answered"
    <3>1. create.conv \in Convs /\ create.stamp \in 1 .. MaxClock
      BY <2>1, <1>0, <1>a, <1>c DEF OlderInv, ServerTypes
    <3>2. total + 1 \in 0 .. Cardinality(Convs) + 1
      BY <2>1, <1>0, <1>a, <1>c, <1>d DEF TotalInv, SidebarTypes
    <3>3. Upsert(create.conv, create.stamp)
      BY <1>9, <2>1 DEF CreateReturns
    <3>4. told' \in [Convs -> 0 .. MaxClock]
      BY <1>9, <2>1, <3>1, <1>a DEF CreateReturns, HistoryTypes
    <3> QED
      BY <1>9, <2>1, <3>1, <3>2, <3>3, <3>4, <1>0, <1>a, <1>b, <1>u, UpsertTypes
         DEF CreateReturns, SidebarTypes, RequestTypes, HistoryTypes
  <2>2. CASE create.phase # "answered"
    BY <1>9, <2>2, <1>a, <1>b, <1>u
       DEF CreateReturns, SidebarTypes, RequestTypes, HistoryTypes
  <2> QED
    BY <2>1, <2>2
<1>10. CASE RenameReturns
  <2>1. dialog.conv \in Convs /\ dialog.stamp \in 1 .. MaxClock
    BY <1>10, <1>0, <1>a, <1>c DEF RenameReturns, DialogInv, ServerTypes
  <2>2. told' \in [Convs -> 0 .. MaxClock]
    BY <1>10, <2>1, <1>a DEF RenameReturns, HistoryTypes
  <2>3. Upsert(dialog.conv, dialog.stamp)
    BY <1>10 DEF RenameReturns
  <2> QED
    BY <1>10, <2>1, <2>2, <2>3, <1>0, <1>a, <1>b, <1>u, UpsertTypes
       DEF RenameReturns, SidebarTypes, RequestTypes, HistoryTypes
<1>11. CASE DeleteReturns
  <2>1. dialog.conv \in Convs
    BY <1>11, <1>0 DEF DeleteReturns, DialogInv
  <2>2. SidebarTypes'
    <3>1. total \in Nat
      BY <1>a, <1>c DEF SidebarTypes
    <3>2. OneLess \in 0 .. Cardinality(Convs) + 1
      BY <3>1, <1>a, <1>c, OneLessIs DEF SidebarTypes
    <3> QED
      BY <1>11, <1>a, <3>2 DEF DeleteReturns, Without, SidebarTypes
  <2>3. RequestTypes'
    BY <1>11, <1>a, <1>b DEF DeleteReturns, BumpRevision, RequestTypes, Load
  <2>4. HistoryTypes'
    BY <1>11, <1>a, <2>1 DEF DeleteReturns, HistoryTypes
  <2> QED
    BY <1>11, <1>u, <2>2, <2>3, <2>4 DEF DeleteReturns
<1>12. CASE DialogFails
  BY <1>12, <1>a, <1>b, <1>c, <1>u DEF DialogFails, RequestTypes, HistoryTypes, Task, Phases
<1>13. CASE ReadReturns
  <2>1. CASE read.phase = "answered"
    <3>1. read.conv \in Convs /\ read.stamp \in 1 .. MaxClock
      BY <2>1, <1>0, <1>a, <1>c DEF OlderInv, ServerTypes
    <3>2. Upsert(read.conv, read.stamp)
      BY <1>13, <2>1 DEF ReadReturns
    <3> QED
      BY <1>13, <2>1, <3>1, <3>2, <1>0, <1>a, <1>b, <1>u, UpsertTypes
         DEF ReadReturns, SidebarTypes, RequestTypes
  <2>2. CASE read.phase # "answered"
    BY <1>13, <2>2, <1>a, <1>b, <1>u DEF ReadReturns, SidebarTypes, RequestTypes
  <2> QED
    BY <2>1, <2>2
<1>14. CASE Retry \/ CreateNew
  <2>1. clicks' \in 0 .. MaxClicks
    BY <1>14, <1>a, <1>c DEF Retry, CreateNew, Click, HistoryTypes
  <2>2. {first', more'} \subseteq Load
    BY <1>14, <1>a, <1>b DEF Retry, CreateNew, RequestTypes, Load, Phases
  <2>3. {create', dialog', read'} \subseteq Task
    BY <1>14, <1>a, <1>b DEF Retry, CreateNew, RequestTypes, Task, Phases
  <2>4. SidebarTypes'
    BY <1>14, <1>a DEF Retry, CreateNew, SidebarTypes
  <2>5. HistoryTypes'
    BY <1>14, <1>a, <2>1 DEF Retry, CreateNew, HistoryTypes
  <2> QED
    BY <1>14, <1>u, <2>2, <2>3, <2>4, <2>5 DEF Retry, CreateNew, RequestTypes
<1>15. CASE LoadMore
  <2>1. clicks' \in 0 .. MaxClicks
    BY <1>15, <1>a, <1>c DEF LoadMore, Click, HistoryTypes
  <2>2. more' \in Load
    BY <1>15, <1>0, <1>b, ListIsFinite DEF LoadMore, Load, Phases
  <2> QED
    BY <1>15, <1>a, <1>u, <2>1, <2>2 DEF LoadMore, SidebarTypes, RequestTypes, HistoryTypes
<1>16. ASSUME NEW c \in Convs, Open(c) \/ \E kind \in {"rename", "delete"} : Confirm(kind, c)
       PROVE  ServerTypes' /\ SidebarTypes' /\ RequestTypes' /\ HistoryTypes'
  <2>1. clicks' \in 0 .. MaxClicks
    BY <1>16, <1>a, <1>c DEF Open, Confirm, Click, HistoryTypes
  <2>2. dialog' \in Task
    BY <1>16, <1>a, <1>b DEF Open, Confirm, RequestTypes, Task, Phases
  <2>3. read' \in Task
    BY <1>16, <1>a, <1>b DEF Open, Confirm, RequestTypes, Task, Phases
  <2>4. HistoryTypes'
    BY <1>16, <1>a, <2>1 DEF Open, Confirm, HistoryTypes
  <2> QED
    BY <1>16, <1>a, <1>u, <2>2, <2>3, <2>4 DEF Open, Confirm, RequestTypes
<1>17. CASE UNCHANGED listVars
  BY <1>17, <1>u DEF listVars
<1> QED
  BY <1>0, <1>1, <1>2, <1>3, <1>4, <1>5, <1>6, <1>7, <1>8, <1>9, <1>10, <1>11, <1>12, <1>13,
     <1>14, <1>15, <1>16, <1>17 DEF ListNext

-----------------------------------------------------------------------------
(* The server, and what was acknowledged of it.                              *)

(* What a step does to the server: nothing, a change of one conversation, or *)
(* a deletion.                                                               *)
LEMMA ServerMoves ==
    ASSUME ListTypeOK, DialogInv, OlderInv, [ListNext]_listVars
    PROVE  \/ UNCHANGED serverState
           \/ \E c \in Convs : Touch(c) /\ updated[c] # -1 /\ (ServeDialog => c = dialog.conv)
           \/ \E c \in Convs : /\ ServeDialog /\ c = dialog.conv /\ UNCHANGED clock
                               /\ updated' = [updated EXCEPT ![c] = -1]
<1>1. CASE ServeCreate
  <2>1. ASSUME NEW c \in Convs, updated[c] = 0 PROVE updated[c] # -1
    BY <2>1
  <2>2. ~ServeDialog \/ create' = create
    BY DEF ServeDialog
  <2>3. create' # create
    BY <1>1 DEF ServeCreate, ListTypeOK, Task
  <2> QED
    BY <1>1, <2>1, <2>2, <2>3 DEF ServeCreate
<1>2. CASE ServeDialog
  BY <1>2 DEF ServeDialog, DialogInv, Exists
<1>3. CASE ServePost
  <2>1. ~ServeDialog \/ read' = read
    BY DEF ServeDialog
  <2>2. read' # read
    BY <1>3 DEF ServePost, ListTypeOK, Task
  <2> QED
    BY <1>3, <2>1, <2>2 DEF ServePost, OlderInv, Exists
<1>4. ASSUME ~ServeCreate, ~ServeDialog, ~ServePost PROVE UNCHANGED serverState
  BY <1>4 DEF ListNext, ServeFirst, ServeMore, ServeRead, FirstReturns, MoreReturns, ListFails,
     CreateReturns, RenameReturns, DeleteReturns, DialogFails, ReadReturns, Retry, LoadMore,
     CreateNew, Open, Confirm, listVars, serverState
<1> QED
  BY <1>1, <1>2, <1>3, <1>4

(* Time goes on, and neither a creation nor a deletion is undone.            *)
LEMMA ServerGoesOn ==
    ASSUME ListTypeOK, DialogInv, OlderInv, ServerInv, [ListNext]_listVars
    PROVE  /\ clock' \in Nat /\ clock <= clock'
           /\ \A c \in Convs :
                /\ updated'[c] \in Int /\ updated'[c] <= clock'
                /\ updated[c] # 0 => updated'[c] # 0
                /\ updated[c] = -1 => updated'[c] = -1
                /\ updated'[c] > 0 => updated[c] <= updated'[c]
                /\ updated[c] > 0 /\ ~(ServeDialog /\ c = dialog.conv) => updated'[c] > 0
<1>0. /\ clock \in Nat
      /\ \A c \in Convs : updated[c] \in Int /\ updated[c] <= clock
  BY ConstantsAreNumbers DEF ListTypeOK, ServerInv
<1>1. CASE UNCHANGED serverState
  BY <1>0, <1>1 DEF serverState
<1>2. ASSUME NEW c \in Convs, Touch(c), updated[c] # -1
      PROVE  /\ clock' \in Nat /\ clock <= clock'
             /\ \A d \in Convs :
                  /\ updated'[d] \in Int /\ updated'[d] <= clock'
                  /\ updated[d] # 0 => updated'[d] # 0
                  /\ updated[d] = -1 => updated'[d] = -1
                  /\ updated'[d] > 0 => updated[d] <= updated'[d]
                  /\ updated[d] > 0 /\ ~(ServeDialog /\ d = dialog.conv) => updated'[d] > 0
  <2>1. \A d \in Convs : updated'[d] = IF d = c THEN clock + 1 ELSE updated[d]
    BY <1>2 DEF Touch, ListTypeOK
  <2> QED
    BY <1>0, <1>2, <2>1 DEF Touch
<1>3. ASSUME NEW c \in Convs, ServeDialog, c = dialog.conv, UNCHANGED clock,
             updated' = [updated EXCEPT ![c] = -1]
      PROVE  /\ clock' \in Nat /\ clock <= clock'
             /\ \A d \in Convs :
                  /\ updated'[d] \in Int /\ updated'[d] <= clock'
                  /\ updated[d] # 0 => updated'[d] # 0
                  /\ updated[d] = -1 => updated'[d] = -1
                  /\ updated'[d] > 0 => updated[d] <= updated'[d]
                  /\ updated[d] > 0 /\ ~(ServeDialog /\ d = dialog.conv) => updated'[d] > 0
  <2>1. \A d \in Convs : updated'[d] = IF d = c THEN -1 ELSE updated[d]
    BY <1>3 DEF ListTypeOK
  <2> QED
    BY <1>0, <1>3, <2>1
<1> QED
  BY <1>1, <1>2, <1>3, ServerMoves

(* What the user is told: a creation, a rename or a deletion, once each.     *)
LEMMA ToldMoves ==
    ASSUME ListTypeOK, DialogInv, OlderInv, [ListNext]_listVars
    PROVE  \/ UNCHANGED <<told, gone>>
           \/ /\ CreateReturns /\ create.phase = "answered" /\ create.conv \in Convs /\ UNCHANGED gone
              /\ told' = [told EXCEPT ![create.conv] = create.stamp]
           \/ /\ RenameReturns /\ dialog.conv \in Convs /\ UNCHANGED gone
              /\ told' = [told EXCEPT ![dialog.conv] = dialog.stamp]
           \/ /\ DeleteReturns /\ dialog.conv \in Convs /\ UNCHANGED told
              /\ gone' = gone \cup {dialog.conv}
<1>1. CASE CreateReturns
  BY <1>1 DEF CreateReturns, OlderInv
<1>2. CASE RenameReturns
  BY <1>2 DEF RenameReturns, DialogInv
<1>3. CASE DeleteReturns
  BY <1>3 DEF DeleteReturns, DialogInv
<1>4. ASSUME ~CreateReturns, ~RenameReturns, ~DeleteReturns PROVE UNCHANGED <<told, gone>>
  BY <1>4 DEF ListNext, ServeFirst, ServeMore, ServeRead, FirstReturns, MoreReturns, ListFails,
     ServeCreate, ServeDialog, ServePost, DialogFails, ReadReturns, Retry, LoadMore,
     CreateNew, Open, Confirm, listVars, listHistory
<1> QED
  BY <1>1, <1>2, <1>3, <1>4

LEMMA ServerStep ==
    ListTypeOK /\ DialogInv /\ OlderInv /\ ServerInv /\ [ListNext]_listVars => ServerInv'
<1>0. SUFFICES ASSUME ListTypeOK, DialogInv, OlderInv, ServerInv, [ListNext]_listVars,
                      NEW c \in Convs
               PROVE  /\ updated'[c] <= clock' /\ told'[c] <= clock'
                      /\ updated'[c] > 0 => told'[c] <= updated'[c]
                      /\ c \in gone' => updated'[c] = -1
  BY DEF ServerInv, Exists
<1>1. /\ clock' \in Nat /\ clock <= clock' /\ clock \in Nat
      /\ updated[c] \in Int /\ updated'[c] \in Int /\ updated'[c] <= clock'
      /\ updated[c] # 0 => updated'[c] # 0
      /\ updated[c] = -1 => updated'[c] = -1
      /\ updated'[c] > 0 => updated[c] <= updated'[c]
      /\ told[c] \in Int /\ told[c] <= clock /\ (updated[c] > 0 => told[c] <= updated[c])
      /\ c \in gone => updated[c] = -1
  BY <1>0, ServerGoesOn, ConstantsAreNumbers DEF ListTypeOK, ServerInv, Exists
<1>2. CASE UNCHANGED <<told, gone>>
  <2>1. updated'[c] > 0 /\ ~(updated[c] > 0) => told[c] = 0 \/ told[c] <= updated'[c]
    <3>1. CASE UNCHANGED serverState
      BY <3>1, <1>1 DEF serverState
    <3>2. ASSUME NEW d \in Convs, Touch(d)
          PROVE  updated'[c] > 0 /\ ~(updated[c] > 0) => told[c] <= updated'[c]
      <4>1. updated'[c] = IF c = d THEN clock + 1 ELSE updated[c]
        BY <3>2, <1>0 DEF Touch, ListTypeOK
      <4> QED
        BY <4>1, <1>1
    <3>3. ASSUME NEW d \in Convs, updated' = [updated EXCEPT ![d] = -1]
          PROVE  updated'[c] > 0 => updated[c] > 0
      <4>1. updated'[c] = IF c = d THEN -1 ELSE updated[c]
        BY <3>3, <1>0 DEF ListTypeOK
      <4> QED
        BY <4>1, <1>1
    <3> QED
      BY <1>0, <3>1, <3>2, <3>3, ServerMoves
  <2> QED
    BY <1>1, <1>2, <2>1
<1>3. CASE /\ CreateReturns /\ create.phase = "answered" /\ create.conv \in Convs /\ UNCHANGED gone
           /\ told' = [told EXCEPT ![create.conv] = create.stamp]
  <2>1. told'[c] = IF c = create.conv THEN create.stamp ELSE told[c]
    BY <1>0, <1>3 DEF ListTypeOK
  <2>2. UNCHANGED <<updated, clock>>
    BY <1>3 DEF CreateReturns, serverState
  <2>3. create.stamp \in 1 .. clock /\ (updated[create.conv] > 0 => create.stamp <= updated[create.conv])
    BY <1>0, <1>3 DEF OlderInv, Exists
  <2> QED
    BY <1>1, <1>3, <2>1, <2>2, <2>3
<1>4. CASE /\ RenameReturns /\ dialog.conv \in Convs /\ UNCHANGED gone
           /\ told' = [told EXCEPT ![dialog.conv] = dialog.stamp]
  <2>1. told'[c] = IF c = dialog.conv THEN dialog.stamp ELSE told[c]
    BY <1>0, <1>4 DEF ListTypeOK
  <2>2. UNCHANGED <<updated, clock>>
    BY <1>4 DEF RenameReturns, serverState
  <2>3. dialog.stamp \in 1 .. updated[dialog.conv]
    BY <1>0, <1>4 DEF RenameReturns, DialogInv
  <2>4. updated[dialog.conv] \in Int /\ updated[dialog.conv] <= clock
    BY <1>0, <1>4 DEF ListTypeOK, ServerInv
  <2> QED
    BY <1>1, <1>4, <2>1, <2>2, <2>3, <2>4
<1>5. CASE /\ DeleteReturns /\ dialog.conv \in Convs /\ UNCHANGED told
           /\ gone' = gone \cup {dialog.conv}
  <2>1. UNCHANGED <<updated, clock>> /\ updated[dialog.conv] = -1
    BY <1>0, <1>5 DEF DeleteReturns, DialogInv, serverState
  <2> QED
    BY <1>1, <1>5, <2>1
<1> QED
  BY <1>0, <1>2, <1>3, <1>4, <1>5, ToldMoves

-----------------------------------------------------------------------------
(* The dialog.                                                               *)

LEMMA DialogMoves ==
    [ListNext]_listVars =>
        \/ ServeDialog \/ RenameReturns \/ DeleteReturns \/ DialogFails
        \/ \E c \in Convs, kind \in {"rename", "delete"} : Confirm(kind, c)
        \/ UNCHANGED dialog
  BY DEF ListNext, ServeFirst, ServeMore, ServeCreate, ServePost, ServeRead, FirstReturns,
     MoreReturns, ListFails, CreateReturns, ReadReturns, Retry, LoadMore, CreateNew, Open, listVars

LEMMA DialogStep ==
    ListTypeOK /\ DialogInv /\ OlderInv /\ ServerInv /\ [ListNext]_listVars => DialogInv'
<1>0. SUFFICES ASSUME ListTypeOK, DialogInv, OlderInv, ServerInv, [ListNext]_listVars
               PROVE  DialogInv'
  OBVIOUS
<1>1. CASE ServeDialog
  <2>1. dialog.phase = "asked" /\ dialog.conv \in Convs /\ dialog.kind \in {"rename", "delete"}
    BY <1>0, <1>1 DEF ServeDialog, DialogInv
  <2>2. CASE dialog' = [dialog EXCEPT !.phase = "broken"]
    BY <1>0, <2>1, <2>2 DEF DialogInv, ListTypeOK, Task
  <2>3. CASE /\ dialog' = [dialog EXCEPT !.phase = "answered", !.stamp = clock']
             /\ \/ dialog.kind = "rename" /\ Touch(dialog.conv)
                \/ dialog.kind = "delete" /\ updated' = [updated EXCEPT ![dialog.conv] = -1]
    <3>1. /\ dialog'.phase = "answered" /\ dialog'.stamp = clock'
          /\ dialog'.conv = dialog.conv /\ dialog'.kind = dialog.kind
      BY <1>0, <2>3 DEF ListTypeOK, Task
    <3>2. CASE dialog.kind = "rename" /\ Touch(dialog.conv)
      <4>1. updated'[dialog.conv] = clock' /\ clock' \in 1 .. clock'
        BY <1>0, <2>1, <3>2, TouchTypes DEF ListTypeOK
      <4> QED
        BY <2>1, <3>1, <3>2, <4>1 DEF DialogInv
    <3>3. CASE dialog.kind = "delete" /\ updated' = [updated EXCEPT ![dialog.conv] = -1]
      <4>1. updated'[dialog.conv] = -1
        BY <1>0, <2>1, <3>3 DEF ListTypeOK
      <4> QED
        BY <2>1, <3>1, <3>3, <4>1 DEF DialogInv
    <3> QED
      BY <2>3, <3>2, <3>3
  <2> QED
    BY <1>1, <2>2, <2>3 DEF ServeDialog
<1>2. ASSUME dialog'.phase # "answered", dialog'.phase # "idle" =>
               dialog'.conv \in Convs /\ dialog'.kind \in {"rename", "delete"}
      PROVE  DialogInv'
  BY <1>2 DEF DialogInv
<1>3. CASE RenameReturns \/ DeleteReturns
  BY <1>2, <1>3 DEF RenameReturns, DeleteReturns, NoTask
<1>4. CASE DialogFails
  BY <1>0, <1>2, <1>4 DEF DialogFails, NoTask, DialogInv, ListTypeOK, Task
<1>5. ASSUME NEW c \in Convs, NEW kind \in {"rename", "delete"}, Confirm(kind, c)
      PROVE  DialogInv'
  BY <1>2, <1>5 DEF Confirm, NoTask
<1>6. CASE UNCHANGED dialog /\ ~ServeDialog
  <2>1. ASSUME NEW c \in Convs
        PROVE  /\ updated[c] \in Int /\ updated'[c] \in Int
               /\ updated[c] = -1 => updated'[c] = -1
               /\ updated[c] > 0 => updated'[c] > 0 /\ updated[c] <= updated'[c]
    BY <1>0, <1>6, ServerGoesOn DEF ListTypeOK
  <2>2. dialog.phase = "answered" =>
          /\ dialog.conv \in Convs
          /\ dialog.kind = "rename" => dialog.stamp \in 1 .. updated'[dialog.conv]
          /\ dialog.kind = "delete" => updated'[dialog.conv] = -1
    BY <1>0, <2>1 DEF DialogInv
  <2> QED
    BY <1>0, <1>6, <2>2 DEF DialogInv
<1> QED
  BY <1>0, <1>1, <1>3, <1>4, <1>5, <1>6, DialogMoves

-----------------------------------------------------------------------------
(* Lists on their way.                                                       *)

LEMMA BumpMakesStale ==
    ASSUME ListTypeOK, BumpRevision
    PROVE  /\ ~Fresh(first)' /\ ~Fresh(more)'
           /\ first'.items = first.items /\ more'.items = more.items
  BY DEF BumpRevision, Fresh, ListTypeOK, Load

(* How the two loads change in a step.                                       *)
LEMMA LoadMoves ==
    ASSUME ListTypeOK, [ListNext]_listVars
    PROVE  /\ \/ first' \in {first, NoLoad, [NoLoad EXCEPT !.phase = "asked"],
                             [NoLoad EXCEPT !.phase = "asked", !.again = TRUE], Broken(first)}
              \/ ServeFirst /\ first' = Answered(first)
              \/ BumpRevision
           /\ \/ more' \in {more, NoLoad, [NoLoad EXCEPT !.phase = "asked", !.offset = Cardinality(list)],
                            Broken(more)}
              \/ ServeMore /\ more' = Answered(more)
              \/ BumpRevision
<1>1. CASE ServeFirst
  BY <1>1 DEF ServeFirst
<1>2. CASE ServeMore
  BY <1>2 DEF ServeMore
<1>3. CASE FirstReturns \/ MoreReturns \/ ListFails
  BY <1>3 DEF FirstReturns, MoreReturns, ListFails
<1>4. CASE CreateReturns \/ RenameReturns \/ DeleteReturns \/ ReadReturns
  BY <1>4 DEF CreateReturns, RenameReturns, DeleteReturns, ReadReturns, Upsert
<1>5. CASE Retry \/ LoadMore
  BY <1>5 DEF Retry, LoadMore
<1>6. CASE \/ ServeCreate \/ ServeDialog \/ ServePost \/ ServeRead \/ DialogFails \/ CreateNew
           \/ \E c \in Convs : Open(c) \/ (\E kind \in {"rename", "delete"} : Confirm(kind, c))
           \/ UNCHANGED listVars
  BY <1>6 DEF ServeCreate, ServeDialog, ServePost, ServeRead, DialogFails, CreateNew, Open,
     Confirm, listVars
<1> QED
  BY <1>1, <1>2, <1>3, <1>4, <1>5, <1>6 DEF ListNext

LEMMA LoadStep ==
    ListTypeOK /\ LoadInv /\ DialogInv /\ OlderInv /\ ServerInv /\ [ListNext]_listVars => LoadInv'
<1>0. SUFFICES ASSUME ListTypeOK, LoadInv, DialogInv, OlderInv, ServerInv, [ListNext]_listVars
               PROVE  LoadInv'
  OBVIOUS
<1> DEFINE Distinct(load) == \A e, f \in load.items : e.id = f.id => e = f
           NoneGone(load) == \A e \in load.items : e.id \notin gone
<1>1. \A load \in Load : /\ Answered(load).items = Page(load.offset)
                         /\ Answered(load).clock = clock
                         /\ Broken(load).items = load.items
                         /\ ~Fresh(Broken(load))
  BY DEF Answered, Broken, Load, Fresh
<1>2. \A offset : /\ \A e, f \in Page(offset) : e.id = f.id => e = f
                  /\ \A e \in Page(offset) : e.id \notin gone
  BY <1>0, PageType DEF ServerInv, Exists, Entry
<1>3. {first, more} \subseteq Load
  BY <1>0 DEF ListTypeOK
<1>4. CASE BumpRevision
  <2>1. ~Fresh(first)' /\ ~Fresh(more)'
    BY <1>0, <1>4, BumpMakesStale
  <2>2. Distinct(first') /\ Distinct(more')
    BY <1>0, <1>4, BumpMakesStale DEF LoadInv
  <2> QED
    BY <2>1, <2>2 DEF LoadInv
<1>5. CASE ~BumpRevision
  <2>1. UNCHANGED <<told, gone>>
    BY <1>0, <1>5, ToldMoves DEF CreateReturns, RenameReturns, DeleteReturns, Upsert
  <2>2. ASSUME NEW load \in {NoLoad, [NoLoad EXCEPT !.phase = "asked"],
                             [NoLoad EXCEPT !.phase = "asked", !.again = TRUE],
                             [NoLoad EXCEPT !.phase = "asked", !.offset = Cardinality(list)]}
        PROVE  Distinct(load) /\ ~Fresh(load)
    <3>1. CASE load = NoLoad
      BY <3>1 DEF NoLoad, Fresh
    <3>2. CASE load = [NoLoad EXCEPT !.phase = "asked"]
      BY <3>2 DEF NoLoad, Fresh
    <3>3. CASE load = [NoLoad EXCEPT !.phase = "asked", !.again = TRUE]
      BY <3>3 DEF NoLoad, Fresh
    <3>4. CASE load = [NoLoad EXCEPT !.phase = "asked", !.offset = Cardinality(list)]
      BY <3>4 DEF NoLoad, Fresh
    <3> QED
      BY <2>2, <3>1, <3>2, <3>3, <3>4
  <2>3. /\ Distinct(first')
        /\ Fresh(first') => NoneGone(first') /\ \A c \in Convs : told[c] <= first'.clock
    <3>1. CASE first' = first
      BY <1>0, <3>1 DEF LoadInv
    <3>2. CASE first' = Broken(first)
      BY <1>0, <1>1, <1>3, <3>2 DEF LoadInv
    <3>3. CASE ServeFirst /\ first' = Answered(first)
      BY <1>0, <1>1, <1>2, <1>3, <3>3 DEF ServerInv
    <3> QED
      BY <1>0, <1>5, <2>2, <3>1, <3>2, <3>3, LoadMoves
  <2>4. Distinct(more') /\ (Fresh(more') => NoneGone(more'))
    <3>1. CASE more' = more
      BY <1>0, <3>1 DEF LoadInv
    <3>2. CASE more' = Broken(more)
      BY <1>0, <1>1, <1>3, <3>2 DEF LoadInv
    <3>3. CASE ServeMore /\ more' = Answered(more)
      BY <1>0, <1>1, <1>2, <1>3, <3>3
    <3> QED
      BY <1>0, <1>5, <2>2, <3>1, <3>2, <3>3, LoadMoves
  <2> QED
    BY <2>1, <2>3, <2>4 DEF LoadInv, Fresh
<1> QED
  BY <1>4, <1>5

-----------------------------------------------------------------------------
(* Answers that are older than the list.                                     *)

CreateOlder ==
    create.phase = "answered" =>
        /\ create.conv \in Convs /\ create.stamp \in 1 .. clock
        /\ updated[create.conv] # 0
        /\ Exists(create.conv) => create.stamp <= updated[create.conv]
        /\ create.conv \notin raced => Exists(create.conv)

ReadOlder ==
    /\ read.phase # "idle" => read.conv \in Convs /\ updated[read.conv] # 0
    /\ read.phase = "answered" =>
         /\ read.stamp \in 1 .. clock
         /\ read.conv \notin raced =>
              /\ told[read.conv] <= read.stamp /\ read.stamp <= updated[read.conv]
              /\ dialog.phase = "answered" /\ dialog.conv = read.conv => dialog.stamp <= read.stamp
              /\ create.phase = "answered" /\ create.conv = read.conv => create.stamp <= read.stamp

LEMMA OlderIsTwo == OlderInv <=> CreateOlder /\ ReadOlder
  BY DEF OlderInv, CreateOlder, ReadOlder

(* A change of a conversation that an older answer is about is recorded.     *)
LEMMA RacesAreSeen ==
    ASSUME ListTypeOK, [ListNext]_listVars
    PROVE  /\ raced \subseteq raced'
           /\ ServeDialog /\ UNCHANGED raced =>
                \/ UNCHANGED serverState /\ dialog' = [dialog EXCEPT !.phase = "broken"]
                \/ create.conv # dialog.conv /\ ~(read.conv = dialog.conv /\ read.phase = "answered")
                \/ dialog.conv \in raced
           /\ ServeDialog => UNCHANGED <<create, read, told, gone>>
<1>1. CASE ServeDialog
  BY <1>1 DEF ServeDialog
<1>2. CASE ~ServeDialog
  BY <1>2 DEF ListNext, ServeFirst, ServeMore, ServeCreate, ServePost, ServeRead, FirstReturns,
     MoreReturns, ListFails, CreateReturns, RenameReturns, DeleteReturns, DialogFails, ReadReturns,
     Retry, LoadMore, CreateNew, Open, Confirm, listVars, listHistory
<1> QED
  BY <1>1, <1>2

LEMMA CreateMoves ==
    [ListNext]_listVars => ServeCreate \/ UNCHANGED create \/ create'.phase # "answered"
<1>1. NoTask.phase # "answered" /\ [NoTask EXCEPT !.phase = "asked"].phase # "answered"
  BY DEF NoTask
<1>2. [ListNext]_listVars =>
        \/ ServeCreate \/ UNCHANGED create
        \/ create' = NoTask \/ create' = [NoTask EXCEPT !.phase = "asked"]
  BY DEF ListNext, ServeFirst, ServeMore, ServeDialog, ServePost, ServeRead, FirstReturns,
     MoreReturns, ListFails, CreateReturns, RenameReturns, DeleteReturns, DialogFails, ReadReturns,
     Retry, LoadMore, CreateNew, Open, Confirm, listVars
<1> QED
  BY <1>1, <1>2

LEMMA CreateOlderStep ==
    ListTypeOK /\ DialogInv /\ OlderInv /\ ServerInv /\ [ListNext]_listVars => CreateOlder'
<1>0. SUFFICES ASSUME ListTypeOK, DialogInv, OlderInv, ServerInv, [ListNext]_listVars
               PROVE  CreateOlder'
  OBVIOUS
<1>1. CASE ServeCreate
  <2>1. ASSUME NEW c \in Convs, Touch(c),
               create' = [create EXCEPT !.phase = "answered", !.conv = c, !.stamp = clock']
        PROVE  CreateOlder'
    <3>1. updated'[c] = clock' /\ clock' \in 1 .. clock'
      BY <1>0, <2>1, TouchTypes DEF ListTypeOK
    <3>2. create'.conv = c /\ create'.stamp = clock'
      BY <1>0, <2>1 DEF ListTypeOK, Task
    <3> QED
      BY <3>1, <3>2 DEF CreateOlder, Exists
  <2>2. CASE create' = [create EXCEPT !.phase = "broken"]
    BY <1>0, <2>2 DEF CreateOlder, ListTypeOK, Task
  <2> QED
    BY <1>1, <2>1, <2>2 DEF ServeCreate
<1>2. CASE create'.phase # "answered"
  BY <1>2 DEF CreateOlder
<1>3. CASE UNCHANGED create /\ create.phase = "answered"
  <2>1. /\ create.conv \in Convs /\ create.stamp \in 1 .. clock
        /\ updated[create.conv] # 0
        /\ Exists(create.conv) => create.stamp <= updated[create.conv]
        /\ create.conv \notin raced => Exists(create.conv)
    BY <1>0, <1>3 DEF OlderInv
  <2>2. /\ clock' \in Nat /\ clock <= clock' /\ clock \in Nat
        /\ updated[create.conv] \in -1 .. MaxClock /\ updated'[create.conv] \in Int
        /\ updated[create.conv] # 0 => updated'[create.conv] # 0
        /\ updated[create.conv] = -1 => updated'[create.conv] = -1
        /\ updated'[create.conv] > 0 => updated[create.conv] <= updated'[create.conv]
        /\ updated[create.conv] > 0 /\ ~(ServeDialog /\ create.conv = dialog.conv)
             => updated'[create.conv] > 0
    BY <1>0, <2>1, ServerGoesOn DEF ListTypeOK
  <2>3. create.conv \notin raced' => updated'[create.conv] > 0
    <3>1. SUFFICES ASSUME create.conv \notin raced' PROVE updated'[create.conv] > 0
      OBVIOUS
    <3>2. create.conv \notin raced /\ updated[create.conv] > 0
      BY <1>0, <3>1, <2>1, RacesAreSeen DEF Exists
    <3>3. CASE ServeDialog /\ create.conv = dialog.conv
      <4>1. UNCHANGED updated
        BY <3>1, <3>2, <3>3 DEF ServeDialog, serverState
      <4> QED
        BY <4>1, <3>2
    <3> QED
      BY <3>2, <3>3, <2>2
  <2>4. updated'[create.conv] > 0 => create.stamp <= updated'[create.conv]
    BY <2>1, <2>2, ConstantsAreNumbers DEF Exists
  <2> QED
    BY <1>3, <2>1, <2>2, <2>3, <2>4 DEF CreateOlder, Exists
<1> QED
  BY <1>0, <1>1, <1>2, <1>3, CreateMoves

LEMMA ReadOlderStep ==
    ListTypeOK /\ DialogInv /\ OlderInv /\ ServerInv /\ [ListNext]_listVars => ReadOlder'
<1>0. SUFFICES ASSUME ListTypeOK, DialogInv, OlderInv, ServerInv, [ListNext]_listVars
               PROVE  ReadOlder'
  OBVIOUS
<1>1. /\ clock' \in Nat /\ clock <= clock' /\ clock \in Nat
      /\ \A c \in Convs :
           /\ updated[c] \in Int /\ updated[c] <= clock /\ updated'[c] \in Int
           /\ updated[c] # 0 => updated'[c] # 0
           /\ updated[c] > 0 /\ ~(ServeDialog /\ c = dialog.conv)
                => updated'[c] > 0 /\ updated[c] <= updated'[c]
           /\ told[c] \in Int /\ (Exists(c) => told[c] <= updated[c])
  BY <1>0, ServerGoesOn DEF ListTypeOK, ServerInv
<1>2. CASE ServeRead
  <2>1. read.conv \in Convs /\ updated[read.conv] # 0
    BY <1>0, <1>2 DEF ServeRead, OlderInv
  <2>2. UNCHANGED <<updated, clock, raced, told, dialog, create>>
    BY <1>2 DEF ServeRead, serverState, listHistory
  <2>3. CASE read' = [read EXCEPT !.phase = "broken"]
    BY <1>0, <2>1, <2>2, <2>3 DEF ReadOlder, ListTypeOK, Task
  <2>4. CASE Exists(read.conv) /\ read' = [read EXCEPT !.phase = "answered", !.stamp = updated[read.conv]]
    <3>1. read'.conv = read.conv /\ read'.stamp = updated[read.conv] /\ read'.phase = "answered"
      BY <1>0, <2>4 DEF ListTypeOK, Task
    <3>2. dialog.phase = "answered" /\ dialog.conv = read.conv => dialog.stamp <= updated[read.conv]
      BY <1>0, <2>4 DEF DialogInv, Exists
    <3>3. create.phase = "answered" /\ create.conv = read.conv => create.stamp <= updated[read.conv]
      BY <1>0, <2>4 DEF OlderInv
    <3>4. updated[read.conv] \in 1 .. clock /\ told[read.conv] <= updated[read.conv]
      BY <1>1, <2>1, <2>4 DEF Exists
    <3> QED
      BY <2>1, <2>2, <3>1, <3>2, <3>3, <3>4 DEF ReadOlder
  <2> QED
    BY <1>2, <2>3, <2>4 DEF ServeRead
<1>3. CASE ReadReturns
  BY <1>3 DEF ReadReturns, ReadOlder, NoTask
<1>4. CASE ServePost
  <2>1. read'.conv = read.conv /\ read'.phase = "asked"
    BY <1>0, <1>4 DEF ServePost, ListTypeOK, Task
  <2> QED
    BY <1>0, <1>1, <1>4, <2>1 DEF ServePost, ReadOlder, OlderInv
<1>5. ASSUME NEW c \in Convs, Open(c) PROVE ReadOlder'
  <2>1. read'.conv = c /\ read'.phase \in {"asked", "posting"}
    BY <1>5 DEF Open, NoTask
  <2>2. updated'[c] > 0
    BY <1>5 DEF Open, Exists, serverState
  <2> QED
    BY <2>1, <2>2 DEF ReadOlder
<1>6. CASE UNCHANGED read
  <2>1. read.phase # "idle" => read.conv \in Convs /\ updated'[read.conv] # 0
    BY <1>0, <1>1 DEF OlderInv
  <2>2. ASSUME read.phase = "answered"
        PROVE  /\ read.stamp \in 1 .. clock'
               /\ read.conv \notin raced' =>
                    /\ told'[read.conv] <= read.stamp /\ read.stamp <= updated'[read.conv]
                    /\ dialog'.phase = "answered" /\ dialog'.conv = read.conv => dialog'.stamp <= read.stamp
                    /\ create'.phase = "answered" /\ create'.conv = read.conv => create'.stamp <= read.stamp
    <3>1. read.conv \in Convs /\ read.stamp \in 1 .. clock /\ updated[read.conv] # 0
      BY <1>0, <2>2 DEF OlderInv
    <3>2. SUFFICES ASSUME read.conv \notin raced'
                   PROVE  /\ told'[read.conv] <= read.stamp /\ read.stamp <= updated'[read.conv]
                          /\ dialog'.phase = "answered" /\ dialog'.conv = read.conv => dialog'.stamp <= read.stamp
                          /\ create'.phase = "answered" /\ create'.conv = read.conv => create'.stamp <= read.stamp
      BY <1>1, <3>1
    <3>3. /\ told[read.conv] <= read.stamp /\ read.stamp <= updated[read.conv]
          /\ dialog.phase = "answered" /\ dialog.conv = read.conv => dialog.stamp <= read.stamp
          /\ create.phase = "answered" /\ create.conv = read.conv => create.stamp <= read.stamp
      BY <1>0, <2>2, <3>2, RacesAreSeen DEF OlderInv
    <3>4. ServeDialog /\ dialog.conv = read.conv =>
             UNCHANGED serverState /\ dialog' = [dialog EXCEPT !.phase = "broken"]
      BY <2>2, <3>2 DEF ServeDialog
    <3>5. read.stamp <= updated'[read.conv]
      <4>1. CASE ServeDialog /\ dialog.conv = read.conv
        BY <3>3, <3>4, <4>1 DEF serverState
      <4>2. CASE ~(ServeDialog /\ dialog.conv = read.conv)
        BY <1>1, <3>1, <3>3, <4>2
      <4> QED
        BY <4>1, <4>2
    <3>6. told'[read.conv] <= read.stamp
      <4>1. CASE UNCHANGED <<told, gone>>
        BY <3>3, <4>1
      <4>2. CASE /\ CreateReturns /\ create.phase = "answered" /\ create.conv \in Convs
                 /\ told' = [told EXCEPT ![create.conv] = create.stamp]
        BY <1>0, <3>1, <3>3, <4>2 DEF ListTypeOK
      <4>3. CASE /\ RenameReturns /\ dialog.conv \in Convs
                 /\ told' = [told EXCEPT ![dialog.conv] = dialog.stamp]
        BY <1>0, <3>1, <3>3, <4>3 DEF ListTypeOK, RenameReturns
      <4> QED
        BY <1>0, <3>3, <4>1, <4>2, <4>3, ToldMoves
    <3>7. dialog'.phase = "answered" /\ dialog'.conv = read.conv => dialog'.stamp <= read.stamp
      <4>1. CASE ServeDialog
        <5>1. dialog'.conv = dialog.conv
          BY <1>0, <4>1 DEF ServeDialog, ListTypeOK, Task
        <5>2. [dialog EXCEPT !.phase = "broken"].phase = "broken"
          BY <1>0 DEF ListTypeOK, Task
        <5> QED
          BY <3>4, <4>1, <5>1, <5>2
      <4>2. CASE UNCHANGED dialog
        BY <3>3, <4>2
      <4>3. CASE dialog'.phase # "answered"
        BY <4>3
      <4>4. CASE DialogFails
        BY <1>0, <4>4, <4>3 DEF DialogFails, NoTask, ListTypeOK, Task
      <4>5. CASE RenameReturns \/ DeleteReturns
        BY <4>5, <4>3 DEF RenameReturns, DeleteReturns, NoTask
      <4>6. ASSUME NEW c \in Convs, NEW kind \in {"rename", "delete"}, Confirm(kind, c)
            PROVE  dialog'.phase # "answered"
        BY <4>6 DEF Confirm, NoTask
      <4> QED
        BY <1>0, <4>1, <4>2, <4>3, <4>4, <4>5, <4>6, DialogMoves
    <3>8. create'.phase = "answered" /\ create'.conv = read.conv => create'.stamp <= read.stamp
      <4>1. CASE ServeCreate
        <5>1. ASSUME NEW c \in Convs, updated[c] = 0,
                     create' = [create EXCEPT !.phase = "answered", !.conv = c, !.stamp = clock']
              PROVE  create'.conv # read.conv
          BY <1>0, <3>1, <5>1 DEF ListTypeOK, Task
        <5>2. CASE create' = [create EXCEPT !.phase = "broken"]
          BY <1>0, <5>2 DEF ListTypeOK, Task
        <5> QED
          BY <4>1, <5>1, <5>2 DEF ServeCreate
      <4>2. CASE UNCHANGED create
        BY <3>3, <4>2
      <4>3. CASE create'.phase # "answered"
        BY <4>3
      <4> QED
        BY <1>0, <4>1, <4>2, <4>3, CreateMoves
    <3> QED
      BY <3>5, <3>6, <3>7, <3>8
  <2> QED
    BY <1>6, <2>1, <2>2 DEF ReadOlder
<1>7. \/ ServeRead \/ ReadReturns \/ ServePost \/ (\E c \in Convs : Open(c)) \/ UNCHANGED read
  BY <1>0 DEF ListNext, ServeFirst, ServeMore, ServeCreate, ServeDialog, FirstReturns,
     MoreReturns, ListFails, CreateReturns, RenameReturns, DeleteReturns, DialogFails,
     Retry, LoadMore, CreateNew, Confirm, listVars
<1> QED
  BY <1>2, <1>3, <1>4, <1>5, <1>6, <1>7

-----------------------------------------------------------------------------
(* The total.                                                                *)

LEMMA CreatedGrows ==
    ASSUME ListTypeOK, DialogInv, OlderInv, ServerInv, [ListNext]_listVars
    PROVE  /\ Cardinality(Created) \in Nat /\ Cardinality(Created)' \in Nat
           /\ Cardinality(Created) <= Cardinality(Created)'
           /\ create'.phase = "answered" /\ create.phase # "answered" =>
                Cardinality(Created)' = Cardinality(Created) + 1
<1>1. Created \subseteq Created' /\ Created' \subseteq Convs
  BY ServerGoesOn DEF Created
<1>2. /\ Cardinality(Created) \in Nat /\ Cardinality(Created)' \in Nat
      /\ IsFiniteSet(Created) /\ IsFiniteSet(Created')
  <2>1. \A S \in SUBSET Convs : IsFiniteSet(S) /\ Cardinality(S) \in Nat
    BY ConvsAreCounted
  <2> QED
    BY <2>1, <1>1
<1>3. Cardinality(Created) <= Cardinality(Created)'
  BY <1>1, <1>2, FS_Subset
<1>4. ASSUME create'.phase = "answered", create.phase # "answered"
      PROVE  Cardinality(Created)' = Cardinality(Created) + 1
  <2>1. PICK c \in Convs : updated[c] = 0 /\ Touch(c)
    <3>1. ServeCreate
      BY <1>4, CreateMoves
    <3>2. [create EXCEPT !.phase = "broken"].phase = "broken"
      BY DEF ListTypeOK, Task
    <3> QED
      BY <3>1, <3>2, <1>4 DEF ServeCreate
  <2>2. Created' = Created \cup {c} /\ c \notin Created
    <3>1. \A d \in Convs : updated'[d] = IF d = c THEN clock + 1 ELSE updated[d]
      BY <2>1 DEF Touch, ListTypeOK
    <3>2. clock + 1 # 0
      BY ConstantsAreNumbers DEF ListTypeOK
    <3> QED
      BY <2>1, <3>1, <3>2 DEF Created
  <2> QED
    BY <1>2, <2>2, FS_AddElement
<1> QED
  BY <1>2, <1>3, <1>4

LEMMA TotalStep ==
    ListTypeOK /\ DialogInv /\ OlderInv /\ ServerInv /\ TotalInv /\ [ListNext]_listVars => TotalInv'
<1>0. SUFFICES ASSUME ListTypeOK, DialogInv, OlderInv, ServerInv, TotalInv, [ListNext]_listVars
               PROVE  TotalInv'
  OBVIOUS
<1> DEFINE n == Cardinality(Created)
<1>1. /\ n \in Nat /\ n' \in Nat /\ n <= n'
      /\ create'.phase = "answered" /\ create.phase # "answered" => n' = n + 1
  BY <1>0, CreatedGrows
<1>2. total \in Nat /\ {first.total, more.total} \subseteq 0 .. n
  BY <1>0, ConvsAreCounted DEF ListTypeOK, TotalInv
<1>3. Cardinality(Stored) \in 0 .. n
  <2>1. Stored \subseteq Created /\ Created \subseteq Convs
    BY DEF Stored, Created, Exists
  <2>2. IsFiniteSet(Created) /\ IsFiniteSet(Stored) /\ Cardinality(Stored) \in Nat
    BY <2>1, ConvsAreCounted
  <2> QED
    BY <2>1, <2>2, FS_Subset
<1>4. {first'.total, more'.total} \subseteq 0 .. n
  <2>1. {first, more} \subseteq Load
    BY <1>0 DEF ListTypeOK
  <2>2. \A load \in Load : Answered(load).total = Cardinality(Stored) /\ Broken(load).total = load.total
    BY DEF Answered, Broken, Load
  <2>3. /\ NoLoad.total = 0 /\ [NoLoad EXCEPT !.phase = "asked"].total = 0
        /\ [NoLoad EXCEPT !.phase = "asked", !.again = TRUE].total = 0
        /\ [NoLoad EXCEPT !.phase = "asked", !.offset = Cardinality(list)].total = 0
    BY DEF NoLoad
  <2>4. BumpRevision => first'.total = first.total /\ more'.total = more.total
    BY <2>1 DEF BumpRevision, Load
  <2>5. first'.total \in {first.total, 0, Cardinality(Stored)}
    BY <1>0, <2>1, <2>2, <2>3, <2>4, LoadMoves
  <2>6. more'.total \in {more.total, 0, Cardinality(Stored)}
    BY <1>0, <2>1, <2>2, <2>3, <2>4, LoadMoves
  <2> QED
    BY <1>1, <1>2, <1>3, <2>5, <2>6
<1>5. /\ total' \in Nat
      /\ total' <= n + 1
      /\ create'.phase = "answered" /\ create.phase = "answered" => total' <= n
  <2>1. CASE UNCHANGED total
    BY <1>0, <1>1, <1>2, <2>1 DEF TotalInv
  <2>2. CASE FirstReturns \/ MoreReturns
    BY <1>0, <1>1, <1>2, <2>1, <2>2 DEF FirstReturns, MoreReturns, sidebar
  <2>3. CASE CreateReturns
    <3>1. create'.phase # "answered"
      BY <2>3 DEF CreateReturns, NoTask
    <3>2. CASE create.phase = "answered"
      BY <1>0, <1>1, <1>2, <2>3, <3>1, <3>2 DEF CreateReturns, TotalInv
    <3>3. CASE create.phase # "answered"
      BY <2>1, <2>3, <3>3 DEF CreateReturns
    <3> QED
      BY <3>2, <3>3
  <2>4. CASE DeleteReturns
    <3>1. total' \in Nat /\ (total' <= total \/ total' = 0)
      BY <1>2, <2>4, OneLessIs DEF DeleteReturns
    <3>2. UNCHANGED create
      BY <2>4 DEF DeleteReturns
    <3>3. total <= n + 1 /\ (create.phase = "answered" => total <= n)
      BY <1>0 DEF TotalInv
    <3> QED
      BY <1>1, <1>2, <3>1, <3>2, <3>3
  <2> QED
    BY <1>0, <2>1, <2>2, <2>3, <2>4 DEF ListNext, ServeFirst, ServeMore, ServeCreate, ServeDialog,
       ServePost, ServeRead, ListFails, RenameReturns, DialogFails, ReadReturns, Retry, LoadMore,
       CreateNew, Open, Confirm, listVars, sidebar
<1>6. /\ {first'.total, more'.total} \subseteq 0 .. n'
      /\ total' <= n' + 1
      /\ create'.phase = "answered" => total' <= n'
  BY <1>1, <1>4, <1>5
<1> QED
  BY <1>6 DEF TotalInv

-----------------------------------------------------------------------------
(* The list.                                                                 *)

LEMMA PropertyStep == ListInv /\ [ListNext]_listVars => OlderAnswersDoNotUndo'
<1>0. SUFFICES ASSUME ListInv, [ListNext]_listVars, NEW c \in Convs, c \notin raced'
               PROVE  /\ c \in gone' => ~Listed(c)'
                      /\ told'[c] > asof' /\ c \notin gone' =>
                           \E e \in list' : e.id = c /\ e.stamp >= told'[c]
  BY DEF OlderAnswersDoNotUndo
<1>1. c \notin raced
  BY <1>0, RacesAreSeen DEF ListInv
<1>2. /\ c \in gone => ~Listed(c)
      /\ told[c] > asof /\ c \notin gone => \E e \in list : e.id = c /\ e.stamp >= told[c]
  BY <1>0, <1>1 DEF ListInv, OlderAnswersDoNotUndo
<1>3. told[c] \in Int /\ asof \in Int
  BY <1>0 DEF ListInv, ListTypeOK
<1>4. CASE FirstReturns
  <2>1. CASE ~first.changed
    <3>1. Fresh(first)
      BY <1>4, <2>1 DEF FirstReturns, Fresh
    <3>2. list' = first.items /\ asof' = first.clock /\ UNCHANGED <<told, gone>>
      BY <1>4, <2>1 DEF FirstReturns
    <3>3. told[c] <= first.clock /\ first.clock \in Int
      BY <1>0, <3>1 DEF ListInv, LoadInv, ListTypeOK, Load
    <3>4. c \in gone => \A e \in first.items : e.id # c
      BY <1>0, <3>1 DEF ListInv, LoadInv
    <3> QED
      BY <1>3, <3>2, <3>3, <3>4 DEF Listed
  <2>2. CASE first.changed
    BY <1>2, <1>4, <2>2 DEF FirstReturns, Listed, sidebar
  <2> QED
    BY <2>1, <2>2
<1>5. CASE MoreReturns
  <2>1. UNCHANGED <<told, gone, asof>>
    BY <1>5 DEF MoreReturns, listHistory
  <2>2. list \subseteq list' /\ (c \in gone => \A e \in list' : e \in list \/ e.id # c)
    BY <1>0, <1>5 DEF MoreReturns, ListInv, LoadInv, Fresh
  <2> QED
    BY <1>2, <2>1, <2>2 DEF Listed
<1>6. ASSUME NEW d \in Convs, NEW stamp, Upsert(d, stamp), UNCHANGED <<gone, asof>>,
             d = c => c \notin gone /\ stamp >= told'[c],
             d # c => told'[c] = told[c]
      PROVE  /\ c \in gone' => ~Listed(c)'
             /\ told'[c] > asof' /\ c \notin gone' =>
                  \E e \in list' : e.id = c /\ e.stamp >= told'[c]
  <2>1. list' = {e \in list : e.id # d} \cup {[id |-> d, stamp |-> stamp]}
    BY <1>6 DEF Upsert, Without
  <2>2. CASE d = c
    <3>1. [id |-> d, stamp |-> stamp] \in list'
      BY <2>1
    <3>2. c \notin gone' /\ stamp >= told'[c]
      BY <1>6, <2>2
    <3> QED
      BY <2>2, <3>1, <3>2
  <2>3. CASE d # c
    BY <1>2, <1>6, <2>1, <2>3 DEF Listed
  <2> QED
    BY <2>2, <2>3
<1>7. CASE CreateReturns /\ create.phase = "answered"
  <2>1. /\ create.conv \in Convs /\ create.stamp \in Int
        /\ create.conv = c => c \notin gone
    BY <1>0, <1>1, <1>7 DEF ListInv, OlderInv, ServerInv, ListTypeOK, Exists
  <2>2. told'[c] = IF create.conv = c THEN create.stamp ELSE told[c]
    BY <1>0, <1>7 DEF CreateReturns, ListInv, ListTypeOK
  <2> QED
    BY <1>6, <1>7, <2>1, <2>2 DEF CreateReturns
<1>8. CASE RenameReturns
  <2>1. /\ dialog.conv \in Convs /\ dialog.stamp \in Int
        /\ dialog.conv = c => c \notin gone
    BY <1>0, <1>8 DEF RenameReturns, ListInv, DialogInv, ServerInv, ListTypeOK
  <2>2. told'[c] = IF dialog.conv = c THEN dialog.stamp ELSE told[c]
    BY <1>0, <1>8 DEF RenameReturns, ListInv, ListTypeOK
  <2> QED
    BY <1>6, <1>8, <2>1, <2>2 DEF RenameReturns
<1>9. CASE DeleteReturns
  <2>1. list' = {e \in list : e.id # dialog.conv} /\ gone' = gone \cup {dialog.conv}
        /\ UNCHANGED <<told, asof>>
    BY <1>9 DEF DeleteReturns, Without
  <2> QED
    BY <1>2, <2>1 DEF Listed
<1>10. CASE ReadReturns /\ read.phase = "answered"
  <2>1. /\ read.conv \in Convs
        /\ read.conv = c => c \notin gone /\ read.stamp >= told[c]
    BY <1>0, <1>1, <1>3, <1>10 DEF ListInv, OlderInv, ServerInv, ListTypeOK
  <2>2. UNCHANGED <<told, gone, asof>> /\ Upsert(read.conv, read.stamp)
    BY <1>10 DEF ReadReturns, listHistory
  <2> QED
    BY <1>6, <2>1, <2>2
<1>11. CASE UNCHANGED <<list, told, gone, asof>>
  BY <1>2, <1>11 DEF Listed
<1> QED
  BY <1>0, <1>4, <1>5, <1>7, <1>8, <1>9, <1>10, <1>11 DEF ListNext, ServeFirst, ServeMore,
     ServeCreate, ServeDialog, ServePost, ServeRead, ListFails, CreateReturns, ReadReturns,
     DialogFails, Retry, LoadMore, CreateNew, Open, Confirm, listVars, listHistory, sidebar

LEMMA ListInitially == ListInit => ListInv
<1>0. SUFFICES ASSUME ListInit PROVE ListInv
  OBVIOUS
<1>1. clock \in 1 .. MaxClock /\ updated \in [Convs -> 0 .. clock]
  BY <1>0 DEF ListInit
<1>2. NoTask \in Task /\ [NoLoad EXCEPT !.phase = "asked"] \in Load /\ NoLoad \in Load
  BY NothingHasItsType DEF Load, Phases
<1>3. Cardinality(Convs) \in Nat /\ MaxClock \in Nat /\ MaxClicks \in Nat
  BY ConstantsAreNumbers, ConvsAreCounted
<1>4. updated \in [Convs -> -1 .. MaxClock]
  BY <1>1, <1>3
<1>5. ListTypeOK
  <2>1. ServerTypes
    BY <1>1, <1>3, <1>4 DEF ServerTypes
  <2>2. SidebarTypes
    <3>1. list = {} /\ total = 0 /\ error \in BOOLEAN
      BY <1>0 DEF ListInit
    <3>2. total \in 0 .. Cardinality(Convs) + 1
      BY <1>3, <3>1
    <3> QED
      BY <3>1, <3>2 DEF SidebarTypes
  <2>3. HistoryTypes
    <3>1. told \in [Convs -> 0 .. MaxClock]
      BY <1>0, <1>3 DEF ListInit
    <3> QED
      BY <1>0, <1>3, <3>1 DEF ListInit, HistoryTypes
  <2>4. RequestTypes
    BY <1>0, <1>2 DEF ListInit, RequestTypes
  <2> QED
    BY <2>1, <2>2, <2>3, <2>4, TypesAreFour
<1>6. ServerInv
  BY <1>0, <1>1 DEF ListInit, ServerInv, Exists
<1>7. LoadInv
  BY <1>0 DEF ListInit, LoadInv, Fresh, NoLoad
<1>8. DialogInv /\ OlderInv
  BY <1>0 DEF ListInit, DialogInv, OlderInv, NoTask
<1>9. TotalInv
  <2>1. Cardinality(Created) \in Nat
    BY ConvsAreCounted DEF Created
  <2> QED
    BY <1>0, <2>1 DEF ListInit, TotalInv, NoLoad, NoTask
<1>10. OlderAnswersDoNotUndo
  BY <1>0 DEF ListInit, OlderAnswersDoNotUndo
<1> QED
  BY <1>5, <1>6, <1>7, <1>8, <1>9, <1>10 DEF ListInv

LEMMA ListIsSafe == ListSpec => []ListInv
<1>1. ListInv /\ [ListNext]_listVars => ListInv'
  BY ListTypeStep, ServerStep, LoadStep, DialogStep, OlderIsTwo, CreateOlderStep, ReadOlderStep,
     TotalStep, PropertyStep
     DEF ListInv, OlderInv, CreateOlder, ReadOlder
<1> QED
  BY <1>1, ListInitially, PTL DEF ListSpec

(* The list, the requests about it and the total have their types; the total *)
(* is at most one more than the conversations ever created.                  *)
THEOREM ListTypesHold == ListSpec => []ListTypeOK
<1>1. ListInv => ListTypeOK
  BY DEF ListInv
<1> QED
  BY <1>1, ListIsSafe, PTL

(* No list, however late and for however many conversations, takes back what *)
(* the user was told of one that no other older answer was about.            *)
THEOREM AcknowledgedStays == ListSpec => []OlderAnswersDoNotUndo
<1>1. ListInv => OlderAnswersDoNotUndo
  BY DEF ListInv
<1> QED
  BY <1>1, ListIsSafe, PTL
=============================================================================
