-------------------------------- MODULE Session --------------------------------
(***************************************************************************)
(* Accounts and the browser's session: registration against the unique     *)
(* index on users.email, login, the token in localStorage, the profile the *)
(* AuthProvider shows, and the 401 that any answer may bring, however late.*)
(*                                                                         *)
(* A login has the name of the token it obtains.  One tab is modelled, and *)
(* a reload of it; what it left under way is never heard of again.         *)
(*                                                                         *)
(* A definition right before IndexAdmits, Verdict, FormShown or            *)
(* MountWorkspace is a defect that no action uses; README.md says what     *)
(* these variants are for.                                                 *)
(***************************************************************************)
EXTENDS Integers

CONSTANTS
    Emails,         \* normalized addresses
    Existing,       \* those with an account from the start
    Registrations,  \* POST /auth/register calls
    EmailOf,        \* the address each names
    Logins,         \* submissions of the login form, and the tokens they obtain
    AccountOf,      \* the address each names
    Requests,       \* authenticated requests that may be under way at once
    MaxReloads,     \* how often the tab is reloaded (a bound of the model)
    None            \* no token, nobody

ASSUME ConstantsAssumption ==
    /\ Existing \subseteq Emails
    /\ EmailOf \in [Registrations -> Emails]
    /\ AccountOf \in [Logins -> Emails]
    /\ MaxReloads \in Nat
    /\ None \notin Emails \cup Registrations \cup Logins

VARIABLES
    accounts,    \* the users table: absent, active or inactive
    creator,     \* the registration whose row an address has
    reg,         \* how far each registration has come
    expired,     \* tokens past their exp
    token,       \* localStorage
    user,        \* AuthProvider's user
    loading,     \* its isLoading
    listing,     \* the sidebar's list: unasked until the workspace is mounted, asked
                 \* for, or failed: the page shows that
    asking,      \* the sidebar's requests under way
    restore,     \* refreshCurrentUser of this page load: its token and progress
    login,       \* how far each login() has come
    req,         \* authenticated requests under way
    overlapped,  \* in this page load, a login was submitted while another ran
    reloads

table == <<accounts, creator, reg, expired>>
page == <<token, user, loading, listing, asking>>
exchanges == <<restore, login, req>>
history == <<overlapped, reloads>>
vars == <<table, page, exchanges, history>>

Tokens == Logins \cup {None}
Answers == {"ok", "401", "403", "broken"}
Idle == [token |-> None, phase |-> "idle"]
Over == [token |-> None, phase |-> "over"]
Exchange == [token : Tokens, phase : {"idle", "sent", "over"} \cup Answers]

TypeOK ==
    /\ accounts \in [Emails -> {"absent", "active", "inactive"}]
    /\ creator \in [Emails -> Registrations \cup {None}]
    /\ reg \in [Registrations -> {"idle", "checked", "created", "conflict", "error"}]
    /\ expired \in SUBSET Logins
    /\ token \in Tokens
    /\ user \in Emails \cup {None}
    /\ loading \in BOOLEAN /\ overlapped \in BOOLEAN
    /\ listing \in {"unasked", "asked", "failed"} /\ asking \in SUBSET Requests
    /\ restore \in Exchange
    /\ login \in [Logins -> {"idle", "sent", "me", "over"} \cup Answers]
    /\ req \in [Requests -> Exchange]
    /\ reloads \in 0 .. MaxReloads

Init ==
    /\ accounts = [e \in Emails |-> IF e \in Existing THEN "active" ELSE "absent"]
    /\ creator = [e \in Emails |-> None]
    /\ reg = [r \in Registrations |-> "idle"]
    /\ expired = {}
    /\ token = None /\ user = None /\ loading = TRUE
    /\ listing = "unasked" /\ asking = {}
    /\ restore = Idle
    /\ login = [l \in Logins |-> "idle"]
    /\ req = [q \in Requests |-> Idle]
    /\ overlapped = FALSE /\ reloads = 0

-----------------------------------------------------------------------------
(* The backend.  A registration selects, hashes the password, and inserts. *)

Registers(r, from, to) ==
    /\ reg[r] = from
    /\ reg' = [reg EXCEPT ![r] = to]
    /\ UNCHANGED <<expired, page, exchanges, history>>

CheckAddress(r) ==
    /\ Registers(r, "idle", IF accounts[EmailOf[r]] = "absent" THEN "checked" ELSE "conflict")
    /\ UNCHANGED <<accounts, creator>>

Row(r) ==
    /\ accounts' = [accounts EXCEPT ![EmailOf[r]] = "active"]
    /\ creator' = [creator EXCEPT ![EmailOf[r]] = r]

\* The unique index ix_users_email lets one row of an address in.
IndexAdmitsAll(r) == reg[r] = "checked"
IndexAdmits(r) == accounts[EmailOf[r]] = "absent"

Insert(r) ==
    /\ IndexAdmits(r)
    /\ Registers(r, "checked", "created")
    /\ Row(r)

InsertConflicts(r) ==
    /\ ~IndexAdmits(r)
    /\ Registers(r, "checked", "conflict")
    /\ UNCHANGED <<accounts, creator>>

\* The commit or its acknowledgement fails; the row is there or it is not.
InsertFails(r) ==
    /\ Registers(r, "checked", "error")
    /\ \/ IndexAdmits(r) /\ Row(r)
       \/ UNCHANGED <<accounts, creator>>

\* An operator sets is_active, and time passes.
Deactivate(e) ==
    /\ accounts[e] = "active"
    /\ accounts' = [accounts EXCEPT ![e] = "inactive"]
    /\ UNCHANGED <<creator, reg, expired, page, exchanges, history>>

Expire(l) ==
    /\ login[l] \notin {"idle", "sent"}
    /\ expired' = expired \cup {l}
    /\ UNCHANGED <<accounts, creator, reg, page, exchanges, history>>

\* get_current_user
VerdictUnhandled(t) == IF t = None \/ t \in expired THEN "401" ELSE "500"
Verdict(t) ==
    IF t = None \/ t \in expired THEN "401"
    ELSE IF accounts[AccountOf[t]] # "active" THEN "403" ELSE "ok"

-----------------------------------------------------------------------------
(* AuthProvider.                                                           *)

\* Without a user the workspace is not there, nor anybody who waits for its list.
Unmounted == user' = None /\ listing' = "unasked" /\ asking' = {}

SignedOut == token' = None /\ loading' = FALSE /\ Unmounted
SignedIn(e) == user' = e /\ loading' = FALSE /\ UNCHANGED <<token, listing, asking>>

\* The mount effect; without a token nothing is sent.
Mount ==
    /\ restore = Idle
    /\ \/ /\ token = None
          /\ SignedOut
          /\ restore' = Over
       \/ /\ token # None
          /\ restore' = [token |-> token, phase |-> "sent"]
          /\ UNCHANGED page
    /\ UNCHANGED <<table, login, req, history>>

ServeRestore ==
    /\ restore.phase = "sent"
    /\ \E a \in {Verdict(restore.token), "broken"} : restore' = [restore EXCEPT !.phase = a]
    /\ UNCHANGED <<table, page, login, req, history>>

RestoreArrives ==
    /\ restore.phase \in Answers
    /\ IF restore.phase = "ok" THEN SignedIn(AccountOf[restore.token]) ELSE SignedOut
    /\ restore' = Over
    /\ UNCHANGED <<table, login, req, history>>

InFlight(l) == login[l] \in {"sent", "me"} \cup Answers

\* PublicOnlyRoute shows the form while nobody is signed in or may turn out to be.
FormShownWhileRestoring == user = None
FormShown == ~loading /\ user = None

\* Leaving the form for the other one does not end its login, so a second one may
\* be submitted meanwhile.
SubmitLogin(l) ==
    /\ FormShown
    /\ login[l] = "idle"
    /\ login' = [login EXCEPT ![l] = "sent"]
    /\ overlapped' = (overlapped \/ \E k \in Logins : InFlight(k))
    /\ UNCHANGED <<table, page, restore, req, reloads>>

\* authenticate_user, then the token is stored and /auth/me asked with it.
LoginGranted(l) ==
    /\ login[l] = "sent"
    /\ accounts[AccountOf[l]] = "active"
    /\ login' = [login EXCEPT ![l] = "me"]
    /\ token' = l
    /\ UNCHANGED <<table, user, loading, listing, asking, restore, req, history>>

\* A wrong password, an unknown or inactive account, or no answer: a public 401
\* touches no session.
LoginRefused(l) ==
    /\ login[l] = "sent"
    /\ login' = [login EXCEPT ![l] = "over"]
    /\ UNCHANGED <<table, page, restore, req, history>>

ServeMe(l) ==
    /\ login[l] = "me"
    /\ \E a \in {Verdict(l), "broken"} : login' = [login EXCEPT ![l] = a]
    /\ UNCHANGED <<table, page, restore, req, history>>

\* login()'s catch clears the token and the user and leaves isLoading.
LoginFailed == token' = None /\ Unmounted /\ UNCHANGED loading

MeArrives(l) ==
    /\ login[l] \in Answers
    /\ login' = [login EXCEPT ![l] = "over"]
    /\ CASE login[l] = "ok" -> SignedIn(AccountOf[l])
         [] login[l] = "401" -> SignedOut
         [] OTHER -> LoginFailed
    /\ UNCHANGED <<table, restore, req, history>>

Logout ==
    /\ user # None
    /\ SignedOut
    /\ UNCHANGED <<table, exchanges, history>>

-----------------------------------------------------------------------------
(* The workspace, behind ProtectedRoute, and apiRequest.                   *)

Sends(q) ==
    /\ user # None
    /\ req[q] = Idle
    /\ req' = [req EXCEPT ![q] = [token |-> token, phase |-> "sent"]]
    /\ UNCHANGED <<table, token, user, loading, restore, login, history>>

\* The sidebar asks for the list, for more of it, or for a new conversation, and
\* clears what it says of an earlier failure.
SidebarSends(q) == Sends(q) /\ listing' = "asked" /\ asking' = asking \cup {q}

\* The list is asked for as soon as the workspace is mounted.
MountWithoutList(q) ==
    /\ user # None /\ listing = "unasked" /\ listing' = "asked"
    /\ req' = [req EXCEPT ![q] = Idle]
    /\ UNCHANGED <<table, token, user, loading, asking, restore, login, history>>
MountWorkspace(q) == listing = "unasked" /\ SidebarSends(q)

\* Later requests are the sidebar's or another page's.
SendRequest(q) ==
    /\ listing # "unasked"
    /\ SidebarSends(q) \/ (Sends(q) /\ UNCHANGED <<listing, asking>>)

\* Or the request or its answer is lost, or the database is (503).
ServeRequest(q) ==
    /\ req[q].phase = "sent"
    /\ \E a \in {Verdict(req[q].token), "broken"} : req' = [req EXCEPT ![q].phase = a]
    /\ UNCHANGED <<table, page, restore, login, history>>

\* A 401 ends the session of the page, whichever token it answers.  After any
\* other failure the session goes on, and who has asked shows an error.
RequestArrives(q) ==
    /\ req[q].phase \in Answers
    /\ req' = [req EXCEPT ![q] = Idle]
    /\ IF req[q].phase = "401" THEN SignedOut
       ELSE /\ asking' = asking \ {q}
            /\ listing' = IF q \in asking /\ req[q].phase # "ok" THEN "failed" ELSE listing
            /\ UNCHANGED <<token, user, loading>>
    /\ UNCHANGED <<table, restore, login, history>>

Reload ==
    /\ reloads < MaxReloads
    /\ reloads' = reloads + 1
    /\ Unmounted /\ loading' = TRUE
    /\ restore' = Idle
    /\ login' = [l \in Logins |-> IF login[l] = "idle" THEN "idle" ELSE "over"]
    /\ req' = [q \in Requests |-> Idle]
    /\ overlapped' = FALSE
    /\ UNCHANGED <<table, token>>

-----------------------------------------------------------------------------

Next ==
    \/ \E r \in Registrations :
         CheckAddress(r) \/ Insert(r) \/ InsertConflicts(r) \/ InsertFails(r)
    \/ \E e \in Emails : Deactivate(e)
    \/ Mount \/ ServeRestore \/ RestoreArrives
    \/ \E l \in Logins :
         \/ SubmitLogin(l) \/ LoginGranted(l) \/ LoginRefused(l)
         \/ ServeMe(l) \/ MeArrives(l) \/ Expire(l)
    \/ \E q \in Requests :
         MountWorkspace(q) \/ SendRequest(q) \/ ServeRequest(q) \/ RequestArrives(q)
    \/ Logout
    \/ Reload

Spec == Init /\ [][Next]_vars

\* Effects run, requests are answered, answers are handled.  Nobody is obliged to
\* log in, to log out or to reload, and no token need expire.
Fairness ==
    /\ WF_vars(Mount) /\ WF_vars(ServeRestore) /\ WF_vars(RestoreArrives)
    /\ WF_vars(\E q \in Requests : MountWorkspace(q))
    /\ \A q \in Requests : WF_vars(ServeRequest(q)) /\ WF_vars(RequestArrives(q))

FairSpec == Spec /\ Fairness

-----------------------------------------------------------------------------
(* Correctness.                                                            *)

\* Of the registrations that raced for an address at most one is told 201, and
\* the account has its password; who is told 409 is told the truth.
RegistrationIsExclusive ==
    \A r \in Registrations :
        /\ reg[r] = "created" => creator[EmailOf[r]] = r
        /\ reg[r] = "conflict" => accounts[EmailOf[r]] # "absent"

\* The profile on the page is the one its requests act for, unless two logins
\* overlapped: no late answer of an earlier session shows another user.
ShownUserOwnsToken ==
    user # None /\ token # None /\ ~overlapped => AccountOf[token] = user

\* A late 401 may clear the token under a login that is about to succeed.  The
\* page then shows a user without a token, but not for good and in silence: the
\* first request of the workspace finds out, or its failure is shown.
UserWithoutTokenEnds ==
    user # None /\ token = None ~> user = None \/ token # None \/ listing = "failed"
=============================================================================
