------------------------------ MODULE Session -------------------------------
(***************************************************************************)
(* Who is signed in, in one tab of a browser: the profile and the token in  *)
(* localStorage, which all tabs share and every request reads; the copy     *)
(* that AuthContext keeps in memory, which every page shows; the page that  *)
(* is on screen; and the account behind an e-mail address at the server.    *)
(* The pages themselves are modules that extend this one.                   *)
(***************************************************************************)
EXTENDS Naturals, People

CONSTANTS
  Newcomers,   \* addresses without an account at first
  Elsewhere    \* whom another tab may sign in; None: it may sign out

ASSUME ElsewhereAssumption == Elsewhere \subseteq Accounts \cup {None}
ASSUME NewcomersAssumption == Newcomers \subseteq Accounts \ Admins

VARIABLES
  store,     \* localStorage: whose "token" and "user" it holds
  auth,      \* AuthContext: user (and token), loading
  path,      \* the page on screen
  form,      \* the address the form on screen is busy with
  ask,       \* a login or registration of this tab, for each address
  google,    \* the Google sign-in the tab has left for
  account,   \* rows of "User" with this address
  foreign    \* history: localStorage has changed behind AuthContext's back

sessionVars == <<store, auth, path, form, ask, google, account, foreign>>

Path == {"/", "/login", "/register", "/google", "/auth/callback",
         "/home", "/events", "/events/id", "/bookings", "/admin"}

(* The pages with the navigation bar. *)
WithNav == {"/home", "/events", "/events/id", "/bookings", "/admin"}
AskPC == {"none", "login", "register", "create", "granted", "refused"}

NoAsk == [a \in Accounts |-> "none"]
NoGoogle == [pc |-> "none", who |-> None]

Anonymous == [user |-> None, loading |-> TRUE]

-----------------------------------------------------------------------------
(* AuthContext. *)

(* A page load: memory is gone, requests of the old page with it.  (A       *)
(* registration the server is about to commit is as good as a rival's.)     *)
(* Addresses that are typed in are the initial states.                      *)
Reload ==
  /\ "reload" \in Outside
  /\ path \notin {"/google", "/auth/callback"}
  /\ auth' = Anonymous
  /\ form' = None
  /\ ask' = NoAsk
  /\ UNCHANGED <<store, path, google, account, foreign>>

(* The effect of AuthProvider, after the first render. *)
Restore ==
  /\ auth.loading
  /\ auth' = [user |-> store, loading |-> FALSE]
  /\ foreign' = FALSE
  /\ UNCHANGED <<store, path, form, ask, google, account>>

(* What login and register do with an answer, whatever page is on screen by *)
(* then.                                                                    *)
SignIn(a) ==
  /\ store' = a
  /\ auth' = [auth EXCEPT !.user = a]
  /\ path' = "/home"
  /\ foreign' = FALSE

(* Mutant: localStorage keeps what was stored. *)
ForgetInMemory ==
  /\ path \in WithNav
  /\ auth' = [auth EXCEPT !.user = None]
  /\ path' = "/login"
  /\ form' = None
  /\ UNCHANGED <<store, ask, google, account, foreign>>

(* Mutant: setItem instead of removeItem. *)
ForgetAsText ==
  /\ path \in WithNav
  /\ store' = "null"
  /\ auth' = [auth EXCEPT !.user = None]
  /\ path' = "/login"
  /\ form' = None
  /\ UNCHANGED <<ask, google, account, foreign>>

(* logout, from the navigation bar.  On the page of the administrators the  *)
(* guard's redirect competes with logout's own.                             *)
Logout ==
  /\ path \in WithNav
  /\ store' = None
  /\ auth' = [auth EXCEPT !.user = None]
  /\ path' \in {"/login"} \cup (IF path = "/admin" THEN {"/events"} ELSE {})
  /\ foreign' = FALSE
  /\ form' = None
  /\ UNCHANGED <<ask, google, account>>

(* Another tab signs in or out; there is no listener for that. *)
OtherTab(a) ==
  /\ a \in Elsewhere
  /\ a # None => account[a] > 0
  /\ store' = a
  /\ foreign' = TRUE
  /\ UNCHANGED <<auth, path, form, ask, google, account>>

-----------------------------------------------------------------------------
(* The forms: handleSubmit of /login and /register, the button disabled     *)
(* while one is under way.  A customer may leave for another page before    *)
(* the answer.                                                              *)

SubmitLogin(a) ==
  /\ path = "/login"
  /\ form = None
  /\ ask[a] = "none"
  /\ form' = a
  /\ ask' = [ask EXCEPT ![a] = "login"]
  /\ UNCHANGED <<store, auth, path, google, account, foreign>>

SubmitRegister(a) ==
  /\ path = "/register"
  /\ form = None
  /\ ask[a] = "none"
  /\ form' = a
  /\ ask' = [ask EXCEPT ![a] = "register"]
  /\ UNCHANGED <<store, auth, path, google, account, foreign>>

(* login_user: the password is right, or it is not. *)
LoginHandled(a) ==
  /\ ask[a] = "login"
  /\ \E answer \in {"granted", "refused"} :
       /\ answer = "granted" => account[a] > 0
       /\ ask' = [ask EXCEPT ![a] = answer]
  /\ UNCHANGED <<store, auth, path, form, google, account, foreign>>

(* register_user: is there one?  The password is hashed before the INSERT.  *)
RegisterChecked(a) ==
  /\ ask[a] = "register"
  /\ ask' = [ask EXCEPT ![a] = IF account[a] > 0 THEN "refused" ELSE "create"]
  /\ UNCHANGED <<store, auth, path, form, google, account, foreign>>

(* The INSERT under the index User_email_key: no second row. *)
Inserted(a) == IF account[a] = 0 THEN 1 ELSE account[a]

RegisterCommitted(a) ==
  /\ ask[a] = "create"
  /\ ask' = [ask EXCEPT ![a] = IF Inserted(a) > account[a] THEN "granted" ELSE "refused"]
  /\ account' = [account EXCEPT ![a] = Inserted(a)]
  /\ UNCHANGED <<store, auth, path, form, google, foreign>>

(* Somebody else registers the address meanwhile. *)
Rival(a) ==
  /\ "rival" \in Outside
  /\ account[a] = 0
  /\ account' = [account EXCEPT ![a] = Inserted(a)]
  /\ UNCHANGED <<store, auth, path, form, ask, google, foreign>>

(* Mutant: the answer is stored for the next load only. *)
StoredOnly(a) ==
  /\ ask[a] = "granted"
  /\ store' = a /\ path' = "/home" /\ foreign' = FALSE /\ form' = None
  /\ ask' = [ask EXCEPT ![a] = "none"]
  /\ UNCHANGED <<auth, google, account>>

Granted(a) ==
  /\ ask[a] = "granted"
  /\ SignIn(a)
  /\ ask' = [ask EXCEPT ![a] = "none"]
  /\ form' = None
  /\ UNCHANGED <<google, account>>

(* The form, if it is still the same one, shows the error. *)
Refused(a) ==
  /\ ask[a] = "refused"
  /\ ask' = [ask EXCEPT ![a] = "none"]
  /\ form' = IF form = a THEN None ELSE form
  /\ UNCHANGED <<store, auth, path, google, account, foreign>>

-----------------------------------------------------------------------------
(* Continue with Google: the tab leaves for the API, which sends it back to *)
(* /auth/callback with the token and the profile in the address.            *)

GoogleStart(a) ==
  /\ path = "/login"
  /\ path' = "/google"
  /\ google' = [pc |-> "find", who |-> a]
  /\ auth' = Anonymous
  /\ form' = None
  /\ ask' = NoAsk
  /\ UNCHANGED <<store, account, foreign>>

(* google_login: found by its Google id or its address, or to be created. *)
GoogleFound ==
  /\ google.pc = "find"
  /\ IF account[google.who] > 0
     THEN /\ google' = [google EXCEPT !.pc = "signed"]
          /\ path' = "/auth/callback"
     ELSE /\ google' = [google EXCEPT !.pc = "create"]
          /\ UNCHANGED path
  /\ UNCHANGED <<store, auth, form, ask, account, foreign>>

(* A rival's row makes the INSERT fail, and the tab stays on the error.     *)
GoogleCreated ==
  /\ google.pc = "create"
  /\ IF Inserted(google.who) > account[google.who]
     THEN /\ google' = [google EXCEPT !.pc = "signed"]
          /\ path' = "/auth/callback"
     ELSE /\ google' = NoGoogle
          /\ UNCHANGED path
  /\ account' = [account EXCEPT ![google.who] = Inserted(google.who)]
  /\ UNCHANGED <<store, auth, form, ask, foreign>>

(* The effect of CallbackContent: it stores, and does not tell AuthContext. *)
(* It may run before or after AuthProvider's.                               *)
Callback ==
  /\ google.pc = "signed"
  /\ store' = google.who
  /\ foreign' = TRUE
  /\ google' = NoGoogle
  /\ path' = "/events"
  /\ UNCHANGED <<auth, form, ask, account>>

-----------------------------------------------------------------------------
(* Routing. *)

(* app/page.tsx *)
Enter ==
  /\ path = "/"
  /\ ~auth.loading
  /\ path' = IF auth.user # None THEN "/events" ELSE "/login"
  /\ UNCHANGED <<store, auth, form, ask, google, account, foreign>>

(* The guard of AdminProtect: by the profile in memory. *)
IsAdmin == auth.user \in Admins

(* The links of the navigation bar, of the event cards and of the forms. *)
Links ==
  CASE path \in WithNav -> {"/home", "/events", "/bookings"}
                            \cup (IF IsAdmin THEN {"/admin"} ELSE {})
                            \cup (IF path \in {"/home", "/events"} THEN {"/events/id"} ELSE {})
    [] path = "/login" -> {"/register"}
    [] path = "/register" -> {"/login"}
    [] OTHER -> {}

Follow(p) ==
  /\ p \in Links \ {path}
  /\ path' = p
  /\ form' = None
  /\ UNCHANGED <<store, auth, ask, google, account, foreign>>

(* AdminProtect *)
TurnedAway ==
  /\ path = "/admin"
  /\ ~auth.loading
  /\ ~IsAdmin
  /\ path' = "/events"
  /\ UNCHANGED <<store, auth, form, ask, google, account, foreign>>

-----------------------------------------------------------------------------

SessionInit ==
  /\ store \in Accounts \cup {None}
  /\ auth = Anonymous
  /\ path \in Path \ {"/google", "/auth/callback"}
  /\ form = None
  /\ ask = NoAsk
  /\ google = NoGoogle
  /\ account = [a \in Accounts |-> IF a \in Newcomers THEN 0 ELSE 1]
  /\ foreign = FALSE
  /\ store # None => account[store] > 0

SessionTypeOK ==
  /\ store \in Accounts \cup {None}
  /\ auth \in [user: Accounts \cup {None}, loading: BOOLEAN]
  /\ path \in Path
  /\ form \in Accounts \cup {None}
  /\ ask \in [Accounts -> AskPC]
  /\ google \in [pc: {"none", "find", "create", "signed"}, who: Accounts \cup {None}]
  /\ account \in [Accounts -> Nat]
  /\ foreign \in BOOLEAN

(* The account a page shows is the one its requests speak for: whatever the *)
(* order of logins, registrations, logouts and page loads, the two differ   *)
(* only after another tab or the page of the Google sign-in has written     *)
(* localStorage, which AuthContext does not notice.                         *)
ShownIsStored == ~auth.loading /\ ~foreign => auth.user = store
=============================================================================
