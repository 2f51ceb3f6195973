----------------------------- MODULE SiteProofs -----------------------------
(***************************************************************************)
(* Theorems about Site, for any accounts, events, bookings and bounds.      *)
(***************************************************************************)
EXTENDS Site, EventsProofs, TLAPS

-----------------------------------------------------------------------------
(* The session. *)

(* A tab that has left for Google has left with an address. *)
SessionInv ==
  /\ SessionTypeOK
  /\ google.pc # "none" => google.who \in Accounts
  /\ ShownIsStored

(* An INSERT keeps the accounts well typed. *)
LEMMA InsertKeeps ==
  ASSUME SessionInv, NEW a \in Accounts, account' = [account EXCEPT ![a] = Inserted(a)]
  PROVE  account' \in [Accounts -> Nat]
BY DEF SessionInv, SessionTypeOK, Inserted

(* AuthContext and the other tabs. *)
LEMMA ContextKeeps ==
  ASSUME SessionInv, Restore \/ Logout \/ \E a \in Elsewhere : OtherTab(a)
  PROVE  SessionInv'
<1>1. CASE Restore
  BY <1>1 DEF Restore, SessionInv, SessionTypeOK, ShownIsStored
<1>2. CASE Logout
  BY <1>2 DEF Logout, Path, SessionInv, SessionTypeOK, ShownIsStored
<1>3. CASE \E a \in Elsewhere : OtherTab(a)
  BY <1>3, ElsewhereAssumption DEF OtherTab, SessionInv, SessionTypeOK, ShownIsStored
<1> QED BY <1>1, <1>2, <1>3

(* The forms, up to the answer. *)
LEMMA FormKeeps ==
  ASSUME SessionInv, NEW a \in Accounts,
         SubmitLogin(a) \/ SubmitRegister(a) \/ LoginHandled(a) \/ RegisterChecked(a)
           \/ Refused(a)
  PROVE  SessionInv'
<1>1. ask \in [Accounts -> AskPC]
  BY DEF SessionInv, SessionTypeOK
<1>2. PICK pc \in AskPC : ask' = [ask EXCEPT ![a] = pc]
  BY DEF SubmitLogin, SubmitRegister, LoginHandled, RegisterChecked, Refused, AskPC
<1>3. ask' \in [Accounts -> AskPC]
  BY <1>1, <1>2
<1>4. form' \in Accounts \cup {None}
  BY DEF SubmitLogin, SubmitRegister, LoginHandled, RegisterChecked, Refused, SessionInv,
         SessionTypeOK
<1>5. UNCHANGED <<store, auth, path, google, account, foreign>>
  BY DEF SubmitLogin, SubmitRegister, LoginHandled, RegisterChecked, Refused
<1> QED BY <1>3, <1>4, <1>5 DEF SessionInv, SessionTypeOK, ShownIsStored

(* A registration is committed, here or by somebody else. *)
LEMMA RegistrationKeeps ==
  ASSUME SessionInv, NEW a \in Accounts, RegisterCommitted(a) \/ Rival(a)
  PROVE  SessionInv'
<1>1. account' = [account EXCEPT ![a] = Inserted(a)]
  BY DEF RegisterCommitted, Rival
<1>2. account' \in [Accounts -> Nat]
  BY <1>1, InsertKeeps
<1>3. ask' \in [Accounts -> AskPC]
  BY DEF RegisterCommitted, Rival, AskPC, SessionInv, SessionTypeOK
<1>4. UNCHANGED <<store, auth, path, form, google, foreign>>
  BY DEF RegisterCommitted, Rival
<1> QED BY <1>2, <1>3, <1>4 DEF SessionInv, SessionTypeOK, ShownIsStored

(* An answer signs the customer in. *)
LEMMA GrantedKeeps ==
  ASSUME SessionInv, NEW a \in Accounts, Granted(a)
  PROVE  SessionInv'
<1>1. auth' = [auth EXCEPT !.user = a] /\ store' = a /\ path' = "/home" /\ foreign' = FALSE
  BY DEF Granted, SignIn
<1>2. auth \in [user: Accounts \cup {None}, loading: BOOLEAN]
  BY DEF SessionInv, SessionTypeOK
<1>3. auth' \in [user: Accounts \cup {None}, loading: BOOLEAN] /\ auth'.user = a
  BY <1>1, <1>2
<1>4. ask' \in [Accounts -> AskPC]
  BY DEF Granted, AskPC, SessionInv, SessionTypeOK
<1> QED BY <1>1, <1>3, <1>4
        DEF Granted, Path, SessionInv, SessionTypeOK, ShownIsStored

(* The detour by Google. *)
LEMMA GoogleKeeps ==
  ASSUME SessionInv,
         GoogleFound \/ GoogleCreated \/ Callback \/ \E a \in Accounts : GoogleStart(a)
  PROVE  SessionInv'
<1> DEFINE GoogleRecord == [pc: {"none", "find", "create", "signed"}, who: Accounts \cup {None}]
<1>1. google \in GoogleRecord
  BY DEF SessionInv, SessionTypeOK
<1>2. CASE \E a \in Accounts : GoogleStart(a)
  BY <1>2 DEF GoogleStart, Anonymous, NoAsk, AskPC, Path, SessionInv, SessionTypeOK,
              ShownIsStored
<1>3. CASE GoogleFound
  <2>1. google' \in GoogleRecord /\ google'.who = google.who
    BY <1>1, <1>3 DEF GoogleFound
  <2> QED BY <1>3, <2>1 DEF GoogleFound, Path, SessionInv, SessionTypeOK, ShownIsStored
<1>4. CASE GoogleCreated
  <2>1. google.who \in Accounts
    BY <1>4 DEF GoogleCreated, SessionInv
  <2>2. account' \in [Accounts -> Nat]
    BY <1>4, <2>1, InsertKeeps DEF GoogleCreated
  <2>3. google' \in GoogleRecord /\ (google'.pc # "none" => google'.who \in Accounts)
    BY <1>1, <1>4, <2>1 DEF GoogleCreated, NoGoogle
  <2> QED BY <1>4, <2>2, <2>3 DEF GoogleCreated, Path, SessionInv, SessionTypeOK, ShownIsStored
<1>5. CASE Callback
  BY <1>5 DEF Callback, NoGoogle, Path, SessionInv, SessionTypeOK, ShownIsStored
<1> QED BY <1>2, <1>3, <1>4, <1>5

(* Routing. *)
LEMMA RoutingKeeps ==
  ASSUME SessionInv, Enter \/ TurnedAway \/ Reload \/ \E p \in Path : Follow(p)
  PROVE  SessionInv'
<1>1. CASE Reload
  BY <1>1 DEF Reload, Anonymous, NoAsk, AskPC, SessionInv, SessionTypeOK, ShownIsStored
<1>2. CASE Enter \/ TurnedAway \/ \E p \in Path : Follow(p)
  <2>1. path' \in Path /\ form' \in Accounts \cup {None}
    BY <1>2 DEF Enter, TurnedAway, Follow, Path, SessionInv, SessionTypeOK
  <2>2. UNCHANGED <<store, auth, ask, google, account, foreign>>
    BY <1>2 DEF Enter, TurnedAway, Follow
  <2> QED BY <2>1, <2>2 DEF SessionInv, SessionTypeOK, ShownIsStored
<1> QED BY <1>1, <1>2

(* Nothing else in the site touches the session. *)
LEMMA SessionInvInductive == SessionInv /\ [Next]_vars => SessionInv'
<1> SUFFICES ASSUME SessionInv, [Next]_vars PROVE SessionInv'
  OBVIOUS
<1>1. CASE Stay
  BY <1>1, ContextKeeps, FormKeeps, RegistrationKeeps DEF Stay
<1>2. CASE Leave
  BY <1>2, ContextKeeps, GrantedKeeps, GoogleKeeps, RoutingKeeps DEF Leave
<1>3. CASE UNCHANGED sessionVars
  BY <1>3 DEF sessionVars, SessionInv, SessionTypeOK, ShownIsStored
<1> QED BY <1>1, <1>2, <1>3 DEF Next, vars

(* Every page load starts like this. *)
LEMMA SessionInvInitially == SessionInit => SessionInv
<1> SUFFICES ASSUME SessionInit PROVE SessionInv
  OBVIOUS
<1>1. account \in [Accounts -> Nat]
  BY DEF SessionInit
<1>2. auth \in [user: Accounts \cup {None}, loading: BOOLEAN] /\ ShownIsStored
  BY DEF SessionInit, Anonymous, ShownIsStored
<1>3. ask \in [Accounts -> AskPC]
  BY DEF SessionInit, NoAsk, AskPC
<1>4. /\ google \in [pc: {"none", "find", "create", "signed"}, who: Accounts \cup {None}]
      /\ google.pc = "none"
  BY DEF SessionInit, NoGoogle
<1> QED BY <1>1, <1>2, <1>3, <1>4 DEF SessionInit, SessionInv, SessionTypeOK

(* The session is well formed wherever the site gets. *)
LEMMA SessionInvariant == Spec => []SessionInv
BY SessionInvInitially, SessionInvInductive, PTL DEF Spec, Init

(* The account on screen is the one whose token is sent, until another tab  *)
(* or the page of the Google sign-in writes localStorage.                   *)
THEOREM ShownAccountIsStored == Spec => []ShownIsStored
BY SessionInvariant, PTL DEF SessionInv

-----------------------------------------------------------------------------
(* My bookings. *)

(* What a card or an answer can hold. *)
Lists == UNION {[D -> Status] : D \in SUBSET Bookings}

MineTyped ==
  /\ booking \in Rowsets
  /\ mine \in [loading: BOOLEAN, error: BOOLEAN, list: Lists, filter: Filters]
  /\ load \in [pc: {"due", "sent", "answered", "failed", "done"}, list: Lists]
  /\ cancel \in [Cancellers -> [pc: {"idle", "sent", "answered"}, booking: Bookings \cup {None}]]
  /\ again \subseteq Bookings

(* What a list says is cancelled is, and what it does not mention is not    *)
(* there, but for the rows that have been ordered again.                    *)
CardsTrue(l) ==
  \A b \in DOMAIN l : l[b] = "CANCELLED" /\ b \notin again => booking[b] = "CANCELLED"
NoneMissing(l) == \A b \in Bookings \ (DOMAIN l \cup again) : booking[b] = "NONE"

(* The list on screen, and the answer that is to replace an empty one.      *)
ListsTrue ==
  /\ CardsTrue(mine.list)
  /\ load.pc = "done" \/ (DOMAIN mine.list = {} /\ mine.loading)
  /\ load.pc = "done" /\ ~mine.error => NoneMissing(mine.list)
  /\ load.pc = "answered" => CardsTrue(load.list) /\ NoneMissing(load.list)

(* A cancellation is of a booking on screen; once answered it was done.     *)
CancelsTrue ==
  \A c \in Cancellers :
    /\ cancel[c].pc # "idle" => cancel[c].booking \in DOMAIN mine.list
    /\ cancel[c].pc = "answered" /\ cancel[c].booking \notin again
         => booking[cancel[c].booking] = "CANCELLED"

MineInv == MineTyped /\ ListsTrue /\ CancelsTrue

(* It says of the cards, and of an empty page, what the site promises.      *)
LEMMA MineInvPromises == MineInv => CancelledIsCancelled /\ NoBookingsIsTrue
<1> SUFFICES ASSUME MineInv PROVE CancelledIsCancelled /\ NoBookingsIsTrue
  OBVIOUS
<1>1. CancelledIsCancelled
  BY DEF MineInv, ListsTrue, CardsTrue, CancelledIsCancelled
<1>2. ASSUME NothingToShow, mine.filter = "all", NEW b \in Bookings \ again
      PROVE  booking[b] = "NONE"
  <2>1. DOMAIN mine.list = {}
    BY <1>2 DEF NothingToShow, Shown
  <2>2. NoneMissing(mine.list)
    BY <1>2 DEF NothingToShow, MineInv, ListsTrue
  <2> QED BY <1>2, <2>1, <2>2 DEF NoneMissing
<1> QED BY <1>1, <1>2 DEF NoBookingsIsTrue

(* A list with nothing in it. *)
LEMMA EmptyList == <<>> \in Lists /\ DOMAIN <<>> = {}
<1>1. <<>> \in [{} -> Status] /\ DOMAIN <<>> = {}
  OBVIOUS
<1> QED BY <1>1 DEF Lists

(* An entry of a list is a booking with a status. *)
LEMMA ListEntries ==
  ASSUME NEW l \in Lists
  PROVE  DOMAIN l \subseteq Bookings /\ l \in [DOMAIN l -> Status]
BY DEF Lists

(* A function on bookings is a list. *)
LEMMA MakesList ==
  ASSUME NEW D \in SUBSET Bookings, NEW l \in [D -> Status]
  PROVE  l \in Lists
BY DEF Lists

(* A freshly mounted page has nothing to be wrong about. *)
LEMMA MountedMine ==
  ASSUME NEW b \in Rowsets,
         mine = FreshMine, load = [pc |-> "due", list |-> <<>>],
         cancel = [x \in Cancellers |-> NoCancel], again = {}, booking = b
  PROVE  MineInv
<1>1. MineTyped
  BY EmptyList DEF MineTyped, FreshMine, Filters, NoCancel
<1>2. ListsTrue
  BY EmptyList DEF ListsTrue, CardsTrue, FreshMine
<1>3. CancelsTrue
  BY DEF CancelsTrue, NoCancel
<1> QED BY <1>1, <1>2, <1>3 DEF MineInv

(* The list is read. *)
LEMMA LoadKeeps ==
  ASSUME MineInv, FetchMine \/ MineHandled \/ MineLost \/ MineAnswered
  PROVE  MineInv'
<1> USE DEF MineInv
<1>1. CASE FetchMine
  <2>1. MineTyped'
    BY <1>1 DEF FetchMine, MineTyped
  <2>2. ListsTrue'
    BY <1>1 DEF FetchMine, MineTyped, ListsTrue, CardsTrue, NoneMissing
  <2> QED BY <1>1, <2>1, <2>2 DEF FetchMine, CancelsTrue
<1>2. CASE MineHandled /\ store = None
  <2>1. load' = [load EXCEPT !.pc = "failed"] /\ UNCHANGED <<booking, mine, cancel, again>>
    BY <1>2 DEF MineHandled
  <2>2. MineTyped'
    BY <2>1 DEF MineTyped
  <2>3. load'.pc = "failed"
    BY <2>1 DEF MineTyped
  <2>4. load.pc = "sent"
    BY <1>2 DEF MineHandled
  <2>5. ListsTrue'
    BY <2>1, <2>3, <2>4 DEF ListsTrue, CardsTrue
  <2> QED BY <2>1, <2>2, <2>5 DEF CancelsTrue
<1>3. CASE MineHandled /\ store # None
  <2> DEFINE D == {x \in Bookings : booking[x] # "NONE"}
             rows == [b \in D |-> booking[b]]
  <2>1. load' = [pc |-> "answered", list |-> rows] /\ UNCHANGED <<booking, mine, cancel, again>>
    BY <1>3 DEF MineHandled
  <2>2. rows \in [D -> Status]
    BY DEF MineTyped, Rowsets, Status
  <2>3. rows \in Lists
    BY <2>2, MakesList
  <2>4. MineTyped'
    BY <2>1, <2>3 DEF MineTyped
  <2>5. CardsTrue(rows) /\ NoneMissing(rows)
    BY DEF CardsTrue, NoneMissing
  <2>6. ListsTrue'
    BY <1>3, <2>1, <2>5 DEF MineHandled, ListsTrue, CardsTrue, NoneMissing
  <2> QED BY <2>1, <2>4, <2>6 DEF CancelsTrue
<1>4. CASE MineLost
  <2>1. MineTyped'
    BY <1>4, EmptyList DEF MineLost, MineTyped
  <2>2. ListsTrue'
    BY <1>4 DEF MineLost, MineTyped, ListsTrue, CardsTrue, NoneMissing
  <2> QED BY <1>4, <2>1, <2>2 DEF MineLost, CancelsTrue
<1>5. CASE MineAnswered
  <2> DEFINE l == IF load.pc = "answered" THEN load.list ELSE mine.list
             e == mine.error \/ load.pc = "failed"
  <2>1. /\ mine' = [mine EXCEPT !.loading = FALSE, !.error = e, !.list = l]
        /\ load' = [pc |-> "done", list |-> <<>>]
        /\ UNCHANGED <<booking, cancel, again>>
    BY <1>5 DEF MineAnswered, MineTyped
  <2>2. l \in Lists /\ e \in BOOLEAN
    BY DEF MineTyped
  <2>3. mine'.list = l /\ mine'.error = e
    BY <2>1 DEF MineTyped
  <2>4. MineTyped'
    BY <2>1, <2>2, EmptyList DEF MineTyped
  <2>5. CardsTrue(l) /\ (~e => NoneMissing(l))
    BY <1>5 DEF MineAnswered, ListsTrue
  <2>6. ListsTrue'
    <3> HIDE DEF l, e
    <3>1. load'.pc = "done"
      BY <2>1
    <3>2. CardsTrue(mine.list)' /\ (~mine.error => NoneMissing(mine.list))'
      BY <2>1, <2>3, <2>5 DEF CardsTrue, NoneMissing
    <3> QED BY <3>1, <3>2 DEF ListsTrue
  <2>7. \A c \in Cancellers : cancel[c].pc = "idle"
    BY <1>5 DEF MineAnswered, ListsTrue, CancelsTrue, MineTyped
  <2> QED BY <2>1, <2>4, <2>6, <2>7 DEF CancelsTrue
<1> QED BY <1>1, <1>2, <1>3, <1>4, <1>5

(* A cancellation is sent, done, answered or not. *)
LEMMA CancelKeeps ==
  ASSUME MineInv, NEW c \in Cancellers,
         \/ \E b \in Bookings : HandleCancel(c, b)
         \/ CancelHandled(c) \/ CancelAnswered(c) \/ CancelFails(c)
  PROVE  MineInv'
<1> USE DEF MineInv
<1> DEFINE CancelRecord == [pc: {"idle", "sent", "answered"}, booking: Bookings \cup {None}]
           x == cancel[c].booking
<1>1. cancel[c] \in CancelRecord /\ cancel \in [Cancellers -> CancelRecord]
  BY DEF MineTyped
<1>2. /\ DOMAIN mine.list \subseteq Bookings
      /\ mine.list \in [DOMAIN mine.list -> Status]
      /\ mine.list \in Lists
  BY ListEntries DEF MineTyped
<1>3. cancel[c].pc # "idle" => x \in DOMAIN mine.list /\ x \in Bookings
  BY <1>2 DEF CancelsTrue
<1>4. ASSUME NEW b \in Bookings, HandleCancel(c, b) PROVE MineInv'
  <2> DEFINE rec == [pc |-> "sent", booking |-> b]
  <2>1. /\ cancel' = [cancel EXCEPT ![c] = rec]
        /\ UNCHANGED <<booking, mine, load, again>>
    BY <1>4 DEF HandleCancel
  <2>2. MineTyped'
    BY <2>1 DEF MineTyped
  <2>3. ListsTrue'
    BY <2>1 DEF ListsTrue, CardsTrue, NoneMissing
  <2>4. b \in DOMAIN mine.list
    BY <1>4 DEF HandleCancel, CancelEnabled, Shown
  <2> QED BY <1>1, <2>1, <2>2, <2>3, <2>4 DEF CancelsTrue
<1>5. CASE CancelHandled(c)
  <2>1. /\ booking' = [booking EXCEPT ![x] = "CANCELLED"]
        /\ cancel' = [cancel EXCEPT ![c] = [cancel[c] EXCEPT !.pc = "answered"]]
        /\ x \in DOMAIN mine.list /\ x \in Bookings
        /\ UNCHANGED <<mine, load, again>>
    BY <1>3, <1>5 DEF CancelHandled, MineTyped
  <2>2. [cancel[c] EXCEPT !.pc = "answered"] \in CancelRecord
    BY <1>1
  <2>3. booking \in [Bookings -> {"NONE"} \cup Status]
    BY DEF MineTyped, Rowsets
  <2>4. booking'[x] = "CANCELLED" /\ \A b \in Bookings \ {x} : booking'[b] = booking[b]
    BY <2>1, <2>3
  <2>5. MineTyped'
    BY <2>1, <2>2 DEF MineTyped, Rowsets, Status
  <2>6. load.pc = "done"
    BY <2>1 DEF ListsTrue
  <2>7. ListsTrue'
    BY <1>2, <2>1, <2>4, <2>6 DEF ListsTrue, CardsTrue, NoneMissing
  <2>8. CancelsTrue'
    <3>1. cancel'[c].booking = x
      BY <1>1, <2>1
    <3>2. \A d \in Cancellers \ {c} : cancel'[d] = cancel[d]
      BY <1>1, <2>1
    <3>3. \A d \in Cancellers : cancel[d].pc # "idle" => cancel[d].booking \in Bookings
      BY <1>2 DEF CancelsTrue
    <3> QED BY <1>1, <2>1, <2>4, <3>1, <3>2, <3>3 DEF CancelsTrue
  <2> QED BY <2>5, <2>7, <2>8
<1>6. CASE CancelAnswered(c)
  <2> DEFINE l == [b \in DOMAIN mine.list |-> IF b = x THEN "CANCELLED" ELSE mine.list[b]]
  <2>1. /\ mine' = [mine EXCEPT !.list = l]
        /\ cancel' = [cancel EXCEPT ![c] = NoCancel]
        /\ UNCHANGED <<booking, load, again>>
    BY <1>6 DEF CancelAnswered, MineTyped
  <2>2. l \in [DOMAIN mine.list -> Status] /\ DOMAIN l = DOMAIN mine.list
    BY <1>2 DEF Status
  <2>3. l \in Lists
    BY <1>2, <2>2, MakesList
  <2>4. mine'.list = l /\ mine'.loading = mine.loading /\ mine'.error = mine.error
    BY <2>1 DEF MineTyped
  <2>5. MineTyped'
    BY <2>1, <2>3 DEF MineTyped, NoCancel
  <2>6. CardsTrue(l)
    BY <1>6, <2>2 DEF CancelAnswered, ListsTrue, CardsTrue, CancelsTrue
  <2>7. ListsTrue'
    <3> HIDE DEF l
    <3> QED BY <2>1, <2>2, <2>4, <2>6 DEF ListsTrue, CardsTrue, NoneMissing
  <2>8. CancelsTrue'
    <3> HIDE DEF l
    <3> QED BY <1>1, <2>1, <2>2, <2>4 DEF CancelsTrue, NoCancel
  <2> QED BY <2>5, <2>7, <2>8
<1>7. CASE CancelFails(c)
  <2>1. /\ mine' = [mine EXCEPT !.error = TRUE]
        /\ cancel' = [cancel EXCEPT ![c] = NoCancel]
        /\ UNCHANGED <<booking, load, again>>
    BY <1>7 DEF CancelFails
  <2>2. mine'.list = mine.list /\ mine'.loading = mine.loading /\ mine'.error = TRUE
    BY <2>1 DEF MineTyped
  <2>3. MineTyped'
    BY <2>1 DEF MineTyped, NoCancel
  <2>4. ListsTrue'
    BY <2>1, <2>2 DEF ListsTrue, CardsTrue, NoneMissing
  <2> QED BY <1>1, <2>1, <2>2, <2>3, <2>4 DEF CancelsTrue, NoCancel
<1> QED BY <1>4, <1>5, <1>6, <1>7

(* The rows move by themselves, and another filter is chosen. *)
LEMMA RowsKeep ==
  ASSUME MineInv,
         \/ \E b \in Bookings : Ordered(b) \/ Moved(b)
         \/ \E f \in Filters : SetFilter(f)
  PROVE  MineInv'
<1> USE DEF MineInv
<1>1. booking \in [Bookings -> {"NONE"} \cup Status]
  BY DEF MineTyped, Rowsets
<1>2. DOMAIN mine.list \subseteq Bookings /\ DOMAIN load.list \subseteq Bookings
  BY ListEntries DEF MineTyped
<1>3. \A c \in Cancellers : cancel[c].pc # "idle" => cancel[c].booking \in Bookings
  BY <1>2 DEF CancelsTrue
<1>4. ASSUME NEW b \in Bookings, Ordered(b) PROVE MineInv'
  <2>1. booking' = [booking EXCEPT ![b] = "PENDING"] /\ again' = again \cup {b}
        /\ UNCHANGED <<mine, load, cancel>>
    BY <1>4 DEF Ordered
  <2>2. \A a \in Bookings \ {b} : booking'[a] = booking[a]
    BY <1>1, <2>1
  <2>3. MineTyped'
    BY <1>1, <2>1 DEF MineTyped, Rowsets, Status
  <2>4. ListsTrue'
    BY <1>2, <2>1, <2>2 DEF ListsTrue, CardsTrue, NoneMissing
  <2>5. CancelsTrue'
    BY <1>3, <2>1, <2>2 DEF CancelsTrue
  <2> QED BY <2>3, <2>4, <2>5
<1>5. ASSUME NEW b \in Bookings, Moved(b) PROVE MineInv'
  <2>1. PICK s \in {"CONFIRMED", "CANCELLED"} :
          /\ booking' = [booking EXCEPT ![b] = s]
          /\ booking[b] \notin {"NONE", "CANCELLED"}
          /\ UNCHANGED <<mine, load, cancel, again>>
    BY <1>5 DEF Moved
  <2>2. \A a \in Bookings \ {b} : booking'[a] = booking[a]
    BY <1>1, <2>1
  <2>3. MineTyped'
    BY <1>1, <2>1 DEF MineTyped, Rowsets, Status
  <2>4. ListsTrue'
    BY <1>2, <2>1, <2>2 DEF ListsTrue, CardsTrue, NoneMissing
  <2>5. CancelsTrue'
    BY <1>3, <2>1, <2>2 DEF CancelsTrue
  <2> QED BY <2>3, <2>4, <2>5
<1>6. ASSUME NEW f \in Filters, SetFilter(f) PROVE MineInv'
  <2>1. mine' = [mine EXCEPT !.filter = f] /\ UNCHANGED <<booking, load, cancel, again>>
    BY <1>6 DEF SetFilter
  <2>2. mine'.list = mine.list /\ mine'.loading = mine.loading /\ mine'.error = mine.error
    BY <2>1 DEF MineTyped
  <2>3. MineTyped'
    BY <2>1 DEF MineTyped
  <2> QED BY <2>1, <2>2, <2>3 DEF ListsTrue, CardsTrue, NoneMissing, CancelsTrue
<1> QED BY <1>4, <1>5, <1>6

(* Leaving a page mounts the next one; nothing else touches the bookings.   *)
LEMMA MineInvInductive == MineInv /\ [Next]_vars => MineInv'
<1> SUFFICES ASSUME MineInv, [Next]_vars PROVE MineInv'
  OBVIOUS
<1>1. CASE MineStep
  BY <1>1, LoadKeeps, CancelKeeps, RowsKeep DEF MineStep
<1>2. CASE \E b \in Bookings : Ordered(b) \/ Moved(b)
  BY <1>2, RowsKeep
<1>3. CASE Mount
  <2>1. booking' \in Rowsets
    BY <1>3 DEF Mount, MountMine, Rowsets, NoRows
  <2> QED BY <1>3, <2>1, EmptyList DEF Mount, MountMine, MineInv, MineTyped, ListsTrue, CardsTrue,
             CancelsTrue, FreshMine, Filters, NoCancel
<1>4. CASE UNCHANGED myVars
  BY <1>4 DEF myVars, MineInv, MineTyped, ListsTrue, CardsTrue, NoneMissing, CancelsTrue
<1> QED BY <1>1, <1>2, <1>3, <1>4 DEF Next, vars

(* The bookings are what the site promises wherever it gets. *)
LEMMA MineInvariant == Spec => []MineInv
<1>1. Init => MineInv
  BY MountedMine DEF Init, MineInit, Rowsets, NoRows
<1> QED BY <1>1, MineInvInductive, PTL DEF Spec

(* A card says "Cancelled" only of a booking that the server has cancelled, *)
(* whatever the order of cancellations, answers and failures.               *)
THEOREM CancelledCardsAreCancelled == Spec => []CancelledIsCancelled
BY MineInvariant, MineInvPromises, PTL

(* "No bookings yet" is said only of somebody who had none.                 *)
THEOREM EmptyPageIsTrue == Spec => []NoBookingsIsTrue
BY MineInvariant, MineInvPromises, PTL

-----------------------------------------------------------------------------
(* The administration: what the page shows, and what it sends. *)

Listings == UNION {[D -> Counts] : D \in SUBSET Events}

DraftRecord == [event: Events \cup {None}, total: 0 .. MaxTotal]
DeskRecord == [selected: Events \cup {None}, floor: 0 .. MaxTotal, open: BOOLEAN,
               draft: DraftRecord, loading: BOOLEAN, fetched: BOOLEAN,
               busy: BOOLEAN, deleting: Events \cup {None}, untidy: BOOLEAN]
DeleteRecord == [pc: {"idle", "sent", "refresh"}, event: Events \cup {None},
                 selected: Events \cup {None}]
RefreshRecord == [pc: {"idle", "sent", "answered", "failed"}, list: Listings]

AdminInv ==
  /\ desk \in DeskRecord
  /\ EditorAgrees
  /\ list \in Listings
  /\ save \in {"idle", "sent", "refresh"}
  /\ delete \in [Deleters -> DeleteRecord]
  /\ refresh \in [Caller -> RefreshRecord]

(* The inductive invariant contains the type invariant of the page. *)
LEMMA AdminInvTypes == AdminInv => AdminTypeOK
<1> SUFFICES ASSUME AdminInv PROVE AdminTypeOK
  OBVIOUS
<1>1. ASSUME NEW l \in Listings PROVE IsListing(l)
  BY DEF Listings, IsListing
<1>2. \A c \in Caller : refresh[c] \in RefreshRecord
  BY DEF AdminInv
<1>3. ASSUME NEW c \in Caller
      PROVE  refresh[c].pc \in {"idle", "sent", "answered", "failed"} /\ IsListing(refresh[c].list)
  BY <1>1, <1>2 DEF RefreshRecord
<1> QED BY <1>1, <1>3 DEF AdminInv, AdminTypeOK, DeskRecord, DraftRecord, DeleteRecord

(* What search_events answers is a listing: no more seats are sold than     *)
(* there are.                                                               *)
LEMMA ListingTyped ==
  ASSUME EventsInv
  PROVE  Listing \in Listings
<1> DEFINE D == {x \in Events : event[x].live}
<1>1. ASSUME NEW e \in D
      PROVE  [total |-> event[e].total, available |-> Available(e)] \in Counts
  <2>1. /\ event[e].total \in 0 .. MaxTotal
        /\ event[e].sold => event[e].total # 0
    BY <1>1 DEF EventsInv, EventInv, EventRecord
  <2>2. Available(e) \in 0 .. MaxTotal
    BY <2>1, SizesAssumption DEF Available
  <2> QED BY <2>1, <2>2 DEF Counts
<1>2. Listing \in [D -> Counts]
  BY <1>1 DEF Listing
<1> QED BY <1>2 DEF Listings

(* A listing without events. *)
LEMMA EmptyListing == <<>> \in Listings
<1>1. <<>> \in [{} -> Counts]
  OBVIOUS
<1> QED BY <1>1 DEF Listings

(* A freshly mounted page. *)
LEMMA FreshDeskTyped ==
  /\ FreshDesk \in DeskRecord /\ FreshDesk.open = FALSE
  /\ FreshDesk.selected = None /\ FreshDesk.draft = NoDraft
  /\ NoDelete \in DeleteRecord /\ NoRefresh \in RefreshRecord
BY SizesAssumption, EmptyListing
   DEF FreshDesk, DeskRecord, DraftRecord, NoDraft, NoDelete, DeleteRecord, NoRefresh, RefreshRecord

(* What EditorAgrees asks of a desk. *)
Agrees(d) ==
  IF d.open THEN d.draft.event = d.selected ELSE d.selected = None /\ d.draft = NoDraft

(* Closing the editor leaves nothing in it. *)
LEMMA ClosedAgrees ==
  ASSUME NEW d \in DeskRecord
  PROVE  Closed(d) \in DeskRecord /\ Agrees(Closed(d))
<1>1. NoDraft \in DraftRecord
  BY SizesAssumption DEF NoDraft, DraftRecord
<1> DEFINE half == [d EXCEPT !.selected = None, !.floor = 0]
<1>2. Closed(d) \in DeskRecord
  <2>1. half \in DeskRecord
    <3>1. 0 \in 0 .. MaxTotal
      BY SizesAssumption
    <3> QED BY <3>1 DEF DeskRecord
  <2>2. [half EXCEPT !.draft = NoDraft, !.open = FALSE] \in DeskRecord
    <3> HIDE DEF half
    <3> QED BY <1>1, <2>1 DEF DeskRecord
  <2> QED BY <2>2 DEF Closed
<1>3. /\ Closed(d).open = FALSE /\ Closed(d).selected = None
      /\ Closed(d).draft = NoDraft
  BY DEF Closed, DeskRecord
<1> QED BY <1>2, <1>3 DEF Agrees

(* The editor opens on an event, and the form is changed. *)
LEMMA EditorKeeps ==
  ASSUME AdminInv,
         \/ HandleCreate \/ CancelEdit
         \/ \E total \in 0 .. MaxTotal : HandleChange(total)
         \/ \E e \in Events : HandleEdit(e)
  PROVE  AdminInv'
<1>1. desk \in DeskRecord /\ Agrees(desk)
  BY DEF AdminInv, EditorAgrees, Agrees
<1>2. ASSUME NEW selected \in Events \cup {None}, NEW floor \in 0 .. MaxTotal,
             NEW total \in 0 .. MaxTotal, NEW draft, draft = [event |-> selected, total |-> total]
      PROVE  Edited(selected, floor, draft) \in DeskRecord
             /\ Agrees(Edited(selected, floor, draft))
  <2> DEFINE d == Edited(selected, floor, draft)
  <2>1. d \in DeskRecord
    BY <1>1, <1>2 DEF Edited, DeskRecord, DraftRecord
  <2>2. d.open /\ d.selected = selected /\ d.draft = draft
    BY <1>1 DEF Edited, DeskRecord
  <2> QED BY <1>2, <2>1, <2>2 DEF Agrees
<1>3. desk' \in DeskRecord /\ Agrees(desk)'
  <2>1. CASE HandleCreate
    BY <1>2, <2>1, SizesAssumption DEF HandleCreate, NewDraft, Agrees
  <2>2. CASE CancelEdit
    BY <1>1, <2>2, ClosedAgrees DEF CancelEdit, Agrees
  <2>3. ASSUME NEW total \in 0 .. MaxTotal, HandleChange(total)
        PROVE  desk' \in DeskRecord /\ Agrees(desk)'
    <3>1. desk' = [desk EXCEPT !.draft = [desk.draft EXCEPT !.total = total]] /\ desk.open
      BY <1>1, <2>3 DEF HandleChange, FormOpen, DeskRecord
    <3>2. desk.draft \in DraftRecord
      BY <1>1 DEF DeskRecord
    <3>3. /\ [desk.draft EXCEPT !.total = total] \in DraftRecord
          /\ [desk.draft EXCEPT !.total = total].event = desk.draft.event
      BY <2>3, <3>2 DEF DraftRecord
    <3>4. desk' \in DeskRecord
      BY <1>1, <3>1, <3>3 DEF DeskRecord
    <3>5. desk'.open = desk.open /\ desk'.selected = desk.selected
          /\ desk'.draft.event = desk.draft.event
      BY <1>1, <3>1, <3>3 DEF DeskRecord
    <3> QED BY <1>1, <3>1, <3>4, <3>5 DEF Agrees
  <2>4. ASSUME NEW e \in Events, HandleEdit(e)
        PROVE  desk' \in DeskRecord /\ Agrees(desk)'
    <3>1. list[e] \in Counts
      BY <2>4 DEF HandleEdit, Offered, AdminInv, Listings
    <3>2. list[e].available \in 0 .. MaxTotal /\ list[e].total \in 0 .. MaxTotal
      BY <3>1 DEF Counts
    <3> QED BY <1>2, <2>4, <3>2 DEF HandleEdit, Agrees
  <2> QED BY <2>1, <2>2, <2>3, <2>4
<1>4. UNCHANGED <<list, save, delete, refresh>>
  BY DEF HandleCreate, CancelEdit, HandleChange, HandleEdit
<1> QED BY <1>3, <1>4 DEF AdminInv, EditorAgrees, Agrees, Caller

(* What a desk holds. *)
LEMMA DeskFields ==
  ASSUME NEW d \in DeskRecord
  PROVE  /\ d.loading \in BOOLEAN /\ d.fetched \in BOOLEAN /\ d.busy \in BOOLEAN
         /\ d.untidy \in BOOLEAN /\ d.deleting \in Events \cup {None}
         /\ d.selected \in Events \cup {None} /\ d.draft.total \in 0 .. MaxTotal
BY DEF DeskRecord, DraftRecord

(* The list is replaced by an answer, from a desk d that is in order. *)
LEMMA RefreshedKeeps ==
  ASSUME AdminInv, NEW c \in Caller, NEW d \in DeskRecord, Agrees(d), Refreshed(c, d)
  PROVE  /\ desk' \in DeskRecord /\ Agrees(desk)'
         /\ list' \in Listings
         /\ refresh' \in [Caller -> RefreshRecord]
<1>1. refresh[c] \in RefreshRecord /\ refresh[c].list \in Listings
  BY DEF AdminInv, RefreshRecord
<1>2. desk' \in DeskRecord /\ Agrees(desk')
  <2> DEFINE untidy == d.untidy \/ refresh[c].pc = "failed"
  <2>1. untidy \in BOOLEAN
    BY DeskFields
  <2>2. desk' = [d EXCEPT !.loading = FALSE, !.untidy = untidy]
    BY DEF Refreshed
  <2>3. desk' \in DeskRecord
    <3> HIDE DEF untidy
    <3> QED BY <2>1, <2>2 DEF DeskRecord
  <2>4. desk'.open = d.open /\ desk'.selected = d.selected /\ desk'.draft = d.draft
    BY <2>2 DEF DeskRecord
  <2> QED BY <2>3, <2>4 DEF Agrees
<1>3. list' \in Listings
  BY <1>1 DEF Refreshed, AdminInv
<1>4. refresh' \in [Caller -> RefreshRecord]
  BY FreshDeskTyped DEF Refreshed, AdminInv
<1> QED BY <1>2, <1>3, <1>4 DEF Agrees

(* fetchEvents *)
LEMMA RefreshKeeps ==
  ASSUME AdminInv, EventsInv,
         \/ FirstRefresh \/ EffectRefreshed
         \/ \E c \in Caller : RefreshHandled(c) \/ RefreshFails(c)
  PROVE  AdminInv'
<1>1. desk \in DeskRecord /\ Agrees(desk) /\ "effect" \in Caller
  BY DEF AdminInv, EditorAgrees, Agrees, Caller
<1>2. CASE FirstRefresh
  <2>1. desk' = [desk EXCEPT !.loading = TRUE, !.fetched = TRUE]
    BY <1>2 DEF FirstRefresh
  <2>2. desk' \in DeskRecord
    BY <1>1, <2>1 DEF DeskRecord
  <2>3. desk'.open = desk.open /\ desk'.selected = desk.selected /\ desk'.draft = desk.draft
    BY <1>1, <2>1 DEF DeskRecord
  <2>4. refresh' \in [Caller -> RefreshRecord]
    BY <1>1, <1>2 DEF FirstRefresh, CallRefresh, AdminInv, RefreshRecord
  <2> QED BY <1>1, <1>2, <2>2, <2>3, <2>4 DEF FirstRefresh, AdminInv, EditorAgrees, Agrees
<1>3. CASE EffectRefreshed
  BY <1>1, <1>3, RefreshedKeeps DEF EffectRefreshed, AdminInv, EditorAgrees, Agrees
<1>4. ASSUME NEW c \in Caller, RefreshHandled(c) \/ RefreshFails(c) PROVE AdminInv'
  <2>1. [pc |-> "answered", list |-> Listing] \in RefreshRecord
    BY ListingTyped DEF RefreshRecord
  <2>2. [refresh[c] EXCEPT !.pc = "failed"] \in RefreshRecord
    BY DEF AdminInv, RefreshRecord
  <2>3. refresh' \in [Caller -> RefreshRecord]
    <3>1. CASE RefreshHandled(c)
      BY <2>1, <3>1 DEF RefreshHandled, AdminInv
    <3>2. CASE RefreshFails(c)
      BY <2>2, <3>2 DEF RefreshFails, AdminInv
    <3> QED BY <1>4, <3>1, <3>2
  <2>4. UNCHANGED <<desk, list, save, delete>>
    BY <1>4 DEF RefreshHandled, RefreshFails
  <2> QED BY <2>3, <2>4 DEF AdminInv, EditorAgrees
<1> QED BY <1>2, <1>3, <1>4

(* Loading, busy, deleting and untidy are not about the editor. *)
LEMMA DeskTouched ==
  ASSUME NEW d \in DeskRecord, Agrees(d), NEW loading \in BOOLEAN, NEW busy \in BOOLEAN,
         NEW deleting \in Events \cup {None}, NEW untidy \in BOOLEAN,
         desk' = [d EXCEPT !.loading = loading, !.busy = busy, !.deleting = deleting,
                           !.untidy = untidy]
  PROVE  desk' \in DeskRecord /\ Agrees(desk)'
<1>1. desk' \in DeskRecord
  BY DEF DeskRecord
<1>2. desk'.open = d.open /\ desk'.selected = d.selected /\ desk'.draft = d.draft
  BY DEF DeskRecord
<1> QED BY <1>1, <1>2 DEF Agrees

(* handleSave *)
LEMMA SaveKeeps ==
  ASSUME AdminInv, SaveSent \/ SaveDone \/ SaveFailed \/ SaveRefreshed
  PROVE  AdminInv'
<1>1. desk \in DeskRecord /\ Agrees(desk) /\ "save" \in Caller
  BY DEF AdminInv, EditorAgrees, Agrees, Caller
<1>2. CASE SaveSent \/ SaveDone \/ SaveFailed
  <2>1. PICK loading \in BOOLEAN, busy \in BOOLEAN, untidy \in BOOLEAN :
          desk' = [desk EXCEPT !.loading = loading, !.busy = busy, !.deleting = desk.deleting,
                               !.untidy = untidy]
    <3>1. CASE SaveSent
      <4> DEFINE untidy == desk.untidy \/ ~Quiet
      <4>1. desk' = [desk EXCEPT !.busy = TRUE, !.untidy = untidy]
        BY <3>1 DEF SaveSent
      <4>2. desk' = [desk EXCEPT !.loading = desk.loading, !.busy = TRUE,
                                 !.deleting = desk.deleting, !.untidy = untidy]
        <5> HIDE DEF untidy
        <5> QED BY <1>1, <4>1 DEF DeskRecord
      <4>3. desk.loading \in BOOLEAN /\ untidy \in BOOLEAN
        BY <1>1, DeskFields
      <4> QED BY <4>2, <4>3
    <3>2. CASE SaveDone
      <4>1. desk' = [desk EXCEPT !.loading = TRUE, !.busy = desk.busy, !.deleting = desk.deleting,
                                 !.untidy = desk.untidy]
        BY <1>1, <3>2 DEF SaveDone, DeskRecord
      <4> QED BY <1>1, <4>1, DeskFields
    <3>3. CASE SaveFailed
      <4>1. desk' = [desk EXCEPT !.loading = desk.loading, !.busy = FALSE,
                                 !.deleting = desk.deleting, !.untidy = TRUE]
        BY <1>1, <3>3 DEF SaveFailed, DeskRecord
      <4> QED BY <1>1, <4>1, DeskFields
    <3> QED BY <1>2, <3>1, <3>2, <3>3
  <2>2. desk' \in DeskRecord /\ Agrees(desk)'
    BY <1>1, <2>1, DeskFields, DeskTouched
  <2>3. refresh' \in [Caller -> RefreshRecord]
    BY <1>1, <1>2 DEF SaveSent, SaveDone, SaveFailed, CallRefresh, AdminInv, RefreshRecord
  <2>4. save' \in {"idle", "sent", "refresh"} /\ UNCHANGED <<list, delete>>
    BY <1>2 DEF SaveSent, SaveDone, SaveFailed
  <2> QED BY <2>2, <2>3, <2>4 DEF AdminInv, EditorAgrees, Agrees
<1>3. CASE SaveRefreshed
  <2> DEFINE d == [Closed(desk) EXCEPT !.busy = FALSE]
  <2>1. Closed(desk) \in DeskRecord /\ Agrees(Closed(desk))
    BY <1>1, ClosedAgrees
  <2>2. d \in DeskRecord
    BY <2>1 DEF DeskRecord
  <2>3. d.open = Closed(desk).open /\ d.selected = Closed(desk).selected
        /\ d.draft = Closed(desk).draft
    BY <2>1 DEF DeskRecord
  <2>4. Agrees(d)
    BY <2>1, <2>3 DEF Agrees
  <2>5. Refreshed("save", d) /\ save' = "idle" /\ UNCHANGED delete
    BY <1>3 DEF SaveRefreshed
  <2>6. /\ desk' \in DeskRecord /\ Agrees(desk)'
        /\ list' \in Listings
        /\ refresh' \in [Caller -> RefreshRecord]
    <3> HIDE DEF d
    <3> QED BY <1>1, <2>2, <2>4, <2>5, RefreshedKeeps
  <2> QED BY <2>5, <2>6 DEF AdminInv, EditorAgrees, Agrees
<1> QED BY <1>2, <1>3

(* handleDelete *)
LEMMA DeleteHandlerKeeps ==
  ASSUME AdminInv, NEW d \in Deleters,
         \/ \E e \in Events : DeleteSent(d, e)
         \/ DeleteDone(d) \/ DeleteFailed(d) \/ DeleteRefreshed(d)
  PROVE  AdminInv'
<1>1. desk \in DeskRecord /\ Agrees(desk) /\ d \in Caller
  BY DEF AdminInv, EditorAgrees, Agrees, Caller
<1>2. NoDelete \in DeleteRecord
  BY DEF NoDelete, DeleteRecord
<1>3. delete' \in [Deleters -> DeleteRecord]
  <2>1. CASE \E e \in Events : DeleteSent(d, e)
    <3>1. PICK e \in Events : DeleteSent(d, e)
      BY <2>1
    <3> QED BY <1>1, <3>1, DeskFields DEF DeleteSent, AdminInv, DeleteRecord
  <2>2. CASE DeleteDone(d)
    BY <2>2 DEF DeleteDone, AdminInv, DeleteRecord
  <2>3. CASE DeleteFailed(d) \/ DeleteRefreshed(d)
    BY <1>2, <2>3 DEF DeleteFailed, DeleteRefreshed, AdminInv
  <2> QED BY <2>1, <2>2, <2>3
<1>4. CASE (\E e \in Events : DeleteSent(d, e)) \/ DeleteDone(d) \/ DeleteFailed(d)
  <2>1. PICK loading \in BOOLEAN, deleting \in Events \cup {None}, untidy \in BOOLEAN :
          desk' = [desk EXCEPT !.loading = loading, !.busy = desk.busy, !.deleting = deleting,
                               !.untidy = untidy]
    <3>1. CASE \E e \in Events : DeleteSent(d, e)
      <4> DEFINE untidy == desk.untidy \/ ~Quiet
      <4>1. PICK e \in Events : desk' = [desk EXCEPT !.deleting = e, !.untidy = untidy]
        BY <3>1 DEF DeleteSent
      <4>2. desk' = [desk EXCEPT !.loading = desk.loading, !.busy = desk.busy, !.deleting = e,
                                 !.untidy = untidy]
        <5> HIDE DEF untidy
        <5> QED BY <1>1, <4>1 DEF DeskRecord
      <4>3. desk.loading \in BOOLEAN /\ untidy \in BOOLEAN
        BY <1>1, DeskFields
      <4> QED BY <4>2, <4>3
    <3>2. CASE DeleteDone(d)
      <4>1. desk' = [desk EXCEPT !.loading = TRUE, !.busy = desk.busy, !.deleting = desk.deleting,
                                 !.untidy = desk.untidy]
        BY <1>1, <3>2 DEF DeleteDone, DeskRecord
      <4> QED BY <1>1, <4>1, DeskFields
    <3>3. CASE DeleteFailed(d)
      <4>1. desk' = [desk EXCEPT !.loading = desk.loading, !.busy = desk.busy, !.deleting = None,
                                 !.untidy = TRUE]
        BY <1>1, <3>3 DEF DeleteFailed, DeskRecord
      <4> QED BY <1>1, <4>1, DeskFields
    <3> QED BY <1>4, <3>1, <3>2, <3>3
  <2>2. desk' \in DeskRecord /\ Agrees(desk)'
    BY <1>1, <2>1, DeskFields, DeskTouched
  <2>3. refresh' \in [Caller -> RefreshRecord]
    BY <1>1, <1>4 DEF DeleteSent, DeleteDone, DeleteFailed, CallRefresh, AdminInv, RefreshRecord
  <2>4. UNCHANGED <<list, save>>
    BY <1>4 DEF DeleteSent, DeleteDone, DeleteFailed
  <2> QED BY <1>3, <2>2, <2>3, <2>4 DEF AdminInv, EditorAgrees, Agrees
<1>5. CASE DeleteRefreshed(d)
  <2> DEFINE kept == IF delete[d].selected = delete[d].event THEN Closed(desk) ELSE desk
             last == [kept EXCEPT !.deleting = None]
  <2>1. kept \in DeskRecord /\ Agrees(kept)
    BY <1>1, ClosedAgrees
  <2>2. Refreshed(d, last) /\ UNCHANGED save
    BY <1>5 DEF DeleteRefreshed
  <2>3. last \in DeskRecord /\ Agrees(last)
    <3> HIDE DEF kept
    <3>1. last \in DeskRecord
      BY <2>1 DEF DeskRecord
    <3>2. last.open = kept.open /\ last.selected = kept.selected /\ last.draft = kept.draft
      BY <2>1 DEF DeskRecord
    <3> QED BY <2>1, <3>1, <3>2 DEF Agrees
  <2>4. /\ desk' \in DeskRecord /\ Agrees(desk)'
        /\ list' \in Listings
        /\ refresh' \in [Caller -> RefreshRecord]
    <3> HIDE DEF last
    <3> QED BY <1>1, <2>2, <2>3, RefreshedKeeps
  <2> QED BY <1>3, <2>2, <2>4 DEF AdminInv, EditorAgrees, Agrees
<1> QED BY <1>4, <1>5

(* The requests the page sends are requests as EventsApi knows them. *)
LEMMA PageWrites ==
  ASSUME EventsInv, AdminInv, SessionInv, AdminStep, UNCHANGED <<event, hash, read, cut>>
  PROVE  EventsInv'
<1>1. store \in Accounts \cup {None}
  BY DEF SessionInv, SessionTypeOK
<1>2. ASSUME NEW w \in Writers, NEW method \in Method, NEW e \in Events \cup {None},
             NEW total \in 0 .. MaxTotal, method # "POST" => e \in Events,
             Arrive(w, method, e, total, store)
      PROVE  WriteInv'
  <2> DEFINE rec == [pc |-> "arrived", method |-> method, event |-> e, total |-> total,
                     who |-> store, rows |-> {}]
  <2>1. rec \in WriteRecord /\ WriteAddressed(rec)
    BY <1>1, <1>2 DEF WriteRecord, WritePC, WriteAddressed
  <2>2. write' = [write EXCEPT ![w] = rec]
    BY <1>2 DEF Arrive
  <2> QED BY <2>1, <2>2, WriteReplaced DEF EventsInv
<1>3. ASSUME NEW w \in Writers, Answered(w) PROVE WriteInv'
  <2>1. WriteAddressed(NoWrite)
    BY DEF WriteAddressed, NoWrite
  <2> QED BY <1>3, <2>1, NoWriteTyped, WriteReplaced DEF EventsInv, Answered
<1>4. ASSUME SaveSent PROVE WriteInv'
  <2>1. desk.selected \in Events \cup {None} /\ desk.draft.total \in 0 .. MaxTotal
    BY DeskFields DEF AdminInv
  <2>2. "save" \in Writers
    BY WritersAssumption
  <2>3. CASE desk.selected # None
    BY <1>2, <1>4, <2>1, <2>2, <2>3 DEF SaveSent, Method
  <2>4. CASE desk.selected = None
    BY <1>2, <1>4, <2>1, <2>2, <2>4 DEF SaveSent, Method
  <2> QED BY <2>3, <2>4
<1>5. ASSUME NEW d \in Deleters, NEW e \in Events, DeleteSent(d, e) PROVE WriteInv'
  <2>1. d \in Writers /\ 0 \in 0 .. MaxTotal
    BY WritersAssumption, SizesAssumption
  <2> QED BY <1>2, <1>5, <2>1 DEF DeleteSent, Method
<1>6. ASSUME NEW w \in Writers, Answered(w) \/ Failed(w) PROVE WriteInv'
  BY <1>3, <1>6 DEF Failed, EventsInv, WriteInv, WriteAddressed
<1>7. WriteInv'
  <2>1. CASE UNCHANGED write
    BY <2>1 DEF EventsInv, WriteInv, WriteAddressed
  <2>2. CASE SaveDone \/ SaveFailed
    BY <1>6, <2>2, WritersAssumption DEF SaveDone, SaveFailed
  <2>3. ASSUME NEW d \in Deleters, DeleteDone(d) \/ DeleteFailed(d) PROVE WriteInv'
    BY <1>6, <2>3, WritersAssumption DEF DeleteDone, DeleteFailed
  <2>4. \/ SaveSent \/ SaveDone \/ SaveFailed \/ UNCHANGED write
        \/ \E d \in Deleters, e \in Events : DeleteSent(d, e)
        \/ \E d \in Deleters : DeleteDone(d) \/ DeleteFailed(d)
    BY DEF AdminStep, FirstRefresh, EffectRefreshed, HandleCreate, CancelEdit, HandleChange,
           SaveRefreshed, RefreshHandled, RefreshFails, HandleEdit, DeleteRefreshed, Refreshed
  <2> QED BY <1>4, <1>5, <2>1, <2>2, <2>3, <2>4 DEF EventsInv
<1> QED BY <1>7 DEF EventsInv, EventInv, ReadInv

(* Every step of the page keeps its state in order. *)
LEMMA AdminStepKeeps ==
  ASSUME AdminInv, EventsInv, AdminStep
  PROVE  AdminInv'
BY RefreshKeeps, EditorKeeps, SaveKeeps, DeleteHandlerKeeps DEF AdminStep

(* So does mounting it. *)
LEMMA MountAdminKeeps ==
  ASSUME MountAdmin
  PROVE  AdminInv'
<1> DEFINE untidy == \E w \in Writers : write[w].pc # "idle"
<1>1. desk' = [FreshDesk EXCEPT !.untidy = untidy] /\ untidy \in BOOLEAN
  BY DEF MountAdmin
<1>2. desk' \in DeskRecord
  <2> HIDE DEF untidy
  <2> QED BY <1>1, FreshDeskTyped DEF DeskRecord
<1>3. desk'.open = FALSE /\ desk'.selected = None /\ desk'.draft = NoDraft
  <2> HIDE DEF untidy
  <2> QED BY <1>1, FreshDeskTyped DEF DeskRecord
<1>4. /\ list' \in Listings /\ save' = "idle"
      /\ delete' \in [Deleters -> DeleteRecord]
      /\ refresh' \in [Caller -> RefreshRecord]
  BY FreshDeskTyped, EmptyListing DEF MountAdmin
<1> QED BY <1>2, <1>3, <1>4 DEF AdminInv, EditorAgrees

-----------------------------------------------------------------------------
(* The storefront. *)

ShelfRecord == [query: Terms, due: BOOLEAN, loading: BOOLEAN, error: BOOLEAN,
                list: SUBSET Events, of: Terms \cup {None}, overlap: BOOLEAN]
FetchRecord == [pc: {"idle", "sent", "answered"}, query: Terms, list: SUBSET Events]

(* A freshly mounted page. *)
LEMMA FreshShelfTyped ==
  /\ NoFetch \in FetchRecord
  /\ FreshShelf \in ShelfRecord
  /\ \A q \in Terms : [FreshShelf EXCEPT !.query = q] \in ShelfRecord
<1>1. NoFetch \in FetchRecord /\ FreshShelf \in ShelfRecord
  BY TermsAssumption DEF NoFetch, FetchRecord, FreshShelf, ShelfRecord
<1>2. \A q \in Terms : [FreshShelf EXCEPT !.query = q] \in ShelfRecord
  BY <1>1 DEF ShelfRecord
<1> QED BY <1>1, <1>2

(* Unless two requests overlapped, those under way are for the query in the *)
(* address, and so is what was shown last.                                  *)
Answers ==
  ~shelf.due /\ ~shelf.overlap
    => /\ \A f \in Fetchers : fetch[f].pc # "idle" => fetch[f].query = shelf.query
       /\ ~shelf.loading /\ ~shelf.error => shelf.of = shelf.query

BrowseInv == BrowseTypeOK /\ Answers

(* A query, and the requests it leads to. *)
LEMMA BrowseStepTyped ==
  ASSUME BrowseTypeOK, BrowseStep
  PROVE  BrowseTypeOK'
<1>1. shelf \in ShelfRecord /\ fetch \in [Fetchers -> FetchRecord]
  BY DEF BrowseTypeOK, ShelfRecord, FetchRecord
<1>2. ASSUME NEW query \in Terms, Search(query)
      PROVE  shelf' \in ShelfRecord /\ fetch' \in [Fetchers -> FetchRecord]
  BY <1>1, <1>2 DEF Search, ShelfRecord
<1>3. ASSUME NEW f \in Fetchers, FetchEvents(f)
      PROVE  shelf' \in ShelfRecord /\ fetch' \in [Fetchers -> FetchRecord]
  <2> DEFINE overlap == \E g \in Fetchers : fetch[g].pc # "idle"
  <2>1. [pc |-> "sent", query |-> shelf.query, list |-> {}] \in FetchRecord
    BY <1>1 DEF ShelfRecord, FetchRecord
  <2>2. fetch' \in [Fetchers -> FetchRecord]
    BY <1>1, <1>3, <2>1 DEF FetchEvents
  <2>3. shelf' = [shelf EXCEPT !.due = FALSE, !.loading = TRUE, !.error = FALSE,
                               !.overlap = overlap]
        /\ overlap \in BOOLEAN
    BY <1>3 DEF FetchEvents
  <2>4. shelf' \in ShelfRecord
    <3> HIDE DEF overlap
    <3> QED BY <1>1, <2>3 DEF ShelfRecord
  <2> QED BY <2>2, <2>4
<1>4. ASSUME NEW f \in Fetchers, FetchHandled(f)
      PROVE  shelf' \in ShelfRecord /\ fetch' \in [Fetchers -> FetchRecord]
  <2> DEFINE found == Found(fetch[f].query)
  <2>1. found \subseteq Events
    BY DEF Found
  <2>2. fetch' = [fetch EXCEPT ![f] = [fetch[f] EXCEPT !.pc = "answered", !.list = found]]
    BY <1>1, <1>4 DEF FetchHandled
  <2>3. [fetch[f] EXCEPT !.pc = "answered", !.list = found] \in FetchRecord
    <3> HIDE DEF found
    <3> QED BY <1>1, <2>1 DEF FetchRecord
  <2> QED BY <1>1, <1>4, <2>2, <2>3 DEF FetchHandled
<1>5. ASSUME NEW f \in Fetchers, FetchAnswered(f)
      PROVE  shelf' \in ShelfRecord /\ fetch' \in [Fetchers -> FetchRecord]
  <2>1. fetch[f].list \subseteq Events /\ fetch[f].query \in Terms
    BY <1>1 DEF FetchRecord
  <2>2. shelf' \in ShelfRecord
    BY <1>1, <1>5, <2>1 DEF FetchAnswered, ShelfRecord
  <2> QED BY <1>1, <1>5, <2>2, FreshShelfTyped DEF FetchAnswered
<1>6. ASSUME NEW f \in Fetchers, FetchFails(f)
      PROVE  shelf' \in ShelfRecord /\ fetch' \in [Fetchers -> FetchRecord]
  BY <1>1, <1>6, FreshShelfTyped DEF FetchFails, ShelfRecord
<1>7. shelf' \in ShelfRecord /\ fetch' \in [Fetchers -> FetchRecord]
  BY <1>2, <1>3, <1>4, <1>5, <1>6 DEF BrowseStep
<1> QED BY <1>7 DEF BrowseTypeOK, ShelfRecord, FetchRecord

(* None of them shows an answer to another query as one to this. *)
LEMMA BrowseStepKeeps ==
  ASSUME BrowseInv, BrowseStep
  PROVE  BrowseInv'
<1>1. BrowseTypeOK'
  BY BrowseStepTyped DEF BrowseInv
<1>2. shelf \in ShelfRecord /\ fetch \in [Fetchers -> FetchRecord] /\ Answers
  BY DEF BrowseInv, BrowseTypeOK, ShelfRecord, FetchRecord
<1>3. ASSUME NEW query \in Terms, Search(query) PROVE Answers'
  <2>1. shelf'.due
    BY <1>2, <1>3 DEF Search, ShelfRecord
  <2> QED BY <2>1 DEF Answers
<1>4. ASSUME NEW f \in Fetchers, FetchEvents(f) PROVE Answers'
  <2> DEFINE overlap == \E g \in Fetchers : fetch[g].pc # "idle"
  <2>1. shelf'.loading /\ shelf'.query = shelf.query /\ shelf'.overlap = overlap
    <3>1. shelf' = [shelf EXCEPT !.due = FALSE, !.loading = TRUE, !.error = FALSE,
                                 !.overlap = overlap]
      BY <1>4 DEF FetchEvents
    <3> HIDE DEF overlap
    <3> QED BY <1>2, <3>1 DEF ShelfRecord
  <2>2. fetch'[f].query = shelf.query /\ \A g \in Fetchers \ {f} : fetch'[g] = fetch[g]
    BY <1>2, <1>4 DEF FetchEvents
  <2> QED BY <2>1, <2>2 DEF Answers
<1>5. ASSUME NEW f \in Fetchers, FetchHandled(f) PROVE Answers'
  <2>1. UNCHANGED shelf /\ fetch[f].pc # "idle"
    BY <1>5 DEF FetchHandled
  <2>2. \A g \in Fetchers : fetch'[g].query = fetch[g].query
    BY <1>2, <1>5 DEF FetchHandled, FetchRecord
  <2>3. \A g \in Fetchers \ {f} : fetch'[g] = fetch[g]
    BY <1>2, <1>5 DEF FetchHandled
  <2> QED BY <1>2, <2>1, <2>2, <2>3 DEF Answers
<1>6. ASSUME NEW f \in Fetchers, FetchAnswered(f) \/ FetchFails(f) PROVE Answers'
  <2>1. fetch' = [fetch EXCEPT ![f] = NoFetch] /\ fetch[f].pc # "idle"
    BY <1>6 DEF FetchAnswered, FetchFails
  <2>2. fetch'[f].pc = "idle" /\ \A g \in Fetchers \ {f} : fetch'[g] = fetch[g]
    BY <1>2, <2>1 DEF NoFetch
  <2>3. shelf'.due = shelf.due /\ shelf'.overlap = shelf.overlap /\ shelf'.query = shelf.query
    BY <1>2, <1>6 DEF FetchAnswered, FetchFails, ShelfRecord
  <2>4. shelf'.error \/ shelf'.of = fetch[f].query
    BY <1>2, <1>6 DEF FetchAnswered, FetchFails, ShelfRecord
  <2> QED BY <1>2, <2>1, <2>2, <2>3, <2>4 DEF Answers
<1>7. Answers'
  BY <1>3, <1>4, <1>5, <1>6 DEF BrowseStep
<1> QED BY <1>1, <1>7 DEF BrowseInv

(* So does mounting it. *)
LEMMA MountBrowseKeeps ==
  ASSUME MountBrowse
  PROVE  BrowseInv'
<1>1. PICK q \in Terms : shelf' = [FreshShelf EXCEPT !.query = q]
  BY TermsAssumption DEF MountBrowse
<1>2. shelf' \in ShelfRecord /\ fetch' \in [Fetchers -> FetchRecord]
  BY <1>1, FreshShelfTyped DEF MountBrowse
<1>3. shelf'.due
  BY <1>1 DEF FreshShelf
<1> QED BY <1>2, <1>3 DEF BrowseInv, BrowseTypeOK, Answers, ShelfRecord, FetchRecord

-----------------------------------------------------------------------------
(* The site. *)

SiteInv == SessionInv /\ EventsInv /\ AdminInv /\ BrowseInv /\ MineInv

(* The API under the requests of the pages, and of pages that were left. *)
LEMMA SiteKeepsEvents ==
  ASSUME SiteInv, [Next]_vars
  PROVE  EventsInv'
<1> USE DEF SiteInv
<1>1. CASE AdminStep /\ UNCHANGED <<event, hash, read, cut>>
  BY <1>1, PageWrites
<1>2. ASSUME NEW w \in Writers, WriteStep(w) PROVE EventsInv'
  BY <1>2, CreateKeeps, UpdateKeeps, DeleteKeeps, RejectKeeps, HashStepKeeps DEF WriteStep
<1>3. ASSUME NEW w \in Writers, Forgotten(w), UNCHANGED <<event, hash, read, cut>>
      PROVE  EventsInv'
  <2>1. AnsweredAnybody(w)
    BY <1>3 DEF Forgotten, AnsweredAnybody
  <2> QED BY <2>1, AnsweredKeeps
<1>4. CASE UNCHANGED eventVars
  BY <1>4 DEF EventsInv, EventInv, WriteInv, WriteAddressed, ReadInv, eventVars
<1> QED BY <1>1, <1>2, <1>3, <1>4 DEF Next, vars

(* The pages. *)
LEMMA SiteKeepsPages ==
  ASSUME SiteInv, [Next]_vars
  PROVE  AdminInv' /\ BrowseInv'
<1> USE DEF SiteInv
<1>1. AdminInv'
  <2>1. CASE AdminStep
    BY <2>1, AdminStepKeeps
  <2>2. CASE Mount
    BY <2>2, MountAdminKeeps DEF Mount
  <2>3. CASE UNCHANGED adminVars
    BY <2>3 DEF AdminInv, EditorAgrees, adminVars
  <2> QED BY <2>1, <2>2, <2>3 DEF Next, vars
<1>2. BrowseInv'
  <2>1. CASE BrowseStep
    BY <2>1, BrowseStepKeeps
  <2>2. CASE Mount
    BY <2>2, MountBrowseKeeps DEF Mount
  <2>3. CASE UNCHANGED browseVars
    BY <2>3 DEF BrowseInv, BrowseTypeOK, Answers, browseVars
  <2> QED BY <2>1, <2>2, <2>3 DEF Next, vars
<1> QED BY <1>1, <1>2

(* The state in which the site is entered. *)
LEMMA SiteInvInitially == Init => SiteInv
<1> SUFFICES ASSUME Init PROVE SiteInv
  OBVIOUS
<1>1. AdminInv
  BY FreshDeskTyped, EmptyListing DEF Init, AdminInit, AdminInv, EditorAgrees
<1>2. shelf \in ShelfRecord /\ fetch \in [Fetchers -> FetchRecord]
  BY FreshShelfTyped DEF Init, BrowseInit
<1>3. BrowseInv
  BY <1>2 DEF Init, BrowseInit, FreshShelf, BrowseInv, BrowseTypeOK, Answers, ShelfRecord, FetchRecord
<1>4. MineInv
  BY MountedMine DEF Init, MineInit, Rowsets, NoRows
<1> QED BY <1>1, <1>3, <1>4, SessionInvInitially, EventsInvInitially DEF Init, SiteInv

(* Every reachable state of the site satisfies the inductive invariant.     *)
LEMMA SiteInvariant == Spec => []SiteInv
<1>1. SiteInv /\ [Next]_vars => SiteInv'
  BY SessionInvInductive, MineInvInductive, SiteKeepsEvents, SiteKeepsPages DEF SiteInv
<1> QED BY <1>1, SiteInvInitially, PTL DEF Spec

(* The session, the API and the pages keep the types of their state,        *)
(* whatever is asked, lost, left or answered late.                          *)
THEOREM SiteTypeCorrect == Spec => []TypeOK
<1>1. SiteInv => TypeOK
  <2> SUFFICES ASSUME SiteInv PROVE TypeOK
    OBVIOUS
  <2>1. ASSUME NEW l \in Lists PROVE IsList(l)
    BY ListEntries DEF IsList
  <2>2. MineTypeOK
    BY <2>1 DEF SiteInv, MineInv, MineTyped, MineTypeOK
  <2> QED BY <2>2, EventsInvTypes, AdminInvTypes DEF SiteInv, SessionInv, BrowseInv, TypeOK
<1> QED BY <1>1, SiteInvariant, PTL

(* The cards of the storefront, and "No events match", are about the query  *)
(* in the address, unless a newer request was sent while an older was under *)
(* way: there is no abort and no number on a request.                       *)
THEOREM ShownAlwaysAnswersQuery == Spec => []ShownAnswersQuery
<1>1. SiteInv => ShownAnswersQuery
  BY DEF SiteInv, BrowseInv, Answers, ShownAnswersQuery, Shelf
<1> QED BY <1>1, SiteInvariant, PTL

(* The form on screen is about the event that a save will write, however    *)
(* late handlers complete.                                                  *)
THEOREM EditorAlwaysAgrees == Spec => []EditorAgrees
BY SiteInvariant, PTL DEF SiteInv, AdminInv

-----------------------------------------------------------------------------
(* The list of the administrators, while they do one thing at a time. *)

Live == {e \in Events : event[e].live}

(* handleSave, or handleDelete of an event: what sends the writes. *)
Handler(w) == IF w = "save" THEN save ELSE delete[w].pc

(* A write is under way only while its handler awaits it, and a refresh     *)
(* only after that; so no event changes between a refresh and its answer.   *)
Tidy ==
  /\ \A w \in Writers : write[w].pc # "idle" => Handler(w) = "sent"
  /\ \A w \in Writers : refresh[w].pc # "idle" => Handler(w) = "refresh"
  /\ \A v, w \in Writers : Handler(v) # "idle" /\ Handler(w) # "idle" => v = w
  /\ refresh["effect"].pc # "idle" => \A w \in Writers : Handler(w) = "idle"
  /\ \A c \in Caller : refresh[c].pc = "answered" => DOMAIN refresh[c].list = Live
  /\ desk.fetched /\ Quiet => DOMAIN list = Live

(* Nothing is under way before the first refresh. *)
ListInv ==
  /\ ~desk.fetched => Quiet
  /\ ~desk.untidy => Tidy

(* The callers of fetchEvents are the effect and who writes. *)
LEMMA Callers ==
  /\ Caller = {"effect"} \cup Writers
  /\ "save" \in Writers /\ "effect" \notin Writers /\ Deleters \subseteq Writers
  /\ \A d \in Deleters : Handler(d) = delete[d].pc
  /\ Handler("save") = save
BY WritersAssumption DEF Caller, Handler

(* Nobody is at work. *)
NobodyWorks ==
  /\ \A w \in Writers : Handler(w) = "idle"
  /\ \A c \in Caller : refresh[c].pc = "idle"

LEMMA QuietMeans == Quiet <=> NobodyWorks
<1>1. (\A w \in Writers : Handler(w) = "idle")
        <=> save = "idle" /\ \A d \in Deleters : delete[d].pc = "idle"
  BY Callers, WritersAssumption
<1> QED BY <1>1 DEF Quiet, NobodyWorks

(* Nor after a step. *)
LEMMA QuietNext == Quiet' <=> NobodyWorks'
BY QuietMeans, PTL

(* While a handler awaits its write nothing is being read. *)
LEMMA NothingRead ==
  ASSUME Tidy, NEW w \in Writers, Handler(w) = "sent"
  PROVE  \A c \in Caller : refresh[c].pc = "idle"
<1>1. ASSUME NEW v \in Writers PROVE refresh[v].pc = "idle"
  BY <1>1 DEF Tidy
<1>2. refresh["effect"].pc = "idle"
  BY DEF Tidy
<1> QED BY <1>1, <1>2, Callers

(* A handler that sends a write is alone, or the desk is untidy from then on. *)
LEMMA HandlerSends ==
  ASSUME ListInv, NEW w \in Writers, Handler(w)' = "sent",
         \A v \in Writers \ {w} : Handler(v)' = Handler(v) /\ write'[v] = write[v],
         UNCHANGED refresh, desk.fetched, desk'.fetched,
         ~desk'.untidy => ~desk.untidy /\ Quiet
  PROVE  ListInv'
<1> SUFFICES ASSUME ~desk'.untidy PROVE Tidy'
  BY DEF ListInv
<1>1. Tidy /\ Quiet
  BY DEF ListInv
<1>2. /\ \A v \in Writers : Handler(v) = "idle" /\ write[v].pc = "idle"
      /\ \A c \in Caller : refresh[c].pc = "idle"
  BY <1>1, QuietMeans DEF Tidy, NobodyWorks
<1>3. ~Quiet'
  BY QuietNext DEF NobodyWorks
<1>4. \A v \in Writers : refresh'[v].pc = "idle"
  BY <1>2, Callers
<1>5. refresh'["effect"].pc = "idle" /\ \A c \in Caller' : refresh'[c].pc = "idle"
  BY <1>2, Callers DEF Caller
<1> QED BY <1>2, <1>3, <1>4, <1>5 DEF Tidy

(* A handler works only on a page that has asked for the list. *)
LEMMA WorkIsLater ==
  ASSUME ListInv, NEW w \in Writers, Handler(w) # "idle"
  PROVE  desk.fetched
BY QuietMeans DEF ListInv, NobodyWorks

(* Its write is done, and it asks for the list. *)
LEMMA HandlerAsks ==
  ASSUME ListInv, AdminInv, NEW w \in Writers, Handler(w) = "sent", Handler(w)' = "refresh",
         \A v \in Writers \ {w} : Handler(v)' = Handler(v) /\ write'[v] = write[v],
         write'[w].pc = "idle", CallRefresh(w),
         desk'.fetched = desk.fetched, desk'.untidy = desk.untidy
  PROVE  ListInv'
<1>1. desk.fetched
  BY WorkIsLater
<1> SUFFICES ASSUME ~desk'.untidy PROVE Tidy'
  BY <1>1 DEF ListInv
<1>2. Tidy
  BY DEF ListInv
<1>3. \A c \in Caller : refresh[c].pc = "idle"
  BY <1>2, NothingRead
<1>4. refresh'[w].pc = "sent" /\ \A c \in Caller \ {w} : refresh'[c].pc = "idle"
  BY <1>3, Callers DEF CallRefresh, AdminInv, RefreshRecord
<1>5. \A v \in Writers \ {w} : Handler(v)' = "idle"
  BY <1>2 DEF Tidy
<1>6. ~Quiet'
  BY QuietNext DEF NobodyWorks
<1>7. refresh'["effect"].pc = "idle"
  BY <1>4, Callers
<1>8. \A v \in Writers \ {w} : refresh'[v].pc = "idle"
  BY <1>4, Callers
<1>9. \A c \in Caller' : refresh'[c].pc # "answered"
  BY <1>4 DEF Caller
<1> QED BY <1>2, <1>4, <1>5, <1>6, <1>7, <1>8, <1>9 DEF Tidy

(* Its write has failed or is lost. *)
LEMMA HandlerGivesUp ==
  ASSUME ListInv, NEW w \in Writers, Handler(w) # "idle", desk'.fetched = desk.fetched,
         desk'.untidy
  PROVE  ListInv'
BY WorkIsLater DEF ListInv

(* The answer to a refresh is the events there are. *)
LEMMA AnswerIsLive ==
  ASSUME AdminInv, Tidy, NEW c \in Caller, NEW d \in DeskRecord, Refreshed(c, d),
         ~desk'.untidy, d.untidy = desk.untidy
  PROVE  DOMAIN list' = Live
<1>1. refresh[c].pc = "answered"
  BY DeskFields DEF Refreshed, DeskRecord
<1> QED BY <1>1 DEF Tidy, Refreshed

(* What Refreshed leaves alone. *)
LEMMA RefreshedFields ==
  ASSUME AdminInv, NEW c \in Caller, NEW d \in DeskRecord, Refreshed(c, d)
  PROVE  /\ desk'.fetched = d.fetched
         /\ d.untidy => desk'.untidy
         /\ refresh[c].pc # "idle" /\ refresh'[c].pc = "idle"
         /\ \A b \in Caller \ {c} : refresh'[b] = refresh[b]
<1> DEFINE untidy == d.untidy \/ refresh[c].pc = "failed"
<1>1. desk' = [d EXCEPT !.loading = FALSE, !.untidy = untidy]
  BY DEF Refreshed
<1>2. desk'.fetched = d.fetched /\ desk'.untidy = untidy
  <2> HIDE DEF untidy
  <2> QED BY <1>1 DEF DeskRecord
<1>3. /\ refresh[c].pc # "idle" /\ refresh'[c].pc = "idle"
      /\ \A b \in Caller \ {c} : refresh'[b] = refresh[b]
  BY DEF Refreshed, NoRefresh, AdminInv
<1> QED BY <1>2, <1>3

(* The list a handler has asked for arrives. *)
LEMMA HandlerEnds ==
  ASSUME ListInv, AdminInv, NEW w \in Writers, Handler(w) = "refresh", Handler(w)' = "idle",
         \A v \in Writers \ {w} : Handler(v)' = Handler(v), UNCHANGED <<event, write>>,
         NEW d \in DeskRecord, d.fetched = desk.fetched, d.untidy = desk.untidy,
         Refreshed(w, d)
  PROVE  ListInv'
<1>1. desk.fetched /\ w \in Caller
  BY WorkIsLater, Callers
<1>2. /\ desk'.fetched = d.fetched
      /\ d.untidy => desk'.untidy
      /\ refresh'[w].pc = "idle"
      /\ \A c \in Caller \ {w} : refresh'[c] = refresh[c]
  BY <1>1, RefreshedFields
<1>3. desk'.fetched /\ (~desk'.untidy => ~desk.untidy)
  BY <1>1, <1>2, Zenon
<1> SUFFICES ASSUME ~desk'.untidy PROVE Tidy'
  BY <1>3 DEF ListInv
<1>4. Tidy
  BY <1>3 DEF ListInv
<1>5. DOMAIN list' = Live
  BY <1>1, <1>4, AnswerIsLive
<1>6. \A v \in Writers : Handler(v)' = "idle" /\ write'[v].pc = "idle"
  BY <1>4 DEF Tidy
<1>7. refresh["effect"].pc = "idle" /\ \A v \in Writers \ {w} : refresh[v].pc = "idle"
  BY <1>4 DEF Tidy
<1>8. \A c \in Caller : refresh'[c].pc = "idle"
  BY <1>2, <1>7, Callers
<1>9. Live' = Live /\ Caller' = Caller
  BY DEF Live, Caller
<1> QED BY <1>5, <1>6, <1>8, <1>9, Callers DEF Tidy

(* The page asks for the list when it is mounted. *)
LEMMA EffectLists ==
  ASSUME ListInv, AdminInv, FirstRefresh \/ EffectRefreshed, UNCHANGED event
  PROVE  ListInv'
<1>1. desk \in DeskRecord /\ "effect" \in Caller /\ Live' = Live /\ Caller' = Caller
  BY Callers DEF AdminInv, Live, Caller
<1>2. UNCHANGED <<save, delete, write>> /\ \A w \in Writers : Handler(w)' = Handler(w)
  BY DEF FirstRefresh, EffectRefreshed, Handler
<1>3. CASE FirstRefresh
  <2>1. Quiet /\ NobodyWorks
    BY <1>3, QuietMeans DEF FirstRefresh, ListInv
  <2>2. desk'.fetched /\ desk'.untidy = desk.untidy
    BY <1>1, <1>3 DEF FirstRefresh, DeskRecord
  <2>3. refresh'["effect"].pc = "sent" /\ \A c \in Caller \ {"effect"} : refresh'[c] = refresh[c]
    BY <1>1, <1>3 DEF FirstRefresh, CallRefresh, AdminInv, RefreshRecord
  <2>4. ~Quiet'
    BY <1>1, <2>3, QuietNext DEF NobodyWorks
  <2>5. ASSUME Tidy PROVE Tidy'
    <3>1. \A w \in Writers : refresh'[w].pc = "idle"
      BY <2>1, <2>3, Callers DEF NobodyWorks
    <3>2. \A c \in Caller : refresh'[c].pc # "answered"
      BY <2>1, <2>3 DEF NobodyWorks
    <3> QED BY <1>1, <1>2, <2>1, <2>4, <2>5, <3>1, <3>2 DEF Tidy, NobodyWorks
  <2> QED BY <2>2, <2>5 DEF ListInv
<1>4. CASE EffectRefreshed
  <2>1. Refreshed("effect", desk)
    BY <1>4 DEF EffectRefreshed
  <2>2. /\ desk'.fetched = desk.fetched
        /\ desk.untidy => desk'.untidy
        /\ refresh["effect"].pc # "idle" /\ refresh'["effect"].pc = "idle"
        /\ \A c \in Caller \ {"effect"} : refresh'[c] = refresh[c]
    BY <1>1, <2>1, RefreshedFields
  <2>3. desk.fetched
    BY <1>1, <2>2, QuietMeans DEF ListInv, NobodyWorks
  <2>4. desk'.fetched /\ (~desk'.untidy => ~desk.untidy)
    BY <2>2, <2>3, Zenon
  <2>5. ASSUME ~desk'.untidy PROVE Tidy'
    <3>1. Tidy
      BY <2>4, <2>5 DEF ListInv
    <3>2. DOMAIN list' = Live
      BY <1>1, <2>1, <2>5, <3>1, AnswerIsLive
    <3>3. \A w \in Writers : Handler(w) = "idle" /\ refresh'[w].pc = "idle" /\ write[w].pc = "idle"
      <4>1. \A w \in Writers : w \in Caller \ {"effect"}
        BY Callers
      <4>2. \A w \in Writers : Handler(w) = "idle"
        BY <2>2, <3>1 DEF Tidy
      <4>3. \A w \in Writers : refresh[w].pc = "idle" /\ write[w].pc = "idle"
        BY <3>1, <4>2 DEF Tidy
      <4> QED
        BY <2>2, <4>1, <4>2, <4>3
    <3>4. \A c \in Caller : refresh'[c].pc = "idle"
      BY <2>2, <3>3, Callers
    <3> QED BY <1>1, <1>2, <2>2, <3>2, <3>3, <3>4 DEF Tidy
  <2> QED BY <2>4, <2>5 DEF ListInv
<1> QED BY <1>3, <1>4

(* A request for the list is handled, or fails. *)
LEMMA RefreshLists ==
  ASSUME ListInv, AdminInv, NEW c \in Caller, RefreshHandled(c) \/ RefreshFails(c),
         UNCHANGED event
  PROVE  ListInv'
<1>1. UNCHANGED <<desk, list, save, delete, write>> /\ refresh[c].pc = "sent"
  BY DEF RefreshHandled, RefreshFails
<1>2. /\ refresh'[c].pc \in {"answered", "failed"}
      /\ refresh'[c].pc = "answered" => DOMAIN refresh'[c].list = Live
      /\ \A b \in Caller \ {c} : refresh'[b] = refresh[b]
  BY DEF RefreshHandled, RefreshFails, AdminInv, RefreshRecord, Listing, Live
<1>3. ~Quiet /\ ~Quiet'
  BY <1>1, <1>2, QuietMeans, QuietNext DEF NobodyWorks
<1>4. desk'.fetched
  BY <1>1, <1>3 DEF ListInv
<1>5. Live' = Live /\ Caller' = Caller /\ \A w \in Writers : Handler(w)' = Handler(w)
  BY <1>1 DEF Live, Caller, Handler
<1>6. ASSUME Tidy PROVE Tidy'
  <2>1. \A b \in Caller : refresh'[b].pc # "idle" => refresh[b].pc # "idle"
    BY <1>1, <1>2
  <2>2. \A b \in Caller : refresh'[b].pc = "answered" => DOMAIN refresh'[b].list = Live
    BY <1>2, <1>6 DEF Tidy
  <2>3. \A w \in Writers : write'[w].pc # "idle" => Handler(w)' = "sent"
    BY <1>1, <1>5, <1>6 DEF Tidy
  <2>4. \A w \in Writers : refresh'[w].pc # "idle" => Handler(w)' = "refresh"
    <3>1. \A w \in Writers : refresh[w].pc # "idle" => Handler(w) = "refresh"
      BY <1>6 DEF Tidy
    <3>2. \A w \in Writers : refresh'[w].pc # "idle" => refresh[w].pc # "idle"
      BY <2>1, Callers
    <3> QED BY <1>5, <3>1, <3>2
  <2>5. \A v, w \in Writers : Handler(v)' # "idle" /\ Handler(w)' # "idle" => v = w
    BY <1>5, <1>6 DEF Tidy
  <2>6. refresh'["effect"].pc # "idle" => \A w \in Writers : Handler(w)' = "idle"
    BY <1>5, <1>6, <2>1, Callers DEF Tidy
  <2>7. \A b \in Caller' : refresh'[b].pc = "answered" => DOMAIN refresh'[b].list = Live'
    BY <1>5, <2>2
  <2> QED BY <1>3, <2>3, <2>4, <2>5, <2>6, <2>7 DEF Tidy
<1> QED BY <1>1, <1>4, <1>6 DEF ListInv

(* The API works on a write, or drops an answer nobody awaits. *)
LEMMA ApiLists ==
  ASSUME ListInv, NEW w \in Writers, write[w].pc # "idle",
         \A v \in Writers \ {w} : write'[v] = write[v], UNCHANGED adminVars
  PROVE  ListInv'
<1>1. Quiet' = Quiet /\ Caller' = Caller /\ \A v \in Writers : Handler(v)' = Handler(v)
  BY DEF adminVars, Quiet, Caller, Handler
<1>2. ASSUME Tidy PROVE Tidy'
  <2>1. Handler(w) = "sent"
    BY <1>2 DEF Tidy
  <2>2. \A c \in Caller : refresh[c].pc = "idle"
    BY <1>2, <2>1, NothingRead
  <2>3. ~Quiet
    BY <2>1, QuietMeans DEF NobodyWorks
  <2> QED BY <1>1, <1>2, <2>1, <2>2, <2>3, Callers DEF Tidy, adminVars
<1> QED BY <1>1, <1>2 DEF ListInv, adminVars

(* The editor is not the list. *)
LEMMA EditorLists ==
  ASSUME ListInv, AdminInv, UNCHANGED event,
         \/ HandleCreate \/ CancelEdit
         \/ \E total \in 0 .. MaxTotal : HandleChange(total)
         \/ \E e \in Events : HandleEdit(e)
  PROVE  ListInv'
<1>1. desk \in DeskRecord
  BY DEF AdminInv
<1>2. desk'.fetched = desk.fetched /\ desk'.untidy = desk.untidy
  BY <1>1 DEF HandleCreate, CancelEdit, HandleChange, HandleEdit, Edited, Closed, DeskRecord
<1>3. UNCHANGED <<list, save, delete, refresh, write>>
  BY DEF HandleCreate, CancelEdit, HandleChange, HandleEdit
<1> QED BY <1>2, <1>3 DEF ListInv, Quiet, Tidy, Handler, Live, Caller

(* handleSave *)
LEMMA SaveLists ==
  ASSUME ListInv, AdminInv, EventsInv, UNCHANGED event,
         SaveSent \/ SaveDone \/ SaveFailed \/ SaveRefreshed
  PROVE  ListInv'
<1>1. desk \in DeskRecord /\ "save" \in Writers
  BY Callers DEF AdminInv
<1>2. \A v \in Writers \ {"save"} : Handler(v)' = Handler(v)
  BY DEF SaveSent, SaveDone, SaveFailed, SaveRefreshed, Handler
<1>3. Handler("save") = save /\ Handler("save")' = save'
  BY DEF Handler
<1>4. CASE SaveSent
  <2> DEFINE untidy == desk.untidy \/ ~Quiet
  <2>1. desk' = [desk EXCEPT !.busy = TRUE, !.untidy = untidy]
    BY <1>4 DEF SaveSent
  <2>2. desk'.fetched = desk.fetched /\ desk'.untidy = untidy
    <3> HIDE DEF untidy
    <3> QED BY <1>1, <2>1 DEF DeskRecord
  <2>3. desk.fetched
    BY <1>4 DEF SaveSent, FormEnabled, FormOpen, OnScreen
  <2>4. desk'.fetched /\ (~desk'.untidy => ~desk.untidy /\ Quiet)
    BY <2>2, <2>3, Zenon
  <2>5. \A v \in Writers \ {"save"} : write'[v] = write[v]
    BY <1>4 DEF SaveSent, Arrive, EventsInv, WriteInv
  <2>6. save' = "sent" /\ UNCHANGED refresh
    BY <1>4 DEF SaveSent
  <2> QED BY <1>1, <1>2, <1>3, <2>3, <2>4, <2>5, <2>6, HandlerSends
<1>5. CASE SaveDone
  <2>1. desk'.fetched = desk.fetched /\ desk'.untidy = desk.untidy
    BY <1>1, <1>5 DEF SaveDone, DeskRecord
  <2>2. write'["save"].pc = "idle" /\ \A v \in Writers \ {"save"} : write'[v] = write[v]
    BY <1>1, <1>5 DEF SaveDone, Answered, NoWrite, EventsInv, WriteInv
  <2>3. save = "sent" /\ save' = "refresh" /\ CallRefresh("save")
    BY <1>5 DEF SaveDone
  <2> QED BY <1>1, <1>2, <1>3, <2>1, <2>2, <2>3, HandlerAsks
<1>6. CASE SaveFailed
  <2>1. desk'.fetched = desk.fetched /\ desk'.untidy /\ save # "idle"
    BY <1>1, <1>6 DEF SaveFailed, DeskRecord
  <2> QED BY <1>1, <1>3, <2>1, HandlerGivesUp
<1>7. CASE SaveRefreshed
  <2> DEFINE d == [Closed(desk) EXCEPT !.busy = FALSE]
  <2>1. d \in DeskRecord /\ d.fetched = desk.fetched /\ d.untidy = desk.untidy
    <3>1. Closed(desk) \in DeskRecord
      BY <1>1, ClosedAgrees
    <3>2. Closed(desk).fetched = desk.fetched /\ Closed(desk).untidy = desk.untidy
      BY <1>1 DEF Closed, DeskRecord
    <3> QED BY <3>1, <3>2 DEF DeskRecord
  <2>2. Refreshed("save", d) /\ save = "refresh" /\ save' = "idle" /\ UNCHANGED write
    BY <1>7 DEF SaveRefreshed
  <2> HIDE DEF d
  <2> QED BY <1>1, <1>2, <1>3, <2>1, <2>2, HandlerEnds
<1> QED BY <1>4, <1>5, <1>6, <1>7

(* handleDelete *)
LEMMA DeleteLists ==
  ASSUME ListInv, AdminInv, EventsInv, UNCHANGED event, NEW d \in Deleters,
         \/ \E e \in Events : DeleteSent(d, e)
         \/ DeleteDone(d) \/ DeleteFailed(d) \/ DeleteRefreshed(d)
  PROVE  ListInv'
<1>1. desk \in DeskRecord /\ d \in Writers /\ d # "save"
  BY Callers, WritersAssumption DEF AdminInv
<1>2. \A v \in Writers \ {d} : Handler(v)' = Handler(v)
  <2>1. UNCHANGED save /\ \A f \in Deleters \ {d} : delete'[f] = delete[f]
    BY DEF DeleteSent, DeleteDone, DeleteFailed, DeleteRefreshed, AdminInv
  <2> QED BY <2>1, WritersAssumption DEF Handler
<1>3. Handler(d) = delete[d].pc /\ Handler(d)' = delete'[d].pc
  BY <1>1 DEF Handler
<1>4. CASE \E e \in Events : DeleteSent(d, e)
  <2> DEFINE untidy == desk.untidy \/ ~Quiet
  <2>0. PICK e \in Events : DeleteSent(d, e)
    BY <1>4
  <2>1. desk' = [desk EXCEPT !.deleting = e, !.untidy = untidy]
    BY <2>0 DEF DeleteSent
  <2>2. desk'.fetched = desk.fetched /\ desk'.untidy = untidy
    <3> HIDE DEF untidy
    <3> QED BY <1>1, <2>1 DEF DeskRecord
  <2>3. desk.fetched
    BY <2>0 DEF DeleteSent, DeleteEnabled, Offered, OnScreen
  <2>4. desk'.fetched /\ (~desk'.untidy => ~desk.untidy /\ Quiet)
    BY <2>2, <2>3, Zenon
  <2>5. \A v \in Writers \ {d} : write'[v] = write[v]
    BY <2>0 DEF DeleteSent, Arrive, EventsInv, WriteInv
  <2>6. delete'[d].pc = "sent" /\ UNCHANGED refresh
    BY <2>0 DEF DeleteSent, AdminInv
  <2> QED BY <1>1, <1>2, <1>3, <2>3, <2>4, <2>5, <2>6, HandlerSends
<1>5. CASE DeleteDone(d)
  <2>1. desk'.fetched = desk.fetched /\ desk'.untidy = desk.untidy
    BY <1>1, <1>5 DEF DeleteDone, DeskRecord
  <2>2. write'[d].pc = "idle" /\ \A v \in Writers \ {d} : write'[v] = write[v]
    BY <1>1, <1>5 DEF DeleteDone, Answered, NoWrite, EventsInv, WriteInv
  <2>3. delete[d].pc = "sent" /\ delete'[d].pc = "refresh" /\ CallRefresh(d)
    BY <1>5 DEF DeleteDone, AdminInv, DeleteRecord
  <2> QED BY <1>1, <1>2, <1>3, <2>1, <2>2, <2>3, HandlerAsks
<1>6. CASE DeleteFailed(d)
  <2>1. desk'.fetched = desk.fetched /\ desk'.untidy /\ delete[d].pc # "idle"
    BY <1>1, <1>6 DEF DeleteFailed, DeskRecord
  <2> QED BY <1>1, <1>3, <2>1, HandlerGivesUp
<1>7. CASE DeleteRefreshed(d)
  <2> DEFINE kept == IF delete[d].selected = delete[d].event THEN Closed(desk) ELSE desk
             last == [kept EXCEPT !.deleting = None]
  <2>1. kept \in DeskRecord /\ kept.fetched = desk.fetched /\ kept.untidy = desk.untidy
    <3>1. Closed(desk) \in DeskRecord
      BY <1>1, ClosedAgrees
    <3>2. Closed(desk).fetched = desk.fetched /\ Closed(desk).untidy = desk.untidy
      BY <1>1 DEF Closed, DeskRecord
    <3> QED BY <1>1, <3>1, <3>2
  <2>2. last \in DeskRecord /\ last.fetched = desk.fetched /\ last.untidy = desk.untidy
    <3> HIDE DEF kept
    <3> QED BY <2>1 DEF DeskRecord
  <2>3. Refreshed(d, last) /\ delete[d].pc = "refresh" /\ UNCHANGED write
    BY <1>7 DEF DeleteRefreshed
  <2>4. delete'[d].pc = "idle"
    BY <1>7 DEF DeleteRefreshed, NoDelete, AdminInv
  <2> HIDE DEF last
  <2> QED BY <1>1, <1>2, <1>3, <2>2, <2>3, <2>4, HandlerEnds
<1> QED BY <1>4, <1>5, <1>6, <1>7

(* The page is mounted. *)
LEMMA MountLists ==
  ASSUME MountAdmin, UNCHANGED <<event, write>>
  PROVE  ListInv'
<1> DEFINE untidy == \E w \in Writers : write[w].pc # "idle"
<1>1. desk' = [FreshDesk EXCEPT !.untidy = untidy]
  BY DEF MountAdmin
<1>2. ~desk'.fetched /\ desk'.untidy = untidy
  <2> HIDE DEF untidy
  <2> QED BY <1>1 DEF FreshDesk
<1>3. NobodyWorks' /\ \A c \in Caller : refresh'[c].pc = "idle"
  BY WritersAssumption DEF MountAdmin, NobodyWorks, Handler, NoDelete, NoRefresh, Caller
<1>4. Quiet'
  BY <1>3, QuietNext
<1>5. ~untidy => \A w \in Writers : write'[w].pc = "idle"
  OBVIOUS
<1>6. ~untidy => Tidy'
  <2> HIDE DEF untidy
  <2> QED BY <1>2, <1>3, <1>5, Callers DEF Tidy, NobodyWorks
<1>7. ~desk'.untidy => ~untidy
  BY <1>2, Zenon
<1> QED BY <1>2, <1>4, <1>6, <1>7 DEF ListInv

(* So while one thing is done at a time the list is never stale. *)
LEMMA ListInvInductive ==
  ASSUME SiteInv, ListInv, [Next]_vars
  PROVE  ListInv'
<1> USE DEF SiteInv
<1>1. CASE AdminStep /\ UNCHANGED event
  BY <1>1, EffectLists, RefreshLists, EditorLists, SaveLists, DeleteLists DEF AdminStep
<1>2. CASE Mount /\ UNCHANGED eventVars
  BY <1>2, MountLists DEF Mount, eventVars
<1>3. ASSUME NEW w \in Writers, WriteStep(w), UNCHANGED adminVars PROVE ListInv'
  <2>1. write[w].pc # "idle"
    BY <1>3 DEF WriteStep, Create, Update, Delete, Reject, DropHash, SelectSeats, FillHash, CutShort
  <2>2. \A v \in Writers \ {w} : write'[v] = write[v]
    BY <1>3 DEF WriteStep, Create, Update, Delete, Reject, DropHash, SelectSeats, FillHash, CutShort,
                Committed, Over, EventsInv, WriteInv
  <2> QED BY <1>3, <2>1, <2>2, ApiLists
<1>4. ASSUME NEW w \in Writers, Forgotten(w), UNCHANGED adminVars PROVE ListInv'
  <2>1. write[w].pc # "idle" /\ \A v \in Writers \ {w} : write'[v] = write[v]
    BY <1>4 DEF Forgotten, Answered, EventsInv, WriteInv
  <2> QED BY <1>4, <2>1, ApiLists
<1>5. CASE UNCHANGED <<eventVars, adminVars>>
  BY <1>5 DEF eventVars, adminVars, ListInv, Quiet, Tidy, Handler, Live, Caller
<1> QED BY <1>1, <1>2, <1>3, <1>4, <1>5 DEF Next, vars, eventVars

(* It holds on entering the site. *)
LEMMA ListInvInitially == Init => ListInv
<1> SUFFICES ASSUME Init PROVE ListInv
  OBVIOUS
<1>1. ~desk.fetched /\ NobodyWorks
  BY WritersAssumption DEF Init, AdminInit, FreshDesk, NobodyWorks, Handler, NoDelete, NoRefresh
<1>2. \A w \in Writers : write[w].pc = "idle"
  BY DEF Init, EventsInit, NoWrite
<1>3. Tidy
  BY <1>1, <1>2, Callers DEF Tidy, NobodyWorks
<1> QED BY <1>1, <1>3, QuietMeans DEF ListInv

(* The administrators' list has no numbers on its requests and no patches:  *)
(* it is read again after every write.  An administrator who does one thing *)
(* at a time, and for whom nothing has failed, sees the events there are,   *)
(* whichever pages were visited and left before.                            *)
THEOREM ListIsCurrent == Spec => []ListFollowsWrites
<1>1. SiteInv /\ ListInv /\ [Next]_vars => ListInv'
  BY ListInvInductive
<1>2. ListInv => ListFollowsWrites
  BY DEF ListInv, Tidy, Live, OnScreen, ListFollowsWrites
<1> QED BY <1>1, <1>2, ListInvInitially, SiteInvariant, PTL DEF Spec

-----------------------------------------------------------------------------
(* The badge of an event. *)

(* "Low stock" to an administrator is "Few seats left" to a customer, in    *)
(* the list and in the carousel, and the counts above the administrators'   *)
(* list count what its cards say: for events of any size.                   *)
THEOREM LowStockAgrees ==
  \A total \in Nat : \A available \in 0 .. total : OneLowStockRule(available, total)
<1> SUFFICES ASSUME NEW total \in Nat, NEW available \in 0 .. total
             PROVE  OneLowStockRule(available, total)
  OBVIOUS
<1>1. CASE available = 0
  BY <1>1 DEF OneLowStockRule, AdminBadge, SlideBadge, CardBadge, CountedLow, CountedSoldOut
<1>2. CASE available > 0 /\ 10 * available <= total
  BY <1>2 DEF OneLowStockRule, AdminBadge, SlideBadge, CardBadge, CountedLow, CountedSoldOut
<1>3. CASE available > 0 /\ ~(10 * available <= total)
  BY <1>3 DEF OneLowStockRule, AdminBadge, SlideBadge, CardBadge, CountedLow, CountedSoldOut
<1> QED BY <1>1, <1>2, <1>3
=============================================================================
