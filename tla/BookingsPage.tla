---------------------------- MODULE BookingsPage ---------------------------
(***************************************************************************)
(* app/bookings/page.tsx and its cards: the list is read once, when the     *)
(* page is mounted; a cancellation that succeeds is patched into it.  The   *)
(* bookings at the server go their own way meanwhile; the booking path is   *)
(* the subject of other modules.                                            *)
(***************************************************************************)
EXTENDS Naturals, Session

CONSTANTS
  Bookings,
  Cancellers   \* cancellations under way at a time: a bound

VARIABLES
  booking,   \* the customer's rows of "Booking": their status
  mine,      \* the React state of the page
  load,      \* fetchMyBookings
  cancel,    \* handleCancel
  again      \* history: rows that have been ordered again since the mount

myVars == <<booking, mine, load, cancel, again>>

Status == {"PENDING", "CONFIRMED", "CANCELLED"}

(* FILTERS *)
Filters == {"all", "CONFIRMED", "PENDING", "CANCELLED"}

IsList(l) == DOMAIN l \subseteq Bookings /\ \A b \in DOMAIN l : l[b] \in Status

(* What the page may find; until it is mounted nobody looks. *)
Rowsets == [Bookings -> {"NONE"} \cup Status]
NoRows == [b \in Bookings |-> "NONE"]

NoCancel == [pc |-> "idle", booking |-> None]

FreshMine == [loading |-> TRUE, error |-> FALSE, list |-> <<>>, filter |-> "all"]

MountMine ==
  /\ mine' = FreshMine
  /\ load' = [pc |-> "due", list |-> <<>>]
  /\ cancel' = [c \in Cancellers |-> NoCancel]
  /\ again' = {}
  /\ booking' \in IF path' = "/bookings" THEN Rowsets ELSE {NoRows}

-----------------------------------------------------------------------------
(* The effect on mounting does not wait for AuthContext. *)
FetchMine ==
  /\ path = "/bookings"
  /\ load.pc = "due"
  /\ load' = [load EXCEPT !.pc = "sent"]
  /\ UNCHANGED <<booking, mine, cancel, again>>

(* GET /bookings/my; a 401 for somebody who is not signed in. *)
MineHandled ==
  /\ load.pc = "sent"
  /\ load' = IF store = None THEN [load EXCEPT !.pc = "failed"]
             ELSE [pc |-> "answered", list |-> [b \in {x \in Bookings : booking[x] # "NONE"} |-> booking[b]]]
  /\ UNCHANGED <<booking, mine, cancel, again>>

MineLost ==
  /\ "loss" \in Faults
  /\ load.pc \in {"sent", "answered"}
  /\ load' = [pc |-> "failed", list |-> <<>>]
  /\ UNCHANGED <<booking, mine, cancel, again>>

(* Mutant: an answer is an answer. *)
WithoutCatch ==
  /\ load.pc \in {"answered", "failed"}
  /\ mine' = [mine EXCEPT !.loading = FALSE, !.list = load.list]
  /\ load' = [pc |-> "done", list |-> <<>>]
  /\ UNCHANGED <<booking, cancel, again>>

MineAnswered ==
  /\ load.pc \in {"answered", "failed"}
  /\ mine' = [mine EXCEPT !.loading = FALSE, !.error = @ \/ load.pc = "failed",
                          !.list = IF load.pc = "answered" THEN load.list ELSE @]
  /\ load' = [pc |-> "done", list |-> <<>>]
  /\ UNCHANGED <<booking, cancel, again>>

-----------------------------------------------------------------------------
(* handleCancel: the button is disabled only for what is shown CANCELLED,   *)
(* so a second click sends a second request.                                *)

Shown == {b \in DOMAIN mine.list : mine.filter \in {"all", mine.list[b]}}

(* The button of a card. *)
CancelEnabled(b) == path = "/bookings" /\ b \in Shown /\ mine.list[b] # "CANCELLED"

(* Mutant: the card says so before the server does. *)
CancelAtOnce(c, b) ==
  /\ CancelEnabled(b)
  /\ cancel[c].pc = "idle"
  /\ cancel' = [cancel EXCEPT ![c] = [pc |-> "sent", booking |-> b]]
  /\ mine' = [mine EXCEPT !.list[b] = "CANCELLED"]
  /\ UNCHANGED <<booking, load, again>>

HandleCancel(c, b) ==
  /\ CancelEnabled(b)
  /\ cancel[c].pc = "idle"
  /\ cancel' = [cancel EXCEPT ![c] = [pc |-> "sent", booking |-> b]]
  /\ UNCHANGED <<booking, mine, load, again>>

(* DELETE /bookings/{id}: whatever its status is by now. *)
CancelHandled(c) ==
  /\ cancel[c].pc = "sent"
  /\ booking' = [booking EXCEPT ![cancel[c].booking] = "CANCELLED"]
  /\ cancel' = [cancel EXCEPT ![c].pc = "answered"]
  /\ UNCHANGED <<mine, load, again>>

CancelAnswered(c) ==
  /\ cancel[c].pc = "answered"
  /\ mine' = [mine EXCEPT !.list = [b \in DOMAIN @ |-> IF b = cancel[c].booking THEN "CANCELLED" ELSE @[b]]]
  /\ cancel' = [cancel EXCEPT ![c] = NoCancel]
  /\ UNCHANGED <<booking, load, again>>

(* "Nothing was changed": the row is another customer's by now, or the      *)
(* request is lost, or only its answer is.                                  *)
CancelFails(c) ==
  /\ cancel[c].pc # "idle"
  /\ \/ "loss" \in Faults
     \/ cancel[c].pc = "sent" /\ cancel[c].booking \in again
  /\ mine' = [mine EXCEPT !.error = TRUE]
  /\ cancel' = [cancel EXCEPT ![c] = NoCancel]
  /\ UNCHANGED <<booking, load, again>>

(* The empty state. *)
NothingToShow == path = "/bookings" /\ ~mine.loading /\ ~mine.error /\ Shown = {}

(* setFilter *)
SetFilter(f) ==
  /\ path = "/bookings"
  /\ f # mine.filter
  /\ mine' = [mine EXCEPT !.filter = f]
  /\ UNCHANGED <<booking, load, cancel, again>>

MineStep ==
  \/ FetchMine \/ MineHandled \/ MineLost \/ MineAnswered
  \/ \E f \in Filters : SetFilter(f)
  \/ \E c \in Cancellers : \/ \E b \in Bookings : HandleCancel(c, b)
                           \/ CancelHandled(c)
                           \/ CancelAnswered(c)
                           \/ CancelFails(c)

-----------------------------------------------------------------------------
(* The booking path, another tab, and a page that was left before its       *)
(* cancellation was handled.                                                *)

Ordered(b) ==
  /\ path = "/bookings"
  /\ booking[b] \in {"NONE", "CANCELLED"}
  /\ booking' = [booking EXCEPT ![b] = "PENDING"]
  /\ again' = again \cup {b}
  /\ UNCHANGED <<mine, load, cancel>>

Moved(b) ==
  /\ path = "/bookings"
  /\ \/ booking[b] = "PENDING" /\ booking' = [booking EXCEPT ![b] = "CONFIRMED"]
     \/ booking[b] \in {"PENDING", "CONFIRMED"} /\ booking' = [booking EXCEPT ![b] = "CANCELLED"]
  /\ UNCHANGED <<mine, load, cancel, again>>

MineInit ==
  /\ booking \in IF path = "/bookings" THEN Rowsets ELSE {NoRows}
  /\ mine = FreshMine
  /\ load = [pc |-> "due", list |-> <<>>]
  /\ cancel = [c \in Cancellers |-> NoCancel]
  /\ again = {}

MineTypeOK ==
  /\ booking \in Rowsets
  /\ mine.loading \in BOOLEAN /\ mine.error \in BOOLEAN /\ mine.filter \in Filters
  /\ load.pc \in {"due", "sent", "answered", "failed", "done"}
  /\ IsList(mine.list) /\ IsList(load.list)
  /\ cancel \in [Cancellers -> [pc: {"idle", "sent", "answered"}, booking: Bookings \cup {None}]]
  /\ again \subseteq Bookings

(* A card says "Cancelled" only if the server has cancelled the booking,    *)
(* however many cancellations are under way, fail, or are answered out of   *)
(* order, and unless the same row has been ordered again since.             *)
CancelledIsCancelled ==
  \A b \in DOMAIN mine.list :
    mine.list[b] = "CANCELLED" /\ b \notin again => booking[b] = "CANCELLED"

(* "No bookings yet" is said only of somebody who had none when the server  *)
(* was asked, not while the answer is awaited and not when there was none.  *)
NoBookingsIsTrue ==
  NothingToShow /\ mine.filter = "all" => \A b \in Bookings \ again : booking[b] = "NONE"
=============================================================================
