---------------------------- MODULE BrowsePages ----------------------------
(***************************************************************************)
(* The storefront: app/home/page.tsx, which reads the events once, and      *)
(* app/events/page.tsx with its search bar, which reads them again for      *)
(* every query in the address and neither aborts nor numbers its requests.  *)
(***************************************************************************)
EXTENDS Session, EventsApi

CONSTANTS
  Terms,       \* what is searched for; "" is no search
  Matching,    \* the events whose name or venue contains a term
  Fetchers     \* requests for the list under way at a time: a bound

ASSUME TermsAssumption == "" \in Terms /\ Matching \in [Terms -> SUBSET Events]

VARIABLES
  shelf,   \* the React state of the page, and the query in the address
  fetch    \* its requests

browseVars == <<shelf, fetch>>

NoFetch == [pc |-> "idle", query |-> "", list |-> {}]

(* due: the effect has yet to run for this query; of: history, the query    *)
(* that what is shown answers; overlap: history, another request was under  *)
(* way when the latest was sent.                                            *)
FreshShelf == [query |-> "", due |-> TRUE, loading |-> TRUE, error |-> FALSE, list |-> {},
               of |-> None, overlap |-> FALSE]

(* The address of /events may carry a query. *)
MountBrowse ==
  /\ shelf' \in {[FreshShelf EXCEPT !.query = q] : q \in IF path' = "/events" THEN Terms ELSE {""}}
  /\ fetch' = [f \in Fetchers |-> NoFetch]

(* search_events *)
Found(query) == {e \in Events : event[e].live /\ e \in Matching[query]}

(* Mutant: the effect runs once. *)
SearchWithoutEffect(query) ==
  /\ path = "/events"
  /\ shelf' = [shelf EXCEPT !.query = query]
  /\ UNCHANGED fetch

(* handleSubmit of the search bar: the address is replaced. *)
Search(query) ==
  /\ path = "/events"
  /\ query # shelf.query
  /\ shelf' = [shelf EXCEPT !.query = query, !.due = TRUE]
  /\ UNCHANGED fetch

(* The effect: that of /events waits for AuthContext, that of /home does    *)
(* not.                                                                     *)
FetchEvents(f) ==
  /\ path = "/home" \/ (path = "/events" /\ ~auth.loading)
  /\ shelf.due
  /\ fetch[f].pc = "idle"
  /\ fetch' = [fetch EXCEPT ![f] = [pc |-> "sent", query |-> shelf.query, list |-> {}]]
  /\ shelf' = [shelf EXCEPT !.due = FALSE, !.loading = TRUE, !.error = FALSE,
                            !.overlap = \E g \in Fetchers : fetch[g].pc # "idle"]

FetchHandled(f) ==
  /\ fetch[f].pc = "sent"
  /\ fetch' = [fetch EXCEPT ![f].pc = "answered", ![f].list = Found(fetch[f].query)]
  /\ UNCHANGED shelf

FetchAnswered(f) ==
  /\ fetch[f].pc = "answered"
  /\ shelf' = [shelf EXCEPT !.list = fetch[f].list, !.of = fetch[f].query, !.loading = FALSE]
  /\ fetch' = [fetch EXCEPT ![f] = NoFetch]

FetchFails(f) ==
  /\ "loss" \in Faults
  /\ fetch[f].pc # "idle"
  /\ shelf' = [shelf EXCEPT !.error = TRUE, !.loading = FALSE]
  /\ fetch' = [fetch EXCEPT ![f] = NoFetch]

BrowseStep ==
  \/ \E query \in Terms : Search(query)
  \/ \E f \in Fetchers : \/ FetchEvents(f)
                         \/ FetchHandled(f)
                         \/ FetchAnswered(f)
                         \/ FetchFails(f)

BrowseInit ==
  /\ shelf = FreshShelf
  /\ fetch = [f \in Fetchers |-> NoFetch]

BrowseTypeOK ==
  /\ shelf \in [query: Terms, due: BOOLEAN, loading: BOOLEAN, error: BOOLEAN,
                list: SUBSET Events, of: Terms \cup {None}, overlap: BOOLEAN]
  /\ fetch \in [Fetchers -> [pc: {"idle", "sent", "answered"}, query: Terms, list: SUBSET Events]]

-----------------------------------------------------------------------------
(* What is on screen. *)

(* Mutant: the list, whatever is under way. *)
ShelfAtOnce ==
  CASE shelf.error -> "error"
    [] ~shelf.error /\ shelf.list = {} -> "none"
    [] OTHER -> "cards"

Shelf ==
  CASE shelf.loading -> "skeletons"
    [] ~shelf.loading /\ shelf.error -> "error"
    [] ~shelf.loading /\ ~shelf.error /\ shelf.list = {} -> "none"
    [] OTHER -> "cards"

(* "No events match" and the cards are about the query in the address:      *)
(* an answer to an older query is on screen only if the newer one was sent  *)
(* while the older was under way.                                           *)
ShownAnswersQuery ==
  path \in {"/home", "/events"} /\ ~shelf.due /\ ~shelf.overlap /\ Shelf \in {"none", "cards"}
    => shelf.of = shelf.query

-----------------------------------------------------------------------------
(* The badge of an event by its seats, in four places. *)

(* A slide of the carousel of /home *)
SlideBadge(available, total) ==
  CASE available = 0 -> "Sold out"
    [] available > 0 /\ 10 * available <= total -> "Few seats left"
    [] OTHER -> "none"

(* EventCard *)
CardBadge(available, total) ==
  CASE available = 0 -> "Sold out"
    [] available > 0 /\ 10 * available <= total -> "Few seats left"
    [] OTHER -> "none"

(* AdminEventCard *)
AdminBadge(available, total) ==
  CASE available = 0 -> "Sold out"
    [] available > 0 /\ 10 * available <= total -> "Low stock"
    [] OTHER -> "Active"

(* The counts at the top of the page of the administrators. *)
CountedSoldOut(available, total) == available = 0
CountedLow(available, total) == available > 0 /\ 10 * available <= total

(* AdminEventCard.tsx:22: "same 10% rule as the storefront": no event reads *)
(* "Low stock" to an administrator and normal to a customer, or is counted  *)
(* as what its card does not say.                                           *)
OneLowStockRule(available, total) ==
  LET admin == AdminBadge(available, total) IN
  /\ SlideBadge(available, total) = CardBadge(available, total)
  /\ admin = "Low stock" <=> CardBadge(available, total) = "Few seats left"
  /\ admin = "Low stock" <=> CountedLow(available, total)
  /\ admin = "Sold out" <=> CountedSoldOut(available, total)
=============================================================================
