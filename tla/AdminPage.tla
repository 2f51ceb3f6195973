------------------------------ MODULE AdminPage -----------------------------
(***************************************************************************)
(* app/admin/page.tsx with its form and its cards: one editor for all       *)
(* events, whose handlers are asynchronous, may overlap, and go on with the *)
(* state they saw when they were called.                                    *)
(***************************************************************************)
EXTENDS Session, EventsApi

CONSTANT Deleters   \* the runs of handleDelete that may overlap: a bound

ASSUME WritersAssumption ==
  Writers = {"save"} \cup Deleters /\ {"save", "effect"} \cap Deleters = {}

VARIABLES
  desk,      \* the page's React state
  list,      \* events: those shown, as they were when they were read
  save,      \* handleSave
  delete,    \* handleDelete, each time it runs
  refresh    \* fetchEvents, for each caller

adminVars == <<desk, list, save, delete, refresh>>

(* selected: selectedEvent; floor: its availableSeats; draft: formEvent,    *)
(* the event it is for (None for a new one) and its totalSeats, 0 while any *)
(* required field is empty; busy: actionLoading; deleting: deleteLoadingId; *)
(* untidy: history, since the page was mounted something has failed or two  *)
(* of its handlers have overlapped.  The messages, which no code reads, are *)
(* left out.                                                                *)
NoDraft == [event |-> None, total |-> 0]

FreshDesk == [selected |-> None, floor |-> 0, open |-> FALSE, draft |-> NoDraft,
              loading |-> TRUE, fetched |-> FALSE, busy |-> FALSE, deleting |-> None,
              untidy |-> FALSE]

(* The callers of fetchEvents: the effect on mounting, and the handlers.    *)
Caller == {"effect", "save"} \cup Deleters

NoRefresh == [pc |-> "idle", list |-> <<>>]
NoDelete == [pc |-> "idle", event |-> None, selected |-> None]

(* search_events: the events there are, with their counts of seats. *)
Listing == [e \in {x \in Events : event[x].live} |->
              [total |-> event[e].total, available |-> Available(e)]]

MountAdmin ==
  /\ desk' = [FreshDesk EXCEPT !.untidy = \E w \in Writers : write[w].pc # "idle"]
  /\ list' = <<>>
  /\ save' = "idle"
  /\ delete' = [d \in Deleters |-> NoDelete]
  /\ refresh' = [c \in Caller |-> NoRefresh]

(* AdminProtect renders its children; effects run before any click. *)
Rendered == path = "/admin" /\ ~auth.loading /\ IsAdmin
OnScreen == Rendered /\ desk.fetched

(* What is on screen: the cards of the list unless it is loading, with      *)
(* their buttons, and the form if it is open, with its own.                 *)
Offered(e) == OnScreen /\ ~desk.loading /\ e \in DOMAIN list
DeleteEnabled(e) == Offered(e) /\ desk.deleting # e
FormOpen == OnScreen /\ desk.open
FormEnabled == FormOpen /\ ~desk.busy

(* No handler of the page is under way. *)
Quiet ==
  /\ save = "idle"
  /\ \A d \in Deleters : delete[d].pc = "idle"
  /\ \A c \in Caller : refresh[c].pc = "idle"

-----------------------------------------------------------------------------
(* fetchEvents: whoever calls it, there is one spinner, and an answer       *)
(* replaces the list however old it is.                                     *)

CallRefresh(c) == refresh' = [refresh EXCEPT ![c].pc = "sent"]

FirstRefresh ==
  /\ Rendered
  /\ ~desk.fetched
  /\ desk' = [desk EXCEPT !.loading = TRUE, !.fetched = TRUE]
  /\ CallRefresh("effect")
  /\ UNCHANGED <<list, save, delete, write>>

RefreshHandled(c) ==
  /\ refresh[c].pc = "sent"
  /\ refresh' = [refresh EXCEPT ![c] = [pc |-> "answered", list |-> Listing]]
  /\ UNCHANGED <<desk, list, save, delete, write>>

RefreshFails(c) ==
  /\ "loss" \in Faults
  /\ refresh[c].pc = "sent"
  /\ refresh' = [refresh EXCEPT ![c].pc = "failed"]
  /\ UNCHANGED <<desk, list, save, delete, write>>

(* The end of fetchEvents, which swallows its error; what follows in the    *)
(* caller, from d, runs in the same turn.                                   *)
Refreshed(c, d) ==
  /\ refresh[c].pc \in {"answered", "failed"}
  /\ list' = IF refresh[c].pc = "answered" THEN refresh[c].list ELSE list
  /\ desk' = [d EXCEPT !.loading = FALSE, !.untidy = @ \/ refresh[c].pc = "failed"]
  /\ refresh' = [refresh EXCEPT ![c] = NoRefresh]

EffectRefreshed ==
  /\ Refreshed("effect", desk)
  /\ UNCHANGED <<save, delete, write>>

-----------------------------------------------------------------------------
(* The editor. *)

Edited(selected, floor, draft) ==
  [desk EXCEPT !.selected = selected, !.floor = floor, !.draft = draft, !.open = TRUE]

Closed(d) == [d EXCEPT !.selected = None, !.floor = 0, !.draft = NoDraft, !.open = FALSE]

(* handleEdit *)
HandleEdit(e) ==
  /\ Offered(e)
  /\ desk' = Edited(e, list[e].available, [event |-> e, total |-> list[e].total])
  /\ UNCHANGED <<list, save, delete, refresh, write>>

(* The name, the venue and the picture of a new event are still to be given. *)
NewDraft == [event |-> None, total |-> 0]

(* Mutant: the event that was selected stays selected. *)
KeepSelected ==
  /\ OnScreen /\ ~desk.busy
  /\ desk' = Edited(desk.selected, desk.floor, NewDraft)
  /\ UNCHANGED <<list, save, delete, refresh, write>>

(* handleCreate *)
HandleCreate ==
  /\ OnScreen /\ ~desk.busy
  /\ desk' = Edited(None, 0, NewDraft)
  /\ UNCHANGED <<list, save, delete, refresh, write>>

(* handleChange: the fields of the form. *)
HandleChange(total) ==
  /\ FormOpen
  /\ desk' = [desk EXCEPT !.draft.total = total]
  /\ UNCHANGED <<list, save, delete, refresh, write>>

(* handleCancel *)
CancelEdit ==
  /\ FormEnabled
  /\ desk' = Closed(desk)
  /\ UNCHANGED <<list, save, delete, refresh, write>>

-----------------------------------------------------------------------------
(* A write is refused; or it is lost, or its answer is, and then it may yet *)
(* be done.                                                                 *)
Failed(w) ==
  \/ write[w].pc = "failed" /\ Answered(w)
  \/ "loss" \in Faults /\ UNCHANGED write

(* handleSave *)

(* selectedEvent is the event as it was when the editor was opened on it.   *)
Valid ==
  /\ desk.draft.total > 0
  /\ desk.selected # None => desk.draft.total >= desk.floor

(* PUT if an event is selected, POST otherwise. *)
SaveSent ==
  /\ FormEnabled
  /\ Valid
  /\ Arrive("save", IF desk.selected # None THEN "PUT" ELSE "POST",
            desk.selected, desk.draft.total, store)
  /\ desk' = [desk EXCEPT !.busy = TRUE, !.untidy = @ \/ ~Quiet]
  /\ save' = "sent"
  /\ UNCHANGED <<list, delete, refresh>>

(* Mutant: the list is left as it is. *)
DoneWithoutRefresh ==
  /\ save = "sent"
  /\ write["save"].pc = "done"
  /\ Answered("save")
  /\ desk' = [Closed(desk) EXCEPT !.busy = FALSE]
  /\ save' = "idle"
  /\ UNCHANGED <<list, delete, refresh>>

SaveDone ==
  /\ save = "sent"
  /\ write["save"].pc = "done"
  /\ Answered("save")
  /\ desk' = [desk EXCEPT !.loading = TRUE]
  /\ CallRefresh("save")
  /\ save' = "refresh"
  /\ UNCHANGED <<list, delete>>

SaveFailed ==
  /\ save = "sent"
  /\ Failed("save")
  /\ desk' = [desk EXCEPT !.busy = FALSE, !.untidy = TRUE]
  /\ save' = "idle"
  /\ UNCHANGED <<list, delete, refresh>>

(* The form is closed, whatever it shows by now. *)
SaveRefreshed ==
  /\ save = "refresh"
  /\ Refreshed("save", [Closed(desk) EXCEPT !.busy = FALSE])
  /\ save' = "idle"
  /\ UNCHANGED <<delete, write>>

-----------------------------------------------------------------------------
(* handleDelete, once the administrator has confirmed.  Only the card that  *)
(* was clicked last is disabled, so one event may be deleted twice at once. *)

DeleteSent(d, e) ==
  /\ DeleteEnabled(e)
  /\ delete[d].pc = "idle"
  /\ Arrive(d, "DELETE", e, 0, store)
  /\ desk' = [desk EXCEPT !.deleting = e, !.untidy = @ \/ ~Quiet]
  /\ delete' = [delete EXCEPT ![d] = [pc |-> "sent", event |-> e, selected |-> desk.selected]]
  /\ UNCHANGED <<list, save, refresh>>

DeleteDone(d) ==
  /\ delete[d].pc = "sent"
  /\ write[d].pc = "done"
  /\ Answered(d)
  /\ desk' = [desk EXCEPT !.loading = TRUE]
  /\ CallRefresh(d)
  /\ delete' = [delete EXCEPT ![d].pc = "refresh"]
  /\ UNCHANGED <<list, save>>

DeleteFailed(d) ==
  /\ delete[d].pc = "sent"
  /\ Failed(d)
  /\ desk' = [desk EXCEPT !.deleting = None, !.untidy = TRUE]
  /\ delete' = [delete EXCEPT ![d] = NoDelete]
  /\ UNCHANGED <<list, save, refresh>>

(* The selected event it compares is the one of the moment of the click. *)
DeleteRefreshed(d) ==
  LET kept == IF delete[d].selected = delete[d].event THEN Closed(desk) ELSE desk IN
  /\ delete[d].pc = "refresh"
  /\ Refreshed(d, [kept EXCEPT !.deleting = None])
  /\ delete' = [delete EXCEPT ![d] = NoDelete]
  /\ UNCHANGED <<save, write>>

-----------------------------------------------------------------------------

AdminInit ==
  /\ desk = FreshDesk
  /\ list = <<>>
  /\ save = "idle"
  /\ delete = [d \in Deleters |-> NoDelete]
  /\ refresh = [c \in Caller |-> NoRefresh]

AdminStep ==
  \/ FirstRefresh
  \/ EffectRefreshed
  \/ HandleCreate
  \/ CancelEdit
  \/ \E total \in 0 .. MaxTotal : HandleChange(total)
  \/ SaveSent
  \/ SaveDone
  \/ SaveFailed
  \/ SaveRefreshed
  \/ \E c \in Caller : RefreshHandled(c) \/ RefreshFails(c)
  \/ \E e \in Events : HandleEdit(e) \/ \E d \in Deleters : DeleteSent(d, e)
  \/ \E d \in Deleters : DeleteDone(d) \/ DeleteFailed(d) \/ DeleteRefreshed(d)

Counts == [total: 0 .. MaxTotal, available: 0 .. MaxTotal]
IsListing(l) == DOMAIN l \subseteq Events /\ \A e \in DOMAIN l : l[e] \in Counts

AdminTypeOK ==
  /\ desk \in [selected: Events \cup {None}, floor: 0 .. MaxTotal, open: BOOLEAN,
               draft: [event: Events \cup {None}, total: 0 .. MaxTotal],
               loading: BOOLEAN, fetched: BOOLEAN, busy: BOOLEAN,
               deleting: Events \cup {None}, untidy: BOOLEAN]
  /\ IsListing(list)
  /\ save \in {"idle", "sent", "refresh"}
  /\ delete \in [Deleters -> [pc: {"idle", "sent", "refresh"}, event: Events \cup {None},
                              selected: Events \cup {None}]]
  /\ DOMAIN refresh = Caller
  /\ \A c \in Caller : /\ refresh[c].pc \in {"idle", "sent", "answered", "failed"}
                       /\ IsListing(refresh[c].list)

(* The form on screen is about the event that a save will write: handlers   *)
(* that complete late, in any order, never leave the form of one event over *)
(* the selection of another, so "New event" never overwrites an old one.    *)
EditorAgrees ==
  IF desk.open THEN desk.draft.event = desk.selected
               ELSE desk.selected = None /\ desk.draft = NoDraft

(* The list has no sequence numbers and no patches: it is read again after  *)
(* every write.  As long as the administrator does one thing at a time and  *)
(* nothing fails, it shows the events there are.                            *)
ListFollowsWrites ==
  OnScreen /\ Quiet /\ ~desk.untidy => DOMAIN list = {e \in Events : event[e].live}
=============================================================================
