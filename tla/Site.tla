-------------------------------- MODULE Site --------------------------------
(***************************************************************************)
(* The site in one tab: the session, the pages of which one at a time is    *)
(* mounted, and the API behind them.  A page that is left loses its state   *)
(* and the answers it waits for; what it has sent may be handled yet.       *)
(***************************************************************************)
EXTENDS AdminPage, BrowsePages, BookingsPage

vars == <<sessionVars, eventVars, adminVars, browseVars, myVars>>

-----------------------------------------------------------------------------

(* The page on screen is mounted; the state of the others does not exist,   *)
(* which is to say that it is going to be fresh.                            *)
Mount == MountAdmin /\ MountBrowse /\ MountMine

Stay ==
  \/ Restore
  \/ \E a \in Elsewhere : OtherTab(a)
  \/ \E a \in Accounts : \/ SubmitLogin(a)
                         \/ SubmitRegister(a)
                         \/ LoginHandled(a)
                         \/ RegisterChecked(a)
                         \/ RegisterCommitted(a)
                         \/ Refused(a)
                         \/ Rival(a)

Leave ==
  \/ Logout \/ Enter \/ TurnedAway \/ Callback
  \/ GoogleFound \/ GoogleCreated
  \/ Reload
  \/ \E p \in Path : Follow(p)
  \/ \E a \in Accounts : Granted(a) \/ GoogleStart(a)

(* A page that nobody awaits an answer for any more. *)
Forgotten(w) ==
  /\ write[w].pc \in {"done", "failed"}
  /\ IF w = "save" THEN save # "sent" ELSE delete[w].pc # "sent"
  /\ Answered(w)

Init ==
  /\ SessionInit
  /\ EventsInit
  /\ AdminInit
  /\ BrowseInit
  /\ MineInit

Next ==
  \/ Stay /\ UNCHANGED <<eventVars, adminVars, browseVars, myVars>>
  \/ Leave /\ Mount /\ UNCHANGED eventVars
  \/ AdminStep /\ UNCHANGED <<sessionVars, event, hash, read, cut, browseVars, myVars>>
  \/ BrowseStep /\ UNCHANGED <<sessionVars, eventVars, adminVars, myVars>>
  \/ MineStep /\ UNCHANGED <<sessionVars, eventVars, adminVars, browseVars>>
  \/ /\ \E b \in Bookings : Ordered(b) \/ Moved(b)
     /\ UNCHANGED <<sessionVars, eventVars, adminVars, browseVars>>
  \/ /\ \E w \in Writers : WriteStep(w)
     /\ UNCHANGED <<sessionVars, adminVars, browseVars, myVars>>
  \/ /\ \E w \in Writers : Forgotten(w)
     /\ UNCHANGED <<sessionVars, event, hash, read, cut, adminVars, browseVars, myVars>>

Spec == Init /\ [][Next]_vars

(* The state of the session, of the API and of the pages is of the kinds    *)
(* the code has.                                                            *)
TypeOK == SessionTypeOK /\ EventsTypeOK /\ AdminTypeOK /\ BrowseTypeOK /\ MineTypeOK
=============================================================================
