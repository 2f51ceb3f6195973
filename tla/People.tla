------------------------------- MODULE People -------------------------------
(***************************************************************************)
(* The accounts of an instance and its environment, for the modules about   *)
(* pages and events.                                                        *)
(***************************************************************************)

CONSTANTS
  Accounts,    \* e-mail addresses
  Admins,      \* those whose row has the role ADMIN
  None,
  Outside,     \* what else happens: "rival", "reload", "customers"
  Faults       \* "redis": a command after a commit fails; "loss": a
               \* request or its answer is lost

ASSUME PeopleAssumption == None \notin Accounts /\ Admins \subseteq Accounts
ASSUME OutsideAssumption == Outside \subseteq {"rival", "reload", "customers"}
ASSUME SiteFaultsAssumption == Faults \subseteq {"redis", "loss"}
=============================================================================
