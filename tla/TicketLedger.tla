---------------------------- MODULE TicketLedger ----------------------------
(***************************************************************************)
(* What the booking path promises a ticket office: a seat has at most one   *)
(* ticket holder, a ticket is issued only once somebody has paid for that   *)
(* seat, and it passes from one holder to another only by being withdrawn   *)
(* first.  How the API, the worker, Postgres and Redis bring this about is  *)
(* the business of Booking, which implements this specification.            *)
(***************************************************************************)
CONSTANTS Users, Seats, Orders, None

VARIABLES
  paid,     \* the orders paid for a seat
  holder    \* who has the ticket of a seat, or None

ledger == <<paid, holder>>

Init ==
  /\ paid = [s \in Seats |-> {}]
  /\ holder = [s \in Seats |-> None]

(* An order pays for one seat, once. *)
Pay(s, o) ==
  /\ \A t \in Seats : o \notin paid[t]
  /\ paid' = [paid EXCEPT ![s] = @ \cup {o}]
  /\ UNCHANGED holder

Issue(s, u) ==
  /\ holder[s] = None
  /\ paid[s] # {}
  /\ holder' = [holder EXCEPT ![s] = u]
  /\ UNCHANGED paid

Withdraw(s) ==
  /\ holder[s] # None
  /\ holder' = [holder EXCEPT ![s] = None]
  /\ UNCHANGED paid

Next ==
  \E s \in Seats :
    \/ \E o \in Orders : Pay(s, o)
    \/ \E u \in Users : Issue(s, u)
    \/ Withdraw(s)

Spec == Init /\ [][Next]_ledger
=============================================================================
