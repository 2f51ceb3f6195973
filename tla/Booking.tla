------------------------------- MODULE Booking -------------------------------
(***************************************************************************)
(* The booking path as a whole: the API's handlers, the payment worker and  *)
(* what happens around them, on the shared stores.                          *)
(***************************************************************************)
EXTENDS Checkout, PaymentWorker, MyBookings, SeatMap

Init ==
  /\ seatStatus = [s \in Seats |-> "AVAILABLE"]
  /\ row = [s \in Seats |-> NoRow]
  /\ lock = [s \in Seats |-> None]
  /\ cache \in [Seats -> {"NONE", "AVAILABLE"}]  \* a seeded event is not cached
  /\ queue = <<>>
  /\ gateway = [o \in Orders |-> [seat |-> None, captured |-> FALSE]]
  /\ req = [r \in Slots |-> Idle]
  /\ job = [w \in Workers |-> NoJob]

(* The customer pays an order that was opened, whatever became of it here. *)
Capture(o) ==
  /\ o \notin Fresh
  /\ ~gateway[o].captured
  /\ gateway' = [gateway EXCEPT ![o].captured = TRUE]
  /\ UNCHANGED <<database, redis, req, job>>

(* LOCK_TTL_SECONDS pass: at any moment, as far as the handlers can tell. *)
Expire(s) ==
  /\ lock[s] # None
  /\ DropLock(s)
  /\ UNCHANGED <<database, cache, queue, gateway, req, job>>

(* An exception, or the API process going down, between two steps. *)
Abort(r) ==
  /\ "abort" \in Faults
  /\ req[r].pc # "idle"
  /\ Finish(r)
  /\ UNCHANGED <<database, redis, gateway, job>>

(* DEPLOYMENT.md:97: the deployed Redis does not persist across restarts. *)
RedisRestart ==
  /\ "redis_restart" \in Faults
  /\ lock' = [s \in Seats |-> None]
  /\ cache' = [s \in Seats |-> "NONE"]
  /\ queue' = <<>>
  /\ UNCHANGED <<database, gateway, req, job>>

RequestStep(r) == CheckoutStep(r) \/ MyBookingsStep(r) \/ SeatMapStep(r)

Arrival(r) == CheckoutArrival(r) \/ MyBookingsArrival(r) \/ SeatMapArrival(r)

Next ==
  \/ \E r \in Slots : Arrival(r) \/ RequestStep(r) \/ Abort(r)
  \/ \E u \in Users, s \in Seats : Unlock(u, s)
  \/ \E w \in Workers : WorkerStep(w) \/ WorkerFault(w)
  \/ \E o \in Orders : Capture(o)
  \/ \E s \in Seats : Expire(s)
  \/ RedisRestart

Spec == Init /\ [][Next]_vars

(* Coroutines and tasks run to their next await when nothing stops them,    *)
(* keys expire, and the gateway redelivers a webhook until it is answered,  *)
(* however often the API is too busy for it.                                *)
Fairness ==
  /\ \A r \in Slots : WF_vars(RequestStep(r))
  /\ \A w \in Workers : WF_vars(WorkerStep(w))
  /\ \A s \in Seats : WF_vars(Expire(s))
  /\ \A o \in Orders : SF_vars(\E r \in Slots, s \in Seats : WebhookCaptured(r, s, o))

(* Customers look at their bookings again and again: the page of an event   *)
(* polls the booking that it waits for, the page of bookings reads them all *)
(* each time it is opened.                                                  *)
OwnersLook ==
  \A s \in Seats : SF_vars(\E r \in Slots, u \in Users : ReapStart(r, u, s))

FairSpec == Spec /\ Fairness /\ OwnersLook

-----------------------------------------------------------------------------
(* Every store and every control point holds only what its part of the code *)
(* puts there: the columns, the Redis keys and the suspended handlers.      *)
TypeOK ==
  /\ seatStatus \in [Seats -> {"AVAILABLE", "BOOKED"}]
  /\ row \in [Seats -> Row]
  /\ lock \in [Seats -> Users \cup {None}]
  /\ cache \in [Seats -> CacheStatus]
  /\ queue \in Seq(QueuedJob)
  /\ gateway \in [Orders -> [seat: Seats \cup {None}, captured: BOOLEAN]]
  /\ req \in [Slots -> Request]
  /\ job \in [Workers -> Job \cup {NoJob}]

(* What a suspended handler carries is what its next step needs, and a      *)
(* booking that waits for its payment has a customer: the part of the type  *)
(* of requests that depends on where they are.                              *)
Carries ==
  /\ \A r \in Slots :
       /\ req[r].pc # "idle" => req[r].seat \in Seats
       /\ req[r].pc \notin {"idle", "map.load", "map.store", "map.locks", "map.heal",
                          "cancel.seat", "cancel.commit", "cancel.cache"}
            => req[r].user \in Users
       /\ req[r].pc \in {"pay.record", "pay.enqueue"} => req[r].order \in Orders
       /\ req[r].pc \in {"map.store", "map.locks", "map.heal"}
            => req[r].sawStatus \in CacheStatus
  /\ \A s \in Seats : row[s].status = "PENDING" => row[s].user \in Users

Typing == TypeOK /\ Carries

-----------------------------------------------------------------------------
(* Safety *)

Confirmed(s) == row[s].status = "CONFIRMED"
Pending(s) == row[s].status = "PENDING"

(* Where a payment for a seat still is on its way to being settled: in a    *)
(* handler that is about to queue it, in the list, or in the worker.        *)
AboutToQueue(s) == {r \in Slots : req[r].pc = "pay.enqueue" /\ req[r].seat = s}
Queued(s) == {i \in DOMAIN queue : queue[i].seat = s}
AboutToSettle(s) == {w \in Workers : job[w].pc \in {"confirm", "revert"} /\ job[w].seat = s}

(* No ticket without money: the payment a confirmed booking names was       *)
(* captured, for an order opened for this very seat -- whatever callbacks,  *)
(* webhooks and jobs of other attempts and other customers ran in between.  *)
(* About verify's order check, the worker's transaction and the upsert.     *)
ConfirmedWasPaid == \A s \in Seats : Confirmed(s) => row[s].payment \in Captured(s)

(* Verify and the webhook commit the payment id before they queue the job,  *)
(* so a payment of the booking's current order that is on its way is        *)
(* visible in the row; it is what the reaper's test for an abandoned        *)
(* checkout relies on.                                                      *)
VerifiedNeverLooksAbandoned ==
  \A s \in Seats :
    /\ \A r \in AboutToQueue(s) : row[s].order = req[r].order => row[s].payment # None
    /\ \A i \in Queued(s) : row[s].order = queue[i].order => row[s].payment # None
    /\ \A w \in AboutToSettle(s) : row[s].order = job[w].order => row[s].payment # None

(* Why the two hold.  A payment under way for a seat was captured for it,   *)
(* and if the row still has its order the row also has a payment.  That     *)
(* stays so because an order id is issued once, for the seat it is then     *)
(* written to, and the upsert clears the order and the payment together.    *)
UnderWay(s, o) ==
  /\ o \in Captured(s)
  /\ row[s].order = o => row[s].payment # None

RowTrail ==
  \A s \in Seats :
    /\ row[s].payment \in Captured(s) \cup {None}
    /\ row[s].order # None => gateway[row[s].order].seat = s
    /\ Confirmed(s) => row[s].payment # None

RequestTrail ==
  \A r \in Slots :
    /\ req[r].pc = "pay.record" => req[r].order \in Captured(req[r].seat)
    /\ req[r].pc = "pay.enqueue" => UnderWay(req[r].seat, req[r].order)

QueueTrail == \A i \in DOMAIN queue : UnderWay(queue[i].seat, queue[i].order)

JobTrail == \A w \in Workers : job[w] # NoJob => UnderWay(job[w].seat, job[w].order)

PaymentTrail == RowTrail /\ RequestTrail /\ QueueTrail /\ JobTrail

(* As long as no process dies, a PENDING booking that carries a payment id  *)
(* has a job coming that will settle it: money is never recorded and then   *)
(* forgotten by verify, the webhook and the worker's early return.          *)
RecordedPaymentHasJob ==
  \A s \in Seats :
    Pending(s) /\ row[s].payment # None
      => AboutToQueue(s) # {} \/ Queued(s) # {} \/ AboutToSettle(s) # {}

(* Only three statements take a booking out of CONFIRMED: the owner's       *)
(* cancellation, the reaper's write and a new checkout's upsert.  The       *)
(* worker's compensation, a failed webhook and a rejected callback, all     *)
(* guarded on PENDING, never do.                                            *)
RevokeOnly ==
  [][\A s \in Seats :
       Confirmed(s) /\ ~Confirmed(s)' =>
         \E r \in Slots : /\ req[r].seat = s
                          /\ OrderUpsert(r) \/ ReapCommit(r) \/ CancelCommit(r)]_vars

(* A seat with a confirmed booking is marked BOOKED, so it is not offered   *)
(* again.  It takes the worker's two transactions to keep the booking and   *)
(* the seat together while other attempts on the seat succeed and fail.     *)
(* (An owner's cancel that races a sale is a separate matter: see README.)  *)
SoldSeatMarked == \A s \in Seats : Confirmed(s) => seatStatus[s] = "BOOKED"

(* A lock goes from one customer to another only through being free: the    *)
(* SET NX of lockSeat.lua against every handler that writes or drops it.    *)
LockNotStolen ==
  [][\A s \in Seats : lock[s] # None => lock'[s] \in {lock[s], None}]_vars

-----------------------------------------------------------------------------
(* Refinement: a CONFIRMED booking is the ticket, captured orders are the   *)
(* payments.                                                                *)
Ledger == INSTANCE TicketLedger WITH
            paid <- [s \in Seats |-> Captured(s)],
            holder <- [s \in Seats |-> IF Confirmed(s) THEN row[s].user ELSE None]

(* Every step of the handlers, the worker and the gateway is a step of the  *)
(* ledger or changes nothing it sees.                                       *)
ImplementsLedger == Ledger!Spec

-----------------------------------------------------------------------------
(* Liveness *)

(* A booking whose order is paid does not stay PENDING, even if the browser *)
(* never comes back to call verify: the redelivered webhook settles it,     *)
(* unless the reaper, which does not ask the gateway, cancels it before.    *)
(* Once the payment is recorded the reaper keeps off, and only the job of   *)
(* verify or the webhook is left to end it.                                 *)
PaymentSettles ==
  \A s \in Seats, o \in Orders :
    (gateway[o].captured /\ row[s].order = o /\ Pending(s))
      ~> ~(row[s].order = o /\ Pending(s))

(* A checkout that was opened, not paid, and has lost its lock does not     *)
(* stay PENDING: the owner's next look at the booking reaps it, unless the  *)
(* owner took the seat again meanwhile.                                     *)
AbandonedIsReaped ==
  \A s \in Seats, u \in Users :
    (row[s].user = u /\ Pending(s) /\ row[s].payment = None /\ lock[s] # u)
      ~> (~(row[s].user = u /\ Pending(s) /\ row[s].payment = None) \/ lock[s] = u)

(* A seat that the map shows LOCKED after its lock has expired is offered   *)
(* again, provided that the map goes on being asked for: load_and_heal's    *)
(* repair.  No page polls the map once it is let in, so that somebody asks  *)
(* is a condition of the property and not a fairness of the specification.  *)
ExpiredLockHeals ==
  \A s \in Seats :
    []<><<\E r \in Slots : MapRead(r, s) \/ MapMiss(r, s)>>_vars
      => ((lock[s] = None /\ cache[s] = "LOCKED")
             ~> (lock[s] # None \/ cache[s] # "LOCKED"))

-----------------------------------------------------------------------------
(* What the documentation and comments say and the code does not do. *)

(* payment.py:124: the upsert clears the order "so a retried checkout       *)
(* cannot be settled by the signature from an abandoned earlier attempt".   *)
SettledByOwnOrder == \A s \in Seats : Confirmed(s) => row[s].payment = row[s].order

(* README.md:86 and :536, "no overselling": a seat somebody has a confirmed *)
(* booking for does not become another customer's booking.                  *)
ConfirmedNotOverwritten ==
  [][\A s \in Seats : Confirmed(s) => row'[s].user = row[s].user]_vars

(* booking_service.py:48-51: "a verified payment is never mistaken for an   *)
(* abandoned one", and a successful one never passes through the state the  *)
(* reaper cancels.                                                          *)
ReaperSparesPaid ==
  [][\A r \in Slots : ReapCommit(r) => row[req[r].seat].payment = None]_vars
=============================================================================
