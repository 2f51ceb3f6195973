------------------------------- MODULE Stores -------------------------------
(***************************************************************************)
(* What the booking path of PrestoPass keeps, and the primitive writes its *)
(* parts share.  Nothing here is private to one process: the API's request *)
(* handlers and the payment worker all work on the same two stores,        *)
(*                                                                         *)
(*   Postgres   seatStatus, row     seats and bookings                     *)
(*   Redis      lock, cache, queue  seat locks, seat map, job list         *)
(*                                                                         *)
(* next to the payment gateway's own record of its orders.  A handler is a *)
(* coroutine: between two awaits another one runs, so each is a sequence   *)
(* of actions and req[r].pc, job[w].pc say which await comes next.         *)
(***************************************************************************)
EXTENDS Naturals, Sequences, FiniteSets

CONSTANTS
  Users,      \* signed-in customers
  Seats,      \* the seats of an event with a price (others are refused at order)
  Orders,     \* the order ids the gateway may issue, in the bounded supply
  Slots,      \* requests the API serves at a time: the bound on concurrency
  Workers,    \* jobs the worker process runs at a time
  None,       \* SQL NULL, or a missing Redis key
  Handlers,   \* the endpoints in play in this instance
  Faults,     \* the failures in play in this instance
  MaxJobs     \* bound on the length of the job list

AllHandlers == {"lock", "unlock", "order", "verify", "verify.bad", "webhook",
                "webhook.failed", "reap", "cancel", "seatmap"}

AllFaults == {"gateway", "abort", "worker_error", "worker_crash", "redis_restart"}

ASSUME NoneAssumption == None \notin Users \cup Orders \cup Seats
ASSUME HandlersAssumption == Handlers \subseteq AllHandlers
ASSUME FaultsAssumption == Faults \subseteq AllFaults
ASSUME MaxJobsAssumption == MaxJobs \in Nat \ {0}

VARIABLES
  seatStatus,   \* Seat.status; the enum's LOCKED is never written
  row,          \* the Booking row of a seat: "Booking_seatId_key" allows one
  lock,         \* seat_lock:{event}:{seat}, whose value is the holder
  cache,        \* the seat's field of event_seats:{event}; "NONE": no field
  queue,        \* the taskiq list paymentQueue, oldest job first
  gateway,      \* the provider's orders: the seat each was opened for, captured?
  req,          \* the handler each slot of the API is running
  job           \* the job each task of the worker is running

vars == <<seatStatus, row, lock, cache, queue, gateway, req, job>>

database == <<seatStatus, row>>
redis == <<lock, cache, queue>>

-----------------------------------------------------------------------------

RowStatus == {"ABSENT", "PENDING", "CONFIRMED", "CANCELLED"}
CacheStatus == {"NONE", "AVAILABLE", "LOCKED", "BOOKED"}

RequestPC == {"idle", "lock.acquire", "order.holder", "order.upsert", "order.open",
              "pay.record", "pay.enqueue", "fail.cancel", "fail.cache", "fail.unlock",
              "reap.holder", "reap.commit", "cancel.seat", "cancel.commit",
              "cancel.cache", "map.load", "map.store", "map.locks", "map.heal"}

JobPC == {"confirm", "cache", "unlock", "revert", "revert.cache", "revert.unlock"}

(* A booking: status, paymentStatus = PAID, providerOrderId and             *)
(* providerPaymentId.  The one payment that can capture an order is named   *)
(* by the order.                                                            *)
Row == [user: Users \cup {None}, status: RowStatus, paid: BOOLEAN,
        order: Orders \cup {None}, payment: Orders \cup {None}]

NoRow == [user |-> None, status |-> "ABSENT", paid |-> FALSE,
          order |-> None, payment |-> None]

(* A request with the values it read and still carries: sawStatus is the    *)
(* booking (or cache) status and sawSeat the seat status it will act on.    *)
Request == [pc: RequestPC, user: Users \cup {None}, seat: Seats \cup {None},
            order: Orders \cup {None},
            sawStatus: RowStatus \cup CacheStatus \cup {None},
            sawSeat: {"AVAILABLE", "BOOKED", None}]

Idle == [pc |-> "idle", user |-> None, seat |-> None, order |-> None,
         sawStatus |-> None, sawSeat |-> None]

(* The arguments of process_payment.kiq that matter: seatId (and bookingId, *)
(* one row per seat), userId, paymentId.                                    *)
QueuedJob == [seat: Seats, user: Users, order: Orders]

Job == [pc: JobPC, seat: Seats, user: Users, order: Orders]

NoJob == [pc |-> "idle", seat |-> None, user |-> None, order |-> None]

-----------------------------------------------------------------------------
(* The requests' own control. *)

Start(r, pc, u, s, o) ==
  /\ req[r].pc = "idle"
  /\ req' = [req EXCEPT ![r] = [Idle EXCEPT !.pc = pc, !.user = u,
                                            !.seat = s, !.order = o]]

Goto(r, pc) == req' = [req EXCEPT ![r].pc = pc]

Finish(r) == req' = [req EXCEPT ![r] = Idle]

-----------------------------------------------------------------------------
(* Redis. *)

(* set_cache_status: rewrites the status of a field that exists and leaves  *)
(* a missing one missing.  The value it reads first only supplies the seat  *)
(* number, so the read and the write are one step.                          *)
Cached(s, status) == [cache EXCEPT ![s] = IF @ = "NONE" THEN "NONE" ELSE status]

(* Mutant: SET without NX. *)
AcquireHeldLock(u, s) ==
  /\ lock' = [lock EXCEPT ![s] = u]
  /\ cache' = Cached(s, "LOCKED")

(* lockSeat.lua: SET NX, and the cached status with it. *)
AcquireSeatLock(u, s) ==
  /\ lock[s] = None
  /\ lock' = [lock EXCEPT ![s] = u]
  /\ cache' = Cached(s, "LOCKED")

(* releaseLock.lua: only for the holder. *)
ReleaseSeatLock(u, s) ==
  /\ lock[s] = u
  /\ lock' = [lock EXCEPT ![s] = None]
  /\ cache' = Cached(s, "AVAILABLE")

(* DEL seat_lock: whoever holds it. *)
DropLock(s) == lock' = [lock EXCEPT ![s] = None]

-----------------------------------------------------------------------------
(* Postgres. *)

(* The upsert's SET list; a booking that does not exist yet gets the same   *)
(* values from the INSERT.                                                  *)
PendingRow(u) == [user |-> u, status |-> "PENDING", paid |-> FALSE,
                  order |-> None, payment |-> None]

(* Mutant: the UPDATE without its WHERE status = 'PENDING'. *)
CancelAny(s) == row' = [row EXCEPT ![s].status = "CANCELLED", ![s].paid = FALSE]

(* UPDATE ... SET CANCELLED, UNPAID WHERE status = 'PENDING' *)
CancelPending(s) ==
  row' = IF row[s].status = "PENDING"
         THEN [row EXCEPT ![s].status = "CANCELLED", ![s].paid = FALSE]
         ELSE row

(* The orders the gateway has not issued yet. *)
Fresh == {o \in Orders : gateway[o].seat = None}

(* The orders opened for a seat and paid. *)
Captured(s) == {o \in Orders : gateway[o].seat = s /\ gateway[o].captured}
=============================================================================
