---------------------------- MODULE LedgerProofs ----------------------------
(***************************************************************************)
(* Booking implements TicketLedger, and what its steps may never do, for    *)
(* any numbers of customers, seats, orders, requests and workers, any       *)
(* choice of endpoints and any faults.                                      *)
(***************************************************************************)
EXTENDS BookingProofs

-----------------------------------------------------------------------------
(* Who writes a booking, an order and a lock. *)

LEMMA RowWriters ==
  [Next]_vars =>
    \/ UNCHANGED row
    \/ \E r \in Slots : \/ OrderUpsert(r) \/ RecordPayment(r) \/ FailCancel(r)
                        \/ ReapCommit(r) \/ CancelCommit(r)
                        \/ \E o \in Orders : OrderOpen(r, o)
    \/ \E w \in Workers : Confirm(w) \/ Revert(w)
<1> DEFINE Goal ==
    \/ UNCHANGED row
    \/ \E r \in Slots : \/ OrderUpsert(r) \/ RecordPayment(r) \/ FailCancel(r)
                        \/ ReapCommit(r) \/ CancelCommit(r)
                        \/ \E o \in Orders : OrderOpen(r, o)
    \/ \E w \in Workers : Confirm(w) \/ Revert(w)
<1> USE DEF database, redis
<1>1. ASSUME NEW r \in Slots, Arrival(r) PROVE Goal
  BY <1>1 DEF Arrival, CheckoutArrival, MyBookingsArrival, SeatMapArrival, LockStart,
         OrderStart, VerifyStart, VerifyRejected, WebhookCaptured, WebhookFailed,
         ReapStart, CancelStart, MapRead, MapMiss
<1>2. ASSUME NEW r \in Slots, CheckoutStep(r) PROVE Goal
  BY <1>2 DEF CheckoutStep, LockAcquire, LockConflict, OrderHolder, OrderNotHolder,
         OrderRefused, EnqueuePayment, FailCache, FailUnlock
<1>3. ASSUME NEW r \in Slots, MyBookingsStep(r) \/ SeatMapStep(r) PROVE Goal
  BY <1>3 DEF MyBookingsStep, SeatMapStep, ReapKeep, ReapAbandoned, CancelReadSeat,
         CancelCache, MapLoad, MapStore, MapLocks, MapHeal
<1>4. ASSUME NEW w \in Workers, WorkerStep(w) \/ WorkerFault(w) PROVE Goal
  BY <1>4 DEF WorkerStep, WorkerFault, PickUp, AlreadySettled, CacheBooked, DropSoldLock,
         RefuseRevert, RevertCache, RevertUnlock, JobFails, CleanupFails, WorkerCrash
<1>5. CASE \/ \E r \in Slots : Abort(r)
           \/ \E u \in Users, s \in Seats : Unlock(u, s)
           \/ \E o \in Orders : Capture(o)
           \/ \E s \in Seats : Expire(s)
           \/ RedisRestart \/ UNCHANGED vars
  BY <1>5 DEF Abort, Unlock, Capture, Expire, RedisRestart, vars
<1> QED
  BY <1>1, <1>2, <1>3, <1>4, <1>5 DEF Next, RequestStep

LEMMA GatewayWriters ==
  [Next]_vars =>
    \/ UNCHANGED gateway
    \/ \E r \in Slots, o \in Orders : OrderOpen(r, o)
    \/ \E o \in Orders : Capture(o)
<1> DEFINE Goal ==
    \/ UNCHANGED gateway
    \/ \E r \in Slots, o \in Orders : OrderOpen(r, o)
    \/ \E o \in Orders : Capture(o)
<1> USE DEF database, redis
<1>1. ASSUME NEW r \in Slots, Arrival(r) PROVE Goal
  BY <1>1 DEF Arrival, CheckoutArrival, MyBookingsArrival, SeatMapArrival, LockStart,
         OrderStart, VerifyStart, VerifyRejected, WebhookCaptured, WebhookFailed,
         ReapStart, CancelStart, MapRead, MapMiss
<1>2. ASSUME NEW r \in Slots, CheckoutStep(r) PROVE Goal
  BY <1>2 DEF CheckoutStep, LockAcquire, LockConflict, OrderHolder, OrderNotHolder,
         OrderUpsert, OrderRefused, RecordPayment, EnqueuePayment, FailCancel,
         FailCache, FailUnlock
<1>3. ASSUME NEW r \in Slots, MyBookingsStep(r) \/ SeatMapStep(r) PROVE Goal
  BY <1>3 DEF MyBookingsStep, SeatMapStep, ReapKeep, ReapAbandoned, ReapCommit,
         CancelReadSeat, CancelCommit, CancelCache, MapLoad, MapStore, MapLocks,
         MapHeal
<1>4. ASSUME NEW w \in Workers, WorkerStep(w) \/ WorkerFault(w) PROVE Goal
  BY <1>4 DEF WorkerStep, WorkerFault, PickUp, Confirm, AlreadySettled, CacheBooked,
         DropSoldLock, Revert, RefuseRevert, RevertCache, RevertUnlock, JobFails,
         CleanupFails, WorkerCrash
<1>5. CASE \/ \E r \in Slots : Abort(r)
           \/ \E u \in Users, s \in Seats : Unlock(u, s)
           \/ \E o \in Orders : Capture(o)
           \/ \E s \in Seats : Expire(s)
           \/ RedisRestart \/ UNCHANGED vars
  BY <1>5 DEF Abort, Unlock, Expire, RedisRestart, vars
<1> QED
  BY <1>1, <1>2, <1>3, <1>4, <1>5 DEF Next, RequestStep

LEMMA LockWriters ==
  [Next]_vars =>
    \/ UNCHANGED lock
    \/ RedisRestart
    \/ \E s \in Seats : Expire(s)
    \/ \E u \in Users, s \in Seats : Unlock(u, s)
    \/ \E r \in Slots : LockAcquire(r) \/ FailUnlock(r)
    \/ \E w \in Workers : DropSoldLock(w) \/ RevertUnlock(w)
<1> DEFINE Goal ==
    \/ UNCHANGED lock
    \/ RedisRestart
    \/ \E s \in Seats : Expire(s)
    \/ \E u \in Users, s \in Seats : Unlock(u, s)
    \/ \E r \in Slots : LockAcquire(r) \/ FailUnlock(r)
    \/ \E w \in Workers : DropSoldLock(w) \/ RevertUnlock(w)
<1> USE DEF database, redis
<1>1. ASSUME NEW r \in Slots, Arrival(r) PROVE Goal
  BY <1>1 DEF Arrival, CheckoutArrival, MyBookingsArrival, SeatMapArrival, LockStart,
         OrderStart, VerifyStart, VerifyRejected, WebhookCaptured, WebhookFailed,
         ReapStart, CancelStart, MapRead, MapMiss
<1>2. ASSUME NEW r \in Slots, CheckoutStep(r) PROVE Goal
  BY <1>2 DEF CheckoutStep, LockConflict, OrderHolder, OrderNotHolder, OrderUpsert,
         OrderOpen, OrderRefused, RecordPayment, EnqueuePayment, FailCancel, FailCache
<1>3. ASSUME NEW r \in Slots, MyBookingsStep(r) \/ SeatMapStep(r) PROVE Goal
  BY <1>3 DEF MyBookingsStep, SeatMapStep, ReapKeep, ReapAbandoned, ReapCommit,
         CancelReadSeat, CancelCommit, CancelCache, MapLoad, MapStore, MapLocks,
         MapHeal
<1>4. ASSUME NEW w \in Workers, WorkerStep(w) \/ WorkerFault(w) PROVE Goal
  BY <1>4 DEF WorkerStep, WorkerFault, PickUp, Confirm, AlreadySettled, CacheBooked, Revert,
         RefuseRevert, RevertCache, JobFails, CleanupFails, WorkerCrash
<1>5. CASE \/ \E r \in Slots : Abort(r)
           \/ \E u \in Users, s \in Seats : Unlock(u, s)
           \/ \E o \in Orders : Capture(o)
           \/ \E s \in Seats : Expire(s)
           \/ RedisRestart \/ UNCHANGED vars
  BY <1>5 DEF Abort, Capture, vars
<1> QED
  BY <1>1, <1>2, <1>3, <1>4, <1>5 DEF Next, RequestStep

-----------------------------------------------------------------------------
(* The invariant. *)

(* Who has a ticket is a customer; what was paid was opened for a seat.     *)
Holders ==
  /\ \A s \in Seats : Confirmed(s) => row[s].user \in Users
  /\ \A o \in Orders : gateway[o].captured => gateway[o].seat \in Seats

LedgerInv == Typing /\ PaymentTrail /\ Holders

(* A booking that is written: at one seat, and either its ticket holder     *)
(* stays or it is withdrawn or, by the worker, issued.                      *)
Revoked(s) == row'[s].status # "CONFIRMED"
Untold(s) == row'[s].status = row[s].status /\ row'[s].user = row[s].user
Issued(s) == /\ row[s].status = "PENDING" /\ row'[s].status = "CONFIRMED"
             /\ row'[s].user = row[s].user /\ row[s].user \in Users
             /\ Captured(s) # {}

Writes(s) ==
  /\ \A t \in Seats : t # s => row'[t] = row[t]
  /\ Revoked(s) \/ Untold(s) \/ Issued(s)

LEMMA RowMoves ==
  ASSUME LedgerInv, [Next]_vars
  PROVE  UNCHANGED row \/ \E s \in Seats : Writes(s)
<1>1. TypeOK /\ Carries /\ row \in [Seats -> Row]
  BY DEF LedgerInv, Typing, TypeOK
<1>2. ASSUME NEW r \in Slots, OrderUpsert(r)
      PROVE  \E s \in Seats : Writes(s)
  <2>1. req[r].seat \in Seats
    BY <1>1, <1>2 DEF OrderUpsert, Carries
  <2>2. /\ \A t \in Seats : t # req[r].seat => row'[t] = row[t]
        /\ row'[req[r].seat].status = "PENDING"
    BY <1>1, <1>2, <2>1 DEF OrderUpsert, PendingRow
  <2>3. Writes(req[r].seat)
    BY <2>2 DEF Writes, Revoked, Confirmed
  <2> QED
    BY <2>1, <2>3
<1>3. ASSUME NEW r \in Slots, RecordPayment(r) \/ \E o \in Orders : OrderOpen(r, o)
      PROVE  \E s \in Seats : Writes(s)
  <2>1. req[r].seat \in Seats
    BY <1>1, <1>3 DEF RecordPayment, OrderOpen, Carries
  <2>2. DOMAIN row = Seats /\ row[req[r].seat] \in Row
    BY <1>1, <2>1
  <2>3. \A t \in Seats : t # req[r].seat => row'[t] = row[t]
    BY <1>3, <2>2, Zenon DEF RecordPayment, OrderOpen
  <2>4. CASE RecordPayment(r)
    <3>1. row'[req[r].seat] = [row[req[r].seat] EXCEPT !.payment = req[r].order]
      BY <2>1, <2>2, <2>4, Zenon DEF RecordPayment
    <3>2. Untold(req[r].seat)
      BY <2>2, <3>1 DEF Untold, Row
    <3> QED
      BY <2>1, <2>3, <3>2 DEF Writes
  <2>5. CASE \E o \in Orders : OrderOpen(r, o)
    <3>1. PICK o \in Orders : OrderOpen(r, o)
      BY <2>5
    <3>2. row'[req[r].seat] = [row[req[r].seat] EXCEPT !.order = o]
      BY <2>1, <2>2, <3>1, Zenon DEF OrderOpen
    <3>3. Untold(req[r].seat)
      BY <2>2, <3>2 DEF Untold, Row
    <3> QED
      BY <2>1, <2>3, <3>3 DEF Writes
  <2> QED
    BY <1>3, <2>4, <2>5
<1>4. ASSUME NEW r \in Slots, FailCancel(r) \/ ReapCommit(r) \/ CancelCommit(r)
      PROVE  \E s \in Seats : Writes(s)
  <2>1. req[r].seat \in Seats
    BY <1>1, <1>4 DEF FailCancel, ReapCommit, CancelCommit, Carries
  <2>2. \/ row' = row
        \/ row' = [row EXCEPT ![req[r].seat].status = "CANCELLED"]
        \/ row' = [row EXCEPT ![req[r].seat].status = "CANCELLED", ![req[r].seat].paid = FALSE]
    BY <1>4 DEF FailCancel, CancelPending, ReapCommit, CancelCommit
  <2>3. /\ \A t \in Seats : t # req[r].seat => row'[t] = row[t]
        /\ row' = row \/ row'[req[r].seat].status = "CANCELLED"
    BY <1>1, <2>1, <2>2 DEF Row
  <2>4. Writes(req[r].seat)
    BY <2>3 DEF Writes, Revoked, Untold, Confirmed
  <2> QED
    BY <2>1, <2>4
<1>5. ASSUME NEW w \in Workers, Revert(w)
      PROVE  \E s \in Seats : Writes(s)
  <2>1. job[w].seat \in Seats
    BY <1>1, <1>5 DEF Revert, TypeOK, Job, NoJob
  <2>2. row' = [row EXCEPT ![job[w].seat].status = "CANCELLED", ![job[w].seat].paid = FALSE]
    BY <1>5 DEF Revert, CancelPending
  <2>3. /\ \A t \in Seats : t # job[w].seat => row'[t] = row[t]
        /\ row'[job[w].seat].status = "CANCELLED"
    BY <1>1, <2>1, <2>2 DEF Row
  <2>4. Writes(job[w].seat)
    BY <2>3 DEF Writes, Revoked, Confirmed
  <2> QED
    BY <2>1, <2>4
<1>6. ASSUME NEW w \in Workers, Confirm(w)
      PROVE  \E s \in Seats : Writes(s)
  <2> DEFINE s == job[w].seat
  <2>1. s \in Seats /\ job[w] # NoJob
    BY <1>1, <1>6 DEF Confirm, TypeOK, Job, NoJob
  <2>2. job[w].order \in Captured(s)
    BY <2>1 DEF LedgerInv, PaymentTrail, JobTrail, UnderWay
  <2>3. row[s].status = "PENDING" /\ row[s].user \in Users
    BY <1>1, <1>6, <2>1 DEF Confirm, Carries
  <2>4. row' = [row EXCEPT ![s] = [@ EXCEPT !.status = "CONFIRMED", !.paid = TRUE,
                                            !.payment = job[w].order]]
    BY <1>6 DEF Confirm
  <2>5. row'[s].status = "CONFIRMED" /\ row'[s].user = row[s].user
    BY <1>1, <2>1, <2>4 DEF Row
  <2>6. \A t \in Seats : t # s => row'[t] = row[t]
    BY <1>1, <2>1, <2>4
  <2>7. Issued(s)
    BY <2>2, <2>3, <2>5 DEF Issued, Confirmed
  <2> QED
    BY <2>1, <2>6, <2>7 DEF Writes
<1> QED
  BY <1>2, <1>3, <1>4, <1>5, <1>6, RowWriters

(* What the gateway has for a seat: unchanged, or an order more.            *)
LEMMA GatewayMoves ==
  ASSUME LedgerInv, [Next]_vars
  PROVE  /\ \/ \A s \in Seats : Captured(s)' = Captured(s)
            \/ /\ \A s \in Seats : row'[s] = row[s]
               /\ \E s \in Seats, o \in Orders :
                    /\ \A t \in Seats : o \notin Captured(t)
                    /\ Captured(s)' = Captured(s) \cup {o}
                    /\ \A t \in Seats : t # s => Captured(t)' = Captured(t)
         /\ \A o \in Orders : gateway'[o].captured => gateway'[o].seat \in Seats
<1>1. /\ gateway \in [Orders -> [seat: Seats \cup {None}, captured: BOOLEAN]]
      /\ \A o \in Orders : gateway[o].captured => gateway[o].seat \in Seats
      /\ None \notin Seats
  BY NoneAssumption DEF LedgerInv, Typing, TypeOK, Holders
<1>2. CASE UNCHANGED gateway
  BY <1>1, <1>2 DEF Captured
<1>3. CASE \E r \in Slots, o \in Orders : OrderOpen(r, o)
  <2>1. PICK r \in Slots, o \in Orders : OrderOpen(r, o)
    BY <1>3
  <2>2. req[r].seat \in Seats
    BY <2>1 DEF OrderOpen, LedgerInv, Typing, Carries
  <2>3. gateway[o].seat = None /\ ~gateway[o].captured
    BY <1>1, <2>1 DEF OrderOpen, Fresh
  <2>4. /\ gateway'[o].seat = req[r].seat /\ gateway'[o].captured = FALSE
        /\ \A p \in Orders : p # o => gateway'[p] = gateway[p]
    BY <1>1, <2>1, <2>3 DEF OrderOpen
  <2> QED
    BY <1>1, <2>2, <2>3, <2>4 DEF Captured
<1>4. CASE \E o \in Orders : Capture(o)
  <2>1. PICK o \in Orders : Capture(o)
    BY <1>4
  <2>2. PICK s \in Seats : s = gateway[o].seat /\ ~gateway[o].captured
    BY <1>1, <2>1 DEF Capture, Fresh
  <2>3. /\ gateway'[o].seat = s /\ gateway'[o].captured = TRUE
        /\ \A p \in Orders : p # o => gateway'[p] = gateway[p]
    BY <1>1, <2>1, <2>2 DEF Capture
  <2>4. \A t \in Seats : o \notin Captured(t)
    BY <2>2 DEF Captured
  <2>5. Captured(s)' = Captured(s) \cup {o}
    BY <1>1, <2>2, <2>3 DEF Captured
  <2>6. \A t \in Seats : t # s => Captured(t)' = Captured(t)
    BY <1>1, <2>2, <2>3 DEF Captured
  <2>7. \A t \in Seats : row'[t] = row[t]
    BY <2>1 DEF Capture, database
  <2>8. \A p \in Orders : gateway'[p].captured => gateway'[p].seat \in Seats
    BY <1>1, <2>2, <2>3
  <2>9. \E t \in Seats, p \in Orders :
          /\ \A v \in Seats : p \notin Captured(v)
          /\ Captured(t)' = Captured(t) \cup {p}
          /\ \A v \in Seats : v # t => Captured(v)' = Captured(v)
    BY <2>2, <2>4, <2>5, <2>6
  <2> QED
    BY <2>7, <2>8, <2>9
<1> QED
  BY <1>2, <1>3, <1>4, GatewayWriters

LEMMA LedgerInvStep == LedgerInv /\ [Next]_vars => LedgerInv'
<1> SUFFICES ASSUME LedgerInv, [Next]_vars PROVE LedgerInv'
  OBVIOUS
<1>1. Typing' /\ PaymentTrail'
  BY TypingStep, TrailStep DEF LedgerInv
<1>2. \A o \in Orders : gateway'[o].captured => gateway'[o].seat \in Seats
  BY GatewayMoves
<1>3. \A s \in Seats : Confirmed(s)' => row'[s].user \in Users
  <2>1. CASE UNCHANGED row
    BY <2>1 DEF LedgerInv, Holders, Confirmed
  <2>2. CASE \E s \in Seats : Writes(s)
    BY <2>2 DEF LedgerInv, Holders, Confirmed, Writes, Revoked, Untold, Issued
  <2> QED
    BY <2>1, <2>2, RowMoves
<1> QED
  BY <1>1, <1>2, <1>3 DEF LedgerInv, Holders

LEMMA LedgerInvariant == Spec => []LedgerInv
<1>1. Init => LedgerInv
  BY Initially DEF Init, LedgerInv, Holders, Confirmed, NoRow
<1> QED
  BY <1>1, LedgerInvStep, PTL DEF Spec

-----------------------------------------------------------------------------
(* The refinement. *)

Paid == [s \in Seats |-> Captured(s)]
Tickets == [s \in Seats |-> IF Confirmed(s) THEN row[s].user ELSE None]

LEMMA LedgerStep == LedgerInv /\ [Next]_vars => [Ledger!Next]_(Ledger!ledger)
<1> SUFFICES ASSUME LedgerInv, [Next]_vars
             PROVE  [Ledger!Next]_(Ledger!ledger)
  OBVIOUS
<1> USE DEF Ledger!ledger
<1>1. ASSUME \A s \in Seats : Captured(s)' = Captured(s), UNCHANGED row
      PROVE  UNCHANGED Ledger!ledger
  BY <1>1 DEF Confirmed
<1>2. ASSUME \A s \in Seats : Captured(s)' = Captured(s),
             NEW s \in Seats, Writes(s)
      PROVE  Ledger!Next \/ UNCHANGED Ledger!ledger
  <2>1. Paid' = Paid
    BY <1>2 DEF Paid
  <2>2. \A t \in Seats : t # s => Tickets'[t] = Tickets[t]
    BY <1>2 DEF Writes, Tickets, Confirmed
  <2>3. Tickets[s] # None <=> Confirmed(s)
    BY NoneAssumption DEF LedgerInv, Holders, Tickets
  <2>4. CASE (Revoked(s) /\ ~Confirmed(s)) \/ Untold(s)
    <3>1. Tickets'[s] = Tickets[s]
      BY <2>4 DEF Revoked, Untold, Tickets, Confirmed
    <3>2. Tickets' = Tickets
      BY <2>2, <3>1 DEF Tickets
    <3> QED
      BY <2>1, <3>2 DEF Paid, Tickets
  <2>5. CASE Revoked(s) /\ Confirmed(s)
    <3>1. Tickets'[s] = None
      BY <2>5 DEF Revoked, Tickets, Confirmed
    <3>2. Tickets' = [Tickets EXCEPT ![s] = None]
      BY <2>2, <3>1 DEF Tickets
    <3>3. Ledger!Withdraw(s)
      BY <2>1, <2>3, <2>5, <3>2 DEF Ledger!Withdraw, Paid, Tickets
    <3> QED
      BY <3>3 DEF Ledger!Next
  <2>6. CASE Issued(s)
    <3>1. PICK u \in Users : Tickets'[s] = u /\ Captured(s) # {}
      BY <2>6 DEF Issued, Tickets, Confirmed
    <3>2. Tickets' = [Tickets EXCEPT ![s] = u]
      BY <2>2, <3>1 DEF Tickets
    <3>3. ~Confirmed(s)
      BY <2>6 DEF Issued, Confirmed
    <3>4. Ledger!Issue(s, u)
      BY <2>1, <2>3, <3>1, <3>2, <3>3 DEF Ledger!Issue, Paid, Tickets
    <3> QED
      BY <3>4 DEF Ledger!Next
  <2> QED
    BY <1>2, <2>4, <2>5, <2>6 DEF Writes
<1>3. ASSUME \A t \in Seats : row'[t] = row[t],
             NEW s \in Seats, NEW o \in Orders,
             \A t \in Seats : o \notin Captured(t),
             Captured(s)' = Captured(s) \cup {o},
             \A t \in Seats : t # s => Captured(t)' = Captured(t)
      PROVE  Ledger!Next
  <2>1. Tickets' = Tickets
    BY <1>3 DEF Tickets, Confirmed
  <2>2. Paid' = [Paid EXCEPT ![s] = @ \cup {o}]
    BY <1>3 DEF Paid
  <2>3. \A t \in Seats : o \notin Paid[t]
    BY <1>3 DEF Paid
  <2>4. Ledger!Pay(s, o)
    BY <2>1, <2>2, <2>3 DEF Ledger!Pay, Paid, Tickets
  <2> QED
    BY <2>4 DEF Ledger!Next
<1> QED
  BY <1>1, <1>2, <1>3, RowMoves, GatewayMoves

(* The booking path keeps the promise of a ticket office: one holder per    *)
(* seat, issued only once the seat has been paid for, and passed on only by *)
(* being withdrawn first, whatever its processes and failures do.           *)
THEOREM BookingImplementsLedger == Spec => ImplementsLedger
<1>1. Init => Ledger!Init
  BY DEF Init, Ledger!Init, Captured, Confirmed, NoRow
<1> QED
  BY <1>1, LedgerInvariant, LedgerStep, PTL DEF Spec, ImplementsLedger, Ledger!Spec

-----------------------------------------------------------------------------
(* What a step may never do. *)

(* A confirmed booking is revoked by three statements only: not by the      *)
(* worker's compensation, a failed webhook or a rejected callback.          *)
THEOREM OnlyThreeRevoke == Spec => RevokeOnly
<1> DEFINE A == \A s \in Seats :
                  Confirmed(s) /\ ~Confirmed(s)' =>
                    \E r \in Slots : /\ req[r].seat = s
                                     /\ OrderUpsert(r) \/ ReapCommit(r) \/ CancelCommit(r)
<1>1. LedgerInv /\ [Next]_vars => A
  <2> SUFFICES ASSUME LedgerInv, [Next]_vars, NEW s \in Seats, Confirmed(s), ~Confirmed(s)'
               PROVE  \E r \in Slots : /\ req[r].seat = s
                                       /\ OrderUpsert(r) \/ ReapCommit(r) \/ CancelCommit(r)
    OBVIOUS
  <2>1. row \in [Seats -> Row] /\ TypeOK /\ Carries
    BY DEF LedgerInv, Typing, TypeOK
  <2>2. ASSUME NEW r \in Slots, OrderUpsert(r) \/ ReapCommit(r) \/ CancelCommit(r)
        PROVE  req[r].seat = s
    <3>1. \/ row' = row
          \/ row' = [row EXCEPT ![req[r].seat] = PendingRow(req[r].user)]
          \/ row' = [row EXCEPT ![req[r].seat].status = "CANCELLED"]
      BY <2>2 DEF OrderUpsert, ReapCommit, CancelCommit
    <3> QED
      BY <2>1, <3>1 DEF Confirmed
  <2>3. ASSUME NEW r \in Slots,
               FailCancel(r) \/ RecordPayment(r) \/ \E o \in Orders : OrderOpen(r, o)
        PROVE  FALSE
    <3>1. row'[s].status = row[s].status
      <4>1. CASE FailCancel(r)
        <5>1. CASE row[req[r].seat].status = "PENDING"
          <6>1. req[r].seat # s
            BY <5>1 DEF Confirmed
          <6> QED
            BY <2>1, <4>1, <5>1, <6>1 DEF FailCancel, CancelPending
        <5>2. CASE row[req[r].seat].status # "PENDING"
          BY <4>1, <5>2 DEF FailCancel, CancelPending
        <5> QED
          BY <5>1, <5>2
      <4>2. CASE RecordPayment(r) \/ \E o \in Orders : OrderOpen(r, o)
        <5>1. PICK x : \/ row' = [row EXCEPT ![req[r].seat].payment = x]
                       \/ row' = [row EXCEPT ![req[r].seat].order = x]
          BY <4>2 DEF RecordPayment, OrderOpen
        <5>3. CASE req[r].seat # s
          BY <2>1, <5>1, <5>3
        <5>4. CASE req[r].seat = s
          BY <2>1, <5>1, <5>4 DEF Row
        <5> QED
          BY <5>3, <5>4
      <4> QED
        BY <2>3, <4>1, <4>2
    <3> QED
      BY <3>1 DEF Confirmed
  <2>4. ASSUME NEW w \in Workers, Confirm(w) \/ Revert(w)
        PROVE  FALSE
    <3>1. job[w].seat # s
      BY <2>4 DEF Confirm, Revert, Confirmed
    <3>2. row'[s] = row[s]
      BY <2>1, <2>4, <3>1 DEF Confirm, Revert, CancelPending
    <3> QED
      BY <3>2 DEF Confirmed
  <2>5. row' # row
    BY DEF Confirmed
  <2> QED
    BY <2>2, <2>3, <2>4, <2>5, RowWriters
<1> QED
  BY <1>1, LedgerInvariant, PTL DEF Spec, RevokeOnly

(* No handler takes a lock from whoever holds it without freeing it first.  *)
THEOREM LocksAreNotStolen == Spec => LockNotStolen
<1> DEFINE A == \A s \in Seats : lock[s] # None => lock'[s] \in {lock[s], None}
<1>1. LedgerInv /\ [Next]_vars => A
  <2> SUFFICES ASSUME LedgerInv, [Next]_vars, NEW s \in Seats, lock[s] # None
               PROVE  lock'[s] \in {lock[s], None}
    OBVIOUS
  <2>1. lock \in [Seats -> Users \cup {None}]
    BY DEF LedgerInv, Typing, TypeOK
  <2>2. ASSUME NEW r \in Slots, LockAcquire(r)
        PROVE  lock'[s] = lock[s]
    BY <2>1, <2>2 DEF LockAcquire, AcquireSeatLock
  <2>3. CASE RedisRestart
    BY <2>3 DEF RedisRestart
  <2>4. ASSUME \E t \in Seats : lock' = [lock EXCEPT ![t] = None]
        PROVE  lock'[s] \in {lock[s], None}
    BY <2>1, <2>4
  <2>5. \A t : DropLock(t) => lock'[s] \in {lock[s], None}
    BY <2>1 DEF DropLock
  <2>6. \A u, t : ReleaseSeatLock(u, t) => lock'[s] \in {lock[s], None}
    BY <2>1 DEF ReleaseSeatLock
  <2> QED
    BY <2>2, <2>3, <2>5, <2>6, LockWriters
    DEF Expire, Unlock, FailUnlock, DropSoldLock, RevertUnlock
<1> QED
  BY <1>1, LedgerInvariant, PTL DEF Spec, LockNotStolen

-----------------------------------------------------------------------------
(* Sold seats, where nobody cancels. *)

(* A request starts, goes on or ends in its own slot.                       *)
LEMMA OwnSlot ==
  ASSUME TypeOK
  PROVE  /\ \A r \in Slots : \A pc, u, s, o :
              Start(r, pc, u, s, o) => /\ req[r].pc = "idle" /\ req'[r].pc = pc
                                       /\ \A q \in Slots : q # r => req'[q] = req[q]
         /\ \A r \in Slots : \A pc :
              Goto(r, pc) => /\ req'[r].pc = pc
                             /\ \A q \in Slots : q # r => req'[q] = req[q]
         /\ \A r \in Slots :
              Finish(r) => /\ req'[r].pc = "idle"
                           /\ \A q \in Slots : q # r => req'[q] = req[q]
<1>1. req \in [Slots -> Request]
  BY DEF TypeOK
<1>2. \A r \in Slots : \A pc, u, s, o :
        Start(r, pc, u, s, o) => /\ req[r].pc = "idle" /\ req'[r].pc = pc
                                 /\ \A q \in Slots : q # r => req'[q] = req[q]
  BY <1>1 DEF Start, Idle
<1>3. \A r \in Slots : \A pc :
        Goto(r, pc) => /\ req'[r].pc = pc
                       /\ \A q \in Slots : q # r => req'[q] = req[q]
  BY <1>1 DEF Goto, Request
<1>4. \A r \in Slots :
        Finish(r) => /\ req'[r].pc = "idle"
                     /\ \A q \in Slots : q # r => req'[q] = req[q]
  BY <1>1 DEF Finish, Idle
<1> QED
  BY <1>2, <1>3, <1>4

LEMMA SeatWriters ==
  [Next]_vars =>
    \/ UNCHANGED seatStatus
    \/ \E w \in Workers : Confirm(w) \/ Revert(w)
    \/ \E r \in Slots : CancelCommit(r)
<1> DEFINE Goal ==
    \/ UNCHANGED seatStatus
    \/ \E w \in Workers : Confirm(w) \/ Revert(w)
    \/ \E r \in Slots : CancelCommit(r)
<1> USE DEF database, redis
<1>1. ASSUME NEW r \in Slots, Arrival(r) PROVE Goal
  BY <1>1 DEF Arrival, CheckoutArrival, MyBookingsArrival, SeatMapArrival, LockStart,
         OrderStart, VerifyStart, VerifyRejected, WebhookCaptured, WebhookFailed,
         ReapStart, CancelStart, MapRead, MapMiss
<1>2. ASSUME NEW r \in Slots, CheckoutStep(r) PROVE Goal
  BY <1>2 DEF CheckoutStep, LockAcquire, LockConflict, OrderHolder, OrderNotHolder,
         OrderUpsert, OrderOpen, OrderRefused, RecordPayment, EnqueuePayment,
         FailCancel, FailCache, FailUnlock
<1>3. ASSUME NEW r \in Slots, MyBookingsStep(r) \/ SeatMapStep(r) PROVE Goal
  BY <1>3 DEF MyBookingsStep, SeatMapStep, ReapKeep, ReapAbandoned, ReapCommit,
         CancelReadSeat, CancelCache, MapLoad, MapStore, MapLocks, MapHeal
<1>4. ASSUME NEW w \in Workers, WorkerStep(w) \/ WorkerFault(w) PROVE Goal
  BY <1>4 DEF WorkerStep, WorkerFault, PickUp, AlreadySettled, CacheBooked, DropSoldLock,
         RefuseRevert, RevertCache, RevertUnlock, JobFails, CleanupFails, WorkerCrash
<1>5. CASE \/ \E r \in Slots : Abort(r)
           \/ \E u \in Users, s \in Seats : Unlock(u, s)
           \/ \E o \in Orders : Capture(o)
           \/ \E s \in Seats : Expire(s)
           \/ RedisRestart \/ UNCHANGED vars
  BY <1>5 DEF Abort, Unlock, Capture, Expire, RedisRestart, vars
<1> QED
  BY <1>1, <1>2, <1>3, <1>4, <1>5 DEF Next, RequestStep

(* No handler comes to cancel where cancelling is not in play.              *)
Cancelling == {"cancel.seat", "cancel.commit", "cancel.cache"}

LEMMA NoneCancels ==
  ASSUME TypeOK, NEW q \in Slots, "cancel" \notin Handlers, req[q].pc \notin Cancelling, [Next]_vars
  PROVE  req'[q].pc \notin Cancelling
<1> DEFINE Goal == req'[q].pc \notin Cancelling
<1>1. req \in [Slots -> Request]
  BY DEF TypeOK
<1>2. ASSUME NEW r \in Slots, Arrival(r) PROVE Goal
  <2>1. req[r].pc = "idle" /\ \A p \in Slots : p # r => req'[p] = req[p]
    BY <1>1, <1>2, OwnSlot
    DEF Cancelling, Arrival, CheckoutArrival, MyBookingsArrival, SeatMapArrival, LockStart,
         OrderStart, VerifyStart, VerifyRejected, WebhookCaptured, WebhookFailed,
         ReapStart, CancelStart, MapRead, MapMiss
  <2>2. ASSUME NEW u \in Users, NEW s \in Seats, ReapStart(r, u, s) \/ CancelStart(r, u, s)
        PROVE  req'[r].pc \notin Cancelling
    BY <1>1, <2>2, OwnSlot DEF ReapStart, CancelStart, Cancelling, Idle
  <2>3. ASSUME CheckoutArrival(r) PROVE req'[r].pc \notin Cancelling
    BY <2>3, OwnSlot
    DEF CheckoutArrival, LockStart, OrderStart, VerifyStart, VerifyRejected, WebhookCaptured,
        WebhookFailed, Cancelling
  <2>4. ASSUME SeatMapArrival(r) PROVE req'[r].pc \notin Cancelling
    <3>1. PICK s \in Seats : MapRead(r, s) \/ MapMiss(r, s)
      BY <2>4 DEF SeatMapArrival
    <3>2. CASE MapRead(r, s)
      <4>1. req'[r] = [Idle EXCEPT !.pc = "map.locks", !.seat = s, !.sawStatus = cache[s]]
        BY <1>1, <3>2 DEF MapRead
      <4> QED
        BY <4>1 DEF Idle, Cancelling
    <3>3. CASE MapMiss(r, s)
      BY <3>3, OwnSlot DEF MapMiss, Cancelling
    <3> QED
      BY <3>1, <3>2, <3>3
  <2> QED
    BY <1>2, <2>1, <2>2, <2>3, <2>4 DEF Arrival, MyBookingsArrival
<1>3. ASSUME NEW r \in Slots, CheckoutStep(r) PROVE Goal
  BY <1>1, <1>3, OwnSlot
  DEF Cancelling, CheckoutStep, LockAcquire, LockConflict, OrderHolder, OrderNotHolder,
         OrderUpsert, OrderOpen, OrderRefused, RecordPayment, EnqueuePayment,
         FailCancel, FailCache, FailUnlock
<1>4. ASSUME NEW r \in Slots, MyBookingsStep(r) \/ SeatMapStep(r) PROVE Goal
  BY <1>1, <1>4, OwnSlot
  DEF Cancelling, Request, MyBookingsStep, SeatMapStep, ReapKeep, ReapAbandoned, ReapCommit,
         CancelReadSeat, CancelCommit, CancelCache, MapLoad, MapStore, MapLocks,
         MapHeal
<1>5. ASSUME NEW r \in Slots, Abort(r) PROVE Goal
  BY <1>1, <1>5, OwnSlot DEF Cancelling, Abort
<1>6. CASE UNCHANGED req
  BY <1>6
<1>7. UNCHANGED req \/ \E r \in Slots : Arrival(r) \/ RequestStep(r) \/ Abort(r)
  BY DEF Next, vars, Unlock, Capture, Expire, RedisRestart,
         WorkerStep, WorkerFault, PickUp, Confirm, AlreadySettled, CacheBooked,
         DropSoldLock, Revert, RefuseRevert, RevertCache, RevertUnlock, JobFails,
         CleanupFails, WorkerCrash
<1> QED
  BY <1>2, <1>3, <1>4, <1>5, <1>6, <1>7 DEF RequestStep

(* Where the owners' cancellation is not in play, and it alone frees the    *)
(* seat of a booking it has read before, a confirmed booking's seat stays   *)
(* marked BOOKED, whatever jobs of other attempts settle or are undone.     *)
THEOREM SoldSeatsAreMarked ==
  ASSUME "cancel" \notin Handlers
  PROVE  Spec => []SoldSeatMarked
<1> DEFINE Inv == SoldSeatMarked /\ \A r \in Slots : req[r].pc \notin Cancelling
<1>1. Init => Inv
  BY DEF Init, SoldSeatMarked, Confirmed, NoRow, Idle, Cancelling
<1>2. LedgerInv /\ Inv /\ [Next]_vars => Inv'
  <2> SUFFICES ASSUME LedgerInv, Inv, [Next]_vars PROVE Inv'
    OBVIOUS
  <2>1. TypeOK /\ row \in [Seats -> Row] /\ seatStatus \in [Seats -> {"AVAILABLE", "BOOKED"}]
    BY DEF LedgerInv, Typing, TypeOK
  <2>2. \A r \in Slots : req'[r].pc \notin Cancelling
    BY <2>1, NoneCancels
  <2>3. ASSUME NEW s \in Seats, Confirmed(s)' PROVE seatStatus'[s] = "BOOKED"
    <3>1. CASE \E w \in Workers : Confirm(w)
      <4>1. PICK w \in Workers : Confirm(w)
        BY <3>1
      <4>2. CASE s = job[w].seat
        BY <2>1, <4>1, <4>2 DEF Confirm
      <4>3. CASE s # job[w].seat
        <5>1. row'[s] = row[s] /\ seatStatus'[s] = seatStatus[s]
          BY <2>1, <4>1, <4>3 DEF Confirm
        <5> QED
          BY <2>3, <5>1 DEF SoldSeatMarked, Confirmed
      <4> QED
        BY <4>2, <4>3
    <3>2. CASE \E w \in Workers : Revert(w)
      <4>1. PICK w \in Workers : Revert(w)
        BY <3>2
      <4>2. /\ row' = [row EXCEPT ![job[w].seat].status = "CANCELLED", ![job[w].seat].paid = FALSE]
            /\ seatStatus' = [seatStatus EXCEPT ![job[w].seat] = "AVAILABLE"]
        BY <4>1 DEF Revert, CancelPending
      <4>3. s # job[w].seat
        BY <2>1, <2>3, <4>2 DEF Confirmed, Row
      <4>4. row'[s] = row[s] /\ seatStatus'[s] = seatStatus[s]
        BY <2>1, <4>2, <4>3
      <4> QED
        BY <2>3, <4>4 DEF SoldSeatMarked, Confirmed
    <3>3. CASE \E r \in Slots : CancelCommit(r)
      BY <3>3 DEF CancelCommit, Cancelling
    <3>4. CASE UNCHANGED seatStatus /\ ~\E w \in Workers : Confirm(w) \/ Revert(w)
      <4>1. Confirmed(s)
        <5>1. CASE UNCHANGED row
          BY <2>3, <5>1 DEF Confirmed
        <5>2. ASSUME NEW r \in Slots, OrderUpsert(r)
              PROVE  Confirmed(s)
          <6>1. row' = [row EXCEPT ![req[r].seat] = PendingRow(req[r].user)]
            BY <5>2 DEF OrderUpsert
          <6> QED
            BY <2>1, <2>3, <6>1 DEF Confirmed, PendingRow
        <5>3. ASSUME NEW r \in Slots, RecordPayment(r) \/ \E o \in Orders : OrderOpen(r, o)
              PROVE  Confirmed(s)
          <6>1. PICK x : \/ row' = [row EXCEPT ![req[r].seat].payment = x]
                         \/ row' = [row EXCEPT ![req[r].seat].order = x]
            BY <5>3 DEF RecordPayment, OrderOpen
          <6>2. row'[s].status = row[s].status
            BY <2>1, <6>1 DEF Row
          <6> QED
            BY <2>3, <6>2 DEF Confirmed
        <5>4. ASSUME NEW r \in Slots, FailCancel(r) \/ ReapCommit(r) \/ CancelCommit(r)
              PROVE  Confirmed(s)
          <6>1. \/ row' = row
                \/ row' = [row EXCEPT ![req[r].seat].status = "CANCELLED"]
                \/ row' = [row EXCEPT ![req[r].seat].status = "CANCELLED",
                                      ![req[r].seat].paid = FALSE]
            BY <5>4 DEF FailCancel, CancelPending, ReapCommit, CancelCommit
          <6>2. row'[s] = row[s] \/ row'[s].status = "CANCELLED"
            BY <2>1, <6>1 DEF Row
          <6> QED
            BY <2>3, <6>2 DEF Confirmed
        <5> QED
          BY <3>4, <5>1, <5>2, <5>3, <5>4, RowWriters
      <4> QED
        BY <3>4, <4>1 DEF SoldSeatMarked
    <3> QED
      BY <3>1, <3>2, <3>3, <3>4, SeatWriters
  <2> QED
    BY <2>2, <2>3 DEF SoldSeatMarked
<1> QED
  BY <1>1, <1>2, LedgerInvariant, PTL DEF Spec

-----------------------------------------------------------------------------
(* Recorded payments, where no process dies. *)

LEMMA QueueWriters ==
  [Next]_vars =>
    \/ UNCHANGED queue
    \/ RedisRestart
    \/ \E w \in Workers : PickUp(w)
    \/ \E r \in Slots : EnqueuePayment(r)
<1> DEFINE Goal ==
    \/ UNCHANGED queue
    \/ RedisRestart
    \/ \E w \in Workers : PickUp(w)
    \/ \E r \in Slots : EnqueuePayment(r)
<1> USE DEF database, redis
<1>1. ASSUME NEW r \in Slots, Arrival(r) PROVE Goal
  BY <1>1 DEF Arrival, CheckoutArrival, MyBookingsArrival, SeatMapArrival, LockStart,
         OrderStart, VerifyStart, VerifyRejected, WebhookCaptured, WebhookFailed,
         ReapStart, CancelStart, MapRead, MapMiss
<1>2. ASSUME NEW r \in Slots, CheckoutStep(r) PROVE Goal
  BY <1>2 DEF CheckoutStep, LockAcquire, LockConflict, OrderHolder, OrderNotHolder,
         OrderUpsert, OrderOpen, OrderRefused, RecordPayment, FailCancel, FailCache,
         FailUnlock
<1>3. ASSUME NEW r \in Slots, MyBookingsStep(r) \/ SeatMapStep(r) PROVE Goal
  BY <1>3 DEF MyBookingsStep, SeatMapStep, ReapKeep, ReapAbandoned, ReapCommit,
         CancelReadSeat, CancelCommit, CancelCache, MapLoad, MapStore, MapLocks,
         MapHeal
<1>4. ASSUME NEW w \in Workers, WorkerStep(w) \/ WorkerFault(w) PROVE Goal
  BY <1>4 DEF WorkerStep, WorkerFault, Confirm, AlreadySettled, CacheBooked, DropSoldLock,
         Revert, RefuseRevert, RevertCache, RevertUnlock, JobFails, CleanupFails,
         WorkerCrash
<1>5. CASE \/ \E r \in Slots : Abort(r)
           \/ \E u \in Users, s \in Seats : Unlock(u, s)
           \/ \E o \in Orders : Capture(o)
           \/ \E s \in Seats : Expire(s)
           \/ RedisRestart \/ UNCHANGED vars
  BY <1>5 DEF Abort, Unlock, Capture, Expire, vars
<1> QED
  BY <1>1, <1>2, <1>3, <1>4, <1>5 DEF Next, RequestStep

(* A handler that is about to queue a job does so, unless it is aborted.    *)
LEMMA EnqueueWaits ==
  ASSUME TypeOK, NEW q \in Slots, req[q].pc = "pay.enqueue", [Next]_vars
  PROVE  req'[q] = req[q] \/ EnqueuePayment(q) \/ Abort(q)
<1> DEFINE Goal == req'[q] = req[q] \/ EnqueuePayment(q) \/ Abort(q)
<1>1. req \in [Slots -> Request]
  BY DEF TypeOK
<1>2. ASSUME NEW r \in Slots, Arrival(r) PROVE Goal
  <2>1. req[r].pc = "idle" /\ \A p \in Slots : p # r => req'[p] = req[p]
    BY <1>1, <1>2, OwnSlot
    DEF Arrival, CheckoutArrival, MyBookingsArrival, SeatMapArrival, LockStart,
         OrderStart, VerifyStart, VerifyRejected, WebhookCaptured, WebhookFailed,
         ReapStart, CancelStart, MapRead, MapMiss
  <2> QED
    BY <1>2, <2>1, OwnSlot
<1>3. ASSUME NEW r \in Slots, CheckoutStep(r) PROVE Goal
  BY <1>1, <1>3, OwnSlot
  DEF CheckoutStep, LockAcquire, LockConflict, OrderHolder, OrderNotHolder,
         OrderUpsert, OrderOpen, OrderRefused, RecordPayment, EnqueuePayment,
         FailCancel, FailCache, FailUnlock
<1>4. ASSUME NEW r \in Slots, MyBookingsStep(r) \/ SeatMapStep(r) PROVE Goal
  BY <1>1, <1>4, OwnSlot
  DEF MyBookingsStep, SeatMapStep, ReapKeep, ReapAbandoned, ReapCommit,
         CancelReadSeat, CancelCommit, CancelCache, MapLoad, MapStore, MapLocks,
         MapHeal
<1>5. ASSUME NEW r \in Slots, Abort(r) PROVE Goal
  BY <1>1, <1>5, OwnSlot DEF Abort
<1>6. CASE UNCHANGED req
  BY <1>6
<1>7. UNCHANGED req \/ \E r \in Slots : Arrival(r) \/ RequestStep(r) \/ Abort(r)
  BY DEF Next, vars, Unlock, Capture, Expire, RedisRestart,
         WorkerStep, WorkerFault, PickUp, Confirm, AlreadySettled, CacheBooked,
         DropSoldLock, Revert, RefuseRevert, RevertCache, RevertUnlock, JobFails,
         CleanupFails, WorkerCrash
<1> QED
  BY <1>2, <1>3, <1>4, <1>5, <1>6, <1>7 DEF RequestStep

(* A job that may still settle the booking is ended by its own steps only.  *)
LEMMA JobWaits ==
  ASSUME TypeOK, NEW v \in Workers, job[v].pc \in {"confirm", "revert"},
         Faults \subseteq {"gateway"}, [Next]_vars
  PROVE  job'[v] = job[v] \/ Confirm(v) \/ AlreadySettled(v) \/ Revert(v) \/ RefuseRevert(v)
<1> DEFINE Goal ==
    job'[v] = job[v] \/ Confirm(v) \/ AlreadySettled(v) \/ Revert(v) \/ RefuseRevert(v)
<1> USE DEF database, redis
<1>0. job \in [Workers -> Job \cup {NoJob}]
  BY DEF TypeOK
<1>1. ASSUME NEW r \in Slots, Arrival(r) PROVE Goal
  BY <1>1 DEF Arrival, CheckoutArrival, MyBookingsArrival, SeatMapArrival, LockStart,
         OrderStart, VerifyStart, VerifyRejected, WebhookCaptured, WebhookFailed,
         ReapStart, CancelStart, MapRead, MapMiss, NoJob
<1>2. ASSUME NEW r \in Slots, CheckoutStep(r) PROVE Goal
  BY <1>2 DEF CheckoutStep, LockAcquire, LockConflict, OrderHolder, OrderNotHolder,
         OrderUpsert, OrderOpen, OrderRefused, RecordPayment, EnqueuePayment,
         FailCancel, FailCache, FailUnlock, NoJob
<1>3. ASSUME NEW r \in Slots, MyBookingsStep(r) \/ SeatMapStep(r) PROVE Goal
  BY <1>3 DEF MyBookingsStep, SeatMapStep, ReapKeep, ReapAbandoned, ReapCommit,
         CancelReadSeat, CancelCommit, CancelCache, MapLoad, MapStore, MapLocks,
         MapHeal, NoJob
<1>4. ASSUME NEW w \in Workers, WorkerStep(w) \/ WorkerFault(w) PROVE Goal
  <2>1. CASE w = v
    BY <1>4, <2>1 DEF WorkerStep, WorkerFault, PickUp, CacheBooked, DropSoldLock, RevertCache,
                      RevertUnlock, JobFails, CleanupFails, WorkerCrash, NoJob
  <2>2. CASE w # v
    BY <1>0, <1>4, <2>2
    DEF WorkerStep, WorkerFault, PickUp, Confirm, AlreadySettled, CacheBooked,
         DropSoldLock, Revert, RefuseRevert, RevertCache, RevertUnlock, JobFails,
         CleanupFails, WorkerCrash, NoJob
  <2> QED
    BY <2>1, <2>2
<1>5. CASE \/ \E r \in Slots : Abort(r)
           \/ \E u \in Users, s \in Seats : Unlock(u, s)
           \/ \E o \in Orders : Capture(o)
           \/ \E s \in Seats : Expire(s)
           \/ RedisRestart \/ UNCHANGED vars
  BY <1>5 DEF Abort, Unlock, Capture, Expire, RedisRestart, vars, NoJob
<1> QED
  BY <1>1, <1>2, <1>3, <1>4, <1>5 DEF Next, RequestStep

HasJob(s) == AboutToQueue(s) # {} \/ Queued(s) # {} \/ AboutToSettle(s) # {}
Recorded(s) == Pending(s) /\ row[s].payment # None

(* A payment is recorded by the handler that will queue it, and the upsert  *)
(* that makes a booking PENDING records none.                               *)
LEMMA RecordedBy ==
  ASSUME LedgerInv, [Next]_vars, NEW s \in Seats, Recorded(s)'
  PROVE  Recorded(s) \/ \E r \in Slots : RecordPayment(r) /\ req[r].seat = s
<1>1. TypeOK /\ row \in [Seats -> Row]
  BY DEF LedgerInv, Typing, TypeOK
<1>2. row'[s].status = "PENDING" /\ row'[s].payment # None
  BY DEF Recorded, Pending
<1>3. CASE UNCHANGED row
  BY <1>2, <1>3 DEF Recorded, Pending
<1>4. ASSUME NEW r \in Slots, OrderUpsert(r)
      PROVE  Recorded(s)
  <2>1. row' = [row EXCEPT ![req[r].seat] = PendingRow(req[r].user)]
    BY <1>4 DEF OrderUpsert
  <2>2. row'[s] = row[s]
    BY <1>1, <1>2, <2>1 DEF PendingRow
  <2> QED
    BY <1>2, <2>2 DEF Recorded, Pending
<1>5. ASSUME NEW r \in Slots, RecordPayment(r)
      PROVE  Recorded(s) \/ req[r].seat = s
  <2>1. row' = [row EXCEPT ![req[r].seat].payment = req[r].order]
    BY <1>5 DEF RecordPayment
  <2>2. req[r].seat # s => row'[s] = row[s]
    BY <1>1, <2>1
  <2> QED
    BY <1>2, <2>2 DEF Recorded, Pending
<1>6. ASSUME NEW r \in Slots, NEW o \in Orders, OrderOpen(r, o)
      PROVE  Recorded(s)
  <2>1. row' = [row EXCEPT ![req[r].seat].order = o]
    BY <1>6 DEF OrderOpen
  <2>2. row'[s].status = row[s].status /\ row'[s].payment = row[s].payment
    BY <1>1, <2>1 DEF Row
  <2> QED
    BY <1>2, <2>2 DEF Recorded, Pending
<1>7. ASSUME NEW r \in Slots, FailCancel(r) \/ ReapCommit(r) \/ CancelCommit(r)
      PROVE  Recorded(s)
  <2>1. \/ row' = row
        \/ row' = [row EXCEPT ![req[r].seat].status = "CANCELLED"]
        \/ row' = [row EXCEPT ![req[r].seat].status = "CANCELLED", ![req[r].seat].paid = FALSE]
    BY <1>7 DEF FailCancel, CancelPending, ReapCommit, CancelCommit
  <2>2. row'[s] = row[s] \/ row'[s].status = "CANCELLED"
    BY <1>1, <2>1 DEF Row
  <2> QED
    BY <1>2, <2>2 DEF Recorded, Pending
<1>8. ASSUME NEW w \in Workers, Confirm(w) \/ Revert(w)
      PROVE  Recorded(s)
  <2>1. \/ row' = [row EXCEPT ![job[w].seat] = [@ EXCEPT !.status = "CONFIRMED", !.paid = TRUE,
                                                         !.payment = job[w].order]]
        \/ row' = [row EXCEPT ![job[w].seat].status = "CANCELLED", ![job[w].seat].paid = FALSE]
    BY <1>8 DEF Confirm, Revert, CancelPending
  <2>2. row'[s] = row[s] \/ row'[s].status \in {"CONFIRMED", "CANCELLED"}
    BY <1>1, <2>1 DEF Row
  <2> QED
    BY <1>2, <2>2 DEF Recorded, Pending
<1> QED
  BY <1>3, <1>4, <1>5, <1>6, <1>7, <1>8, RowWriters

(* What is in the list stays there or is at work.                           *)
LEMMA QueueKeeps ==
  ASSUME TypeOK, [Next]_vars, Faults \subseteq {"gateway"}, NEW s \in Seats, Queued(s) # {}
  PROVE  HasJob(s)'
<1>1. queue \in Seq(QueuedJob)
  BY DEF TypeOK
<1>2. PICK i \in DOMAIN queue : queue[i].seat = s
  BY DEF Queued
<1>3. ~RedisRestart
  BY DEF RedisRestart
<1>4. CASE UNCHANGED queue
  BY <1>2, <1>4 DEF HasJob, Queued
<1>5. CASE \E r \in Slots : EnqueuePayment(r)
  <2>1. PICK e : queue' = Append(queue, e)
    BY <1>5 DEF EnqueuePayment
  <2>2. i \in DOMAIN queue' /\ queue'[i] = queue[i]
    BY <1>1, <1>2, <2>1
  <2> QED
    BY <1>2, <2>2 DEF HasJob, Queued
<1>6. CASE \E w \in Workers : PickUp(w)
  <2>1. PICK w \in Workers : PickUp(w)
    BY <1>6
  <2>2. CASE i = 1
    <3>1. Head(queue).seat = s
      BY <1>1, <1>2, <2>2
    <3>2. job' = [job EXCEPT ![w] = [pc |-> "confirm", seat |-> Head(queue).seat,
                                     user |-> Head(queue).user, order |-> Head(queue).order]]
      BY <2>1 DEF PickUp
    <3>3. job'[w].pc = "confirm" /\ job'[w].seat = s
      BY <3>1, <3>2 DEF TypeOK
    <3> QED
      BY <3>3 DEF HasJob, AboutToSettle
  <2>3. CASE i # 1
    <3>1. queue' = Tail(queue)
      BY <2>1 DEF PickUp
    <3>2. i - 1 \in DOMAIN queue' /\ queue'[i - 1] = queue[i]
      BY <1>1, <1>2, <2>3, <3>1
    <3> QED
      BY <1>2, <3>2 DEF HasJob, Queued
  <2> QED
    BY <2>2, <2>3
<1> QED
  BY <1>3, <1>4, <1>5, <1>6, QueueWriters

(* Unless a process dies, a recorded payment of a PENDING booking always    *)
(* has a handler about to queue it, a job in the list or one at work:       *)
(* neither verify nor the webhook nor the worker's early return forgets it. *)
THEOREM RecordedPaymentsHaveJobs ==
  ASSUME Faults \subseteq {"gateway"}
  PROVE  Spec => []RecordedPaymentHasJob
<1>1. Init => RecordedPaymentHasJob
  BY DEF Init, RecordedPaymentHasJob, Pending, NoRow
<1>2. LedgerInv /\ RecordedPaymentHasJob /\ [Next]_vars => RecordedPaymentHasJob'
  <2> SUFFICES ASSUME LedgerInv, RecordedPaymentHasJob, [Next]_vars,
                      NEW s \in Seats, Recorded(s)'
               PROVE  HasJob(s)'
    BY DEF RecordedPaymentHasJob, Recorded, HasJob
  <2>1. TypeOK
    BY DEF LedgerInv, Typing
  <2>2. CASE \E r \in Slots : RecordPayment(r) /\ req[r].seat = s
    <3>1. PICK r \in Slots : RecordPayment(r) /\ req[r].seat = s
      BY <2>2
    <3>2. req'[r].pc = "pay.enqueue" /\ req'[r].seat = s
      BY <2>1, <3>1, GotoMoves DEF RecordPayment, TypeOK, RequestPC
    <3> QED
      BY <3>2 DEF HasJob, AboutToQueue
  <2>3. CASE Recorded(s)
    <3>1. HasJob(s)
      BY <2>3 DEF RecordedPaymentHasJob, Recorded, HasJob
    <3>2. CASE AboutToQueue(s) # {}
      <4>1. PICK r \in Slots : req[r].pc = "pay.enqueue" /\ req[r].seat = s
        BY <3>2 DEF AboutToQueue
      <4>2. CASE req'[r] = req[r]
        BY <4>1, <4>2 DEF HasJob, AboutToQueue
      <4>3. CASE EnqueuePayment(r)
        <5>1. PICK u, o : queue' = Append(queue, [seat |-> s, user |-> u, order |-> o])
          BY <4>1, <4>3 DEF EnqueuePayment
        <5>2. queue \in Seq(QueuedJob)
          BY <2>1 DEF TypeOK
        <5>3. Len(queue) + 1 \in DOMAIN queue' /\ queue'[Len(queue) + 1].seat = s
          BY <5>1, <5>2
        <5> QED
          BY <5>3 DEF HasJob, Queued
      <4>4. ~Abort(r)
        BY DEF Abort
      <4> QED
        BY <2>1, <4>1, <4>2, <4>3, <4>4, EnqueueWaits
    <3>3. CASE Queued(s) # {}
      BY <2>1, <3>3, QueueKeeps
    <3>4. CASE AboutToSettle(s) # {}
      <4>1. PICK w \in Workers : job[w].pc \in {"confirm", "revert"} /\ job[w].seat = s
        BY <3>4 DEF AboutToSettle
      <4>2. row[s].status = "PENDING" /\ row'[s].status = "PENDING"
        BY <2>3 DEF Recorded, Pending
      <4>3. row \in [Seats -> Row]
        BY <2>1 DEF TypeOK
      <4>4. ~Confirm(w)
        <5>1. Confirm(w) => row' = [row EXCEPT ![s] = [@ EXCEPT !.status = "CONFIRMED",
                                                               !.paid = TRUE,
                                                               !.payment = job[w].order]]
          BY <4>1 DEF Confirm
        <5>2. ASSUME Confirm(w) PROVE row'[s].status = "CONFIRMED"
          <6>1. DOMAIN row = Seats /\ s \in Seats
            BY <4>3, <2>1
          <6>2. row[s] \in Row
            BY <4>3, <6>1
          <6>3. "status" \in DOMAIN row[s]
            BY <6>2 DEF Row
          <6>4. row'[s] = [row[s] EXCEPT !.status = "CONFIRMED", !.paid = TRUE,
                                         !.payment = job[w].order]
            BY <5>1, <5>2, <6>1, Zenon
          <6> QED
            BY <6>3, <6>4, Zenon
        <5> QED
          BY <4>2, <5>2
      <4>5. ~AlreadySettled(w) /\ ~RefuseRevert(w)
        BY <4>1, <4>2 DEF AlreadySettled, RefuseRevert
      <4>6. ~Revert(w)
        <5>1. Revert(w) => row' = [row EXCEPT ![s].status = "CANCELLED", ![s].paid = FALSE]
          BY <4>1 DEF Revert, CancelPending
        <5>2. ASSUME Revert(w) PROVE row'[s].status = "CANCELLED"
          <6>1. DOMAIN row = Seats /\ s \in Seats
            BY <4>3, <2>1
          <6>2. row[s] \in Row
            BY <4>3, <6>1
          <6>3. "status" \in DOMAIN row[s] /\ "paid" \in DOMAIN row[s]
            BY <6>2 DEF Row
          <6>4. row'[s] = [[row[s] EXCEPT !.status = "CANCELLED"] EXCEPT !.paid = FALSE]
            BY <5>1, <5>2, <6>1, Zenon
          <6> QED
            BY <6>3, <6>4, Zenon
        <5> QED
          BY <4>2, <5>2
      <4>7. job'[w] = job[w]
        BY <2>1, <4>1, <4>4, <4>5, <4>6, JobWaits
      <4> QED
        BY <4>1, <4>7 DEF HasJob, AboutToSettle
    <3> QED
      BY <3>1, <3>2, <3>3, <3>4 DEF HasJob
  <2> QED
    BY <2>2, <2>3, RecordedBy
<1> QED
  BY <1>1, <1>2, LedgerInvariant, PTL DEF Spec
=============================================================================
