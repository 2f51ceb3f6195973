------------------------------ MODULE Checkout ------------------------------
(***************************************************************************)
(* The API's handlers for reserving and paying for a seat: routers/seats.py *)
(* and routers/payment.py.  After each of its reads a handler may be        *)
(* overtaken; what it then writes is guarded only where the SQL is.         *)
(*                                                                         *)
(* Unlocking and releasing end by freeing the caller's place in the active  *)
(* pool and promoting waiters: keys nothing here reads, and the subject of  *)
(* the waiting-room modules.                                                *)
(***************************************************************************)
EXTENDS Stores

(* POST /seats/{event}/{seat}/lock: the seat is read, a BOOKED one refused. *)
LockStart(r, u, s) ==
  /\ "lock" \in Handlers
  /\ seatStatus[s] # "BOOKED"
  /\ Start(r, "lock.acquire", u, s, None)
  /\ UNCHANGED <<database, redis, gateway, job>>

LockAcquire(r) ==
  /\ req[r].pc = "lock.acquire"
  /\ AcquireSeatLock(req[r].user, req[r].seat)
  /\ Finish(r)
  /\ UNCHANGED <<database, queue, gateway, job>>

LockConflict(r) ==
  /\ req[r].pc = "lock.acquire"
  /\ lock[req[r].seat] # None
  /\ Finish(r)
  /\ UNCHANGED <<database, redis, gateway, job>>

(* DELETE /seats/{event}/{seat}/lock *)
Unlock(u, s) ==
  /\ "unlock" \in Handlers
  /\ ReleaseSeatLock(u, s)
  /\ UNCHANGED <<database, queue, gateway, req, job>>

-----------------------------------------------------------------------------
(* POST /payment/order *)

OrderStart(r, u, s) ==
  /\ "order" \in Handlers
  /\ seatStatus[s] # "BOOKED"
  /\ Start(r, "order.holder", u, s, None)
  /\ UNCHANGED <<database, redis, gateway, job>>

OrderHolder(r) ==
  /\ req[r].pc = "order.holder"
  /\ lock[req[r].seat] = req[r].user
  /\ Goto(r, "order.upsert")
  /\ UNCHANGED <<database, redis, gateway, job>>

OrderNotHolder(r) ==
  /\ req[r].pc = "order.holder"
  /\ lock[req[r].seat] # req[r].user
  /\ Finish(r)
  /\ UNCHANGED <<database, redis, gateway, job>>

(* ON CONFLICT (seatId) DO UPDATE: whatever the row holds by now. *)
OrderUpsert(r) ==
  /\ req[r].pc = "order.upsert"
  /\ row' = [row EXCEPT ![req[r].seat] = PendingRow(req[r].user)]
  /\ Goto(r, "order.open")
  /\ UNCHANGED <<seatStatus, redis, gateway, job>>

(* provider.create_order, then UPDATE providerOrderId WHERE id: no payer    *)
(* knows the order before the response that follows.                        *)
OrderOpen(r, o) ==
  /\ req[r].pc = "order.open"
  /\ o \in Fresh
  /\ gateway' = [gateway EXCEPT ![o].seat = req[r].seat]
  /\ row' = [row EXCEPT ![req[r].seat].order = o]
  /\ Finish(r)
  /\ UNCHANGED <<seatStatus, redis, job>>

(* create_order raises 502 after the upsert has committed. *)
OrderRefused(r) ==
  /\ req[r].pc = "order.open"
  /\ "gateway" \in Faults \/ Fresh = {}
  /\ Finish(r)
  /\ UNCHANGED <<database, redis, gateway, job>>

-----------------------------------------------------------------------------
(* The outcome of a payment, from the browser's callback or the gateway's   *)
(* webhook.  Both read the booking once and then share their steps.         *)

(* Mutant: the signature is not checked. *)
VerifyUnsigned(r, u, s, o) ==
  /\ "verify" \in Handlers
  /\ row[s].user = u /\ row[s].order = o /\ row[s].status = "PENDING"
  /\ Start(r, "pay.record", u, s, o)
  /\ UNCHANGED <<database, redis, gateway, job>>

(* POST /payment/verify with a valid signature; a booking that is no longer *)
(* PENDING is answered without a write.                                     *)
VerifyStart(r, u, s, o) ==
  /\ "verify" \in Handlers
  /\ row[s].user = u
  /\ row[s].order = o
  /\ gateway[o].captured
  /\ row[s].status = "PENDING"
  /\ Start(r, "pay.record", u, s, o)
  /\ UNCHANGED <<database, redis, gateway, job>>

(* POST /payment/verify with a signature the provider rejects: this branch  *)
(* comes before the PENDING check.                                          *)
VerifyRejected(r, u, s, o) ==
  /\ "verify.bad" \in Handlers
  /\ row[s].user = u
  /\ row[s].order = o
  /\ Start(r, "fail.cancel", u, s, o)
  /\ UNCHANGED <<database, redis, gateway, job>>

(* POST /payment/webhook, payment.captured: redelivered at will.  The job's *)
(* user is the booking's, not the payer's.                                  *)
WebhookCaptured(r, s, o) ==
  /\ "webhook" \in Handlers
  /\ gateway[o].captured
  /\ row[s].order = o
  /\ row[s].status = "PENDING"
  /\ Start(r, "pay.record", row[s].user, s, o)
  /\ UNCHANGED <<database, redis, gateway, job>>

(* POST /payment/webhook, payment.failed: any order that was opened may see *)
(* an attempt fail, one that is paid by a later attempt included.           *)
WebhookFailed(r, s, o) ==
  /\ "webhook.failed" \in Handlers
  /\ row[s].order = o
  /\ row[s].status = "PENDING"
  /\ Start(r, "fail.cancel", row[s].user, s, o)
  /\ UNCHANGED <<database, redis, gateway, job>>

(* Mutant: the job is queued without the payment id being committed. *)
RecordNothing(r) ==
  /\ req[r].pc = "pay.record"
  /\ Goto(r, "pay.enqueue")
  /\ UNCHANGED <<database, redis, gateway, job>>

(* Mutant: the payment id is committed and no job is queued. *)
RecordOnly(r) ==
  /\ req[r].pc = "pay.record"
  /\ row' = [row EXCEPT ![req[r].seat].payment = req[r].order]
  /\ Finish(r)
  /\ UNCHANGED <<seatStatus, redis, gateway, job>>

(* UPDATE providerPaymentId WHERE id: not guarded on PENDING. *)
RecordPayment(r) ==
  /\ req[r].pc = "pay.record"
  /\ row' = [row EXCEPT ![req[r].seat].payment = req[r].order]
  /\ Goto(r, "pay.enqueue")
  /\ UNCHANGED <<seatStatus, redis, gateway, job>>

(* Mutant: the job is for whoever holds the lock, if anybody still does. *)
EnqueueForHolder(r) ==
  /\ req[r].pc = "pay.enqueue"
  /\ Len(queue) < MaxJobs
  /\ queue' = Append(queue, [seat |-> req[r].seat, user |-> lock[req[r].seat],
                             order |-> req[r].order])
  /\ Finish(r)
  /\ UNCHANGED <<database, lock, cache, gateway, job>>

(* process_payment.kiq *)
EnqueuePayment(r) ==
  /\ req[r].pc = "pay.enqueue"
  /\ Len(queue) < MaxJobs
  /\ queue' = Append(queue, [seat |-> req[r].seat, user |-> req[r].user,
                             order |-> req[r].order])
  /\ Finish(r)
  /\ UNCHANGED <<database, lock, cache, gateway, job>>

FailCancel(r) ==
  /\ req[r].pc = "fail.cancel"
  /\ CancelPending(req[r].seat)
  /\ Goto(r, "fail.cache")
  /\ UNCHANGED <<seatStatus, redis, gateway, job>>

(* _release_seat, whether or not the UPDATE matched a row. *)
FailCache(r) ==
  /\ req[r].pc = "fail.cache"
  /\ cache' = Cached(req[r].seat, "AVAILABLE")
  /\ Goto(r, "fail.unlock")
  /\ UNCHANGED <<database, lock, queue, gateway, job>>

FailUnlock(r) ==
  /\ req[r].pc = "fail.unlock"
  /\ DropLock(req[r].seat)
  /\ Finish(r)
  /\ UNCHANGED <<database, cache, queue, gateway, job>>

-----------------------------------------------------------------------------

CheckoutStep(r) ==
  \/ LockAcquire(r)
  \/ LockConflict(r)
  \/ OrderHolder(r)
  \/ OrderNotHolder(r)
  \/ OrderUpsert(r)
  \/ \E o \in Orders : OrderOpen(r, o)
  \/ OrderRefused(r)
  \/ RecordPayment(r)
  \/ EnqueuePayment(r)
  \/ FailCancel(r)
  \/ FailCache(r)
  \/ FailUnlock(r)

CheckoutArrival(r) ==
  \/ \E u \in Users, s \in Seats : LockStart(r, u, s) \/ OrderStart(r, u, s)
  \/ \E u \in Users, s \in Seats, o \in Orders :
        VerifyStart(r, u, s, o) \/ VerifyRejected(r, u, s, o)
  \/ \E s \in Seats, o \in Orders : WebhookCaptured(r, s, o) \/ WebhookFailed(r, s, o)
=============================================================================
