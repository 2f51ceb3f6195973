---------------------------- MODULE PaymentWorker ----------------------------
(***************************************************************************)
(* tasks/payment.py: the worker takes jobs off paymentQueue and settles     *)
(* them.  BRPOP removes the job before it runs, so a crash loses it.        *)
(* What a job knows is its arguments; the two transactions look only at the *)
(* row's id and at PENDING.                                                 *)
(***************************************************************************)
EXTENDS Stores

PickUp(w) ==
  /\ job[w] = NoJob
  /\ queue # <<>>
  /\ job' = [job EXCEPT ![w] = [pc |-> "confirm", seat |-> Head(queue).seat,
                                user |-> Head(queue).user, order |-> Head(queue).order]]
  /\ queue' = Tail(queue)
  /\ UNCHANGED <<database, lock, cache, gateway, req>>

(* One transaction: the booking if still PENDING, and then its seat. *)
Confirm(w) ==
  /\ job[w].pc = "confirm"
  /\ row[job[w].seat].status = "PENDING"
  /\ row' = [row EXCEPT ![job[w].seat] = [@ EXCEPT !.status = "CONFIRMED", !.paid = TRUE,
                                                   !.payment = job[w].order]]
  /\ seatStatus' = [seatStatus EXCEPT ![job[w].seat] = "BOOKED"]
  /\ job' = [job EXCEPT ![w].pc = "cache"]
  /\ UNCHANGED <<redis, gateway, req>>

AlreadySettled(w) ==
  /\ job[w].pc = "confirm"
  /\ row[job[w].seat].status # "PENDING"
  /\ job' = [job EXCEPT ![w] = NoJob]
  /\ UNCHANGED <<database, redis, gateway, req>>

CacheBooked(w) ==
  /\ job[w].pc = "cache"
  /\ cache' = Cached(job[w].seat, "BOOKED")
  /\ job' = [job EXCEPT ![w].pc = "unlock"]
  /\ UNCHANGED <<database, lock, queue, gateway, req>>

(* The lock goes, whoever holds it; then the active-pool slot of the job's  *)
(* user and the promotion.                                                  *)
DropSoldLock(w) ==
  /\ job[w].pc = "unlock"
  /\ DropLock(job[w].seat)
  /\ job' = [job EXCEPT ![w] = NoJob]
  /\ UNCHANGED <<database, cache, queue, gateway, req>>

(* An exception anywhere in the try block, before or after its commit. *)
JobFails(w) ==
  /\ "worker_error" \in Faults
  /\ job[w].pc \in {"confirm", "cache", "unlock"}
  /\ job' = [job EXCEPT ![w].pc = "revert"]
  /\ UNCHANGED <<database, redis, gateway, req>>

(* Mutant: the compensation cancels a booking that is settled already. *)
RevertSettled(w) ==
  /\ job[w].pc = "revert"
  /\ CancelAny(job[w].seat)
  /\ seatStatus' = [seatStatus EXCEPT ![job[w].seat] = "AVAILABLE"]
  /\ job' = [job EXCEPT ![w].pc = "revert.cache"]
  /\ UNCHANGED <<redis, gateway, req>>

(* Mutant: it frees the seat even if it leaves the booking alone. *)
RevertSeatAnyway(w) ==
  /\ job[w].pc = "revert"
  /\ CancelPending(job[w].seat)
  /\ seatStatus' = [seatStatus EXCEPT ![job[w].seat] = "AVAILABLE"]
  /\ job' = [job EXCEPT ![w].pc = "revert.cache"]
  /\ UNCHANGED <<redis, gateway, req>>

(* The compensating transaction, guarded on PENDING like the first. *)
Revert(w) ==
  /\ job[w].pc = "revert"
  /\ row[job[w].seat].status = "PENDING"
  /\ CancelPending(job[w].seat)
  /\ seatStatus' = [seatStatus EXCEPT ![job[w].seat] = "AVAILABLE"]
  /\ job' = [job EXCEPT ![w].pc = "revert.cache"]
  /\ UNCHANGED <<redis, gateway, req>>

RefuseRevert(w) ==
  /\ job[w].pc = "revert"
  /\ row[job[w].seat].status # "PENDING"
  /\ job' = [job EXCEPT ![w] = NoJob]
  /\ UNCHANGED <<database, redis, gateway, req>>

RevertCache(w) ==
  /\ job[w].pc = "revert.cache"
  /\ cache' = Cached(job[w].seat, "AVAILABLE")
  /\ job' = [job EXCEPT ![w].pc = "revert.unlock"]
  /\ UNCHANGED <<database, lock, queue, gateway, req>>

RevertUnlock(w) ==
  /\ job[w].pc = "revert.unlock"
  /\ DropLock(job[w].seat)
  /\ job' = [job EXCEPT ![w] = NoJob]
  /\ UNCHANGED <<database, cache, queue, gateway, req>>

(* An exception during the compensation is logged and the job is over. *)
CleanupFails(w) ==
  /\ "worker_error" \in Faults
  /\ job[w].pc \in {"revert", "revert.cache", "revert.unlock"}
  /\ job' = [job EXCEPT ![w] = NoJob]
  /\ UNCHANGED <<database, redis, gateway, req>>

WorkerCrash(w) ==
  /\ "worker_crash" \in Faults
  /\ job[w] # NoJob
  /\ job' = [job EXCEPT ![w] = NoJob]
  /\ UNCHANGED <<database, redis, gateway, req>>

(* What a worker that is up goes on to do. *)
WorkerStep(w) ==
  \/ PickUp(w)
  \/ Confirm(w)
  \/ AlreadySettled(w)
  \/ CacheBooked(w)
  \/ DropSoldLock(w)
  \/ Revert(w)
  \/ RefuseRevert(w)
  \/ RevertCache(w)
  \/ RevertUnlock(w)

WorkerFault(w) == JobFails(w) \/ CleanupFails(w) \/ WorkerCrash(w)
=============================================================================
