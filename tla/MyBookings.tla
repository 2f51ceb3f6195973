----------------------------- MODULE MyBookings -----------------------------
(***************************************************************************)
(* services/booking_service.py: reading one's bookings, which reaps the     *)
(* abandoned ones on the way, and cancelling one.  Both write ORM objects   *)
(* they loaded earlier: the UPDATE names the primary key and the columns    *)
(* that differ from what was loaded, and has no other condition.            *)
(***************************************************************************)
EXTENDS Stores

(* Mutant: a booking that never got its order is not a candidate. *)
ReapOrdered(r, u, s) ==
  /\ "reap" \in Handlers
  /\ row[s].user = u
  /\ row[s].status = "PENDING" /\ row[s].payment = None /\ row[s].order # None
  /\ Start(r, "reap.holder", u, s, None)
  /\ UNCHANGED <<database, redis, gateway, job>>

(* The owner's read: get_my_bookings or get_booking_by_id.  A request that  *)
(* finds several candidates is one of these for each.                       *)
ReapStart(r, u, s) ==
  /\ "reap" \in Handlers
  /\ row[s].user = u
  /\ row[s].status = "PENDING"
  /\ row[s].payment = None
  /\ Start(r, "reap.holder", u, s, None)
  /\ UNCHANGED <<database, redis, gateway, job>>

ReapKeep(r) ==
  /\ req[r].pc = "reap.holder"
  /\ lock[req[r].seat] = req[r].user
  /\ Finish(r)
  /\ UNCHANGED <<database, redis, gateway, job>>

ReapAbandoned(r) ==
  /\ req[r].pc = "reap.holder"
  /\ lock[req[r].seat] # req[r].user
  /\ Goto(r, "reap.commit")
  /\ UNCHANGED <<database, redis, gateway, job>>

(* paymentStatus was loaded UNPAID and is set to UNPAID: not written. *)
ReapCommit(r) ==
  /\ req[r].pc = "reap.commit"
  /\ row' = [row EXCEPT ![req[r].seat].status = "CANCELLED"]
  /\ Finish(r)
  /\ UNCHANGED <<seatStatus, redis, gateway, job>>

-----------------------------------------------------------------------------
(* DELETE /bookings/{id} *)

CancelStart(r, u, s) ==
  /\ "cancel" \in Handlers
  /\ row[s].status # "ABSENT"
  /\ row[s].user = u
  /\ req[r].pc = "idle"
  /\ req' = [req EXCEPT ![r] = [Idle EXCEPT !.pc = "cancel.seat", !.user = u,
                                            !.seat = s, !.sawStatus = row[s].status]]
  /\ UNCHANGED <<database, redis, gateway, job>>

CancelReadSeat(r) ==
  /\ req[r].pc = "cancel.seat"
  /\ req' = [req EXCEPT ![r].pc = "cancel.commit",
                        ![r].sawSeat = seatStatus[req[r].seat]]
  /\ UNCHANGED <<database, redis, gateway, job>>

(* Each column is written only if it was loaded with another value.  The    *)
(* seat's lock and its holder's place in the pool stay.                     *)
CancelCommit(r) ==
  /\ req[r].pc = "cancel.commit"
  /\ row' = IF req[r].sawStatus # "CANCELLED"
            THEN [row EXCEPT ![req[r].seat].status = "CANCELLED"]
            ELSE row
  /\ seatStatus' = IF req[r].sawSeat # "AVAILABLE"
                   THEN [seatStatus EXCEPT ![req[r].seat] = "AVAILABLE"]
                   ELSE seatStatus
  /\ Goto(r, "cancel.cache")
  /\ UNCHANGED <<redis, gateway, job>>

CancelCache(r) ==
  /\ req[r].pc = "cancel.cache"
  /\ cache' = Cached(req[r].seat, "AVAILABLE")
  /\ Finish(r)
  /\ UNCHANGED <<database, lock, queue, gateway, job>>

-----------------------------------------------------------------------------

MyBookingsStep(r) ==
  \/ ReapKeep(r)
  \/ ReapAbandoned(r)
  \/ ReapCommit(r)
  \/ CancelReadSeat(r)
  \/ CancelCommit(r)
  \/ CancelCache(r)

MyBookingsArrival(r) ==
  \E u \in Users, s \in Seats : ReapStart(r, u, s) \/ CancelStart(r, u, s)
=============================================================================
