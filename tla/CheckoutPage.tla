---------------------------- MODULE CheckoutPage ----------------------------
(***************************************************************************)
(* The event page of one customer, app/events/[id]/page.tsx, from the       *)
(* waiting room to the outcome of a payment.  It learns what happens at the *)
(* server from three sources that know nothing of each other: events on its *)
(* socket, replies to its own requests, and two polls.  The server is the   *)
(* environment: of what the booking path and the waiting room do (modelled  *)
(* elsewhere) only what the page can see is kept, in the same order.        *)
(***************************************************************************)
EXTENDS Naturals, SequencesExt, FiniteSetsExt

CONSTANTS
  MaxFetches,   \* GET /events/{id}/seats under way at a time: a bound
  Polls,        \* GET /bookings/{id} under way at a time: a bound
  MaxJobs,      \* jobs and reports of a failed payment at a time: a bound
  MaxEvents,    \* events on the wire at a time: a bound
  MaxLost,      \* jobs that end silently in a behaviour: a bound
  Scenes        \* what a behaviour may meet: it meets all of one of these sets

ASSUME BoundsAssumption ==
  MaxFetches \in Nat \ {0} /\ MaxJobs \in Nat \ {0} /\ MaxEvents \in Nat \ {0} /\ MaxLost \in Nat
(* crowd: the waiting room is not always open; retry: the customer opens    *)
(* the checkout again; the others are faults.                               *)
ASSUME ScenesAssumption ==
  Scenes \subseteq SUBSET {"crowd", "retry", "loss", "http", "worker_error", "elsewhere"}

VARIABLES
  page,      \* the React state that decides what is on screen
  rail,      \* queueState, and the refs of the pump that feeds it
  wire,      \* events on their way to this customer's socket, oldest first
  verify,    \* POST /payment/verify
  poll,      \* the status polls
  fetch,     \* how many requests for the seat map are at which stage
  server,    \* the booking, the seat's lock and the place in the waiting room
  job        \* how many of the worker's jobs, and of the webhook's handlers of a
             \* failed payment, are at which stage

vars == <<page, rail, wire, verify, poll, fetch, server, job>>
network == <<wire, verify, poll, fetch>>

QueueStatus == {"idle", "waiting", "processing", "success", "failed"}
Final == {"success", "failed"}
Event == {"processing", "confirmed", "failed", "promoted"}

(* A job, and "refusing", the webhook's handler of payment.failed.          *)
Committed == {"confirmed", "reverted"}
Stage == {"queued", "announced", "refusing"} \cup Committed

(* The statuses with a MIN_DISPLAY_MS. *)
Transient == {"waiting", "processing"}

(* isLocking, reservedSeat, showQueue, order and isOpeningCheckout           *)
(* ("busy": the sheet is contacting the bank), activeBookingId, isWaiting,  *)
(* seats.                                                                   *)
Blank == [locking |-> FALSE, reserved |-> FALSE, showQueue |-> FALSE, checkout |-> "none",
          tracked |-> FALSE, waiting |-> FALSE, loaded |-> FALSE, left |-> FALSE]

(* timer: queuePumpTimeoutRef; held: the minimum display time is over. *)
IdleRail == [shown |-> "idle", pending |-> <<>>, timer |-> FALSE, held |-> TRUE]

(* Requests for the map by fetchSeats and by the waiting poll, and replies. *)
Request == {"fetch", "poll"}
Reply == {"ACTIVE", "WAITING"}

Panel ==
  CASE page.waiting -> "MapQueuePanel"
    [] ~page.waiting /\ ~page.reserved /\ ~page.showQueue -> "SeatMap"
    [] ~page.waiting /\ page.reserved /\ ~page.showQueue -> "SeatLockInfo"
    [] OTHER -> "PaymentQueuePanel"

Meets(what) == what \in server.scene

(* An event for the room of a customer who has left the page reaches nobody. *)
Emit(event) ==
  \/ page.left /\ UNCHANGED wire
  \/ ~page.left /\ Len(wire) < MaxEvents /\ wire' = Append(wire, event)

-----------------------------------------------------------------------------
(* The payment rail: statuses are queued, and each transient one stays on   *)
(* screen for its minimum time before the next is shown.                    *)

(* Mutant: run shows one status and does not pump again. *)
RunOnce(p) ==
  [shown |-> Head(p), pending |-> Tail(p), timer |-> FALSE, held |-> Head(p) \notin Transient]

(* run: it shows the oldest status and pumps again, so statuses are passed  *)
(* until one has to be held before a different one.                         *)
Run(p) ==
  LET k == Min({i \in DOMAIN p : i = Len(p) \/ (p[i] \in Transient /\ p[i + 1] # p[i])})
  IN [shown |-> p[k], pending |-> SubSeq(p, k + 1, Len(p)),
      timer |-> k < Len(p), held |-> p[k] \notin Transient]

(* Mutant: the timer that is pending is cancelled and replaced. *)
Clobber(status) == Run(<<status>>)

(* commitQueueState and pumpQueueState *)
Commit(status) ==
  LET p == Append(rail.pending, status) IN
  IF rail.timer \/ (rail.shown # Head(p) /\ rail.shown \in Transient /\ ~rail.held)
  THEN [rail EXCEPT !.pending = p, !.timer = TRUE]
  ELSE Run(p)

(* What a handler commits for a page that is gone is not shown.             *)
Told(status) == IF page.left THEN rail ELSE Commit(status)

MinimumElapses ==
  /\ ~rail.held
  /\ rail' = [rail EXCEPT !.held = TRUE]
  /\ UNCHANGED <<page, network, server, job>>

TimerFires ==
  /\ rail.timer
  /\ rail.held
  /\ rail' = Run(rail.pending)
  /\ UNCHANGED <<page, network, server, job>>

-----------------------------------------------------------------------------
(* The seat map and the waiting room. *)

NoFetch == [k \in Request \cup Reply |-> 0]

Another(k) ==
  /\ MapThenSumSet(LAMBDA i : fetch[i], Request \cup Reply) < MaxFetches
  /\ fetch' = [fetch EXCEPT ![k] = @ + 1]

(* fetchSeats, when some other step of the page calls it. *)
FetchSeats == Another("fetch")

(* The interval of five seconds while isWaiting. *)
MapPoll ==
  /\ page.waiting
  /\ Another("poll")
  /\ UNCHANGED <<page, rail, wire, verify, poll, server, job>>

(* Mutant: a poll only updates the position, the socket opens the map. *)
IgnoredPoll(k, reply) == k = "poll"

(* A WAITING reply to a poll only updates the position. *)
Ignored(k, reply) == k = "poll" /\ reply = "WAITING"

(* The server's answer: those in the pool see the map, others join the      *)
(* queue, and the promotion of the request may or may not let them in.      *)
SeatsHandled(k) ==
  /\ fetch[k] > 0
  /\ \E now \in {"pool", "queue"} :
       LET reply == IF now = "pool" THEN "ACTIVE" ELSE "WAITING" IN
       /\ server.room = "pool" \/ ~Meets("crowd") => now = "pool"
       /\ server' = [server EXCEPT !.room = now]
       /\ fetch' = [fetch EXCEPT ![k] = @ - 1, ![reply] = IF Ignored(k, reply) THEN @ ELSE @ + 1]
  /\ UNCHANGED <<page, rail, wire, verify, poll, job>>

(* The page believes the reply it reads, however old it is. *)
SeatsAnswered(reply) ==
  /\ fetch[reply] > 0
  /\ page' = CASE page.left -> page
               [] ~page.left /\ reply = "ACTIVE" -> [page EXCEPT !.waiting = FALSE, !.loaded = TRUE]
               [] OTHER -> [page EXCEPT !.waiting = TRUE]
  /\ fetch' = [fetch EXCEPT ![reply] = @ - 1]
  /\ UNCHANGED <<rail, wire, verify, poll, server, job>>

(* A request that is lost, or whose reply is, only leaves an error. *)
SeatsFail(k) ==
  /\ Meets("http")
  /\ fetch[k] > 0
  /\ fetch' = [fetch EXCEPT ![k] = @ - 1]
  /\ UNCHANGED <<page, rail, wire, verify, poll, server, job>>

(* Somebody else's promotion, which notifies. *)
Promote ==
  /\ server.room = "queue"
  /\ server' = [server EXCEPT !.room = "pool"]
  /\ Emit("promoted")
  /\ UNCHANGED <<page, rail, verify, poll, fetch, job>>

-----------------------------------------------------------------------------
(* The customer. *)

(* handleReserveSeat, up to its await and after it.  The waiting room may   *)
(* have covered the map by then.                                            *)
Reserve ==
  /\ Panel = "SeatMap"
  /\ page.loaded /\ ~page.locking
  /\ page' = [page EXCEPT !.locking = TRUE]
  /\ UNCHANGED <<rail, network, server, job>>

Reserved ==
  /\ page.locking
  /\ page' = [page EXCEPT !.locking = FALSE, !.reserved = TRUE]
  /\ rail' = [rail EXCEPT !.shown = "idle"]
  /\ server' = [server EXCEPT !.held = TRUE]
  /\ UNCHANGED <<network, job>>

ReserveRefused ==
  /\ page.locking
  /\ page' = [page EXCEPT !.locking = FALSE]
  /\ UNCHANGED <<rail, network, server, job>>

PayNow ==
  /\ server.booking = "NONE" \/ Meets("retry")
  /\ Panel = "SeatLockInfo"
  /\ page.checkout = "none"
  /\ page' = [page EXCEPT !.checkout = "opening"]
  /\ UNCHANGED <<rail, network, server, job>>

(* create_payment_order looks at the seat and at its lock, which an attempt *)
(* that has ended takes with it, and gives the row a new order: outcomes of *)
(* the order before find no row.  (What happens between the look and the    *)
(* upsert is Checkout's.)  The reply may be lost.                           *)
OrderOpened ==
  /\ page.checkout = "opening"
  /\ server.held /\ server.booking # "CONFIRMED"
  /\ server' = [server EXCEPT !.booking = "PENDING", !.paid = FALSE,
                              !.captured = FALSE, !.declined = FALSE]
  /\ \E checkout \in {"open"} \cup (IF Meets("http") THEN {"none"} ELSE {}) :
       page' = [page EXCEPT !.checkout = checkout]
  /\ UNCHANGED <<rail, network, job>>

OrderRefused ==
  /\ page.checkout = "opening"
  /\ page' = [page EXCEPT !.checkout = "none"]
  /\ UNCHANGED <<rail, network, server, job>>

Submit ==
  /\ page.checkout = "open"
  /\ page' = [page EXCEPT !.checkout = "busy"]
  /\ UNCHANGED <<rail, network, server, job>>

(* The mock's sheet cannot be closed while it is busy, Razorpay's window can. *)
Dismiss ==
  /\ page.checkout \in {"open", "busy"}
  /\ page' = [page EXCEPT !.checkout = "none"]
  /\ UNCHANGED <<rail, network, server, job>>

(* The bank says no: the sheet stays, the gateway may report it. *)
Decline ==
  /\ page.checkout = "busy"
  /\ ~server.captured
  /\ page' = [page EXCEPT !.checkout = "open"]
  /\ server' = [server EXCEPT !.declined = server.booking = "PENDING"]
  /\ UNCHANGED <<rail, network, job>>

Capture ==
  /\ page.checkout = "busy"
  /\ ~server.captured
  /\ server' = [server EXCEPT !.captured = TRUE]
  /\ UNCHANGED <<page, rail, network, job>>

(* handlePaid, up to its await.  It sends verify for a customer who has     *)
(* left as well.                                                            *)
Paid ==
  /\ page.checkout = "busy"
  /\ server.captured
  /\ page' = [page EXCEPT !.checkout = "none", !.showQueue = ~page.left]
  /\ rail' = Told("waiting")
  /\ verify' = "sent"
  /\ UNCHANGED <<wire, poll, fetch, server, job>>

(* What ends an attempt drops the lock and frees the place in the pool. *)
Unlocked == [server EXCEPT !.held = FALSE]
Released == [Unlocked EXCEPT !.room = "out"]

(* To another page: back to seat selection when the countdown is over, or   *)
(* handleCancelReservation.  The click of the latter leaves no trace, and   *)
(* nothing is disabled while it awaits: its reply comes at any time after   *)
(* the button was there, which it was before any checkout.  Giving up the   *)
(* seat gives up the place in the pool, unless the lock is not held any     *)
(* more or the request is lost.  The clean-up drops timer and pending.      *)
(* Razorpay's window does not belong to the page and stays open, and a      *)
(* sheet that is busy finishes.                                             *)
Leave ==
  /\ page.reserved
  /\ Panel = "SeatLockInfo" \/ page.checkout # "none" \/ page.showQueue
  /\ \E checkout \in {"none"} \cup ({page.checkout} \cap {"open", "busy"}) :
       page' = [Blank EXCEPT !.left = TRUE, !.checkout = checkout]
  /\ server' \in {server, Released}
  /\ rail' = IdleRail
  /\ wire' = <<>>
  /\ fetch' = NoFetch
  /\ poll' = [q \in Polls |-> "idle"]
  /\ UNCHANGED <<verify, job>>

-----------------------------------------------------------------------------
(* After the payment: verify, and the poll that follows it. *)

Begin(k) ==
  /\ MapThenSumSet(LAMBDA i : job[i], Stage) < MaxJobs
  /\ job' = [job EXCEPT ![k] = @ + 1]

Enqueue == Begin("queued")

VerifyHandled ==
  /\ verify = "sent"
  /\ verify' = "accepted"
  /\ \/ server.booking = "PENDING" /\ Enqueue
     \/ server.booking # "PENDING" /\ UNCHANGED job
  /\ UNCHANGED <<page, rail, wire, poll, fetch, server>>

VerifyAnswered ==
  /\ verify = "accepted"
  /\ verify' = "idle"
  /\ page' = [page EXCEPT !.tracked = ~page.left]
  /\ UNCHANGED <<rail, wire, poll, fetch, server, job>>

(* The catch branch: the request or its reply is lost. *)
VerifyFails ==
  /\ Meets("http")
  /\ verify # "idle"
  /\ verify' = "idle"
  /\ page' = [page EXCEPT !.tracked = FALSE]
  /\ rail' = Told("failed")
  /\ FetchSeats
  /\ UNCHANGED <<wire, poll, server, job>>

(* Mutant: only a rail that is still waiting is polled for. *)
StatusPollWaiting(q) ==
  /\ page.tracked
  /\ rail.shown = "waiting"
  /\ poll[q] = "idle"
  /\ poll' = [poll EXCEPT ![q] = "sent"]
  /\ UNCHANGED <<page, rail, wire, verify, fetch, server, job>>

(* The two-second interval. *)
StatusPoll(q) ==
  /\ page.tracked
  /\ rail.shown \in Transient
  /\ poll[q] = "idle"
  /\ poll' = [poll EXCEPT ![q] = "sent"]
  /\ UNCHANGED <<page, rail, wire, verify, fetch, server, job>>

Answers == {"CONFIRMED", "PAID", "CANCELLED"}

(* status, unless that is CANCELLED and paymentStatus is PAID.  To a        *)
(* booking that is not settled yet the page does nothing.                   *)
Answer ==
  CASE server.booking = "CONFIRMED" -> "CONFIRMED"
    [] server.booking = "CANCELLED" -> IF server.paid THEN "PAID" ELSE "CANCELLED"
    [] OTHER -> "idle"

PollHandled(q) ==
  /\ poll[q] = "sent"
  /\ poll' = [poll EXCEPT ![q] = Answer]
  /\ UNCHANGED <<page, rail, wire, verify, fetch, server, job>>

(* Mutant: the booking's status is handed to the rail as it is. *)
OutcomeAsIs(q) ==
  /\ poll[q] \in Answers
  /\ rail' = Commit(poll[q])
  /\ page' = [page EXCEPT !.tracked = FALSE]
  /\ poll' = [poll EXCEPT ![q] = "idle"]
  /\ FetchSeats
  /\ UNCHANGED <<wire, verify, server, job>>

OutcomeSeen(q) ==
  /\ poll[q] \in Answers
  /\ rail' = Commit(IF poll[q] \in {"CONFIRMED", "PAID"} THEN "success" ELSE "failed")
  /\ page' = [page EXCEPT !.tracked = FALSE]
  /\ poll' = [poll EXCEPT ![q] = "idle"]
  /\ FetchSeats
  /\ UNCHANGED <<wire, verify, server, job>>

PollFails(q) ==
  /\ Meets("http")
  /\ poll[q] # "idle"
  /\ poll' = [poll EXCEPT ![q] = "idle"]
  /\ UNCHANGED <<page, rail, wire, verify, fetch, server, job>>

-----------------------------------------------------------------------------
(* The socket.  Its handlers look at the event's name and not at the        *)
(* booking it is about.                                                     *)

StatusOf == [processing |-> "processing", confirmed |-> "success", failed |-> "failed"]

DeliverStatus ==
  /\ wire # <<>>
  /\ Head(wire) \in DOMAIN StatusOf
  /\ rail' = Commit(StatusOf[Head(wire)])
  /\ wire' = Tail(wire)
  /\ UNCHANGED <<page, verify, poll, fetch, server, job>>

DeliverPromoted ==
  /\ wire # <<>>
  /\ Head(wire) = "promoted"
  /\ page' = [page EXCEPT !.waiting = FALSE]
  /\ FetchSeats
  /\ wire' = Tail(wire)
  /\ UNCHANGED <<rail, verify, poll, server, job>>

(* Redis pub/sub keeps nothing for a socket that is not connected, and emit *)
(* swallows its errors.                                                     *)
Lose ==
  /\ Meets("loss")
  /\ \E i \in DOMAIN wire : wire' = RemoveAt(wire, i)
  /\ UNCHANGED <<page, rail, verify, poll, fetch, server, job>>

-----------------------------------------------------------------------------
(* The server, as far as the page can tell. *)

(* payment.captured, redelivered at will. *)
WebhookCaptured ==
  /\ server.captured
  /\ server.booking = "PENDING"
  /\ Enqueue
  /\ UNCHANGED <<page, rail, network, server>>

(* payment.failed, for an attempt that was declined, up to its await.       *)
WebhookFailed ==
  /\ server.declined
  /\ server.booking = "PENDING"
  /\ Begin("refusing")
  /\ UNCHANGED <<page, rail, network, server>>

(* Mutant: the update is not guarded on PENDING. *)
RefuseAnyway ==
  /\ job["refusing"] > 0
  /\ server' = [Released EXCEPT !.declined = FALSE, !.booking = "CANCELLED"]
  /\ Emit("failed")
  /\ job' = [job EXCEPT !["refusing"] = @ - 1]
  /\ UNCHANGED <<page, rail, verify, poll, fetch>>

(* Its update is guarded; what follows the update is not.                   *)
Refuse ==
  /\ job["refusing"] > 0
  /\ server' = [Released EXCEPT !.declined = FALSE,
                                !.booking = IF @ = "PENDING" THEN "CANCELLED" ELSE @]
  /\ Emit("failed")
  /\ job' = [job EXCEPT !["refusing"] = @ - 1]
  /\ UNCHANGED <<page, rail, verify, poll, fetch>>

Advance(from, to) ==
  /\ job[from] > 0
  /\ job' = [job EXCEPT ![from] = @ - 1, ![to] = @ + 1]

(* process_payment says "processing" before it looks at the database.       *)
Announce ==
  /\ Advance("queued", "announced")
  /\ Emit("processing")
  /\ UNCHANGED <<page, rail, verify, poll, fetch, server>>

(* Its transaction. *)
Settle ==
  /\ server.booking = "PENDING"
  /\ Advance("announced", "confirmed")
  /\ server' = [server EXCEPT !.booking = "CONFIRMED", !.paid = TRUE, !.declined = FALSE]
  /\ UNCHANGED <<page, rail, network>>

(* The transaction has failed, and its compensation commits. *)
Revert ==
  /\ Meets("worker_error")
  /\ server.booking = "PENDING"
  /\ Advance("announced", "reverted")
  /\ server' = [server EXCEPT !.booking = "CANCELLED", !.paid = FALSE, !.declined = FALSE]
  /\ UNCHANGED <<page, rail, network>>

(* Either has matched no row: nothing more of this job is seen. *)
FindSettled ==
  /\ job["announced"] > 0
  /\ server.booking # "PENDING"
  /\ job' = [job EXCEPT !["announced"] = @ - 1]
  /\ UNCHANGED <<page, rail, network, server>>

(* What the job does after its commit. *)
Notify ==
  /\ \E k \in Committed :
       /\ job[k] > 0
       /\ job' = [job EXCEPT ![k] = @ - 1]
       /\ Emit(IF k = "confirmed" THEN "confirmed" ELSE "failed")
  /\ server' = Released
  /\ UNCHANGED <<page, rail, verify, poll, fetch>>

(* The process dies, or a step after the commit raises, or the              *)
(* compensation does: nobody is told, and a booking may stay PENDING.       *)
EndSilently ==
  /\ Meets("worker_error")
  /\ server.lost < MaxLost
  /\ \E k \in Stage :
       /\ job[k] > 0
       /\ job' = [job EXCEPT ![k] = @ - 1]
       /\ \E s \in {server} \cup (IF k \in Committed THEN {Unlocked, Released} ELSE {}) :
            server' = [s EXCEPT !.lost = @ + 1]
  /\ UNCHANGED <<page, rail, network>>

(* withdrawn: a history of CONFIRMED bookings that were cancelled. *)
Sold == server.booking = "CONFIRMED" \/ server.withdrawn

(* cancel_booking from another tab, which leaves paymentStatus alone; or a  *)
(* look at My bookings there, which reaps.                                  *)
CancelledElsewhere ==
  /\ Meets("elsewhere")
  /\ server.booking # "NONE"
  /\ server' = [server EXCEPT !.booking = "CANCELLED", !.declined = FALSE,
                              !.withdrawn = Sold]
  /\ UNCHANGED <<page, rail, network, job>>

-----------------------------------------------------------------------------

(* The page has just been mounted and has asked for the seat map. *)
Init ==
  /\ page = Blank
  /\ rail = IdleRail
  /\ wire = <<>>
  /\ verify = "idle"
  /\ poll = [q \in Polls |-> "idle"]
  /\ fetch = [NoFetch EXCEPT !["fetch"] = 1]
  /\ \E scene \in Scenes :
       server = [booking |-> "NONE", paid |-> FALSE, withdrawn |-> FALSE, held |-> FALSE,
                 room |-> "out", captured |-> FALSE, declined |-> FALSE,
                 lost |-> 0, scene |-> scene]
  /\ job = [k \in Stage |-> 0]

Customer ==
  \/ Reserve \/ PayNow \/ Submit \/ Dismiss \/ Decline \/ Leave

PageStep ==
  \/ MinimumElapses \/ TimerFires
  \/ DeliverStatus \/ DeliverPromoted
  \/ Paid \/ VerifyAnswered

ServerStep ==
  \/ VerifyHandled \/ Promote
  \/ Announce \/ Settle \/ FindSettled \/ Notify \/ Refuse

Environment ==
  \/ Reserved \/ ReserveRefused \/ OrderOpened \/ OrderRefused \/ Capture
  \/ WebhookCaptured \/ WebhookFailed \/ VerifyFails \/ Lose
  \/ Revert \/ EndSilently \/ CancelledElsewhere
  \/ \E k \in Request \cup Reply : SeatsFail(k)
  \/ \E q \in Polls : PollFails(q)

Next ==
  \/ Customer \/ PageStep \/ ServerStep \/ Environment
  \/ MapPoll
  \/ \E k \in Request : SeatsHandled(k)
  \/ \E reply \in Reply : SeatsAnswered(reply)
  \/ \E q \in Polls : StatusPoll(q) \/ PollHandled(q) \/ OutcomeSeen(q)

Spec == Init /\ [][Next]_vars

(* The browser runs its timers, intervals and handlers, the worker its      *)
(* jobs, the waiting room promotes, and the network, though it may fail,    *)
(* does not fail for ever.                                                  *)
Fairness ==
  /\ WF_vars(MinimumElapses \/ TimerFires)
  /\ SF_vars(DeliverStatus \/ DeliverPromoted)
  /\ WF_vars(VerifyHandled \/ VerifyAnswered) /\ WF_vars(Promote)
  /\ WF_vars(Announce \/ Settle \/ FindSettled \/ Notify) /\ WF_vars(Refuse)
  /\ WF_vars(MapPoll)
  /\ SF_vars(\E k \in Request : SeatsHandled(k))
  /\ SF_vars(\E reply \in Reply : SeatsAnswered(reply))
  /\ \A q \in Polls : /\ WF_vars(StatusPoll(q))
                      /\ SF_vars(PollHandled(q)) /\ SF_vars(OutcomeSeen(q))

FairSpec == Spec /\ Fairness

-----------------------------------------------------------------------------
PageKind ==
  [locking: BOOLEAN, reserved: BOOLEAN, showQueue: BOOLEAN, tracked: BOOLEAN,
   waiting: BOOLEAN, loaded: BOOLEAN, left: BOOLEAN,
   checkout: {"none", "opening", "open", "busy"}]

ServerKind ==
  [booking: {"NONE", "PENDING", "CONFIRMED", "CANCELLED"},
   paid: BOOLEAN, withdrawn: BOOLEAN, held: BOOLEAN, room: {"out", "queue", "pool"},
   captured: BOOLEAN, declined: BOOLEAN, lost: Nat, scene: Scenes]

(* The page's state, the requests under way and the server's view are of    *)
(* the kinds the code has.                                                  *)
TypeOK ==
  /\ page \in PageKind
  /\ rail \in [shown: QueueStatus, pending: Seq(QueueStatus), timer: BOOLEAN, held: BOOLEAN]
  /\ wire \in Seq(Event)
  /\ verify \in {"idle", "sent", "accepted"}
  /\ poll \in [Polls -> {"idle", "sent"} \cup Answers]
  /\ fetch \in [Request \cup Reply -> Nat]
  /\ server \in ServerKind
  /\ job \in [Stage -> Nat]

(* The rail says "Your ticket is confirmed", or is about to, only if the    *)
(* booking is CONFIRMED, or was and has been cancelled in another tab: no   *)
(* failed transaction, report of a failed payment or second job makes a lie *)
(* of it, whichever of socket, poll and verify's reply it was heard from,   *)
(* and however late or lossy they are.                                      *)
SuccessIsTrue == "success" \in {rail.shown} \cup ToSet(rail.pending) => Sold

(* A status that waits to be shown always has a timer that will show it:    *)
(* pumpQueueState is called on every path that leaves one behind.           *)
NothingStranded == rail.pending # <<>> => rail.timer

(* page.tsx:49-52: a transient step stays on screen for its minimum time,   *)
(* though the next outcomes may arrive in the same flush.                   *)
StepsAreSeen ==
  [][rail.shown \in Transient /\ rail'.shown # rail.shown /\ ~page'.left => rail.held]_vars

(* A booking nobody will settle: its job was lost, with its worker or in a  *)
(* compensation that failed, and the gateway has not redelivered yet.       *)
Orphaned ==
  server.booking = "PENDING" /\ \A k \in {"queued", "announced", "refusing"} : job[k] = 0

(* The page never waits for good, for the map or for an outcome: whichever  *)
(* events are lost and replies overtaken, the polls bring it out again.     *)
(* For an orphaned booking they cannot, and it shows "processing" as long   *)
(* as it is one.  (That an outcome, once handed to the rail, stays there is *)
(* AnswerStands, and it does not.)                                          *)
PageComesToRest ==
  []<>(~page.waiting /\ (page.tracked => rail.shown \in Final \/ Orphaned))

-----------------------------------------------------------------------------
(* What a comment says and the code does not do. *)

(* page.tsx:462-463: once the page waits for the settlement "the existing   *)
(* socket listeners and the polling fallback drive the rail; nothing else   *)
(* to do": a step shown as under way is followed by an outcome, always,     *)
(* for as long as the customer stays.                                       *)
AnswerStands == page.showQueue ~> rail.shown \in Final \/ page.left
=============================================================================
