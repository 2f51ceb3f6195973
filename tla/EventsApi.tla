----------------------------- MODULE EventsApi -----------------------------
(***************************************************************************)
(* routers/events.py and services/event_service.py: administrators create,  *)
(* change and delete events.  What belongs to an event is in two stores:    *)
(* its row and its seats in Postgres, replaced in one transaction, and the  *)
(* hash event_seats:{id} in Redis, from which the seat map is served and    *)
(* which a write drops and fills again, step by step, after its commit.     *)
(*                                                                         *)
(* All seats of an event are created together, so a seat is named by the    *)
(* generation it belongs to and its number.                                 *)
(***************************************************************************)
EXTENDS Naturals, FiniteSets, People

CONSTANTS
  Events,
  MaxTotal,        \* seats of an event: a bound
  MaxGeneration,   \* how often an event is created or resized: a bound
  Writers,         \* writes handled at a time
  Readers          \* requests for a seat map handled at a time

ASSUME EventsNoneAssumption == None \notin Events
ASSUME SizesAssumption == MaxTotal \in Nat \ {0} /\ MaxGeneration \in Nat \ {0}

VARIABLES
  event,    \* "Event", its "Seat" rows, and whether one has a "Booking"
  hash,     \* event_seats:{id}
  write,    \* the writes under way
  read,     \* the requests for a seat map under way
  cut       \* history: an edit stopped between its commit and the hash

eventVars == <<event, hash, write, read, cut>>

(* live: the row exists; booked: some seat has a booking, of any status;    *)
(* sold: that seat is BOOKED.                                               *)
Absent == [live |-> FALSE, generation |-> 0, total |-> 0, booked |-> FALSE, sold |-> FALSE]

Seat == (1 .. MaxGeneration) \X (1 .. MaxTotal)

WritePC == {"idle", "arrived", "drop", "select", "fill", "done", "failed"}
Method == {"POST", "PUT", "DELETE"}
NoWrite == [pc |-> "idle", method |-> "POST", event |-> None, total |-> 0, who |-> None, rows |-> {}]

ReadPC == {"idle", "hgetall", "select", "fill", "locks", "served"}
NoRead == [pc |-> "idle", event |-> None, total |-> 0, seats |-> {}, clean |-> TRUE]

(* Mutant: one seat too many. *)
NumbersFromZero(total) == 0 .. total

(* create_seats: A1 to An. *)
Numbers(total) == 1 .. total

(* The rows of "Seat" for an event. *)
Rows(e) == {s \in {event[e].generation} \X Numbers(event[e].total) : event[e].live}

(* COUNT of the seats that are AVAILABLE. *)
Available(e) == event[e].total - (IF event[e].sold THEN 1 ELSE 0)

-----------------------------------------------------------------------------
(* A write.  require_admin re-reads the sender's role. *)

RequireAdmin(w) == write[w].who \in Admins

Arrive(w, method, e, total, who) ==
  /\ write[w].pc = "idle"
  /\ write' = [write EXCEPT ![w] = [pc |-> "arrived", method |-> method, event |-> e,
                                    total |-> total, who |-> who, rows |-> {}]]

(* What the steps that follow do not read is dropped. *)
Over(w, pc) == write' = [write EXCEPT ![w] = [NoWrite EXCEPT !.pc = pc]]

(* After the commit there is the hash.  An instance in which nobody reads   *)
(* it does without it.                                                      *)
Committed(w, pc, e) ==
  IF Readers = {} THEN Over(w, "done")
  ELSE write' = [write EXCEPT ![w] = [NoWrite EXCEPT !.pc = pc, !.method = write[w].method,
                                                     !.event = e]]

(* A request under way when an event is written saw some of the old.        *)
Overtake(e) ==
  read' = [r \in Readers |-> IF read[r].event = e THEN [read[r] EXCEPT !.clean = FALSE]
                                                  ELSE read[r]]

(* create_an_event: the row and seats A1..An; the hash is filled later. *)
Create(w) ==
  /\ write[w].pc = "arrived" /\ write[w].method = "POST"
  /\ RequireAdmin(w)
  /\ \E e \in Events :
       /\ event[e] = Absent
       /\ event' = [event EXCEPT ![e] = [@ EXCEPT !.live = TRUE, !.generation = 1,
                                                  !.total = write[w].total]]
       /\ Committed(w, "select", e)
       /\ Overtake(e)
  /\ UNCHANGED <<hash, cut>>

(* Mutant: bookings are dropped along with their seats. *)
Unprotected(e) == event[e].live

(* Every DELETE of seats meets the foreign key of "Booking". *)
Replaceable(e) == event[e].live /\ ~event[e].booked

(* update_an_event with totalSeats, which the form always sends: seats are  *)
(* dropped and created again whatever else is changed.                      *)
Update(w) ==
  LET e == write[w].event IN
  /\ write[w].pc = "arrived" /\ write[w].method = "PUT"
  /\ RequireAdmin(w)
  /\ Replaceable(e)
  /\ event[e].generation < MaxGeneration
  /\ event' = [event EXCEPT ![e].total = write[w].total, ![e].generation = @ + 1]
  /\ Committed(w, "drop", e)
  /\ Overtake(e)
  /\ UNCHANGED <<hash, cut>>

(* delete_an_event *)
Delete(w) ==
  LET e == write[w].event IN
  /\ write[w].pc = "arrived" /\ write[w].method = "DELETE"
  /\ RequireAdmin(w)
  /\ Replaceable(e)
  /\ event' = [event EXCEPT ![e] = [Absent EXCEPT !.generation = event[e].generation]]
  /\ Committed(w, "drop", e)
  /\ Overtake(e)
  /\ UNCHANGED <<hash, cut>>

(* 401 or 403, or the 404 of a rollback: a booking, a row that is gone, or   *)
(* another edit of the same event, whose seats have the same numbers.       *)
Reject(w) ==
  /\ write[w].pc = "arrived"
  /\ \/ ~RequireAdmin(w)
     \/ /\ write[w].method # "POST"
        /\ \/ ~Replaceable(write[w].event)
           \/ \E v \in Writers \ {w} : write[v].event = write[w].event
  /\ Over(w, "failed")
  /\ UNCHANGED <<event, hash, read, cut>>

(* DEL event_seats:{id} *)
DropHash(w) ==
  /\ write[w].pc = "drop"
  /\ hash' = [hash EXCEPT ![write[w].event] = {}]
  /\ IF write[w].method = "PUT" THEN Committed(w, "select", write[w].event) ELSE Over(w, "done")
  /\ Overtake(write[w].event)
  /\ UNCHANGED <<event, cut>>

(* populate_seat_cache: SELECT, then HSET over what the hash holds by then. *)
SelectSeats(w) ==
  /\ write[w].pc = "select"
  /\ write' = [write EXCEPT ![w].pc = "fill", ![w].rows = Rows(write[w].event)]
  /\ UNCHANGED <<event, hash, read, cut>>

FillHash(w) ==
  /\ write[w].pc = "fill"
  /\ hash' = [hash EXCEPT ![write[w].event] = @ \cup write[w].rows]
  /\ cut' = IF write[w].rows = Rows(write[w].event) THEN cut \ {write[w].event} ELSE cut
  /\ Over(w, "done")
  /\ UNCHANGED <<event, read>>

(* Redis fails or the process dies after the commit: the administrator is   *)
(* told that the write failed.                                              *)
CutShort(w) ==
  /\ "redis" \in Faults
  /\ write[w].pc \in {"drop", "select", "fill"}
  /\ cut' = cut \cup {write[w].event}
  /\ Over(w, "failed")
  /\ UNCHANGED <<event, hash, read>>

(* The answer leaves, to a page or to nobody. *)
Answered(w) == write' = [write EXCEPT ![w] = NoWrite]

WriteStep(w) ==
  \/ Create(w)
  \/ Update(w)
  \/ Delete(w)
  \/ Reject(w)
  \/ DropHash(w)
  \/ SelectSeats(w)
  \/ FillHash(w)
  \/ CutShort(w)

-----------------------------------------------------------------------------
(* GET /api/events/{id}/seats for somebody in the pool: load_and_heal. *)

(* Neither the event nor its hash is going to change under this write. *)
Still(w) == write[w].pc \in {"idle", "arrived", "done", "failed"}

(* The row is read first, with the total the hash is compared to. *)
MapStart(r, e) ==
  /\ read[r].pc = "idle"
  /\ event[e].live
  /\ read' = [read EXCEPT ![r] = [pc |-> "hgetall", event |-> e, total |-> event[e].total,
                                  seats |-> {},
                                  clean |-> \A w \in Writers : write[w].event = e => Still(w)]]
  /\ UNCHANGED <<event, hash, write, cut>>

(* Mutant: reloaded only when the hash is empty. *)
EmptyHash(r) == hash[read[r].event] = {}

(* Reloaded when it is empty or has drifted out of size with the event. *)
Drifted(r) ==
  LET h == hash[read[r].event] IN h = {} \/ Cardinality(h) # read[r].total

HGetAll(r) ==
  /\ read[r].pc = "hgetall"
  /\ read' = [read EXCEPT ![r].pc = IF Drifted(r) THEN "select" ELSE "locks",
                          ![r].seats = hash[read[r].event]]
  /\ UNCHANGED <<event, hash, write, cut>>

(* No rows: the hash is served after all. *)
MapSelect(r) ==
  LET rows == Rows(read[r].event) IN
  /\ read[r].pc = "select"
  /\ read' = [read EXCEPT ![r].pc = IF rows = {} THEN "locks" ELSE "fill",
                          ![r].seats = IF rows = {} THEN @ ELSE rows]
  /\ UNCHANGED <<event, hash, write, cut>>

MapFill(r) ==
  /\ read[r].pc = "fill"
  /\ hash' = [hash EXCEPT ![read[r].event] = @ \cup read[r].seats]
  /\ read' = [read EXCEPT ![r].pc = "locks"]
  /\ UNCHANGED <<event, write, cut>>

(* Of the seats served any may have drifted from its lock: HSET again, which *)
(* also creates a field that is gone.                                       *)
Heal(r) ==
  /\ read[r].pc = "locks"
  /\ \E healed \in SUBSET read[r].seats :
       hash' = [hash EXCEPT ![read[r].event] = @ \cup healed]
  /\ read' = [read EXCEPT ![r].pc = "served"]
  /\ UNCHANGED <<event, write, cut>>

MapAnswered(r) ==
  /\ read[r].pc = "served"
  /\ read' = [read EXCEPT ![r] = NoRead]
  /\ UNCHANGED <<event, hash, write, cut>>

MapStep(r) ==
  \/ HGetAll(r)
  \/ MapSelect(r)
  \/ MapFill(r)
  \/ Heal(r)
  \/ MapAnswered(r)

-----------------------------------------------------------------------------
(* Customers: an order makes a booking, a payment marks the seat, and a     *)
(* cancellation puts it back on sale and keeps the row.                     *)
Order(e) ==
  /\ "customers" \in Outside
  /\ event[e].live /\ event[e].total > 0
  /\ event' = [event EXCEPT ![e].booked = TRUE]
  /\ UNCHANGED <<hash, write, read, cut>>

Settle(e) ==
  /\ event[e].booked
  /\ event' = [event EXCEPT ![e].sold = ~@]
  /\ UNCHANGED <<hash, write, read, cut>>

EventsInit ==
  /\ event \in [Events -> {Absent, [Absent EXCEPT !.live = TRUE, !.generation = 1, !.total = 1]}]
  /\ hash = [e \in Events |-> IF Readers = {} THEN {} ELSE Rows(e)]
  /\ write = [w \in Writers |-> NoWrite]
  /\ read = [r \in Readers |-> NoRead]
  /\ cut = {}

-----------------------------------------------------------------------------
(* This component alone: anybody sends any request at any time.  (One       *)
(* without a token is refused as a customer's is.)                          *)

Sent(w) ==
  /\ \E who \in Accounts :
       \/ \E total \in 0 .. MaxTotal : Arrive(w, "POST", None, total, who)
       \/ \E e \in Events, total \in 0 .. MaxTotal : Arrive(w, "PUT", e, total, who)
       \/ \E e \in Events : Arrive(w, "DELETE", e, 0, who)
  /\ UNCHANGED <<event, hash, read, cut>>

AnsweredAnybody(w) ==
  /\ write[w].pc \in {"done", "failed"}
  /\ Answered(w)
  /\ UNCHANGED <<event, hash, read, cut>>

EventsNext ==
  \/ \E w \in Writers : Sent(w) \/ WriteStep(w) \/ AnsweredAnybody(w)
  \/ \E r \in Readers : MapStep(r) \/ \E e \in Events : MapStart(r, e)
  \/ \E e \in Events : Order(e) \/ Settle(e)

EventsSpec == EventsInit /\ [][EventsNext]_eventVars

-----------------------------------------------------------------------------
EventsTypeOK ==
  /\ event \in [Events -> [live: BOOLEAN, generation: 0 .. MaxGeneration, total: 0 .. MaxTotal,
                           booked: BOOLEAN, sold: BOOLEAN]]
  /\ hash \in [Events -> SUBSET Seat]
  /\ write \in [Writers -> [pc: WritePC, method: Method, event: Events \cup {None},
                            total: 0 .. MaxTotal, who: Accounts \cup {None}, rows: SUBSET Seat]]
  /\ read \in [Readers -> [pc: ReadPC, event: Events \cup {None}, total: 0 .. MaxTotal,
                           seats: SUBSET Seat, clean: BOOLEAN]]
  /\ cut \subseteq Events

(* The seat map is served from Redis and may be served while an event is    *)
(* being changed, from a hash that old requests fill and heal after it was  *)
(* dropped.  All the same, a request that no write of its event overlaps    *)
(* gets exactly the seats that exist, unless an edit was cut short between  *)
(* its commit and the hash, or the event was left without any seat: then    *)
(* there is nothing to reload, and what old requests filled in is served.   *)
MapServedIsCurrent ==
  \A r \in Readers :
    LET e == read[r].event IN
    read[r].pc = "served" /\ read[r].clean /\ e \notin cut /\ event[e].total > 0
      => read[r].seats = Rows(e)

(* A seat that somebody has ever ordered is never replaced or deleted: no   *)
(* payment is left without its seat.                                        *)
OrderedSeatsStay ==
  [][\A e \in Events : event[e].booked => event'[e].live
                       /\ event'[e].generation = event[e].generation]_event
=============================================================================
