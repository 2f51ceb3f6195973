---------------------------- MODULE EventsProofs ----------------------------
(***************************************************************************)
(* Theorems about EventsApi, for any accounts, events, writers and readers  *)
(* and any bounds: the types, and that the seats of an ordered event are    *)
(* never replaced.                                                          *)
(***************************************************************************)
EXTENDS EventsApi, TLAPS

WriteRecord == [pc: WritePC, method: Method, event: Events \cup {None}, total: 0 .. MaxTotal,
                who: Accounts \cup {None}, rows: SUBSET Seat]
ReadRecord == [pc: ReadPC, event: Events \cup {None}, total: 0 .. MaxTotal, seats: SUBSET Seat,
               clean: BOOLEAN]
EventRecord == [live: BOOLEAN, generation: 0 .. MaxGeneration, total: 0 .. MaxTotal,
                booked: BOOLEAN, sold: BOOLEAN]

(* A row that exists has been through a creation; only one that exists, and *)
(* has a seat, has seen an order; only an ordered seat was sold.            *)
EventInv ==
  /\ event \in [Events -> EventRecord]
  /\ \A e \in Events : event[e].live => event[e].generation # 0
  /\ \A e \in Events : event[e].booked => event[e].live /\ event[e].total # 0
  /\ \A e \in Events : event[e].sold => event[e].booked

(* A write that is going to look at an event has one. *)
WriteAddressed(rec) ==
  \/ rec.pc \in {"drop", "select", "fill"}
  \/ rec.pc = "arrived" /\ rec.method # "POST"
  => rec.event \in Events

WriteInv ==
  /\ write \in [Writers -> WriteRecord]
  /\ \A w \in Writers : WriteAddressed(write[w])

(* So has a request for a seat map. *)
ReadInv ==
  /\ read \in [Readers -> ReadRecord]
  /\ \A r \in Readers : read[r].pc # "idle" => read[r].event \in Events

(* The types are not inductive without those three facts. *)
EventsInv ==
  /\ EventInv
  /\ hash \in [Events -> SUBSET Seat]
  /\ WriteInv
  /\ ReadInv
  /\ cut \subseteq Events

(* The inductive invariant contains the type invariant. *)
LEMMA EventsInvTypes == EventsInv => EventsTypeOK
BY DEF EventsInv, EventInv, WriteInv, ReadInv, EventsTypeOK, EventRecord, WriteRecord, ReadRecord

(* The seats of an event are seats within the bounds. *)
LEMMA RowsAreSeats ==
  ASSUME EventInv, NEW e \in Events
  PROVE  Rows(e) \subseteq Seat
<1> USE SizesAssumption
<1>1. CASE ~event[e].live
  BY <1>1 DEF Rows
<1>2. CASE event[e].live
  <2>1. /\ event[e].generation \in 0 .. MaxGeneration
        /\ event[e].generation # 0
        /\ event[e].total \in 0 .. MaxTotal
    BY <1>2 DEF EventInv, EventRecord
  <2>2. event[e].generation \in 1 .. MaxGeneration /\ 1 .. event[e].total \subseteq 1 .. MaxTotal
    BY <2>1
  <2>3. {event[e].generation} \X Numbers(event[e].total) \subseteq Seat
    BY <2>2 DEF Numbers, Seat
  <2> QED BY <2>3 DEF Rows
<1> QED BY <1>1, <1>2

-----------------------------------------------------------------------------
(* How a write and a request change when a step is taken on them. *)

(* The record of a write without a request. *)
LEMMA NoWriteTyped == NoWrite \in WriteRecord
BY SizesAssumption DEF NoWrite, WriteRecord, WritePC, Method

(* A write whose record stays well formed keeps the invariant of writes. *)
LEMMA WriteReplaced ==
  ASSUME WriteInv, NEW w \in Writers, NEW rec \in WriteRecord, WriteAddressed(rec),
         write' = [write EXCEPT ![w] = rec]
  PROVE  WriteInv'
<1>1. write' \in [Writers -> WriteRecord]
  BY DEF WriteInv
<1>2. ASSUME NEW v \in Writers PROVE WriteAddressed(write[v])'
  BY <1>2 DEF WriteInv, WriteAddressed
<1> QED BY <1>1, <1>2 DEF WriteInv

(* Over ends a write. *)
LEMMA OverKeeps ==
  ASSUME WriteInv, NEW w \in Writers, NEW pc \in {"done", "failed"}, Over(w, pc)
  PROVE  WriteInv'
<1> DEFINE rec == [NoWrite EXCEPT !.pc = pc]
<1>1. rec \in WriteRecord
  BY NoWriteTyped DEF WriteRecord, WritePC
<1>2. rec.pc = pc
  BY DEF NoWrite
<1>3. WriteAddressed(rec)
  BY <1>2 DEF WriteAddressed
<1> QED BY <1>1, <1>3, WriteReplaced DEF Over

(* Committed ends it too, or turns it to the hash of its event. *)
LEMMA CommittedKeeps ==
  ASSUME WriteInv, NEW w \in Writers, NEW pc \in {"drop", "select"}, NEW e \in Events,
         Committed(w, pc, e)
  PROVE  WriteInv'
<1>1. CASE Readers = {}
  BY <1>1, OverKeeps DEF Committed
<1>2. CASE Readers # {}
  <2> DEFINE rec == [NoWrite EXCEPT !.pc = pc, !.method = write[w].method, !.event = e]
  <2>1. write[w].method \in Method
    BY DEF WriteInv, WriteRecord
  <2>2. rec \in WriteRecord
    BY <2>1, NoWriteTyped DEF WriteRecord, WritePC
  <2>3. rec.event = e
    BY DEF NoWrite
  <2>4. WriteAddressed(rec)
    BY <2>3 DEF WriteAddressed
  <2>5. write' = [write EXCEPT ![w] = rec]
    BY <1>2 DEF Committed
  <2> QED BY <2>2, <2>4, <2>5, WriteReplaced
<1> QED BY <1>1, <1>2

(* Overtake only notes that a request overlapped with a write. *)
LEMMA OvertakeKeeps ==
  ASSUME ReadInv, NEW e \in Events, Overtake(e)
  PROVE  ReadInv'
<1>1. ASSUME NEW r \in Readers
      PROVE  read'[r] \in ReadRecord /\ (read'[r].pc # "idle" => read'[r].event \in Events)
  BY <1>1 DEF ReadInv, ReadRecord, Overtake
<1> QED BY <1>1 DEF ReadInv, Overtake

(* A request whose record stays well formed keeps the invariant of requests. *)
LEMMA ReadReplaced ==
  ASSUME ReadInv, NEW r \in Readers, NEW rec \in ReadRecord,
         rec.pc # "idle" => rec.event \in Events,
         read' = [read EXCEPT ![r] = rec]
  PROVE  ReadInv'
BY DEF ReadInv

-----------------------------------------------------------------------------
(* The steps of a write. *)

(* A request arrives. *)
LEMMA SentKeeps ==
  ASSUME EventsInv, NEW w \in Writers, Sent(w)
  PROVE  EventsInv'
<1>1. PICK who \in Accounts, method \in Method, e \in Events \cup {None},
           total \in 0 .. MaxTotal :
        Arrive(w, method, e, total, who) /\ (method # "POST" => e \in Events)
  BY SizesAssumption DEF Sent, Method
<1> DEFINE rec == [pc |-> "arrived", method |-> method, event |-> e, total |-> total,
                   who |-> who, rows |-> {}]
<1>2. rec \in WriteRecord /\ WriteAddressed(rec)
  BY <1>1 DEF WriteRecord, WritePC, WriteAddressed
<1>3. write' = [write EXCEPT ![w] = rec]
  BY <1>1 DEF Arrive
<1>4. WriteInv'
  BY <1>2, <1>3, WriteReplaced DEF EventsInv
<1> QED BY <1>4 DEF EventsInv, EventInv, ReadInv, Sent

(* An event is created. *)
LEMMA CreateKeeps ==
  ASSUME EventsInv, NEW w \in Writers, Create(w)
  PROVE  EventsInv'
<1>1. PICK e \in Events :
        /\ event[e] = Absent
        /\ event' = [event EXCEPT ![e] = [@ EXCEPT !.live = TRUE, !.generation = 1,
                                                   !.total = write[w].total]]
        /\ Committed(w, "select", e)
        /\ Overtake(e)
  BY DEF Create
<1>2. write[w].total \in 0 .. MaxTotal
  BY DEF EventsInv, WriteInv, WriteRecord
<1>3. EventInv'
  <2>1. 1 \in 0 .. MaxGeneration
    BY SizesAssumption
  <2>2. event[e] \in EventRecord
    BY DEF EventsInv, EventInv
  <2>3. [event[e] EXCEPT !.live = TRUE, !.generation = 1, !.total = write[w].total] \in EventRecord
    BY <1>2, <2>1, <2>2 DEF EventRecord
  <2>4. event' \in [Events -> EventRecord]
    BY <1>1, <2>3 DEF EventsInv, EventInv
  <2>5. event'[e].generation = 1 /\ event'[e].live /\ ~event'[e].booked /\ ~event'[e].sold
    BY <1>1, <2>2 DEF EventsInv, EventInv, EventRecord, Absent
  <2>6. \A f \in Events \ {e} : event'[f] = event[f]
    BY <1>1 DEF EventsInv, EventInv
  <2> QED BY <2>4, <2>5, <2>6 DEF EventsInv, EventInv
<1>4. WriteInv'
  BY <1>1, CommittedKeeps DEF EventsInv
<1>5. ReadInv'
  BY <1>1, OvertakeKeeps DEF EventsInv
<1> QED BY <1>3, <1>4, <1>5 DEF EventsInv, Create

(* The seats of an event are replaced. *)
LEMMA UpdateKeeps ==
  ASSUME EventsInv, NEW w \in Writers, Update(w)
  PROVE  EventsInv'
<1> DEFINE e == write[w].event
<1>1. e \in Events /\ write[w].total \in 0 .. MaxTotal
  BY DEF EventsInv, WriteInv, WriteRecord, WriteAddressed, Update
<1>2. event[e] \in EventRecord /\ event[e].generation < MaxGeneration
  BY <1>1 DEF EventsInv, EventInv, Update
<1>3. event' = [event EXCEPT ![e] = [event[e] EXCEPT !.total = write[w].total,
                                                     !.generation = event[e].generation + 1]]
  BY <1>1 DEF Update, EventsInv, EventInv
<1>4. EventInv'
  <2>1. /\ event[e].generation + 1 \in 0 .. MaxGeneration
        /\ event[e].generation + 1 # 0
    BY <1>2, SizesAssumption DEF EventRecord
  <2>2. [event[e] EXCEPT !.total = write[w].total, !.generation = event[e].generation + 1]
          \in EventRecord
    BY <1>1, <1>2, <2>1 DEF EventRecord
  <2>3. event' \in [Events -> EventRecord]
    BY <1>3, <2>2 DEF EventsInv, EventInv
  <2>4. /\ event'[e].generation = event[e].generation + 1
        /\ event'[e].live /\ ~event'[e].booked /\ ~event'[e].sold
    BY <1>1, <1>2, <1>3 DEF EventsInv, EventInv, EventRecord, Update, Replaceable
  <2>5. \A f \in Events \ {e} : event'[f] = event[f]
    BY <1>3 DEF EventsInv, EventInv
  <2> QED BY <2>1, <2>3, <2>4, <2>5 DEF EventsInv, EventInv
<1>5. WriteInv'
  BY <1>1, CommittedKeeps DEF EventsInv, Update
<1>6. ReadInv'
  BY <1>1, OvertakeKeeps DEF EventsInv, Update
<1> QED BY <1>4, <1>5, <1>6 DEF EventsInv, Update

(* An event is deleted with its seats. *)
LEMMA DeleteKeeps ==
  ASSUME EventsInv, NEW w \in Writers, Delete(w)
  PROVE  EventsInv'
<1> DEFINE e == write[w].event
           gone == [Absent EXCEPT !.generation = event[e].generation]
<1>1. e \in Events
  BY DEF EventsInv, WriteInv, WriteAddressed, Delete
<1>2. event[e] \in EventRecord
  BY <1>1 DEF EventsInv, EventInv
<1>3. event' = [event EXCEPT ![e] = gone]
  BY DEF Delete
<1>4. EventInv'
  <2>1. gone \in EventRecord
    <3>1. Absent \in EventRecord
      BY SizesAssumption DEF EventRecord, Absent
    <3>2. event[e].generation \in 0 .. MaxGeneration
      BY <1>2 DEF EventRecord
    <3> QED BY <3>1, <3>2 DEF EventRecord
  <2>2. gone.live = FALSE /\ gone.booked = FALSE /\ gone.sold = FALSE
    BY DEF Absent
  <2>3. event' \in [Events -> EventRecord]
    BY <1>3, <2>1 DEF EventsInv, EventInv
  <2>4. \A f \in Events : event'[f] = IF f = e THEN gone ELSE event[f]
    BY <1>3 DEF EventsInv, EventInv
  <2>5. ASSUME NEW f \in Events
        PROVE  /\ event'[f].live => event'[f].generation # 0
               /\ event'[f].booked => event'[f].live /\ event'[f].total # 0
               /\ event'[f].sold => event'[f].booked
    BY <2>2, <2>4 DEF EventsInv, EventInv
  <2> QED BY <2>3, <2>5 DEF EventInv
<1>5. WriteInv'
  BY <1>1, CommittedKeeps DEF EventsInv, Delete
<1>6. ReadInv'
  BY <1>1, OvertakeKeeps DEF EventsInv, Delete
<1> QED BY <1>4, <1>5, <1>6 DEF EventsInv, Delete

(* A request is refused. *)
LEMMA RejectKeeps ==
  ASSUME EventsInv, NEW w \in Writers, Reject(w)
  PROVE  EventsInv'
<1>1. WriteInv'
  BY OverKeeps DEF EventsInv, Reject
<1> QED BY <1>1 DEF EventsInv, EventInv, ReadInv, Reject

(* A write goes through the hash. *)
LEMMA HashStepKeeps ==
  ASSUME EventsInv, NEW w \in Writers,
         DropHash(w) \/ SelectSeats(w) \/ FillHash(w) \/ CutShort(w)
  PROVE  EventsInv'
<1> DEFINE e == write[w].event
<1>1. e \in Events
  BY DEF EventsInv, WriteInv, WriteAddressed, DropHash, SelectSeats, FillHash, CutShort
<1>2. write[w] \in WriteRecord
  BY DEF EventsInv, WriteInv
<1>3. Rows(e) \subseteq Seat
  BY <1>1, RowsAreSeats DEF EventsInv
<1>4. CASE DropHash(w)
  <2>1. WriteInv'
    BY <1>1, <1>4, OverKeeps, CommittedKeeps DEF EventsInv, DropHash
  <2>2. ReadInv'
    BY <1>1, <1>4, OvertakeKeeps DEF EventsInv, DropHash
  <2> QED BY <1>4, <2>1, <2>2 DEF EventsInv, EventInv, DropHash
<1>5. CASE SelectSeats(w)
  <2> DEFINE rec == [write[w] EXCEPT !.pc = "fill", !.rows = Rows(e)]
  <2>1. rec \in WriteRecord
    BY <1>2, <1>3 DEF WriteRecord, WritePC
  <2>2. rec.event = e
    BY <1>2 DEF WriteRecord
  <2>3. WriteAddressed(rec)
    BY <1>1, <2>2 DEF WriteAddressed
  <2>4. write' = [write EXCEPT ![w] = rec]
    BY <1>5 DEF SelectSeats, EventsInv, WriteInv
  <2>5. WriteInv'
    BY <2>1, <2>3, <2>4, WriteReplaced DEF EventsInv
  <2> QED BY <1>5, <2>5 DEF EventsInv, EventInv, ReadInv, SelectSeats
<1>6. CASE FillHash(w)
  <2>1. WriteInv'
    BY <1>6, OverKeeps DEF EventsInv, FillHash
  <2>2. hash' \in [Events -> SUBSET Seat]
    BY <1>2, <1>6 DEF EventsInv, FillHash, WriteRecord
  <2> QED BY <1>6, <2>1, <2>2 DEF EventsInv, EventInv, ReadInv, FillHash
<1>7. CASE CutShort(w)
  <2>1. WriteInv'
    BY <1>7, OverKeeps DEF EventsInv, CutShort
  <2> QED BY <1>1, <1>7, <2>1 DEF EventsInv, EventInv, ReadInv, CutShort
<1> QED BY <1>4, <1>5, <1>6, <1>7

(* An answer leaves. *)
LEMMA AnsweredKeeps ==
  ASSUME EventsInv, NEW w \in Writers, AnsweredAnybody(w)
  PROVE  EventsInv'
<1>1. WriteAddressed(NoWrite)
  BY DEF WriteAddressed, NoWrite
<1>2. WriteInv'
  BY <1>1, NoWriteTyped, WriteReplaced DEF EventsInv, AnsweredAnybody, Answered
<1> QED BY <1>2 DEF EventsInv, EventInv, ReadInv, AnsweredAnybody

-----------------------------------------------------------------------------
(* The steps of a request for a seat map, and those of customers. *)

(* A request is received. *)
LEMMA MapStartKeeps ==
  ASSUME EventsInv, NEW r \in Readers, NEW e \in Events, MapStart(r, e)
  PROVE  EventsInv'
<1> DEFINE clean == \A w \in Writers : write[w].event = e => Still(w)
           rec == [pc |-> "hgetall", event |-> e, total |-> event[e].total, seats |-> {},
                   clean |-> clean]
<1>1. event[e].total \in 0 .. MaxTotal
  BY DEF EventsInv, EventInv, EventRecord
<1>2. clean \in BOOLEAN
  OBVIOUS
<1>3. rec \in ReadRecord
  <2> HIDE DEF clean
  <2> QED BY <1>1, <1>2 DEF ReadRecord, ReadPC
<1>4. read' = [read EXCEPT ![r] = rec]
  BY DEF MapStart
<1>5. rec.event = e
  OBVIOUS
<1>6. ReadInv'
  <2> HIDE DEF rec
  <2> QED BY <1>3, <1>4, <1>5, ReadReplaced DEF EventsInv
<1> QED BY <1>6 DEF EventsInv, EventInv, WriteInv, WriteAddressed, MapStart

(* A request is answered from the hash, or from the rows if it has drifted. *)
LEMMA MapStepKeeps ==
  ASSUME EventsInv, NEW r \in Readers, MapStep(r)
  PROVE  EventsInv'
<1> DEFINE e == read[r].event
<1>1. read[r] \in ReadRecord
  BY DEF EventsInv, ReadInv
<1>2. read[r].pc # "idle" => e \in Events
  BY DEF EventsInv, ReadInv
<1>3. CASE HGetAll(r)
  <2> DEFINE rec == [read[r] EXCEPT !.pc = IF Drifted(r) THEN "select" ELSE "locks",
                                    !.seats = hash[e]]
  <2>1. e \in Events /\ hash[e] \subseteq Seat
    BY <1>2, <1>3 DEF HGetAll, EventsInv
  <2>2. rec \in ReadRecord /\ rec.event = e
    BY <1>1, <2>1 DEF ReadRecord, ReadPC
  <2>3. read' = [read EXCEPT ![r] = rec]
    BY <1>3 DEF HGetAll, EventsInv, ReadInv
  <2>4. ReadInv'
    BY <2>1, <2>2, <2>3, ReadReplaced DEF EventsInv
  <2> QED BY <1>3, <2>4 DEF EventsInv, EventInv, WriteInv, WriteAddressed, HGetAll
<1>4. CASE MapSelect(r)
  <2> DEFINE rows == Rows(e)
             rec == [read[r] EXCEPT !.pc = IF rows = {} THEN "locks" ELSE "fill",
                                    !.seats = IF rows = {} THEN read[r].seats ELSE rows]
  <2>1. e \in Events
    BY <1>2, <1>4 DEF MapSelect
  <2>2. rows \subseteq Seat
    BY <2>1, RowsAreSeats DEF EventsInv
  <2>3. rec \in ReadRecord /\ rec.event = e
    BY <1>1, <2>2 DEF ReadRecord, ReadPC
  <2>4. read' = [read EXCEPT ![r] = rec]
    BY <1>4 DEF MapSelect, EventsInv, ReadInv
  <2>5. ReadInv'
    BY <2>1, <2>3, <2>4, ReadReplaced DEF EventsInv
  <2> QED BY <1>4, <2>5 DEF EventsInv, EventInv, WriteInv, WriteAddressed, MapSelect
<1>5. CASE MapFill(r) \/ Heal(r)
  <2>1. e \in Events
    BY <1>2, <1>5 DEF MapFill, Heal
  <2>2. PICK pc \in {"locks", "served"} : read' = [read EXCEPT ![r].pc = pc]
    BY <1>5 DEF MapFill, Heal
  <2> DEFINE rec == [read[r] EXCEPT !.pc = pc]
  <2>3. rec \in ReadRecord /\ rec.event = e
    BY <1>1 DEF ReadRecord, ReadPC
  <2>4. read' = [read EXCEPT ![r] = rec]
    BY <2>2 DEF EventsInv, ReadInv
  <2>5. ReadInv'
    BY <2>1, <2>3, <2>4, ReadReplaced DEF EventsInv
  <2>6. read[r].seats \subseteq Seat
    BY <1>1 DEF ReadRecord
  <2>7. PICK put \in SUBSET read[r].seats : hash' = [hash EXCEPT ![e] = @ \cup put]
    BY <1>5 DEF MapFill, Heal
  <2>8. hash' \in [Events -> SUBSET Seat]
    BY <2>6, <2>7 DEF EventsInv
  <2> QED BY <1>5, <2>5, <2>8 DEF EventsInv, EventInv, WriteInv, WriteAddressed, MapFill, Heal
<1>6. CASE MapAnswered(r)
  <2>1. NoRead \in ReadRecord /\ NoRead.pc = "idle"
    BY SizesAssumption DEF NoRead, ReadRecord, ReadPC
  <2>2. ReadInv'
    BY <1>6, <2>1, ReadReplaced DEF MapAnswered, EventsInv
  <2> QED BY <1>6, <2>2 DEF EventsInv, EventInv, WriteInv, WriteAddressed, MapAnswered
<1> QED BY <1>3, <1>4, <1>5, <1>6 DEF MapStep

(* A seat is ordered, sold or put back on sale. *)
LEMMA CustomersKeep ==
  ASSUME EventsInv, NEW e \in Events, Order(e) \/ Settle(e)
  PROVE  EventsInv'
<1>1. event[e] \in EventRecord /\ event[e].sold \in BOOLEAN
  BY DEF EventsInv, EventInv, EventRecord
<1>2. PICK booked \in BOOLEAN, sold \in BOOLEAN :
        /\ booked
        /\ event' = [event EXCEPT ![e] = [event[e] EXCEPT !.booked = booked, !.sold = sold]]
  <2>1. CASE Order(e)
    <3>1. event' = [event EXCEPT ![e] = [event[e] EXCEPT !.booked = TRUE, !.sold = event[e].sold]]
      BY <1>1, <2>1 DEF Order, EventsInv, EventInv, EventRecord
    <3> QED BY <1>1, <3>1
  <2>2. CASE Settle(e)
    <3>1. event' = [event EXCEPT ![e] = [event[e] EXCEPT !.booked = event[e].booked,
                                                         !.sold = ~event[e].sold]]
      BY <1>1, <2>2 DEF Settle, EventsInv, EventInv, EventRecord
    <3>2. event[e].booked \in BOOLEAN /\ event[e].booked
      BY <1>1, <2>2 DEF EventRecord, Settle
    <3>3. (~event[e].sold) \in BOOLEAN
      OBVIOUS
    <3> QED BY <3>1, <3>2, <3>3
  <2> QED BY <2>1, <2>2
<1> DEFINE rec == [event[e] EXCEPT !.booked = booked, !.sold = sold]
<1>3. /\ rec \in EventRecord /\ rec.booked
      /\ rec.live = event[e].live /\ rec.generation = event[e].generation
      /\ rec.total = event[e].total
  BY <1>1, <1>2 DEF EventRecord
<1>4. event[e].live /\ event[e].total # 0
  BY <1>1 DEF EventRecord, Order, Settle, EventsInv, EventInv
<1>5. EventInv'
  <2> HIDE DEF rec
  <2>1. event' = [event EXCEPT ![e] = rec]
    BY <1>2 DEF rec
  <2> QED BY <1>3, <1>4, <2>1 DEF EventsInv, EventInv
<1> QED BY <1>5 DEF EventsInv, WriteInv, WriteAddressed, ReadInv, Order, Settle

-----------------------------------------------------------------------------
(* The invariant is inductive. *)
LEMMA EventsInvInductive == EventsInv /\ [EventsNext]_eventVars => EventsInv'
<1> SUFFICES ASSUME EventsInv, [EventsNext]_eventVars PROVE EventsInv'
  OBVIOUS
<1>1. ASSUME NEW w \in Writers, Sent(w) \/ WriteStep(w) \/ AnsweredAnybody(w)
      PROVE  EventsInv'
  BY <1>1, SentKeeps, CreateKeeps, UpdateKeeps, DeleteKeeps, RejectKeeps, HashStepKeeps,
     AnsweredKeeps DEF WriteStep
<1>2. ASSUME NEW r \in Readers, MapStep(r) \/ \E e \in Events : MapStart(r, e)
      PROVE  EventsInv'
  BY <1>2, MapStartKeeps, MapStepKeeps
<1>3. ASSUME NEW e \in Events, Order(e) \/ Settle(e)
      PROVE  EventsInv'
  BY <1>3, CustomersKeep
<1>4. CASE UNCHANGED eventVars
  BY <1>4 DEF EventsInv, EventInv, WriteInv, WriteAddressed, ReadInv, eventVars
<1> QED BY <1>1, <1>2, <1>3, <1>4 DEF EventsNext

(* It holds of what the seed leaves behind. *)
LEMMA EventsInvInitially == EventsInit => EventsInv
<1> SUFFICES ASSUME EventsInit PROVE EventsInv
  OBVIOUS
<1> DEFINE seeded == [Absent EXCEPT !.live = TRUE, !.generation = 1, !.total = 1]
<1>1. /\ Absent \in EventRecord
      /\ Absent.live = FALSE /\ Absent.booked = FALSE /\ Absent.sold = FALSE
  BY SizesAssumption DEF Absent, EventRecord
<1>2. seeded \in EventRecord
  <2>1. 1 \in 0 .. MaxGeneration /\ 1 \in 0 .. MaxTotal
    BY SizesAssumption
  <2> QED BY <1>1, <2>1 DEF EventRecord
<1>3. seeded.live /\ seeded.generation = 1 /\ ~seeded.booked /\ ~seeded.sold
  BY DEF Absent
<1>4. EventInv
  <2> HIDE DEF seeded
  <2>1. event \in [Events -> {Absent, seeded}]
    BY DEF EventsInit, seeded
  <2> QED BY <1>1, <1>2, <1>3, <2>1 DEF EventInv
<1>5. hash \in [Events -> SUBSET Seat]
  BY <1>4, RowsAreSeats DEF EventsInit
<1>6. WriteInv
  BY NoWriteTyped DEF EventsInit, WriteInv, WriteAddressed, NoWrite
<1>7. NoRead \in ReadRecord /\ NoRead.pc = "idle"
  BY SizesAssumption DEF NoRead, ReadRecord, ReadPC
<1>8. ReadInv
  BY <1>7 DEF EventsInit, ReadInv
<1> QED BY <1>4, <1>5, <1>6, <1>8 DEF EventsInv, EventsInit

(* Every reachable state satisfies the inductive invariant. *)
LEMMA EventsInvariant == EventsSpec => []EventsInv
BY EventsInvInitially, EventsInvInductive, PTL DEF EventsSpec

(* The administration and the seat map keep the types of their state, and   *)
(* no write or request handles an event it has not got.                     *)
THEOREM EventsTypeCorrect == EventsSpec => []EventsTypeOK
BY EventsInvariant, EventsInvTypes, PTL

(* What no step of the administration does to a seat that was ordered. *)
LEMMA OrderedSeatKept ==
  ASSUME EventsInv, EventsNext, NEW e \in Events, event[e].booked
  PROVE  event'[e].live /\ event'[e].generation = event[e].generation
<1>1. event[e] \in EventRecord /\ event \in [Events -> EventRecord] /\ event[e].live
  BY DEF EventsInv, EventInv
<1>2. ASSUME NEW w \in Writers, Create(w)
      PROVE  /\ event'[e].live = event[e].live
             /\ event'[e].generation = event[e].generation
  <2>1. PICK f \in Events :
          /\ event[f] = Absent
          /\ event' = [event EXCEPT ![f] = [@ EXCEPT !.live = TRUE, !.generation = 1,
                                                     !.total = write[w].total]]
    BY <1>2 DEF Create
  <2>2. f # e
    BY <2>1 DEF Absent
  <2>3. event'[e] = event[e]
    BY <1>1, <2>1, <2>2
  <2> QED BY <2>3
<1>3. ASSUME NEW w \in Writers, Update(w) \/ Delete(w)
      PROVE  /\ event'[e].live = event[e].live
             /\ event'[e].generation = event[e].generation
  <2>1. write[w].event # e
    BY <1>3 DEF Update, Delete, Replaceable
  <2> DEFINE f == write[w].event
  <2>2. f \in Events
    BY <1>3 DEF EventsInv, WriteInv, WriteAddressed, Update, Delete
  <2>3. event'[e] = event[e]
    BY <1>1, <1>3, <2>1, <2>2 DEF Update, Delete
  <2> QED BY <2>3
<1>4. ASSUME NEW f \in Events, Order(f) \/ Settle(f)
      PROVE  /\ event'[e].live = event[e].live
             /\ event'[e].generation = event[e].generation
  <2>1. PICK booked, sold :
          event' = [event EXCEPT ![f] = [event[f] EXCEPT !.booked = booked, !.sold = sold]]
    <3>1. CASE Order(f)
      <4>1. event' = [event EXCEPT ![f] = [event[f] EXCEPT !.booked = TRUE, !.sold = event[f].sold]]
        BY <1>1, <3>1 DEF Order, EventRecord
      <4> QED BY <4>1
    <3>2. CASE Settle(f)
      <4>1. event' = [event EXCEPT ![f] = [event[f] EXCEPT !.booked = event[f].booked,
                                                           !.sold = ~event[f].sold]]
        BY <1>1, <3>2 DEF Settle, EventRecord
      <4> QED BY <4>1
    <3> QED BY <1>4, <3>1, <3>2
  <2>2. event'[e] = IF e = f THEN [event[f] EXCEPT !.booked = booked, !.sold = sold] ELSE event[e]
    BY <1>1, <2>1
  <2> QED BY <1>1, <2>2 DEF EventRecord
<1>5. CASE UNCHANGED event
  BY <1>1, <1>5
<1>6. \/ \E w \in Writers : Create(w) \/ Update(w) \/ Delete(w)
      \/ \E f \in Events : Order(f) \/ Settle(f)
      \/ UNCHANGED event
  BY DEF EventsNext, WriteStep, MapStep, Sent, AnsweredAnybody, Reject, DropHash, SelectSeats,
         FillHash, CutShort, MapStart, HGetAll, MapSelect, MapFill, Heal, MapAnswered
<1>7. /\ event'[e].live = event[e].live
      /\ event'[e].generation = event[e].generation
  BY <1>2, <1>3, <1>4, <1>5, <1>6
<1> QED BY <1>1, <1>7

(* No administrator replaces or deletes a seat that was ever ordered, even  *)
(* when orders, payments and cancellations interleave with any number of    *)
(* edits of any events.                                                     *)
THEOREM OrderedSeatsAreKept == EventsSpec => OrderedSeatsStay
<1>1. ASSUME EventsInv, [EventsNext]_eventVars
      PROVE  [\A e \in Events : event[e].booked => event'[e].live
                /\ event'[e].generation = event[e].generation]_event
  BY <1>1, OrderedSeatKept DEF eventVars
<1> QED BY <1>1, EventsInvariant, PTL DEF EventsSpec, OrderedSeatsStay
=============================================================================
