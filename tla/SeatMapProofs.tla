--------------------------- MODULE SeatMapProofs ---------------------------
(***************************************************************************)
(* A theorem about EventsApi, for any accounts, events, writers and readers *)
(* and any bounds: what the seat map serves while events are being edited.  *)
(***************************************************************************)
EXTENDS EventsProofs, FiniteSetTheorems

(* A write that is going to fill the hash with the seats there are. *)
Refilling(w, e) ==
  /\ write[w].event = e
  /\ \/ write[w].pc = "drop" /\ write[w].method = "PUT"
     \/ write[w].pc = "select"
     \/ write[w].pc = "fill" /\ write[w].rows = Rows(e)

(* The hash of an event has all its seats, or is about to have them. *)
Complete(e) ==
  event[e].live /\ e \notin cut
    => Rows(e) \subseteq hash[e] \/ \E w \in Writers : Refilling(w, e)

(* Who drops a hash without filling it again has deleted the event for ever. *)
GoneForEver(w) ==
  write[w].pc = "drop" /\ write[w].method # "PUT"
    => ~event[write[w].event].live /\ event[write[w].event].generation # 0

(* A request that no write of its event has overlapped knows the event, and *)
(* has its seats from when it has read them.                                *)
Current(r) ==
  LET e == read[r].event IN
  /\ event[e].live
  /\ read[r].total = event[e].total
  /\ \A w \in Writers : write[w].event = e => Still(w)
  /\ read[r].pc \in {"fill", "locks", "served"} /\ e \notin cut /\ event[e].total > 0
       => read[r].seats = Rows(e)

Clean(r) == read[r].pc # "idle" /\ read[r].clean

(* What the seat map serves is not inductive: it depends on who drops and   *)
(* fills the hash meanwhile.                                                *)
SeatMapInv ==
  /\ \A e \in Events : Complete(e)
  /\ \A w \in Writers : GoneForEver(w)
  /\ \A r \in Readers : Clean(r) => Current(r)

(* The inductive invariant says what is served. *)
LEMMA SeatMapInvServes == SeatMapInv => MapServedIsCurrent
BY DEF SeatMapInv, Clean, Current, MapServedIsCurrent

-----------------------------------------------------------------------------
(* Sizes: a hash that has every seat, and as many as there are seats, has   *)
(* these and no others.                                                     *)

(* An event has as many seats as it says. *)
LEMMA RowsCounted ==
  ASSUME EventInv, NEW e \in Events, event[e].live
  PROVE  IsFiniteSet(Rows(e)) /\ Cardinality(Rows(e)) = event[e].total
<1> DEFINE n == event[e].total
           g == event[e].generation
<1>1. n \in Nat
  BY SizesAssumption DEF EventInv, EventRecord
<1>2. Rows(e) = {g} \X (1 .. n)
  BY DEF Rows, Numbers
<1>3. IsFiniteSet({g}) /\ Cardinality({g}) = 1
  BY FS_Singleton
<1>4. IsFiniteSet(1 .. n) /\ Cardinality(1 .. n) = n
  <2> HIDE DEF n
  <2> QED BY <1>1, FS_Interval
<1>5. IsFiniteSet(Rows(e)) /\ Cardinality(Rows(e)) = Cardinality({g}) * Cardinality(1 .. n)
  <2> DEFINE S == {g}
             T == 1 .. n
  <2>1. IsFiniteSet(S) /\ IsFiniteSet(T)
    BY <1>3, <1>4
  <2>2. IsFiniteSet(S \X T) /\ Cardinality(S \X T) = Cardinality(S) * Cardinality(T)
    <3> HIDE DEF S, T
    <3> QED BY <2>1, FS_Product
  <2> QED BY <1>2, <2>2
<1>6. 1 * n = n
  <2> HIDE DEF n
  <2> QED BY <1>1
<1> QED BY <1>3, <1>4, <1>5, <1>6

(* The seats within the bounds are finitely many. *)
LEMMA SeatsFinite == IsFiniteSet(Seat)
<1>1. IsFiniteSet(1 .. MaxGeneration) /\ IsFiniteSet(1 .. MaxTotal)
  BY SizesAssumption, FS_Interval
<1> QED BY <1>1, FS_Product DEF Seat

(* What does not have to be reloaded is what there is. *)
LEMMA CountedIsExact ==
  ASSUME EventsInv, NEW e \in Events, event[e].live, Rows(e) \subseteq hash[e],
         Cardinality(hash[e]) = event[e].total
  PROVE  hash[e] = Rows(e)
<1>1. IsFiniteSet(hash[e])
  BY SeatsFinite, FS_Subset DEF EventsInv
<1>2. Cardinality(Rows(e)) = Cardinality(hash[e])
  BY RowsCounted DEF EventsInv
<1> QED BY <1>1, <1>2, FS_Subset

(* An event with a seat has a row. *)
LEMMA SomeRow ==
  ASSUME EventInv, NEW e \in Events, event[e].live, event[e].total > 0
  PROVE  Rows(e) # {}
<1>1. event[e].total \in Nat
  BY SizesAssumption DEF EventInv, EventRecord
<1>2. 1 \in 1 .. event[e].total
  BY <1>1
<1>3. <<event[e].generation, 1>> \in {event[e].generation} \X (1 .. event[e].total)
  BY <1>2
<1> QED BY <1>3 DEF Rows, Numbers

-----------------------------------------------------------------------------
(* What a step leaves as it was. *)

(* A write that works on one event disturbs no request for another. *)
LEMMA OthersUndisturbed ==
  ASSUME EventsInv, SeatMapInv, NEW w \in Writers, NEW x,
         \A r \in Readers : Clean(r)' => read'[r] = read[r] /\ read[r].event # x,
         \A e \in Events \ {x} : event'[e] = event[e] /\ (e \in cut' <=> e \in cut),
         \A v \in Writers \ {w} : write'[v] = write[v],
         write'[w].event \in {x, None}
  PROVE  \A r \in Readers : Clean(r)' => Current(r)'
<1> SUFFICES ASSUME NEW r \in Readers, Clean(r)' PROVE Current(r)'
  OBVIOUS
<1> DEFINE e == read[r].event
<1>1. read'[r] = read[r] /\ e # x
  OBVIOUS
<1>2. Clean(r) /\ e \in Events
  BY <1>1 DEF Clean, EventsInv, ReadInv
<1>3. Current(r)
  BY <1>2 DEF SeatMapInv
<1>4. event'[e] = event[e] /\ (e \in cut' <=> e \in cut)
  BY <1>1, <1>2
<1>5. Rows(e)' = Rows(e)
  BY <1>1, <1>4 DEF Rows
<1>6. ASSUME NEW v \in Writers, write'[v].event = e PROVE Still(v)'
  <2>1. v # w
    BY <1>1, <1>2, <1>6, EventsNoneAssumption
  <2> QED BY <1>3, <1>6, <2>1 DEF Current, Still
<1> QED BY <1>1, <1>3, <1>4, <1>5, <1>6 DEF Current

(* Nor does it leave the hash of another incomplete. *)
LEMMA OthersComplete ==
  ASSUME SeatMapInv, NEW w \in Writers, NEW x,
         \A e \in Events \ {x} : /\ event'[e] = event[e] /\ hash[e] \subseteq hash'[e]
                                 /\ e \in cut => e \in cut'
                                 /\ ~Refilling(w, e),
         \A v \in Writers \ {w} : write'[v] = write[v]
  PROVE  \A e \in Events \ {x} : Complete(e)'
<1> SUFFICES ASSUME NEW e \in Events \ {x} PROVE Complete(e)'
  OBVIOUS
<1>1. Complete(e)
  BY DEF SeatMapInv
<1>2. Rows(e)' = Rows(e)
  BY DEF Rows
<1>3. ASSUME NEW v \in Writers, Refilling(v, e) PROVE Refilling(v, e)'
  <2>1. v # w
    BY <1>3
  <2> QED BY <1>2, <1>3, <2>1 DEF Refilling
<1> QED BY <1>1, <1>2, <1>3 DEF Complete

(* A step on a write that changes no event and no hash, and starts nothing. *)
LEMMA StillStep ==
  ASSUME EventsInv, SeatMapInv, NEW w \in Writers, Still(w), Still(w)',
         UNCHANGED <<event, hash, read, cut>>,
         \A v \in Writers \ {w} : write'[v] = write[v]
  PROVE  SeatMapInv'
<1>1. \A e \in Events : Rows(e)' = Rows(e)
  BY DEF Rows
<1>2. ASSUME NEW e \in Events PROVE Complete(e)'
  <2>1. Complete(e)
    BY DEF SeatMapInv
  <2>2. ASSUME NEW v \in Writers, Refilling(v, e) PROVE Refilling(v, e)'
    <3>1. v # w
      BY <2>2 DEF Refilling, Still
    <3> QED BY <1>1, <2>2, <3>1 DEF Refilling
  <2> QED BY <1>1, <2>1, <2>2 DEF Complete
<1>3. ASSUME NEW v \in Writers PROVE GoneForEver(v)'
  BY DEF SeatMapInv, GoneForEver, Still
<1>4. ASSUME NEW r \in Readers, Clean(r)' PROVE Current(r)'
  <2>1. Clean(r) /\ read[r].event \in Events
    BY <1>4 DEF Clean, EventsInv, ReadInv
  <2>2. Current(r)
    BY <2>1 DEF SeatMapInv
  <2>3. \A v \in Writers : write'[v].event = read[r].event => Still(v)'
    BY <2>2 DEF Current, Still
  <2>4. Rows(read[r].event)' = Rows(read[r].event)
    BY <1>1, <2>1 DEF Rows
  <2> QED BY <2>2, <2>3, <2>4 DEF Current
<1> QED BY <1>2, <1>3, <1>4 DEF SeatMapInv

-----------------------------------------------------------------------------
(* The steps of a write. *)

(* What a committed write goes on with, if somebody reads the hash. *)
LEMMA CommittedWrite ==
  ASSUME EventsInv, Readers # {}, NEW w \in Writers, NEW pc \in {"drop", "select"},
         NEW e \in Events, Committed(w, pc, e)
  PROVE  /\ \A v \in Writers \ {w} : write'[v] = write[v]
         /\ write'[w].pc = pc /\ write'[w].method = write[w].method /\ write'[w].event = e
BY DEF EventsInv, WriteInv, Committed, NoWrite

(* What is left of a write that is over. *)
LEMMA OverWrite ==
  ASSUME EventsInv, NEW w \in Writers, NEW pc \in {"done", "failed"}, Over(w, pc)
  PROVE  /\ \A v \in Writers \ {w} : write'[v] = write[v]
         /\ write'[w].pc = pc /\ write'[w].event = None
BY DEF EventsInv, WriteInv, Over, NoWrite

(* After Overtake the clean requests are about other events. *)
LEMMA OvertakenReads ==
  ASSUME EventsInv, NEW e \in Events, Overtake(e)
  PROVE  \A r \in Readers : Clean(r)' => read'[r] = read[r] /\ read[r].event # e
<1> SUFFICES ASSUME NEW r \in Readers, Clean(r)' PROVE read'[r] = read[r] /\ read[r].event # e
  OBVIOUS
<1>1. read[r] \in ReadRecord
  BY DEF EventsInv, ReadInv
<1>2. CASE read[r].event = e
  <2>1. read'[r] = [read[r] EXCEPT !.clean = FALSE]
    BY <1>2 DEF Overtake
  <2>2. read'[r].clean = FALSE
    BY <1>1, <2>1 DEF ReadRecord
  <2> QED BY <2>2 DEF Clean
<1>3. CASE read[r].event # e
  BY <1>3 DEF Overtake
<1> QED BY <1>2, <1>3

(* An event is created. *)
LEMMA CreateServes ==
  ASSUME EventsInv, SeatMapInv, Readers # {}, NEW w \in Writers, Create(w)
  PROVE  SeatMapInv'
<1>1. PICK e \in Events :
        /\ event[e] = Absent
        /\ event' = [event EXCEPT ![e] = [@ EXCEPT !.live = TRUE, !.generation = 1,
                                                   !.total = write[w].total]]
        /\ Committed(w, "select", e)
        /\ Overtake(e)
  BY DEF Create
<1>2. /\ \A v \in Writers \ {w} : write'[v] = write[v]
      /\ write'[w].pc = "select" /\ write'[w].event = e
  BY <1>1, CommittedWrite
<1>3. \A f \in Events \ {e} : event'[f] = event[f]
  BY <1>1 DEF EventsInv, EventInv
<1>4. UNCHANGED <<hash, cut>> /\ write[w].pc = "arrived"
  BY DEF Create
<1>5. Complete(e)'
  BY <1>2 DEF Complete, Refilling
<1>6. \A f \in Events : Complete(f)'
  <2>1. \A f \in Events : ~Refilling(w, f)
    BY <1>4 DEF Refilling
  <2>2. \A f \in Events \ {e} : Complete(f)'
    BY <1>2, <1>3, <1>4, <2>1, OthersComplete
  <2> QED BY <1>5, <2>2
<1>7. ASSUME NEW v \in Writers PROVE GoneForEver(v)'
  <2>1. CASE v = w
    BY <1>2, <2>1 DEF GoneForEver
  <2>2. CASE v # w /\ write[v].pc = "drop" /\ write[v].method # "PUT"
    <3>1. write[v].event \in Events /\ event[write[v].event].generation # 0
      BY <2>2 DEF SeatMapInv, GoneForEver, EventsInv, WriteInv, WriteAddressed
    <3>2. write[v].event # e
      BY <1>1, <3>1 DEF Absent
    <3> QED BY <1>2, <1>3, <2>2, <3>1, <3>2 DEF SeatMapInv, GoneForEver
  <2>3. CASE v # w /\ ~(write[v].pc = "drop" /\ write[v].method # "PUT")
    BY <1>2, <2>3 DEF GoneForEver
  <2> QED BY <2>1, <2>2, <2>3
<1>8. \A r \in Readers : Clean(r)' => Current(r)'
  BY <1>1, <1>2, <1>3, <1>4, OvertakenReads, OthersUndisturbed
<1> QED BY <1>6, <1>7, <1>8 DEF SeatMapInv

(* The seats of an event are replaced, or deleted with it. *)
LEMMA ReplaceServes ==
  ASSUME EventsInv, SeatMapInv, Readers # {}, NEW w \in Writers, Update(w) \/ Delete(w)
  PROVE  SeatMapInv'
<1>1. PICK e \in Events : e = write[w].event
  BY DEF EventsInv, WriteInv, WriteAddressed, Update, Delete
<1>2. /\ Committed(w, "drop", e) /\ Overtake(e) /\ UNCHANGED <<hash, cut>>
      /\ write[w].pc = "arrived" /\ event[e].live
  BY <1>1 DEF Update, Delete, Replaceable
<1>3. /\ \A v \in Writers \ {w} : write'[v] = write[v]
      /\ write'[w].pc = "drop" /\ write'[w].method = write[w].method /\ write'[w].event = e
  BY <1>1, <1>2, CommittedWrite
<1>4. \A f \in Events \ {e} : event'[f] = event[f]
  BY <1>1 DEF EventsInv, EventInv, Update, Delete
<1>5. Delete(w) => ~event'[e].live /\ event'[e].generation # 0
  <2> SUFFICES ASSUME Delete(w) PROVE ~event'[e].live /\ event'[e].generation # 0
    OBVIOUS
  <2>1. event'[e] = [Absent EXCEPT !.generation = event[e].generation]
    BY <1>1 DEF EventsInv, EventInv, Delete
  <2>2. event[e].generation # 0
    BY <1>1, <1>2 DEF EventsInv, EventInv
  <2> QED BY <2>1, <2>2 DEF Absent
<1>6. Update(w) => write'[w].method = "PUT"
  BY <1>3 DEF Update
<1>7. Complete(e)'
  BY <1>3, <1>5, <1>6 DEF Complete, Refilling
<1>8. \A f \in Events : Complete(f)'
  <2>1. \A f \in Events : ~Refilling(w, f)
    BY <1>2 DEF Refilling
  <2>2. \A f \in Events \ {e} : Complete(f)'
    BY <1>2, <1>3, <1>4, <2>1, OthersComplete
  <2> QED BY <1>7, <2>2
<1>9. ASSUME NEW v \in Writers PROVE GoneForEver(v)'
  <2>1. CASE v = w
    BY <1>3, <1>5, <1>6, <2>1 DEF GoneForEver
  <2>2. CASE v # w /\ write[v].pc = "drop" /\ write[v].method # "PUT"
    <3>1. write[v].event \in Events /\ ~event[write[v].event].live
      BY <2>2 DEF SeatMapInv, GoneForEver, EventsInv, WriteInv, WriteAddressed
    <3>2. write[v].event # e
      BY <1>2, <3>1
    <3> QED BY <1>3, <1>4, <2>2, <3>1, <3>2 DEF SeatMapInv, GoneForEver
  <2>3. CASE v # w /\ ~(write[v].pc = "drop" /\ write[v].method # "PUT")
    BY <1>3, <2>3 DEF GoneForEver
  <2> QED BY <2>1, <2>2, <2>3
<1>10. \A r \in Readers : Clean(r)' => Current(r)'
  BY <1>1, <1>2, <1>3, <1>4, OvertakenReads, OthersUndisturbed
<1> QED BY <1>8, <1>9, <1>10 DEF SeatMapInv

(* The hash is dropped. *)
LEMMA DropServes ==
  ASSUME EventsInv, SeatMapInv, Readers # {}, NEW w \in Writers, DropHash(w)
  PROVE  SeatMapInv'
<1>1. PICK e \in Events : e = write[w].event
  BY DEF EventsInv, WriteInv, WriteAddressed, DropHash
<1>2. /\ write[w].pc = "drop" /\ hash' = [hash EXCEPT ![e] = {}] /\ Overtake(e)
      /\ UNCHANGED <<event, cut>>
  BY <1>1 DEF DropHash
<1>3. /\ \A v \in Writers \ {w} : write'[v] = write[v]
      /\ write'[w].pc # "drop" /\ write'[w].event \in {e, None}
      /\ write[w].method = "PUT" => write'[w].pc = "select" /\ write'[w].event = e
  BY <1>1, CommittedWrite, OverWrite DEF DropHash
<1>4. Complete(e)'
  <2>1. CASE write[w].method = "PUT"
    BY <1>3, <2>1 DEF Complete, Refilling
  <2>2. CASE write[w].method # "PUT"
    BY <1>1, <1>2, <2>2 DEF SeatMapInv, GoneForEver, Complete
  <2> QED BY <2>1, <2>2
<1>5. \A f \in Events : Complete(f)'
  <2>1. \A f \in Events \ {e} : hash'[f] = hash[f] /\ ~Refilling(w, f)
    BY <1>1, <1>2 DEF Refilling, EventsInv
  <2>2. \A f \in Events \ {e} : Complete(f)'
    BY <1>2, <1>3, <2>1, OthersComplete
  <2> QED BY <1>4, <2>2
<1>6. \A v \in Writers : GoneForEver(v)'
  BY <1>2, <1>3 DEF SeatMapInv, GoneForEver
<1>7. \A r \in Readers : Clean(r)' => Current(r)'
  BY <1>1, <1>2, <1>3, OvertakenReads, OthersUndisturbed
<1> QED BY <1>5, <1>6, <1>7 DEF SeatMapInv

(* The seats are read, the hash is filled, or neither is reached. *)
LEMMA FillServes ==
  ASSUME EventsInv, SeatMapInv, NEW w \in Writers,
         SelectSeats(w) \/ FillHash(w) \/ CutShort(w)
  PROVE  SeatMapInv'
<1>1. PICK e \in Events : e = write[w].event /\ write[w] \in WriteRecord
  BY DEF EventsInv, WriteInv, WriteAddressed, SelectSeats, FillHash, CutShort
<1>2. UNCHANGED <<event, read>> /\ ~Still(w)
  BY DEF SelectSeats, FillHash, CutShort, Still
<1>3. /\ \A v \in Writers \ {w} : write'[v] = write[v]
      /\ write'[w].pc # "drop" /\ write'[w].event \in {e, None}
  <2>1. CASE SelectSeats(w)
    <3>1. write' = [write EXCEPT ![w] = [write[w] EXCEPT !.pc = "fill", !.rows = Rows(e)]]
      BY <1>1, <2>1 DEF SelectSeats, EventsInv, WriteInv
    <3>2. write'[w] = [write[w] EXCEPT !.pc = "fill", !.rows = Rows(e)]
      BY <3>1 DEF EventsInv, WriteInv
    <3> QED BY <1>1, <3>1, <3>2 DEF WriteRecord, EventsInv, WriteInv
  <2>2. CASE FillHash(w) \/ CutShort(w)
    BY <2>2, OverWrite DEF FillHash, CutShort
  <2> QED BY <2>1, <2>2
<1>4. \A f \in Events \ {e} : hash'[f] = hash[f] /\ (f \in cut' <=> f \in cut)
  BY <1>1 DEF SelectSeats, FillHash, CutShort, EventsInv
<1>5. Rows(e)' = Rows(e)
  BY <1>2 DEF Rows
<1>6. Complete(e)'
  <2>1. CASE SelectSeats(w)
    <3>1. write'[w].event = e /\ write'[w].pc = "fill" /\ write'[w].rows = Rows(e)
      BY <1>1, <2>1 DEF SelectSeats, EventsInv, WriteInv, WriteRecord
    <3> QED BY <1>5, <3>1 DEF Complete, Refilling
  <2>2. CASE FillHash(w) /\ write[w].rows = Rows(e)
    <3>1. hash'[e] = hash[e] \cup Rows(e)
      BY <1>1, <2>2 DEF FillHash, EventsInv
    <3> QED BY <1>5, <3>1 DEF Complete
  <2>3. CASE FillHash(w) /\ write[w].rows # Rows(e)
    <3>1. ~Refilling(w, e) /\ cut' = cut /\ hash[e] \subseteq hash'[e]
      BY <1>1, <2>3 DEF FillHash, Refilling, EventsInv
    <3>2. ASSUME NEW v \in Writers, Refilling(v, e) PROVE Refilling(v, e)'
      <4>1. v # w
        BY <3>1, <3>2
      <4> QED BY <1>3, <1>5, <3>2, <4>1 DEF Refilling
    <3> QED BY <1>1, <1>2, <1>5, <3>1, <3>2 DEF Complete, SeatMapInv
  <2>4. CASE CutShort(w)
    BY <1>1, <2>4 DEF CutShort, Complete
  <2> QED BY <2>1, <2>2, <2>3, <2>4
<1>7. \A f \in Events : Complete(f)'
  <2>1. \A f \in Events \ {e} : ~Refilling(w, f)
    BY <1>1 DEF Refilling
  <2>2. \A f \in Events \ {e} : Complete(f)'
    BY <1>2, <1>3, <1>4, <2>1, OthersComplete
  <2> QED BY <1>6, <2>2
<1>8. \A v \in Writers : GoneForEver(v)'
  BY <1>2, <1>3 DEF SeatMapInv, GoneForEver
<1>9. \A r \in Readers : Clean(r)' => read'[r] = read[r] /\ read[r].event # e
  <2>1. \A r \in Readers : Clean(r)' => Current(r)
    BY <1>2 DEF SeatMapInv, Clean
  <2> QED BY <1>1, <1>2, <2>1 DEF Current
<1>10. \A r \in Readers : Clean(r)' => Current(r)'
  BY <1>2, <1>3, <1>4, <1>9, OthersUndisturbed
<1> QED BY <1>7, <1>8, <1>10 DEF SeatMapInv

-----------------------------------------------------------------------------
(* The steps of a request for a seat map, and those of customers. *)

(* A request that starts, or goes on, reads about its event what there is.  *)
LEMMA ReaderServes ==
  ASSUME EventsInv, SeatMapInv, NEW r \in Readers, UNCHANGED <<event, write, cut>>,
         \A q \in Readers \ {r} : read'[q] = read[q],
         \A e \in Events : hash[e] \subseteq hash'[e],
         Clean(r)' => Current(r)'
  PROVE  SeatMapInv'
<1>1. \A e \in Events : Rows(e)' = Rows(e)
  BY DEF Rows
<1>2. ASSUME NEW e \in Events PROVE Complete(e)'
  <2>1. \A w \in Writers : Refilling(w, e) => Refilling(w, e)'
    BY <1>1 DEF Refilling
  <2> QED BY <1>1, <2>1 DEF SeatMapInv, Complete
<1>3. \A w \in Writers : GoneForEver(w)'
  BY DEF SeatMapInv, GoneForEver
<1>4. ASSUME NEW q \in Readers \ {r}, Clean(q)' PROVE Current(q)'
  <2>1. Clean(q) /\ Current(q) /\ read[q].event \in Events
    BY <1>4 DEF SeatMapInv, Clean, EventsInv, ReadInv
  <2>2. Rows(read[q].event)' = Rows(read[q].event)
    BY <1>1, <1>4, <2>1 DEF Rows
  <2> QED BY <1>4, <2>1, <2>2 DEF Current, Still
<1> QED BY <1>2, <1>3, <1>4 DEF SeatMapInv

(* A request is received. *)
LEMMA MapStartServes ==
  ASSUME EventsInv, SeatMapInv, NEW r \in Readers, NEW e \in Events, MapStart(r, e)
  PROVE  SeatMapInv'
<1> DEFINE clean == \A w \in Writers : write[w].event = e => Still(w)
           rec == [pc |-> "hgetall", event |-> e, total |-> event[e].total, seats |-> {},
                   clean |-> clean]
<1>1. event[e].live /\ UNCHANGED <<event, hash, write, cut>> /\ read' = [read EXCEPT ![r] = rec]
  BY DEF MapStart
<1>2. read'[r] = rec /\ \A q \in Readers \ {r} : read'[q] = read[q]
  BY <1>1 DEF EventsInv, ReadInv
<1>3. /\ read'[r].pc = "hgetall" /\ read'[r].event = e /\ read'[r].total = event[e].total
      /\ read'[r].clean = clean
  BY <1>2
<1>4. ASSUME Clean(r)' PROVE Current(r)'
  <2>1. clean
    BY <1>3, <1>4 DEF Clean
  <2> QED BY <1>1, <1>3, <2>1 DEF Current, Still
<1> QED BY <1>1, <1>2, <1>4, ReaderServes

(* HGETALL: the hash is complete, or it is noticed. *)
LEMMA HGetAllServes ==
  ASSUME EventsInv, SeatMapInv, NEW r \in Readers, HGetAll(r)
  PROVE  SeatMapInv'
<1>1. PICK e \in Events : e = read[r].event /\ read[r] \in ReadRecord
  BY DEF HGetAll, EventsInv, ReadInv
<1>2. read' = [read EXCEPT ![r] = [read[r] EXCEPT !.pc = IF Drifted(r) THEN "select" ELSE "locks",
                                                  !.seats = hash[e]]]
  BY <1>1 DEF HGetAll, EventsInv, ReadInv
<1>3. /\ read'[r].pc = IF Drifted(r) THEN "select" ELSE "locks"
      /\ read'[r].seats = hash[e] /\ read'[r].event = e
      /\ read'[r].total = read[r].total /\ read'[r].clean = read[r].clean
      /\ \A q \in Readers \ {r} : read'[q] = read[q]
  BY <1>1, <1>2 DEF EventsInv, ReadInv, ReadRecord
<1>4. UNCHANGED <<event, hash, write, cut>> /\ read[r].pc = "hgetall"
  BY DEF HGetAll
<1>5. ASSUME Clean(r)' PROVE Current(r)'
  <2>1. Clean(r)
    BY <1>3, <1>4, <1>5 DEF Clean
  <2>2. /\ event[e].live /\ read[r].total = event[e].total
        /\ \A w \in Writers : write[w].event = e => Still(w)
    BY <1>1, <2>1 DEF SeatMapInv, Current
  <2>3. ASSUME e \notin cut, read'[r].pc # "select" PROVE hash[e] = Rows(e)
    <3>1. Complete(e)
      BY DEF SeatMapInv
    <3>2. \A w \in Writers : ~Refilling(w, e)
      BY <2>2 DEF Refilling, Still
    <3>3. Rows(e) \subseteq hash[e]
      BY <2>2, <2>3, <3>1, <3>2 DEF Complete
    <3>4. Cardinality(hash[e]) = event[e].total
      BY <1>1, <1>3, <2>2, <2>3 DEF Drifted
    <3> QED BY <2>2, <3>3, <3>4, CountedIsExact
  <2>4. Rows(e)' = Rows(e)
    BY <1>4 DEF Rows
  <2>5. read'[r].pc \in {"fill", "locks", "served"} /\ e \notin cut => read'[r].seats = Rows(e)'
    BY <1>3, <2>3, <2>4
  <2>6. \A w \in Writers : write'[w].event = e => Still(w)'
    BY <1>4, <2>2 DEF Still
  <2> HIDE DEF Still
  <2>7. Rows(read[r].event)' = Rows(e)'
    BY <1>3, <1>4 DEF Rows
  <2> QED BY <1>3, <1>4, <2>2, <2>5, <2>6, <2>7 DEF Current
<1> QED BY <1>3, <1>4, <1>5, ReaderServes

(* The rows are read again. *)
LEMMA MapSelectServes ==
  ASSUME EventsInv, SeatMapInv, NEW r \in Readers, MapSelect(r)
  PROVE  SeatMapInv'
<1>1. PICK e \in Events : e = read[r].event /\ read[r] \in ReadRecord
  BY DEF MapSelect, EventsInv, ReadInv
<1>2. read' = [read EXCEPT ![r] = [read[r] EXCEPT
                 !.pc = IF Rows(e) = {} THEN "locks" ELSE "fill",
                 !.seats = IF Rows(e) = {} THEN read[r].seats ELSE Rows(e)]]
  BY <1>1 DEF MapSelect, EventsInv, ReadInv
<1>3. /\ read'[r].pc # "idle" /\ read'[r].event = e
      /\ Rows(e) # {} => read'[r].seats = Rows(e)
      /\ read'[r].total = read[r].total /\ read'[r].clean = read[r].clean
      /\ \A q \in Readers \ {r} : read'[q] = read[q]
  BY <1>1, <1>2 DEF EventsInv, ReadInv, ReadRecord
<1>4. UNCHANGED <<event, hash, write, cut>> /\ read[r].pc = "select"
  BY DEF MapSelect
<1>5. ASSUME Clean(r)' PROVE Current(r)'
  <2>1. Clean(r)
    BY <1>3, <1>4, <1>5 DEF Clean
  <2>2. /\ event[e].live /\ read[r].total = event[e].total
        /\ \A w \in Writers : write[w].event = e => Still(w)
    BY <1>1, <2>1 DEF SeatMapInv, Current
  <2>3. event[e].total > 0 => read'[r].seats = Rows(e)
    BY <1>3, <2>2, SomeRow DEF EventsInv
  <2>4. Rows(read[r].event)' = Rows(e)
    BY <1>3, <1>4 DEF Rows
  <2>5. \A w \in Writers : write'[w].event = e => Still(w)'
    BY <1>4, <2>2 DEF Still
  <2> QED BY <1>3, <1>4, <2>2, <2>3, <2>4, <2>5 DEF Current
<1> QED BY <1>3, <1>4, <1>5, ReaderServes

(* The hash is filled or healed with what will be served. *)
LEMMA MapFillServes ==
  ASSUME EventsInv, SeatMapInv, NEW r \in Readers, MapFill(r) \/ Heal(r)
  PROVE  SeatMapInv'
<1>1. PICK e \in Events : e = read[r].event /\ read[r] \in ReadRecord
  BY DEF MapFill, Heal, EventsInv, ReadInv
<1>2. PICK pc \in {"locks", "served"} : read' = [read EXCEPT ![r] = [read[r] EXCEPT !.pc = pc]]
  BY DEF MapFill, Heal, EventsInv, ReadInv
<1>3. /\ read'[r].pc = pc /\ read'[r].event = e /\ read'[r].seats = read[r].seats
      /\ read'[r].total = read[r].total /\ read'[r].clean = read[r].clean
      /\ \A q \in Readers \ {r} : read'[q] = read[q]
  BY <1>1, <1>2 DEF EventsInv, ReadInv, ReadRecord
<1>4. UNCHANGED <<event, write, cut>> /\ read[r].pc \in {"fill", "locks"}
  BY DEF MapFill, Heal
<1>5. \A f \in Events : hash[f] \subseteq hash'[f]
  BY <1>1 DEF MapFill, Heal, EventsInv
<1>6. ASSUME Clean(r)' PROVE Current(r)'
  <2>1. Clean(r)
    BY <1>3, <1>4, <1>6 DEF Clean
  <2>2. Current(r)
    BY <2>1 DEF SeatMapInv
  <2>3. Rows(read[r].event)' = Rows(e)
    BY <1>3, <1>4 DEF Rows
  <2>4. \A w \in Writers : write'[w].event = e => Still(w)'
    BY <1>1, <1>4, <2>2 DEF Current, Still
  <2> QED BY <1>1, <1>3, <1>4, <2>2, <2>3, <2>4 DEF Current
<1> QED BY <1>3, <1>4, <1>5, <1>6, ReaderServes

(* A seat is ordered, sold or put back on sale: the seats are the same. *)
LEMMA CustomersServe ==
  ASSUME EventsInv, SeatMapInv, NEW e \in Events, Order(e) \/ Settle(e)
  PROVE  SeatMapInv'
<1>1. UNCHANGED <<hash, write, read, cut>>
  BY DEF Order, Settle
<1>2. ASSUME NEW f \in Events
      PROVE  /\ event'[f].live = event[f].live
             /\ event'[f].generation = event[f].generation
             /\ event'[f].total = event[f].total
  <2>1. event[f] \in EventRecord /\ event \in [Events -> EventRecord]
    BY DEF EventsInv, EventInv
  <2> QED BY <2>1 DEF Order, Settle, EventRecord
<1>3. ASSUME NEW f \in Events PROVE Rows(f)' = Rows(f)
  BY <1>2 DEF Rows
<1>4. ASSUME NEW f \in Events PROVE Complete(f)'
  <2>1. \A w \in Writers : Refilling(w, f) => Refilling(w, f)'
    BY <1>1, <1>3 DEF Refilling
  <2>2. Complete(f)
    BY DEF SeatMapInv
  <2> QED BY <1>1, <1>2, <1>3, <2>1, <2>2 DEF Complete
<1>5. ASSUME NEW w \in Writers PROVE GoneForEver(w)'
  <2>1. write[w].pc = "drop" => write[w].event \in Events
    BY DEF EventsInv, WriteInv, WriteAddressed
  <2> QED BY <1>1, <1>2, <2>1 DEF SeatMapInv, GoneForEver
<1>6. ASSUME NEW r \in Readers, Clean(r)' PROVE Current(r)'
  <2>1. Clean(r)
    BY <1>1, <1>6 DEF Clean
  <2>2. Current(r) /\ read[r].event \in Events
    BY <2>1 DEF SeatMapInv, Clean, EventsInv, ReadInv
  <2>3. Rows(read[r].event)' = Rows(read[r].event)
    BY <1>1, <1>2, <2>2 DEF Rows
  <2> QED BY <1>1, <1>2, <2>2, <2>3 DEF Current, Still
<1> QED BY <1>4, <1>5, <1>6 DEF SeatMapInv

-----------------------------------------------------------------------------
(* If somebody reads the hash, the invariant is inductive. *)
LEMMA SeatMapInvInductive ==
  ASSUME EventsInv, SeatMapInv, Readers # {}, [EventsNext]_eventVars
  PROVE  SeatMapInv'
<1>1. ASSUME NEW w \in Writers, Sent(w) \/ Reject(w) \/ AnsweredAnybody(w)
      PROVE  SeatMapInv'
  <2>1. UNCHANGED <<event, hash, read, cut>>
    BY <1>1 DEF Sent, Reject, AnsweredAnybody
  <2>2. Still(w)
    BY <1>1 DEF Sent, Arrive, Reject, AnsweredAnybody, Still
  <2>3. Still(w)' /\ \A v \in Writers \ {w} : write'[v] = write[v]
    BY <1>1 DEF Sent, Arrive, Reject, Over, AnsweredAnybody, Answered, NoWrite, Still, EventsInv,
                WriteInv
  <2> QED BY <2>1, <2>2, <2>3, StillStep
<1>2. ASSUME NEW w \in Writers,
             Create(w) \/ Update(w) \/ Delete(w) \/ DropHash(w) \/ SelectSeats(w) \/ FillHash(w)
               \/ CutShort(w)
      PROVE  SeatMapInv'
  BY <1>2, CreateServes, ReplaceServes, DropServes, FillServes
<1>3. ASSUME NEW r \in Readers, MapAnswered(r) PROVE SeatMapInv'
  <2>1. UNCHANGED <<event, hash, write, cut>>
    BY <1>3 DEF MapAnswered
  <2>2. read'[r].pc = "idle" /\ \A q \in Readers \ {r} : read'[q] = read[q]
    BY <1>3 DEF MapAnswered, NoRead, EventsInv, ReadInv
  <2> QED BY <2>1, <2>2, ReaderServes DEF Clean
<1>4. ASSUME NEW r \in Readers, MapStep(r) \/ \E e \in Events : MapStart(r, e)
      PROVE  SeatMapInv'
  BY <1>3, <1>4, MapStartServes, HGetAllServes, MapSelectServes, MapFillServes DEF MapStep
<1>5. ASSUME NEW e \in Events, Order(e) \/ Settle(e) PROVE SeatMapInv'
  BY <1>5, CustomersServe
<1>6. CASE UNCHANGED eventVars
  BY <1>6 DEF SeatMapInv, Complete, Refilling, Rows, GoneForEver, Clean, Current, Still, eventVars
<1> QED BY <1>1, <1>2, <1>4, <1>5, <1>6 DEF EventsNext, WriteStep

(* It holds of what the seed leaves behind. *)
LEMMA SeatMapInvInitially == EventsInit /\ Readers # {} => SeatMapInv
BY DEF EventsInit, SeatMapInv, Complete, GoneForEver, NoWrite, Clean, NoRead

(* A request for a seat map that no write of its event overlaps is served   *)
(* exactly the seats that exist, although older requests, whose answers may *)
(* be on their way still, fill and heal the same hash, and although writes  *)
(* of the event drop and fill it step by step - unless a write was cut      *)
(* short, or the event was left without a seat.                             *)
THEOREM SeatMapIsCurrent == EventsSpec => []MapServedIsCurrent
<1>1. CASE Readers = {}
  <2>1. MapServedIsCurrent
    BY <1>1 DEF MapServedIsCurrent
  <2> QED BY <2>1, PTL
<1>2. CASE Readers # {}
  <2>1. EventsInit => SeatMapInv
    BY <1>2, SeatMapInvInitially
  <2>2. EventsInv /\ SeatMapInv /\ [EventsNext]_eventVars => SeatMapInv'
    BY <1>2, SeatMapInvInductive
  <2>3. EventsSpec => []SeatMapInv
    BY <2>1, <2>2, EventsInvariant, PTL DEF EventsSpec
  <2> QED BY <2>3, SeatMapInvServes, PTL
<1> QED BY <1>1, <1>2
=============================================================================
