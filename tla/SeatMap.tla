------------------------------- MODULE SeatMap -------------------------------
(***************************************************************************)
(* services/seat_map_service.py, load_and_heal: the seat map is served from *)
(* the Redis hash, loaded from Postgres when the hash is not as large as    *)
(* the event, and repaired against the lock keys.  A request is modelled    *)
(* for one seat: all it takes from the other fields is whether they are     *)
(* there.                                                                   *)
(***************************************************************************)
EXTENDS Stores

(* The hash has a field for each of the event's seats. *)
HashComplete == \A s \in Seats : cache[s] # "NONE"

(* HGETALL finds every field: the status it carries is what is healed. *)
MapRead(r, s) ==
  /\ "seatmap" \in Handlers
  /\ HashComplete
  /\ req[r].pc = "idle"
  /\ req' = [req EXCEPT ![r] = [Idle EXCEPT !.pc = "map.locks", !.seat = s,
                                            !.sawStatus = cache[s]]]
  /\ UNCHANGED <<database, redis, gateway, job>>

(* HGETALL finds no hash, or too few fields: the rows have to be read. *)
MapMiss(r, s) ==
  /\ "seatmap" \in Handlers
  /\ ~HashComplete
  /\ Start(r, "map.load", None, s, None)
  /\ UNCHANGED <<database, redis, gateway, job>>

MapLoad(r) ==
  /\ req[r].pc = "map.load"
  /\ req' = [req EXCEPT ![r].pc = "map.store", ![r].sawStatus = seatStatus[req[r].seat]]
  /\ UNCHANGED <<database, redis, gateway, job>>

(* HSET of what was loaded, over whatever the hash holds by now. *)
MapStore(r) ==
  /\ req[r].pc = "map.store"
  /\ cache' = [cache EXCEPT ![req[r].seat] = req[r].sawStatus]
  /\ Goto(r, "map.locks")
  /\ UNCHANGED <<database, lock, queue, gateway, job>>

(* Mutant: only the direction of a lock the cache never recorded. *)
HealedUp(status, holder) ==
  IF status = "AVAILABLE" /\ holder # None THEN "LOCKED" ELSE status

(* The status the lock key calls for; BOOKED is never questioned. *)
Healed(status, holder) ==
  CASE status = "LOCKED" /\ holder = None -> "AVAILABLE"
    [] status = "AVAILABLE" /\ holder # None -> "LOCKED"
    [] OTHER -> status

(* MGET, and the comparison with the statuses read before. *)
MapLocks(r) ==
  LET healed == Healed(req[r].sawStatus, lock[req[r].seat]) IN
  /\ req[r].pc = "map.locks"
  /\ IF healed = req[r].sawStatus
     THEN Finish(r)
     ELSE req' = [req EXCEPT ![r].pc = "map.heal", ![r].sawStatus = healed]
  /\ UNCHANGED <<database, redis, gateway, job>>

(* The pipeline's HSET, which also creates a field that is gone. *)
MapHeal(r) ==
  /\ req[r].pc = "map.heal"
  /\ cache' = [cache EXCEPT ![req[r].seat] = req[r].sawStatus]
  /\ Finish(r)
  /\ UNCHANGED <<database, lock, queue, gateway, job>>

-----------------------------------------------------------------------------

SeatMapStep(r) ==
  \/ MapLoad(r)
  \/ MapStore(r)
  \/ MapLocks(r)
  \/ MapHeal(r)

SeatMapArrival(r) == \E s \in Seats : MapRead(r, s) \/ MapMiss(r, s)
=============================================================================
