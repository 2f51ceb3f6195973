----------------------------- MODULE WaitingRoom -----------------------------
(***************************************************************************)
(* The virtual waiting room of one event: the sorted set waiting_queue and  *)
(* the set active_users in Redis, and the code that moves people between    *)
(* them.  There is no lock and no script around a promotion: SCARD, ZRANGE, *)
(* SADD and ZREM are four commands, each awaited, run by every poll of the  *)
(* seat map (routers/events.py) and by promote_queue_and_notify, which ends *)
(* every release of a seat, every settled payment and every departure, in   *)
(* the API and in the worker.                                               *)
(*                                                                         *)
(* The sorted set orders its members by the millisecond in which they were  *)
(* stamped, and the stamp is taken before the command that carries it is    *)
(* awaited: two members of one millisecond stand in the order of their      *)
(* names, and a command that is late puts a member in front of those who    *)
(* are already there.  A score is kept as its age, the milliseconds since   *)
(* it was taken, so that the clock needs no end.                            *)
(***************************************************************************)
EXTENDS Naturals, FiniteSets

CONSTANTS
  Users,            \* customers and guests, by their queue identity
  Slots,            \* requests and socket events the API handles at a time
  Tasks,            \* jobs the worker runs at a time
  MAX_ACTIVE_USERS,
  None,
  MaxAge,           \* bound: the milliseconds for which a stamp is followed
  Handlers,         \* what happens in this instance: "poll", "free", "leave"
  Faults            \* "abort", "api_restart", "queue_expiry"

Procs == Slots \cup Tasks

ASSUME WaitingNoneAssumption == None \notin Users
ASSUME WaitingProcsAssumption == IsFiniteSet(Procs)
ASSUME MaxActiveAssumption == MAX_ACTIVE_USERS \in Nat \ {0}
ASSUME MaxAgeAssumption == MaxAge \in Nat
ASSUME WaitingHandlersAssumption == Handlers \subseteq {"poll", "free", "leave"}
ASSUME WaitingFaultsAssumption == Faults \subseteq {"abort", "api_restart", "queue_expiry"}

VARIABLES
  waiting,   \* the members of waiting_queue:{event}
  age,       \* the age of a member's score
  active,    \* active_users:{event}
  proc,      \* the handlers that are under way
  removed,   \* history: who was taken out of the queue or the pool
  standing   \* history: how long a member has been in the queue

vars == <<waiting, age, active, proc, removed, standing>>

queue == <<waiting, age, standing>>

-----------------------------------------------------------------------------

ProcPC == {"idle", "poll.join", "leave.active", "count", "range", "admit", "dequeue"}

Proc == [pc: ProcPC, user: Users \cup {None}, since: 0 .. MaxAge, vacancies: Nat, next: SUBSET Users]

At(pc, u) == [pc |-> pc, user |-> u, since |-> 0, vacancies |-> 0, next |-> {}]

Resting == At("idle", None)

(* Mutant: ZADD without NX. *)
JoinedAfresh(u, stamp) ==
  /\ waiting' = waiting \cup {u}
  /\ age' = [age EXCEPT ![u] = stamp]
  /\ UNCHANGED standing

(* ZADD NX: a member keeps its score. *)
Joined(u, stamp) ==
  /\ waiting' = waiting \cup {u}
  /\ age' = IF u \in waiting THEN age ELSE [age EXCEPT ![u] = stamp]
  /\ UNCHANGED standing

(* ZREM *)
Without(S) ==
  /\ waiting' = waiting \ S
  /\ age' = [u \in Users |-> IF u \in S THEN 0 ELSE age[u]]
  /\ standing' = [u \in Users |-> IF u \in S THEN 0 ELSE standing[u]]

AtMost(n) == IF n < Cardinality(waiting) THEN n ELSE Cardinality(waiting)

(* Mutants: ZRANGE 0 n, whose end is inclusive; ZREVRANGE. *)
FirstInclusive(n) ==
  {F \in SUBSET waiting : /\ Cardinality(F) = AtMost(n + 1)
                         /\ \A u \in F, v \in waiting \ F : age[v] <= age[u]}

Last(n) ==
  {F \in SUBSET waiting : /\ Cardinality(F) = AtMost(n)
                         /\ \A u \in F, v \in waiting \ F : age[u] <= age[v]}

(* What ZRANGE 0 n-1 may answer: n members (all, if they are fewer), and    *)
(* nobody left out whose score is earlier than that of somebody who is in.  *)
(* Which of several with one score come first is their names' affair.       *)
First(n) ==
  {F \in SUBSET waiting : /\ Cardinality(F) = AtMost(n)
                         /\ \A u \in F, v \in waiting \ F : age[v] <= age[u]}

Becomes(p, pc) == proc' = [proc EXCEPT ![p].pc = pc]

Rest(p) == proc' = [proc EXCEPT ![p] = Resting]

Promote(p) == proc' = [proc EXCEPT ![p] = At("count", None)]

Begin(p, pc, u) == proc' = [proc EXCEPT ![p] = At(pc, u)]

-----------------------------------------------------------------------------
(* A millisecond passes. *)
Tick ==
  /\ \A u \in waiting : age[u] < MaxAge
  /\ \A p \in Procs : proc[p].since < MaxAge
  /\ age' = [u \in Users |-> IF u \in waiting THEN age[u] + 1 ELSE 0]
  /\ standing' = [u \in Users |-> IF u \in waiting THEN standing[u] + 1 ELSE 0]
  /\ proc' = [p \in Procs |-> IF proc[p].pc = "poll.join"
                              THEN [proc[p] EXCEPT !.since = @ + 1] ELSE proc[p]]
  /\ UNCHANGED <<waiting, active, removed>>

(* GET /events/{event}/seats: SISMEMBER says no. *)
Poll(p, u) ==
  /\ "poll" \in Handlers
  /\ proc[p].pc = "idle"
  /\ u \notin active
  /\ Begin(p, "poll.join", u)
  /\ UNCHANGED <<queue, active, removed>>

(* The clock is read somewhere between that answer and the ZADD. *)
PollJoin(p) ==
  /\ proc[p].pc = "poll.join"
  /\ \E stamp \in 0 .. proc[p].since : Joined(proc[p].user, stamp)
  /\ Promote(p)
  /\ UNCHANGED <<active, removed>>

(* leave_event_queue, and the disconnect of a socket that joined the queue: *)
(* one after the other, or for somebody who has been let in meanwhile.      *)
LeaveQueue(p, u) ==
  /\ "leave" \in Handlers
  /\ proc[p].pc = "idle"
  /\ Without({u})
  /\ Begin(p, "leave.active", u)
  /\ removed' = removed \cup {u}
  /\ UNCHANGED active

LeavePool(p) ==
  /\ proc[p].pc = "leave.active"
  /\ active' = active \ {proc[p].user}
  /\ Promote(p)
  /\ UNCHANGED <<queue, removed>>

(* SREM at the end of unlock_seat, _release_seat and process_payment; none  *)
(* of them asks whether the user is in the pool.                            *)
FreeSlot(p, u) ==
  /\ "free" \in Handlers
  /\ proc[p].pc = "idle"
  /\ active' = active \ {u}
  /\ removed' = removed \cup ({u} \cap active)
  /\ Promote(p)
  /\ UNCHANGED queue

-----------------------------------------------------------------------------
(* The promotion. *)

Count(p) ==
  /\ proc[p].pc = "count"
  /\ Cardinality(active) < MAX_ACTIVE_USERS
  /\ proc' = [proc EXCEPT ![p].pc = "range",
                          ![p].vacancies = MAX_ACTIVE_USERS - Cardinality(active)]
  /\ UNCHANGED <<queue, active, removed>>

(* What follows the promotion only reads and reports. *)
CountFull(p) ==
  /\ proc[p].pc = "count"
  /\ Cardinality(active) >= MAX_ACTIVE_USERS
  /\ Rest(p)
  /\ UNCHANGED <<queue, active, removed>>

(* Mutant: ZPOPMIN takes them off the queue before they are in the pool. *)
PopHead(p) ==
  /\ proc[p].pc = "range"
  /\ waiting # {}
  /\ \E F \in First(proc[p].vacancies) :
       /\ proc' = [proc EXCEPT ![p].pc = "admit", ![p].next = F]
       /\ Without(F)
  /\ UNCHANGED <<active, removed>>

HeadOfQueue(p) ==
  /\ proc[p].pc = "range"
  /\ waiting # {}
  /\ \E F \in First(proc[p].vacancies) :
       proc' = [proc EXCEPT ![p].pc = "admit", ![p].next = F]
  /\ UNCHANGED <<queue, active, removed>>

QueueEmpty(p) ==
  /\ proc[p].pc = "range"
  /\ waiting = {}
  /\ Rest(p)
  /\ UNCHANGED <<queue, active, removed>>

Admit(p) ==
  /\ proc[p].pc = "admit"
  /\ active' = active \cup proc[p].next
  /\ Becomes(p, "dequeue")
  /\ UNCHANGED <<queue, removed>>

Dequeue(p) ==
  /\ proc[p].pc = "dequeue"
  /\ Without(proc[p].next)
  /\ Rest(p)
  /\ UNCHANGED <<active, removed>>

-----------------------------------------------------------------------------
(* What goes wrong. *)

Abort(p) ==
  /\ "abort" \in Faults
  /\ proc[p].pc # "idle"
  /\ Rest(p)
  /\ UNCHANGED <<queue, active, removed>>

(* QUEUE_TTL_SECONDS after the first join, however long the queue is. *)
QueueExpires ==
  /\ "queue_expiry" \in Faults
  /\ waiting # {}
  /\ Without(waiting)
  /\ removed' = removed \cup waiting
  /\ UNCHANGED <<active, proc>>

(* clear_existing_queues when the API boots; the worker goes on. *)
ApiRestart ==
  /\ "api_restart" \in Faults
  /\ Without(waiting)
  /\ active' = {}
  /\ proc' = [p \in Procs |-> IF p \in Slots THEN Resting ELSE proc[p]]
  /\ removed' = removed \cup waiting \cup active

-----------------------------------------------------------------------------

Init ==
  /\ waiting = {}
  /\ age = [u \in Users |-> 0]
  /\ active = {}
  /\ proc = [p \in Procs |-> Resting]
  /\ removed = {}
  /\ standing = [u \in Users |-> 0]

Step(p) ==
  \/ PollJoin(p)
  \/ LeavePool(p)
  \/ Count(p)
  \/ CountFull(p)
  \/ HeadOfQueue(p)
  \/ QueueEmpty(p)
  \/ Admit(p)
  \/ Dequeue(p)

Next ==
  \/ \E p \in Procs : Step(p) \/ Abort(p)
  \/ \E p \in Procs, u \in Users : FreeSlot(p, u)
  \/ \E p \in Slots, u \in Users : Poll(p, u) \/ LeaveQueue(p, u)
  \/ QueueExpires
  \/ ApiRestart
  \/ Tick

Spec == Init /\ [][Next]_vars

(* Time passes, handlers run on, waiting clients poll every                 *)
(* QUEUE_POLL_INTERVAL_MS, and whoever is in the pool finishes with a seat  *)
(* or without.                                                              *)
Fairness ==
  /\ WF_vars(Tick)
  /\ \A p \in Procs : WF_vars(Step(p))
  /\ \A u \in Users : /\ SF_vars(\E p \in Slots : Poll(p, u))
                      /\ SF_vars(u \in active /\ \E p \in Procs : FreeSlot(p, u))

FairSpec == Spec /\ Fairness

-----------------------------------------------------------------------------
(* The two Redis keys and the suspended handlers are well formed, nothing   *)
(* that is no member has an age, and nobody has been in the queue for       *)
(* longer than their score is old.                                          *)
TypeOK ==
  /\ waiting \subseteq Users
  /\ age \in [Users -> 0 .. MaxAge]
  /\ active \subseteq Users
  /\ proc \in [Procs -> Proc]
  /\ removed \subseteq Users
  /\ standing \in [Users -> Nat]
  /\ \A u \in Users : standing[u] <= age[u] /\ (u \notin waiting => age[u] = 0)

(* v was in the queue in an earlier millisecond than that in which u asked  *)
(* to be let in. *)
Ahead(v, u) == u \in waiting /\ v \in waiting /\ standing[v] > age[u]

(* Promotions that run at once all count the same vacancies.  The pool can  *)
(* overshoot MAX_ACTIVE_USERS, but by no more than a full pool for each     *)
(* promotion under way, and what one has counted is spent only once.        *)
Claims == [p \in Procs |-> IF proc[p].pc \in {"range", "admit"} THEN proc[p].vacancies ELSE 0]

Claimed == UNION {{p} \X (1 .. Claims[p]) : p \in Procs}

OverAdmissionBound ==
  Cardinality(active) + Cardinality(Claimed) <= Cardinality(Procs) * MAX_ACTIVE_USERS

(* For somebody who was never taken out, the only way out of the queue is   *)
(* into the pool: SADD comes before ZREM, so not even promotions of the API *)
(* and of the worker that run at once, or that die half way, lose a waiter, *)
(* whoever else comes and goes meanwhile.                                   *)
WaiterKeepsPlace ==
  [][\A u \in Users \ removed' : u \in waiting /\ u \notin waiting' => u \in active']_vars

(* First come, first served, as far as the stamps allow it: when a          *)
(* promotion lets in somebody who was never taken out, nobody is left       *)
(* waiting who was in the queue in an earlier millisecond than the one in   *)
(* which the other asked, however many promotions run at once, however old  *)
(* the queue that they have read, however often anybody polls and however   *)
(* late the commands arrive.  (Of two who ask while the other's command is  *)
(* on its way, or in one millisecond, either may get in first.)             *)
AdmittedInOrder ==
  [][\A u \in Users \ removed', v \in Users :
       u \notin active /\ u \in active' /\ Ahead(v, u) => v \in active']_vars

(* The queue and the pool together, without those who were ever taken out,  *)
(* are a line in which a place, once taken, is kept until it is let in from *)
(* the front: however promotions overlap or die, nobody gets in who did not *)
(* wait, nobody who stands is put behind a newcomer, and nobody is put back *)
(* or let in twice.                                                         *)
InLine == waiting \ (active \cup removed)

LineAhead == {x \in InLine \X InLine : Ahead(x[1], x[2])}

Line == INSTANCE WaitingLine WITH
          line <- InLine,
          ahead <- LineAhead,
          inside <- active \ removed,
          Capacity <- Cardinality(Procs) * MAX_ACTIVE_USERS

ImplementsLine == Line!Spec

(* Nobody waits for ever: if those who are in finish, everyone who keeps    *)
(* polling gets in.                                                         *)
EveryoneGetsIn == \A u \in Users : u \in waiting ~> u \in active

=============================================================================
