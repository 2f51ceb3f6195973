-------------------------- MODULE WaitingRoomProofs --------------------------
(***************************************************************************)
(* Theorems about WaitingRoom, for any users, any number of handlers and    *)
(* jobs at a time, any size of the pool and any faults.  RoomInv bounds the *)
(* pool: what a promotion has counted and not yet spent is part of the      *)
(* bound.  OrderInv relates what a promotion has read to the queue as it    *)
(* has become.                                                              *)
(***************************************************************************)
EXTENDS WaitingRoom, FiniteSetTheorems, TLAPS

-----------------------------------------------------------------------------
(* Counting claims. *)

Tokens(P, c) == UNION {{p} \X (1 .. c[p]) : p \in P}

(* Promotions that claim at most n each claim at most n times as many. *)
LEMMA TokensBounded ==
  ASSUME NEW P, IsFiniteSet(P), NEW n \in Nat, NEW c, \A p \in P : c[p] \in 0 .. n
  PROVE  /\ IsFiniteSet(Tokens(P, c))
         /\ Cardinality(Tokens(P, c)) \in Nat
         /\ Cardinality(Tokens(P, c)) <= Cardinality(P) * n
<1>1. IsFiniteSet(1 .. n) /\ Cardinality(1 .. n) = n
  BY FS_Interval
<1>2. IsFiniteSet(P \X (1 .. n)) /\ Cardinality(P \X (1 .. n)) = Cardinality(P) * n
  BY <1>1, FS_Product
<1>3. \A p \in P : 1 .. c[p] \subseteq 1 .. n
  <2>1. \A k \in 0 .. n : 1 .. k \subseteq 1 .. n
    OBVIOUS
  <2> QED
    BY <2>1
<1>4. Tokens(P, c) \subseteq P \X (1 .. n)
  BY <1>3 DEF Tokens
<1>5. IsFiniteSet(Tokens(P, c)) /\ Cardinality(Tokens(P, c)) <= Cardinality(P \X (1 .. n))
  BY <1>2, <1>4, FS_Subset
<1> QED
  BY <1>2, <1>5, FS_CardinalityType

(* What one promotion claims counts once. *)
LEMMA TokensSplit ==
  ASSUME NEW P, IsFiniteSet(P), NEW n \in Nat, NEW c, \A p \in P : c[p] \in 0 .. n,
         NEW p \in P
  PROVE  Cardinality(Tokens(P, c)) = Cardinality(Tokens(P \ {p}, c)) + c[p]
<1> DEFINE A == Tokens(P \ {p}, c)
           B == {p} \X (1 .. c[p])
<1>1. Tokens(P, c) = A \cup B /\ A \cap B = {}
  BY DEF Tokens
<1>2. IsFiniteSet(P \ {p})
  BY FS_RemoveElement
<1>3. IsFiniteSet(A) /\ Cardinality(A) \in Nat
  BY <1>2, TokensBounded
<1>4. c[p] \in Nat
  OBVIOUS
<1>5. IsFiniteSet(1 .. c[p]) /\ Cardinality(1 .. c[p]) = c[p]
  <2>1. ASSUME NEW k \in Nat PROVE IsFiniteSet(1 .. k) /\ Cardinality(1 .. k) = k
    BY FS_Interval
  <2> QED
    BY <1>4, <2>1
<1>6. IsFiniteSet({p}) /\ Cardinality({p}) = 1
  BY FS_Singleton
<1>7. IsFiniteSet(B) /\ Cardinality(B) = 1 * c[p]
  <2>1. /\ IsFiniteSet({p} \X (1 .. c[p]))
        /\ Cardinality({p} \X (1 .. c[p])) = Cardinality({p}) * Cardinality(1 .. c[p])
    BY <1>5, <1>6, FS_Product, Zenon
  <2> QED
    BY <1>5, <1>6, <2>1
<1> HIDE DEF A, B
<1>8. Cardinality(A \cap B) = 0
  BY <1>1, FS_EmptySet
<1>9. Cardinality(A \cup B) = Cardinality(A) + Cardinality(B) - Cardinality(A \cap B)
  BY <1>3, <1>7, FS_Union
<1> QED
  BY <1>1, <1>3, <1>4, <1>7, <1>8, <1>9 DEF A

(* The bound on pool and claims survives a step of one promotion that adds  *)
(* to the pool no more than it gives up of its claim, and one after which   *)
(* its claim and the pool are together no more than a full pool.            *)
LEMMA BoundKept ==
  ASSUME NEW P, IsFiniteSet(P), NEW n \in Nat, NEW p \in P,
         NEW c, \A q \in P : c[q] \in 0 .. n,
         NEW d, \A q \in P : d[q] \in 0 .. n,
         \A q \in P \ {p} : d[q] = c[q],
         NEW a \in Nat, NEW b \in Nat,
         a + Cardinality(Tokens(P, c)) <= Cardinality(P) * n,
         b + d[p] <= a + c[p] \/ b + d[p] <= n
  PROVE  b + Cardinality(Tokens(P, d)) <= Cardinality(P) * n
<1> DEFINE R == Tokens(P \ {p}, c)
<1>1. IsFiniteSet(P \ {p}) /\ Cardinality(P \ {p}) = Cardinality(P) - 1
  BY FS_RemoveElement
<1>2. Cardinality(P) \in Nat /\ Cardinality(P \ {p}) \in Nat
  BY <1>1, FS_CardinalityType
<1>3. Cardinality(R) \in Nat /\ Cardinality(R) <= Cardinality(P \ {p}) * n
  BY <1>1, TokensBounded
<1>4. Tokens(P \ {p}, d) = R
  BY DEF Tokens
<1>5. Cardinality(Tokens(P, c)) = Cardinality(R) + c[p]
  BY TokensSplit
<1>6. Cardinality(Tokens(P, d)) = Cardinality(R) + d[p]
  BY <1>4, TokensSplit
<1>7. c[p] \in Nat /\ d[p] \in Nat
  OBVIOUS
<1> HIDE DEF R
<1>8. \A k \in Nat : (k - 1) * n = k * n - n
  OBVIOUS
<1>9. Cardinality(R) <= Cardinality(P) * n - n
  BY <1>1, <1>2, <1>3, <1>8
<1>10. Cardinality(P) * n \in Int
  BY <1>2
<1> DEFINE k == Cardinality(P) * n
           r == Cardinality(R)
           x == c[p]
           y == d[p]
<1>11. /\ k \in Int /\ r \in Nat /\ x \in Nat /\ y \in Nat
       /\ r <= k - n /\ a + (r + x) <= k /\ (b + y <= a + x \/ b + y <= n)
  BY <1>3, <1>5, <1>7, <1>9, <1>10
<1> HIDE DEF k, r, x, y
<1>12. b + (r + y) <= k
  BY <1>11
<1> QED
  BY <1>6, <1>12 DEF k, r, y

-----------------------------------------------------------------------------
(* The invariant of the pool. *)

ClaimOf(r) == IF r.pc \in {"range", "admit"} THEN r.vacancies ELSE 0

(* A handler that joins or leaves does so for somebody, and a promotion has *)
(* counted no more than a pool of vacancies and takes no more than those.   *)
Sane(r) ==
  /\ r.pc \in {"poll.join", "leave.active"} => r.user \in Users
  /\ r.pc \in {"range", "admit"} => r.vacancies <= MAX_ACTIVE_USERS
  /\ r.pc = "admit" => IsFiniteSet(r.next) /\ Cardinality(r.next) <= r.vacancies

(* The sorted set: finite, as it grows by one member at a time. *)
QueueOK ==
  /\ waiting \subseteq Users /\ IsFiniteSet(waiting)
  /\ age \in [Users -> 0 .. MaxAge]
  /\ standing \in [Users -> Nat]
  /\ \A u \in Users : standing[u] <= age[u] /\ (u \notin waiting => age[u] = 0)

RoomInv ==
  /\ TypeOK
  /\ QueueOK
  /\ IsFiniteSet(active)
  /\ \A p \in Procs : Sane(proc[p])
  /\ OverAdmissionBound

LEMMA SaneClaims ==
  ASSUME NEW r \in Proc, Sane(r)
  PROVE  ClaimOf(r) \in 0 .. MAX_ACTIVE_USERS
BY MaxActiveAssumption DEF Proc, Sane, ClaimOf

LEMMA RestingSane == Resting \in Proc /\ Sane(Resting) /\ ClaimOf(Resting) = 0
BY MaxAgeAssumption DEF Resting, At, Proc, ProcPC, Sane, ClaimOf

LEMMA ClaimsAre ==
  /\ Claims = [p \in Procs |-> ClaimOf(proc[p])]
  /\ Claimed = Tokens(Procs, Claims)
BY DEF Claims, Claimed, ClaimOf, Tokens

(* What a step finds. *)
LEMMA RoomFacts ==
  ASSUME RoomInv, NEW p \in Procs
  PROVE  /\ QueueOK /\ waiting \subseteq Users /\ IsFiniteSet(waiting)
         /\ active \subseteq Users /\ IsFiniteSet(active) /\ Cardinality(active) \in Nat
         /\ removed \subseteq Users
         /\ proc \in [Procs -> Proc] /\ proc[p] \in Proc /\ Sane(proc[p])
BY FS_CardinalityType DEF RoomInv, TypeOK, QueueOK

-----------------------------------------------------------------------------
(* What ZADD NX, ZREM, ZRANGE and the clock do to the queue. *)

LEMMA QueueUnchanged ==
  ASSUME QueueOK, UNCHANGED queue
  PROVE  QueueOK'
BY DEF QueueOK, queue

(* A newcomer has not stood for a millisecond, and nobody else's score      *)
(* changes.                                                                 *)
LEMMA JoinedKeeps ==
  ASSUME QueueOK, NEW u \in Users, NEW stamp \in 0 .. MaxAge, Joined(u, stamp)
  PROVE  /\ QueueOK' /\ waiting \subseteq waiting'
         /\ \A v \in waiting : age'[v] = age[v]
         /\ \A v \in Users : standing'[v] = standing[v]
         /\ \A v \in waiting' \ waiting : standing[v] = 0
<1>1. waiting' = waiting \cup {u} /\ standing' = standing
  BY DEF Joined
<1>2. IsFiniteSet(waiting')
  BY <1>1, FS_AddElement DEF QueueOK
<1>3. \A v \in Users : standing[v] \in Nat /\ age[v] \in Nat
  BY MaxAgeAssumption DEF QueueOK
<1>4. \A v \in waiting' \ waiting : standing[v] = 0
  BY <1>1, <1>3 DEF QueueOK
<1>5. \A v \in Users : v # u \/ u \in waiting => age'[v] = age[v]
  BY DEF Joined, QueueOK
<1>6. u \notin waiting => age'[u] = stamp
  BY DEF Joined, QueueOK
<1>7. age' \in [Users -> 0 .. MaxAge]
  BY DEF Joined, QueueOK
<1>8. ASSUME NEW v \in Users
      PROVE  standing'[v] <= age'[v] /\ (v \notin waiting' => age'[v] = 0)
  <2>1. CASE v # u \/ u \in waiting
    BY <1>1, <1>5, <2>1 DEF QueueOK
  <2>2. CASE v = u /\ u \notin waiting
    BY <1>1, <1>4, <1>6, <2>2
  <2> QED
    BY <2>1, <2>2
<1> QED
  BY <1>1, <1>2, <1>4, <1>5, <1>7, <1>8 DEF QueueOK

LEMMA WithoutKeeps ==
  ASSUME QueueOK, NEW S, Without(S)
  PROVE  /\ QueueOK' /\ waiting' = waiting \ S
         /\ \A v \in Users \ S : age'[v] = age[v] /\ standing'[v] = standing[v]
<1>1. waiting' = waiting \ S
  BY DEF Without
<1>2. IsFiniteSet(waiting')
  BY <1>1, FS_Subset DEF QueueOK
<1>3. \A v \in Users : /\ age'[v] = IF v \in S THEN 0 ELSE age[v]
                       /\ standing'[v] = IF v \in S THEN 0 ELSE standing[v]
  BY DEF Without
<1>4. age' \in [Users -> 0 .. MaxAge] /\ standing' \in [Users -> Nat]
  BY MaxAgeAssumption DEF Without, QueueOK
<1>5. \A v \in Users : standing'[v] <= age'[v] /\ (v \notin waiting' => age'[v] = 0)
  BY <1>1, <1>3 DEF QueueOK
<1> QED
  BY <1>1, <1>2, <1>3, <1>4, <1>5 DEF QueueOK

(* Time passes for everybody in the queue alike. *)
LEMMA TickKeeps ==
  ASSUME QueueOK, Tick
  PROVE  /\ QueueOK'
         /\ \A v \in waiting : age'[v] = age[v] + 1 /\ standing'[v] = standing[v] + 1
<1>1. waiting' = waiting /\ \A v \in waiting : age[v] < MaxAge
  BY DEF Tick
<1>2. \A v \in Users : /\ age'[v] = IF v \in waiting THEN age[v] + 1 ELSE 0
                       /\ standing'[v] = IF v \in waiting THEN standing[v] + 1 ELSE 0
  BY DEF Tick
<1>3. \A v \in Users : standing[v] \in Nat /\ age[v] \in 0 .. MaxAge
  BY DEF QueueOK
<1>4. \A v \in Users : (IF v \in waiting THEN age[v] + 1 ELSE 0) \in 0 .. MaxAge
  BY <1>1, <1>3, MaxAgeAssumption
<1>5. \A v \in Users : (IF v \in waiting THEN standing[v] + 1 ELSE 0) \in Nat
  BY <1>3
<1>6. age' \in [Users -> 0 .. MaxAge] /\ standing' \in [Users -> Nat]
  BY <1>4, <1>5 DEF Tick
<1>7. \A v \in Users : standing'[v] <= age'[v] /\ (v \notin waiting' => age'[v] = 0)
  BY <1>1, <1>2, <1>3 DEF QueueOK
<1> QED
  BY <1>1, <1>2, <1>6, <1>7 DEF QueueOK

(* ZRANGE reads the head of the queue: who is in it brings along everybody  *)
(* who was in the queue before they asked.                                  *)
LEMMA FirstProperties ==
  ASSUME QueueOK, NEW n \in Nat, NEW F \in First(n)
  PROVE  /\ F \subseteq waiting /\ F \subseteq Users
         /\ IsFiniteSet(F) /\ Cardinality(F) <= n
         /\ \A u \in F, v \in Users : Ahead(v, u) => v \in F
<1>1. F \subseteq waiting /\ Cardinality(F) = AtMost(n)
  BY DEF First
<1>2. IsFiniteSet(F) /\ Cardinality(waiting) \in Nat
  BY <1>1, FS_Subset, FS_CardinalityType DEF QueueOK
<1>3. Cardinality(F) <= n
  BY <1>1, <1>2 DEF AtMost
<1>4. ASSUME NEW u \in F, NEW v \in Users, Ahead(v, u), v \notin F
      PROVE  FALSE
  <2>1. v \in waiting \ F /\ standing[v] > age[u]
    BY <1>4 DEF Ahead
  <2>2. age[v] <= age[u]
    BY <1>4, <2>1 DEF First
  <2>3. standing[v] <= age[v] /\ standing[v] \in Nat /\ age[v] \in Nat /\ age[u] \in Nat
    BY <1>1, MaxAgeAssumption DEF QueueOK
  <2> QED
    BY <2>1, <2>2, <2>3
<1> QED
  BY <1>1, <1>2, <1>3, <1>4 DEF QueueOK

-----------------------------------------------------------------------------
(* A step of one handler that keeps the kinds and gives up what it spends   *)
(* keeps the invariant.                                                     *)
LEMMA OneMoves ==
  ASSUME RoomInv, NEW p \in Procs, NEW r \in Proc, Sane(r),
         proc' = [proc EXCEPT ![p] = r], QueueOK',
         active' \subseteq Users, IsFiniteSet(active'), removed' \subseteq Users,
         \/ Cardinality(active') + ClaimOf(r) <= Cardinality(active) + ClaimOf(proc[p])
         \/ Cardinality(active') + ClaimOf(r) <= MAX_ACTIVE_USERS
  PROVE  RoomInv'
<1>1. proc \in [Procs -> Proc]
  BY DEF RoomInv, TypeOK
<1>2. proc' \in [Procs -> Proc] /\ \A q \in Procs : proc'[q] = IF q = p THEN r ELSE proc[q]
  BY <1>1
<1>3. TypeOK'
  BY <1>2 DEF TypeOK, QueueOK
<1>4. \A q \in Procs : Sane(proc'[q])
  BY <1>2 DEF RoomInv
<1> DEFINE c == [q \in Procs |-> ClaimOf(proc[q])]
           d == [q \in Procs |-> ClaimOf(proc'[q])]
<1>5. Claimed = Tokens(Procs, c) /\ Claimed' = Tokens(Procs, d)
  <2>1. Claims = c /\ Claims' = d
    BY DEF Claims, ClaimOf
  <2> QED
    BY <2>1 DEF Claimed, Tokens
<1>6. \A q \in Procs : c[q] \in 0 .. MAX_ACTIVE_USERS
  <2>1. \A q \in Procs : proc[q] \in Proc /\ Sane(proc[q])
    BY <1>1 DEF RoomInv
  <2> QED
    BY <2>1, SaneClaims
<1>7. \A q \in Procs : d[q] \in 0 .. MAX_ACTIVE_USERS
  <2>1. \A q \in Procs : proc'[q] \in Proc /\ Sane(proc'[q])
    BY <1>2, <1>4
  <2> QED
    BY <2>1, SaneClaims
<1>8. \A q \in Procs \ {p} : d[q] = c[q]
  BY <1>2
<1>9. c[p] = ClaimOf(proc[p]) /\ d[p] = ClaimOf(r)
  BY <1>2
<1> HIDE DEF c, d
<1> DEFINE a == Cardinality(active)
           b == Cardinality(active')
<1>10. a \in Nat /\ b \in Nat
  BY FS_CardinalityType DEF RoomInv
<1>11. a + Cardinality(Tokens(Procs, c)) <= Cardinality(Procs) * MAX_ACTIVE_USERS
  BY <1>5 DEF RoomInv, OverAdmissionBound
<1>12. b + d[p] <= a + c[p] \/ b + d[p] <= MAX_ACTIVE_USERS
  BY <1>9
<1> HIDE DEF a, b
<1>13. b + Cardinality(Tokens(Procs, d)) <= Cardinality(Procs) * MAX_ACTIVE_USERS
  BY <1>6, <1>7, <1>8, <1>10, <1>11, <1>12, BoundKept, WaitingProcsAssumption, MaxActiveAssumption
<1>14. OverAdmissionBound'
  BY <1>5, <1>13 DEF OverAdmissionBound, b
<1> QED
  BY <1>3, <1>4, <1>14 DEF RoomInv

LEMMA RoomInit == Init => RoomInv
<1> SUFFICES ASSUME Init PROVE RoomInv
  OBVIOUS
<1>1. QueueOK
  BY FS_EmptySet, MaxAgeAssumption DEF Init, QueueOK
<1>2. TypeOK
  BY <1>1, RestingSane DEF Init, TypeOK, QueueOK
<1>3. IsFiniteSet(active) /\ Cardinality(active) = 0
  BY FS_EmptySet DEF Init
<1>4. \A p \in Procs : Sane(proc[p])
  BY RestingSane DEF Init
<1>5. Claimed = {}
  <2>1. \A p \in Procs : Claims[p] = 0
    BY DEF Init, Claims, Resting, At
  <2>2. \A p \in Procs : 1 .. Claims[p] = {}
    BY <2>1
  <2> QED
    BY <2>2 DEF Claimed
<1>6. Cardinality(Claimed) = 0
  BY <1>5, FS_EmptySet
<1>7. Cardinality(Procs) * MAX_ACTIVE_USERS \in Nat
  BY WaitingProcsAssumption, MaxActiveAssumption, FS_CardinalityType
<1>8. OverAdmissionBound
  BY <1>3, <1>6, <1>7 DEF OverAdmissionBound
<1> QED
  BY <1>1, <1>2, <1>3, <1>4, <1>8 DEF RoomInv

(* A handler goes on: a record that differs from what it was in the step it *)
(* is at.                                                                   *)
LEMMA MovedOn ==
  ASSUME RoomInv, NEW p \in Procs, NEW pc \in ProcPC
  PROVE  LET r == [proc[p] EXCEPT !.pc = pc]
         IN  /\ r \in Proc /\ r.pc = pc /\ r.user = proc[p].user
             /\ r.vacancies = proc[p].vacancies /\ r.next = proc[p].next
             /\ Becomes(p, pc) => proc' = [proc EXCEPT ![p] = r]
<1>1. proc \in [Procs -> Proc] /\ proc[p] \in Proc
  BY RoomFacts
<1>2. [proc[p] EXCEPT !.pc = pc] \in Proc
  BY <1>1 DEF Proc
<1> QED
  BY <1>1, <1>2 DEF Becomes, Proc

(* A handler that begins, or gets to its promotion, claims nothing. *)
LEMMA Begun ==
  ASSUME NEW p \in Procs, NEW pc \in {"poll.join", "leave.active"}, NEW u \in Users, Begin(p, pc, u)
  PROVE  \E r \in Proc : /\ Sane(r) /\ ClaimOf(r) = 0 /\ r.pc = pc /\ r.user = u
                         /\ proc' = [proc EXCEPT ![p] = r]
<1>1. At(pc, u) \in Proc /\ Sane(At(pc, u)) /\ ClaimOf(At(pc, u)) = 0
  BY MaxAgeAssumption DEF At, Proc, ProcPC, Sane, ClaimOf
<1>2. At(pc, u).pc = pc /\ At(pc, u).user = u
  BY DEF At
<1>3. proc' = [proc EXCEPT ![p] = At(pc, u)]
  BY Zenon DEF Begin
<1> QED
  BY <1>1, <1>2, <1>3, Zenon

LEMMA Promoted ==
  ASSUME NEW p \in Procs, Promote(p)
  PROVE  \E r \in Proc : /\ Sane(r) /\ ClaimOf(r) = 0 /\ r.pc = "count"
                         /\ proc' = [proc EXCEPT ![p] = r]
<1> DEFINE r == At("count", None)
<1>1. r \in Proc /\ Sane(r) /\ ClaimOf(r) = 0 /\ r.pc = "count"
  BY MaxAgeAssumption DEF At, Proc, ProcPC, Sane, ClaimOf
<1>2. proc' = [proc EXCEPT ![p] = r]
  BY Zenon DEF Promote
<1> QED
  BY <1>1, <1>2, Zenon

LEMMA ClaimsNatural ==
  ASSUME RoomInv, NEW p \in Procs
  PROVE  ClaimOf(proc[p]) \in Nat
BY RoomFacts, SaneClaims, MaxActiveAssumption

(* A step that leaves the pool alone and claims no more. *)
LEMMA OneMovesAside ==
  ASSUME RoomInv, NEW p \in Procs, NEW r \in Proc, Sane(r),
         proc' = [proc EXCEPT ![p] = r], QueueOK', active' = active, removed' \subseteq Users,
         ClaimOf(r) <= ClaimOf(proc[p])
  PROVE  RoomInv'
<1>1. ClaimOf(r) \in Nat
  BY SaneClaims, MaxActiveAssumption
<1>2. Cardinality(active) + ClaimOf(r) <= Cardinality(active) + ClaimOf(proc[p])
  BY <1>1, RoomFacts, ClaimsNatural
<1> QED
  BY <1>2, RoomFacts, OneMoves

LEMMA PollKeeps ==
  ASSUME RoomInv, NEW p \in Procs, NEW u \in Users, Poll(p, u)
  PROVE  RoomInv'
<1>1. PICK r \in Proc : Sane(r) /\ ClaimOf(r) = 0 /\ proc' = [proc EXCEPT ![p] = r]
  BY Begun DEF Poll
<1>2. QueueOK' /\ active' = active /\ removed' = removed
  BY RoomFacts, QueueUnchanged DEF Poll
<1>3. ClaimOf(r) <= ClaimOf(proc[p])
  BY <1>1, ClaimsNatural
<1> QED
  BY <1>1, <1>2, <1>3, RoomFacts, OneMovesAside

(* The stamp is no older than the answer that it follows. *)
LEMMA JoinsWith ==
  ASSUME RoomInv, NEW p \in Procs, PollJoin(p)
  PROVE  /\ proc[p].user \in Users
         /\ \E stamp \in 0 .. MaxAge : Joined(proc[p].user, stamp)
<1>1. proc[p] \in Proc /\ Sane(proc[p])
  BY RoomFacts
<1>2. PICK stamp \in 0 .. proc[p].since : Joined(proc[p].user, stamp)
  BY DEF PollJoin
<1>3. stamp \in 0 .. MaxAge
  BY <1>1, MaxAgeAssumption DEF Proc
<1> QED
  BY <1>1, <1>2, <1>3 DEF Sane, PollJoin

LEMMA PollJoinKeeps ==
  ASSUME RoomInv, NEW p \in Procs, PollJoin(p)
  PROVE  RoomInv'
<1>1. PICK r \in Proc : Sane(r) /\ ClaimOf(r) = 0 /\ proc' = [proc EXCEPT ![p] = r]
  BY Promoted DEF PollJoin
<1>2. QueueOK'
  BY RoomFacts, JoinsWith, JoinedKeeps
<1>3. active' = active /\ removed' = removed
  BY DEF PollJoin
<1>4. ClaimOf(r) <= ClaimOf(proc[p])
  BY <1>1, ClaimsNatural
<1> QED
  BY <1>1, <1>2, <1>3, <1>4, RoomFacts, OneMovesAside

LEMMA LeaveQueueKeeps ==
  ASSUME RoomInv, NEW p \in Procs, NEW u \in Users, LeaveQueue(p, u)
  PROVE  RoomInv'
<1>1. PICK r \in Proc : Sane(r) /\ ClaimOf(r) = 0 /\ proc' = [proc EXCEPT ![p] = r]
  BY Begun DEF LeaveQueue
<1>2. QueueOK'
  BY RoomFacts, WithoutKeeps DEF LeaveQueue
<1>3. active' = active /\ removed' \subseteq Users
  BY RoomFacts DEF LeaveQueue
<1>4. ClaimOf(r) <= ClaimOf(proc[p])
  BY <1>1, ClaimsNatural
<1> QED
  BY <1>1, <1>2, <1>3, <1>4, RoomFacts, OneMovesAside

(* Whoever is taken out of the pool makes it no larger. *)
LEMMA PoolShrinks ==
  ASSUME RoomInv, NEW u
  PROVE  /\ active \ {u} \subseteq Users /\ IsFiniteSet(active \ {u})
         /\ Cardinality(active \ {u}) \in Nat
         /\ Cardinality(active \ {u}) <= Cardinality(active)
<1>1. active \subseteq Users /\ IsFiniteSet(active)
  BY DEF RoomInv, TypeOK
<1> QED
  BY <1>1, FS_Subset, FS_CardinalityType

(* SREM, and then the promotion. *)
LEMMA PoolLeft ==
  ASSUME RoomInv, NEW p \in Procs, NEW u, Promote(p), active' = active \ {u},
         UNCHANGED queue, removed' \subseteq Users
  PROVE  RoomInv'
<1>1. PICK r \in Proc : Sane(r) /\ ClaimOf(r) = 0 /\ proc' = [proc EXCEPT ![p] = r]
  BY Promoted
<1>2. /\ active' \subseteq Users /\ IsFiniteSet(active')
      /\ Cardinality(active') \in Nat /\ Cardinality(active') <= Cardinality(active)
  BY PoolShrinks
<1>3. Cardinality(active') + ClaimOf(r) <= Cardinality(active) + ClaimOf(proc[p])
  BY <1>1, <1>2, RoomFacts, ClaimsNatural
<1>4. QueueOK'
  BY RoomFacts, QueueUnchanged
<1> QED
  BY <1>1, <1>2, <1>3, <1>4, OneMoves

LEMMA LeavePoolKeeps ==
  ASSUME RoomInv, NEW p \in Procs, LeavePool(p)
  PROVE  RoomInv'
BY RoomFacts, PoolLeft DEF LeavePool

LEMMA FreeSlotKeeps ==
  ASSUME RoomInv, NEW p \in Procs, NEW u \in Users, FreeSlot(p, u)
  PROVE  RoomInv'
<1>1. removed' \subseteq Users
  BY RoomFacts DEF FreeSlot
<1> QED
  BY <1>1, PoolLeft DEF FreeSlot

(* A handler that ends claims nothing. *)
LEMMA RestKeeps ==
  ASSUME RoomInv, NEW p \in Procs, Rest(p), active' = active, removed' = removed, QueueOK'
  PROVE  RoomInv'
<1>1. proc' = [proc EXCEPT ![p] = Resting]
  BY DEF Rest
<1>2. ClaimOf(Resting) <= ClaimOf(proc[p])
  BY RestingSane, ClaimsNatural
<1> QED
  BY <1>1, <1>2, RestingSane, RoomFacts, OneMovesAside

LEMMA CountKeeps ==
  ASSUME RoomInv, NEW p \in Procs, Count(p)
  PROVE  RoomInv'
<1> DEFINE v == MAX_ACTIVE_USERS - Cardinality(active)
           r == [proc[p] EXCEPT !.pc = "range", !.vacancies = v]
<1>1. /\ v \in Nat /\ v <= MAX_ACTIVE_USERS
      /\ Cardinality(active) + v <= MAX_ACTIVE_USERS
  BY RoomFacts, MaxActiveAssumption DEF Count
<1>2. proc' = [proc EXCEPT ![p] = r]
  BY RoomFacts DEF Count
<1> HIDE DEF v
<1>3. r \in Proc /\ r.pc = "range" /\ r.vacancies = v
  BY <1>1, RoomFacts DEF Proc, ProcPC
<1> HIDE DEF r
<1>4. Sane(r) /\ ClaimOf(r) = v
  BY <1>1, <1>3 DEF Sane, ClaimOf
<1>5. QueueOK' /\ active' = active /\ removed' = removed
  BY RoomFacts, QueueUnchanged DEF Count
<1>6. Cardinality(active') + ClaimOf(r) <= MAX_ACTIVE_USERS
  BY <1>1, <1>4, <1>5
<1> QED
  BY <1>2, <1>3, <1>4, <1>5, <1>6, RoomFacts, OneMoves

LEMMA HeadOfQueueKeeps ==
  ASSUME RoomInv, NEW p \in Procs, HeadOfQueue(p)
  PROVE  RoomInv'
<1> DEFINE v == proc[p].vacancies
<1>1. v \in Nat /\ v <= MAX_ACTIVE_USERS
  BY RoomFacts DEF Proc, Sane, HeadOfQueue
<1>2. PICK F \in First(v) : proc' = [proc EXCEPT ![p].pc = "admit", ![p].next = F]
  BY DEF HeadOfQueue
<1>3. F \subseteq Users /\ IsFiniteSet(F) /\ Cardinality(F) <= v
  BY <1>1, RoomFacts, FirstProperties
<1> DEFINE r == [proc[p] EXCEPT !.pc = "admit", !.next = F]
<1>4. proc' = [proc EXCEPT ![p] = r]
  BY <1>2, RoomFacts
<1>5. r \in Proc /\ r.pc = "admit" /\ r.vacancies = v /\ r.next = F
  BY <1>3, RoomFacts DEF Proc, ProcPC
<1> HIDE DEF r
<1>6. Sane(r) /\ ClaimOf(r) = v
  BY <1>1, <1>3, <1>5 DEF Sane, ClaimOf
<1>7. ClaimOf(proc[p]) = v
  BY DEF HeadOfQueue, ClaimOf
<1>8. ClaimOf(r) <= ClaimOf(proc[p])
  BY <1>1, <1>6, <1>7
<1>9. QueueOK' /\ active' = active /\ removed' = removed
  BY RoomFacts, QueueUnchanged DEF HeadOfQueue
<1> QED
  BY <1>4, <1>5, <1>6, <1>8, <1>9, RoomFacts, OneMovesAside

LEMMA AdmitKeeps ==
  ASSUME RoomInv, NEW p \in Procs, Admit(p)
  PROVE  RoomInv'
<1> DEFINE r == [proc[p] EXCEPT !.pc = "dequeue"]
           N == proc[p].next
<1>1. r \in Proc /\ r.pc = "dequeue" /\ proc' = [proc EXCEPT ![p] = r]
  BY MovedOn DEF Admit, ProcPC
<1> HIDE DEF r
<1>2. Sane(r) /\ ClaimOf(r) = 0
  BY <1>1 DEF Sane, ClaimOf
<1>3. /\ proc[p].vacancies \in Nat /\ ClaimOf(proc[p]) = proc[p].vacancies
      /\ N \subseteq Users /\ IsFiniteSet(N) /\ Cardinality(N) <= proc[p].vacancies
  BY RoomFacts DEF Admit, Proc, Sane, ClaimOf
<1>4. Cardinality(N) \in Nat
  BY <1>3, FS_CardinalityType
<1>5. active' = active \cup N /\ QueueOK' /\ removed' = removed
  BY RoomFacts, QueueUnchanged DEF Admit
<1> HIDE DEF N
<1>6. /\ active' \subseteq Users /\ IsFiniteSet(active') /\ Cardinality(active') \in Nat
      /\ Cardinality(active') = Cardinality(active) + Cardinality(N) - Cardinality(active \cap N)
      /\ Cardinality(active \cap N) \in Nat
  BY <1>3, <1>5, RoomFacts, FS_Union, FS_Intersection, FS_CardinalityType
<1>7. Cardinality(active') + ClaimOf(r) <= Cardinality(active) + ClaimOf(proc[p])
  BY <1>2, <1>3, <1>4, <1>6, RoomFacts
<1> QED
  BY <1>1, <1>2, <1>5, <1>6, <1>7, RoomFacts, OneMoves

(* clear_existing_queues: the pool is empty, and what the jobs of the       *)
(* worker still claim is within the bound.                                  *)
LEMMA ApiRestartKeeps ==
  ASSUME RoomInv, ApiRestart
  PROVE  RoomInv'
<1>1. /\ proc \in [Procs -> Proc] /\ \A p \in Procs : Sane(proc[p])
      /\ active \subseteq Users /\ waiting \subseteq Users /\ removed \subseteq Users /\ QueueOK
  BY DEF RoomInv, TypeOK
<1>2. /\ proc' = [p \in Procs |-> IF p \in Slots THEN Resting ELSE proc[p]]
      /\ Without(waiting) /\ active' = {}
      /\ removed' = removed \cup waiting \cup active
  BY DEF ApiRestart
<1>3. /\ proc' \in [Procs -> Proc]
      /\ \A p \in Procs : proc'[p] \in Proc /\ Sane(proc'[p])
  BY <1>1, <1>2, RestingSane
<1>4. QueueOK' /\ removed' \subseteq Users
  BY <1>1, <1>2, WithoutKeeps
<1>5. TypeOK'
  BY <1>2, <1>3, <1>4 DEF TypeOK, QueueOK
<1> DEFINE d == [q \in Procs |-> ClaimOf(proc'[q])]
<1>6. Claimed' = Tokens(Procs, d)
  <2>1. Claims' = d
    BY DEF Claims, ClaimOf
  <2> QED
    BY <2>1 DEF Claimed, Tokens
<1>7. \A q \in Procs : d[q] \in 0 .. MAX_ACTIVE_USERS
  BY <1>3, SaneClaims
<1> HIDE DEF d
<1>8. /\ Cardinality(Claimed') \in Nat
      /\ Cardinality(Claimed') <= Cardinality(Procs) * MAX_ACTIVE_USERS
  BY <1>6, <1>7, TokensBounded, WaitingProcsAssumption, MaxActiveAssumption
<1>9. IsFiniteSet(active') /\ Cardinality(active') = 0
  BY <1>2, FS_EmptySet
<1>10. OverAdmissionBound'
  BY <1>8, <1>9 DEF OverAdmissionBound
<1> QED
  BY <1>3, <1>4, <1>5, <1>9, <1>10 DEF RoomInv

(* What touches neither the pool nor a claim keeps the invariant. *)
LEMMA PoolAlone ==
  ASSUME RoomInv, QueueOK', active' = active, removed' \subseteq Users,
         proc' \in [Procs -> Proc],
         \A p \in Procs : Sane(proc'[p]) /\ ClaimOf(proc'[p]) = ClaimOf(proc[p])
  PROVE  RoomInv'
<1>1. TypeOK'
  BY DEF RoomInv, TypeOK, QueueOK
<1>2. Claims' = Claims
  BY DEF Claims, ClaimOf
<1>3. OverAdmissionBound'
  BY <1>2 DEF RoomInv, OverAdmissionBound, Claimed
<1> QED
  BY <1>1, <1>3 DEF RoomInv

LEMMA QueueExpiresKeeps ==
  ASSUME RoomInv, QueueExpires
  PROVE  RoomInv'
<1>1. QueueOK /\ waiting \subseteq Users /\ removed \subseteq Users /\ proc \in [Procs -> Proc]
  BY DEF RoomInv, TypeOK
<1>2. QueueOK'
  BY <1>1, WithoutKeeps DEF QueueExpires
<1>3. active' = active /\ removed' \subseteq Users /\ proc' = proc
  BY <1>1 DEF QueueExpires
<1> QED
  BY <1>1, <1>2, <1>3, PoolAlone DEF RoomInv

LEMMA TickKeepsRoom ==
  ASSUME RoomInv, Tick
  PROVE  RoomInv'
<1>1. /\ QueueOK /\ removed \subseteq Users /\ proc \in [Procs -> Proc]
      /\ \A p \in Procs : Sane(proc[p])
  BY DEF RoomInv, TypeOK
<1>2. QueueOK' /\ active' = active /\ removed' = removed
  BY <1>1, TickKeeps DEF Tick
<1>3. ASSUME NEW p \in Procs
      PROVE  /\ proc'[p] \in Proc
             /\ Sane(proc'[p]) /\ ClaimOf(proc'[p]) = ClaimOf(proc[p])
  <2>1. proc[p] \in Proc /\ proc[p].since \in 0 .. MaxAge /\ proc[p].since < MaxAge
    BY <1>1 DEF Tick, Proc
  <2>2. CASE proc[p].pc = "poll.join"
    <3> DEFINE k == proc[p].since + 1
               r == [proc[p] EXCEPT !.since = k]
    <3>1. proc'[p] = r
      BY <2>2 DEF Tick
    <3>2. k \in 0 .. MaxAge
      BY <2>1, MaxAgeAssumption
    <3> HIDE DEF k
    <3>3. r \in Proc /\ r.pc = "poll.join" /\ r.user = proc[p].user
      BY <2>1, <2>2, <3>2 DEF Proc
    <3> HIDE DEF r
    <3> QED
      BY <1>1, <2>2, <3>1, <3>3 DEF Sane, ClaimOf
  <2>3. CASE proc[p].pc # "poll.join"
    <3>1. proc'[p] = proc[p]
      BY <2>3 DEF Tick
    <3> QED
      BY <1>1, <2>1, <3>1
  <2> QED
    BY <2>2, <2>3
<1>4. proc' \in [Procs -> Proc]
  <2>1. proc' = [p \in Procs |-> proc'[p]]
    BY DEF Tick
  <2> QED
    BY <1>3, <2>1
<1> QED
  BY <1>1, <1>2, <1>3, <1>4, PoolAlone

LEMMA RoomStep == RoomInv /\ [Next]_vars => RoomInv'
<1> SUFFICES ASSUME RoomInv, [Next]_vars PROVE RoomInv'
  OBVIOUS
<1>0. QueueOK
  BY DEF RoomInv
<1>1. ASSUME NEW p \in Procs, CountFull(p) \/ QueueEmpty(p) \/ Abort(p)
      PROVE  RoomInv'
  <2>1. Rest(p) /\ UNCHANGED queue /\ active' = active /\ removed' = removed
    BY <1>1 DEF CountFull, QueueEmpty, Abort
  <2> QED
    BY <1>0, <2>1, QueueUnchanged, RestKeeps
<1>2. ASSUME NEW p \in Procs, Dequeue(p)
      PROVE  RoomInv'
  <2>1. QueueOK'
    BY <1>0, <1>2, WithoutKeeps DEF Dequeue
  <2>2. Rest(p) /\ active' = active /\ removed' = removed
    BY <1>2 DEF Dequeue
  <2> QED
    BY <2>1, <2>2, RestKeeps
<1>3. ASSUME NEW p \in Procs, Step(p)
      PROVE  RoomInv'
  BY <1>1, <1>2, <1>3, PollJoinKeeps, LeavePoolKeeps, CountKeeps, HeadOfQueueKeeps, AdmitKeeps
     DEF Step
<1>4. ASSUME NEW p \in Slots, NEW u \in Users, Poll(p, u) \/ LeaveQueue(p, u)
      PROVE  RoomInv'
  <2>1. p \in Procs
    BY DEF Procs
  <2> QED
    BY <1>4, <2>1, PollKeeps, LeaveQueueKeeps
<1>5. CASE UNCHANGED vars
  BY <1>5 DEF vars, RoomInv, TypeOK, QueueOK, OverAdmissionBound, Claimed, Claims
<1> QED
  BY <1>1, <1>3, <1>4, <1>5, FreeSlotKeeps, ApiRestartKeeps, QueueExpiresKeeps, TickKeepsRoom
     DEF Next

LEMMA RoomAlways == Spec => []RoomInv
BY RoomInit, RoomStep, PTL DEF Spec

(* The queue and the pool hold users, a score is no older than the bound    *)
(* and no younger than its member's stay in the queue, and a suspended      *)
(* handler knows only users and numbers.                                    *)
THEOREM RoomTypeCorrect == Spec => []TypeOK
<1>1. RoomInv => TypeOK
  BY DEF RoomInv
<1> QED
  BY <1>1, RoomAlways, PTL

(* promote_queue_and_notify has no lock: promotions that count the same     *)
(* vacancies overshoot the pool, but never by more than a full pool for     *)
(* each of them.                                                            *)
THEOREM PoolIsBounded == Spec => []OverAdmissionBound
<1>1. RoomInv => OverAdmissionBound
  BY DEF RoomInv
<1> QED
  BY <1>1, RoomAlways, PTL

-----------------------------------------------------------------------------
(* The invariant of the order.  Leave who was taken out aside: whoever a    *)
(* promotion takes off the queue is in the pool, and whoever it is about to *)
(* let in still waits, behind nobody whom it does not let in as well.       *)

Orderly(r) ==
  /\ r.pc = "leave.active" => r.user \in removed
  /\ r.pc = "dequeue" => r.next \ removed \subseteq active
  /\ r.pc = "admit" =>
       \A u \in r.next \ (active \cup removed) :
         u \in waiting /\ \A v \in Users : Ahead(v, u) => v \in r.next

OrderInv == \A p \in Procs : Orderly(proc[p])

(* Whoever waits, out of the pool, and is not taken out goes on waiting     *)
(* behind nobody new, and nobody else leaves the pool.                      *)
Patient ==
  /\ removed \subseteq removed'
  /\ active \ removed' \subseteq active'
  /\ \A u \in Users \ (removed' \cup active) :
       u \in waiting => u \in waiting' /\ \A v \in Users : Ahead(v, u)' => Ahead(v, u)

LEMMA OthersOrderly ==
  ASSUME RoomInv, Patient, NEW q \in Procs,
         proc'[q].pc = proc[q].pc, proc'[q].user = proc[q].user, proc'[q].next = proc[q].next,
         Orderly(proc[q])
  PROVE  Orderly(proc[q])'
<1> DEFINE r == proc[q]
<1>1. r.next \subseteq Users
  BY RoomFacts DEF Proc
<1> HIDE DEF r
<1>2. r.pc = "leave.active" => r.user \in removed'
  BY DEF Orderly, Patient, r
<1>3. r.pc = "dequeue" => r.next \ removed' \subseteq active'
  BY DEF Orderly, Patient, r
<1>4. ASSUME r.pc = "admit", NEW u \in r.next \ (active' \cup removed')
      PROVE  u \in waiting' /\ \A v \in Users : Ahead(v, u)' => v \in r.next
  <2>1. u \in Users /\ u \notin removed' /\ u \notin active /\ u \notin removed
    BY <1>1, <1>4 DEF Patient
  <2>2. u \in waiting /\ \A v \in Users : Ahead(v, u) => v \in r.next
    BY <1>4, <2>1 DEF Orderly, r
  <2> QED
    BY <2>1, <2>2 DEF Patient
<1>5. proc'[q].pc = r.pc /\ proc'[q].user = r.user /\ proc'[q].next = r.next
  BY DEF r
<1> QED
  BY <1>2, <1>3, <1>4, <1>5 DEF Orderly

(* A step that leaves the queue alone is patient if the pool loses only who *)
(* is taken out.                                                            *)
LEMMA QueueAlone ==
  ASSUME UNCHANGED queue, removed \subseteq removed', active \ removed' \subseteq active'
  PROVE  Patient
BY DEF Patient, Ahead, queue

(* So is a ZREM of who is taken out or is in the pool, ... *)
LEMMA DropPatient ==
  ASSUME RoomInv, NEW S, Without(S), removed \subseteq removed', active \ removed' \subseteq active',
         S \cap Users \subseteq removed' \cup active
  PROVE  Patient
<1>1. /\ waiting' = waiting \ S /\ waiting \subseteq Users
      /\ \A v \in Users \ S : age'[v] = age[v] /\ standing'[v] = standing[v]
  BY WithoutKeeps DEF RoomInv, TypeOK
<1>2. \A u \in Users \ (removed' \cup active) :
        u \in waiting => u \in waiting' /\ \A v \in Users : Ahead(v, u)' => Ahead(v, u)
  BY <1>1 DEF Ahead
<1> QED
  BY <1>2 DEF Patient

(* ... a ZADD NX, ... *)
LEMMA JoinPatient ==
  ASSUME RoomInv, NEW p \in Procs, PollJoin(p)
  PROVE  Patient
<1>1. QueueOK /\ waiting \subseteq Users
  BY DEF RoomInv, TypeOK
<1>2. /\ waiting \subseteq waiting' /\ waiting' \subseteq Users
      /\ \A v \in waiting : age'[v] = age[v]
      /\ \A v \in Users : standing'[v] = standing[v]
      /\ \A v \in waiting' \ waiting : standing[v] = 0
  BY <1>1, JoinsWith, JoinedKeeps DEF QueueOK
<1>3. \A u \in waiting : age[u] \in Nat
  BY <1>1, MaxAgeAssumption DEF QueueOK
<1>4. \A u \in waiting, v \in Users : Ahead(v, u)' => Ahead(v, u)
  BY <1>2, <1>3 DEF Ahead
<1>5. active' = active /\ removed' = removed
  BY DEF PollJoin
<1> QED
  BY <1>2, <1>4, <1>5 DEF Patient

(* ... and the passing of time. *)
LEMMA TickPatient ==
  ASSUME RoomInv, Tick
  PROVE  Patient
<1>1. QueueOK /\ waiting \subseteq Users
  BY DEF RoomInv, TypeOK
<1>2. \A v \in waiting : age'[v] = age[v] + 1 /\ standing'[v] = standing[v] + 1
  BY <1>1, TickKeeps
<1>3. \A u \in waiting : age[u] \in Nat /\ standing[u] \in Nat
  BY <1>1, MaxAgeAssumption DEF QueueOK
<1>4. waiting' = waiting /\ active' = active /\ removed' = removed
  BY DEF Tick
<1>5. \A u, v \in waiting : standing'[v] > age'[u] => standing[v] > age[u]
  BY <1>2, <1>3
<1>6. \A u \in waiting, v \in Users : Ahead(v, u)' => Ahead(v, u)
  BY <1>4, <1>5 DEF Ahead
<1> QED
  BY <1>4, <1>6 DEF Patient

(* Every step is patient. *)
LEMMA StepsPatient ==
  ASSUME RoomInv, OrderInv, [Next]_vars
  PROVE  Patient
<1>1. ASSUME NEW p \in Procs, Step(p) \/ Abort(p)
      PROVE  Patient
  <2>1. CASE PollJoin(p)
    BY <2>1, JoinPatient
  <2>2. CASE LeavePool(p)
    <3>1. proc[p].user \in removed
      BY <2>2 DEF OrderInv, Orderly, LeavePool
    <3>2. UNCHANGED queue /\ removed' = removed /\ active' = active \ {proc[p].user}
      BY <2>2 DEF LeavePool
    <3> QED
      BY <3>1, <3>2, QueueAlone
  <2>3. CASE Admit(p)
    <3>1. UNCHANGED queue /\ removed' = removed /\ active \subseteq active'
      BY <2>3 DEF Admit
    <3> QED
      BY <3>1, QueueAlone
  <2>4. CASE Dequeue(p)
    <3>1. Without(proc[p].next) /\ active' = active /\ removed' = removed
      BY <2>4 DEF Dequeue
    <3>2. proc[p].next \ removed \subseteq active
      BY <2>4 DEF OrderInv, Orderly, Dequeue
    <3> QED
      BY <3>1, <3>2, DropPatient
  <2>5. CASE Count(p) \/ CountFull(p) \/ HeadOfQueue(p) \/ QueueEmpty(p) \/ Abort(p)
    <3>1. UNCHANGED queue /\ removed' = removed /\ active' = active
      BY <2>5 DEF Count, CountFull, HeadOfQueue, QueueEmpty, Abort
    <3> QED
      BY <3>1, QueueAlone
  <2> QED
    BY <1>1, <2>1, <2>2, <2>3, <2>4, <2>5 DEF Step
<1>2. ASSUME NEW p \in Procs, NEW u \in Users, FreeSlot(p, u)
      PROVE  Patient
  <2>1. UNCHANGED queue /\ active' = active \ {u} /\ removed' = removed \cup ({u} \cap active)
    BY <1>2 DEF FreeSlot
  <2> QED
    BY <2>1, QueueAlone
<1>3. ASSUME NEW p \in Slots, NEW u \in Users, Poll(p, u)
      PROVE  Patient
  <2>1. UNCHANGED queue /\ active' = active /\ removed' = removed
    BY <1>3 DEF Poll
  <2> QED
    BY <2>1, QueueAlone
<1>4. ASSUME NEW p \in Slots, NEW u \in Users, LeaveQueue(p, u)
      PROVE  Patient
  <2>1. Without({u}) /\ active' = active /\ removed' = removed \cup {u}
    BY <1>4 DEF LeaveQueue
  <2> QED
    BY <2>1, DropPatient
<1>5. CASE QueueExpires \/ ApiRestart
  <2>1. /\ Without(waiting) /\ removed \cup waiting \subseteq removed'
        /\ active \ removed' \subseteq active'
    BY <1>5 DEF QueueExpires, ApiRestart
  <2> QED
    BY <2>1, DropPatient
<1>6. CASE UNCHANGED vars
  BY <1>6, QueueAlone DEF vars, queue
<1> QED
  BY <1>1, <1>2, <1>3, <1>4, <1>5, <1>6, TickPatient DEF Next

LEMMA OrderInit == Init => OrderInv
BY DEF Init, OrderInv, Orderly, Resting, At

(* Of the handler that takes a step only what it promises where it is next  *)
(* matters.                                                                 *)
LEMMA MoverOrderly ==
  ASSUME RoomInv, OrderInv, NEW p \in Procs, Step(p)
  PROVE  Orderly(proc[p])' /\ \A q \in Procs \ {p} : proc'[q] = proc[q]
<1>1. proc \in [Procs -> Proc] /\ proc[p] \in Proc /\ QueueOK
  BY RoomFacts
<1>2. \A q \in Procs \ {p} : proc'[q] = proc[q]
  BY <1>1 DEF Step, PollJoin, LeavePool, Count, CountFull, HeadOfQueue, QueueEmpty, Admit, Dequeue,
              Becomes, Promote, Rest, At
<1>3. CASE PollJoin(p) \/ LeavePool(p) \/ Count(p)
  <2>1. proc'[p].pc \in {"count", "range"}
    BY <1>1, <1>3 DEF PollJoin, LeavePool, Count, Promote, Resting, At, Proc
  <2> QED
    BY <1>2, <2>1 DEF Orderly
<1>4. CASE CountFull(p) \/ QueueEmpty(p) \/ Dequeue(p)
  <2>1. proc'[p].pc = "idle"
    BY <1>1, <1>4 DEF CountFull, QueueEmpty, Dequeue, Rest, Resting, At
  <2> QED
    BY <1>2, <2>1 DEF Orderly
<1>5. CASE HeadOfQueue(p)
  <2>1. PICK F \in First(proc[p].vacancies) :
          proc' = [proc EXCEPT ![p].pc = "admit", ![p].next = F]
    BY <1>5 DEF HeadOfQueue
  <2>2. F \subseteq waiting /\ \A u \in F, v \in Users : Ahead(v, u) => v \in F
    BY <1>1, FirstProperties DEF Proc
  <2>3. proc'[p].pc = "admit" /\ proc'[p].next = F
    BY <1>1, <2>1 DEF Proc
  <2>4. waiting' = waiting /\ \A u, v : Ahead(u, v)' <=> Ahead(u, v)
    BY <1>5 DEF HeadOfQueue, Ahead, queue
  <2> QED
    BY <1>2, <2>2, <2>3, <2>4 DEF Orderly
<1>6. CASE Admit(p)
  <2>1. proc'[p].pc = "dequeue" /\ proc'[p].next = proc[p].next
    BY <1>1, <1>6 DEF Admit, Becomes, Proc
  <2>2. proc'[p].next \subseteq active'
    BY <1>6, <2>1 DEF Admit
  <2> QED
    BY <1>2, <2>1, <2>2 DEF Orderly
<1> QED
  BY <1>2, <1>3, <1>4, <1>5, <1>6 DEF Step

LEMMA OrderStep == RoomInv /\ OrderInv /\ [Next]_vars => OrderInv'
<1> SUFFICES ASSUME RoomInv, OrderInv, [Next]_vars PROVE OrderInv'
  OBVIOUS
<1>1. Patient
  BY StepsPatient
<1>2. proc \in [Procs -> Proc]
  BY DEF RoomInv, TypeOK
<1>3. ASSUME NEW q \in Procs, proc'[q] = proc[q]
      PROVE  Orderly(proc[q])'
  BY <1>1, <1>3, OthersOrderly DEF OrderInv
<1>4. ASSUME NEW q \in Procs, proc'[q].pc \in {"idle", "poll.join", "count"}
      PROVE  Orderly(proc[q])'
  BY <1>4 DEF Orderly
<1>5. ASSUME NEW p \in Procs, Step(p)
      PROVE  OrderInv'
  BY <1>3, <1>5, MoverOrderly DEF OrderInv
<1>6. ASSUME NEW p \in Procs, Abort(p)
      PROVE  OrderInv'
  <2>1. \A q \in Procs : proc'[q] = IF q = p THEN Resting ELSE proc[q]
    BY <1>2, <1>6 DEF Abort, Rest
  <2> QED
    BY <1>3, <1>4, <2>1 DEF OrderInv, Resting, At
<1>7. ASSUME NEW p \in Procs, NEW u \in Users, FreeSlot(p, u)
      PROVE  OrderInv'
  <2>1. \A q \in Procs \ {p} : proc'[q] = proc[q]
    BY <1>2, <1>7 DEF FreeSlot, Promote, At
  <2>2. proc'[p].pc = "count"
    BY <1>2, <1>7 DEF FreeSlot, Promote, Resting, At
  <2> QED
    BY <1>3, <1>4, <2>1, <2>2 DEF OrderInv
<1>8. ASSUME NEW p \in Slots, NEW u \in Users, Poll(p, u)
      PROVE  OrderInv'
  <2>1. p \in Procs
    BY DEF Procs
  <2>2. \A q \in Procs \ {p} : proc'[q] = proc[q]
    BY <1>2, <1>8 DEF Poll, Begin, At
  <2>3. proc'[p].pc = "poll.join"
    BY <1>2, <1>8, <2>1 DEF Poll, Begin, Resting, At
  <2> QED
    BY <1>3, <1>4, <2>2, <2>3 DEF OrderInv
<1>9. ASSUME NEW p \in Slots, NEW u \in Users, LeaveQueue(p, u)
      PROVE  OrderInv'
  <2>1. p \in Procs
    BY DEF Procs
  <2>2. \A q \in Procs \ {p} : proc'[q] = proc[q]
    BY <1>2, <1>9 DEF LeaveQueue, Begin, At
  <2>3. proc'[p].pc = "leave.active" /\ proc'[p].user = u
    BY <1>2, <1>9, <2>1 DEF LeaveQueue, Begin, Resting, At
  <2>4. u \in removed'
    BY <1>9 DEF LeaveQueue
  <2>5. Orderly(proc[p])'
    BY <2>3, <2>4 DEF Orderly
  <2> QED
    BY <1>3, <2>2, <2>5 DEF OrderInv
<1>10. CASE ApiRestart
  <2>1. \A q \in Procs : proc'[q] = Resting \/ proc'[q] = proc[q]
    BY <1>10 DEF ApiRestart
  <2> QED
    BY <1>3, <1>4, <2>1 DEF OrderInv, Resting, At
<1>11. CASE QueueExpires \/ UNCHANGED vars
  <2>1. proc' = proc
    BY <1>11 DEF QueueExpires, vars
  <2> QED
    BY <1>3, <2>1 DEF OrderInv
<1>12. CASE Tick
  <2>1. ASSUME NEW q \in Procs
        PROVE  /\ proc'[q].pc = proc[q].pc /\ proc'[q].user = proc[q].user
               /\ proc'[q].next = proc[q].next
    BY <1>2, <1>12 DEF Tick, Proc
  <2> QED
    BY <1>1, <2>1, OthersOrderly DEF OrderInv
<1> QED
  BY <1>5, <1>6, <1>7, <1>8, <1>9, <1>10, <1>11, <1>12 DEF Next

LEMMA OrderAlways == Spec => [](RoomInv /\ OrderInv)
BY RoomInit, RoomStep, OrderInit, OrderStep, PTL DEF Spec

LEMMA NobodyLost ==
  ASSUME RoomInv, OrderInv, [Next]_vars, NEW u \in Users \ removed', u \in waiting, u \notin waiting'
  PROVE  u \in active'
<1>1. Patient
  BY StepsPatient
<1> QED
  BY <1>1 DEF Patient

(* Only Admit adds to the pool. *)
LEMMA OnlyAdmitAdds ==
  ASSUME [Next]_vars, NEW u \in Users, u \notin active, u \in active'
  PROVE  \E p \in Procs : Admit(p)
BY DEF Next, Step, PollJoin, LeavePool, Count, CountFull, HeadOfQueue, QueueEmpty, Dequeue, Abort,
       FreeSlot, Poll, LeaveQueue, QueueExpires, ApiRestart, Tick, vars

LEMMA NobodyOvertaken ==
  ASSUME RoomInv, OrderInv, [Next]_vars, NEW u \in Users \ removed', NEW v \in Users,
         u \notin active, u \in active', Ahead(v, u)
  PROVE  v \in active'
<1>1. PICK p \in Procs : Admit(p)
  BY OnlyAdmitAdds
<1>2. u \in proc[p].next /\ active' = active \cup proc[p].next /\ removed' = removed
  BY <1>1 DEF Admit
<1>3. v \in proc[p].next
  BY <1>1, <1>2 DEF OrderInv, Orderly, Admit
<1> QED
  BY <1>2, <1>3

(* promote_queue_and_notify adds to the pool before it takes off the queue: *)
(* short of leaving, of a place given up and of a queue that expires or is  *)
(* cleared, nobody ever loses their place, whatever handlers do at the same *)
(* time or leave half done.                                                 *)
THEOREM WaitersKeepTheirPlace == Spec => WaiterKeepsPlace
<1>1. ASSUME RoomInv, OrderInv, [Next]_vars
      PROVE  [\A u \in Users \ removed' : u \in waiting /\ u \notin waiting' => u \in active']_vars
  BY <1>1, NobodyLost
<1> QED
  BY <1>1, OrderAlways, PTL DEF Spec, WaiterKeepsPlace

(* A promotion works on the head of the queue as it was when it was read,   *)
(* scores are stamped before they are written and tie, and still nobody is  *)
(* let in before those who were in the queue a millisecond before they      *)
(* asked.                                                                   *)
THEOREM AdmissionIsInOrder == Spec => AdmittedInOrder
<1>1. ASSUME RoomInv, OrderInv, [Next]_vars
      PROVE  [\A u \in Users \ removed', v \in Users :
                u \notin active /\ u \in active' /\ Ahead(v, u) => v \in active']_vars
  BY <1>1, NobodyOvertaken
<1> QED
  BY <1>1, OrderAlways, PTL DEF Spec, AdmittedInOrder

-----------------------------------------------------------------------------
(* The refinement. *)

LEMMA LineCardinality == \A S : Line!Cardinality(S) = Cardinality(S)
BY Zenon DEF Line!Cardinality, Cardinality

(* Who the line does not count: who is in the pool or was taken out. *)
Off == active \cup removed

LEMMA LineInit == Init => Line!Init
BY DEF Init, Line!Init, InLine, LineAhead

(* The order among those who stay, when S leave the line. *)
LEMMA AheadRemains ==
  ASSUME NEW S, InLine' = InLine \ S,
         \A u, v \in InLine' : Ahead(v, u)' <=> Ahead(v, u)
  PROVE  LineAhead' = Line!AheadWithout(S)
<1>1. LineAhead' = {x \in InLine' \X InLine' : Ahead(x[1], x[2])}
  BY DEF LineAhead
<1>2. LineAhead' = {x \in LineAhead : x[1] \notin S /\ x[2] \notin S}
  BY DEF LineAhead
<1> QED
  BY <1>2 DEF Line!AheadWithout

LEMMA NothingMoves ==
  ASSUME InLine' = InLine, active' \ removed' = active \ removed,
         \A u, v \in InLine : Ahead(v, u)' <=> Ahead(v, u)
  PROVE  UNCHANGED Line!vars
<1>1. LineAhead' = LineAhead
  BY DEF LineAhead
<1> QED
  BY <1>1 DEF Line!vars

LEMMA JoinImplements ==
  ASSUME RoomInv, NEW p \in Procs, PollJoin(p)
  PROVE  [Line!Next]_(Line!vars)
<1>0. PICK x \in Users : x = proc[p].user
  BY JoinsWith
<1>1. PICK stamp \in 0 .. MaxAge : Joined(x, stamp)
  BY <1>0, JoinsWith
<1>2. QueueOK /\ waiting \subseteq Users
  BY DEF RoomInv, TypeOK
<1>3. waiting' = waiting \cup {x} /\ active' = active /\ removed' = removed
  BY <1>1 DEF PollJoin, Joined
<1>4. /\ \A v \in waiting : age'[v] = age[v]
      /\ \A v \in Users : standing'[v] = standing[v]
      /\ \A v \in waiting' \ waiting : standing[v] = 0
  BY <1>1, <1>2, JoinedKeeps
<1>5. \A u, v \in waiting : Ahead(v, u)' <=> Ahead(v, u)
  BY <1>2, <1>3, <1>4 DEF Ahead
<1>6. CASE x \in waiting \/ x \in Off
  <2>1. InLine' = InLine /\ InLine \subseteq waiting
    BY <1>3, <1>6 DEF InLine, Off
  <2>2. UNCHANGED Line!vars
    BY <1>3, <1>5, <2>1, NothingMoves
  <2> QED
    BY <2>2
<1>7. CASE x \notin waiting /\ x \notin Off
  <2> DEFINE front == {v \in InLine : standing[v] > stamp}
  <2>1. /\ InLine' = InLine \cup {x} /\ x \notin InLine /\ InLine \subseteq waiting
        /\ InLine \subseteq Users
    BY <1>2, <1>3, <1>7 DEF InLine, Off
  <2>2. age'[x] = stamp /\ standing'[x] = 0
    BY <1>1, <1>2, <1>3, <1>4, <1>7 DEF Joined, QueueOK
  <2>3. \A v \in InLine : Ahead(v, x)' <=> v \in front
    BY <1>2, <1>3, <1>4, <2>1, <2>2 DEF Ahead
  <2>4. \A u \in InLine' : ~Ahead(x, u)'
    <3>1. \A u \in Users : age'[u] \in Nat
      <4>1. QueueOK'
        BY <1>1, <1>2, JoinedKeeps
      <4> QED
        BY <4>1, MaxAgeAssumption DEF QueueOK
    <3>2. InLine' \subseteq Users
      BY <1>2, <2>1
    <3> QED
      BY <2>2, <3>1, <3>2 DEF Ahead
  <2>5. \A u, v \in InLine : Ahead(v, u)' <=> Ahead(v, u)
    BY <1>5, <2>1
  <2>6. LineAhead' = LineAhead \cup (front \X {x})
    <3> HIDE DEF front
    <3>1. front \subseteq InLine
      BY DEF front
    <3>2. ASSUME NEW u \in InLine', NEW v \in InLine'
          PROVE  Ahead(v, u)' <=> \/ v \in InLine /\ u \in InLine /\ Ahead(v, u)
                                  \/ v \in front /\ u = x
      BY <2>1, <2>3, <2>4, <2>5, <3>1, <3>2
    <3>3. LineAhead' = {y \in InLine' \X InLine' : Ahead(y[1], y[2])'}
      BY DEF LineAhead
    <3>4. \A y : y \in LineAhead' <=> y \in LineAhead \cup (front \X {x})
      <4>1. \A y : y \in LineAhead' <=>
              y \in InLine' \X InLine' /\ (\/ y[1] \in InLine /\ y[2] \in InLine /\ Ahead(y[1], y[2])
                                           \/ y[1] \in front /\ y[2] = x)
        BY <3>2, <3>3
      <4>2. \A y : y \in LineAhead <=> y \in InLine \X InLine /\ Ahead(y[1], y[2])
        BY DEF LineAhead
      <4> QED
        BY <2>1, <3>1, <4>1, <4>2
    <3> QED
      BY <3>4
  <2>7. \A y \in LineAhead : y[2] \in front => y[1] \in front
    <3>1. \A v \in InLine : /\ standing[v] \in Nat /\ age[v] \in Nat /\ standing[v] <= age[v]
      BY <1>2, <2>1, MaxAgeAssumption DEF QueueOK
    <3>2. \A y \in LineAhead : y[1] \in InLine /\ y[2] \in InLine /\ standing[y[1]] > age[y[2]]
      BY DEF LineAhead, Ahead
    <3>3. stamp \in Nat
      BY MaxAgeAssumption
    <3>4. ASSUME NEW v \in InLine, NEW u \in InLine, standing[v] > age[u], standing[u] > stamp
          PROVE  standing[v] > stamp
      BY <3>1, <3>3, <3>4
    <3> QED
      BY <3>2, <3>4
  <2>8. x \notin InLine \cup (active \ removed)
    BY <1>7, <2>1 DEF Off
  <2>9. Line!Join(x, front)
    <3> HIDE DEF front
    <3>1. front \subseteq InLine
      BY DEF front
    <3> QED
      BY <1>3, <2>1, <2>6, <2>7, <2>8, <3>1 DEF Line!Join
  <2>10. front \in SUBSET Users
    BY <2>1
  <2> QED
    BY <1>2, <2>9, <2>10 DEF Line!Next
<1> QED
  BY <1>6, <1>7

(* A step after which the line is without S is one that takes S out. *)
LEMMA TakingOut ==
  ASSUME NEW S \in SUBSET Users,
         InLine' = InLine \ S, active' \ removed' = (active \ removed) \ S,
         \A u, v \in InLine' : Ahead(v, u)' <=> Ahead(v, u)
  PROVE  [Line!Next]_(Line!vars)
<1>1. Line!TakeOut(S)
  BY AheadRemains DEF Line!TakeOut
<1> QED
  BY <1>1 DEF Line!Next

(* ZREM leaves the order of those who remain. *)
LEMMA OrderWithout ==
  ASSUME QueueOK, NEW S, Without(S)
  PROVE  \A u, v \in waiting' : Ahead(v, u)' <=> Ahead(v, u)
<1>1. /\ waiting' = waiting \ S /\ waiting \subseteq Users
      /\ \A v \in Users \ S : age'[v] = age[v] /\ standing'[v] = standing[v]
  BY WithoutKeeps DEF QueueOK
<1> QED
  BY <1>1 DEF Ahead

LEMMA LeaveImplements ==
  ASSUME RoomInv, NEW p \in Slots, NEW u \in Users, LeaveQueue(p, u)
  PROVE  [Line!Next]_(Line!vars)
<1>1. QueueOK /\ Without({u}) /\ active' = active /\ removed' = removed \cup {u}
  BY DEF LeaveQueue, RoomInv
<1>2. waiting' = waiting \ {u}
  BY <1>1 DEF Without
<1>3. InLine' = InLine \ {u} /\ InLine' \subseteq waiting'
  BY <1>1, <1>2 DEF InLine
<1>4. active' \ removed' = (active \ removed) \ {u}
  BY <1>1
<1>5. \A w, v \in InLine' : Ahead(v, w)' <=> Ahead(v, w)
  BY <1>1, <1>3, OrderWithout
<1> QED
  BY <1>3, <1>4, <1>5, TakingOut

LEMMA FreeImplements ==
  ASSUME RoomInv, NEW p \in Procs, NEW u \in Users, FreeSlot(p, u)
  PROVE  [Line!Next]_(Line!vars)
<1>1. UNCHANGED queue /\ active' = active \ {u} /\ removed' = removed \cup ({u} \cap active)
  BY DEF FreeSlot
<1> DEFINE S == {u} \cap active
<1>2. InLine' = InLine \ S
  BY <1>1 DEF InLine, queue
<1>3. active' \ removed' = (active \ removed) \ S
  BY <1>1
<1>4. \A w, v \in InLine' : Ahead(v, w)' <=> Ahead(v, w)
  BY <1>1 DEF Ahead, queue
<1> QED
  BY <1>2, <1>3, <1>4, TakingOut

LEMMA ExpiryImplements ==
  ASSUME RoomInv, QueueExpires \/ ApiRestart
  PROVE  [Line!Next]_(Line!vars)
<1>1. QueueOK /\ waiting \subseteq Users /\ active \subseteq Users
  BY DEF RoomInv, TypeOK
<1> DEFINE S == waiting \cup (active \ active')
<1>2. S \in SUBSET Users
  BY <1>1
<1>3. Without(waiting) /\ active' \subseteq active /\ removed' = removed \cup S
  BY DEF QueueExpires, ApiRestart
<1>4. waiting' = {}
  BY <1>3 DEF Without
<1>5. InLine' = {} /\ InLine \subseteq S
  BY <1>4 DEF InLine
<1>6. active' \ removed' = (active \ removed) \ S
  BY <1>3
<1> HIDE DEF S
<1> QED
  BY <1>2, <1>5, <1>6, TakingOut

LEMMA TickImplements ==
  ASSUME RoomInv, Tick
  PROVE  UNCHANGED Line!vars
<1>1. QueueOK /\ waiting \subseteq Users
  BY DEF RoomInv, TypeOK
<1>2. \A v \in waiting : age'[v] = age[v] + 1 /\ standing'[v] = standing[v] + 1
  BY <1>1, TickKeeps
<1>3. \A u \in waiting : age[u] \in Nat /\ standing[u] \in Nat
  BY <1>1, MaxAgeAssumption DEF QueueOK
<1>4. waiting' = waiting /\ active' = active /\ removed' = removed
  BY DEF Tick
<1>5. \A u, v \in waiting : standing'[v] > age'[u] <=> standing[v] > age[u]
  BY <1>2, <1>3
<1>6. \A u, v \in InLine : Ahead(v, u)' <=> Ahead(v, u)
  BY <1>4, <1>5 DEF Ahead, InLine
<1>7. InLine' = InLine
  BY <1>4 DEF InLine
<1> QED
  BY <1>4, <1>6, <1>7, NothingMoves

(* What is in the pool, and is counted, fits. *)
Fits == Cardinality(active \ removed) <= Cardinality(Procs) * MAX_ACTIVE_USERS

LEMMA PoolFits == RoomInv => Fits
<1> SUFFICES ASSUME RoomInv PROVE Fits
  OBVIOUS
<1>1. /\ IsFiniteSet(active)
      /\ Cardinality(active) + Cardinality(Claimed) <= Cardinality(Procs) * MAX_ACTIVE_USERS
  BY DEF RoomInv, OverAdmissionBound
<1>2. /\ Cardinality(active \ removed) <= Cardinality(active)
      /\ IsFiniteSet(active \ removed)
  BY <1>1, FS_Subset
<1>3. Cardinality(Claimed) \in Nat
  <2>1. \A p \in Procs : proc[p] \in Proc /\ Sane(proc[p])
    BY RoomFacts
  <2>2. \A p \in Procs : Claims[p] \in 0 .. MAX_ACTIVE_USERS
    BY <2>1, SaneClaims, ClaimsAre
  <2> QED
    BY <2>2, TokensBounded, ClaimsAre, WaitingProcsAssumption, MaxActiveAssumption
<1>4. /\ Cardinality(active) \in Nat /\ Cardinality(active \ removed) \in Nat
      /\ Cardinality(Procs) \in Nat /\ Cardinality(Procs) * MAX_ACTIVE_USERS \in Nat
  BY <1>1, <1>2, FS_CardinalityType, WaitingProcsAssumption, MaxActiveAssumption
<1> QED
  BY <1>1, <1>2, <1>3, <1>4 DEF Fits

LEMMA AdmitImplements ==
  ASSUME RoomInv, OrderInv, RoomInv', NEW p \in Procs, Admit(p)
  PROVE  [Line!Next]_(Line!vars)
<1> DEFINE N == proc[p].next
           G == N \ Off
<1>1. N \subseteq Users /\ waiting \subseteq Users
  BY RoomFacts DEF Proc
<1>2. UNCHANGED queue /\ active' = active \cup N /\ removed' = removed
  BY DEF Admit
<1>3. \A u \in G : u \in waiting /\ \A v \in Users : Ahead(v, u) => v \in N
  BY DEF OrderInv, Orderly, Admit, Off
<1> HIDE DEF N
<1>4. G \subseteq InLine /\ InLine' = InLine \ G
  BY <1>2, <1>3 DEF InLine, Off, queue
<1>5. \A y \in LineAhead : y[2] \in G => y[1] \in G
  BY <1>1, <1>3 DEF LineAhead, InLine, Off
<1>6. \A u, v \in InLine' : Ahead(v, u)' <=> Ahead(v, u)
  BY <1>2 DEF Ahead, queue
<1>7. LineAhead' = Line!AheadWithout(G)
  BY <1>4, <1>6, AheadRemains
<1>8. (active \ removed) \cup G = active' \ removed'
  BY <1>2 DEF Off
<1>9. Cardinality(active' \ removed') <= Cardinality(Procs) * MAX_ACTIVE_USERS
  <2>1. RoomInv' => Fits'
    BY PoolFits, PTL
  <2> QED
    BY <2>1 DEF Fits
<1>10. Line!Admit(G)
  BY <1>4, <1>5, <1>7, <1>8, <1>9, LineCardinality DEF Line!Admit
<1> QED
  BY <1>1, <1>10 DEF Line!Next

LEMMA DequeueImplements ==
  ASSUME RoomInv, OrderInv, NEW p \in Procs, Dequeue(p)
  PROVE  UNCHANGED Line!vars
<1> DEFINE N == proc[p].next
<1>1. QueueOK /\ Without(N) /\ active' = active /\ removed' = removed
  BY DEF Dequeue, RoomInv
<1>2. N \subseteq Off
  BY DEF OrderInv, Orderly, Dequeue, Off
<1> HIDE DEF N
<1>3. waiting' = waiting \ N
  BY <1>1 DEF Without
<1>4. InLine' = InLine /\ InLine \subseteq waiting'
  BY <1>1, <1>2, <1>3 DEF InLine, Off
<1>5. \A u, v \in InLine : Ahead(v, u)' <=> Ahead(v, u)
  BY <1>1, <1>4, OrderWithout
<1> QED
  BY <1>1, <1>4, <1>5, NothingMoves

LEMMA LeavePoolImplements ==
  ASSUME OrderInv, NEW p \in Procs, LeavePool(p)
  PROVE  UNCHANGED Line!vars
<1>1. proc[p].user \in removed
  BY DEF OrderInv, Orderly, LeavePool
<1>2. UNCHANGED queue /\ active' = active \ {proc[p].user} /\ removed' = removed
  BY DEF LeavePool
<1>3. InLine' = InLine /\ active' \ removed' = active \ removed
  BY <1>1, <1>2 DEF InLine, queue
<1>4. \A u, v \in InLine : Ahead(v, u)' <=> Ahead(v, u)
  BY <1>2 DEF Ahead, queue
<1> QED
  BY <1>3, <1>4, NothingMoves

LEMMA LineStep == RoomInv /\ OrderInv /\ RoomInv' /\ [Next]_vars => [Line!Next]_(Line!vars)
<1> SUFFICES ASSUME RoomInv, OrderInv, RoomInv', [Next]_vars
             PROVE  [Line!Next]_(Line!vars)
  OBVIOUS
<1>1. ASSUME UNCHANGED queue, UNCHANGED <<active, removed>>
      PROVE  UNCHANGED Line!vars
  BY <1>1 DEF Line!vars, LineAhead, InLine, Ahead, queue
<1>2. ASSUME NEW p \in Procs, Step(p)
      PROVE  [Line!Next]_(Line!vars)
  <2>1. CASE Count(p) \/ CountFull(p) \/ HeadOfQueue(p) \/ QueueEmpty(p)
    BY <1>1, <2>1 DEF Count, CountFull, HeadOfQueue, QueueEmpty
  <2> QED
    BY <1>2, <2>1, JoinImplements, LeavePoolImplements, AdmitImplements, DequeueImplements DEF Step
<1>3. ASSUME NEW p \in Procs, Abort(p)
      PROVE  [Line!Next]_(Line!vars)
  BY <1>1, <1>3 DEF Abort
<1>4. ASSUME NEW p \in Slots, NEW u \in Users, Poll(p, u)
      PROVE  [Line!Next]_(Line!vars)
  BY <1>1, <1>4 DEF Poll
<1>5. CASE UNCHANGED vars
  BY <1>1, <1>5 DEF vars, queue
<1> QED
  BY <1>2, <1>3, <1>4, <1>5, FreeImplements, LeaveImplements, ExpiryImplements, TickImplements
     DEF Next

(* However promotions overlap, die half way or meet an expiring queue, and  *)
(* however late or equal the scores are, the waiting room is for those who  *)
(* are not taken out of it a line in which a place, once taken, is kept.    *)
THEOREM RoomImplementsLine == Spec => ImplementsLine
<1>1. Spec => [](RoomInv /\ OrderInv)
  BY OrderAlways
<1> QED
  BY <1>1, LineInit, LineStep, PTL DEF Spec, ImplementsLine, Line!Spec
=============================================================================
