---------------------------- MODULE BookingProofs ----------------------------
(***************************************************************************)
(* Proofs about Booking, for any numbers of customers, seats, orders,       *)
(* concurrent requests and workers, any choice of endpoints and any faults. *)
(*                                                                         *)
(* The invariant is Typing /\ PaymentTrail.  ConfirmedWasPaid alone is not  *)
(* inductive: the worker confirms on the strength of its job, the job comes *)
(* from the list, the list from a handler, and the handler from a check it  *)
(* made before it was suspended; PaymentTrail follows a captured order      *)
(* along that way.                                                          *)
(***************************************************************************)
EXTENDS Booking, TLAPS

(* A request that starts takes one idle slot, carries what it was given and
   leaves the other slots alone. *)
LEMMA StartMoves ==
  ASSUME req \in [Slots -> Request], NEW r \in Slots, NEW pc \in RequestPC,
         NEW u \in Users \cup {None}, NEW s \in Seats, NEW o \in Orders \cup {None},
         Start(r, pc, u, s, o)
  PROVE  /\ req' \in [Slots -> Request]
         /\ \A q \in Slots : q # r => req'[q] = req[q]
         /\ req[r].pc = "idle" /\ req'[r].pc = pc
         /\ req'[r].user = u /\ req'[r].seat = s /\ req'[r].order = o
  BY DEF Start, Request, Idle

(* A request that ends frees its slot and leaves the others alone. *)
LEMMA FinishMoves ==
  ASSUME req \in [Slots -> Request], NEW r \in Slots, Finish(r)
  PROVE  /\ req' \in [Slots -> Request]
         /\ \A q \in Slots : q # r => req'[q] = req[q]
         /\ req'[r].pc = "idle"
  BY DEF Finish, Request, Idle, RequestPC

(* A request that goes on to its next await keeps what it carries. *)
LEMMA GotoMoves ==
  ASSUME req \in [Slots -> Request], NEW r \in Slots, NEW pc \in RequestPC, Goto(r, pc)
  PROVE  /\ req' \in [Slots -> Request]
         /\ \A q \in Slots : q # r => req'[q] = req[q]
         /\ req'[r].pc = pc
         /\ req'[r].user = req[r].user /\ req'[r].seat = req[r].seat
         /\ req'[r].order = req[r].order
         /\ req'[r].sawStatus = req[r].sawStatus /\ req'[r].sawSeat = req[r].sawSeat
  <1>1. req[r] \in Request
    OBVIOUS
  <1>2. req' = [req EXCEPT ![r] = [req[r] EXCEPT !.pc = pc]]
    BY DEF Goto
  <1>3. [req[r] EXCEPT !.pc = pc] \in Request
    BY <1>1 DEF Request
  <1> QED
    BY <1>1, <1>2, <1>3 DEF Request

(* A job that goes on to its next await keeps its arguments. *)
LEMMA JobMoves ==
  ASSUME job \in [Workers -> Job \cup {NoJob}], NEW w \in Workers, NEW pc \in JobPC,
         job[w].pc \in JobPC, job' = [job EXCEPT ![w].pc = pc]
  PROVE  /\ job' \in [Workers -> Job \cup {NoJob}]
         /\ \A v \in Workers : v # w => job'[v] = job[v]
         /\ job[w] \in Job
         /\ job'[w] = [job[w] EXCEPT !.pc = pc]
         /\ job'[w].pc = pc
         /\ job'[w].seat = job[w].seat /\ job'[w].user = job[w].user
         /\ job'[w].order = job[w].order
  <1>1. job[w] \in Job
    BY DEF NoJob, JobPC
  <1>2. job' = [job EXCEPT ![w] = [job[w] EXCEPT !.pc = pc]]
    OBVIOUS
  <1>3. [job[w] EXCEPT !.pc = pc] \in Job
    BY <1>1 DEF Job
  <1> QED
    BY <1>1, <1>2, <1>3 DEF Job

(* Recording a payment id changes that column of one booking. *)
LEMMA RecordMoves ==
  ASSUME row \in [Seats -> Row], NEW s \in Seats, NEW o \in Orders,
         row' = [row EXCEPT ![s].payment = o]
  PROVE  /\ row' \in [Seats -> Row]
         /\ \A t \in Seats : t # s => row'[t] = row[t]
         /\ row'[s].payment = o
         /\ row'[s].user = row[s].user /\ row'[s].order = row[s].order
         /\ row'[s].status = row[s].status
  <1>1. row[s] \in Row /\ row' = [row EXCEPT ![s] = [row[s] EXCEPT !.payment = o]]
    OBVIOUS
  <1>2. [row[s] EXCEPT !.payment = o] \in Row
    BY <1>1 DEF Row
  <1> QED
    BY <1>1, <1>2 DEF Row

(* Storing the order id changes that column of one booking. *)
LEMMA OpenMoves ==
  ASSUME row \in [Seats -> Row], NEW s \in Seats, NEW o \in Orders,
         row' = [row EXCEPT ![s].order = o]
  PROVE  /\ row' \in [Seats -> Row]
         /\ \A t \in Seats : t # s => row'[t] = row[t]
         /\ row'[s].order = o
         /\ row'[s].user = row[s].user /\ row'[s].payment = row[s].payment
         /\ row'[s].status = row[s].status
  <1>1. row[s] \in Row /\ row' = [row EXCEPT ![s] = [row[s] EXCEPT !.order = o]]
    OBVIOUS
  <1>2. [row[s] EXCEPT !.order = o] \in Row
    BY <1>1 DEF Row
  <1> QED
    BY <1>1, <1>2 DEF Row

(* Writing status = CANCELLED touches nothing else of any booking. *)
LEMMA RevokeMoves ==
  ASSUME row \in [Seats -> Row], NEW s \in Seats,
         row' = [row EXCEPT ![s].status = "CANCELLED"]
  PROVE  /\ row' \in [Seats -> Row]
         /\ \A t \in Seats : t # s => row'[t] = row[t]
         /\ row'[s].status = "CANCELLED"
         /\ row'[s].user = row[s].user /\ row'[s].order = row[s].order
         /\ row'[s].payment = row[s].payment
  <1>1. row[s] \in Row /\ row' = [row EXCEPT ![s] = [row[s] EXCEPT !.status = "CANCELLED"]]
    OBVIOUS
  <1>2. [row[s] EXCEPT !.status = "CANCELLED"] \in Row
    BY <1>1 DEF Row, RowStatus
  <1> QED
    BY <1>1, <1>2 DEF Row

(* The UPDATE guarded on PENDING only ever makes a pending booking CANCELLED:
   it confirms nothing and keeps order, payment and user. *)
LEMMA CancelMoves ==
  ASSUME row \in [Seats -> Row], NEW s \in Seats, CancelPending(s)
  PROVE  /\ row' \in [Seats -> Row]
         /\ \A t \in Seats : t # s => row'[t] = row[t]
         /\ row'[s].status # "PENDING"
         /\ row[s].status # "PENDING" => row' = row
         /\ row[s].status = "PENDING" => row'[s].status = "CANCELLED"
         /\ row'[s].user = row[s].user /\ row'[s].order = row[s].order
         /\ row'[s].payment = row[s].payment
  <1> DEFINE b == [row[s] EXCEPT !.status = "CANCELLED", !.paid = FALSE]
  <1>1. CASE row[s].status = "PENDING"
    <2>1. row[s] \in Row /\ row' = [row EXCEPT ![s] = b]
      BY <1>1 DEF CancelPending
    <2>2. b \in Row
      BY <2>1 DEF Row, RowStatus
    <2> QED
      BY <1>1, <2>1, <2>2 DEF Row
  <1>2. CASE row[s].status # "PENDING"
    BY <1>2 DEF CancelPending
  <1> QED
    BY <1>1, <1>2

(* The worker's first UPDATE changes one booking and keeps its user and order. *)
LEMMA ConfirmMoves ==
  ASSUME row \in [Seats -> Row], NEW s \in Seats, NEW o \in Orders,
         row' = [row EXCEPT ![s] = [@ EXCEPT !.status = "CONFIRMED", !.paid = TRUE,
                                             !.payment = o]]
  PROVE  /\ row' \in [Seats -> Row]
         /\ \A t \in Seats : t # s => row'[t] = row[t]
         /\ row'[s].status = "CONFIRMED" /\ row'[s].payment = o
         /\ row'[s].user = row[s].user /\ row'[s].order = row[s].order
  <1> DEFINE b == [row[s] EXCEPT !.status = "CONFIRMED", !.paid = TRUE, !.payment = o]
  <1>1. row[s] \in Row /\ row' = [row EXCEPT ![s] = b]
    OBVIOUS
  <1>2. b \in Row
    BY <1>1 DEF Row, RowStatus
  <1> QED
    BY <1>1, <1>2 DEF Row

(* Every step of the handlers, the worker and their surroundings keeps the
   stores well typed and the suspended handlers supplied with what their next
   step needs. *)
LEMMA TypingStep == Typing /\ [Next]_vars => Typing'
  <1> SUFFICES ASSUME Typing, [Next]_vars PROVE Typing'
    OBVIOUS
  <1>1. ASSUME NEW r \in Slots, NEW u \in Users, NEW s \in Seats, LockStart(r, u, s)
         PROVE  Typing'
    <2>1. /\ TypeOK /\ Carries /\ "lock.acquire" \in RequestPC
          /\ Start(r, "lock.acquire", u, s, None)
          /\ u \in Users \cup {None} /\ None \in Orders \cup {None}
      BY <1>1 DEF Typing, RequestPC, LockStart, TypeOK, Row
    <2>2. /\ req' \in [Slots -> Request]
          /\ \A q \in Slots : q # r => req'[q] = req[q]
          /\ req'[r].pc = "lock.acquire" /\ req'[r].user = u
          /\ req'[r].seat = s /\ req'[r].order = None
      BY <2>1, StartMoves DEF TypeOK
    <2>3. TypeOK'
      BY <1>1, <2>1, <2>2 DEF LockStart, database, redis, TypeOK
    <2>4. Carries'
      BY <1>1, <2>1, <2>2 DEF LockStart, database, redis, TypeOK, Carries
    <2> QED
      BY <2>3, <2>4 DEF Typing
  <1>2. ASSUME NEW r \in Slots, NEW u \in Users, NEW s \in Seats, OrderStart(r, u, s)
         PROVE  Typing'
    <2>1. /\ TypeOK /\ Carries /\ "order.holder" \in RequestPC
          /\ Start(r, "order.holder", u, s, None)
          /\ u \in Users \cup {None} /\ None \in Orders \cup {None}
      BY <1>2 DEF Typing, RequestPC, OrderStart, TypeOK, Row
    <2>2. /\ req' \in [Slots -> Request]
          /\ \A q \in Slots : q # r => req'[q] = req[q]
          /\ req'[r].pc = "order.holder" /\ req'[r].user = u
          /\ req'[r].seat = s /\ req'[r].order = None
      BY <2>1, StartMoves DEF TypeOK
    <2>3. TypeOK'
      BY <1>2, <2>1, <2>2 DEF OrderStart, database, redis, TypeOK
    <2>4. Carries'
      BY <1>2, <2>1, <2>2 DEF OrderStart, database, redis, TypeOK, Carries
    <2> QED
      BY <2>3, <2>4 DEF Typing
  <1>3. ASSUME NEW r \in Slots, NEW u \in Users, NEW s \in Seats, NEW o \in Orders,
               VerifyStart(r, u, s, o)
         PROVE  Typing'
    <2>1. /\ TypeOK /\ Carries /\ "pay.record" \in RequestPC
          /\ Start(r, "pay.record", u, s, o)
          /\ u \in Users \cup {None} /\ o \in Orders \cup {None}
      BY <1>3 DEF Typing, RequestPC, VerifyStart, TypeOK, Row
    <2>2. /\ req' \in [Slots -> Request]
          /\ \A q \in Slots : q # r => req'[q] = req[q]
          /\ req'[r].pc = "pay.record" /\ req'[r].user = u
          /\ req'[r].seat = s /\ req'[r].order = o
      BY <2>1, StartMoves DEF TypeOK
    <2>3. TypeOK'
      BY <1>3, <2>1, <2>2 DEF VerifyStart, database, redis, TypeOK
    <2>4. Carries'
      BY <1>3, <2>1, <2>2 DEF VerifyStart, database, redis, TypeOK, Carries
    <2> QED
      BY <2>3, <2>4 DEF Typing
  <1>4. ASSUME NEW r \in Slots, NEW u \in Users, NEW s \in Seats, NEW o \in Orders,
               VerifyRejected(r, u, s, o)
         PROVE  Typing'
    <2>1. /\ TypeOK /\ Carries /\ "fail.cancel" \in RequestPC
          /\ Start(r, "fail.cancel", u, s, o)
          /\ u \in Users \cup {None} /\ o \in Orders \cup {None}
      BY <1>4 DEF Typing, RequestPC, VerifyRejected, TypeOK, Row
    <2>2. /\ req' \in [Slots -> Request]
          /\ \A q \in Slots : q # r => req'[q] = req[q]
          /\ req'[r].pc = "fail.cancel" /\ req'[r].user = u
          /\ req'[r].seat = s /\ req'[r].order = o
      BY <2>1, StartMoves DEF TypeOK
    <2>3. TypeOK'
      BY <1>4, <2>1, <2>2 DEF VerifyRejected, database, redis, TypeOK
    <2>4. Carries'
      BY <1>4, <2>1, <2>2 DEF VerifyRejected, database, redis, TypeOK, Carries
    <2> QED
      BY <2>3, <2>4 DEF Typing
  <1>5. ASSUME NEW r \in Slots, NEW s \in Seats, NEW o \in Orders, WebhookCaptured(r, s, o)
         PROVE  Typing'
    <2>1. /\ TypeOK /\ Carries /\ "pay.record" \in RequestPC
          /\ Start(r, "pay.record", row[s].user, s, o)
          /\ row[s].user \in Users \cup {None} /\ o \in Orders \cup {None}
      BY <1>5 DEF Typing, RequestPC, WebhookCaptured, TypeOK, Row
    <2>2. /\ req' \in [Slots -> Request]
          /\ \A q \in Slots : q # r => req'[q] = req[q]
          /\ req'[r].pc = "pay.record" /\ req'[r].user = row[s].user
          /\ req'[r].seat = s /\ req'[r].order = o
      BY <2>1, StartMoves DEF TypeOK
    <2>3. TypeOK'
      BY <1>5, <2>1, <2>2 DEF WebhookCaptured, database, redis, TypeOK
    <2>4. Carries'
      BY <1>5, <2>1, <2>2 DEF WebhookCaptured, database, redis, TypeOK, Carries
    <2> QED
      BY <2>3, <2>4 DEF Typing
  <1>6. ASSUME NEW r \in Slots, NEW s \in Seats, NEW o \in Orders, WebhookFailed(r, s, o)
         PROVE  Typing'
    <2>1. /\ TypeOK /\ Carries /\ "fail.cancel" \in RequestPC
          /\ Start(r, "fail.cancel", row[s].user, s, o)
          /\ row[s].user \in Users \cup {None} /\ o \in Orders \cup {None}
      BY <1>6 DEF Typing, RequestPC, WebhookFailed, TypeOK, Row
    <2>2. /\ req' \in [Slots -> Request]
          /\ \A q \in Slots : q # r => req'[q] = req[q]
          /\ req'[r].pc = "fail.cancel" /\ req'[r].user = row[s].user
          /\ req'[r].seat = s /\ req'[r].order = o
      BY <2>1, StartMoves DEF TypeOK
    <2>3. TypeOK'
      BY <1>6, <2>1, <2>2 DEF WebhookFailed, database, redis, TypeOK
    <2>4. Carries'
      BY <1>6, <2>1, <2>2 DEF WebhookFailed, database, redis, TypeOK, Carries
    <2> QED
      BY <2>3, <2>4 DEF Typing
  <1>7. ASSUME NEW r \in Slots, NEW u \in Users, NEW s \in Seats, ReapStart(r, u, s)
         PROVE  Typing'
    <2>1. /\ TypeOK /\ Carries /\ "reap.holder" \in RequestPC
          /\ Start(r, "reap.holder", u, s, None)
          /\ u \in Users \cup {None} /\ None \in Orders \cup {None}
      BY <1>7 DEF Typing, RequestPC, ReapStart, TypeOK, Row
    <2>2. /\ req' \in [Slots -> Request]
          /\ \A q \in Slots : q # r => req'[q] = req[q]
          /\ req'[r].pc = "reap.holder" /\ req'[r].user = u
          /\ req'[r].seat = s /\ req'[r].order = None
      BY <2>1, StartMoves DEF TypeOK
    <2>3. TypeOK'
      BY <1>7, <2>1, <2>2 DEF ReapStart, database, redis, TypeOK
    <2>4. Carries'
      BY <1>7, <2>1, <2>2 DEF ReapStart, database, redis, TypeOK, Carries
    <2> QED
      BY <2>3, <2>4 DEF Typing
  <1>8. ASSUME NEW r \in Slots, NEW u \in Users, NEW s \in Seats, CancelStart(r, u, s)
         PROVE  Typing'
    <2>1. TypeOK /\ Carries
      BY DEF Typing
    <2>2. TypeOK'
      BY <1>8, <2>1
         DEF CancelStart, database, redis, Request, Idle, RequestPC, RowStatus, Row,
             TypeOK, Carries
    <2>3. Carries'
      BY <1>8, <2>1
         DEF CancelStart, database, redis, Request, Idle, RequestPC, RowStatus, Row,
             TypeOK, Carries
    <2> QED
      BY <2>2, <2>3 DEF Typing
  <1>9. ASSUME NEW r \in Slots, NEW s \in Seats, MapRead(r, s)
         PROVE  Typing'
    <2>1. TypeOK /\ Carries
      BY DEF Typing
    <2>2. TypeOK'
      BY <1>9, <2>1
         DEF MapRead, database, redis, Request, Idle, RequestPC, CacheStatus, Row,
             TypeOK, Carries
    <2>3. Carries'
      BY <1>9, <2>1
         DEF MapRead, database, redis, Request, Idle, RequestPC, CacheStatus, Row,
             TypeOK, Carries
    <2> QED
      BY <2>2, <2>3 DEF Typing
  <1>10. ASSUME NEW r \in Slots, NEW s \in Seats, MapMiss(r, s)
         PROVE  Typing'
    <2>1. /\ TypeOK /\ Carries /\ "map.load" \in RequestPC
          /\ Start(r, "map.load", None, s, None)
          /\ None \in Users \cup {None} /\ None \in Orders \cup {None}
      BY <1>10 DEF Typing, RequestPC, MapMiss, TypeOK, Row
    <2>2. /\ req' \in [Slots -> Request]
          /\ \A q \in Slots : q # r => req'[q] = req[q]
          /\ req'[r].pc = "map.load" /\ req'[r].user = None
          /\ req'[r].seat = s /\ req'[r].order = None
      BY <2>1, StartMoves, Zenon DEF TypeOK
    <2>3. TypeOK'
      BY <1>10, <2>1, <2>2 DEF MapMiss, database, redis, TypeOK
    <2>4. Carries'
      BY <1>10, <2>1, <2>2 DEF MapMiss, database, redis, TypeOK, Carries
    <2> QED
      BY <2>3, <2>4 DEF Typing
  <1>11. ASSUME NEW r \in Slots, NEW o \in Orders, OrderOpen(r, o)
         PROVE  Typing'
    <2>1. /\ TypeOK /\ Carries /\ Finish(r) /\ req[r].seat \in Seats
      BY <1>11 DEF Typing, OrderOpen, Carries
    <2>2. gateway' \in [Orders -> [seat: Seats \cup {None}, captured: BOOLEAN]]
      BY <1>11, <2>1 DEF OrderOpen, TypeOK
    <2>3. TypeOK'
      BY <1>11, <2>1, <2>2, FinishMoves, OpenMoves DEF OrderOpen, database, redis, TypeOK
    <2>4. Carries'
      BY <1>11, <2>1, FinishMoves, OpenMoves DEF OrderOpen, database, redis, TypeOK, Carries
    <2> QED
      BY <2>3, <2>4 DEF Typing
  <1>12. ASSUME NEW r \in Slots, LockAcquire(r)
         PROVE  Typing'
    <2>1. /\ TypeOK /\ Carries /\ Finish(r)
      BY <1>12 DEF Typing, RequestPC, LockAcquire
    <2>2. TypeOK'
      BY <1>12, <2>1, FinishMoves
         DEF LockAcquire, database, redis, AcquireSeatLock, Cached, CacheStatus,
             Carries, TypeOK
    <2>3. Carries'
      BY <1>12, <2>1, FinishMoves DEF LockAcquire, database, redis, TypeOK, Carries
    <2> QED
      BY <2>2, <2>3 DEF Typing
  <1>13. ASSUME NEW r \in Slots, LockConflict(r)
         PROVE  Typing'
    <2>1. /\ TypeOK /\ Carries /\ Finish(r)
      BY <1>13 DEF Typing, RequestPC, LockConflict
    <2>2. TypeOK'
      BY <1>13, <2>1, FinishMoves DEF LockConflict, database, redis, TypeOK
    <2>3. Carries'
      BY <1>13, <2>1, FinishMoves DEF LockConflict, database, redis, TypeOK, Carries
    <2> QED
      BY <2>2, <2>3 DEF Typing
  <1>14. ASSUME NEW r \in Slots, OrderHolder(r)
         PROVE  Typing'
    <2>1. /\ TypeOK /\ Carries /\ "order.upsert" \in RequestPC /\ Goto(r, "order.upsert")
      BY <1>14 DEF Typing, RequestPC, OrderHolder
    <2>2. TypeOK'
      BY <1>14, <2>1, GotoMoves DEF OrderHolder, database, redis, TypeOK
    <2>3. Carries'
      BY <1>14, <2>1, GotoMoves DEF OrderHolder, database, redis, TypeOK, Carries
    <2> QED
      BY <2>2, <2>3 DEF Typing
  <1>15. ASSUME NEW r \in Slots, OrderNotHolder(r)
         PROVE  Typing'
    <2>1. /\ TypeOK /\ Carries /\ Finish(r)
      BY <1>15 DEF Typing, RequestPC, OrderNotHolder
    <2>2. TypeOK'
      BY <1>15, <2>1, FinishMoves DEF OrderNotHolder, database, redis, TypeOK
    <2>3. Carries'
      BY <1>15, <2>1, FinishMoves DEF OrderNotHolder, database, redis, TypeOK, Carries
    <2> QED
      BY <2>2, <2>3 DEF Typing
  <1>16. ASSUME NEW r \in Slots, OrderUpsert(r)
         PROVE  Typing'
    <2>1. /\ TypeOK /\ Carries /\ "order.open" \in RequestPC /\ Goto(r, "order.open")
      BY <1>16 DEF Typing, RequestPC, OrderUpsert
    <2>2. req[r].seat \in Seats /\ req[r].user \in Users
      BY <1>16, <2>1 DEF OrderUpsert, Carries
    <2>3. PendingRow(req[r].user) \in Row
      BY <2>2 DEF PendingRow, Row, RowStatus
    <2>4. /\ row' \in [Seats -> Row]
          /\ row'[req[r].seat] = PendingRow(req[r].user)
          /\ \A s \in Seats : s # req[r].seat => row'[s] = row[s]
      BY <1>16, <2>1, <2>2, <2>3 DEF OrderUpsert, TypeOK
    <2>5. TypeOK'
      BY <1>16, <2>1, <2>4, GotoMoves DEF OrderUpsert, redis, TypeOK
    <2>6. \A s \in Seats : row'[s].status = "PENDING" => row'[s].user \in Users
      BY <2>1, <2>2, <2>4 DEF PendingRow, Carries
    <2>7. Carries'
      BY <1>16, <2>1, <2>6, GotoMoves DEF OrderUpsert, redis, TypeOK, Carries
    <2> QED
      BY <2>5, <2>7 DEF Typing
  <1>17. ASSUME NEW r \in Slots, OrderRefused(r)
         PROVE  Typing'
    <2>1. /\ TypeOK /\ Carries /\ Finish(r)
      BY <1>17 DEF Typing, RequestPC, OrderRefused
    <2>2. TypeOK'
      BY <1>17, <2>1, FinishMoves DEF OrderRefused, database, redis, TypeOK
    <2>3. Carries'
      BY <1>17, <2>1, FinishMoves DEF OrderRefused, database, redis, TypeOK, Carries
    <2> QED
      BY <2>2, <2>3 DEF Typing
  <1>18. ASSUME NEW r \in Slots, RecordPayment(r)
         PROVE  Typing'
    <2>1. /\ TypeOK /\ Carries /\ "pay.enqueue" \in RequestPC /\ Goto(r, "pay.enqueue")
          /\ req[r].seat \in Seats /\ req[r].order \in Orders
      BY <1>18 DEF Typing, RequestPC, RecordPayment, Carries
    <2>2. TypeOK'
      BY <1>18, <2>1, GotoMoves, RecordMoves DEF RecordPayment, database, redis, TypeOK
    <2>3. \A s \in Seats : row'[s].status = row[s].status /\ row'[s].user = row[s].user
      BY <1>18, <2>1, RecordMoves DEF RecordPayment, TypeOK
    <2>4. Carries'
      <3>1. \A s \in Seats : row'[s].status = "PENDING" => row'[s].user \in Users
        BY <2>1, <2>3 DEF Carries
      <3>2. /\ req'[r].pc = "pay.enqueue" /\ req'[r].seat = req[r].seat
            /\ req'[r].user = req[r].user /\ req'[r].order = req[r].order
            /\ \A q \in Slots : q # r => req'[q] = req[q]
        BY <2>1, GotoMoves DEF TypeOK
      <3>3. req[r].pc = "pay.record"
        BY <1>18 DEF RecordPayment
      <3> QED
        BY <2>1, <3>1, <3>2, <3>3 DEF Carries
    <2> QED
      BY <2>2, <2>4 DEF Typing
  <1>19. ASSUME NEW r \in Slots, EnqueuePayment(r)
         PROVE  Typing'
    <2>1. /\ TypeOK /\ Carries /\ Finish(r)
      BY <1>19 DEF Typing, RequestPC, EnqueuePayment
    <2>2. queue' \in Seq(QueuedJob)
      <3>1. [seat |-> req[r].seat, user |-> req[r].user, order |-> req[r].order] \in QueuedJob
        BY <1>19, <2>1 DEF EnqueuePayment, Carries, QueuedJob
      <3> QED
        BY <1>19, <2>1, <3>1 DEF EnqueuePayment, TypeOK
    <2>3. TypeOK'
      BY <1>19, <2>1, <2>2, FinishMoves DEF EnqueuePayment, database, redis, TypeOK
    <2>4. Carries'
      BY <1>19, <2>1, FinishMoves DEF EnqueuePayment, database, redis, TypeOK, Carries
    <2> QED
      BY <2>3, <2>4 DEF Typing
  <1>20. ASSUME NEW r \in Slots, FailCancel(r)
         PROVE  Typing'
    <2>1. /\ TypeOK /\ Carries /\ "fail.cache" \in RequestPC /\ Goto(r, "fail.cache")
          /\ req[r].seat \in Seats
      BY <1>20 DEF Typing, RequestPC, FailCancel, Carries
    <2>2. TypeOK'
      BY <1>20, <2>1, GotoMoves, CancelMoves DEF FailCancel, database, redis, TypeOK
    <2>3. Carries'
      BY <1>20, <2>1, GotoMoves, CancelMoves
         DEF FailCancel, database, redis, TypeOK, Carries
    <2> QED
      BY <2>2, <2>3 DEF Typing
  <1>21. ASSUME NEW r \in Slots, FailCache(r)
         PROVE  Typing'
    <2>1. /\ TypeOK /\ Carries /\ "fail.unlock" \in RequestPC /\ Goto(r, "fail.unlock")
      BY <1>21 DEF Typing, RequestPC, FailCache
    <2>2. TypeOK'
      BY <1>21, <2>1, GotoMoves DEF FailCache, database, redis, Cached, CacheStatus, TypeOK
    <2>3. Carries'
      BY <1>21, <2>1, GotoMoves DEF FailCache, database, redis, TypeOK, Carries
    <2> QED
      BY <2>2, <2>3 DEF Typing
  <1>22. ASSUME NEW r \in Slots, FailUnlock(r)
         PROVE  Typing'
    <2>1. /\ TypeOK /\ Carries /\ Finish(r)
      BY <1>22 DEF Typing, RequestPC, FailUnlock
    <2>2. TypeOK'
      BY <1>22, <2>1, FinishMoves DEF FailUnlock, database, redis, DropLock, TypeOK
    <2>3. Carries'
      BY <1>22, <2>1, FinishMoves DEF FailUnlock, database, redis, TypeOK, Carries
    <2> QED
      BY <2>2, <2>3 DEF Typing
  <1>23. ASSUME NEW r \in Slots, ReapKeep(r)
         PROVE  Typing'
    <2>1. /\ TypeOK /\ Carries /\ Finish(r)
      BY <1>23 DEF Typing, RequestPC, ReapKeep
    <2>2. TypeOK'
      BY <1>23, <2>1, FinishMoves DEF ReapKeep, database, redis, TypeOK
    <2>3. Carries'
      BY <1>23, <2>1, FinishMoves DEF ReapKeep, database, redis, TypeOK, Carries
    <2> QED
      BY <2>2, <2>3 DEF Typing
  <1>24. ASSUME NEW r \in Slots, ReapAbandoned(r)
         PROVE  Typing'
    <2>1. /\ TypeOK /\ Carries /\ "reap.commit" \in RequestPC /\ Goto(r, "reap.commit")
      BY <1>24 DEF Typing, RequestPC, ReapAbandoned
    <2>2. TypeOK'
      BY <1>24, <2>1, GotoMoves DEF ReapAbandoned, database, redis, TypeOK
    <2>3. Carries'
      BY <1>24, <2>1, GotoMoves DEF ReapAbandoned, database, redis, TypeOK, Carries
    <2> QED
      BY <2>2, <2>3 DEF Typing
  <1>25. ASSUME NEW r \in Slots, ReapCommit(r)
         PROVE  Typing'
    <2>1. /\ TypeOK /\ Carries /\ Finish(r)
          /\ req[r].seat \in Seats
      BY <1>25 DEF Typing, RequestPC, ReapCommit, Carries
    <2>2. TypeOK'
      BY <1>25, <2>1, FinishMoves, RevokeMoves DEF ReapCommit, database, redis, TypeOK
    <2>3. Carries'
      BY <1>25, <2>1, FinishMoves, RevokeMoves
         DEF ReapCommit, database, redis, TypeOK, Carries
    <2> QED
      BY <2>2, <2>3 DEF Typing
  <1>26. ASSUME NEW r \in Slots, CancelReadSeat(r)
         PROVE  Typing'
    <2>1. TypeOK /\ Carries /\ req[r] \in Request /\ req[r].seat \in Seats
      BY <1>26 DEF Typing, TypeOK, Carries, CancelReadSeat
    <2>2. PICK q \in Request : /\ req' = [req EXCEPT ![r] = q] /\ q.pc = "cancel.commit"
                             /\ q.user = req[r].user /\ q.seat = req[r].seat
                             /\ q.sawSeat \in {"AVAILABLE", "BOOKED"}
      <3> DEFINE b == [req[r] EXCEPT !.pc = "cancel.commit", !.sawSeat = seatStatus[req[r].seat]]
      <3>1. seatStatus[req[r].seat] \in {"AVAILABLE", "BOOKED"}
        BY <2>1 DEF TypeOK
      <3>2. /\ b \in Request /\ b.pc = "cancel.commit" /\ b.user = req[r].user
            /\ b.seat = req[r].seat /\ b.sawSeat = seatStatus[req[r].seat]
        BY <2>1, <3>1 DEF Request, RequestPC, RowStatus, CacheStatus
      <3>3. req' = [req EXCEPT ![r] = b]
        BY <1>26, <2>1 DEF CancelReadSeat, TypeOK
      <3> QED
        BY <3>1, <3>2, <3>3
    <2>3. TypeOK'
      BY <1>26, <2>1, <2>2 DEF CancelReadSeat, database, redis, TypeOK
    <2>4. Carries'
      BY <1>26, <2>1, <2>2 DEF CancelReadSeat, database, redis, CacheStatus, TypeOK, Carries
    <2> QED
      BY <2>3, <2>4 DEF Typing
  <1>27. ASSUME NEW r \in Slots, CancelCommit(r)
         PROVE  Typing'
    <2>1. /\ TypeOK /\ Carries /\ "cancel.cache" \in RequestPC /\ Goto(r, "cancel.cache")
          /\ req[r].seat \in Seats
      BY <1>27 DEF Typing, RequestPC, Carries, CancelCommit
    <2>2. /\ row' \in [Seats -> Row]
          /\ \A s \in Seats :
                row'[s].status = "PENDING"
                  => row[s].status = "PENDING" /\ row'[s].user = row[s].user
      <3>1. CASE row' = row
        BY <2>1, <3>1 DEF TypeOK
      <3>2. CASE row' = [row EXCEPT ![req[r].seat].status = "CANCELLED"]
        BY <2>1, <3>2, RevokeMoves DEF TypeOK
      <3> QED
        BY <1>27, <3>1, <3>2 DEF CancelCommit
    <2>3. TypeOK'
      BY <1>27, <2>1, <2>2, GotoMoves DEF CancelCommit, database, redis, TypeOK
    <2>4. Carries'
      BY <2>1, <2>2, GotoMoves DEF TypeOK, Carries
    <2> QED
      BY <2>3, <2>4 DEF Typing
  <1>28. ASSUME NEW r \in Slots, CancelCache(r)
         PROVE  Typing'
    <2>1. /\ TypeOK /\ Carries /\ Finish(r)
      BY <1>28 DEF Typing, RequestPC, CancelCache
    <2>2. TypeOK'
      BY <1>28, <2>1, FinishMoves
         DEF CancelCache, database, redis, Cached, CacheStatus, TypeOK
    <2>3. Carries'
      BY <1>28, <2>1, FinishMoves DEF CancelCache, database, redis, TypeOK, Carries
    <2> QED
      BY <2>2, <2>3 DEF Typing
  <1>29. ASSUME NEW r \in Slots, MapLoad(r)
         PROVE  Typing'
    <2>1. TypeOK /\ Carries /\ req[r] \in Request /\ req[r].seat \in Seats
      BY <1>29 DEF Typing, TypeOK, Carries, MapLoad
    <2>2. PICK q \in Request : /\ req' = [req EXCEPT ![r] = q] /\ q.pc = "map.store"
                             /\ q.user = req[r].user /\ q.seat = req[r].seat
                             /\ q.sawStatus \in {"AVAILABLE", "BOOKED"}
      <3> DEFINE b == [req[r] EXCEPT !.pc = "map.store", !.sawStatus = seatStatus[req[r].seat]]
      <3>1. seatStatus[req[r].seat] \in {"AVAILABLE", "BOOKED"}
        BY <2>1 DEF TypeOK
      <3>2. /\ b \in Request /\ b.pc = "map.store" /\ b.user = req[r].user
            /\ b.seat = req[r].seat /\ b.sawStatus = seatStatus[req[r].seat]
        BY <2>1, <3>1 DEF Request, RequestPC, RowStatus, CacheStatus
      <3>3. req' = [req EXCEPT ![r] = b]
        BY <1>29, <2>1 DEF MapLoad, TypeOK
      <3> QED
        BY <3>1, <3>2, <3>3
    <2>3. TypeOK'
      BY <1>29, <2>1, <2>2 DEF MapLoad, database, redis, TypeOK
    <2>4. Carries'
      BY <1>29, <2>1, <2>2 DEF MapLoad, database, redis, CacheStatus, TypeOK, Carries
    <2> QED
      BY <2>3, <2>4 DEF Typing
  <1>30. ASSUME NEW r \in Slots, MapStore(r)
         PROVE  Typing'
    <2>1. /\ TypeOK /\ Carries /\ "map.locks" \in RequestPC /\ Goto(r, "map.locks")
      BY <1>30 DEF Typing, RequestPC, MapStore
    <2>2. TypeOK'
      BY <1>30, <2>1, GotoMoves DEF MapStore, database, redis, Carries, CacheStatus, TypeOK
    <2>3. Carries'
      BY <1>30, <2>1, GotoMoves DEF MapStore, database, redis, TypeOK, Carries
    <2> QED
      BY <2>2, <2>3 DEF Typing
  <1>31. ASSUME NEW r \in Slots, MapLocks(r)
         PROVE  Typing'
    <2>1. TypeOK /\ Carries
      BY DEF Typing
    <2>2. TypeOK'
      BY <1>31, <2>1
         DEF MapLocks, database, redis, Request, Idle, RequestPC, Healed, Finish,
             RowStatus, CacheStatus, Row, TypeOK, Carries
    <2>3. Carries'
      BY <1>31, <2>1
         DEF MapLocks, database, redis, Request, Idle, RequestPC, Healed, Finish,
             RowStatus, CacheStatus, Row, TypeOK, Carries
    <2> QED
      BY <2>2, <2>3 DEF Typing
  <1>32. ASSUME NEW r \in Slots, MapHeal(r)
         PROVE  Typing'
    <2>1. /\ TypeOK /\ Carries /\ Finish(r)
      BY <1>32 DEF Typing, RequestPC, MapHeal
    <2>2. TypeOK'
      BY <1>32, <2>1, FinishMoves DEF MapHeal, database, redis, Carries, CacheStatus, TypeOK
    <2>3. Carries'
      BY <1>32, <2>1, FinishMoves DEF MapHeal, database, redis, TypeOK, Carries
    <2> QED
      BY <2>2, <2>3 DEF Typing
  <1>33. ASSUME NEW r \in Slots, Abort(r)
         PROVE  Typing'
    <2>1. /\ TypeOK /\ Carries /\ Finish(r)
      BY <1>33 DEF Typing, RequestPC, Abort
    <2>2. TypeOK'
      BY <1>33, <2>1, FinishMoves DEF Abort, database, redis, TypeOK
    <2>3. Carries'
      BY <1>33, <2>1, FinishMoves DEF Abort, database, redis, TypeOK, Carries
    <2> QED
      BY <2>2, <2>3 DEF Typing
  <1>34. ASSUME NEW u \in Users, NEW s \in Seats, Unlock(u, s)
         PROVE  Typing'
    BY <1>34
       DEF Unlock, ReleaseSeatLock, Cached, CacheStatus, database, redis, Typing,
           TypeOK, Carries
  <1>35. ASSUME NEW w \in Workers, PickUp(w)
         PROVE  Typing'
    <2>1. TypeOK /\ Carries
      BY DEF Typing
    <2>2. Head(queue) \in QueuedJob /\ Tail(queue) \in Seq(QueuedJob)
      BY <1>35, <2>1 DEF PickUp, TypeOK
    <2>3. TypeOK'
      BY <1>35, <2>1, <2>2 DEF PickUp, QueuedJob, Job, JobPC, database, redis, TypeOK
    <2>4. Carries'
      BY <1>35, <2>1 DEF PickUp, database, redis, TypeOK, Carries
    <2> QED
      BY <2>3, <2>4 DEF Typing
  <1>36. ASSUME NEW w \in Workers, Confirm(w)
         PROVE  Typing'
    <2>1. /\ TypeOK /\ Carries /\ "cache" \in JobPC /\ job[w].pc \in JobPC
          /\ job' = [job EXCEPT ![w].pc = "cache"]
          /\ job[w].seat \in Seats /\ job[w].order \in Orders
      BY <1>36 DEF Typing, JobPC, Confirm, TypeOK, Job, NoJob
    <2>2. /\ row' \in [Seats -> Row]
          /\ \A s \in Seats : row'[s] = row[s] \/ row'[s].status = "CONFIRMED"
      BY <1>36, <2>1, ConfirmMoves DEF Confirm, TypeOK
    <2>3. TypeOK'
      BY <1>36, <2>1, <2>2, JobMoves DEF Confirm, database, redis, TypeOK
    <2>4. Carries'
      BY <1>36, <2>1, <2>2 DEF Confirm, database, redis, TypeOK, Carries
    <2> QED
      BY <2>3, <2>4 DEF Typing
  <1>37. ASSUME NEW w \in Workers, AlreadySettled(w)
         PROVE  Typing'
    BY <1>37 DEF AlreadySettled, database, redis, Typing, TypeOK, Carries
  <1>38. ASSUME NEW w \in Workers, CacheBooked(w)
         PROVE  Typing'
    <2>1. /\ TypeOK /\ Carries /\ "unlock" \in JobPC /\ job[w].pc \in JobPC
          /\ job' = [job EXCEPT ![w].pc = "unlock"]
      BY <1>38 DEF Typing, JobPC, CacheBooked, TypeOK, Job, NoJob
    <2>2. TypeOK'
      BY <1>38, <2>1, JobMoves DEF CacheBooked, database, redis, Cached, CacheStatus, TypeOK
    <2>3. Carries'
      BY <1>38, <2>1 DEF CacheBooked, database, redis, TypeOK, Carries
    <2> QED
      BY <2>2, <2>3 DEF Typing
  <1>39. ASSUME NEW w \in Workers, DropSoldLock(w)
         PROVE  Typing'
    BY <1>39 DEF DropSoldLock, DropLock, database, redis, Typing, TypeOK, Carries
  <1>40. ASSUME NEW w \in Workers, Revert(w)
         PROVE  Typing'
    <2>1. /\ TypeOK /\ Carries /\ "revert.cache" \in JobPC /\ job[w].pc \in JobPC
          /\ job' = [job EXCEPT ![w].pc = "revert.cache"]
          /\ job[w].seat \in Seats
      BY <1>40 DEF Typing, JobPC, Revert, TypeOK, Job, NoJob
    <2>2. TypeOK'
      BY <1>40, <2>1, JobMoves, CancelMoves DEF Revert, database, redis, TypeOK
    <2>3. Carries'
      BY <1>40, <2>1, CancelMoves DEF Revert, database, redis, TypeOK, Carries
    <2> QED
      BY <2>2, <2>3 DEF Typing
  <1>41. ASSUME NEW w \in Workers, RefuseRevert(w)
         PROVE  Typing'
    BY <1>41 DEF RefuseRevert, database, redis, Typing, TypeOK, Carries
  <1>42. ASSUME NEW w \in Workers, RevertCache(w)
         PROVE  Typing'
    <2>1. /\ TypeOK /\ Carries /\ "revert.unlock" \in JobPC /\ job[w].pc \in JobPC
          /\ job' = [job EXCEPT ![w].pc = "revert.unlock"]
      BY <1>42 DEF Typing, JobPC, RevertCache, TypeOK, Job, NoJob
    <2>2. TypeOK'
      BY <1>42, <2>1, JobMoves DEF RevertCache, database, redis, Cached, CacheStatus, TypeOK
    <2>3. Carries'
      BY <1>42, <2>1 DEF RevertCache, database, redis, TypeOK, Carries
    <2> QED
      BY <2>2, <2>3 DEF Typing
  <1>43. ASSUME NEW w \in Workers, RevertUnlock(w)
         PROVE  Typing'
    BY <1>43 DEF RevertUnlock, DropLock, database, redis, Typing, TypeOK, Carries
  <1>44. ASSUME NEW w \in Workers, JobFails(w)
         PROVE  Typing'
    <2>1. /\ TypeOK /\ Carries /\ "revert" \in JobPC /\ job[w].pc \in JobPC
          /\ job' = [job EXCEPT ![w].pc = "revert"]
      BY <1>44 DEF Typing, JobPC, JobFails, TypeOK, Job, NoJob
    <2>2. TypeOK'
      BY <1>44, <2>1, JobMoves DEF JobFails, database, redis, TypeOK
    <2>3. Carries'
      BY <1>44, <2>1 DEF JobFails, database, redis, TypeOK, Carries
    <2> QED
      BY <2>2, <2>3 DEF Typing
  <1>45. ASSUME NEW w \in Workers, CleanupFails(w)
         PROVE  Typing'
    BY <1>45 DEF CleanupFails, database, redis, Typing, TypeOK, Carries
  <1>46. ASSUME NEW w \in Workers, WorkerCrash(w)
         PROVE  Typing'
    BY <1>46 DEF WorkerCrash, database, redis, Typing, TypeOK, Carries
  <1>47. ASSUME NEW o \in Orders, Capture(o)
         PROVE  Typing'
    <2>1. TypeOK /\ Carries
      BY DEF Typing
    <2>2. TypeOK'
      BY <1>47, <2>1 DEF Capture, database, redis, TypeOK
    <2>3. Carries'
      BY <1>47, <2>1 DEF Capture, database, redis, TypeOK, Carries
    <2> QED
      BY <2>2, <2>3 DEF Typing
  <1>48. ASSUME NEW s \in Seats, Expire(s)
         PROVE  Typing'
    BY <1>48 DEF Expire, DropLock, database, redis, Typing, TypeOK, Carries
  <1>49. ASSUME RedisRestart
         PROVE  Typing'
    BY <1>49
       DEF RedisRestart, CacheStatus, QueuedJob, database, redis, Typing, TypeOK,
           Carries
  <1>50. CASE UNCHANGED vars
    BY <1>50 DEF vars, Typing, TypeOK, Carries
  <1> QED
    BY <1>1, <1>2, <1>3, <1>4, <1>5, <1>6, <1>7, <1>8, <1>9, <1>10, <1>11, <1>12, <1>13,
       <1>14, <1>15, <1>16, <1>17, <1>18, <1>19, <1>20, <1>21, <1>22, <1>23, <1>24,
       <1>25, <1>26, <1>27, <1>28, <1>29, <1>30, <1>31, <1>32, <1>33, <1>34, <1>35,
       <1>36, <1>37, <1>38, <1>39, <1>40, <1>41, <1>42, <1>43, <1>44, <1>45, <1>46,
       <1>47, <1>48, <1>49, <1>50
    DEF Next, Arrival, CheckoutArrival, MyBookingsArrival, SeatMapArrival,
             RequestStep, CheckoutStep, MyBookingsStep, SeatMapStep, WorkerStep, WorkerFault

-----------------------------------------------------------------------------

(* Requests, queued jobs and running jobs are about seats. *)
LEMMA Places ==
  ASSUME Typing
  PROVE  /\ \A q \in Slots : req[q].pc # "idle" => req[q].seat \in Seats
         /\ \A i \in DOMAIN queue : queue[i].seat \in Seats
         /\ \A v \in Workers : job[v] # NoJob => job[v].seat \in Seats
  <1>1. \A q \in Slots : req[q].pc # "idle" => req[q].seat \in Seats
    BY DEF Typing, Carries
  <1>2. \A i \in DOMAIN queue : queue[i].seat \in Seats
    <2>1. \A i \in DOMAIN queue : queue[i] \in QueuedJob
      BY DEF Typing, TypeOK
    <2> QED
      BY <2>1 DEF QueuedJob
  <1>3. \A v \in Workers : job[v] # NoJob => job[v].seat \in Seats
    BY DEF Typing, TypeOK, Job
  <1> QED
    BY <1>1, <1>2, <1>3

(* A handler that has just been shown a captured payment for the seat joins the
   trail: verify after its order and signature checks, the webhook after its
   lookup by order. *)
LEMMA PayStarts ==
  ASSUME Typing, PaymentTrail, NEW r \in Slots, NEW s \in Seats, NEW o \in Captured(s),
         UNCHANGED <<row, gateway, queue, job>>,
         \A q \in Slots : q # r => req'[q] = req[q],
         req'[r].pc = "pay.record", req'[r].seat = s, req'[r].order = o
  PROVE  PaymentTrail'
  <1>1. \A t, p : UnderWay(t, p)' <=> UnderWay(t, p)
    BY DEF UnderWay, Captured
  <1>2. RowTrail' /\ QueueTrail' /\ JobTrail'
    BY <1>1 DEF PaymentTrail, RowTrail, QueueTrail, JobTrail, Confirmed, Captured
  <1>3. RequestTrail'
    <2>1. \A t : Captured(t)' = Captured(t)
      BY DEF Captured
    <2> QED
      BY <1>1, <2>1 DEF PaymentTrail, RequestTrail
  <1> QED
    BY <1>2, <1>3 DEF PaymentTrail

(* What most steps leave alone for the trail: they confirm nothing, touch no
   order or payment id, put nothing new in a paying handler or the queue, and
   let a job at most go on or end. *)
LEMMA TrailFrame ==
  ASSUME Typing, PaymentTrail, gateway' = gateway,
         \A s \in Seats : /\ row'[s].order = row[s].order
                          /\ row'[s].payment = row[s].payment
                          /\ row'[s].status = "CONFIRMED" => row[s].status = "CONFIRMED",
         \A q \in Slots : req'[q].pc \in {"pay.record", "pay.enqueue"} => req'[q] = req[q],
         \A i \in DOMAIN queue' : \E j \in DOMAIN queue : queue'[i] = queue[j],
         \A v \in Workers : job'[v] # NoJob => /\ job[v] # NoJob
                                               /\ job'[v].seat = job[v].seat
                                               /\ job'[v].order = job[v].order
  PROVE  PaymentTrail'
  <1>1. \A s \in Seats : Captured(s)' = Captured(s)
    BY DEF Captured
  <1>2. ASSUME NEW s \in Seats, NEW o, UnderWay(s, o)
        PROVE  UnderWay(s, o)'
    BY <1>1, <1>2 DEF UnderWay
  <1>3. RowTrail'
    BY <1>1 DEF PaymentTrail, RowTrail, Confirmed
  <1>4. RequestTrail'
    <2>1. \A q \in Slots : req[q].pc \in {"pay.record", "pay.enqueue"} => req[q].seat \in Seats
      BY DEF Typing, Carries
    <2> QED
      BY <1>1, <1>2, <2>1 DEF PaymentTrail, RequestTrail
  <1>5. QueueTrail'
    <2>1. \A j \in DOMAIN queue : queue[j] \in QueuedJob
      BY DEF Typing, TypeOK
    <2>2. \A j \in DOMAIN queue : queue[j].seat \in Seats
      BY <2>1 DEF QueuedJob
    <2> QED
      BY <1>2, <2>2 DEF PaymentTrail, QueueTrail
  <1>6. JobTrail'
    <2>1. \A v \in Workers : job[v] # NoJob => job[v].seat \in Seats
      BY DEF Typing, TypeOK, Job
    <2> QED
      BY <1>2, <2>1 DEF PaymentTrail, JobTrail
  <1> QED
    BY <1>3, <1>4, <1>5, <1>6 DEF PaymentTrail

(* Every step keeps the trail from a captured payment to the row, the handlers,
   the queue and the jobs that name it. *)
LEMMA TrailStep == Typing /\ PaymentTrail /\ [Next]_vars => PaymentTrail'
  <1> SUFFICES ASSUME Typing, PaymentTrail, [Next]_vars PROVE PaymentTrail'
    OBVIOUS
  <1>1. ASSUME NEW r \in Slots, NEW u \in Users, NEW s \in Seats, LockStart(r, u, s)
         PROVE  PaymentTrail'
    <2>1. \A q \in Slots : req'[q].pc \in {"pay.record", "pay.enqueue"} => req'[q] = req[q]
      <3>1. /\ "lock.acquire" \in RequestPC /\ Start(r, "lock.acquire", u, s, None)
            /\ u \in Users \cup {None} /\ None \in Orders \cup {None}
        BY <1>1 DEF Typing, RequestPC, LockStart, TypeOK, Row
      <3>2. req \in [Slots -> Request]
        BY DEF Typing, TypeOK
      <3> QED
        BY <3>1, <3>2, StartMoves
    <2> QED
      BY <1>1, <2>1, TrailFrame DEF LockStart, database, redis
  <1>2. ASSUME NEW r \in Slots, NEW u \in Users, NEW s \in Seats, OrderStart(r, u, s)
         PROVE  PaymentTrail'
    <2>1. \A q \in Slots : req'[q].pc \in {"pay.record", "pay.enqueue"} => req'[q] = req[q]
      <3>1. /\ "order.holder" \in RequestPC /\ Start(r, "order.holder", u, s, None)
            /\ u \in Users \cup {None} /\ None \in Orders \cup {None}
        BY <1>2 DEF Typing, RequestPC, OrderStart, TypeOK, Row
      <3>2. req \in [Slots -> Request]
        BY DEF Typing, TypeOK
      <3> QED
        BY <3>1, <3>2, StartMoves
    <2> QED
      BY <1>2, <2>1, TrailFrame DEF OrderStart, database, redis
  <1>3. ASSUME NEW r \in Slots, NEW u \in Users, NEW s \in Seats, NEW o \in Orders,
               VerifyStart(r, u, s, o)
         PROVE  PaymentTrail'
    <2>1. /\ \A q \in Slots : q # r => req'[q] = req[q]
          /\ req'[r].pc = "pay.record" /\ req'[r].seat = s /\ req'[r].order = o
      <3>1. /\ "pay.record" \in RequestPC /\ Start(r, "pay.record", u, s, o)
            /\ u \in Users \cup {None} /\ o \in Orders \cup {None}
        BY <1>3 DEF VerifyStart, RequestPC
      <3>2. req \in [Slots -> Request]
        BY DEF Typing, TypeOK
      <3> QED
        BY <3>1, <3>2, StartMoves
    <2>2. o \in Captured(s)
      BY <1>3, NoneAssumption DEF VerifyStart, PaymentTrail, RowTrail, Captured
    <2> QED
      BY <1>3, <2>1, <2>2, PayStarts DEF VerifyStart, database, redis
  <1>4. ASSUME NEW r \in Slots, NEW u \in Users, NEW s \in Seats, NEW o \in Orders,
               VerifyRejected(r, u, s, o)
         PROVE  PaymentTrail'
    <2>1. \A q \in Slots : req'[q].pc \in {"pay.record", "pay.enqueue"} => req'[q] = req[q]
      <3>1. /\ "fail.cancel" \in RequestPC /\ Start(r, "fail.cancel", u, s, o)
            /\ u \in Users \cup {None} /\ o \in Orders \cup {None}
        BY <1>4 DEF Typing, RequestPC, VerifyRejected, TypeOK, Row
      <3>2. req \in [Slots -> Request]
        BY DEF Typing, TypeOK
      <3> QED
        BY <3>1, <3>2, StartMoves
    <2> QED
      BY <1>4, <2>1, TrailFrame DEF VerifyRejected, database, redis
  <1>5. ASSUME NEW r \in Slots, NEW s \in Seats, NEW o \in Orders, WebhookCaptured(r, s, o)
         PROVE  PaymentTrail'
    <2>1. /\ \A q \in Slots : q # r => req'[q] = req[q]
          /\ req'[r].pc = "pay.record" /\ req'[r].seat = s /\ req'[r].order = o
      <3>1. /\ "pay.record" \in RequestPC /\ Start(r, "pay.record", row[s].user, s, o)
            /\ row[s].user \in Users \cup {None} /\ o \in Orders \cup {None}
        BY <1>5 DEF WebhookCaptured, RequestPC, Typing, TypeOK, Row
      <3>2. req \in [Slots -> Request]
        BY DEF Typing, TypeOK
      <3> QED
        BY <3>1, <3>2, StartMoves
    <2>2. o \in Captured(s)
      BY <1>5, NoneAssumption DEF WebhookCaptured, PaymentTrail, RowTrail, Captured
    <2> QED
      BY <1>5, <2>1, <2>2, PayStarts DEF WebhookCaptured, database, redis
  <1>6. ASSUME NEW r \in Slots, NEW s \in Seats, NEW o \in Orders, WebhookFailed(r, s, o)
         PROVE  PaymentTrail'
    <2>1. \A q \in Slots : req'[q].pc \in {"pay.record", "pay.enqueue"} => req'[q] = req[q]
      <3>1. /\ "fail.cancel" \in RequestPC /\ Start(r, "fail.cancel", row[s].user, s, o)
            /\ row[s].user \in Users \cup {None} /\ o \in Orders \cup {None}
        BY <1>6 DEF Typing, RequestPC, WebhookFailed, TypeOK, Row
      <3>2. req \in [Slots -> Request]
        BY DEF Typing, TypeOK
      <3> QED
        BY <3>1, <3>2, StartMoves
    <2> QED
      BY <1>6, <2>1, TrailFrame DEF WebhookFailed, database, redis
  <1>7. ASSUME NEW r \in Slots, NEW u \in Users, NEW s \in Seats, ReapStart(r, u, s)
         PROVE  PaymentTrail'
    <2>1. \A q \in Slots : req'[q].pc \in {"pay.record", "pay.enqueue"} => req'[q] = req[q]
      <3>1. /\ "reap.holder" \in RequestPC /\ Start(r, "reap.holder", u, s, None)
            /\ u \in Users \cup {None} /\ None \in Orders \cup {None}
        BY <1>7 DEF Typing, RequestPC, ReapStart, TypeOK, Row
      <3>2. req \in [Slots -> Request]
        BY DEF Typing, TypeOK
      <3> QED
        BY <3>1, <3>2, StartMoves
    <2> QED
      BY <1>7, <2>1, TrailFrame DEF ReapStart, database, redis
  <1>8. ASSUME NEW r \in Slots, NEW u \in Users, NEW s \in Seats, CancelStart(r, u, s)
         PROVE  PaymentTrail'
    <2>1. \A q \in Slots : req'[q].pc \in {"pay.record", "pay.enqueue"} => req'[q] = req[q]
      BY <1>8 DEF Typing, TypeOK, Idle, CancelStart
    <2> QED
      BY <1>8, <2>1, TrailFrame DEF CancelStart, database, redis
  <1>9. ASSUME NEW r \in Slots, NEW s \in Seats, MapRead(r, s)
         PROVE  PaymentTrail'
    <2>1. \A q \in Slots : req'[q].pc \in {"pay.record", "pay.enqueue"} => req'[q] = req[q]
      BY <1>9 DEF Typing, TypeOK, Idle, MapRead
    <2> QED
      BY <1>9, <2>1, TrailFrame DEF MapRead, database, redis
  <1>10. ASSUME NEW r \in Slots, NEW s \in Seats, MapMiss(r, s)
         PROVE  PaymentTrail'
    <2>1. \A q \in Slots : req'[q].pc \in {"pay.record", "pay.enqueue"} => req'[q] = req[q]
      <3>1. /\ "map.load" \in RequestPC /\ Start(r, "map.load", None, s, None)
            /\ None \in Users \cup {None} /\ None \in Orders \cup {None}
        BY <1>10 DEF Typing, RequestPC, MapMiss, TypeOK, Row
      <3>2. req \in [Slots -> Request]
        BY DEF Typing, TypeOK
      <3> QED
        BY <3>1, <3>2, StartMoves
    <2> QED
      BY <1>10, <2>1, TrailFrame DEF MapMiss, database, redis
  <1>11. ASSUME NEW r \in Slots, NEW o \in Orders, OrderOpen(r, o)
         PROVE  PaymentTrail'
    <2>1. /\ \A t \in Seats : t # req[r].seat => row'[t] = row[t]
          /\ \A t \in Seats : row'[t].payment = row[t].payment /\ row'[t].status = row[t].status
          /\ row'[req[r].seat].order = o /\ req[r].seat \in Seats
      <3>1. req[r].seat \in Seats
        BY <1>11 DEF OrderOpen, Typing, Carries
      <3> QED
        BY <1>11, <3>1, OpenMoves DEF OrderOpen, Typing, TypeOK
    <2>2. queue' = queue /\ job' = job
      BY <1>11 DEF OrderOpen, redis
    <2>3. /\ gateway[o].seat = None /\ gateway'[o].seat = req[r].seat
          /\ \A p \in Orders : p # o => gateway'[p] = gateway[p]
      BY <1>11 DEF OrderOpen, Typing, TypeOK, Fresh
    <2>4. \A t \in Seats : Captured(t) \subseteq Captured(t)' /\ o \notin Captured(t)
      BY <2>3, NoneAssumption DEF Captured
    <2>5. ASSUME NEW t \in Seats, NEW p, UnderWay(t, p)
          PROVE  UnderWay(t, p)'
      BY <2>1, <2>4, <2>5 DEF UnderWay
    <2>6. RowTrail'
      <3>1. ASSUME NEW t \in Seats
            PROVE  /\ row'[t].payment \in Captured(t)' \cup {None}
                   /\ Confirmed(t)' => row'[t].payment # None
        BY <2>1, <2>4 DEF PaymentTrail, RowTrail, Confirmed
      <3>2. ASSUME NEW t \in Seats, row'[t].order # None
            PROVE  gateway'[row'[t].order].seat = t
        <4>1. CASE t = req[r].seat
          BY <2>1, <2>3, <4>1
        <4>2. CASE t # req[r].seat
          <5>1. row'[t].order = row[t].order /\ row[t].order \in Orders
            BY <2>1, <3>2, <4>2 DEF Typing, TypeOK, Row
          <5>2. gateway[row[t].order].seat = t
            BY <3>2, <5>1 DEF PaymentTrail, RowTrail
          <5> QED
            BY <2>3, <5>1, <5>2, NoneAssumption
        <4> QED
          BY <4>1, <4>2
      <3> QED
        BY <3>1, <3>2 DEF RowTrail
    <2>7. RequestTrail'
      <3>1. \A q \in Slots : req'[q].pc \in {"pay.record", "pay.enqueue"} => req'[q] = req[q]
        BY <1>11, FinishMoves DEF OrderOpen, Typing, TypeOK
      <3> QED
        BY <2>4, <2>5, <3>1, Places DEF PaymentTrail, RequestTrail
    <2>8. QueueTrail' /\ JobTrail'
      BY <2>2, <2>5, Places DEF PaymentTrail, QueueTrail, JobTrail
    <2> QED
      BY <2>6, <2>7, <2>8 DEF PaymentTrail
  <1>12. ASSUME NEW r \in Slots, LockAcquire(r)
         PROVE  PaymentTrail'
    <2>1. \A q \in Slots : req'[q].pc \in {"pay.record", "pay.enqueue"} => req'[q] = req[q]
      BY <1>12, FinishMoves DEF Typing, TypeOK, LockAcquire
    <2> QED
      BY <1>12, <2>1, TrailFrame DEF LockAcquire, database, redis
  <1>13. ASSUME NEW r \in Slots, LockConflict(r)
         PROVE  PaymentTrail'
    <2>1. \A q \in Slots : req'[q].pc \in {"pay.record", "pay.enqueue"} => req'[q] = req[q]
      BY <1>13, FinishMoves DEF Typing, TypeOK, LockConflict
    <2> QED
      BY <1>13, <2>1, TrailFrame DEF LockConflict, database, redis
  <1>14. ASSUME NEW r \in Slots, OrderHolder(r)
         PROVE  PaymentTrail'
    <2>1. \A q \in Slots : req'[q].pc \in {"pay.record", "pay.enqueue"} => req'[q] = req[q]
      BY <1>14, GotoMoves DEF Typing, TypeOK, RequestPC, OrderHolder
    <2> QED
      BY <1>14, <2>1, TrailFrame DEF OrderHolder, database, redis
  <1>15. ASSUME NEW r \in Slots, OrderNotHolder(r)
         PROVE  PaymentTrail'
    <2>1. \A q \in Slots : req'[q].pc \in {"pay.record", "pay.enqueue"} => req'[q] = req[q]
      BY <1>15, FinishMoves DEF Typing, TypeOK, OrderNotHolder
    <2> QED
      BY <1>15, <2>1, TrailFrame DEF OrderNotHolder, database, redis
  <1>16. ASSUME NEW r \in Slots, OrderUpsert(r)
         PROVE  PaymentTrail'
    <2>1. /\ \A t \in Seats : t # req[r].seat => row'[t] = row[t]
          /\ row'[req[r].seat] = PendingRow(req[r].user)
      BY <1>16 DEF OrderUpsert, Typing, TypeOK, Carries
    <2>2. gateway' = gateway /\ queue' = queue /\ job' = job
      BY <1>16 DEF OrderUpsert, redis
    <2>3. \A t \in Seats : Captured(t)' = Captured(t)
      BY <2>2 DEF Captured
    <2>4. ASSUME NEW t \in Seats, NEW o, UnderWay(t, o)
          PROVE  UnderWay(t, o)'
      <3>1. o \in Orders
        BY <2>4 DEF UnderWay, Captured
      <3> QED
        BY <2>1, <2>3, <2>4, <3>1, NoneAssumption DEF UnderWay, PendingRow
    <2>5. RowTrail'
      BY <2>1, <2>2, <2>3 DEF PaymentTrail, RowTrail, Confirmed, PendingRow
    <2>6. RequestTrail'
      <3>1. \A q \in Slots : req'[q].pc \in {"pay.record", "pay.enqueue"} => req'[q] = req[q]
        BY <1>16, GotoMoves DEF OrderUpsert, Typing, TypeOK, RequestPC
      <3> QED
        BY <2>3, <2>4, <3>1, Places DEF PaymentTrail, RequestTrail
    <2>7. QueueTrail' /\ JobTrail'
      BY <2>2, <2>4, Places DEF PaymentTrail, QueueTrail, JobTrail
    <2> QED
      BY <2>5, <2>6, <2>7 DEF PaymentTrail
  <1>17. ASSUME NEW r \in Slots, OrderRefused(r)
         PROVE  PaymentTrail'
    <2>1. \A q \in Slots : req'[q].pc \in {"pay.record", "pay.enqueue"} => req'[q] = req[q]
      BY <1>17, FinishMoves DEF Typing, TypeOK, OrderRefused
    <2> QED
      BY <1>17, <2>1, TrailFrame DEF OrderRefused, database, redis
  <1>18. ASSUME NEW r \in Slots, RecordPayment(r)
         PROVE  PaymentTrail'
    <2>1. /\ req[r].seat \in Seats /\ req[r].order \in Captured(req[r].seat)
          /\ req[r].order \in Orders /\ req[r].order # None
      BY <1>18, NoneAssumption
         DEF RecordPayment, Typing, Carries, PaymentTrail, RequestTrail
    <2>2. /\ \A t \in Seats : t # req[r].seat => row'[t] = row[t]
          /\ \A t \in Seats : row'[t].order = row[t].order /\ row'[t].status = row[t].status
          /\ row'[req[r].seat].payment = req[r].order
      BY <1>18, <2>1, RecordMoves DEF RecordPayment, Typing, TypeOK
    <2>3. /\ \A q \in Slots : q # r => req'[q] = req[q]
          /\ req'[r].pc = "pay.enqueue"
          /\ req'[r].seat = req[r].seat /\ req'[r].order = req[r].order
      BY <1>18, GotoMoves DEF RecordPayment, Typing, TypeOK, RequestPC
    <2>4. gateway' = gateway /\ queue' = queue /\ job' = job
      BY <1>18 DEF RecordPayment, redis
    <2>5. \A t \in Seats : Captured(t)' = Captured(t)
      BY <2>4 DEF Captured
    <2>6. ASSUME NEW t \in Seats, NEW o, UnderWay(t, o)
          PROVE  UnderWay(t, o)'
      BY <2>1, <2>2, <2>5, <2>6 DEF UnderWay
    <2>7. RowTrail'
      BY <2>1, <2>2, <2>4, <2>5 DEF PaymentTrail, RowTrail, Confirmed
    <2>8. RequestTrail'
      BY <2>1, <2>2, <2>3, <2>5, <2>6
         DEF PaymentTrail, RequestTrail, UnderWay, Typing, Carries
    <2>9. QueueTrail' /\ JobTrail'
      BY <2>4, <2>6, Places DEF PaymentTrail, QueueTrail, JobTrail
    <2> QED
      BY <2>7, <2>8, <2>9 DEF PaymentTrail
  <1>19. ASSUME NEW r \in Slots, EnqueuePayment(r)
         PROVE  PaymentTrail'
    <2> DEFINE j == [seat |-> req[r].seat, user |-> req[r].user, order |-> req[r].order]
    <2>1. /\ UnderWay(j.seat, j.order) /\ j \in QueuedJob
          /\ queue' = Append(queue, j)
      BY <1>19 DEF EnqueuePayment, PaymentTrail, RequestTrail, Typing, Carries, QueuedJob
    <2>2. row' = row /\ gateway' = gateway /\ job' = job
      BY <1>19 DEF EnqueuePayment, database
    <2>3. \A s, o : UnderWay(s, o)' <=> UnderWay(s, o)
      BY <2>2 DEF UnderWay, Captured
    <2>4. RowTrail' /\ JobTrail'
      BY <2>2, <2>3 DEF PaymentTrail, RowTrail, JobTrail, Confirmed, Captured
    <2>5. RequestTrail'
      <3>1. \A q \in Slots : req'[q].pc \in {"pay.record", "pay.enqueue"} => req'[q] = req[q]
        BY <1>19, FinishMoves DEF EnqueuePayment, Typing, TypeOK
      <3> QED
        BY <2>2, <2>3, <3>1 DEF PaymentTrail, RequestTrail, Captured
    <2>6. QueueTrail'
      <3>1. \A i \in DOMAIN queue' : (i \in DOMAIN queue /\ queue'[i] = queue[i]) \/ queue'[i] = j
        BY <2>1 DEF Typing, TypeOK
      <3> QED
        BY <2>1, <2>3, <3>1 DEF PaymentTrail, QueueTrail
    <2> QED
      BY <2>4, <2>5, <2>6 DEF PaymentTrail
  <1>20. ASSUME NEW r \in Slots, FailCancel(r)
         PROVE  PaymentTrail'
    <2>1. \A q \in Slots : req'[q].pc \in {"pay.record", "pay.enqueue"} => req'[q] = req[q]
      BY <1>20, GotoMoves DEF Typing, TypeOK, RequestPC, FailCancel
    <2>2. \A s \in Seats : /\ row'[s].order = row[s].order
                           /\ row'[s].payment = row[s].payment
                           /\ row'[s].status = "CONFIRMED" => row[s].status = "CONFIRMED"
      <3>1. req[r].seat \in Seats
        BY <1>20 DEF Typing, TypeOK, Carries, Job, NoJob, FailCancel
      <3> QED
        BY <1>20, <3>1, CancelMoves DEF Typing, TypeOK, FailCancel
    <2>3. /\ gateway' = gateway
          /\ \A i \in DOMAIN queue' : \E j \in DOMAIN queue : queue'[i] = queue[j]
      BY <1>20 DEF FailCancel, redis
    <2>4. \A v \in Workers : job'[v] # NoJob => /\ job[v] # NoJob
                                                /\ job'[v].seat = job[v].seat
                                                /\ job'[v].order = job[v].order
      BY <1>20 DEF FailCancel
    <2> QED
      BY <2>1, <2>2, <2>3, <2>4, TrailFrame
  <1>21. ASSUME NEW r \in Slots, FailCache(r)
         PROVE  PaymentTrail'
    <2>1. \A q \in Slots : req'[q].pc \in {"pay.record", "pay.enqueue"} => req'[q] = req[q]
      BY <1>21, GotoMoves DEF Typing, TypeOK, RequestPC, FailCache
    <2> QED
      BY <1>21, <2>1, TrailFrame DEF FailCache, database, redis
  <1>22. ASSUME NEW r \in Slots, FailUnlock(r)
         PROVE  PaymentTrail'
    <2>1. \A q \in Slots : req'[q].pc \in {"pay.record", "pay.enqueue"} => req'[q] = req[q]
      BY <1>22, FinishMoves DEF Typing, TypeOK, FailUnlock
    <2> QED
      BY <1>22, <2>1, TrailFrame DEF FailUnlock, database, redis
  <1>23. ASSUME NEW r \in Slots, ReapKeep(r)
         PROVE  PaymentTrail'
    <2>1. \A q \in Slots : req'[q].pc \in {"pay.record", "pay.enqueue"} => req'[q] = req[q]
      BY <1>23, FinishMoves DEF Typing, TypeOK, ReapKeep
    <2> QED
      BY <1>23, <2>1, TrailFrame DEF ReapKeep, database, redis
  <1>24. ASSUME NEW r \in Slots, ReapAbandoned(r)
         PROVE  PaymentTrail'
    <2>1. \A q \in Slots : req'[q].pc \in {"pay.record", "pay.enqueue"} => req'[q] = req[q]
      BY <1>24, GotoMoves DEF Typing, TypeOK, RequestPC, ReapAbandoned
    <2> QED
      BY <1>24, <2>1, TrailFrame DEF ReapAbandoned, database, redis
  <1>25. ASSUME NEW r \in Slots, ReapCommit(r)
         PROVE  PaymentTrail'
    <2>1. \A q \in Slots : req'[q].pc \in {"pay.record", "pay.enqueue"} => req'[q] = req[q]
      BY <1>25, FinishMoves DEF Typing, TypeOK, ReapCommit
    <2>2. \A s \in Seats : /\ row'[s].order = row[s].order
                           /\ row'[s].payment = row[s].payment
                           /\ row'[s].status = "CONFIRMED" => row[s].status = "CONFIRMED"
      <3>1. req[r].seat \in Seats
        BY <1>25 DEF Typing, TypeOK, Carries, Job, NoJob, ReapCommit
      <3> QED
        BY <1>25, <3>1, RevokeMoves DEF Typing, TypeOK, ReapCommit
    <2> QED
      BY <1>25, <2>1, <2>2, TrailFrame DEF ReapCommit, database, redis
  <1>26. ASSUME NEW r \in Slots, CancelReadSeat(r)
         PROVE  PaymentTrail'
    <2>1. \A q \in Slots : req'[q].pc \in {"pay.record", "pay.enqueue"} => req'[q] = req[q]
      BY <1>26 DEF Typing, TypeOK, Idle, CancelReadSeat
    <2> QED
      BY <1>26, <2>1, TrailFrame DEF CancelReadSeat, database, redis
  <1>27. ASSUME NEW r \in Slots, CancelCommit(r)
         PROVE  PaymentTrail'
    <2>1. \A q \in Slots : req'[q].pc \in {"pay.record", "pay.enqueue"} => req'[q] = req[q]
      BY <1>27, GotoMoves DEF Typing, TypeOK, RequestPC, CancelCommit
    <2>2. \A s \in Seats : /\ row'[s].order = row[s].order
                           /\ row'[s].payment = row[s].payment
                           /\ row'[s].status = "CONFIRMED" => row[s].status = "CONFIRMED"
      <3>1. req[r].seat \in Seats
        BY <1>27 DEF Typing, Carries, CancelCommit
      <3>2. CASE row' = row
        BY <3>2
      <3>3. CASE row' = [row EXCEPT ![req[r].seat].status = "CANCELLED"]
        BY <3>1, <3>3, RevokeMoves DEF Typing, TypeOK
      <3> QED
        BY <1>27, <3>2, <3>3 DEF CancelCommit
    <2> QED
      BY <1>27, <2>1, <2>2, TrailFrame DEF CancelCommit, database, redis
  <1>28. ASSUME NEW r \in Slots, CancelCache(r)
         PROVE  PaymentTrail'
    <2>1. \A q \in Slots : req'[q].pc \in {"pay.record", "pay.enqueue"} => req'[q] = req[q]
      BY <1>28, FinishMoves DEF Typing, TypeOK, CancelCache
    <2> QED
      BY <1>28, <2>1, TrailFrame DEF CancelCache, database, redis
  <1>29. ASSUME NEW r \in Slots, MapLoad(r)
         PROVE  PaymentTrail'
    <2>1. \A q \in Slots : req'[q].pc \in {"pay.record", "pay.enqueue"} => req'[q] = req[q]
      BY <1>29 DEF Typing, TypeOK, Idle, MapLoad
    <2> QED
      BY <1>29, <2>1, TrailFrame DEF MapLoad, database, redis
  <1>30. ASSUME NEW r \in Slots, MapStore(r)
         PROVE  PaymentTrail'
    <2>1. \A q \in Slots : req'[q].pc \in {"pay.record", "pay.enqueue"} => req'[q] = req[q]
      BY <1>30, GotoMoves DEF Typing, TypeOK, RequestPC, MapStore
    <2> QED
      BY <1>30, <2>1, TrailFrame DEF MapStore, database, redis
  <1>31. ASSUME NEW r \in Slots, MapLocks(r)
         PROVE  PaymentTrail'
    <2>1. \A q \in Slots : req'[q].pc \in {"pay.record", "pay.enqueue"} => req'[q] = req[q]
      <3>1. CASE Finish(r)
        BY <3>1, FinishMoves DEF Typing, TypeOK
      <3>2. CASE \E status : req' = [req EXCEPT ![r].pc = "map.heal", ![r].sawStatus = status]
        BY <3>2 DEF Typing, TypeOK, Request
      <3> QED
        BY <1>31, <3>1, <3>2 DEF MapLocks
    <2> QED
      BY <1>31, <2>1, TrailFrame DEF MapLocks, database, redis
  <1>32. ASSUME NEW r \in Slots, MapHeal(r)
         PROVE  PaymentTrail'
    <2>1. \A q \in Slots : req'[q].pc \in {"pay.record", "pay.enqueue"} => req'[q] = req[q]
      BY <1>32, FinishMoves DEF Typing, TypeOK, MapHeal
    <2> QED
      BY <1>32, <2>1, TrailFrame DEF MapHeal, database, redis
  <1>33. ASSUME NEW r \in Slots, Abort(r)
         PROVE  PaymentTrail'
    <2>1. \A q \in Slots : req'[q].pc \in {"pay.record", "pay.enqueue"} => req'[q] = req[q]
      BY <1>33, FinishMoves DEF Typing, TypeOK, Abort
    <2> QED
      BY <1>33, <2>1, TrailFrame DEF Abort, database, redis
  <1>34. ASSUME NEW u \in Users, NEW s \in Seats, Unlock(u, s)
         PROVE  PaymentTrail'
    <2> QED
      BY <1>34, TrailFrame DEF Unlock, database, redis
  <1>35. ASSUME NEW w \in Workers, PickUp(w)
         PROVE  PaymentTrail'
    <2>1. row' = row /\ gateway' = gateway /\ req' = req
      BY <1>35 DEF PickUp, database
    <2>2. \A s, o : UnderWay(s, o)' <=> UnderWay(s, o)
      BY <2>1 DEF UnderWay, Captured
    <2>3. RowTrail' /\ RequestTrail'
      BY <2>1, <2>2 DEF PaymentTrail, RowTrail, RequestTrail, Confirmed, Captured
    <2>4. QueueTrail'
      <3>1. \A i \in DOMAIN queue' : \E k \in DOMAIN queue : queue'[i] = queue[k]
        <4>1. queue \in Seq(QueuedJob) /\ queue # <<>> /\ queue' = Tail(queue)
          BY <1>35 DEF PickUp, Typing, TypeOK
        <4>2. \A i \in DOMAIN queue' : i + 1 \in DOMAIN queue /\ queue'[i] = queue[i + 1]
          BY <4>1
        <4> QED
          BY <4>2
      <3> QED
        BY <2>2, <3>1 DEF PaymentTrail, QueueTrail
    <2>5. JobTrail'
      <3>1. UnderWay(Head(queue).seat, Head(queue).order)
        <4>1. 1 \in DOMAIN queue /\ Head(queue) = queue[1]
          BY <1>35 DEF PickUp, Typing, TypeOK
        <4> QED
          BY <4>1 DEF PaymentTrail, QueueTrail
      <3>2. /\ job'[w].seat = Head(queue).seat /\ job'[w].order = Head(queue).order
            /\ \A v \in Workers : v # w => job'[v] = job[v]
        BY <1>35 DEF PickUp, Typing, TypeOK
      <3> QED
        BY <2>2, <3>1, <3>2 DEF PaymentTrail, JobTrail
    <2> QED
      BY <2>3, <2>4, <2>5 DEF PaymentTrail
  <1>36. ASSUME NEW w \in Workers, Confirm(w)
         PROVE  PaymentTrail'
    <2>1. /\ "cache" \in JobPC /\ job[w].pc \in JobPC /\ job[w] # NoJob
          /\ job' = [job EXCEPT ![w].pc = "cache"]
          /\ job[w].seat \in Seats /\ job[w].order \in Orders
      BY <1>36 DEF Confirm, JobPC, Typing, TypeOK, Job, NoJob
    <2>2. /\ \A t \in Seats : t # job[w].seat => row'[t] = row[t]
          /\ \A t \in Seats : row'[t].order = row[t].order
          /\ row'[job[w].seat].payment = job[w].order
      BY <1>36, <2>1, ConfirmMoves DEF Confirm, Typing, TypeOK
    <2>3. gateway' = gateway /\ queue' = queue /\ req' = req
      BY <1>36 DEF Confirm, redis
    <2>4. \A t \in Seats : Captured(t)' = Captured(t)
      BY <2>3 DEF Captured
    <2>5. job[w].order \in Captured(job[w].seat) /\ job[w].order # None
      BY <2>1, NoneAssumption DEF PaymentTrail, JobTrail, UnderWay
    <2>6. ASSUME NEW t \in Seats, NEW o, UnderWay(t, o)
          PROVE  UnderWay(t, o)'
      BY <2>2, <2>4, <2>5, <2>6 DEF UnderWay
    <2>7. RowTrail'
      BY <2>1, <2>2, <2>3, <2>4, <2>5 DEF PaymentTrail, RowTrail, Confirmed
    <2>8. RequestTrail' /\ QueueTrail'
      BY <2>3, <2>4, <2>6, Places DEF PaymentTrail, RequestTrail, QueueTrail
    <2>9. JobTrail'
      <3>1. \A v \in Workers : job'[v] # NoJob => /\ job[v] # NoJob
                                                  /\ job'[v].seat = job[v].seat
                                                  /\ job'[v].order = job[v].order
        BY <2>1, JobMoves DEF Typing, TypeOK
      <3> QED
        BY <2>6, <3>1, Places DEF PaymentTrail, JobTrail
    <2> QED
      BY <2>7, <2>8, <2>9 DEF PaymentTrail
  <1>37. ASSUME NEW w \in Workers, AlreadySettled(w)
         PROVE  PaymentTrail'
    <2>1. \A v \in Workers : job'[v] # NoJob => /\ job[v] # NoJob
                                                /\ job'[v].seat = job[v].seat
                                                /\ job'[v].order = job[v].order
      BY <1>37 DEF AlreadySettled, Typing, TypeOK
    <2> QED
      BY <1>37, <2>1, TrailFrame DEF AlreadySettled, database, redis
  <1>38. ASSUME NEW w \in Workers, CacheBooked(w)
         PROVE  PaymentTrail'
    <2>1. \A v \in Workers : job'[v] # NoJob => /\ job[v] # NoJob
                                                /\ job'[v].seat = job[v].seat
                                                /\ job'[v].order = job[v].order
      <3>1. /\ "unlock" \in JobPC /\ job[w].pc \in JobPC
            /\ job' = [job EXCEPT ![w].pc = "unlock"]
        BY <1>38 DEF CacheBooked, JobPC
      <3>2. job[w] # NoJob
        BY <3>1 DEF NoJob, JobPC
      <3> QED
        BY <3>1, <3>2, JobMoves DEF Typing, TypeOK
    <2> QED
      BY <1>38, <2>1, TrailFrame DEF CacheBooked, database, redis
  <1>39. ASSUME NEW w \in Workers, DropSoldLock(w)
         PROVE  PaymentTrail'
    <2>1. \A v \in Workers : job'[v] # NoJob => /\ job[v] # NoJob
                                                /\ job'[v].seat = job[v].seat
                                                /\ job'[v].order = job[v].order
      BY <1>39 DEF DropSoldLock, Typing, TypeOK
    <2> QED
      BY <1>39, <2>1, TrailFrame DEF DropSoldLock, database, redis
  <1>40. ASSUME NEW w \in Workers, Revert(w)
         PROVE  PaymentTrail'
    <2>1. \A s \in Seats : /\ row'[s].order = row[s].order
                           /\ row'[s].payment = row[s].payment
                           /\ row'[s].status = "CONFIRMED" => row[s].status = "CONFIRMED"
      <3>1. job[w].seat \in Seats
        BY <1>40 DEF Typing, TypeOK, Carries, Job, NoJob, Revert
      <3> QED
        BY <1>40, <3>1, CancelMoves DEF Typing, TypeOK, Revert
    <2>2. \A v \in Workers : job'[v] # NoJob => /\ job[v] # NoJob
                                                /\ job'[v].seat = job[v].seat
                                                /\ job'[v].order = job[v].order
      <3>1. /\ "revert.cache" \in JobPC /\ job[w].pc \in JobPC
            /\ job' = [job EXCEPT ![w].pc = "revert.cache"]
        BY <1>40 DEF Revert, JobPC
      <3>2. job[w] # NoJob
        BY <3>1 DEF NoJob, JobPC
      <3> QED
        BY <3>1, <3>2, JobMoves DEF Typing, TypeOK
    <2>3. /\ gateway' = gateway
          /\ \A i \in DOMAIN queue' : \E j \in DOMAIN queue : queue'[i] = queue[j]
      BY <1>40 DEF Revert, redis
    <2>4. \A q \in Slots : req'[q].pc \in {"pay.record", "pay.enqueue"} => req'[q] = req[q]
      BY <1>40 DEF Revert
    <2> QED
      BY <2>1, <2>2, <2>3, <2>4, TrailFrame
  <1>41. ASSUME NEW w \in Workers, RefuseRevert(w)
         PROVE  PaymentTrail'
    <2>1. \A v \in Workers : job'[v] # NoJob => /\ job[v] # NoJob
                                                /\ job'[v].seat = job[v].seat
                                                /\ job'[v].order = job[v].order
      BY <1>41 DEF RefuseRevert, Typing, TypeOK
    <2> QED
      BY <1>41, <2>1, TrailFrame DEF RefuseRevert, database, redis
  <1>42. ASSUME NEW w \in Workers, RevertCache(w)
         PROVE  PaymentTrail'
    <2>1. \A v \in Workers : job'[v] # NoJob => /\ job[v] # NoJob
                                                /\ job'[v].seat = job[v].seat
                                                /\ job'[v].order = job[v].order
      <3>1. /\ "revert.unlock" \in JobPC /\ job[w].pc \in JobPC
            /\ job' = [job EXCEPT ![w].pc = "revert.unlock"]
        BY <1>42 DEF RevertCache, JobPC
      <3>2. job[w] # NoJob
        BY <3>1 DEF NoJob, JobPC
      <3> QED
        BY <3>1, <3>2, JobMoves DEF Typing, TypeOK
    <2> QED
      BY <1>42, <2>1, TrailFrame DEF RevertCache, database, redis
  <1>43. ASSUME NEW w \in Workers, RevertUnlock(w)
         PROVE  PaymentTrail'
    <2>1. \A v \in Workers : job'[v] # NoJob => /\ job[v] # NoJob
                                                /\ job'[v].seat = job[v].seat
                                                /\ job'[v].order = job[v].order
      BY <1>43 DEF RevertUnlock, Typing, TypeOK
    <2> QED
      BY <1>43, <2>1, TrailFrame DEF RevertUnlock, database, redis
  <1>44. ASSUME NEW w \in Workers, JobFails(w)
         PROVE  PaymentTrail'
    <2>1. \A v \in Workers : job'[v] # NoJob => /\ job[v] # NoJob
                                                /\ job'[v].seat = job[v].seat
                                                /\ job'[v].order = job[v].order
      <3>1. /\ "revert" \in JobPC /\ job[w].pc \in JobPC
            /\ job' = [job EXCEPT ![w].pc = "revert"]
        BY <1>44 DEF JobFails, JobPC
      <3>2. job[w] # NoJob
        BY <3>1 DEF NoJob, JobPC
      <3> QED
        BY <3>1, <3>2, JobMoves DEF Typing, TypeOK
    <2> QED
      BY <1>44, <2>1, TrailFrame DEF JobFails, database, redis
  <1>45. ASSUME NEW w \in Workers, CleanupFails(w)
         PROVE  PaymentTrail'
    <2>1. \A v \in Workers : job'[v] # NoJob => /\ job[v] # NoJob
                                                /\ job'[v].seat = job[v].seat
                                                /\ job'[v].order = job[v].order
      BY <1>45 DEF CleanupFails, Typing, TypeOK
    <2> QED
      BY <1>45, <2>1, TrailFrame DEF CleanupFails, database, redis
  <1>46. ASSUME NEW w \in Workers, WorkerCrash(w)
         PROVE  PaymentTrail'
    <2>1. \A v \in Workers : job'[v] # NoJob => /\ job[v] # NoJob
                                                /\ job'[v].seat = job[v].seat
                                                /\ job'[v].order = job[v].order
      BY <1>46 DEF WorkerCrash, Typing, TypeOK
    <2> QED
      BY <1>46, <2>1, TrailFrame DEF WorkerCrash, database, redis
  <1>47. ASSUME NEW o \in Orders, Capture(o)
         PROVE  PaymentTrail'
    <2>1. UNCHANGED <<row, queue, req, job>>
      BY <1>47 DEF Capture, database, redis
    <2>2. \A p \in Orders : gateway'[p].seat = gateway[p].seat
                            /\ (gateway[p].captured => gateway'[p].captured)
      BY <1>47 DEF Capture, Typing, TypeOK
    <2>3. \A t \in Seats : Captured(t) \subseteq Captured(t)'
      BY <2>2 DEF Captured
    <2>4. ASSUME NEW t \in Seats, NEW p, UnderWay(t, p)
          PROVE  UnderWay(t, p)'
      BY <2>1, <2>3, <2>4 DEF UnderWay
    <2>5. RowTrail'
      BY <2>1, <2>2, <2>3 DEF PaymentTrail, RowTrail, Confirmed, Typing, TypeOK, Row
    <2>6. RequestTrail' /\ QueueTrail' /\ JobTrail'
      BY <2>1, <2>3, <2>4, Places DEF PaymentTrail, RequestTrail, QueueTrail, JobTrail
    <2> QED
      BY <2>5, <2>6 DEF PaymentTrail
  <1>48. ASSUME NEW s \in Seats, Expire(s)
         PROVE  PaymentTrail'
    <2> QED
      BY <1>48, TrailFrame DEF Expire, database, redis
  <1>49. ASSUME RedisRestart
         PROVE  PaymentTrail'
    BY <1>49, TrailFrame DEF RedisRestart, database
  <1>50. CASE UNCHANGED vars
    BY <1>50, TrailFrame DEF vars
  <1> QED
    BY <1>1, <1>2, <1>3, <1>4, <1>5, <1>6, <1>7, <1>8, <1>9, <1>10, <1>11, <1>12, <1>13,
       <1>14, <1>15, <1>16, <1>17, <1>18, <1>19, <1>20, <1>21, <1>22, <1>23, <1>24,
       <1>25, <1>26, <1>27, <1>28, <1>29, <1>30, <1>31, <1>32, <1>33, <1>34, <1>35,
       <1>36, <1>37, <1>38, <1>39, <1>40, <1>41, <1>42, <1>43, <1>44, <1>45, <1>46,
       <1>47, <1>48, <1>49, <1>50
    DEF Next, Arrival, CheckoutArrival, MyBookingsArrival, SeatMapArrival,
             RequestStep, CheckoutStep, MyBookingsStep, SeatMapStep, WorkerStep, WorkerFault

-----------------------------------------------------------------------------

(* Nothing has been paid, locked or queued in the initial state, so there is
   nothing to follow. *)
LEMMA Initially == Init => Typing /\ PaymentTrail
  <1> SUFFICES ASSUME Init PROVE Typing /\ PaymentTrail
    OBVIOUS
  <1>1. TypeOK
    BY DEF Init, TypeOK, Row, RowStatus, NoRow, CacheStatus, Request, RequestPC, Idle
  <1>2. Carries
    BY DEF Init, Carries, NoRow, Idle
  <1>3. PaymentTrail
    BY DEF Init, PaymentTrail, RowTrail, RequestTrail, QueueTrail, JobTrail, Confirmed,
           NoRow, Idle
  <1> QED
    BY <1>1, <1>2, <1>3 DEF Typing

(* The invariant holds in every reachable state. *)
LEMMA Invariant == Spec => [](Typing /\ PaymentTrail)
  <1>1. Init => Typing /\ PaymentTrail
    BY Initially
  <1>2. Typing /\ PaymentTrail /\ [Next]_vars => (Typing /\ PaymentTrail)'
    BY TypingStep, TrailStep
  <1> QED
    BY <1>1, <1>2, PTL DEF Spec

(* The trail leads from a confirmed booking to a captured order of its seat. *)
LEMMA TrailShowsPaid == Typing /\ PaymentTrail => ConfirmedWasPaid
  BY DEF Typing, PaymentTrail, RowTrail, ConfirmedWasPaid

(* A payment under way for the booking's current order is in the row: the
   trail says so of every place where one can be under way. *)
LEMMA TrailShowsPending == Typing /\ PaymentTrail => VerifiedNeverLooksAbandoned
  <1> SUFFICES ASSUME Typing, PaymentTrail, NEW s \in Seats
               PROVE  /\ \A r \in AboutToQueue(s) :
                           row[s].order = req[r].order => row[s].payment # None
                      /\ \A i \in Queued(s) :
                           row[s].order = queue[i].order => row[s].payment # None
                      /\ \A w \in AboutToSettle(s) :
                           row[s].order = job[w].order => row[s].payment # None
    BY DEF VerifiedNeverLooksAbandoned
  <1>1. \A r \in AboutToQueue(s) : row[s].order = req[r].order => row[s].payment # None
    BY DEF AboutToQueue, PaymentTrail, RequestTrail, UnderWay
  <1>2. \A i \in Queued(s) : row[s].order = queue[i].order => row[s].payment # None
    BY DEF Queued, PaymentTrail, QueueTrail, UnderWay
  <1>3. \A w \in AboutToSettle(s) : row[s].order = job[w].order => row[s].payment # None
    BY DEF AboutToSettle, PaymentTrail, JobTrail, UnderWay, NoJob
  <1> QED
    BY <1>1, <1>2, <1>3

(* Type correctness of the stores and of every suspended handler and job,
   whatever the handlers, the worker, Redis and the gateway do. *)
THEOREM TypeCorrect == Spec => []TypeOK
  <1>1. Typing => TypeOK
    BY DEF Typing
  <1> QED
    BY <1>1, Invariant, PTL

(* No ticket without money: a booking is CONFIRMED only with a payment that the
   gateway captured for an order of that seat, across verify, the webhook, the
   upsert, the worker's two transactions, and every crash, expiry and restart. *)
THEOREM PaidCorrect == Spec => []ConfirmedWasPaid
  BY Invariant, TrailShowsPaid, PTL

(* While a payment for a booking's current order waits to be settled the row has
   the payment id, so the reaper's candidate query does not select it. *)
THEOREM NeverLooksAbandoned == Spec => []VerifiedNeverLooksAbandoned
  BY Invariant, TrailShowsPending, PTL
=============================================================================
