--------------------------- MODULE CheckoutProofs ---------------------------
(***************************************************************************)
(* Theorems about CheckoutPage, for any numbers of requests and jobs, any   *)
(* faults and a rail and a wire of any length.  The inductive invariant is  *)
(* PageInv: the rail is in order, what is said or on its way is true, and   *)
(* nothing at all has happened before a seat is reserved.                   *)
(***************************************************************************)
EXTENDS CheckoutPage, SequenceTheorems, WellFoundedInduction, TLAPS

-----------------------------------------------------------------------------
(* The pump. *)

RailRecord == [shown: QueueStatus, pending: Seq(QueueStatus), timer: BOOLEAN, held: BOOLEAN]

(* A set of natural numbers has a least one. *)
LEMMA LeastExists ==
  ASSUME NEW S \in SUBSET Nat, S # {}
  PROVE  Min(S) \in S
<1>1. PICK x \in S : \A y \in S : ~(<<y, x>> \in OpToRel(<, Nat))
  BY NatLessThanWellFounded, WFMin
<1>2. \A y \in S : ~(y < x)
  <2>1. \A y \in S : x \in Nat /\ y \in Nat
    OBVIOUS
  <2> QED
    BY <1>1, <2>1, Zenon DEF OpToRel
<1>3. \A y \in S : x <= y
  BY <1>2
<1> QED
  BY <1>3 DEF Min

(* Run shows one of the statuses it is given and keeps those after it, with *)
(* a timer if there are any.                                                *)
LEMMA RunShows ==
  ASSUME NEW p \in Seq(QueueStatus), p # <<>>
  PROVE  \E k \in 1 .. Len(p) :
           /\ Run(p).shown = p[k]
           /\ Run(p).pending = SubSeq(p, k + 1, Len(p))
           /\ Run(p).timer = (k < Len(p))
           /\ Run(p) \in RailRecord
           /\ Len(Run(p).pending) = Len(p) - k
           /\ \A i \in 1 .. Len(Run(p).pending) : Run(p).pending[i] = p[k + i]
<1> DEFINE S == {i \in DOMAIN p : i = Len(p) \/ (p[i] \in Transient /\ p[i + 1] # p[i])}
           k == Min(S)
<1>1. Len(p) \in Nat \ {0} /\ DOMAIN p = 1 .. Len(p)
  BY EmptySeq, LenProperties
<1>2. S \in SUBSET Nat /\ Len(p) \in S
  BY <1>1
<1>3. k \in S
  BY <1>2, LeastExists
<1> HIDE DEF k
<1>4. k \in 1 .. Len(p) /\ k \in Nat
  BY <1>1, <1>3
<1>5. Run(p) = [shown |-> p[k], pending |-> SubSeq(p, k + 1, Len(p)),
                timer |-> k < Len(p), held |-> p[k] \notin Transient]
  BY DEF Run, k
<1> DEFINE q == SubSeq(p, k + 1, Len(p))
<1>6a. k <= Len(p)
  BY <1>1, <1>4
<1>6. /\ q \in Seq(QueueStatus)
      /\ Len(q) = Len(p) - k
      /\ \A i \in 1 .. Len(q) : q[i] = p[k + i]
  <2>1. k + 1 \in Int /\ Len(p) \in Int
    BY <1>1, <1>4
  <2>2. \A i \in k + 1 .. Len(p) : p[i] \in QueueStatus
    BY <1>1, <1>4, ElementOfSeq
  <2>3. /\ q \in Seq(QueueStatus)
        /\ Len(q) = IF k + 1 <= Len(p) THEN Len(p) - (k + 1) + 1 ELSE 0
        /\ \A i \in 1 .. Len(p) - (k + 1) + 1 : q[i] = p[k + 1 + i - 1]
    BY <2>1, <2>2, SubSeqProperties
  <2> HIDE DEF q
  <2>4. Len(q) = Len(p) - k /\ Len(p) - (k + 1) + 1 = Len(p) - k
    <3>1. \A n \in Nat, j \in Nat :
            j <= n => /\ (IF j + 1 <= n THEN n - (j + 1) + 1 ELSE 0) = n - j
                      /\ n - (j + 1) + 1 = n - j
      OBVIOUS
    <3> QED
      BY <1>1, <1>4, <1>6a, <2>3, <3>1
  <2>5. \A i \in 1 .. Len(q) : k + 1 + i - 1 = k + i
    BY <1>1, <1>4, <2>4
  <2> QED
    BY <2>3, <2>4, <2>5
<1>7. p[k] \in QueueStatus
  BY <1>4, ElementOfSeq
<1> QED
  BY <1>4, <1>5, <1>6, <1>7 DEF RailRecord

(* What the rail shows or is about to show. *)
Said(r) == {r.shown} \cup ToSet(r.pending)

(* A rail in order: what waits has a timer, and a timer has what to show.   *)
RailInOrder(r) == r \in RailRecord /\ (r.timer <=> r.pending # <<>>)

LEMMA RunKeeps ==
  ASSUME NEW p \in Seq(QueueStatus), p # <<>>
  PROVE  RailInOrder(Run(p)) /\ Said(Run(p)) \subseteq {p[i] : i \in DOMAIN p}
<1>1. PICK k \in 1 .. Len(p) :
        /\ Run(p).shown = p[k]
        /\ Run(p).timer = (k < Len(p))
        /\ Run(p) \in RailRecord
        /\ Len(Run(p).pending) = Len(p) - k
        /\ \A i \in 1 .. Len(Run(p).pending) : Run(p).pending[i] = p[k + i]
  BY RunShows
<1> DEFINE q == Run(p).pending
<1>2. q \in Seq(QueueStatus)
  BY <1>1 DEF RailRecord
<1>3. /\ Len(p) \in Nat /\ Len(q) \in Nat
      /\ DOMAIN p = 1 .. Len(p) /\ DOMAIN q = 1 .. Len(q)
  BY <1>2, LenProperties
<1>4. q # <<>> <=> Len(q) # 0
  BY <1>2, EmptySeq
<1>5. /\ Len(q) = Len(p) - k
      /\ \A i \in 1 .. Len(q) : q[i] = p[k + i]
  BY <1>1
<1> HIDE DEF q
<1>6. \A n \in Nat : \A j \in 1 .. n, m \in Nat :
        m = n - j => /\ (j < n) <=> (m # 0)
                     /\ \A i \in 1 .. m : j + i \in 1 .. n
  OBVIOUS
<1>7. /\ (k < Len(p)) <=> (Len(q) # 0)
      /\ \A i \in 1 .. Len(q) : k + i \in 1 .. Len(p)
  BY <1>3, <1>5, <1>6
<1>8. Run(p).timer <=> q # <<>>
  BY <1>1, <1>4, <1>7
<1>9. {q[i] : i \in DOMAIN q} \subseteq {p[i] : i \in DOMAIN p}
  BY <1>3, <1>5, <1>7
<1>10. p[k] \in {p[i] : i \in DOMAIN p}
  BY <1>3
<1>11. RailInOrder(Run(p))
  BY <1>1, <1>8 DEF RailInOrder, q
<1> QED
  BY <1>1, <1>9, <1>10, <1>11 DEF Said, ToSet, q

(* Committing a status adds it to what is said, and replaces a transient    *)
(* status only when its minimum time is over.                               *)
LEMMA CommitKeeps ==
  ASSUME RailInOrder(rail), NEW status \in QueueStatus
  PROVE  /\ RailInOrder(Commit(status))
         /\ Said(Commit(status)) \subseteq Said(rail) \cup {status}
         /\ rail.shown \in Transient /\ Commit(status).shown # rail.shown => rail.held
<1> DEFINE p == Append(rail.pending, status)
<1>1. rail \in RailRecord /\ rail.pending \in Seq(QueueStatus)
  BY DEF RailInOrder, RailRecord
<1>2. /\ p \in Seq(QueueStatus) /\ p # <<>>
      /\ Len(p) = Len(rail.pending) + 1
      /\ \A i \in 1 .. Len(rail.pending) : p[i] = rail.pending[i]
      /\ p[Len(rail.pending) + 1] = status
  BY <1>1, AppendProperties
<1>3. /\ DOMAIN p = 1 .. Len(rail.pending) + 1
      /\ DOMAIN rail.pending = 1 .. Len(rail.pending)
      /\ Len(rail.pending) \in Nat
  BY <1>1, <1>2, LenProperties
<1> HIDE DEF p
<1>4. {p[i] : i \in DOMAIN p} \subseteq {rail.pending[i] : i \in DOMAIN rail.pending} \cup {status}
  BY <1>2, <1>3
<1>5. CASE rail.timer \/ (rail.shown # Head(p) /\ rail.shown \in Transient /\ ~rail.held)
  <2>1. Commit(status) = [rail EXCEPT !.pending = p, !.timer = TRUE]
    BY <1>5 DEF Commit, p
  <2>2. /\ Commit(status) \in RailRecord
        /\ Commit(status).pending = p /\ Commit(status).timer = TRUE
        /\ Commit(status).shown = rail.shown
    BY <1>1, <1>2, <2>1 DEF RailRecord
  <2> QED
    BY <1>2, <1>4, <2>2 DEF RailInOrder, Said, ToSet
<1>6. CASE ~(rail.timer \/ (rail.shown # Head(p) /\ rail.shown \in Transient /\ ~rail.held))
  <2>1. Commit(status) = Run(p)
    BY <1>6 DEF Commit, p
  <2>2. rail.pending = <<>>
    BY <1>6 DEF RailInOrder
  <2>3. Len(rail.pending) = 0
    BY <2>2
  <2>4. Len(p) = 1 /\ Head(p) = p[1] /\ DOMAIN p = {1}
    BY <1>2, <1>3, <2>3, HeadTailProperties
  <2>5. Run(p).shown = p[1]
    BY <1>2, <2>4, RunShows
  <2>6. RailInOrder(Run(p)) /\ Said(Run(p)) \subseteq {p[i] : i \in DOMAIN p}
    BY <1>2, RunKeeps
  <2>7. Said(Run(p)) \subseteq Said(rail) \cup {status}
    BY <1>4, <2>6 DEF Said, ToSet
  <2>8. rail.shown \in Transient /\ Run(p).shown # rail.shown => rail.held
    BY <1>6, <2>4, <2>5
  <2> QED
    BY <2>1, <2>6, <2>7, <2>8
<1> QED
  BY <1>5, <1>6

-----------------------------------------------------------------------------
(* The wire. *)

LEMMA AppendElements ==
  ASSUME NEW S, NEW s \in Seq(S), NEW e \in S
  PROVE  Append(s, e) \in Seq(S) /\ ToSet(Append(s, e)) = ToSet(s) \cup {e}
<1> DEFINE t == Append(s, e)
<1>1. /\ t \in Seq(S)
      /\ Len(t) = Len(s) + 1
      /\ \A i \in 1 .. Len(s) : t[i] = s[i]
      /\ t[Len(s) + 1] = e
  BY AppendProperties
<1>2. /\ DOMAIN t = 1 .. Len(s) + 1
      /\ DOMAIN s = 1 .. Len(s)
      /\ Len(s) \in Nat
  BY <1>1, LenProperties
<1> HIDE DEF t
<1>3. ToSet(t) = ToSet(s) \cup {e}
  BY <1>1, <1>2 DEF ToSet
<1> QED
  BY <1>1, <1>3 DEF t

LEMMA TailElements ==
  ASSUME NEW S, NEW s \in Seq(S), s # <<>>
  PROVE  /\ Tail(s) \in Seq(S) /\ ToSet(Tail(s)) \subseteq ToSet(s)
         /\ Head(s) \in ToSet(s) /\ Head(s) \in S
<1> DEFINE t == Tail(s)
<1>1. /\ t \in Seq(S)
      /\ Len(t) = Len(s) - 1
      /\ \A i \in 1 .. Len(t) : t[i] = s[i + 1]
      /\ Head(s) = s[1]
  BY HeadTailProperties
<1>2. /\ DOMAIN t = 1 .. Len(t) /\ DOMAIN s = 1 .. Len(s)
      /\ Len(s) \in Nat \ {0} /\ Len(t) \in Nat
  BY <1>1, LenProperties, EmptySeq
<1> HIDE DEF t
<1>3. ToSet(t) \subseteq ToSet(s)
  <2>1. \A n \in Nat, m \in Nat : m = n - 1 => \A i \in 1 .. m : i + 1 \in 1 .. n
    OBVIOUS
  <2>2. \A i \in DOMAIN t : i + 1 \in DOMAIN s
    BY <1>1, <1>2, <2>1
  <2> QED
    BY <1>1, <1>2, <2>2 DEF ToSet
<1>4. 1 \in DOMAIN s
  BY <1>2
<1>5. Head(s) \in ToSet(s) /\ Head(s) \in S
  BY <1>1, <1>2, <1>4, ElementOfSeq DEF ToSet
<1> QED
  BY <1>1, <1>3, <1>5 DEF t

LEMMA RemoveElements ==
  ASSUME NEW S, NEW s \in Seq(S), NEW k \in DOMAIN s
  PROVE  RemoveAt(s, k) \in Seq(S) /\ ToSet(RemoveAt(s, k)) \subseteq ToSet(s)
<1> DEFINE u == SubSeq(s, 1, k - 1)
           v == SubSeq(s, k + 1, Len(s))
           t == u \o v
<1>1. Len(s) \in Nat /\ DOMAIN s = 1 .. Len(s) /\ k \in 1 .. Len(s)
  BY LenProperties
<1>2. \A i \in 1 .. Len(s) : s[i] \in ToSet(s)
  BY <1>1 DEF ToSet
<1>3. \A T : (\A i \in 1 .. Len(s) : s[i] \in T) => u \in Seq(T) /\ v \in Seq(T)
  <2> SUFFICES ASSUME NEW T, \A i \in 1 .. Len(s) : s[i] \in T
               PROVE  u \in Seq(T) /\ v \in Seq(T)
    OBVIOUS
  <2>1. \A i \in 1 .. k - 1 : s[i] \in T
    BY <1>1
  <2>2. \A i \in k + 1 .. Len(s) : s[i] \in T
    BY <1>1
  <2>3. 1 \in Int /\ k - 1 \in Int /\ k + 1 \in Int /\ Len(s) \in Int
    BY <1>1
  <2>4. u \in Seq(T)
    BY <2>1, <2>3, SubSeqProperties
  <2>5. v \in Seq(T)
    BY <2>2, <2>3, SubSeqProperties
  <2> QED
    BY <2>4, <2>5
<1>4. \A i \in 1 .. Len(s) : s[i] \in S
  BY <1>1, ElementOfSeq
<1> HIDE DEF u, v
<1>5. t \in Seq(S) /\ t \in Seq(ToSet(s))
  <2>1. u \in Seq(S) /\ v \in Seq(S)
    BY <1>3, <1>4
  <2>2. u \in Seq(ToSet(s)) /\ v \in Seq(ToSet(s))
    BY <1>2, <1>3
  <2> QED
    BY <2>1, <2>2, ConcatProperties
<1>6. RemoveAt(s, k) = t
  BY DEF RemoveAt, u, v
<1> HIDE DEF t
<1>7. \A i \in DOMAIN t : t[i] \in ToSet(s)
  BY <1>5, ElementOfSeq, LenProperties
<1>8. ToSet(t) \subseteq ToSet(s)
  BY <1>7 DEF ToSet
<1> QED
  BY <1>5, <1>6, <1>8

-----------------------------------------------------------------------------
(* The invariant. *)

(* Success is said, and on its way, only after there was a sale; PAID is    *)
(* written by the sale and left alone by its cancellation.                  *)
Truth ==
  /\ "success" \in Said(rail) => Sold
  /\ "confirmed" \in ToSet(wire) => Sold
  /\ \A q \in Polls : poll[q] \in {"CONFIRMED", "PAID"} => Sold
  /\ job["confirmed"] > 0 => Sold
  /\ server.paid => Sold

(* Before a seat is reserved nothing has been ordered or paid.              *)
Quiet ==
  /\ rail = IdleRail
  /\ ToSet(wire) \subseteq {"promoted"}
  /\ verify = "idle"
  /\ \A q \in Polls : poll[q] = "idle"
  /\ job = [k \in Stage |-> 0]
  /\ server.booking = "NONE" /\ ~server.captured /\ ~server.declined /\ ~server.paid
  /\ page.checkout = "none" /\ ~page.tracked

Untouched ==
  /\ ~page.reserved /\ ~page.left => Quiet
  /\ page.locking => ~page.reserved
  /\ page.left => ~page.locking /\ ~page.reserved /\ ~page.loaded

PageInv == TypeOK /\ RailInOrder(rail) /\ Truth /\ Untouched

LEMMA EmptyWire == <<>> \in Seq(Event) /\ ToSet(<<>>) = {}
<1>1. DOMAIN <<>> = {}
  OBVIOUS
<1> QED
  BY <1>1 DEF ToSet

LEMMA InitInv == Init => PageInv
<1> SUFFICES ASSUME Init PROVE PageInv
  OBVIOUS
<1>1. TypeOK
  BY DEF Init, TypeOK, PageKind, ServerKind, Blank, IdleRail, NoFetch, Request, Reply,
         Stage, Committed, QueueStatus,
         Event, Answers
<1>2. RailInOrder(rail)
  BY DEF Init, IdleRail, RailInOrder, RailRecord, QueueStatus
<1>3. Quiet
  BY EmptyWire DEF Init, Quiet, Blank
<1>4. Truth
  BY <1>3, EmptyWire DEF Quiet, Truth, Said, IdleRail, Stage, Committed
<1>5. Untouched
  BY <1>3 DEF Init, Blank, Untouched
<1> QED
  BY <1>1, <1>2, <1>4, <1>5 DEF PageInv

(* What is said to the rail leaves it in order, adds only what was said,    *)
(* and does not cut a step short.                                           *)
LEMMA ToldKeeps ==
  ASSUME RailInOrder(rail), NEW status \in QueueStatus
  PROVE  /\ RailInOrder(Told(status))
         /\ Said(Told(status)) \subseteq Said(rail) \cup {status}
         /\ rail.shown \in Transient /\ Told(status).shown # rail.shown => rail.held
BY CommitKeeps DEF Told

(* An event that is emitted is all that is added to the wire.               *)
LEMMA EmitKeeps ==
  ASSUME wire \in Seq(Event), NEW event \in Event, Emit(event)
  PROVE  wire' \in Seq(Event) /\ ToSet(wire') \subseteq ToSet(wire) \cup {event}
<1>1. CASE UNCHANGED wire
  BY <1>1 DEF ToSet
<1>2. CASE wire' = Append(wire, event)
  BY <1>2, AppendElements
<1> QED
  BY <1>1, <1>2 DEF Emit

(* A timer pumps what waits, after the minimum time.                        *)
LEMMA PumpKeeps ==
  ASSUME RailInOrder(rail), rail.timer
  PROVE  RailInOrder(Run(rail.pending)) /\ Said(Run(rail.pending)) \subseteq Said(rail)
<1>1. rail.pending \in Seq(QueueStatus) /\ rail.pending # <<>>
  BY DEF RailInOrder, RailRecord
<1>2. RailInOrder(Run(rail.pending)) /\ Said(Run(rail.pending)) \subseteq ToSet(rail.pending)
  BY <1>1, RunKeeps DEF ToSet
<1> QED
  BY <1>2 DEF Said

-----------------------------------------------------------------------------
(* Who may write what. *)

LEMMA RailWriters ==
  [Next]_vars => \/ UNCHANGED rail
                 \/ MinimumElapses \/ TimerFires \/ Reserved \/ Paid \/ Leave \/ VerifyFails
                 \/ DeliverStatus \/ \E q \in Polls : OutcomeSeen(q)
BY DEF Next, Customer, PageStep, ServerStep, Environment, vars, network, MapPoll, SeatsHandled,
       SeatsAnswered, SeatsFail, Promote, Reserve, ReserveRefused, PayNow, OrderOpened,
       OrderRefused, Submit, Dismiss, Decline, Capture, VerifyHandled, VerifyAnswered,
       StatusPoll, PollHandled, PollFails, DeliverPromoted, Lose, WebhookCaptured,
       WebhookFailed, Announce, Settle, Revert, FindSettled, Notify, Refuse, EndSilently,
       CancelledElsewhere

LEMMA WireWriters ==
  [Next]_vars => \/ UNCHANGED wire
                 \/ Promote \/ Leave \/ DeliverStatus \/ DeliverPromoted \/ Lose
                 \/ Refuse \/ Announce \/ Notify
BY DEF Next, Customer, PageStep, ServerStep, Environment, vars, network, MinimumElapses,
       TimerFires, MapPoll, SeatsHandled, SeatsAnswered, SeatsFail, Reserve, Reserved,
       ReserveRefused, PayNow, OrderOpened, OrderRefused, Submit, Dismiss, Decline, Capture,
       Paid, VerifyHandled, VerifyAnswered, VerifyFails, StatusPoll, PollHandled, OutcomeSeen,
       PollFails, WebhookCaptured, WebhookFailed, Settle, Revert, FindSettled, EndSilently,
       CancelledElsewhere

LEMMA PollWriters ==
  [Next]_vars => \/ UNCHANGED poll
                 \/ Leave
                 \/ \E q \in Polls : StatusPoll(q) \/ PollHandled(q) \/ OutcomeSeen(q) \/ PollFails(q)
BY DEF Next, Customer, PageStep, ServerStep, Environment, vars, network, MinimumElapses,
       TimerFires, MapPoll, SeatsHandled, SeatsAnswered, SeatsFail, Promote, Reserve, Reserved,
       ReserveRefused, PayNow, OrderOpened, OrderRefused, Submit, Dismiss, Decline, Capture,
       Paid, VerifyHandled, VerifyAnswered, VerifyFails, DeliverStatus, DeliverPromoted, Lose,
       WebhookCaptured, WebhookFailed, Refuse, Announce, Settle, Revert, FindSettled, Notify,
       EndSilently, CancelledElsewhere

LEMMA ServerWriters ==
  [Next]_vars => \/ UNCHANGED server
                 \/ Promote \/ Reserved \/ OrderOpened \/ Decline \/ Capture \/ Leave \/ Refuse
                 \/ Settle \/ Revert \/ Notify \/ EndSilently \/ CancelledElsewhere
                 \/ \E k \in Request : SeatsHandled(k)
BY DEF Next, Customer, PageStep, ServerStep, Environment, vars, network, MinimumElapses,
       TimerFires, MapPoll, SeatsAnswered, SeatsFail, Reserve, ReserveRefused, PayNow,
       OrderRefused, Submit, Dismiss, Paid, VerifyHandled, VerifyAnswered, VerifyFails,
       StatusPoll, PollHandled, OutcomeSeen, PollFails, DeliverStatus, DeliverPromoted, Lose,
       WebhookCaptured, WebhookFailed, Announce, FindSettled

JobStep ==
  \/ VerifyHandled \/ WebhookCaptured \/ WebhookFailed \/ Refuse
  \/ Announce \/ Settle \/ Revert \/ FindSettled \/ Notify \/ EndSilently

LEMMA JobWriters == [Next]_vars => UNCHANGED job \/ JobStep
BY DEF JobStep, Next, Customer, PageStep, ServerStep, Environment, vars, network, MinimumElapses,
       TimerFires, MapPoll, SeatsHandled, SeatsAnswered, SeatsFail, Promote, Reserve, Reserved,
       ReserveRefused, PayNow, OrderOpened, OrderRefused, Submit, Dismiss, Decline, Capture,
       Paid, Leave, VerifyAnswered, VerifyFails, StatusPoll, PollHandled, OutcomeSeen,
       PollFails, DeliverStatus, DeliverPromoted, Lose, CancelledElsewhere

LEMMA PageWriters ==
  [Next]_vars => \/ UNCHANGED page
                 \/ Reserve \/ Reserved \/ ReserveRefused \/ PayNow \/ OrderOpened \/ OrderRefused
                 \/ Submit \/ Dismiss \/ Decline \/ Paid \/ Leave
                 \/ VerifyAnswered \/ VerifyFails \/ DeliverPromoted
                 \/ \E reply \in Reply : SeatsAnswered(reply)
                 \/ \E q \in Polls : OutcomeSeen(q)
BY DEF Next, Customer, PageStep, ServerStep, Environment, vars, network, MinimumElapses,
       TimerFires, MapPoll, SeatsHandled, SeatsFail, Promote, Capture, VerifyHandled,
       StatusPoll, PollHandled, PollFails, DeliverStatus, Lose, WebhookCaptured, WebhookFailed,
       Announce, Settle, Revert, FindSettled, Notify, Refuse, EndSilently,
       CancelledElsewhere

(* Every step keeps the kind of the page and of the server. *)
LEMMA PageKinds == TypeOK /\ [Next]_vars => page' \in PageKind
<1> SUFFICES ASSUME TypeOK, [Next]_vars PROVE page' \in PageKind
  OBVIOUS
<1>1. page \in PageKind
  BY DEF TypeOK
<1>2. CASE UNCHANGED page
  BY <1>1, <1>2
<1>3. CASE Reserve \/ Reserved \/ ReserveRefused
  BY <1>1, <1>3 DEF Reserve, Reserved, ReserveRefused, PageKind
<1>4. CASE PayNow \/ OrderRefused \/ Submit \/ Dismiss \/ Decline
  BY <1>1, <1>4 DEF PayNow, OrderRefused, Submit, Dismiss, Decline, PageKind
<1>5. CASE OrderOpened
  <2>1. PICK checkout \in {"open", "none"} : page' = [page EXCEPT !.checkout = checkout]
    BY <1>5 DEF OrderOpened
  <2> QED
    BY <1>1, <2>1 DEF PageKind
<1>6. CASE Paid
  BY <1>1, <1>6 DEF Paid, PageKind
<1>7. CASE Leave
  <2>1. PICK checkout \in {"none", "open", "busy"} :
          page' = [Blank EXCEPT !.left = TRUE, !.checkout = checkout]
    BY <1>7 DEF Leave
  <2> QED
    BY <2>1 DEF Blank, PageKind
<1>8. CASE VerifyAnswered \/ VerifyFails \/ DeliverPromoted \/ \E q \in Polls : OutcomeSeen(q)
  <2>1. \/ \E b \in BOOLEAN : page' = [page EXCEPT !.tracked = b]
        \/ page' = [page EXCEPT !.waiting = FALSE]
    <3>1. page.left \in BOOLEAN
      BY <1>1 DEF PageKind
    <3> QED
      BY <1>8, <3>1 DEF VerifyAnswered, VerifyFails, DeliverPromoted, OutcomeSeen
  <2> QED
    BY <1>1, <2>1 DEF PageKind
<1>9. CASE \E reply \in Reply : SeatsAnswered(reply)
  <2>1. \/ page' = page
        \/ page' = [page EXCEPT !.waiting = FALSE, !.loaded = TRUE]
        \/ page' = [page EXCEPT !.waiting = TRUE]
    BY <1>9 DEF SeatsAnswered
  <2> QED
    BY <1>1, <2>1 DEF PageKind
<1> QED
  BY <1>2, <1>3, <1>4, <1>5, <1>6, <1>7, <1>8, <1>9, PageWriters

LEMMA ServerKinds == TypeOK /\ [Next]_vars => server' \in ServerKind
<1> SUFFICES ASSUME TypeOK, [Next]_vars PROVE server' \in ServerKind
  OBVIOUS
<1>1. server \in ServerKind
  BY DEF TypeOK
<1>2. CASE UNCHANGED server
  BY <1>1, <1>2
<1>3. CASE Promote \/ Leave \/ \E k \in Request : SeatsHandled(k)
  <2>1. \/ server' \in {server, Released}
        \/ \E room \in {"queue", "pool"} : server' = [server EXCEPT !.room = room]
    BY <1>3 DEF Promote, Leave, SeatsHandled
  <2> QED
    BY <1>1, <2>1 DEF Unlocked, Released, ServerKind
<1>4. CASE Reserved \/ OrderOpened \/ Capture
  BY <1>1, <1>4 DEF Reserved, OrderOpened, Capture, ServerKind
<1>5. CASE Decline
  BY <1>1, <1>5 DEF Decline, ServerKind
<1>6. CASE Settle \/ Revert
  BY <1>1, <1>6 DEF Settle, Revert, ServerKind
<1>7. CASE Refuse \/ Notify
  BY <1>1, <1>7 DEF Refuse, Notify, Released, Unlocked, ServerKind
<1>8. CASE EndSilently
  <2>1. PICK s \in {server, Unlocked, Released} : server' = [s EXCEPT !.lost = @ + 1]
    BY <1>8 DEF EndSilently
  <2>2. s \in ServerKind
    BY <1>1, <2>1 DEF Unlocked, Released, ServerKind
  <2> QED
    BY <2>1, <2>2 DEF ServerKind
<1>9. CASE CancelledElsewhere
  BY <1>1, <1>9 DEF CancelledElsewhere, Sold, ServerKind
<1> QED
  BY <1>2, <1>3, <1>4, <1>5, <1>6, <1>7, <1>8, <1>9, ServerWriters

-----------------------------------------------------------------------------
(* Every step keeps the kinds of the state and the rail in order. *)

LEMMA FetchKinds ==
  ASSUME TypeOK, NEW k \in Request \cup Reply
  PROVE  /\ Another(k) => fetch' \in [Request \cup Reply -> Nat]
         /\ (SeatsHandled(k) /\ k \in Request) \/ SeatsFail(k) \/ (SeatsAnswered(k) /\ k \in Reply)
              => fetch' \in [Request \cup Reply -> Nat]
<1>1. fetch \in [Request \cup Reply -> Nat]
  BY DEF TypeOK
<1>2. "ACTIVE" \notin Request /\ "WAITING" \notin Request
  BY DEF Request
<1>3. Another(k) => fetch' \in [Request \cup Reply -> Nat]
  BY <1>1 DEF Another
<1>4. SeatsFail(k) \/ SeatsAnswered(k) => fetch' \in [Request \cup Reply -> Nat]
  BY <1>1 DEF SeatsFail, SeatsAnswered
<1>5. ASSUME SeatsHandled(k), k \in Request
      PROVE  fetch' \in [Request \cup Reply -> Nat]
  <2>1. PICK reply \in Reply : 
          fetch' = [fetch EXCEPT ![k] = @ - 1, ![reply] = IF Ignored(k, reply) THEN @ ELSE @ + 1]
    BY <1>5 DEF SeatsHandled, Reply
  <2>2. k # reply /\ fetch[k] > 0 /\ fetch[k] \in Nat /\ fetch[reply] \in Nat
    BY <1>1, <1>5, <2>1 DEF SeatsHandled, Request, Reply
  <2> QED
    BY <1>1, <2>1, <2>2
<1> QED
  BY <1>3, <1>4, <1>5

LEMMA FetchSeatsKinds == TypeOK /\ FetchSeats => fetch' \in [Request \cup Reply -> Nat]
BY FetchKinds DEF FetchSeats, Request

(* Only a transaction that confirms makes a job one that has confirmed.     *)
LEMMA JobKinds ==
  ASSUME TypeOK, JobStep
  PROVE  /\ job' \in [Stage -> Nat]
         /\ job'["confirmed"] > 0 => job["confirmed"] > 0 \/ Settle
<1>1. job \in [Stage -> Nat]
  BY DEF TypeOK
<1>2. CASE VerifyHandled \/ WebhookCaptured \/ WebhookFailed
  <2>1. job' = job \/ \E k \in {"queued", "refusing"} : job' = [job EXCEPT ![k] = @ + 1]
    BY <1>2 DEF VerifyHandled, WebhookCaptured, WebhookFailed, Enqueue, Begin
  <2> QED
    BY <1>1, <2>1 DEF Stage, Committed
<1>3. CASE Announce \/ Settle \/ Revert
  <2>1. CASE Announce
    BY <1>1, <2>1 DEF Announce, Advance, Stage, Committed
  <2>2. CASE Settle
    BY <1>1, <2>2 DEF Settle, Advance, Stage, Committed
  <2>3. CASE Revert
    BY <1>1, <2>3 DEF Revert, Advance, Stage, Committed
  <2> QED
    BY <1>3, <2>1, <2>2, <2>3
<1>4. CASE Refuse \/ FindSettled \/ Notify \/ EndSilently
  <2>1. PICK k \in Stage : job[k] > 0 /\ job' = [job EXCEPT ![k] = @ - 1]
    BY <1>4 DEF Refuse, FindSettled, Notify, EndSilently, Stage
  <2>2. job[k] - 1 \in Nat /\ job["confirmed"] \in Nat
    BY <1>1, <2>1 DEF Stage, Committed
  <2> QED
    BY <1>1, <2>1, <2>2
<1> QED
  BY <1>2, <1>3, <1>4 DEF JobStep

(* Every step keeps the kinds.                                              *)
LEMMA KindsStep == TypeOK /\ RailInOrder(rail) /\ [Next]_vars => TypeOK' /\ RailInOrder(rail')
<1> SUFFICES ASSUME TypeOK, RailInOrder(rail), [Next]_vars
             PROVE  TypeOK' /\ RailInOrder(rail')
  OBVIOUS
<1>0. page' \in PageKind /\ server' \in ServerKind
  BY PageKinds, ServerKinds
<1> USE <1>0 DEF network
<1>1. CASE MinimumElapses
  <2>1. RailInOrder(rail') /\ rail' \in RailRecord
    BY <1>1 DEF MinimumElapses, RailInOrder, RailRecord
  <2> QED
    BY <1>1, <2>1 DEF MinimumElapses, TypeOK, RailRecord
<1>2. CASE TimerFires
  BY <1>2, PumpKeeps DEF TimerFires, RailInOrder, RailRecord, TypeOK
<1>3. CASE MapPoll
  BY <1>3, FetchKinds DEF MapPoll, Request, TypeOK
<1>4. CASE \E k \in Request : SeatsHandled(k)
  <2>1. PICK k \in Request : SeatsHandled(k)
    BY <1>4
  <2>2. fetch' \in [Request \cup Reply -> Nat]
    BY <2>1, FetchKinds
  <2>3. UNCHANGED <<page, rail, wire, verify, poll, job>>
    BY <2>1 DEF SeatsHandled
  <2> QED
    BY <2>2, <2>3 DEF TypeOK
<1>5. CASE \E reply \in Reply : SeatsAnswered(reply)
  <2>1. PICK reply \in Reply : SeatsAnswered(reply)
    BY <1>5
  <2>2. fetch' \in [Request \cup Reply -> Nat]
    BY <2>1, FetchKinds
  <2> QED
    BY <2>1, <2>2 DEF SeatsAnswered, TypeOK
<1>6. CASE \E k \in Request \cup Reply : SeatsFail(k)
  <2>1. PICK k \in Request \cup Reply : SeatsFail(k)
    BY <1>6
  <2>2. fetch' \in [Request \cup Reply -> Nat]
    BY <2>1, FetchKinds
  <2> QED
    BY <2>1, <2>2 DEF SeatsFail, TypeOK
<1>7. CASE Promote
  <2>1. wire' \in Seq(Event)
    BY <1>7, EmitKeeps DEF Promote, TypeOK, Event
  <2> QED
    BY <1>7, <2>1 DEF Promote, TypeOK
<1>8. CASE Reserve
  BY <1>8 DEF Reserve, TypeOK
<1>9. CASE Reserved
  BY <1>9 DEF Reserved, RailInOrder, RailRecord, QueueStatus, TypeOK
<1>10. CASE ReserveRefused
  BY <1>10 DEF ReserveRefused, TypeOK
<1>11. CASE PayNow
  BY <1>11 DEF PayNow, TypeOK
<1>12. CASE OrderOpened
  BY <1>12 DEF OrderOpened, TypeOK
<1>13. CASE OrderRefused
  BY <1>13 DEF OrderRefused, TypeOK
<1>14. CASE Submit
  BY <1>14 DEF Submit, TypeOK
<1>15. CASE Dismiss
  BY <1>15 DEF Dismiss, TypeOK
<1>16. CASE Decline
  BY <1>16 DEF Decline, TypeOK
<1>17. CASE Capture
  BY <1>17 DEF Capture, TypeOK
<1>18. CASE Paid
  BY <1>18, ToldKeeps DEF Paid, QueueStatus, TypeOK, RailInOrder, RailRecord
<1>19. CASE Leave
  <2>1. RailInOrder(rail') /\ rail' \in RailRecord
    BY <1>19 DEF Leave, IdleRail, RailInOrder, RailRecord, QueueStatus
  <2> QED
    BY <1>19, <2>1, EmptyWire DEF Leave, NoFetch, TypeOK, RailRecord
<1>20. CASE VerifyHandled
  BY <1>20, JobKinds DEF JobStep, VerifyHandled, TypeOK
<1>21. CASE VerifyAnswered
  BY <1>21 DEF VerifyAnswered, TypeOK
<1>22. CASE VerifyFails
  BY <1>22, ToldKeeps, FetchSeatsKinds DEF VerifyFails, QueueStatus, TypeOK, RailInOrder, RailRecord
<1>23. CASE \E q \in Polls : StatusPoll(q)
  BY <1>23 DEF StatusPoll, TypeOK
<1>24. CASE \E q \in Polls : PollHandled(q)
  <2>1. PICK q \in Polls : PollHandled(q)
    BY <1>24
  <2>2. Answer \in {"idle"} \cup Answers
    BY DEF TypeOK, Answer, Answers
  <2>3. poll' \in [Polls -> {"idle", "sent"} \cup Answers]
    BY <2>1, <2>2 DEF PollHandled, TypeOK
  <2> QED
    BY <2>1, <2>3 DEF PollHandled, TypeOK
<1>25. CASE \E q \in Polls : OutcomeSeen(q)
  <2>1. PICK q \in Polls : OutcomeSeen(q)
    BY <1>25
  <2>2. rail' = Commit("success") \/ rail' = Commit("failed")
    BY <2>1 DEF OutcomeSeen
  <2>3. RailInOrder(rail') /\ rail' \in RailRecord
    BY <2>2, CommitKeeps DEF QueueStatus, RailInOrder
  <2>4. fetch' \in [Request \cup Reply -> Nat]
    BY <2>1, FetchSeatsKinds DEF OutcomeSeen
  <2> QED
    BY <2>1, <2>3, <2>4 DEF OutcomeSeen, TypeOK, RailRecord
<1>26. CASE \E q \in Polls : PollFails(q)
  BY <1>26 DEF PollFails, TypeOK
<1>27. CASE DeliverStatus
  <2>1. wire \in Seq(Event) /\ wire # <<>>
    BY <1>27 DEF DeliverStatus, TypeOK
  <2>2. wire' \in Seq(Event) /\ StatusOf[Head(wire)] \in QueueStatus
    BY <1>27, <2>1, TailElements DEF DeliverStatus, StatusOf, QueueStatus
  <2> QED
    BY <1>27, <2>2, CommitKeeps DEF DeliverStatus, TypeOK, RailInOrder, RailRecord
<1>28. CASE DeliverPromoted
  BY <1>28, TailElements, FetchSeatsKinds DEF DeliverPromoted, TypeOK
<1>29. CASE Lose
  BY <1>29, RemoveElements DEF Lose, TypeOK
<1>30. CASE WebhookCaptured
  BY <1>30, JobKinds DEF JobStep, WebhookCaptured, TypeOK
<1>31. CASE WebhookFailed
  BY <1>31, JobKinds DEF JobStep, WebhookFailed, TypeOK
<1>32. CASE Announce
  <2>1. job' \in [Stage -> Nat]
    BY <1>32, JobKinds DEF JobStep
  <2>2. wire' \in Seq(Event)
    BY <1>32, EmitKeeps DEF Announce, TypeOK, Event
  <2> QED
    BY <1>32, <2>1, <2>2 DEF Announce, TypeOK
<1>33. CASE Settle
  <2>1. job' \in [Stage -> Nat]
    BY <1>33, JobKinds DEF JobStep
  <2> QED
    BY <1>33, <2>1 DEF Settle, TypeOK
<1>34. CASE Revert
  <2>1. job' \in [Stage -> Nat]
    BY <1>34, JobKinds DEF JobStep
  <2> QED
    BY <1>34, <2>1 DEF Revert, TypeOK
<1>35. CASE Notify
  <2>1. job' \in [Stage -> Nat]
    BY <1>35, JobKinds DEF JobStep
  <2>2. wire' \in Seq(Event)
    <3>1. PICK event \in {"confirmed", "failed"} : Emit(event)
      BY <1>35 DEF Notify
    <3> QED
      BY <3>1, EmitKeeps DEF TypeOK, Event
  <2> QED
    BY <1>35, <2>1, <2>2 DEF Notify, TypeOK
<1>36. CASE EndSilently
  <2>1. job' \in [Stage -> Nat]
    BY <1>36, JobKinds DEF JobStep
  <2> QED
    BY <1>36, <2>1 DEF EndSilently, TypeOK
<1>37. CASE Refuse
  <2>1. job' \in [Stage -> Nat]
    BY <1>37, JobKinds DEF JobStep
  <2>2. wire' \in Seq(Event)
    BY <1>37, EmitKeeps DEF Refuse, TypeOK, Event
  <2> QED
    BY <1>37, <2>1, <2>2 DEF Refuse, TypeOK
<1>38. CASE FindSettled
  BY <1>38, JobKinds DEF JobStep, FindSettled, TypeOK
<1>39. CASE CancelledElsewhere
  BY <1>39 DEF CancelledElsewhere, TypeOK
<1>40. CASE UNCHANGED vars
  BY <1>40 DEF vars, TypeOK
<1> QED
  BY <1>1, <1>2, <1>3, <1>4, <1>5, <1>6, <1>7, <1>8, <1>9, <1>10,
     <1>11, <1>12, <1>13, <1>14, <1>15, <1>16, <1>17, <1>18, <1>19, <1>20,
     <1>21, <1>22, <1>23, <1>24, <1>25, <1>26, <1>27, <1>28, <1>29, <1>30,
     <1>31, <1>32, <1>33, <1>34, <1>35, <1>36, <1>37, <1>38, <1>39, <1>40
  DEF Next, Customer, PageStep, ServerStep, Environment

-----------------------------------------------------------------------------
(* What is said stays true. *)

(* The transaction of a job is a sale.                                      *)
LEMMA SettleSells == TypeOK /\ Settle => Sold'
BY DEF TypeOK, ServerKind, Settle, Sold

(* A sale is a fact for good, and PAID is written with it.                  *)
LEMMA SaleStays ==
  ASSUME TypeOK, Truth, [Next]_vars
  PROVE  (Sold => Sold') /\ (server'.paid => Sold')
<1>1. server \in ServerKind
  BY DEF TypeOK
<1>2. CASE UNCHANGED server
  BY <1>2 DEF Sold, Truth
<1>3. CASE Settle
  BY <1>3, SettleSells
<1>4. CASE \/ Promote \/ Reserved \/ Decline \/ Capture \/ Leave \/ Notify \/ EndSilently
           \/ \E k \in Request : SeatsHandled(k)
  <2>1. CASE Promote \/ Leave \/ \E k \in Request : SeatsHandled(k)
    <3>1. \/ server' \in {server, Released}
          \/ \E room \in {"queue", "pool"} : server' = [server EXCEPT !.room = room]
      BY <2>1 DEF Promote, Leave, SeatsHandled
    <3> QED
      BY <1>1, <3>1 DEF Unlocked, Released, ServerKind, Sold, Truth
  <2>2. CASE Reserved \/ Capture
    BY <1>1, <2>2 DEF Reserved, Capture, ServerKind, Sold, Truth
  <2>3. CASE Decline
    <3>1. \E b \in BOOLEAN : server' = [server EXCEPT !.declined = b]
      BY <2>3 DEF Decline
    <3> QED
      BY <1>1, <3>1 DEF ServerKind, Sold, Truth
  <2>4. CASE Notify
    BY <1>1, <2>4 DEF Notify, Released, Unlocked, ServerKind, Sold, Truth
  <2>5. CASE EndSilently
    <3>1. PICK s \in {server, Unlocked, Released} : server' = [s EXCEPT !.lost = @ + 1]
      BY <2>5 DEF EndSilently
    <3>2. /\ s \in ServerKind
          /\ s.booking = server.booking /\ s.paid = server.paid /\ s.withdrawn = server.withdrawn
      BY <1>1, <3>1 DEF Unlocked, Released, ServerKind
    <3>3. /\ server'.booking = s.booking /\ server'.paid = s.paid
          /\ server'.withdrawn = s.withdrawn
      BY <3>1, <3>2 DEF ServerKind
    <3> QED
      BY <3>2, <3>3 DEF Sold, Truth
  <2> QED
    BY <1>4, <2>1, <2>2, <2>3, <2>4, <2>5
<1>5. CASE OrderOpened
  BY <1>1, <1>5 DEF OrderOpened, ServerKind, Sold, Truth
<1>6. CASE Revert
  BY <1>1, <1>6 DEF Revert, ServerKind, Sold, Truth
<1>7. CASE Refuse
  <2>1. /\ server'.withdrawn = server.withdrawn /\ server'.paid = server.paid
        /\ server.booking = "CONFIRMED" => server'.booking = "CONFIRMED"
    BY <1>1, <1>7 DEF Refuse, Released, Unlocked, ServerKind
  <2> QED
    BY <2>1 DEF Sold, Truth
<1>8. CASE CancelledElsewhere
  <2>1. server'.withdrawn = Sold /\ server'.paid = server.paid
    BY <1>1, <1>8 DEF CancelledElsewhere, ServerKind
  <2> QED
    BY <2>1 DEF Sold, Truth
<1> QED
  BY <1>2, <1>3, <1>4, <1>5, <1>6, <1>7, <1>8, ServerWriters

LEMMA RailMoves ==
  ASSUME TypeOK, RailInOrder(rail), Truth, [Next]_vars
  PROVE  "success" \in Said(rail)' => Sold
<1>1. CASE UNCHANGED rail
  BY <1>1 DEF Truth, Said
<1>2. CASE MinimumElapses
  <2>1. rail'.shown = rail.shown /\ rail'.pending = rail.pending
    BY <1>2 DEF MinimumElapses, TypeOK
  <2> QED
    BY <2>1 DEF Truth, Said
<1>3. CASE TimerFires
  BY <1>3, PumpKeeps DEF TimerFires, Truth, Said
<1>4. CASE Reserved
  <2>1. rail'.shown = "idle" /\ rail'.pending = rail.pending
    BY <1>4 DEF Reserved, TypeOK
  <2> QED
    BY <2>1 DEF Truth, Said
<1>5. CASE Leave
  BY <1>5, EmptyWire DEF Leave, IdleRail, Said
<1>6. CASE Paid
  BY <1>6, ToldKeeps DEF Paid, Truth, Said, QueueStatus
<1>7. CASE VerifyFails
  BY <1>7, ToldKeeps DEF VerifyFails, Truth, Said, QueueStatus
<1>8. CASE DeliverStatus
  <2>1. wire \in Seq(Event) /\ wire # <<>> /\ Head(wire) \in DOMAIN StatusOf
    BY <1>8 DEF DeliverStatus, TypeOK
  <2>2. Head(wire) \in ToSet(wire)
    BY <2>1, TailElements
  <2>3. StatusOf[Head(wire)] \in QueueStatus
        /\ (StatusOf[Head(wire)] = "success" => Head(wire) = "confirmed")
    BY <2>1 DEF StatusOf, QueueStatus
  <2> QED
    BY <1>8, <2>2, <2>3, CommitKeeps DEF DeliverStatus, Truth, Said
<1>9. CASE \E q \in Polls : OutcomeSeen(q)
  <2>1. PICK q \in Polls : OutcomeSeen(q)
    BY <1>9
  <2>2. CASE poll[q] \in {"CONFIRMED", "PAID"}
    BY <2>2 DEF Truth
  <2>3. CASE poll[q] \notin {"CONFIRMED", "PAID"}
    BY <2>1, <2>3, CommitKeeps DEF OutcomeSeen, Truth, Said, QueueStatus
  <2> QED
    BY <2>2, <2>3
<1> QED
  BY <1>1, <1>2, <1>3, <1>4, <1>5, <1>6, <1>7, <1>8, <1>9, RailWriters

LEMMA WireMoves ==
  ASSUME TypeOK, Truth, [Next]_vars
  PROVE  "confirmed" \in ToSet(wire)' => Sold
<1>1. wire \in Seq(Event)
  BY DEF TypeOK
<1>2. CASE UNCHANGED wire \/ Leave
  BY <1>2, EmptyWire DEF Leave, Truth, ToSet
<1>3. CASE Promote
  BY <1>1, <1>3, EmitKeeps DEF Promote, Truth, Event
<1>4. CASE Refuse
  BY <1>1, <1>4, EmitKeeps DEF Refuse, Truth, Event
<1>5. CASE Announce
  BY <1>1, <1>5, EmitKeeps DEF Announce, Truth, Event
<1>6. CASE Notify
  <2>1. PICK k \in Committed : job[k] > 0 /\ Emit(IF k = "confirmed" THEN "confirmed" ELSE "failed")
    BY <1>6 DEF Notify
  <2>2. CASE k = "confirmed"
    BY <2>1, <2>2 DEF Truth
  <2>3. CASE k # "confirmed"
    BY <1>1, <2>1, <2>3, EmitKeeps DEF Truth, Event
  <2> QED
    BY <2>2, <2>3
<1>7. CASE DeliverStatus \/ DeliverPromoted
  BY <1>1, <1>7, TailElements DEF DeliverStatus, DeliverPromoted, Truth
<1>8. CASE Lose
  BY <1>1, <1>8, RemoveElements DEF Lose, Truth
<1> QED
  BY <1>2, <1>3, <1>4, <1>5, <1>6, <1>7, <1>8, WireWriters

LEMMA PollMoves ==
  ASSUME TypeOK, Truth, [Next]_vars, NEW q \in Polls, poll'[q] \in {"CONFIRMED", "PAID"}
  PROVE  Sold
<1>1. poll \in [Polls -> {"idle", "sent"} \cup Answers]
  BY DEF TypeOK
<1>2. CASE UNCHANGED poll
  BY <1>2 DEF Truth
<1>3. CASE Leave
  BY <1>3 DEF Leave
<1>4. CASE \E r \in Polls : StatusPoll(r) \/ PollHandled(r) \/ OutcomeSeen(r) \/ PollFails(r)
  <2>1. PICK r \in Polls : StatusPoll(r) \/ PollHandled(r) \/ OutcomeSeen(r) \/ PollFails(r)
    BY <1>4
  <2>2. CASE r # q
    <3>1. poll'[q] = poll[q]
      BY <1>1, <2>1, <2>2 DEF StatusPoll, PollHandled, OutcomeSeen, PollFails
    <3> QED
      BY <3>1 DEF Truth
  <2>3. CASE r = q
    <3>1. PollHandled(q) /\ Answer \in {"CONFIRMED", "PAID"}
      BY <1>1, <2>1, <2>3 DEF StatusPoll, PollHandled, OutcomeSeen, PollFails
    <3> QED
      BY <3>1 DEF Answer, Truth, Sold
  <2> QED
    BY <2>2, <2>3
<1> QED
  BY <1>2, <1>3, <1>4, PollWriters

LEMMA TruthStep ==
  TypeOK /\ RailInOrder(rail) /\ Truth /\ [Next]_vars => Truth'
<1> SUFFICES ASSUME TypeOK, RailInOrder(rail), Truth, [Next]_vars
             PROVE  Truth'
  OBVIOUS
<1>1. "success" \in Said(rail)' => Sold'
  BY RailMoves, SaleStays
<1>2. "confirmed" \in ToSet(wire)' => Sold'
  BY WireMoves, SaleStays
<1>3. \A q \in Polls : poll'[q] \in {"CONFIRMED", "PAID"} => Sold'
  BY PollMoves, SaleStays
<1>4. job'["confirmed"] > 0 => Sold'
  BY JobWriters, JobKinds, SaleStays, SettleSells DEF Truth
<1>5. server'.paid => Sold'
  BY SaleStays
<1> QED
  BY <1>1, <1>2, <1>3, <1>4, <1>5 DEF Truth

-----------------------------------------------------------------------------
(* Nothing moves before a seat is reserved. *)

(* A reserved seat is given up only by leaving, for good.                   *)
LEMMA PageMoves ==
  ASSUME TypeOK, Untouched, [Next]_vars
  PROVE  /\ page.reserved \/ page.left => page'.reserved \/ page'.left
         /\ page'.locking => ~page'.reserved
         /\ page'.left => ~page'.locking /\ ~page'.reserved /\ ~page'.loaded
<1>1. CASE UNCHANGED page
  BY <1>1 DEF Untouched
<1>2. CASE Leave
  BY <1>2 DEF Leave, Blank
<1>3. CASE \E reply \in Reply : SeatsAnswered(reply)
  <2>1. PICK reply \in Reply : SeatsAnswered(reply)
    BY <1>3
  <2>2. CASE page.left
    <3>1. page' = page
      BY <2>1, <2>2 DEF SeatsAnswered
    <3> QED
      BY <3>1 DEF Untouched
  <2>3. CASE ~page.left
    <3>1. \/ page' = [page EXCEPT !.waiting = FALSE, !.loaded = TRUE]
          \/ page' = [page EXCEPT !.waiting = TRUE]
      BY <2>1, <2>3 DEF SeatsAnswered
    <3>2. /\ page'.reserved = page.reserved /\ page'.left = page.left
          /\ page'.locking = page.locking
      BY <3>1 DEF TypeOK, PageKind
    <3> QED
      BY <2>3, <3>2 DEF Untouched
  <2> QED
    BY <2>2, <2>3
<1>4. CASE Reserve \/ Reserved \/ ReserveRefused
  BY <1>4 DEF Reserve, Reserved, ReserveRefused, Panel, Untouched, TypeOK, PageKind
<1>5. CASE PayNow \/ OrderOpened \/ OrderRefused \/ Submit \/ Dismiss \/ Decline \/ Paid
  <2>1. /\ page'.reserved = page.reserved /\ page'.left = page.left
        /\ page'.locking = page.locking /\ page'.loaded = page.loaded
    BY <1>5 DEF PayNow, OrderOpened, OrderRefused, Submit, Dismiss, Decline, Paid, TypeOK, PageKind
  <2> QED
    BY <2>1 DEF Untouched
<1>6. CASE VerifyAnswered \/ VerifyFails \/ DeliverPromoted \/ \E q \in Polls : OutcomeSeen(q)
  <2>1. /\ page'.reserved = page.reserved /\ page'.left = page.left
        /\ page'.locking = page.locking /\ page'.loaded = page.loaded
    BY <1>6 DEF VerifyAnswered, VerifyFails, DeliverPromoted, OutcomeSeen, TypeOK, PageKind
  <2> QED
    BY <2>1 DEF Untouched
<1> QED
  BY <1>1, <1>2, <1>3, <1>4, <1>5, <1>6, PageWriters

(* On a page with no seat no step but those of the waiting room is taken.   *)
LEMMA QuietStep ==
  ASSUME TypeOK, TypeOK', Quiet, ~page.reserved, ~page.left, [Next]_vars,
         ~page'.reserved, ~page'.left
  PROVE  Quiet'
<1>1. rail' = rail
  <2>1. Head(wire) \in DOMAIN StatusOf /\ wire # <<>> => FALSE
    BY TailElements DEF TypeOK, Quiet, StatusOf
  <2>2. ~Reserved
    BY DEF Reserved, TypeOK, PageKind
  <2>3. ~MinimumElapses /\ ~TimerFires
    BY DEF Quiet, IdleRail, MinimumElapses, TimerFires
  <2>4. ~Paid /\ ~Leave /\ ~VerifyFails /\ ~DeliverStatus
    BY <2>1 DEF Quiet, Paid, Leave, VerifyFails, DeliverStatus
  <2>5. \A q \in Polls : ~OutcomeSeen(q)
    BY DEF Quiet, OutcomeSeen, Answers
  <2> QED
    BY <2>2, <2>3, <2>4, <2>5, RailWriters
<1>2. ToSet(wire)' \subseteq {"promoted"}
  <2>1. wire \in Seq(Event)
    BY DEF TypeOK
  <2>2. CASE UNCHANGED wire
    BY <2>2 DEF Quiet
  <2>3. CASE Promote
    BY <2>1, <2>3, EmitKeeps DEF Promote, Quiet, Event
  <2>4. CASE DeliverStatus \/ DeliverPromoted
    BY <2>1, <2>4, TailElements DEF DeliverStatus, DeliverPromoted, Quiet
  <2>5. CASE Lose
    BY <2>1, <2>5, RemoveElements DEF Lose, Quiet
  <2>6. CASE Leave \/ Refuse \/ Announce \/ Notify
    BY <2>6 DEF Leave, Refuse, Announce, Advance, Notify, Quiet, Stage, Committed
  <2> QED
    BY <2>2, <2>3, <2>4, <2>5, <2>6, WireWriters
<1>3. verify' = "idle"
  BY DEF Quiet, VerifyHandled, VerifyAnswered, VerifyFails, Paid, Next, Customer, PageStep,
         ServerStep, Environment, vars, network, MinimumElapses,
         TimerFires, MapPoll, SeatsHandled, SeatsAnswered, SeatsFail, Promote, Reserve, Reserved,
         ReserveRefused, PayNow, OrderOpened, OrderRefused, Submit, Dismiss, Decline, Capture,
         Leave, StatusPoll, PollHandled, OutcomeSeen, PollFails, DeliverStatus, DeliverPromoted,
         Lose, WebhookCaptured, WebhookFailed, Refuse, Announce, Settle, Revert, FindSettled,
         Notify, EndSilently, CancelledElsewhere
<1>4. \A q \in Polls : poll'[q] = "idle"
  BY PollWriters DEF Quiet, Leave, StatusPoll, PollHandled, OutcomeSeen, PollFails, Answers
<1>5. job' = [k \in Stage |-> 0]
  <2>1. ~VerifyHandled /\ ~WebhookCaptured /\ ~WebhookFailed
    BY DEF Quiet, VerifyHandled, WebhookCaptured, WebhookFailed
  <2>2. \A k \in Stage : ~(job[k] > 0)
    BY DEF Quiet
  <2>3. ~Refuse /\ ~FindSettled /\ ~Notify /\ ~EndSilently
    BY <2>2 DEF Refuse, FindSettled, Notify, EndSilently, Stage
  <2>4. ~Announce /\ ~Settle /\ ~Revert
    BY <2>2 DEF Announce, Settle, Revert, Advance, Stage
  <2> QED
    BY <2>1, <2>3, <2>4, JobWriters DEF JobStep, Quiet
<1>6. server'.booking = "NONE" /\ ~server'.captured /\ ~server'.declined /\ ~server'.paid
  <2>1. \/ UNCHANGED server
        \/ Promote \/ Leave \/ \E k \in Request : SeatsHandled(k)
    <3>1. ~Reserved
      BY DEF Reserved, TypeOK, PageKind
    <3> QED
      BY <3>1, ServerWriters
      DEF Quiet, Stage, Committed, OrderOpened, Decline, Capture, Refuse, Settle, Revert, Advance,
          Notify, EndSilently, CancelledElsewhere
  <2>2. CASE UNCHANGED server
    BY <2>2 DEF Quiet
  <2>3. CASE Promote \/ Leave
    <3>1. server' \in {server, Released, [server EXCEPT !.room = "pool"]}
      BY <2>3 DEF Promote, Leave
    <3>2. server \in ServerKind
      BY DEF TypeOK
    <3>3. \A s \in {server, Released, [server EXCEPT !.room = "pool"]} :
            /\ s.booking = server.booking /\ s.captured = server.captured
            /\ s.declined = server.declined /\ s.paid = server.paid
      BY <3>2 DEF Unlocked, Released, ServerKind
    <3> QED
      BY <3>1, <3>3 DEF Quiet
  <2>4. CASE \E k \in Request : SeatsHandled(k)
    <3>1. PICK now \in {"pool", "queue"} : server' = [server EXCEPT !.room = now]
      BY <2>4 DEF SeatsHandled
    <3> QED
      BY <3>1 DEF Quiet, TypeOK, ServerKind
  <2> QED
    BY <2>1, <2>2, <2>3, <2>4
<1>7. page'.checkout = "none" /\ ~page'.tracked
  <2>1. CASE \E reply \in Reply : SeatsAnswered(reply)
    <3>1. \/ page' = [page EXCEPT !.waiting = FALSE, !.loaded = TRUE]
          \/ page' = [page EXCEPT !.waiting = TRUE]
      BY <2>1 DEF SeatsAnswered
    <3> QED
      BY <3>1 DEF Quiet, TypeOK, PageKind
  <2>2. CASE UNCHANGED page \/ Reserve \/ Reserved \/ ReserveRefused \/ DeliverPromoted
    <3>1. \/ UNCHANGED page
          \/ page' = [page EXCEPT !.locking = TRUE]
          \/ page' = [page EXCEPT !.locking = FALSE, !.reserved = TRUE]
          \/ page' = [page EXCEPT !.locking = FALSE]
          \/ page' = [page EXCEPT !.waiting = FALSE]
      BY <2>2 DEF Reserve, Reserved, ReserveRefused, DeliverPromoted
    <3>2. page \in PageKind /\ page.checkout = "none" /\ ~page.tracked
      BY DEF TypeOK, Quiet
    <3> QED
      BY <3>1, <3>2 DEF PageKind
  <2>3. CASE \/ PayNow \/ OrderOpened \/ OrderRefused \/ Submit \/ Dismiss \/ Decline \/ Paid
             \/ Leave \/ VerifyAnswered \/ VerifyFails \/ \E q \in Polls : OutcomeSeen(q)
    BY <2>3 DEF PayNow, OrderOpened, OrderRefused, Submit, Dismiss, Decline, Paid, Leave,
                VerifyAnswered, VerifyFails, OutcomeSeen, Panel, Quiet, TypeOK, PageKind
  <2> QED
    BY <2>1, <2>2, <2>3, PageWriters
<1> QED
  BY <1>1, <1>2, <1>3, <1>4, <1>5, <1>6, <1>7 DEF Quiet

LEMMA InvStep == PageInv /\ [Next]_vars => PageInv'
<1> SUFFICES ASSUME PageInv, [Next]_vars PROVE PageInv'
  OBVIOUS
<1>1. TypeOK' /\ RailInOrder(rail')
  BY KindsStep DEF PageInv
<1>2. Truth'
  BY <1>1, TruthStep DEF PageInv
<1>3. Untouched'
  <2>1. Untouched /\ TypeOK
    BY DEF PageInv
  <2>2. ASSUME ~page'.reserved, ~page'.left PROVE Quiet'
    <3>1. ~page.reserved /\ ~page.left
      BY <2>1, <2>2, PageMoves
    <3> QED
      BY <1>1, <2>1, <2>2, <3>1, QuietStep DEF Untouched
  <2>3. /\ page'.locking => ~page'.reserved
        /\ page'.left => ~page'.locking /\ ~page'.reserved /\ ~page'.loaded
    BY <2>1, PageMoves
  <2> QED
    BY <2>2, <2>3 DEF Untouched
<1> QED
  BY <1>1, <1>2, <1>3 DEF PageInv

LEMMA PageInvariant == Spec => []PageInv
BY InitInv, InvStep, PTL DEF Spec

(* The page, its requests and the server stay of the kinds the code has.    *)
THEOREM PageTypes == Spec => []TypeOK
BY PageInvariant, PTL DEF PageInv

(* The rail never says that a ticket is confirmed unless it is, or was and  *)
(* has been cancelled by the customer elsewhere.                            *)
THEOREM SuccessIsAlwaysTrue == Spec => []SuccessIsTrue
<1>1. PageInv => SuccessIsTrue
  BY DEF PageInv, Truth, Said, SuccessIsTrue
<1> QED
  BY <1>1, PageInvariant, PTL

(* A status that waits always has a timer, however many wait.               *)
THEOREM NothingIsStranded == Spec => []NothingStranded
<1>1. PageInv => NothingStranded
  BY DEF PageInv, RailInOrder, NothingStranded
<1> QED
  BY <1>1, PageInvariant, PTL

(* A transient step is replaced only when its minimum time is over, as long *)
(* as the customer stays.                                                   *)
THEOREM EveryStepIsSeen == Spec => StepsAreSeen
<1> DEFINE A == rail.shown \in Transient /\ rail'.shown # rail.shown /\ ~page'.left => rail.held
<1>1. PageInv /\ PageInv' /\ [Next]_vars => [A]_vars
  <2> SUFFICES ASSUME PageInv, PageInv', [Next]_vars, rail.shown \in Transient,
                      rail'.shown # rail.shown, ~page'.left
               PROVE  rail.held
    OBVIOUS
  <2>1. TypeOK /\ RailInOrder(rail) /\ Untouched
    BY DEF PageInv
  <2>2. CASE UNCHANGED rail
    BY <2>2
  <2>3. CASE MinimumElapses
    BY <2>1, <2>3 DEF MinimumElapses, TypeOK
  <2>4. CASE TimerFires
    BY <2>4 DEF TimerFires
  <2>5. CASE Reserved
    <3>1. Quiet
      BY <2>1, <2>5 DEF Reserved, Untouched
    <3> QED
      BY <3>1 DEF Quiet, IdleRail, Transient
  <2>6. CASE Leave
    BY <2>6 DEF Leave, Blank
  <2>7. CASE Paid \/ VerifyFails
    BY <2>1, <2>7, ToldKeeps DEF Paid, VerifyFails, QueueStatus
  <2>8. CASE DeliverStatus
    <3>1. StatusOf[Head(wire)] \in QueueStatus
      BY <2>8 DEF DeliverStatus, StatusOf, QueueStatus
    <3> QED
      BY <2>1, <2>8, <3>1, CommitKeeps DEF DeliverStatus
  <2>9. CASE \E q \in Polls : OutcomeSeen(q)
    BY <2>1, <2>9, CommitKeeps DEF OutcomeSeen, QueueStatus
  <2> QED
    BY <2>2, <2>3, <2>4, <2>5, <2>6, <2>7, <2>8, <2>9, RailWriters
<1> QED
  BY <1>1, PageInvariant, PTL DEF Spec, StepsAreSeen
=============================================================================
