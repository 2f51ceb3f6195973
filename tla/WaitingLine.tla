----------------------------- MODULE WaitingLine -----------------------------
(***************************************************************************)
(* What the waiting room promises to those who are not taken out of it: a   *)
(* line in which everybody keeps the place they have taken, and from whose  *)
(* front groups are let in while there is room.  Which place a newcomer     *)
(* takes is open: they may come to stand beside those who are there, but    *)
(* never ahead of any of them.                                              *)
(***************************************************************************)
EXTENDS Naturals, FiniteSets

CONSTANTS Users, Capacity

VARIABLES
  line,     \* those who wait
  ahead,    \* <<v, u>>: v is let in no later than u
  inside    \* those who were let in

vars == <<line, ahead, inside>>

Init == line = {} /\ ahead = {} /\ inside = {}

(* What remains of the order when S leave the line. *)
AheadWithout(S) == {x \in ahead : x[1] \notin S /\ x[2] \notin S}

(* Behind some of those who wait, and so behind all who are ahead of them. *)
Join(u, front) ==
  /\ u \notin line \cup inside
  /\ front \subseteq line
  /\ \A x \in ahead : x[2] \in front => x[1] \in front
  /\ line' = line \cup {u}
  /\ ahead' = ahead \cup (front \X {u})
  /\ UNCHANGED inside

(* A group that leaves nobody behind who is ahead of one of them. *)
Admit(group) ==
  /\ group \subseteq line
  /\ \A x \in ahead : x[2] \in group => x[1] \in group
  /\ Cardinality(inside \cup group) <= Capacity
  /\ line' = line \ group
  /\ ahead' = AheadWithout(group)
  /\ inside' = inside \cup group

(* They leave, or are taken out, wherever they are. *)
TakeOut(S) ==
  /\ line' = line \ S
  /\ ahead' = AheadWithout(S)
  /\ inside' = inside \ S

Next ==
  \/ \E u \in Users, front \in SUBSET Users : Join(u, front)
  \/ \E group \in SUBSET Users : Admit(group)
  \/ \E S \in SUBSET Users : TakeOut(S)

Spec == Init /\ [][Next]_vars

=============================================================================
