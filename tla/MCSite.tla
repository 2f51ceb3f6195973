------------------------------- MODULE MCSite -------------------------------
EXTENDS Site, TLC

(* No search, which finds the event, and a term that finds nothing. *)
MCTerms == {"", "zzz"}
MCMatching == [q \in MCTerms |-> IF q = "" THEN Events ELSE {}]

(* A bound: two writes are under way at a time, the other pages are looked   *)
(* at when the writes are over (the administrators' page is also left by     *)
(* loading it again), and those that show nothing of an account when no      *)
(* other tab has changed it.                                                 *)
Focus ==
  /\ \E w \in Writers : write[w].pc = "idle"
  /\ path # "/admin" => \A w \in Writers : write[w].pc = "idle"
  /\ path \in {"/home", "/events"} => auth.user \in {store, None}

Symmetry == Permutations(Fetchers) \cup Permutations(Cancellers) \cup Permutations(Deleters)
=============================================================================
