---------------------------- MODULE LockWaits ----------------------------
(***************************************************************************)
(* PostgreSQL's deadlock detection, as far as its callers see it: waits[c] *)
(* is the set of sessions whose row locks keep session c waiting, and one  *)
(* of the sessions that wait for each other in a circle is thrown out.     *)
(***************************************************************************)

(* Sessions that all wait for one another. *)
Knot(waits, C) == C # {} /\ \A c \in C : waits[c] \cap C # {}

(* A smallest knot is a circle of waiting sessions. *)
Deadlocked(waits, s) ==
  \E C \in SUBSET DOMAIN waits :
     /\ s \in C
     /\ Knot(waits, C)
     /\ \A D \in SUBSET C : Knot(waits, D) => D = C

=============================================================================
