--------------------------- MODULE IngestLedger ---------------------------
(***************************************************************************)
(* What the webhook promises: an update is entered once, however often it  *)
(* is delivered, and an entry and its incident appear together.            *)
(***************************************************************************)
CONSTANTS Incidents, Keys

VARIABLES
  entries,  \* the updates that were entered
  kept      \* the incidents on record

Init == entries = {} /\ kept = {}

Enter(i, k) ==
  /\ <<i, k>> \notin entries
  /\ entries' = entries \cup {<<i, k>>}
  /\ kept' = kept \cup {i}

Next == \E i \in Incidents, k \in Keys : Enter(i, k)

Spec == Init /\ [][Next]_<<entries, kept>>

=============================================================================
