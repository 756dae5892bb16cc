------------------------- MODULE MCAssignmentDesk -------------------------
(* Small instances of AssignmentDesk for TLC. *)
EXTENDS AssignmentDesk, TLC

CONSTANTS t1, t2, e1, e2, e3

(* Two members make t1 a full team, t2 is short of them.  Most runs leave e3 out. *)
Placement == [e \in Employees |-> IF e = e3 THEN t2 ELSE t1]

Interchangeable == Permutations(Sessions) \cup Permutations({e1, e2})

(* Bound of the largest run: the incidents come to the full team. *)
InitOfFullTeam == Init /\ \A i \in Incidents : incident[i].group = t1

SpecOfFullTeam == InitOfFullTeam /\ [][Next]_vars

=============================================================================
