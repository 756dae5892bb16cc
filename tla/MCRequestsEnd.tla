--------------------------- MODULE MCRequestsEnd ---------------------------
(***************************************************************************)
(* Small instances of TeamRotation and of AssignmentDesk for TLC, for what *)
(* their requests must come to under the fairness of a running database.   *)
(* A behaviour is about one of the two, its subject; the other stays as it *)
(* is.                                                                     *)
(***************************************************************************)
EXTENDS Integers

CONSTANTS Incidents, Teams, Sessions, Keys, None, t1, t2, e1, e2

VARIABLES members, dispatched, turns, rotation, dispatchLock, teamLock, dispatch,
          incident, row, incidentLock, rowLock, session, subject

rotationVars == <<members, dispatched, turns, rotation, dispatchLock, teamLock, dispatch>>

deskVars == <<incident, row, incidentLock, rowLock, session>>

Rotations == INSTANCE TeamRotation WITH
  Teams <- {t1}, Employees <- 1..2, TeamSize <- 2, Preassigned <- {}, MaxCycle <- 1,
  incident <- dispatched, row <- turns, incidentLock <- dispatchLock, session <- dispatch

Desk == INSTANCE AssignmentDesk WITH
  Employees <- {e1, e2}, TeamOf <- [e \in {e1, e2} |-> t1], TeamSize <- 2,
  Operations <- {"assign", "group", "handoff", "complete", "shadow"}

(* The service that is not the subject has one initial state. *)
Init ==
  /\ subject \in {"rotation", "desk"}
  /\ Rotations!Init
  /\ \/ subject = "rotation"
     \/ members[t1] = {} /\ \A i \in Incidents : dispatched[i].group = None
  /\ Desk!Init
  /\ subject = "desk" \/ \A i \in Incidents : incident[i].group = None

allVars == <<rotationVars, deskVars, subject>>

(* A step of the subject's session s that needs nobody else's doing. *)
Step(s) ==
  \/ subject = "rotation" /\ Rotations!Work(s) /\ UNCHANGED <<deskVars, subject>>
  \/ subject = "desk" /\ Desk!Serve(s) /\ UNCHANGED <<rotationVars, subject>>

Next ==
  /\ UNCHANGED subject
  /\ \/ subject = "rotation" /\ Rotations!Next /\ UNCHANGED deskVars
     \/ subject = "desk" /\ Desk!Next /\ UNCHANGED rotationVars

(* The fairness of both specifications. *)
Fairness == \A s \in Sessions : SF_allVars(Step(s))

Spec == Init /\ [][Next]_allVars /\ Fairness

(* Every dispatch ends, as TeamRotation says. *)
EveryCallEnds == Rotations!EveryCallEnds

(* Every request ends, as AssignmentDesk says. *)
EveryRequestEnds == Desk!EveryRequestEnds

=============================================================================
