------------------------ MODULE TeamRotationProofs ------------------------
(***************************************************************************)
(* Proofs about TeamRotation, for any number of incidents, teams, members, *)
(* sessions and keys: the inductive invariant Inv and what follows from    *)
(* it.                                                                     *)
(***************************************************************************)
EXTENDS TeamRotation, TLAPS

USE SizeAssumption, CodeAssumption, NullAssumption, NullTurnAssumption, BoundAssumption

-----------------------------------------------------------------------------
(* Lemmas about the operators *)

(* The clamp leaves a pointer in range alone. *)
LEMMA ClampedPointer ==
  ASSUME NEW p \in Pointer
  PROVE  Clamped(p) = p
  BY DEF Clamped, Pointer, Seats

(* The next turn of a pointer in range is in range. *)
LEMMA AdvancedPointer ==
  ASSUME NEW p \in Pointer
  PROVE  /\ Advanced(p) \in Pointer
         /\ p.position < TeamSize => /\ Advanced(p).position = p.position + 1
                                     /\ Advanced(p).cycle = p.cycle
         /\ p.position = TeamSize => /\ Advanced(p).position = 1
                                     /\ Advanced(p).cycle = p.cycle + 1
  BY DEF Advanced, Pointer, Seats

(* The roster of a team enumerates employees. *)
LEMMA RosterOfEmployees ==
  ASSUME NEW S \in SUBSET Employees, NEW r \in Rosters(S)
  PROVE  r \in [Seats -> Employees]
  BY DEF Rosters

(* A closed row keeps its turn and is not active. *)
LEMMA DeactivatedRow ==
  ASSUME NEW r \in Row
  PROVE  /\ Deactivated(r) \in Row
         /\ Deactivated(r).active = FALSE
         /\ Deactivated(r).turn = r.turn
         /\ r.status # "NONE" => Deactivated(r).status # "NONE"
         /\ r.status = "REASSIGNED" => Deactivated(r).status = "REASSIGNED"
         /\ (r.active <=> r.status = "ASSIGNED") => Deactivated(r).status # "ASSIGNED"
         /\ ~ r.active => Deactivated(r) = r
         /\ r = NoRow => Deactivated(r) = NoRow
<1>1. CASE r.active
  <2>1. Deactivated(r) = [r EXCEPT !.active = FALSE, !.status = "REASSIGNED"]
    BY <1>1 DEF Deactivated
  <2>2. r # NoRow
    BY <1>1 DEF NoRow
  <2>3. Deactivated(r) \in Row
    BY <2>1 DEF Row, Statuses
  <2>4. /\ Deactivated(r).active = FALSE
        /\ Deactivated(r).turn = r.turn
        /\ Deactivated(r).status = "REASSIGNED"
    BY <2>1 DEF Row
  <2> QED
    BY <1>1, <2>2, <2>3, <2>4
<1>2. CASE ~ r.active
  <2>1. Deactivated(r) = r
    BY <1>2 DEF Deactivated
  <2>2. r.active \in BOOLEAN
    BY DEF Row
  <2>3. r.active = FALSE
    BY <1>2, <2>2
  <2> QED
    BY <2>1, <2>3
<1> QED
  BY <1>1, <1>2

(* A row whose status tells whether it is active still does when it is closed ... *)
LEMMA ClosedStatus ==
  ASSUME NEW r \in Row, r.active <=> r.status = "ASSIGNED"
  PROVE  Deactivated(r).active <=> Deactivated(r).status = "ASSIGNED"
<1>1. Deactivated(r).active = FALSE /\ Deactivated(r).status # "ASSIGNED"
  BY DeactivatedRow
<1> QED
  BY <1>1

(* ... and one that is there and not active has been reassigned. *)
LEMMA FormerRow ==
  ASSUME NEW r \in Row, r.active <=> r.status = "ASSIGNED", ~ r.active, r.status # "NONE"
  PROVE  r.status = "REASSIGNED"
<1>1. r.status \in Statuses
  BY DEF Row
<1>2. r.status # "ASSIGNED"
  OBVIOUS
<1> QED
  BY <1>1, <1>2 DEF Statuses

(* A flush of a complete record leaves a complete record. *)
LEMMA FlushedIncident ==
  ASSUME NEW stored \in Incident, NEW loaded \in Incident, NEW new \in Incident
  PROVE  /\ Flushed(stored, loaded, new) \in Incident
         /\ Flushed(stored, loaded, new).owner =
              IF new.owner = loaded.owner THEN stored.owner ELSE new.owner
<1> DEFINE F == Flushed(stored, loaded, new)
<1>1. DOMAIN new = {"state", "owner", "group"}
  BY DEF Incident
<1>2. F = [c \in {"state", "owner", "group"} |->
             IF new[c] = loaded[c] THEN stored[c] ELSE new[c]]
  BY <1>1 DEF Flushed
<1>3. F = [state |-> IF new.state = loaded.state THEN stored.state ELSE new.state,
           owner |-> IF new.owner = loaded.owner THEN stored.owner ELSE new.owner,
           group |-> IF new.group = loaded.group THEN stored.group ELSE new.group]
  BY <1>2
<1> QED
  BY <1>3 DEF Incident


-----------------------------------------------------------------------------
(* The initial states *)

(* The tables start empty and the sessions idle. *)
LEMMA InitInv == Init => Inv
<1> SUFFICES ASSUME Init PROVE Inv
  OBVIOUS
<1> USE DEF Init
<1>1. TypeOK
  <2>1. incident \in [Incidents -> Incident]
    BY DEF Incident, States
  <2>2. NoRow \in Row
    BY DEF NoRow, Row, Statuses
  <2>3. [position |-> 1, cycle |-> 1] \in Pointer
    BY DEF Pointer, Seats
  <2>4. Idle \in Session
    BY DEF Idle, Session, Steps
  <2> QED
    BY <2>1, <2>2, <2>3, <2>4 DEF TypeOK
<1>2. SessionsKnow /\ LocksInUse /\ PointerFresh
  BY DEF SessionsKnow, LocksInUse, PointerFresh, Idle
<1>3. RowsPresent /\ OwnersNamed /\ FoundAndClosed
  BY DEF RowsPresent, OwnersNamed, Named, FoundAndClosed, FoundThere, ClosedAlone, Idle, NoRow
<1>4. TurnsTaken /\ TurnsDistinct
  BY DEF TurnsTaken, TurnsDistinct, NoRow
<1>5. TurnsGiven
  <2> SUFFICES ASSUME NEW t \in Teams, NEW c \in 1..rotation[t].cycle, NEW n \in Seats,
                      Taken([team |-> t, cycle |-> c, position |-> n])
               PROVE  FALSE
    BY DEF TurnsGiven
  <2> QED
    BY DEF Taken, Seats
<1>6. OneActiveOwner
  BY DEF OneActiveOwner, Active, NoRow
<1> QED
  BY <1>1, <1>2, <1>3, <1>4, <1>5, <1>6 DEF Inv, TurnsOnRecord

-----------------------------------------------------------------------------
(* What the steps of a session preserve *)

(* The tables alone decide this part of the invariant. *)
Tables ==
  /\ members \in [Teams -> SUBSET Employees]
  /\ incident \in [Incidents -> Incident]
  /\ row \in [Incidents -> [Employees -> Row]]
  /\ rotation \in [Teams -> Pointer]
  /\ RowsPresent
  /\ \A i \in Incidents : Named(i, incident[i].owner)
  /\ TurnsOnRecord /\ OneActiveOwner

(* The sessions and the locks decide this one, with what they have read. *)
Locals ==
  /\ incidentLock \in [Incidents -> Sessions \cup {None}]
  /\ teamLock \in [Teams -> Sessions \cup {None}]
  /\ session \in [Sessions -> Session]
  /\ SessionsKnow /\ LocksInUse /\ PointerFresh /\ FoundAndClosed
  /\ \A s \in Sessions : session[s].step # "idle" =>
       Named(session[s].inc, session[s].loaded.owner)

(* The invariant is the conjunction of the two parts, now and in the next state. *)
LEMMA InvParts == (Inv <=> Tables /\ Locals) /\ (Inv' <=> Tables' /\ Locals')
  BY DEF Inv, TypeOK, OwnersNamed, Tables, Locals

(* A step that writes no table keeps their part. *)
LEMMA TablesUnchanged ==
  ASSUME Tables, UNCHANGED <<members, incident, row, rotation>>
  PROVE  Tables'
  BY DEF Tables, RowsPresent, Exists, Named, TurnsOnRecord, TurnsTaken, TurnsGiven, Taken,
         TurnsDistinct, OneActiveOwner, Active, Replaced

(* Joining and leaving change no other table. *)
LEMMA MembershipTables ==
  ASSUME Tables, members' \in [Teams -> SUBSET Employees],
         UNCHANGED <<incident, row, rotation>>
  PROVE  Tables'
  BY DEF Tables, RowsPresent, Exists, Named, TurnsOnRecord, TurnsTaken, TurnsGiven, Taken,
         TurnsDistinct, OneActiveOwner, Active, Replaced

(* A step of the membership keeps the part of sessions and locks. *)
LEMMA LocalsUnchanged ==
  ASSUME Locals, UNCHANGED <<incident, row, rotation, incidentLock, teamLock, session>>
  PROVE  Locals'
  BY DEF Locals, SessionsKnow, LocksInUse, PointerFresh, FoundAndClosed, FoundThere,
     ClosedAlone, Closing, Active, Exists, Named

(* A session that goes on keeps what it has closed, or closes nothing. *)
LEMMA ClosingsKept ==
  ASSUME Locals, NEW s \in Sessions, NEW w \in Session, session' = [session EXCEPT ![s] = w],
         UNCHANGED row,
         w.step \in {"clearing", "touching"} => w.found \in Employees /\ Exists(w.inc, w.found),
         w.closed = {} \/ (w.closed = session[s].closed /\ w.inc = session[s].inc),
         w.closed # {} => w.step \in {"locking", "gathering", "selecting"} /\ w.noticed # None
  PROVE  FoundAndClosed'
<1>1. /\ session'[s] = w
      /\ \A o \in Sessions \ {s} : session'[o] = session[o]
  BY DEF Locals
<1>2. FoundAndClosed
  BY DEF Locals
<1>3. \A i, e : Exists(i, e)' <=> Exists(i, e)
  BY DEF Exists
<1>4. \A i : Active(i)' = Active(i)
  BY DEF Active
<1>5. \A o \in Sessions : \A i : Closing(o, i)' => Closing(o, i)
  BY <1>1 DEF Closing
<1>6. ASSUME NEW o \in Sessions
      PROVE  FoundThere(o)' /\ ClosedAlone(o)'
  <2>1. FoundThere(o) /\ ClosedAlone(o) /\ FoundThere(s) /\ ClosedAlone(s)
    BY <1>2 DEF FoundAndClosed
  <2>2. CASE o = s
    <3>1. FoundThere(s)'
      BY <1>1, <1>3 DEF FoundThere
    <3>2. ClosedAlone(s)'
      BY <1>1, <1>4, <1>5, <2>1 DEF ClosedAlone
    <3> QED
      BY <2>2, <3>1, <3>2
  <2>3. CASE o # s
    <3>1. session'[o] = session[o]
      BY <1>1, <2>3
    <3>2. FoundThere(o)'
      BY <1>3, <2>1, <3>1 DEF FoundThere
    <3>3. ClosedAlone(o)'
      BY <1>4, <1>5, <2>1, <3>1 DEF ClosedAlone
    <3> QED
      BY <3>2, <3>3
  <2> QED
    BY <2>2, <2>3
<1> QED
  BY <1>6 DEF FoundAndClosed

(* Once a session has closed, the other sessions are as they were. *)
LEMMA CloseLocals ==
  ASSUME Locals, NEW s \in Sessions, Close(s),
         \A i \in Incidents, e \in Employees : Exists(i, e) => Exists(i, e)',
         \A o \in Sessions \ {s} : session[o].step = "selecting" =>
            rotation'[session[o].team] = rotation[session[o].team],
         \A o \in Sessions \ {s} : \A e \in session[o].closed : row'[session[o].inc][e].active
  PROVE  Locals'
<1> USE DEF Locals, Close
<1>1. Idle \in Session
  BY DEF Idle, Session, Steps
<1>2. /\ incidentLock' \in [Incidents -> Sessions \cup {None}]
      /\ teamLock' \in [Teams -> Sessions \cup {None}]
      /\ session' \in [Sessions -> Session]
  BY <1>1
<1>3. session'[s] = Idle /\ \A o \in Sessions \ {s} : session'[o] = session[o]
  OBVIOUS
<1>4. SessionsKnow'
  BY <1>3 DEF SessionsKnow, Idle
<1>5. LocksInUse'
  BY <1>3 DEF LocksInUse
<1>6. PointerFresh'
  <2> SUFFICES ASSUME NEW o \in Sessions, session'[o].step \in {"gathering", "selecting"}
               PROVE  /\ incidentLock'[session'[o].inc] = o
                      /\ session'[o].step = "selecting" =>
                           /\ teamLock'[session'[o].team] = o
                           /\ session'[o].roster \in [Seats -> Employees]
                           /\ session'[o].pointer = rotation'[session'[o].team]
    BY DEF PointerFresh
  <2>1. o # s /\ session'[o] = session[o]
    BY <1>3 DEF Idle
  <2>2. session[o].inc \in Incidents /\ session[o].team \in Teams
    BY <2>1 DEF SessionsKnow
  <2> QED
    BY <2>1, <2>2 DEF PointerFresh
<1>7. (\A o \in Sessions : session[o].step # "idle" =>
         Named(session[o].inc, session[o].loaded.owner))'
  <2> SUFFICES ASSUME NEW o \in Sessions, session'[o].step # "idle"
               PROVE  Named(session[o].inc, session[o].loaded.owner)'
    OBVIOUS
  <2>1. o # s /\ session'[o] = session[o] /\ session[o].inc \in Incidents
    BY <1>3 DEF SessionsKnow, Idle
  <2>2. Named(session[o].inc, session[o].loaded.owner)
    BY <2>1
  <2> QED
    BY <2>1, <2>2 DEF Named
<1>8. FoundAndClosed'
  <2>1. \A o \in Sessions : \A i : Closing(o, i)' => Closing(o, i)
    BY <1>3 DEF Closing, Idle
  <2>2. ASSUME NEW o \in Sessions
        PROVE  FoundThere(o)' /\ ClosedAlone(o)'
    <3>1. CASE o = s
      BY <1>3, <3>1 DEF FoundThere, ClosedAlone, Idle
    <3>2. CASE o # s
      <4>1. session'[o] = session[o] /\ session[o] \in Session
        BY <1>3, <3>2
      <4>2. /\ session[o].step # "idle" => session[o].inc \in Incidents
            /\ FoundThere(o) /\ ClosedAlone(o)
        BY DEF SessionsKnow, FoundAndClosed
      <4>3. session[o].closed \subseteq Employees
        BY <4>1 DEF Session
      <4>4. session[o].closed \subseteq Active(session[o].inc)'
        BY <3>2, <4>1, <4>3 DEF Active
      <4>5. FoundThere(o)'
        BY <4>1, <4>2 DEF FoundThere
      <4>6. ClosedAlone(o)'
        BY <2>1, <4>1, <4>2, <4>4 DEF ClosedAlone
      <4> QED
        BY <4>5, <4>6
    <3> QED
      BY <3>1, <3>2
  <2> QED
    BY <2>2 DEF FoundAndClosed
<1> QED
  BY <1>2, <1>4, <1>5, <1>6, <1>7, <1>8

(* What a session has loaded is still accounted for if no row went away. *)
LEMMA LoadedNamed ==
  ASSUME Locals, NEW s \in Sessions, UNCHANGED row,
         \A o \in Sessions \ {s} : session'[o] = session[o],
         session[s].step # "idle",
         session'[s].inc = session[s].inc, session'[s].loaded = session[s].loaded
  PROVE  (\A o \in Sessions : session[o].step # "idle" =>
            Named(session[o].inc, session[o].loaded.owner))'
<1> SUFFICES ASSUME NEW o \in Sessions, session'[o].step # "idle"
             PROVE  Named(session[o].inc, session[o].loaded.owner)'
  OBVIOUS
<1>1. session'[o].inc = session[o].inc /\ session'[o].loaded = session[o].loaded
        /\ session[o].step # "idle"
  OBVIOUS
<1>2. Named(session[o].inc, session[o].loaded.owner)
  BY <1>1 DEF Locals
<1> QED
  BY <1>1, <1>2 DEF Named, Exists

(* A rollback leaves the tables alone and frees the locks. *)
LEMMA RollbackInv ==
  ASSUME Inv, NEW s \in Sessions, Rollback(s)
  PROVE  Inv'
<1>1. Tables'
  BY InvParts, TablesUnchanged DEF Rollback
<1>2. \A i \in Incidents, e \in Employees : Exists(i, e) => Exists(i, e)'
  BY DEF Rollback, Exists
<1>3. Close(s) /\ UNCHANGED rotation
  BY DEF Rollback
<1>4. \A o \in Sessions \ {s} : \A e \in session[o].closed : row'[session[o].inc][e].active
  BY InvParts DEF Rollback, Locals, FoundAndClosed, FoundThere, ClosedAlone, Active
<1>5. Locals'
  BY <1>2, <1>3, <1>4, InvParts, CloseLocals
<1> QED
  BY <1>1, <1>5, InvParts

-----------------------------------------------------------------------------
(* The steps of a dispatch up to its commit *)

(* A call starts with what the caller has read of the incident. *)
LEMMA CallInv ==
  ASSUME Inv, NEW s \in Sessions, NEW i \in Incidents, NEW t \in Teams, NEW k \in Keys,
         Call(s, i, t, k)
  PROVE  Inv'
<1> USE DEF Call
<1>1. Tables'
  BY InvParts, TablesUnchanged
<1>2. PICK first \in {"noticing", "locking"} :
        session' = [session EXCEPT ![s] =
          [Idle EXCEPT !.step = first, !.inc = i, !.team = t, !.key = k, !.loaded = incident[i]]]
  OBVIOUS
<1>3. incident[i] \in Incident /\ Named(i, incident[i].owner)
  BY InvParts DEF Tables
<1> DEFINE w == [Idle EXCEPT !.step = first, !.inc = i, !.team = t, !.key = k,
                             !.loaded = incident[i]]
<1>4. w \in Session /\ w.step = first /\ w.inc = i /\ w.team = t /\ w.key = k
        /\ w.loaded = incident[i] /\ w.closed = {}
  BY <1>3 DEF Idle, Session, Steps
<1> HIDE DEF w
<1>5. session \in [Sessions -> Session] /\ session'[s] = w
        /\ \A o \in Sessions \ {s} : session'[o] = session[o]
  BY <1>2, InvParts DEF Locals, w
<1>6. session' \in [Sessions -> Session]
  BY <1>2, <1>4, <1>5 DEF w
<1>7. SessionsKnow'
  BY <1>3, <1>4, <1>5, InvParts DEF Locals, SessionsKnow
<1>8. LocksInUse' /\ PointerFresh'
  <2>1. LocksInUse /\ PointerFresh /\ UNCHANGED <<incidentLock, teamLock, rotation>>
    BY InvParts DEF Locals
  <2>2. session[s].step = "idle" /\ session'[s].step \in {"noticing", "locking"}
    BY <1>4, <1>5
  <2>3. LocksInUse'
    BY <1>5, <2>1, <2>2 DEF LocksInUse
  <2>4. PointerFresh'
    BY <1>5, <2>1, <2>2 DEF PointerFresh
  <2> QED
    BY <2>3, <2>4
<1>9. (\A o \in Sessions : session[o].step # "idle" =>
         Named(session[o].inc, session[o].loaded.owner))'
  <2> SUFFICES ASSUME NEW o \in Sessions, session'[o].step # "idle"
               PROVE  Named(session[o].inc, session[o].loaded.owner)'
    OBVIOUS
  <2>1. CASE o = s
    BY <1>3, <1>4, <1>5, <2>1 DEF Named, Exists
  <2>2. CASE o # s
    <3>1. session'[o] = session[o] /\ Named(session[o].inc, session[o].loaded.owner)
      BY <1>5, <2>2, InvParts DEF Locals
    <3> QED
      BY <3>1 DEF Named, Exists
  <2> QED
    BY <2>1, <2>2
<1>10. FoundAndClosed'
  BY <1>2, <1>4, InvParts, ClosingsKept DEF w
<1> QED
  BY <1>1, <1>6, <1>7, <1>8, <1>9, <1>10, InvParts DEF Locals

(* The notices change nothing that was read. *)
LEMMA NotifyInv ==
  ASSUME Inv, NEW s \in Sessions, Notify(s)
  PROVE  Inv'
<1> USE DEF Notify
<1>1. Tables'
  BY InvParts, TablesUnchanged
<1> DEFINE next == IF incidentLock[session[s].inc] = s THEN "gathering" ELSE "looking"
           x == [session[s] EXCEPT !.noticed = members[session[s].team], !.step = next]
<1>2. /\ session \in [Sessions -> Session]
      /\ session[s].inc \in Incidents /\ session[s].team \in Teams
      /\ members[session[s].team] \in SUBSET Employees
  BY InvParts DEF Locals, SessionsKnow, Tables
<1>3. /\ session'[s] = [session[s] EXCEPT !.noticed = members[session[s].team], !.step = next]
      /\ \A o \in Sessions \ {s} : session'[o] = session[o]
  BY <1>2
<1>4. session' \in [Sessions -> Session]
  BY <1>2 DEF Session, Steps
<1>5. /\ session'[s].step = next
      /\ session'[s].inc = session[s].inc /\ session'[s].team = session[s].team
      /\ session'[s].key = session[s].key /\ session'[s].loaded = session[s].loaded
  BY <1>2, <1>3 DEF Session
<1>6. /\ SessionsKnow /\ LocksInUse /\ PointerFresh
      /\ session[s].step = "noticing" /\ UNCHANGED <<incidentLock, teamLock, rotation>>
  BY InvParts DEF Locals
<1> HIDE DEF Notify
<1>7. SessionsKnow' /\ LocksInUse'
  <2>1. next \in {"gathering", "looking"}
    OBVIOUS
  <2>2. next = "looking" => \A i \in Incidents : incidentLock[i] # s
    BY <1>6 DEF LocksInUse
  <2> HIDE DEF next
  <2>3. \A o \in Sessions \ {s} : session'[o] = session[o]
    BY <1>3
  <2>4. SessionsKnow'
    <3> SUFFICES ASSUME NEW o \in Sessions
                 PROVE  IF session'[o].step = "idle"
                        THEN session'[o] = Idle
                        ELSE /\ session'[o].inc \in Incidents
                             /\ session'[o].team \in Teams
                             /\ session'[o].key \in Keys
                             /\ session'[o].loaded \in Incident
      BY DEF SessionsKnow
    <3>1. CASE o = s
      BY <1>5, <1>6, <2>1, <3>1 DEF SessionsKnow
    <3>2. CASE o # s
      BY <1>6, <2>3, <3>2 DEF SessionsKnow
    <3> QED
      BY <3>1, <3>2
  <2>5. LocksInUse'
    BY <1>5, <1>6, <2>1, <2>2, <2>3 DEF LocksInUse
  <2> QED
    BY <2>4, <2>5
<1>8. PointerFresh'
  <2> SUFFICES ASSUME NEW o \in Sessions
               PROVE  /\ session'[o].step \in {"gathering", "selecting"} =>
                           incidentLock[session'[o].inc] = o
                      /\ session'[o].step = "selecting" =>
                           /\ teamLock[session'[o].team] = o
                           /\ session'[o].roster \in [Seats -> Employees]
                           /\ session'[o].pointer = rotation[session'[o].team]
    BY <1>6 DEF PointerFresh
  <2>1. CASE o = s
    BY <1>5, <2>1
  <2>2. CASE o # s
    <3>1. session'[o] = session[o]
      BY <1>3, <2>2
    <3> QED
      BY <1>6, <3>1 DEF PointerFresh
  <2> QED
    BY <2>1, <2>2
<1>9. (\A o \in Sessions : session[o].step # "idle" =>
         Named(session[o].inc, session[o].loaded.owner))'
  BY <1>3, <1>5, <1>6, InvParts, LoadedNamed DEF Notify
<1>10. FoundAndClosed'
  <2>1. session' = [session EXCEPT ![s] = x] /\ session[s] \in Session
    BY <1>2 DEF Notify, Session
  <2>2. x \in Session /\ x.step \in {"gathering", "looking"} /\ x.closed = session[s].closed
    <3>1. x = session'[s]
      BY <1>3
    <3>2. x.step = next /\ x.closed = session[s].closed
      BY <2>1 DEF Session
    <3> QED
      BY <1>4, <3>1, <3>2
  <2>3. session[s].closed = {}
    BY <1>6, InvParts DEF Locals, FoundAndClosed, FoundThere, ClosedAlone
  <2> HIDE DEF x
  <2> QED
    BY <2>1, <2>2, <2>3, InvParts, ClosingsKept DEF Notify
<1> QED
  BY <1>1, <1>4, <1>7, <1>8, <1>9, <1>10, InvParts DEF Locals, Notify

(* The lock of the incident was free: another holder would block s. *)
LEMMA LockIncidentInv ==
  ASSUME Inv, NEW s \in Sessions, LockIncident(s)
  PROVE  Inv'
<1> USE DEF LockIncident
<1>1. Tables'
  BY InvParts, TablesUnchanged
<1> DEFINE i == session[s].inc
           next == IF session[s].noticed = None THEN "noticing" ELSE "gathering"
<1>2. session \in [Sessions -> Session] /\ i \in Incidents
  BY InvParts DEF Locals, SessionsKnow
<1>3. \A o \in Sessions : incidentLock[i] # o
  BY <1>2, InvParts DEF Blockers, Locals, LocksInUse
<1>4. /\ session'[s] = [session[s] EXCEPT !.step = next]
      /\ \A o \in Sessions \ {s} : session'[o] = session[o]
  BY <1>2
<1>5. session' \in [Sessions -> Session]
  BY <1>2 DEF Session, Steps
<1>6. /\ session'[s].step = next
      /\ session'[s].inc = i /\ session'[s].team = session[s].team
      /\ session'[s].key = session[s].key /\ session'[s].loaded = session[s].loaded
  BY <1>2, <1>4 DEF Session
<1>7. incidentLock' \in [Incidents -> Sessions \cup {None}]
        /\ incidentLock'[i] = s /\ \A j \in Incidents \ {i} : incidentLock'[j] = incidentLock[j]
  BY <1>2, InvParts DEF Locals
<1> HIDE DEF i
<1>8. SessionsKnow'
  BY <1>4, <1>6, InvParts DEF Locals, SessionsKnow
<1>9. LocksInUse'
  BY <1>2, <1>4, <1>6, <1>7, InvParts DEF Locals, LocksInUse
<1>10. PointerFresh'
  <2> SUFFICES ASSUME NEW o \in Sessions, session'[o].step \in {"gathering", "selecting"}
               PROVE  /\ incidentLock'[session'[o].inc] = o
                      /\ session'[o].step = "selecting" =>
                           /\ teamLock'[session'[o].team] = o
                           /\ session'[o].roster \in [Seats -> Employees]
                           /\ session'[o].pointer = rotation'[session'[o].team]
    BY DEF PointerFresh
  <2>1. CASE o = s
    BY <2>1, <1>6, <1>7
  <2>2. CASE o # s
    <3>1. session'[o] = session[o] /\ session[o].inc \in Incidents
      BY <2>2, <1>4, InvParts DEF Locals, SessionsKnow
    <3>2. incidentLock[session[o].inc] = o
      BY <3>1, InvParts DEF Locals, PointerFresh
    <3>3. session[o].inc # i
      BY <3>2, <1>3 DEF i
    <3> QED
      BY <3>1, <3>2, <3>3, <1>7, InvParts DEF Locals, PointerFresh
  <2> QED
    BY <2>1, <2>2
<1>11. (\A o \in Sessions : session[o].step # "idle" =>
          Named(session[o].inc, session[o].loaded.owner))'
  BY <1>4, <1>6, InvParts, LoadedNamed DEF i
<1>12. FoundAndClosed'
  <2> DEFINE x == [session[s] EXCEPT !.step = next]
  <2>1. session' = [session EXCEPT ![s] = x] /\ session[s] \in Session
    BY <1>2 DEF Session
  <2>2. /\ x \in Session /\ x.step = next /\ x.closed = session[s].closed
        /\ x.inc = session[s].inc /\ x.noticed = session[s].noticed
    BY <2>1 DEF Session, Steps
  <2>3. x.closed # {} => x.step = "gathering" /\ x.noticed # None
    BY <2>2, InvParts DEF Locals, FoundAndClosed, FoundThere, ClosedAlone
  <2>4. x.step \in {"noticing", "gathering"}
    BY <2>2
  <2> HIDE DEF x
  <2> QED
    BY <2>1, <2>2, <2>3, <2>4, InvParts, ClosingsKept
<1> QED
  BY <1>1, <1>5, <1>7, <1>8, <1>9, <1>10, <1>11, <1>12, InvParts DEF Locals

(* The pointer is read under the lock of the team. *)
LEMMA LockTeamInv ==
  ASSUME Inv, NEW s \in Sessions, LockTeam(s)
  PROVE  Inv'
<1> USE DEF LockTeam
<1>1. Tables'
  BY InvParts, TablesUnchanged
<1> DEFINE t == session[s].team
<1>2. session \in [Sessions -> Session] /\ t \in Teams /\ session[s].inc \in Incidents
  BY InvParts DEF Locals, SessionsKnow
<1>3. rotation[t] \in Pointer /\ Clamped(rotation[t]) = rotation[t]
  BY <1>2, InvParts, ClampedPointer DEF Tables
<1>4. PICK r \in Rosters(members[t]) :
        session' = [session EXCEPT ![s].step = "selecting", ![s].roster = r,
                                   ![s].pointer = Clamped(rotation[t])]
  OBVIOUS
<1>5. r \in [Seats -> Employees]
  BY <1>2, <1>4, InvParts, RosterOfEmployees DEF Tables
<1>6. \A o \in Sessions : teamLock[t] # o
  BY <1>2, InvParts DEF Blockers, Locals, LocksInUse
<1> DEFINE w == [session[s] EXCEPT !.step = "selecting", !.roster = r,
                                   !.pointer = rotation[t]]
<1>7. /\ session' = [session EXCEPT ![s] = w] /\ session[s] \in Session
      /\ w = [session[s] EXCEPT !.step = "selecting", !.roster = r, !.pointer = rotation[t]]
  BY <1>2, <1>3, <1>4
<1> HIDE DEF w
<1>8. /\ w \in Session /\ w.step = "selecting" /\ w.roster = r /\ w.pointer = rotation[t]
      /\ w.inc = session[s].inc /\ w.team = t
      /\ w.key = session[s].key /\ w.loaded = session[s].loaded
      /\ w.closed = session[s].closed /\ w.noticed = session[s].noticed
  <2> DEFINE x == session[s]
             p == rotation[t]
  <2>1. x \in Session /\ p \in Pointer /\ r \in [Seats -> Employees]
          /\ w = [x EXCEPT !.step = "selecting", !.roster = r, !.pointer = p]
    BY <1>3, <1>5, <1>7
  <2> HIDE DEF x, p
  <2>2. /\ w \in Session /\ w.step = "selecting" /\ w.roster = r /\ w.pointer = p
        /\ w.inc = x.inc /\ w.team = x.team /\ w.key = x.key /\ w.loaded = x.loaded
        /\ w.closed = x.closed /\ w.noticed = x.noticed
    BY <2>1 DEF Session, Steps
  <2> QED
    BY <2>2 DEF x, p
<1>9. /\ session' \in [Sessions -> Session] /\ session'[s] = w
      /\ \A o \in Sessions \ {s} : session'[o] = session[o]
  BY <1>2, <1>7, <1>8
<1>10. teamLock' \in [Teams -> Sessions \cup {None}]
         /\ teamLock'[t] = s /\ \A u \in Teams \ {t} : teamLock'[u] = teamLock[u]
  BY <1>2, InvParts DEF Locals
<1>11. incidentLock[session[s].inc] = s
  BY InvParts DEF Locals, PointerFresh
<1> HIDE DEF t
<1>12. SessionsKnow'
  BY <1>8, <1>9, InvParts DEF Locals, SessionsKnow, t
<1>13. LocksInUse'
  BY <1>2, <1>6, <1>8, <1>9, <1>10, InvParts DEF Locals, LocksInUse
<1>14. PointerFresh'
  <2> SUFFICES ASSUME NEW o \in Sessions, session'[o].step \in {"gathering", "selecting"}
               PROVE  /\ incidentLock'[session'[o].inc] = o
                      /\ session'[o].step = "selecting" =>
                           /\ teamLock'[session'[o].team] = o
                           /\ session'[o].roster \in [Seats -> Employees]
                           /\ session'[o].pointer = rotation'[session'[o].team]
    BY DEF PointerFresh
  <2>1. CASE o = s
    BY <2>1, <1>5, <1>8, <1>9, <1>10, <1>11
  <2>2. CASE o # s
    <3>1. session'[o] = session[o] /\ session[o].team \in Teams
      BY <2>2, <1>9, InvParts DEF Locals, SessionsKnow
    <3>2. session[o].step = "selecting" => session[o].team # t
      BY <3>1, <1>6, InvParts DEF Locals, PointerFresh
    <3>3. /\ incidentLock[session[o].inc] = o
          /\ session[o].step = "selecting" =>
               /\ teamLock[session[o].team] = o
               /\ session[o].roster \in [Seats -> Employees]
               /\ session[o].pointer = rotation[session[o].team]
      BY <3>1, InvParts DEF Locals, PointerFresh
    <3> QED
      BY <3>1, <3>2, <3>3, <1>10
  <2> QED
    BY <2>1, <2>2
<1>15. (\A o \in Sessions : session[o].step # "idle" =>
          Named(session[o].inc, session[o].loaded.owner))'
  BY <1>8, <1>9, InvParts, LoadedNamed
<1>16. FoundAndClosed'
  <2>1. w.closed # {} => w.noticed # None
    BY <1>8, InvParts DEF Locals, FoundAndClosed, FoundThere, ClosedAlone
  <2> QED
    BY <1>7, <1>8, <2>1, InvParts, ClosingsKept
<1> QED
  BY <1>1, <1>9, <1>10, <1>12, <1>13, <1>14, <1>15, <1>16, InvParts DEF Locals

(***************************************************************************)
(* A notice looks for an assignment, and everybody locks the team, with    *)
(* notices inserted; who is about to insert them has inserted none.        *)
(***************************************************************************)
NoticedOnce ==
  \A s \in Sessions :
    /\ session[s].step \in {"looking", "clearing", "touching", "gathering", "selecting"} =>
         session[s].noticed # None
    /\ session[s].step = "noticing" => session[s].noticed = None

(***************************************************************************)
(* A notice that looks or clears moves on without a lock: what remains is  *)
(* whether it is right about what it has found and closed.                 *)
(***************************************************************************)
LEMMA MovesOn ==
  ASSUME Inv, NEW s \in Sessions, session[s].step \in {"looking", "clearing"},
         NEW w \in Session, session' = [session EXCEPT ![s] = w],
         w.step \in {"clearing", "locking", "touching"},
         w.inc = session[s].inc, w.team = session[s].team, w.key = session[s].key,
         w.loaded = session[s].loaded, FoundAndClosed',
         UNCHANGED <<members, incident, row, rotation, incidentLock, teamLock>>
  PROVE  Inv'
<1>1. Tables'
  BY InvParts, TablesUnchanged
<1>2. /\ session \in [Sessions -> Session] /\ session'[s] = w
      /\ \A o \in Sessions \ {s} : session'[o] = session[o]
  BY InvParts DEF Locals
<1>3. SessionsKnow /\ LocksInUse /\ PointerFresh
  BY InvParts DEF Locals
<1>4. SessionsKnow'
  BY <1>2, <1>3 DEF SessionsKnow
<1>5. LocksInUse'
  BY <1>2, <1>3 DEF LocksInUse
<1>6. PointerFresh'
  BY <1>2, <1>3 DEF PointerFresh
<1>7. (\A o \in Sessions : session[o].step # "idle" =>
         Named(session[o].inc, session[o].loaded.owner))'
  BY <1>2, InvParts, LoadedNamed
<1>8. session' \in [Sessions -> Session]
  BY <1>2
<1> QED
  BY <1>1, <1>4, <1>5, <1>6, <1>7, <1>8, InvParts DEF Locals

(* What a notice finds is an assignment that is there. *)
LEMMA FindInv ==
  ASSUME Inv, NEW s \in Sessions,
         FindNobody(s) \/ \E e \in Employees, force \in BOOLEAN : Find(s, e, force)
  PROVE  Inv'
<1>1. session[s] \in Session /\ session \in [Sessions -> Session] /\ session[s].step = "looking"
  BY InvParts DEF Locals, FindNobody, Find
<1>2. session[s].closed = {} /\ session[s].inc \in Incidents
  BY <1>1, InvParts DEF Locals, FoundAndClosed, FoundThere, ClosedAlone, SessionsKnow
<1>3. CASE FindNobody(s)
  <2> DEFINE w == [session[s] EXCEPT !.step = "locking"]
  <2>1. session' = [session EXCEPT ![s] = w]
    BY <1>1, <1>3 DEF FindNobody, Session
  <2>2. /\ w \in Session /\ w.step = "locking" /\ w.closed = {} /\ w.inc = session[s].inc
        /\ w.team = session[s].team /\ w.key = session[s].key /\ w.loaded = session[s].loaded
    BY <1>1, <1>2 DEF Session, Steps
  <2> HIDE DEF w
  <2>3. UNCHANGED <<members, incident, row, rotation, incidentLock, teamLock>>
    BY <1>3 DEF FindNobody
  <2>4. FoundAndClosed'
    BY <2>1, <2>2, <2>3, InvParts, ClosingsKept
  <2> QED
    BY <1>1, <2>1, <2>2, <2>3, <2>4, MovesOn
<1>4. CASE \E e \in Employees, force \in BOOLEAN : Find(s, e, force)
  <2>1. PICK e \in Employees, step \in {"clearing", "touching"} :
          /\ e \in Active(session[s].inc)
          /\ session' = [session EXCEPT ![s].found = e, ![s].step = step]
          /\ UNCHANGED <<members, incident, row, rotation, incidentLock, teamLock>>
    BY <1>4 DEF Find
  <2> DEFINE w == [session[s] EXCEPT !.found = e, !.step = step]
  <2>2. session' = [session EXCEPT ![s] = w]
    BY <1>1, <2>1 DEF Session
  <2>3. /\ w \in Session /\ w.step = step /\ w.closed = {} /\ w.inc = session[s].inc
        /\ w.team = session[s].team /\ w.key = session[s].key /\ w.loaded = session[s].loaded
        /\ w.found = e
    BY <1>1, <1>2 DEF Session, Steps
  <2> HIDE DEF w
  <2>4. Exists(session[s].inc, e)
    BY <1>2, <2>1, InvParts DEF Tables, RowsPresent, Exists, Active
  <2>5. FoundAndClosed'
    BY <2>1, <2>2, <2>3, <2>4, InvParts, ClosingsKept
  <2> QED
    <3>1. UNCHANGED <<members, incident, row, rotation, incidentLock, teamLock>>
      BY <2>1
    <3>2. w.step \in {"clearing", "locking", "touching"}
      BY <2>1, <2>3
    <3>3. session[s].step \in {"looking", "clearing"}
      BY <1>1
    <3>4. /\ w \in Session /\ w.inc = session[s].inc /\ w.team = session[s].team
          /\ w.key = session[s].key /\ w.loaded = session[s].loaded
      BY <2>3
    <3> QED
      BY <2>2, <2>5, <3>1, <3>2, <3>3, <3>4, MovesOn, Zenon
<1> QED
  BY <1>3, <1>4

(* Nobody else has closed what a notice closes: the other would block it. *)
LEMMA ClearInv ==
  ASSUME Inv, NoticedOnce, NEW s \in Sessions, Clear(s)
  PROVE  Inv'
<1> DEFINE i == session[s].inc
<1>1. /\ session[s] \in Session /\ session \in [Sessions -> Session]
      /\ session[s].step = "clearing" /\ i \in Incidents
  BY InvParts DEF Locals, Clear, SessionsKnow
<1>2. PICK C \in SUBSET Active(i) :
        session' = [session EXCEPT ![s].closed = C, ![s].found = None, ![s].step = "locking"]
  BY DEF Clear
<1> DEFINE w == [session[s] EXCEPT !.closed = C, !.found = None, !.step = "locking"]
<1>3. session' = [session EXCEPT ![s] = w]
  BY <1>1, <1>2 DEF Session
<1>4. /\ w \in Session /\ w.step = "locking" /\ w.closed = C /\ w.inc = i
      /\ w.team = session[s].team /\ w.key = session[s].key /\ w.loaded = session[s].loaded
      /\ w.noticed = session[s].noticed
  BY <1>1 DEF Session, Steps, Active
<1> HIDE DEF w
<1>5. UNCHANGED <<members, incident, row, rotation, incidentLock, teamLock>>
  BY DEF Clear
<1>6. \A o \in Sessions \ {s} : ~ Closing(o, i)
  BY <1>1 DEF Clear, Blockers
<1>7. /\ session'[s] = w
      /\ \A o \in Sessions \ {s} : session'[o] = session[o]
  BY <1>1, <1>3, <1>4
<1>8. session[s].noticed # None
  BY <1>1 DEF NoticedOnce
<1>9. FoundAndClosed'
  <2>1. FoundAndClosed /\ \A j : Active(j)' = Active(j)
    BY <1>5, InvParts DEF Locals, Active
  <2>2. \A o \in Sessions \ {s} : \A j : Closing(o, j)' <=> Closing(o, j)
    BY <1>7 DEF Closing
  <2>3. \A j : Closing(s, j)' => j = i
    BY <1>4, <1>7 DEF Closing
  <2>4. ASSUME NEW o \in Sessions
        PROVE  FoundThere(o)' /\ ClosedAlone(o)'
    <3>1. CASE o = s
      <4>1. FoundThere(s)'
        BY <1>4, <1>7 DEF FoundThere
      <4>2. ClosedAlone(s)'
        BY <1>2, <1>4, <1>6, <1>7, <1>8, <2>1, <2>2 DEF ClosedAlone
      <4> QED
        BY <3>1, <4>1, <4>2
    <3>2. CASE o # s
      <4>1. session'[o] = session[o] /\ FoundThere(o) /\ ClosedAlone(o)
        BY <1>7, <2>1, <3>2 DEF FoundAndClosed
      <4>2. FoundThere(o)'
        BY <1>5, <4>1 DEF FoundThere, Exists
      <4>3. session[o].closed # {} => session[o].inc # i
        BY <1>6, <3>2 DEF Closing
      <4>4. ClosedAlone(o)'
        BY <2>1, <2>2, <2>3, <4>1, <4>3 DEF ClosedAlone
      <4> QED
        BY <4>2, <4>4
    <3> QED
      BY <3>1, <3>2
  <2> QED
    BY <2>4 DEF FoundAndClosed
<1> QED
  BY <1>1, <1>3, <1>4, <1>5, <1>9, MovesOn

-----------------------------------------------------------------------------
(* The commit of a turn *)

(* The turn that session s gives out. *)
TurnOf(s) == [team |-> session[s].team, cycle |-> session[s].pointer.cycle,
              position |-> session[s].pointer.position]

(* What a session may rely on when it commits. *)
LEMMA CommitContext ==
  ASSUME Inv, NEW s \in Sessions, CommitTurn(s)
  PROVE  /\ session[s].inc \in Incidents /\ session[s].team \in Teams
         /\ session[s].key \in Keys /\ session[s].loaded \in Incident
         /\ Named(session[s].inc, session[s].loaded.owner)
         /\ session[s].pointer = rotation[session[s].team]
         /\ session[s].pointer \in Pointer
         /\ Selected(s) \in Employees
         /\ row[session[s].inc][Selected(s)] = NoRow
         /\ TurnOf(s) \in Turn
         /\ teamLock[session[s].team] = s
<1>1. session[s].step = "selecting" /\ ~ Exists(session[s].inc, Selected(s))
  BY DEF CommitTurn
<1>2. /\ session[s].inc \in Incidents /\ session[s].team \in Teams
      /\ session[s].key \in Keys /\ session[s].loaded \in Incident
      /\ Named(session[s].inc, session[s].loaded.owner)
  BY <1>1, InvParts DEF Locals, SessionsKnow
<1>3. /\ session[s].pointer = rotation[session[s].team]
      /\ session[s].roster \in [Seats -> Employees]
      /\ teamLock[session[s].team] = s
  BY <1>1, InvParts DEF Locals, PointerFresh
<1>4. session[s].pointer \in Pointer
  BY <1>2, <1>3, InvParts DEF Tables
<1>5. Selected(s) \in Employees
  BY <1>3, <1>4 DEF Selected, Pointer
<1>6. row[session[s].inc][Selected(s)] = NoRow
  <2>1. RowsPresent
    BY InvParts DEF Tables
  <2> QED
    BY <1>1, <1>2, <1>5, <2>1, Zenon DEF RowsPresent
<1>7. TurnOf(s) \in Turn
  BY <1>2, <1>4 DEF TurnOf, Turn, Pointer
<1> QED
  BY <1>2, <1>3, <1>4, <1>5, <1>6, <1>7

(* One row is added, the other rows of the incident are closed. *)
LEMMA CommitRows ==
  ASSUME Inv, NEW s \in Sessions, CommitTurn(s)
  PROVE  LET inc == session[s].inc
             e == Selected(s)
         IN /\ row' \in [Incidents -> [Employees -> Row]]
            /\ row'[inc][e].key = session[s].key
            /\ row'[inc][e].status = "ASSIGNED"
            /\ \A i \in Incidents \ {inc} : row'[i] = row[i]
            /\ \A f \in Employees \ {e} : row'[inc][f] = Deactivated(row[inc][f])
            /\ \A i \in Incidents, f \in Employees :
                 /\ row[i][f].status # "NONE" => row'[i][f].status # "NONE"
                 /\ row'[i][f].turn = IF i = inc /\ f = e THEN TurnOf(s) ELSE row[i][f].turn
                 /\ row'[i][f].active <=> IF i = inc THEN f = e ELSE row[i][f].active
                 /\ (i # inc \/ f # e) /\ row[i][f] = NoRow => row'[i][f] = NoRow
<1> DEFINE inc == session[s].inc
           e == Selected(s)
           new == [status |-> "ASSIGNED", active |-> TRUE, key |-> session[s].key,
                   turn |-> TurnOf(s)]
<1>1. row' = [row EXCEPT ![inc] = [f \in Employees |->
                IF f = e THEN new ELSE Deactivated(row[inc][f])]]
  BY DEF CommitTurn, TurnOf
<1>2. row \in [Incidents -> [Employees -> Row]] /\ inc \in Incidents /\ e \in Employees
  BY InvParts, CommitContext DEF Tables
<1>3. new \in Row
  BY CommitContext DEF Row, Statuses
<1>4. \A r \in Row : /\ Deactivated(r) \in Row
                     /\ Deactivated(r).active = FALSE
                     /\ Deactivated(r).turn = r.turn
                     /\ r.status # "NONE" => Deactivated(r).status # "NONE"
                     /\ r = NoRow => Deactivated(r) = NoRow
  BY DeactivatedRow
<1>5. new.status = "ASSIGNED" /\ new.active = TRUE /\ new.key = session[s].key
        /\ new.turn = TurnOf(s)
  OBVIOUS
<1> HIDE DEF new, inc, e
<1>6. row' \in [Incidents -> [Employees -> Row]]
  BY <1>1, <1>2, <1>3, <1>4
<1>7. row'[inc][e] = new
  BY <1>1, <1>2
<1>8. \A f \in Employees : f # e => row'[inc][f] = Deactivated(row[inc][f])
  BY <1>1, <1>2
<1>9. \A i \in Incidents : i # inc => row'[i] = row[i]
  BY <1>1, <1>2
<1>10. ASSUME NEW i \in Incidents, NEW f \in Employees
       PROVE  /\ row[i][f].status # "NONE" => row'[i][f].status # "NONE"
              /\ row'[i][f].turn = IF i = inc /\ f = e THEN TurnOf(s) ELSE row[i][f].turn
              /\ row'[i][f].active <=> IF i = inc THEN f = e ELSE row[i][f].active
              /\ (i # inc \/ f # e) /\ row[i][f] = NoRow => row'[i][f] = NoRow
  <2>1. row[i][f] \in Row
    BY <1>2
  <2>2. CASE i = inc /\ f = e
    BY <1>5, <1>7, <2>2
  <2>3. CASE i = inc /\ f # e
    BY <1>4, <1>8, <2>1, <2>3
  <2>4. CASE i # inc
    <3>1. row'[i][f] = row[i][f]
      BY <1>9, <2>4
    <3> QED
      BY <3>1, <2>4
  <2> QED
    BY <2>2, <2>3, <2>4
<1> QED
  BY <1>5, <1>6, <1>7, <1>8, <1>9, <1>10 DEF inc, e

(* The pointer passes exactly the turn that is given out. *)
LEMMA CommitTaken ==
  ASSUME Inv, NEW s \in Sessions, CommitTurn(s)
  PROVE  /\ rotation' = [rotation EXCEPT ![session[s].team] = Advanced(session[s].pointer)]
         /\ rotation' \in [Teams -> Pointer]
         /\ ~ Taken(TurnOf(s))
         /\ \A u \in Turn : Taken(u)' <=> (Taken(u) \/ u = TurnOf(s))
<1> DEFINE t == session[s].team
           p == rotation[t]
<1>1. rotation \in [Teams -> Pointer] /\ t \in Teams /\ session[s].pointer = p /\ p \in Pointer
  BY InvParts, CommitContext DEF Tables
<1>2. rotation' = [rotation EXCEPT ![t] = Advanced(session[s].pointer)]
  BY DEF CommitTurn
<1>3. rotation' \in [Teams -> Pointer]
  BY <1>1, <1>2, AdvancedPointer
<1>4. ~ Taken(TurnOf(s))
  BY <1>1 DEF Taken, TurnOf, Pointer, Seats
<1>5. ASSUME NEW u \in Turn
      PROVE  Taken(u)' <=> (Taken(u) \/ u = TurnOf(s))
  <2>1. CASE u.team # t
    BY <1>1, <1>2, <2>1 DEF Taken, TurnOf, Turn
  <2>2. CASE u.team = t
    <3>1. u = TurnOf(s) <=> (u.cycle = p.cycle /\ u.position = p.position)
      BY <1>1, <2>2 DEF TurnOf, Turn
    <3>2. rotation'[t] = Advanced(p)
      BY <1>1, <1>2
    <3>3. /\ p.cycle \in Nat \ {0} /\ u.cycle \in Nat \ {0}
          /\ p.position \in Nat /\ u.position \in Nat
          /\ 1 <= p.position /\ p.position <= TeamSize
          /\ 1 <= u.position /\ u.position <= TeamSize
      BY <1>1 DEF Pointer, Turn, Seats
    <3>4. CASE p.position < TeamSize
      <4>1. Advanced(p).position = p.position + 1 /\ Advanced(p).cycle = p.cycle
        BY <1>1, <3>4, AdvancedPointer
      <4> HIDE DEF p, t
      <4> QED
        BY <2>2, <3>1, <3>2, <3>3, <4>1 DEF Taken, p
    <3>5. CASE p.position = TeamSize
      <4>1. Advanced(p).position = 1 /\ Advanced(p).cycle = p.cycle + 1
        BY <1>1, <3>5, AdvancedPointer
      <4> HIDE DEF p, t
      <4> QED
        BY <2>2, <3>1, <3>2, <3>3, <3>5, <4>1 DEF Taken, p
    <3> QED
      BY <3>3, <3>4, <3>5
  <2> QED
    BY <2>1, <2>2
<1> QED
  BY <1>2, <1>3, <1>4, <1>5

(* The incident is written column by column. *)
LEMMA CommitIncident ==
  ASSUME Inv, NEW s \in Sessions, CommitTurn(s)
  PROVE  /\ incident' \in [Incidents -> Incident]
         /\ \A i \in Incidents : i # session[s].inc => incident'[i] = incident[i]
         /\ incident'[session[s].inc].owner =
              IF Selected(s) = session[s].loaded.owner
              THEN incident[session[s].inc].owner ELSE Selected(s)
<1> DEFINE inc == session[s].inc
           new == [state |-> "ASSIGNED", owner |-> Selected(s), group |-> session[s].team]
           written == Flushed(incident[inc], session[s].loaded, new)
<1>1. incident' = [incident EXCEPT ![inc] = written]
  BY DEF CommitTurn
<1>2. /\ incident \in [Incidents -> Incident] /\ inc \in Incidents
      /\ session[s].loaded \in Incident
  BY InvParts, CommitContext DEF Tables
<1>3. new \in Incident /\ new.owner = Selected(s)
  BY CommitContext DEF Incident, States
<1>4. /\ written \in Incident
      /\ written.owner = IF new.owner = session[s].loaded.owner
                         THEN incident[inc].owner ELSE new.owner
  BY <1>2, <1>3, FlushedIncident
<1> HIDE DEF inc, written, new
<1> QED
  BY <1>1, <1>2, <1>3, <1>4 DEF inc

(* A commit keeps the part of the tables. *)
LEMMA CommitTables ==
  ASSUME Inv, NEW s \in Sessions, CommitTurn(s)
  PROVE  Tables'
<1> DEFINE inc == session[s].inc
           e == Selected(s)
<1>1. inc \in Incidents /\ e \in Employees /\ row[inc][e] = NoRow /\ TurnOf(s) \in Turn
  BY CommitContext
<1>2. /\ row \in [Incidents -> [Employees -> Row]]
      /\ RowsPresent /\ TurnsTaken /\ TurnsGiven /\ TurnsDistinct /\ OneActiveOwner
  BY InvParts DEF Tables, TurnsOnRecord
<1>3. /\ row'[inc][e].status = "ASSIGNED"
      /\ \A i \in Incidents \ {inc} : row'[i] = row[i]
      /\ \A f \in Employees \ {e} : row'[inc][f] = Deactivated(row[inc][f])
      /\ \A i \in Incidents, f \in Employees : Exists(i, f) => Exists(i, f)'
  BY CommitRows DEF Exists
<1>4. \A i \in Incidents, f \in Employees :
        row'[i][f].turn = IF i = inc /\ f = e THEN TurnOf(s) ELSE row[i][f].turn
  BY CommitRows
<1>5. \A i \in Incidents, f \in Employees :
        row'[i][f].active <=> IF i = inc THEN f = e ELSE row[i][f].active
  BY CommitRows
<1>6. \A i \in Incidents, f \in Employees :
        (row[i][f] = NoRow /\ row'[i][f] # NoRow) => (i = inc /\ f = e)
  BY CommitRows DEF NoRow
<1>7. \A i \in Incidents, f \in Employees : row[i][f].turn \in Turn \cup {None}
  BY <1>2 DEF Row
<1>8. row[inc][e].turn = None
  BY <1>1 DEF NoRow
<1> HIDE DEF inc, e
<1>9. members' \in [Teams -> SUBSET Employees]
  BY InvParts DEF CommitTurn, Tables
<1>10. RowsPresent'
  <2> SUFFICES ASSUME NEW i \in Incidents, NEW f \in Employees
               PROVE  /\ Exists(i, f)' \/ row'[i][f] = NoRow
                      /\ row'[i][f].active <=> row'[i][f].status = "ASSIGNED"
    BY DEF RowsPresent
  <2>1. /\ Exists(i, f) \/ row[i][f] = NoRow
        /\ row[i][f].active <=> row[i][f].status = "ASSIGNED"
        /\ row[i][f] \in Row
    BY <1>2 DEF RowsPresent
  <2>2. Exists(i, f)' \/ row'[i][f] = NoRow
    BY <1>3, <1>6, <2>1 DEF Exists
  <2>3. CASE i = inc /\ f = e
    BY <1>3, <1>5, <2>2, <2>3
  <2>4. CASE i = inc /\ f # e
    <3>1. row'[i][f] = Deactivated(row[i][f])
      BY <1>3, <2>4
    <3>2. Deactivated(row[i][f]).active <=> Deactivated(row[i][f]).status = "ASSIGNED"
      BY <2>1, ClosedStatus
    <3> QED
      BY <2>2, <3>1, <3>2, Zenon
  <2>5. CASE i # inc
    <3>1. row'[i][f] = row[i][f]
      BY <1>3, <2>5
    <3> QED
      BY <2>1, <2>2, <3>1
  <2> QED
    BY <2>3, <2>4, <2>5
<1>11. (\A i \in Incidents : Named(i, incident[i].owner))'
  <2> SUFFICES ASSUME NEW i \in Incidents PROVE Named(i, incident[i].owner)'
    OBVIOUS
  <2>1. Named(i, incident[i].owner)
    BY InvParts DEF Tables
  <2>2. incident'[i].owner = incident[i].owner \/ (i = inc /\ incident'[i].owner = e)
    BY CommitIncident DEF inc, e
  <2> QED
    BY <1>1, <1>3, <2>1, <2>2 DEF Named, Exists
<1>12. TurnsTaken'
  <2> SUFFICES ASSUME NEW i \in Incidents, NEW f \in Employees, row'[i][f].turn # None
               PROVE  Taken(row[i][f].turn)'
    BY DEF TurnsTaken
  <2>1. CASE i = inc /\ f = e
    <3>1. row'[i][f].turn = TurnOf(s)
      BY <1>4, <2>1
    <3>2. \A u \in Turn : u = TurnOf(s) => Taken(u)'
      BY CommitTaken
    <3> QED
      BY <1>1, <3>1, <3>2 DEF Taken
  <2>2. CASE ~ (i = inc /\ f = e)
    <3>1. row'[i][f].turn = row[i][f].turn
      BY <1>4, <2>2
    <3>2. row[i][f].turn \in Turn /\ Taken(row[i][f].turn)
      BY <1>2, <1>7, <3>1 DEF TurnsTaken
    <3>3. \A u \in Turn : Taken(u) => Taken(u)'
      BY CommitTaken
    <3> QED
      BY <3>1, <3>2, <3>3 DEF Taken
  <2> QED
    BY <2>1, <2>2
<1>13. TurnsGiven'
  <2> SUFFICES ASSUME NEW t \in Teams, NEW c \in 1..rotation'[t].cycle, NEW n \in Seats,
                      Taken([team |-> t, cycle |-> c, position |-> n])'
               PROVE  \E i \in Incidents, f \in Employees :
                        row'[i][f].turn = [team |-> t, cycle |-> c, position |-> n]
    BY DEF TurnsGiven
  <2> DEFINE u == [team |-> t, cycle |-> c, position |-> n]
  <2>1. rotation \in [Teams -> Pointer] /\ rotation' \in [Teams -> Pointer]
    BY InvParts, CommitTaken DEF Tables
  <2>2. c \in Nat \ {0} /\ u \in Turn
    BY <2>1 DEF Pointer, Turn
  <2>3. CASE u = TurnOf(s)
    BY <1>1, <1>4, <2>3
  <2>4. CASE u # TurnOf(s)
    <3>1. Taken(u)
      BY <2>2, <2>4, CommitTaken
    <3>2. c \in 1..rotation[t].cycle
      BY <2>1, <2>2, <3>1 DEF Taken, Pointer
    <3>3. PICK i \in Incidents, f \in Employees : row[i][f].turn = u
      BY <1>2, <3>1, <3>2 DEF TurnsGiven
    <3>4. row'[i][f].turn = u
      <4>1. u # None
        BY <2>2
      <4> QED
        BY <1>8, <1>4, <3>3, <4>1
    <3> QED
      BY <3>4
  <2> QED
    BY <2>3, <2>4
<1>14. TurnsDistinct'
  <2>1. \A i \in Incidents, f \in Employees : row[i][f].turn # TurnOf(s) \/ row[i][f].turn = None
    BY <1>2, CommitTaken DEF TurnsTaken
  <2> QED
    BY <1>1, <1>2, <1>4, <2>1, CommitTaken DEF TurnsDistinct
<1>15. OneActiveOwner'
  <2> SUFFICES ASSUME NEW i \in Incidents, NEW f \in Employees, row'[i][f].active
               PROVE  /\ Active(i)' = {f}
                      /\ \/ incident'[i].owner = f
                         \/ f \in Preassigned
                         \/ Replaced(i, incident[i].owner)'
    BY DEF OneActiveOwner, Active
  <2>1. CASE i = inc
    <3>1. f = e /\ Active(i)' = {e}
      BY <1>1, <1>5, <2>1 DEF Active
    <3>2. e = session[s].loaded.owner => e \in Preassigned
      BY <1>1, CommitContext DEF Named, Exists, NoRow, inc, e
    <3> QED
      BY <2>1, <3>1, <3>2, CommitIncident DEF inc, e
  <2>2. CASE i # inc
    <3>1. row[i][f].active /\ Active(i)' = Active(i) /\ row'[i] = row[i]
      BY <1>3, <1>5, <2>2 DEF Active
    <3>2. incident'[i] = incident[i]
      BY <2>2, CommitIncident DEF inc
    <3> QED
      BY <1>2, <3>1, <3>2 DEF OneActiveOwner, Active, Replaced
  <2> QED
    BY <2>1, <2>2
<1> QED
  BY <1>9, <1>10, <1>11, <1>12, <1>13, <1>14, <1>15, CommitRows, CommitTaken, CommitIncident
     DEF Tables, TurnsOnRecord

(* No other session selects for the team whose pointer moves. *)
LEMMA CommitInv ==
  ASSUME Inv, NEW s \in Sessions, CommitTurn(s)
  PROVE  Inv'
<1>1. Close(s)
  BY DEF CommitTurn
<1>2. \A i \in Incidents, e \in Employees : Exists(i, e) => Exists(i, e)'
  BY CommitRows DEF Exists
<1>3. ASSUME NEW o \in Sessions \ {s}, session[o].step = "selecting"
      PROVE  rotation'[session[o].team] = rotation[session[o].team]
  <2>1. teamLock[session[o].team] = o /\ session[o].team \in Teams
    BY <1>3, InvParts DEF Locals, PointerFresh, SessionsKnow
  <2>2. session[o].team # session[s].team
    BY <2>1, CommitContext
  <2> QED
    BY <2>1, <2>2, CommitTaken, InvParts DEF Tables
<1>4. ASSUME NEW o \in Sessions \ {s}, NEW e \in session[o].closed
      PROVE  row'[session[o].inc][e].active
  <2>1. Closing(o, session[o].inc)
    BY <1>4 DEF Closing
  <2>2. session[o].inc # session[s].inc
    BY <2>1 DEF CommitTurn, Blockers
  <2>3. session[o].step # "idle" /\ e \in Active(session[o].inc)
    BY <1>4, InvParts DEF Locals, FoundAndClosed, FoundThere, ClosedAlone
  <2>4. session[o].inc \in Incidents
    BY <2>3, InvParts DEF Locals, SessionsKnow
  <2> QED
    BY <2>2, <2>3, <2>4, CommitRows DEF Active
<1>5. Locals'
  BY <1>1, <1>2, <1>3, <1>4, InvParts, CloseLocals
<1> QED
  BY <1>5, CommitTables, InvParts

-----------------------------------------------------------------------------
(* The other ends of a notice *)

(* An assignment that is there is written into the incident, active or replaced. *)
LEMMA TouchInv ==
  ASSUME Inv, NEW s \in Sessions, session[s].step # "idle",
         NEW e \in Employees, Exists(session[s].inc, e), Touch(s, e)
  PROVE  Inv'
<1> DEFINE i == session[s].inc
           written == Flushed(incident[i], session[s].loaded, Touched(s, e))
<1>1. /\ i \in Incidents /\ session[s].loaded \in Incident
      /\ incident \in [Incidents -> Incident]
  BY InvParts DEF Locals, SessionsKnow, Tables
<1>2. Touched(s, e) \in Incident /\ Touched(s, e).owner = e
  BY <1>1 DEF Touched, Incident, States
<1>3. /\ written \in Incident
      /\ written.owner = incident[i].owner \/ written.owner = e
  BY <1>1, <1>2, FlushedIncident
<1>4. incident' = [incident EXCEPT ![i] = written]
  BY DEF Touch
<1>5. Close(s) /\ UNCHANGED <<members, row, rotation>>
  BY DEF Touch
<1> HIDE DEF written
<1>6. /\ incident' \in [Incidents -> Incident]
      /\ incident'[i].owner = incident[i].owner \/ incident'[i].owner = e
      /\ \A j \in Incidents \ {i} : incident'[j] = incident[j]
  BY <1>1, <1>3, <1>4
<1>7. Exists(i, e) /\ i = session[s].inc
  OBVIOUS
<1> HIDE DEF i
<1>8. (\A j \in Incidents : Named(j, incident[j].owner))'
  <2> SUFFICES ASSUME NEW j \in Incidents PROVE Named(j, incident[j].owner)'
    OBVIOUS
  <2>1. Named(j, incident[j].owner)
    BY InvParts DEF Tables
  <2>2. incident'[j].owner = incident[j].owner \/ (j = i /\ incident'[j].owner = e)
    BY <1>6
  <2> QED
    BY <1>5, <1>7, <2>1, <2>2 DEF Named, Exists
<1>9. OneActiveOwner'
  <2> SUFFICES ASSUME NEW j \in Incidents, NEW f \in Employees, row'[j][f].active
               PROVE  /\ Active(j)' = {f}
                      /\ \/ incident'[j].owner = f
                         \/ f \in Preassigned
                         \/ Replaced(j, incident[j].owner)'
    BY DEF OneActiveOwner, Active
  <2>0. row' = row /\ Active(j)' = Active(j) /\ row[j][f].active
    BY <1>5 DEF Active
  <2>1. /\ Active(j) = {f}
        /\ \/ incident[j].owner = f
           \/ f \in Preassigned
           \/ Replaced(j, incident[j].owner)
    BY <2>0, InvParts DEF Tables, OneActiveOwner, Active
  <2>2. CASE incident'[j].owner = incident[j].owner
    BY <2>0, <2>1, <2>2 DEF Replaced
  <2>3. CASE j = i /\ incident'[j].owner = e /\ e # f
    <3>1. ~ row[j][e].active /\ row[j][e].status # "NONE"
      BY <1>7, <2>1, <2>3 DEF Active, Exists
    <3>2. row[j][e].status = "REASSIGNED"
      <4>1. /\ row[j][e] \in Row
            /\ row[j][e].active <=> row[j][e].status = "ASSIGNED"
        BY InvParts DEF Tables, RowsPresent
      <4> QED
        BY <3>1, <4>1, FormerRow
    <3> QED
      BY <2>0, <2>1, <2>3, <3>2 DEF Replaced
  <2> QED
    BY <1>6, <2>0, <2>1, <2>2, <2>3
<1>10. RowsPresent' /\ TurnsOnRecord'
  BY <1>5, InvParts DEF Tables, RowsPresent, Exists, TurnsOnRecord, TurnsTaken, TurnsGiven,
     Taken, TurnsDistinct
<1>11. Tables'
  BY <1>5, <1>6, <1>8, <1>9, <1>10, InvParts DEF Tables
<1>12. \A j \in Incidents, f \in Employees : Exists(j, f) => Exists(j, f)'
  BY <1>5 DEF Exists
<1>13. \A o \in Sessions \ {s} : \A f \in session[o].closed : row'[session[o].inc][f].active
  BY <1>5, InvParts DEF Locals, FoundAndClosed, FoundThere, ClosedAlone, Active
<1>14. Locals'
  BY <1>5, <1>12, <1>13, InvParts, CloseLocals
<1> QED
  BY <1>11, <1>14, InvParts

(* What a refused notice has closed stays closed, and nothing else changes. *)
LEMMA RejectInv ==
  ASSUME Inv, NEW s \in Sessions, RejectTeam(s)
  PROVE  Inv'
<1> DEFINE i == session[s].inc
           C == session[s].closed
<1>1. /\ i \in Incidents /\ row \in [Incidents -> [Employees -> Row]] /\ RowsPresent
      /\ TurnsOnRecord /\ OneActiveOwner
  BY InvParts DEF RejectTeam, Locals, SessionsKnow, Tables
<1>2. /\ row' = [row EXCEPT ![i] = [e \in Employees |->
                   IF e \in C THEN Deactivated(row[i][e]) ELSE row[i][e]]]
      /\ Close(s) /\ UNCHANGED <<members, incident, rotation>>
  BY DEF RejectTeam
<1>3. C # {} => \A o \in Sessions \ {s} : ~ Closing(o, i)
  BY InvParts DEF Locals, FoundAndClosed, ClosedAlone
<1> HIDE DEF i, C
<1>4. /\ row' \in [Incidents -> [Employees -> Row]]
      /\ \A j \in Incidents \ {i} : row'[j] = row[j]
      /\ \A e \in Employees :
           row'[i][e] = IF e \in C THEN Deactivated(row[i][e]) ELSE row[i][e]
  <2>1. \A e \in Employees : row[i][e] \in Row /\ Deactivated(row[i][e]) \in Row
    <3>1. \A r \in Row : Deactivated(r) \in Row
      BY DeactivatedRow
    <3> QED
      BY <1>1, <3>1
  <2> DEFINE new == [e \in Employees |-> IF e \in C THEN Deactivated(row[i][e]) ELSE row[i][e]]
  <2>2. new \in [Employees -> Row]
    BY <2>1
  <2>3. \A e \in Employees : new[e] = IF e \in C THEN Deactivated(row[i][e]) ELSE row[i][e]
    OBVIOUS
  <2>4. row' = [row EXCEPT ![i] = new]
    BY <1>2
  <2> HIDE DEF new
  <2>5. row'[i] = new
    BY <1>1, <2>4
  <2> QED
    BY <1>1, <2>2, <2>3, <2>4, <2>5
<1>5. ASSUME NEW j \in Incidents, NEW e \in Employees
      PROVE  /\ Exists(j, e) => Exists(j, e)'
             /\ Exists(j, e)' \/ row'[j][e] = NoRow
             /\ row'[j][e].active <=> row'[j][e].status = "ASSIGNED"
             /\ row'[j][e].turn = row[j][e].turn
             /\ row'[j][e].active => row[j][e].active
             /\ row[j][e].status = "REASSIGNED" => row'[j][e].status = "REASSIGNED"
  <2>1. /\ row[j][e] \in Row
        /\ Exists(j, e) \/ row[j][e] = NoRow
        /\ row[j][e].active <=> row[j][e].status = "ASSIGNED"
    BY <1>1 DEF RowsPresent
  <2>2. \/ row'[j][e] = row[j][e]
        \/ row'[j][e] = Deactivated(row[j][e])
    BY <1>4
  <2>3. CASE row'[j][e] = row[j][e]
    <3>1. Exists(j, e)' <=> Exists(j, e)
      BY <2>3 DEF Exists
    <3>2. row'[j][e].active <=> row'[j][e].status = "ASSIGNED"
      BY <2>1, <2>3, Zenon
    <3> QED
      BY <2>1, <2>3, <3>1, <3>2
  <2>4. CASE row'[j][e] = Deactivated(row[j][e])
    <3> DEFINE r == row[j][e]
               n == Deactivated(r)
    <3>1. /\ n.active = FALSE /\ n.turn = r.turn
          /\ r.status # "NONE" => n.status # "NONE"
          /\ r.status = "REASSIGNED" => n.status = "REASSIGNED"
          /\ r = NoRow => n = NoRow
      BY <2>1, DeactivatedRow
    <3>2. n.active <=> n.status = "ASSIGNED"
      BY <2>1, ClosedStatus
    <3>3. row'[j][e] = n /\ row[j][e] = r
      BY <2>4
    <3> HIDE DEF r, n
    <3> QED
      BY <2>1, <3>1, <3>2, <3>3, Zenon DEF Exists
  <2> QED
    BY <2>2, <2>3, <2>4
<1>6. RowsPresent'
  BY <1>5 DEF RowsPresent
<1>7. (\A j \in Incidents : Named(j, incident[j].owner))'
  BY <1>2, <1>5, InvParts DEF Tables, Named
<1>8. TurnsOnRecord'
  <2>1. \A j \in Incidents, e \in Employees : row'[j][e].turn = row[j][e].turn
    BY <1>5
  <2>2. TurnsTaken /\ TurnsGiven /\ TurnsDistinct
    BY <1>1 DEF TurnsOnRecord
  <2>3. TurnsTaken'
    BY <1>2, <2>1, <2>2 DEF TurnsTaken, Taken
  <2>4. TurnsGiven'
    BY <1>2, <2>1, <2>2 DEF TurnsGiven, Taken
  <2>5. TurnsDistinct'
    BY <2>1, <2>2 DEF TurnsDistinct
  <2> QED
    BY <2>3, <2>4, <2>5 DEF TurnsOnRecord
<1>9. OneActiveOwner'
  <2> SUFFICES ASSUME NEW j \in Incidents, NEW f \in Employees, row'[j][f].active
               PROVE  /\ Active(j)' = {f}
                      /\ \/ incident'[j].owner = f
                         \/ f \in Preassigned
                         \/ Replaced(j, incident[j].owner)'
    BY DEF OneActiveOwner, Active
  <2>1. f \in Active(j)
    BY <1>5 DEF Active
  <2>2. Active(j)' = {f}
    <3>1. Active(j) = {f}
      BY <1>1, <2>1 DEF OneActiveOwner
    <3>2. Active(j)' \subseteq Active(j)
      BY <1>5 DEF Active
    <3>3. f \in Active(j)'
      BY DEF Active
    <3> QED
      BY <3>1, <3>2, <3>3
  <2>3. Replaced(j, incident[j].owner) => Replaced(j, incident[j].owner)'
    <3>1. incident' = incident
      BY <1>2
    <3>2. \A e \in Employees :
            row[j][e].status = "REASSIGNED" => row'[j][e].status = "REASSIGNED"
      BY <1>5
    <3> QED
      BY <3>1, <3>2 DEF Replaced
  <2> QED
    BY <1>1, <1>2, <2>1, <2>2, <2>3 DEF OneActiveOwner
<1>10. Tables'
  BY <1>2, <1>4, <1>6, <1>7, <1>8, <1>9, InvParts DEF Tables
<1>11. ASSUME NEW o \in Sessions \ {s}, NEW e \in session[o].closed
       PROVE  row'[session[o].inc][e].active
  <2>1. session[o].step # "idle" /\ e \in Active(session[o].inc)
    BY <1>11, InvParts DEF Locals, FoundAndClosed, FoundThere, ClosedAlone
  <2>2. session[o].inc \in Incidents
    BY <2>1, InvParts DEF Locals, SessionsKnow
  <2>3. session[o].inc # i \/ C = {}
    BY <1>3, <1>11 DEF Closing
  <2> QED
    BY <1>4, <2>1, <2>2, <2>3 DEF Active
<1>12. Locals'
  BY <1>2, <1>5, <1>11, InvParts, CloseLocals
<1> QED
  BY <1>10, <1>12, InvParts

-----------------------------------------------------------------------------
(* The invariant *)

(* Every step of the module preserves the invariant. *)
LEMMA StepInv == Inv /\ NoticedOnce /\ [Next]_vars => Inv'
<1> SUFFICES ASSUME Inv, NoticedOnce, [Next]_vars PROVE Inv'
  OBVIOUS
<1>1. CASE UNCHANGED vars
  BY <1>1, InvParts, TablesUnchanged, LocalsUnchanged DEF vars
<1>2. ASSUME NEW s \in Sessions, NEW i \in Incidents, NEW t \in Teams, NEW k \in Keys,
             Call(s, i, t, k)
      PROVE  Inv'
  BY <1>2, CallInv
<1>3. ASSUME NEW s \in Sessions, Work(s)
      PROVE  Inv'
  <2>1. CASE Notify(s)
    BY <2>1, NotifyInv
  <2>2. CASE LockIncident(s)
    BY <2>2, LockIncidentInv
  <2>3. CASE LockTeam(s)
    BY <2>3, LockTeamInv
  <2>4. CASE ReturnActive(s) \/ TurnConflict(s) \/ Abort(s)
    BY <2>4, RollbackInv DEF ReturnActive, TurnConflict, Abort
  <2>5. CASE CommitTurn(s)
    BY <2>5, CommitInv
  <2>6. CASE FindNobody(s) \/ \E e \in Employees, force \in BOOLEAN : Find(s, e, force)
    BY <2>6, FindInv
  <2>7. CASE Clear(s)
    BY <2>7, ClearInv
  <2>8. CASE RejectTeam(s)
    BY <2>8, RejectInv
  <2>9. CASE KeepFound(s)
    <3>1. session[s].step = "touching" /\ Touch(s, session[s].found)
      BY <2>9 DEF KeepFound
    <3>2. session[s].found \in Employees /\ Exists(session[s].inc, session[s].found)
      BY <3>1, InvParts DEF Locals, FoundAndClosed, FoundThere, ClosedAlone
    <3> QED
      BY <3>1, <3>2, TouchInv
  <2>10. CASE ReturnExisting(s)
    <3>1. PICK e \in Answering(s) : Touch(s, e)
      BY <2>10 DEF ReturnExisting
    <3>2. session[s].step = "selecting" /\ session[s].inc \in Incidents
      BY <2>10, InvParts DEF ReturnExisting, Locals, SessionsKnow
    <3>3. e \in Employees /\ Exists(session[s].inc, e)
      BY <3>1, <3>2, InvParts DEF Answering, Active, Tables, RowsPresent, Exists
    <3> QED
      BY <3>1, <3>2, <3>3, TouchInv
  <2> QED
    BY <1>3, <2>1, <2>2, <2>3, <2>4, <2>5, <2>6, <2>7, <2>8, <2>9, <2>10 DEF Work
<1>4. ASSUME NEW s \in Sessions, Die(s)
      PROVE  Inv'
  BY <1>4, RollbackInv DEF Die
<1>5. ASSUME NEW e \in Employees, NEW t \in Teams, Join(e, t) \/ Leave(e, t)
      PROVE  Inv'
  <2>1. members' \in [Teams -> SUBSET Employees]
    BY <1>5, InvParts DEF Join, Leave, Tables
  <2>2. UNCHANGED <<incident, row, rotation, incidentLock, teamLock, session>>
    BY <1>5 DEF Join, Leave
  <2> QED
    BY <2>1, <2>2, InvParts, MembershipTables, LocalsUnchanged
<1> QED
  BY <1>1, <1>2, <1>3, <1>4, <1>5 DEF Next

(* A session that goes on keeps the promise, if its new state does. *)
LEMMA NoticedStep == Inv /\ NoticedOnce /\ [Next]_vars => NoticedOnce'
<1> SUFFICES ASSUME Inv, NoticedOnce, [Next]_vars PROVE NoticedOnce'
  OBVIOUS
<1> DEFINE Kept(x) == /\ x.step \in {"looking", "clearing", "touching", "gathering", "selecting"} =>
                           x.noticed # None
                      /\ x.step = "noticing" => x.noticed = None
<1>1. session \in [Sessions -> Session]
  BY DEF Inv, TypeOK
<1>2. ASSUME NEW s \in Sessions, NEW x, session' = [session EXCEPT ![s] = x], Kept(x)
      PROVE  NoticedOnce'
  BY <1>1, <1>2 DEF NoticedOnce
<1>3. ASSUME NEW s \in Sessions, Close(s) PROVE NoticedOnce'
  BY <1>2, <1>3 DEF Close, Idle
<1>4. ASSUME NEW s \in Sessions, NEW i \in Incidents, NEW t \in Teams, NEW k \in Keys,
             Call(s, i, t, k)
      PROVE  NoticedOnce'
  <2>1. PICK first \in {"noticing", "locking"} :
          session' = [session EXCEPT ![s] =
            [Idle EXCEPT !.step = first, !.inc = i, !.team = t, !.key = k, !.loaded = incident[i]]]
    BY <1>4 DEF Call
  <2> QED
    BY <1>2, <2>1 DEF Idle
<1>5. ASSUME NEW s \in Sessions, Notify(s) PROVE NoticedOnce'
  <2>1. session[s].team \in Teams /\ members \in [Teams -> SUBSET Employees]
    BY <1>5 DEF Notify, Inv, TypeOK, SessionsKnow
  <2>2. PICK step \in {"gathering", "looking"} :
          session' = [session EXCEPT ![s].noticed = members[session[s].team], ![s].step = step]
    BY <1>5 DEF Notify
  <2>3. members[session[s].team] # None
    BY <2>1, NullNoticesAssumption
  <2> DEFINE x == [session[s] EXCEPT !.noticed = members[session[s].team], !.step = step]
  <2>4. session' = [session EXCEPT ![s] = x]
    BY <1>1, <2>2 DEF Session
  <2>5. x.noticed # None /\ x.step # "noticing"
    BY <1>1, <2>3 DEF Session
  <2> QED
    BY <1>2, <2>4, <2>5
<1>6. ASSUME NEW s \in Sessions, LockIncident(s) PROVE NoticedOnce'
  <2> DEFINE x == [session[s] EXCEPT !.step =
                     IF session[s].noticed = None THEN "noticing" ELSE "gathering"]
  <2>1. session' = [session EXCEPT ![s] = x]
    BY <1>1, <1>6 DEF LockIncident, Session
  <2>2. Kept(x)
    BY <1>1 DEF Session
  <2> QED
    BY <1>2, <2>1, <2>2
<1>7. ASSUME NEW s \in Sessions, LockTeam(s) PROVE NoticedOnce'
  <2>1. PICK r, p : session' = [session EXCEPT ![s].step = "selecting", ![s].roster = r, ![s].pointer = p]
    BY <1>7 DEF LockTeam
  <2> DEFINE x == [session[s] EXCEPT !.step = "selecting", !.roster = r, !.pointer = p]
  <2>2. session' = [session EXCEPT ![s] = x]
    BY <1>1, <2>1 DEF Session
  <2>3. x.step = "selecting" /\ x.noticed = session[s].noticed
    BY <1>1 DEF Session
  <2>4. session[s].noticed # None
    BY <1>7 DEF LockTeam, NoticedOnce
  <2> QED
    BY <1>2, <2>2, <2>3, <2>4
<1>8. ASSUME NEW s \in Sessions, FindNobody(s) PROVE NoticedOnce'
  <2> DEFINE x == [session[s] EXCEPT !.step = "locking"]
  <2>1. session' = [session EXCEPT ![s] = x]
    BY <1>1, <1>8 DEF FindNobody, Session
  <2>2. x.step = "locking"
    BY <1>1 DEF Session
  <2> QED
    BY <1>2, <2>1, <2>2
<1>9. ASSUME NEW s \in Sessions, NEW e \in Employees, NEW force \in BOOLEAN, Find(s, e, force)
      PROVE  NoticedOnce'
  <2>1. PICK step \in {"clearing", "touching"} :
          session' = [session EXCEPT ![s].found = e, ![s].step = step]
    BY <1>9 DEF Find
  <2> DEFINE x == [session[s] EXCEPT !.found = e, !.step = step]
  <2>2. session' = [session EXCEPT ![s] = x]
    BY <1>1, <2>1 DEF Session
  <2>3. x.step # "noticing" /\ x.noticed = session[s].noticed
    BY <1>1 DEF Session
  <2>4. session[s].noticed # None
    BY <1>9 DEF Find, NoticedOnce
  <2> QED
    BY <1>2, <2>2, <2>3, <2>4
<1>10. ASSUME NEW s \in Sessions, Clear(s) PROVE NoticedOnce'
  <2>1. PICK C : session' = [session EXCEPT ![s].closed = C, ![s].found = None, ![s].step = "locking"]
    BY <1>10 DEF Clear
  <2> DEFINE x == [session[s] EXCEPT !.closed = C, !.found = None, !.step = "locking"]
  <2>2. session' = [session EXCEPT ![s] = x]
    BY <1>1, <2>1 DEF Session
  <2>3. x.step = "locking"
    BY <1>1 DEF Session
  <2> QED
    BY <1>2, <2>2, <2>3
<1>11. UNCHANGED session => NoticedOnce'
  BY DEF NoticedOnce
<1> QED
  BY <1>3, <1>4, <1>5, <1>6, <1>7, <1>8, <1>9, <1>10, <1>11
     DEF Next, vars, Work, Die, ReturnActive, RejectTeam, KeepFound, ReturnExisting, Touch,
         CommitTurn, TurnConflict, Abort, Rollback, Join, Leave

(* Inv holds in every reachable state. *)
THEOREM Invariant == Spec => [](Inv /\ NoticedOnce)
<1>1. Init => NoticedOnce
  BY DEF Init, NoticedOnce, Idle
<1> QED
  BY <1>1, InitInv, StepInv, NoticedStep, PTL DEF Spec

(* Every variable keeps its type: no step corrupts a table or a session. *)
THEOREM TypeCorrect == Spec => []TypeOK
<1>1. Inv => TypeOK
  BY DEF Inv
<1> QED
  BY <1>1, Invariant, PTL

(***************************************************************************)
(* Pointer and assignments agree for any number of concurrent dispatches   *)
(* and at every crash.                                                     *)
(***************************************************************************)
THEOREM RotationExact == Spec => []TurnsOnRecord
<1>1. Inv => TurnsOnRecord
  BY DEF Inv
<1> QED
  BY <1>1, Invariant, PTL

(* However dispatches overlap, no turn is given out twice. *)
THEOREM TurnsUnique == Spec => []TurnsDistinct
<1>1. Inv => TurnsDistinct
  BY DEF Inv, TurnsOnRecord
<1> QED
  BY <1>1, Invariant, PTL

(***************************************************************************)
(* An incident never has two active assignments, nor another's name, but   *)
(* for one that ServiceNow gave or a former holder's.                      *)
(***************************************************************************)
THEOREM SingleOwner == Spec => []OneActiveOwner
<1>1. Inv => OneActiveOwner
  BY DEF Inv
<1> QED
  BY <1>1, Invariant, PTL

-----------------------------------------------------------------------------
(* Deadlocks *)

(* In a circle everybody is waited for by somebody, and no smaller one is in it. *)
LEMMA CircleOfWaits ==
  ASSUME NEW waits, NEW s, Deadlocked(waits, s)
  PROVE  \E C \in SUBSET DOMAIN waits :
           /\ s \in C
           /\ \A c \in C : waits[c] \cap C # {} /\ \E d \in C : c \in waits[d]
           /\ \A D \in SUBSET C : Knot(waits, D) => D = C
<1>1. PICK C \in SUBSET DOMAIN waits :
        s \in C /\ Knot(waits, C) /\ \A D \in SUBSET C : Knot(waits, D) => D = C
  BY DEF Deadlocked
<1>2. ASSUME NEW c \in C, \A d \in C : c \notin waits[d] PROVE FALSE
  <2>1. waits[c] \cap C # {}
    BY <1>1 DEF Knot
  <2>2. C \ {c} # {} /\ \A d \in C \ {c} : waits[d] \cap (C \ {c}) # {}
    BY <1>1, <1>2, <2>1 DEF Knot
  <2>3. Knot(waits, C \ {c}) /\ C \ {c} \in SUBSET C
    BY <2>2 DEF Knot
  <2> QED
    BY <1>1, <2>3
<1>3. \A c \in C : waits[c] \cap C # {} /\ \E d \in C : c \in waits[d]
  BY <1>1, <1>2 DEF Knot
<1> QED
  BY <1>1, <1>3

(* Whom a session waits for. *)
LEMMA Waiting ==
  ASSUME NEW s \in Sessions, NEW o \in Blockers(s)
  PROVE  /\ o \in Sessions \ {s}
         /\ \/ /\ session[s].step \in {"noticing", "locking", "touching"}
               /\ incidentLock[session[s].inc] = o
            \/ /\ session[s].step \in {"noticing", "gathering"}
               /\ teamLock[session[s].team] = o
            \/ session[s].step \in {"locking", "gathering"} /\ Shares(o) # {}
            \/ session[s].step \in {"clearing", "selecting"} /\ Closing(o, session[s].inc)
  BY DEF Blockers

(* Who holds the team waits only for a notice that has closed an assignment *)
(* of his incident, and that one waits for the incident.                    *)
LEMMA HoldersRunOn ==
  ASSUME Inv, NEW s \in Sessions, NEW t \in Teams, teamLock[t] = s
  PROVE  /\ OwnWaits[s] = {}
         /\ session[s].step = "selecting"
         /\ \A q \in Blockers(s) : session[q].step = "locking" /\ s \in Blockers(q)
<1>1. session[s].step = "selecting"
  BY DEF Inv, LocksInUse
<1>2. OwnWaits[s] = {}
  BY <1>1 DEF OwnWaits
<1>3. ASSUME NEW q \in Blockers(s)
      PROVE  session[q].step = "locking" /\ s \in Blockers(q)
  <2>1. q \in Sessions \ {s} /\ Closing(q, session[s].inc)
    BY <1>1, <1>3, Waiting
  <2>2. incidentLock[session[s].inc] = s
    BY <1>1 DEF Inv, PointerFresh
  <2>3. session[q].inc = session[s].inc /\ session[q].closed # {}
    BY <2>1 DEF Closing
  <2>4. session[q].step \in {"locking", "gathering", "selecting"}
    BY <2>1, <2>3 DEF Inv, FoundAndClosed, FoundThere, ClosedAlone
  <2>5. session[q].step = "locking"
    BY <2>1, <2>2, <2>3, <2>4 DEF Inv, PointerFresh
  <2> QED
    BY <2>1, <2>2, <2>3, <2>5 DEF Blockers
<1> QED
  BY <1>1, <1>2, <1>3

LEMMA OwnWaitsKnots == Inv => \A s \in Sessions : ~ Deadlocked(OwnWaits, s)
<1> SUFFICES ASSUME Inv, NEW s \in Sessions, Deadlocked(OwnWaits, s) PROVE FALSE
  OBVIOUS
<1>1. DOMAIN OwnWaits = Sessions
  BY DEF OwnWaits
<1>2. PICK C \in SUBSET Sessions :
        /\ s \in C
        /\ \A c \in C : OwnWaits[c] \cap C # {} /\ \E d \in C : c \in OwnWaits[d]
  BY <1>1, CircleOfWaits
<1>3. ASSUME NEW c \in C, NEW d \in C, d \in OwnWaits[c]
      PROVE  /\ session[c].step \in {"noticing", "locking", "touching"}
             /\ incidentLock[session[c].inc] = d /\ c # d
  <2>1. session[c].step # "idle"
    BY <1>3 DEF OwnWaits
  <2>2. session[c].team \in Teams
    BY <2>1 DEF Inv, SessionsKnow
  <2>3. teamLock[session[c].team] # d
    <3>1. d \in Sessions /\ OwnWaits[d] # {}
      BY <1>2
    <3> QED
      BY <2>2, <3>1, HoldersRunOn
  <2>4. OwnWaits[c] \subseteq {o \in Sessions \ {c} : \/ incidentLock[session[c].inc] = o
                                                    \/ teamLock[session[c].team] = o}
    BY DEF OwnWaits
  <2>5. incidentLock[session[c].inc] = d /\ c # d
    BY <1>3, <2>3, <2>4
  <2>6. session[c].step \in {"noticing", "locking", "touching"}
    BY <1>3, <2>3 DEF OwnWaits
  <2> QED
    BY <2>5, <2>6
<1>4. PICK d \in C : s \in OwnWaits[d]
  BY <1>2
<1>5. incidentLock[session[d].inc] = s /\ session[d].step # "idle"
  BY <1>2, <1>3, <1>4
<1>6. session[d].inc \in Incidents
  BY <1>5 DEF Inv, SessionsKnow
<1>7. session[s].inc = session[d].inc
  BY <1>5, <1>6 DEF Inv, LocksInUse
<1>8. PICK c \in C : c \in OwnWaits[s]
  BY <1>2
<1>9. incidentLock[session[s].inc] = c /\ s # c
  BY <1>2, <1>3, <1>8
<1> QED
  BY <1>5, <1>7, <1>9

(***************************************************************************)
(* Nobody waits for a session that has inserted no notices, but for one    *)
(* that holds the incident and is about to insert them; that one waits for *)
(* the team's holder alone, who runs on, or makes a smaller circle with a  *)
(* notice that has closed his incident's assignment.                       *)
(***************************************************************************)
LEMMA VictimsNoticed ==
  ASSUME Inv, NoticedOnce, NEW s \in Sessions, Deadlocked(Waits, s)
  PROVE  session[s].noticed # None
<1>1. DOMAIN Waits = Sessions /\ \A c \in Sessions : Waits[c] = Blockers(c)
  BY DEF Waits
<1>2. PICK C \in SUBSET Sessions :
        /\ s \in C
        /\ \A c \in C : Blockers(c) \cap C # {} /\ \E d \in C : c \in Blockers(d)
        /\ \A D \in SUBSET C : Knot(Waits, D) => D = C
  BY <1>1, CircleOfWaits
<1>3. ASSUME NEW c \in C PROVE session[c].team \in Teams /\ session[c].inc \in Incidents
  <2>1. PICK o : o \in Blockers(c)
    BY <1>2
  <2>2. session[c].step # "idle"
    BY <2>1, Waiting
  <2> QED
    BY <2>2 DEF Inv, SessionsKnow
<1> SUFFICES ASSUME session[s].noticed = None PROVE FALSE
  OBVIOUS
<1>4. \A t \in Teams : teamLock[t] # s
  BY <1>2, HoldersRunOn DEF NoticedOnce
<1>5. PICK d \in C : s \in Blockers(d)
  BY <1>2
<1>6. Shares(s) = {} /\ \A i : ~ Closing(s, i)
  BY <1>2 DEF Shares, Closing, Inv, FoundAndClosed, ClosedAlone
<1>7. incidentLock[session[d].inc] = s
  <2>1. teamLock[session[d].team] # s
    BY <1>3, <1>4
  <2> QED
    BY <1>5, <1>6, <2>1, Waiting
<1>8. session[s].step \in {"noticing", "gathering", "selecting"} /\ session[s].inc = session[d].inc
  BY <1>2, <1>3, <1>7 DEF Inv, LocksInUse
<1>9. PICK o \in C : o \in Blockers(s)
  BY <1>2
<1>10. session[s].step = "noticing"
  BY <1>2, <1>8 DEF NoticedOnce
<1>11. incidentLock[session[s].inc] = o \/ teamLock[session[s].team] = o
  BY <1>9, <1>10, Waiting
<1>12. teamLock[session[s].team] = o /\ o # s
  BY <1>7, <1>8, <1>9, <1>11, Waiting
<1>13. PICK q \in C : q \in Blockers(o)
  BY <1>2
<1>14. /\ session[o].step = "selecting"
       /\ session[q].step = "locking" /\ o \in Blockers(q)
  <2>1. o \in Sessions /\ session[s].team \in Teams /\ teamLock[session[s].team] = o
    BY <1>2, <1>3, <1>12
  <2> QED
    BY <1>13, <2>1, HoldersRunOn
<1>15. Knot(Waits, {o, q}) /\ {o, q} \in SUBSET C
  BY <1>1, <1>13, <1>14 DEF Knot
<1> QED
  BY <1>2, <1>10, <1>14, <1>15

(***************************************************************************)
(* The incident before the team: this order of the rotation's locks never  *)
(* makes a circle, for any number of sessions.  Who is thrown out has      *)
(* inserted notices before, and only the locks they take close a circle.   *)
(***************************************************************************)
THEOREM OrderedLocks == Spec => []OnlyNoticesCollide
<1>1. Inv /\ NoticedOnce => OnlyNoticesCollide
  BY OwnWaitsKnots, VictimsNoticed DEF OnlyNoticesCollide
<1> QED
  BY <1>1, Invariant, PTL

-----------------------------------------------------------------------------
(* What a step may never do *)

(* Only the commit of a turn moves a pointer or opens an assignment. *)
LEMMA OnlyCommitsWrite ==
  ASSUME Inv, [Next]_vars
  PROVE  \/ /\ UNCHANGED rotation
            /\ \A i \in Incidents, e \in Employees : row'[i][e].active => row[i][e].active
         \/ \E s \in Sessions : CommitTurn(s)
<1>1. \/ UNCHANGED <<row, rotation>>
      \/ \E s \in Sessions : RejectTeam(s) \/ CommitTurn(s)
  BY DEF Next, vars, Call, Work, Notify, FindNobody, Find, Clear, LockIncident, ReturnActive,
         LockTeam, KeepFound, ReturnExisting, Touch, TurnConflict, Abort, Die, Rollback,
         Join, Leave
<1>2. ASSUME NEW s \in Sessions, RejectTeam(s)
      PROVE  /\ UNCHANGED rotation
             /\ \A i \in Incidents, e \in Employees : row'[i][e].active => row[i][e].active
  <2>1. row \in [Incidents -> [Employees -> Row]]
    BY DEF Inv, TypeOK
  <2>2. \A r \in Row : Deactivated(r).active = FALSE
    BY DeactivatedRow
  <2> QED
    BY <1>2, <2>1, <2>2 DEF RejectTeam
<1> QED
  BY <1>1, <1>2

(***************************************************************************)
(* An active assignment under the same key is replaced only by a notice    *)
(* that has closed it itself: nobody else's repetition takes a turn.       *)
(***************************************************************************)
THEOREM KeyOnce == Spec => KeyTakesOneTurn
<1>1. ASSUME Inv, [Next]_vars,
             NEW i \in Incidents, NEW e \in Employees, NEW f \in Employees,
             row[i][e].active, ~ row[i][f].active, row'[i][f].active,
             row'[i][f].key = row[i][e].key
      PROVE  \E s \in Sessions :
               session[s].inc = i /\ e \in session[s].closed /\ CommitTurn(s)
  <2>1. PICK s \in Sessions : CommitTurn(s)
    BY <1>1, OnlyCommitsWrite
  <2>2. i = session[s].inc /\ f = Selected(s)
    BY <1>1, <2>1, CommitRows
  <2>3. row[i][e].key = session[s].key
    BY <1>1, <2>1, <2>2, CommitRows
  <2>4. e \in session[s].closed
    BY <1>1, <2>1, <2>2, <2>3 DEF CommitTurn, Answering, Active
  <2> QED
    BY <2>1, <2>2, <2>4
<1>2. Inv /\ [Next]_vars =>
        [\A i \in Incidents : \A e, f \in Employees :
           (/\ row[i][e].active /\ ~ row[i][f].active /\ row'[i][f].active
            /\ row'[i][f].key = row[i][e].key)
              => \E s \in Sessions :
                   session[s].inc = i /\ e \in session[s].closed /\ CommitTurn(s)]_vars
  BY <1>1
<1> QED
  BY <1>2, Invariant, PTL DEF Spec, KeyTakesOneTurn

-----------------------------------------------------------------------------
(* The rotation implements FairRota *)

(* A commit serves the seat under the pointer, which is the next in turn. *)
LEMMA CommitServes ==
  ASSUME Inv, NEW s \in Sessions, CommitTurn(s)
  PROVE  Rota!TakeTurn(session[s].team, session[s].pointer.position)
<1> DEFINE t == session[s].team
           p == rotation[t]
           k == p.position
<1>1. /\ rotation \in [Teams -> Pointer] /\ t \in Teams /\ session[s].pointer = p
      /\ p \in Pointer /\ k \in Seats
  BY InvParts, CommitContext DEF Tables, Pointer
<1>2. rotation' = [rotation EXCEPT ![t] = Advanced(p)]
  BY <1>1, CommitTaken
<1>3. /\ p.cycle \in Nat \ {0} /\ k \in Nat /\ 1 <= k /\ k <= TeamSize
      /\ Served[t] = [n \in Seats |-> IF n < k THEN p.cycle ELSE p.cycle - 1]
  <2>1. p.cycle \in Nat \ {0} /\ k \in Nat /\ 1 <= k /\ k <= TeamSize
    BY <1>1 DEF Pointer, Seats
  <2>2. Served[t] = [n \in Seats |-> IF n < k THEN p.cycle ELSE p.cycle - 1]
    BY <1>1 DEF Served
  <2> QED
    BY <2>1, <2>2
<1>4. \A m \in Seats : Served[t][k] <= Served[t][m]
  BY <1>1, <1>3 DEF Seats
<1>5. \A m \in 1..(k - 1) : Served[t][k] < Served[t][m]
  BY <1>1, <1>3 DEF Seats
<1>6. Served' = [Served EXCEPT ![t][k] = @ + 1]
  <2> HIDE DEF t
  <2>1. \A u \in Teams : u # t => Served'[u] = Served[u]
    BY <1>1, <1>2 DEF Served
  <2>2. Served'[t] = [n \in Seats |-> IF n < Advanced(p).position
                                       THEN Advanced(p).cycle ELSE Advanced(p).cycle - 1]
    BY <1>1, <1>2 DEF Served
  <2>3. \A n \in Seats : Served'[t][n] = IF n = k THEN Served[t][n] + 1 ELSE Served[t][n]
    <3>1. CASE k < TeamSize
      <4>1. Advanced(p).position = k + 1 /\ Advanced(p).cycle = p.cycle
        BY <1>1, <3>1, AdvancedPointer
      <4> HIDE DEF p
      <4> QED
        BY <1>3, <2>2, <4>1 DEF Seats
    <3>2. CASE k = TeamSize
      <4>1. Advanced(p).position = 1 /\ Advanced(p).cycle = p.cycle + 1
        BY <1>1, <3>2, AdvancedPointer
      <4> HIDE DEF p
      <4> QED
        BY <1>3, <2>2, <3>2, <4>1 DEF Seats
    <3> QED
      BY <1>3, <3>1, <3>2
  <2>4. Served'[t] = [Served[t] EXCEPT ![k] = @ + 1]
    BY <1>3, <2>2, <2>3
  <2> QED
    BY <1>1, <2>1, <2>4 DEF Served
<1> QED
  BY <1>1, <1>4, <1>5, <1>6 DEF Rota!TakeTurn, Rota!Seats, Seats

(***************************************************************************)
(* The rotation is a fair rota: for any number of concurrent dispatches,   *)
(* crashes and membership changes, the seats of a team are served in       *)
(* order, one turn at a time, none skipped and none served twice.          *)
(***************************************************************************)
THEOREM FairRotation == Spec => KeepsRota
<1>1. Init => Rota!RotaInit
  BY DEF Init, Rota!RotaInit, Served, Rota!Seats, Seats
<1>2. Inv /\ [Next]_vars => [Rota!RotaNext]_Served
  <2> SUFFICES ASSUME Inv, [Next]_vars PROVE [Rota!RotaNext]_Served
    OBVIOUS
  <2>1. CASE UNCHANGED rotation
    BY <2>1 DEF Served
  <2>2. CASE \E s \in Sessions : CommitTurn(s)
    <3>1. PICK s \in Sessions : CommitTurn(s)
      BY <2>2
    <3>2. session[s].team \in Teams /\ session[s].pointer.position \in Seats
      BY <3>1, CommitContext DEF Pointer
    <3> QED
      BY <3>1, <3>2, CommitServes DEF Rota!RotaNext, Rota!Seats, Seats
  <2> QED
    BY <2>1, <2>2, OnlyCommitsWrite
<1> QED
  BY <1>1, <1>2, Invariant, PTL DEF Spec, KeepsRota, Rota!RotaSpec

=============================================================================
