--------------------------- MODULE TeamRotation ---------------------------
(***************************************************************************)
(* services/rotation_service.py: the deterministic rotation of a team.     *)
(*                                                                         *)
(* A dispatch of an incident to a team takes row locks in one transaction, *)
(* on the incident, the team's members and the team's rotation row, picks  *)
(* the member whose seat is current_position, closes the incident's active *)
(* assignments, inserts the new one and advances the pointer.  Several     *)
(* dispatches run at once, one per request session; a session can die at   *)
(* any moment, and its transaction is then rolled back.                    *)
(*                                                                         *)
(* The database is PostgreSQL at READ COMMITTED: SELECT ... FOR UPDATE     *)
(* waits for the lock and then reads the latest committed row.  Members    *)
(* and rotation row of a team are locked one after the other and never     *)
(* apart: teamLock stands for both.  Before it calls the rotation, a       *)
(* caller inserts notices in the same transaction, whose foreign keys take *)
(* shared locks (FOR KEY SHARE) on the incident and on the team's users.   *)
(*                                                                         *)
(* Two callers reach the rotation.  The assignment engine locks the        *)
(* incident, returns an assignment that is active, and sends its notices   *)
(* otherwise.  The notice endpoint sends its notices, looks for an active  *)
(* assignment without a lock, and then keeps it, or closes it and asks the *)
(* rotation for the next member, all in one transaction.                   *)
(*                                                                         *)
(* The caller has loaded the incident earlier, without a lock, and         *)
(* SQLAlchemy does not refresh an object a session already holds: the lock *)
(* is taken, the attributes stay those first read (loaded), and the flush  *)
(* writes only the columns whose new value differs from them.              *)
(***************************************************************************)
EXTENDS Integers, FiniteSets, LockWaits

CONSTANTS
  Incidents,   \* incidents
  Teams,       \* teams
  Employees,   \* employees, numbered in the order of their employee_code
  Sessions,    \* concurrent request sessions (one database session each)
  Keys,        \* idempotency keys a dispatch may carry
  TeamSize,    \* members a team must have, 10 in the code
  Preassigned, \* employees ServiceNow may name in assigned_to when it creates an incident
  MaxCycle,    \* bound: no dispatch starts once a rotation is past this cycle
  None         \* the SQL NULL

ASSUME SizeAssumption == TeamSize \in Nat \ {0}
ASSUME CodeAssumption == Employees \subseteq Nat /\ Preassigned \subseteq Employees
ASSUME NullAssumption == None \notin Incidents \cup Teams \cup Employees \cup Sessions \cup Keys
ASSUME BoundAssumption == MaxCycle \in Nat

VARIABLES
  members,       \* members[t]: active EMPLOYEE users of team t
  incident,      \* incident[i]: the row of table incidents
  row,           \* row[i][e]: the row of incident_assignments for incident i and employee e
  rotation,      \* rotation[t]: the row of team_rotations
  incidentLock,  \* incidentLock[i]: session holding the row lock of incident i
  teamLock,      \* teamLock[t]: session holding the row locks of t's members and rotation
  session        \* session[s]: the local state of a dispatch

vars == <<members, incident, row, rotation, incidentLock, teamLock, session>>

-----------------------------------------------------------------------------
(* Tables *)

Seats == 1..TeamSize

States == {"NEW", "ASSIGNED"}

Statuses == {"NONE", "ASSIGNED", "REASSIGNED"}

(***************************************************************************)
(* incident_assignments.  The unique index uq_incident_emp_cycle allows    *)
(* one row per incident, employee and incident cycle, active or not, and   *)
(* current_cycle of an incident is 1 for ever: the table is a function of  *)
(* incident and employee, where status NONE says that there is no row.     *)
(* turn is (team_id, rotation_cycle, rotation_position).                   *)
(***************************************************************************)
Turn == [team : Teams, cycle : Nat \ {0}, position : Seats]

ASSUME NullTurnAssumption == None \notin Turn

ASSUME NullNoticesAssumption == \A S \in SUBSET Employees : S # None

Row == [status : Statuses, active : BOOLEAN, key : Keys \cup {None}, turn : Turn \cup {None}]

NoRow == [status |-> "NONE", active |-> FALSE, key |-> None, turn |-> None]

Incident == [state : States, owner : Employees \cup {None}, group : Teams \cup {None}]

Pointer == [position : Seats, cycle : Nat \ {0}]

(***************************************************************************)
(* A session is about to insert its notices (noticing), to lock the        *)
(* incident (locking), to lock the team (gathering), or has all its locks  *)
(* (selecting); a notice also to look for an active assignment (looking),  *)
(* to close it (clearing) or to write it into the incident (touching).     *)
(* noticed is the members to whom notices have been inserted, None before  *)
(* that; found the assignment a notice has read, closed those it has       *)
(* closed and not committed.                                               *)
(***************************************************************************)
Steps == {"idle", "noticing", "looking", "clearing", "locking", "gathering", "selecting",
          "touching"}

Session == [step : Steps, inc : Incidents \cup {None}, team : Teams \cup {None},
            key : Keys \cup {None}, loaded : Incident \cup {None},
            noticed : (SUBSET Employees) \cup {None},
            found : Employees \cup {None}, closed : SUBSET Employees,
            roster : [Seats -> Employees] \cup {None}, pointer : Pointer \cup {None}]

Idle == [step |-> "idle", inc |-> None, team |-> None, key |-> None, loaded |-> None,
         noticed |-> None, found |-> None, closed |-> {}, roster |-> None, pointer |-> None]

Exists(i, e) == row[i][e].status # "NONE"

Active(i) == {e \in Employees : row[i][e].active}

(* Fault: the closing UPDATE is left out. *)
KeptActive(r) == r

(* UPDATE ... SET is_active = false, status = 'REASSIGNED' WHERE is_active *)
Deactivated(r) == IF r.active THEN [r EXCEPT !.active = FALSE, !.status = "REASSIGNED"] ELSE r

(* A flush writes the columns whose new value differs from the loaded one. *)
Flushed(stored, loaded, new) ==
  [c \in DOMAIN new |-> IF new[c] = loaded[c] THEN stored[c] ELSE new[c]]

-----------------------------------------------------------------------------
(* The pointer *)

(* A position or a cycle out of range is reset to 1 before it is used. *)
Clamped(p) == [position |-> IF p.position \in Seats THEN p.position ELSE 1,
               cycle    |-> IF p.cycle < 1 THEN 1 ELSE p.cycle]

(* Fault: the wrap comes one seat too late, or one too early. *)
AdvancedLate(p) == IF p.position > TeamSize
                   THEN [position |-> 1, cycle |-> p.cycle + 1]
                   ELSE [p EXCEPT !.position = @ + 1]

AdvancedEarly(p) == IF p.position >= TeamSize - 1
                    THEN [position |-> 1, cycle |-> p.cycle + 1]
                    ELSE [p EXCEPT !.position = @ + 1]

Advanced(p) == IF p.position >= TeamSize
               THEN [position |-> 1, cycle |-> p.cycle + 1]
               ELSE [p EXCEPT !.position = @ + 1]

(* ORDER BY employee_code: the increasing enumeration of the members. *)
Rosters(S) == {r \in [Seats -> S] : \A m, n \in Seats : m < n => r[m] < r[n]}

-----------------------------------------------------------------------------
(* Row locks *)

(***************************************************************************)
(* What s has locked besides incidentLock and teamLock: the notices of s   *)
(* share the rows of the users they are sent to and, if there are any, the *)
(* row of the incident; a closing has the assignment's row.                *)
(***************************************************************************)
Shares(s) == IF session[s].noticed = None THEN {} ELSE session[s].noticed

Closing(s, i) == session[s].inc = i /\ session[s].closed # {}

(* Fault: the idempotency check is left out. *)
NeverAnswering(s) == {}

(* An active assignment of the incident, not closed by s itself, already *)
(* answers the key of s.                                                  *)
Answering(s) ==
  {e \in Active(session[s].inc) \ session[s].closed :
     row[session[s].inc][e].key = session[s].key}

(* The caller's object with the assignment of e written into it. *)
Touched(s, e) == [session[s].loaded EXCEPT !.state = "ASSIGNED", !.owner = e]

(* Fault: the team is read without FOR UPDATE. *)
TeamUnlocked(s) ==
  {o \in Sessions \ {s} :
     session[s].step \in {"noticing", "locking"} /\ incidentLock[session[s].inc] = o}

(***************************************************************************)
(* The sessions whose row locks keep s waiting.  A shared lock waits for   *)
(* the holder of the exclusive one, an exclusive lock for every holder;    *)
(* the UPDATE that touches an incident leaves its key alone and waits for  *)
(* no notices.                                                             *)
(***************************************************************************)
Blockers(s) ==
  LET i == session[s].inc
      t == session[s].team
  IN {o \in Sessions \ {s} :
        CASE session[s].step = "noticing" -> incidentLock[i] = o \/ teamLock[t] = o
          [] session[s].step = "clearing" -> Closing(o, i)
          [] session[s].step = "locking" ->
               incidentLock[i] = o \/ (Shares(o) # {} /\ session[o].inc = i)
          [] session[s].step = "gathering" ->
               teamLock[t] = o \/ Shares(o) \cap members[t] # {}
          [] session[s].step = "selecting" -> Answering(s) = {} /\ Closing(o, i)
          [] session[s].step = "touching" ->
               Touched(s, session[s].found) # session[s].loaded /\ incidentLock[i] = o
          [] OTHER -> FALSE}

Waits == [s \in Sessions |-> Blockers(s)]

(* Fault: the session returns to the pool with its transaction open. *)
CloseLocked(s) ==
  /\ session' = [session EXCEPT ![s] = Idle]
  /\ UNCHANGED <<incidentLock, teamLock>>

(* The transaction ends: its row locks are released, the session is idle. *)
Close(s) ==
  /\ session' = [session EXCEPT ![s] = Idle]
  /\ incidentLock' = [i \in Incidents |-> IF incidentLock[i] = s THEN None ELSE incidentLock[i]]
  /\ teamLock' = [t \in Teams |-> IF teamLock[t] = s THEN None ELSE teamLock[t]]

(* ROLLBACK, or the session is closed with nothing committed. *)
Rollback(s) == Close(s) /\ UNCHANGED <<members, incident, row, rotation>>

-----------------------------------------------------------------------------
(* A dispatch *)

(* A caller has read incident i and dispatches it to team t. *)
Call(s, i, t, k) ==
  /\ session[s].step = "idle"
  /\ rotation[t].cycle <= MaxCycle
  /\ \E first \in {"noticing", "locking"} :
       session' = [session EXCEPT ![s] =
         [Idle EXCEPT !.step = first, !.inc = i, !.team = t, !.key = k, !.loaded = incident[i]]]
  /\ UNCHANGED <<members, incident, row, rotation, incidentLock, teamLock>>

(* The notices of the caller are flushed. *)
Notify(s) ==
  /\ session[s].step = "noticing"
  /\ Blockers(s) = {}
  /\ session' = [session EXCEPT ![s].noticed = members[session[s].team],
       ![s].step = IF incidentLock[session[s].inc] = s THEN "gathering" ELSE "looking"]
  /\ UNCHANGED <<members, incident, row, rotation, incidentLock, teamLock>>

(* A notice finds that nobody has the incident: the rotation is asked. *)
FindNobody(s) ==
  /\ session[s].step = "looking"
  /\ Active(session[s].inc) = {}
  /\ session' = [session EXCEPT ![s].step = "locking"]
  /\ UNCHANGED <<members, incident, row, rotation, incidentLock, teamLock>>

(* Somebody has it, and keeps it unless the notice forces a rotation or *)
(* comes to another team than the incident's.                           *)
Find(s, e, force) ==
  /\ session[s].step = "looking"
  /\ e \in Active(session[s].inc)
  /\ session' = [session EXCEPT ![s].found = e, ![s].step =
       IF force \/ session[s].loaded.group # session[s].team THEN "clearing" ELSE "touching"]
  /\ UNCHANGED <<members, incident, row, rotation, incidentLock, teamLock>>

(***************************************************************************)
(* The active assignments are closed, not yet committed.  An UPDATE that   *)
(* has waited looks again at the rows it had found before it waited and    *)
(* does not see those that were inserted meanwhile.                        *)
(***************************************************************************)
Clear(s) ==
  LET i == session[s].inc
  IN /\ session[s].step = "clearing"
     /\ Blockers(s) = {}
     /\ \E C \in {Active(i), Active(i) \cap {session[s].found}} :
          session' = [session EXCEPT ![s].closed = C, ![s].found = None, ![s].step = "locking"]
     /\ UNCHANGED <<members, incident, row, rotation, incidentLock, teamLock>>

(* The incident is locked, by the engine only if nobody has it. *)
LockIncident(s) ==
  /\ session[s].step = "locking"
  /\ Blockers(s) = {}
  /\ session[s].noticed # None \/ Active(session[s].inc) = {}
  /\ incidentLock' = [incidentLock EXCEPT ![session[s].inc] = s]
  /\ session' = [session EXCEPT ![s].step =
       IF session[s].noticed = None THEN "noticing" ELSE "gathering"]
  /\ UNCHANGED <<members, incident, row, rotation, teamLock>>

(* The engine finds an active assignment and returns it. *)
ReturnActive(s) ==
  /\ session[s].step = "locking"
  /\ Blockers(s) = {}
  /\ session[s].noticed = None
  /\ Active(session[s].inc) # {}
  /\ Rollback(s)

(***************************************************************************)
(* Members and rotation row are locked and read; the team has its full     *)
(* size.  A newcomer who commits while the query waits is not seen by it:  *)
(* that is the same as a newcomer who joins right after.                   *)
(***************************************************************************)
LockTeam(s) ==
  LET t == session[s].team
  IN /\ session[s].step = "gathering"
     /\ Blockers(s) = {}
     /\ Cardinality(members[t]) = TeamSize
     /\ teamLock' = [teamLock EXCEPT ![t] = s]
     /\ \E r \in Rosters(members[t]) :
          session' = [session EXCEPT ![s].step = "selecting", ![s].roster = r,
                                     ![s].pointer = Clamped(rotation[t])]
     /\ UNCHANGED <<members, incident, row, rotation, incidentLock>>

(***************************************************************************)
(* ValueError: the team has not exactly TeamSize active members.  A notice *)
(* commits what it has closed; the engine, which has closed nothing, goes  *)
(* on to the group assignment of AssignmentDesk.                           *)
(***************************************************************************)
RejectTeam(s) ==
  /\ session[s].step = "gathering"
  /\ Blockers(s) = {}
  /\ Cardinality(members[session[s].team]) # TeamSize
  /\ row' = [row EXCEPT ![session[s].inc] = [e \in Employees |->
       IF e \in session[s].closed THEN Deactivated(@[e]) ELSE @[e]]]
  /\ Close(s)
  /\ UNCHANGED <<members, incident, rotation>>

(* The caller writes the assignment of e into the incident and commits. *)
Touch(s, e) ==
  LET i == session[s].inc
  IN /\ incident' = [incident EXCEPT ![i] = Flushed(@, session[s].loaded, Touched(s, e))]
     /\ Close(s)
     /\ UNCHANGED <<members, row, rotation>>

(* The notice keeps the assignment it has found, whatever became of it. *)
KeepFound(s) ==
  /\ session[s].step = "touching"
  /\ Blockers(s) = {}
  /\ Touch(s, session[s].found)

(* The rotation returns the assignment that answers the key to a notice, *)
(* which has closed nothing then.                                         *)
ReturnExisting(s) ==
  /\ session[s].step = "selecting"
  /\ \E e \in Answering(s) : Touch(s, e)

(* The member whose turn it is. *)
Selected(s) == session[s].roster[session[s].pointer.position]

(* Steps 5 to 9 of the service, all in one commit. *)
CommitTurn(s) ==
  LET i == session[s].inc
      t == session[s].team
      p == session[s].pointer
      new == [status |-> "ASSIGNED", active |-> TRUE, key |-> session[s].key,
              turn |-> [team |-> t, cycle |-> p.cycle, position |-> p.position]]
  IN /\ session[s].step = "selecting"
     /\ Answering(s) = {}
     /\ Blockers(s) = {}
     /\ ~ Exists(i, Selected(s))
     /\ row' = [row EXCEPT ![i] = [e \in Employees |->
          IF e = Selected(s) THEN new ELSE Deactivated(row[i][e])]]
     /\ rotation' = [rotation EXCEPT ![t] = Advanced(p)]
     /\ incident' = [incident EXCEPT ![i] = Flushed(@, session[s].loaded,
          [state |-> "ASSIGNED", owner |-> Selected(s), group |-> t])]
     /\ Close(s)
     /\ UNCHANGED members

(* The insert hits uq_incident_emp_cycle: the member has had this incident. *)
TurnConflict(s) ==
  /\ session[s].step = "selecting"
  /\ Answering(s) = {}
  /\ Blockers(s) = {}
  /\ Exists(session[s].inc, Selected(s))
  /\ Rollback(s)

(* PostgreSQL finds the deadlock and aborts one of the waiting transactions. *)
Abort(s) == Deadlocked(Waits, s) /\ Rollback(s)

(* The request dies: a crash, a lost connection, a cancelled client. *)
Die(s) == session[s].step # "idle" /\ Rollback(s)

-----------------------------------------------------------------------------
(* Membership, changed by the administration while dispatches run *)

(* An employee is hired into a team: no row lock holds back a newcomer. *)
Join(e, t) ==
  /\ \A u \in Teams : e \notin members[u]
  /\ members' = [members EXCEPT ![t] = @ \cup {e}]
  /\ UNCHANGED <<incident, row, rotation, incidentLock, teamLock, session>>

(***************************************************************************)
(* A script archives a member: employee and user row are updated, the user *)
(* in its unique email too, which waits even for the shared locks on it.   *)
(***************************************************************************)
Leave(e, t) ==
  /\ e \in members[t]
  /\ teamLock[t] = None
  /\ \A s \in Sessions : e \notin Shares(s)
  /\ members' = [members EXCEPT ![t] = @ \ {e}]
  /\ UNCHANGED <<incident, row, rotation, incidentLock, teamLock, session>>

-----------------------------------------------------------------------------

Init ==
  /\ members \in [Teams -> SUBSET Employees]
  /\ \A t, u \in Teams : t # u => members[t] \cap members[u] = {}
  /\ incident \in [Incidents ->
       [state : {"NEW"}, owner : Preassigned \cup {None}, group : Teams \cup {None}]]
  /\ row = [i \in Incidents |-> [e \in Employees |-> NoRow]]
  /\ rotation = [t \in Teams |-> [position |-> 1, cycle |-> 1]]
  /\ incidentLock = [i \in Incidents |-> None]
  /\ teamLock = [t \in Teams |-> None]
  /\ session = [s \in Sessions |-> Idle]

Work(s) ==
  \/ Notify(s)
  \/ FindNobody(s)
  \/ \E e \in Employees, force \in BOOLEAN : Find(s, e, force)
  \/ Clear(s)
  \/ LockIncident(s)
  \/ ReturnActive(s)
  \/ LockTeam(s)
  \/ RejectTeam(s)
  \/ KeepFound(s)
  \/ ReturnExisting(s)
  \/ CommitTurn(s)
  \/ TurnConflict(s)
  \/ Abort(s)

Next ==
  \/ \E s \in Sessions, i \in Incidents, t \in Teams, k \in Keys : Call(s, i, t, k)
  \/ \E s \in Sessions : Work(s) \/ Die(s)
  \/ \E e \in Employees, t \in Teams : Join(e, t) \/ Leave(e, t)

Spec == Init /\ [][Next]_vars

(***************************************************************************)
(* PostgreSQL grants a row lock to its waiters in the order they came, so  *)
(* a session waiting for a lock that is released again and again gets it;  *)
(* a session that holds its locks runs on.                                 *)
(***************************************************************************)
FairSpec == Spec /\ \A s \in Sessions : SF_vars(Work(s))

-----------------------------------------------------------------------------
(* Properties *)

TypeOK ==
  /\ members \in [Teams -> SUBSET Employees]
  /\ incident \in [Incidents -> Incident]
  /\ row \in [Incidents -> [Employees -> Row]]
  /\ rotation \in [Teams -> Pointer]
  /\ incidentLock \in [Incidents -> Sessions \cup {None}]
  /\ teamLock \in [Teams -> Sessions \cup {None}]
  /\ session \in [Sessions -> Session]

(* An idle session has forgotten its dispatch, another knows all of it. *)
SessionsKnow ==
  \A s \in Sessions :
    IF session[s].step = "idle"
    THEN session[s] = Idle
    ELSE /\ session[s].inc \in Incidents
         /\ session[s].team \in Teams
         /\ session[s].key \in Keys
         /\ session[s].loaded \in Incident

(* A lock belongs to a session at work on what it locks ... *)
LocksInUse ==
  \A s \in Sessions :
    /\ \A i \in Incidents : incidentLock[i] = s =>
         session[s].inc = i /\ session[s].step \in {"noticing", "gathering", "selecting"}
    /\ \A t \in Teams : teamLock[t] = s =>
         session[s].team = t /\ session[s].step = "selecting"

(***************************************************************************)
(* ... and a session that selects holds both locks, so that the pointer it *)
(* has read is still the stored one when it commits.                       *)
(***************************************************************************)
PointerFresh ==
  \A s \in Sessions :
    /\ session[s].step \in {"gathering", "selecting"} => incidentLock[session[s].inc] = s
    /\ session[s].step = "selecting" =>
         /\ teamLock[session[s].team] = s
         /\ session[s].roster \in [Seats -> Employees]
         /\ session[s].pointer = rotation[session[s].team]

(* What a notice has found is there ... *)
FoundThere(s) ==
  session[s].step \in {"clearing", "touching"} =>
    session[s].found \in Employees /\ Exists(session[s].inc, session[s].found)

(* ... and what it has closed is still the active assignment for everybody *)
(* else and not closed by another.                                         *)
ClosedAlone(s) ==
  session[s].closed # {} =>
    /\ session[s].step \in {"locking", "gathering", "selecting"}
    /\ session[s].noticed # None
    /\ session[s].closed \subseteq Active(session[s].inc)
    /\ \A o \in Sessions \ {s} : ~ Closing(o, session[s].inc)

FoundAndClosed == \A s \in Sessions : FoundThere(s) /\ ClosedAlone(s)

(* A row that is not there has no content, one that is there is active or closed. *)
RowsPresent ==
  \A i \in Incidents, e \in Employees :
    /\ Exists(i, e) \/ row[i][e] = NoRow
    /\ row[i][e].active <=> row[i][e].status = "ASSIGNED"

(* A name in assigned_to comes from ServiceNow or from an assignment. *)
Named(i, owner) == owner \in Preassigned \cup {None} \/ (owner \in Employees /\ Exists(i, owner))

OwnersNamed ==
  /\ \A i \in Incidents : Named(i, incident[i].owner)
  /\ \A s \in Sessions : session[s].step # "idle" =>
       Named(session[s].inc, session[s].loaded.owner)

(* Turn u is one of those before the pointer of its team, already taken. *)
Taken(u) ==
  \/ u.cycle < rotation[u.team].cycle
  \/ u.cycle = rotation[u.team].cycle /\ u.position < rotation[u.team].position

(* Every turn given out is behind the pointer ... *)
TurnsTaken ==
  \A i \in Incidents, e \in Employees : row[i][e].turn # None => Taken(row[i][e].turn)

(* ... and every turn behind the pointer was given out. *)
TurnsGiven ==
  \A t \in Teams : \A c \in 1..rotation[t].cycle, n \in Seats :
    LET u == [team |-> t, cycle |-> c, position |-> n]
    IN Taken(u) => \E i \in Incidents, e \in Employees : row[i][e].turn = u

(* No turn of a rotation is given to two assignments. *)
TurnsDistinct ==
  \A i, j \in Incidents, e, f \in Employees :
    (row[i][e].turn # None /\ row[i][e].turn = row[j][f].turn) => i = j /\ e = f

(***************************************************************************)
(* The pointer and the assignment table agree: a turn is recorded by       *)
(* exactly one assignment if the pointer is past it, and by none if it is  *)
(* not.  No turn is skipped by a rollback, a refused duplicate or a crash, *)
(* none is given out ahead of the pointer, and none twice.                 *)
(***************************************************************************)
TurnsOnRecord == TurnsTaken /\ TurnsGiven /\ TurnsDistinct

(* The employee had incident i and it has been given to another. *)
Replaced(i, e) == e \in Employees /\ row[i][e].status = "REASSIGNED"

(***************************************************************************)
(* However many dispatches of an incident run at once, it has at most one  *)
(* active assignment, and the incident's assigned_to names its employee.   *)
(* Two exceptions: an employee whom ServiceNow had named before, since a   *)
(* session that loaded that name does not write it again, and a former     *)
(* holder, whom a notice has found and writes back after he was replaced.  *)
(***************************************************************************)
OneActiveOwner ==
  \A i \in Incidents : \A e \in Active(i) :
    /\ Active(i) = {e}
    /\ incident[i].owner = e \/ e \in Preassigned \/ Replaced(i, incident[i].owner)

(* Inductive together with NoticedOnce of TeamRotationProofs. *)
Inv ==
  /\ TypeOK /\ SessionsKnow /\ LocksInUse /\ PointerFresh /\ RowsPresent /\ FoundAndClosed
  /\ OwnersNamed
  /\ TurnsOnRecord /\ OneActiveOwner

(***************************************************************************)
(* A dispatch that repeats the key of an assignment still active takes no  *)
(* turn, unless it is a notice that has closed this assignment itself: the *)
(* rotation looks for the key among the active assignments only, so that a *)
(* notice that forces the rotation takes a turn every time it is repeated. *)
(***************************************************************************)
KeyTakesOneTurn ==
  [][\A i \in Incidents : \A e, f \in Employees :
       (/\ row[i][e].active /\ ~ row[i][f].active /\ row'[i][f].active
        /\ row'[i][f].key = row[i][e].key)
          => \E s \in Sessions :
               session[s].inc = i /\ e \in session[s].closed /\ CommitTurn(s)]_vars

(***************************************************************************)
(* The rotation keeps the promise of FairRota: seat n has been served once *)
(* per finished cycle, and once more if the pointer is past it.            *)
(***************************************************************************)
Served == [t \in Teams |-> [n \in Seats |->
            IF n < rotation[t].position THEN rotation[t].cycle ELSE rotation[t].cycle - 1]]

Rota == INSTANCE FairRota WITH served <- Served

KeepsRota == Rota!RotaSpec

(* The waiting that is left if notices share no rows and close none. *)
OwnWaits ==
  [s \in Sessions |->
     {o \in Sessions \ {s} :
        \/ session[s].step \in {"noticing", "locking", "touching"}
             /\ incidentLock[session[s].inc] = o
        \/ session[s].step \in {"noticing", "gathering"} /\ teamLock[session[s].team] = o}]

(***************************************************************************)
(* The rotation's own locks, the incident before the team, leave nobody    *)
(* waiting in a circle: a dispatch is thrown out of a deadlock only when   *)
(* it has inserted notices, and only because of the rows that notices      *)
(* share and the assignments that a notice closes before it locks the      *)
(* incident.                                                               *)
(***************************************************************************)
OnlyNoticesCollide ==
  \A s \in Sessions :
    /\ ~ Deadlocked(OwnWaits, s)
    /\ Deadlocked(Waits, s) => session[s].noticed # None

(* Every dispatch ends, whether answered, refused, aborted or rolled back. *)
EveryCallEnds == \A s \in Sessions : session[s].step # "idle" ~> session[s].step = "idle"

(***************************************************************************)
(* What test_18 of test_15_teams_150_employees_rotation.py says of         *)
(* concurrent notices to a team: they select employees one after another,  *)
(* with no race.  No dispatch to a team of full size, the only one of its  *)
(* incident, is thrown out because of another.                             *)
(***************************************************************************)
NoticesDoNotCollide ==
  \A s \in Sessions :
    (/\ session[s].step # "idle"
     /\ Cardinality(members[session[s].team]) = TeamSize
     /\ \A o \in Sessions \ {s} : session[o].inc # session[s].inc)
      => ~ Deadlocked(Waits, s)

=============================================================================
