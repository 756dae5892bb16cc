-------------------------- MODULE AssignmentDesk --------------------------
(***************************************************************************)
(* The requests that change the assignments of a visible incident: the     *)
(* notice to a team, manual assignment and reassignment, the group send,   *)
(* an engineer's acknowledge, start and complete, and the shift handoff.   *)
(* Each runs in its own session; a transaction takes row locks on the      *)
(* incident and on assignment rows, by SELECT ... FOR UPDATE or by the     *)
(* UPDATE of a flush, in an order of its own, and reads the rest without.  *)
(*                                                                         *)
(* A session does not refresh what it has read: known holds the incidents  *)
(* as first loaded, read the assignment row, and a flush writes only the   *)
(* columns whose new value differs from the loaded one.                    *)
(*                                                                         *)
(* The rotation picks any member of the team here: which one is the matter *)
(* of TeamRotation.  Only the exclusive locks on an incident and on its    *)
(* assignment rows are here: the shared locks that inserted notices take,  *)
(* and the locks on users, are TeamRotation's too.                         *)
(***************************************************************************)
EXTENDS Integers, FiniteSets, LockWaits

CONSTANTS
  Incidents,   \* incidents
  Teams,       \* teams
  Employees,   \* active employees
  TeamOf,      \* TeamOf[e]: the team of employee e
  TeamSize,    \* members a team must have, 10 in the code
  Sessions,    \* concurrent request sessions
  Operations,  \* the kinds of request that are in use, "shadow" if engineers may take
               \* an incident that was recommended to them in SHADOW mode
  None         \* the SQL NULL

Kinds == {"notice", "assign", "group", "acknowledge", "start", "complete", "handoff"}

ASSUME DeskAssumption ==
  /\ TeamOf \in [Employees -> Teams]
  /\ TeamSize \in Nat \ {0}
  /\ Operations \subseteq Kinds \cup {"shadow"}
  /\ None \notin Incidents \cup Teams \cup Employees \cup Sessions
  /\ Employees \cap Teams = {}

VARIABLES
  incident,      \* incident[i]: the row of table incidents
  row,           \* row[i][e]: the row of incident_assignments for incident i and employee e
  incidentLock,  \* incidentLock[i]: session holding the row lock of incident i
  rowLock,       \* rowLock[i][e]: session holding the row lock of row[i][e]
  session        \* session[s]: the local state of a request

vars == <<incident, row, incidentLock, rowLock, session>>

-----------------------------------------------------------------------------
(* Tables *)

Members(t) == {e \in Employees : TeamOf[e] = t}

Full(t) == Cardinality(Members(t)) = TeamSize

(* A group assignment names the team as owner. *)
Incident == [state : {"NEW", "ASSIGNED", "ACKNOWLEDGED", "IN_PROGRESS", "RESOLVED"},
             owner : Employees \cup Teams \cup {None}, group : Teams \cup {None}]

(* key is source_event_id: notice_<incident>_<team>, so the team tells it. *)
Row == [status : {"NONE", "ASSIGNED", "ACKNOWLEDGED", "IN_PROGRESS", "COMPLETED", "REASSIGNED"},
        active : BOOLEAN, key : Teams \cup {None}]

NoRow == [status |-> "NONE", active |-> FALSE, key |-> None]

Opened(k) == [status |-> "ASSIGNED", active |-> TRUE, key |-> k]

Reassigned(r) == [r EXCEPT !.active = FALSE, !.status = "REASSIGNED"]

Exists(i, e) == row[i][e].status # "NONE"

Active(i) == {e \in Employees : row[i][e].active}

(* Fault: a flush writes the whole object back. *)
WrittenBack(stored, loaded, new) == new

(* A flush writes the columns whose new value differs from the loaded one. *)
Flushed(stored, loaded, new) ==
  [c \in DOMAIN new |-> IF new[c] = loaded[c] THEN stored[c] ELSE new[c]]

-----------------------------------------------------------------------------
(* Sessions *)

Steps == {"idle",
          "looking", "clearing", "claiming", "assigning", "touching",  \* notice
          "replacing",                                                 \* assign
          "gathering", "spreading",                                    \* group
          "updating", "loading", "writing", "provisioning",            \* engineer
          "scanning", "locking", "handing"}                            \* handoff

(***************************************************************************)
(* who is the employee a request is about, read his assignment row as the  *)
(* session has loaded it, from the employee who is replaced, todo the      *)
(* active assignments a handoff scan has found.                            *)
(***************************************************************************)
Session == [op : Kinds \cup {None}, step : Steps, inc : Incidents \cup {None},
            team : Teams \cup {None}, who : Employees \cup {None},
            from : Employees \cup {None}, read : Row \cup {None},
            known : [Incidents -> Incident \cup {None}],
            todo : SUBSET [inc : Incidents, emp : Employees, row : Row]]

Idle == [op |-> None, step |-> "idle", inc |-> None, team |-> None, who |-> None,
         from |-> None, read |-> None, known |-> [i \in Incidents |-> None], todo |-> {}]

(* Assignment rows s has updated or locked. *)
Held(s, i) == {e \in Employees : rowLock[i][e] = s}

(* What the incident will be: the flush of the loaded object with new values. *)
IncidentWith(s, i, new) == Flushed(incident[i], session[s].known[i], new)

Work(s) ==
  LET known == session[s].known[session[s].inc]
  IN CASE session[s].op = "acknowledge" -> [known EXCEPT !.state = "ACKNOWLEDGED"]
       [] session[s].op = "start"       -> [known EXCEPT !.state = "IN_PROGRESS"]
       [] OTHER                         -> [known EXCEPT !.state = "RESOLVED"]

(* The notice writes its reading of the assignment into the incident. *)
Touched(s) ==
  [session[s].known[session[s].inc] EXCEPT !.state = "ASSIGNED", !.owner = session[s].who]

(* What has been acknowledged is not written again. *)
Repeated(s) == session[s].op = "acknowledge" /\ session[s].read.status = "ACKNOWLEDGED"

(* The next statement of s locks the incident.  Completing sets resolved_at. *)
NeedsIncident(s) ==
  LET known == session[s].known[session[s].inc]
  IN \/ session[s].step \in {"claiming", "gathering", "handing", "provisioning"}
     \/ session[s].step = "touching" /\ Touched(s) # known
     \/ session[s].step = "writing" /\ (Work(s) # known \/ session[s].op = "complete")

(* The assignment rows that the next statement of s writes or locks.  An    *)
(* UPDATE of several locks them one by one in the order it finds them; here *)
(* all at once, as two that find them in the same order could as well.      *)
NeedsRows(s) ==
  LET i == session[s].inc
  IN CASE session[s].step \in {"clearing", "assigning"}          -> Active(i)
       [] session[s].step = "replacing"                          -> {session[s].from} \ {None}
       [] session[s].step = "spreading" ->
            Active(i) \cup {e \in Members(session[s].team) : Exists(i, e)}
       [] session[s].step \in {"updating", "locking"}            -> {session[s].who}
       [] session[s].step = "writing" /\ ~ Repeated(s)           -> {session[s].who}
       [] OTHER                                                  -> {}

(* Fault: the incident is read without FOR UPDATE. *)
RowsOnly(s) ==
  LET i == session[s].inc
  IN {o \in Sessions \ {s} : \E e \in NeedsRows(s) : rowLock[i][e] = o}

(* The sessions whose row locks keep s waiting. *)
Blockers(s) ==
  LET i == session[s].inc
  IN {o \in Sessions \ {s} :
        \/ NeedsIncident(s) /\ incidentLock[i] = o
        \/ \E e \in NeedsRows(s) : rowLock[i][e] = o}

Waits == [s \in Sessions |-> Blockers(s)]

At(s, step) == session[s].step = step /\ Blockers(s) = {}

(* A request begins: s has loaded incident i. *)
Begin(s, op, step, i, t, e) ==
  /\ session[s].step = "idle"
  /\ op \in Operations
  /\ session' = [session EXCEPT ![s] =
       [Idle EXCEPT !.op = op, !.step = step, !.inc = i, !.team = t, !.who = e,
                    !.known[i] = incident[i]]]

Go(s, step) == session' = [session EXCEPT ![s].step = step]

Locks == <<incidentLock, rowLock>>

(* Fault: the session keeps its locks when it ends. *)
CloseLocked(s) == session' = [session EXCEPT ![s] = Idle] /\ UNCHANGED Locks

Release(s) ==
  /\ incidentLock' = [i \in Incidents |-> IF incidentLock[i] = s THEN None ELSE incidentLock[i]]
  /\ rowLock' = [i \in Incidents |-> [e \in Employees |->
       IF rowLock[i][e] = s THEN None ELSE rowLock[i][e]]]

(* The transaction ends: its row locks are released, the session is idle. *)
Close(s) == session' = [session EXCEPT ![s] = Idle] /\ Release(s)

Rollback(s) == Close(s) /\ UNCHANGED <<incident, row>>

-----------------------------------------------------------------------------
(* A notice to team t about incident i *)

NoticeBegin(s, i, t) ==
  /\ Begin(s, "notice", "looking", i, t, None)
  /\ UNCHANGED <<incident, row, incidentLock, rowLock>>

(* Nobody has the incident: the rotation is asked. *)
NoticeFindsNobody(s) ==
  /\ At(s, "looking")
  /\ Active(session[s].inc) = {}
  /\ Go(s, "claiming")
  /\ UNCHANGED <<incident, row, incidentLock, rowLock>>

(* Somebody has it, and keeps it unless the notice forces a rotation or *)
(* comes to another team than the incident's.                           *)
NoticeFinds(s, e, force) ==
  /\ At(s, "looking")
  /\ e \in Active(session[s].inc)
  /\ session' = [session EXCEPT ![s].who = e, ![s].step =
       IF force \/ session[s].known[session[s].inc].group # session[s].team
       THEN "clearing" ELSE "touching"]
  /\ UNCHANGED <<incident, row, incidentLock, rowLock>>

(* The active assignments are closed, not yet committed; an UPDATE that has *)
(* waited closes only what the notice has found, not what came meanwhile.   *)
NoticeClear(s) ==
  LET i == session[s].inc
  IN /\ At(s, "clearing")
     /\ \E C \in {Active(i), Active(i) \cap {session[s].who}} :
          rowLock' = [rowLock EXCEPT ![i] = [e \in Employees |-> IF e \in C THEN s ELSE @[e]]]
     /\ Go(s, "claiming")
     /\ UNCHANGED <<incident, row, incidentLock>>

NoticeClaim(s) ==
  /\ At(s, "claiming")
  /\ Full(session[s].team)
  /\ incidentLock' = [incidentLock EXCEPT ![session[s].inc] = s]
  /\ Go(s, "assigning")
  /\ UNCHANGED <<incident, row, rowLock>>

(* ValueError: the team has not its size; what was closed is committed. *)
NoticeRefused(s) ==
  LET i == session[s].inc
  IN /\ At(s, "claiming")
     /\ ~ Full(session[s].team)
     /\ row' = [row EXCEPT ![i] = [e \in Employees |->
          IF e \in Held(s, i) THEN Reassigned(@[e]) ELSE @[e]]]
     /\ Close(s)
     /\ UNCHANGED incident

(* An active assignment has come under the notice's key meanwhile. *)
Answering(s) ==
  {e \in Active(session[s].inc) \ Held(s, session[s].inc) :
     row[session[s].inc][e].key = session[s].team}

NoticeAnswered(s) ==
  /\ At(s, "assigning")
  /\ \E e \in Answering(s) : session' = [session EXCEPT ![s].who = e, ![s].step = "touching"]
  /\ UNCHANGED <<incident, row, incidentLock, rowLock>>

(* The rotation closes what is active and commits its choice. *)
NoticeAssign(s, e) ==
  LET i == session[s].inc
      t == session[s].team
  IN /\ At(s, "assigning")
     /\ Answering(s) = {}
     /\ e \in Members(t)
     /\ ~ Exists(i, e)
     /\ row' = [row EXCEPT ![i] = [f \in Employees |->
          IF f = e THEN Opened(t) ELSE IF @[f].active THEN Reassigned(@[f]) ELSE @[f]]]
     /\ incident' = [incident EXCEPT ![i] =
          IncidentWith(s, i, [state |-> "ASSIGNED", owner |-> e, group |-> t])]
     /\ Close(s)

(* uq_incident_emp_cycle: the member whose turn it is has had the incident. *)
NoticeConflict(s) ==
  /\ At(s, "assigning")
  /\ Answering(s) = {}
  /\ \E e \in Members(session[s].team) : Exists(session[s].inc, e)
  /\ Rollback(s)

(* The assignment that was found becomes the incident's owner and state. *)
NoticeTouch(s) ==
  LET i == session[s].inc
  IN /\ At(s, "touching")
     /\ row' = [row EXCEPT ![i] = [e \in Employees |->
          IF e \in Held(s, i) THEN Reassigned(@[e]) ELSE @[e]]]
     /\ incident' = [incident EXCEPT ![i] = IncidentWith(s, i, Touched(s))]
     /\ Close(s)

-----------------------------------------------------------------------------
(* Manual assignment and reassignment to employee e *)

(***************************************************************************)
(* The incident is locked and one active assignment read.  An employee who *)
(* has had the incident is refused, by reassignment with a query, by       *)
(* manual assignment when the insert hits uq_incident_emp_cycle; nobody    *)
(* inserts a row for him before the lock is released.                      *)
(***************************************************************************)
AssignBegin(s, i, e) ==
  /\ session[s].step = "idle"
  /\ "assign" \in Operations
  /\ incidentLock[i] = None
  /\ ~ Exists(i, e)
  /\ incidentLock' = [incidentLock EXCEPT ![i] = s]
  /\ \E f \in IF Active(i) = {} THEN {None} ELSE Active(i) :
       session' = [session EXCEPT ![s] =
         [Idle EXCEPT !.op = "assign", !.step = "replacing", !.inc = i, !.who = e, !.from = f,
                      !.read = IF f = None THEN None ELSE row[i][f],
                      !.known[i] = incident[i]]]
  /\ UNCHANGED <<incident, row, rowLock>>

AssignCommit(s) ==
  LET i == session[s].inc
      f == session[s].from
  IN /\ At(s, "replacing")
     /\ row' = [row EXCEPT ![i] = [e \in Employees |->
          CASE e = session[s].who -> Opened(None)
            [] e = f -> Flushed(@[e], session[s].read, Reassigned(session[s].read))
            [] OTHER -> @[e]]]
     /\ incident' = [incident EXCEPT ![i] = IncidentWith(s, i,
          [session[s].known[i] EXCEPT !.state = "ASSIGNED", !.owner = session[s].who])]
     /\ Close(s)

-----------------------------------------------------------------------------
(* The group send: incident i to every member of team t *)

GroupBegin(s, i, t) ==
  /\ Begin(s, "group", "gathering", i, t, None)
  /\ UNCHANGED <<incident, row, incidentLock, rowLock>>

GroupLock(s) ==
  /\ At(s, "gathering")
  /\ incidentLock' = [incidentLock EXCEPT ![session[s].inc] = s]
  /\ Go(s, "spreading")
  /\ UNCHANGED <<incident, row, rowLock>>

(* Rows there are made active again, with the status they have. *)
GroupCommit(s) ==
  LET i == session[s].inc
      t == session[s].team
      closed(r) == IF r.active THEN Reassigned(r) ELSE r
  IN /\ At(s, "spreading")
     /\ Full(t)
     /\ row' = [row EXCEPT ![i] = [e \in Employees |->
          IF e \notin Members(t) THEN closed(@[e])
          ELSE IF Exists(i, e) THEN [closed(@[e]) EXCEPT !.active = TRUE]
          ELSE Opened(None)]]
     /\ incident' = [incident EXCEPT ![i] =
          IncidentWith(s, i, [state |-> "ASSIGNED", owner |-> t, group |-> t])]
     /\ Close(s)

GroupRefused(s) ==
  /\ At(s, "spreading")
  /\ ~ Full(session[s].team)
  /\ Rollback(s)

-----------------------------------------------------------------------------
(* An engineer acknowledges, starts or completes *)

(* The active assignment is read, or one already completed. *)
EngineerBegin(s, i, e, op) ==
  /\ op \in {"acknowledge", "start", "complete"}
  /\ row[i][e].active \/ row[i][e].status = "COMPLETED"
  /\ op = "complete" => row[i][e].status # "COMPLETED"
  /\ session[s].step = "idle"
  /\ op \in Operations
  /\ session' = [session EXCEPT ![s] =
       [Idle EXCEPT !.op = op, !.inc = i, !.who = e, !.read = row[i][e],
                    !.step = IF op = "acknowledge" THEN "loading" ELSE "updating"]]
  /\ UNCHANGED <<incident, row, incidentLock, rowLock>>

(* Start and complete flush the assignment before they read the incident. *)
EngineerUpdate(s) ==
  LET i == session[s].inc
  IN /\ At(s, "updating")
     /\ rowLock' = [rowLock EXCEPT ![i][session[s].who] = s]
     /\ Go(s, "loading")
     /\ UNCHANGED <<incident, row, incidentLock>>

EngineerLoad(s) ==
  LET i == session[s].inc
  IN /\ At(s, "loading")
     /\ session' = [session EXCEPT ![s].step = "writing", ![s].known[i] = incident[i]]
     /\ UNCHANGED <<incident, row, incidentLock, rowLock>>

Status(op) == CASE op = "acknowledge" -> "ACKNOWLEDGED"
                [] op = "start"       -> "IN_PROGRESS"
                [] OTHER              -> "COMPLETED"

EngineerCommit(s) ==
  LET i == session[s].inc
      e == session[s].who
      read == session[s].read
  IN /\ At(s, "writing")
     /\ row' = [row EXCEPT ![i][e] = Flushed(@, read,
          [read EXCEPT !.status = Status(session[s].op),
                       !.active = @ /\ session[s].op # "complete"])]
     /\ incident' = [incident EXCEPT ![i] = IncidentWith(s, i, Work(s))]
     /\ Close(s)

(***************************************************************************)
(* An engineer who has no assignment acts on an incident that the engine   *)
(* has recommended to him in SHADOW mode.  The record of a recommendation  *)
(* outlives the mode, so that anybody may have the incident meanwhile.     *)
(***************************************************************************)
ShadowBegin(s, i, e, op) ==
  /\ op \in {"acknowledge", "start", "complete"}
  /\ "shadow" \in Operations
  /\ ~ row[i][e].active /\ row[i][e].status # "COMPLETED"
  /\ Begin(s, op, "provisioning", i, None, e)
  /\ UNCHANGED <<incident, row, incidentLock, rowLock>>

(* The incident's owner is updated, which locks it, the assignment inserted *)
(* beside those there are, and the engineer's action done, in one commit.   *)
ShadowCommit(s) ==
  LET i == session[s].inc
      e == session[s].who
      op == session[s].op
  IN /\ At(s, "provisioning")
     /\ ~ Exists(i, e)
     /\ row' = [row EXCEPT ![i][e] =
          [Opened(None) EXCEPT !.status = Status(op), !.active = op # "complete"]]
     /\ incident' = [incident EXCEPT ![i] = IncidentWith(s, i, [Work(s) EXCEPT !.owner = e])]
     /\ Close(s)

(* uq_incident_emp_cycle: he has had the incident before. *)
ShadowConflict(s) ==
  /\ At(s, "provisioning")
  /\ Exists(session[s].inc, session[s].who)
  /\ Rollback(s)

-----------------------------------------------------------------------------
(* The shift handoff: one scan over all active assignments *)

ScanBegin(s) ==
  /\ session[s].step = "idle"
  /\ "handoff" \in Operations
  /\ session' = [session EXCEPT ![s] =
       [Idle EXCEPT !.op = "handoff", !.step = "scanning",
          !.todo = {[inc |-> p[1], emp |-> p[2], row |-> row[p[1]][p[2]]] :
                      p \in {q \in Incidents \X Employees : q[2] \in Active(q[1])}}]]
  /\ UNCHANGED <<incident, row, incidentLock, rowLock>>

(* The incident of an assignment is loaded, once in a scan. *)
Loaded(s, i) == IF session[s].known[i] = None THEN incident[i] ELSE session[s].known[i]

(* Its engineer is on shift, or the incident is resolved. *)
ScanSkip(s, x) ==
  /\ session[s].step = "scanning"
  /\ x \in session[s].todo
  /\ session' = [session EXCEPT ![s].todo = @ \ {x}, ![s].known[x.inc] = Loaded(s, x.inc)]
  /\ UNCHANGED <<incident, row, incidentLock, rowLock>>

ScanPick(s, x) ==
  /\ session[s].step = "scanning"
  /\ x \in session[s].todo
  /\ Loaded(s, x.inc).state # "RESOLVED"
  /\ session' = [session EXCEPT ![s] =
       [session[s] EXCEPT !.step = "locking", !.todo = session[s].todo \ {x},
          !.known[x.inc] = Loaded(s, x.inc), !.inc = x.inc, !.who = x.emp, !.read = x.row]]
  /\ UNCHANGED <<incident, row, incidentLock, rowLock>>

(* The row is locked; its is_active is still the one the scan has read. *)
HandoffLock(s) ==
  /\ At(s, "locking")
  /\ IF session[s].read.active
     THEN /\ rowLock' = [rowLock EXCEPT ![session[s].inc][session[s].who] = s]
          /\ Go(s, "handing")
     ELSE Go(s, "scanning") /\ UNCHANGED rowLock
  /\ UNCHANGED <<incident, row, incidentLock>>

(* Colleagues of the incident's group; who has had it is not asked. *)
Eligible(s) ==
  LET group == session[s].known[session[s].inc].group
  IN {f \in Employees \ {session[s].who} : group = None \/ TeamOf[f] = group}

Handoff(s, f) ==
  LET i == session[s].inc
      new == [session[s].known[i] EXCEPT !.state = "ASSIGNED", !.owner = f]
  IN /\ At(s, "handing")
     /\ f \in Eligible(s)
     /\ ~ Exists(i, f)
     /\ row' = [row EXCEPT ![i] = [e \in Employees |->
          CASE e = f -> Opened(None)
            [] e = session[s].who -> Flushed(@[e], session[s].read, Reassigned(session[s].read))
            [] OTHER -> @[e]]]
     /\ incident' = [incident EXCEPT ![i] = IncidentWith(s, i, new)]
     /\ session' = [session EXCEPT ![s].step = "scanning", ![s].known[i] = new]
     /\ Release(s)

(* No eligible colleague is on shift: the administrators are told. *)
HandoffNobody(s) ==
  /\ session[s].step = "handing"
  /\ Go(s, "scanning")
  /\ Release(s)
  /\ UNCHANGED <<incident, row>>

(* The successor has had the incident: the insert fails and ends the scan. *)
HandoffConflict(s) ==
  /\ At(s, "handing")
  /\ \E f \in Eligible(s) : Exists(session[s].inc, f)
  /\ Rollback(s)

ScanEnd(s) ==
  /\ session[s].step = "scanning"
  /\ session[s].todo = {}
  /\ Rollback(s)

-----------------------------------------------------------------------------

(* PostgreSQL finds a deadlock and aborts one of the waiting transactions. *)
Abort(s) == Deadlocked(Waits, s) /\ Rollback(s)

(* The request dies: a crash, a lost connection, a cancelled client. *)
Die(s) == session[s].step # "idle" /\ Rollback(s)

Init ==
  /\ incident \in [Incidents -> [state : {"NEW"}, owner : {None}, group : Teams \cup {None}]]
  /\ row = [i \in Incidents |-> [e \in Employees |-> NoRow]]
  /\ incidentLock = [i \in Incidents |-> None]
  /\ rowLock = [i \in Incidents |-> [e \in Employees |-> None]]
  /\ session = [s \in Sessions |-> Idle]

Call(s) ==
  \/ \E i \in Incidents, t \in Teams : NoticeBegin(s, i, t) \/ GroupBegin(s, i, t)
  \/ \E i \in Incidents, e \in Employees : AssignBegin(s, i, e)
  \/ \E i \in Incidents, e \in Employees, op \in Kinds :
       EngineerBegin(s, i, e, op) \/ ShadowBegin(s, i, e, op)
  \/ ScanBegin(s)

Serve(s) ==
  \/ NoticeFindsNobody(s)
  \/ \E e \in Employees, force \in BOOLEAN : NoticeFinds(s, e, force)
  \/ NoticeClear(s)
  \/ NoticeClaim(s)
  \/ NoticeRefused(s)
  \/ NoticeAnswered(s)
  \/ \E e \in Employees : NoticeAssign(s, e)
  \/ NoticeConflict(s)
  \/ NoticeTouch(s)
  \/ AssignCommit(s)
  \/ GroupLock(s)
  \/ GroupCommit(s)
  \/ GroupRefused(s)
  \/ EngineerUpdate(s)
  \/ EngineerLoad(s)
  \/ EngineerCommit(s)
  \/ ShadowCommit(s)
  \/ ShadowConflict(s)
  \/ \E x \in session[s].todo : ScanSkip(s, x) \/ ScanPick(s, x)
  \/ HandoffLock(s)
  \/ \E f \in Employees : Handoff(s, f)
  \/ HandoffNobody(s)
  \/ HandoffConflict(s)
  \/ ScanEnd(s)
  \/ Abort(s)

Next == \E s \in Sessions : Call(s) \/ Serve(s) \/ Die(s)

Spec == Init /\ [][Next]_vars

(***************************************************************************)
(* As in TeamRotation: waiters get a lock in the order they came, and a    *)
(* session that does not wait runs on.                                     *)
(***************************************************************************)
FairSpec == Spec /\ \A s \in Sessions : SF_vars(Serve(s))

-----------------------------------------------------------------------------
(* Properties *)

(* Every variable has its type, and a row that is not there has no content. *)
TypeOK ==
  /\ incident \in [Incidents -> Incident]
  /\ row \in [Incidents -> [Employees -> Row]]
  /\ incidentLock \in [Incidents -> Sessions \cup {None}]
  /\ rowLock \in [Incidents -> [Employees -> Sessions \cup {None}]]
  /\ session \in [Sessions -> Session]
  /\ \A i \in Incidents, e \in Employees : Exists(i, e) \/ row[i][e] = NoRow

(***************************************************************************)
(* What the help page of incidents says: an incident has only one active   *)
(* personal assignment at any time.                                        *)
(***************************************************************************)
OneHolder == \A i \in Incidents : Cardinality(Active(i)) <= 1

(***************************************************************************)
(* An assignment that was closed is never open again, whatever a session   *)
(* that read it before does with its reading, but for the group send,      *)
(* which makes the rows of its members active on purpose.                  *)
(***************************************************************************)
ClosedStaysClosed ==
  [][\A i \in Incidents, e \in Employees :
       Exists(i, e) /\ ~ row[i][e].active =>
         ~ row'[i][e].active \/ \E s \in Sessions : session[s].inc = i /\ GroupCommit(s)]_vars

(* The scan hands over what somebody else has closed since it read it. *)
HandoffLate(s) ==
  /\ \E f \in Employees : Handoff(s, f)
  /\ ~ row[session[s].inc][session[s].who].active

Newcomers(i) == {e \in Employees : row'[i][e].active} \ Active(i)

(***************************************************************************)
(* An incident changes hands: whoever gets it gets it alone and from one   *)
(* who had it, unless nobody had it.  Only the group send, a handoff that  *)
(* comes too late, and an engineer who accepts a recommendation of the     *)
(* SHADOW mode, add to the holders there are.                              *)
(***************************************************************************)
HoldersReplaced ==
  [][\A i \in Incidents :
       \/ /\ Cardinality(Newcomers(i)) <= 1
          /\ Newcomers(i) # {} /\ Active(i) # {} => \E e \in Active(i) : ~ row'[i][e].active
       \/ \E s \in Sessions :
            session[s].inc = i /\ (GroupCommit(s) \/ HandoffLate(s) \/ ShadowCommit(s))]_vars

(* s waits for the incident that o has, and o for an assignment row that s has. *)
LockInversion(s, o) ==
  LET i == session[s].inc
  IN /\ session[o].inc = i
     /\ NeedsIncident(s) /\ incidentLock[i] = o
     /\ \E e \in NeedsRows(o) : rowLock[i][e] = s

(***************************************************************************)
(* Among the exclusive locks on incidents and on their assignment rows,    *)
(* the only deadlock is between two requests about one incident, of which  *)
(* one has taken the incident's lock before the rows' and the other a      *)
(* row's before the incident's.  Notices about two incidents can deadlock  *)
(* too, over the locks they share: NoticesDoNotCollide of TeamRotation.    *)
(***************************************************************************)
OnlyInversionsDeadlock ==
  \A s \in Sessions : Deadlocked(Waits, s) =>
    \E o \in Sessions : LockInversion(s, o) \/ LockInversion(o, s)

(***************************************************************************)
(* What the help page of My Work says: work completion is permanent, the   *)
(* record is archived.  A completed assignment keeps its status.           *)
(***************************************************************************)
CompletionIsPermanent ==
  [][\A i \in Incidents, e \in Employees :
       row[i][e].status = "COMPLETED" => row'[i][e].status = "COMPLETED"]_vars

(* Every request ends, whatever the order in which it takes its locks. *)
EveryRequestEnds == \A s \in Sessions : session[s].step # "idle" ~> session[s].step = "idle"

=============================================================================
