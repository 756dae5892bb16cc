----------------------- MODULE AssignmentDeskProofs -----------------------
(***************************************************************************)
(* Proofs about the requests that change assignments, for any incidents,   *)
(* teams, employees and number of sessions.  A row of an incident comes    *)
(* into being only under that incident's lock, or when nobody else has it, *)
(* so that an assignment which holds the lock finds the incident as its    *)
(* own reading has left it; and a flush writes only the columns that the   *)
(* session has changed, so that an old reading opens nothing.              *)
(***************************************************************************)
EXTENDS AssignmentDesk, FiniteSetTheorems, TLAPS

(* What the steps of a request have found out, and which request has them. *)
OnIncident == Steps \ {"idle", "scanning"}

OfTeam == {"looking", "clearing", "claiming", "assigning", "touching", "gathering", "spreading"}

OnRow == {"updating", "loading", "writing", "locking", "handing"}

Knows(x) ==
  /\ x.step \in OnIncident => x.inc \in Incidents
  /\ x.step \in OnIncident \ {"updating", "loading"} => x.known[x.inc] \in Incident
  /\ x.step \in OfTeam => x.team \in Teams
  /\ x.step \in OnRow \cup {"touching", "replacing"} => x.who \in Employees
  /\ x.step \in OnRow => x.read \in Row /\ x.read.status # "NONE"
  /\ x.step = "handing" => x.read.active
  /\ x.step = "replacing" /\ x.from # None => x.read \in Row /\ x.read.status # "NONE" /\ x.read.active
  /\ \A y \in x.todo : y.row.status # "NONE"
  /\ x.step \in {"gathering", "spreading"} => "group" \in Operations
  /\ x.step \in {"scanning", "locking", "handing"} => "handoff" \in Operations
  /\ x.step = "provisioning" => x.who \in Employees /\ "shadow" \in Operations

(* The rows a request has read are there. *)
Sees(x) ==
  /\ x.step \in OnRow => Exists(x.inc, x.who)
  /\ x.step = "replacing" /\ x.from # None => Exists(x.inc, x.from)
  /\ \A y \in x.todo : Exists(y.inc, y.emp)

(* Who decides about an incident's assignments has its lock. *)
Holds(s, x) == x.step \in {"assigning", "replacing", "spreading"} => incidentLock[x.inc] = s

(* The employee who is to get the incident has not had it. *)
Newcomer(x) == x.step = "replacing" => ~ Exists(x.inc, x.who)

Sound(s, x) == Knows(x) /\ Sees(x) /\ Holds(s, x) /\ Newcomer(x)

LockedRowsExist == \A i \in Incidents, e \in Employees : rowLock[i][e] # None => Exists(i, e)

DeskInv ==
  /\ TypeOK
  /\ LockedRowsExist
  /\ \A s \in Sessions : Sound(s, session[s])

(* An assignment replaces one who still has the incident, if anybody has. *)
Replacing(x) ==
  x.step = "replacing" =>
    IF x.from = None THEN Active(x.inc) = {} ELSE row[x.inc][x.from].active

(***************************************************************************)
(* A lock belongs to a session at work on what it locks: the incident's to *)
(* one that decides who gets it, a row's to one that has closed it, that   *)
(* writes its engineer's work or that hands it over.                       *)
(***************************************************************************)
LocksUsed(s, x, i) ==
  /\ incidentLock[i] = s =>
       x.inc = i /\ x.step \in {"assigning", "touching", "replacing", "spreading"}
  /\ \A e \in Employees : rowLock[i][e] = s =>
       /\ x.inc = i
       /\ x.step \in {"claiming", "assigning", "touching", "loading", "writing", "handing"}
       /\ x.step \in {"loading", "writing", "handing"} => e = x.who /\ x.op # "acknowledge"
       /\ x.step = "touching" => incidentLock[i] = s

Uses(s, x) ==
  /\ x.step \in {"updating", "scanning", "locking", "handing"} => x.op # "acknowledge"
  /\ \A i \in Incidents : LocksUsed(s, x, i)

LocksInUse == \A s \in Sessions : Uses(s, session[s])

HolderInv ==
  /\ DeskInv
  /\ LocksInUse
  /\ \A s \in Sessions : Replacing(session[s])

-----------------------------------------------------------------------------
(* Rows, incidents and sessions *)

LEMMA FlushedRow ==
  ASSUME NEW stored \in Row, NEW loaded \in Row, NEW new \in Row
  PROVE  /\ Flushed(stored, loaded, new) \in Row
         /\ Flushed(stored, loaded, new).status = IF new.status = loaded.status THEN stored.status
                                                 ELSE new.status
         /\ Flushed(stored, loaded, new).active = IF new.active = loaded.active THEN stored.active
                                                 ELSE new.active
<1>1. DOMAIN new = {"status", "active", "key"}
  BY DEF Row
<1> QED
  BY <1>1 DEF Flushed, Row

LEMMA FlushedIncident ==
  ASSUME NEW stored \in Incident, NEW loaded \in Incident, NEW new \in Incident
  PROVE  Flushed(stored, loaded, new) \in Incident
<1>1. DOMAIN new = {"state", "owner", "group"}
  BY DEF Incident
<1> QED
  BY <1>1 DEF Flushed, Incident

LEMMA RowsTyped ==
  /\ \A k \in Teams \cup {None} :
       Opened(k) \in Row /\ Opened(k).status # "NONE" /\ Opened(k).active
  /\ \A r \in Row :
       Reassigned(r) \in Row /\ Reassigned(r).status = "REASSIGNED" /\ ~ Reassigned(r).active
  /\ NoRow \in Row /\ ~ NoRow.active
  BY DEF Opened, Reassigned, NoRow, Row

LEMMA IdleSound == Idle \in Session /\ \A s : Sound(s, Idle)
<1>1. Idle \in Session
  BY DEF Idle, Session, Steps
<1> QED
  BY <1>1 DEF Sound, Knows, Sees, Holds, Newcomer, Idle, OnIncident, OfTeam, OnRow

LEMMA InitDesk == Init => DeskInv
<1> SUFFICES ASSUME Init PROVE DeskInv
  OBVIOUS
<1>1. TypeOK
  <2>1. incident \in [Incidents -> Incident]
    BY DEF Init, Incident
  <2>2. row \in [Incidents -> [Employees -> Row]]
    BY RowsTyped DEF Init
  <2> QED
    BY <2>1, <2>2, IdleSound DEF Init, TypeOK
<1>2. LockedRowsExist
  BY DEF Init, LockedRowsExist
<1>3. \A s \in Sessions : Sound(s, session[s])
  BY IdleSound DEF Init
<1> QED
  BY <1>1, <1>2, <1>3 DEF DeskInv

(* An active assignment is a row that is there. *)
LEMMA ActiveExists ==
  ASSUME TypeOK, NEW i \in Incidents, NEW e \in Active(i)
  PROVE  e \in Employees /\ Exists(i, e) /\ row[i][e].active
  BY RowsTyped DEF Active, Exists, TypeOK

-----------------------------------------------------------------------------
(* One session moves *)

NobodyElse(s, i) == \A o \in Sessions \ {s} : incidentLock[i] # o

(* Holders of the incident leave, or one comes and another, if there is one, leaves. *)
HolderMoves(i) ==
  \/ \A e \in Employees : row'[i][e].active => row[i][e].active
  \/ /\ \E e \in Employees : \A f \in Employees : row'[i][f].active => f = e \/ row[i][f].active
     /\ Active(i) # {} => \E f \in Active(i) : ~ row'[i][f].active

(***************************************************************************)
(* What a step of s may do to the tables: rows keep their types and never  *)
(* go, a row of an incident comes while nobody else has its lock, a closed *)
(* one stays closed unless s sends it to a group, and the incident has one *)
(* holder after another, unless s adds some.                               *)
(***************************************************************************)
RowsMove(s) ==
  /\ incident' \in [Incidents -> Incident]
  /\ row' \in [Incidents -> [Employees -> Row]]
  /\ \A i \in Incidents, e \in Employees :
       /\ Exists(i, e) => Exists(i, e)'
       /\ ~ Exists(i, e) /\ Exists(i, e)' => NobodyElse(s, i)
       /\ Exists(i, e)' \/ row'[i][e] = NoRow
       /\ Exists(i, e) /\ row'[i][e].active =>
            row[i][e].active \/ (session[s].inc = i /\ GroupCommit(s))
  /\ Replacing(session[s]) => \A i \in Incidents :
       \/ HolderMoves(i)
       \/ session[s].inc = i /\ (GroupCommit(s) \/ HandoffLate(s) \/ ShadowCommit(s))

(* And to the locks: the others keep theirs, and s takes those of rows there are. *)
LocksMove(s) ==
  /\ incidentLock' \in [Incidents -> Sessions \cup {None}]
  /\ rowLock' \in [Incidents -> [Employees -> Sessions \cup {None}]]
  /\ \A i \in Incidents : \A o \in Sessions \ {s} : incidentLock[i] = o => incidentLock'[i] = o
  /\ \A i \in Incidents, e \in Employees :
       rowLock'[i][e] = rowLock[i][e] \/ rowLock'[i][e] = None \/ Exists(i, e)

LEMMA SessionMoves ==
  ASSUME DeskInv, NEW s \in Sessions, NEW x \in Session, session' = [session EXCEPT ![s] = x],
         Sound(s, x)', RowsMove(s), LocksMove(s)
  PROVE  DeskInv'
<1>1. TypeOK'
  BY DEF DeskInv, TypeOK, RowsMove, LocksMove
<1>2. LockedRowsExist'
  BY DEF DeskInv, LockedRowsExist, RowsMove, LocksMove
<1>3. ASSUME NEW o \in Sessions PROVE Sound(o, session[o])'
  <2>1. CASE o = s
    BY <2>1 DEF DeskInv, TypeOK
  <2>2. CASE o # s
    <3>1. PICK y \in Session : y = session[o]
      BY DEF DeskInv, TypeOK
    <3>2. session'[o] = y
      BY <2>2, <3>1 DEF DeskInv, TypeOK
    <3>3. Sound(o, y)
      BY <3>1 DEF DeskInv
    <3>4. y.step # "idle" /\ y.step # "scanning" <=> y.step \in OnIncident
      BY DEF OnIncident, Session
    <3>5. y.step \in OnIncident => y.inc \in Incidents
      BY <3>3 DEF Sound, Knows
    <3>6. Sees(y)'
      <4>1. y.step \in OnRow => Exists(y.inc, y.who)'
        BY <3>3, <3>4, <3>5 DEF Sound, Knows, Sees, OnRow, RowsMove
      <4>2. y.step = "replacing" /\ y.from # None => Exists(y.inc, y.from)'
        BY <3>3, <3>4, <3>5 DEF Sound, Sees, RowsMove, Session
      <4>3. \A z \in y.todo : Exists(z.inc, z.emp)'
        BY <3>3 DEF Sound, Sees, RowsMove, Session
      <4> QED
        BY <4>1, <4>2, <4>3 DEF Sees
    <3>7. Holds(o, y)'
      BY <2>2, <3>3, <3>4, <3>5 DEF Sound, Holds, LocksMove
    <3>8. Newcomer(y)'
      <4> SUFFICES ASSUME y.step = "replacing" PROVE ~ Exists(y.inc, y.who)'
        BY DEF Newcomer
      <4>1. y.inc \in Incidents /\ y.who \in Employees
        BY <3>3, <3>4, <3>5 DEF Sound, Knows
      <4>2. incidentLock[y.inc] = o /\ ~ Exists(y.inc, y.who)
        BY <3>3 DEF Sound, Holds, Newcomer
      <4> QED
        BY <2>2, <4>1, <4>2 DEF RowsMove, NobodyElse
    <3> QED
      BY <3>2, <3>3, <3>6, <3>7, <3>8 DEF Sound
  <2> QED
    BY <2>1, <2>2
<1> QED
  BY <1>1, <1>2, <1>3 DEF DeskInv

(* A session that only reads. *)
LEMMA NothingMoves ==
  ASSUME DeskInv, NEW s \in Sessions, UNCHANGED <<incident, row>>
  PROVE  RowsMove(s) /\ (UNCHANGED <<incidentLock, rowLock>> => LocksMove(s))
  BY DEF DeskInv, TypeOK, RowsMove, LocksMove, Exists, HolderMoves

LEMMA ReadingStep ==
  ASSUME DeskInv, NEW s \in Sessions, NEW x \in Session, session' = [session EXCEPT ![s] = x],
         Sound(s, x), UNCHANGED <<incident, row, incidentLock, rowLock>>
  PROVE  DeskInv'
<1>1. Sound(s, x)'
  BY DEF Sound, Knows, Sees, Holds, Newcomer, Exists
<1> QED
  BY <1>1, SessionMoves, NothingMoves

(* The end of a transaction: its locks are free, and it knows nothing. *)
LEMMA ReleaseLocks ==
  ASSUME DeskInv, NEW s \in Sessions, Release(s)
  PROVE  LocksMove(s)
  BY DeskAssumption DEF DeskInv, TypeOK, Release, LocksMove

LEMMA CloseStep ==
  ASSUME DeskInv, NEW s \in Sessions, Close(s), RowsMove(s)
  PROVE  DeskInv'
<1>1. Sound(s, Idle)'
  BY DEF Sound, Knows, Sees, Holds, Newcomer, Idle, OnIncident, OfTeam, OnRow
<1> QED
  BY <1>1, IdleSound, ReleaseLocks, SessionMoves DEF Close

-----------------------------------------------------------------------------
(* Requests begin *)

LEMMA MySession ==
  ASSUME DeskInv, NEW s \in Sessions
  PROVE  session[s] \in Session /\ Sound(s, session[s])
  BY DEF DeskInv, TypeOK

LEMMA Learns ==
  ASSUME NEW known \in [Incidents -> Incident \cup {None}], NEW i \in Incidents, NEW c \in Incident
  PROVE  \E k \in [Incidents -> Incident \cup {None}] : k = [known EXCEPT ![i] = c] /\ k[i] \in Incident
<1>1. [known EXCEPT ![i] = c] \in [Incidents -> Incident \cup {None}] /\ [known EXCEPT ![i] = c][i] = c
  OBVIOUS
<1> QED
  BY <1>1

LEMMA BeginStep ==
  ASSUME DeskInv, NEW s \in Sessions, NEW i \in Incidents, NEW t \in Teams,
         NoticeBegin(s, i, t) \/ GroupBegin(s, i, t)
  PROVE  DeskInv'
<1>1. PICK op \in {"notice", "group"}, step \in {"looking", "gathering"} :
        /\ Begin(s, op, step, i, t, None)
        /\ step = "gathering" => "group" \in Operations
  BY DEF NoticeBegin, GroupBegin, Begin
<1>2. UNCHANGED <<incident, row, incidentLock, rowLock>>
  BY DEF NoticeBegin, GroupBegin
<1>3. PICK k \in [Incidents -> Incident \cup {None}] : k = [Idle.known EXCEPT ![i] = incident[i]] /\ k[i] \in Incident
  <2>1. Idle.known \in [Incidents -> Incident \cup {None}] /\ incident[i] \in Incident
    BY DEF Idle, DeskInv, TypeOK
  <2> QED
    BY <2>1, Learns
<1> DEFINE x == [Idle EXCEPT !.op = op, !.step = step, !.inc = i, !.team = t, !.who = None, !.known = k]
<1>4. session' = [session EXCEPT ![s] = x]
  BY <1>1, <1>3 DEF Begin, Idle
<1>5. /\ x \in Session
      /\ x.step = step /\ x.inc = i /\ x.team = t /\ x.known = k /\ x.todo = {}
  BY DEF Idle, Session, Kinds, Steps
<1> HIDE DEF x
<1>6. Sound(s, x)
  BY <1>1, <1>3, <1>5 DEF Sound, Knows, Sees, Holds, Newcomer, OnIncident, OfTeam, OnRow
<1> QED
  BY <1>2, <1>4, <1>5, <1>6, ReadingStep

LEMMA EngineerBeginStep ==
  ASSUME DeskInv, NEW s \in Sessions, NEW i \in Incidents, NEW e \in Employees, NEW op \in Kinds,
         EngineerBegin(s, i, e, op)
  PROVE  DeskInv'
<1>1. row[i][e] \in Row /\ Exists(i, e)
  BY RowsTyped DEF EngineerBegin, DeskInv, TypeOK, Exists
<1>2. PICK step \in {"loading", "updating"} :
        session' = [session EXCEPT ![s] =
          [Idle EXCEPT !.op = op, !.inc = i, !.who = e, !.read = row[i][e], !.step = step]]
  BY DEF EngineerBegin
<1> DEFINE x == [Idle EXCEPT !.op = op, !.inc = i, !.who = e, !.read = row[i][e], !.step = step]
<1>3. x \in Session /\ x.step = step /\ x.inc = i /\ x.who = e /\ x.read = row[i][e] /\ x.todo = {}
  BY <1>1 DEF Idle, Session, Steps
<1> HIDE DEF x
<1>4. Sound(s, x)
  BY <1>1, <1>3 DEF Sound, Knows, Sees, Holds, Newcomer, OnIncident, OfTeam, OnRow, Exists
<1>5. UNCHANGED <<incident, row, incidentLock, rowLock>> /\ session' = [session EXCEPT ![s] = x]
  BY <1>2 DEF EngineerBegin, x
<1> QED
  BY <1>3, <1>4, <1>5, ReadingStep

LEMMA ShadowBeginStep ==
  ASSUME DeskInv, NEW s \in Sessions, NEW i \in Incidents, NEW e \in Employees, NEW op \in Kinds,
         ShadowBegin(s, i, e, op)
  PROVE  DeskInv'
<1>1. Begin(s, op, "provisioning", i, None, e) /\ "shadow" \in Operations
  BY DEF ShadowBegin
<1>2. UNCHANGED <<incident, row, incidentLock, rowLock>>
  BY DEF ShadowBegin
<1>3. PICK k \in [Incidents -> Incident \cup {None}] : k = [Idle.known EXCEPT ![i] = incident[i]] /\ k[i] \in Incident
  <2>1. Idle.known \in [Incidents -> Incident \cup {None}] /\ incident[i] \in Incident
    BY DEF Idle, DeskInv, TypeOK
  <2> QED
    BY <2>1, Learns
<1> DEFINE x == [Idle EXCEPT !.op = op, !.step = "provisioning", !.inc = i, !.team = None, !.who = e, !.known = k]
<1>4. session' = [session EXCEPT ![s] = x]
  BY <1>1, <1>3 DEF Begin, Idle
<1>5. /\ x \in Session
      /\ x.step = "provisioning" /\ x.inc = i /\ x.who = e /\ x.known = k /\ x.todo = {}
  BY DEF Idle, Session, Steps
<1> HIDE DEF x
<1>6. Sound(s, x)
  BY <1>1, <1>3, <1>5 DEF Sound, Knows, Sees, Holds, Newcomer, OnIncident, OfTeam, OnRow
<1> QED
  BY <1>2, <1>4, <1>5, <1>6, ReadingStep

(* The scan reads all active assignments. *)
LEMMA ScanBeginStep == ASSUME DeskInv, NEW s \in Sessions, ScanBegin(s) PROVE DeskInv'
<1> DEFINE found == {[inc |-> p[1], emp |-> p[2], row |-> row[p[1]][p[2]]] :
                       p \in {q \in Incidents \X Employees : q[2] \in Active(q[1])}}
           x == [Idle EXCEPT !.op = "handoff", !.step = "scanning", !.todo = found]
<1>1. \A y \in found : /\ y.inc \in Incidents /\ y.emp \in Employees /\ y.row \in Row
                       /\ Exists(y.inc, y.emp) /\ y.row.status # "NONE"
                       /\ y \in [inc : Incidents, emp : Employees, row : Row]
  <2> SUFFICES ASSUME NEW p \in Incidents \X Employees, p[2] \in Active(p[1])
               PROVE  Exists(p[1], p[2]) /\ row[p[1]][p[2]] \in Row
    BY DEF Exists
  <2> QED
    BY ActiveExists DEF DeskInv, TypeOK
<1> HIDE DEF found
<1>2. found \subseteq [inc : Incidents, emp : Employees, row : Row]
  BY <1>1
<1>3. x \in Session /\ x.step = "scanning" /\ x.todo = found
  BY <1>2 DEF Idle, Session, Steps, Kinds
<1>4. UNCHANGED <<incident, row, incidentLock, rowLock>> /\ session' = [session EXCEPT ![s] = x]
      /\ "handoff" \in Operations
  BY DEF ScanBegin, found
<1> HIDE DEF x
<1>5. Sound(s, x)
  BY <1>1, <1>3, <1>4 DEF Sound, Knows, Sees, Holds, Newcomer, OnIncident, OfTeam, OnRow
<1> QED
  BY <1>3, <1>4, <1>5, ReadingStep

-----------------------------------------------------------------------------
(* Requests read *)

(* A notice goes on to a step of its own that needs no lock. *)
LEMMA NoticeReads ==
  ASSUME DeskInv, NEW s \in Sessions,
         NoticeFindsNobody(s) \/ NoticeAnswered(s)
         \/ \E e \in Employees, force \in BOOLEAN : NoticeFinds(s, e, force)
  PROVE  DeskInv'
<1>1. PICK y \in Session : y = session[s] /\ Sound(s, y)
  BY MySession
<1>2. UNCHANGED <<incident, row, incidentLock, rowLock>> /\ y.step \in {"looking", "assigning"}
  BY <1>1 DEF NoticeFindsNobody, NoticeAnswered, NoticeFinds, At
<1>3. PICK w \in Employees \cup {None}, step \in {"claiming", "clearing", "touching"} :
        /\ session' = [session EXCEPT ![s] = [y EXCEPT !.who = w, !.step = step]]
        /\ step = "touching" => w \in Employees
  <2>1. CASE NoticeFindsNobody(s)
    <3>1. y.who \in Employees \cup {None} /\ y = [y EXCEPT !.who = y.who]
      BY DEF Session
    <3>2. session' = [session EXCEPT ![s] = [y EXCEPT !.who = y.who, !.step = "claiming"]]
      BY <1>1, <2>1, <3>1 DEF NoticeFindsNobody, Go, Session, DeskInv, TypeOK
    <3> QED
      BY <3>1, <3>2
  <2>2. CASE NoticeAnswered(s)
    <3>1. PICK e \in Answering(s) : session' = [session EXCEPT ![s].who = e, ![s].step = "touching"]
      BY <2>2 DEF NoticeAnswered
    <3>2. e \in Employees
      BY <3>1 DEF Answering, Active
    <3>3. session' = [session EXCEPT ![s] = [y EXCEPT !.who = e, !.step = "touching"]]
      BY <1>1, <3>1 DEF Session, DeskInv, TypeOK
    <3> QED
      BY <3>2, <3>3
  <2>3. ASSUME NEW e \in Employees, NEW force \in BOOLEAN, NoticeFinds(s, e, force)
        PROVE  \E w \in Employees \cup {None}, step \in {"claiming", "clearing", "touching"} :
                 /\ session' = [session EXCEPT ![s] = [y EXCEPT !.who = w, !.step = step]]
                 /\ step = "touching" => w \in Employees
    <3>1. PICK step \in {"clearing", "touching"} : session' = [session EXCEPT ![s].who = e, ![s].step = step]
      BY <2>3 DEF NoticeFinds
    <3>2. session' = [session EXCEPT ![s] = [y EXCEPT !.who = e, !.step = step]]
      BY <1>1, <3>1 DEF Session, DeskInv, TypeOK
    <3> QED
      BY <3>2
  <2> QED
    BY <2>1, <2>2, <2>3
<1> DEFINE x == [y EXCEPT !.who = w, !.step = step]
<1>4. /\ x \in Session
      /\ x.step = step /\ x.who = w /\ x.inc = y.inc /\ x.team = y.team /\ x.known = y.known /\ x.todo = y.todo
  <2>1. step \in Steps
    BY DEF Steps
  <2>2. y.step \in Steps /\ y.who \in Employees \cup {None}
    BY DEF Session
  <2> QED
    BY <2>1, <2>2 DEF Session
<1>5. session' = [session EXCEPT ![s] = x]
  BY <1>3
<1> HIDE DEF x
<1>6. Sound(s, x)
  BY <1>1, <1>2, <1>3, <1>4 DEF Sound, Knows, Sees, Holds, Newcomer, OnIncident, OfTeam, OnRow, Steps
<1> QED
  BY <1>2, <1>4, <1>5, <1>6, ReadingStep

LEMMA EngineerLoadStep == ASSUME DeskInv, NEW s \in Sessions, EngineerLoad(s) PROVE DeskInv'
<1>1. PICK y \in Session : y = session[s] /\ Sound(s, y) /\ y.step = "loading"
  BY MySession DEF EngineerLoad, At
<1>2. y.inc \in Incidents
  BY <1>1 DEF Sound, Knows, OnIncident, Steps
<1>3. PICK k \in [Incidents -> Incident \cup {None}] :
        k = [y.known EXCEPT ![y.inc] = incident[y.inc]] /\ k[y.inc] \in Incident
  <2>1. y.known \in [Incidents -> Incident \cup {None}] /\ incident[y.inc] \in Incident
    BY <1>2 DEF Session, DeskInv, TypeOK
  <2> QED
    BY <1>2, <2>1, Learns
<1> DEFINE x == [y EXCEPT !.step = "writing", !.known = k]
<1>4. session' = [session EXCEPT ![s] = x] /\ UNCHANGED <<incident, row, incidentLock, rowLock>>
  BY <1>1, <1>2, <1>3 DEF EngineerLoad, Session, DeskInv, TypeOK
<1>5. /\ x \in Session
      /\ x.step = "writing" /\ x.who = y.who /\ x.inc = y.inc /\ x.known = k /\ x.todo = y.todo
      /\ x.read = y.read
  BY DEF Session, Steps
<1> HIDE DEF x
<1>6. Sound(s, x)
  BY <1>1, <1>2, <1>3, <1>5 DEF Sound, Knows, Sees, Holds, Newcomer, OnIncident, OfTeam, OnRow
<1> QED
  BY <1>4, <1>5, <1>6, ReadingStep

(* The scan takes one of its assignments, and what its incident is to it. *)
LEMMA ScanStep ==
  ASSUME DeskInv, NEW s \in Sessions, NEW z \in session[s].todo, ScanSkip(s, z) \/ ScanPick(s, z)
  PROVE  DeskInv'
<1>1. PICK y \in Session : y = session[s] /\ Sound(s, y) /\ y.step = "scanning"
  BY MySession DEF ScanSkip, ScanPick
<1>2. /\ z \in y.todo /\ z.inc \in Incidents /\ z.emp \in Employees /\ z.row \in Row
      /\ Exists(z.inc, z.emp) /\ z.row.status # "NONE"
  BY <1>1 DEF Sound, Knows, Sees, Session
<1>3. Loaded(s, z.inc) \in Incident
  BY <1>1, <1>2 DEF Loaded, Session, DeskInv, TypeOK
<1>4. PICK k \in [Incidents -> Incident \cup {None}] :
        k = [y.known EXCEPT ![z.inc] = Loaded(s, z.inc)] /\ k[z.inc] \in Incident
  <2>1. y.known \in [Incidents -> Incident \cup {None}]
    BY DEF Session
  <2> QED
    BY <1>2, <1>3, <2>1, Learns
<1>5. UNCHANGED <<incident, row, incidentLock, rowLock>>
  BY DEF ScanSkip, ScanPick
<1>6. CASE ScanSkip(s, z)
  <2> DEFINE x == [y EXCEPT !.todo = @ \ {z}, !.known = k]
  <2>1. session' = [session EXCEPT ![s] = x]
    BY <1>1, <1>4, <1>6 DEF ScanSkip, Session, DeskInv, TypeOK
  <2>2. x \in Session /\ x.step = "scanning" /\ x.todo = y.todo \ {z}
    BY <1>1 DEF Session
  <2> HIDE DEF x
  <2>3. Sound(s, x)
    BY <1>1, <2>2 DEF Sound, Knows, Sees, Holds, Newcomer, OnIncident, OfTeam, OnRow
  <2> QED
    BY <1>5, <2>1, <2>2, <2>3, ReadingStep
<1>7. CASE ScanPick(s, z)
  <2> DEFINE x == [y EXCEPT !.step = "locking", !.todo = @ \ {z}, !.known = k, !.inc = z.inc,
                            !.who = z.emp, !.read = z.row]
  <2>1. session' = [session EXCEPT ![s] = x]
    <3>1. session' = [session EXCEPT ![s] =
            [y EXCEPT !.step = "locking", !.todo = @ \ {z}, !.known[z.inc] = Loaded(s, z.inc),
                      !.inc = z.inc, !.who = z.emp, !.read = z.row]]
      BY <1>1, <1>7 DEF ScanPick
    <3> QED
      BY <1>4, <3>1 DEF Session
  <2>2. /\ x \in Session /\ x.step = "locking" /\ x.todo = y.todo \ {z} /\ x.known = k
        /\ x.inc = z.inc /\ x.who = z.emp /\ x.read = z.row
    BY <1>2 DEF Session, Steps
  <2> HIDE DEF x
  <2>3. Sound(s, x)
    BY <1>1, <1>2, <1>4, <2>2 DEF Sound, Knows, Sees, Holds, Newcomer, OnIncident, OfTeam, OnRow
  <2> QED
    BY <1>5, <2>1, <2>2, <2>3, ReadingStep
<1> QED
  BY <1>6, <1>7

-----------------------------------------------------------------------------
(* Requests take locks *)

LEMMA Goes ==
  ASSUME DeskInv, NEW s \in Sessions, NEW step \in Steps, Go(s, step),
         NEW y \in Session, y = session[s]
  PROVE  \E x \in Session :
           /\ session' = [session EXCEPT ![s] = x] /\ x.step = step /\ x.op = y.op
           /\ x.inc = y.inc /\ x.team = y.team /\ x.who = y.who /\ x.from = y.from /\ x.read = y.read
           /\ x.known = y.known /\ x.todo = y.todo
<1> DEFINE x == [y EXCEPT !.step = step]
<1>1. /\ x \in Session /\ x.step = step /\ x.op = y.op
      /\ x.inc = y.inc /\ x.team = y.team /\ x.who = y.who /\ x.from = y.from /\ x.read = y.read
      /\ x.known = y.known /\ x.todo = y.todo
  BY DEF Session
<1>2. session' = [session EXCEPT ![s] = x]
  BY DEF Go, DeskInv, TypeOK
<1> QED
  BY <1>1, <1>2

LEMMA LockFree ==
  ASSUME NEW s \in Sessions, Blockers(s) = {}
  PROVE  NeedsIncident(s) => NobodyElse(s, session[s].inc)
  BY DEF Blockers, NobodyElse

(* A session that locks the incident of its request, free till then. *)
LEMMA IncidentLocked ==
  ASSUME DeskInv, NEW s \in Sessions, NEW i \in Incidents, NobodyElse(s, i),
         incidentLock' = [incidentLock EXCEPT ![i] = s], UNCHANGED rowLock
  PROVE  LocksMove(s) /\ incidentLock'[i] = s
  BY DEF LocksMove, NobodyElse, DeskInv, TypeOK

(* A session that locks rows there are. *)
LEMMA RowsLocked ==
  ASSUME DeskInv, NEW s \in Sessions, NEW i \in Incidents, NEW E \in SUBSET Employees,
         \A e \in E : Exists(i, e),
         rowLock' = [rowLock EXCEPT ![i] = [e \in Employees |-> IF e \in E THEN s ELSE rowLock[i][e]]],
         UNCHANGED incidentLock
  PROVE  LocksMove(s)
<1>1. /\ rowLock \in [Incidents -> [Employees -> Sessions \cup {None}]]
      /\ incidentLock \in [Incidents -> Sessions \cup {None}]
  BY DEF DeskInv, TypeOK
<1>2. [e \in Employees |-> IF e \in E THEN s ELSE rowLock[i][e]] \in [Employees -> Sessions \cup {None}]
  BY <1>1
<1>3. rowLock' \in [Incidents -> [Employees -> Sessions \cup {None}]]
  BY <1>1, <1>2
<1>4. \A j \in Incidents, e \in Employees :
        rowLock'[j][e] = IF j = i /\ e \in E THEN s ELSE rowLock[j][e]
  BY <1>1
<1> QED
  BY <1>1, <1>3, <1>4 DEF LocksMove

LEMMA LockingStep ==
  ASSUME DeskInv, NEW s \in Sessions, NEW x \in Session, session' = [session EXCEPT ![s] = x],
         UNCHANGED <<incident, row>>, LocksMove(s), Knows(x), Sees(x), Holds(s, x)', Newcomer(x)
  PROVE  DeskInv'
<1>1. Sound(s, x)'
  BY DEF Sound, Knows, Sees, Newcomer, Exists
<1> QED
  BY <1>1, SessionMoves, NothingMoves

(* What a notice closes is active. *)
LEMMA Cleared ==
  ASSUME NEW s \in Sessions, NoticeClear(s), NEW i, i = session[s].inc
  PROVE  \E E \in SUBSET Active(i) :
           rowLock' = [rowLock EXCEPT ![i] = [e \in Employees |-> IF e \in E THEN s ELSE rowLock[i][e]]]
<1> DEFINE Locked(E) ==
      [rowLock EXCEPT ![i] = [e \in Employees |-> IF e \in E THEN s ELSE rowLock[i][e]]]
<1>1. PICK C \in {Active(i), Active(i) \cap {session[s].who}} : rowLock' = Locked(C)
  BY ZenonT(30) DEF NoticeClear
<1> HIDE DEF Locked
<1>2. C \in SUBSET Active(i)
  OBVIOUS
<1>3. \E E \in SUBSET Active(i) : rowLock' = Locked(E)
  BY <1>1, <1>2
<1> QED
  BY <1>3 DEF Locked

LEMMA NoticeClearStep == ASSUME DeskInv, NEW s \in Sessions, NoticeClear(s) PROVE DeskInv'
<1>1. PICK y \in Session : y = session[s] /\ Sound(s, y) /\ y.step = "clearing"
  BY MySession DEF NoticeClear, At
<1>2. y.inc \in Incidents /\ UNCHANGED <<incident, row, incidentLock>>
  BY <1>1 DEF NoticeClear, Sound, Knows, OnIncident, Steps
<1>3. PICK x \in Session :
        /\ session' = [session EXCEPT ![s] = x] /\ x.step = "claiming"
        /\ x.inc = y.inc /\ x.team = y.team /\ x.who = y.who /\ x.from = y.from /\ x.read = y.read
        /\ x.known = y.known /\ x.todo = y.todo
  BY <1>1, Goes DEF NoticeClear, Steps
<1>4. PICK E \in SUBSET Active(y.inc) :
        rowLock' = [rowLock EXCEPT ![y.inc] = [e \in Employees |-> IF e \in E THEN s ELSE rowLock[y.inc][e]]]
  BY <1>1, Cleared
<1>5. E \in SUBSET Employees
  BY DEF Active
<1>6. \A e \in E : Exists(y.inc, e)
  BY <1>2, <1>5, ActiveExists DEF DeskInv
<1>7. LocksMove(s)
  BY <1>2, <1>4, <1>5, <1>6, RowsLocked
<1>8. Knows(x) /\ Sees(x) /\ Holds(s, x)' /\ Newcomer(x)
  BY <1>1, <1>3 DEF Sound, Knows, Sees, Holds, Newcomer, OnIncident, OfTeam, OnRow, Steps
<1> QED
  BY <1>2, <1>3, <1>7, <1>8, LockingStep

(* The rotation, or the group send, gets the incident's lock. *)
LEMMA ClaimStep == ASSUME DeskInv, NEW s \in Sessions, NoticeClaim(s) \/ GroupLock(s) PROVE DeskInv'
<1>1. PICK y \in Session :
        y = session[s] /\ Sound(s, y) /\ y.step \in {"claiming", "gathering"} /\ Blockers(s) = {}
  BY MySession DEF NoticeClaim, GroupLock, At
<1>2. y.inc \in Incidents /\ UNCHANGED <<incident, row, rowLock>>
  BY <1>1 DEF NoticeClaim, GroupLock, Sound, Knows, OnIncident, Steps
<1>3. PICK step \in {"assigning", "spreading"} :
        Go(s, step) /\ (step = "spreading" => y.step = "gathering")
  BY <1>1 DEF NoticeClaim, GroupLock, At
<1>4. step \in Steps
  BY DEF Steps
<1>5. PICK x \in Session :
        /\ session' = [session EXCEPT ![s] = x] /\ x.step = step
        /\ x.inc = y.inc /\ x.team = y.team /\ x.who = y.who /\ x.from = y.from /\ x.read = y.read
        /\ x.known = y.known /\ x.todo = y.todo
  BY <1>1, <1>3, <1>4, Goes
<1>6. NobodyElse(s, y.inc)
  BY <1>1, LockFree DEF NeedsIncident
<1>7. incidentLock' = [incidentLock EXCEPT ![y.inc] = s]
  BY <1>1 DEF NoticeClaim, GroupLock
<1>8. LocksMove(s) /\ incidentLock'[y.inc] = s
  BY <1>2, <1>6, <1>7, IncidentLocked
<1>9. Knows(x) /\ Sees(x) /\ Holds(s, x)' /\ Newcomer(x)
  BY <1>1, <1>3, <1>5, <1>8 DEF Sound, Knows, Sees, Holds, Newcomer, OnIncident, OfTeam, OnRow, Steps
<1> QED
  BY <1>2, <1>5, <1>8, <1>9, LockingStep

(* An engineer's request, or the scan, locks the row it has read. *)
LEMMA RowLockStep == ASSUME DeskInv, NEW s \in Sessions, EngineerUpdate(s) \/ HandoffLock(s) PROVE DeskInv'
<1>1. PICK y \in Session :
        y = session[s] /\ Sound(s, y) /\ y.step \in {"updating", "locking"}
  BY MySession DEF EngineerUpdate, HandoffLock, At
<1>2. /\ y.inc \in Incidents /\ y.who \in Employees /\ Exists(y.inc, y.who)
      /\ UNCHANGED <<incident, row, incidentLock>>
  BY <1>1 DEF EngineerUpdate, HandoffLock, Sound, Knows, Sees, OnIncident, OnRow, Steps
<1>3. PICK step \in {"loading", "handing", "scanning"} :
        /\ Go(s, step)
        /\ step = "loading" => y.step = "updating"
        /\ step \in {"handing", "scanning"} => y.step = "locking"
        /\ step = "handing" => y.read.active
  BY <1>1 DEF EngineerUpdate, HandoffLock, At
<1>4. step \in Steps
  BY DEF Steps
<1>5. PICK x \in Session :
        /\ session' = [session EXCEPT ![s] = x] /\ x.step = step
        /\ x.inc = y.inc /\ x.team = y.team /\ x.who = y.who /\ x.from = y.from /\ x.read = y.read
        /\ x.known = y.known /\ x.todo = y.todo
  BY <1>1, <1>3, <1>4, Goes
<1>6. LocksMove(s)
  <2>1. CASE UNCHANGED rowLock
    BY <1>2, <2>1, NothingMoves
  <2>2. CASE rowLock' = [rowLock EXCEPT ![y.inc][y.who] = s]
    BY <1>2, <2>2 DEF LocksMove, DeskInv, TypeOK
  <2> QED
    BY <1>1, <2>1, <2>2 DEF EngineerUpdate, HandoffLock
<1>7. Knows(x) /\ Sees(x) /\ Holds(s, x)' /\ Newcomer(x)
  BY <1>1, <1>3, <1>5 DEF Sound, Knows, Sees, Holds, Newcomer, OnIncident, OfTeam, OnRow, Steps
<1> QED
  BY <1>2, <1>5, <1>6, <1>7, LockingStep

(* An assignment begins with the incident's lock and one who has it. *)
LEMMA AssignBeginStep ==
  ASSUME DeskInv, NEW s \in Sessions, NEW i \in Incidents, NEW e \in Employees, AssignBegin(s, i, e)
  PROVE  /\ DeskInv'
         /\ \E f \in Employees \cup {None} :
              /\ f # None => f \in Active(i)
              /\ f = None => Active(i) = {}
              /\ session'[s].inc = i /\ session'[s].from = f
<1>1. UNCHANGED <<incident, row, rowLock>> /\ ~ Exists(i, e) /\ incidentLock[i] = None
  BY DEF AssignBegin
<1>2. PICK f \in IF Active(i) = {} THEN {None} ELSE Active(i) :
        session' = [session EXCEPT ![s] =
          [Idle EXCEPT !.op = "assign", !.step = "replacing", !.inc = i, !.who = e, !.from = f,
                       !.read = IF f = None THEN None ELSE row[i][f],
                       !.known[i] = incident[i]]]
  BY DEF AssignBegin
<1>3. /\ f \in Employees \cup {None} /\ (f # None => f \in Active(i)) /\ (f = None => Active(i) = {})
  BY DeskAssumption DEF Active
<1>4. f # None => row[i][f] \in Row /\ Exists(i, f) /\ row[i][f].active
  BY <1>3, ActiveExists DEF DeskInv, TypeOK
<1>5. PICK r \in Row \cup {None} : r = IF f = None THEN None ELSE row[i][f]
  BY <1>4
<1>6. PICK k \in [Incidents -> Incident \cup {None}] : k = [Idle.known EXCEPT ![i] = incident[i]] /\ k[i] \in Incident
  <2>1. Idle.known \in [Incidents -> Incident \cup {None}] /\ incident[i] \in Incident
    BY DEF Idle, DeskInv, TypeOK
  <2> QED
    BY <2>1, Learns
<1> DEFINE x == [Idle EXCEPT !.op = "assign", !.step = "replacing", !.inc = i, !.who = e, !.from = f,
                             !.read = r, !.known = k]
<1>7. session' = [session EXCEPT ![s] = x]
  BY <1>2, <1>5, <1>6 DEF Idle
<1>8. /\ x \in Session /\ x.step = "replacing" /\ x.inc = i /\ x.who = e /\ x.from = f
      /\ x.read = r /\ x.known = k /\ x.todo = {}
  BY <1>3 DEF Idle, Session, Kinds, Steps
<1> HIDE DEF x
<1>9. LocksMove(s) /\ incidentLock'[i] = s
  <2>1. NobodyElse(s, i)
    BY <1>1, DeskAssumption DEF NobodyElse
  <2> QED
    BY <1>1, <2>1, IncidentLocked DEF AssignBegin
<1>10. Knows(x) /\ Sees(x) /\ Holds(s, x)' /\ Newcomer(x)
  BY <1>1, <1>4, <1>5, <1>6, <1>8, <1>9
     DEF Knows, Sees, Holds, Newcomer, OnIncident, OfTeam, OnRow, Exists
<1>11. session'[s] = x
  BY <1>7 DEF DeskInv, TypeOK
<1> QED
  BY <1>1, <1>3, <1>7, <1>8, <1>9, <1>10, <1>11, LockingStep

-----------------------------------------------------------------------------
(* Requests write *)

LEMMA WrittenIncident ==
  ASSUME DeskInv, NEW s \in Sessions, NEW i \in Incidents, session[s].known[i] \in Incident,
         NEW new \in Incident, incident' = [incident EXCEPT ![i] = IncidentWith(s, i, new)]
  PROVE  incident' \in [Incidents -> Incident]
<1>1. incident \in [Incidents -> Incident]
  BY DEF DeskInv, TypeOK
<1>2. PICK c \in Incident : c = IncidentWith(s, i, new)
  BY <1>1, FlushedIncident DEF IncidentWith
<1> QED
  BY <1>1, <1>2

(* What becomes of one row of i, in a step of s. *)
RowMoves(s, i, e, new) ==
  /\ new \in Row
  /\ Exists(i, e) => new.status # "NONE"
  /\ ~ Exists(i, e) /\ new.status # "NONE" => NobodyElse(s, i)
  /\ new.status # "NONE" \/ new = NoRow
  /\ Exists(i, e) /\ new.active => row[i][e].active \/ GroupCommit(s)

LEMMA RowsWritten ==
  ASSUME DeskInv, NEW s \in Sessions, NEW i \in Incidents, NEW r, DOMAIN r = Employees,
         r = [e \in Employees |-> r[e]], session[s].inc = i,
         row' = [row EXCEPT ![i] = r], incident' \in [Incidents -> Incident],
         \A e \in Employees : RowMoves(s, i, e, r[e]),
         Replacing(session[s]) =>
           \/ \A e \in Employees : r[e].active => row[i][e].active
           \/ /\ \E e \in Employees : \A f \in Employees : r[f].active => f = e \/ row[i][f].active
              /\ Active(i) # {} => \E f \in Active(i) : ~ r[f].active
           \/ GroupCommit(s) \/ HandoffLate(s) \/ ShadowCommit(s)
  PROVE  RowsMove(s)
<1>1. row \in [Incidents -> [Employees -> Row]]
  BY DEF DeskInv, TypeOK
<1>2. r \in [Employees -> Row]
  BY DEF RowMoves
<1>3. row' \in [Incidents -> [Employees -> Row]] /\ row'[i] = r
  BY <1>1, <1>2
<1>4. \A j \in Incidents : j # i => row'[j] = row[j]
  BY <1>1
<1>5. ASSUME NEW j \in Incidents, NEW e \in Employees
      PROVE  /\ Exists(j, e) => Exists(j, e)'
             /\ ~ Exists(j, e) /\ Exists(j, e)' => NobodyElse(s, j)
             /\ Exists(j, e)' \/ row'[j][e] = NoRow
             /\ Exists(j, e) /\ row'[j][e].active =>
                  row[j][e].active \/ (session[s].inc = j /\ GroupCommit(s))
  <2>1. CASE j = i
    BY <1>3, <2>1 DEF RowMoves, Exists
  <2>2. CASE j # i
    BY <1>4, <2>2 DEF Exists, DeskInv, TypeOK
  <2> QED
    BY <2>1, <2>2
<1>6. ASSUME Replacing(session[s]), NEW j \in Incidents
      PROVE  \/ HolderMoves(j)
             \/ session[s].inc = j /\ (GroupCommit(s) \/ HandoffLate(s) \/ ShadowCommit(s))
  <2>1. CASE j = i
    BY <1>3, <1>6, <2>1 DEF HolderMoves
  <2>2. CASE j # i
    BY <1>4, <2>2 DEF HolderMoves
  <2> QED
    BY <2>1, <2>2
<1> QED
  BY <1>3, <1>5, <1>6 DEF RowsMove

(* A row that is closed, or left alone. *)
LEMMA ClosedRow ==
  ASSUME DeskInv, NEW s \in Sessions, NEW i \in Incidents, NEW e \in Employees
  PROVE  /\ RowMoves(s, i, e, row[i][e])
         /\ Exists(i, e) => RowMoves(s, i, e, Reassigned(row[i][e])) /\ ~ Reassigned(row[i][e]).active
<1>1. row[i][e] \in Row
  BY DEF DeskInv, TypeOK
<1>2. RowMoves(s, i, e, row[i][e])
  BY <1>1 DEF RowMoves, DeskInv, TypeOK, Exists
<1>3. Exists(i, e) => RowMoves(s, i, e, Reassigned(row[i][e])) /\ ~ Reassigned(row[i][e]).active
  BY <1>1, RowsTyped DEF RowMoves
<1> QED
  BY <1>2, <1>3

(* A row that is opened for an employee who has not had the incident. *)
LEMMA OpenedRow ==
  ASSUME DeskInv, NEW s \in Sessions, NEW i \in Incidents, NEW e \in Employees, NEW k \in Teams \cup {None},
         ~ Exists(i, e), NobodyElse(s, i)
  PROVE  RowMoves(s, i, e, Opened(k))
  BY RowsTyped DEF RowMoves

(* A row that is flushed, after a reading that was active or stays closed. *)
LEMMA WrittenRow ==
  ASSUME DeskInv, NEW s \in Sessions, NEW i \in Incidents, NEW e \in Employees, Exists(i, e),
         NEW read \in Row, NEW new \in Row, new.status # "NONE",
         new.active => read.active
  PROVE  /\ RowMoves(s, i, e, Flushed(row[i][e], read, new))
         /\ Flushed(row[i][e], read, new).active => row[i][e].active
         /\ read.active /\ ~ new.active => ~ Flushed(row[i][e], read, new).active
<1>1. PICK old \in Row : old = row[i][e]
  BY DEF DeskInv, TypeOK
<1>2. PICK z \in Row : z = Flushed(old, read, new)
  BY FlushedRow
<1>3. /\ z.status = IF new.status = read.status THEN old.status ELSE new.status
      /\ z.active = IF new.active = read.active THEN old.active ELSE new.active
  BY <1>2, FlushedRow
<1>4. old.status # "NONE"
  BY <1>1 DEF Exists
<1>5. z.status # "NONE"
  BY <1>3, <1>4
<1>6. old.active \in BOOLEAN /\ z.active \in BOOLEAN /\ read.active \in BOOLEAN /\ new.active \in BOOLEAN
  BY DEF Row
<1>7. z.active => old.active
  BY <1>3, <1>6
<1>8. read.active /\ ~ new.active => ~ z.active
  BY <1>3, <1>6
<1>9. RowMoves(s, i, e, z)
  BY <1>1, <1>5, <1>7 DEF RowMoves
<1> QED
  BY <1>1, <1>2, <1>7, <1>8, <1>9

(* A transaction that ends without writing. *)
LEMMA RollbackStep == ASSUME DeskInv, NEW s \in Sessions, Rollback(s) PROVE DeskInv' /\ RowsMove(s)
  BY CloseStep, NothingMoves DEF Rollback

LEMMA HandoffNobodyStep ==
  ASSUME DeskInv, NEW s \in Sessions, HandoffNobody(s)
  PROVE  DeskInv' /\ RowsMove(s)
<1>1. PICK y \in Session : y = session[s] /\ Sound(s, y) /\ y.step = "handing"
  BY MySession DEF HandoffNobody
<1>2. PICK x \in Session :
        /\ session' = [session EXCEPT ![s] = x] /\ x.step = "scanning"
        /\ x.inc = y.inc /\ x.team = y.team /\ x.who = y.who /\ x.from = y.from /\ x.read = y.read
        /\ x.known = y.known /\ x.todo = y.todo
  BY <1>1, Goes DEF HandoffNobody, Steps
<1>3. LocksMove(s) /\ RowsMove(s) /\ UNCHANGED <<incident, row>>
  BY ReleaseLocks, NothingMoves DEF HandoffNobody
<1>4. Knows(x) /\ Sees(x) /\ Holds(s, x)' /\ Newcomer(x)
  BY <1>1, <1>2 DEF Sound, Knows, Sees, Holds, Newcomer, OnIncident, OfTeam, OnRow
<1> QED
  BY <1>2, <1>3, <1>4, LockingStep

(* A notice closes what it holds, alone or together with the incident. *)
LEMMA HeldClosed ==
  ASSUME DeskInv, NEW s \in Sessions, NEW i \in Incidents, session[s].inc = i,
         incident' \in [Incidents -> Incident],
         row' = [row EXCEPT ![i] = [e \in Employees |->
                   IF e \in Held(s, i) THEN Reassigned(row[i][e]) ELSE row[i][e]]]
  PROVE  RowsMove(s)
<1>1. PICK r : r = [e \in Employees |-> IF e \in Held(s, i) THEN Reassigned(row[i][e]) ELSE row[i][e]]
  OBVIOUS
<1>2. \A e \in Held(s, i) : Exists(i, e)
  BY DeskAssumption DEF Held, DeskInv, LockedRowsExist
<1>3. \A e \in Employees : RowMoves(s, i, e, r[e]) /\ (r[e].active => row[i][e].active)
  BY <1>1, <1>2, ClosedRow
<1> QED
  BY <1>1, <1>3, RowsWritten

LEMMA NoticeEnds ==
  ASSUME DeskInv, NEW s \in Sessions, NoticeRefused(s) \/ NoticeTouch(s)
  PROVE  DeskInv' /\ RowsMove(s)
<1>1. PICK y \in Session : y = session[s] /\ Sound(s, y) /\ y.step \in {"claiming", "touching"}
  BY MySession DEF NoticeRefused, NoticeTouch, At
<1>2. y.inc \in Incidents /\ y.known[y.inc] \in Incident
  BY <1>1 DEF Sound, Knows, OnIncident, Steps
<1>3. incident' \in [Incidents -> Incident]
  <2>1. CASE NoticeRefused(s)
    BY <2>1 DEF NoticeRefused, DeskInv, TypeOK
  <2>2. CASE NoticeTouch(s)
    <3>1. y.step = "touching"
      BY <1>1, <2>2 DEF NoticeTouch, At
    <3>2. y.who \in Employees
      BY <1>1, <3>1 DEF Sound, Knows
    <3>3. Touched(s) = [y.known[y.inc] EXCEPT !.state = "ASSIGNED", !.owner = y.who]
      BY <1>1 DEF Touched
    <3>4. [y.known[y.inc] EXCEPT !.state = "ASSIGNED", !.owner = y.who] \in Incident
      BY <1>2, <3>2 DEF Incident
    <3>5. PICK new \in Incident : new = Touched(s)
      BY <3>3, <3>4
    <3>6. incident' = [incident EXCEPT ![y.inc] = IncidentWith(s, y.inc, new)]
      BY <1>1, <2>2, <3>5 DEF NoticeTouch
    <3> QED
      BY <1>1, <1>2, <3>6, WrittenIncident
  <2> QED
    BY <2>1, <2>2
<1>4. row' = [row EXCEPT ![y.inc] = [e \in Employees |->
                IF e \in Held(s, y.inc) THEN Reassigned(row[y.inc][e]) ELSE row[y.inc][e]]]
  BY <1>1 DEF NoticeRefused, NoticeTouch
<1>5. RowsMove(s)
  BY <1>1, <1>2, <1>3, <1>4, HeldClosed
<1>6. Close(s)
  BY DEF NoticeRefused, NoticeTouch
<1> QED
  BY <1>5, <1>6, CloseStep

(* The lock that s has, nobody else has. *)
LEMMA LockedAlone ==
  ASSUME NEW s \in Sessions, NEW i \in Incidents, incidentLock[i] = s
  PROVE  NobodyElse(s, i)
  BY DEF NobodyElse

LEMMA NoticeAssignStep ==
  ASSUME DeskInv, NEW s \in Sessions, NEW e \in Employees, NoticeAssign(s, e)
  PROVE  DeskInv' /\ RowsMove(s)
<1>1. PICK y \in Session : y = session[s] /\ Sound(s, y) /\ y.step = "assigning"
  BY MySession DEF NoticeAssign, At
<1>2. y.inc \in Incidents /\ y.known[y.inc] \in Incident /\ y.team \in Teams
  BY <1>1 DEF Sound, Knows, OnIncident, OfTeam, Steps
<1>3. PICK i \in Incidents : i = y.inc
  BY <1>2
<1>4. NobodyElse(s, i)
  BY <1>1, <1>3, LockedAlone DEF Sound, Holds
<1>5. ~ Exists(i, e) /\ Close(s)
  BY <1>1, <1>3 DEF NoticeAssign
<1>6. incident' \in [Incidents -> Incident]
  <2>1. PICK new \in Incident : new = [state |-> "ASSIGNED", owner |-> e, group |-> y.team]
    BY <1>2 DEF Incident
  <2> QED
    BY <1>1, <1>2, <1>3, <2>1, WrittenIncident DEF NoticeAssign
<1>7. PICK r : r = [f \in Employees |->
                     IF f = e THEN Opened(y.team)
                     ELSE IF row[i][f].active THEN Reassigned(row[i][f]) ELSE row[i][f]]
  OBVIOUS
<1>8. row' = [row EXCEPT ![i] = r]
  BY <1>1, <1>3, <1>7 DEF NoticeAssign
<1>9. ASSUME NEW f \in Employees PROVE RowMoves(s, i, f, r[f]) /\ (r[f].active => f = e)
  <2>1. CASE f = e
    BY <1>2, <1>4, <1>5, <1>7, <2>1, OpenedRow
  <2>2. CASE f # e /\ row[i][f].active
    <3>1. Exists(i, f)
      BY <2>2, ActiveExists DEF Active, DeskInv
    <3> QED
      BY <1>7, <2>2, <3>1, ClosedRow
  <2>3. CASE f # e /\ ~ row[i][f].active
    BY <1>7, <2>3, ClosedRow
  <2> QED
    BY <2>1, <2>2, <2>3
<1>10. Active(i) # {} => \E f \in Active(i) : ~ r[f].active
  BY <1>5, <1>9, ActiveExists DEF DeskInv
<1>11. RowsMove(s)
  <2>1. DOMAIN r = Employees /\ r = [f \in Employees |-> r[f]]
    BY <1>7
  <2> QED
    BY <1>1, <1>3, <1>6, <1>8, <1>9, <1>10, <2>1, RowsWritten
<1> QED
  BY <1>5, <1>11, CloseStep

(***************************************************************************)
(* An assignment opens a row for its newcomer and closes the one it has    *)
(* read; there is no other while it has the lock.                          *)
(***************************************************************************)
LEMMA AssignCommitStep ==
  ASSUME DeskInv, NEW s \in Sessions, AssignCommit(s)
  PROVE  DeskInv' /\ RowsMove(s)
<1>1. PICK y \in Session : y = session[s] /\ Sound(s, y) /\ y.step = "replacing"
  BY MySession DEF AssignCommit, At
<1>2. PICK i \in Incidents, e \in Employees : i = y.inc /\ e = y.who
  BY <1>1 DEF Sound, Knows, OnIncident, Steps
<1>3. y.known[i] \in Incident /\ ~ Exists(i, e)
  BY <1>1, <1>2 DEF Sound, Knows, Newcomer, OnIncident, Steps
<1>4. NobodyElse(s, i) /\ Close(s)
  BY <1>1, <1>2, LockedAlone DEF Sound, Holds, AssignCommit
<1>5. y.from # None => /\ y.read \in Row /\ y.read.status # "NONE" /\ y.read.active
                       /\ Exists(i, y.from) /\ y.from # e
  BY <1>1, <1>2, <1>3 DEF Sound, Knows, Sees
<1>6. incident' \in [Incidents -> Incident]
  <2>1. [y.known[i] EXCEPT !.state = "ASSIGNED", !.owner = e] \in Incident
    BY <1>3 DEF Incident
  <2>2. PICK new \in Incident : new = [y.known[i] EXCEPT !.state = "ASSIGNED", !.owner = e]
    BY <2>1
  <2>3. incident' = [incident EXCEPT ![i] = IncidentWith(s, i, new)]
    BY <1>1, <1>2, <2>2 DEF AssignCommit
  <2> QED
    BY <1>1, <1>3, <2>3, WrittenIncident
<1>7. PICK r : r = [f \in Employees |->
                     CASE f = e -> Opened(None)
                       [] f = y.from -> Flushed(row[i][f], y.read, Reassigned(y.read))
                       [] OTHER -> row[i][f]]
  OBVIOUS
<1>8. row' = [row EXCEPT ![i] = r]
  BY <1>1, <1>2, <1>7 DEF AssignCommit
<1>9. ASSUME NEW f \in Employees
      PROVE  /\ RowMoves(s, i, f, r[f])
             /\ r[f].active => f = e \/ row[i][f].active
             /\ f = y.from => ~ r[f].active
  <2>1. CASE f = e
    <3>1. r[f] = Opened(None)
      BY <1>3, <1>5, <1>7, <2>1, DeskAssumption
    <3>2. f # y.from
      BY <1>5, <2>1, DeskAssumption
    <3> QED
      BY <1>3, <1>4, <2>1, <3>1, <3>2, OpenedRow
  <2>2. CASE f # e /\ f = y.from
    <3>1. y.read \in Row /\ y.read.status # "NONE" /\ y.read.active /\ Exists(i, f)
      BY <1>5, <2>2, DeskAssumption
    <3>2. Reassigned(y.read) \in Row /\ Reassigned(y.read).status # "NONE" /\ ~ Reassigned(y.read).active
      BY <3>1, RowsTyped
    <3>3. r[f] = Flushed(row[i][f], y.read, Reassigned(y.read))
      BY <1>7, <2>2
    <3> QED
      BY <3>1, <3>2, <3>3, WrittenRow
  <2>3. CASE f # e /\ f # y.from
    <3>1. r[f] = row[i][f]
      BY <1>7, <2>3
    <3> QED
      BY <2>3, <3>1, ClosedRow
  <2> QED
    BY <2>1, <2>2, <2>3
<1>10. ASSUME Replacing(y), Active(i) # {} PROVE \E f \in Active(i) : ~ r[f].active
  <2>1. y.from # None /\ row[i][y.from].active
    BY <1>1, <1>2, <1>10 DEF Replacing
  <2>2. y.from \in Employees
    BY <2>1 DEF Session
  <2> QED
    BY <1>9, <2>1, <2>2 DEF Active
<1>11. RowsMove(s)
  <2>1. DOMAIN r = Employees /\ r = [f \in Employees |-> r[f]]
    BY <1>7
  <2> QED
    BY <1>1, <1>2, <1>6, <1>8, <1>9, <1>10, <2>1, RowsWritten
<1> QED
  BY <1>4, <1>11, CloseStep

LEMMA GroupCommitStep ==
  ASSUME DeskInv, NEW s \in Sessions, GroupCommit(s)
  PROVE  DeskInv' /\ RowsMove(s)
<1>1. PICK y \in Session : y = session[s] /\ Sound(s, y) /\ y.step = "spreading"
  BY MySession DEF GroupCommit, At
<1>2. PICK i \in Incidents, t \in Teams : i = y.inc /\ t = y.team
  BY <1>1 DEF Sound, Knows, OnIncident, OfTeam, Steps
<1>3. y.known[i] \in Incident /\ "group" \in Operations
  BY <1>1, <1>2 DEF Sound, Knows, OnIncident, Steps
<1>4. NobodyElse(s, i) /\ Close(s)
  BY <1>1, <1>2, LockedAlone DEF Sound, Holds, GroupCommit
<1>5. incident' \in [Incidents -> Incident]
  <2>1. PICK new \in Incident : new = [state |-> "ASSIGNED", owner |-> t, group |-> t]
    BY DEF Incident
  <2> QED
    BY <1>1, <1>2, <1>3, <2>1, WrittenIncident DEF GroupCommit
<1> DEFINE closed(x) == IF x.active THEN Reassigned(x) ELSE x
<1>6. PICK r : r = [e \in Employees |->
                     IF e \notin Members(t) THEN closed(row[i][e])
                     ELSE IF Exists(i, e) THEN [closed(row[i][e]) EXCEPT !.active = TRUE]
                     ELSE Opened(None)]
  OBVIOUS
<1>7. row' = [row EXCEPT ![i] = r]
  BY <1>1, <1>2, <1>6 DEF GroupCommit
<1>8. ASSUME NEW e \in Employees PROVE RowMoves(s, i, e, r[e])
  <2>1. PICK c \in Row : /\ c = closed(row[i][e])
                         /\ RowMoves(s, i, e, c)
    <3>1. row[i][e] \in Row
      BY DEF DeskInv, TypeOK
    <3>2. CASE row[i][e].active
      <4>1. Exists(i, e)
        BY <3>2, ActiveExists DEF Active, DeskInv
      <4> QED
        BY <3>1, <3>2, <4>1, ClosedRow, RowsTyped
    <3>3. CASE ~ row[i][e].active
      BY <3>1, <3>3, ClosedRow
    <3> QED
      BY <3>2, <3>3
  <2>2. CASE e \notin Members(t)
    BY <1>6, <2>1, <2>2
  <2>3. CASE e \in Members(t) /\ Exists(i, e)
    <3>1. PICK z \in Row : z = [c EXCEPT !.active = TRUE] /\ z.status = c.status
      <4>1. [c EXCEPT !.active = TRUE] \in Row /\ [c EXCEPT !.active = TRUE].status = c.status
        BY DEF Row
      <4> QED
        BY <4>1
    <3>2. r[e] = z
      BY <1>6, <2>1, <2>3, <3>1
    <3> QED
      BY <1>3, <2>1, <2>3, <3>1, <3>2 DEF RowMoves
  <2>4. CASE e \in Members(t) /\ ~ Exists(i, e)
    BY <1>4, <1>6, <2>4, OpenedRow
  <2> QED
    BY <2>2, <2>3, <2>4
<1>9. RowsMove(s)
  <2>1. DOMAIN r = Employees /\ r = [f \in Employees |-> r[f]]
    BY <1>6
  <2> QED
    BY <1>1, <1>2, <1>5, <1>7, <1>8, <2>1, RowsWritten
<1> QED
  BY <1>4, <1>9, CloseStep

(* An engineer's flush opens nothing: it writes is_active to close only. *)
LEMMA EngineerCommitStep ==
  ASSUME DeskInv, NEW s \in Sessions, EngineerCommit(s)
  PROVE  DeskInv' /\ RowsMove(s)
<1>1. PICK y \in Session : y = session[s] /\ Sound(s, y) /\ y.step = "writing"
  BY MySession DEF EngineerCommit, At
<1>2. PICK i \in Incidents, e \in Employees : i = y.inc /\ e = y.who
  BY <1>1 DEF Sound, Knows, OnIncident, OnRow, Steps
<1>3. /\ y.known[i] \in Incident /\ y.read \in Row /\ y.read.status # "NONE" /\ Exists(i, e)
      /\ Close(s)
  BY <1>1, <1>2 DEF Sound, Knows, Sees, OnIncident, OnRow, Steps, EngineerCommit
<1>4. incident' \in [Incidents -> Incident]
  <2>1. PICK c \in Incident : c = y.known[i]
    BY <1>3
  <2>2. \A v \in {"ACKNOWLEDGED", "IN_PROGRESS", "RESOLVED"} : [c EXCEPT !.state = v] \in Incident
    BY DEF Incident
  <2>3. \E v \in {"ACKNOWLEDGED", "IN_PROGRESS", "RESOLVED"} : Work(s) = [c EXCEPT !.state = v]
    BY <1>1, <1>2, <2>1 DEF Work
  <2>4. PICK new \in Incident : new = Work(s)
    BY <2>2, <2>3
  <2>5. incident' = [incident EXCEPT ![i] = IncidentWith(s, i, new)]
    BY <1>1, <1>2, <2>4 DEF EngineerCommit
  <2> QED
    BY <1>1, <1>3, <2>5, WrittenIncident
<1>5. PICK new \in Row :
        /\ new = [y.read EXCEPT !.status = Status(y.op), !.active = y.read.active /\ y.op # "complete"]
        /\ new.status # "NONE" /\ (new.active => y.read.active)
  <2>1. PICK st \in {"ACKNOWLEDGED", "IN_PROGRESS", "COMPLETED"} : st = Status(y.op)
    BY DEF Status
  <2>2. PICK a \in BOOLEAN : a = (y.read.active /\ y.op # "complete")
    OBVIOUS
  <2>3. PICK x \in Row : x = y.read
    BY <1>3
  <2>4. [x EXCEPT !.status = st, !.active = a] \in Row /\ [x EXCEPT !.status = st, !.active = a].status = st
    BY DEF Row
  <2>5. [x EXCEPT !.status = st, !.active = a].active = a
    BY DEF Row
  <2> QED
    BY <2>1, <2>2, <2>3, <2>4, <2>5
<1>6. PICK r : r = [f \in Employees |->
                     IF f = e THEN Flushed(row[i][f], y.read, new) ELSE row[i][f]]
  OBVIOUS
<1>7. row' = [row EXCEPT ![i] = r]
  <2>1. row' = [row EXCEPT ![i][e] = Flushed(row[i][e], y.read, new)]
    BY <1>1, <1>2, <1>5 DEF EngineerCommit
  <2> QED
    BY <1>6, <2>1 DEF DeskInv, TypeOK
<1>8. \A f \in Employees : RowMoves(s, i, f, r[f]) /\ (r[f].active => row[i][f].active)
  BY <1>3, <1>5, <1>6, ClosedRow, WrittenRow
<1>9. RowsMove(s)
  <2>1. DOMAIN r = Employees /\ r = [f \in Employees |-> r[f]]
    BY <1>6
  <2> QED
    BY <1>1, <1>2, <1>4, <1>7, <1>8, <2>1, RowsWritten
<1> QED
  BY <1>3, <1>9, CloseStep

(* A shadow engineer's assignment comes while nobody else has the incident's lock. *)
LEMMA ShadowCommitStep ==
  ASSUME DeskInv, NEW s \in Sessions, ShadowCommit(s)
  PROVE  DeskInv' /\ RowsMove(s)
<1>1. PICK y \in Session : y = session[s] /\ Sound(s, y) /\ y.step = "provisioning" /\ Blockers(s) = {}
  BY MySession DEF ShadowCommit, At
<1>2. PICK i \in Incidents, e \in Employees : i = y.inc /\ e = y.who
  BY <1>1 DEF Sound, Knows, OnIncident, Steps
<1>3. y.known[i] \in Incident /\ Close(s) /\ ~ Exists(i, e)
  BY <1>1, <1>2 DEF Sound, Knows, OnIncident, Steps, ShadowCommit
<1>4. NobodyElse(s, i)
  BY <1>1, <1>2, LockFree DEF NeedsIncident
<1>5. incident' \in [Incidents -> Incident]
  <2>1. PICK c \in Incident : c = y.known[i]
    BY <1>3
  <2>2. \A v \in {"ACKNOWLEDGED", "IN_PROGRESS", "RESOLVED"} :
          [[c EXCEPT !.state = v] EXCEPT !.owner = e] \in Incident
    BY DEF Incident
  <2>3. \E v \in {"ACKNOWLEDGED", "IN_PROGRESS", "RESOLVED"} : Work(s) = [c EXCEPT !.state = v]
    BY <1>1, <1>2, <2>1 DEF Work
  <2>4. PICK new \in Incident : new = [Work(s) EXCEPT !.owner = e]
    BY <2>2, <2>3
  <2>5. incident' = [incident EXCEPT ![i] = IncidentWith(s, i, new)]
    BY <1>1, <1>2, <2>4 DEF ShadowCommit
  <2> QED
    BY <1>1, <1>3, <2>5, WrittenIncident
<1>6. PICK new \in Row :
        /\ new = [Opened(None) EXCEPT !.status = Status(y.op), !.active = y.op # "complete"]
        /\ new.status # "NONE"
  <2>1. PICK st \in {"ACKNOWLEDGED", "IN_PROGRESS", "COMPLETED"} : st = Status(y.op)
    BY DEF Status
  <2>2. PICK a \in BOOLEAN : a = (y.op # "complete")
    OBVIOUS
  <2>3. PICK x \in Row : x = Opened(None)
    BY RowsTyped
  <2>4. [x EXCEPT !.status = st, !.active = a] \in Row /\ [x EXCEPT !.status = st, !.active = a].status = st
    BY DEF Row
  <2> QED
    BY <2>1, <2>2, <2>3, <2>4
<1>7. PICK r : r = [f \in Employees |-> IF f = e THEN new ELSE row[i][f]]
  OBVIOUS
<1>8. row' = [row EXCEPT ![i] = r]
  <2>1. row' = [row EXCEPT ![i][e] = new]
    BY <1>1, <1>2, <1>6 DEF ShadowCommit
  <2> QED
    BY <1>7, <2>1 DEF DeskInv, TypeOK
<1>9. ASSUME NEW f \in Employees PROVE RowMoves(s, i, f, r[f])
  <2>1. CASE f = e
    BY <1>3, <1>4, <1>6, <1>7, <2>1 DEF RowMoves
  <2>2. CASE f # e
    BY <1>7, <2>2, ClosedRow
  <2> QED
    BY <2>1, <2>2
<1>10. RowsMove(s)
  <2>1. DOMAIN r = Employees /\ r = [f \in Employees |-> r[f]]
    BY <1>7
  <2> QED
    BY <1>1, <1>2, <1>5, <1>8, <1>9, <2>1, RowsWritten
<1> QED
  BY <1>3, <1>10, CloseStep

(* The scan hands one assignment over, commits, and goes on. *)
LEMMA HandoffStep ==
  ASSUME DeskInv, NEW s \in Sessions, NEW f \in Employees, Handoff(s, f)
  PROVE  DeskInv' /\ RowsMove(s)
<1>1. PICK y \in Session :
        y = session[s] /\ Sound(s, y) /\ y.step = "handing" /\ Blockers(s) = {}
  BY MySession DEF Handoff, At
<1>2. PICK i \in Incidents, e \in Employees : i = y.inc /\ e = y.who
  BY <1>1 DEF Sound, Knows, OnIncident, OnRow, Steps
<1>3. /\ y.known[i] \in Incident /\ "handoff" \in Operations
      /\ y.read \in Row /\ y.read.status # "NONE" /\ y.read.active /\ Exists(i, e)
  BY <1>1, <1>2 DEF Sound, Knows, Sees, OnIncident, OnRow, Steps
<1>4. NobodyElse(s, i)
  BY <1>1, <1>2, LockFree DEF NeedsIncident
<1>5. ~ Exists(i, f) /\ f # e /\ Release(s)
  BY <1>1, <1>2 DEF Handoff, Eligible
<1>6. PICK new \in Incident : new = [y.known[i] EXCEPT !.state = "ASSIGNED", !.owner = f]
  <2>1. [y.known[i] EXCEPT !.state = "ASSIGNED", !.owner = f] \in Incident
    BY <1>3 DEF Incident
  <2> QED
    BY <2>1
<1>7. incident' \in [Incidents -> Incident]
  <2>1. incident' = [incident EXCEPT ![i] = IncidentWith(s, i, new)]
    BY <1>1, <1>2, <1>6 DEF Handoff
  <2> QED
    BY <1>1, <1>3, <2>1, WrittenIncident
<1>8. PICK r : r = [g \in Employees |->
                     CASE g = f -> Opened(None)
                       [] g = e -> Flushed(row[i][g], y.read, Reassigned(y.read))
                       [] OTHER -> row[i][g]]
  OBVIOUS
<1>9. row' = [row EXCEPT ![i] = r]
  BY <1>1, <1>2, <1>8 DEF Handoff
<1>10. ASSUME NEW g \in Employees
       PROVE  /\ RowMoves(s, i, g, r[g])
              /\ r[g].active => g = f \/ row[i][g].active
              /\ g = e => ~ r[g].active
  <2>1. CASE g = f
    <3>1. r[g] = Opened(None)
      BY <1>5, <1>8, <2>1
    <3> QED
      BY <1>4, <1>5, <2>1, <3>1, OpenedRow
  <2>2. CASE g = e
    <3>1. r[g] = Flushed(row[i][g], y.read, Reassigned(y.read))
      BY <1>5, <1>8, <2>2
    <3>2. Reassigned(y.read) \in Row /\ Reassigned(y.read).status # "NONE" /\ ~ Reassigned(y.read).active
      BY <1>3, RowsTyped
    <3> QED
      BY <1>3, <2>2, <3>1, <3>2, WrittenRow
  <2>3. CASE g # f /\ g # e
    <3>1. r[g] = row[i][g]
      BY <1>8, <2>3
    <3> QED
      BY <2>3, <3>1, ClosedRow
  <2> QED
    BY <2>1, <2>2, <2>3
<1>11. HandoffLate(s) \/ \E g \in Active(i) : ~ r[g].active
  BY <1>1, <1>2, <1>10 DEF HandoffLate, Active
<1>12. RowsMove(s)
  <2>1. DOMAIN r = Employees /\ r = [g \in Employees |-> r[g]]
    BY <1>8
  <2> QED
    BY <1>1, <1>2, <1>7, <1>9, <1>10, <1>11, <2>1, RowsWritten
<1>13. PICK k \in [Incidents -> Incident \cup {None}] : k = [y.known EXCEPT ![i] = new] /\ k[i] \in Incident
  <2>1. y.known \in [Incidents -> Incident \cup {None}]
    BY DEF Session
  <2> QED
    BY <2>1, Learns
<1> DEFINE x == [y EXCEPT !.step = "scanning", !.known = k]
<1>14. session' = [session EXCEPT ![s] = x]
  <2>1. session' = [session EXCEPT ![s].step = "scanning", ![s].known[i] = new]
    BY <1>1, <1>2, <1>6 DEF Handoff
  <2> QED
    BY <1>1, <1>13, <2>1 DEF Session, DeskInv, TypeOK
<1>15. x \in Session /\ x.step = "scanning" /\ x.todo = y.todo
  BY DEF Session, Steps
<1> HIDE DEF x
<1>16. LocksMove(s)
  BY <1>5, ReleaseLocks
<1>17. Sound(s, x)'
  <2>1. Knows(x) /\ Holds(s, x)' /\ Newcomer(x)'
    BY <1>1, <1>3, <1>15 DEF Sound, Knows, Holds, Newcomer, OnIncident, OfTeam, OnRow
  <2>2. Sees(x)'
    BY <1>1, <1>12, <1>15 DEF Sound, Sees, OnRow, RowsMove, Session
  <2> QED
    BY <2>1, <2>2 DEF Sound
<1> QED
  BY <1>12, <1>14, <1>15, <1>16, <1>17, SessionMoves

-----------------------------------------------------------------------------

LEMMA CallStep ==
  ASSUME DeskInv, NEW s \in Sessions, Call(s)
  PROVE  DeskInv' /\ UNCHANGED <<incident, row>>
<1>1. ASSUME NEW i \in Incidents, NEW t \in Teams, NoticeBegin(s, i, t) \/ GroupBegin(s, i, t)
      PROVE  DeskInv' /\ UNCHANGED <<incident, row>>
  BY <1>1, BeginStep DEF NoticeBegin, GroupBegin
<1>2. ASSUME NEW i \in Incidents, NEW e \in Employees, AssignBegin(s, i, e)
      PROVE  DeskInv' /\ UNCHANGED <<incident, row>>
  BY <1>2, AssignBeginStep DEF AssignBegin
<1>3. ASSUME NEW i \in Incidents, NEW e \in Employees, NEW op \in Kinds, EngineerBegin(s, i, e, op)
      PROVE  DeskInv' /\ UNCHANGED <<incident, row>>
  BY <1>3, EngineerBeginStep DEF EngineerBegin
<1>4. ASSUME NEW i \in Incidents, NEW e \in Employees, NEW op \in Kinds, ShadowBegin(s, i, e, op)
      PROVE  DeskInv' /\ UNCHANGED <<incident, row>>
  BY <1>4, ShadowBeginStep DEF ShadowBegin
<1>5. CASE ScanBegin(s)
  BY <1>5, ScanBeginStep DEF ScanBegin
<1> QED
  BY <1>1, <1>2, <1>3, <1>4, <1>5 DEF Call

LEMMA ServeStep ==
  ASSUME DeskInv, NEW s \in Sessions, Serve(s) \/ Die(s)
  PROVE  DeskInv' /\ RowsMove(s)
<1>1. CASE NoticeFindsNobody(s) \/ NoticeAnswered(s)
           \/ \E e \in Employees, force \in BOOLEAN : NoticeFinds(s, e, force)
  <2>1. UNCHANGED <<incident, row>>
    BY <1>1 DEF NoticeFindsNobody, NoticeAnswered, NoticeFinds
  <2> QED
    BY <1>1, <2>1, NoticeReads, NothingMoves
<1>2. CASE NoticeClear(s) \/ NoticeClaim(s) \/ GroupLock(s) \/ EngineerUpdate(s) \/ HandoffLock(s)
  <2>1. UNCHANGED <<incident, row>>
    BY <1>2 DEF NoticeClear, NoticeClaim, GroupLock, EngineerUpdate, HandoffLock
  <2> QED
    BY <1>2, <2>1, NoticeClearStep, ClaimStep, RowLockStep, NothingMoves
<1>3. CASE EngineerLoad(s)
  <2>1. UNCHANGED <<incident, row>>
    BY <1>3 DEF EngineerLoad
  <2> QED
    BY <1>3, <2>1, EngineerLoadStep, NothingMoves
<1>4. CASE \E z \in session[s].todo : ScanSkip(s, z) \/ ScanPick(s, z)
  <2>1. UNCHANGED <<incident, row>>
    BY <1>4 DEF ScanSkip, ScanPick
  <2> QED
    BY <1>4, <2>1, ScanStep, NothingMoves
<1>5. CASE NoticeRefused(s) \/ NoticeTouch(s)
  BY <1>5, NoticeEnds
<1>6. CASE \E e \in Employees : NoticeAssign(s, e)
  BY <1>6, NoticeAssignStep
<1>7. CASE AssignCommit(s) \/ GroupCommit(s) \/ EngineerCommit(s) \/ ShadowCommit(s)
  BY <1>7, AssignCommitStep, GroupCommitStep, EngineerCommitStep, ShadowCommitStep
<1>8. CASE (\E f \in Employees : Handoff(s, f)) \/ HandoffNobody(s)
  BY <1>8, HandoffStep, HandoffNobodyStep
<1>9. CASE Rollback(s)
  BY <1>9, RollbackStep
<1>10. NoticeConflict(s) \/ GroupRefused(s) \/ ShadowConflict(s) \/ HandoffConflict(s) \/ ScanEnd(s)
       \/ Abort(s) \/ Die(s) => Rollback(s)
  BY DEF NoticeConflict, GroupRefused, ShadowConflict, HandoffConflict, ScanEnd, Abort, Die
<1> QED
  BY <1>1, <1>2, <1>3, <1>4, <1>5, <1>6, <1>7, <1>8, <1>9, <1>10 DEF Serve

LEMMA DeskStep == DeskInv /\ [Next]_vars => DeskInv'
<1> SUFFICES ASSUME DeskInv, [Next]_vars PROVE DeskInv'
  OBVIOUS
<1>1. CASE Next
  BY <1>1, CallStep, ServeStep DEF Next
<1>2. CASE UNCHANGED vars
  BY <1>2 DEF vars, DeskInv, TypeOK, LockedRowsExist, Sound, Knows, Sees, Holds, Newcomer, Exists
<1> QED
  BY <1>1, <1>2

(* DeskInv holds in every reachable state, whatever requests are in use. *)
THEOREM DeskInvariant == Spec => []DeskInv
  BY InitDesk, DeskStep, PTL DEF Spec

(* Every variable has its type, and a row that is not there has no content. *)
THEOREM DeskTypeCorrect == Spec => []TypeOK
<1>1. DeskInv => TypeOK
  BY DEF DeskInv
<1> QED
  BY <1>1, DeskInvariant, PTL

(***************************************************************************)
(* A closed assignment is never open again, whatever requests are in use;  *)
(* only the group send makes the rows of its members active on purpose.    *)
(***************************************************************************)
THEOREM NothingReopens == Spec => ClosedStaysClosed
<1> DEFINE Kept == \A i \in Incidents, e \in Employees :
                     Exists(i, e) /\ ~ row[i][e].active =>
                       ~ row'[i][e].active \/ \E s \in Sessions : session[s].inc = i /\ GroupCommit(s)
<1>1. DeskInv /\ [Next]_vars => [Kept]_vars
  <2> SUFFICES ASSUME DeskInv, Next PROVE Kept
    OBVIOUS
  <2>1. ASSUME NEW s \in Sessions, Serve(s) \/ Die(s) PROVE Kept
    BY <2>1, ServeStep DEF RowsMove
  <2>2. ASSUME NEW s \in Sessions, Call(s) PROVE Kept
    BY <2>2, CallStep
  <2> QED
    BY <2>1, <2>2 DEF Next
<1> QED
  BY <1>1, DeskInvariant, PTL DEF Spec, ClosedStaysClosed

-----------------------------------------------------------------------------
(* Locks in use *)

(* The locks of the others stay as they are. *)
OthersKeep(s) ==
  \A i \in Incidents, o \in Sessions \ {s} :
    /\ incidentLock[i] = o <=> incidentLock'[i] = o
    /\ \A e \in Employees : rowLock'[i][e] = o => rowLock[i][e] = o

LEMMA UsesMove ==
  ASSUME DeskInv, LocksInUse, NEW s \in Sessions, NEW x, session' = [session EXCEPT ![s] = x],
         OthersKeep(s), Uses(s, x)'
  PROVE  LocksInUse'
<1>1. session \in [Sessions -> Session]
  BY DEF DeskInv, TypeOK
<1>2. Uses(s, session[s])'
  BY <1>1
<1>3. ASSUME NEW o \in Sessions \ {s} PROVE Uses(o, session[o])'
  <2>1. session'[o] = session[o] /\ Uses(o, session[o])
    BY <1>1 DEF LocksInUse
  <2>2. PICK y : y = session[o] /\ y = session'[o]
    BY <2>1
  <2>3. ASSUME NEW i \in Incidents PROVE LocksUsed(o, y, i)'
    BY <2>1, <2>2 DEF Uses, LocksUsed, OthersKeep
  <2> QED
    BY <2>1, <2>2, <2>3 DEF Uses
<1> QED
  BY <1>2, <1>3 DEF LocksInUse

(* Nothing is locked for a session. *)
Lockless(s) == \A i \in Incidents : incidentLock[i] # s /\ \A e \in Employees : rowLock[i][e] # s

(* Before a session takes a lock, it has none. *)
LEMMA LocklessBefore ==
  ASSUME LocksInUse, NEW s \in Sessions,
         session[s].step \in {"idle", "looking", "clearing", "gathering", "updating", "scanning", "locking"}
  PROVE  Lockless(s)
  BY DEF LocksInUse, Uses, LocksUsed, Lockless

LEMMA LocklessMove ==
  ASSUME DeskInv, LocksInUse, NEW s \in Sessions, NEW x, session' = [session EXCEPT ![s] = x],
         OthersKeep(s), Lockless(s)',
         x.step \in {"updating", "scanning", "locking", "handing"} => x.op # "acknowledge"
  PROVE  LocksInUse'
<1>1. Uses(s, x)'
  BY DEF Uses, LocksUsed, Lockless
<1> QED
  BY <1>1, UsesMove

LEMMA Released ==
  ASSUME DeskInv, NEW s \in Sessions, Release(s)
  PROVE  OthersKeep(s) /\ Lockless(s)'
  BY DeskAssumption DEF Release, OthersKeep, Lockless, DeskInv, TypeOK

LEMMA CloseUses == ASSUME DeskInv, LocksInUse, NEW s \in Sessions, Close(s) PROVE LocksInUse'
<1>1. OthersKeep(s) /\ Lockless(s)'
  BY Released DEF Close
<1> QED
  BY <1>1, LocklessMove DEF Close, Idle

(* A request begins, or reads on, without a lock. *)
LEMMA BeginUses ==
  ASSUME DeskInv, LocksInUse, NEW s \in Sessions,
         \/ \E i \in Incidents, t \in Teams : NoticeBegin(s, i, t) \/ GroupBegin(s, i, t)
         \/ \E i \in Incidents, e \in Employees, op \in Kinds :
              EngineerBegin(s, i, e, op) \/ ShadowBegin(s, i, e, op)
         \/ ScanBegin(s)
  PROVE  LocksInUse'
<1>1. session[s].step = "idle" /\ UNCHANGED <<incidentLock, rowLock>>
  BY DEF NoticeBegin, GroupBegin, Begin, EngineerBegin, ShadowBegin, ScanBegin
<1>2. OthersKeep(s) /\ Lockless(s)'
  BY <1>1, LocklessBefore DEF OthersKeep, Lockless
<1>3. ASSUME NEW i \in Incidents, NEW t \in Teams, NoticeBegin(s, i, t) \/ GroupBegin(s, i, t)
      PROVE  LocksInUse'
  <2>1. PICK op \in {"notice", "group"}, step \in {"looking", "gathering"} : Begin(s, op, step, i, t, None)
    BY <1>3 DEF NoticeBegin, GroupBegin
  <2> DEFINE x == [Idle EXCEPT !.op = op, !.step = step, !.inc = i, !.team = t, !.who = None,
                               !.known[i] = incident[i]]
  <2>2. session' = [session EXCEPT ![s] = x] /\ x.step = step
    BY <2>1 DEF Begin, Idle
  <2> HIDE DEF x
  <2> QED
    BY <1>2, <2>2, LocklessMove
<1>4. ASSUME NEW i \in Incidents, NEW e \in Employees, NEW op \in Kinds, EngineerBegin(s, i, e, op)
      PROVE  LocksInUse'
  <2> DEFINE x == [Idle EXCEPT !.op = op, !.inc = i, !.who = e, !.read = row[i][e],
                               !.step = IF op = "acknowledge" THEN "loading" ELSE "updating"]
  <2>1. /\ session' = [session EXCEPT ![s] = x]
        /\ x.op = op /\ x.step = IF op = "acknowledge" THEN "loading" ELSE "updating"
    BY <1>4 DEF EngineerBegin, Idle
  <2> HIDE DEF x
  <2> QED
    BY <1>2, <2>1, LocklessMove
<1>5. CASE ScanBegin(s)
  <2>1. PICK found : session' = [session EXCEPT ![s] =
                       [Idle EXCEPT !.op = "handoff", !.step = "scanning", !.todo = found]]
    BY <1>5 DEF ScanBegin
  <2> DEFINE x == [Idle EXCEPT !.op = "handoff", !.step = "scanning", !.todo = found]
  <2>2. session' = [session EXCEPT ![s] = x] /\ x.op = "handoff"
    BY <2>1 DEF Idle
  <2> HIDE DEF x
  <2> QED
    BY <1>2, <2>2, LocklessMove
<1>6. ASSUME NEW i \in Incidents, NEW e \in Employees, NEW op \in Kinds, ShadowBegin(s, i, e, op)
      PROVE  LocksInUse'
  <2> DEFINE x == [Idle EXCEPT !.op = op, !.step = "provisioning", !.inc = i, !.team = None, !.who = e,
                               !.known[i] = incident[i]]
  <2>1. session' = [session EXCEPT ![s] = x] /\ x.step = "provisioning"
    BY <1>6 DEF ShadowBegin, Begin, Idle
  <2> HIDE DEF x
  <2> QED
    BY <1>2, <2>1, LocklessMove
<1> QED
  BY <1>3, <1>4, <1>5, <1>6

LEMMA AssignBeginUses ==
  ASSUME DeskInv, LocksInUse, NEW s \in Sessions, NEW i \in Incidents, NEW e \in Employees, AssignBegin(s, i, e)
  PROVE  LocksInUse'
<1>1. PICK f : session' = [session EXCEPT ![s] =
        [Idle EXCEPT !.op = "assign", !.step = "replacing", !.inc = i, !.who = e, !.from = f,
                     !.read = IF f = None THEN None ELSE row[i][f],
                     !.known[i] = incident[i]]]
  BY DEF AssignBegin
<1>2. PICK x : x = [Idle EXCEPT !.op = "assign", !.step = "replacing", !.inc = i, !.who = e, !.from = f,
                                !.read = IF f = None THEN None ELSE row[i][f],
                                !.known[i] = incident[i]]
  OBVIOUS
<1>3. session' = [session EXCEPT ![s] = x] /\ x.step = "replacing" /\ x.inc = i
  BY <1>1, <1>2 DEF Idle
<1>4. incidentLock' = [incidentLock EXCEPT ![i] = s] /\ UNCHANGED rowLock /\ incidentLock[i] = None
      /\ Lockless(s)
  BY LocklessBefore DEF AssignBegin
<1>5. OthersKeep(s)
  BY <1>4, DeskAssumption DEF OthersKeep, DeskInv, TypeOK
<1>6. Uses(s, x)'
  BY <1>3, <1>4 DEF Uses, LocksUsed, Lockless, DeskInv, TypeOK
<1> QED
  BY <1>3, <1>5, <1>6, UsesMove

(* What a session reads changes none of its locks. *)
LEMMA ReadUses ==
  ASSUME DeskInv, LocksInUse, NEW s \in Sessions,
         \/ NoticeFindsNobody(s) \/ NoticeAnswered(s) \/ EngineerLoad(s)
         \/ \E e \in Employees, force \in BOOLEAN : NoticeFinds(s, e, force)
         \/ \E z \in session[s].todo : ScanSkip(s, z) \/ ScanPick(s, z)
  PROVE  LocksInUse'
<1>1. PICK y \in Session : y = session[s] /\ Sound(s, y) /\ Uses(s, y)
  BY MySession DEF LocksInUse
<1>2. UNCHANGED <<incidentLock, rowLock>> /\ OthersKeep(s)
  BY DEF NoticeFindsNobody, NoticeAnswered, EngineerLoad, NoticeFinds, ScanSkip, ScanPick, OthersKeep
<1>3. CASE NoticeFindsNobody(s) \/ \E e \in Employees, force \in BOOLEAN : NoticeFinds(s, e, force)
  <2>1. PICK x : session' = [session EXCEPT ![s] = x] /\ x.step \in {"claiming", "clearing", "touching"}
    <3>1. CASE NoticeFindsNobody(s)
      <4>1. Go(s, "claiming") /\ "claiming" \in Steps
        BY <3>1 DEF NoticeFindsNobody, Steps
      <4> QED
        BY <1>1, <4>1, Goes
    <3>2. ASSUME NEW e, NEW step \in {"clearing", "touching"},
                 session' = [session EXCEPT ![s].who = e, ![s].step = step]
          PROVE  \E x : session' = [session EXCEPT ![s] = x] /\ x.step \in {"claiming", "clearing", "touching"}
      <4>1. session' = [session EXCEPT ![s] = [y EXCEPT !.who = e, !.step = step]]
        BY <1>1, <3>2 DEF Session, DeskInv, TypeOK
      <4>2. [y EXCEPT !.who = e, !.step = step].step = step
        BY DEF Session
      <4> QED
        BY <4>1, <4>2
    <3>3. ASSUME NEW e \in Employees, NEW force \in BOOLEAN, NoticeFinds(s, e, force)
          PROVE  \E step \in {"clearing", "touching"} :
                   session' = [session EXCEPT ![s].who = e, ![s].step = step]
      BY <3>3 DEF NoticeFinds
    <3> QED
      BY <1>3, <3>1, <3>2, <3>3
  <2>2. session[s].step = "looking"
    BY <1>3 DEF NoticeFindsNobody, NoticeFinds, At
  <2>3. Lockless(s)'
    BY <1>2, <2>2, LocklessBefore DEF Lockless
  <2> QED
    BY <1>2, <2>1, <2>3, LocklessMove
<1>4. CASE NoticeAnswered(s)
  <2>1. PICK e : session' = [session EXCEPT ![s].who = e, ![s].step = "touching"]
    BY <1>4 DEF NoticeAnswered
  <2> DEFINE x == [y EXCEPT !.who = e, !.step = "touching"]
  <2>2. session' = [session EXCEPT ![s] = x]
    BY <1>1, <2>1 DEF Session, DeskInv, TypeOK
  <2>3. x.step = "touching" /\ x.inc = y.inc
    BY DEF Session
  <2> HIDE DEF x
  <2>4. y.step = "assigning" /\ incidentLock[y.inc] = s
    BY <1>1, <1>4 DEF NoticeAnswered, At, Sound, Holds
  <2>5. Uses(s, x)'
    BY <1>1, <1>2, <2>3, <2>4 DEF Uses, LocksUsed
  <2> QED
    BY <1>2, <2>2, <2>5, UsesMove
<1>5. CASE EngineerLoad(s)
  <2>1. PICK i, k : session' = [session EXCEPT ![s].step = "writing", ![s].known[i] = k]
    BY <1>5 DEF EngineerLoad
  <2> DEFINE x == [y EXCEPT !.step = "writing", !.known[i] = k]
  <2>2. session' = [session EXCEPT ![s] = x]
    BY <1>1, <2>1 DEF Session, DeskInv, TypeOK
  <2>3. x.step = "writing" /\ x.inc = y.inc /\ x.who = y.who /\ x.op = y.op
    BY DEF Session
  <2> HIDE DEF x
  <2>4. y.step = "loading"
    BY <1>1, <1>5 DEF EngineerLoad, At
  <2>5. Uses(s, x)'
    BY <1>1, <1>2, <2>3, <2>4 DEF Uses, LocksUsed
  <2> QED
    BY <1>2, <2>2, <2>5, UsesMove
<1>6. ASSUME NEW z \in session[s].todo, ScanSkip(s, z) \/ ScanPick(s, z) PROVE LocksInUse'
  <2>1. PICK x : session' = [session EXCEPT ![s] = x] /\ x.op = y.op
    <3>1. CASE ScanSkip(s, z)
      <4> DEFINE x == [y EXCEPT !.todo = @ \ {z}, !.known[z.inc] = Loaded(s, z.inc)]
      <4>1. session' = [session EXCEPT ![s] = x]
        BY <1>1, <3>1 DEF ScanSkip, Session, DeskInv, TypeOK
      <4>2. x.op = y.op
        BY DEF Session
      <4> QED
        BY <4>1, <4>2
    <3>2. CASE ScanPick(s, z)
      <4> DEFINE x == [y EXCEPT !.step = "locking", !.todo = y.todo \ {z}, !.known[z.inc] = Loaded(s, z.inc),
                                !.inc = z.inc, !.who = z.emp, !.read = z.row]
      <4>1. session' = [session EXCEPT ![s] = x]
        BY <1>1, <3>2 DEF ScanPick
      <4>2. x.op = y.op
        BY DEF Session
      <4> QED
        BY <4>1, <4>2
    <3> QED
      BY <1>6, <3>1, <3>2
  <2>2. y.step = "scanning" /\ y.op # "acknowledge"
    BY <1>1, <1>6 DEF ScanSkip, ScanPick, Uses
  <2>3. Lockless(s)'
    BY <1>1, <1>2, <2>2, LocklessBefore DEF Lockless
  <2> QED
    BY <1>2, <2>1, <2>2, <2>3, LocklessMove
<1> QED
  BY <1>3, <1>4, <1>5, <1>6

(* What a session locks next is what its request is about. *)
LEMMA LockUses ==
  ASSUME DeskInv, LocksInUse, NEW s \in Sessions,
         NoticeClear(s) \/ NoticeClaim(s) \/ GroupLock(s) \/ EngineerUpdate(s) \/ HandoffLock(s) \/ HandoffNobody(s)
  PROVE  LocksInUse'
<1>1. PICK y \in Session : y = session[s] /\ Sound(s, y) /\ Uses(s, y)
  BY MySession DEF LocksInUse
<1>2. y.inc \in Incidents
  BY <1>1 DEF NoticeClear, NoticeClaim, GroupLock, EngineerUpdate, HandoffLock, HandoffNobody, At,
              Sound, Knows, OnIncident, Steps
<1>3. ASSUME NEW step \in Steps, Go(s, step)
      PROVE  \E x : /\ session' = [session EXCEPT ![s] = x] /\ x.step = step /\ x.op = y.op
                    /\ x.inc = y.inc /\ x.who = y.who
  BY <1>1, <1>3, Goes
<1>4. CASE NoticeClear(s)
  <2>1. PICK x : /\ session' = [session EXCEPT ![s] = x] /\ x.step = "claiming"
                 /\ x.inc = y.inc /\ x.who = y.who
    BY <1>3, <1>4 DEF NoticeClear, Steps
  <2>2. PICK E \in SUBSET Active(y.inc) : rowLock' = [rowLock EXCEPT ![y.inc] =
                      [e \in Employees |-> IF e \in E THEN s ELSE rowLock[y.inc][e]]]
    BY <1>1, <1>4, Cleared
  <2>3. Lockless(s) /\ UNCHANGED incidentLock
    BY <1>4, LocklessBefore DEF NoticeClear, At
  <2>4. \A i \in Incidents, e \in Employees :
          rowLock'[i][e] = rowLock[i][e] \/ (i = y.inc /\ rowLock'[i][e] = s)
    BY <1>2, <2>2 DEF DeskInv, TypeOK
  <2>5. OthersKeep(s) /\ Uses(s, x)'
    BY <2>1, <2>2, <2>3, <2>4 DEF OthersKeep, Lockless, Uses, LocksUsed
  <2> QED
    BY <2>1, <2>5, UsesMove
<1>5. CASE NoticeClaim(s) \/ GroupLock(s)
  <2>1. PICK step \in {"assigning", "spreading"} :
          Go(s, step) /\ (step = "spreading" => y.step = "gathering")
                      /\ (step = "assigning" => y.step = "claiming")
    BY <1>1, <1>5 DEF NoticeClaim, GroupLock, At
  <2>2. PICK x : /\ session' = [session EXCEPT ![s] = x] /\ x.step = step
                 /\ x.inc = y.inc /\ x.who = y.who
    BY <1>3, <2>1 DEF Steps
  <2>3. incidentLock' = [incidentLock EXCEPT ![y.inc] = s] /\ UNCHANGED rowLock
    BY <1>1, <1>5 DEF NoticeClaim, GroupLock
  <2>4. NobodyElse(s, y.inc)
    BY <1>1, <1>5, LockFree DEF NoticeClaim, GroupLock, At, NeedsIncident
  <2>5. OthersKeep(s)
    BY <1>2, <2>3, <2>4 DEF OthersKeep, NobodyElse, DeskInv, TypeOK
  <2>6. Uses(s, x)'
    <3>1. CASE step = "assigning"
      BY <1>1, <1>2, <2>1, <2>2, <2>3, <3>1 DEF Uses, LocksUsed, DeskInv, TypeOK
    <3>2. CASE step = "spreading"
      BY <1>1, <1>2, <2>1, <2>2, <2>3, <3>2 DEF Uses, LocksUsed, DeskInv, TypeOK
    <3> QED
      BY <2>1, <3>1, <3>2
  <2> QED
    BY <2>2, <2>5, <2>6, UsesMove
<1>6. CASE EngineerUpdate(s) \/ HandoffLock(s)
  <2>1. PICK step \in {"loading", "handing", "scanning"} : Go(s, step) /\ (step = "scanning" => UNCHANGED rowLock)
    BY <1>6 DEF EngineerUpdate, HandoffLock
  <2>2. PICK x : /\ session' = [session EXCEPT ![s] = x] /\ x.step = step /\ x.op = y.op
                 /\ x.inc = y.inc /\ x.who = y.who
    BY <1>3, <2>1 DEF Steps
  <2>3. y.step \in {"updating", "locking"} /\ y.op # "acknowledge" /\ UNCHANGED incidentLock
    BY <1>1, <1>6 DEF EngineerUpdate, HandoffLock, At, Uses
  <2>4. Lockless(s)
    BY <1>1, <2>3, LocklessBefore
  <2>5. UNCHANGED rowLock \/ rowLock' = [rowLock EXCEPT ![y.inc][y.who] = s]
    BY <1>1, <1>6 DEF EngineerUpdate, HandoffLock
  <2>6. \A i \in Incidents, e \in Employees :
          \/ rowLock'[i][e] = rowLock[i][e]
          \/ i = y.inc /\ e = y.who /\ rowLock'[i][e] = s /\ step # "scanning"
    BY <1>2, <2>1, <2>5 DEF DeskInv, TypeOK
  <2>7. OthersKeep(s) /\ Uses(s, x)'
    BY <2>2, <2>3, <2>4, <2>6 DEF OthersKeep, Lockless, Uses, LocksUsed
  <2> QED
    BY <2>2, <2>7, UsesMove
<1>7. CASE HandoffNobody(s)
  <2>1. PICK x : /\ session' = [session EXCEPT ![s] = x] /\ x.step = "scanning" /\ x.op = y.op
    BY <1>3, <1>7 DEF HandoffNobody, Steps
  <2>2. y.op # "acknowledge"
    BY <1>1, <1>7 DEF HandoffNobody, Uses
  <2>3. OthersKeep(s) /\ Lockless(s)'
    BY <1>7, Released DEF HandoffNobody
  <2> QED
    BY <2>1, <2>2, <2>3, LocklessMove
<1> QED
  BY <1>4, <1>5, <1>6, <1>7

LEMMA HandoffUses ==
  ASSUME DeskInv, LocksInUse, NEW s \in Sessions, NEW f \in Employees, Handoff(s, f)
  PROVE  LocksInUse'
<1>1. PICK y \in Session : y = session[s] /\ Uses(s, y) /\ y.step = "handing"
  BY MySession DEF LocksInUse, Handoff, At
<1>2. PICK i, k : session' = [session EXCEPT ![s].step = "scanning", ![s].known[i] = k]
  BY DEF Handoff
<1> DEFINE x == [y EXCEPT !.step = "scanning", !.known[i] = k]
<1>3. session' = [session EXCEPT ![s] = x]
  BY <1>1, <1>2 DEF Session, DeskInv, TypeOK
<1>4. x.op # "acknowledge"
  BY <1>1 DEF Uses, Session
<1> HIDE DEF x
<1>5. OthersKeep(s) /\ Lockless(s)'
  BY Released DEF Handoff
<1> QED
  BY <1>3, <1>4, <1>5, LocklessMove

(* The transactions that end here, in a commit or not. *)
Ends(s) ==
  \/ NoticeRefused(s) \/ NoticeConflict(s) \/ NoticeTouch(s) \/ AssignCommit(s) \/ GroupCommit(s)
  \/ GroupRefused(s) \/ EngineerCommit(s) \/ ShadowCommit(s) \/ ShadowConflict(s)
  \/ HandoffConflict(s) \/ ScanEnd(s) \/ Abort(s) \/ Die(s)
  \/ \E e \in Employees : NoticeAssign(s, e)

LEMMA EndsClose == ASSUME NEW s \in Sessions, Ends(s) PROVE Close(s)
  BY DEF Ends, NoticeRefused, NoticeConflict, NoticeTouch, AssignCommit, GroupCommit, GroupRefused,
         EngineerCommit, ShadowCommit, ShadowConflict, HandoffConflict, ScanEnd, Abort, Die, NoticeAssign,
         Rollback

LEMMA UsesStep == DeskInv /\ LocksInUse /\ [Next]_vars => LocksInUse'
<1> SUFFICES ASSUME DeskInv, LocksInUse, [Next]_vars PROVE LocksInUse'
  OBVIOUS
<1>1. ASSUME NEW s \in Sessions, Call(s) PROVE LocksInUse'
  BY <1>1, BeginUses, AssignBeginUses DEF Call
<1>2. ASSUME NEW s \in Sessions, Serve(s) \/ Die(s) PROVE LocksInUse'
  <2>1. Ends(s) => LocksInUse'
    BY EndsClose, CloseUses
  <2>2. NoticeFindsNobody(s) \/ NoticeAnswered(s) \/ EngineerLoad(s)
        \/ (\E e \in Employees, force \in BOOLEAN : NoticeFinds(s, e, force))
        \/ (\E z \in session[s].todo : ScanSkip(s, z) \/ ScanPick(s, z)) => LocksInUse'
    BY ReadUses
  <2>3. NoticeClear(s) \/ NoticeClaim(s) \/ GroupLock(s) \/ EngineerUpdate(s) \/ HandoffLock(s)
        \/ HandoffNobody(s) => LocksInUse'
    BY LockUses
  <2>4. (\E f \in Employees : Handoff(s, f)) => LocksInUse'
    BY HandoffUses
  <2> QED
    BY <1>2, <2>1, <2>2, <2>3, <2>4 DEF Serve, Ends
<1>3. CASE UNCHANGED vars
  BY <1>3 DEF vars, LocksInUse, Uses, LocksUsed
<1> QED
  BY <1>1, <1>2, <1>3 DEF Next

(***************************************************************************)
(* In every reachable state, and whatever requests are in use, the locks   *)
(* that are held are those the code holds while it decides: the incident's *)
(* before somebody is given it, a row's while its engineer's work or its   *)
(* closing is not committed.                                               *)
(***************************************************************************)
THEOREM LocksAreInUse == Spec => [](DeskInv /\ LocksInUse)
<1>1. Init => DeskInv /\ LocksInUse
  BY InitDesk, DeskAssumption DEF Init, LocksInUse, Uses, LocksUsed, Idle
<1> QED
  BY <1>1, DeskStep, UsesStep, PTL DEF Spec

-----------------------------------------------------------------------------
(* Holders *)

(* A notice writes, and an engineer's request writes, one row or more of its incident. *)
LEMMA OwnIncident ==
  ASSUME DeskInv, NEW s \in Sessions, NEW i \in Incidents, NEW r,
         row' = [row EXCEPT ![i] = r], NEW j \in Incidents, NEW e \in Employees,
         row'[j][e].active # row[j][e].active
  PROVE  j = i
  BY DEF DeskInv, TypeOK

(***************************************************************************)
(* Nobody comes to an incident or leaves it while somebody else has the    *)
(* incident's lock.                                                        *)
(***************************************************************************)
LEMMA ActivityLocked ==
  ASSUME DeskInv, LocksInUse, NEW s \in Sessions, Serve(s) \/ Die(s),
         NEW i \in Incidents, NEW e \in Employees, row'[i][e].active # row[i][e].active
  PROVE  NobodyElse(s, i)
<1>1. PICK y \in Session : y = session[s] /\ Sound(s, y) /\ Uses(s, y)
  BY MySession DEF LocksInUse
<1>2. CASE NoticeRefused(s)
  <2>1. y.step = "claiming" /\ Blockers(s) = {}
    BY <1>1, <1>2 DEF NoticeRefused, At
  <2>2. y.inc \in Incidents /\ NobodyElse(s, y.inc)
    BY <1>1, <2>1, LockFree DEF NeedsIncident, Sound, Knows, OnIncident, Steps
  <2>3. PICK r : row' = [row EXCEPT ![y.inc] = r]
    BY <1>1, <1>2 DEF NoticeRefused
  <2> QED
    BY <2>2, <2>3, OwnIncident
<1>3. CASE NoticeTouch(s)
  <2>1. y.step = "touching" /\ y.inc \in Incidents
    BY <1>1, <1>3 DEF NoticeTouch, At, Sound, Knows, OnIncident, Steps
  <2>2. row' = [row EXCEPT ![y.inc] = [f \in Employees |->
                  IF f \in Held(s, y.inc) THEN Reassigned(row[y.inc][f]) ELSE row[y.inc][f]]]
    BY <1>1, <1>3 DEF NoticeTouch
  <2>3. i = y.inc
    BY <2>1, <2>2, OwnIncident
  <2>4. e \in Held(s, i)
    BY <2>1, <2>2, <2>3 DEF DeskInv, TypeOK
  <2>5. incidentLock[i] = s
    BY <1>1, <2>1, <2>4 DEF Held, Uses, LocksUsed
  <2> QED
    BY <2>5, LockedAlone
<1>4. CASE AssignCommit(s) \/ GroupCommit(s) \/ \E f \in Employees : NoticeAssign(s, f)
  <2>1. y.step \in {"assigning", "replacing", "spreading"}
    BY <1>1, <1>4 DEF AssignCommit, GroupCommit, NoticeAssign, At
  <2>2. y.inc \in Incidents /\ NobodyElse(s, y.inc)
    BY <1>1, <2>1, LockedAlone DEF Sound, Knows, Holds, OnIncident, Steps
  <2>3. PICK r : row' = [row EXCEPT ![y.inc] = r]
    <3>1. CASE AssignCommit(s)
      BY <1>1, <3>1 DEF AssignCommit
    <3>2. CASE GroupCommit(s)
      BY <1>1, <3>2 DEF GroupCommit
    <3>3. CASE \E f \in Employees : NoticeAssign(s, f)
      BY <1>1, <3>3 DEF NoticeAssign
    <3> QED
      BY <1>4, <3>1, <3>2, <3>3
  <2> QED
    BY <2>2, <2>3, OwnIncident
<1>5. CASE EngineerCommit(s)
  <2>1. y.step = "writing" /\ y.inc \in Incidents /\ y.who \in Employees /\ y.read \in Row /\ Blockers(s) = {}
    BY <1>1, <1>5 DEF EngineerCommit, At, Sound, Knows, OnIncident, OnRow, Steps
  <2>2. CASE y.op = "complete"
    <3>1. NobodyElse(s, y.inc)
      BY <1>1, <2>1, <2>2, LockFree DEF NeedsIncident
    <3>2. PICK r : row' = [row EXCEPT ![y.inc] = r]
      <4>1. PICK v : row' = [row EXCEPT ![y.inc][y.who] = v]
        BY <1>1, <1>5 DEF EngineerCommit
      <4>2. row' = [row EXCEPT ![y.inc] = [row[y.inc] EXCEPT ![y.who] = v]]
        BY <2>1, <4>1 DEF DeskInv, TypeOK
      <4> QED
        BY <4>2
    <3> QED
      BY <2>1, <3>1, <3>2, OwnIncident
  <2>3. CASE y.op # "complete"
    <3>1. PICK st \in {"ACKNOWLEDGED", "IN_PROGRESS", "COMPLETED"} : st = Status(y.op)
      BY DEF Status
    <3>2. PICK new \in Row : new = [y.read EXCEPT !.status = st] /\ new.active = y.read.active
      <4>1. [y.read EXCEPT !.status = st] \in Row /\ [y.read EXCEPT !.status = st].active = y.read.active
        BY <2>1 DEF Row
      <4> QED
        BY <4>1
    <3>3. [y.read EXCEPT !.status = st, !.active = y.read.active /\ y.op # "complete"] = new
      BY <2>1, <2>3, <3>2 DEF Row
    <3>4. row' = [row EXCEPT ![y.inc][y.who] = Flushed(row[y.inc][y.who], y.read, new)]
      BY <1>1, <1>5, <3>1, <3>3 DEF EngineerCommit
    <3>5. PICK old \in Row : old = row[y.inc][y.who]
      BY <2>1 DEF DeskInv, TypeOK
    <3>6. Flushed(old, y.read, new).active = old.active
      <4>1. PICK read \in Row : read = y.read
        BY <2>1
      <4>2. Flushed(old, read, new).active = IF new.active = read.active THEN old.active ELSE new.active
        BY FlushedRow
      <4> QED
        BY <3>2, <4>1, <4>2
    <3>7. row'[i][e].active = row[i][e].active
      BY <2>1, <3>4, <3>5, <3>6 DEF DeskInv, TypeOK
    <3> QED
      BY <3>7
  <2> QED
    BY <2>2, <2>3
<1>6. ASSUME NEW f \in Employees, Handoff(s, f) PROVE NobodyElse(s, i)
  <2>1. y.step = "handing" /\ Blockers(s) = {}
    BY <1>1, <1>6 DEF Handoff, At
  <2>2. y.inc \in Incidents /\ NobodyElse(s, y.inc)
    BY <1>1, <2>1, LockFree DEF NeedsIncident, Sound, Knows, OnIncident, Steps
  <2>3. PICK r : row' = [row EXCEPT ![y.inc] = r]
    BY <1>1, <1>6 DEF Handoff
  <2> QED
    BY <2>2, <2>3, OwnIncident
<1>7. CASE ShadowCommit(s)
  <2>1. y.step = "provisioning" /\ Blockers(s) = {}
    BY <1>1, <1>7 DEF ShadowCommit, At
  <2>2. y.inc \in Incidents /\ y.who \in Employees /\ NobodyElse(s, y.inc)
    BY <1>1, <2>1, LockFree DEF NeedsIncident, Sound, Knows, OnIncident, Steps
  <2>3. PICK r : row' = [row EXCEPT ![y.inc] = r]
    <3>1. PICK v : row' = [row EXCEPT ![y.inc][y.who] = v]
      BY <1>1, <1>7 DEF ShadowCommit
    <3>2. row' = [row EXCEPT ![y.inc] = [row[y.inc] EXCEPT ![y.who] = v]]
      BY <2>2, <3>1 DEF DeskInv, TypeOK
    <3> QED
      BY <3>2
  <2> QED
    BY <2>2, <2>3, OwnIncident
<1>8. NoticeFindsNobody(s) \/ NoticeAnswered(s) \/ NoticeClear(s) \/ NoticeClaim(s) \/ GroupLock(s)
      \/ EngineerUpdate(s) \/ HandoffLock(s) \/ EngineerLoad(s) \/ HandoffNobody(s)
      \/ NoticeConflict(s) \/ GroupRefused(s) \/ ShadowConflict(s) \/ HandoffConflict(s) \/ ScanEnd(s) \/ Abort(s) \/ Die(s)
      \/ (\E f \in Employees, force \in BOOLEAN : NoticeFinds(s, f, force))
      \/ (\E z \in session[s].todo : ScanSkip(s, z) \/ ScanPick(s, z)) => UNCHANGED row
  BY DEF NoticeFindsNobody, NoticeAnswered, NoticeClear, NoticeClaim, GroupLock, EngineerUpdate,
         HandoffLock, EngineerLoad, HandoffNobody, NoticeConflict, GroupRefused, ShadowConflict,
         HandoffConflict, ScanEnd, Abort, Die, NoticeFinds, ScanSkip, ScanPick, Rollback
<1> QED
  BY <1>2, <1>3, <1>4, <1>5, <1>6, <1>7, <1>8 DEF Serve

(* A step that moves one session, and begins no assignment. *)
Turns(s) ==
  /\ \A o \in Sessions \ {s} : session'[o] = session[o]
  /\ session'[s].step # "replacing"

LEMMA CallTurns ==
  ASSUME DeskInv, NEW s \in Sessions, Call(s)
  PROVE  Turns(s) \/ \E i \in Incidents, e \in Employees : AssignBegin(s, i, e)
<1>1. ASSUME NEW op, NEW step \in Steps \ {"replacing"}, NEW i \in Incidents, NEW t, NEW w,
             Begin(s, op, step, i, t, w)
      PROVE  Turns(s)
  BY <1>1 DEF Begin, Turns, DeskInv, TypeOK, Idle
<1>2. ASSUME NEW i \in Incidents, NEW t \in Teams, NoticeBegin(s, i, t) \/ GroupBegin(s, i, t)
      PROVE  Turns(s)
  BY <1>1, <1>2 DEF NoticeBegin, GroupBegin, Steps
<1>3. ASSUME NEW i \in Incidents, NEW e \in Employees, NEW op \in Kinds, EngineerBegin(s, i, e, op)
      PROVE  Turns(s)
  BY <1>3 DEF EngineerBegin, Turns, DeskInv, TypeOK, Idle
<1>4. CASE ScanBegin(s)
  <2>1. PICK found : session' = [session EXCEPT ![s] =
                       [Idle EXCEPT !.op = "handoff", !.step = "scanning", !.todo = found]]
    BY <1>4 DEF ScanBegin
  <2> QED
    BY <2>1 DEF Turns, DeskInv, TypeOK, Idle
<1>5. ASSUME NEW i \in Incidents, NEW e \in Employees, NEW op \in Kinds, ShadowBegin(s, i, e, op)
      PROVE  Turns(s)
  BY <1>1, <1>5 DEF ShadowBegin, Steps
<1> QED
  BY <1>2, <1>3, <1>4, <1>5 DEF Call

LEMMA ServeTurns ==
  ASSUME DeskInv, NEW s \in Sessions, Serve(s) \/ Die(s)
  PROVE  Turns(s)
<1> USE DEF Turns
<1>1. session \in [Sessions -> Session]
  BY DEF DeskInv, TypeOK
<1>2. CASE Close(s)
  BY <1>1, <1>2 DEF Close, Idle
<1>3. ASSUME NEW step \in Steps \ {"replacing"}, Go(s, step) PROVE Turns(s)
  BY <1>1, <1>3 DEF Go, Session
<1>4. NoticeFindsNobody(s) \/ NoticeClear(s) \/ NoticeClaim(s) \/ GroupLock(s) \/ EngineerUpdate(s)
      \/ HandoffLock(s) \/ HandoffNobody(s) => Turns(s)
  BY <1>3 DEF NoticeFindsNobody, NoticeClear, NoticeClaim, GroupLock, EngineerUpdate, HandoffLock,
              HandoffNobody, Steps
<1>5. Ends(s) => Close(s)
  BY EndsClose
<1>6. ASSUME NEW e, NEW step \in {"clearing", "touching"},
             session' = [session EXCEPT ![s].who = e, ![s].step = step]
      PROVE  Turns(s)
  BY <1>1, <1>6 DEF Session
<1>7. NoticeAnswered(s) \/ (\E e \in Employees, force \in BOOLEAN : NoticeFinds(s, e, force)) => Turns(s)
  BY <1>6 DEF NoticeAnswered, NoticeFinds
<1>8. ASSUME NEW k, NEW i, NEW step \in {"writing", "scanning"},
             session' = [session EXCEPT ![s].step = step, ![s].known[i] = k]
      PROVE  Turns(s)
  BY <1>1, <1>8 DEF Session
<1>9. EngineerLoad(s) \/ (\E f \in Employees : Handoff(s, f)) => Turns(s)
  BY <1>8 DEF EngineerLoad, Handoff
<1>10. ASSUME NEW z, ScanSkip(s, z) PROVE Turns(s)
  BY <1>1, <1>10 DEF ScanSkip, Session
<1>11. ASSUME NEW z, ScanPick(s, z) PROVE Turns(s)
  BY <1>1, <1>11 DEF ScanPick, Session
<1> QED
  BY <1>2, <1>4, <1>5, <1>7, <1>9, <1>10, <1>11 DEF Serve, Ends

(***************************************************************************)
(* An assignment replaces one who still has the incident, or nobody if     *)
(* nobody has it: while it has the lock, no other session changes that.    *)
(***************************************************************************)
LEMMA HolderStep == HolderInv /\ [Next]_vars => HolderInv'
<1> SUFFICES ASSUME HolderInv, [Next]_vars PROVE HolderInv'
  OBVIOUS
<1>1. DeskInv /\ LocksInUse /\ DeskInv' /\ LocksInUse'
  BY DeskStep, UsesStep DEF HolderInv
<1>2. CASE UNCHANGED vars
  BY <1>1, <1>2 DEF vars, HolderInv, Replacing, Active
<1>3. ASSUME NEW s \in Sessions, NEW i \in Incidents, NEW e \in Employees, AssignBegin(s, i, e)
      PROVE  HolderInv'
  <2>1. UNCHANGED row /\ \A o \in Sessions \ {s} : session'[o] = session[o]
    <3>1. PICK x : session' = [session EXCEPT ![s] = x]
      BY <1>3 DEF AssignBegin
    <3> QED
      BY <1>1, <1>3, <3>1 DEF AssignBegin, DeskInv, TypeOK
  <2>2. PICK f \in Employees \cup {None} :
          /\ f # None => f \in Active(i)
          /\ f = None => Active(i) = {}
          /\ session'[s].inc = i /\ session'[s].from = f
    BY <1>1, <1>3, AssignBeginStep
  <2>3. Replacing(session[s])'
    BY <2>1, <2>2 DEF Replacing, Active
  <2>4. \A o \in Sessions \ {s} : Replacing(session[o])'
    BY <2>1 DEF HolderInv, Replacing, Active
  <2> QED
    BY <1>1, <2>3, <2>4 DEF HolderInv
<1>4. ASSUME NEW s \in Sessions, Turns(s), UNCHANGED row \/ Serve(s) \/ Die(s) PROVE HolderInv'
  <2>1. ASSUME NEW o \in Sessions \ {s}, session[o].step = "replacing" PROVE Replacing(session[o])'
    <3>1. PICK i \in Incidents : i = session[o].inc /\ incidentLock[i] = o
      BY <1>1, <2>1 DEF DeskInv, Sound, Knows, Holds, OnIncident, Steps
    <3>2. \A e \in Employees : row'[i][e].active = row[i][e].active
      BY <1>1, <1>4, <3>1, ActivityLocked DEF NobodyElse
    <3>3. Active(i)' = Active(i)
      BY <3>2 DEF Active
    <3>4. session[o].from = None \/ session[o].from \in Employees
      BY <1>1 DEF DeskInv, TypeOK, Session
    <3> QED
      BY <1>4, <2>1, <3>1, <3>2, <3>3, <3>4 DEF Turns, Replacing, HolderInv
  <2>2. \A o \in Sessions : Replacing(session[o])'
    BY <1>4, <2>1 DEF Turns, Replacing
  <2> QED
    BY <1>1, <2>2 DEF HolderInv
<1>5. CASE Next
  <2>1. ASSUME NEW s \in Sessions, Call(s) PROVE HolderInv'
    BY <1>1, <1>3, <1>4, <2>1, CallStep, CallTurns
  <2>2. ASSUME NEW s \in Sessions, Serve(s) \/ Die(s) PROVE HolderInv'
    BY <1>1, <1>4, <2>2, ServeTurns
  <2> QED
    BY <1>5, <2>1, <2>2 DEF Next
<1> QED
  BY <1>2, <1>5

LEMMA InitHolder == Init => HolderInv
<1> SUFFICES ASSUME Init PROVE HolderInv
  OBVIOUS
<1>1. LocksInUse
  BY DeskAssumption DEF Init, LocksInUse, Uses, LocksUsed, Idle
<1> QED
  BY <1>1, InitDesk DEF Init, HolderInv, Replacing, Idle

(* One newcomer at most, who takes the place of another, if there is one. *)
LEMMA MovesReplace ==
  ASSUME NEW i \in Incidents, HolderMoves(i)
  PROVE  /\ Cardinality(Newcomers(i)) <= 1
         /\ Newcomers(i) # {} /\ Active(i) # {} => \E e \in Active(i) : ~ row'[i][e].active
<1>1. CASE \A e \in Employees : row'[i][e].active => row[i][e].active
  <2>1. Newcomers(i) = {}
    BY <1>1 DEF Newcomers, Active
  <2> QED
    BY <2>1, FS_EmptySet
<1>2. CASE \E e \in Employees : \A f \in Employees : row'[i][f].active => f = e \/ row[i][f].active
  <2>1. PICK e \in Employees : \A f \in Employees : row'[i][f].active => f = e \/ row[i][f].active
    BY <1>2
  <2>2. Newcomers(i) \subseteq {e}
    BY <2>1 DEF Newcomers, Active
  <2>3. IsFiniteSet({e}) /\ Cardinality({e}) = 1
    BY FS_Singleton
  <2>4. Cardinality(Newcomers(i)) <= 1
    BY <2>2, <2>3, FS_Subset
  <2>5. Newcomers(i) = {} \/ ~ \A f \in Employees : row'[i][f].active => row[i][f].active
    BY DEF Newcomers, Active
  <2> QED
    BY <2>4, <2>5 DEF HolderMoves
<1> QED
  BY <1>1, <1>2 DEF HolderMoves

(***************************************************************************)
(* An incident changes hands, whatever requests are in use: one newcomer   *)
(* at a time, in the place of one who had it, but for the group send, a    *)
(* handoff of what has been closed since the scan has read it, and an      *)
(* engineer who accepts a recommendation of the SHADOW mode.               *)
(***************************************************************************)
THEOREM HandedOver == Spec => HoldersReplaced
<1> DEFINE Replaced ==
      \A i \in Incidents :
        \/ /\ Cardinality(Newcomers(i)) <= 1
           /\ Newcomers(i) # {} /\ Active(i) # {} => \E e \in Active(i) : ~ row'[i][e].active
        \/ \E s \in Sessions :
             session[s].inc = i /\ (GroupCommit(s) \/ HandoffLate(s) \/ ShadowCommit(s))
<1>1. HolderInv /\ [Next]_vars => [Replaced]_vars
  <2> SUFFICES ASSUME HolderInv, Next, NEW i \in Incidents
               PROVE  \/ /\ Cardinality(Newcomers(i)) <= 1
                         /\ Newcomers(i) # {} /\ Active(i) # {} => \E e \in Active(i) : ~ row'[i][e].active
                      \/ \E s \in Sessions :
                           session[s].inc = i /\ (GroupCommit(s) \/ HandoffLate(s) \/ ShadowCommit(s))
    OBVIOUS
  <2>1. ASSUME NEW s \in Sessions, Serve(s) \/ Die(s)
        PROVE  \/ HolderMoves(i)
               \/ session[s].inc = i /\ (GroupCommit(s) \/ HandoffLate(s) \/ ShadowCommit(s))
    BY <2>1, ServeStep DEF HolderInv, RowsMove
  <2>2. ASSUME NEW s \in Sessions, Call(s) PROVE HolderMoves(i)
    BY <2>2, CallStep DEF HolderInv, HolderMoves
  <2> QED
    BY <2>1, <2>2, MovesReplace DEF Next
<1> QED
  BY <1>1, InitHolder, HolderStep, PTL DEF Spec, HoldersReplaced

(* Nobody has company. *)
Single == \A i \in Incidents : \A e, f \in Active(i) : e = f

LEMMA SingleCardinality == Single => OneHolder
<1> SUFFICES ASSUME Single, NEW i \in Incidents PROVE Cardinality(Active(i)) <= 1
  BY DEF OneHolder
<1>1. CASE Active(i) = {}
  <2>1. Cardinality({}) = 0
    BY FS_EmptySet
  <2> QED
    BY <1>1, <2>1
<1>2. CASE Active(i) # {}
  <2>1. PICK e : Active(i) = {e}
    BY <1>2 DEF Single
  <2>2. Cardinality({e}) = 1
    BY FS_Singleton
  <2> QED
    BY <2>1, <2>2
<1> QED
  BY <1>1, <1>2

LEMMA SingleMoves ==
  ASSUME Single, \A i \in Incidents : HolderMoves(i)
  PROVE  Single'
<1> SUFFICES ASSUME NEW i \in Incidents, NEW e \in Active(i)', NEW f \in Active(i)' PROVE e = f
  BY DEF Single
<1>1. HolderMoves(i)
  OBVIOUS
<1> QED
  BY <1>1 DEF HolderMoves, Single, Active

(***************************************************************************)
(* Without group sends, which assign to many, without shift handoffs,      *)
(* whose scan reads before it locks, and without recommendations of the    *)
(* SHADOW mode, which whoever accepts adds himself, an incident has at     *)
(* most one active assignment, whatever notices, assignments and           *)
(* engineers do meanwhile.                                                 *)
(***************************************************************************)
THEOREM SingleHolder ==
  ASSUME "group" \notin Operations, "handoff" \notin Operations, "shadow" \notin Operations
  PROVE  Spec => []OneHolder
<1>1. Init => Single
  BY RowsTyped DEF Init, Single, Active
<1>2. HolderInv /\ Single /\ [Next]_vars => Single'
  <2> SUFFICES ASSUME HolderInv, Single, [Next]_vars PROVE Single'
    OBVIOUS
  <2>1. ASSUME NEW s \in Sessions, Serve(s) \/ Die(s) PROVE Single'
    <3>1. \A i \in Incidents : HolderMoves(i) \/ GroupCommit(s) \/ HandoffLate(s) \/ ShadowCommit(s)
      BY <2>1, ServeStep DEF HolderInv, RowsMove
    <3>2. ~ GroupCommit(s) /\ ~ HandoffLate(s) /\ ~ ShadowCommit(s)
      BY MySession DEF HolderInv, GroupCommit, HandoffLate, Handoff, ShadowCommit, At, Sound, Knows
    <3> QED
      BY <3>1, <3>2, SingleMoves
  <2>2. ASSUME NEW s \in Sessions, Call(s) PROVE Single'
    BY <2>2, CallStep DEF HolderInv, Single, Active
  <2>3. CASE UNCHANGED vars
    BY <2>3 DEF vars, Single, Active
  <2> QED
    BY <2>1, <2>2, <2>3 DEF Next
<1> QED
  BY <1>1, <1>2, InitHolder, HolderStep, SingleCardinality, PTL DEF Spec

-----------------------------------------------------------------------------
(* Handoffs, one request at a time *)

(* What a scan has found is still so, and is about different incidents.     *)
Fresh(x) ==
  /\ x.todo # {} => x.step \in {"scanning", "locking", "handing"}
  /\ \A y \in x.todo : y.emp \in Active(y.inc)
  /\ \A y, z \in x.todo : y.inc = z.inc => y = z
  /\ x.step \in {"locking", "handing"} =>
       x.who \in Active(x.inc) /\ \A y \in x.todo : y.inc # x.inc

LEMMA FreshElsewhere ==
  ASSUME DeskInv, NEW s \in Sessions, NEW x, session' = [session EXCEPT ![s] = x],
         x.todo = {}, x.step \notin {"locking", "handing"}
  PROVE  Fresh(session[s])'
BY DEF DeskInv, TypeOK, Fresh

(* Steps of the other requests, which scan nothing.                         *)
LEMMA FreshAway ==
  ASSUME DeskInv, NEW s \in Sessions, Fresh(session[s]),
         \/ NoticeFindsNobody(s) \/ NoticeAnswered(s) \/ EngineerLoad(s)
         \/ \E e \in Employees, force \in BOOLEAN : NoticeFinds(s, e, force)
         \/ NoticeClear(s) \/ NoticeClaim(s) \/ GroupLock(s) \/ EngineerUpdate(s)
  PROVE  Fresh(session[s])'
<1>1. PICK y \in Session : y = session[s] /\ y.todo = {}
  BY MySession DEF Fresh, NoticeFindsNobody, NoticeAnswered, EngineerLoad, NoticeFinds, NoticeClear,
                   NoticeClaim, GroupLock, EngineerUpdate, At
<1>2. ASSUME NEW step \in {"claiming", "assigning", "spreading", "loading"}, Go(s, step)
      PROVE  Fresh(session[s])'
  <2> DEFINE x == [y EXCEPT !.step = step]
  <2>1. session' = [session EXCEPT ![s] = x] /\ x.todo = {} /\ x.step = step
    BY <1>1, <1>2 DEF Go, Session, DeskInv, TypeOK
  <2> HIDE DEF x
  <2> QED
    BY <2>1, FreshElsewhere
<1>3. ASSUME NEW e, NEW step \in {"clearing", "touching"},
             session' = [session EXCEPT ![s].who = e, ![s].step = step]
      PROVE  Fresh(session[s])'
  <2> DEFINE x == [y EXCEPT !.who = e, !.step = step]
  <2>1. session' = [session EXCEPT ![s] = x] /\ x.todo = {} /\ x.step = step
    BY <1>1, <1>3 DEF Session, DeskInv, TypeOK
  <2> HIDE DEF x
  <2> QED
    BY <2>1, FreshElsewhere
<1>4. ASSUME EngineerLoad(s) PROVE Fresh(session[s])'
  <2>1. PICK i, c : session' = [session EXCEPT ![s].step = "writing", ![s].known[i] = c]
    BY <1>4 DEF EngineerLoad
  <2> DEFINE x == [y EXCEPT !.step = "writing", !.known[i] = c]
  <2>2. session' = [session EXCEPT ![s] = x] /\ x.todo = {} /\ x.step = "writing"
    BY <1>1, <2>1 DEF Session, DeskInv, TypeOK
  <2> HIDE DEF x
  <2> QED
    BY <2>2, FreshElsewhere
<1>5. ASSUME NEW e \in Employees, NEW force \in BOOLEAN, NoticeFinds(s, e, force)
      PROVE  \E step \in {"clearing", "touching"} :
               session' = [session EXCEPT ![s].who = e, ![s].step = step]
  BY <1>5 DEF NoticeFinds
<1>6. ASSUME NoticeAnswered(s)
      PROVE  \E e : session' = [session EXCEPT ![s].who = e, ![s].step = "touching"]
  BY <1>6 DEF NoticeAnswered
<1>7. NoticeFindsNobody(s) \/ NoticeClear(s) \/ NoticeClaim(s) \/ GroupLock(s) \/ EngineerUpdate(s)
      => \E step \in {"claiming", "assigning", "spreading", "loading"} : Go(s, step)
  BY DEF NoticeFindsNobody, NoticeClear, NoticeClaim, GroupLock, EngineerUpdate
<1> QED
  BY <1>2, <1>3, <1>4, <1>5, <1>6, <1>7

LEMMA FreshCall ==
  ASSUME DeskInv, Single, NEW s \in Sessions, Call(s)
  PROVE  Fresh(session[s])'
<1>1. ASSUME NEW x, session' = [session EXCEPT ![s] = x], x.todo = {},
             x.step \notin {"locking", "handing"}
      PROVE  Fresh(session[s])'
  BY <1>1, FreshElsewhere
<1>2. ASSUME NEW i \in Incidents, NEW t \in Teams, NoticeBegin(s, i, t) \/ GroupBegin(s, i, t)
      PROVE  Fresh(session[s])'
  <2>1. PICK op \in {"notice", "group"}, step \in {"looking", "gathering"} : Begin(s, op, step, i, t, None)
    BY <1>2 DEF NoticeBegin, GroupBegin
  <2> DEFINE x == [Idle EXCEPT !.op = op, !.step = step, !.inc = i, !.team = t, !.who = None,
                               !.known[i] = incident[i]]
  <2>2. session' = [session EXCEPT ![s] = x] /\ x.step = step /\ x.todo = {}
    BY <2>1 DEF Begin, Idle
  <2> HIDE DEF x
  <2> QED
    BY <1>1, <2>2
<1>3. ASSUME NEW i \in Incidents, NEW e \in Employees, AssignBegin(s, i, e) PROVE Fresh(session[s])'
  <2>1. PICK f : session' = [session EXCEPT ![s] =
          [Idle EXCEPT !.op = "assign", !.step = "replacing", !.inc = i, !.who = e, !.from = f,
                       !.read = IF f = None THEN None ELSE row[i][f],
                       !.known[i] = incident[i]]]
    BY <1>3 DEF AssignBegin
  <2> DEFINE x == [Idle EXCEPT !.op = "assign", !.step = "replacing", !.inc = i, !.who = e, !.from = f,
                               !.read = IF f = None THEN None ELSE row[i][f],
                               !.known[i] = incident[i]]
  <2>2. session' = [session EXCEPT ![s] = x] /\ x.step = "replacing" /\ x.todo = {}
    BY <2>1 DEF Idle
  <2> HIDE DEF x
  <2> QED
    BY <1>1, <2>2
<1>4. ASSUME NEW i \in Incidents, NEW e \in Employees, NEW op \in Kinds, EngineerBegin(s, i, e, op)
      PROVE  Fresh(session[s])'
  <2> DEFINE x == [Idle EXCEPT !.op = op, !.inc = i, !.who = e, !.read = row[i][e],
                               !.step = IF op = "acknowledge" THEN "loading" ELSE "updating"]
  <2>1. /\ session' = [session EXCEPT ![s] = x] /\ x.todo = {}
        /\ x.step = IF op = "acknowledge" THEN "loading" ELSE "updating"
    BY <1>4 DEF EngineerBegin, Idle
  <2> HIDE DEF x
  <2> QED
    BY <1>1, <2>1
<1>5. CASE ScanBegin(s)
  <2> DEFINE Found == {q \in Incidents \X Employees : q[2] \in Active(q[1])}
             todo == {[inc |-> p[1], emp |-> p[2], row |-> row[p[1]][p[2]]] : p \in Found}
             x == [Idle EXCEPT !.op = "handoff", !.step = "scanning", !.todo = todo]
  <2>1. session' = [session EXCEPT ![s] = x] /\ UNCHANGED row
    BY <1>5 DEF ScanBegin
  <2>2. x.step = "scanning" /\ x.todo = todo
    BY DEF Idle
  <2>3. \A y \in todo : /\ y.inc \in Incidents /\ y.emp \in Active(y.inc)
                        /\ y = [inc |-> y.inc, emp |-> y.emp, row |-> row[y.inc][y.emp]]
    OBVIOUS
  <2> HIDE DEF todo, x
  <2>4. \A y, z \in todo : y.inc = z.inc => y = z
    BY <2>3 DEF Single
  <2>5. session'[s] = x
    BY <2>1 DEF DeskInv, TypeOK
  <2> QED
    BY <2>1, <2>2, <2>3, <2>4, <2>5 DEF Fresh, Active
<1>6. ASSUME NEW i \in Incidents, NEW e \in Employees, NEW op \in Kinds, ShadowBegin(s, i, e, op)
      PROVE  Fresh(session[s])'
  <2> DEFINE x == [Idle EXCEPT !.op = op, !.step = "provisioning", !.inc = i, !.team = None, !.who = e,
                               !.known[i] = incident[i]]
  <2>1. session' = [session EXCEPT ![s] = x] /\ x.step = "provisioning" /\ x.todo = {}
    BY <1>6 DEF ShadowBegin, Begin, Idle
  <2> HIDE DEF x
  <2> QED
    BY <1>1, <2>1
<1> QED
  BY <1>2, <1>3, <1>4, <1>5, <1>6 DEF Call

(* The scan goes on: of what it has found, only what it hands over changes. *)
LEMMA FreshScan ==
  ASSUME DeskInv, NEW s \in Sessions, Fresh(session[s]),
         \/ \E z \in session[s].todo : ScanSkip(s, z) \/ ScanPick(s, z)
         \/ HandoffLock(s) \/ HandoffNobody(s) \/ \E f \in Employees : Handoff(s, f)
  PROVE  Fresh(session[s])'
<1>1. PICK y \in Session : y = session[s] /\ Fresh(y)
  BY MySession
<1>2. ASSUME NEW x, session' = [session EXCEPT ![s] = x] PROVE session'[s] = x
  BY <1>2 DEF DeskInv, TypeOK
<1>3. ASSUME NEW z \in session[s].todo, ScanSkip(s, z) PROVE Fresh(session[s])'
  <2>1. PICK c : session' = [session EXCEPT ![s].todo = @ \ {z}, ![s].known[z.inc] = c]
    BY <1>3 DEF ScanSkip
  <2> DEFINE x == [y EXCEPT !.todo = @ \ {z}, !.known[z.inc] = c]
  <2>2. session' = [session EXCEPT ![s] = x]
    BY <1>1, <2>1 DEF Session, DeskInv, TypeOK
  <2>3. x.step = "scanning" /\ x.todo = y.todo \ {z} /\ UNCHANGED row
    BY <1>1, <1>3 DEF ScanSkip, Session
  <2> HIDE DEF x
  <2> QED
    BY <1>1, <1>2, <2>2, <2>3 DEF Fresh, Active
<1>4. ASSUME NEW z \in session[s].todo, ScanPick(s, z) PROVE Fresh(session[s])'
  <2>1. PICK c : session' = [session EXCEPT ![s] =
          [y EXCEPT !.step = "locking", !.todo = y.todo \ {z}, !.known[z.inc] = c,
                    !.inc = z.inc, !.who = z.emp, !.read = z.row]]
    BY <1>1, <1>4 DEF ScanPick
  <2> DEFINE x == [y EXCEPT !.step = "locking", !.todo = y.todo \ {z}, !.known[z.inc] = c,
                            !.inc = z.inc, !.who = z.emp, !.read = z.row]
  <2>2. session' = [session EXCEPT ![s] = x]
    BY <2>1
  <2>3. /\ x.step = "locking" /\ x.todo = y.todo \ {z} /\ x.inc = z.inc /\ x.who = z.emp
        /\ UNCHANGED row
    BY <1>4 DEF ScanPick, Session
  <2> HIDE DEF x
  <2> QED
    BY <1>1, <1>2, <2>2, <2>3 DEF Fresh, Active
<1>5. ASSUME NEW step \in {"scanning", "handing"}, Go(s, step), UNCHANGED row,
             y.step \in {"locking", "handing"}
      PROVE  Fresh(session[s])'
  <2> DEFINE x == [y EXCEPT !.step = step]
  <2>1. session' = [session EXCEPT ![s] = x]
    BY <1>1, <1>5 DEF Go, Session, DeskInv, TypeOK
  <2>2. x.step = step /\ x.todo = y.todo /\ x.inc = y.inc /\ x.who = y.who
    BY DEF Session
  <2> HIDE DEF x
  <2> QED
    BY <1>1, <1>2, <1>5, <2>1, <2>2 DEF Fresh, Active
<1>6. HandoffLock(s) \/ HandoffNobody(s) =>
        /\ UNCHANGED row /\ y.step \in {"locking", "handing"}
        /\ \E step \in {"scanning", "handing"} : Go(s, step)
  BY <1>1 DEF HandoffLock, HandoffNobody, At
<1>7. ASSUME NEW f \in Employees, Handoff(s, f) PROVE Fresh(session[s])'
  <2>1. PICK i, c, r : /\ i = y.inc /\ y.step = "handing"
                       /\ session' = [session EXCEPT ![s].step = "scanning", ![s].known[i] = c]
                       /\ row' = [row EXCEPT ![i] = r]
    BY <1>1, <1>7 DEF Handoff, At
  <2> DEFINE x == [y EXCEPT !.step = "scanning", !.known[i] = c]
  <2>2. session' = [session EXCEPT ![s] = x]
    BY <1>1, <2>1 DEF Session, DeskInv, TypeOK
  <2>3. x.step = "scanning" /\ x.todo = y.todo
    BY DEF Session
  <2> HIDE DEF x
  <2>4. \A z \in y.todo : z.inc # i
    BY <1>1, <2>1 DEF Fresh
  <2>5. \A z \in y.todo : row'[z.inc] = row[z.inc]
    BY <2>1, <2>4 DEF Session, DeskInv, TypeOK
  <2>6. \A z \in y.todo : z.emp \in Employees /\ row'[z.inc][z.emp].active
    <3>1. \A z \in y.todo : z.emp \in Employees /\ row[z.inc][z.emp].active
      BY <1>1 DEF Fresh, Active
    <3> QED
      BY <2>5, <3>1
  <2>7. session'[s] = x
    BY <1>2, <2>2
  <2>8. \A z, w \in y.todo : z.inc = w.inc => z = w
    BY <1>1 DEF Fresh
  <2> QED
    BY <2>3, <2>6, <2>7, <2>8 DEF Fresh, Active
<1> QED
  BY <1>3, <1>4, <1>5, <1>6, <1>7

LEMMA FreshServe ==
  ASSUME DeskInv, NEW s \in Sessions, Fresh(session[s]), Serve(s) \/ Die(s)
  PROVE  Fresh(session[s])'
<1>1. ASSUME Close(s) PROVE Fresh(session[s])'
  <2>1. session' = [session EXCEPT ![s] = Idle]
    BY <1>1 DEF Close
  <2>2. Idle.todo = {} /\ Idle.step = "idle"
    BY DEF Idle
  <2> QED
    BY <2>1, <2>2, FreshElsewhere
<1>2. Ends(s) => Fresh(session[s])'
  BY <1>1, EndsClose
<1> QED
  BY <1>2, FreshAway, FreshScan DEF Serve, Ends

(***************************************************************************)
(* A shift handoff that runs alone, as every request then does, gives no   *)
(* incident a second holder: what its scan has read before its locks is    *)
(* still so, however many assignments it hands over in one go.  Neither    *)
(* group sends nor recommendations of the SHADOW mode are in use.          *)
(***************************************************************************)
THEOREM HandoffAlone ==
  ASSUME "group" \notin Operations, "shadow" \notin Operations, \A s, o \in Sessions : s = o
  PROVE  Spec => []OneHolder
<1> DEFINE AllFresh == \A s \in Sessions : Fresh(session[s])
<1>1. Init => Single /\ AllFresh
  BY RowsTyped DEF Init, Single, Active, Fresh, Idle
<1>2. HolderInv /\ Single /\ AllFresh /\ [Next]_vars => Single' /\ AllFresh'
  <2> SUFFICES ASSUME HolderInv, Single, AllFresh, [Next]_vars PROVE Single' /\ AllFresh'
    OBVIOUS
  <2>1. ASSUME NEW s \in Sessions, Serve(s) \/ Die(s) PROVE Single' /\ AllFresh'
    <3>1. \A i \in Incidents : HolderMoves(i) \/ GroupCommit(s) \/ HandoffLate(s) \/ ShadowCommit(s)
      BY <2>1, ServeStep DEF HolderInv, RowsMove
    <3>2. ~ GroupCommit(s) /\ ~ ShadowCommit(s)
      BY MySession DEF HolderInv, GroupCommit, ShadowCommit, At, Sound, Knows
    <3>3. ~ HandoffLate(s)
      <4>1. HandoffLate(s) => session[s].step = "handing" /\ session[s].who \notin Active(session[s].inc)
        BY DEF HandoffLate, Handoff, At, Active
      <4> QED
        BY <4>1 DEF Fresh
    <3>4. Fresh(session[s])'
      BY <2>1, FreshServe DEF HolderInv
    <3> QED
      BY <3>1, <3>2, <3>3, <3>4, SingleMoves
  <2>2. ASSUME NEW s \in Sessions, Call(s) PROVE Single' /\ AllFresh'
    <3>1. Single'
      BY <2>2, CallStep DEF HolderInv, Single, Active
    <3>2. Fresh(session[s])'
      BY <2>2, FreshCall DEF HolderInv
    <3> QED
      BY <3>1, <3>2
  <2>3. CASE UNCHANGED vars
    BY <2>3 DEF vars, Single, Active, Fresh
  <2> QED
    BY <2>1, <2>2, <2>3 DEF Next
<1> HIDE DEF AllFresh
<1> QED
  BY <1>1, <1>2, InitHolder, HolderStep, SingleCardinality, PTL DEF Spec

-----------------------------------------------------------------------------
(* Deadlocks *)

(* Who waits is at work on an incident, and for assignments of it. *)
LEMMA WaitingFor ==
  ASSUME DeskInv, LocksInUse, NEW c \in Sessions, NEW d \in Blockers(c)
  PROVE  /\ session[c].inc \in Incidents /\ d \in Sessions \ {c}
         /\ NeedsRows(c) \subseteq Employees
         /\ session[d].inc = session[c].inc
<1>1. PICK y \in Session : y = session[c] /\ Sound(c, y)
  BY MySession
<1>2. NeedsIncident(c) \/ NeedsRows(c) # {}
  BY DEF Blockers
<1>3. y.step \notin {"idle", "scanning"}
  BY <1>1, <1>2 DEF NeedsIncident, NeedsRows
<1>4. y.inc \in Incidents
  BY <1>1, <1>3 DEF Sound, Knows, OnIncident, Session
<1>5. y.step \in OnRow => y.who \in Employees
  BY <1>1 DEF Sound, Knows
<1>6. y.from \in Employees \cup {None}
  BY DEF Session
<1>7. NeedsRows(c) \subseteq Employees
  BY <1>1, <1>5, <1>6 DEF NeedsRows, Active, Members, OnRow
<1>8. d \in Sessions \ {c} /\ Uses(d, session[d])
  BY DEF Blockers, LocksInUse
<1>9. session[d].inc = y.inc
  BY <1>1, <1>4, <1>7, <1>8 DEF Blockers, Uses, LocksUsed
<1> QED
  BY <1>1, <1>4, <1>7, <1>8, <1>9

(* Who has the incident and waits, waits for rows. *)
LEMMA OwnerWaits ==
  ASSUME DeskInv, LocksInUse, NEW c \in Sessions, NEW d \in Blockers(c), incidentLock[session[c].inc] = c
  PROVE  \E e \in NeedsRows(c) : rowLock[session[c].inc][e] = d
<1>1. incidentLock[session[c].inc] # d
  BY WaitingFor
<1> QED
  BY <1>1 DEF Blockers

(***************************************************************************)
(* Who is waited for and does not have the incident has a row that he will *)
(* not wait for himself: what he waits for is the incident.                *)
(***************************************************************************)
LEMMA HolderWaits ==
  ASSUME DeskInv, LocksInUse, NEW c \in Sessions, NEW d \in Blockers(c), incidentLock[session[c].inc] # c,
         NEW b \in Sessions, c \in Blockers(b)
  PROVE  NeedsIncident(c) /\ incidentLock[session[c].inc] = d
<1>1. PICK y \in Session : y = session[c] /\ Sound(c, y) /\ Uses(c, y)
  BY MySession DEF LocksInUse
<1>2. PICK i \in Incidents : i = y.inc /\ i = session[b].inc /\ NeedsRows(b) \subseteq Employees
  BY <1>1, WaitingFor
<1>3. PICK e \in Employees : rowLock[i][e] = c
  BY <1>1, <1>2 DEF Blockers
<1>4. /\ y.step \in {"claiming", "assigning", "touching", "loading", "writing", "handing"}
      /\ y.step \in {"loading", "writing", "handing"} => e = y.who /\ y.op # "acknowledge"
      /\ y.step = "touching" => incidentLock[i] = c
  BY <1>1, <1>2, <1>3 DEF Uses, LocksUsed
<1>5. y.step \in {"claiming", "loading", "writing", "handing"}
  BY <1>1, <1>2, <1>4 DEF Sound, Holds
<1>6. \A f \in NeedsRows(c) : rowLock[i][f] = c
  <2>1. CASE y.step = "writing"
    <3>1. NeedsRows(c) \subseteq {y.who}
      BY <1>1, <2>1 DEF NeedsRows
    <3> QED
      BY <1>3, <1>4, <2>1, <3>1
  <2>2. CASE y.step # "writing"
    <3>1. NeedsRows(c) = {}
      BY <1>1, <1>5, <2>2 DEF NeedsRows
    <3> QED
      BY <3>1
  <2> QED
    BY <2>1, <2>2
<1> QED
  BY <1>1, <1>2, <1>6, WaitingFor DEF Blockers

(* A smallest knot: everybody in it is waited for, and no part of it is one. *)
LEMMA Circle ==
  ASSUME NEW waits, NEW s, Deadlocked(waits, s)
  PROVE  \E C \in SUBSET DOMAIN waits :
           /\ s \in C
           /\ \A c \in C : waits[c] \cap C # {} /\ \E d \in C : c \in waits[d]
           /\ \A c, d \in C : c \in waits[d] /\ d \in waits[c] => C = {c, d}
<1>1. PICK C \in SUBSET DOMAIN waits :
        s \in C /\ Knot(waits, C) /\ \A D \in SUBSET C : Knot(waits, D) => D = C
  BY DEF Deadlocked
<1>2. ASSUME NEW c \in C, \A d \in C : c \notin waits[d] PROVE FALSE
  <2>1. waits[c] \cap C # {}
    BY <1>1 DEF Knot
  <2>2. C \ {c} # {} /\ \A d \in C \ {c} : waits[d] \cap (C \ {c}) # {}
    BY <1>1, <1>2, <2>1 DEF Knot
  <2>3. Knot(waits, C \ {c}) /\ C \ {c} \in SUBSET C
    BY <2>2 DEF Knot
  <2> QED
    BY <1>1, <2>3
<1>3. \A c \in C : waits[c] \cap C # {} /\ \E d \in C : c \in waits[d]
  BY <1>1, <1>2 DEF Knot
<1>4. ASSUME NEW c \in C, NEW d \in C, c \in waits[d], d \in waits[c] PROVE C = {c, d}
  <2>1. Knot(waits, {c, d}) /\ {c, d} \in SUBSET C
    BY <1>4 DEF Knot
  <2> QED
    BY <1>1, <2>1
<1> QED
  BY <1>1, <1>3, <1>4

LEMMA InversionsOnly ==
  ASSUME DeskInv, LocksInUse, NEW s \in Sessions, Deadlocked(Waits, s)
  PROVE  \E o \in Sessions : LockInversion(s, o) \/ LockInversion(o, s)
<1>1. DOMAIN Waits = Sessions /\ \A c \in Sessions : Waits[c] = Blockers(c)
  BY DEF Waits
<1>2. PICK C \in SUBSET Sessions :
        /\ s \in C
        /\ \A c \in C : Blockers(c) \cap C # {} /\ \E d \in C : c \in Blockers(d)
        /\ \A c, d \in C : c \in Blockers(d) /\ d \in Blockers(c) => C = {c, d}
  <2>1. PICK C \in SUBSET DOMAIN Waits :
          /\ s \in C
          /\ \A c \in C : Waits[c] \cap C # {} /\ \E d \in C : c \in Waits[d]
          /\ \A c, d \in C : c \in Waits[d] /\ d \in Waits[c] => C = {c, d}
    BY Circle
  <2>2. C \in SUBSET Sessions /\ \A c \in C : Waits[c] = Blockers(c)
    BY <1>1
  <2>3. ASSUME NEW c \in C PROVE Blockers(c) \cap C # {} /\ \E d \in C : c \in Blockers(d)
    <3>1. Waits[c] \cap C # {} /\ Waits[c] = Blockers(c)
      BY <2>1, <2>2
    <3>2. PICK d \in C : c \in Waits[d]
      BY <2>1
    <3> QED
      BY <2>2, <3>1, <3>2
  <2>4. \A c, d \in C : c \in Blockers(d) /\ d \in Blockers(c) => C = {c, d}
    BY <2>1, <2>2
  <2> QED
    BY <2>1, <2>2, <2>3, <2>4
<1>3. ASSUME NEW c \in C, incidentLock[session[c].inc] # c
      PROVE  \E d \in C : /\ d \in Blockers(c) /\ NeedsIncident(c)
                          /\ session[d].inc = session[c].inc /\ incidentLock[session[c].inc] = d
  <2>1. PICK d \in C, b \in C : d \in Blockers(c) /\ c \in Blockers(b)
    BY <1>2
  <2> QED
    BY <1>3, <2>1, HolderWaits, WaitingFor
<1>4. ASSUME NEW c \in C, incidentLock[session[c].inc] = c
      PROVE  \E d \in C : /\ d \in Blockers(c) /\ c \in Blockers(d)
                          /\ LockInversion(d, c)
  <2>1. PICK d \in C : d \in Blockers(c)
    BY <1>2
  <2>2. /\ session[d].inc = session[c].inc /\ d # c
        /\ \E e \in NeedsRows(c) : rowLock[session[c].inc][e] = d
    BY <1>4, <2>1, WaitingFor, OwnerWaits
  <2>3. incidentLock[session[d].inc] # d
    BY <1>4, <2>2
  <2>4. NeedsIncident(d) /\ c \in Blockers(d)
    BY <1>3, <1>4, <2>2, <2>3
  <2> QED
    BY <1>4, <2>1, <2>2, <2>4 DEF LockInversion
<1>5. CASE incidentLock[session[s].inc] = s
  BY <1>2, <1>4, <1>5
<1>6. CASE incidentLock[session[s].inc] # s
  <2>1. PICK d \in C : /\ session[d].inc = session[s].inc /\ incidentLock[session[s].inc] = d
    BY <1>2, <1>3, <1>6
  <2>2. PICK g \in C : g \in Blockers(d) /\ d \in Blockers(g) /\ LockInversion(g, d)
    BY <1>4, <2>1
  <2>3. s = g
    BY <1>2, <1>6, <2>1, <2>2
  <2> QED
    BY <2>2, <2>3
<1> QED
  BY <1>5, <1>6

(***************************************************************************)
(* Whatever requests are in use and however many run, a deadlock over the  *)
(* exclusive locks of incidents and of their assignment rows is one of two *)
(* requests about one incident that take its lock and a row's in opposite  *)
(* orders: longer circles of these locks do not come about.                *)
(***************************************************************************)
THEOREM InversionDeadlocks == Spec => []OnlyInversionsDeadlock
<1>1. DeskInv /\ LocksInUse => OnlyInversionsDeadlock
  BY InversionsOnly DEF OnlyInversionsDeadlock
<1> QED
  BY <1>1, LocksAreInUse, PTL

=============================================================================
