------------------------------ MODULE Intake ------------------------------
(***************************************************************************)
(* ServiceNow's webhook: a delivery is deduplicated by its event key,      *)
(* creates or updates an incident, and a new incident goes through the     *)
(* assignment engine, all in one session whose transaction the engine may  *)
(* commit early.  Deliveries are repeated, overtake each other, fail and   *)
(* die; the switches of AutomationMode are turned meanwhile.               *)
(*                                                                         *)
(* A new incident is invisible to others until its first commit, so nobody *)
(* disturbs its dispatch except through the settings and the pilot's count. *)
(***************************************************************************)
EXTENDS AutomationMode, FiniteSets

CONSTANTS
  Incidents,      \* incidents of ServiceNow, told apart by sys_id and number
  Versions,       \* their updates
  Counted,        \* the versions whose payload has a sys_mod_count
  Handlers,       \* concurrent webhook requests
  TeamSize,       \* assignments of a group fallback, 10 in the code
  Limit,          \* max_active_assignments of the pilot, 5 by default
  MaxDeliveries,  \* bound: deliveries in a behaviour
  Faults          \* whether the database may fail and requests may die

ASSUME IntakeAssumption ==
  /\ Versions \subseteq Nat \ {0}
  /\ Counted \subseteq Versions
  /\ TeamSize \in Nat \ {0}
  /\ Limit \in Nat
  /\ MaxDeliveries \in Nat
  /\ Faults \in BOOLEAN

ASSUME FiniteAssumption ==
  IsFiniteSet(Incidents) /\ IsFiniteSet(Handlers) /\ Handlers # {}

VARIABLES
  event,       \* event[i][k]: status of the integration event with that key
  incident,    \* incident[i]: the row of table incidents
  handler,     \* handler[h]: the session of a webhook request
  failed,      \* the incidents with an event INCIDENT_INGEST_FAILED
  answers,     \* history: the answers ServiceNow got
  applied,     \* history: commits of each version
  deliveries   \* deliveries begun

intakeVars == <<event, incident, handler, failed, answers, applied, deliveries>>

vars == <<settings, admin, requests, armed, intakeVars>>

-----------------------------------------------------------------------------
(* Tables *)

(* Without a sys_mod_count the key is made of sys_id and number only. *)
IdempotencyKey(v) == IF v \in Counted THEN v ELSE 0

Keys == {IdempotencyKey(v) : v \in Versions}

(* version is the payload last written, holders the active assignments in   *)
(* work, via and disturbed what the dispatch that made them had read.       *)
NoIncident == [state |-> "NONE", version |-> 0, holders |-> 0, via |-> Nil,
               disturbed |-> FALSE]

Incident == [state : {"NEW", "UNASSIGNED", "SUNDAY_HOLIDAY_HOLD",
                      "QUEUED_FOR_NEXT_SHIFT", "ASSIGNED"},
             version : Versions, holders : 0..TeamSize,
             via : Modes \cup {Nil}, disturbed : BOOLEAN]

Stored(i) == incident[i].state # "NONE"

(* The active assignments, numbered within their incident. *)
Active == {x \in Incidents \X (1..TeamSize) : x[2] <= incident[x[1]].holders}

(* _get_active_pilot_assignment_count, whoever made the assignments. *)
ActiveCount == Cardinality(Active)

Engine == {"gate", "mode", "pilot", "holiday", "dry_run", "shadow", "assigning"}

Steps == {"idle", "looking", "inserting", "finding", "writing", "finishing",
          "recording"} \cup Engine

(***************************************************************************)
(* new: the incident was not found; mode: the mode as the engine read it;  *)
(* early: the engine has committed the transaction; disturbed (history):   *)
(* settings were committed since the engine began.                         *)
(***************************************************************************)
Handler == [step : Steps, inc : Incidents \cup {Nil}, ver : Versions \cup {0},
            new : BOOLEAN, mode : Modes \cup {Nil}, early : BOOLEAN, disturbed : BOOLEAN]

IdleHandler == [step |-> "idle", inc |-> Nil, ver |-> 0, new |-> FALSE, mode |-> Nil,
                early |-> FALSE, disturbed |-> FALSE]

Key(h) == IdempotencyKey(handler[h].ver)

(* h holds an uncommitted event, or an uncommitted row of its incident. *)
HasEvent(h) == handler[h].step \in {"finding", "writing", "finishing"} \cup Engine
               /\ ~ handler[h].early

HasRow(h) == handler[h].step \in {"finishing"} \cup Engine /\ ~ handler[h].early

At(h, step) == handler[h].step = step

Go(h, step) == handler' = [handler EXCEPT ![h].step = step]

Answer(h, kind) ==
  /\ answers' = answers \cup {[inc |-> handler[h].inc, kind |-> kind]}
  /\ handler' = [handler EXCEPT ![h] = IdleHandler]

-----------------------------------------------------------------------------
(* The webhook *)

Deliver(h) ==
  /\ At(h, "idle")
  /\ deliveries < MaxDeliveries
  /\ deliveries' = deliveries + 1
  /\ \E i \in Incidents, v \in Versions :
       handler' = [handler EXCEPT ![h] =
         [IdleHandler EXCEPT !.step = "looking", !.inc = i, !.ver = v]]
  /\ UNCHANGED <<modeVars, event, incident, failed, answers, applied>>

(* The key is on record, whatever became of it. *)
Deduplicate(h) ==
  /\ At(h, "looking")
  /\ event[handler[h].inc][Key(h)] # "NONE"
  /\ Answer(h, "deduplicated")
  /\ UNCHANGED <<modeVars, event, incident, failed, applied, deliveries>>

Look(h) ==
  /\ At(h, "looking")
  /\ event[handler[h].inc][Key(h)] = "NONE"
  /\ Go(h, "inserting")
  /\ UNCHANGED <<modeVars, event, incident, failed, answers, applied, deliveries>>

(* Fault: the key has no unique index. *)
AnyKey(h) == {}

(* A unique key keeps h waiting while another transaction may still commit it. *)
KeyHolders(h) ==
  {o \in Handlers \ {h} : HasEvent(o) /\ handler[o].inc = handler[h].inc /\ Key(o) = Key(h)}

(* Fault: the event is committed before the incident. *)
InsertCommitted(h) ==
  /\ At(h, "inserting")
  /\ event[handler[h].inc][Key(h)] = "NONE"
  /\ event' = [event EXCEPT ![handler[h].inc][Key(h)] = "RECEIVED"]
  /\ Go(h, "finding")
  /\ UNCHANGED <<modeVars, incident, failed, answers, applied, deliveries>>

InsertEvent(h) ==
  /\ At(h, "inserting")
  /\ KeyHolders(h) = {}
  /\ event[handler[h].inc][Key(h)] = "NONE"
  /\ Go(h, "finding")
  /\ UNCHANGED <<modeVars, event, incident, failed, answers, applied, deliveries>>

InsertConflict(h) ==
  /\ At(h, "inserting")
  /\ KeyHolders(h) = {}
  /\ event[handler[h].inc][Key(h)] # "NONE"
  /\ Answer(h, "deduplicated")
  /\ UNCHANGED <<modeVars, event, incident, failed, applied, deliveries>>

(* Any other error of this flush is taken for a concurrent duplicate, too. *)
InsertFails(h) ==
  /\ Faults
  /\ At(h, "inserting")
  /\ Answer(h, "presumed")
  /\ UNCHANGED <<modeVars, event, incident, failed, applied, deliveries>>

FindExisting(h) ==
  /\ At(h, "finding")
  /\ handler' = [handler EXCEPT ![h].step = "writing", ![h].new = ~ Stored(handler[h].inc)]
  /\ UNCHANGED <<modeVars, event, incident, failed, answers, applied, deliveries>>

RowHolders(h) == {o \in Handlers \ {h} : HasRow(o) /\ handler[o].inc = handler[h].inc}

(* The new incident is flushed; incident_number and servicenow_sys_id are unique. *)
CreateIncident(h) ==
  /\ At(h, "writing") /\ handler[h].new
  /\ RowHolders(h) = {}
  /\ ~ Stored(handler[h].inc)
  /\ Go(h, "gate")
  /\ UNCHANGED <<modeVars, event, incident, failed, answers, applied, deliveries>>

(* Fault: an update is dispatched like a new incident. *)
UpdateDispatched(h) ==
  /\ At(h, "writing") /\ ~ handler[h].new
  /\ RowHolders(h) = {}
  /\ Go(h, "gate")
  /\ UNCHANGED <<modeVars, event, incident, failed, answers, applied, deliveries>>

(* The existing incident takes what the payload says, newer or older. *)
UpdateIncident(h) ==
  /\ At(h, "writing") /\ ~ handler[h].new
  /\ RowHolders(h) = {}
  /\ Go(h, "finishing")
  /\ UNCHANGED <<modeVars, event, incident, failed, answers, applied, deliveries>>

-----------------------------------------------------------------------------
(* The transaction of h commits *)

(* Fault: the payload is not written. *)
Unwritten(h) == [incident[handler[h].inc] EXCEPT !.state = "NEW"]

(* The incident of h as it is stored when the payload is written. *)
Written(h) ==
  LET old == incident[handler[h].inc] IN
  IF handler[h].early THEN old ELSE [old EXCEPT !.version = handler[h].ver, !.state = "NEW"]

(* Fault: the event is not part of the transaction. *)
CommitRowOnly(h, status, row) ==
  /\ incident' = [incident EXCEPT ![handler[h].inc] = row]
  /\ applied' = [applied EXCEPT ![handler[h].inc][handler[h].ver] = @ + 1]
  /\ UNCHANGED event

CommitAs(h, status, row) ==
  /\ event' = [event EXCEPT ![handler[h].inc][Key(h)] = status]
  /\ incident' = [incident EXCEPT ![handler[h].inc] = row]
  /\ applied' = IF handler[h].early THEN applied
                ELSE [applied EXCEPT ![handler[h].inc][handler[h].ver] = @ + 1]

(* The engine commits what the webhook has begun, and leaves it RECEIVED. *)
EngineCommits(h, row) ==
  /\ CommitAs(h, "RECEIVED", row)
  /\ handler' = [handler EXCEPT ![h].step = "finishing", ![h].early = TRUE]
  /\ UNCHANGED <<modeVars, failed, answers, deliveries>>

Finish(h) ==
  /\ At(h, "finishing")
  /\ CommitAs(h, "PROCESSED", Written(h))
  /\ Answer(h, "processed")
  /\ UNCHANGED <<modeVars, failed, deliveries>>

(* Fault: nobody notices that the row is there already. *)
NoConflict(h) == FALSE /\ UNCHANGED vars

(* A concurrent delivery has created the incident: the unique indexes refuse it. *)
CreateConflict(h) ==
  /\ At(h, "writing") /\ handler[h].new
  /\ RowHolders(h) = {}
  /\ Stored(handler[h].inc)
  /\ Go(h, "recording")
  /\ UNCHANGED <<modeVars, event, incident, failed, answers, applied, deliveries>>

(* Something raises: what is uncommitted is gone. *)
Fail(h) ==
  /\ Faults
  /\ HasEvent(h) \/ At(h, "finishing")
  /\ Go(h, "recording")
  /\ UNCHANGED <<modeVars, event, incident, failed, answers, applied, deliveries>>

(* The failure is kept in a transaction of its own, or that fails as well. *)
RecordFailure(h) ==
  /\ At(h, "recording")
  /\ \/ failed' = failed \cup {handler[h].inc}
     \/ Faults /\ UNCHANGED failed
  /\ Answer(h, "error_logged")
  /\ UNCHANGED <<modeVars, event, incident, applied, deliveries>>

Die(h) ==
  /\ Faults
  /\ ~ At(h, "idle")
  /\ handler' = [handler EXCEPT ![h] = IdleHandler]
  /\ UNCHANGED <<modeVars, event, incident, failed, answers, applied, deliveries>>

-----------------------------------------------------------------------------
(* process_incident *)

(* Automation is off: the incident is kept as it came. *)
Skip(h) == Go(h, "finishing")

Gate(h) ==
  /\ At(h, "gate")
  /\ IF Admits(settings) THEN Go(h, "mode") ELSE Skip(h)
  /\ UNCHANGED <<modeVars, event, incident, failed, answers, applied, deliveries>>

ReadMode(h) ==
  /\ At(h, "mode")
  /\ handler' = [handler EXCEPT
       ![h].mode = settings.mode,
       ![h].step = CASE settings.mode = "PAUSED" -> "finishing"
                     [] settings.mode = "LIVE"   -> "pilot"
                     [] OTHER                    -> "holiday"]
  /\ UNCHANGED <<modeVars, event, incident, failed, answers, applied, deliveries>>

(* Fault: the pilot's limit is off by one. *)
RoomBeyond == ActiveCount <= Limit

(* Nothing keeps another dispatch from counting the same. *)
Room == ActiveCount < Limit

(* Whether the incident belongs to the pilot's group is either way. *)
PilotGuard(h) ==
  /\ At(h, "pilot")
  /\ \/ settings.pilot /\ Room /\ Go(h, "holiday")
     \/ Skip(h)
  /\ UNCHANGED <<modeVars, event, incident, failed, answers, applied, deliveries>>

(* Any day may be a Sunday. *)
SundayHold(h) ==
  /\ At(h, "holiday")
  /\ EngineCommits(h, [Written(h) EXCEPT !.state = "SUNDAY_HOLIDAY_HOLD"])

Workday(h) ==
  /\ At(h, "holiday")
  /\ Go(h, "dry_run")
  /\ UNCHANGED <<modeVars, event, incident, failed, answers, applied, deliveries>>

(* Two readings, one after the other: first one mode, then the other. *)
CheckDryRun(h) ==
  /\ At(h, "dry_run")
  /\ IF DryRun(settings) THEN Skip(h) ELSE Go(h, "shadow")
  /\ UNCHANGED <<modeVars, event, incident, failed, answers, applied, deliveries>>

CheckShadow(h) ==
  /\ At(h, "shadow")
  /\ IF Shadow(settings) THEN Skip(h) ELSE Go(h, "assigning")
  /\ UNCHANGED <<modeVars, event, incident, failed, answers, applied, deliveries>>

(* Nobody is eligible: the engine looks at neither mode before it says so. *)
LeaveUnassigned(h) ==
  /\ At(h, "dry_run")
  /\ EngineCommits(h, [Written(h) EXCEPT !.state = "UNASSIGNED"])

(* The next shift gets it, when the team is found only now. *)
QueueForNextShift(h) ==
  /\ At(h, "dry_run")
  /\ EngineCommits(h, [Written(h) EXCEPT !.state = "QUEUED_FOR_NEXT_SHIFT"])

(* One holder by rotation or eligibility, a whole team by the group fallback. *)
Assign(h, n) ==
  /\ At(h, "assigning")
  /\ EngineCommits(h, [Written(h) EXCEPT !.state = "ASSIGNED", !.holders = n,
                       !.via = handler[h].mode, !.disturbed = handler[h].disturbed])

(***************************************************************************)
(* The rotation and the group fallback both refuse a team that has not ten *)
(* members: the webhook takes the incident back.                           *)
(***************************************************************************)
Refused(h) ==
  /\ At(h, "assigning")
  /\ Go(h, "recording")
  /\ UNCHANGED <<modeVars, event, incident, failed, answers, applied, deliveries>>

-----------------------------------------------------------------------------

Init ==
  /\ ModeInit
  /\ event = [i \in Incidents |-> [k \in Keys |-> "NONE"]]
  /\ incident = [i \in Incidents |-> NoIncident]
  /\ handler = [h \in Handlers |-> IdleHandler]
  /\ failed = {}
  /\ answers = {}
  /\ applied = [i \in Incidents |-> [v \in Versions |-> 0]]
  /\ deliveries = 0

(* Committed settings reach the dispatches that have begun. *)
Switch(a) ==
  \/ AdminLoad(a) /\ UNCHANGED intakeVars
  \/ /\ AdminCommit(a)
     /\ handler' = [h \in Handlers |->
          [handler[h] EXCEPT !.disturbed = @ \/ handler[h].step \in Engine]]
     /\ UNCHANGED <<event, incident, failed, answers, applied, deliveries>>

Webhook(h) ==
  \/ Deduplicate(h) \/ Look(h) \/ InsertEvent(h) \/ InsertConflict(h)
  \/ FindExisting(h) \/ CreateIncident(h) \/ CreateConflict(h) \/ UpdateIncident(h)
  \/ Finish(h) \/ RecordFailure(h)

ProcessIncident(h) ==
  \/ Gate(h) \/ ReadMode(h) \/ PilotGuard(h) \/ SundayHold(h) \/ Workday(h)
  \/ CheckDryRun(h) \/ CheckShadow(h) \/ LeaveUnassigned(h) \/ QueueForNextShift(h)
  \/ Refused(h) \/ \E n \in {1, TeamSize} : Assign(h, n)

Next ==
  \/ \E a \in Admins : Switch(a)
  \/ \E h \in Handlers : Deliver(h) \/ InsertFails(h) \/ Fail(h) \/ Die(h) \/ Webhook(h) \/ ProcessIncident(h)

Spec == Init /\ [][Next]_vars

(* A request that can go on does so; it need not fail or die. *)
LiveSpec == Spec /\ \A h \in Handlers : WF_vars(Webhook(h) \/ ProcessIncident(h))

-----------------------------------------------------------------------------
(* Properties *)

TypeOK ==
  /\ ModeTypeOK
  /\ event \in [Incidents -> [Keys -> {"NONE", "RECEIVED", "PROCESSED"}]]
  /\ incident \in [Incidents -> Incident \cup {NoIncident}]
  /\ handler \in [Handlers -> Handler]
  /\ failed \subseteq Incidents
  /\ answers \subseteq
       [inc : Incidents, kind : {"processed", "deduplicated", "presumed", "error_logged"}]
  /\ applied \in [Incidents -> [Versions -> Nat]]
  /\ deliveries \in 0..MaxDeliveries

(***************************************************************************)
(* A delivery that is repeated, at once or after a failure or a crash, is  *)
(* applied once: the event key is committed together with the change.      *)
(***************************************************************************)
EachUpdateOnce ==
  \A i \in Incidents, v \in Versions : applied[i][v] > 0 =>
    /\ applied[i][v] = 1
    /\ \A w \in Versions \ {v} :
         IdempotencyKey(w) = IdempotencyKey(v) => applied[i][w] = 0

(***************************************************************************)
(* When ServiceNow is told that an update is processed or known, its       *)
(* incident is on record.  "presumed" is the answer after a flush that     *)
(* failed for whatever reason, which promises this and cannot.             *)
(***************************************************************************)
ProcessedMeansStored ==
  \A a \in answers : a.kind \in {"processed", "deduplicated"} => Stored(a.inc)

(* webhook.py:33: a delivery that was answered has left its incident on record. *)
NoIncidentLoss == \A a \in answers : Stored(a.inc)

(* LIVE_PILOT_READINESS.md:29: live pilot assignments are capped at the threshold. *)
PilotCapped == Cardinality({x \in Active : incident[x[1]].via = "LIVE"}) <= Limit

(***************************************************************************)
(* The dispatches that count at once pass the pilot's limit, all the same  *)
(* by no more than one dispatch of each handler.                           *)
(***************************************************************************)
PilotOvershoot ==
  Cardinality({x \in Active : incident[x[1]].via = "LIVE"})
    < Limit + Cardinality(Handlers) * TeamSize

(***************************************************************************)
(* A dispatch assigns under LIVE only, unless a switch was turned while it *)
(* ran: the mode is read again and again, and a pause, or a change from    *)
(* SHADOW to DRY_RUN between two readings, lets a simulation assign.       *)
(***************************************************************************)
LiveUnlessDisturbed ==
  \A i \in Incidents : incident[i].holders > 0 /\ ~ incident[i].disturbed => incident[i].via = "LIVE"

(* An incident on record is not dispatched again by what is delivered later. *)
AssignedOnce ==
  [][\A i \in Incidents : Stored(i) => incident'[i].holders = incident[i].holders]_vars

(* Every request ends, although it waits for keys and rows of others. *)
EveryDeliveryEnds == \A h \in Handlers : handler[h].step # "idle" ~> handler[h].step = "idle"

Ledger == INSTANCE IngestLedger WITH
  entries <- {e \in Incidents \X Keys : event[e[1]][e[2]] # "NONE"},
  kept <- {i \in Incidents : Stored(i)}

(* Redelivered, concurrent and failing deliveries keep the ledger. *)
KeepsLedger == Ledger!Spec

=============================================================================
