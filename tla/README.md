# IncidentFlow in TLA+

A verification development of the IncidentFlow backend (FastAPI, SQLAlchemy,
PostgreSQL) and of the parts of its web client that keep state: modules that
model the program, TLC configurations that check them on small instances, and
proofs for every instance. Paths below are relative to `src/backend/app/` unless
they start with `src/`.

## 1. The system

| Component | State it keeps | Operations | What makes it correct |
|---|---|---|---|
| Team rotation (`services/rotation_service.py`) | one `team_rotations` row per team, the `incident_assignments` table | `assign_next_rotation_employee`, `get_or_create_rotation` | every member has a turn before anybody has a second; a turn is given once; an incident has one active assignment; a key repeated while its assignment is active takes no turn |
| Group notices (`services/group_notice_service.py`) | `notifications` | `send_to_team` | informs every member, never disturbs the assignment |
| Assignment engine (`services/assignment_engine.py`) | incident state, assignments, assignment cycles | `process_incident`, `assign_group`, `send_incident_to_group`, queue and exception paths | idempotent per incident; a failure takes back all of a dispatch; the pilot's limit holds (it does not: see `pilot_cap`); only LIVE assigns |
| Assignment endpoints (`api/admin.py`) | the same tables | manual assignment, reassignment, notice, group send | replace exactly the active assignment |
| Engineer actions (`api/incidents.py`) | assignment status, incident state | acknowledge, start, complete, accept a recommendation of the SHADOW mode | only forward, only by the holder of the assignment |
| Shift handoff (`services/handoff_service.py`) | assignments | `evaluate_active_handoffs`, `_execute_handoff` | one successor per assignment |
| Webhook ingest (`integrations/servicenow/webhook.py`, `services/incident_service.py`) | `integration_events`, incidents | deliver, deduplicate, record failure | each update is applied once; what is answered as processed is on record |
| Outbound sync (`services/sync_service.py`, `integrations/servicenow/client.py`) | `sync_failures`, sync status | sync, retry, dead letter | where ServiceNow and the incident differ although the assignee was sent, an unrecovered failure says so |
| Automation mode, live pilot (`api/admin.py`) | `system_settings` | switch mode, pause, resume, configure, enable, roll back | nobody is assigned in another mode than LIVE, and LIVE is asked for by its phrase |
| Eligibility, shifts, workload (`services/eligibility.py`, `shift_service.py`, `workload_service.py`) | shift tables | who is on shift, who has least work, whose turn it is | incidents are spread evenly, every turn comes, a handoff settles |
| Team administration (`services/team_service.py`) | teams, leaders | hire, validate, activate, deactivate, change leader | a validated team keeps one leader, whom the admins' conversation follows |
| Chat (`services/chat_service.py`) | conversations, messages | get-or-create, post, notify, edit, remove, upload, attach | one conversation per key, one message per client id, removed for ever, readable by its members |
| Notifications (`services/notification_service.py`) | `notifications` | create, mail, serve, mark as read | one per assignment, user and type; mailed, or the failure is on record; shown as it stands |
| Realtime (`websocket/manager.py`, `src/frontend/lib/websocket.ts`) | connection table, client state | connect, refuse, break, close, reconnect | one socket per tab; a client comes back while the server is there |
| Rate limiter (`core/middleware.py`) | request history | admit or refuse | never more than the limit per window |

Components interact through the database. A request has one session; the
session's transaction takes row locks with `SELECT ... FOR UPDATE`, flushes
changed columns, and commits or is rolled back when it is closed. The webhook
and the notice endpoint call the assignment engine or the rotation service
inside their own transaction; the rotation service commits for them. After the
commit, notifications and websocket events go out.

What is hard: several requests for one incident or one team at once, stale
objects in a session after it has waited for a lock, deadlocks between
transactions, exceptions that are swallowed on a half-finished transaction,
retries and redeliveries, and requests that die between two commits.
`PROJECT.json` lists each hazard at its line with the property that covers it.

## 2. Modules

| Module | What it is | Extends |
|---|---|---|
| `FairRota` | what the rotation promises: seats served round by round | |
| `TeamRotation` | `services/rotation_service.py` with what its callers lock, close and write, implements `FairRota` | `LockWaits` |
| `AssignmentDesk` | the other requests that change assignments of a visible incident | `LockWaits` |
| `LockWaits` | who is thrown out of a circle of waiting sessions (PostgreSQL, external) | |
| `AutomationMode` | the switches in `system_settings` and the requests that turn them | |
| `IngestLedger` | what the webhook promises: an update is entered once, with its incident | |
| `Intake` | webhook deliveries through the assignment engine, implements `IngestLedger` | `AutomationMode` |
| `OutboundSync` | assignees on their way to ServiceNow, failures, retry batches | |
| `Workforce` | shifts, eligibility, strategies, successors of a handoff | |
| `TeamAdmin` | members, activation and leader of a team | |
| `Chat`, `Media` | conversations and messages; uploads and who may open them | |
| `Notices` | notifications with their events, e-mails and the tab that shows them | |
| `Realtime` | a tab's websocket client and the server's table | |
| `RateLimiter` | the times of one key's requests | |
| `MCTeamRotation`, `MCAssignmentDesk`, `MCIntake` | constants and symmetry for TLC | the module they check |
| `MCServices` | the last eight of the models above in one run | those |
| `MCRequestsEnd` | `TeamRotation` and `AssignmentDesk` side by side with their fairness | instances of both |
| `TeamRotationProofs`, `AssignmentDeskProofs`, `IntakeProofs`, `OutboundSyncProofs`, `TeamAdminProofs` | theorems and proofs | the module they are named for |
| `FairnessProofs` | theorems about what is shared out fairly | `FairRota`, `RateLimiter`, `Workforce` |
| `ConversationProofs` | theorems about what users exchange | `Chat`, `Media`, `Realtime`, `Notices` |
| `ServicesProofs` | theorems about the services side by side | `MCServices` and the proofs of its services |

An operator marked `Fault:` is a variant of the definition after it, with a bug
of the kind that code could have. It is used nowhere in the model; substituted
for its definition it shows that a property notices.

### `TeamRotation`

The database is modelled as committed state. A session (`session[s]`) carries a
dispatch from its call to its commit, rollback, deadlock or death.

| Model | Code |
|---|---|
| `members[t]` | employees with `team_id` t whose user is active and an EMPLOYEE (`rotation_service.py:101-111`) |
| `incident[i]` | `state`, `assigned_to`, `assignment_group` of `incidents` |
| `row[i][e]` | the row of `incident_assignments`: `uq_incident_emp_cycle` allows one per incident, employee and cycle, and no code increments `current_cycle` |
| `rotation[t]` | `current_position`, `cycle_number` of `team_rotations` |
| `incidentLock`, `teamLock` | exclusive row locks; members and rotation row are taken one after the other by the same service only, so one lock stands for them |
| `noticed` | the shared locks (FOR KEY SHARE) which inserted notices hold through their foreign keys |
| `closed` | the assignments that the caller has closed and not committed |
| `Call`, `Notify`, `LockIncident` | the caller's reading of the incident, its notices and the incident lock, in either order: the notice endpoint inserts first, the engine locks first |
| `FindNobody`, `Find`, `Clear` | the notice endpoint looks for an active assignment and, if it forces the rotation or the incident is another team's, closes those there are before it asks the rotation (`api/admin.py:3023-3053`) |
| `ReturnActive` | the engine returns the active assignment of an incident it has locked (`assignment_engine.py:62-76`) |
| `LockTeam`, `RejectTeam` | steps 2 and 3 of the service, the check for ten members; a refused notice commits what it has closed |
| `ReturnExisting`, `CommitTurn`, `TurnConflict` | steps 4 to 9: idempotent answer, commit, unique index violated |
| `KeepFound`, `Touch` | the notice endpoint writes the assignment it keeps, or was answered, into the incident (`api/admin.py:3090-3110`) |
| `Abort`, `Die` | a deadlock victim, a request that ends early |
| `Join`, `Leave` | `create_employee`, and `src/backend/scripts/migrate_admin_account.py` |

Abstractions. `employee_code` order is the order of numbers. `CommitTurn` is one
step since its statements run with all their locks held and nothing is visible
before the commit. A newcomer who commits while the members' query waits is
missed by that query; the model lets him join right after. `Leave` excludes
nobody for ever: a member who left may join again, which the script does not do.
The engine goes on from a refusal to the
group assignment, which is `AssignmentDesk`'s. The key lookup sees active assignments
only (`Answering`), so a notice that has closed the assignment with its key is not answered. Row locks are those of
PostgreSQL; on the SQLite fallback `FOR UPDATE` does nothing and writers are
serialised by the file, which is not modelled. `rotation[t]` exists from the
start: `get_or_create_rotation` inserts the same row when it finds none.

### `AssignmentDesk`

Seven kinds of request, each a sequence of steps of its session with a commit
at the end. `known[i]` is the incident as the session first loaded it, `read`
the assignment row as loaded: SQLAlchemy keeps both when a later `FOR UPDATE`
returns the same row, and a flush writes only columns that changed (`Flushed`).

| Request | Steps | Code |
|---|---|---|
| notice | `NoticeBegin`, `NoticeFindsNobody`/`NoticeFinds`, `NoticeClear`, `NoticeClaim`/`NoticeRefused`, `NoticeAnswered`/`NoticeAssign`/`NoticeConflict`, `NoticeTouch` | `api/admin.py:2878-3128` with `rotation_service.py:86-218` |
| assign | `AssignBegin`, `AssignCommit` | `api/admin.py:312-543` |
| group | `GroupBegin`, `GroupLock`, `GroupCommit`/`GroupRefused` | `api/admin.py:721-746`, `assignment_engine.py:1124-1408` |
| acknowledge, start, complete | `EngineerBegin`, `EngineerUpdate`, `EngineerLoad`, `EngineerCommit` | `api/incidents.py:32-292` |
| the same, by who was recommended in SHADOW mode and has no assignment | `ShadowBegin`, `ShadowCommit`/`ShadowConflict` | `api/incidents.py:75-98` |
| handoff | `ScanBegin`, `ScanSkip`/`ScanPick`, `HandoffLock`, `Handoff`/`HandoffNobody`/`HandoffConflict`, `ScanEnd` | `services/handoff_service.py:43-236` |

Locks. A request asks for the incident lock when it selects `FOR UPDATE` or
flushes a changed incident (`NeedsIncident`), for row locks when it updates or
locks assignments (`NeedsRows`). An engineer's start or complete flushes the
assignment before it reads the incident, so it takes the row lock first, as the
handoff does; assignments and group sends lock the incident first.

Abstractions. The rotation's choice is any member of the team: which one, and
the locks on members and users, are `TeamRotation`'s. Time stamps, reasons, audit
rows and notifications are left out. A flush that writes an incident and an
assignment waits for both rows and takes both, though the server takes one
after the other. Who is on shift, has the skills or the least work is a choice
of the handoff step. The notice carries its default key, `notice_<incident>_<team>`;
a key given by the client is `TeamRotation`'s. Refusals that read and change
nothing (unknown employee, the holder assigned to himself) are no step. Who was
recommended in SHADOW mode is any employee without an active or completed assignment. The shared locks that a
notice's notifications take on users and on the incident are `TeamRotation`'s.

### `AutomationMode` and `Intake`

A setting is a row of `system_settings`; a missing row reads as its default. An
admin request (`AdminLoad`, `AdminCommit`) loads the settings, makes new ones of
them (`PauseAutomation`, `ResumeAutomation`, `SetMode`, `UpdatePilotConfig`,
`EnablePilot`, `PausePilot`, `RollbackPilot`) and its flush writes those that
differ from what it loaded, so requests that overlap mix their results.
`Admits`, `DryRun`, `Shadow` and `Acting` are the engine's readings of them.

| Model | Code |
|---|---|
| `event[i][k]` | `integration_events` with its unique `idempotency_key`; without a `sys_mod_count` all updates of an incident share a key |
| `incident[i]` | state, the payload last written, the number of active assignments, and (history) the mode that made them |
| `Deliver`, `Look`, `Deduplicate`, `InsertEvent`, `InsertConflict`, `InsertFails` | `integrations/servicenow/webhook.py:23-126`: any error of the flush is answered as a duplicate |
| `FindExisting`, `CreateIncident`, `UpdateIncident`, `CreateConflict` | `services/incident_service.py` |
| `Gate`, `ReadMode`, `PilotGuard`, `SundayHold`/`Workday`, `CheckDryRun`, `CheckShadow`, `Assign`/`Refused`, `LeaveUnassigned`, `QueueForNextShift` | `process_incident` of `services/assignment_engine.py`, one reading of the settings per step |
| `EngineCommits` | the engine commits the webhook's transaction early: the event stays RECEIVED until `Finish` |
| `Fail`, `RecordFailure`, `Die` | the rollback, the FAILED event in a session of its own, and a death that leaves no trace |

A transaction that has inserted a key or a row makes others wait for it
(`KeyHolders`, `RowHolders`), as a unique index does. A new incident cannot be
seen before its first commit, so its dispatch meets others only in the settings
and in the pilot's count; what happens to it afterwards is `AssignmentDesk`'s.
The choice between the rotation, the group fallback and the eligible is open
here (`TeamRotation`, `Workforce`).

### The services

Each of these models has variables of its own; none reads another's.

- `OutboundSync`. `WithoutSending` is every assignment that ServiceNow does not hear of: the
  rotation's, the admin's, the group's, an engineer's own, and any outside LIVE.
  `SyncAssignment`, `Attempt` and `SenderCommits` send the assignee
  within the transaction that assigns, up to three attempts; an attempt without an
  answer may have been taken. `LoadFailures`, `Retry`, `DeadLetter` and `BatchCommits`
  are one `retry_failed_syncs`, which holds its rows from the load to the commit and
  writes the columns it changed; `ClerkLoads` and `ClerkCommits` are the endpoint that
  closes a failure by hand. A sender or a batch may die before its commit, after
  ServiceNow took the value.
- `Workforce`. A dispatch chooses from what is committed (`Choose`) and commits
  later (`Place`). `Complete`, `Handoff` (over `OffShift`, whose date is not that of
  the roster's fallback), `NextHour` and `CheckInOrOut` change the ground. Required
  skills are left out since no code gives an incident any.
- `TeamAdmin`. A change of the leader loads (`LoadLeaders`), may commit half way when it
  opens or joins the admins' conversation (`Enlist`), and commits (`CommitChange`).
  Validation and activation are two steps; a leader who lists his conversations
  is enrolled in two (`LookUpLeader`, `Enroll`).
- `Chat`. `FindConversation` and `CreateConversation`: only TEAM and DIRECT have a
  unique index. A post looks for its client's id (`FindCopy`), stores (`PostMessage`)
  and notifies in a second transaction (`NotifyMembers`) that may fail (`PostFails`). An
  edition and a removal load a message, change it and commit (`CommitMessage`).
- `Media`. The file (`Upload`), its row (`CommitUpload`), the post that refers to it
  (`Attach`, `CommitPost`), and who may open it (`Opens`).
- `Notices`. `Look`, `Insert` or `Conflict`, `Mail`, `Commit` of one session, whose
  event reaches the tab before the commit; `Serve` and `Show` are the tab's fetch.
- `Realtime`. `connect`, `OnOpen`, `OnClose`, `ScheduleReconnect`, `TimerFires`,
  `Disconnect` of the client; `Register`, `Unregister`, `Refuse`, `Break` of the server
  and the network. Timers fire in any order, since their delays have a jitter.
- `RateLimiter`. `LetThrough`, `TurnAway`, `ProcessRestarts`; time goes on by `Tick`. The
  code keeps a list and only filters, counts and extends it, so it is a set here, in which
  equal times are told apart by the number of their request (`Stamp`).

## 3. Runs

| Run | Instance | What it shows |
|---|---|---|
| `rotation` | 2 sessions, 2 incidents, 1 team of 2 seats, 3 employees of whom ServiceNow may name one beforehand, 2 keys; no dispatch starts after the first cycle | `TypeOK`, `TurnsOnRecord`, `OnlyNoticesCollide`, `OneActiveOwner`, `KeyTakesOneTurn`, `KeepsRota` |
| `rotation_collide` | 2 sessions, 2 incidents, 1 key | `NoticesDoNotCollide` is violated: two notices to one team deadlock |
| `desk` | 2 sessions, 1 incident, which comes to the full one of a full and an empty team, 2 employees; notice, assign, group, start, handoff, shadow provisioning | `OnlyInversionsDeadlock`, `ClosedStaysClosed`, `HoldersReplaced` |
| `requests_end` | 1 incident, 2 sessions, fairness; of the desk assign, group, handoff, complete, shadow provisioning | `EveryCallEnds`, `EveryRequestEnds` |
| `desk_handoff` | 3 employees; assign and handoff | `OneHolder` is violated by a handoff scan that is overtaken by a reassignment |
| `desk_done` | assign, start, complete | `CompletionIsPermanent` is violated by starting a completed assignment |
| `intake` | 1 incident, 3 updates of which 2 have no count, 3 deliveries, 2 handlers, faults | `TypeOK`, `EachUpdateOnce`, `ProcessedMeansStored`, `KeepsLedger`, `AssignedOnce`, `EveryDeliveryEnds` |
| `pilot` | 3 incidents, 2 handlers, limit 1, 3 requests of an admin, no faults | `PilotOvershoot`, `LiveUnlessDisturbed` |
| `pilot_cap` | 2 incidents, 2 handlers, limit 1, no group fallback | `PilotCapped` is violated by two dispatches that count at once |
| `intake_loss` | 1 delivery, no fault | `NoIncidentLoss` is violated by a team without its ten members |
| `resume_live` | 1 admin, 5 requests | `ActingNeedsPhrase` is violated by a resume |
| `services` | per service two requests or users, two or three repetitions; see the cfg | the properties of the eight services |

What `services` shows, by service:

| Service | Properties |
|---|---|
| `OutboundSync` | `DivergenceOnRecord`, `RecoveredIsTrue`, `DeadLettersWereTried` |
| `Realtime` | `OneSocket`, `Reconnects` |
| `TeamAdmin` | `OneLeader`, `LeaderAtWork`, `ChannelFollowsLeader` |
| `RateLimiter` | `WindowHolds` |
| `Chat` | `OneConversation`, `PostedOnce`, `AudienceNotified`, `DeletedForever` |
| `Workforce` | `SpreadBounded`, `TurnComesRound`, `HandoffSettles` |
| `Notices` | `MailedOrOnRecord`, `MailHasNotice`, `BellIsTrue` |
| `Media` | `MediaReachable` |

The services share no variable, so a behaviour of the run is about one of them,
its `subject`, while the others stay in one initial state: this is the sum of
their state spaces, never the product. `ServicesTypeOK` joins their type invariants.

Several of these properties have an exception built of a history variable (`overlapped`,
`raced`, `repeated`, `unsent`, `late`, `disturbed`, `lost`, `early`, `crossed`, `retaken`,
`varied`): the code does not keep the promise in those cases, which the comment above
the property names, and the property says that it keeps it in all others. Such an
exception is what a reader should take from the run as much as the property.

Some exceptions are hazards that the code does not guard against, so the property bounds
them and does not rule them out. `KeyTakesOneTurn`: a notice that forces the rotation and
is repeated takes a turn each time, since it closes the assignment that carries its key
before the key is looked for. `HoldersReplaced`: a shadow provisioning adds a holder beside the
present one. `DivergenceOnRecord`: a retry of an old failure after a newer assignee was
sent puts the old one back and closes the failure (`late`), and most assignments are never
sent (`unsent`). `OneSocket`, `OneLeader`, `OneConversation`, `PostedOnce`, `AudienceNotified`,
`TurnComesRound` and `HandoffSettles` except in the same way the crossed close, the overlapping
changes, the overlapping openers and posts, the broken loop of notices, the other group's turn
and the fallback roster. `DeletedForever` is about the flag: an edition that overlaps a
removal does bring the text back, under a flag that stays set.

Why the bounds are enough for what they show: the hazards are between two
transactions, so two sessions meet in every order of their steps, with a third
party only in the membership changes. Two seats are the smallest rota that has a
wrap and a seat before it; two incidents make two turns of one cycle and the
reuse of a member; one incident is enough for the desk, since its requests
meet only at one incident (a handoff scan over several takes them one by one). Of
the engineers' three actions `desk` has start, which takes its locks as complete does and writes
back an active row as acknowledge does; complete is in `requests_end`, and the theorems know
all kinds.
Three employees against two seats let the roster change under the pointer. The
proofs below remove these bounds for every safety property that holds; the runs
keep them honest, since their mutants show that each property can fail.

In `intake` three deliveries to two handlers are the first repeated at once, the other
after either; two updates without a count share a key with each other but not with the
first. In `pilot` two dispatches count at once while a third incident waits for what
they have done, with a team of two for the ten of a group fallback. In `pilot_cap` a team of
one leaves the group fallback aside, so that only the counting at once can pass the limit. In `services` two
actors make every overlap of two requests; three retry batches are two that overlap and the
one that then gives a failure up; the third step of a counter (retries, posts,
sockets) is the first that has a predecessor on each side. `Workforce` has three
engineers, the least number with which a handoff can give work to somebody whom a
dispatch has chosen already, while a third one is the measure of both; `SpreadBounded`
allows for it by `Overlap`. To keep that finite and short, engineer 1 has the same shift
every day, 2 and 3 have each other's shifts, and hour 0 is reached over midnight only.

Deadlock checking is on in the runs of the rotation and the desk, which always
have a step, a call or a session's death at the least. In the others the bounds
on deliveries, requests and repetitions end a behaviour, so it is off there.

`requests_end` assumes strong fairness of `Work(s)` and `Serve(s)`, a behaviour being about the
rotation or about the desk: a session
that can go on again and again goes on. A session that waits for a row lock can
go on only while the lock is free, which may come and go; PostgreSQL queues the
waiters of a row, so the waiter gets it. A session that waits for nobody is a
coroutine of the server between two database calls, which weak fairness would
cover. New calls and deaths are not fair. `Abort` is part of fairness because
the server looks for deadlocks after `deadlock_timeout`; without it
`EveryCallEnds` fails as soon as two sessions wait for each other.

`intake` assumes weak fairness of `Webhook(h)` and `ProcessIncident(h)`: a request
is a coroutine that goes on, and waits only for transactions that end. Failing
and dying are not fair, nor is `Deliver`. `Reconnects` assumes `RealtimeFairness`: a
pending timer fires, and a socket that is opened or closed gets its event. The
server's being up is an assumption of the property itself.

### What the violated runs say

- `rotation_collide`: the members of a team are locked with their user rows, after
  notices for those users were inserted. Each of two notices holds shared locks
  the other waits for; the server aborts one, although a test describes
  concurrent notices to a team as serialised.
- `desk_handoff`: `_execute_handoff` locks the outgoing assignment, but tests the
  object the scan has loaded; nothing refreshes it. After a reassignment has
  committed, the handoff opens another assignment: two active holders, although
  the help pages name a unique index which the models do not have. (The shadow provisioning
  of an engineer breaks the same promise without any race.)
- `desk_done`: `_verify_assignment_access` hands out a completed assignment, and
  start or acknowledge set its status without looking: a completion that the help
  page calls permanent is undone, and its incident is no longer resolved.
- `pilot_cap`: the active assignments are counted under the lock of the counting dispatch's own
  incident. Two dispatches at once both find room for one more, although the readiness
  report says that live assignments are capped at the threshold. `PilotOvershoot` says how
  far beyond it they get: the group fallback adds ten at a time.
- `intake_loss`: the rotation refuses a team without ten members, the group fallback
  refuses it too, the webhook rolls the new incident back and answers with 200.
  What may stay is a FAILED event without a key, which nothing reads again.
- `resume_live`: `previous_automation_mode` remembers LIVE when DRY_RUN follows it;
  after a pause, resume brings LIVE back without its phrase.

## 4. Proofs

Every safety property of a passing run, type invariants included, is a theorem below,
for every value of the constants that satisfies the modules' `ASSUME`s. Each follows from an inductive invariant of its component, which is the
property together with what a request may still rely on of what it has read.
The theorems are about each component's own specification (`TeamSpec`, `ChatSpec`, ...);
`ServicesApart` carries them over to `MCServices`, whose `Spec` implies all eight of them.

The assumptions are few: limits are natural numbers, "nobody" and "none" are
apart from the values they stand beside, and what a property counts is finite
(`FiniteAssumption` of `Intake`, with at least one handler; engineers, shifts, dispatchers
and arrivals of `Workforce`). Nothing bounds the number of sessions, incidents, teams,
users or requests.

### `TeamRotation`

`TeamRotationProofs` proves for all sets of incidents, teams, employees and
sessions, and for every team size:

- `Invariant`: `Spec => [](Inv /\ NoticedOnce)`, by `InitInv` and one lemma per action (`StepInv` puts
  them together).
- `TypeCorrect`, `RotationExact` (`TurnsOnRecord`), `SingleOwner` (`OneActiveOwner`),
  consequences of `Inv`. `TurnsUnique` states apart the part of `TurnsOnRecord` that no
  turn of a cycle is given twice (`TurnsDistinct`).
- `OrderedLocks` (`OnlyNoticesCollide`): a circle of sessions that wait for the rotation's
  own locks would need one that holds a team and waits, and who holds a team has
  both locks already (`HoldersRunOn`); so all wait for incidents, but a session at work
  on an incident holds that lock only, and does not wait for it. So a victim of deadlock
  detection waits for the shared locks of notices, and has inserted some itself
  (`NoticedOnce`).
- `KeyOnce` (`KeyTakesOneTurn`): the action property, from `Inv`; it excepts the notice that has closed
  the assignment with the key itself.
- `FairRotation` (`KeepsRota`): `TeamRotation` implements `FairRota` under
  `served <- Served`; a committed turn maps to `TakeTurn`, every other step to a stutter.

Why `Inv` has more parts than the properties: `CommitTurn` writes what its session
has read before, so it preserves `TurnsOnRecord` only if that reading still holds.
`PointerFresh` says so: a session that selects holds both locks, and its pointer is
the stored one. To preserve it, no other session may commit to the same team
meanwhile, which is `LocksInUse` (a lock belongs to a session at work on what it
locks). `SessionsKnow` gives types to what a session carries, `RowsPresent` says
that a missing row has no content and that active means ASSIGNED, `FoundAndClosed` that what a
notice has found exists and what it has closed nobody else closes, `NoticedOnce` that only
notices get so far, and `OwnersNamed` that a stale owner is an
earlier one: needed for `OneActiveOwner`, since a flush does not write a name
that equals the one first loaded.

### `AssignmentDesk`

`AssignmentDeskProofs` proves `DeskInvariant`, `DeskTypeCorrect` (`TypeOK`), and

- `NothingReopens` (`ClosedStaysClosed`), whatever requests are in use. `GroupCommit` makes
  the rows of all members active, those that were closed among them: that is what a
  group send is for, so the property excepts the incident it is sent for.
- `LocksAreInUse`: `DeskInv` with `LocksInUse`, which says of every lock at which step of
  which request it is held. The other theorems about locks rest on it.
- `HandedOver` (`HoldersReplaced`), an action property for all mixtures of requests: a step
  gives an incident at most one newcomer, and if somebody had it one of those has it no
  more. The exceptions are the group send, the shadow provisioning, and `HandoffLate`, a
  handoff of an assignment that was closed after the scan had read it.
- `InversionDeadlocks` (`OnlyInversionsDeadlock`), about the exclusive locks of incidents and
  assignments; the circles over the locks that notices share are those of `OrderedLocks`
  and of the run `rotation_collide`. Whoever is in a circle of waiting
  requests is in one of two, about one incident, of which one holds the incident and
  waits for a row while the other holds the row and waits for the incident. Who holds
  locks and waits does so about one incident, and an incident's lock has one
  holder, so a longer circle has such a pair in it. A statement takes all
  its row locks at once in the model (see `NeedsRows`); the theorem is relative to that.
- `SingleHolder` (`OneHolder`), without group sends, handoffs and shadow provisionings. A group send gives an
  incident to many; a handoff reads before it locks, and the run `desk_handoff` shows that with
  it the property fails. What remains is every mixture of notices, manual
  assignments, acknowledgements, starts and completions.
- `HandoffAlone` (`OneHolder`), with handoffs but no group sends and shadow provisionings, if there is one session: a
  scan that nobody overlaps still finds what it has read (`Fresh`), over all the
  assignments it hands over in one transaction. `desk_handoff` needs a second session.

`DeskInv` is about readings that grow old. A session loads a row without a lock, locks
later, and its flush writes what differs from what it loaded; so the invariant
says what no other session can take away: a row that was read still exists
(`Sees`), whoever is about to decide on an incident holds its lock (`Holds`), and the
one to be assigned has no row of it (`Newcomer`). For one holder it
adds that an assignment under way replaces everybody who is active (`Replaces`), which holds
because the rows are read after the incident was locked.

### `AutomationMode` and `Intake`

`IntakeProofs` proves `IntakeInvariant`, `IntakeTypeCorrect`, and

- `AppliedOnce` (`EachUpdateOnce`), `AnswersTrue` (`ProcessedMeansStored`),
  `LiveDispatch` (`LiveUnlessDisturbed`);
- `DispatchedOnce` (`AssignedOnce`), an action property: only a commit writes incidents
  (`OnlyCommitsWrite`), and one that finds its incident on record leaves the holders alone;
- `LedgerKept` (`KeepsLedger`): `Intake` implements `IngestLedger`, a commit being the
  entry and every other step a stutter;
- `PilotBounded` (`PilotOvershoot`);
- `PhraseAlone` (`ActingNeedsPhrase`), of `ModeSpec` with one admin and without resumptions:
  LIVE then comes only from the endpoints that ask for its phrase (`LiveIsWanted`), and a
  flush writes all that its request wanted, having loaded what is stored. The run
  `resume_live` refutes it with resumptions; with a second admin a switch to SHADOW that
  has loaded SHADOW writes nothing over a LIVE committed meanwhile.

The properties say what is on record, and the steps that write it rely on what their
request read several steps before. `HandlersSound` keeps those readings true: an open
event is on record nowhere, an incident that was not found is not stored yet, and what
was read of the settings still holds unless a switch has `disturbed` it. It is the
unique indexes that make this inductive: at most one uncommitted event of a key
(`OneEvent`) and one uncommitted row of an incident (`OneRow`). `PilotInv` is an
argument of its own: what the pilot's dispatches have made active, plus a team for each
dispatch that is past the guard (`Ahead`), is below the limit plus a team for each
handler. Passing the guard counts one more ahead while the active ones are below the
limit, and assigning turns one ahead into at most a team of active ones.

### The services

| Theorem | Property | The strengthening |
|---|---|---|
| `TeamAdminProofs`: `SingleLeader`, `LeaderKept` | `OneLeader`, `LeaderAtWork` | `TargetsNamed`: a change in progress has a target, which its flush writes. `ChangeAlone`: while no two changes have overlapped, a loaded change is the only one and has loaded the leaders there are (`NewLeaderAlone`). `LeaderSeen`: a validation that passed is not yet committed |
| `LeaderTalks` | `ChannelFollowsLeader` | who is in the admins' conversation at each point of a change: leaders only before it writes (`LeadersTalk`), the former ones in the middle (`FormerTalk`) |
| `ConversationProofs`: `NoticeDelivered`, `MailAnnounced` | `MailedOrOnRecord`, `MailHasNotice` | `OwnMailed`: what a session has inserted is mailed, among its failures, or being mailed, and the commit hands it over at once; a rollback adds to `lost` those whose e-mail no longer has a row |
| `BellTrue` | `BellIsTrue` | an insertion not yet committed has asked the tab to fetch or counts as `early` (`OwnedAsks`); what a fetch has found is still the notification (`ServedInTime`) |
| `OutboundSyncProofs`: `DivergenceRecorded`, `RecoveredTrue`, `DeadLettersTried` | `DivergenceOnRecord`, `RecoveredIsTrue`, `DeadLettersWereTried` | `BatchesKnow`: a batch's copy of a failure is as loaded or counted once more, of a row that is still there about the same assignment; `TakenOrOnRecord`: what was sent is in ServiceNow or a `Standing` failure, which no committed retry has recovered and no pending one will, is about it; `ClaimsHold`: what a row or a copy claims has been attempted or accepted |
| `ConversationProofs`: `SameConversation` | `OneConversation` | without a race one request creates, and only when there is no conversation (`CreatesAlone`) |
| `StoredOnce`, `EverybodyTold`, `RemovedForever` | `PostedOnce`, `AudienceNotified`, `DeletedForever` | every post has its own number (`OwnNumbers`), nothing is stored before it (`Unsaid`), and one in progress is the only one of its id unless it is `repeated` (`PostsAlone`) |
| `AttachmentsOpen` | `MediaReachable` | what one message carries or is about to carry no other does (`AttachedOnce`), so the link of the row points back (`LinkedBack`) |
| `SingleSocket` | `OneSocket` | every socket the browser has is the client's own |
| `FairnessProofs`: `WindowKept` | `WindowHolds` | the times are in order, and no request of the present window is forgotten, though earlier ones are |
| `SpreadWithin` | `SpreadBounded` | the workload together with what others have chosen and not yet placed (`Pending`) |
| `EverybodysTurn` | `TurnComesRound` | between two turns everybody who lies between the two engineers, in the order that begins anew, has had one (`Between`, `Served`) |
| `HandoffSettled` | `HandoffSettles` | whoever has taken over since the last change is on the roster of today |
| `WorkforceTypeCorrect` | part of `ServicesTypeOK` | `StampsInv`: the order of assignments names each incident that has a holder once, so `Without` finds the only place to take out |
| `ChatTypeCorrect`, `MediaTypeCorrect`, `RealtimeTypeCorrect`, `NoticesTypeCorrect` | parts of `ServicesTypeOK` | `ConversationsNamed` for `Chat`; else the invariants above |
| `ServicesProofs`: `ServicesTypeCorrect` | `ServicesTypeOK` | `ServicesApart`: a step of the subject is a stutter of the other seven, so the eight invariants hold together |
| `AdminAlone`, `OneAfterAnother` | none of a run | without overlap the exceptions do not arise: see below |
| `RotaBalanced` | `Balanced` of `FairRota` | none: no seat of the abstract rota is more than one turn ahead of another |

Two theorems show that exceptions of the properties come from overlaps only. `AdminAlone`:
with one change of a leader at a time `overlapped` stays false, so an activated team
has exactly one leader, also if changes die between their steps. `OneAfterAnother`: with one
chat request at a time neither `raced` nor `repeated` arises, so everybody is given one
conversation even without a unique index, and a message repeated after an error is
stored once. Their hypotheses bound the requests at a time, never their number.

`SpreadBounded` once claimed the number of dispatches alone as its bound. Its
proof fails at `Handoff`: a handoff chooses by what is committed and commits at once, so
it does not see that a dispatch has chosen the same engineer. TLC finds
the example with three engineers, not with two; the property now says so.

Choices of a least element (`LeastLoaded`, `RoundRobin`, `Canonical`) exist by the
lemmas `LeastOf`, which go back to the library's theorem that inclusion of finite sets
is well-founded: of the intervals `0..x` one is least.

Only model-checked: `EveryCallEnds`, `EveryRequestEnds`, `EveryDeliveryEnds` and
`Reconnects`, which are liveness under fairness and out of the prover's reach. The violated
properties (`NoticesDoNotCollide`, `OneHolder`, `CompletionIsPermanent`, `NoIncidentLoss`,
`PilotCapped`, `ActingNeedsPhrase`) are refuted by a run; `OneHolder` and `ActingNeedsPhrase` have theorems
under hypotheses that exclude what the run shows.

Not modelled, and why:

- `api/auth.py`, `core/security.py`: cryptography and library calls, no protocol state.
- `services/help_service.py`, `services/search_service.py`: static text and queries that change
  nothing. The reading endpoints of `api/admin.py` and `api/employees.py` (lists, dashboards,
  analytics, timelines, previews, readiness and diagnostics) likewise.
- `workers/tasks.py`: stubs without an effect.
- `src/backend/scripts/`: run by hand on a database that nobody else uses. The one
  change of membership that matters to a running system is `TeamRotation`'s `Leave`.
- Pages and components of the web client: they show what the API returns.
- Of modelled components: reactions, typing indicators and `mark_as_read` of chat (the
  last never commits), required skills, the pilot's roster of allowed
  employees, the
  sending of an incident's status (it goes the way of the assignee), the rows of
  notifications that the rotation adds after its commit, and the text of
  messages and mails.

## 5. Plan

1. `TeamRotation` with the abstract `FairRota` it implements, and its proofs. Done.
2. `AssignmentDesk`: the other writers of assignments and their unlocked readings. Done.
3. `AutomationMode`, `Intake` with `IngestLedger`: the path of a new incident. Done.
4. `OutboundSync`, `Workforce`, `TeamAdmin`, `Chat`, `Media`, `Notices`, `Realtime`,
   `RateLimiter`. Done.
5. Proofs of every safety property and of both refinements. Done.
6. What the first proofs had left: the types of the services, `NothingReopens` with group
   sends, how an incident changes hands when handoffs run, the order of the locks, and
   that exceptions (`overlapped`, `raced`, `repeated`) arise from overlaps only. Done.
7. What the callers do around the rotation and the desk: the closing before a forced rotation,
   shadow provisioning, assignments that are not sent, and the pilot's cap. Done.
8. Still worth having: the choice by required skills and the pilot's roster of employees,
   once the code gives an incident skills; the status of an incident on its way to
   ServiceNow beside its assignee, as the two are sent apart.
