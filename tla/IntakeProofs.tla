---------------------------- MODULE IntakeProofs ----------------------------
(***************************************************************************)
(* Proofs about Intake, for any number of incidents, versions, handlers    *)
(* and admin requests: what an uncommitted delivery may rely on, and what  *)
(* follows for the table of events and the incidents.                      *)
(***************************************************************************)
EXTENDS Intake, FiniteSetTheorems, TLAPS

USE ModeAssumption, IntakeAssumption

-----------------------------------------------------------------------------
(* The inductive invariant *)

EventKey(x) == event[x.inc][IdempotencyKey(x.ver)]

(* x holds an uncommitted event, or an uncommitted row. *)
OpenEvent(x) == x.step \in {"finding", "writing", "finishing"} \cup Engine /\ ~ x.early

OpenRow(x) == x.step \in {"finishing"} \cup Engine /\ ~ x.early

SameKey(x, y) == x.inc = y.inc /\ IdempotencyKey(x.ver) = IdempotencyKey(y.ver)

(* What the engine has read of the settings still holds if nothing disturbed it. *)
Readings(x) ==
  ~ x.disturbed =>
    /\ x.step \in {"pilot", "holiday", "dry_run", "shadow", "assigning"} =>
         x.mode = settings.mode /\ x.mode # "PAUSED"
    /\ x.step \in {"shadow", "assigning"} => ~ DryRun(settings)
    /\ x.step = "assigning" => ~ Shadow(settings)

(***************************************************************************)
(* What a request x relies on: its event is not on record before it        *)
(* commits and is on record after the engine has committed, and it has     *)
(* found the incident or not as it still is.                               *)
(***************************************************************************)
Sound(x) ==
  /\ x.step # "idle" => x.inc \in Incidents /\ x.ver \in Versions
  /\ x.step \in Engine => x.new /\ ~ x.early
  /\ x.early => x.step \in {"finishing", "recording"} /\ EventKey(x) # "NONE"
  /\ OpenEvent(x) => EventKey(x) = "NONE"
  /\ OpenRow(x) => (x.new <=> ~ Stored(x.inc))
  /\ x.step = "writing" /\ ~ x.new => Stored(x.inc)
  /\ Readings(x)

HandlersSound == \A h \in Handlers : Sound(handler[h])

(* The unique key of the events lets one uncommitted delivery through ... *)
OneEvent ==
  \A g, h \in Handlers : HasEvent(g) /\ HasEvent(h) /\ SameKey(handler[g], handler[h]) => g = h

(* ... and the unique number of the incidents one uncommitted row. *)
OneRow ==
  \A g, h \in Handlers : HasRow(g) /\ HasRow(h) /\ handler[g].inc = handler[h].inc => g = h

EventsStored == \A i \in Incidents, k \in Keys : event[i][k] # "NONE" => Stored(i)

AppliedOnRecord ==
  \A i \in Incidents, v \in Versions : event[i][IdempotencyKey(v)] = "NONE" => applied[i][v] = 0

(* Every incident is as it came, or complete. *)
IntakeInv ==
  /\ TypeOK /\ HandlersSound /\ OneEvent /\ OneRow /\ EventsStored /\ AppliedOnRecord
  /\ EachUpdateOnce /\ ProcessedMeansStored /\ LiveUnlessDisturbed

-----------------------------------------------------------------------------
(* Lemmas about the operators *)

(* Every endpoint makes complete settings of complete settings. *)
LEMMA WantedSettings ==
  ASSUME NEW s \in Settings, NEW op \in Endpoints, NEW new \in Wanted(op, s)
  PROVE  new \in Settings
<1>1. \A m \in Modes : SetMode(s, m) \in Settings
  <2> SUFFICES ASSUME NEW m \in Modes PROVE SetMode(s, m) \in Settings
    OBVIOUS
  <2> DEFINE previous == IF "PAUSED" \in {m, s.mode} THEN s.previous ELSE s.mode
             enabled == m # "PAUSED"
             pilot == s.pilot \/ m = "LIVE"
             dry_run == m = "DRY_RUN"
             shadow == m = "SHADOW"
  <2>1. previous \in Modes /\ enabled \in BOOLEAN /\ pilot \in BOOLEAN /\ dry_run \in BOOLEAN
          /\ shadow \in BOOLEAN
    BY DEF Settings
  <2>2. SetMode(s, m) = [s EXCEPT !.mode = m, !.enabled = enabled, !.pilot = pilot,
                                  !.dry_run = dry_run, !.shadow = shadow, !.previous = previous]
    BY DEF SetMode
  <2> HIDE DEF previous, enabled, pilot, dry_run, shadow
  <2> QED
    BY <2>1, <2>2 DEF Settings
<1>2. PauseAutomation(s) \in Settings /\ ResumeAutomation(s) \in Settings
  BY DEF PauseAutomation, ResumeAutomation, Settings, Modes
<1>3. /\ \A on \in BOOLEAN : UpdatePilotConfig(s, on) \in Settings
      /\ EnablePilot(s) \in Settings /\ PausePilot(s) \in Settings
      /\ \A m \in {"SHADOW", "DRY_RUN"} : RollbackPilot(s, m) \in Settings
  BY DEF UpdatePilotConfig, EnablePilot, PausePilot, RollbackPilot, Settings, Modes
<1>4. CASE op \in Modes
  BY <1>1, <1>4 DEF Wanted, Modes
<1>5. CASE op \in {"pause", "resume"}
  BY <1>2, <1>5 DEF Wanted, Modes
<1>6. CASE op \in {"configure", "enable", "pilot_pause", "rollback"}
  BY <1>3, <1>6 DEF Wanted, Modes
<1> QED
  BY <1>4, <1>5, <1>6 DEF Endpoints, Modes

(* A flush of complete settings leaves complete settings. *)
LEMMA FlushedComplete ==
  ASSUME NEW stored \in Settings, NEW seen \in Settings, NEW new \in Settings
  PROVE  FlushedSettings(stored, seen, new) \in Settings
<1>1. DOMAIN new = {"mode", "previous", "enabled", "dry_run", "shadow", "pilot"}
  BY DEF Settings
<1>2. FlushedSettings(stored, seen, new) =
        [mode     |-> IF new.mode = seen.mode THEN stored.mode ELSE new.mode,
         previous |-> IF new.previous = seen.previous THEN stored.previous ELSE new.previous,
         enabled  |-> IF new.enabled = seen.enabled THEN stored.enabled ELSE new.enabled,
         dry_run  |-> IF new.dry_run = seen.dry_run THEN stored.dry_run ELSE new.dry_run,
         shadow   |-> IF new.shadow = seen.shadow THEN stored.shadow ELSE new.shadow,
         pilot    |-> IF new.pilot = seen.pilot THEN stored.pilot ELSE new.pilot]
  BY <1>1 DEF FlushedSettings
<1> QED
  BY <1>2 DEF Settings

(* A request that has ended relies on nothing. *)
LEMMA IdleSound == IdleHandler \in Handler /\ Sound(IdleHandler) /\ Sound(IdleHandler)'
  BY DEF IdleHandler, Handler, Steps, Engine, Sound, OpenEvent, OpenRow, Readings

(* An update has a key. *)
LEMMA KeyOfVersion == \A v \in Versions : IdempotencyKey(v) \in Keys
  BY DEF Keys

-----------------------------------------------------------------------------
(* The initial states *)

(* Nothing has been delivered. *)
LEMMA InitInv == Init => IntakeInv
<1> SUFFICES ASSUME Init PROVE IntakeInv
  OBVIOUS
<1> USE DEF Init
<1>1. TypeOK
  <2>1. Defaults \in Settings
    BY DEF Defaults, Settings, Modes
  <2>2. NoRequest \in Admin
    BY <2>1 DEF NoRequest, Admin
  <2>3. ModeTypeOK
    <3>1. settings = Defaults /\ admin = [a \in Admins |-> NoRequest]
            /\ requests = 0 /\ armed = FALSE
      BY DEF ModeInit
    <3>2. requests \in 0..MaxRequests
      BY <3>1
    <3> HIDE DEF Init
    <3> QED
      BY <2>1, <2>2, <3>1, <3>2, Zenon DEF ModeTypeOK
  <2> QED
    BY <2>3, IdleSound DEF TypeOK
<1>2. HandlersSound
  BY IdleSound DEF HandlersSound
<1>3. OneEvent /\ OneRow
  BY DEF OneEvent, OneRow, HasEvent, HasRow, IdleHandler, Engine
<1>4. EventsStored /\ AppliedOnRecord /\ EachUpdateOnce
  BY KeyOfVersion DEF EventsStored, AppliedOnRecord, EachUpdateOnce
<1>5. ProcessedMeansStored
  BY DEF ProcessedMeansStored
<1>6. LiveUnlessDisturbed
  BY DEF LiveUnlessDisturbed, NoIncident
<1> QED
  BY <1>1, <1>2, <1>3, <1>4, <1>5, <1>6 DEF IntakeInv

-----------------------------------------------------------------------------
(* Steps of a request that commit nothing *)

Answers == [inc : Incidents, kind : {"processed", "deduplicated", "presumed", "error_logged"}]

(* Request h comes to w and relies on nothing that another may take away. *)
LEMMA HandlerMoves ==
  ASSUME IntakeInv, NEW h \in Handlers, NEW w \in Handler,
         handler' = [handler EXCEPT ![h] = w],
         UNCHANGED <<modeVars, event, incident, applied>>,
         Sound(w),
         \A o \in Handlers \ {h} : OpenEvent(w) /\ HasEvent(o) => ~ SameKey(handler[o], w),
         \A o \in Handlers \ {h} : OpenRow(w) /\ HasRow(o) => handler[o].inc # w.inc,
         failed' \subseteq Incidents, answers' \subseteq Answers,
         deliveries' \in 0..MaxDeliveries, ProcessedMeansStored'
  PROVE  IntakeInv'
<1>1. handler' \in [Handlers -> Handler] /\ handler'[h] = w
        /\ \A o \in Handlers \ {h} : handler'[o] = handler[o]
  BY DEF IntakeInv, TypeOK
<1>2. TypeOK'
  BY <1>1 DEF IntakeInv, TypeOK, ModeTypeOK, modeVars, Answers
<1>3. \A x \in Handler : Sound(x) => Sound(x)'
  BY DEF Sound, EventKey, Stored, Readings, modeVars
<1>4. HandlersSound'
  BY <1>1, <1>3 DEF IntakeInv, TypeOK, HandlersSound
<1>5. /\ HasEvent(h)' <=> OpenEvent(w)
      /\ HasRow(h)' <=> OpenRow(w)
      /\ \A o \in Handlers \ {h} : (HasEvent(o)' <=> HasEvent(o)) /\ (HasRow(o)' <=> HasRow(o))
  BY <1>1 DEF HasEvent, HasRow, OpenEvent, OpenRow
<1>6. OneEvent'
  BY <1>1, <1>5 DEF IntakeInv, OneEvent, SameKey
<1>7. OneRow'
  BY <1>1, <1>5 DEF IntakeInv, OneRow
<1>8. EventsStored' /\ AppliedOnRecord' /\ EachUpdateOnce' /\ LiveUnlessDisturbed'
  BY DEF IntakeInv, EventsStored, AppliedOnRecord, EachUpdateOnce, LiveUnlessDisturbed, Stored
<1> QED
  BY <1>2, <1>4, <1>6, <1>7, <1>8 DEF IntakeInv

(* Request h goes on with the event and the row it has. *)
LEMMA HandlerGoes ==
  ASSUME IntakeInv, NEW h \in Handlers, NEW w \in Handler,
         handler' = [handler EXCEPT ![h] = w],
         UNCHANGED <<modeVars, event, incident, failed, answers, applied, deliveries>>,
         Sound(w), w.inc = handler[h].inc, w.ver = handler[h].ver,
         OpenEvent(w) => HasEvent(h), OpenRow(w) => HasRow(h)
  PROVE  IntakeInv'
<1>1. \A o \in Handlers \ {h} : OpenEvent(w) /\ HasEvent(o) => ~ SameKey(handler[o], w)
  BY DEF IntakeInv, OneEvent, SameKey
<1>2. \A o \in Handlers \ {h} : OpenRow(w) /\ HasRow(o) => handler[o].inc # w.inc
  BY DEF IntakeInv, OneRow
<1>3. failed' \subseteq Incidents /\ answers' \subseteq Answers /\ deliveries' \in 0..MaxDeliveries
  BY DEF IntakeInv, TypeOK, Answers
<1>4. ProcessedMeansStored'
  BY DEF IntakeInv, ProcessedMeansStored, Stored
<1> QED
  BY <1>1, <1>2, <1>3, <1>4, HandlerMoves

(* Request h ends with an answer that the tables bear out. *)
LEMMA HandlerAnswers ==
  ASSUME IntakeInv, NEW h \in Handlers, handler[h].step # "idle",
         NEW kind \in {"deduplicated", "presumed", "error_logged"}, Answer(h, kind),
         kind = "deduplicated" => EventKey(handler[h]) # "NONE",
         UNCHANGED <<modeVars, event, incident, applied, deliveries>>,
         failed' \subseteq Incidents
  PROVE  IntakeInv'
<1>1. handler[h].inc \in Incidents /\ IdempotencyKey(handler[h].ver) \in Keys
  BY KeyOfVersion DEF IntakeInv, HandlersSound, Sound
<1>2. answers' = answers \cup {[inc |-> handler[h].inc, kind |-> kind]}
        /\ handler' = [handler EXCEPT ![h] = IdleHandler]
  BY DEF Answer
<1>3. answers' \subseteq Answers
  BY <1>1, <1>2 DEF IntakeInv, TypeOK, Answers
<1>4. kind = "deduplicated" => Stored(handler[h].inc)
  BY <1>1 DEF IntakeInv, EventsStored, EventKey
<1>5. ProcessedMeansStored'
  BY <1>2, <1>4 DEF IntakeInv, ProcessedMeansStored, Stored
<1>6. ~ OpenEvent(IdleHandler) /\ ~ OpenRow(IdleHandler)
  BY DEF OpenEvent, OpenRow, IdleHandler, Engine
<1>7. deliveries' \in 0..MaxDeliveries
  BY DEF IntakeInv, TypeOK
<1> QED
  BY <1>2, <1>3, <1>5, <1>6, <1>7, IdleSound, HandlerMoves

-----------------------------------------------------------------------------
(* The webhook *)

(* A delivery begins with nothing uncommitted. *)
LEMMA DeliverInv ==
  ASSUME IntakeInv, NEW h \in Handlers, Deliver(h)
  PROVE  IntakeInv'
<1>1. PICK i \in Incidents, v \in Versions :
        handler' = [handler EXCEPT ![h] =
          [IdleHandler EXCEPT !.step = "looking", !.inc = i, !.ver = v]]
  BY DEF Deliver
<1> DEFINE w == [IdleHandler EXCEPT !.step = "looking", !.inc = i, !.ver = v]
<1>2. w.step = "looking" /\ w.inc = i /\ w.ver = v /\ ~ w.early
  BY DEF IdleHandler
<1>3. w \in Handler
  BY DEF IdleHandler, Handler, Steps
<1> HIDE DEF w
<1>4. Sound(w) /\ ~ OpenEvent(w) /\ ~ OpenRow(w)
  BY <1>2 DEF Sound, OpenEvent, OpenRow, Readings, Engine
<1>5. /\ UNCHANGED <<modeVars, event, incident, failed, answers, applied>>
      /\ deliveries' \in 0..MaxDeliveries
  BY DEF Deliver, IntakeInv, TypeOK
<1>6. failed' \subseteq Incidents /\ answers' \subseteq Answers /\ ProcessedMeansStored'
  BY <1>5 DEF IntakeInv, TypeOK, Answers, ProcessedMeansStored, Stored
<1>7. handler' = [handler EXCEPT ![h] = w]
  BY <1>1 DEF w
<1> QED
  BY <1>3, <1>4, <1>5, <1>6, <1>7, HandlerMoves

(* The answers that change no table. *)
LEMMA AnswersInv ==
  ASSUME IntakeInv, NEW h \in Handlers,
         Deduplicate(h) \/ InsertConflict(h) \/ InsertFails(h) \/ RecordFailure(h)
  PROVE  IntakeInv'
<1>1. CASE Deduplicate(h) \/ InsertConflict(h)
  BY <1>1, HandlerAnswers DEF Deduplicate, InsertConflict, At, Key, EventKey, IntakeInv, TypeOK
<1>2. CASE InsertFails(h)
  BY <1>2, HandlerAnswers DEF InsertFails, At, IntakeInv, TypeOK
<1>3. CASE RecordFailure(h)
  <2>1. handler[h].inc \in Incidents
    BY <1>3 DEF RecordFailure, At, IntakeInv, HandlersSound, Sound
  <2>2. failed' \subseteq Incidents
    BY <1>3, <2>1 DEF RecordFailure, IntakeInv, TypeOK
  <2> QED
    BY <1>3, <2>2, HandlerAnswers DEF RecordFailure, At
<1> QED
  BY <1>1, <1>2, <1>3

(* A request that dies has done nothing. *)
LEMMA DieInv ==
  ASSUME IntakeInv, NEW h \in Handlers, Die(h)
  PROVE  IntakeInv'
<1>1. ~ OpenEvent(IdleHandler) /\ ~ OpenRow(IdleHandler)
  BY DEF OpenEvent, OpenRow, IdleHandler, Engine
<1>2. failed' \subseteq Incidents /\ answers' \subseteq Answers
        /\ deliveries' \in 0..MaxDeliveries /\ ProcessedMeansStored'
  BY DEF Die, IntakeInv, TypeOK, Answers, ProcessedMeansStored, Stored
<1> QED
  BY <1>1, <1>2, IdleSound, HandlerMoves DEF Die

(* A record that only its step has changed. *)
LEMMA StepOnly ==
  ASSUME IntakeInv, NEW h \in Handlers, NEW step \in Steps, Go(h, step)
  PROVE  \E w \in Handler :
           /\ handler' = [handler EXCEPT ![h] = w]
           /\ w.step = step /\ w.inc = handler[h].inc /\ w.ver = handler[h].ver
           /\ w.new = handler[h].new /\ w.mode = handler[h].mode
           /\ w.early = handler[h].early /\ w.disturbed = handler[h].disturbed
<1> DEFINE x == handler[h]
           w == [x EXCEPT !.step = step]
<1>1. x \in Handler
  BY DEF IntakeInv, TypeOK
<1>2. handler' = [handler EXCEPT ![h] = w]
  BY DEF Go
<1> HIDE DEF x
<1>3. /\ w \in Handler
      /\ w.step = step /\ w.inc = x.inc /\ w.ver = x.ver /\ w.new = x.new
      /\ w.mode = x.mode /\ w.early = x.early /\ w.disturbed = x.disturbed
  BY <1>1 DEF Handler
<1> QED
  BY <1>2, <1>3 DEF x

(* The steps of the webhook before its commit. *)
LEMMA WebhookGoes ==
  ASSUME IntakeInv, NEW h \in Handlers, Look(h) \/ CreateConflict(h) \/ Fail(h) \/ Refused(h)
  PROVE  IntakeInv'
<1> DEFINE step == IF At(h, "looking") THEN "inserting" ELSE "recording"
<1>1. step \in Steps
  BY DEF Steps
<1>2. Go(h, step) /\ UNCHANGED <<modeVars, event, incident, failed, answers, applied, deliveries>>
  BY DEF Look, CreateConflict, Fail, Refused, HasEvent, At, Engine
<1>3. handler[h].step # "idle"
  BY DEF Look, CreateConflict, Fail, Refused, HasEvent, At, Engine
<1>4. step = "inserting" => ~ handler[h].early
  BY DEF At, IntakeInv, HandlersSound, Sound
<1>5. step \in {"inserting", "recording"}
  OBVIOUS
<1>6. Sound(handler[h])
  BY DEF IntakeInv, HandlersSound
<1> HIDE DEF step
<1>7. PICK w \in Handler :
        /\ handler' = [handler EXCEPT ![h] = w]
        /\ w.step = step /\ w.inc = handler[h].inc /\ w.ver = handler[h].ver
        /\ w.new = handler[h].new /\ w.mode = handler[h].mode
        /\ w.early = handler[h].early /\ w.disturbed = handler[h].disturbed
  BY <1>1, <1>2, StepOnly
<1>8. Sound(w) /\ ~ OpenEvent(w) /\ ~ OpenRow(w)
  BY <1>3, <1>4, <1>5, <1>6, <1>7 DEF Sound, EventKey, OpenEvent, OpenRow, Readings, Engine
<1> QED
  BY <1>2, <1>7, <1>8, HandlerGoes

(* The unique key lets the event of h in when nobody else has it open. *)
LEMMA InsertEventInv ==
  ASSUME IntakeInv, NEW h \in Handlers, InsertEvent(h)
  PROVE  IntakeInv'
<1>1. /\ handler[h].step = "inserting" /\ KeyHolders(h) = {} /\ EventKey(handler[h]) = "NONE"
      /\ Go(h, "finding")
      /\ UNCHANGED <<modeVars, event, incident, failed, answers, applied, deliveries>>
  BY DEF InsertEvent, At, EventKey, Key
<1>2. Sound(handler[h])
  BY DEF IntakeInv, HandlersSound
<1>3. PICK w \in Handler :
        /\ handler' = [handler EXCEPT ![h] = w]
        /\ w.step = "finding" /\ w.inc = handler[h].inc /\ w.ver = handler[h].ver
        /\ w.new = handler[h].new /\ w.mode = handler[h].mode
        /\ w.early = handler[h].early /\ w.disturbed = handler[h].disturbed
  BY <1>1, StepOnly DEF Steps
<1>4. Sound(w) /\ ~ OpenRow(w)
  BY <1>1, <1>2, <1>3 DEF Sound, EventKey, OpenEvent, OpenRow, Readings, Engine
<1>5. \A o \in Handlers \ {h} : HasEvent(o) => ~ SameKey(handler[o], w)
  BY <1>1, <1>3 DEF KeyHolders, SameKey, Key
<1>6. failed' \subseteq Incidents /\ answers' \subseteq Answers
        /\ deliveries' \in 0..MaxDeliveries /\ ProcessedMeansStored'
  BY <1>1 DEF IntakeInv, TypeOK, Answers, ProcessedMeansStored, Stored
<1> QED
  BY <1>1, <1>3, <1>4, <1>5, <1>6, HandlerMoves

(* What is found is what is stored; the event stays open. *)
LEMMA FindExistingInv ==
  ASSUME IntakeInv, NEW h \in Handlers, FindExisting(h)
  PROVE  IntakeInv'
<1> DEFINE x == handler[h]
           found == Stored(x.inc)
           w == [x EXCEPT !.step = "writing", !.new = ~ found]
<1>1. handler' = [handler EXCEPT ![h] = w] /\ x.step = "finding"
        /\ UNCHANGED <<modeVars, event, incident, failed, answers, applied, deliveries>>
  BY DEF FindExisting, At
<1>2. x \in Handler /\ Sound(x)
  BY DEF IntakeInv, TypeOK, HandlersSound
<1>3. found \in BOOLEAN
  BY DEF Stored
<1> HIDE DEF x, found
<1>4. /\ w \in Handler /\ w.step = "writing" /\ w.inc = x.inc /\ w.ver = x.ver
      /\ w.new = ~ found /\ w.early = x.early /\ w.disturbed = x.disturbed /\ w.mode = x.mode
  BY <1>2, <1>3 DEF Handler, Steps
<1> HIDE DEF w
<1>5. Sound(w) /\ ~ OpenRow(w) /\ (OpenEvent(w) => OpenEvent(x))
  BY <1>1, <1>2, <1>4 DEF Sound, EventKey, OpenEvent, OpenRow, Readings, Engine, found
<1>6. HasEvent(h) <=> OpenEvent(x)
  BY DEF HasEvent, OpenEvent, x
<1> QED
  BY <1>1, <1>4, <1>5, <1>6, HandlerGoes DEF x

(* The row of the incident is written when nobody else has written it. *)
LEMMA WriteRowInv ==
  ASSUME IntakeInv, NEW h \in Handlers, CreateIncident(h) \/ UpdateIncident(h)
  PROVE  IntakeInv'
<1> DEFINE step == IF handler[h].new THEN "gate" ELSE "finishing"
<1>1. /\ handler[h].step = "writing" /\ RowHolders(h) = {} /\ Go(h, step)
      /\ handler[h].new => ~ Stored(handler[h].inc)
      /\ UNCHANGED <<modeVars, event, incident, failed, answers, applied, deliveries>>
  BY DEF CreateIncident, UpdateIncident, At
<1>2. Sound(handler[h]) /\ handler[h] \in Handler
  BY DEF IntakeInv, TypeOK, HandlersSound
<1>3. step \in Steps
  BY DEF Steps, Engine
<1>4. IF handler[h].new THEN step = "gate" ELSE step = "finishing"
  OBVIOUS
<1> HIDE DEF step
<1>5. PICK w \in Handler :
        /\ handler' = [handler EXCEPT ![h] = w]
        /\ w.step = step /\ w.inc = handler[h].inc /\ w.ver = handler[h].ver
        /\ w.new = handler[h].new /\ w.mode = handler[h].mode
        /\ w.early = handler[h].early /\ w.disturbed = handler[h].disturbed
  BY <1>1, <1>3, StepOnly
<1>6. ~ handler[h].early /\ HasEvent(h) /\ (Stored(handler[h].inc) <=> ~ handler[h].new)
  BY <1>1, <1>2 DEF Sound, HasEvent, Stored
<1>7. Sound(w)
  BY <1>1, <1>2, <1>4, <1>5, <1>6 DEF Sound, EventKey, OpenEvent, OpenRow, Readings, Engine
<1>8. \A o \in Handlers \ {h} : HasEvent(o) => ~ SameKey(handler[o], w)
  BY <1>5, <1>6 DEF IntakeInv, OneEvent, SameKey
<1>9. \A o \in Handlers \ {h} : HasRow(o) => handler[o].inc # w.inc
  BY <1>1, <1>5 DEF RowHolders
<1>10. failed' \subseteq Incidents /\ answers' \subseteq Answers
         /\ deliveries' \in 0..MaxDeliveries /\ ProcessedMeansStored'
  BY <1>1 DEF IntakeInv, TypeOK, Answers, ProcessedMeansStored, Stored
<1> QED
  BY <1>1, <1>5, <1>7, <1>8, <1>9, <1>10, HandlerMoves

-----------------------------------------------------------------------------
(* process_incident, up to its commit *)

(* The engine goes on, or leaves the incident as it came. *)
LEMMA EngineGoes ==
  ASSUME IntakeInv, NEW h \in Handlers, NEW w \in Handler,
         handler[h].step \in Engine, w.step \in Engine \cup {"finishing"},
         handler' = [handler EXCEPT ![h] = w],
         UNCHANGED <<modeVars, event, incident, failed, answers, applied, deliveries>>,
         w.inc = handler[h].inc, w.ver = handler[h].ver, w.new = handler[h].new,
         w.early = handler[h].early, Readings(w)
  PROVE  IntakeInv'
<1>1. Sound(handler[h])
  BY DEF IntakeInv, HandlersSound
<1>2. handler[h].new /\ ~ handler[h].early /\ OpenEvent(handler[h]) /\ OpenRow(handler[h])
  BY <1>1 DEF Sound, OpenEvent, OpenRow
<1>3. Sound(w)
  BY <1>1, <1>2 DEF Sound, EventKey, OpenEvent, OpenRow, Engine
<1>4. HasEvent(h) /\ HasRow(h)
  BY <1>2 DEF HasEvent, HasRow, OpenEvent, OpenRow
<1> QED
  BY <1>3, <1>4, HandlerGoes

(* The engine takes a reading; without a disturbance the others still hold. *)
LEMMA EngineReads ==
  ASSUME IntakeInv, NEW h \in Handlers,
         Gate(h) \/ PilotGuard(h) \/ Workday(h) \/ CheckDryRun(h) \/ CheckShadow(h)
  PROVE  IntakeInv'
<1>1. handler[h].step \in Engine
        /\ UNCHANGED <<modeVars, event, incident, failed, answers, applied, deliveries>>
  BY DEF Gate, PilotGuard, Workday, CheckDryRun, CheckShadow, At, Engine
<1>2. PICK step \in Engine \cup {"finishing"} :
        /\ Go(h, step)
        /\ step \in {"pilot", "assigning", "shadow", "dry_run", "holiday"} =>
             \/ handler[h].step = "pilot" /\ step = "holiday"
             \/ handler[h].step = "holiday" /\ step = "dry_run"
             \/ handler[h].step = "dry_run" /\ step = "shadow" /\ ~ DryRun(settings)
             \/ handler[h].step = "shadow" /\ step = "assigning" /\ ~ Shadow(settings)
  BY DEF Gate, PilotGuard, Workday, CheckDryRun, CheckShadow, At, Skip, Engine
<1>a. step \in Steps
  BY DEF Steps, Engine
<1>3. PICK w \in Handler :
        /\ handler' = [handler EXCEPT ![h] = w]
        /\ w.step = step /\ w.inc = handler[h].inc /\ w.ver = handler[h].ver
        /\ w.new = handler[h].new /\ w.mode = handler[h].mode
        /\ w.early = handler[h].early /\ w.disturbed = handler[h].disturbed
  BY <1>a, <1>2, StepOnly
<1>4. Readings(handler[h])
  BY DEF IntakeInv, HandlersSound, Sound
<1>5. Readings(w)
  BY <1>2, <1>3, <1>4 DEF Readings
<1> QED
  BY <1>1, <1>2, <1>3, <1>5, EngineGoes

(* The mode is read: what follows a pause is not a dispatch. *)
LEMMA ReadModeInv ==
  ASSUME IntakeInv, NEW h \in Handlers, ReadMode(h)
  PROVE  IntakeInv'
<1> DEFINE x == handler[h]
           m == settings.mode
           step == CASE m = "PAUSED" -> "finishing" [] m = "LIVE" -> "pilot" [] OTHER -> "holiday"
           w == [x EXCEPT !.mode = m, !.step = step]
<1>1. x \in Handler /\ m \in Modes
  BY DEF IntakeInv, TypeOK, ModeTypeOK, Settings
<1>2. step \in {"finishing", "pilot", "holiday"} /\ (m = "PAUSED" => step = "finishing")
  OBVIOUS
<1>3. handler' = [handler EXCEPT ![h] = w] /\ x.step = "mode"
        /\ UNCHANGED <<modeVars, event, incident, failed, answers, applied, deliveries>>
  BY DEF ReadMode, At
<1> HIDE DEF x, step
<1>4. /\ w \in Handler /\ w.step = step /\ w.mode = m /\ w.inc = x.inc /\ w.ver = x.ver
      /\ w.new = x.new /\ w.early = x.early /\ w.disturbed = x.disturbed
  BY <1>1, <1>2 DEF Handler, Steps, Engine
<1> HIDE DEF w
<1>5. Readings(w)
  BY <1>2, <1>4 DEF Readings
<1>6. x.step \in Engine /\ w.step \in Engine \cup {"finishing"}
  BY <1>2, <1>3, <1>4 DEF Engine
<1> QED
  BY <1>3, <1>4, <1>5, <1>6, EngineGoes DEF x

-----------------------------------------------------------------------------
(* The commits *)

(* What h stores, and where. *)
LEMMA WrittenRow ==
  ASSUME IntakeInv, NEW h \in Handlers, handler[h].step \in Engine \cup {"finishing"}
  PROVE  /\ Written(h) \in Incident
         /\ Written(h).holders = incident[handler[h].inc].holders
         /\ Written(h).via = incident[handler[h].inc].via
         /\ Written(h).disturbed = incident[handler[h].inc].disturbed
         /\ handler[h].early => Stored(handler[h].inc)
<1> DEFINE x == handler[h]
           old == incident[x.inc]
<1>1. Sound(x) /\ x.inc \in Incidents /\ x.ver \in Versions
  BY DEF IntakeInv, HandlersSound, Sound, Engine
<1>2. old \in Incident \cup {NoIncident}
  BY <1>1 DEF IntakeInv, TypeOK
<1>3. x.early => Stored(x.inc)
  BY <1>1, KeyOfVersion DEF Sound, EventKey, IntakeInv, EventsStored
<1>4. x.early => old.state # "NONE"
  BY <1>3 DEF Stored
<1>5. Written(h) = IF x.early THEN old ELSE [old EXCEPT !.version = x.ver, !.state = "NEW"]
  BY DEF Written
<1> HIDE DEF x, old
<1>6. CASE x.early
  BY <1>2, <1>3, <1>4, <1>5, <1>6 DEF NoIncident, x, old
<1>7. CASE ~ x.early
  <2> DEFINE new == [old EXCEPT !.version = x.ver, !.state = "NEW"]
  <2>1. old \in Incident =>
          /\ new \in Incident
          /\ new.holders = old.holders /\ new.via = old.via /\ new.disturbed = old.disturbed
    BY <1>1 DEF Incident
  <2>2. old = NoIncident =>
          /\ new \in Incident
          /\ new.holders = old.holders /\ new.via = old.via /\ new.disturbed = old.disturbed
    <3>1. 0 \in 0..TeamSize
      OBVIOUS
    <3> DEFINE none == [state |-> "NONE", version |-> 0, holders |-> 0, via |-> Nil,
                        disturbed |-> FALSE]
    <3>2. [none EXCEPT !.version = x.ver, !.state = "NEW"] \in Incident
      BY <1>1, <3>1 DEF Incident
    <3> QED
      BY <3>2 DEF NoIncident
  <2>3. /\ new \in Incident
        /\ new.holders = old.holders /\ new.via = old.via /\ new.disturbed = old.disturbed
    BY <1>2, <2>1, <2>2
  <2> QED
    BY <1>5, <1>7, <2>3 DEF x, old
<1> QED
  BY <1>6, <1>7

(* The commit of request x writes row r and sets the event with key k. *)
CommitOf(x, k, status, r) ==
  /\ x.inc \in Incidents /\ x.ver \in Versions /\ k \in Keys
  /\ event' \in [Incidents -> [Keys -> {"NONE", "RECEIVED", "PROCESSED"}]]
  /\ \A i \in Incidents, j \in Keys :
       event'[i][j] = IF i = x.inc /\ j = k THEN status ELSE event[i][j]
  /\ incident' \in [Incidents -> Incident \cup {NoIncident}]
  /\ \A i \in Incidents : incident'[i] = IF i = x.inc THEN r ELSE incident[i]
  /\ \A i \in Incidents : Stored(i)' <=> (Stored(i) \/ i = x.inc)
  /\ applied' \in [Incidents -> [Versions -> Nat]]
  /\ \A i \in Incidents, v \in Versions :
       applied'[i][v] = IF ~ x.early /\ i = x.inc /\ v = x.ver
                        THEN applied[i][v] + 1 ELSE applied[i][v]

(* What a commit of h writes. *)
LEMMA CommitWrites ==
  ASSUME IntakeInv, NEW h \in Handlers, handler[h].step \in Engine \cup {"finishing"},
         NEW status \in {"RECEIVED", "PROCESSED"}, NEW r \in Incident, CommitAs(h, status, r)
  PROVE  CommitOf(handler[h], Key(h), status, r)
<1> DEFINE x == handler[h]
           k == Key(h)
<1>1. x.inc \in Incidents /\ x.ver \in Versions /\ k \in Keys
  BY KeyOfVersion DEF IntakeInv, HandlersSound, Sound, Engine, Key
<1>2. /\ event \in [Incidents -> [Keys -> {"NONE", "RECEIVED", "PROCESSED"}]]
      /\ incident \in [Incidents -> Incident \cup {NoIncident}]
      /\ applied \in [Incidents -> [Versions -> Nat]]
  BY DEF IntakeInv, TypeOK
<1>3. /\ event' = [event EXCEPT ![x.inc][k] = status]
      /\ incident' = [incident EXCEPT ![x.inc] = r]
      /\ applied' = IF x.early THEN applied ELSE [applied EXCEPT ![x.inc][x.ver] = @ + 1]
  BY DEF CommitAs
<1> HIDE DEF x, k
<1>4. event' \in [Incidents -> [Keys -> {"NONE", "RECEIVED", "PROCESSED"}]]
        /\ \A i \in Incidents, j \in Keys :
             event'[i][j] = IF i = x.inc /\ j = k THEN status ELSE event[i][j]
  BY <1>1, <1>2, <1>3
<1>5. incident' \in [Incidents -> Incident \cup {NoIncident}]
        /\ \A i \in Incidents : incident'[i] = IF i = x.inc THEN r ELSE incident[i]
  BY <1>1, <1>2, <1>3
<1>6. \A i \in Incidents : Stored(i)' <=> (Stored(i) \/ i = x.inc)
  BY <1>5 DEF Stored, Incident
<1>7. applied' \in [Incidents -> [Versions -> Nat]]
        /\ \A i \in Incidents, v \in Versions :
             applied'[i][v] = IF ~ x.early /\ i = x.inc /\ v = x.ver
                              THEN applied[i][v] + 1 ELSE applied[i][v]
  <2>1. CASE x.early
    BY <1>2, <1>3, <2>1
  <2>2. CASE ~ x.early
    <3> DEFINE a == applied[x.inc]
               b == [a EXCEPT ![x.ver] = a[x.ver] + 1]
    <3>1. a \in [Versions -> Nat] /\ applied' = [applied EXCEPT ![x.inc] = b]
      BY <1>1, <1>2, <1>3, <2>2
    <3>2. b \in [Versions -> Nat] /\ \A v \in Versions :
            b[v] = IF v = x.ver THEN a[v] + 1 ELSE a[v]
      BY <1>1, <3>1
    <3>3. \A i \in Incidents : applied'[i] = IF i = x.inc THEN b ELSE applied[i]
      BY <1>1, <1>2, <3>1
    <3>4. applied' \in [Incidents -> [Versions -> Nat]]
      <4> HIDE DEF b
      <4> QED
        BY <1>1, <1>2, <3>1, <3>2
    <3> HIDE DEF b
    <3>5. \A i \in Incidents, v \in Versions :
            applied'[i][v] = IF i = x.inc /\ v = x.ver THEN applied[i][v] + 1 ELSE applied[i][v]
      BY <3>2, <3>3
    <3> QED
      BY <2>2, <3>4, <3>5
  <2> QED
    BY <2>1, <2>2
<1> QED
  BY <1>1, <1>4, <1>5, <1>6, <1>7 DEF x, k, CommitOf

(* The event of h is entered with its change, and was not entered before. *)
LEMMA CommitTables ==
  ASSUME IntakeInv, NEW h \in Handlers, handler[h].step \in Engine \cup {"finishing"},
         NEW status \in {"RECEIVED", "PROCESSED"}, NEW r \in Incident, CommitAs(h, status, r)
  PROVE  EventsStored' /\ AppliedOnRecord' /\ EachUpdateOnce'
<1> DEFINE x == handler[h]
           k == Key(h)
<1>1. /\ x.inc \in Incidents /\ x.ver \in Versions /\ k \in Keys
      /\ \A i \in Incidents, j \in Keys :
           event'[i][j] = IF i = x.inc /\ j = k THEN status ELSE event[i][j]
      /\ \A i \in Incidents : Stored(i)' <=> (Stored(i) \/ i = x.inc)
      /\ \A i \in Incidents, v \in Versions :
           applied'[i][v] = IF ~ x.early /\ i = x.inc /\ v = x.ver
                            THEN applied[i][v] + 1 ELSE applied[i][v]
  BY CommitWrites DEF CommitOf
<1>2. k = IdempotencyKey(x.ver)
  BY DEF Key
<1>3. ~ x.early => event[x.inc][k] = "NONE"
  BY DEF IntakeInv, HandlersSound, Sound, OpenEvent, EventKey, Key
<1>4. EventsStored /\ AppliedOnRecord /\ EachUpdateOnce
  BY DEF IntakeInv
<1> HIDE DEF x, k
<1>5. ~ x.early => \A v \in Versions : IdempotencyKey(v) = k => applied[x.inc][v] = 0
  BY <1>1, <1>3, <1>4 DEF AppliedOnRecord
<1>6. EventsStored'
  BY <1>1, <1>4 DEF EventsStored
<1>7. AppliedOnRecord'
  <2> SUFFICES ASSUME NEW i \in Incidents, NEW v \in Versions,
                      event'[i][IdempotencyKey(v)] = "NONE"
               PROVE  applied'[i][v] = 0
    BY DEF AppliedOnRecord
  <2>1. ~ (i = x.inc /\ IdempotencyKey(v) = k) /\ event[i][IdempotencyKey(v)] = "NONE"
    BY <1>1, KeyOfVersion
  <2>2. applied[i][v] = 0
    BY <1>4, <2>1 DEF AppliedOnRecord
  <2>3. ~ (i = x.inc /\ v = x.ver)
    BY <1>2, <2>1
  <2> QED
    BY <1>1, <2>2, <2>3
<1>8. EachUpdateOnce'
  <2> SUFFICES ASSUME NEW i \in Incidents, NEW v \in Versions, applied'[i][v] > 0
               PROVE  /\ applied'[i][v] = 1
                      /\ \A w \in Versions \ {v} :
                           IdempotencyKey(w) = IdempotencyKey(v) => applied'[i][w] = 0
    BY DEF EachUpdateOnce
  <2>1. CASE ~ x.early /\ i = x.inc /\ IdempotencyKey(v) = k
    BY <1>1, <1>5, <2>1
  <2>2. CASE ~ (~ x.early /\ i = x.inc /\ IdempotencyKey(v) = k)
    <3>1. \A w \in Versions : IdempotencyKey(w) = IdempotencyKey(v) =>
            applied'[i][w] = applied[i][w]
      BY <1>1, <1>2, <2>2
    <3>2. applied'[i][v] = applied[i][v] /\ applied[i][v] > 0
      BY <3>1
    <3>3. /\ applied[i][v] = 1
          /\ \A w \in Versions \ {v} :
               IdempotencyKey(w) = IdempotencyKey(v) => applied[i][w] = 0
      BY <1>4, <3>2 DEF EachUpdateOnce
    <3> QED
      BY <3>1, <3>2, <3>3
  <2> QED
    BY <2>1, <2>2
<1> QED
  BY <1>6, <1>7, <1>8

(* Nobody else relied on the event or the row being open. *)
LEMMA CommitOthers ==
  ASSUME IntakeInv, NEW h \in Handlers, handler[h].step \in Engine \cup {"finishing"},
         NEW status \in {"RECEIVED", "PROCESSED"}, NEW r \in Incident, CommitAs(h, status, r),
         UNCHANGED modeVars, NEW o \in Handlers \ {h}, NEW y \in Handler, y = handler[o]
  PROVE  Sound(y)'
<1> DEFINE x == handler[h]
<1>1. /\ x.inc \in Incidents /\ x.ver \in Versions /\ Key(h) \in Keys
      /\ \A i \in Incidents, j \in Keys :
           event'[i][j] = IF i = x.inc /\ j = Key(h) THEN status ELSE event[i][j]
      /\ \A i \in Incidents : Stored(i)' <=> (Stored(i) \/ i = x.inc)
  BY CommitWrites DEF CommitOf
<1>2. Sound(y) /\ Sound(x) /\ OneEvent /\ OneRow
  BY DEF IntakeInv, HandlersSound
<1>3. x.early => EventKey(x) # "NONE" /\ Stored(x.inc)
  BY <1>1, <1>2 DEF Sound, EventKey, Key, IntakeInv, EventsStored
<1>4. ~ x.early => HasEvent(h) /\ HasRow(h)
  BY DEF HasEvent, HasRow
<1>5. (OpenEvent(y) <=> HasEvent(o)) /\ (OpenRow(y) <=> HasRow(o))
  BY DEF OpenEvent, OpenRow, HasEvent, HasRow
<1>6. OpenEvent(y) => ~ SameKey(y, x)
  BY <1>2, <1>3, <1>4, <1>5 DEF OneEvent, SameKey, EventKey, Sound
<1>7. OpenRow(y) => (y.inc = x.inc => Stored(x.inc))
  BY <1>2, <1>3, <1>4, <1>5 DEF OneRow
<1>8. y.step # "idle" => y.inc \in Incidents /\ y.ver \in Versions
        /\ IdempotencyKey(y.ver) \in Keys
  BY <1>2, KeyOfVersion DEF Sound
<1>9. y.step # "idle" =>
        EventKey(y)' = IF SameKey(y, x) THEN status ELSE EventKey(y)
  BY <1>1, <1>8 DEF EventKey, SameKey, Key
<1>10. y.step # "idle" => (Stored(y.inc)' <=> (Stored(y.inc) \/ y.inc = x.inc))
  BY <1>1, <1>8
<1>11. Readings(y)' <=> Readings(y)
  BY DEF Readings, modeVars
<1> QED
  BY <1>2, <1>6, <1>7, <1>8, <1>9, <1>10, <1>11 DEF Sound, OpenEvent, OpenRow, Engine

(* A commit keeps the invariant, whether h ends with it or goes on. *)
LEMMA CommitInv ==
  ASSUME IntakeInv, NEW h \in Handlers, handler[h].step \in Engine \cup {"finishing"},
         NEW status \in {"RECEIVED", "PROCESSED"}, NEW r \in Incident, CommitAs(h, status, r),
         r.holders > 0 /\ ~ r.disturbed => r.via = "LIVE",
         NEW w \in Handler, handler' = [handler EXCEPT ![h] = w],
         Sound(w)', ~ OpenEvent(w), ~ OpenRow(w),
         UNCHANGED <<modeVars, failed, deliveries>>,
         answers' \subseteq answers \cup {[inc |-> handler[h].inc, kind |-> "processed"]}
  PROVE  IntakeInv'
<1> DEFINE x == handler[h]
<1>0. CommitOf(x, Key(h), status, r)
  BY CommitWrites
<1>1. /\ x.inc \in Incidents
      /\ event' \in [Incidents -> [Keys -> {"NONE", "RECEIVED", "PROCESSED"}]]
      /\ incident' \in [Incidents -> Incident \cup {NoIncident}]
      /\ \A i \in Incidents : incident'[i] = IF i = x.inc THEN r ELSE incident[i]
      /\ \A i \in Incidents : Stored(i)' <=> (Stored(i) \/ i = x.inc)
      /\ applied' \in [Incidents -> [Versions -> Nat]]
  BY <1>0 DEF CommitOf
<1>2. handler' \in [Handlers -> Handler] /\ handler'[h] = w
        /\ \A o \in Handlers \ {h} : handler'[o] = handler[o] /\ handler[o] \in Handler
  BY DEF IntakeInv, TypeOK
<1>3. TypeOK'
  <2>1. answers' \subseteq Answers /\ failed' \subseteq Incidents /\ deliveries' \in 0..MaxDeliveries
    BY <1>1 DEF IntakeInv, TypeOK, Answers
  <2>2. ModeTypeOK'
    BY DEF IntakeInv, TypeOK, ModeTypeOK, modeVars
  <2> QED
    BY <1>1, <1>2, <2>1, <2>2 DEF TypeOK, Answers
<1>4. HandlersSound'
  <2> SUFFICES ASSUME NEW o \in Handlers PROVE Sound(handler[o])'
    BY DEF HandlersSound
  <2>1. CASE o = h
    BY <1>2, <2>1 DEF Sound, EventKey, OpenEvent, OpenRow, Stored, Readings
  <2>2. CASE o # h
    <3>1. PICK y \in Handler : y = handler[o]
      BY <1>2, <2>2
    <3>2. Sound(y)' /\ handler'[o] = y
      BY <1>2, <2>2, <3>1, CommitOthers
    <3> QED
      BY <3>2 DEF Sound, EventKey, OpenEvent, OpenRow, Stored, Readings
  <2> QED
    BY <2>1, <2>2
<1>5. /\ ~ HasEvent(h)' /\ ~ HasRow(h)'
      /\ \A o \in Handlers \ {h} : (HasEvent(o)' <=> HasEvent(o)) /\ (HasRow(o)' <=> HasRow(o))
  BY <1>2 DEF HasEvent, HasRow, OpenEvent, OpenRow
<1>6. OneEvent'
  BY <1>2, <1>5 DEF IntakeInv, OneEvent, SameKey
<1>7. OneRow'
  BY <1>2, <1>5 DEF IntakeInv, OneRow
<1>8. ProcessedMeansStored'
  <2> SUFFICES ASSUME NEW a \in answers', a.kind \in {"processed", "deduplicated"}
               PROVE  Stored(a.inc)'
    BY DEF ProcessedMeansStored
  <2>1. CASE a \in answers
    <3>1. Stored(a.inc) /\ a.inc \in Incidents
      BY <2>1 DEF IntakeInv, ProcessedMeansStored, TypeOK
    <3> QED
      BY <1>1, <3>1
  <2>2. CASE a = [inc |-> x.inc, kind |-> "processed"]
    BY <1>1, <2>2
  <2> QED
    BY <2>1, <2>2
<1>9. LiveUnlessDisturbed'
  BY <1>1 DEF IntakeInv, LiveUnlessDisturbed
<1> QED
  BY <1>3, <1>4, <1>6, <1>7, <1>8, <1>9, CommitTables DEF IntakeInv

(* The engine's commit leaves the event RECEIVED and the request to finish. *)
LEMMA EngineCommitsInv ==
  ASSUME IntakeInv, NEW h \in Handlers, handler[h].step \in Engine,
         NEW r \in Incident, r.holders > 0 /\ ~ r.disturbed => r.via = "LIVE",
         EngineCommits(h, r)
  PROVE  IntakeInv'
<1>1. /\ CommitAs(h, "RECEIVED", r)
      /\ handler' = [handler EXCEPT ![h] = [@ EXCEPT !.step = "finishing", !.early = TRUE]]
      /\ UNCHANGED <<modeVars, failed, answers, deliveries>>
  BY DEF EngineCommits
<1>2. PICK x \in Handler : x = handler[h]
  BY DEF IntakeInv, TypeOK
<1>3. x.inc \in Incidents /\ x.ver \in Versions
  BY <1>2 DEF IntakeInv, HandlersSound, Sound, Engine
<1>4. PICK w \in Handler :
        /\ w = [x EXCEPT !.step = "finishing", !.early = TRUE]
        /\ w.step = "finishing" /\ w.early /\ w.inc = x.inc /\ w.ver = x.ver
  <2> DEFINE u == [x EXCEPT !.step = "finishing", !.early = TRUE]
  <2>1. u \in Handler /\ u.step = "finishing" /\ u.early /\ u.inc = x.inc /\ u.ver = x.ver
    BY DEF Handler, Steps
  <2> QED
    BY <2>1
<1>5. event'[x.inc][IdempotencyKey(x.ver)] = "RECEIVED"
  <2>1. CommitOf(handler[h], Key(h), "RECEIVED", r)
    BY <1>1, CommitWrites
  <2> QED
    BY <1>2, <2>1 DEF Key, CommitOf
<1>6. ~ OpenEvent(w) /\ ~ OpenRow(w)
  BY <1>4 DEF OpenEvent, OpenRow
<1>7. Readings(w)'
  BY <1>4 DEF Readings
<1>8. EventKey(w)' = "RECEIVED"
  BY <1>4, <1>5 DEF EventKey
<1>9. Sound(w)'
  BY <1>3, <1>4, <1>6, <1>7, <1>8 DEF Sound, OpenEvent, OpenRow, Engine
<1>10. handler' = [handler EXCEPT ![h] = w]
  BY <1>1, <1>2, <1>4
<1>11. answers' \subseteq answers \cup {[inc |-> handler[h].inc, kind |-> "processed"]}
  BY <1>1
<1> QED
  BY <1>1, <1>6, <1>9, <1>10, <1>11, CommitInv

(* The webhook's own commit ends the request. *)
LEMMA FinishInv ==
  ASSUME IntakeInv, NEW h \in Handlers, Finish(h)
  PROVE  IntakeInv'
<1>1. /\ handler[h].step = "finishing" /\ CommitAs(h, "PROCESSED", Written(h))
      /\ handler' = [handler EXCEPT ![h] = IdleHandler]
      /\ answers' = answers \cup {[inc |-> handler[h].inc, kind |-> "processed"]}
      /\ UNCHANGED <<modeVars, failed, deliveries>>
  BY DEF Finish, At, Answer
<1>2. Written(h) \in Incident
        /\ Written(h).holders = incident[handler[h].inc].holders
        /\ Written(h).via = incident[handler[h].inc].via
        /\ Written(h).disturbed = incident[handler[h].inc].disturbed
  BY <1>1, WrittenRow
<1>3. handler[h].inc \in Incidents
  BY <1>1 DEF IntakeInv, HandlersSound, Sound
<1>4. Written(h).holders > 0 /\ ~ Written(h).disturbed => Written(h).via = "LIVE"
  BY <1>2, <1>3 DEF IntakeInv, LiveUnlessDisturbed
<1>5. ~ OpenEvent(IdleHandler) /\ ~ OpenRow(IdleHandler)
  BY DEF OpenEvent, OpenRow, IdleHandler, Engine
<1> QED
  BY <1>1, <1>2, <1>4, <1>5, IdleSound, CommitInv

(* The engine stores a state, and with Assign the holders and how they came. *)
LEMMA EngineStoresInv ==
  ASSUME IntakeInv, NEW h \in Handlers,
         SundayHold(h) \/ LeaveUnassigned(h) \/ QueueForNextShift(h)
  PROVE  IntakeInv'
<1>1. PICK state \in {"SUNDAY_HOLIDAY_HOLD", "UNASSIGNED", "QUEUED_FOR_NEXT_SHIFT"} :
        EngineCommits(h, [Written(h) EXCEPT !.state = state])
  BY DEF SundayHold, LeaveUnassigned, QueueForNextShift
<1>2. handler[h].step \in Engine
  BY DEF SundayHold, LeaveUnassigned, QueueForNextShift, At, Engine
<1>3. PICK old \in Incident :
        /\ old = Written(h)
        /\ old.holders > 0 /\ ~ old.disturbed => old.via = "LIVE"
  <2>1. /\ Written(h) \in Incident
        /\ Written(h).holders = incident[handler[h].inc].holders
        /\ Written(h).via = incident[handler[h].inc].via
        /\ Written(h).disturbed = incident[handler[h].inc].disturbed
    BY <1>2, WrittenRow
  <2>2. handler[h].inc \in Incidents
    BY <1>2 DEF IntakeInv, HandlersSound, Sound, Engine
  <2>3. Written(h).holders > 0 /\ ~ Written(h).disturbed => Written(h).via = "LIVE"
    BY <2>1, <2>2 DEF IntakeInv, LiveUnlessDisturbed
  <2> QED
    BY <2>1, <2>3
<1> DEFINE r == [old EXCEPT !.state = state]
<1>4. r \in Incident /\ r.holders = old.holders /\ r.via = old.via /\ r.disturbed = old.disturbed
  BY DEF Incident
<1>5. EngineCommits(h, r)
  BY <1>1, <1>3
<1> HIDE DEF r
<1> QED
  BY <1>2, <1>3, <1>4, <1>5, EngineCommitsInv

(* Both modes were read after the mode itself: undisturbed, it was LIVE. *)
LEMMA AssignInv ==
  ASSUME IntakeInv, NEW h \in Handlers, NEW n \in {1, TeamSize}, Assign(h, n)
  PROVE  IntakeInv'
<1>1. PICK x \in Handler : x = handler[h]
  BY DEF IntakeInv, TypeOK
<1>2. x.step = "assigning" /\ Sound(x)
  BY <1>1 DEF Assign, At, IntakeInv, HandlersSound
<1>3. ~ x.disturbed => x.mode = "LIVE"
  BY <1>2 DEF Sound, Readings, DryRun, Shadow, Handler, Modes, IntakeInv, TypeOK, ModeTypeOK, Settings
<1>4. PICK old \in Incident : old = Written(h)
  BY <1>1, <1>2, WrittenRow DEF Engine
<1> DEFINE r == [old EXCEPT !.state = "ASSIGNED", !.holders = n, !.via = x.mode,
                            !.disturbed = x.disturbed]
<1>5. n \in 0..TeamSize /\ x.mode \in Modes \cup {Nil} /\ x.disturbed \in BOOLEAN
  BY DEF Handler
<1>6. r \in Incident /\ r.holders = n /\ r.via = x.mode /\ r.disturbed = x.disturbed
  BY <1>5 DEF Incident
<1>7. EngineCommits(h, r)
  BY <1>1, <1>4 DEF Assign
<1>8. handler[h].step \in Engine
  BY <1>1, <1>2 DEF Engine
<1> HIDE DEF r
<1> QED
  BY <1>3, <1>6, <1>7, <1>8, EngineCommitsInv

-----------------------------------------------------------------------------
(* The switches *)

(* Loading the settings changes none. *)
LEMMA AdminLoadInv ==
  ASSUME IntakeInv, NEW a \in Admins, AdminLoad(a), UNCHANGED intakeVars
  PROVE  IntakeInv'
<1>0. PICK op \in Requests : \E new \in Wanted(op, settings) :
        admin' = [admin EXCEPT ![a] = [op |-> op, seen |-> settings, new |-> new]]
  BY DEF AdminLoad
<1>1. PICK new \in Wanted(op, settings) :
        admin' = [admin EXCEPT ![a] = [op |-> op, seen |-> settings, new |-> new]]
  BY <1>0
<1>2. settings \in Settings /\ admin \in [Admins -> Admin]
  BY DEF IntakeInv, TypeOK, ModeTypeOK
<1>3. op \in Endpoints
  OBVIOUS
<1>4. new \in Settings
  BY <1>2, <1>3, WantedSettings
<1>5. [op |-> op, seen |-> settings, new |-> new] \in Admin
  BY <1>2, <1>3, <1>4 DEF Admin
<1>6. admin' \in [Admins -> Admin]
  BY <1>1, <1>2, <1>5
<1>7. requests' \in 0..MaxRequests /\ settings' = settings /\ armed' = armed
  BY DEF AdminLoad, IntakeInv, TypeOK, ModeTypeOK
<1>8. ModeTypeOK'
  BY <1>6, <1>7 DEF IntakeInv, TypeOK, ModeTypeOK
<1>9. TypeOK'
  BY <1>8 DEF IntakeInv, TypeOK, intakeVars
<1>10. HandlersSound'
  BY <1>7 DEF IntakeInv, HandlersSound, Sound, EventKey, OpenEvent, OpenRow, Stored, Readings,
              intakeVars
<1>11. OneEvent' /\ OneRow'
  BY DEF IntakeInv, OneEvent, OneRow, HasEvent, HasRow, SameKey, intakeVars
<1>12. EventsStored' /\ AppliedOnRecord' /\ EachUpdateOnce' /\ ProcessedMeansStored'
         /\ LiveUnlessDisturbed'
  BY DEF IntakeInv, EventsStored, AppliedOnRecord, EachUpdateOnce, ProcessedMeansStored,
         LiveUnlessDisturbed, Stored, intakeVars
<1> QED
  BY <1>9, <1>10, <1>11, <1>12 DEF IntakeInv

(* Committed settings disturb every dispatch that has begun, and only those. *)
LEMMA AdminCommitInv ==
  ASSUME IntakeInv, NEW a \in Admins, AdminCommit(a),
         handler' = [h \in Handlers |->
           [handler[h] EXCEPT !.disturbed = @ \/ handler[h].step \in Engine]],
         UNCHANGED <<event, incident, failed, answers, applied, deliveries>>
  PROVE  IntakeInv'
<1>1. ModeTypeOK'
  <2>1. /\ settings \in Settings /\ admin \in [Admins -> Admin] /\ armed \in BOOLEAN
        /\ requests \in 0..MaxRequests
    BY DEF IntakeInv, TypeOK, ModeTypeOK
  <2>2. admin[a].seen \in Settings /\ admin[a].new \in Settings
    BY <2>1 DEF Admin
  <2>3. settings' \in Settings
    BY <2>1, <2>2, FlushedComplete DEF AdminCommit
  <2>4. NoRequest \in Admin
    BY DEF NoRequest, Admin, Defaults, Settings, Modes
  <2>5. admin' \in [Admins -> Admin] /\ armed' \in BOOLEAN /\ requests' = requests
    BY <2>1, <2>4 DEF AdminCommit, Armed
  <2> QED
    BY <2>1, <2>3, <2>5 DEF ModeTypeOK
<1>2. ASSUME NEW h \in Handlers
      PROVE  /\ handler'[h] \in Handler
             /\ handler'[h].step = handler[h].step /\ handler'[h].inc = handler[h].inc
             /\ handler'[h].ver = handler[h].ver /\ handler'[h].new = handler[h].new
             /\ handler'[h].early = handler[h].early
             /\ handler[h].step \in Engine => handler'[h].disturbed
  <2>1. PICK x \in Handler : x = handler[h]
    BY DEF IntakeInv, TypeOK
  <2>2. PICK b \in BOOLEAN : b = (x.disturbed \/ x.step \in Engine)
    BY DEF Handler
  <2>3. handler'[h] = [x EXCEPT !.disturbed = b]
    BY <2>1, <2>2
  <2> DEFINE w == [x EXCEPT !.disturbed = b]
  <2>4. /\ w \in Handler /\ w.step = x.step /\ w.inc = x.inc /\ w.ver = x.ver
        /\ w.new = x.new /\ w.early = x.early /\ w.disturbed = b
    BY DEF Handler
  <2> QED
    BY <2>1, <2>2, <2>3, <2>4
<1>3. handler' \in [Handlers -> Handler]
  BY <1>2
<1>4. TypeOK'
  BY <1>1, <1>3 DEF IntakeInv, TypeOK
<1>5. HandlersSound'
  <2> SUFFICES ASSUME NEW h \in Handlers PROVE Sound(handler[h])'
    BY DEF HandlersSound
  <2>1. Sound(handler[h])
    BY DEF IntakeInv, HandlersSound
  <2>2. Readings(handler[h])'
    BY <1>2 DEF Readings, Engine
  <2> QED
    BY <1>2, <2>1, <2>2 DEF Sound, EventKey, OpenEvent, OpenRow, Stored
<1>6. \A h \in Handlers : (HasEvent(h)' <=> HasEvent(h)) /\ (HasRow(h)' <=> HasRow(h))
  BY <1>2 DEF HasEvent, HasRow
<1>7. OneEvent' /\ OneRow'
  <2>1. OneEvent /\ OneRow
    BY DEF IntakeInv
  <2>2. \A h \in Handlers : handler'[h].inc = handler[h].inc /\ handler'[h].ver = handler[h].ver
    BY <1>2
  <2>3. OneEvent'
    BY <1>6, <2>1, <2>2, Zenon DEF OneEvent, SameKey
  <2>4. OneRow'
    BY <1>6, <2>1, <2>2, Zenon DEF OneRow
  <2> QED
    BY <2>3, <2>4
<1>8. EventsStored' /\ AppliedOnRecord' /\ EachUpdateOnce' /\ ProcessedMeansStored'
        /\ LiveUnlessDisturbed'
  BY DEF IntakeInv, EventsStored, AppliedOnRecord, EachUpdateOnce, ProcessedMeansStored,
         LiveUnlessDisturbed, Stored
<1> QED
  BY <1>4, <1>5, <1>7, <1>8 DEF IntakeInv

-----------------------------------------------------------------------------
(* The invariant *)

(* Every step of the webhook, the engine and the switches keeps the invariant. *)
LEMMA StepInv == IntakeInv /\ [Next]_vars => IntakeInv'
<1> SUFFICES ASSUME IntakeInv, [Next]_vars PROVE IntakeInv'
  OBVIOUS
<1>1. CASE UNCHANGED vars
  BY <1>1 DEF vars, intakeVars, IntakeInv, TypeOK, ModeTypeOK, HandlersSound, Sound, EventKey,
              OpenEvent, OpenRow, Stored, Readings, OneEvent, OneRow, HasEvent, HasRow, SameKey,
              EventsStored, AppliedOnRecord, EachUpdateOnce, ProcessedMeansStored,
              LiveUnlessDisturbed
<1>2. ASSUME NEW a \in Admins, Switch(a)
      PROVE  IntakeInv'
  BY <1>2, AdminLoadInv, AdminCommitInv DEF Switch
<1>3. ASSUME NEW h \in Handlers, Deliver(h) \/ InsertFails(h) \/ Fail(h) \/ Die(h)
      PROVE  IntakeInv'
  BY <1>3, DeliverInv, AnswersInv, WebhookGoes, DieInv
<1>4. ASSUME NEW h \in Handlers, Webhook(h)
      PROVE  IntakeInv'
  BY <1>4, AnswersInv, WebhookGoes, InsertEventInv, FindExistingInv, WriteRowInv, FinishInv
     DEF Webhook
<1>5. ASSUME NEW h \in Handlers, ProcessIncident(h)
      PROVE  IntakeInv'
  BY <1>5, EngineReads, ReadModeInv, EngineStoresInv, WebhookGoes, AssignInv DEF ProcessIncident
<1> QED
  BY <1>1, <1>2, <1>3, <1>4, <1>5 DEF Next

(* IntakeInv holds in every reachable state. *)
THEOREM IntakeInvariant == Spec => []IntakeInv
  BY InitInv, StepInv, PTL DEF Spec

(* No delivery, failure or switch leaves a table or a request ill-formed. *)
THEOREM IntakeTypeCorrect == Spec => []TypeOK
<1>1. IntakeInv => TypeOK
  BY DEF IntakeInv
<1> QED
  BY <1>1, IntakeInvariant, PTL

(* A repeated delivery, at once or after a failure, is applied once. *)
THEOREM AppliedOnce == Spec => []EachUpdateOnce
<1>1. IntakeInv => EachUpdateOnce
  BY DEF IntakeInv
<1> QED
  BY <1>1, IntakeInvariant, PTL

(* An update reported processed or known has its incident on record. *)
THEOREM AnswersTrue == Spec => []ProcessedMeansStored
<1>1. IntakeInv => ProcessedMeansStored
  BY DEF IntakeInv
<1> QED
  BY <1>1, IntakeInvariant, PTL

(* Only LIVE dispatches assign, unless a switch was turned meanwhile. *)
THEOREM LiveDispatch == Spec => []LiveUnlessDisturbed
<1>1. IntakeInv => LiveUnlessDisturbed
  BY DEF IntakeInv
<1> QED
  BY <1>1, IntakeInvariant, PTL

-----------------------------------------------------------------------------
(* What a step may never do *)

(* A step changes an event or an incident only with a commit, and a commit  *)
(* to an incident on record leaves its holders alone.                       *)
LEMMA OnlyCommitsWrite ==
  ASSUME IntakeInv, [Next]_vars
  PROVE  \/ UNCHANGED <<event, incident>>
         \/ \E h \in Handlers, status \in {"RECEIVED", "PROCESSED"}, r \in Incident :
              /\ handler[h].step \in Engine \cup {"finishing"} /\ CommitAs(h, status, r)
              /\ Stored(handler[h].inc) => r.holders = incident[handler[h].inc].holders
<1> DEFINE Commits == \E h \in Handlers, status \in {"RECEIVED", "PROCESSED"}, r \in Incident :
              /\ handler[h].step \in Engine \cup {"finishing"} /\ CommitAs(h, status, r)
              /\ Stored(handler[h].inc) => r.holders = incident[handler[h].inc].holders
<1>1. ASSUME NEW h \in Handlers, Finish(h)
      PROVE  Commits
  <2>1. handler[h].step = "finishing" /\ CommitAs(h, "PROCESSED", Written(h))
    BY <1>1 DEF Finish, At
  <2>2. Written(h) \in Incident /\ Written(h).holders = incident[handler[h].inc].holders
    BY <2>1, WrittenRow
  <2> QED
    BY <2>1, <2>2
<1>2. ASSUME NEW h \in Handlers, NEW r \in Incident, handler[h].step \in Engine,
             EngineCommits(h, r)
      PROVE  Commits
  <2>1. ~ Stored(handler[h].inc)
    BY <1>2 DEF IntakeInv, HandlersSound, Sound, OpenRow
  <2> QED
    BY <1>2, <2>1 DEF EngineCommits
<1>3. ASSUME NEW h \in Handlers, handler[h].step \in Engine
      PROVE  /\ \A state \in {"SUNDAY_HOLIDAY_HOLD", "UNASSIGNED", "QUEUED_FOR_NEXT_SHIFT"} :
                  [Written(h) EXCEPT !.state = state] \in Incident
             /\ \A n \in {1, TeamSize} :
                  [Written(h) EXCEPT !.state = "ASSIGNED", !.holders = n,
                     !.via = handler[h].mode, !.disturbed = handler[h].disturbed] \in Incident
  <2>1. PICK old \in Incident : old = Written(h)
    BY <1>3, WrittenRow
  <2>2. PICK x \in Handler : x = handler[h]
    BY DEF IntakeInv, TypeOK
  <2>3. x.mode \in Modes \cup {Nil} /\ x.disturbed \in BOOLEAN /\ 1 \in 0..TeamSize
          /\ TeamSize \in 0..TeamSize
    BY DEF Handler
  <2>4. \A state \in {"SUNDAY_HOLIDAY_HOLD", "UNASSIGNED", "QUEUED_FOR_NEXT_SHIFT"} :
          [old EXCEPT !.state = state] \in Incident
    BY DEF Incident
  <2>5. \A n \in {1, TeamSize} :
          [old EXCEPT !.state = "ASSIGNED", !.holders = n,
             !.via = x.mode, !.disturbed = x.disturbed] \in Incident
    BY <2>3 DEF Incident
  <2> QED
    BY <2>1, <2>2, <2>4, <2>5
<1>4. ASSUME NEW h \in Handlers,
             SundayHold(h) \/ LeaveUnassigned(h) \/ QueueForNextShift(h)
      PROVE  Commits
  <2>1. handler[h].step \in Engine
    BY <1>4 DEF SundayHold, LeaveUnassigned, QueueForNextShift, At, Engine
  <2> HIDE DEF Commits
  <2> QED
    BY <1>2, <1>3, <1>4, <2>1 DEF SundayHold, LeaveUnassigned, QueueForNextShift
<1>5. ASSUME NEW h \in Handlers, NEW n \in {1, TeamSize}, Assign(h, n)
      PROVE  Commits
  <2>1. handler[h].step \in Engine
    BY <1>5 DEF Assign, At, Engine
  <2> HIDE DEF Commits
  <2> QED
    BY <1>2, <1>3, <1>5, <2>1 DEF Assign
<1> HIDE DEF Commits
<1>6. UNCHANGED vars => UNCHANGED <<event, incident>>
  BY DEF vars, intakeVars
<1>7. ASSUME NEW a \in Admins, Switch(a)
      PROVE  UNCHANGED <<event, incident>>
  BY <1>7 DEF Switch, intakeVars
<1>8. ASSUME NEW h \in Handlers, Deliver(h) \/ InsertFails(h) \/ Fail(h) \/ Die(h)
      PROVE  UNCHANGED <<event, incident>>
  BY <1>8 DEF Deliver, InsertFails, Fail, Die
<1>9. ASSUME NEW h \in Handlers, Webhook(h)
      PROVE  UNCHANGED <<event, incident>> \/ Commits
  <2>1. CASE Finish(h)
    BY <1>1, <2>1
  <2>2. CASE ~ Finish(h)
    BY <1>9, <2>2 DEF Webhook, Deduplicate, Look, InsertEvent, InsertConflict, FindExisting,
                      CreateIncident, CreateConflict, UpdateIncident, RecordFailure
  <2> QED
    BY <2>1, <2>2
<1>10. ASSUME NEW h \in Handlers, ProcessIncident(h)
       PROVE  UNCHANGED <<event, incident>> \/ Commits
  <2>1. CASE SundayHold(h) \/ LeaveUnassigned(h) \/ QueueForNextShift(h)
    BY <1>4, <2>1
  <2>2. CASE \E n \in {1, TeamSize} : Assign(h, n)
    BY <1>5, <2>2
  <2>3. CASE Gate(h) \/ ReadMode(h) \/ PilotGuard(h) \/ Workday(h) \/ CheckDryRun(h)
               \/ CheckShadow(h) \/ Refused(h)
    BY <2>3 DEF Gate, ReadMode, PilotGuard, Workday, CheckDryRun, CheckShadow, Refused
  <2> QED
    BY <1>10, <2>1, <2>2, <2>3 DEF ProcessIncident
<1>11. UNCHANGED <<event, incident>> \/ Commits
  BY <1>6, <1>7, <1>8, <1>9, <1>10 DEF Next
<1> QED
  BY <1>11 DEF Commits

(***************************************************************************)
(* Whatever is delivered later, and whoever else is dispatched, an incident*)
(* on record keeps the holders its one dispatch gave it.                   *)
(***************************************************************************)
THEOREM DispatchedOnce == Spec => AssignedOnce
<1>1. ASSUME IntakeInv, [Next]_vars, NEW i \in Incidents, Stored(i)
      PROVE  incident'[i].holders = incident[i].holders
  <2>1. CASE UNCHANGED <<event, incident>>
    BY <2>1
  <2>2. CASE ~ UNCHANGED <<event, incident>>
    <3>1. PICK h \in Handlers, status \in {"RECEIVED", "PROCESSED"}, r \in Incident :
            /\ handler[h].step \in Engine \cup {"finishing"} /\ CommitAs(h, status, r)
            /\ Stored(handler[h].inc) => r.holders = incident[handler[h].inc].holders
      BY <1>1, <2>2, OnlyCommitsWrite
    <3>2. CommitOf(handler[h], Key(h), status, r)
      BY <1>1, <3>1, CommitWrites
    <3> QED
      BY <1>1, <3>1, <3>2 DEF CommitOf
  <2> QED
    BY <2>1, <2>2
<1>2. IntakeInv /\ [Next]_vars =>
        [\A i \in Incidents : Stored(i) => incident'[i].holders = incident[i].holders]_vars
  BY <1>1
<1> QED
  BY <1>2, IntakeInvariant, PTL DEF Spec, AssignedOnce

-----------------------------------------------------------------------------
(* The pilot's limit *)

(* The dispatches that the pilot has let through and that may still assign. *)
Ahead == {h \in Handlers :
            /\ handler[h].mode = "LIVE"
            /\ handler[h].step \in {"holiday", "dry_run", "shadow", "assigning"}}

LiveActive == {x \in Active : incident[x[1]].via = "LIVE"}

(* Each of them may add a team to what is active: a limit that they have    *)
(* not passed when they all assign is not passed before.                   *)
PilotInv ==
  Cardinality(LiveActive) + Cardinality(Ahead) * TeamSize
    < Limit + Cardinality(Handlers) * TeamSize

(* The sets that are counted are finite.                                    *)
LEMMA PilotFinite ==
  /\ IsFiniteSet(Active) /\ IsFiniteSet(LiveActive) /\ IsFiniteSet(Ahead)
  /\ Cardinality(Active) \in Nat /\ Cardinality(LiveActive) \in Nat
  /\ Cardinality(Ahead) \in Nat /\ Cardinality(Handlers) \in Nat
  /\ Cardinality(LiveActive) <= Cardinality(Active)
  /\ Cardinality(Ahead) <= Cardinality(Handlers)
<1>1. IsFiniteSet(Incidents \X (1..TeamSize))
  <2>1. IsFiniteSet(1..TeamSize)
    BY FS_Interval
  <2> QED
    BY <2>1, FiniteAssumption, FS_Product
<1>2. IsFiniteSet(Active)
  BY <1>1, FS_Subset DEF Active
<1>3. IsFiniteSet(LiveActive) /\ Cardinality(LiveActive) <= Cardinality(Active)
  BY <1>2, FS_Subset DEF LiveActive
<1>4. IsFiniteSet(Ahead) /\ Cardinality(Ahead) <= Cardinality(Handlers)
  BY FiniteAssumption, FS_Subset DEF Ahead
<1> QED
  BY <1>2, <1>3, <1>4, FiniteAssumption, FS_CardinalityType

(* Nobody comes ahead and nothing is assigned under LIVE.                   *)
LEMMA PilotKept ==
  ASSUME PilotInv, Ahead' \subseteq Ahead, LiveActive' \subseteq LiveActive
  PROVE  PilotInv'
<1>1. Cardinality(LiveActive') <= Cardinality(LiveActive) /\ Cardinality(Ahead') <= Cardinality(Ahead)
      /\ Cardinality(LiveActive') \in Nat /\ Cardinality(Ahead') \in Nat
  BY PilotFinite, FS_Subset, FS_CardinalityType
<1> DEFINE a == Cardinality(Ahead)
           b == Cardinality(Ahead')
           n == Cardinality(Handlers)
<1>2. a \in Nat /\ b \in Nat /\ n \in Nat /\ b <= a /\ Cardinality(LiveActive) \in Nat
  BY <1>1, PilotFinite
<1>3. b * TeamSize <= a * TeamSize /\ b * TeamSize \in Nat /\ a * TeamSize \in Nat
      /\ n * TeamSize \in Nat
  <2> HIDE DEF a, b, n
  <2> QED
    BY <1>2
<1> QED
  BY <1>1, <1>2, <1>3 DEF PilotInv

(* A request that ends, or whose dispatch goes on, comes ahead only if it   *)
(* was.                                                                    *)
LEMMA AheadKept ==
  ASSUME IntakeInv, NEW h \in Handlers, NEW w \in Handler, handler' = [handler EXCEPT ![h] = w],
         w.mode = "LIVE" /\ w.step \in {"holiday", "dry_run", "shadow", "assigning"} => h \in Ahead
  PROVE  Ahead' \subseteq Ahead
<1>1. \A o \in Handlers : handler'[o] = IF o = h THEN w ELSE handler[o]
  BY DEF IntakeInv, TypeOK
<1> QED
  BY <1>1 DEF Ahead

LEMMA GoesAhead ==
  ASSUME IntakeInv, NEW h \in Handlers, NEW step \in Steps, Go(h, step),
         step \in {"holiday", "dry_run", "shadow", "assigning"} =>
           handler[h].step \in {"holiday", "dry_run", "shadow", "assigning"}
  PROVE  Ahead' \subseteq Ahead
<1>1. PICK w \in Handler : /\ handler' = [handler EXCEPT ![h] = w]
                           /\ w.step = step /\ w.mode = handler[h].mode
  BY StepOnly
<1> QED
  BY <1>1, AheadKept DEF Ahead

(* The pilot lets h through while there is room, however many are ahead.    *)
LEMMA PilotLetsThrough ==
  ASSUME IntakeInv, Room, UNCHANGED incident PROVE PilotInv'
<1>1. LiveActive' = LiveActive
  BY DEF LiveActive, Active
<1>2. Cardinality(LiveActive) < Limit /\ Cardinality(LiveActive) \in Nat
  BY PilotFinite DEF Room, ActiveCount
<1>3. PICK b \in Nat, n \in Nat :
        b = Cardinality(Ahead') /\ n = Cardinality(Handlers) /\ b <= n
  <2>1. Ahead' \subseteq Handlers
    BY DEF Ahead
  <2> QED
    BY <2>1, FiniteAssumption, FS_Subset, FS_CardinalityType
<1>4. b * TeamSize <= n * TeamSize /\ b * TeamSize \in Nat /\ n * TeamSize \in Nat
  BY <1>3
<1> QED
  BY <1>1, <1>2, <1>3, <1>4 DEF PilotInv

(* A commit of h writes row r and h is no longer ahead.                     *)
LEMMA PilotCommits ==
  ASSUME IntakeInv, PilotInv, NEW h \in Handlers, NEW i \in Incidents, NEW r \in Incident,
         incident' = [incident EXCEPT ![i] = r], Ahead' = Ahead \ {h},
         r.via = "LIVE" => h \in Ahead \/ (incident[i].via = "LIVE" /\ r.holders = incident[i].holders)
  PROVE  PilotInv'
<1>1. \A j \in Incidents : incident'[j] = IF j = i THEN r ELSE incident[j]
  BY DEF IntakeInv, TypeOK
<1>2. CASE r.via = "LIVE" /\ h \in Ahead
  <2> DEFINE team == {i} \X (1..TeamSize)
  <2>1. LiveActive' \subseteq LiveActive \cup team
    BY <1>1 DEF LiveActive, Active
  <2>2. IsFiniteSet(team) /\ Cardinality(team) = TeamSize
    <3>1. IsFiniteSet(1..TeamSize) /\ Cardinality(1..TeamSize) = TeamSize
      BY FS_Interval
    <3>2. IsFiniteSet({i}) /\ Cardinality({i}) = 1
      BY FS_Singleton
    <3>3. IsFiniteSet(team) /\ Cardinality(team) = 1 * TeamSize
      BY <3>1, <3>2, FS_Product
    <3> QED
      BY <3>3
  <2> HIDE DEF team
  <2>3. PICK m \in Nat, k \in Nat : /\ m = Cardinality(LiveActive') /\ k = Cardinality(LiveActive)
                                    /\ m <= k + TeamSize
    <3>1. IsFiniteSet(LiveActive \cup team) /\ IsFiniteSet(LiveActive \cap team)
          /\ Cardinality(LiveActive \cup team) =
               Cardinality(LiveActive) + Cardinality(team) - Cardinality(LiveActive \cap team)
      BY <2>2, PilotFinite, FS_Union, FS_Intersection
    <3>2. Cardinality(LiveActive \cap team) \in Nat /\ Cardinality(LiveActive) \in Nat
      BY <3>1, PilotFinite, FS_CardinalityType
    <3>3. IsFiniteSet(LiveActive') /\ Cardinality(LiveActive') <= Cardinality(LiveActive \cup team)
      BY <2>1, <3>1, FS_Subset
    <3>4. Cardinality(LiveActive') \in Nat
      BY <3>3, FS_CardinalityType
    <3> QED
      BY <2>2, <3>1, <3>2, <3>3, <3>4
  <2>4. PICK a \in Nat : /\ a = Cardinality(Ahead)
                         /\ a >= 1 /\ Cardinality(Ahead') = a - 1
    <3>1. IsFiniteSet(Ahead) /\ Cardinality(Ahead) \in Nat
      BY PilotFinite
    <3>2. Cardinality(Ahead \ {h}) = Cardinality(Ahead) - 1 /\ Cardinality(Ahead \ {h}) \in Nat
      BY <1>2, <3>1, FS_RemoveElement, FS_CardinalityType
    <3> QED
      BY <3>1, <3>2
  <2>5. PICK n \in Nat : n = Cardinality(Handlers)
    BY PilotFinite
  <2>6. k + a * TeamSize < Limit + n * TeamSize
    BY <2>3, <2>4, <2>5 DEF PilotInv
  <2>7. (a - 1) * TeamSize = a * TeamSize - TeamSize /\ a * TeamSize \in Nat /\ n * TeamSize \in Nat
    OBVIOUS
  <2>8. m + (a - 1) * TeamSize < Limit + n * TeamSize
    BY <2>3, <2>6, <2>7
  <2> QED
    BY <2>3, <2>4, <2>5, <2>8 DEF PilotInv
<1>3. CASE ~ (r.via = "LIVE" /\ h \in Ahead)
  <2>1. LiveActive' \subseteq LiveActive
    BY <1>1, <1>3 DEF LiveActive, Active
  <2> QED
    BY <2>1, PilotKept
<1> QED
  BY <1>2, <1>3

(* A commit of h: the row keeps its holders, or h was let through.          *)
LEMMA PilotCommitsAs ==
  ASSUME IntakeInv, PilotInv, NEW h \in Handlers, NEW w \in Handler,
         handler[h].step \in Engine \cup {"finishing"},
         NEW status \in {"RECEIVED", "PROCESSED"}, NEW r \in Incident, CommitAs(h, status, r),
         handler' = [handler EXCEPT ![h] = w], w.step \in {"idle", "finishing"},
         \/ r.via = incident[handler[h].inc].via /\ r.holders = incident[handler[h].inc].holders
         \/ handler[h].step = "assigning" /\ r.via = handler[h].mode
  PROVE  PilotInv'
<1>1. handler[h].inc \in Incidents /\ incident' = [incident EXCEPT ![handler[h].inc] = r]
  BY DEF CommitAs, IntakeInv, HandlersSound, Sound, Engine
<1>2. \A o \in Handlers : handler'[o] = IF o = h THEN w ELSE handler[o]
  BY DEF IntakeInv, TypeOK
<1>3. Ahead' = Ahead \ {h}
  BY <1>2 DEF Ahead
<1>4. r.via = "LIVE" => \/ h \in Ahead
                        \/ /\ incident[handler[h].inc].via = "LIVE"
                           /\ r.holders = incident[handler[h].inc].holders
  BY DEF Ahead
<1> QED
  BY <1>1, <1>3, <1>4, PilotCommits

(* A request that keeps to itself.                                          *)
LEMMA PilotElsewhere ==
  ASSUME PilotInv, UNCHANGED incident, Ahead' \subseteq Ahead PROVE PilotInv'
<1>1. LiveActive' = LiveActive
  BY DEF LiveActive, Active
<1> QED
  BY <1>1, PilotKept

(* The webhook and the admins let nobody through.                           *)
LEMMA PilotWebhook ==
  ASSUME IntakeInv, PilotInv, NEW h \in Handlers,
         Deliver(h) \/ InsertFails(h) \/ Fail(h) \/ Die(h) \/ Webhook(h)
  PROVE  PilotInv'
<1>1. IdleHandler \in Handler /\ IdleHandler.step = "idle"
  BY IdleSound DEF IdleHandler
<1>2. CASE Deliver(h)
  <2>1. PICK i \in Incidents, v \in Versions :
          handler' = [handler EXCEPT ![h] =
            [IdleHandler EXCEPT !.step = "looking", !.inc = i, !.ver = v]]
    BY <1>2 DEF Deliver
  <2>2. PICK w \in Handler :
          w = [IdleHandler EXCEPT !.step = "looking", !.inc = i, !.ver = v] /\ w.step = "looking"
    <3> DEFINE u == [IdleHandler EXCEPT !.step = "looking", !.inc = i, !.ver = v]
    <3>1. u \in Handler /\ u.step = "looking"
      BY DEF IdleHandler, Handler, Steps
    <3> QED
      BY <3>1
  <2>3. Ahead' \subseteq Ahead
    BY <2>1, <2>2, AheadKept
  <2> QED
    BY <1>2, <2>3, PilotElsewhere DEF Deliver
<1>3. CASE Die(h) \/ Deduplicate(h) \/ InsertConflict(h) \/ InsertFails(h) \/ RecordFailure(h)
  <2>1. handler' = [handler EXCEPT ![h] = IdleHandler] /\ UNCHANGED incident
    BY <1>3 DEF Die, Deduplicate, InsertConflict, InsertFails, RecordFailure, Answer
  <2> QED
    BY <1>1, <2>1, AheadKept, PilotElsewhere
<1>4. CASE Look(h) \/ InsertEvent(h) \/ CreateIncident(h) \/ CreateConflict(h)
             \/ UpdateIncident(h) \/ Fail(h)
  <2>1. PICK step \in {"inserting", "finding", "gate", "recording", "finishing"} :
          Go(h, step) /\ UNCHANGED incident
    BY <1>4 DEF Look, InsertEvent, CreateIncident, CreateConflict, UpdateIncident, Fail
  <2>2. step \in Steps
    BY DEF Steps, Engine
  <2>3. Ahead' \subseteq Ahead
    BY <2>1, <2>2, GoesAhead
  <2> QED
    BY <2>1, <2>3, PilotElsewhere
<1>5. CASE FindExisting(h)
  <2>1. PICK x \in Handler : x = handler[h]
    BY DEF IntakeInv, TypeOK
  <2>2. PICK b \in BOOLEAN : b = ~ Stored(handler[h].inc)
    OBVIOUS
  <2>3. handler' = [handler EXCEPT ![h] = [x EXCEPT !.step = "writing", !.new = b]]
        /\ UNCHANGED incident
    BY <1>5, <2>1, <2>2 DEF FindExisting
  <2>4. PICK w \in Handler : w = [x EXCEPT !.step = "writing", !.new = b] /\ w.step = "writing"
    <3> DEFINE u == [x EXCEPT !.step = "writing", !.new = b]
    <3>1. u \in Handler /\ u.step = "writing"
      BY DEF Handler, Steps
    <3> QED
      BY <3>1
  <2> QED
    BY <2>3, <2>4, AheadKept, PilotElsewhere
<1>6. CASE Finish(h)
  <2>1. /\ handler[h].step = "finishing" /\ CommitAs(h, "PROCESSED", Written(h))
        /\ handler' = [handler EXCEPT ![h] = IdleHandler]
    BY <1>6 DEF Finish, At, Answer
  <2>2. /\ Written(h) \in Incident
        /\ Written(h).holders = incident[handler[h].inc].holders
        /\ Written(h).via = incident[handler[h].inc].via
    BY <2>1, WrittenRow
  <2> QED
    BY <1>1, <2>1, <2>2, PilotCommitsAs
<1> QED
  BY <1>2, <1>3, <1>4, <1>5, <1>6 DEF Webhook

(* Of the engine's steps the guard lets h through, and Assign uses that.    *)
LEMMA PilotEngine ==
  ASSUME IntakeInv, PilotInv, NEW h \in Handlers, ProcessIncident(h)
  PROVE  PilotInv'
<1>1. PICK x \in Handler : x = handler[h]
  BY DEF IntakeInv, TypeOK
<1>2. CASE Gate(h) \/ Workday(h) \/ CheckDryRun(h) \/ CheckShadow(h) \/ Refused(h)
  <2>1. PICK step \in {"mode", "finishing", "dry_run", "shadow", "assigning", "recording"} :
          /\ Go(h, step) /\ UNCHANGED incident
          /\ step \in {"dry_run", "shadow", "assigning"} =>
               handler[h].step \in {"holiday", "dry_run", "shadow"}
    BY <1>2 DEF Gate, Workday, CheckDryRun, CheckShadow, Refused, Skip, At
  <2>2. step \in Steps
    BY DEF Steps, Engine
  <2>3. Ahead' \subseteq Ahead
    BY <2>1, <2>2, GoesAhead
  <2> QED
    BY <2>1, <2>3, PilotElsewhere
<1>3. CASE ReadMode(h)
  <2>1. PICK m \in Modes : m = settings.mode
    BY DEF IntakeInv, TypeOK, ModeTypeOK, Settings
  <2>2. PICK step \in {"finishing", "pilot", "holiday"} :
          step = (CASE m = "PAUSED" -> "finishing" [] m = "LIVE" -> "pilot" [] OTHER -> "holiday")
          /\ (m = "LIVE" => step = "pilot")
    OBVIOUS
  <2>3. handler' = [handler EXCEPT ![h] = [x EXCEPT !.mode = m, !.step = step]]
        /\ UNCHANGED incident
    BY <1>1, <1>3, <2>1, <2>2 DEF ReadMode
  <2>4. PICK w \in Handler : /\ w = [x EXCEPT !.mode = m, !.step = step]
                             /\ w.mode = m /\ w.step = step
    <3> DEFINE u == [x EXCEPT !.mode = m, !.step = step]
    <3>1. u \in Handler /\ u.mode = m /\ u.step = step
      BY DEF Handler, Steps, Engine
    <3> QED
      BY <3>1
  <2> QED
    BY <2>2, <2>3, <2>4, AheadKept, PilotElsewhere
<1>4. CASE PilotGuard(h)
  <2>1. CASE Room
    BY <1>4, <2>1, PilotLetsThrough DEF PilotGuard
  <2>2. CASE Skip(h)
    <3>1. Go(h, "finishing") /\ UNCHANGED incident /\ "finishing" \in Steps
      BY <1>4, <2>2 DEF PilotGuard, Skip, Steps
    <3> QED
      BY <3>1, GoesAhead, PilotElsewhere
  <2> QED
    BY <1>4, <2>1, <2>2 DEF PilotGuard
<1>5. ASSUME NEW r \in Incident, handler[h].step \in Engine, EngineCommits(h, r),
             \/ r.via = incident[handler[h].inc].via /\ r.holders = incident[handler[h].inc].holders
             \/ handler[h].step = "assigning" /\ r.via = handler[h].mode
      PROVE  PilotInv'
  <2>1. CommitAs(h, "RECEIVED", r)
        /\ handler' = [handler EXCEPT ![h] = [x EXCEPT !.step = "finishing", !.early = TRUE]]
    BY <1>1, <1>5 DEF EngineCommits
  <2>2. PICK w \in Handler : w = [x EXCEPT !.step = "finishing", !.early = TRUE]
                             /\ w.step = "finishing"
    <3> DEFINE u == [x EXCEPT !.step = "finishing", !.early = TRUE]
    <3>1. u \in Handler /\ u.step = "finishing"
      BY DEF Handler, Steps
    <3> QED
      BY <3>1
  <2> QED
    BY <1>5, <2>1, <2>2, PilotCommitsAs
<1>6. CASE SundayHold(h) \/ LeaveUnassigned(h) \/ QueueForNextShift(h)
  <2>1. handler[h].step \in Engine
    BY <1>6 DEF SundayHold, LeaveUnassigned, QueueForNextShift, At, Engine
  <2>2. PICK old \in Incident :
          /\ old = Written(h) /\ old.via = incident[handler[h].inc].via
          /\ old.holders = incident[handler[h].inc].holders
    BY <2>1, WrittenRow
  <2>3. PICK state \in {"SUNDAY_HOLIDAY_HOLD", "UNASSIGNED", "QUEUED_FOR_NEXT_SHIFT"} :
          EngineCommits(h, [old EXCEPT !.state = state])
    BY <1>6, <2>2 DEF SundayHold, LeaveUnassigned, QueueForNextShift
  <2>4. PICK r \in Incident :
          r = [old EXCEPT !.state = state] /\ r.via = old.via /\ r.holders = old.holders
    <3> DEFINE u == [old EXCEPT !.state = state]
    <3>1. u \in Incident /\ u.via = old.via /\ u.holders = old.holders
      BY DEF Incident
    <3> QED
      BY <3>1
  <2> QED
    BY <1>5, <2>1, <2>2, <2>3, <2>4
<1>7. ASSUME NEW n \in {1, TeamSize}, Assign(h, n)
      PROVE  PilotInv'
  <2>1. handler[h].step = "assigning" /\ handler[h].step \in Engine
    BY <1>7 DEF Assign, At, Engine
  <2>2. PICK old \in Incident : old = Written(h)
    BY <2>1, WrittenRow
  <2>3. n \in 0..TeamSize /\ x.mode \in Modes \cup {Nil} /\ x.disturbed \in BOOLEAN
    BY DEF Handler
  <2>4. PICK r \in Incident :
          /\ r = [old EXCEPT !.state = "ASSIGNED", !.holders = n, !.via = x.mode,
                             !.disturbed = x.disturbed]
          /\ r.via = x.mode
    <3> DEFINE u == [old EXCEPT !.state = "ASSIGNED", !.holders = n, !.via = x.mode,
                            !.disturbed = x.disturbed]
    <3>1. u \in Incident /\ u.via = x.mode
      BY <2>3 DEF Incident
    <3> QED
      BY <3>1
  <2>5. EngineCommits(h, r)
    BY <1>1, <1>7, <2>2, <2>4 DEF Assign
  <2> QED
    BY <1>1, <1>5, <2>1, <2>4, <2>5
<1> QED
  BY <1>2, <1>3, <1>4, <1>6, <1>7 DEF ProcessIncident

LEMMA PilotStep == IntakeInv /\ PilotInv /\ [Next]_vars => PilotInv'
<1> SUFFICES ASSUME IntakeInv, PilotInv, [Next]_vars PROVE PilotInv'
  OBVIOUS
<1>1. ASSUME NEW a \in Admins, Switch(a) PROVE PilotInv'
  <2>1. \A h \in Handlers : handler'[h].step = handler[h].step /\ handler'[h].mode = handler[h].mode
    BY <1>1 DEF Switch, intakeVars, IntakeInv, TypeOK, Handler
  <2>2. Ahead' = Ahead
    BY <2>1 DEF Ahead
  <2>3. UNCHANGED incident
    BY <1>1 DEF Switch, intakeVars
  <2> QED
    BY <2>2, <2>3, PilotElsewhere
<1>2. CASE UNCHANGED vars
  BY <1>2, PilotElsewhere DEF vars, intakeVars, Ahead
<1> QED
  BY <1>1, <1>2, PilotWebhook, PilotEngine DEF Next

(***************************************************************************)
(* The pilot's limit is passed by less than one team of each handler: who- *)
(* ever was let through had seen room, and has one incident to assign.     *)
(***************************************************************************)
THEOREM PilotBounded == Spec => []PilotOvershoot
<1>1. Init => PilotInv
  <2> SUFFICES ASSUME Init PROVE PilotInv
    OBVIOUS
  <2>1. LiveActive = {} /\ Ahead = {}
    BY DEF Init, LiveActive, Active, NoIncident, Ahead, IdleHandler
  <2>2. Cardinality(LiveActive) = 0 /\ Cardinality(Ahead) = 0
    BY <2>1, FS_EmptySet
  <2>3. PICK n \in Nat : n = Cardinality(Handlers) /\ n # 0
    BY FiniteAssumption, FS_EmptySet, FS_CardinalityType
  <2>4. n * TeamSize \in Nat /\ n * TeamSize >= TeamSize
    BY <2>3
  <2> QED
    BY <2>2, <2>3, <2>4 DEF PilotInv
<1>2. PilotInv => PilotOvershoot
  <2> SUFFICES ASSUME PilotInv PROVE PilotOvershoot
    OBVIOUS
  <2>1. PICK a \in Nat, k \in Nat, n \in Nat :
          a = Cardinality(Ahead) /\ k = Cardinality(LiveActive) /\ n = Cardinality(Handlers)
    BY PilotFinite
  <2>2. a * TeamSize \in Nat /\ n * TeamSize \in Nat
    OBVIOUS
  <2>3. k + a * TeamSize < Limit + n * TeamSize
    BY <2>1 DEF PilotInv
  <2>4. k < Limit + n * TeamSize
    BY <2>2, <2>3
  <2> QED
    BY <2>1, <2>4 DEF PilotOvershoot, LiveActive
<1> QED
  BY <1>1, <1>2, PilotStep, IntakeInvariant, PTL DEF Spec

-----------------------------------------------------------------------------
(* The intake implements IngestLedger *)

(***************************************************************************)
(* For any deliveries, repeated, overlapping, failing and dying: an update *)
(* is entered once, and its entry and its incident appear together.        *)
(***************************************************************************)
THEOREM LedgerKept == Spec => KeepsLedger
<1> DEFINE entries == {e \in Incidents \X Keys : event[e[1]][e[2]] # "NONE"}
           kept == {i \in Incidents : Stored(i)}
<1>1. Init => Ledger!Init
  BY DEF Init, Ledger!Init, Stored, NoIncident
<1>2. ASSUME IntakeInv, [Next]_vars
      PROVE  [Ledger!Next]_<<entries, kept>>
  <2>1. CASE UNCHANGED <<event, incident>>
    BY <2>1 DEF Stored
  <2>2. CASE ~ UNCHANGED <<event, incident>>
    <3>1. PICK h \in Handlers, status \in {"RECEIVED", "PROCESSED"}, r \in Incident :
            handler[h].step \in Engine \cup {"finishing"} /\ CommitAs(h, status, r)
      BY <1>2, <2>2, OnlyCommitsWrite
    <3> DEFINE i == handler[h].inc
               k == Key(h)
    <3>2. CommitOf(handler[h], k, status, r)
      BY <1>2, <3>1, CommitWrites
    <3>3. IF handler[h].early THEN event[i][k] # "NONE" ELSE event[i][k] = "NONE"
      BY <1>2, <3>1 DEF IntakeInv, HandlersSound, Sound, OpenEvent, EventKey, Key
    <3>4. i \in Incidents /\ k \in Keys
      BY <3>2 DEF CommitOf
    <3>5. /\ \A j \in Incidents, n \in Keys :
               event'[j][n] # "NONE" <=> (event[j][n] # "NONE" \/ (j = i /\ n = k))
          /\ \A j \in Incidents : Stored(j)' <=> (Stored(j) \/ j = i)
      BY <3>2 DEF CommitOf
    <3> HIDE DEF i, k
    <3>6. entries' = entries \cup {<<i, k>>}
      BY <3>4, <3>5
    <3>7. kept' = kept \cup {i}
      BY <3>4, <3>5
    <3>8. CASE event[i][k] # "NONE"
      <4>1. <<i, k>> \in entries
        BY <3>4, <3>8
      <4>2. i \in kept
        BY <1>2, <3>4, <3>8 DEF IntakeInv, EventsStored
      <4> QED
        BY <3>6, <3>7, <4>1, <4>2
    <3>9. CASE event[i][k] = "NONE"
      <4>1. <<i, k>> \notin entries
        BY <3>9
      <4>2. Ledger!Next
        BY <3>4, <3>6, <3>7, <4>1 DEF Ledger!Next, Ledger!Enter
      <4> QED
        BY <4>2
    <3> QED
      BY <3>8, <3>9
  <2> QED
    BY <2>1, <2>2
<1>3. IntakeInv /\ [Next]_vars => [Ledger!Next]_<<entries, kept>>
  BY <1>2
<1> HIDE DEF entries, kept
<1> QED
  BY <1>1, <1>3, IntakeInvariant, PTL DEF Spec, KeepsLedger, Ledger!Spec, entries, kept

-----------------------------------------------------------------------------
(* The switches, one admin at a time and without resumptions *)

(* The mode is LIVE only while the phrase holds, and a request under way   *)
(* has loaded the settings as they still are.                              *)
PhraseHolds ==
  /\ ModeTypeOK
  /\ settings.mode = "LIVE" => armed
  /\ \A a \in Admins : admin[a].op # Nil =>
       /\ admin[a].op \in Requests
       /\ admin[a].seen = settings
       /\ admin[a].new \in Wanted(admin[a].op, settings)

(* Who has loaded what is stored leaves what he wanted. *)
LEMMA FlushedAlone ==
  ASSUME NEW s \in Settings, NEW new \in Settings
  PROVE  FlushedSettings(s, s, new) = new
<1>1. DOMAIN new = {"mode", "previous", "enabled", "dry_run", "shadow", "pilot"}
  BY DEF Settings
<1>2. \A k \in DOMAIN new : FlushedSettings(s, s, new)[k] = new[k]
  BY DEF FlushedSettings
<1>3. FlushedSettings(s, s, new) =
        [mode |-> new.mode, previous |-> new.previous, enabled |-> new.enabled,
         dry_run |-> new.dry_run, shadow |-> new.shadow, pilot |-> new.pilot]
  BY <1>1 DEF FlushedSettings
<1> QED
  BY <1>3 DEF Settings

(* LIVE comes from its own endpoints, or was there before and has not been  *)
(* left; a resumption alone restores it.                                    *)
LEMMA LiveIsWanted ==
  ASSUME NEW s \in Settings, NEW op \in Endpoints \ {"resume"}, NEW new \in Wanted(op, s),
         new.mode = "LIVE"
  PROVE  op \in {"LIVE", "enable"} \/ (op = "configure" /\ s.mode = "LIVE")
<1>1. ASSUME op \in Modes PROVE op = "LIVE"
  <2>1. new = SetMode(s, op)
    BY <1>1 DEF Wanted, Modes
  <2>2. SetMode(s, op).mode = op
    BY DEF SetMode, Settings
  <2> QED
    BY <2>1, <2>2
<1>2. op \notin {"pause", "pilot_pause", "rollback"}
  <2>1. op # "pause"
    BY DEF Wanted, PauseAutomation, Settings, Modes
  <2>2. op # "pilot_pause"
    BY DEF Wanted, PausePilot, Settings, Modes
  <2>3. op # "rollback"
    BY DEF Wanted, RollbackPilot, Settings, Modes
  <2> QED
    BY <2>1, <2>2, <2>3
<1>3. ASSUME op = "configure" PROVE s.mode = "LIVE"
  <2>1. PICK on \in BOOLEAN : new = UpdatePilotConfig(s, on)
    BY <1>3 DEF Wanted, Modes
  <2> QED
    BY <2>1 DEF UpdatePilotConfig, Settings
<1> QED
  BY <1>1, <1>2, <1>3 DEF Endpoints, Modes

(* With LIVE left for PAUSED the phrase does no harm. *)
LEMMA AloneStep ==
  ASSUME "resume" \notin Requests, \A a, b \in Admins : a = b,
         PhraseHolds, [ModeNext]_modeVars
  PROVE  PhraseHolds'
<1>1. ASSUME NEW a \in Admins, AdminLoad(a) PROVE PhraseHolds'
  <2>1. PICK op \in Requests : \E new \in Wanted(op, settings) :
          admin' = [admin EXCEPT ![a] = [op |-> op, seen |-> settings, new |-> new]]
    BY <1>1 DEF AdminLoad
  <2>2. PICK new \in Wanted(op, settings) :
          admin' = [admin EXCEPT ![a] = [op |-> op, seen |-> settings, new |-> new]]
    BY <2>1
  <2>3. op \in Endpoints /\ settings \in Settings /\ new \in Settings
    BY WantedSettings DEF PhraseHolds, ModeTypeOK
  <2> DEFINE x == [op |-> op, seen |-> settings, new |-> new]
  <2>4. x \in Admin /\ x.op = op /\ x.seen = settings /\ x.new = new
    BY <2>3 DEF Admin
  <2>5. admin' = [admin EXCEPT ![a] = x] /\ admin \in [Admins -> Admin]
    BY <2>2 DEF PhraseHolds, ModeTypeOK
  <2> HIDE DEF x
  <2>6. admin' \in [Admins -> Admin] /\ \A b \in Admins : admin'[b] = x
    BY <2>4, <2>5
  <2>7. settings' = settings /\ armed' = armed /\ requests' \in 0..MaxRequests
    BY <1>1 DEF AdminLoad, PhraseHolds, ModeTypeOK
  <2>8. ModeTypeOK'
    BY <2>6, <2>7 DEF PhraseHolds, ModeTypeOK
  <2> QED
    BY <2>4, <2>6, <2>7, <2>8 DEF PhraseHolds
<1>2. ASSUME NEW a \in Admins, AdminCommit(a) PROVE PhraseHolds'
  <2> DEFINE op == admin[a].op
             new == admin[a].new
  <2>1. /\ op \in Requests /\ op \in Endpoints \ {"resume"} /\ settings \in Settings
        /\ admin[a].seen = settings /\ new \in Wanted(op, settings) /\ new \in Settings
    BY <1>2, WantedSettings DEF AdminCommit, PhraseHolds, ModeTypeOK
  <2>2. settings' = new
    BY <1>2, <2>1, FlushedAlone DEF AdminCommit
  <2>3. NoRequest \in Admin /\ NoRequest.op = Nil
    BY DEF NoRequest, Admin, Defaults, Settings, Modes
  <2>4. admin' = [admin EXCEPT ![a] = NoRequest] /\ armed' = Armed(op) /\ requests' = requests
    BY <1>2 DEF AdminCommit
  <2>5. admin' \in [Admins -> Admin] /\ \A b \in Admins : admin'[b].op = Nil
    BY <2>3, <2>4 DEF PhraseHolds, ModeTypeOK
  <2> HIDE DEF op, new
  <2>6. ModeTypeOK'
    BY <2>1, <2>2, <2>4, <2>5 DEF PhraseHolds, ModeTypeOK, Armed
  <2>7. ASSUME new.mode = "LIVE" PROVE Armed(op)
    BY <2>1, <2>7, LiveIsWanted DEF Armed, PhraseHolds
  <2> QED
    BY <2>2, <2>4, <2>5, <2>6, <2>7 DEF PhraseHolds
<1>3. ASSUME UNCHANGED modeVars PROVE PhraseHolds'
  BY <1>3 DEF modeVars, PhraseHolds, ModeTypeOK
<1> QED
  BY <1>1, <1>2, <1>3 DEF ModeNext

(***************************************************************************)
(* As long as nobody resumes and no two admins turn the switches at a time *)
(* incidents are given to somebody only after LIVE was asked for by its    *)
(* phrase.  Both are needed: a resumption restores a mode that has been    *)
(* left, as the run of AutomationMode shows for one admin, and of two      *)
(* requests the later writes only what it has found different.             *)
(***************************************************************************)
THEOREM PhraseAlone ==
  ASSUME "resume" \notin Requests, \A a, b \in Admins : a = b
  PROVE  ModeSpec => []ActingNeedsPhrase
<1>1. ModeInit => PhraseHolds
  <2> SUFFICES ASSUME ModeInit PROVE PhraseHolds
    OBVIOUS
  <2>1. Defaults \in Settings /\ NoRequest \in Admin /\ NoRequest.op = Nil
    BY DEF NoRequest, Admin, Defaults, Settings, Modes
  <2>2. /\ settings = Defaults /\ admin = [a \in Admins |-> NoRequest]
        /\ requests = 0 /\ armed = FALSE
    BY DEF ModeInit
  <2>3. admin \in [Admins -> Admin] /\ \A a \in Admins : admin[a] = NoRequest
    BY <2>1, <2>2, Zenon
  <2>4. requests \in 0..MaxRequests
    BY <2>2
  <2>5. ModeTypeOK
    BY <2>1, <2>2, <2>3, <2>4, Zenon DEF ModeTypeOK
  <2> QED
    BY <2>1, <2>2, <2>3, <2>5 DEF PhraseHolds, Defaults
<1>2. PhraseHolds /\ [ModeNext]_modeVars => PhraseHolds'
  BY AloneStep
<1>3. PhraseHolds => ActingNeedsPhrase
  BY DEF PhraseHolds, ModeTypeOK, ActingNeedsPhrase, Acting, Admits, DryRun, Shadow, Settings, Modes
<1> QED
  BY <1>1, <1>2, <1>3, PTL DEF ModeSpec

=============================================================================
