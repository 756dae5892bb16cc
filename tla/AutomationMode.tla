-------------------------- MODULE AutomationMode --------------------------
(***************************************************************************)
(* The automation switches in table system_settings and the admin requests *)
(* that turn them.  A request loads the settings without a lock, works on  *)
(* what it has loaded, and its flush writes the settings whose new value   *)
(* differs from the loaded one; two requests may so overtake each other.   *)
(*                                                                         *)
(* A missing row reads as its default, so rows exist from the start.  The  *)
(* readings of one request are taken together.                             *)
(***************************************************************************)
EXTENDS Integers

CONSTANTS
  Admins,       \* concurrent admin requests
  Requests,     \* the endpoints that are in use
  MaxRequests,  \* bound: requests in a behaviour
  Nil           \* no request

Endpoints == {"pause", "resume", "DRY_RUN", "SHADOW", "LIVE", "PAUSED",
              "configure", "enable", "pilot_pause", "rollback"}

ASSUME ModeAssumption ==
  /\ Requests \subseteq Endpoints
  /\ MaxRequests \in Nat
  /\ Nil \notin Endpoints

VARIABLES
  settings,  \* the committed settings
  admin,     \* admin[a]: what the request of a has loaded and will write
  requests,  \* requests begun so far
  armed      \* history: LIVE was asked for by its phrase and not left since

modeVars == <<settings, admin, requests, armed>>

Modes == {"DRY_RUN", "SHADOW", "LIVE", "PAUSED"}

(* previous is previous_automation_mode, dry_run and shadow are the flags   *)
(* dry_run_mode and shadow_mode, pilot is live_pilot_config["enabled"].     *)
Settings == [mode : Modes, previous : Modes, enabled : BOOLEAN,
             dry_run : BOOLEAN, shadow : BOOLEAN, pilot : BOOLEAN]

Admin == [op : Endpoints \cup {Nil}, seen : Settings, new : Settings]

(* AUTOMATION_MODE is SHADOW in the staging environment. *)
Defaults == [mode |-> "SHADOW", previous |-> "SHADOW", enabled |-> TRUE,
             dry_run |-> FALSE, shadow |-> FALSE, pilot |-> FALSE]

NoRequest == [op |-> Nil, seen |-> Defaults, new |-> Defaults]

-----------------------------------------------------------------------------
(* The endpoints: what each makes of the settings s it has loaded *)

PauseAutomation(s) ==
  [s EXCEPT !.enabled = FALSE, !.mode = "PAUSED",
            !.previous = IF s.mode = "PAUSED" THEN @ ELSE s.mode]

ResumeAutomation(s) ==
  [s EXCEPT !.enabled = TRUE,
            !.mode = IF s.previous = "PAUSED" THEN "SHADOW" ELSE s.previous]

SetMode(s, m) ==
  [s EXCEPT !.mode = m, !.enabled = (m # "PAUSED"), !.pilot = @ \/ m = "LIVE",
            !.dry_run = (m = "DRY_RUN"), !.shadow = (m = "SHADOW"),
            !.previous = IF "PAUSED" \in {m, s.mode} THEN @ ELSE s.mode]

UpdatePilotConfig(s, on) == [s EXCEPT !.pilot = on]

EnablePilot(s) == [s EXCEPT !.pilot = TRUE, !.mode = "LIVE", !.enabled = TRUE]

PausePilot(s) == [s EXCEPT !.mode = "PAUSED", !.enabled = FALSE]

RollbackPilot(s, m) == [s EXCEPT !.mode = m, !.enabled = TRUE, !.pilot = FALSE]

Wanted(op, s) ==
  CASE op = "pause"       -> {PauseAutomation(s)}
    [] op = "resume"      -> {ResumeAutomation(s)}
    [] op \in Modes       -> {SetMode(s, op)}
    [] op = "configure"   -> {UpdatePilotConfig(s, on) : on \in BOOLEAN}
    [] op = "enable"      -> {EnablePilot(s)}
    [] op = "pilot_pause" -> {PausePilot(s)}
    [] op = "rollback"    -> {RollbackPilot(s, m) : m \in {"SHADOW", "DRY_RUN"}}
    [] OTHER              -> {}

(* A flush writes the rows whose new value differs from the loaded one. *)
FlushedSettings(stored, seen, new) ==
  [k \in DOMAIN new |-> IF new[k] = seen[k] THEN stored[k] ELSE new[k]]

-----------------------------------------------------------------------------
(* What the settings let the assignment engine do *)

Admits(s) == s.enabled /\ s.mode # "PAUSED"

DryRun(s) == s.mode = "DRY_RUN" \/ s.dry_run

(* Fault: the mode itself is not looked at. *)
ShadowFlagOnly(s) == s.shadow

Shadow(s) == s.mode = "SHADOW" \/ s.shadow

(* An incident that arrives and leaves under s is given to somebody. *)
Acting(s) == Admits(s) /\ ~ DryRun(s) /\ ~ Shadow(s) /\ (s.mode = "LIVE" => s.pilot)

-----------------------------------------------------------------------------

ModeInit ==
  /\ settings = Defaults
  /\ admin = [a \in Admins |-> NoRequest]
  /\ requests = 0
  /\ armed = FALSE

AdminLoad(a) ==
  /\ admin[a].op = Nil
  /\ requests < MaxRequests
  /\ requests' = requests + 1
  /\ \E op \in Requests : \E new \in Wanted(op, settings) :
       admin' = [admin EXCEPT ![a] = [op |-> op, seen |-> settings, new |-> new]]
  /\ UNCHANGED <<settings, armed>>

(* LIVE and enable carry the typed phrase; LIVE ends with another mode or a rollback. *)
Armed(op) ==
  CASE op \in {"LIVE", "enable"}                -> TRUE
    [] op \in {"SHADOW", "DRY_RUN", "rollback"} -> FALSE
    [] OTHER                                    -> armed

AdminCommit(a) ==
  /\ admin[a].op # Nil
  /\ settings' = FlushedSettings(settings, admin[a].seen, admin[a].new)
  /\ armed' = Armed(admin[a].op)
  /\ admin' = [admin EXCEPT ![a] = NoRequest]
  /\ UNCHANGED requests

ModeNext == \E a \in Admins : AdminLoad(a) \/ AdminCommit(a)

ModeSpec == ModeInit /\ [][ModeNext]_modeVars

-----------------------------------------------------------------------------

ModeTypeOK ==
  /\ settings \in Settings
  /\ admin \in [Admins -> Admin]
  /\ requests \in 0..MaxRequests
  /\ armed \in BOOLEAN

(***************************************************************************)
(* Incidents are given to somebody only after LIVE was asked for with its  *)
(* typed phrase, however pauses, resumptions and rollbacks follow upon     *)
(* each other or overtake each other: a resumption restores a mode that    *)
(* may be long gone.                                                       *)
(***************************************************************************)
ActingNeedsPhrase == Acting(settings) => armed

=============================================================================
