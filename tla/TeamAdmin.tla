----------------------------- MODULE TeamAdmin -----------------------------
(***************************************************************************)
(* The administration of one team: hiring, activation and the change of    *)
(* the group leader, who alone talks to the admins in the team's           *)
(* ADMIN_TEAM conversation.  A change of the leader reads without a lock   *)
(* and, when it has to open the conversation or to enlist the new leader,  *)
(* commits half way.                                                       *)
(*                                                                         *)
(* A request that loses a race for a unique row fails as one that dies.    *)
(* The users of a team are never deactivated by the code.                  *)
(***************************************************************************)
EXTENDS Naturals, FiniteSets

CONSTANTS
  Staff,      \* who can be hired
  Size,       \* members of an active team, 10 in the code
  Changes,    \* concurrent requests to change the leader
  NoOne       \* not an employee

ASSUME TeamAssumption == NoOne \notin Staff /\ Size \in Nat

VARIABLES
  members,    \* the employees of the team
  leads,      \* those with is_group_leader
  active,     \* is_active of the team
  opened,     \* the ADMIN_TEAM conversation exists
  channel,    \* the employees that are members of it
  change,     \* change[c]: a change of the leader in progress
  enrolling,  \* leaders that open the chat, between look and commit
  activating, \* validations that have passed and are not yet committed
  activated,  \* history: the team has passed its validation
  overlapped, \* history: two changes were in progress at a time
  disturbed   \* history: so were a change and an enrolment, or a change died

teamVars == <<members, leads, active, opened, channel, change, enrolling, activating,
              activated, overlapped, disturbed>>

Change == [step : {"idle", "loaded", "enlisted"}, target : Staff \cup {NoOne},
           prev : SUBSET Staff]

NoChange == [step |-> "idle", target |-> NoOne, prev |-> {}]

Changing == {c \in Changes : change[c].step # "idle"}

-----------------------------------------------------------------------------
(* Teams and employees *)

(* create_employee: into any team, also an active one that is complete. *)
Hire(e) ==
  /\ e \notin members
  /\ members' = members \cup {e}
  /\ UNCHANGED <<leads, active, opened, channel, change, enrolling, activating, activated,
                 overlapped, disturbed>>

(* Fault: any number of leaders will do. *)
AnyLeaders == Cardinality(members) = Size

(* The coverage by shifts is either way. *)
validate_team_activation ==
  /\ Cardinality(members) = Size
  /\ Cardinality(leads) = 1

(* By its endpoint, or by PATCH when the team is not active. *)
Validate ==
  /\ validate_team_activation
  /\ activating' = TRUE
  /\ UNCHANGED <<members, leads, active, opened, channel, change, enrolling, activated,
                 overlapped, disturbed>>

activate_team ==
  /\ activating
  /\ activating' = FALSE
  /\ active' = TRUE
  /\ activated' = TRUE
  /\ UNCHANGED <<members, leads, opened, channel, change, enrolling, overlapped, disturbed>>

deactivate_team ==
  /\ active
  /\ active' = FALSE
  /\ UNCHANGED <<members, leads, opened, channel, change, enrolling, activating, activated,
                 overlapped, disturbed>>

-----------------------------------------------------------------------------
(* change_group_leader *)

LoadLeaders(c, e) ==
  /\ change[c].step = "idle"
  /\ active
  /\ e \in members
  /\ change' = [change EXCEPT ![c] = [step |-> "loaded", target |-> e, prev |-> leads]]
  /\ overlapped' = (overlapped \/ Changing # {})
  /\ disturbed' = (disturbed \/ enrolling # {} \/ Changing # {})
  /\ UNCHANGED <<members, leads, active, opened, channel, enrolling, activating, activated>>

(* Fault: the former leaders are not reset. *)
LeadersKept(c) == leads \cup {change[c].target}

(* The flush resets whom c has loaded as a leader and sets the new one.     *)
NewLeaders(c) ==
  IF change[c].target \in change[c].prev THEN leads \ (change[c].prev \ {change[c].target})
  ELSE (leads \ change[c].prev) \cup {change[c].target}

(***************************************************************************)
(* The conversation is opened, or its new member committed, and with it    *)
(* the change of the leader; the former leaders are still in it.           *)
(***************************************************************************)
Enlist(c) ==
  /\ change[c].step = "loaded"
  /\ ~ opened \/ change[c].target \notin channel
  /\ opened' = TRUE
  /\ channel' = channel \cup {change[c].target}
  /\ leads' = NewLeaders(c)
  /\ change' = [change EXCEPT ![c].step = "enlisted"]
  /\ UNCHANGED <<members, active, enrolling, activating, activated, overlapped, disturbed>>

(* Fault: the former leaders stay in the conversation. *)
ChannelKept(c) == channel \cup {change[c].target}

NewChannel(c) == (channel \ change[c].prev) \cup {change[c].target}

CommitChange(c) ==
  /\ \/ change[c].step = "enlisted" /\ UNCHANGED leads
     \/ /\ change[c].step = "loaded"
        /\ opened /\ change[c].target \in channel
        /\ leads' = NewLeaders(c)
  /\ channel' = NewChannel(c)
  /\ change' = [change EXCEPT ![c] = NoChange]
  /\ UNCHANGED <<members, active, opened, enrolling, activating, activated, overlapped, disturbed>>

ChangeDies(c) ==
  /\ change[c].step # "idle"
  /\ change' = [change EXCEPT ![c] = NoChange]
  /\ disturbed' = TRUE
  /\ UNCHANGED <<members, leads, active, opened, channel, enrolling, activating, activated,
                 overlapped>>

-----------------------------------------------------------------------------
(* A leader lists his conversations, and is enrolled in the admins' one *)

LookUpLeader(e) ==
  /\ e \in leads \ enrolling
  /\ ~ opened \/ e \notin channel
  /\ enrolling' = enrolling \cup {e}
  /\ disturbed' = (disturbed \/ Changing # {})
  /\ UNCHANGED <<members, leads, active, opened, channel, change, activating, activated, overlapped>>

Enroll(e) ==
  /\ e \in enrolling
  /\ enrolling' = enrolling \ {e}
  /\ opened' = TRUE
  /\ channel' = channel \cup {e}
  /\ UNCHANGED <<members, leads, active, change, activating, activated, overlapped, disturbed>>

-----------------------------------------------------------------------------

(* create_team: active from the start unless the request says otherwise.    *)
TeamInit ==
  /\ members = {}
  /\ leads = {}
  /\ active \in BOOLEAN
  /\ opened = FALSE
  /\ channel = {}
  /\ change = [c \in Changes |-> NoChange]
  /\ enrolling = {}
  /\ activating = FALSE
  /\ activated = FALSE
  /\ overlapped = FALSE
  /\ disturbed = FALSE

TeamNext ==
  \/ Validate \/ activate_team \/ deactivate_team
  \/ \E e \in Staff : Hire(e) \/ LookUpLeader(e) \/ Enroll(e)
  \/ \E c \in Changes : Enlist(c) \/ CommitChange(c) \/ ChangeDies(c) \/ \E e \in Staff : LoadLeaders(c, e)

TeamSpec == TeamInit /\ [][TeamNext]_teamVars

-----------------------------------------------------------------------------
(* Properties *)

TeamTypeOK ==
  /\ members \subseteq Staff
  /\ leads \subseteq Staff
  /\ active \in BOOLEAN
  /\ opened \in BOOLEAN
  /\ channel \subseteq Staff
  /\ change \in [Changes -> Change]
  /\ enrolling \subseteq Staff
  /\ activating \in BOOLEAN
  /\ activated \in BOOLEAN
  /\ overlapped \in BOOLEAN
  /\ disturbed \in BOOLEAN

(***************************************************************************)
(* admin.py:2644, as far as it holds: unless two changes of the leader     *)
(* overlap, a team has at most one leader, although a change commits half  *)
(* way and may die there.                                                  *)
(***************************************************************************)
OneLeader == ~ overlapped => \A d, e \in leads : d = e

(***************************************************************************)
(* A team that has once passed its validation has a leader from then on,   *)
(* even if the leader changed between the validation and its commit.  Two  *)
(* overlapping changes may leave none: each resets the other's leader.     *)
(***************************************************************************)
LeaderAtWork == activated /\ ~ overlapped => leads # {}

(***************************************************************************)
(* Between changes, the conversation with the admins has the leader for    *)
(* its only employee, unless a change died, overlapped with another or     *)
(* with an enrolment that had read the former leader.                      *)
(***************************************************************************)
ChannelFollowsLeader == ~ disturbed /\ Changing = {} => channel \subseteq leads

=============================================================================
