-------------------------- MODULE TeamAdminProofs --------------------------
(***************************************************************************)
(* Proofs about the leader of a team, for any staff, size of a team and    *)
(* number of concurrent changes.  As long as no two changes overlap, a     *)
(* change that is loaded knows all the leaders there are, so that its      *)
(* flush leaves the new leader alone; nothing else takes a leader away.    *)
(***************************************************************************)
EXTENDS TeamAdmin, FiniteSetTheorems, TLAPS

(* A change in progress is about somebody. *)
TargetsNamed == \A c \in Changes : change[c].step # "idle" => change[c].target \in Staff

(* A change in progress is the only one, and what it has loaded is true. *)
ChangeAlone ==
  /\ \A c, d \in Changing : c = d
  /\ \A c \in Changes : change[c].step = "loaded" => change[c].prev = leads

(* A passed validation, committed or not, has seen a leader. *)
LeaderSeen == activating \/ activated => leads # {}

TeamInv ==
  /\ TeamTypeOK /\ TargetsNamed
  /\ ~ overlapped => ChangeAlone /\ LeaderSeen /\ OneLeader

-----------------------------------------------------------------------------

LEMMA InitTeamInv == TeamInit => TeamInv
<1> SUFFICES ASSUME TeamInit PROVE TeamInv
  OBVIOUS
<1>1. NoChange \in Change
  BY DEF Change, NoChange
<1>2. TeamTypeOK
  BY <1>1 DEF TeamInit, TeamTypeOK
<1>3. \A c \in Changes : change[c].step = "idle"
  BY DEF TeamInit, NoChange
<1> QED
  BY <1>2, <1>3 DEF TeamInit, TeamInv, TargetsNamed, ChangeAlone, LeaderSeen, OneLeader, Changing

(* A flush that knows all the leaders leaves the new one alone. *)
LEMMA NewLeaderAlone ==
  ASSUME NEW c \in Changes, change[c].prev = leads
  PROVE  NewLeaders(c) = {change[c].target}
  BY DEF NewLeaders

LEMMA TypeStep == TeamTypeOK /\ TargetsNamed /\ [TeamNext]_teamVars => (TeamTypeOK /\ TargetsNamed)'
<1> SUFFICES ASSUME TeamTypeOK, TargetsNamed, [TeamNext]_teamVars PROVE (TeamTypeOK /\ TargetsNamed)'
  OBVIOUS
<1> USE DEF TeamTypeOK, TargetsNamed
<1>1. CASE Validate
  BY <1>1 DEF Validate
<1>2. CASE activate_team
  BY <1>2 DEF activate_team
<1>3. CASE deactivate_team
  BY <1>3 DEF deactivate_team
<1>4. ASSUME NEW e \in Staff, Hire(e) \/ LookUpLeader(e) \/ Enroll(e)
      PROVE  (TeamTypeOK /\ TargetsNamed)'
  BY <1>4 DEF Hire, LookUpLeader, Enroll
<1>5. ASSUME NEW c \in Changes, Enlist(c) PROVE (TeamTypeOK /\ TargetsNamed)'
  <2>1. change[c].target \in Staff
    BY <1>5 DEF Enlist
  <2>2. leads' \subseteq Staff /\ channel' \subseteq Staff
    BY <1>5, <2>1 DEF Enlist, NewLeaders
  <2>3. change' \in [Changes -> Change] /\ TargetsNamed'
    BY <1>5, <2>1 DEF Enlist, Change
  <2> QED
    BY <1>5, <2>2, <2>3 DEF Enlist
<1>6. ASSUME NEW c \in Changes, CommitChange(c) PROVE (TeamTypeOK /\ TargetsNamed)'
  <2>1. change[c].target \in Staff
    BY <1>6 DEF CommitChange
  <2>2. leads' \subseteq Staff /\ channel' \subseteq Staff
    BY <1>6, <2>1 DEF CommitChange, NewLeaders, NewChannel
  <2>3. change' \in [Changes -> Change] /\ TargetsNamed'
    BY <1>6 DEF CommitChange, Change, NoChange
  <2> QED
    BY <1>6, <2>2, <2>3 DEF CommitChange
<1>7. ASSUME NEW c \in Changes, ChangeDies(c) PROVE (TeamTypeOK /\ TargetsNamed)'
  BY <1>7 DEF ChangeDies, Change, NoChange
<1>8. ASSUME NEW c \in Changes, NEW e \in Staff, LoadLeaders(c, e)
      PROVE  (TeamTypeOK /\ TargetsNamed)'
  BY <1>8 DEF LoadLeaders, Change
<1>9. CASE UNCHANGED teamVars
  BY <1>9 DEF teamVars
<1> QED
  BY <1>1, <1>2, <1>3, <1>4, <1>5, <1>6, <1>7, <1>8, <1>9 DEF TeamNext

(* The steps that leave the leaders and their changes alone. *)
LEMMA LeadersUnchanged ==
  ASSUME TeamInv, ~ overlapped, UNCHANGED <<leads, change>>, LeaderSeen'
  PROVE  (ChangeAlone /\ LeaderSeen /\ OneLeader)'
  BY DEF TeamInv, ChangeAlone, OneLeader, Changing

(***************************************************************************)
(* A change that writes the leaders, half way or at its end, is the only   *)
(* one in progress and no longer loaded afterwards.                        *)
(***************************************************************************)
LEMMA LeaderWritten ==
  ASSUME TeamInv, ~ overlapped, NEW c \in Changes, change[c].step = "loaded",
         leads' = NewLeaders(c), UNCHANGED overlapped,
         change' = [change EXCEPT ![c].step = "enlisted"] \/ change' = [change EXCEPT ![c] = NoChange]
  PROVE  (ChangeAlone /\ LeaderSeen /\ OneLeader)'
<1>1. leads' = {change[c].target}
  BY NewLeaderAlone DEF TeamInv, ChangeAlone
<1>2. Changing' \subseteq Changing /\ \A d \in Changing' : d = c
  BY DEF TeamInv, TeamTypeOK, ChangeAlone, Changing, Change, NoChange
<1>3. \A d \in Changes : change'[d].step # "loaded"
  <2> SUFFICES ASSUME NEW d \in Changes, change'[d].step = "loaded" PROVE FALSE
    OBVIOUS
  <2>1. d \in Changing'
    BY DEF Changing
  <2>2. d = c
    BY <1>2, <2>1
  <2> QED
    BY <2>2 DEF TeamInv, TeamTypeOK, Change, NoChange
<1> QED
  BY <1>1, <1>2, <1>3 DEF ChangeAlone, LeaderSeen, OneLeader

LEMMA LoadStep ==
  ASSUME TeamInv, NEW c \in Changes, NEW e \in Staff, LoadLeaders(c, e), ~ overlapped'
  PROVE  (ChangeAlone /\ LeaderSeen /\ OneLeader)'
<1>1. ~ overlapped /\ Changing = {}
  BY DEF LoadLeaders
<1>2. \A d \in Changes : change'[d] = IF d = c THEN [step |-> "loaded", target |-> e, prev |-> leads]
                                      ELSE change[d]
  BY DEF LoadLeaders, TeamInv, TeamTypeOK
<1>3. Changing' = {c}
  BY <1>1, <1>2 DEF Changing
<1>4. \A d \in Changes : change'[d].step = "loaded" => d = c
  BY <1>1, <1>2 DEF Changing
<1> QED
  BY <1>1, <1>2, <1>3, <1>4 DEF TeamInv, ChangeAlone, LeaderSeen, OneLeader, LoadLeaders

(* A change that ends without another write. *)
LEMMA ChangeOver ==
  ASSUME TeamInv, ~ overlapped, NEW c \in Changes,
         change' = [change EXCEPT ![c] = NoChange], UNCHANGED <<leads, activating, activated>>
  PROVE  (ChangeAlone /\ LeaderSeen /\ OneLeader)'
<1>1. \A d \in Changes : change'[d] = IF d = c THEN NoChange ELSE change[d]
  BY DEF TeamInv, TeamTypeOK
<1>2. Changing' \subseteq Changing
  BY <1>1 DEF Changing, NoChange
<1> QED
  BY <1>1, <1>2 DEF TeamInv, ChangeAlone, LeaderSeen, OneLeader, NoChange

-----------------------------------------------------------------------------

LEMMA TeamStep == TeamInv /\ [TeamNext]_teamVars => TeamInv'
<1> SUFFICES ASSUME TeamInv, [TeamNext]_teamVars, ~ overlapped'
             PROVE  (ChangeAlone /\ LeaderSeen /\ OneLeader)'
  BY TypeStep DEF TeamInv
<1>1. CASE Validate
  <2>1. leads # {}
    BY <1>1, FS_EmptySet DEF Validate, validate_team_activation
  <2> QED
    BY <1>1, <2>1, LeadersUnchanged DEF Validate, LeaderSeen
<1>2. CASE activate_team \/ deactivate_team
  BY <1>2, LeadersUnchanged DEF activate_team, deactivate_team, LeaderSeen, TeamInv
<1>3. ASSUME NEW e \in Staff, Hire(e) \/ LookUpLeader(e) \/ Enroll(e)
      PROVE  (ChangeAlone /\ LeaderSeen /\ OneLeader)'
  BY <1>3, LeadersUnchanged DEF Hire, LookUpLeader, Enroll, LeaderSeen, TeamInv
<1>4. ASSUME NEW c \in Changes, Enlist(c) PROVE (ChangeAlone /\ LeaderSeen /\ OneLeader)'
  BY <1>4, LeaderWritten DEF Enlist
<1>5. ASSUME NEW c \in Changes, CommitChange(c) PROVE (ChangeAlone /\ LeaderSeen /\ OneLeader)'
  <2>1. CASE change[c].step = "enlisted" /\ UNCHANGED leads
    BY <1>5, <2>1, ChangeOver DEF CommitChange
  <2>2. CASE change[c].step = "loaded" /\ leads' = NewLeaders(c)
    BY <1>5, <2>2, LeaderWritten DEF CommitChange
  <2> QED
    BY <1>5, <2>1, <2>2 DEF CommitChange
<1>6. ASSUME NEW c \in Changes, ChangeDies(c) PROVE (ChangeAlone /\ LeaderSeen /\ OneLeader)'
  BY <1>6, ChangeOver DEF ChangeDies
<1>7. ASSUME NEW c \in Changes, NEW e \in Staff, LoadLeaders(c, e)
      PROVE  (ChangeAlone /\ LeaderSeen /\ OneLeader)'
  BY <1>7, LoadStep
<1>8. CASE UNCHANGED teamVars
  BY <1>8, LeadersUnchanged DEF teamVars, LeaderSeen, TeamInv
<1> QED
  BY <1>1, <1>2, <1>3, <1>4, <1>5, <1>6, <1>7, <1>8 DEF TeamNext

(* TeamInv holds in every reachable state. *)
THEOREM TeamInvariant == TeamSpec => []TeamInv
  BY InitTeamInv, TeamStep, PTL DEF TeamSpec

(***************************************************************************)
(* Changes that do not overlap leave at most one leader, also when one     *)
(* dies after it has committed half of its writes.                         *)
(***************************************************************************)
THEOREM SingleLeader == TeamSpec => []OneLeader
<1>1. TeamInv => OneLeader
  BY DEF TeamInv, OneLeader
<1> QED
  BY <1>1, TeamInvariant, PTL

(* A team that was validated keeps a leader, whenever the validation commits. *)
THEOREM LeaderKept == TeamSpec => []LeaderAtWork
<1>1. TeamInv => LeaderAtWork
  BY DEF TeamInv, LeaderSeen, LeaderAtWork
<1> QED
  BY <1>1, TeamInvariant, PTL

(***************************************************************************)
(* An admin who is alone leaves a team with one leader, and one that has   *)
(* passed its validation never without: only overlapping changes do.       *)
(***************************************************************************)
THEOREM AdminAlone ==
  ASSUME \A c, d \in Changes : c = d
  PROVE  TeamSpec => []((\A d, e \in leads : d = e) /\ (activated => leads # {}))
<1>1. TeamInit => ~ overlapped
  BY DEF TeamInit
<1>2. ~ overlapped /\ [TeamNext]_teamVars => ~ overlapped'
  <2> SUFFICES ASSUME ~ overlapped, NEW c \in Changes, NEW e \in Staff, LoadLeaders(c, e)
               PROVE  ~ overlapped'
    BY DEF TeamNext, teamVars, Validate, activate_team, deactivate_team, Hire, LookUpLeader, Enroll,
           Enlist, CommitChange, ChangeDies
  <2>1. Changing = {}
    BY DEF Changing, LoadLeaders
  <2> QED
    BY <2>1 DEF LoadLeaders
<1>3. ~ overlapped /\ OneLeader /\ LeaderAtWork
      => (\A d, e \in leads : d = e) /\ (activated => leads # {})
  BY DEF OneLeader, LeaderAtWork
<1> QED
  BY <1>1, <1>2, <1>3, SingleLeader, LeaderKept, PTL DEF TeamSpec

-----------------------------------------------------------------------------
(* The conversation with the admins *)

(* A change that has written nothing yet finds only leaders in it. *)
LeadersTalk == \A c \in Changes : change[c].step = "loaded" => channel \subseteq leads

(* Half way through, the former leaders are still in it, and lead no more. *)
FormerTalk ==
  \A c \in Changes : change[c].step = "enlisted" =>
    leads = {change[c].target} /\ channel \subseteq change[c].prev \cup {change[c].target}

(* Who is being enrolled leads the team, and no change is in progress. *)
EnrolledLead == enrolling \subseteq leads /\ (enrolling # {} => Changing = {})

ChannelOK ==
  ~ disturbed => ~ overlapped /\ ChannelFollowsLeader /\ LeadersTalk /\ FormerTalk /\ EnrolledLead

ChannelInv == TeamInv /\ ChannelOK

LEMMA InitChannel == TeamInit => ChannelOK
  BY DEF TeamInit, NoChange, ChannelOK, ChannelFollowsLeader, LeadersTalk, FormerTalk, EnrolledLead

(* As long as nothing disturbs it, a change in progress is the only one. *)
LEMMA OneChange ==
  ASSUME ChannelInv, ~ disturbed, NEW c \in Changing
  PROVE  Changing = {c} /\ enrolling = {}
  BY DEF ChannelInv, ChannelOK, EnrolledLead, TeamInv, ChangeAlone

(* A change that ends with its leader alone in the lead and in the chat. *)
LEMMA ChannelEnds ==
  ASSUME ChannelInv, ~ disturbed, NEW c \in Changing, change' = [change EXCEPT ![c] = NoChange],
         UNCHANGED <<enrolling, overlapped>>, channel' \subseteq leads'
  PROVE  ChannelOK'
<1>1. \A d \in Changes : change'[d].step = "idle"
  BY OneChange DEF Changing, ChannelInv, TeamInv, TeamTypeOK, NoChange
<1>2. enrolling' = {}
  BY OneChange
<1> QED
  BY <1>1, <1>2 DEF ChannelInv, ChannelOK, ChannelFollowsLeader, LeadersTalk, FormerTalk, EnrolledLead

(* The leader's conversation is not touched by what leaves these alone. *)
LEMMA ChannelKeptAlone ==
  ASSUME ChannelInv, UNCHANGED <<leads, channel, change, enrolling, overlapped, disturbed>>
  PROVE  ChannelOK'
  BY DEF ChannelInv, ChannelOK, ChannelFollowsLeader, LeadersTalk, FormerTalk, EnrolledLead, Changing

LEMMA ChannelStep == ChannelInv /\ [TeamNext]_teamVars => ChannelInv'
<1> SUFFICES ASSUME ChannelInv, [TeamNext]_teamVars PROVE ChannelOK'
  BY TeamStep DEF ChannelInv
<1>1. CASE Validate \/ activate_team \/ deactivate_team
  BY <1>1, ChannelKeptAlone DEF Validate, activate_team, deactivate_team
<1>2. ASSUME NEW e \in Staff, Hire(e) PROVE ChannelOK'
  BY <1>2, ChannelKeptAlone DEF Hire
<1>3. ASSUME NEW e \in Staff, LookUpLeader(e) PROVE ChannelOK'
  BY <1>3 DEF LookUpLeader, ChannelInv, ChannelOK, ChannelFollowsLeader, LeadersTalk, FormerTalk,
              EnrolledLead, Changing
<1>4. ASSUME NEW e \in Staff, Enroll(e) PROVE ChannelOK'
  <2> SUFFICES ASSUME ~ disturbed PROVE ChannelOK'
    BY <1>4 DEF Enroll, ChannelOK
  <2>1. e \in leads /\ Changing = {}
    BY <1>4 DEF Enroll, ChannelInv, ChannelOK, EnrolledLead
  <2>2. channel' \subseteq leads
    BY <1>4, <2>1 DEF Enroll, ChannelInv, ChannelOK, ChannelFollowsLeader
  <2> QED
    BY <1>4, <2>1, <2>2 DEF Enroll, ChannelInv, ChannelOK, ChannelFollowsLeader, LeadersTalk,
                            FormerTalk, EnrolledLead, Changing
<1>5. ASSUME NEW c \in Changes, Enlist(c) PROVE ChannelOK'
  <2> SUFFICES ASSUME ~ disturbed PROVE ChannelOK'
    BY <1>5 DEF Enlist, ChannelOK
  <2>1. c \in Changing
    BY <1>5 DEF Enlist, Changing
  <2>2. Changing = {c} /\ enrolling = {}
    BY <2>1, OneChange
  <2>3. change[c].prev = leads /\ channel \subseteq leads
    BY <1>5 DEF Enlist, ChannelInv, ChannelOK, LeadersTalk, TeamInv, ChangeAlone
  <2>4. leads' = {change[c].target} /\ channel' \subseteq change[c].prev \cup {change[c].target}
    BY <1>5, <2>3, NewLeaderAlone DEF Enlist
  <2>5. \A d \in Changes : change'[d] = IF d = c THEN [change[c] EXCEPT !.step = "enlisted"]
                                        ELSE change[d]
    BY <1>5 DEF Enlist, ChannelInv, TeamInv, TeamTypeOK
  <2>6. change'[c].step = "enlisted" /\ change'[c].target = change[c].target
          /\ change'[c].prev = change[c].prev
    BY <2>5 DEF ChannelInv, TeamInv, TeamTypeOK, Change
  <2>7. \A d \in Changes : d # c => change'[d].step = "idle"
    BY <2>2, <2>5 DEF Changing
  <2>8. LeadersTalk' /\ FormerTalk'
    BY <2>4, <2>6, <2>7 DEF LeadersTalk, FormerTalk
  <2>9. EnrolledLead' /\ ChannelFollowsLeader'
    BY <1>5, <2>2, <2>6 DEF Enlist, EnrolledLead, ChannelFollowsLeader, Changing
  <2> QED
    BY <1>5, <2>8, <2>9 DEF Enlist, ChannelInv, ChannelOK
<1>6. ASSUME NEW c \in Changes, CommitChange(c) PROVE ChannelOK'
  <2> SUFFICES ASSUME ~ disturbed PROVE ChannelOK'
    BY <1>6 DEF CommitChange, ChannelOK
  <2>1. c \in Changing
    BY <1>6 DEF CommitChange, Changing
  <2>2. channel' = (channel \ change[c].prev) \cup {change[c].target}
    BY <1>6 DEF CommitChange, NewChannel
  <2>3. ASSUME change[c].step = "enlisted", UNCHANGED leads PROVE channel' \subseteq leads'
    BY <2>2, <2>3 DEF ChannelInv, ChannelOK, FormerTalk
  <2>4. ASSUME change[c].step = "loaded", leads' = NewLeaders(c) PROVE channel' \subseteq leads'
    <3>1. change[c].prev = leads /\ channel \subseteq leads
      BY <2>4 DEF ChannelInv, ChannelOK, LeadersTalk, TeamInv, ChangeAlone
    <3> QED
      BY <2>2, <2>4, <3>1, NewLeaderAlone
  <2>5. channel' \subseteq leads'
    BY <1>6, <2>3, <2>4 DEF CommitChange
  <2> QED
    BY <1>6, <2>1, <2>5, ChannelEnds DEF CommitChange
<1>7. ASSUME NEW c \in Changes, ChangeDies(c) PROVE ChannelOK'
  BY <1>7 DEF ChangeDies, ChannelOK
<1>8. ASSUME NEW c \in Changes, NEW e \in Staff, LoadLeaders(c, e) PROVE ChannelOK'
  <2> SUFFICES ASSUME ~ disturbed' PROVE ChannelOK'
    BY DEF ChannelOK
  <2>1. ~ disturbed /\ Changing = {} /\ enrolling = {} /\ enrolling' = {}
    BY <1>8 DEF LoadLeaders
  <2>2. ~ overlapped' /\ channel \subseteq leads /\ UNCHANGED <<channel, leads>>
    BY <1>8, <2>1 DEF LoadLeaders, ChannelInv, ChannelOK, ChannelFollowsLeader
  <2>3. \A d \in Changes : change'[d].step # "enlisted"
    BY <1>8, <2>1 DEF LoadLeaders, Changing, ChannelInv, TeamInv, TeamTypeOK
  <2> QED
    BY <2>1, <2>2, <2>3 DEF ChannelOK, ChannelFollowsLeader, LeadersTalk, FormerTalk, EnrolledLead
<1>9. CASE UNCHANGED teamVars
  BY <1>9, ChannelKeptAlone DEF teamVars
<1> QED
  BY <1>1, <1>2, <1>3, <1>4, <1>5, <1>6, <1>7, <1>8, <1>9 DEF TeamNext

(***************************************************************************)
(* Between changes the leader is the only employee in the conversation     *)
(* with the admins, although a change leaves the former leader in it when  *)
(* it commits half way.                                                    *)
(***************************************************************************)
THEOREM LeaderTalks == TeamSpec => []ChannelFollowsLeader
<1>1. TeamInit => ChannelInv
  BY InitTeamInv, InitChannel DEF ChannelInv
<1>2. ChannelInv => ChannelFollowsLeader
  BY DEF ChannelInv, ChannelOK, ChannelFollowsLeader
<1> QED
  BY <1>1, <1>2, ChannelStep, PTL DEF TeamSpec

=============================================================================
