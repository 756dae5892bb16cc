----------------------------- MODULE MCServices -----------------------------
(***************************************************************************)
(* The services around the dispatch, for TLC: a behaviour is about one of  *)
(* them, its subject, and the others stay as they are.  They share no      *)
(* variable, so this is each of their specifications in one run.           *)
(***************************************************************************)
EXTENDS OutboundSync, Chat, Realtime, TeamAdmin, RateLimiter, Workforce, Notices, Media

CONSTANTS day, night

VARIABLE subject

MCStarts == [s \in Shifts |-> IF s = day THEN 1 ELSE 2]

MCEnds == [s \in Shifts |-> IF s = day THEN 2 ELSE 1]

MCMatching == [i \in Arrivals |-> Engineers]

services == <<syncVars, chatVars, realtimeVars, teamVars, limiterVars, workforceVars,
              noticesVars, mediaVars, subject>>

(* A service that is not the subject has one initial state.  Of the two      *)
(* strategies that go by workload alone one is taken, and hour 0, in the    *)
(* middle of the night shift, is reached over midnight only.  Engineer 1     *)
(* has the same shift every day, 2 and 3 have each other's.                 *)
Init ==
  /\ subject \in {"sync", "chat", "realtime", "team", "limiter", "workforce", "notices",
                 "media"}
  /\ SyncInit /\ (subject = "sync" \/ env_live)
  /\ ChatInit /\ (subject = "chat" \/ (kind = "TEAM" /\ conversations = {}))
  /\ RealtimeInit
  /\ TeamInit /\ (subject = "team" \/ active)
  /\ LimiterInit
  /\ WorkforceInit
  /\ rule # "SKILL_PLUS_WORKLOAD" /\ clock[2] # 0
  /\ \A s \in Shifts, d \in 1..Days :
       /\ <<s, 1, d>> \in roster <=> <<s, 1, 1>> \in roster
       /\ <<s, 3, d>> \in roster <=> <<s, 2, d>> \in roster
  /\ subject = "workforce" \/ (rule = "ROUND_ROBIN" /\ clock = <<1, 1>> /\ roster = {})
  /\ NoticesInit /\ (subject = "notices" \/ smtp)
  /\ MediaInit

Next ==
  /\ UNCHANGED subject
  /\ \/ /\ subject = "sync" /\ SyncNext
        /\ UNCHANGED <<chatVars, realtimeVars, teamVars, limiterVars,
                       workforceVars, noticesVars, mediaVars>>
     \/ /\ subject = "chat" /\ ChatNext
        /\ UNCHANGED <<syncVars, realtimeVars, teamVars, limiterVars,
                       workforceVars, noticesVars, mediaVars>>
     \/ /\ subject = "realtime" /\ RealtimeNext
        /\ UNCHANGED <<syncVars, chatVars, teamVars, limiterVars,
                       workforceVars, noticesVars, mediaVars>>
     \/ /\ subject = "team" /\ TeamNext
        /\ UNCHANGED <<syncVars, chatVars, realtimeVars, limiterVars,
                       workforceVars, noticesVars, mediaVars>>
     \/ /\ subject = "limiter" /\ LimiterNext
        /\ UNCHANGED <<syncVars, chatVars, realtimeVars, teamVars,
                       workforceVars, noticesVars, mediaVars>>
     \/ /\ subject = "workforce" /\ WorkforceNext
        /\ UNCHANGED <<syncVars, chatVars, realtimeVars, teamVars,
                       limiterVars, noticesVars, mediaVars>>
     \/ /\ subject = "notices" /\ NoticesNext
        /\ UNCHANGED <<syncVars, chatVars, realtimeVars, teamVars,
                       limiterVars, workforceVars, mediaVars>>
     \/ /\ subject = "media" /\ MediaNext
        /\ UNCHANGED <<syncVars, chatVars, realtimeVars, teamVars,
                       limiterVars, workforceVars, noticesVars>>

Spec == Init /\ [][Next]_services /\ RealtimeFairness

ServicesTypeOK ==
  /\ SyncTypeOK /\ ChatTypeOK /\ RealtimeTypeOK /\ TeamTypeOK
  /\ WorkforceTypeOK /\ NoticesTypeOK /\ MediaTypeOK

=============================================================================
