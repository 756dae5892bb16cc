--------------------------- MODULE ServicesProofs ---------------------------
(***************************************************************************)
(* The services together: whichever of them a behaviour is about, each of  *)
(* them behaves as its own specification says, the others' steps being     *)
(* stutters to it, and so it has the properties proved of it alone.        *)
(***************************************************************************)
EXTENDS MCServices, OutboundSyncProofs, ConversationProofs, TeamAdminProofs, FairnessProofs

LEMMA EachStarts ==
  Init => /\ SyncInit /\ ChatInit /\ RealtimeInit /\ TeamInit
          /\ LimiterInit /\ WorkforceInit /\ NoticesInit /\ MediaInit
BY DEF Init

(* A step of the subject is a stutter of the others.                        *)
LEMMA EachSteps ==
  [Next]_services =>
    /\ [SyncNext]_syncVars /\ [ChatNext]_chatVars
    /\ [RealtimeNext]_realtimeVars /\ [TeamNext]_teamVars
    /\ [LimiterNext]_limiterVars /\ [WorkforceNext]_workforceVars
    /\ [NoticesNext]_noticesVars /\ [MediaNext]_mediaVars
BY DEF Next, services

(***************************************************************************)
(* Whatever a service does, every one of the eight keeps to its own        *)
(* specification, the fairness of the socket included.                     *)
(***************************************************************************)
THEOREM ServicesApart ==
  Spec => /\ SyncSpec /\ ChatSpec /\ RealtimeSpec /\ TeamSpec
          /\ LimiterSpec /\ WorkforceSpec /\ NoticesSpec /\ MediaSpec
BY EachStarts, EachSteps, PTL
   DEF Spec, SyncSpec, ChatSpec, RealtimeSpec, TeamSpec, LimiterSpec, WorkforceSpec, NoticesSpec,
       MediaSpec

(* No service ever leaves the types of its tables, requests and counters.   *)
THEOREM ServicesTypeCorrect == Spec => []ServicesTypeOK
<1>1. SyncInv => SyncTypeOK
  BY DEF SyncInv
<1>2. TeamInv => TeamTypeOK
  BY DEF TeamInv
<1>3. /\ SyncTypeOK /\ ChatTypeOK /\ RealtimeTypeOK /\ TeamTypeOK
      /\ WorkforceTypeOK /\ NoticesTypeOK /\ MediaTypeOK
      => ServicesTypeOK
  BY DEF ServicesTypeOK
<1> QED
  BY <1>1, <1>2, <1>3, ServicesApart, SyncInvariant, TeamInvariant, ChatTypeCorrect,
     RealtimeTypeCorrect, WorkforceTypeCorrect, NoticesTypeCorrect, MediaTypeCorrect, PTL

=============================================================================
