----------------------------- MODULE Workforce -----------------------------
(***************************************************************************)
(* Who gets an incident that belongs to no team by name: the shift of the  *)
(* hour, the eligibility pipeline and the strategies, asked by concurrent  *)
(* dispatches that choose first and commit later; and the successor that a *)
(* shift handoff asks of the same pipeline, by a test of its own.          *)
(*                                                                         *)
(* Nothing in the code gives a new incident skills to require, so none is  *)
(* required.  A scan for handoffs takes one assignment at a time; its row  *)
(* locks are in AssignmentDesk, its sending to ServiceNow in OutboundSync. *)
(***************************************************************************)
EXTENDS Integers, Sequences, FiniteSets, FiniteSetsExt

CONSTANTS
  Engineers,    \* by the order of their codes; all are active users
  Shifts,       \* active shifts
  Starts, Ends, \* of a shift, in hours; an overnight shift ends before it starts
  Hours,        \* of a day
  Days,         \* bound: days of a behaviour
  MaxTicks,     \* bound: changes of the hour or of somebody's presence
  Arrivals,     \* incidents, numbered as they arrive
  Matching,     \* whose team matches the group of an incident
  Dispatchers   \* concurrent webhook requests

ASSUME WorkforceAssumption ==
  /\ Engineers \subseteq Nat \ {0} /\ IsFiniteSet(Engineers)
  /\ IsFiniteSet(Shifts) /\ IsFiniteSet(Dispatchers)
  /\ Hours \in Nat \ {0} /\ Days \in Nat \ {0} /\ MaxTicks \in Nat
  /\ Starts \in [Shifts -> 0..Hours - 1] /\ Ends \in [Shifts -> 0..Hours - 1]
  /\ Arrivals \subseteq Nat /\ IsFiniteSet(Arrivals)
  /\ Matching \in [Arrivals -> SUBSET Engineers]

VARIABLES
  rule,       \* the assignment strategy
  clock,      \* now: <<day, hour>>
  roster,     \* shift_assignments: who is on which shift on which day
  present,    \* is_present, and not OFFLINE
  holder,     \* holder[i]: who has the active assignment of i, if anybody
  stamps,     \* the incidents with an active assignment, by its assigned_at
  choice,     \* choice[h]: what a dispatch has chosen, not yet committed
  relieved,   \* history: those who have finished or handed off an incident
  moves,      \* history: handoffs of i since the clock or a presence changed
  varied,     \* history: a turn was not taken on the same terms as the others
  ticks

workforceVars == <<rule, clock, roster, present, holder, stamps, choice, relieved, moves,
                   varied, ticks>>

Rules == {"ROUND_ROBIN", "LEAST_WORKLOAD", "SKILL_BASED", "SKILL_PLUS_WORKLOAD"}

NoEngineer == 0

(* holder[i] before i arrives, and from its completion on. *)
Unborn == -1
Done == -2

NoChoice == [inc |-> NoEngineer, eng |-> NoEngineer]

Today == clock[1]

-----------------------------------------------------------------------------
(* Shifts and rosters *)

is_within_shift(s, t) ==
  IF Ends[s] < Starts[s] THEN t >= Starts[s] \/ t < Ends[s]
  ELSE Starts[s] <= t /\ t < Ends[s]

(* get_active_shift takes any of them, without an order. *)
ActiveShifts == {s \in Shifts : is_within_shift(s, clock[2])}

OnShift(s, days) == {e \in Engineers : \E d \in days : <<s, e, d>> \in roster}

(* Those of the date, or else whoever ever has that shift. *)
get_shift_employees(s) ==
  IF OnShift(s, {Today}) # {} THEN OnShift(s, {Today}) ELSE OnShift(s, 1..Days)

(* evaluate_candidate_pipeline: presence is no condition. *)
Eligible(i, s) == get_shift_employees(s) \cap Matching[i]

-----------------------------------------------------------------------------
(* The strategies *)

Load(e) == Cardinality({i \in Arrivals : holder[i] = e})

(* Fault: the workload is not looked at. *)
FirstByCode(es) == Min(es)

LeastLoaded(es) ==
  CHOOSE e \in es : \A f \in es : Load(e) < Load(f) \/ (Load(e) = Load(f) /\ e <= f)

(* Fault: the last one has another turn. *)
SameAgain(es) == IF stamps # << >> /\ holder[stamps[Len(stamps)]] \in es
                   THEN holder[stamps[Len(stamps)]] ELSE Min(es)

(* After whoever got the last active assignment, of whatever group; from    *)
(* the start, when he is not among them or the last of them.               *)
RoundRobin(es) ==
  LET last == IF stamps = << >> THEN NoEngineer ELSE holder[stamps[Len(stamps)]]
      after == {e \in es : last \in es /\ e > last}
  IN Min(IF after = {} THEN es ELSE after)

(* Without required skills, SKILL_BASED takes the first code. *)
Pick(es) ==
  CASE rule = "ROUND_ROBIN" -> RoundRobin(es)
    [] rule = "SKILL_BASED" -> Min(es)
    [] OTHER                -> LeastLoaded(es)

-----------------------------------------------------------------------------
(* Dispatches *)

Choosing == {h \in Dispatchers : choice[h] # NoChoice}

Arriving == {i \in Arrivals : holder[i] = Unborn /\ \A h \in Choosing : choice[h].inc # i}

(* No shift or nobody eligible: the incident waits for an admin. *)
Choose(h) ==
  /\ choice[h] = NoChoice
  /\ Arriving # {}
  /\ LET i == Min(Arriving) IN
       IF \E s \in ActiveShifts : Eligible(i, s) # {}
         THEN \E s \in ActiveShifts :
                /\ Eligible(i, s) # {}
                /\ choice' = [choice EXCEPT ![h] = [inc |-> i, eng |-> Pick(Eligible(i, s))]]
                /\ varied' = (varied \/ Choosing # {} \/ Cardinality(ActiveShifts) > 1
                                \/ Eligible(i, s) # Engineers)
                /\ UNCHANGED holder
         ELSE /\ holder' = [holder EXCEPT ![i] = NoEngineer]
              /\ UNCHANGED <<choice, varied>>
  /\ UNCHANGED <<rule, clock, roster, present, stamps, relieved, moves, ticks>>

(* _create_assignment: the choice is not looked at again. *)
Place(h) ==
  /\ choice[h] # NoChoice
  /\ holder' = [holder EXCEPT ![choice[h].inc] = choice[h].eng]
  /\ stamps' = Append(stamps, choice[h].inc)
  /\ choice' = [choice EXCEPT ![h] = NoChoice]
  /\ UNCHANGED <<rule, clock, roster, present, relieved, moves, varied, ticks>>

(* i has one stamp, as it has one active assignment. *)
Without(i) ==
  LET k == CHOOSE n \in DOMAIN stamps : stamps[n] = i
  IN [n \in 1..Len(stamps) - 1 |-> stamps[IF n < k THEN n ELSE n + 1]]

(* complete_incident *)
Complete(i) ==
  /\ holder[i] \in Engineers
  /\ relieved' = relieved \cup {holder[i]}
  /\ holder' = [holder EXCEPT ![i] = Done]
  /\ stamps' = Without(i)
  /\ varied' = TRUE
  /\ UNCHANGED <<rule, clock, roster, present, choice, moves, ticks>>

-----------------------------------------------------------------------------
(* Shift handoff *)

(* Fault: the date is that of another time zone. *)
OffShiftYesterday(e) == \A s \in ActiveShifts : <<s, e, Today - 1>> \notin roster

(* The test asks for a row of today, the pipeline does not. *)
OffShift(e) == \A s \in ActiveShifts : <<s, e, Today>> \notin roster

(* The successor is never the one who has it, and may be absent as well. *)
Handoff(i) ==
  /\ holder[i] \in Engineers
  /\ holder[i] \notin present \/ OffShift(holder[i])
  /\ \E s \in ActiveShifts :
       LET next == Eligible(i, s) \ {holder[i]} IN
       \E e \in next :
         /\ \A f \in next : Load(e) <= Load(f)  \* a tie goes by a random id
         /\ holder' = [holder EXCEPT ![i] = e]
  /\ stamps' = Append(Without(i), i)
  /\ relieved' = relieved \cup {holder[i]}
  /\ moves' = [moves EXCEPT ![i] = @ + 1]
  /\ moves[i] < 2  \* bound
  /\ varied' = TRUE
  /\ UNCHANGED <<rule, clock, roster, present, choice, ticks>>

-----------------------------------------------------------------------------
(* The clock, and who checks in and out *)

Anew ==
  /\ ticks < MaxTicks
  /\ ticks' = ticks + 1
  /\ moves' = [i \in Arrivals |-> 0]
  /\ varied' = TRUE
  /\ UNCHANGED <<rule, roster, holder, stamps, choice, relieved>>

NextHour ==
  /\ clock' = IF clock[2] + 1 < Hours THEN <<clock[1], clock[2] + 1>> ELSE <<clock[1] + 1, 0>>
  /\ clock'[1] <= Days
  /\ UNCHANGED present
  /\ Anew

CheckInOrOut(e) ==
  /\ present' = IF e \in present THEN present \ {e} ELSE present \cup {e}
  /\ UNCHANGED clock
  /\ Anew

-----------------------------------------------------------------------------

(* Rosters that give an engineer one shift a day at most.  A second one may *)
(* be stored: a scan that meets its engineer raises, and hands nothing over. *)
Rosters ==
  {{<<duty[x], x[1], x[2]>> : x \in {y \in DOMAIN duty : duty[y] \in Shifts}} :
     duty \in [Engineers \X (1..Days) -> Shifts \cup {"off"}]}

WorkforceInit ==
  /\ rule \in Rules
  /\ clock \in {1} \X (0..Hours - 1)
  /\ roster \in Rosters
  /\ present = Engineers
  /\ holder = [i \in Arrivals |-> Unborn]
  /\ stamps = << >>
  /\ choice = [h \in Dispatchers |-> NoChoice]
  /\ relieved = {}
  /\ moves = [i \in Arrivals |-> 0]
  /\ varied = FALSE
  /\ ticks = 0

WorkforceNext ==
  \/ \E h \in Dispatchers : Choose(h) \/ Place(h)
  \/ \E i \in Arrivals : Complete(i) \/ Handoff(i)
  \/ NextHour
  \/ \E e \in Engineers : CheckInOrOut(e)

WorkforceSpec == WorkforceInit /\ [][WorkforceNext]_workforceVars

-----------------------------------------------------------------------------
(* Properties *)

WorkforceTypeOK ==
  /\ clock \in (1..Days) \X (0..Hours - 1)
  /\ roster \subseteq Shifts \X Engineers \X (1..Days)
  /\ present \subseteq Engineers
  /\ holder \in [Arrivals -> Engineers \cup {NoEngineer, Unborn, Done}]
  /\ {stamps[k] : k \in DOMAIN stamps} = {i \in Arrivals : holder[i] \in Engineers}
  /\ moves \in [Arrivals -> 0..2]

(* Two engineers whom the pipeline cannot tell apart. *)
Twins(e, f) ==
  /\ \A s \in Shifts, d \in 1..Days : <<s, e, d>> \in roster <=> <<s, f, d>> \in roster
  /\ \A i \in Arrivals : e \in Matching[i] <=> f \in Matching[i]

(* A handoff, which chooses and commits at once, adds one to the overlap.    *)
Overlap == Cardinality(Dispatchers) + (IF relieved = {} THEN 0 ELSE 1)

(***************************************************************************)
(* Under a strategy that looks at the workload, of two engineers with the  *)
(* same shifts and groups who have kept what they got, none gets ahead by  *)
(* more than the number of dispatches that can choose at a time, although  *)
(* they all choose by a workload that may be out of date; a handoff, which *)
(* does not see what they have chosen, adds one more.                      *)
(***************************************************************************)
SpreadBounded ==
  rule \in {"LEAST_WORKLOAD", "SKILL_PLUS_WORKLOAD"} =>
    \A e, f \in Engineers \ relieved : Twins(e, f) => Load(e) - Load(f) <= Overlap

(***************************************************************************)
(* ROUND_ROBIN gives everybody a turn before anybody has another, as long  *)
(* as dispatches do not overlap and all engineers are eligible for all of  *)
(* them; another group's turn, or a completion, starts it all over.        *)
(***************************************************************************)
TurnComesRound ==
  rule = "ROUND_ROBIN" /\ ~ varied =>
    \A j, k \in DOMAIN stamps :
      j < k /\ k < j + Cardinality(Engineers) => holder[stamps[j]] # holder[stamps[k]]

(***************************************************************************)
(* A scan for handoffs settles: with everybody present, whoever has taken  *)
(* over is on shift by the handoff's own test, and keeps the incident as   *)
(* long as nothing changes, unless the pipeline had nobody of today's date *)
(* to offer or more than one shift to choose from.                         *)
(***************************************************************************)
HandoffSettles ==
  /\ present = Engineers
  /\ Cardinality(ActiveShifts) = 1
  /\ \A s \in ActiveShifts : OnShift(s, {Today}) # {}
  => \A i \in Arrivals : moves[i] <= 1

=============================================================================
