--------------------------- MODULE FairnessProofs ---------------------------
(***************************************************************************)
(* Proofs about fair shares, for any numbers of those who share: the turns *)
(* that FairRota promises, the requests that RateLimiter lets through, and *)
(* the incidents that the strategies and the handoffs of Workforce give to *)
(* the engineers.  The three share no variable.                            *)
(***************************************************************************)
EXTENDS FairRota, RateLimiter, Workforce, FiniteSetTheorems, TLAPS

(* RateLimiter: the times are in order, and no request of the present       *)
(* window has been forgotten.                                              *)
LimiterInv ==
  /\ now \in Nat /\ passed \in Seq(Nat) /\ IsFiniteSet(history)
  /\ \A i, j \in DOMAIN passed : i <= j => passed[i] <= passed[j] /\ passed[j] <= now
  /\ \A n \in DOMAIN passed : InWindow(passed[n]) => Stamp(n, passed[n]) \in history
  /\ WindowHolds

-----------------------------------------------------------------------------
(* Workforce *)

ChoiceRecord == [inc : Arrivals \cup {NoEngineer}, eng : Engineers \cup {NoEngineer}]

WorkforceTyped ==
  /\ holder \in [Arrivals -> Engineers \cup {NoEngineer, Unborn, Done}]
  /\ clock \in (1..Days) \X (0..Hours - 1)
  /\ choice \in [Dispatchers -> ChoiceRecord]
  /\ moves \in [Arrivals -> Nat]
  /\ relieved \subseteq Engineers /\ varied \in BOOLEAN

(* What is chosen has not arrived yet, and is chosen once.                  *)
ChosenOnce ==
  /\ \A h \in Choosing : choice[h].inc \in Arrivals /\ choice[h].eng \in Engineers
  /\ \A h \in Choosing : holder[choice[h].inc] = Unborn
  /\ \A h, g \in Choosing : choice[h].inc = choice[g].inc => h = g

(* Handoffs: who has taken over since the last change is on the roster.     *)
OnRoster(e) == \A s \in ActiveShifts : <<s, e, Today>> \in roster

Staffed ==
  /\ present = Engineers
  /\ Cardinality(ActiveShifts) = 1
  /\ \A s \in ActiveShifts : OnShift(s, {Today}) # {}

HandedToRoster ==
  \A i \in Arrivals : moves[i] # 0 =>
    /\ holder[i] \in Engineers \cup {Done}
    /\ Staffed => moves[i] = 1 /\ (holder[i] \in Engineers => OnRoster(holder[i]))

(* Workload: what e is ahead of f, with what others have chosen him for.    *)
Pending(e) == Cardinality({h \in Dispatchers : choice[h].eng = e})

ByWorkload == rule \in {"LEAST_WORKLOAD", "SKILL_PLUS_WORKLOAD"}

SpreadKept ==
  ByWorkload =>
    \A e, f \in Engineers \ relieved :
      Twins(e, f) => Load(e) - Load(f) + Pending(e) <= Overlap

(* Round robin: from one turn to a later one, whoever lies between the two  *)
(* engineers in the order of codes, which begins anew, has had a turn; and  *)
(* everybody has, when the two are one.                                    *)
Between(d, e) == {x \in Engineers : IF d <= e THEN d <= x /\ x <= e ELSE d <= x \/ x <= e}

Turns == [k \in DOMAIN stamps |-> holder[stamps[k]]]

Served(t, j, k) == {t[m] : m \in j..k}

InOrder(t, L) ==
  /\ \A j, k \in 1..L : j <= k => Between(t[j], t[k]) \subseteq Served(t, j, k)
  /\ \A j, k \in 1..L : j < k /\ t[j] = t[k] => Engineers \subseteq Served(t, j, k - 1)

InTurn ==
  /\ stamps \in Seq(Arrivals)
  /\ \A k \in DOMAIN stamps : Turns[k] \in Engineers
  /\ \A h, g \in Choosing : h = g
  /\ \A h \in Choosing : choice[h].eng = RoundRobin(Engineers)
  /\ InOrder(Turns, Len(stamps))

WorkforceInv ==
  /\ WorkforceTyped /\ ChosenOnce /\ HandedToRoster /\ SpreadKept
  /\ rule = "ROUND_ROBIN" /\ ~ varied => InTurn

(* The order of the active assignments names each of them once, and no      *)
(* other incident.                                                         *)
Stamped ==
  /\ stamps \in Seq(Arrivals)
  /\ \A k \in DOMAIN stamps : holder[stamps[k]] \in Engineers
  /\ \A j, k \in DOMAIN stamps : stamps[j] = stamps[k] => j = k
  /\ \A i \in Arrivals : holder[i] \in Engineers => \E k \in DOMAIN stamps : stamps[k] = i

StampsInv ==
  /\ Stamped
  /\ roster \subseteq Shifts \X Engineers \X (1..Days)
  /\ present \subseteq Engineers
  /\ moves \in [Arrivals -> 0..2]

-----------------------------------------------------------------------------
(* The abstract rota *)

(* Serving a seat that no other is behind keeps every two seats level. *)
LEMMA TurnBalanced ==
  ASSUME RotaTypeOK, Balanced, NEW t \in Teams, NEW n \in Seats, TakeTurn(t, n)
  PROVE  RotaTypeOK' /\ Balanced'
<1>1. RotaTypeOK'
  BY DEF RotaTypeOK, TakeTurn
<1>2. ASSUME NEW u \in Teams, NEW m \in Seats, NEW k \in Seats
      PROVE  served'[u][m] <= served'[u][k] + 1
  <2>1. served[u][m] \in Nat /\ served[u][k] \in Nat
    BY DEF RotaTypeOK
  <2>2. served[u][m] <= served[u][k] + 1
    BY DEF Balanced
  <2>3. served' = [served EXCEPT ![t][n] = @ + 1]
    BY DEF TakeTurn
  <2>4. CASE u = t /\ m = n
    <3>1. served[u][m] <= served[u][k]
      BY <2>4 DEF TakeTurn
    <3>2. served'[u][m] = served[u][m] + 1 /\ served'[u][k] >= served[u][k]
      BY <2>1, <2>3, <2>4 DEF RotaTypeOK
    <3> QED
      BY <2>1, <3>1, <3>2, <1>1 DEF RotaTypeOK
  <2>5. CASE ~ (u = t /\ m = n)
    <3>1. served'[u][m] = served[u][m] /\ served'[u][k] >= served[u][k]
      BY <2>1, <2>3, <2>5 DEF RotaTypeOK
    <3> QED
      BY <2>1, <2>2, <3>1, <1>1 DEF RotaTypeOK
  <2> QED
    BY <2>4, <2>5
<1> QED
  BY <1>1, <1>2 DEF Balanced

(***************************************************************************)
(* No member of a team ever has had two turns more than another: what the  *)
(* refinement of FairRota by the pointer of the rotation service buys.     *)
(***************************************************************************)
THEOREM RotaBalanced == RotaSpec => [](RotaTypeOK /\ Balanced)
<1>1. RotaInit => RotaTypeOK /\ Balanced
  BY DEF RotaInit, RotaTypeOK, Balanced
<1>2. RotaTypeOK /\ Balanced /\ [RotaNext]_served => RotaTypeOK' /\ Balanced'
  <2> SUFFICES ASSUME RotaTypeOK, Balanced, [RotaNext]_served
               PROVE  RotaTypeOK' /\ Balanced'
    OBVIOUS
  <2>1. CASE RotaNext
    BY <2>1, TurnBalanced DEF RotaNext
  <2>2. CASE UNCHANGED served
    BY <2>2 DEF RotaTypeOK, Balanced
  <2> QED
    BY <2>1, <2>2
<1> QED
  BY <1>1, <1>2, PTL DEF RotaSpec

-----------------------------------------------------------------------------
(* The rate limiter *)

(* The numbers from a to b are stamps of a list: it is at least as long.    *)
LEMMA EnoughStamps ==
  ASSUME NEW S, IsFiniteSet(S), NEW f, NEW a \in Int, NEW b \in Int, a <= b,
         \A n \in a..b : Stamp(n, f[n]) \in S
  PROVE  Cardinality(S) \in Nat /\ b - a + 1 <= Cardinality(S)
<1> DEFINE g == [n \in a..b |-> Stamp(n, f[n])]
<1>1. g \in [a..b -> S]
  OBVIOUS
<1>2. \A m, n \in a..b : g[m] = g[n] => m = n
  BY DEF Stamp
<1>3. g \in Injection(a..b, S)
  BY <1>1, <1>2 DEF Injection, IsInjective
<1>4. Cardinality(a..b) <= Cardinality(S)
  <2> HIDE DEF g
  <2> QED
    BY <1>3, FS_Injection
<1>5. Cardinality(a..b) = b - a + 1
  BY FS_Interval
<1>6. Cardinality(S) \in Nat
  BY FS_CardinalityType
<1> QED
  BY <1>4, <1>5, <1>6

LEMMA LetThroughStep == ASSUME LimiterInv, LetThrough PROVE LimiterInv'
<1> DEFINE L == Len(passed)
<1>1. /\ now \in Nat /\ passed \in Seq(Nat) /\ L \in Nat /\ DOMAIN passed = 1..L
      /\ MaxInWindow \in Nat \ {0} /\ Window \in Nat \ {0}
      /\ \A n \in 1..L : passed[n] \in Nat
  BY LimiterAssumption DEF LimiterInv
<1>2. passed' = Append(passed, now) /\ now' = now
  BY DEF LetThrough
<1>3. /\ passed' \in Seq(Nat) /\ DOMAIN passed' = 1..(L + 1)
      /\ passed'[L + 1] = now /\ \A n \in 1..L : passed'[n] = passed[n]
  BY <1>1, <1>2
<1>4. Recent \subseteq history /\ IsFiniteSet(Recent)
  BY FS_Subset DEF Recent, LimiterInv
<1>5. IsFiniteSet(history')
  BY <1>4, FS_AddElement DEF LetThrough
<1>6. \A i, j \in DOMAIN passed' : i <= j => passed'[i] <= passed'[j] /\ passed'[j] <= now'
  BY <1>1, <1>2, <1>3 DEF LimiterInv
<1>7. \A n \in 1..L : InWindow(passed[n]) => Stamp(n, passed[n]) \in Recent
  BY <1>1 DEF Recent, LimiterInv, Stamp
<1>8. ASSUME NEW n \in DOMAIN passed', now' - passed'[n] < Window
      PROVE  Stamp(n, passed'[n]) \in history'
  <2>1. CASE n = L + 1
    BY <1>3, <2>1 DEF LetThrough
  <2>2. CASE n \in 1..L
    <3>1. InWindow(passed[n])
      BY <1>2, <1>3, <1>8, <2>2 DEF InWindow
    <3> QED
      BY <1>3, <1>7, <2>2, <3>1 DEF LetThrough
  <2> QED
    BY <1>1, <1>3, <2>1, <2>2
<1>9. WindowHolds'
  <2> SUFFICES ASSUME NEW i \in DOMAIN passed', NEW j \in DOMAIN passed', j = i + MaxInWindow,
                      passed'[j] - passed'[i] < Window
               PROVE  FALSE
    BY <1>1, <1>3 DEF WindowHolds
  <2> HIDE DEF L
  <2>1. i \in 1..L /\ j \in 1..(L + 1)
    BY <1>1, <1>3
  <2>2. passed'[i] = passed[i] /\ passed[i] \in Nat
    BY <1>1, <1>3, <2>1
  <2>3. CASE j \in 1..L
    <3>1. passed'[j] = passed[j] /\ passed[j] \in Nat
      BY <1>1, <1>3, <2>3
    <3>2. passed[j] - passed[i] >= Window
      BY <1>1, <2>1, <2>3 DEF LimiterInv, WindowHolds
    <3> QED
      BY <1>1, <2>2, <3>1, <3>2
  <2>4. CASE j = L + 1
    <3>1. i \in 1..L /\ L - i + 1 = MaxInWindow /\ now - passed[i] < Window
      <4>1. passed'[j] = now
        BY <1>3, <2>4
      <4>2. L - i + 1 = MaxInWindow
        BY <1>1, <2>1, <2>4
      <4> QED
        BY <2>1, <2>2, <4>1, <4>2
    <3>2. ASSUME NEW n \in i..L PROVE Stamp(n, passed[n]) \in Recent
      <4>1. n \in 1..L /\ i <= n /\ passed[n] \in Nat /\ passed[i] \in Nat
        BY <1>1, <3>1
      <4>2. passed[i] <= passed[n]
        BY <1>1, <3>1, <4>1 DEF LimiterInv
      <4>3. now \in Nat /\ Window \in Nat
        BY <1>1, LimiterAssumption
      <4>4. InWindow(passed[n])
        BY <3>1, <4>1, <4>2, <4>3 DEF InWindow
      <4> QED
        BY <1>7, <4>1, <4>4
    <3>3. L - i + 1 <= Cardinality(Recent) /\ Cardinality(Recent) \in Nat
      <4>1. i \in Int /\ L \in Int /\ i <= L
        BY <1>1, <3>1
      <4>2. IsFiniteSet(Recent)
        BY <1>4
      <4> QED
        BY <3>2, <4>1, <4>2, EnoughStamps
    <3> QED
      BY <1>1, <3>1, <3>3 DEF LetThrough
  <2> QED
    BY <1>1, <2>1, <2>3, <2>4
<1> QED
  BY <1>1, <1>2, <1>3, <1>5, <1>6, <1>8, <1>9 DEF LimiterInv, InWindow

LEMMA LimiterStep == LimiterInv /\ [LimiterNext]_limiterVars => LimiterInv'
<1> SUFFICES ASSUME LimiterInv, [LimiterNext]_limiterVars PROVE LimiterInv'
  OBVIOUS
<1>1. CASE Tick
  <2>1. now' = now + 1 /\ now \in Nat /\ UNCHANGED <<history, passed>>
    BY <1>1 DEF Tick, LimiterInv
  <2>2. \A i, j \in DOMAIN passed' : i <= j => passed'[i] <= passed'[j] /\ passed'[j] <= now'
    BY <2>1 DEF LimiterInv
  <2>3. ASSUME NEW n \in DOMAIN passed', now' - passed'[n] < Window
        PROVE  Stamp(n, passed'[n]) \in history'
    <3>1. n \in DOMAIN passed /\ passed[n] \in Nat /\ now - passed[n] < Window
      BY <2>1, <2>3, LimiterAssumption DEF LimiterInv
    <3> QED
      BY <2>1, <3>1 DEF LimiterInv, InWindow
  <2> QED
    BY <2>1, <2>2, <2>3 DEF LimiterInv, WindowHolds, InWindow
<1>2. CASE TurnAway \/ UNCHANGED limiterVars
  BY <1>2 DEF TurnAway, limiterVars, LimiterInv, WindowHolds, InWindow
<1>3. CASE ProcessRestarts
  BY <1>3, FS_EmptySet DEF ProcessRestarts, LimiterInv, WindowHolds
<1> QED
  BY <1>1, <1>2, <1>3, LetThroughStep DEF LimiterNext

(***************************************************************************)
(* No window, wherever it begins, lets more than max_requests through: the *)
(* list has forgotten only what has left the window for good.              *)
(***************************************************************************)
THEOREM WindowKept == LimiterSpec => []WindowHolds
<1>1. LimiterInit => LimiterInv
  BY FS_EmptySet DEF LimiterInit, LimiterInv, WindowHolds
<1>2. LimiterInv => WindowHolds
  BY DEF LimiterInv
<1> QED
  BY <1>1, <1>2, LimiterStep, PTL DEF LimiterSpec

-----------------------------------------------------------------------------
(* The least of some numbers; the numbers are ordered as their intervals    *)
(* are by inclusion, which is well-founded.                                *)
LEMMA LeastOf ==
  ASSUME NEW T \in SUBSET Nat, T # {}
  PROVE  Min(T) \in T /\ \A y \in T : Min(T) <= y
<1> DEFINE Below(x) == 0..x
           Family == {Below(x) : x \in T}
<1>1. Family \subseteq FiniteSubsetsOf(Nat)
  <2> SUFFICES ASSUME NEW x \in T PROVE Below(x) \in FiniteSubsetsOf(Nat)
    OBVIOUS
  <2>1. IsFiniteSet(0..x)
    BY FS_Interval
  <2>2. 0..x \in SUBSET Nat
    OBVIOUS
  <2> QED
    BY <2>1, <2>2 DEF FiniteSubsetsOf
<1>2. PICK D \in Family : \A E \in Family : <<E, D>> \notin StrictSubsetOrdering(Nat)
  <2>1. Family # {}
    OBVIOUS
  <2> HIDE DEF Family
  <2> QED
    BY <1>1, <2>1, FS_StrictSubsetOrderingWellFounded, WFMin
<1>3. PICK x \in T : D = 0..x
  OBVIOUS
<1>4. \A y \in T : x <= y
  <2> SUFFICES ASSUME NEW y \in T, y < x PROVE FALSE
    OBVIOUS
  <2>1. 0..y \in Family /\ 0..y \in SUBSET Nat /\ 0..x \in SUBSET Nat
    OBVIOUS
  <2>2. 0..y \subseteq 0..x
    OBVIOUS
  <2>3. x \in 0..x /\ x \notin 0..y
    OBVIOUS
  <2> HIDE DEF Family
  <2> QED
    BY <1>2, <1>3, <2>1, <2>2, <2>3 DEF StrictSubsetOrdering
<1> QED
  BY <1>4 DEF Min

-----------------------------------------------------------------------------
(* The strategies *)

LEMMA LoadType == ASSUME NEW e PROVE Load(e) \in Nat
<1>1. {i \in Arrivals : holder[i] = e} \in SUBSET Arrivals
  OBVIOUS
<1> QED
  BY <1>1, WorkforceAssumption, FS_Subset, FS_CardinalityType DEF Load

LEMMA PendingType ==
  ASSUME NEW e
  PROVE  /\ Pending(e) \in Nat /\ Cardinality(Dispatchers) \in Nat
         /\ Pending(e) <= Cardinality(Dispatchers)
<1>1. {h \in Dispatchers : choice[h].eng = e} \in SUBSET Dispatchers
  OBVIOUS
<1> QED
  BY <1>1, WorkforceAssumption, FS_Subset, FS_CardinalityType DEF Pending

(* Of some engineers there is one with the least work, and the least code.  *)
LEMMA LeastLoadedOf ==
  ASSUME NEW es \in SUBSET Engineers, es # {}
  PROVE  LeastLoaded(es) \in es /\ \A f \in es : Load(LeastLoaded(es)) <= Load(f)
<1> DEFINE loads == {Load(e) : e \in es}
           idle == {e \in es : Load(e) = Min(loads)}
<1>1. \A e \in es : Load(e) \in Nat
  BY LoadType
<1>2. Min(loads) \in loads /\ \A y \in loads : Min(loads) <= y
  <2>1. loads \in SUBSET Nat /\ loads # {}
    BY <1>1
  <2> HIDE DEF loads
  <2> QED
    BY <2>1, LeastOf
<1>3. Min(idle) \in idle /\ \A y \in idle : Min(idle) <= y
  <2>1. idle \in SUBSET Nat /\ idle # {}
    BY <1>2, WorkforceAssumption
  <2> HIDE DEF idle
  <2> QED
    BY <2>1, LeastOf
<1>4. \A f \in es : \/ Load(Min(idle)) < Load(f)
                    \/ Load(Min(idle)) = Load(f) /\ Min(idle) <= f
  <2> SUFFICES ASSUME NEW f \in es
               PROVE  Load(Min(idle)) < Load(f) \/ (Load(Min(idle)) = Load(f) /\ Min(idle) <= f)
    OBVIOUS
  <2>1. Load(Min(idle)) = Min(loads) /\ Min(loads) <= Load(f) /\ Load(f) \in Nat /\ Min(loads) \in Nat
    BY <1>1, <1>2, <1>3
  <2>2. Load(f) = Min(loads) => f \in idle
    OBVIOUS
  <2> HIDE DEF loads, idle
  <2> QED
    BY <1>3, <2>1, <2>2
<1>5. \E e \in es : \A f \in es : Load(e) < Load(f) \/ (Load(e) = Load(f) /\ e <= f)
  <2>1. Min(idle) \in es
    BY <1>3
  <2> HIDE DEF idle
  <2> QED
    BY <1>4, <2>1
<1>6. /\ LeastLoaded(es) \in es
      /\ \A f \in es : \/ Load(LeastLoaded(es)) < Load(f)
                       \/ Load(LeastLoaded(es)) = Load(f) /\ LeastLoaded(es) <= f
  BY <1>5 DEF LeastLoaded
<1> QED
  BY <1>1, <1>6

(* The next one by code, who is the first again after the last.             *)
LEMMA RoundRobinOf ==
  ASSUME NEW es \in SUBSET Engineers, es # {} PROVE RoundRobin(es) \in es
<1> DEFINE last == IF stamps = << >> THEN NoEngineer ELSE holder[stamps[Len(stamps)]]
           after == {e \in es : last \in es /\ e > last}
           from == IF after = {} THEN es ELSE after
<1>1. from \in SUBSET Nat /\ from # {} /\ from \subseteq es
  BY WorkforceAssumption
<1>2. RoundRobin(es) = Min(from)
  BY DEF RoundRobin
<1> HIDE DEF from
<1> QED
  BY <1>1, <1>2, LeastOf

LEMMA PickOf ==
  ASSUME NEW es \in SUBSET Engineers, es # {} PROVE Pick(es) \in es
<1>1. es \in SUBSET Nat
  BY WorkforceAssumption
<1> QED
  BY <1>1, LeastOf, RoundRobinOf, LeastLoadedOf DEF Pick

(* Wherever one of two twins is eligible, the other is.                     *)
LEMMA TwinsEligible ==
  ASSUME NEW i \in Arrivals, NEW s \in Shifts, Today \in 1..Days,
         NEW e \in Engineers, NEW f \in Engineers, Twins(e, f), e \in Eligible(i, s)
  PROVE  f \in Eligible(i, s)
<1>1. /\ e \in OnShift(s, {Today}) <=> f \in OnShift(s, {Today})
      /\ e \in OnShift(s, 1..Days) <=> f \in OnShift(s, 1..Days)
  BY DEF Twins, OnShift
<1>2. e \in Matching[i] <=> f \in Matching[i]
  BY DEF Twins
<1> QED
  BY <1>1, <1>2 DEF Eligible, get_shift_employees

(* As many values as there are arguments, at most.                          *)
LEMMA Repeats ==
  ASSUME NEW S, IsFiniteSet(S), NEW t
  PROVE  IsFiniteSet({t[m] : m \in S}) /\ Cardinality({t[m] : m \in S}) <= Cardinality(S)
<1> DEFINE T == {t[m] : m \in S}
           f == [m \in S |-> t[m]]
<1>1. f \in Surjection(S, T)
  BY DEF Surjection
<1> HIDE DEF T, f
<1>2. IsFiniteSet(T) /\ Cardinality(T) <= Cardinality(S)
  BY <1>1, FS_Surjection
<1> QED
  BY <1>2 DEF T

-----------------------------------------------------------------------------
(* The steps, seen by each part of the invariant *)

LEMMA SameTerms ==
  ASSUME UNCHANGED <<clock, roster, present>>
  PROVE  /\ (Staffed' <=> Staffed)
         /\ \A e \in Engineers : OnRoster(e)' <=> OnRoster(e)
BY DEF Staffed, OnRoster, OnShift, ActiveShifts, Today

(* Nobody is handed anything, and what arrives had not been handed over.    *)
LEMMA HandedKept ==
  ASSUME WorkforceInv, UNCHANGED <<clock, roster, present, moves>>,
         \A i \in Arrivals : holder'[i] = holder[i] \/ holder[i] \in {Unborn} \/ holder'[i] = Done
  PROVE  HandedToRoster'
<1>1. \A i \in Arrivals : holder[i] = Unborn => moves[i] = 0
  BY WorkforceAssumption DEF WorkforceInv, HandedToRoster, Unborn, Done
<1>2. Done \notin Engineers
  BY WorkforceAssumption DEF Done
<1> QED
  BY <1>1, <1>2, SameTerms DEF WorkforceInv, WorkforceTyped, HandedToRoster

(* A dispatch that chooses c under the workload finds nobody with less.     *)
LEMMA SpreadChoose ==
  ASSUME WorkforceInv, NEW h \in Dispatchers, NEW i \in Arrivals, NEW s \in ActiveShifts,
         choice[h] = NoChoice, Eligible(i, s) # {}, Eligible(i, s) \subseteq Engineers,
         choice' = [choice EXCEPT ![h] = [inc |-> i, eng |-> Pick(Eligible(i, s))]],
         UNCHANGED <<rule, roster, holder, relieved>>
  PROVE  SpreadKept'
<1> SUFFICES ASSUME ByWorkload, NEW e \in Engineers \ relieved, NEW f \in Engineers \ relieved,
                    Twins(e, f)
             PROVE  Load(e) - Load(f) + Pending(e)' <= Overlap
  BY DEF SpreadKept, ByWorkload, Twins, Load, Overlap
<1> DEFINE c == Pick(Eligible(i, s))
<1>1. c = LeastLoaded(Eligible(i, s))
  BY DEF ByWorkload, Pick
<1>2. c \in Eligible(i, s) /\ \A g \in Eligible(i, s) : Load(c) <= Load(g)
  BY <1>1, LeastLoadedOf
<1> HIDE DEF c
<1>3. \A g \in Dispatchers : choice'[g].eng = IF g = h THEN c ELSE choice[g].eng
  BY DEF WorkforceInv, WorkforceTyped, c
<1>4. Load(e) \in Nat /\ Load(f) \in Nat /\ Load(c) \in Nat
  BY LoadType
<1>5. Pending(e) \in Nat /\ Cardinality(Dispatchers) \in Nat
  BY PendingType
<1>6. Pending(e)' \in Nat /\ Pending(e)' <= Cardinality(Dispatchers)
  <2>1. {g \in Dispatchers : choice'[g].eng = e} \in SUBSET Dispatchers
    OBVIOUS
  <2> QED
    BY <2>1, WorkforceAssumption, FS_Subset, FS_CardinalityType DEF Pending
<1>7. Overlap \in Nat /\ Cardinality(Dispatchers) <= Overlap
  BY <1>5 DEF Overlap
<1>8. CASE e = c
  <2>1. f \in Eligible(i, s)
    <3>1. s \in Shifts /\ Today \in 1..Days
      BY DEF ActiveShifts, Today, WorkforceInv, WorkforceTyped
    <3> QED
      BY <1>2, <1>8, <3>1, TwinsEligible
  <2>2. Load(e) <= Load(f)
    BY <1>2, <1>8, <2>1
  <2> QED
    BY <1>4, <1>5, <1>6, <1>7, <2>2
<1>9. CASE e # c
  <2>1. {g \in Dispatchers : choice'[g].eng = e} \subseteq {g \in Dispatchers : choice[g].eng = e}
    BY <1>3, <1>9
  <2>2. Pending(e)' <= Pending(e)
    <3>1. IsFiniteSet({g \in Dispatchers : choice[g].eng = e})
      BY WorkforceAssumption, FS_Subset
    <3> QED
      BY <2>1, <3>1, FS_Subset DEF Pending
  <2>3. Load(e) - Load(f) + Pending(e) <= Overlap
    BY DEF WorkforceInv, SpreadKept
  <2> QED
    BY <1>4, <1>5, <1>6, <1>7, <2>2, <2>3
<1> QED
  BY <1>8, <1>9

(* Incidents that nobody held are given to c, as he was chosen.             *)
LEMMA SpreadPlace ==
  ASSUME WorkforceInv, NEW h \in Dispatchers, h \in Choosing,
         holder' = [holder EXCEPT ![choice[h].inc] = choice[h].eng],
         choice' = [choice EXCEPT ![h] = NoChoice],
         UNCHANGED <<rule, roster, relieved>>
  PROVE  SpreadKept'
<1> SUFFICES ASSUME ByWorkload, NEW e \in Engineers \ relieved, NEW f \in Engineers \ relieved,
                    Twins(e, f)
             PROVE  Load(e)' - Load(f)' + Pending(e)' <= Overlap
  BY DEF SpreadKept, ByWorkload, Twins, Overlap
<1>1. PICK i \in Arrivals, c \in Engineers : i = choice[h].inc /\ c = choice[h].eng
  BY DEF WorkforceInv, ChosenOnce
<1>2. holder[i] = Unborn /\ Unborn \notin Engineers /\ NoEngineer \notin Engineers
  BY <1>1, WorkforceAssumption DEF WorkforceInv, ChosenOnce, Unborn, NoEngineer
<1>3. \A j \in Arrivals : holder'[j] = IF j = i THEN c ELSE holder[j]
  BY <1>1 DEF WorkforceInv, WorkforceTyped
<1>4. \A g \in Dispatchers : choice'[g].eng = IF g = h THEN NoEngineer ELSE choice[g].eng
  BY DEF WorkforceInv, WorkforceTyped, NoChoice
<1>5. ASSUME NEW x \in Engineers
      PROVE  Load(x)' = IF x = c THEN Load(x) + 1 ELSE Load(x)
  <2> DEFINE held == {j \in Arrivals : holder[j] = x}
  <2>1. IsFiniteSet(held) /\ i \notin held
    BY <1>2, WorkforceAssumption, FS_Subset
  <2>2. {j \in Arrivals : holder'[j] = x} = IF x = c THEN held \cup {i} ELSE held
    BY <1>2, <1>3
  <2>3. Cardinality(held \cup {i}) = Cardinality(held) + 1
    <3> HIDE DEF held
    <3> QED
      BY <2>1, FS_AddElement
  <2> QED
    BY <2>2, <2>3 DEF Load
<1>6. ASSUME NEW x \in Engineers
      PROVE  Pending(x)' = IF x = c THEN Pending(x) - 1 ELSE Pending(x)
  <2> DEFINE chosen == {g \in Dispatchers : choice[g].eng = x}
  <2>1. IsFiniteSet(chosen) /\ (x = c => h \in chosen)
    BY <1>1, WorkforceAssumption, FS_Subset
  <2>2. {g \in Dispatchers : choice'[g].eng = x} = IF x = c THEN chosen \ {h} ELSE chosen
    BY <1>1, <1>2, <1>4
  <2>3. x = c => Cardinality(chosen \ {h}) = Cardinality(chosen) - 1
    <3> HIDE DEF chosen
    <3> QED
      BY <2>1, FS_RemoveElement
  <2> QED
    BY <2>2, <2>3 DEF Pending
<1>7. /\ Load(e) \in Nat /\ Load(f) \in Nat /\ Pending(e) \in Nat
      /\ Cardinality(Dispatchers) \in Nat
  BY LoadType, PendingType
<1>8. Overlap \in Nat
  BY <1>7 DEF Overlap
<1>9. Load(e) - Load(f) + Pending(e) <= Overlap
  BY DEF WorkforceInv, SpreadKept
<1>10. /\ Load(e)' = IF e = c THEN Load(e) + 1 ELSE Load(e)
       /\ Load(f)' = IF f = c THEN Load(f) + 1 ELSE Load(f)
       /\ Pending(e)' = IF e = c THEN Pending(e) - 1 ELSE Pending(e)
  BY <1>5, <1>6
<1> QED
  BY <1>7, <1>8, <1>9, <1>10

(* Work that ends, or is handed to c, whom nobody else was less busy than.  *)
LEMMA SpreadRelieve ==
  ASSUME WorkforceInv, NEW i \in Arrivals, holder[i] \in Engineers, NEW c \in Engineers \cup {Done},
         holder' = [holder EXCEPT ![i] = c],
         c # holder[i],
         relieved' = relieved \cup {holder[i]},
         \A f \in Engineers \ relieved' : c \in Engineers /\ Twins(c, f) => Load(c) <= Load(f),
         UNCHANGED <<rule, roster, choice>>
  PROVE  SpreadKept'
<1> SUFFICES ASSUME ByWorkload, NEW e \in Engineers \ relieved', NEW f \in Engineers \ relieved',
                    Twins(e, f)
             PROVE  Load(e)' - Load(f)' + Pending(e) <= Cardinality(Dispatchers) + 1
  <2>1. relieved' # {}
    OBVIOUS
  <2> QED
    BY <2>1 DEF SpreadKept, ByWorkload, Twins, Overlap, Pending
<1>1. Done \notin Engineers
  BY WorkforceAssumption DEF Done
<1>2. \A j \in Arrivals : holder'[j] = IF j = i THEN c ELSE holder[j]
  BY DEF WorkforceInv, WorkforceTyped
<1>3. ASSUME NEW x \in Engineers, x # holder[i]
      PROVE  Load(x)' = IF x = c THEN Load(x) + 1 ELSE Load(x)
  <2> DEFINE held == {j \in Arrivals : holder[j] = x}
  <2>1. IsFiniteSet(held) /\ i \notin held
    BY <1>3, WorkforceAssumption, FS_Subset
  <2>2. {j \in Arrivals : holder'[j] = x} = IF x = c THEN held \cup {i} ELSE held
    BY <1>2, <1>3
  <2>3. Cardinality(held \cup {i}) = Cardinality(held) + 1
    <3> HIDE DEF held
    <3> QED
      BY <2>1, FS_AddElement
  <2> QED
    BY <2>2, <2>3 DEF Load
<1>4. /\ Load(e) \in Nat /\ Load(f) \in Nat /\ Pending(e) \in Nat
      /\ Cardinality(Dispatchers) \in Nat /\ Pending(e) <= Cardinality(Dispatchers)
  BY LoadType, PendingType
<1>5. Overlap \in Nat /\ Overlap <= Cardinality(Dispatchers) + 1
  BY <1>4 DEF Overlap
<1>6. Load(e) - Load(f) + Pending(e) <= Overlap
  BY DEF WorkforceInv, SpreadKept
<1>7. /\ Load(e)' = IF e = c THEN Load(e) + 1 ELSE Load(e)
      /\ Load(f)' = IF f = c THEN Load(f) + 1 ELSE Load(f)
  BY <1>3
<1>8. e = c => Load(e) <= Load(f)
  OBVIOUS
<1> QED
  BY <1>4, <1>5, <1>6, <1>7, <1>8

LEMMA SpreadSame ==
  ASSUME WorkforceInv, UNCHANGED <<rule, roster, relieved, choice>>,
         \A i \in Arrivals : holder'[i] = holder[i] \/ {holder[i], holder'[i]} \cap Engineers = {}
  PROVE  SpreadKept'
<1>1. \A e \in Engineers : Load(e)' = Load(e)
  <2> SUFFICES ASSUME NEW e \in Engineers PROVE Load(e)' = Load(e)
    OBVIOUS
  <2>1. {i \in Arrivals : holder'[i] = e} = {i \in Arrivals : holder[i] = e}
    OBVIOUS
  <2> QED
    BY <2>1 DEF Load
<1> QED
  BY <1>1 DEF WorkforceInv, SpreadKept, ByWorkload, Twins, Overlap, Pending

-----------------------------------------------------------------------------
(* Round robin *)

(* Whom the next turn is: nobody lies between the last one and him.         *)
LEMMA NextTurn ==
  ASSUME InTurn, Engineers # {}
  PROVE  /\ RoundRobin(Engineers) \in Engineers
         /\ stamps # << >> =>
              LET d == Turns[Len(stamps)] c == RoundRobin(Engineers)
              IN  \/ c > d /\ \A x \in Engineers : x <= d \/ c <= x
                  \/ \A x \in Engineers : c <= x /\ x <= d
<1>1. RoundRobin(Engineers) \in Engineers
  BY RoundRobinOf
<1>2. ASSUME stamps # << >>
      PROVE  LET d == Turns[Len(stamps)] c == RoundRobin(Engineers)
             IN  \/ c > d /\ \A x \in Engineers : x <= d \/ c <= x
                 \/ \A x \in Engineers : c <= x /\ x <= d
  <2>1. Len(stamps) \in DOMAIN stamps
    BY <1>2 DEF InTurn
  <2>2. PICK d \in Engineers : d = Turns[Len(stamps)]
    BY <2>1 DEF InTurn
  <2> DEFINE after == {e \in Engineers : e > d}
             from == IF after = {} THEN Engineers ELSE after
  <2>3. holder[stamps[Len(stamps)]] = d
    BY <2>1, <2>2 DEF Turns
  <2>4. RoundRobin(Engineers) = Min(from)
    BY <1>2, <2>3 DEF RoundRobin
  <2>5. from \in SUBSET Nat /\ from # {} /\ \A x \in Engineers : x \in Nat
    BY WorkforceAssumption
  <2>6. Min(from) \in from /\ \A y \in from : Min(from) <= y
    <3> HIDE DEF from
    <3> QED
      BY <2>5, LeastOf
  <2>7. PICK c \in from : c = Min(from) /\ \A y \in from : c <= y
    <3> HIDE DEF from
    <3> QED
      BY <2>6
  <2>8. CASE after = {}
    <3>1. from = Engineers
      BY <2>8
    <3>2. \A x \in Engineers : ~ x > d
      BY <2>8
    <3> HIDE DEF from, after
    <3>3. \A x \in Engineers : c <= x /\ x <= d
      BY <2>2, <2>5, <2>7, <3>1, <3>2
    <3> QED
      BY <2>2, <2>4, <2>7, <3>3
  <2>9. CASE after # {}
    <3>1. c > d /\ \A x \in Engineers : x <= d \/ c <= x
      BY <2>5, <2>7, <2>9
    <3> QED
      BY <2>2, <2>4, <2>7, <3>1
  <2> QED
    BY <2>8, <2>9
<1> QED
  BY <1>1, <1>2

(* One more turn, for the next one, keeps the turns in order.               *)
LEMMA OneMoreTurn ==
  ASSUME NEW L \in Nat, NEW t, NEW u, NEW c \in Engineers,
         \A k \in 1..L : t[k] \in Engineers /\ u[k] = t[k],
         u[L + 1] = c,
         InOrder(t, L),
         L # 0 => \/ c > t[L] /\ \A x \in Engineers : x <= t[L] \/ c <= x
                  \/ \A x \in Engineers : c <= x /\ x <= t[L]
  PROVE  InOrder(u, L + 1)
<1>1. \A x \in Engineers : x \in Nat
  BY WorkforceAssumption
<1>2. ASSUME NEW j \in 1..L, NEW k \in 1..L PROVE Served(u, j, k) = Served(t, j, k)
  <2>1. \A m \in j..k : u[m] = t[m]
    OBVIOUS
  <2> QED
    BY <2>1 DEF Served
<1>3. ASSUME NEW j \in 1..L PROVE Served(u, j, L + 1) = Served(t, j, L) \cup {c}
  <2>1. j..(L + 1) = (j..L) \cup {L + 1}
    OBVIOUS
  <2>2. \A m \in j..L : u[m] = t[m]
    OBVIOUS
  <2> QED
    BY <2>1, <2>2 DEF Served
<1>4. c \in Served(u, L + 1, L + 1)
  BY DEF Served
<1>5. ASSUME NEW j \in 1..(L + 1), NEW k \in 1..(L + 1), j <= k
      PROVE  Between(u[j], u[k]) \subseteq Served(u, j, k)
  <2>1. CASE k \in 1..L
    BY <1>2, <1>5, <2>1 DEF InOrder
  <2>2. CASE k = L + 1 /\ j = L + 1
    BY <1>1, <1>4, <2>2 DEF Between
  <2>3. CASE k = L + 1 /\ j \in 1..L
    <3>1. Between(t[j], t[L]) \subseteq Served(t, j, L)
      BY <2>3 DEF InOrder
    <3>2. t[L] \in Nat /\ t[j] \in Nat /\ c \in Nat
      BY <1>1, <2>3
    <3>3. L # 0
      BY <2>3
    <3>4. Between(t[j], c) \subseteq Between(t[j], t[L]) \cup {c}
      <4> SUFFICES ASSUME NEW x \in Between(t[j], c), x # c PROVE x \in Between(t[j], t[L])
        OBVIOUS
      <4>1. /\ x \in Engineers /\ x \in Nat
            /\ IF t[j] <= c THEN t[j] <= x /\ x <= c ELSE t[j] <= x \/ x <= c
        BY <1>1 DEF Between
      <4>2. \/ c > t[L] /\ (x <= t[L] \/ c <= x) /\ (t[j] <= t[L] \/ c <= t[j])
            \/ c <= x /\ x <= t[L] /\ c <= t[j] /\ t[j] <= t[L]
        BY <2>3, <3>3, <4>1
      <4>3. IF t[j] <= t[L] THEN t[j] <= x /\ x <= t[L] ELSE t[j] <= x \/ x <= t[L]
        BY <3>2, <4>1, <4>2
      <4> QED
        BY <4>1, <4>3 DEF Between
    <3> QED
      BY <1>3, <2>3, <3>1, <3>4
  <2> QED
    BY <1>5, <2>1, <2>2, <2>3
<1>6. ASSUME NEW j \in 1..(L + 1), NEW k \in 1..(L + 1), j < k, u[j] = u[k]
      PROVE  Engineers \subseteq Served(u, j, k - 1)
  <2>1. CASE k \in 1..L
    BY <1>2, <1>6, <2>1 DEF InOrder
  <2>2. CASE k = L + 1
    <3>1. j \in 1..L /\ L # 0 /\ L \in 1..L
      BY <1>6, <2>2
    <3>2. t[j] = c /\ t[L] \in Nat /\ c \in Nat
      BY <1>1, <1>6, <2>2, <3>1
    <3>3. Between(c, t[L]) \subseteq Served(t, j, L)
      BY <3>1, <3>2 DEF InOrder
    <3>4. Engineers \subseteq Between(c, t[L])
      BY <1>1, <3>1, <3>2 DEF Between
    <3>5. Served(u, j, k - 1) = Served(t, j, L)
      <4>1. k - 1 = L
        BY <2>2
      <4> QED
        BY <1>2, <3>1, <4>1
    <3> QED
      BY <3>3, <3>4, <3>5
  <2> QED
    BY <2>1, <2>2
<1> QED
  BY <1>5, <1>6 DEF InOrder

(* A turn of one dispatch, chosen while no other was.                       *)
LEMMA TurnPlaced ==
  ASSUME WorkforceInv, InTurn, NEW h \in Choosing, NEW i \in Arrivals, NEW c \in Engineers,
         i = choice[h].inc, c = choice[h].eng,
         holder' = [holder EXCEPT ![i] = c],
         stamps' = Append(stamps, i),
         choice' = [choice EXCEPT ![h] = NoChoice]
  PROVE  InTurn'
<1> DEFINE L == Len(stamps)
<1>1. /\ stamps \in Seq(Arrivals) /\ L \in Nat /\ DOMAIN stamps = 1..L
      /\ stamps' \in Seq(Arrivals) /\ DOMAIN stamps' = 1..(L + 1) /\ Len(stamps') = L + 1
      /\ stamps'[L + 1] = i /\ \A k \in 1..L : stamps'[k] = stamps[k]
  BY DEF InTurn
<1>2. holder[i] = Unborn /\ Unborn \notin Engineers
  BY WorkforceAssumption DEF WorkforceInv, ChosenOnce, Unborn
<1>3. \A j \in Arrivals : holder'[j] = IF j = i THEN c ELSE holder[j]
  BY DEF WorkforceInv, WorkforceTyped
<1>4. \A k \in 1..L : Turns[k] \in Engineers /\ Turns[k] = holder[stamps[k]] /\ stamps[k] \in Arrivals
  BY <1>1 DEF InTurn, Turns
<1>5. \A k \in 1..L : Turns'[k] = Turns[k]
  <2> SUFFICES ASSUME NEW k \in 1..L PROVE Turns'[k] = Turns[k]
    OBVIOUS
  <2>1. Turns'[k] = holder'[stamps'[k]]
    BY <1>1 DEF Turns
  <2> QED
    BY <1>1, <1>2, <1>3, <1>4, <2>1
<1>6. Turns'[L + 1] = c
  BY <1>1, <1>3 DEF Turns
<1>7. c = RoundRobin(Engineers)
  BY DEF InTurn
<1>8. L # 0 => \/ c > Turns[L] /\ \A x \in Engineers : x <= Turns[L] \/ c <= x
               \/ \A x \in Engineers : c <= x /\ x <= Turns[L]
  BY <1>1, <1>7, NextTurn
<1>9. InOrder(Turns, L)
  BY DEF InTurn
<1>10. InOrder(Turns', L + 1)
  <2> HIDE DEF L
  <2> QED
    BY <1>1, <1>4, <1>5, <1>6, <1>8, <1>9, OneMoreTurn
<1>11. InOrder(Turns, Len(stamps))'
  BY <1>1, <1>10 DEF InOrder, Between, Served
<1>12. \A k \in DOMAIN stamps' : Turns'[k] \in Engineers
  BY <1>1, <1>4, <1>5, <1>6
<1>13. Choosing' = {}
  BY DEF Choosing, WorkforceInv, WorkforceTyped, InTurn
<1> QED
  BY <1>1, <1>11, <1>12, <1>13 DEF InTurn

(* Nothing of the turns changes; whoever chooses now is alone.              *)
LEMMA TurnsKept ==
  ASSUME WorkforceInv, InTurn, UNCHANGED stamps,
         \A i \in Arrivals : holder'[i] = holder[i] \/ holder[i] \notin Engineers
  PROVE  /\ RoundRobin(Engineers)' = RoundRobin(Engineers)
         /\ \A k \in DOMAIN stamps : Turns[k] \in Engineers /\ Turns'[k] = Turns[k]
         /\ InOrder(Turns, Len(stamps))'
<1>1. \A k \in DOMAIN stamps : holder'[stamps[k]] = holder[stamps[k]] /\ Turns[k] \in Engineers
  BY DEF InTurn, Turns
<1>2. Turns' = Turns
  BY <1>1 DEF Turns
<1>3. stamps # << >> => Len(stamps) \in DOMAIN stamps
  BY DEF InTurn
<1>4. RoundRobin(Engineers)' = RoundRobin(Engineers)
  BY <1>1, <1>3 DEF RoundRobin
<1>5. InOrder(Turns, Len(stamps))'
  BY <1>2 DEF InTurn, InOrder, Between, Served
<1> QED
  BY <1>1, <1>2, <1>4, <1>5

-----------------------------------------------------------------------------
(* The invariant *)

LEMMA WorkforceStarts == WorkforceInit => WorkforceInv
<1> SUFFICES ASSUME WorkforceInit PROVE WorkforceInv
  OBVIOUS
<1>1. NoEngineer \notin Engineers /\ Unborn \notin Engineers
  BY WorkforceAssumption DEF NoEngineer, Unborn
<1>2. Choosing = {}
  BY DEF WorkforceInit, Choosing
<1>3. WorkforceTyped
  <2>1. clock \in (1..Days) \X (0..Hours - 1)
    <3>1. 1 \in 1..Days /\ clock \in {1} \X (0..Hours - 1)
      BY WorkforceAssumption DEF WorkforceInit
    <3> QED
      BY <3>1
  <2>2. choice \in [Dispatchers -> ChoiceRecord]
    <3>1. NoChoice \in ChoiceRecord
      BY DEF NoChoice, ChoiceRecord
    <3> QED
      BY <3>1 DEF WorkforceInit
  <2> QED
    BY <2>1, <2>2 DEF WorkforceInit, WorkforceTyped
<1>4. ChosenOnce /\ HandedToRoster
  BY <1>2 DEF WorkforceInit, ChosenOnce, HandedToRoster
<1>5. SpreadKept
  <2> SUFFICES ASSUME NEW e \in Engineers, NEW f \in Engineers
               PROVE  Load(e) - Load(f) + Pending(e) <= Overlap
    BY DEF SpreadKept
  <2>1. \A x \in Engineers : {j \in Arrivals : holder[j] = x} = {}
    BY <1>1 DEF WorkforceInit
  <2>2. Load(e) = 0 /\ Load(f) = 0
    BY <2>1, FS_EmptySet DEF Load
  <2>3. {h \in Dispatchers : choice[h].eng = e} = {}
    BY <1>1 DEF WorkforceInit, NoChoice
  <2>4. Pending(e) = 0
    BY <2>3, FS_EmptySet DEF Pending
  <2>5. Overlap \in Nat
    BY PendingType DEF Overlap
  <2> QED
    BY <2>2, <2>4, <2>5
<1>6. InTurn
  BY <1>2 DEF WorkforceInit, InTurn, InOrder
<1> QED
  BY <1>3, <1>4, <1>5, <1>6 DEF WorkforceInv

(* A dispatch chooses: nobody else has chosen the incident, and it is the   *)
(* next one's turn.                                                        *)
LEMMA ChooseStep ==
  ASSUME WorkforceInv, NEW h \in Dispatchers, Choose(h) PROVE WorkforceInv'
<1>1. PICK i \in Arriving : i = Min(Arriving)
  <2>1. Arriving \in SUBSET Nat /\ Arriving # {}
    BY WorkforceAssumption DEF Choose, Arriving
  <2> QED
    BY <2>1, LeastOf
<1>2. i \in Arrivals /\ holder[i] = Unborn /\ \A g \in Choosing : choice[g].inc # i
  BY DEF Arriving
<1>3. UNCHANGED <<rule, clock, roster, present, stamps, relieved, moves>> /\ choice[h] = NoChoice
  BY DEF Choose
<1>4. Unborn \notin Engineers /\ NoEngineer \notin Engineers
  BY WorkforceAssumption DEF Unborn, NoEngineer
<1>5. ASSUME NEW s \in ActiveShifts, Eligible(i, s) # {}, UNCHANGED holder,
             choice' = [choice EXCEPT ![h] = [inc |-> i, eng |-> Pick(Eligible(i, s))]],
             varied' = (varied \/ Choosing # {} \/ Cardinality(ActiveShifts) > 1
                          \/ Eligible(i, s) # Engineers)
      PROVE  WorkforceInv'
  <2>1. Eligible(i, s) \in SUBSET Engineers
    BY DEF Eligible, get_shift_employees, OnShift
  <2>2. PICK c \in Engineers : c = Pick(Eligible(i, s))
    BY <1>5, <2>1, PickOf
  <2>3. \A g \in Dispatchers : choice'[g] = IF g = h THEN [inc |-> i, eng |-> c] ELSE choice[g]
    BY <1>5, <2>2 DEF WorkforceInv, WorkforceTyped
  <2>4. choice' \in [Dispatchers -> ChoiceRecord]
    <3>1. [inc |-> i, eng |-> c] \in ChoiceRecord
      BY <1>2 DEF ChoiceRecord
    <3> QED
      BY <1>5, <2>2, <3>1 DEF WorkforceInv, WorkforceTyped
  <2>5. WorkforceTyped'
    BY <1>3, <1>5, <2>4 DEF WorkforceInv, WorkforceTyped
  <2>6. Choosing' = Choosing \cup {h} /\ h \notin Choosing
    BY <1>3, <1>4, <2>3 DEF Choosing, NoChoice
  <2>7. ChosenOnce'
    BY <1>2, <1>5, <2>3, <2>6 DEF WorkforceInv, ChosenOnce
  <2>8. HandedToRoster'
    BY <1>3, <1>5, HandedKept
  <2>9. SpreadKept'
    BY <1>2, <1>3, <1>5, <2>1, SpreadChoose
  <2>10. ASSUME rule' = "ROUND_ROBIN", ~ varied' PROVE InTurn'
    <3>1. InTurn /\ Choosing = {} /\ Eligible(i, s) = Engineers
      BY <1>3, <1>5, <2>10 DEF WorkforceInv, WorkforceTyped
    <3>2. c = RoundRobin(Engineers)
      BY <1>3, <2>2, <2>10, <3>1 DEF Pick
    <3>3. /\ RoundRobin(Engineers)' = RoundRobin(Engineers)
          /\ \A k \in DOMAIN stamps : Turns[k] \in Engineers /\ Turns'[k] = Turns[k]
          /\ InOrder(Turns, Len(stamps))'
      BY <1>3, <1>5, <3>1, TurnsKept
    <3>4. Choosing' = {h} /\ choice'[h].eng = RoundRobin(Engineers)'
      BY <2>3, <2>6, <3>1, <3>2, <3>3
    <3> QED
      BY <1>3, <3>1, <3>3, <3>4 DEF InTurn
  <2> QED
    BY <2>5, <2>7, <2>8, <2>9, <2>10 DEF WorkforceInv
<1>6. ASSUME holder' = [holder EXCEPT ![i] = NoEngineer], UNCHANGED <<choice, varied>>
      PROVE  WorkforceInv'
  <2>1. \A j \in Arrivals : holder'[j] = IF j = i THEN NoEngineer ELSE holder[j]
    BY <1>6 DEF WorkforceInv, WorkforceTyped
  <2>2. WorkforceTyped'
    BY <1>3, <1>6 DEF WorkforceInv, WorkforceTyped
  <2>3. Choosing' = Choosing
    BY <1>6 DEF Choosing
  <2>4. ChosenOnce'
    BY <1>2, <1>6, <2>1, <2>3 DEF WorkforceInv, ChosenOnce
  <2>5. HandedToRoster'
    BY <1>2, <1>3, <2>1, HandedKept
  <2>6. SpreadKept'
    BY <1>2, <1>3, <1>4, <1>6, <2>1, SpreadSame
  <2>7. ASSUME rule' = "ROUND_ROBIN", ~ varied' PROVE InTurn'
    <3>1. InTurn
      BY <1>3, <1>6, <2>7 DEF WorkforceInv
    <3>2. /\ RoundRobin(Engineers)' = RoundRobin(Engineers)
          /\ \A k \in DOMAIN stamps : Turns[k] \in Engineers /\ Turns'[k] = Turns[k]
          /\ InOrder(Turns, Len(stamps))'
      BY <1>2, <1>3, <1>4, <2>1, <3>1, TurnsKept
    <3> QED
      BY <1>3, <1>6, <2>3, <3>1, <3>2 DEF InTurn
  <2> QED
    BY <2>2, <2>4, <2>5, <2>6, <2>7 DEF WorkforceInv
<1> QED
  BY <1>1, <1>5, <1>6 DEF Choose

(* A dispatch commits what it chose, which nobody has taken from it.        *)
LEMMA PlaceStep ==
  ASSUME WorkforceInv, NEW h \in Dispatchers, Place(h) PROVE WorkforceInv'
<1>1. h \in Choosing
  BY DEF Place, Choosing
<1>2. PICK i \in Arrivals, c \in Engineers : i = choice[h].inc /\ c = choice[h].eng
  BY <1>1 DEF WorkforceInv, ChosenOnce
<1>3. /\ holder' = [holder EXCEPT ![i] = c] /\ stamps' = Append(stamps, i)
      /\ choice' = [choice EXCEPT ![h] = NoChoice]
      /\ UNCHANGED <<rule, clock, roster, present, relieved, moves, varied>>
  BY <1>2 DEF Place
<1>4. holder[i] = Unborn
  BY <1>1, <1>2 DEF WorkforceInv, ChosenOnce
<1>5. \A j \in Arrivals : holder'[j] = IF j = i THEN c ELSE holder[j]
  BY <1>3 DEF WorkforceInv, WorkforceTyped
<1>6. \A g \in Dispatchers : choice'[g] = IF g = h THEN NoChoice ELSE choice[g]
  BY <1>3 DEF WorkforceInv, WorkforceTyped
<1>7. WorkforceTyped'
  <2>1. NoChoice \in ChoiceRecord
    BY DEF NoChoice, ChoiceRecord
  <2> QED
    BY <1>3, <2>1 DEF WorkforceInv, WorkforceTyped
<1>8. Choosing' = Choosing \ {h}
  BY <1>6 DEF Choosing
<1>9. ChosenOnce'
  <2>1. \A g \in Choosing' : choice'[g] = choice[g] /\ choice[g].inc # i
    BY <1>1, <1>2, <1>6, <1>8 DEF WorkforceInv, ChosenOnce, Choosing
  <2> QED
    BY <1>5, <1>8, <2>1 DEF WorkforceInv, ChosenOnce
<1>10. HandedToRoster'
  BY <1>3, <1>4, <1>5, HandedKept
<1>11. SpreadKept'
  BY <1>1, <1>2, <1>3, SpreadPlace
<1>12. ASSUME rule' = "ROUND_ROBIN", ~ varied' PROVE InTurn'
  <2>1. InTurn
    BY <1>3, <1>12 DEF WorkforceInv
  <2> QED
    BY <1>1, <1>2, <1>3, <2>1, TurnPlaced
<1> QED
  BY <1>7, <1>9, <1>10, <1>11, <1>12 DEF WorkforceInv

(* An incident that somebody holds is nobody's choice.                      *)
LEMMA ChosenKept ==
  ASSUME WorkforceInv, NEW i \in Arrivals, holder[i] \in Engineers, NEW c,
         holder' = [holder EXCEPT ![i] = c], UNCHANGED choice
  PROVE  ChosenOnce'
<1>1. Unborn \notin Engineers
  BY WorkforceAssumption DEF Unborn
<1>2. Choosing' = Choosing /\ \A g \in Choosing : choice[g].inc # i
  BY <1>1 DEF Choosing, WorkforceInv, ChosenOnce
<1> QED
  BY <1>2 DEF WorkforceInv, WorkforceTyped, ChosenOnce

LEMMA CompleteStep ==
  ASSUME WorkforceInv, NEW i \in Arrivals, Complete(i) PROVE WorkforceInv'
<1>1. /\ holder[i] \in Engineers /\ relieved' = relieved \cup {holder[i]}
      /\ holder' = [holder EXCEPT ![i] = Done] /\ varied' = TRUE
      /\ UNCHANGED <<rule, clock, roster, present, choice, moves>>
  BY DEF Complete
<1>2. Done \notin Engineers
  BY WorkforceAssumption DEF Done
<1>3. WorkforceTyped'
  BY <1>1 DEF WorkforceInv, WorkforceTyped
<1>4. ChosenOnce'
  BY <1>1, ChosenKept
<1>5. HandedToRoster'
  <2>1. \A j \in Arrivals : holder'[j] = holder[j] \/ holder'[j] = Done
    BY <1>1 DEF WorkforceInv, WorkforceTyped
  <2> QED
    BY <1>1, <2>1, HandedKept
<1>6. SpreadKept'
  <2>1. Done \in Engineers \cup {Done} /\ Done # holder[i]
    BY <1>1, <1>2
  <2>2. \A f \in Engineers \ relieved' :
          Done \in Engineers /\ Twins(Done, f) => Load(Done) <= Load(f)
    BY <1>2
  <2> QED
    BY <1>1, <2>1, <2>2, SpreadRelieve
<1> QED
  BY <1>1, <1>3, <1>4, <1>5, <1>6 DEF WorkforceInv

LEMMA HandoffStep ==
  ASSUME WorkforceInv, NEW i \in Arrivals, Handoff(i) PROVE WorkforceInv'
<1>0. PICK s \in ActiveShifts : \E e \in Eligible(i, s) \ {holder[i]} :
        /\ \A f \in Eligible(i, s) \ {holder[i]} : Load(e) <= Load(f)
        /\ holder' = [holder EXCEPT ![i] = e]
  BY DEF Handoff
<1>1. PICK e \in Eligible(i, s) \ {holder[i]} :
        /\ \A f \in Eligible(i, s) \ {holder[i]} : Load(e) <= Load(f)
        /\ holder' = [holder EXCEPT ![i] = e]
  BY <1>0
<1>2. /\ holder[i] \in Engineers
      /\ holder[i] \notin present \/ OffShift(holder[i])
      /\ relieved' = relieved \cup {holder[i]}
      /\ moves' = [moves EXCEPT ![i] = @ + 1]
      /\ varied' = TRUE
      /\ UNCHANGED <<rule, clock, roster, present, choice>>
  BY DEF Handoff
<1>3. s \in Shifts /\ Today \in 1..Days
  BY DEF ActiveShifts, Today, WorkforceInv, WorkforceTyped
<1>4. e \in Engineers /\ e # holder[i]
  BY DEF Eligible, get_shift_employees, OnShift
<1>5. \A j \in Arrivals : /\ holder'[j] = IF j = i THEN e ELSE holder[j]
                          /\ moves'[j] = IF j = i THEN moves[i] + 1 ELSE moves[j]
                          /\ moves[j] \in Nat
  BY <1>1, <1>2 DEF WorkforceInv, WorkforceTyped
<1>6. WorkforceTyped'
  <2>1. holder' \in [Arrivals -> Engineers \cup {NoEngineer, Unborn, Done}]
    BY <1>1, <1>4 DEF WorkforceInv, WorkforceTyped
  <2>2. moves' \in [Arrivals -> Nat]
    BY <1>2 DEF WorkforceInv, WorkforceTyped
  <2> QED
    BY <1>2, <2>1, <2>2 DEF WorkforceInv, WorkforceTyped
<1>7. ChosenOnce'
  BY <1>1, <1>2, ChosenKept
<1>8. HandedToRoster'
  <2>1. (Staffed' <=> Staffed) /\ \A f \in Engineers : OnRoster(f)' <=> OnRoster(f)
    BY <1>2, SameTerms
  <2>2. ASSUME Staffed PROVE moves[i] = 0 /\ OnRoster(e)
    <3>1. ActiveShifts = {s}
      <4>1. IsFiniteSet(ActiveShifts)
        BY WorkforceAssumption, FS_Subset DEF ActiveShifts
      <4> QED
        BY <2>2, <4>1, FS_Singleton DEF Staffed
    <3>2. <<s, holder[i], Today>> \notin roster
      BY <1>2, <2>2, <3>1 DEF Staffed, OffShift
    <3>3. moves[i] = 0
      BY <1>2, <2>2, <3>1, <3>2 DEF WorkforceInv, HandedToRoster, OnRoster
    <3>4. <<s, e, Today>> \in roster
      BY <1>1, <2>2, <3>1 DEF Staffed, Eligible, get_shift_employees, OnShift
    <3> QED
      BY <3>1, <3>3, <3>4 DEF OnRoster
  <2>3. moves'[i] # 0 /\ holder'[i] \in Engineers
        /\ (Staffed => moves'[i] = 1 /\ OnRoster(holder'[i]))
    BY <1>4, <1>5, <2>2
  <2>4. ASSUME NEW j \in Arrivals, moves'[j] # 0
        PROVE  /\ holder'[j] \in Engineers \cup {Done}
               /\ Staffed => moves'[j] = 1 /\ (holder'[j] \in Engineers => OnRoster(holder'[j]))
    BY <1>5, <2>3, <2>4 DEF WorkforceInv, HandedToRoster
  <2> QED
    BY <2>1, <2>4 DEF HandedToRoster
<1>9. SpreadKept'
  <2>1. \A f \in Engineers \ relieved' : e \in Engineers /\ Twins(e, f) => Load(e) <= Load(f)
    BY <1>1, <1>2, <1>3, <1>4, TwinsEligible
  <2> QED
    BY <1>1, <1>2, <1>4, <2>1, SpreadRelieve
<1> QED
  BY <1>2, <1>6, <1>7, <1>8, <1>9 DEF WorkforceInv

(* The hour, or who is present, has changed: nothing is handed over yet.    *)
LEMMA AnewStep ==
  ASSUME WorkforceInv, Anew, clock' \in (1..Days) \X (0..Hours - 1) PROVE WorkforceInv'
<1>1. /\ moves' = [i \in Arrivals |-> 0] /\ varied' = TRUE
      /\ UNCHANGED <<rule, roster, holder, stamps, choice, relieved>>
  BY DEF Anew
<1>2. WorkforceTyped'
  BY <1>1 DEF WorkforceInv, WorkforceTyped
<1>3. ChosenOnce'
  BY <1>1 DEF WorkforceInv, ChosenOnce, Choosing
<1>4. HandedToRoster'
  BY <1>1 DEF HandedToRoster
<1>5. SpreadKept'
  BY <1>1, SpreadSame
<1> QED
  BY <1>1, <1>2, <1>3, <1>4, <1>5 DEF WorkforceInv

LEMMA NextHourStep == WorkforceInv /\ NextHour => WorkforceInv'
<1> SUFFICES ASSUME WorkforceInv, NextHour PROVE WorkforceInv'
  OBVIOUS
<1>1. PICK d \in 1..Days, t \in 0..Hours - 1 : clock = <<d, t>>
  BY DEF WorkforceInv, WorkforceTyped
<1>2. /\ clock' = IF t + 1 < Hours THEN <<d, t + 1>> ELSE <<d + 1, 0>>
      /\ clock'[1] <= Days /\ Anew
  BY <1>1 DEF NextHour
<1>3. clock' \in (1..Days) \X (0..Hours - 1)
  BY <1>1, <1>2, WorkforceAssumption
<1> QED
  BY <1>2, <1>3, AnewStep

LEMMA WorkforceStep == WorkforceInv /\ [WorkforceNext]_workforceVars => WorkforceInv'
<1> SUFFICES ASSUME WorkforceInv, [WorkforceNext]_workforceVars PROVE WorkforceInv'
  OBVIOUS
<1>1. ASSUME NEW h \in Dispatchers, Choose(h) \/ Place(h) PROVE WorkforceInv'
  BY <1>1, ChooseStep, PlaceStep
<1>2. ASSUME NEW i \in Arrivals, Complete(i) \/ Handoff(i) PROVE WorkforceInv'
  BY <1>2, CompleteStep, HandoffStep
<1>3. ASSUME NEW e \in Engineers, CheckInOrOut(e) PROVE WorkforceInv'
  BY <1>3, AnewStep DEF CheckInOrOut, WorkforceInv, WorkforceTyped
<1>4. CASE UNCHANGED workforceVars
  <2>1. /\ UNCHANGED <<rule, clock, roster, present, holder, stamps, choice>>
        /\ UNCHANGED <<relieved, moves, varied>>
    BY <1>4 DEF workforceVars
  <2>2. WorkforceTyped' /\ ChosenOnce'
    BY <2>1 DEF WorkforceInv, WorkforceTyped, ChosenOnce, Choosing
  <2>3. HandedToRoster' /\ SpreadKept'
    BY <2>1, HandedKept, SpreadSame
  <2>4. ASSUME InTurn PROVE InTurn'
    <3>1. /\ RoundRobin(Engineers)' = RoundRobin(Engineers)
          /\ \A k \in DOMAIN stamps : Turns[k] \in Engineers /\ Turns'[k] = Turns[k]
          /\ InOrder(Turns, Len(stamps))'
      BY <2>1, <2>4, TurnsKept
    <3>2. Choosing' = Choosing
      BY <2>1 DEF Choosing
    <3> QED
      BY <2>1, <2>4, <3>1, <3>2 DEF InTurn
  <2> QED
    BY <2>1, <2>2, <2>3, <2>4 DEF WorkforceInv
<1> QED
  BY <1>1, <1>2, <1>3, <1>4, NextHourStep DEF WorkforceNext

(***************************************************************************)
(* Of every workforce: choices are alone with their incidents, handoffs go *)
(* to the roster of the day, those with the same duties share the work     *)
(* evenly, counting what has been chosen, and turns follow the codes.      *)
(***************************************************************************)
THEOREM WorkforceInvariant == WorkforceSpec => []WorkforceInv
BY WorkforceStarts, WorkforceStep, PTL DEF WorkforceSpec

(* The two engineers' lead is never more than the dispatches under way can *)
(* make it, with one more for handoffs, which do not see what others chose. *)
THEOREM SpreadWithin == WorkforceSpec => []SpreadBounded
<1>1. WorkforceInv => SpreadBounded
  <2> SUFFICES ASSUME WorkforceInv, ByWorkload, NEW e \in Engineers \ relieved,
                      NEW f \in Engineers \ relieved, Twins(e, f)
               PROVE  Load(e) - Load(f) <= Overlap
    BY DEF SpreadBounded, ByWorkload
  <2>1. Load(e) - Load(f) + Pending(e) <= Overlap
    BY DEF WorkforceInv, SpreadKept
  <2>2. /\ Load(e) \in Nat /\ Load(f) \in Nat /\ Pending(e) \in Nat
        /\ Cardinality(Dispatchers) \in Nat
    BY LoadType, PendingType
  <2>3. Overlap \in Nat
    BY <2>2 DEF Overlap
  <2> QED
    BY <2>1, <2>2, <2>3
<1> QED
  BY <1>1, WorkforceInvariant, PTL

(***************************************************************************)
(* Round robin's promise: from one turn of an engineer to his next one     *)
(* everybody has had a turn, which takes as many turns as there are        *)
(* engineers.                                                              *)
(***************************************************************************)
THEOREM EverybodysTurn == WorkforceSpec => []TurnComesRound
<1>1. ASSUME WorkforceInv, rule = "ROUND_ROBIN", ~ varied,
             NEW j \in DOMAIN stamps, NEW k \in DOMAIN stamps,
             j < k, k < j + Cardinality(Engineers), holder[stamps[j]] = holder[stamps[k]]
      PROVE  FALSE
  <2> DEFINE taken == j..(k - 1)
  <2>1. InTurn
    BY <1>1 DEF WorkforceInv
  <2>2. DOMAIN stamps = 1..Len(stamps) /\ Len(stamps) \in Nat /\ j \in Nat /\ k \in Nat
    BY <2>1 DEF InTurn
  <2>3. Turns[j] = Turns[k]
    BY <1>1 DEF Turns
  <2>4. Engineers \subseteq Served(Turns, j, k - 1)
    BY <1>1, <2>1, <2>2, <2>3 DEF InTurn, InOrder
  <2>5. IsFiniteSet(taken) /\ Cardinality(taken) = k - j
    <3>1. j <= k - 1 /\ j \in Int /\ k - 1 \in Int
      BY <1>1, <2>2
    <3>2. IsFiniteSet(taken) /\ Cardinality(taken) = k - 1 - j + 1
      BY <3>1, FS_Interval
    <3> QED
      BY <2>2, <3>2
  <2>6. /\ IsFiniteSet({Turns[m] : m \in taken})
        /\ Cardinality({Turns[m] : m \in taken}) <= Cardinality(taken)
    BY <2>5, Repeats
  <2>7. /\ Cardinality(Engineers) <= Cardinality({Turns[m] : m \in taken})
        /\ Cardinality(Engineers) \in Nat /\ Cardinality({Turns[m] : m \in taken}) \in Nat
    BY <2>4, <2>6, WorkforceAssumption, FS_Subset, FS_CardinalityType DEF Served
  <2> QED
    BY <1>1, <2>2, <2>5, <2>6, <2>7
<1>2. WorkforceInv => TurnComesRound
  BY <1>1 DEF TurnComesRound
<1> QED
  BY <1>2, WorkforceInvariant, PTL

(***************************************************************************)
(* Handing off settles: under the condition that HandoffSettles names,     *)
(* whoever has taken over is on the day's roster, and has it for good.     *)
(***************************************************************************)
THEOREM HandoffSettled == WorkforceSpec => []HandoffSettles
<1>1. WorkforceInv => HandoffSettles
  <2> SUFFICES ASSUME WorkforceInv, Staffed, NEW i \in Arrivals PROVE moves[i] <= 1
    BY DEF HandoffSettles, Staffed
  <2> QED
    BY DEF WorkforceInv, WorkforceTyped, HandedToRoster
<1> QED
  BY <1>1, WorkforceInvariant, PTL

-----------------------------------------------------------------------------
(* The order of the active assignments *)

LEMMA InitStamps == WorkforceInit => StampsInv
<1> SUFFICES ASSUME WorkforceInit PROVE StampsInv
  OBVIOUS
<1>1. Unborn \notin Engineers
  BY WorkforceAssumption DEF Unborn
<1>2. Stamped
  BY <1>1 DEF WorkforceInit, Stamped
<1>3. roster \subseteq Shifts \X Engineers \X (1..Days)
  <2>1. PICK duty \in [Engineers \X (1..Days) -> Shifts \cup {"off"}] :
          roster = {<<duty[x], x[1], x[2]>> : x \in {y \in DOMAIN duty : duty[y] \in Shifts}}
    BY DEF WorkforceInit, Rosters
  <2> SUFFICES ASSUME NEW x \in Engineers \X (1..Days), duty[x] \in Shifts
               PROVE  <<duty[x], x[1], x[2]>> \in Shifts \X Engineers \X (1..Days)
    BY <2>1
  <2> QED
    OBVIOUS
<1> QED
  BY <1>2, <1>3 DEF WorkforceInit, StampsInv

(* Without the stamp of an incident, the others stand in their order.       *)
LEMMA WithoutIt ==
  ASSUME Stamped, NEW i \in Arrivals, holder[i] \in Engineers
  PROVE  /\ Without(i) \in Seq(Arrivals)
         /\ \A k \in DOMAIN Without(i) : \E n \in DOMAIN stamps :
              Without(i)[k] = stamps[n] /\ stamps[n] # i
         /\ \A j, k \in DOMAIN Without(i) : Without(i)[j] = Without(i)[k] => j = k
         /\ \A n \in DOMAIN stamps : stamps[n] # i =>
              \E k \in DOMAIN Without(i) : Without(i)[k] = stamps[n]
<1> DEFINE k == CHOOSE n \in DOMAIN stamps : stamps[n] = i
           L == Len(stamps)
           skip(n) == IF n < k THEN n ELSE n + 1
<1>1. k \in 1..L /\ stamps[k] = i /\ L \in Nat /\ DOMAIN stamps = 1..L
  BY DEF Stamped
<1>2. Without(i) = [n \in 1..L - 1 |-> stamps[skip(n)]]
  BY DEF Without
<1>3. /\ stamps \in [1..L -> Arrivals]
      /\ \A m, n \in 1..L : stamps[m] = stamps[n] => m = n
  BY <1>1 DEF Stamped
<1> HIDE DEF k, L
<1>4. \A n \in 1..L - 1 : skip(n) \in 1..L /\ skip(n) # k
  BY <1>1
<1>5. \A m, n \in 1..L - 1 : skip(m) = skip(n) => m = n
  BY <1>1
<1>6. \A n \in 1..L : n # k => \E m \in 1..L - 1 : skip(m) = n
  <2> SUFFICES ASSUME NEW n \in 1..L, n # k PROVE \E m \in 1..L - 1 : skip(m) = n
    OBVIOUS
  <2>1. CASE n < k
    BY <1>1, <2>1
  <2>2. CASE n > k
    <3>1. n - 1 \in 1..L - 1 /\ skip(n - 1) = n
      BY <1>1, <2>2
    <3> QED
      BY <3>1
  <2> QED
    BY <1>1, <2>1, <2>2
<1> HIDE DEF skip
<1>7. DOMAIN Without(i) = 1..L - 1 /\ \A n \in 1..L - 1 : Without(i)[n] = stamps[skip(n)]
  BY <1>2
<1>8. Without(i) \in Seq(Arrivals)
  <2>1. Without(i) \in [1..L - 1 -> Arrivals]
    BY <1>2, <1>3, <1>4
  <2>2. L - 1 \in Nat
    BY <1>1
  <2> QED
    BY <2>1, <2>2
<1>9. \A n \in DOMAIN Without(i) : \E m \in DOMAIN stamps :
        Without(i)[n] = stamps[m] /\ stamps[m] # i
  BY <1>1, <1>3, <1>4, <1>7
<1>10. \A m, n \in DOMAIN Without(i) : Without(i)[m] = Without(i)[n] => m = n
  BY <1>3, <1>4, <1>5, <1>7
<1>11. \A n \in DOMAIN stamps : stamps[n] # i =>
         \E m \in DOMAIN Without(i) : Without(i)[m] = stamps[n]
  BY <1>1, <1>6, <1>7
<1> QED
  BY <1>8, <1>9, <1>10, <1>11

(* A stamp more, for an incident that had none.                             *)
LEMMA OneStampMore ==
  ASSUME NEW t \in Seq(Arrivals), NEW i \in Arrivals, \A k \in DOMAIN t : t[k] # i,
         \A j, k \in DOMAIN t : t[j] = t[k] => j = k
  PROVE  /\ Append(t, i) \in Seq(Arrivals)
         /\ DOMAIN Append(t, i) = DOMAIN t \cup {Len(t) + 1}
         /\ \A k \in DOMAIN t : Append(t, i)[k] = t[k]
         /\ Append(t, i)[Len(t) + 1] = i
         /\ \A j, k \in DOMAIN Append(t, i) : Append(t, i)[j] = Append(t, i)[k] => j = k
<1>1. /\ Append(t, i) \in Seq(Arrivals) /\ DOMAIN Append(t, i) = 1..Len(t) + 1
      /\ DOMAIN t = 1..Len(t) /\ Len(t) \in Nat
  OBVIOUS
<1>2. DOMAIN Append(t, i) = DOMAIN t \cup {Len(t) + 1}
  BY <1>1
<1>3. (\A k \in DOMAIN t : Append(t, i)[k] = t[k]) /\ Append(t, i)[Len(t) + 1] = i
  BY <1>1
<1> QED
  BY <1>1, <1>2, <1>3

LEMMA StampsStep == WorkforceInv /\ StampsInv /\ [WorkforceNext]_workforceVars => StampsInv'
<1> SUFFICES ASSUME WorkforceInv, StampsInv, [WorkforceNext]_workforceVars PROVE StampsInv'
  OBVIOUS
<1> USE DEF StampsInv
<1>1. Unborn \notin Engineers /\ Done \notin Engineers /\ NoEngineer \notin Engineers
  BY WorkforceAssumption DEF Unborn, Done, NoEngineer
<1>2. holder \in [Arrivals -> Engineers \cup {NoEngineer, Unborn, Done}]
  BY DEF WorkforceInv, WorkforceTyped
<1>3. ASSUME NEW h \in Dispatchers, Choose(h) PROVE StampsInv'
  <2>1. UNCHANGED <<stamps, roster, present, moves>>
    BY <1>3 DEF Choose
  <2>2. \A i \in Arrivals : holder'[i] = holder[i]
          \/ (holder[i] \notin Engineers /\ holder'[i] \notin Engineers)
    <3>1. ASSUME NEW i, i = Min(Arriving), holder' = [holder EXCEPT ![i] = NoEngineer]
          PROVE  \A j \in Arrivals : holder'[j] = holder[j]
                   \/ (holder[j] \notin Engineers /\ holder'[j] \notin Engineers)
      <4>1. Arriving \in SUBSET Nat /\ Arriving # {}
        BY <1>3, WorkforceAssumption DEF Choose, Arriving
      <4>2. holder[i] = Unborn
        BY <3>1, <4>1, LeastOf DEF Arriving
      <4> QED
        BY <1>1, <1>2, <3>1, <4>2
    <3> QED
      BY <1>3, <3>1 DEF Choose
  <2> QED
    BY <2>1, <2>2 DEF Stamped
<1>4. ASSUME NEW h \in Dispatchers, Place(h) PROVE StampsInv'
  <2>1. PICK i \in Arrivals, e \in Engineers :
          i = choice[h].inc /\ e = choice[h].eng /\ holder[i] = Unborn
    BY <1>4 DEF Place, Choosing, WorkforceInv, ChosenOnce
  <2>2. /\ holder' = [holder EXCEPT ![i] = e] /\ stamps' = Append(stamps, i)
        /\ UNCHANGED <<roster, present, moves>>
    BY <1>4, <2>1 DEF Place
  <2>3. \A k \in DOMAIN stamps : stamps[k] # i
    BY <1>1, <2>1 DEF Stamped
  <2>4. /\ stamps' \in Seq(Arrivals)
        /\ DOMAIN stamps' = DOMAIN stamps \cup {Len(stamps) + 1}
        /\ \A k \in DOMAIN stamps : stamps'[k] = stamps[k]
        /\ stamps'[Len(stamps) + 1] = i
        /\ \A j, k \in DOMAIN stamps' : stamps'[j] = stamps'[k] => j = k
    BY <2>2, <2>3, OneStampMore DEF Stamped
  <2>5. \A j \in Arrivals : holder'[j] = IF j = i THEN e ELSE holder[j]
    BY <1>2, <2>2
  <2>6. \A k \in DOMAIN stamps' : holder'[stamps'[k]] \in Engineers
    BY <2>4, <2>5 DEF Stamped
  <2>7. \A j \in Arrivals : holder'[j] \in Engineers => \E k \in DOMAIN stamps' : stamps'[k] = j
    BY <2>4, <2>5 DEF Stamped
  <2> QED
    BY <2>2, <2>4, <2>6, <2>7 DEF Stamped
<1>5. ASSUME NEW i \in Arrivals, Complete(i) PROVE StampsInv'
  <2>1. /\ holder[i] \in Engineers /\ holder' = [holder EXCEPT ![i] = Done]
        /\ stamps' = Without(i) /\ UNCHANGED <<roster, present, moves>>
    BY <1>5 DEF Complete
  <2>2. \A j \in Arrivals : holder'[j] = IF j = i THEN Done ELSE holder[j]
    BY <1>2, <2>1
  <2>3. /\ stamps' \in Seq(Arrivals)
        /\ \A k \in DOMAIN stamps' : \E n \in DOMAIN stamps :
             stamps'[k] = stamps[n] /\ stamps[n] # i
        /\ \A j, k \in DOMAIN stamps' : stamps'[j] = stamps'[k] => j = k
        /\ \A n \in DOMAIN stamps : stamps[n] # i => \E k \in DOMAIN stamps' : stamps'[k] = stamps[n]
    BY <2>1, WithoutIt
  <2>4. \A k \in DOMAIN stamps' : holder'[stamps'[k]] \in Engineers
    BY <2>2, <2>3 DEF Stamped
  <2>5. \A j \in Arrivals : holder'[j] \in Engineers => \E k \in DOMAIN stamps' : stamps'[k] = j
    BY <1>1, <2>2, <2>3 DEF Stamped
  <2> QED
    BY <2>1, <2>3, <2>4, <2>5 DEF Stamped
<1>6. ASSUME NEW i \in Arrivals, Handoff(i) PROVE StampsInv'
  <2>1. PICK e \in Engineers : holder' = [holder EXCEPT ![i] = e]
    BY <1>6 DEF Handoff, Eligible, get_shift_employees, OnShift
  <2>2. /\ holder[i] \in Engineers /\ stamps' = Append(Without(i), i)
        /\ moves' = [moves EXCEPT ![i] = @ + 1] /\ moves[i] < 2
        /\ UNCHANGED <<roster, present>>
    BY <1>6 DEF Handoff
  <2>3. moves' \in [Arrivals -> 0..2]
    BY <2>2
  <2>4. \A j \in Arrivals : holder'[j] = IF j = i THEN e ELSE holder[j]
    BY <1>2, <2>1
  <2>5. PICK rest \in Seq(Arrivals) :
          /\ rest = Without(i)
          /\ \A k \in DOMAIN rest : \E n \in DOMAIN stamps : rest[k] = stamps[n] /\ stamps[n] # i
          /\ \A j, k \in DOMAIN rest : rest[j] = rest[k] => j = k
          /\ \A n \in DOMAIN stamps : stamps[n] # i => \E k \in DOMAIN rest : rest[k] = stamps[n]
    BY <2>2, WithoutIt
  <2>6. /\ stamps' \in Seq(Arrivals)
        /\ DOMAIN stamps' = DOMAIN rest \cup {Len(rest) + 1}
        /\ \A k \in DOMAIN rest : stamps'[k] = rest[k]
        /\ stamps'[Len(rest) + 1] = i
        /\ \A j, k \in DOMAIN stamps' : stamps'[j] = stamps'[k] => j = k
    <3>1. \A k \in DOMAIN rest : rest[k] # i
      BY <2>5
    <3> QED
      BY <2>2, <2>5, <3>1, OneStampMore
  <2>7. \A k \in DOMAIN stamps' : holder'[stamps'[k]] \in Engineers
    <3> SUFFICES ASSUME NEW k \in DOMAIN rest PROVE holder'[rest[k]] \in Engineers
      BY <2>4, <2>6
    <3> QED
      BY <2>4, <2>5 DEF Stamped
  <2>8. \A j \in Arrivals : holder'[j] \in Engineers => \E k \in DOMAIN stamps' : stamps'[k] = j
    <3> SUFFICES ASSUME NEW j \in Arrivals, j # i, holder[j] \in Engineers
                 PROVE  \E k \in DOMAIN rest : rest[k] = j
      BY <2>4, <2>6
    <3> QED
      BY <2>5 DEF Stamped
  <2> QED
    BY <2>2, <2>3, <2>6, <2>7, <2>8 DEF Stamped
<1>7. CASE Anew /\ present' \subseteq Engineers
  BY <1>7 DEF Anew, Stamped
<1>8. ASSUME NEW e \in Engineers, CheckInOrOut(e) PROVE present' \subseteq Engineers /\ Anew
  BY <1>8 DEF CheckInOrOut
<1>9. CASE UNCHANGED workforceVars
  BY <1>9 DEF workforceVars, Stamped
<1> QED
  BY <1>3, <1>4, <1>5, <1>6, <1>7, <1>8, <1>9 DEF WorkforceNext, NextHour

(***************************************************************************)
(* The order that ROUND_ROBIN and the handoffs go by names the incidents   *)
(* with an active assignment, each once, whatever is assigned, completed   *)
(* and handed over meanwhile.                                              *)
(***************************************************************************)
THEOREM WorkforceTypeCorrect == WorkforceSpec => []WorkforceTypeOK
<1>1. WorkforceInv /\ StampsInv => WorkforceTypeOK
  <2> SUFFICES ASSUME WorkforceInv, StampsInv PROVE WorkforceTypeOK
    OBVIOUS
  <2>1. {stamps[k] : k \in DOMAIN stamps} = {i \in Arrivals : holder[i] \in Engineers}
    <3>1. \A k \in DOMAIN stamps : stamps[k] \in Arrivals
      BY DEF StampsInv, Stamped
    <3> QED
      BY <3>1 DEF StampsInv, Stamped
  <2> QED
    BY <2>1 DEF WorkforceInv, WorkforceTyped, StampsInv, WorkforceTypeOK
<1>2. WorkforceSpec => []StampsInv
  BY InitStamps, StampsStep, WorkforceInvariant, PTL DEF WorkforceSpec
<1> QED
  BY <1>1, <1>2, WorkforceInvariant, PTL

=============================================================================
