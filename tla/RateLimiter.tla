---------------------------- MODULE RateLimiter ----------------------------
(***************************************************************************)
(* The in-memory rate limiter: for one client and one protected path, the  *)
(* times of the requests it has let through, looked at and changed under   *)
(* its lock.  A restart of the process forgets them.                       *)
(*                                                                         *)
(* Keys do not share a list, so one is modelled; time is counted in units  *)
(* in which a window has Window of them.  The order of the list is of no   *)
(* account: it is the set of its times, each told apart by its request.    *)
(***************************************************************************)
EXTENDS Integers, Sequences, FiniteSets

CONSTANTS
  MaxInWindow,  \* max_requests of the path
  Window,       \* window_seconds of the path
  Horizon       \* bound: the time at which a behaviour ends

ASSUME LimiterAssumption ==
  /\ MaxInWindow \in Nat \ {0}
  /\ Window \in Nat \ {0}
  /\ Horizon \in Nat

VARIABLES
  now,      \* time.time()
  history,  \* _history[key]
  passed    \* history: the times of all requests let through since the start

limiterVars == <<now, history, passed>>

Tick == now < Horizon /\ now' = now + 1 /\ UNCHANGED <<history, passed>>

(* Fault: the oldest instant of the window is not counted. *)
InShortWindow(t) == now - t < Window - 1

InWindow(t) == now - t < Window

(* A time of the list, told apart from equal ones by its request. *)
Stamp(n, time) == [request |-> n, at |-> time]

Recent == {x \in history : InWindow(x.at)}

LetThrough ==
  /\ Cardinality(Recent) < MaxInWindow
  /\ history' = Recent \cup {Stamp(Len(passed) + 1, now)}
  /\ passed' = Append(passed, now)
  /\ UNCHANGED now

(* Refused with 429: the list stays as it is, outdated times included. *)
TurnAway == Cardinality(Recent) >= MaxInWindow /\ UNCHANGED limiterVars

ProcessRestarts == history' = {} /\ passed' = << >> /\ UNCHANGED now

LimiterInit == now = 0 /\ history = {} /\ passed = << >>

LimiterNext == Tick \/ LetThrough \/ TurnAway \/ ProcessRestarts

LimiterSpec == LimiterInit /\ [][LimiterNext]_limiterVars

(***************************************************************************)
(* No window of time, wherever it begins, has more than max_requests of    *)
(* the requests that were let through since the process started.           *)
(***************************************************************************)
WindowHolds ==
  \A i, j \in DOMAIN passed : j = i + MaxInWindow => passed[j] - passed[i] >= Window

=============================================================================
