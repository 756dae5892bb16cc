----------------------------- MODULE FairRota -----------------------------
(***************************************************************************)
(* What a rotation promises the members of a team, whatever keeps it: work *)
(* is handed to the seats of a team in order, and a seat is served again   *)
(* only after every other seat has had its turn.  TeamRotation implements  *)
(* this with a persistent pointer (current_position, cycle_number).        *)
(***************************************************************************)
EXTENDS Integers

CONSTANTS
  Teams,      \* the teams that have a rotation
  TeamSize    \* the seats of a team (10 in the code)

Seats == 1..TeamSize

VARIABLE served    \* served[t][n]: how often seat n of team t has had its turn

RotaInit == served = [t \in Teams |-> [n \in Seats |-> 0]]

(***************************************************************************)
(* Seat n of team t has its turn: no seat has been served less often, and  *)
(* every seat before it has already been served in this round.             *)
(***************************************************************************)
TakeTurn(t, n) ==
  /\ \A m \in Seats : served[t][n] <= served[t][m]
  /\ \A m \in 1..(n - 1) : served[t][n] < served[t][m]
  /\ served' = [served EXCEPT ![t][n] = @ + 1]

RotaNext == \E t \in Teams, n \in Seats : TakeTurn(t, n)

RotaSpec == RotaInit /\ [][RotaNext]_served

-----------------------------------------------------------------------------

RotaTypeOK == served \in [Teams -> [Seats -> Nat]]

(* No member of a team is ever more than one turn ahead of another. *)
Balanced ==
  \A t \in Teams : \A m, n \in Seats : served[t][m] <= served[t][n] + 1

=============================================================================
