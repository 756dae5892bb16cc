-------------------------- MODULE MCTeamRotation --------------------------
(* Small instances of TeamRotation for TLC. *)
EXTENDS TeamRotation, TLC

Codes == 1..3

Interchangeable == Permutations(Incidents) \cup Permutations(Sessions)
                   \cup Permutations(Keys)

=============================================================================
