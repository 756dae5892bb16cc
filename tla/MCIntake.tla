----------------------------- MODULE MCIntake -----------------------------
(* Small instances of Intake for TLC. *)
EXTENDS Intake, TLC

Interchangeable == Permutations(Handlers) \cup Permutations(Incidents)

=============================================================================
