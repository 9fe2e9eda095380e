-------------------------- MODULE MCApplicationState --------------------------
(* Instances of ApplicationState for TLC. *)
EXTENDS ApplicationState, TLC

Alike == Permutations(Users) \cup Permutations(Providers) \cup Permutations(Processes)

=============================================================================
