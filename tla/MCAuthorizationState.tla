------------------------- MODULE MCAuthorizationState -------------------------
(* Instances of AuthorizationState for TLC. *)
EXTENDS AuthorizationState, TLC

Alike == Permutations(States) \cup Permutations(Users) \cup Permutations(Requests)

=============================================================================
