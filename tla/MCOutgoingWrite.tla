--------------------------- MODULE MCOutgoingWrite ---------------------------
(* Instances of OutgoingWrite for TLC. *)
EXTENDS OutgoingWrite

CONSTANTS k1, k2, m1

=============================================================================
