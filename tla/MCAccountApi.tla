----------------------------- MODULE MCAccountApi -----------------------------
(* Instances of AccountApi for TLC. *)
EXTENDS AccountApi

CONSTANTS u1, u2, a1, a2

\* To compose or to send without reading, and to both: a refresh may lose the latter or win it.
MCGrants == {{"compose"}, {"send"}, {"readonly", "send"}}

=============================================================================
