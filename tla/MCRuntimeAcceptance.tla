------------------------- MODULE MCRuntimeAcceptance -------------------------
(* RuntimeAcceptance for TLC: a scanner whose answers depart in at most one    *)
(* respect from a record all four checks read, with any result and any times.  *)
EXTENDS RuntimeAcceptance, FiniteSets

Plain ==
  [bound |-> TRUE, sound |-> TRUE, attributed |-> TRUE, current |-> TRUE,
   correlation |-> "own", named |-> TRUE, evidence |-> "good", format |-> "common"]

Departures(env) == {f \in DOMAIN Plain : env[f] # Plain[f]}

NearAnswers == {env \in Envelopes : Cardinality(Departures(env)) <= 1}

=============================================================================
