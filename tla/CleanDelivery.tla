---------------------------- MODULE CleanDelivery ----------------------------
(***************************************************************************)
(* What the attachment delivery service promises of every cached object,   *)
(* whatever files, caches and rows implement it: content is cleared for    *)
(* one user by a scan, then offered on those very terms at most once, and  *)
(* may be withdrawn at any moment, for good.                               *)
(***************************************************************************)
CONSTANTS Users, Objects, Contents, None

VARIABLES
  stage,   \* "pending", "cleared", "offered" or "withdrawn"
  terms    \* who may have which content, while cleared or offered

Init ==
  /\ stage = [o \in Objects |-> "pending"]
  /\ terms = [o \in Objects |-> None]

\* The scan found the fetched content clean.
Clear(o, t) ==
  /\ stage[o] = "pending"
  /\ stage' = [stage EXCEPT ![o] = "cleared"]
  /\ terms' = [terms EXCEPT ![o] = t]

\* The object becomes downloadable on the terms it was cleared for.
Offer(o) ==
  /\ stage[o] = "cleared"
  /\ stage' = [stage EXCEPT ![o] = "offered"]
  /\ UNCHANGED terms

\* A failed retrieval, a removal, a sweep, an unlinked account or a restart.
Withdraw(S) ==
  /\ stage' = [o \in Objects |-> IF o \in S THEN "withdrawn" ELSE stage[o]]
  /\ terms' = [o \in Objects |-> IF o \in S THEN None ELSE terms[o]]

Next ==
  \/ \E o \in Objects, t \in [user : Users, digest : Contents] : Clear(o, t)
  \/ \E o \in Objects : Offer(o)
  \/ \E S \in SUBSET Objects : Withdraw(S)

Spec == Init /\ [][Next]_<<stage, terms>>

=============================================================================
