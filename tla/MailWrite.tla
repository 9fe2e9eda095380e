------------------------------ MODULE MailWrite ------------------------------
(***************************************************************************)
(* What GmailAccountService promises of every send, draft create and draft *)
(* update, whatever happens between it and Gmail: the write takes effect   *)
(* at most once; a confirmed one has taken effect, by this call or by      *)
(* another that carried the same client mutation id; a refused one never   *)
(* has and never will; everything else is reported as unknown.             *)
(***************************************************************************)
EXTENDS Naturals

CONSTANTS Calls, Mutations, None

VARIABLES
  mutation,  \* the client mutation id a call carries, or None
  outcome,   \* "open", "confirmed", "refused" or "unknown"
  effects    \* how often Gmail has carried the call's write out

SameMutation(k) == {k} \cup {j \in Calls : mutation[k] # None /\ mutation[j] = mutation[k]}

Init ==
  /\ mutation \in [Calls -> Mutations \cup {None}]
  /\ outcome = [k \in Calls |-> "open"]
  /\ effects = [k \in Calls |-> 0]

\* Perhaps long after the call has given up.
Write(k) ==
  /\ effects[k] = 0
  /\ outcome[k] # "refused"
  /\ effects' = [effects EXCEPT ![k] = 1]
  /\ UNCHANGED <<mutation, outcome>>

Confirm(k) ==
  /\ outcome[k] = "open"
  /\ \E j \in SameMutation(k) : effects[j] > 0
  /\ outcome' = [outcome EXCEPT ![k] = "confirmed"]
  /\ UNCHANGED <<mutation, effects>>

Refuse(k) ==
  /\ outcome[k] = "open"
  /\ effects[k] = 0
  /\ outcome' = [outcome EXCEPT ![k] = "refused"]
  /\ UNCHANGED <<mutation, effects>>

\* The calls whose process dies give up together.
GiveUp(S) ==
  /\ \A k \in S : outcome[k] = "open"
  /\ outcome' = [k \in Calls |-> IF k \in S THEN "unknown" ELSE outcome[k]]
  /\ UNCHANGED <<mutation, effects>>

Next ==
  \/ \E k \in Calls : Write(k) \/ Confirm(k) \/ Refuse(k)
  \/ \E S \in SUBSET Calls : GiveUp(S)

Spec == Init /\ [][Next]_<<mutation, outcome, effects>>

=============================================================================
