-------------------------- MODULE AuthorizationOnce --------------------------
(***************************************************************************)
(* What OAuth authorization state is for: a state value that was issued to *)
(* a user for a provider authorises one callback, of that user and for     *)
(* that provider.  Where the store is not used exclusively by one process, *)
(* those authorise one another that were admitted while it was open.  It   *)
(* may stop being good for anything at any time.                           *)
(***************************************************************************)
CONSTANTS States, Bindings, Requests, None

VARIABLES
  exclusive,   \* whether one process at a time uses the store
  open,        \* the binding of each state value that can still be used
  admitted,    \* what each callback was found entitled to, and is not yet granted
  granted      \* what each callback was granted

vars == <<exclusive, open, admitted, granted>>

Claim(s, b) == [state |-> s, binding |-> b]

Init ==
  /\ exclusive \in BOOLEAN
  /\ open = [s \in States |-> None]
  /\ admitted = [r \in Requests |-> None]
  /\ granted = [r \in Requests |-> None]

Issue(s, b) ==
  /\ open[s] = None
  /\ \A r \in Requests :
       /\ admitted[r] # None => admitted[r].state # s
       /\ granted[r] # None => granted[r].state # s
  /\ open' = [open EXCEPT ![s] = b]
  /\ UNCHANGED <<exclusive, admitted, granted>>

Admit(r, s, b) ==
  /\ open[s] = b
  /\ admitted[r] = None /\ granted[r] = None
  /\ exclusive => \A q \in Requests : admitted[q] = None
  /\ admitted' = [admitted EXCEPT ![r] = Claim(s, b)]
  /\ UNCHANGED <<exclusive, open, granted>>

Grant(r, s, b) ==
  /\ open[s] = b \/ (~exclusive /\ admitted[r] = Claim(s, b))
  /\ granted[r] = None
  /\ open' = [open EXCEPT ![s] = None]
  /\ admitted' = [admitted EXCEPT ![r] = None]
  /\ granted' = [granted EXCEPT ![r] = Claim(s, b)]
  /\ UNCHANGED exclusive

\* Expiry, a purge, and a process that ends.
Close(S, R) ==
  /\ open' = [s \in States |-> IF s \in S THEN None ELSE open[s]]
  /\ admitted' = [r \in Requests |-> IF r \in R THEN None ELSE admitted[r]]
  /\ UNCHANGED <<exclusive, granted>>

Next ==
  \/ \E s \in States, b \in Bindings : Issue(s, b)
  \/ \E r \in Requests, s \in States, b \in Bindings : Admit(r, s, b)
  \/ \E r \in Requests, s \in States, b \in Bindings : Grant(r, s, b)
  \/ \E S \in SUBSET States, R \in SUBSET Requests : Close(S, R)

Spec == Init /\ [][Next]_vars

=============================================================================
