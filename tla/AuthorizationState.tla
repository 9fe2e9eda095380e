-------------------------- MODULE AuthorizationState --------------------------
(***************************************************************************)
(* The two stores of OAuth authorization state: InMemoryOAuthStateStore    *)
(* (server/oauth-state-store.js), a Map, and the oauth_authorization_state *)
(* table of server/sqlite-state.js, whose consume reads the row and then   *)
(* marks it in a second statement, outside a transaction.                  *)
(*                                                                         *)
(* A state value is random and never issued twice; the table holds its     *)
(* hash.  Nothing of the process runs between the two statements, but      *)
(* another process with the same database file may: the model has both     *)
(* deployments.                                                            *)
(***************************************************************************)
EXTENDS Naturals

CONSTANTS
  States,      \* state values
  Users,
  Providers,
  Requests,    \* callbacks that present a state value
  Ttl,         \* ttlMs
  MaxTime,     \* bound on the clock
  None         \* absent

VARIABLES
  durable,     \* which store was configured: TRUE the SQLite table, FALSE the Map
  shared,      \* whether several processes use it at once, each callback in its own
  clock,       \* Date.now()
  binding,     \* history: whom each state value was issued to
  expiresAt,   \* history: and until when it is good
  rows,        \* the state values the store holds
  consumed,    \* those with a consumed_at
  pc,          \* where each callback is
  claim,       \* what it presented
  checkedAt,   \* when the store looked at it
  after        \* history: who had been granted what they presented by then

deployment == <<durable, shared>>
store == <<binding, expiresAt, rows, consumed>>
callbacks == <<pc, claim, checkedAt, after>>
vars == <<deployment, clock, store, callbacks>>

Bindings == [user : Users, provider : Providers]
Claims == [state : States, binding : Bindings]

ASSUME InstanceAssumption ==
  /\ Ttl \in Nat \ {0} /\ MaxTime \in Nat
  /\ None \notin Bindings /\ None \notin Claims

TypeOK ==
  /\ durable \in BOOLEAN /\ shared \in BOOLEAN /\ clock \in 0 .. MaxTime
  /\ binding \in [States -> Bindings \cup {None}]
  /\ expiresAt \in [States -> 0 .. MaxTime + Ttl]
  /\ rows \subseteq States /\ consumed \subseteq States
  /\ pc \in [Requests -> {"idle", "checked", "granted", "rejected", "lost"}]
  /\ claim \in [Requests -> Claims \cup {None}]
  /\ checkedAt \in [Requests -> 0 .. MaxTime]
  /\ after \in [Requests -> SUBSET Requests]

Init ==
  /\ durable \in BOOLEAN /\ shared \in BOOLEAN /\ (shared => durable)
  /\ clock = 0
  /\ binding = [s \in States |-> None] /\ expiresAt = [s \in States |-> 0]
  /\ rows = {} /\ consumed = {}
  /\ pc = [r \in Requests |-> "idle"]
  /\ claim = [r \in Requests |-> None] /\ checkedAt = [r \in Requests |-> 0]
  /\ after = [r \in Requests |-> {}]

Grants == {r \in Requests : pc[r] = "granted"}

\* Is no process between the two statements that would have to end first?
Free == shared \/ \A r \in Requests : pc[r] # "checked"

\* Bug: the lifetime is added twice.
IssueTwice(s, b) ==
  /\ Free
  /\ binding[s] = None
  /\ binding' = [binding EXCEPT ![s] = b]
  /\ expiresAt' = [expiresAt EXCEPT ![s] = clock + Ttl + Ttl]
  /\ rows' = rows \cup {s}
  /\ UNCHANGED <<deployment, clock, consumed, callbacks>>

Issue(s, b) ==
  /\ Free
  /\ binding[s] = None
  /\ binding' = [binding EXCEPT ![s] = b]
  /\ expiresAt' = [expiresAt EXCEPT ![s] = clock + Ttl]
  /\ rows' = rows \cup {s}
  /\ UNCHANGED <<deployment, clock, consumed, callbacks>>

\* Bug: the last millisecond counts.
ExpiredLate(s) == expiresAt[s] < clock

Expired(s) == expiresAt[s] <= clock

\* Bug: consumed_at is not looked at.
GoodConsumed(s) == s \in rows /\ ~Expired(s)

Good(s) == s \in rows \ consumed /\ ~Expired(s)

Present(r, c, to) ==
  /\ Free
  /\ pc[r] = "idle"
  /\ pc' = [pc EXCEPT ![r] = to]
  /\ claim' = [claim EXCEPT ![r] = c]
  /\ checkedAt' = [checkedAt EXCEPT ![r] = clock]
  /\ after' = [after EXCEPT ![r] = Grants]

\* Bug: the entry stays.
ConsumeKeeping(r, c) ==
  /\ ~durable
  /\ Present(r, c, IF Good(c.state) /\ binding[c.state] = c.binding THEN "granted" ELSE "rejected")
  /\ UNCHANGED <<deployment, clock, store>>

\* The Map's consume: the entry goes before it is looked at.
Consume(r, c) ==
  /\ ~durable
  /\ Present(r, c, IF Good(c.state) /\ binding[c.state] = c.binding THEN "granted" ELSE "rejected")
  /\ rows' = rows \ {c.state}
  /\ UNCHANGED <<deployment, clock, binding, expiresAt, consumed>>

\* Bug: a claim that does not match uses the row up, as it does in the Map.
SelectBurning(r, c) ==
  /\ durable
  /\ Present(r, c, IF Good(c.state) /\ binding[c.state] = c.binding THEN "checked" ELSE "rejected")
  /\ consumed' = IF Good(c.state) /\ binding[c.state] # c.binding
                   THEN consumed \cup {c.state} ELSE consumed
  /\ UNCHANGED <<deployment, clock, binding, expiresAt, rows>>

\* consumeOAuthState: the SELECT and what follows from it ...
Select(r, c) ==
  /\ durable
  /\ Present(r, c, IF Good(c.state) /\ binding[c.state] = c.binding THEN "checked" ELSE "rejected")
  /\ UNCHANGED <<deployment, clock, store>>

\* ... and the UPDATE, which may find nothing to change: nobody looks.
Mark(r) ==
  /\ pc[r] = "checked"
  /\ pc' = [pc EXCEPT ![r] = "granted"]
  /\ consumed' = consumed \cup (rows \cap {claim[r].state})
  /\ UNCHANGED <<deployment, clock, binding, expiresAt, rows, claim, checkedAt, after>>

\* purgeExpired, purgeExpiredOAuthStates.
Purge ==
  /\ Free
  /\ rows' = {s \in rows : ~Expired(s)}
  /\ consumed' = consumed \cap rows'
  /\ UNCHANGED <<deployment, clock, binding, expiresAt, callbacks>>

\* A process ends: the Map with it, or some callbacks under way; the only process ends
\* with all of them.
Crash(lost) ==
  /\ \A r \in lost : pc[r] = "checked"
  /\ ~shared => \A r \in Requests : pc[r] = "checked" => r \in lost
  /\ pc' = [r \in Requests |-> IF r \in lost THEN "lost" ELSE pc[r]]
  /\ rows' = IF durable THEN rows ELSE {}
  /\ UNCHANGED <<deployment, clock, binding, expiresAt, consumed, claim, checkedAt, after>>

Tick ==
  /\ clock < MaxTime
  /\ clock' = clock + 1
  /\ UNCHANGED <<deployment, store, callbacks>>

Next ==
  \/ \E s \in States, b \in Bindings : Issue(s, b)
  \/ \E r \in Requests, c \in Claims : Consume(r, c)
  \/ \E r \in Requests, c \in Claims : Select(r, c)
  \/ \E r \in Requests : Mark(r)
  \/ Purge
  \/ \E lost \in SUBSET Requests : Crash(lost)
  \/ Tick

Spec == Init /\ [][Next]_vars

-----------------------------------------------------------------------------
(* Properties *)

\* oauth-state-store.js:15-17: "State values are single-use": no two callbacks are granted
\* the same one.
SingleUse == \A q, r \in Grants : claim[q].state = claim[r].state => q = r

\* A state value that has been granted is good for nobody who presents it afterwards,
\* however consumption, purges, expiry and crashes interleave; and what a single process
\* has granted it never grants again.
NoLateReplay ==
  \A q, r \in Grants :
    claim[q].state = claim[r].state /\ q # r =>
      shared /\ q \notin after[r] /\ r \notin after[q]

\* With the table, a callback that is refused, of the wrong user or for the wrong
\* provider, costs the rightful one nothing: a state value that is good stays good
\* until it is used or expires.  (The Map gives the entry up.)
RefusalsCostNothing ==
  [][\A s \in States : durable /\ Good(s) /\ clock' = clock =>
       Good(s)' \/ \E r \in Grants' \ Grants : claim'[r].state = s]_vars

\* Whom a state value in the store is still good for.
Open(s) == IF s \in rows \ consumed THEN binding[s] ELSE None

AdmittedOf(r) == IF pc[r] = "checked" THEN claim[r] ELSE None

GrantOf(r) == IF pc[r] = "granted" THEN claim[r] ELSE None

Once == INSTANCE AuthorizationOnce WITH
          exclusive <- ~shared,
          open <- [s \in States |-> Open(s)],
          admitted <- [r \in Requests |-> AdmittedOf(r)],
          granted <- [r \in Requests |-> GrantOf(r)]

\* The store implements AuthorizationOnce: every grant closes its state value, and is given
\* where the value was open, to the user and for the provider it was issued to; where
\* processes share the table, open when the callback was checked.
ImplementsOnce == Once!Spec

\* Nothing is granted on the strength of a state value that had expired when the
\* store looked, or that was issued to another user or for another provider.
GrantsAreTimely ==
  \A r \in Grants : /\ checkedAt[r] < expiresAt[claim[r].state]
                    /\ binding[claim[r].state] = claim[r].binding

=============================================================================
