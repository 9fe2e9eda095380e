----------------------- MODULE AuthorizationStateProofs -----------------------
(***************************************************************************)
(* Proofs about AuthorizationState, for any number of state values, users, *)
(* providers and callbacks, with the Map and the table, and for one        *)
(* process or several: what both deployments keep, and what only a single  *)
(* process does.                                                           *)
(***************************************************************************)
EXTENDS AuthorizationState, TLAPS

\* Nothing is in the store, or marked, that has not been issued.
RowsIssued == \A s \in rows \cup consumed : binding[s] \in Bindings

\* A callback past the SELECT was entitled to its state value.
EntitledOnce(r) ==
  pc[r] \in {"checked", "granted"} =>
    /\ claim[r] \in Claims
    /\ binding[claim[r].state] = claim[r].binding
    /\ checkedAt[r] < expiresAt[claim[r].state]

Entitled == \A r \in Requests : EntitledOnce(r)

\* In one process the row stays as it was between the two statements.
Alone ==
  ~shared =>
    /\ \A r \in Requests : pc[r] = "checked" => claim[r].state \in rows \ consumed
    /\ \A q, r \in Requests : pc[q] = "checked" /\ pc[r] = "checked" => q = r

\* What has been granted is in no row that is still good ...
Marked == \A r \in Grants : claim[r].state \notin rows \ consumed

\* ... so whoever passes the check afterwards passes it with another state value.
Later(r) ==
  pc[r] \in {"checked", "granted"} =>
    \A q \in after[r] : q \in Grants /\ claim[q].state # claim[r].state

Fresh == \A r \in Requests : Later(r)

\* SingleUse of a single process is not inductive: it needs to know that a granted state
\* value is open to no one else, be it in the rows or between another callback's two
\* statements.
Inv == TypeOK /\ RowsIssued /\ Entitled /\ Alone /\ Marked /\ Fresh /\ (~shared => SingleUse)

USE DEF Bindings, Claims

LEMMA Initially == Init => Inv
  BY InstanceAssumption
     DEF Init, Inv, TypeOK, RowsIssued, Entitled, EntitledOnce, Alone, Marked, Fresh, Later,
         SingleUse, Grants

\* Types are kept by every step, whoever shares the table.
LEMMA TypesKept == TypeOK /\ [Next]_vars => TypeOK'
<1> SUFFICES ASSUME TypeOK, [Next]_vars PROVE TypeOK'
  OBVIOUS
<1> USE InstanceAssumption DEF TypeOK, deployment
<1>1. ASSUME NEW s \in States, NEW b \in Bindings, Issue(s, b) PROVE TypeOK'
  BY <1>1 DEF Issue, callbacks
<1>2. ASSUME NEW r \in Requests, NEW c \in Claims, Consume(r, c) PROVE TypeOK'
  BY <1>2 DEF Consume, Present, Grants
<1>3. ASSUME NEW r \in Requests, NEW c \in Claims, Select(r, c) PROVE TypeOK'
  BY <1>3 DEF Select, Present, Grants, store
<1>4. ASSUME NEW r \in Requests, Mark(r) PROVE TypeOK'
  BY <1>4 DEF Mark
<1>5. CASE Purge
  BY <1>5 DEF Purge, callbacks
<1>6. ASSUME NEW lost \in SUBSET Requests, Crash(lost) PROVE TypeOK'
  BY <1>6 DEF Crash
<1>7. CASE Tick
  BY <1>7 DEF Tick, store, callbacks
<1>8. CASE UNCHANGED vars
  BY <1>8 DEF vars, store, callbacks
<1> QED
  BY <1>1, <1>2, <1>3, <1>4, <1>5, <1>6, <1>7, <1>8 DEF Next

\* The invariant is kept by every step.
LEMMA Inductive == Inv /\ [Next]_vars => Inv'
<1> SUFFICES ASSUME Inv, [Next]_vars PROVE Inv'
  OBVIOUS
<1> USE InstanceAssumption DEF TypeOK, deployment
<1>0. TypeOK'
  BY TypesKept DEF Inv
<1>1. ASSUME NEW s \in States, NEW b \in Bindings, Issue(s, b) PROVE Inv'
  <2>1. binding[s] = None /\ UNCHANGED callbacks /\ UNCHANGED consumed /\ rows' = rows \cup {s}
        /\ UNCHANGED shared
    BY <1>1 DEF Issue
  <2>2. \A r \in Requests : pc[r] \in {"checked", "granted"} => claim[r].state # s
    BY <2>1 DEF Inv, Entitled, EntitledOnce
  <2>3. \A t \in States : t # s => binding'[t] = binding[t] /\ expiresAt'[t] = expiresAt[t]
    BY <1>1 DEF Inv, Issue
  <2>4. RowsIssued'
    BY <1>1 DEF Inv, Issue, RowsIssued
  <2>5. Entitled'
    BY <2>1, <2>2, <2>3 DEF Inv, Entitled, EntitledOnce, callbacks
  <2>6. Alone' /\ Marked'
    BY <2>1, <2>2 DEF Inv, Alone, Marked, Grants, callbacks
  <2>7. Fresh' /\ (~shared => SingleUse)'
    BY <2>1 DEF Inv, Fresh, Later, SingleUse, Grants, callbacks
  <2> QED BY <1>0, <2>4, <2>5, <2>6, <2>7 DEF Inv
<1>2. ASSUME NEW r \in Requests, NEW c \in Claims, Consume(r, c) PROVE Inv'
  <2>1. ~shared => \A q \in Requests : pc[q] # "checked"
    BY <1>2 DEF Consume, Present, Free
  <2>2. /\ pc' = [pc EXCEPT ![r] = pc'[r]] /\ pc'[r] \in {"granted", "rejected"}
        /\ claim' = [claim EXCEPT ![r] = c] /\ checkedAt' = [checkedAt EXCEPT ![r] = clock]
        /\ after' = [after EXCEPT ![r] = Grants] /\ pc[r] = "idle"
        /\ pc'[r] = "granted" => Good(c.state) /\ binding[c.state] = c.binding
        /\ rows' = rows \ {c.state} /\ UNCHANGED <<shared, binding, expiresAt, consumed>>
    BY <1>2 DEF Inv, Consume, Present
  <2>3. RowsIssued'
    BY <2>2 DEF Inv, RowsIssued
  <2>4. Entitled'
    BY <2>2 DEF Inv, Entitled, EntitledOnce, Good, Expired
  <2>5. Alone' /\ Marked'
    BY <2>1, <2>2 DEF Inv, Alone, Marked, Grants
  <2>6. Fresh'
    BY <2>2 DEF Inv, Marked, Fresh, Later, Grants, Good
  <2>7. (~shared => SingleUse)'
    BY <2>2 DEF Inv, Marked, SingleUse, Grants, Good
  <2> QED BY <1>0, <2>3, <2>4, <2>5, <2>6, <2>7 DEF Inv
<1>3. ASSUME NEW r \in Requests, NEW c \in Claims, Select(r, c) PROVE Inv'
  <2>1. ~shared => \A q \in Requests : pc[q] # "checked"
    BY <1>3 DEF Select, Present, Free
  <2>2. /\ pc' = [pc EXCEPT ![r] = pc'[r]] /\ pc'[r] \in {"checked", "rejected"}
        /\ claim' = [claim EXCEPT ![r] = c] /\ checkedAt' = [checkedAt EXCEPT ![r] = clock]
        /\ after' = [after EXCEPT ![r] = Grants] /\ pc[r] = "idle"
        /\ pc'[r] = "checked" => Good(c.state) /\ binding[c.state] = c.binding
        /\ UNCHANGED <<shared, binding, expiresAt, rows, consumed>>
    BY <1>3 DEF Inv, Select, Present, store
  <2>3. RowsIssued'
    BY <2>2 DEF Inv, RowsIssued
  <2>4. Entitled'
    BY <2>2 DEF Inv, Entitled, EntitledOnce, Good, Expired
  <2>5. Alone' /\ Marked'
    BY <2>1, <2>2 DEF Inv, Alone, Marked, Grants, Good
  <2>6. Fresh'
    BY <2>2 DEF Inv, Marked, Fresh, Later, Grants, Good
  <2>7. (~shared => SingleUse)'
    BY <2>2 DEF Inv, SingleUse, Grants
  <2> QED BY <1>0, <2>3, <2>4, <2>5, <2>6, <2>7 DEF Inv
<1>4. ASSUME NEW r \in Requests, Mark(r) PROVE Inv'
  <2>1. /\ pc[r] = "checked" /\ pc' = [pc EXCEPT ![r] = "granted"]
        /\ consumed' = consumed \cup (rows \cap {claim[r].state})
        /\ UNCHANGED <<shared, binding, expiresAt, rows, claim, checkedAt, after>>
    BY <1>4 DEF Mark
  <2>2. ~shared => \A q \in Requests : q # r => pc'[q] = pc[q] /\ pc[q] # "checked"
    BY <2>1 DEF Inv, Alone
  <2>3. RowsIssued'
    BY <2>1 DEF Inv, RowsIssued
  <2>4. Entitled'
    BY <2>1 DEF Inv, Entitled, EntitledOnce
  <2>5. Alone'
    BY <2>1, <2>2 DEF Inv, Alone
  <2>6. Marked' /\ Fresh'
    BY <2>1 DEF Inv, Marked, Fresh, Later, Grants
  <2>7. (~shared => SingleUse)'
    BY <2>1, <2>2 DEF Inv, Alone, Marked, SingleUse, Grants
  <2> QED BY <1>0, <2>3, <2>4, <2>5, <2>6, <2>7 DEF Inv
<1>5. CASE Purge
  <2>1. ~shared => \A q \in Requests : pc[q] # "checked"
    BY <1>5 DEF Purge, Free
  <2>2. /\ rows' \subseteq rows /\ consumed' = consumed \cap rows'
        /\ UNCHANGED <<shared, binding, expiresAt, callbacks>>
    BY <1>5 DEF Purge
  <2>3. RowsIssued' /\ Entitled' /\ Fresh' /\ (~shared => SingleUse)'
    BY <2>2 DEF Inv, RowsIssued, Entitled, EntitledOnce, Fresh, Later, SingleUse, Grants, callbacks
  <2>4. Alone' /\ Marked'
    BY <2>1, <2>2 DEF Inv, Alone, Marked, Grants, callbacks
  <2> QED BY <1>0, <2>3, <2>4 DEF Inv
<1>6. ASSUME NEW lost \in SUBSET Requests, Crash(lost) PROVE Inv'
  <2>1. /\ \A q \in Requests : pc'[q] = IF q \in lost THEN "lost" ELSE pc[q]
        /\ \A q \in lost : pc[q] = "checked"
        /\ ~shared => \A q \in Requests : pc'[q] # "checked"
        /\ rows' \subseteq rows
        /\ UNCHANGED <<shared, binding, expiresAt, consumed, claim, checkedAt, after>>
    BY <1>6 DEF Crash
  <2>2. Grants' = Grants
    BY <2>1 DEF Grants
  <2>3. RowsIssued' /\ Entitled'
    BY <2>1 DEF Inv, RowsIssued, Entitled, EntitledOnce
  <2>4. Alone' /\ Marked'
    BY <2>1, <2>2 DEF Inv, Alone, Marked
  <2>5. Fresh' /\ (~shared => SingleUse)'
    BY <2>1, <2>2 DEF Inv, Fresh, Later, SingleUse
  <2> QED BY <1>0, <2>3, <2>4, <2>5 DEF Inv
<1>7. CASE Tick \/ UNCHANGED vars
  <2>1. UNCHANGED <<deployment, store, callbacks>>
    BY <1>7 DEF Tick, vars
  <2> QED
    BY <1>0, <2>1
    DEF Inv, RowsIssued, Entitled, EntitledOnce, Alone, Marked, Fresh, Later, SingleUse, Grants,
        store, callbacks
<1> QED
  BY <1>1, <1>2, <1>3, <1>4, <1>5, <1>6, <1>7 DEF Next

\* Every reachable state is of the declared types, shared or not.
THEOREM TypeCorrect == Spec => []TypeOK
<1>1. Init => TypeOK
  BY Initially DEF Inv
<1> QED
  BY <1>1, TypesKept, PTL DEF Spec

\* The invariant holds throughout.
LEMMA Invariant == Spec => []Inv
  BY Initially, Inductive, PTL DEF Spec

\* A state value that has been granted is good for nobody who presents it afterwards, and a
\* single process grants it once.
THEOREM NeverReplayed == Spec => []NoLateReplay
<1>1. Inv => NoLateReplay
  BY DEF Inv, Fresh, Later, SingleUse, NoLateReplay, Grants
<1> QED
  BY <1>1, Invariant, PTL

\* A grant rests on a state value of the right user and provider that was in time.
THEOREM Timely == Spec => []GrantsAreTimely
<1>1. Inv => GrantsAreTimely
  BY DEF Inv, Entitled, EntitledOnce, GrantsAreTimely, Grants
<1> QED
  BY <1>1, Invariant, PTL

-----------------------------------------------------------------------------
(* The store implements AuthorizationOnce *)

\* Every step of the store is one of the specification, or none.
LEMMA Simulation ==
  ASSUME Inv, [Next]_vars
  PROVE  Once!Next \/ UNCHANGED Once!vars
<1> USE InstanceAssumption DEF Inv, TypeOK, deployment
<1>1. ASSUME NEW s \in States, NEW b \in Bindings, Issue(s, b) PROVE Once!Next
  <2>1. /\ binding[s] = None /\ binding' = [binding EXCEPT ![s] = b]
        /\ rows' = rows \cup {s} /\ UNCHANGED <<shared, consumed, pc, claim>>
    BY <1>1 DEF Issue, callbacks
  <2>2. s \notin rows \cup consumed
    BY <2>1 DEF RowsIssued
  <2>3. \A r \in Requests : /\ GrantOf(r) # None => GrantOf(r).state # s
                            /\ AdmittedOf(r) # None => AdmittedOf(r).state # s
    BY <2>1 DEF Entitled, EntitledOnce, GrantOf, AdmittedOf
  <2>4. \A t \in States : Open(t)' = IF t = s THEN b ELSE Open(t)
    BY <2>1, <2>2 DEF Open
  <2>5. \A r \in Requests : GrantOf(r)' = GrantOf(r) /\ AdmittedOf(r)' = AdmittedOf(r)
    BY <2>1 DEF GrantOf, AdmittedOf
  <2>6. Open(s) = None
    BY <2>2 DEF Open
  <2> HIDE DEF Inv, TypeOK
  <2>7. Once!Issue(s, b)
    <3>1. [t \in States |-> Open(t)]' = [[t \in States |-> Open(t)] EXCEPT ![s] = b]
      BY <2>4
    <3>2. /\ UNCHANGED [r \in Requests |-> AdmittedOf(r)]
          /\ UNCHANGED [r \in Requests |-> GrantOf(r)]
      BY <2>5
    <3>3. UNCHANGED shared
      BY <2>1
    <3> QED BY <2>3, <2>6, <3>1, <3>2, <3>3 DEF Once!Issue
  <2> QED BY <2>7 DEF Once!Next
<1>2. ASSUME NEW r \in Requests, NEW s \in States, NEW b \in Bindings, UNCHANGED shared,
             Open(s) = b \/ (shared /\ AdmittedOf(r) = [state |-> s, binding |-> b]),
             GrantOf(r) = None,
             \A t \in States : Open(t)' = IF t = s THEN None ELSE Open(t),
             \A q \in Requests : AdmittedOf(q)' = IF q = r THEN None ELSE AdmittedOf(q),
             \A q \in Requests : GrantOf(q)' = IF q = r THEN [state |-> s, binding |-> b]
                                                        ELSE GrantOf(q)
      PROVE  Once!Next
  <2>1. Once!Grant(r, s, b)
    BY <1>2 DEF Once!Grant, Once!Claim
  <2> QED BY <2>1 DEF Once!Next
<1>3. ASSUME NEW S \in SUBSET States, NEW R \in SUBSET Requests, UNCHANGED shared,
             \A t \in States : Open(t)' = IF t \in S THEN None ELSE Open(t),
             \A q \in Requests : AdmittedOf(q)' = IF q \in R THEN None ELSE AdmittedOf(q),
             \A q \in Requests : GrantOf(q)' = GrantOf(q)
      PROVE  Once!Next
  <2>1. Once!Close(S, R)
    BY <1>3 DEF Once!Close
  <2> QED BY <2>1 DEF Once!Next
<1>6. ASSUME NEW r \in Requests, NEW c \in Claims, Consume(r, c) PROVE Once!Next
  <2>1. /\ pc[r] = "idle" /\ pc' = [pc EXCEPT ![r] = pc'[r]] /\ pc'[r] \in {"granted", "rejected"}
        /\ claim' = [claim EXCEPT ![r] = c] /\ UNCHANGED shared
        /\ pc'[r] = "granted" => Good(c.state) /\ binding[c.state] = c.binding
        /\ rows' = rows \ {c.state} /\ UNCHANGED <<binding, consumed>>
    BY <1>6 DEF Consume, Present
  <2>2. \A t \in States : Open(t)' = IF t = c.state THEN None ELSE Open(t)
    BY <2>1 DEF Open
  <2>3. \A q \in Requests : q # r => GrantOf(q)' = GrantOf(q)
    BY <2>1 DEF GrantOf
  <2>4. \A q \in Requests : AdmittedOf(q)' = AdmittedOf(q) /\ AdmittedOf(r) = None
    BY <2>1 DEF AdmittedOf
  <2>5. CASE pc'[r] = "granted"
    <3>1. Open(c.state) = c.binding /\ GrantOf(r) = None
      BY <2>1, <2>5 DEF Open, GrantOf, Good
    <3>2. GrantOf(r)' = [state |-> c.state, binding |-> c.binding]
      BY <2>1, <2>5 DEF GrantOf
    <3>3. c.state \in States /\ c.binding \in Bindings
      OBVIOUS
    <3> QED BY <1>2, <2>1, <2>2, <2>3, <2>4, <3>1, <3>2, <3>3
  <2>6. CASE pc'[r] = "rejected"
    <3>1. GrantOf(r)' = GrantOf(r)
      BY <2>1, <2>6 DEF GrantOf
    <3>2. {c.state} \in SUBSET States
      OBVIOUS
    <3>3. \A t \in States : Open(t)' = IF t \in {c.state} THEN None ELSE Open(t)
      BY <2>2
    <3>4. /\ {} \in SUBSET Requests
          /\ \A q \in Requests : AdmittedOf(q)' = IF q \in {} THEN None ELSE AdmittedOf(q)
      BY <2>4
    <3> HIDE DEF Inv, TypeOK
    <3> QED BY <1>3, <2>1, <2>3, <3>1, <3>2, <3>3, <3>4
  <2> QED BY <2>1, <2>5, <2>6
<1>7. ASSUME NEW r \in Requests, NEW c \in Claims, Select(r, c)
      PROVE  Once!Next \/ UNCHANGED Once!vars
  <2>1. /\ pc[r] = "idle" /\ pc' = [pc EXCEPT ![r] = pc'[r]] /\ pc'[r] \in {"checked", "rejected"}
        /\ claim' = [claim EXCEPT ![r] = c] /\ UNCHANGED <<shared, binding, rows, consumed>>
        /\ pc'[r] = "checked" => Good(c.state) /\ binding[c.state] = c.binding
        /\ ~shared => \A q \in Requests : pc[q] # "checked"
    BY <1>7 DEF Select, Present, store, Free
  <2>2. \A t \in States : Open(t)' = Open(t)
    BY <2>1 DEF Open
  <2>3. \A q \in Requests : GrantOf(q)' = GrantOf(q)
    BY <2>1 DEF GrantOf
  <2>4. /\ \A q \in Requests : q # r => AdmittedOf(q)' = AdmittedOf(q)
        /\ AdmittedOf(r) = None /\ GrantOf(r) = None
    BY <2>1 DEF AdmittedOf, GrantOf
  <2>5. CASE pc'[r] = "checked"
    <3>1. Open(c.state) = c.binding
      BY <2>1, <2>5 DEF Open, Good
    <3>2. AdmittedOf(r)' = [state |-> c.state, binding |-> c.binding]
      BY <2>1, <2>5 DEF AdmittedOf
    <3>3. ~shared => \A q \in Requests : AdmittedOf(q) = None
      BY <2>1 DEF AdmittedOf
    <3>4. c.state \in States /\ c.binding \in Bindings
      OBVIOUS
    <3> HIDE DEF Inv, TypeOK
    <3>5. Once!Admit(r, c.state, c.binding)
      BY <2>1, <2>2, <2>3, <2>4, <3>1, <3>2, <3>3 DEF Once!Admit, Once!Claim
    <3> QED BY <3>4, <3>5 DEF Once!Next
  <2>6. CASE pc'[r] = "rejected"
    <3>1. AdmittedOf(r)' = AdmittedOf(r)
      BY <2>1, <2>4, <2>6 DEF AdmittedOf
    <3> QED BY <2>1, <2>2, <2>3, <2>4, <3>1 DEF Once!vars
  <2> QED BY <2>1, <2>5, <2>6
<1>8. ASSUME NEW r \in Requests, Mark(r) PROVE Once!Next
  <2> DEFINE s == claim[r].state
  <2>1. /\ pc[r] = "checked" /\ pc' = [pc EXCEPT ![r] = "granted"]
        /\ consumed' = consumed \cup (rows \cap {s}) /\ UNCHANGED <<shared, binding, rows, claim>>
    BY <1>8 DEF Mark
  <2>2. /\ claim[r] \in Claims /\ binding[s] = claim[r].binding
        /\ ~shared => s \in rows \ consumed
    BY <2>1 DEF Entitled, EntitledOnce, Alone
  <2>3. /\ ~shared => Open(s) = claim[r].binding
        /\ GrantOf(r) = None /\ AdmittedOf(r) = claim[r]
        /\ \A t \in States : Open(t)' = IF t = s THEN None ELSE Open(t)
    BY <2>1, <2>2 DEF Open, GrantOf, AdmittedOf
  <2>4. claim[r] = [state |-> s, binding |-> claim[r].binding]
    BY <2>2
  <2>5. \A q \in Requests : /\ GrantOf(q)' = IF q = r THEN claim[r] ELSE GrantOf(q)
                            /\ AdmittedOf(q)' = IF q = r THEN None ELSE AdmittedOf(q)
    BY <2>1 DEF GrantOf, AdmittedOf
  <2>6. s \in States /\ claim[r].binding \in Bindings
    BY <2>2
  <2> QED BY <1>2, <2>1, <2>3, <2>4, <2>5, <2>6
<1>9. CASE Purge
  <2> DEFINE S == {s \in States : s \notin rows'}
  <2>1. /\ rows' \subseteq rows /\ consumed' = consumed \cap rows'
        /\ UNCHANGED <<shared, binding, pc, claim>>
    BY <1>9 DEF Purge, callbacks
  <2>2. \A t \in States : Open(t)' = IF t \in S THEN None ELSE Open(t)
    BY <2>1 DEF Open
  <2>3. \A q \in Requests : /\ GrantOf(q)' = GrantOf(q)
                            /\ AdmittedOf(q)' = IF q \in {} THEN None ELSE AdmittedOf(q)
    BY <2>1 DEF GrantOf, AdmittedOf
  <2>4. S \in SUBSET States /\ {} \in SUBSET Requests
    OBVIOUS
  <2> HIDE DEF Inv, TypeOK, S
  <2> QED BY <1>3, <2>1, <2>2, <2>3, <2>4
<1>10. ASSUME NEW lost \in SUBSET Requests, Crash(lost) PROVE Once!Next
  <2> DEFINE S == {s \in States : s \notin rows'}
  <2>1. /\ rows' \subseteq rows
        /\ \A q \in Requests : pc'[q] = IF q \in lost THEN "lost" ELSE pc[q]
        /\ \A q \in lost : pc[q] = "checked"
        /\ UNCHANGED <<shared, binding, consumed, claim>>
    BY <1>10 DEF Crash
  <2>2. \A t \in States : Open(t)' = IF t \in S THEN None ELSE Open(t)
    BY <2>1 DEF Open
  <2>3. \A q \in Requests : /\ GrantOf(q)' = GrantOf(q)
                            /\ AdmittedOf(q)' = IF q \in lost THEN None ELSE AdmittedOf(q)
    BY <2>1 DEF GrantOf, AdmittedOf
  <2>4. S \in SUBSET States /\ {} \in SUBSET Requests
    OBVIOUS
  <2> HIDE DEF Inv, TypeOK, S
  <2> QED BY <1>3, <2>1, <2>2, <2>3, <2>4
<1>11. CASE Tick \/ UNCHANGED vars
  <2>1. UNCHANGED <<shared, binding, rows, consumed, pc, claim>>
    BY <1>11 DEF Tick, vars, store, callbacks
  <2>2. \A t \in States : Open(t)' = Open(t)
    BY <2>1 DEF Open
  <2>3. \A q \in Requests : GrantOf(q)' = GrantOf(q) /\ AdmittedOf(q)' = AdmittedOf(q)
    BY <2>1 DEF GrantOf, AdmittedOf
  <2> QED BY <2>1, <2>2, <2>3 DEF Once!vars
<1> QED
  BY <1>1, <1>6, <1>7, <1>8, <1>9, <1>10, <1>11 DEF Next

\* The store implements AuthorizationOnce, used by one process or by several.
THEOREM KeepsPromise == Spec => ImplementsOnce
<1>1. Init => Once!Init
  BY DEF Init, Once!Init, Open, AdmittedOf, GrantOf
<1>2. Inv /\ [Next]_vars => [Once!Next]_Once!vars
  BY Simulation
<1> QED
  BY <1>1, <1>2, Invariant, PTL DEF Spec, ImplementsOnce, Once!Spec

\* With the table, a refused callback costs the rightful one nothing.
THEOREM RefusalsHarmless == Spec => RefusalsCostNothing
<1>1. ASSUME Inv, [Next]_vars, NEW s \in States, durable, Good(s), clock' = clock
      PROVE  Good(s)' \/ \E r \in Grants' \ Grants : claim'[r].state = s
  <2> USE <1>1 DEF Inv, TypeOK, deployment
  <2>1. CASE \E t \in States, b \in Bindings : Issue(t, b)
    BY <2>1, InstanceAssumption DEF Issue, RowsIssued, Good, Expired
  <2>2. CASE \E r \in Requests, c \in Claims : Consume(r, c)
    BY <2>2 DEF Consume
  <2>3. CASE \E r \in Requests, c \in Claims : Select(r, c)
    BY <2>3 DEF Select, Good, Expired, store
  <2>4. ASSUME NEW r \in Requests, Mark(r)
        PROVE  Good(s)' \/ \E q \in Grants' \ Grants : claim'[q].state = s
    <3>1. CASE claim[r].state = s
      <4>1. r \in Grants' \ Grants /\ claim'[r].state = s
        BY <2>4, <3>1 DEF Mark, Grants
      <4> QED BY <4>1
    <3>2. CASE claim[r].state # s
      BY <2>4, <3>2 DEF Mark, Good, Expired
    <3> QED BY <3>1, <3>2
  <2>5. CASE Purge
    BY <2>5 DEF Purge, Good, Expired
  <2>6. CASE (\E lost \in SUBSET Requests : Crash(lost)) \/ Tick \/ UNCHANGED vars
    BY <2>6 DEF Crash, Tick, vars, store, Good, Expired
  <2> QED
    BY <2>1, <2>2, <2>3, <2>4, <2>5, <2>6 DEF Next
<1>2. Inv /\ [Next]_vars =>
        [\A s \in States : durable /\ Good(s) /\ clock' = clock =>
           Good(s)' \/ \E r \in Grants' \ Grants : claim'[r].state = s]_vars
  BY <1>1
<1> QED
  BY <1>2, Invariant, PTL DEF Spec, RefusalsCostNothing

=============================================================================
