----------------------- MODULE CredentialLifecycleProofs -----------------------
(***************************************************************************)
(* Proofs about CredentialLifecycle: for any number of accounts, calls,    *)
(* consents and keys, and whichever file operations fail, what the vault   *)
(* acknowledged survives and its file can be opened.                       *)
(***************************************************************************)
EXTENDS CredentialLifecycle, TLAPS

\* A call waits only while the process runs, with the account and the secret it began
\* with.
WaitingCalls ==
  \A k \in Calls : pc[k] \in Waiting => up /\ account[k] \in Accounts /\ held[k] \in Secrets

\* A running vault uses the key the operator believes in: a rotation that failed has
\* not changed it.
KeyInUse == up => key = configured

Inv == TypeOK /\ WaitingCalls /\ KeyInUse /\ AcknowledgedSurvives /\ VaultCanBeOpened

LEMMA Initially == Init => Inv
<1> SUFFICES ASSUME Init PROVE Inv
  OBVIOUS
<1> USE InstanceAssumption DEF Init, Nothing
<1>1. TypeOK
  BY DEF TypeOK, Pcs, Entries
<1>2. WaitingCalls /\ KeyInUse
  BY DEF WaitingCalls, Waiting, KeyInUse
<1>3. AcknowledgedSurvives /\ VaultCanBeOpened
  BY DEF AcknowledgedSurvives, FileEntry, VaultCanBeOpened
<1> QED BY <1>1, <1>2, <1>3 DEF Inv

\* put and remove, whatever becomes of the file: types and promises are kept.
LEMMA StoreKeeps ==
  ASSUME Inv, up, NEW a \in Accounts, NEW v \in Secrets \cup {None}, NEW w \in Outcomes,
         Store(a, v, w), UNCHANGED operator
  PROVE  /\ entries' \in Entries /\ key' \in Keys
         /\ disk' \in [key : Keys, entries : Entries] \cup {None}
         /\ permitted' \in [Accounts -> SUBSET (Secrets \cup {None})]
         /\ KeyInUse' /\ AcknowledgedSurvives' /\ VaultCanBeOpened'
<1> USE InstanceAssumption DEF Inv
<1>1. entries' \in Entries /\ key' = key
  BY DEF Store, TypeOK, Entries
<1>2. permitted' \in [Accounts -> SUBSET (Secrets \cup {None})]
  BY DEF Store, TypeOK
<1>3. disk' = disk \/ disk' = [key |-> key, entries |-> entries']
  BY DEF Store, Persist
<1>4. disk' \in [key : Keys, entries : Entries] \cup {None}
  BY <1>1, <1>3 DEF TypeOK
<1>5. KeyInUse'
  BY <1>1 DEF KeyInUse, operator
<1>6. /\ entries'[a] = v /\ v \in permitted'[a]
      /\ \A b \in Accounts \ {a} : entries'[b] = entries[b] /\ permitted'[b] = permitted[b]
  BY DEF Store, TypeOK, Entries
<1>7. \A b \in Accounts : entries'[b] \in permitted'[b]
  BY <1>6 DEF AcknowledgedSurvives
<1>8. \A b \in Accounts : FileEntry(b)' \in permitted'[b]
  <2>1. CASE disk' = disk /\ w # "ok"
    <3>1. \A b \in Accounts : permitted[b] \subseteq permitted'[b]
      BY <2>1 DEF Store, TypeOK
    <3> QED BY <2>1, <3>1 DEF AcknowledgedSurvives, FileEntry
  <2>2. CASE disk' = [key |-> key, entries |-> entries']
    <3>1. [key |-> key, entries |-> entries'] \in [key : Keys, entries : Entries]
      BY <1>1 DEF TypeOK
    <3>2. disk' # None /\ disk'.entries = entries'
      BY <2>2, <3>1
    <3> QED BY <1>7, <3>2 DEF FileEntry
  <2>3. w = "ok" => disk' = [key |-> key, entries |-> entries']
    BY DEF Store, Persist
  <2> QED BY <1>3, <2>1, <2>2, <2>3
<1>9. AcknowledgedSurvives'
  BY <1>7, <1>8 DEF AcknowledgedSurvives
<1>10. VaultCanBeOpened'
  BY <1>3 DEF VaultCanBeOpened, KeyInUse, operator
<1> QED BY <1>1, <1>2, <1>4, <1>5, <1>9, <1>10 DEF TypeOK

\* A call that begins with an account takes the account's secret along.
LEMMA BeginKeeps ==
  ASSUME Inv, NEW k \in Calls, NEW a \in Accounts, NEW to \in Pcs, Begin(k, a, to),
         to \in Waiting => entries[a] # None, UNCHANGED <<vault, operator>>
  PROVE  /\ pc' \in [Calls -> Pcs] /\ account' \in [Calls -> Accounts \cup {None}]
         /\ held' \in [Calls -> Secrets \cup {None}] /\ WaitingCalls'
<1>1. /\ pc' = [pc EXCEPT ![k] = to] /\ account' = [account EXCEPT ![k] = a]
      /\ held' = [held EXCEPT ![k] = entries[a]] /\ up /\ up' = up
  BY DEF Begin, Goto, operator
<1>2. entries[a] \in Secrets \cup {None}
  BY DEF Inv, TypeOK, Entries
<1> QED
  BY <1>1, <1>2 DEF Inv, TypeOK, WaitingCalls

\* A call that ends, or goes on as it was, leaves the waiting ones alone.
LEMMA EndKeeps ==
  ASSUME Inv, NEW k \in Calls, NEW to \in Pcs \ Waiting, Goto(k, to),
         UNCHANGED <<account, held, up>>
  PROVE  pc' \in [Calls -> Pcs] /\ WaitingCalls'
BY DEF Goto, Inv, TypeOK, WaitingCalls

LEMMA RemovalKeeps ==
  ASSUME Inv, up, NEW k \in Calls, NEW a \in Accounts, NEW w \in Outcomes, RemoveEntry(k, a, w),
         UNCHANGED operator
  PROVE  /\ entries' \in Entries /\ key' \in Keys
         /\ disk' \in [key : Keys, entries : Entries] \cup {None}
         /\ permitted' \in [Accounts -> SUBSET (Secrets \cup {None})]
         /\ revoked' \in SUBSET Grants
         /\ KeyInUse' /\ AcknowledgedSurvives' /\ VaultCanBeOpened'
         /\ \E to \in Pcs \ Waiting : Goto(k, to)
<1>1. CASE entries[a] = None
  <2>1. UNCHANGED <<vault, revoked>> /\ Goto(k, "failed")
    BY <1>1 DEF RemoveEntry
  <2> QED
    BY <2>1 DEF Inv, TypeOK, KeyInUse, AcknowledgedSurvives, FileEntry, VaultCanBeOpened, vault,
       operator, Pcs, Waiting
<1>2. CASE entries[a] # None
  <2>1. Store(a, None, w) /\ Goto(k, IF w = "ok" THEN "revoked" ELSE "failed")
    BY <1>2 DEF RemoveEntry
  <2>2. revoked' \in SUBSET Grants
    BY <1>2 DEF RemoveEntry, Inv, TypeOK, Entries, Secrets
  <2>3. \E to \in Pcs \ Waiting : Goto(k, to)
    BY <2>1 DEF Pcs, Waiting
  <2> QED BY <2>1, <2>2, <2>3, StoreKeeps
<1> QED BY <1>1, <1>2

LEMMA Inductive == Inv /\ [Next]_vars => Inv'
<1> SUFFICES ASSUME Inv, [Next]_vars PROVE Inv'
  OBVIOUS
<1> USE InstanceAssumption
<1>1. ASSUME NEW a \in Accounts, NEW g \in Grants, NEW r \in BOOLEAN, NEW w \in Outcomes,
             Consent(a, g, r, w)
      PROVE  Inv'
  <2> DEFINE secret == [grant |-> g, refreshable |-> r, expiresAt |-> clock]
  <2>1. /\ up /\ Store(a, secret, w) /\ grants' = grants \cup {g} /\ live' = live \cup {g}
        /\ UNCHANGED <<clock, service, operator, revoked>>
    BY <1>1 DEF Consent
  <2>2. secret \in Secrets \cup {None}
    BY DEF Inv, TypeOK, Secrets
  <2>3. /\ entries' \in Entries /\ key' \in Keys
        /\ disk' \in [key : Keys, entries : Entries] \cup {None}
        /\ permitted' \in [Accounts -> SUBSET (Secrets \cup {None})]
        /\ KeyInUse' /\ AcknowledgedSurvives' /\ VaultCanBeOpened'
    BY <2>1, <2>2, StoreKeeps
  <2>4. TypeOK' /\ WaitingCalls'
    BY <2>1, <2>3 DEF Inv, TypeOK, WaitingCalls, service, operator
  <2> QED BY <2>3, <2>4 DEF Inv
<1>2. ASSUME NEW k \in Keys, NEW w \in Outcomes, Rotate(k, w) PROVE Inv'
  <2>1. /\ up /\ up' = up /\ UNCHANGED <<clock, grants, live, service, entries, permitted, revoked>>
        /\ \/ disk' = disk /\ w # "ok"
           \/ disk' = [key |-> k, entries |-> entries]
    BY <1>2 DEF Rotate, Persist
  <2>2. \/ key' = k /\ configured' = k /\ tried' = {} /\ disk' = [key |-> k, entries |-> entries]
        \/ tried' = tried \cup {k} /\ UNCHANGED <<key, configured>>
    BY <1>2 DEF Rotate, Persist
  <2>3. [key |-> k, entries |-> entries] \in [key : Keys, entries : Entries]
    BY DEF Inv, TypeOK
  <2>4. TypeOK'
    BY <2>1, <2>2, <2>3 DEF Inv, TypeOK, service
  <2>5. WaitingCalls' /\ KeyInUse'
    BY <2>1, <2>2 DEF Inv, WaitingCalls, KeyInUse, service
  <2>6. AcknowledgedSurvives'
    <3>1. CASE disk' = disk
      BY <2>1, <3>1 DEF Inv, AcknowledgedSurvives, FileEntry
    <3>2. CASE disk' = [key |-> k, entries |-> entries]
      <4>1. disk' # None /\ disk'.entries = entries
        BY <2>3, <3>2
      <4> QED BY <2>1, <4>1 DEF Inv, AcknowledgedSurvives, FileEntry
    <3> QED BY <2>1, <3>1, <3>2
  <2>7. VaultCanBeOpened'
    BY <2>1, <2>2 DEF Inv, VaultCanBeOpened
  <2> QED BY <2>4, <2>5, <2>6, <2>7 DEF Inv
<1>3. ASSUME NEW k \in Calls, NEW a \in Accounts, NEW to \in Pcs, Begin(k, a, to),
             to \in Waiting => entries[a] # None,
             UNCHANGED <<clock, grants, live, vault, operator, revoked>>
      PROVE  Inv'
  <2>1. /\ pc' \in [Calls -> Pcs] /\ account' \in [Calls -> Accounts \cup {None}]
        /\ held' \in [Calls -> Secrets \cup {None}] /\ WaitingCalls'
    BY <1>3, BeginKeeps
  <2>2. TypeOK'
    BY <1>3, <2>1 DEF Inv, TypeOK, Begin, vault, operator
  <2>3. KeyInUse' /\ AcknowledgedSurvives' /\ VaultCanBeOpened'
    BY <1>3 DEF Inv, KeyInUse, AcknowledgedSurvives, FileEntry, VaultCanBeOpened, vault, operator
  <2> QED BY <2>1, <2>2, <2>3 DEF Inv
<1>4. ASSUME NEW k \in Calls, NEW a \in Accounts, Resolve(k, a) PROVE Inv'
  <2>1. UNCHANGED <<clock, grants, live, vault, operator, revoked>>
    BY <1>4 DEF Resolve
  <2>2. CASE entries[a] = None /\ Begin(k, a, "failed")
    BY <1>3, <2>1, <2>2 DEF Pcs, Waiting
  <2>3. CASE entries[a] # None
    <3>1. \E to \in Pcs : Begin(k, a, to)
      BY <1>4, <2>3 DEF Resolve, Pcs
    <3> QED BY <1>3, <2>1, <2>3, <3>1
  <2> QED BY <1>4, <2>2, <2>3 DEF Resolve
<1>5. ASSUME NEW k \in Calls, NEW a \in Accounts, RevokeUpstream(k, a) PROVE Inv'
  <2>1. \E to \in Pcs : Begin(k, a, to) /\ (to \in Waiting => entries[a] # None)
    BY <1>5 DEF RevokeUpstream, Pcs, Waiting
  <2> QED BY <1>3, <1>5, <2>1 DEF RevokeUpstream
<1>6. ASSUME NEW k \in Calls, NEW a \in Accounts, NEW w \in Outcomes, RevokeAtOnce(k, a, w)
      PROVE  Inv'
  <2>1. /\ up /\ RemoveEntry(k, a, w) /\ account' = [account EXCEPT ![k] = a]
        /\ UNCHANGED <<clock, grants, live, held, answered, operator>>
    BY <1>6 DEF RevokeAtOnce
  <2>2. PICK to \in Pcs \ Waiting : Goto(k, to)
    BY <2>1, RemovalKeeps
  <2>3. pc' \in [Calls -> Pcs] /\ WaitingCalls' /\ account' \in [Calls -> Accounts \cup {None}]
    BY <2>1, <2>2 DEF Goto, Inv, TypeOK, WaitingCalls, operator
  <2>4. /\ entries' \in Entries /\ key' \in Keys
        /\ disk' \in [key : Keys, entries : Entries] \cup {None}
        /\ permitted' \in [Accounts -> SUBSET (Secrets \cup {None})]
        /\ revoked' \in SUBSET Grants
        /\ KeyInUse' /\ AcknowledgedSurvives' /\ VaultCanBeOpened'
    BY <2>1, RemovalKeeps
  <2>5. TypeOK'
    BY <2>1, <2>3, <2>4 DEF Inv, TypeOK, operator
  <2> QED BY <2>3, <2>4, <2>5 DEF Inv
<1>7. ASSUME NEW k \in Calls, NEW n \in ExpiresIns, NEW w \in Outcomes, RefreshAnswers(k, n, w)
      PROVE  Inv'
  <2> DEFINE secret == [held[k] EXCEPT !.expiresAt = Expiry(n)]
  <2>1. /\ pc[k] = "refreshing" /\ Store(account[k], secret, w)
        /\ Goto(k, IF w = "ok" THEN "served" ELSE "failed")
        /\ UNCHANGED <<clock, grants, live, account, held, answered, operator, revoked>>
    BY <1>7 DEF RefreshAnswers
  <2>2. up /\ account[k] \in Accounts /\ held[k] \in Secrets
    BY <2>1 DEF Inv, WaitingCalls, Waiting
  <2>3. Expiry(n) \in Nat
    <3>1. n \in Int /\ clock \in Nat
      BY DEF Inv, TypeOK
    <3> QED BY <3>1 DEF Expiry
  <2>4. secret \in Secrets \cup {None}
    BY <2>2, <2>3 DEF Secrets
  <2>5. /\ entries' \in Entries /\ key' \in Keys
        /\ disk' \in [key : Keys, entries : Entries] \cup {None}
        /\ permitted' \in [Accounts -> SUBSET (Secrets \cup {None})]
        /\ KeyInUse' /\ AcknowledgedSurvives' /\ VaultCanBeOpened'
    BY <2>1, <2>2, <2>4, StoreKeeps
  <2>6. PICK to \in Pcs \ Waiting : Goto(k, to)
    BY <2>1 DEF Pcs, Waiting
  <2>7. pc' \in [Calls -> Pcs] /\ WaitingCalls'
    BY <2>1, <2>6, EndKeeps DEF operator
  <2>8. TypeOK'
    BY <2>1, <2>5, <2>7 DEF Inv, TypeOK, operator
  <2> QED BY <2>5, <2>7, <2>8 DEF Inv
<1>8. ASSUME NEW k \in Calls, NEW w \in Outcomes, RevokeAnswers(k, w) PROVE Inv'
  <2>1. /\ pc[k] = "revoking" /\ RemoveEntry(k, account[k], w)
        /\ UNCHANGED <<clock, grants, live, account, held, answered, operator>>
    BY <1>8 DEF RevokeAnswers
  <2>2. up /\ account[k] \in Accounts
    BY <2>1 DEF Inv, WaitingCalls, Waiting
  <2>3. PICK to \in Pcs \ Waiting : Goto(k, to)
    BY <2>1, <2>2, RemovalKeeps
  <2>4. pc' \in [Calls -> Pcs] /\ WaitingCalls'
    BY <2>1, <2>3, EndKeeps DEF operator
  <2>5. /\ entries' \in Entries /\ key' \in Keys
        /\ disk' \in [key : Keys, entries : Entries] \cup {None}
        /\ permitted' \in [Accounts -> SUBSET (Secrets \cup {None})]
        /\ revoked' \in SUBSET Grants
        /\ KeyInUse' /\ AcknowledgedSurvives' /\ VaultCanBeOpened'
    BY <2>1, <2>2, RemovalKeeps
  <2>6. TypeOK'
    BY <2>1, <2>4, <2>5 DEF Inv, TypeOK, operator
  <2> QED BY <2>4, <2>5, <2>6 DEF Inv
<1>9. ASSUME NEW k \in Calls, RefreshFails(k) \/ RevokeFails(k) PROVE Inv'
  <2>1. /\ Goto(k, "failed") /\ "failed" \in Pcs \ Waiting
        /\ UNCHANGED <<clock, grants, live, account, held, answered, vault, operator, revoked>>
    BY <1>9 DEF RefreshFails, RevokeFails, Pcs, Waiting
  <2>2. pc' \in [Calls -> Pcs] /\ WaitingCalls'
    BY <2>1, EndKeeps DEF operator
  <2>3. TypeOK'
    BY <2>1, <2>2 DEF Inv, TypeOK, vault, operator
  <2>4. KeyInUse' /\ AcknowledgedSurvives' /\ VaultCanBeOpened'
    BY <2>1 DEF Inv, KeyInUse, AcknowledgedSurvives, FileEntry, VaultCanBeOpened, vault, operator
  <2> QED BY <2>2, <2>3, <2>4 DEF Inv
<1>10. ASSUME (\E k \in Calls : GoogleAnswers(k)) \/ (\E g \in Grants : Withdraw(g)) \/ Tick
                \/ UNCHANGED vars
       PROVE  Inv'
  <2>1. UNCHANGED <<grants, pc, account, held, vault, operator, revoked>>
    BY <1>10 DEF GoogleAnswers, Withdraw, Tick, vars, service
  <2>2. clock' \in 0 .. MaxTime /\ live' \subseteq live /\ answered' \subseteq Calls
    BY <1>10 DEF GoogleAnswers, Withdraw, Tick, vars, service, Inv, TypeOK
  <2>3. TypeOK'
    BY <2>1, <2>2 DEF Inv, TypeOK, vault, operator
  <2>4. WaitingCalls' /\ KeyInUse' /\ AcknowledgedSurvives' /\ VaultCanBeOpened'
    BY <2>1 DEF Inv, WaitingCalls, KeyInUse, AcknowledgedSurvives, FileEntry, VaultCanBeOpened,
       vault, operator
  <2> QED BY <2>3, <2>4 DEF Inv
<1>11. CASE Crash
  <2>1. /\ up' = FALSE /\ entries' = Nothing
        /\ \A k \in Calls : pc'[k] = IF pc[k] \in Waiting THEN "lost" ELSE pc[k]
        /\ pc' \in [Calls -> Pcs]
        /\ UNCHANGED <<clock, grants, live, account, held, answered, key, disk, permitted,
                       configured, tried, revoked>>
    BY <1>11 DEF Crash, Inv, TypeOK, Pcs
  <2>2. TypeOK'
    BY <2>1 DEF Inv, TypeOK, Nothing, Entries
  <2>3. WaitingCalls' /\ KeyInUse'
    BY <2>1 DEF WaitingCalls, Waiting, KeyInUse
  <2>4. AcknowledgedSurvives' /\ VaultCanBeOpened'
    BY <2>1 DEF Inv, AcknowledgedSurvives, FileEntry, VaultCanBeOpened
  <2> QED BY <2>2, <2>3, <2>4 DEF Inv
<1>12. ASSUME NEW k \in Keys, Restart(k) PROVE Inv'
  <2>1. /\ ~up /\ (disk # None => disk.key = k) /\ up' = TRUE
        /\ entries' = IF disk = None THEN Nothing ELSE disk.entries
        /\ key' = k /\ configured' = k /\ tried' = {}
        /\ UNCHANGED <<clock, grants, live, service, disk, permitted, revoked>>
    BY <1>12 DEF Restart
  <2>2. TypeOK'
    BY <2>1 DEF Inv, TypeOK, Nothing, Entries, service
  <2>3. WaitingCalls' /\ KeyInUse'
    BY <2>1 DEF Inv, WaitingCalls, KeyInUse, service
  <2>4. \A a \in Accounts : entries'[a] = FileEntry(a)
    BY <2>1 DEF FileEntry, Nothing
  <2>5. AcknowledgedSurvives' /\ VaultCanBeOpened'
    BY <2>1, <2>4 DEF Inv, AcknowledgedSurvives, FileEntry, VaultCanBeOpened
  <2> QED BY <2>2, <2>3, <2>5 DEF Inv
<1> QED
  BY <1>1, <1>2, <1>4, <1>5, <1>6, <1>7, <1>8, <1>9, <1>10, <1>11, <1>12 DEF Next, Answer

LEMMA Invariant == Spec => []Inv
BY Initially, Inductive, PTL DEF Spec

\* Every reachable state is of the declared types.
THEOREM TypeCorrect == Spec => []TypeOK
<1>1. Inv => TypeOK
  BY DEF Inv
<1> QED
  BY <1>1, Invariant, PTL

\* What a put or remove acknowledged is what the file holds, until a later operation
\* on the same account.
THEOREM Acknowledged == Spec => []AcknowledgedSurvives
<1>1. Inv => AcknowledgedSurvives
  BY DEF Inv
<1> QED
  BY <1>1, Invariant, PTL

\* The file is under the key the operator last saw accepted, or under one that a
\* failed rotation was given.
THEOREM Openable == Spec => []VaultCanBeOpened
<1>1. Inv => VaultCanBeOpened
  BY DEF Inv
<1> QED
  BY <1>1, Invariant, PTL

-----------------------------------------------------------------------------
(* Removal and revocation *)

\* Memory or file holds the grant for the account.
Stored(a, g) ==
  \/ entries[a] # None /\ entries[a].grant = g
  \/ FileEntry(a) # None /\ FileEntry(a).grant = g

\* Or a call under way may still store it.
Mentioned(a, g) ==
  \/ Stored(a, g)
  \/ \E k \in Calls : pc[k] \in Waiting /\ account[k] = a /\ held[k].grant = g

\* A grant was given, and to one account: a revocation of one account's credential leaves
\* no other account's copy behind.
OneAccount ==
  /\ revoked \subseteq grants
  /\ \A a \in Accounts, g \in Grants : Mentioned(a, g) =>
       g \in grants /\ \A b \in Accounts : Mentioned(b, g) => b = a

\* A process that is down remembers nothing.
Forgotten == ~up => \A a \in Accounts : entries[a] = None

IInv == Inv /\ OneAccount /\ Forgotten

LEMMA StoredGrantsAre ==
  \A g : g \in StoredGrants <=> \E a \in Accounts : Stored(a, g)
  BY DEF StoredGrants, Stored

\* What a put or remove leaves in memory and file.
LEMMA StoreLeaves ==
  ASSUME Inv, NEW a \in Accounts, NEW v \in Secrets \cup {None}, NEW w \in Outcomes,
         Store(a, v, w)
  PROVE  /\ entries'[a] = v /\ \A b \in Accounts \ {a} : entries'[b] = entries[b]
         /\ \A b \in Accounts : FileEntry(b)' \in {FileEntry(b), entries'[b]}
         /\ w = "ok" => \A b \in Accounts : FileEntry(b)' = entries'[b]
<1>1. entries' \in Entries /\ entries' = [entries EXCEPT ![a] = v] /\ entries \in Entries
      /\ key \in Keys
  BY DEF Store, Inv, TypeOK, Entries
<1>2. CASE disk' = disk /\ w # "ok"
  BY <1>1, <1>2 DEF FileEntry, Entries
<1>3. CASE disk' = [key |-> key, entries |-> entries']
  <2>1. disk' # None /\ disk'.entries = entries'
    <3>1. [key |-> key, entries |-> entries'] \in [key : Keys, entries : Entries]
      BY <1>1
    <3> QED BY <1>3, <3>1, InstanceAssumption
  <2> QED BY <1>1, <2>1 DEF FileEntry, Entries
<1> QED BY <1>2, <1>3 DEF Store, Persist

\* Steps that neither give a consent nor put or remove anything.
Quiet ==
  /\ revoked' = revoked /\ grants' = grants
  /\ \A a \in Accounts, g \in Grants : /\ Stored(a, g)' => Stored(a, g)
                                       /\ Mentioned(a, g)' => Mentioned(a, g)
  /\ \A a \in Accounts : up' /\ entries[a] # None => entries'[a] # None

\* remove, for a caller who asked for a local one or whom Google has confirmed.
Removal(k, a, w) ==
  /\ RemoveEntry(k, a, w)
  /\ account'[k] = a /\ \A j \in Calls \ {k} : account'[j] = account[j]
  /\ pc[k] = "idle" \/ (pc[k] = "revoking" /\ k \in answered)
  /\ UNCHANGED <<grants, held, up>>

\* Every step is a consent, the answer to a refresh, a removal, or quiet.
LEMMA StepsAre ==
  ASSUME IInv, [Next]_vars
  PROVE  \/ \E a \in Accounts, g \in Grants, r \in BOOLEAN, w \in Outcomes : Consent(a, g, r, w)
         \/ \E k \in Calls, n \in ExpiresIns, w \in Outcomes : RefreshAnswers(k, n, w)
         \/ \E k \in Calls, a \in Accounts, w \in Outcomes : Removal(k, a, w)
         \/ Quiet
<1> DEFINE Goal ==
      \/ \E a \in Accounts, g \in Grants, r \in BOOLEAN, w \in Outcomes : Consent(a, g, r, w)
      \/ \E k \in Calls, n \in ExpiresIns, w \in Outcomes : RefreshAnswers(k, n, w)
      \/ \E k \in Calls, a \in Accounts, w \in Outcomes : Removal(k, a, w)
      \/ Quiet
<1> SUFFICES Goal
  OBVIOUS
<1>0. TypeOK /\ WaitingCalls
  BY DEF IInv, Inv
<1>1. ASSUME UNCHANGED <<grants, revoked, entries, disk>>,
             \A k \in Calls : pc'[k] \in Waiting =>
               /\ pc[k] \in Waiting /\ account'[k] = account[k] /\ held'[k] = held[k]
      PROVE  Quiet
  BY <1>1 DEF Quiet, Stored, Mentioned, FileEntry
<1>2. ASSUME NEW k \in Keys, NEW w \in Outcomes, Rotate(k, w) PROVE Quiet
  <2>1. /\ UNCHANGED <<grants, service, entries, revoked>>
        /\ disk' = disk \/ disk' = [key |-> k, entries |-> entries]
    BY <1>2 DEF Rotate, Persist
  <2>2. \A b \in Accounts : FileEntry(b)' \in {FileEntry(b), entries[b]}
    <3>1. [key |-> k, entries |-> entries] # None
      BY <1>0, InstanceAssumption DEF TypeOK
    <3> QED BY <2>1, <3>1 DEF FileEntry
  <2>3. UNCHANGED <<pc, account, held>>
    BY <2>1 DEF service
  <2> QED BY <2>1, <2>2, <2>3 DEF Quiet, Stored, Mentioned
<1>3. ASSUME NEW k \in Calls, NEW a \in Accounts, NEW to, Begin(k, a, to),
             to \in Waiting => entries[a] # None,
             UNCHANGED <<grants, vault, revoked>>
      PROVE  Quiet
  <2>1. /\ pc' = [pc EXCEPT ![k] = to] /\ account' = [account EXCEPT ![k] = a]
        /\ held' = [held EXCEPT ![k] = entries[a]] /\ UNCHANGED <<entries, disk>>
    BY <1>3 DEF Begin, Goto, vault
  <2>2. /\ pc'[k] = to /\ account'[k] = a /\ held'[k] = entries[a]
        /\ \A j \in Calls \ {k} : pc'[j] = pc[j] /\ account'[j] = account[j] /\ held'[j] = held[j]
    BY <1>0, <2>1 DEF TypeOK
  <2>3. ASSUME NEW b \in Accounts, NEW g \in Grants, Mentioned(b, g)' PROVE Mentioned(b, g)
    <3>1. CASE Stored(b, g)'
      BY <2>1, <3>1 DEF Mentioned, Stored, FileEntry
    <3>2. ASSUME NEW j \in Calls, pc'[j] \in Waiting, account'[j] = b, held'[j].grant = g
          PROVE  Mentioned(b, g)
      BY <1>3, <2>2, <3>2 DEF Mentioned, Stored
    <3> QED BY <2>3, <3>1, <3>2 DEF Mentioned
  <2> QED BY <1>3, <2>1, <2>3 DEF Quiet, Stored, FileEntry
<1>4. ASSUME NEW k \in Calls, NEW a \in Accounts, Resolve(k, a) \/ RevokeUpstream(k, a)
      PROVE  Quiet
  <2>1. /\ UNCHANGED <<grants, vault, revoked>>
        /\ \E to : Begin(k, a, to) /\ (to \in Waiting => entries[a] # None)
    BY <1>4 DEF Resolve, RevokeUpstream, Waiting
  <2> QED BY <1>3, <2>1
<1>5. ASSUME NEW k \in Calls, NEW a \in Accounts, NEW w \in Outcomes, RevokeAtOnce(k, a, w)
      PROVE  Removal(k, a, w)
  BY <1>0, <1>5 DEF RevokeAtOnce, Removal, TypeOK, operator
<1>6. ASSUME NEW k \in Calls, NEW w \in Outcomes, RevokeAnswers(k, w)
      PROVE  account[k] \in Accounts /\ Removal(k, account[k], w)
  BY <1>0, <1>6 DEF RevokeAnswers, Removal, WaitingCalls, Waiting, operator
<1>7. ASSUME NEW k \in Calls, RefreshFails(k) \/ RevokeFails(k) PROVE Quiet
  BY <1>0, <1>1, <1>7 DEF RefreshFails, RevokeFails, Goto, TypeOK, Waiting, vault
<1>8. ASSUME (\E k \in Calls : GoogleAnswers(k)) \/ (\E g \in Grants : Withdraw(g)) \/ Tick
               \/ UNCHANGED vars
      PROVE  Quiet
  <2>1. UNCHANGED <<grants, pc, account, held, vault, revoked>>
    BY <1>8 DEF GoogleAnswers, Withdraw, Tick, vars, service
  <2> QED BY <1>1, <2>1 DEF vault
<1>9. CASE Crash
  <2>1. /\ up' = FALSE /\ \A a \in Accounts : entries'[a] = None
        /\ \A k \in Calls : pc'[k] \notin Waiting
        /\ UNCHANGED <<grants, disk, revoked>>
    BY <1>9 DEF Crash, Nothing, Waiting
  <2> QED BY <2>1 DEF Quiet, Stored, Mentioned, FileEntry
<1>10. ASSUME NEW k \in Keys, Restart(k) PROVE Quiet
  <2>1. /\ ~up /\ UNCHANGED <<grants, service, disk, revoked>>
        /\ entries' = IF disk = None THEN Nothing ELSE disk.entries
    BY <1>10 DEF Restart
  <2>2. \A a \in Accounts : entries'[a] = FileEntry(a) /\ FileEntry(a)' = FileEntry(a)
    BY <2>1 DEF FileEntry, Nothing
  <2>3. \A a \in Accounts : entries[a] = None
    BY <2>1 DEF IInv, Forgotten
  <2>4. UNCHANGED <<pc, account, held>>
    BY <2>1 DEF service
  <2> QED BY <2>1, <2>2, <2>3, <2>4 DEF Quiet, Stored, Mentioned
<1>11. ASSUME NEW k \in Calls, Answer(k) PROVE Goal
  <2>1. CASE \E n \in ExpiresIns, w \in Outcomes : RefreshAnswers(k, n, w)
    BY <2>1
  <2>2. CASE \E w \in Outcomes : RevokeAnswers(k, w)
    BY <1>6, <2>2
  <2> QED BY <1>11, <2>1, <2>2 DEF Answer
<1>12. (\E k \in Calls, a \in Accounts, w \in Outcomes : RevokeAtOnce(k, a, w)) => Goal
  BY <1>5
<1>13. (\E a \in Accounts, g \in Grants, r \in BOOLEAN, w \in Outcomes : Consent(a, g, r, w)) => Goal
  OBVIOUS
<1>14. Quiet => Goal
  OBVIOUS
<1> HIDE DEF Goal
<1> QED
  BY <1>2, <1>4, <1>7, <1>8, <1>9, <1>10, <1>11, <1>12, <1>13, <1>14 DEF Next

\* The consent that a step gives is new; what else it mentions, it found.
LEMMA OneAccountKept == IInv /\ [Next]_vars => OneAccount'
<1> SUFFICES ASSUME IInv, [Next]_vars PROVE OneAccount'
  OBVIOUS
<1>0. Inv /\ TypeOK /\ WaitingCalls /\ OneAccount
  BY DEF IInv, Inv
<1>1. ASSUME revoked' \subseteq grants', grants' = grants,
             \A a \in Accounts, g \in Grants : Mentioned(a, g)' => Mentioned(a, g)
      PROVE  OneAccount'
  BY <1>0, <1>1 DEF OneAccount
<1>2. CASE Quiet
  BY <1>0, <1>1, <1>2 DEF Quiet, OneAccount
<1>3. ASSUME NEW a \in Accounts, NEW g \in Grants, NEW r \in BOOLEAN, NEW w \in Outcomes,
             Consent(a, g, r, w)
      PROVE  OneAccount'
  <2> DEFINE secret == [grant |-> g, refreshable |-> r, expiresAt |-> clock]
  <2>1. /\ g \notin grants /\ grants' = grants \cup {g} /\ Store(a, secret, w)
        /\ UNCHANGED <<pc, account, held, revoked>>
    BY <1>3 DEF Consent, service
  <2>2. secret \in Secrets \cup {None} /\ secret.grant = g
    BY <1>0 DEF TypeOK, Secrets
  <2>3. /\ entries'[a] = secret /\ \A b \in Accounts \ {a} : entries'[b] = entries[b]
        /\ \A b \in Accounts : FileEntry(b)' \in {FileEntry(b), entries'[b]}
    BY <1>0, <2>1, <2>2, StoreLeaves
  <2> HIDE DEF secret
  <2>4. \A b \in Accounts, h \in Grants :
          Mentioned(b, h)' => Mentioned(b, h) \/ (b = a /\ h = g)
    BY <2>1, <2>2, <2>3 DEF Mentioned, Stored
  <2>5. \A b \in Accounts : ~Mentioned(b, g)
    BY <1>0, <2>1 DEF OneAccount
  <2> QED BY <1>0, <2>1, <2>4, <2>5 DEF OneAccount
<1>4. ASSUME NEW k \in Calls, NEW n \in ExpiresIns, NEW w \in Outcomes, RefreshAnswers(k, n, w)
      PROVE  OneAccount'
  <2> DEFINE secret == [held[k] EXCEPT !.expiresAt = Expiry(n)]
  <2>1. /\ pc[k] = "refreshing" /\ Store(account[k], secret, w)
        /\ Goto(k, IF w = "ok" THEN "served" ELSE "failed")
        /\ UNCHANGED <<grants, account, held, revoked>>
    BY <1>4 DEF RefreshAnswers
  <2>2. account[k] \in Accounts /\ held[k] \in Secrets
    BY <1>0, <2>1 DEF WaitingCalls, Waiting
  <2>3. secret \in Secrets \cup {None} /\ secret.grant = held[k].grant
    <3>1. n \in Int /\ clock \in Nat
      BY <1>0, InstanceAssumption DEF TypeOK
    <3>2. Expiry(n) \in Nat
      BY <3>1 DEF Expiry
    <3> QED BY <2>2, <3>2 DEF Secrets
  <2>4. /\ entries'[account[k]] = secret
        /\ \A b \in Accounts \ {account[k]} : entries'[b] = entries[b]
        /\ \A b \in Accounts : FileEntry(b)' \in {FileEntry(b), entries'[b]}
    BY <1>0, <2>1, <2>2, <2>3, StoreLeaves
  <2>5. \A j \in Calls : pc'[j] \in Waiting => pc[j] \in Waiting
    BY <1>0, <2>1 DEF Goto, TypeOK, Waiting
  <2>6. \A h \in Grants : held[k].grant = h => Mentioned(account[k], h)
    BY <2>1 DEF Mentioned, Waiting
  <2> HIDE DEF secret
  <2>7. \A b \in Accounts, h \in Grants : Mentioned(b, h)' => Mentioned(b, h)
    BY <2>1, <2>3, <2>4, <2>5, <2>6 DEF Mentioned, Stored
  <2> QED BY <1>0, <1>1, <2>1, <2>7 DEF OneAccount
<1>5. ASSUME NEW k \in Calls, NEW a \in Accounts, NEW w \in Outcomes, Removal(k, a, w)
      PROVE  OneAccount'
  <2>1. /\ RemoveEntry(k, a, w) /\ \A j \in Calls \ {k} : account'[j] = account[j]
        /\ UNCHANGED <<grants, held>>
    BY <1>5 DEF Removal
  <2>2. /\ pc'[k] \notin Waiting /\ \A j \in Calls \ {k} : pc'[j] = pc[j]
    BY <1>0, <2>1 DEF RemoveEntry, Goto, TypeOK, Waiting
  <2>3. \A b \in Accounts : /\ entries'[b] \in {entries[b], None}
                            /\ FileEntry(b)' \in {FileEntry(b), entries'[b]}
    <3>1. CASE entries[a] = None
      BY <2>1, <3>1 DEF RemoveEntry, vault, FileEntry
    <3>2. CASE entries[a] # None
      BY <1>0, <2>1, <3>2, StoreLeaves DEF RemoveEntry
    <3> QED BY <3>1, <3>2
  <2>4. \A b \in Accounts, h \in Grants : Mentioned(b, h)' => Mentioned(b, h)
    BY <2>1, <2>2, <2>3 DEF Mentioned, Stored
  <2>5. revoked' \subseteq grants
    <3>1. entries[a] # None => entries[a].grant \in Grants /\ Mentioned(a, entries[a].grant)
      BY <1>0 DEF TypeOK, Entries, Secrets, Mentioned, Stored
    <3> QED BY <1>0, <2>1, <3>1 DEF RemoveEntry, OneAccount
  <2> QED BY <1>1, <2>1, <2>4, <2>5
<1> QED BY <1>2, <1>3, <1>4, <1>5, StepsAre

LEMMA ForgottenKept == IInv /\ [Next]_vars => Forgotten'
<1> SUFFICES ASSUME IInv, [Next]_vars PROVE Forgotten'
  OBVIOUS
<1>0. WaitingCalls /\ Forgotten
  BY DEF IInv, Inv
<1>1. ASSUME up' PROVE Forgotten'
  BY <1>1 DEF Forgotten
<1>2. ASSUME UNCHANGED <<up, entries>> PROVE Forgotten'
  BY <1>0, <1>2 DEF Forgotten
<1>3. CASE Crash
  BY <1>3 DEF Crash, Nothing, Forgotten
<1>4. ASSUME NEW a \in Accounts, NEW g \in Grants, NEW r \in BOOLEAN, NEW w \in Outcomes,
             Consent(a, g, r, w)
      PROVE  up'
  BY <1>4 DEF Consent, operator
<1>5. ASSUME NEW k \in Keys, NEW w \in Outcomes, Rotate(k, w) PROVE up'
  BY <1>5 DEF Rotate
<1>6. ASSUME NEW k \in Calls, NEW a \in Accounts, Resolve(k, a) \/ RevokeUpstream(k, a) PROVE up'
  BY <1>6 DEF Resolve, RevokeUpstream, Begin, operator
<1>7. ASSUME NEW k \in Calls, NEW a \in Accounts, NEW w \in Outcomes, RevokeAtOnce(k, a, w)
      PROVE  up'
  BY <1>7 DEF RevokeAtOnce, operator
<1>8. ASSUME NEW k \in Calls, Answer(k) PROVE up'
  <2>1. pc[k] \in Waiting /\ up' = up
    <3>1. (\E n \in ExpiresIns, w \in Outcomes : RefreshAnswers(k, n, w)) =>
            pc[k] \in Waiting /\ up' = up
      BY DEF RefreshAnswers, Waiting, operator
    <3>2. (\E w \in Outcomes : RevokeAnswers(k, w)) => pc[k] \in Waiting /\ up' = up
      BY DEF RevokeAnswers, Waiting, operator
    <3> QED BY <1>8, <3>1, <3>2 DEF Answer
  <2> QED BY <1>0, <2>1 DEF WaitingCalls
<1>9. ASSUME NEW k \in Calls, RefreshFails(k) \/ RevokeFails(k) \/ GoogleAnswers(k)
      PROVE  UNCHANGED <<up, entries>>
  BY <1>9 DEF RefreshFails, RevokeFails, GoogleAnswers, vault, operator
<1>10. ASSUME (\E g \in Grants : Withdraw(g)) \/ Tick \/ UNCHANGED vars
       PROVE  UNCHANGED <<up, entries>>
  BY <1>10 DEF Withdraw, Tick, vars, vault, operator
<1>11. ASSUME NEW k \in Keys, Restart(k) PROVE up'
  BY <1>11 DEF Restart
<1> QED
  BY <1>1, <1>2, <1>3, <1>4, <1>5, <1>6, <1>7, <1>8, <1>9, <1>10, <1>11 DEF Next

LEMMA FullInvariant == Spec => []IInv
<1>1. Init => IInv
  <2>1. Init => Inv
    BY Initially
  <2>2. Init => OneAccount /\ Forgotten
    BY InstanceAssumption
       DEF Init, Nothing, OneAccount, Forgotten, Mentioned, Stored, FileEntry, Waiting
  <2> QED BY <2>1, <2>2 DEF IInv
<1>2. IInv /\ [Next]_vars => IInv'
  BY Inductive, OneAccountKept, ForgottenKept DEF IInv
<1> QED BY <1>1, <1>2, PTL DEF Spec

\* A failed revocation takes nothing away.
LEMMA RetryStateStays ==
  ASSUME IInv, [Next]_vars, NEW a \in Accounts, up', entries[a] # None, entries'[a] = None
  PROVE  \E k \in Calls : /\ account'[k] = a /\ pc'[k] # pc[k]
                          /\ \/ pc[k] = "idle"
                             \/ pc[k] = "revoking" /\ k \in answered
<1>0. Inv /\ TypeOK /\ WaitingCalls
  BY DEF IInv, Inv
<1>1. ASSUME NEW b \in Accounts, NEW v \in Secrets, NEW w \in Outcomes, Store(b, v, w)
      PROVE  FALSE
  BY <1>0, <1>1, StoreLeaves, InstanceAssumption
<1>2. ASSUME NEW b \in Accounts, NEW g \in Grants, NEW r \in BOOLEAN, NEW w \in Outcomes,
             Consent(b, g, r, w)
      PROVE  FALSE
  <2>1. [grant |-> g, refreshable |-> r, expiresAt |-> clock] \in Secrets
    BY <1>0 DEF TypeOK, Secrets
  <2> QED BY <1>1, <1>2, <2>1 DEF Consent
<1>3. ASSUME NEW k \in Calls, NEW n \in ExpiresIns, NEW w \in Outcomes, RefreshAnswers(k, n, w)
      PROVE  FALSE
  <2>1. account[k] \in Accounts /\ held[k] \in Secrets
    BY <1>0, <1>3 DEF RefreshAnswers, WaitingCalls, Waiting
  <2>2. [held[k] EXCEPT !.expiresAt = Expiry(n)] \in Secrets
    <3>1. n \in Int /\ clock \in Nat
      BY <1>0, InstanceAssumption DEF TypeOK
    <3>2. Expiry(n) \in Nat
      BY <3>1 DEF Expiry
    <3> QED BY <2>1, <3>2 DEF Secrets
  <2> QED BY <1>1, <1>3, <2>1, <2>2 DEF RefreshAnswers
<1>4. ASSUME NEW k \in Calls, NEW b \in Accounts, NEW w \in Outcomes, Removal(k, b, w)
      PROVE  /\ account'[k] = a /\ pc'[k] # pc[k]
             /\ pc[k] = "idle" \/ (pc[k] = "revoking" /\ k \in answered)
  <2>1. /\ RemoveEntry(k, b, w) /\ account'[k] = b
        /\ pc[k] = "idle" \/ (pc[k] = "revoking" /\ k \in answered)
    BY <1>4 DEF Removal
  <2>2. pc'[k] \in {"failed", "revoked"}
    BY <1>0, <2>1 DEF RemoveEntry, Goto, TypeOK
  <2>3. a = b
    BY <1>0, <2>1, StoreLeaves DEF RemoveEntry, vault
  <2> QED BY <2>1, <2>2, <2>3
<1>5. ~Quiet
  BY DEF Quiet
<1> QED
  BY <1>2, <1>3, <1>4, <1>5, StepsAre

\* An entry leaves a running vault only for a local removal or a confirmed revocation.
THEOREM RetryPossible == Spec => RetryStateKept
<1>1. IInv /\ [Next]_vars =>
        [\A a \in Accounts :
           up' /\ entries[a] # None /\ entries'[a] = None =>
             \E k \in Calls : /\ account'[k] = a /\ pc'[k] # pc[k]
                              /\ \/ pc[k] = "idle"
                                 \/ pc[k] = "revoking" /\ k \in answered]_vars
  BY RetryStateStays
<1> QED BY <1>1, FullInvariant, PTL DEF Spec, RetryStateKept

\* A credential that is reported as revoked has gone, and comes back with a refresh or not
\* at all.
LEMMA RevocationHolds ==
  ASSUME IInv, [Next]_vars, NEW g \in revoked' \cap StoredGrants'
  PROVE  /\ g \in revoked
         /\ \/ g \in StoredGrants
            \/ \E k \in Calls : pc[k] = "refreshing" /\ held[k].grant = g /\ pc'[k] # pc[k]
<1> DEFINE Goal == /\ g \in revoked
                   /\ \/ g \in StoredGrants
                      \/ \E k \in Calls : pc[k] = "refreshing" /\ held[k].grant = g /\ pc'[k] # pc[k]
<1> SUFFICES Goal
  OBVIOUS
<1>0. Inv /\ TypeOK /\ WaitingCalls /\ OneAccount
  BY DEF IInv, Inv
<1>1. PICK a \in Accounts : Stored(a, g)'
  BY DEF StoredGrants, Stored
<1>2. ASSUME g \in revoked, NEW b \in Accounts, Stored(b, g) PROVE Goal
  BY <1>2, StoredGrantsAre
<1>3. CASE Quiet
  <2>1. g \in revoked /\ g \in Grants
    BY <1>0, <1>3 DEF Quiet, TypeOK
  <2> QED BY <1>1, <1>2, <1>3, <2>1 DEF Quiet
<1>4. ASSUME NEW b \in Accounts, NEW h \in Grants, NEW r \in BOOLEAN, NEW w \in Outcomes,
             Consent(b, h, r, w)
      PROVE  Goal
  <2> DEFINE secret == [grant |-> h, refreshable |-> r, expiresAt |-> clock]
  <2>1. h \notin grants /\ Store(b, secret, w) /\ revoked' = revoked
    BY <1>4 DEF Consent
  <2>2. secret \in Secrets \cup {None} /\ secret.grant = h
    BY <1>0 DEF TypeOK, Secrets
  <2>3. /\ entries'[b] = secret /\ \A c \in Accounts \ {b} : entries'[c] = entries[c]
        /\ \A c \in Accounts : FileEntry(c)' \in {FileEntry(c), entries'[c]}
    BY <1>0, <2>1, <2>2, StoreLeaves
  <2>4. g # h /\ g \in revoked
    BY <1>0, <2>1 DEF OneAccount
  <2> HIDE DEF secret
  <2>5. Stored(a, g)
    BY <1>1, <2>2, <2>3, <2>4 DEF Stored
  <2> QED BY <1>2, <2>4, <2>5
<1>5. ASSUME NEW k \in Calls, NEW n \in ExpiresIns, NEW w \in Outcomes, RefreshAnswers(k, n, w)
      PROVE  Goal
  <2> DEFINE secret == [held[k] EXCEPT !.expiresAt = Expiry(n)]
  <2>1. /\ pc[k] = "refreshing" /\ Store(account[k], secret, w) /\ revoked' = revoked
        /\ pc'[k] # pc[k]
    BY <1>0, <1>5 DEF RefreshAnswers, Goto, TypeOK
  <2>2. account[k] \in Accounts /\ held[k] \in Secrets
    BY <1>0, <2>1 DEF WaitingCalls, Waiting
  <2>3. secret \in Secrets \cup {None} /\ secret.grant = held[k].grant
    <3>1. n \in Int /\ clock \in Nat
      BY <1>0, InstanceAssumption DEF TypeOK
    <3>2. Expiry(n) \in Nat
      BY <3>1 DEF Expiry
    <3> QED BY <2>2, <3>2 DEF Secrets
  <2>4. /\ entries'[account[k]] = secret
        /\ \A b \in Accounts \ {account[k]} : entries'[b] = entries[b]
        /\ \A b \in Accounts : FileEntry(b)' \in {FileEntry(b), entries'[b]}
    BY <1>0, <2>1, <2>2, <2>3, StoreLeaves
  <2> HIDE DEF secret
  <2>5. Stored(a, g) \/ held[k].grant = g
    BY <1>1, <2>3, <2>4 DEF Stored
  <2> QED BY <1>2, <2>1, <2>5
<1>6. ASSUME NEW k \in Calls, NEW b \in Accounts, NEW w \in Outcomes, Removal(k, b, w)
      PROVE  Goal
  <2>1. RemoveEntry(k, b, w)
    BY <1>6 DEF Removal
  <2>2. CASE entries[b] = None
    <3>1. UNCHANGED <<entries, disk, revoked>>
      BY <2>1, <2>2 DEF RemoveEntry, vault
    <3>2. Stored(a, g)
      BY <1>1, <3>1 DEF Stored, FileEntry
    <3> QED BY <1>2, <3>1, <3>2
  <2>3. CASE entries[b] # None
    <3>1. /\ Store(b, None, w)
          /\ revoked' = IF w = "ok" THEN revoked \cup {entries[b].grant} ELSE revoked
      BY <2>1, <2>3 DEF RemoveEntry
    <3>2. /\ entries'[b] = None /\ \A c \in Accounts \ {b} : entries'[c] = entries[c]
          /\ \A c \in Accounts : FileEntry(c)' \in {FileEntry(c), entries'[c]}
          /\ w = "ok" => \A c \in Accounts : FileEntry(c)' = entries'[c]
      BY <1>0, <3>1, StoreLeaves
    <3>3. Stored(a, g)
      BY <1>1, <3>2 DEF Stored
    <3>4. g \in revoked
      <4> SUFFICES ASSUME w = "ok", g = entries[b].grant PROVE FALSE
        BY <3>1
      <4>1. a # b /\ entries[a] # None /\ entries[a].grant = g
        BY <1>1, <3>2 DEF Stored
      <4>2. g \in Grants
        BY <1>0, <2>3 DEF TypeOK, Entries, Secrets
      <4>3. Mentioned(a, g) /\ Mentioned(b, g)
        BY <2>3, <4>1 DEF Mentioned, Stored
      <4> QED BY <1>0, <4>1, <4>2, <4>3 DEF OneAccount
    <3> QED BY <1>2, <3>3, <3>4
  <2> QED BY <2>2, <2>3
<1> HIDE DEF Goal
<1> QED
  BY <1>3, <1>4, <1>5, <1>6, StepsAre

\* What was reported as revoked is neither in memory nor in the file, and no restart, failed
\* write, rotation or other account's put brings it back: only a refresh under way does.
THEOREM Sticks == Spec => RevocationSticks
<1>1. IInv /\ [Next]_vars =>
        [\A g \in revoked' \cap StoredGrants' :
           /\ g \in revoked
           /\ \/ g \in StoredGrants
              \/ \E k \in Calls : pc[k] = "refreshing" /\ held[k].grant = g /\ pc'[k] # pc[k]]_vars
  BY RevocationHolds
<1> QED BY <1>1, FullInvariant, PTL DEF Spec, RevocationSticks

=============================================================================
