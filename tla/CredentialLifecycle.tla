------------------------- MODULE CredentialLifecycle -------------------------
(***************************************************************************)
(* The life of a Gmail credential: GmailTokenService                       *)
(* (server/gmail-token-service.js) on top of the encrypted credential      *)
(* vault (encrypted-file-credential-vault.js; credential-vault.js is the   *)
(* same interface without the file), Google's OAuth endpoints and an       *)
(* operator who rotates the vault's key and restarts the process.          *)
(*                                                                         *)
(* A grant is one consent of the user at Google; it stands for the refresh *)
(* token, whose replacements belong to the same grant, and for the access  *)
(* tokens obtained with it.  The vault is synchronous, so each of its      *)
(* operations is one action, whatever its file operations do; the awaits   *)
(* of the token service are the requests to Google.                        *)
(***************************************************************************)
EXTENDS Integers, FiniteSets

CONSTANTS
  Accounts,     \* (userId, accountId) pairs
  Calls,        \* calls of resolveAccessToken and revoke
  Grants,       \* consents; numbers, given out in order
  Keys,         \* vault encryption keys
  FirstKey,     \* the key the deployment starts with
  ExpiresIns,   \* what Google's expires_in may be
  Skew,         \* EXPIRY_SKEW_MS
  MaxTime,      \* bound on the clock
  None,         \* absent
  DiskFaults    \* TRUE: file operations may fail

VARIABLES
  clock,        \* Date.now()
  grants,       \* consents given so far
  live,         \* the grants Google honours
  pc,           \* where each call is
  account,      \* the account of the call
  held,         \* the secret the call read from the vault
  answered,     \* calls whose request Google has carried out
  entries,      \* the vault's #entries
  key,          \* the vault's #key
  disk,         \* the vault file
  up,           \* is the process running?
  configured,   \* the key the operator believes the file to be under
  tried,        \* keys of rotations that failed since
  permitted,    \* history: what the file may hold of each account
  revoked       \* history: grants a revoke call has reported as revoked

service == <<pc, account, held, answered>>
vault == <<entries, key, disk, permitted>>
operator == <<up, configured, tried>>
vars == <<clock, grants, live, service, vault, operator, revoked>>

Secrets == [grant : Grants, refreshable : BOOLEAN, expiresAt : Nat]

Entries == [Accounts -> Secrets \cup {None}]

\* How a persist ends: done; failed before the file was renamed into place; or
\* failed in the last chmod, after it was.
Outcomes == IF DiskFaults THEN {"ok", "before", "after"} ELSE {"ok"}

ASSUME InstanceAssumption ==
  /\ Grants \subseteq Nat
  /\ FirstKey \in Keys
  /\ ExpiresIns \subseteq Int /\ Skew \in Nat /\ MaxTime \in Nat
  /\ DiskFaults \in BOOLEAN
  /\ None \notin Secrets /\ None \notin Accounts
  /\ None \notin [key : Keys, entries : Entries]

Pcs == {"idle", "refreshing", "revoking", "served", "revoked", "failed", "lost"}
Waiting == {"refreshing", "revoking"}

TypeOK ==
  /\ clock \in 0 .. MaxTime
  /\ grants \subseteq Grants /\ live \subseteq grants
  /\ pc \in [Calls -> Pcs]
  /\ account \in [Calls -> Accounts \cup {None}]
  /\ held \in [Calls -> Secrets \cup {None}]
  /\ answered \subseteq Calls
  /\ entries \in Entries
  /\ key \in Keys
  /\ disk \in [key : Keys, entries : Entries] \cup {None}
  /\ up \in BOOLEAN
  /\ configured \in Keys /\ tried \subseteq Keys
  /\ permitted \in [Accounts -> SUBSET (Secrets \cup {None})]
  /\ revoked \subseteq Grants

Nothing == [a \in Accounts |-> None]

Init ==
  /\ clock = 0
  /\ grants = {} /\ live = {}
  /\ pc = [k \in Calls |-> "idle"]
  /\ account = [k \in Calls |-> None]
  /\ held = [k \in Calls |-> None]
  /\ answered = {}
  /\ entries = Nothing
  /\ key = FirstKey
  /\ disk = None
  /\ up = TRUE
  /\ configured = FirstKey /\ tried = {}
  /\ permitted = [a \in Accounts |-> {None}]
  /\ revoked = {}

-----------------------------------------------------------------------------
(* The vault *)

\* Bug: the file is written under the vault's own key, not the one passed.
PersistUnderOwnKey(es, k, w) ==
  disk' = IF w = "before" THEN disk ELSE [key |-> key, entries |-> es]

\* #persist: the whole map, encrypted, to a temporary file, then renamed.
Persist(es, k, w) ==
  disk' = IF w = "before" THEN disk ELSE [key |-> k, entries |-> es]

\* Bug: the memory is changed and the file is not.
StoreInMemory(a, v, w) ==
  /\ entries' = [entries EXCEPT ![a] = v]
  /\ permitted' = [permitted EXCEPT ![a] = IF w = "ok" THEN {v} ELSE @ \cup {v}]
  /\ UNCHANGED <<key, disk>>

\* put and remove change #entries first and then persist.  Once acknowledged the
\* new value is the only one the file may hold; after a failure it may hold
\* either, for the next persist of any account writes the change along.
Store(a, v, w) ==
  /\ entries' = [entries EXCEPT ![a] = v]
  /\ Persist(entries', key, w)
  /\ permitted' = [permitted EXCEPT ![a] = IF w = "ok" THEN {v} ELSE @ \cup {v}]
  /\ UNCHANGED key

\* put, called with the result of a consent.  The access token that comes with it
\* is left out: what its lifetime allows, a first refresh allows as well.
Consent(a, g, refreshable, w) ==
  /\ up
  /\ g \notin grants /\ \A h \in Grants : h < g => h \in grants
  /\ grants' = grants \cup {g}
  /\ live' = live \cup {g}
  /\ Store(a, [grant |-> g, refreshable |-> refreshable, expiresAt |-> clock], w)
  /\ UNCHANGED <<clock, service, operator, revoked>>

\* rotateEncryptionKey.
Rotate(k, w) ==
  /\ up
  /\ k # key
  /\ Persist(entries, k, w)
  /\ IF w = "ok"
       THEN key' = k /\ configured' = k /\ tried' = {}
       ELSE tried' = tried \cup {k} /\ UNCHANGED <<key, configured>>
  /\ UNCHANGED <<clock, grants, live, service, entries, permitted, up, revoked>>

-----------------------------------------------------------------------------
(* resolveAccessToken *)

Fresh(secret) == secret.expiresAt > clock + Skew

Goto(k, to) == pc' = [pc EXCEPT ![k] = to]

Begin(k, a, to) ==
  /\ up
  /\ pc[k] = "idle"
  /\ Goto(k, to)
  /\ account' = [account EXCEPT ![k] = a]
  /\ held' = [held EXCEPT ![k] = entries[a]]
  /\ UNCHANGED answered

\* Up to the first await: serve the cached token, fail, or ask for a new one.
Resolve(k, a) ==
  /\ \/ entries[a] = None /\ Begin(k, a, "failed")
     \/ /\ entries[a] # None
        /\ Begin(k, a, CASE Fresh(entries[a]) -> "served"
                         [] ~Fresh(entries[a]) /\ entries[a].refreshable -> "refreshing"
                         [] ~Fresh(entries[a]) /\ ~entries[a].refreshable -> "failed")
  /\ UNCHANGED <<clock, grants, live, vault, operator, revoked>>

\* Bug: a negative expires_in is taken as it is.
ExpiryUnbounded(expiresIn) == clock + expiresIn

Expiry(expiresIn) == clock + (IF expiresIn > 0 THEN expiresIn ELSE 0)

\* put of the secret read before the await, with what the answer brought.
RefreshAnswers(k, expiresIn, w) ==
  /\ pc[k] = "refreshing" /\ k \in answered
  /\ Store(account[k], [held[k] EXCEPT !.expiresAt = Expiry(expiresIn)], w)
  /\ Goto(k, IF w = "ok" THEN "served" ELSE "failed")
  /\ UNCHANGED <<clock, grants, live, account, held, answered, operator, revoked>>

\* An error status, an answer without a token, or a lost connection.
RefreshFails(k) ==
  /\ pc[k] = "refreshing"
  /\ Goto(k, "failed")
  /\ UNCHANGED <<clock, grants, live, account, held, answered, vault, operator, revoked>>

-----------------------------------------------------------------------------
(* revoke *)

\* Bug: a removal that could not be persisted is reported as done.
RemoveEntryUnchecked(k, a, w) ==
  IF entries[a] = None
    THEN Goto(k, "failed") /\ UNCHANGED <<vault, revoked>>
    ELSE /\ Store(a, None, w)
         /\ Goto(k, "revoked")
         /\ revoked' = revoked \cup {entries[a].grant}

\* vault.remove, at the end of a revocation; it throws if the entry has gone.
RemoveEntry(k, a, w) ==
  IF entries[a] = None
    THEN Goto(k, "failed") /\ UNCHANGED <<vault, revoked>>
    ELSE /\ Store(a, None, w)
         /\ Goto(k, IF w = "ok" THEN "revoked" ELSE "failed")
         /\ revoked' = IF w = "ok" THEN revoked \cup {entries[a].grant} ELSE revoked

\* Without an entry vault.get throws. A secret that is not refreshable holds an access token,
\* which is then sent, or none.
RevokeUpstream(k, a) ==
  /\ Begin(k, a, IF entries[a] = None THEN "failed" ELSE "revoking")
  /\ UNCHANGED <<clock, grants, live, vault, operator, revoked>>

\* revokeUpstream: false, or a secret without any token: Google is not asked, and the removal
\* follows the read at once.
RevokeAtOnce(k, a, w) ==
  /\ up
  /\ pc[k] = "idle"
  /\ RemoveEntry(k, a, w)
  /\ account' = [account EXCEPT ![k] = a]
  /\ UNCHANGED <<clock, grants, live, held, answered, operator>>

RevokeAnswers(k, w) ==
  /\ pc[k] = "revoking" /\ k \in answered
  /\ RemoveEntry(k, account[k], w)
  /\ UNCHANGED <<clock, grants, live, account, held, answered, operator>>

\* Bug: the entry is removed although Google did not confirm.
RevokeFailsRemoving(k) ==
  /\ pc[k] = "revoking"
  /\ RemoveEntry(k, account[k], "ok")
  /\ UNCHANGED <<clock, grants, live, account, held, answered, operator>>

RevokeFails(k) ==
  /\ pc[k] = "revoking"
  /\ Goto(k, "failed")
  /\ UNCHANGED <<clock, grants, live, account, held, answered, vault, operator, revoked>>

-----------------------------------------------------------------------------
(* Google, the operator, time *)

\* Google carries out the request of k: a refresh needs a live grant, a
\* revocation ends it.
GoogleAnswers(k) ==
  /\ pc[k] \in Waiting
  /\ k \notin answered
  /\ held[k].grant \in live
  /\ answered' = answered \cup {k}
  /\ live' = IF pc[k] = "revoking" THEN live \ {held[k].grant} ELSE live
  /\ UNCHANGED <<clock, grants, pc, account, held, vault, operator, revoked>>

\* The user withdraws a consent in the Google account.
Withdraw(g) ==
  /\ g \in live
  /\ live' = live \ {g}
  /\ UNCHANGED <<clock, grants, service, vault, operator, revoked>>

Crash ==
  /\ up
  /\ up' = FALSE
  /\ pc' = [k \in Calls |-> IF pc[k] \in Waiting THEN "lost" ELSE pc[k]]
  /\ entries' = Nothing
  /\ UNCHANGED <<clock, grants, live, account, held, answered, key, disk, permitted,
                 configured, tried, revoked>>

\* #load: a wrong key fails the authenticated decryption.
Restart(k) ==
  /\ ~up
  /\ k \in {configured} \cup tried
  /\ disk # None => disk.key = k
  /\ up' = TRUE
  /\ entries' = IF disk = None THEN Nothing ELSE disk.entries
  /\ key' = k /\ configured' = k /\ tried' = {}
  /\ UNCHANGED <<clock, grants, live, service, disk, permitted, revoked>>

Tick ==
  /\ clock < MaxTime
  /\ clock' = clock + 1
  /\ UNCHANGED <<grants, live, service, vault, operator, revoked>>

Answer(k) ==
  \/ \E n \in ExpiresIns, w \in Outcomes : RefreshAnswers(k, n, w)
  \/ \E w \in Outcomes : RevokeAnswers(k, w)

Next ==
  \/ \E a \in Accounts, g \in Grants, r \in BOOLEAN, w \in Outcomes : Consent(a, g, r, w)
  \/ \E k \in Keys, w \in Outcomes : Rotate(k, w)
  \/ \E k \in Calls, a \in Accounts : Resolve(k, a)
  \/ \E k \in Calls, a \in Accounts : RevokeUpstream(k, a)
  \/ \E k \in Calls, a \in Accounts, w \in Outcomes : RevokeAtOnce(k, a, w)
  \/ \E k \in Calls : Answer(k)
  \/ \E k \in Calls : RefreshFails(k)
  \/ \E k \in Calls : RevokeFails(k)
  \/ \E k \in Calls : GoogleAnswers(k)
  \/ \E g \in Grants : Withdraw(g)
  \/ Crash
  \/ \E k \in Keys : Restart(k)
  \/ Tick

Spec == Init /\ [][Next]_vars

-----------------------------------------------------------------------------
(* Properties *)

FileEntry(a) == IF disk = None THEN None ELSE disk.entries[a]

\* The grants whose credential the file or the memory of a running process holds.
StoredGrants == {s.grant : s \in ({FileEntry(a) : a \in Accounts}
                                  \cup {entries[a] : a \in Accounts}) \ {None}}

\* Whatever fails, is retried, is written along with another account's change or
\* is rotated: what a put or remove acknowledged is what a restart will find,
\* until a later operation on the same account.
AcknowledgedSurvives ==
  \A a \in Accounts : FileEntry(a) \in permitted[a] /\ (up => entries[a] \in permitted[a])

\* The file can be decrypted with the key the operator last saw accepted or with
\* one a failed rotation was given; no sequence of rotations, failures, puts and
\* restarts leaves it under any other key.
VaultCanBeOpened == disk # None => disk.key \in {configured} \cup tried

\* While the process runs, an entry leaves the vault only because Google has
\* confirmed a revocation for its account, or a call was to ask Google nothing:
\* a failed upstream revocation never costs the state needed to retry it.
RetryStateKept ==
  [][\A a \in Accounts :
       up' /\ entries[a] # None /\ entries'[a] = None =>
         \E k \in Calls : /\ account'[k] = a /\ pc'[k] # pc[k]
                          /\ \/ pc[k] = "idle"
                             \/ pc[k] = "revoking" /\ k \in answered]_vars

\* A revocation reported as done has removed the credential from memory and file,
\* and the only way back is the answer to a refresh that was under way: not a
\* restart, a failed write, a rotation or another account's put.
RevocationSticks ==
  [][\A g \in revoked' \cap StoredGrants' :
       /\ g \in revoked
       /\ \/ g \in StoredGrants
          \/ \E k \in Calls : pc[k] = "refreshing" /\ held[k].grant = g /\ pc'[k] # pc[k]]_vars

\* Removal invalidates subsequent reads: a credential revoked is not stored again.
RevokedStaysRevoked == revoked \cap StoredGrants = {}

=============================================================================
