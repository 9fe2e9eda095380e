# GoreeCloud Mail: a TLA+ verification project

GoreeCloud Mail is a mail application: a Node.js server (`server/`) that talks to
Gmail on behalf of signed-in users and scans attachments with Wardveil, and a browser
shell (`web/`). This directory models the parts of it that are stateful, concurrent
or exposed to failure, checks them with TLC and proves their main invariants with
TLAPS. Paths below are relative to the repository.

Contents: 1 inventory, 2 modules, 3 runs and bounds, 4 fairness, 5 proofs,
6 divergences, 7 what is not modelled, 8 plan, 9 how to run.

## 1. Inventory

### Server: delivering attachments

| component | state | operations | what makes it correct |
|---|---|---|---|
| attachment delivery, `attachment-delivery-service.js` | delivery records (a Map, or SQLite), a Map of clean scan provenance | `retrieveGmailAttachment`, `authorizeDownload`, `remove`, `cleanupExpired` | only content scanned clean for this user is downloadable, and only while the evidence lasts; a record has its files; deletions delete files first |
| byte store, `attachment-stream-store.js` | files named by random ids | `storeAttachmentStream`, `removeStoredAttachment` | a file appears by rename, complete and within the limit |
| provenance sidecars, `attachment-scan-provenance-store.js` | a JSON file with an integrity digest per object | `persist…`, `read…`, `removeWardveilScanProvenance` | an edited or truncated sidecar is no evidence |
| scan client, `wardveil-scan-client.js` | none | `scan` | an answer about another digest, or none at all, is never "clean"; its timer stops at the response headers |
| scan decision, in the two services above and below, in `reference/` and `web/security/` | none | answer and moment to a decision, and to what the user is shown | the rule is written three times and has to be one |
| runtime acceptance, `mail-wardveil-runtime-acceptance.js` and its script | a work directory, a report | six cases against a deployed scanner | a report exists only of a run that earned it |

### Server: writing mail

| component | state | operations | what makes it correct |
|---|---|---|---|
| account service, `gmail-account-service.js` | none of its own; Gmail's drafts and messages | `send`, `createDraft`, `updateDraft`, reads | a write is attempted once; what is reported about it is true |
| outgoing gate, `gmail-outgoing-attachment-security.js`, `outgoing-attachment-scan-provenance-store.js` | provenance files | secure a message before its write | the bytes written are the bytes scanned, and the finding is on disk before |
| API client and request policy, `gmail-api-client.js`, `provider-request-policy.js` | none | requests with timeout, retries for reads | a write is never repeated; an attempt ends |
| message builder, `gmail-message-builder.js` | none | build MIME | its limits against the transport's (MIME itself is text) |

### Server: credentials and authorization

| component | state | operations | what makes it correct |
|---|---|---|---|
| token service, `gmail-token-service.js` | none of its own | `resolveAccessToken`, `revoke` | revocation is lasting; a failed one can be retried |
| credential vault, `encrypted-file-credential-vault.js` | an encrypted file, the map in memory, the key | `put`, `get`, `remove`, `rotateEncryptionKey`, load | acknowledged changes survive; the file can be opened |
| in-memory vault, `credential-vault.js` | a Map | `put`, `get`, `remove` | an entry belongs to a user and an account |
| OAuth state, `oauth-state-store.js`, `sqlite-state.js` | pending authorizations, a Map or a table | `issue`, `consume`, purge | single use, right user and provider, in time |
| `gmail-oauth.js` | none | URLs and forms | - |

### Server: everything else

`sqlite-state.js` (with `sqlite-migrations.js`, `sqlite-backup.js` and the SQL of
`docs/`) holds accounts, credential references, sync cursors, idempotency records,
attachment records and authorization state. `idempotency-store.js` and
`sync-state-store.js` hold the same records in Maps, for development; what makes these stores correct is that rows belong to an account and its
owner, that a key stands for one request, and that transactions and migrations are all
or nothing, with several processes on the database.

The account API, `session-context.js`, `mail-api-router.js`, `provider-account-service.js`,
`provider-operation-service.js`, `provider-account-registry.js` and the capability
resolvers (`gmail-capability-resolver.js`, `provider-capability-resolver.js`), takes a request from its session to an adapter. Its
state is the registry. What makes it correct: an account of somebody else does not exist,
and the capabilities that admit an operation stand for scopes that Gmail will accept later.

The content policies (`attachment-policy.js`, `archive-content-policy.js`, ...), the
sanitizer and the normaliser are pure functions of bytes and text.

### Browser

| component | state | operations | what makes it correct |
|---|---|---|---|
| mailbox shell, `web/app.js` with `mailbox-view.js`, `message-move.js` | the selected mailbox, the snapshot, the reader, control states, a load generation | select, search, open, archive, delete, move, flag | an old answer never replaces a newer one; controls come back; list, title and reader agree |
| compose dialog, `web/app.js` with `compose-attachments.js` | the form, the materialised attachments, timers | open, close, choose files, send, save draft | what leaves was checked, and belongs to this message |
| providers, `web/providers/` | the demo provider's mailboxes | list, read, flag, move | - |

`compose-context.js` is pure text. `web/security/` presents a scan decision to the user, and
`reference/` restates the decision and its presentation in Python.

### How they interact

- A browser handler awaits a provider, which is local (demo) or the gateway; several
  handlers are in flight at once and share the variables of `app.js`.
- The gateway's requests pass session, owner, provider and capabilities in one synchronous
  step and reach an account service, which awaits in turn the outgoing
  gate (scanner, provenance file), the token service (vault, Google) and Gmail.
- An attachment retrieval awaits Gmail, the scanner, the byte store and the sidecar
  store, and ends in a SQLite row; downloads, removals and cleanup passes use the same
  files and rows concurrently.
- Removing an account cascades in SQLite to attachment rows, and to nothing outside it.

### Where it is hard

Every `await` in the server is a point where another call runs and where the process
may stop. State is spread over a Map, a file and a row without a transaction across
them. Gmail may carry out a request whose answer is lost, late or timed out, and its
index lags. In the browser answers overtake each other. `PROJECT.json` lists these
hazards one by one, at the line where each bites, with the properties that cover it.

## 2. Modules

Conventions. One action runs from one `await` to the next; a synchronous function is
one action whatever it calls. A content is both the bytes and their digest: equality
of digests is equality of contents. Random ids are never drawn twice. `Date.now()`
is a clock that only moves forward, by an action of its own. Definitions marked
`Bug:` are not used by any specification: each is a faulty variant of the definition
below it, kept to show that a property notices the fault (`mutants` in `PROJECT.json`).

### AttachmentDelivery (abstract: CleanDelivery)

The object id names the retrieval, as the byte store draws a fresh one for each.

| code | model |
|---|---|
| up to the answer of the scanner | `Retrieve`, then `ScanAccepted` (the validations of `requireCurrentCleanScan` are `CurrentCleanScan`) or `ScanRejected` |
| `storeFn`, and the comparison of what it stored | `StoreBytes`, `StoreFails` |
| `persistWardveilScanProvenance` | `PersistSidecar`, `PersistFails` |
| the expiry as text (line 147), which throws for an instant no `Date` can hold, outside any `try` | `ExpiryFails` |
| the row or Map entry, and the remembered provenance | `Record`; `RecordFails` where the insert throws; `ReadBackFails` where it has committed and reading it back throws |
| the rollbacks (`Promise.allSettled`, failures swallowed) | `Undo`, one file at a time, which may be rejected |
| `authorizeDownload` (no await) | `DownloadAllowed` is its answer, `AuthorizeDownload` its side effects: the refilled cache and the access noted in the record |
| `remove`, `cleanupExpired` | `Remove`, `CleanupExpired`, then `DeleteFile`, `Abort`, `Forget` per object, in the order of the SQL, which compares instants as text (`IsoKey`) |
| process restart; account removal with the foreign-key cascade; a sidecar edited by hand | `Restart`, `RemoveAccount`, `Tamper` |

`Disturbances` selects which of the last, and whether an `rm` of a deletion (`rm`) or of a
rollback (`undo`) may fail; `Durable` selects SQLite or the Map. Two history variables:
`swallowed` holds the rejected `rm` calls of rollbacks, `attempted` the objects some deletion
has begun on.

### OutgoingWrite (abstract: MailWrite)

One account. `Begin` is `#writeContext`, the message builder's validation and the
materialisation of the first attachment. A scan is a request whose timer stops at the
headers (`HeadersArrive`, or `ScanUnavailable`) and a body without one
(`ScanAccepted`, `ScanRejected`); the attachments are taken in order.
`PersistProvenance` writes the provenance file; `AfterGate` is the transport's own limit.
`SendWrite` is the one write attempt (`replaySafe: false`), `Receive` and `AttemptFails` its
ends; `FailAmbiguously` is `isAmbiguousWriteFailure`; `SendSearch`, `SearchAnswers`,
`SearchFails` and `SearchRefused` are the reconciliation by Message-ID, which asks for a
token of its own and then has the read retries of `runProviderRequest`. Gmail is `Process`,
`Turn` (an error status) and `ProcessLate` (a request the client has given up on).
`Overwrite` is a caller who reuses its memory. `Views` says what callers pass: copies
(`FALSE`) or shared `Uint8Array` views (`TRUE`, see section 6). `Timed` collects the steps
a timer or a bounded number of attempts brings about, `Answered` those for which the
scanner's body or the token endpoint has to answer.

### ScanDecision

No state: `Incoming` and `Outgoing` are `requireCurrentCleanScan` and
`requireCurrentCleanOutgoingScan`, both `Verdict` of a record they find valid
(`IncomingValid`, `OutgoingValid`); `Readable` is what the client refuses before either sees
it; `Reference` is `evaluate_attachment_scan` (`ReferenceValid`); `Presented` is the
presentation, `Shown` what the browser makes of the reference's decision. An answer is a
record of what these tell apart, by who checks what: its resource and digest, its contract,
the producer's id, the former name of the result field, the correlation id, the record id,
the references, the grammar of its times, the finding, and the times. The server checks the
correlation id, the reference does not; the outgoing gate leaves the former field to the
client. Fractions of a second that only Python keeps are left out.
`ServerWithinReference`, `RefusalsAreAccountedFor` and `BlockedStaysBlocked` say how the three
relate.

### RuntimeAcceptance (uses ScanDecision)

The acceptance script, run more than once against a scanner that answers anything
(`ScannerAnswers`), late (`Tick`) or not at all (`ScanFails`). `Matrix` is the order of the
six cases, `Decide` the service's decision when the answer comes, `Deliver`, `Write` and
`StoreFails` what the service then does, `CheckDownload` and `CheckWrite` the script's
conditions, `BlockedAsMeant` what it asks of an EICAR case. `CleanUp`, `OpenReport` and
`WriteReport` are the `finally` block and the report, which is created exclusively (`wx`);
`Crash` may come between any two steps.

### AccountApi

One request of a Gmail operation, beside anybody's `Create`, `Remove`, `Consent` and
`Revoke`. `SynchronousAnswer` is everything before the first wait: session, owner, provider
and, through the vault, capabilities (`Refuse`, `Admit`). `GatePasses`, `ResolveToken`,
`RefreshAnswers`, `GmailAnswers` and `SearchAnswers` are the waits; the vault is read again
when the token is resolved, and once more for the search after a write. `RefreshAnswers`
stores the scopes that Google names with the new token, or the old ones where it names none
(`gmail-token-service.js:55`). `GrantedBy` and `Required` are the code's tables, `Permits` is
Gmail's side (external). The history variable `stale` says whether, since the capabilities
were looked at, somebody else has changed the credential or a refresh has lost scopes.

### CredentialLifecycle

`resolveAccessToken` is `Resolve` up to its await, then `RefreshAnswers` or
`RefreshFails`; `revoke` is `RevokeAtOnce` (a local removal, or a secret without a token), or `RevokeUpstream`, `RevokeAnswers`,
`RevokeFails`. The vault is synchronous: `Store` is `put` and `remove` (memory first,
then `Persist`), `Rotate` is `rotateEncryptionKey`. A persist ends in one of three ways
(`Outcomes`): done, failed before the rename, failed after it (the last `chmod`).
`Crash` and `Restart` are the operator's, who knows the key last accepted
(`configured`) and those whose rotation failed since (`tried`). Google is
`GoogleAnswers`, separate from the arrival of its answer; `Withdraw` is the user at
Google. The history variable `permitted` is what the file may hold of each account
after the operations acknowledged and failed so far; `revoked` holds the grants whose
revocation was reported as done.

### AuthorizationState (abstract: AuthorizationOnce)

`Issue`, `Consume` (the Map), `Select` and `Mark` (the two statements of the table's
`consumeOAuthState`), `Purge`, `Crash`. Two variables are the deployment, chosen at first:
`durable`, which of the two stores was configured, and `shared`, whether several processes use
the table; within one process nothing runs between the two statements, between processes
everything may. `after` is history: who had been granted what they presented when a callback
was checked. AuthorizationOnce has the same two deployments: where the store is used
exclusively, a grant needs an open value; otherwise a callback that was admitted while the
value was open may still be granted it.

### ApplicationState

`SqliteMailState` used by several processes. Its methods open no transaction, so each
SQL statement commits by itself and is an action: the statement an operation begins
with (`Create`, `Remove`, `PutRef`, `Put`, `Begin`, `Change`), for `begin` the lookup of
its key (`Look`), the write (`InsertAccount`, `DeleteAccount`, `PutRow`,
`UpdateOperation`, `DeleteRow`) and the read-back (`ReadBack`); `Throw` is a statement
that fails. `BeginTransaction`, `Commit` and `Rollback` are `transaction()`: `holder` has
the write lock, and the others read `saved` (WAL); what one of them is answered meanwhile
survives a rollback of the transaction. `Open`, `Migrate`, `OpenFails` and
`Opened` are the constructor and `applySqliteMigrations`. `durable = FALSE` is the Maps of
one process, where nothing runs between the steps of an operation. Foreign keys, the
cascade, `ON CONFLICT`, `OR IGNORE` and WAL are SQLite's, taken as documented.

### MailboxShell

`StartLoad`, `ListArrives`, `ListFails` are `loadMailbox` on either side of its await;
`Search`, `ClickCard`, `MessageArrives`, `MessageFails` are the list and `openMessage`;
`Mutate` to `FinishMutation` are `runSelectedMessageMutation` and
`runSelectedMessageMove`; `ClickFlag` to `FlagRefreshed` the flag button. `Mailboxes` are the
demo provider's, `Folders` where its messages lie, `Destinations` what the move menu offers. The
`Provide...` actions are the provider (the demo provider's rules). `flags` is whether
the provider has the flags capability.

### ComposeDialog

`OpenCompose`, `Close`, `CloseByTimer` (the `setTimeout` after a success), `Select`,
`ReadFile`, `RejectFile` (`compose-attachments.js`, one file per step), `Submit`,
`WriteSucceeds`, `WriteFails`. `attached` is the list a submission takes, `preview` the rows
the dialog shows; `Clear` and `Render` are the two functions that write both. History, which
the code does not keep: `shownIn`, the opening of the dialog in whose preview a list was put;
`shown` and `chosen`, what the dialog showed and what the file input held when a message left.
`TotalSize` is a fold; `SumsAdd` says what the proofs need of it, and MCBrowserShell has TLC
evaluate it.

### MC modules and proof modules

`MC*.tla` give the constants values TLC needs and the symmetry sets; `*Proofs.tla`
extend their component and TLAPS. `BrowserShellProofs` extends both halves of `app.js`,
MailboxShell and ComposeDialog, which is why the latter's specification and type invariant
have names of their own (`DialogSpec`, `DialogTypeOK`). `MCBrowserShell` does so as well: the
halves share no variable, so `PageSpec` moves one while the other is as at first, and every
state of the page is a pair of states it has seen. The two runtimes differ in both halves
(`gateway = ~flags`): the demo provider has flags and refuses attachments, Gmail's the reverse.

## 3. Runs and bounds

| run | module, cfg | shows |
|---|---|---|
| attachment_delivery | MCAttachmentDelivery, AttachmentDelivery.cfg | with restarts, tampering, account removal, failing removals, failing rollbacks and expiries no `Date` can hold: `DownloadsAreClean`, `RecordsAreBacked`, `NoOrphans`, `RecordsOutliveFiles`, and `ImplementsPromise` |
| outgoing_write | MCOutgoingWrite, OutgoingWrite.cfg | `WritesAreCleared`, `ImplementsMailWrite` for a call and its retry with the same id or two calls without, and, with fairness, `OnlyUntimedWaitsLast` |
| outgoing_expiry | OutgoingExpiry.cfg | violation of `EvidenceIsCurrentAtWrite` |
| credential_lifecycle | MCCredentialLifecycle, CredentialLifecycle.cfg | `AcknowledgedSurvives`, `VaultCanBeOpened`, `RetryStateKept`, `RevocationSticks` |
| credential_revival | CredentialRevival.cfg | violation of `RevokedStaysRevoked` |
| authorization | MCAuthorizationState, AuthorizationState.cfg | `NoLateReplay`, `GrantsAreTimely`, `RefusalsCostNothing`, `ImplementsOnce`, for one process and for several |
| authorization_race | AuthorizationRace.cfg | violation of `SingleUse` |
| application_state | MCApplicationState, ApplicationState.cfg | `RowsAreOwned`, `OneRequestPerKey`, `SchemaIsComplete`, `TransactionsAreAtomic` |
| browser_shell | MCBrowserShell, BrowserShell.cfg | `NeverStuck`, `NewestLoadWins`, `ListConverges`; `OnlyCheckedAttachmentsLeave`, `PreviewIsWhatLeaves` |
| compose_demo | ComposeDemo.cfg | violation of `DemoRefusesAttachments` |
| runtime_acceptance | MCRuntimeAcceptance, RuntimeAcceptance.cfg | `EvidenceIsEarned`; `VerdictsAgree` for every answer that departs in one respect from a good record, at every moment |
| account_api | MCAccountApi, AccountApi.cfg | `OthersAreInvisible`, `ScopesSuffice`, `RemovalQuiesces` |

One run of each module also checks its `TypeOK` (`DialogTypeOK`). The runs say `CHECK_DEADLOCK FALSE` where
the model may stop because its calls, object ids, loads, runs or clock are used up;
account_api checks for deadlock, as some request can always be made.

The bounds, and what they still let happen:

- *AttachmentDelivery.cfg*: one object id, two users with an account each, two
  contents, two workers, clock up to 2; lifetimes "never", 1 (which also passes the year 9999,
  `MaxPlain`, for a late request) and one no `Date` can hold (past `MaxInstant`). Every hazard
  here is about one object: its files, row, cache and two concurrent deletions.
  Objects meet only in a pass that deletes several, where each is deleted as if alone and a
  failure ends the pass; the theorems hold for passes over any number of them.
- *OutgoingWrite.cfg*: two calls with or without a common mutation id, two contents, one
  attachment, two read attempts (the code has three; from two on the loop has a middle and
  an end), one clock step: a call and its retry are what reconciliation is about.
  *OutgoingExpiry.cfg*: one call, two attachments, clock up to 2: the second attachment is
  what makes the first one's evidence old.
- *RuntimeAcceptance.cfg*: two runs, the second of which finds what the first left; a clock
  up to 2, so that there are evidence that is over, evidence at its last instant and
  evidence from the future. Answers depart from a good record in at most one respect besides
  finding and times; `RuleIsOne` is proved for all of them.
- *AccountApi.cfg*: two users, two accounts of either provider and three consents (to
  compose; to send; to read and send), so that a refresh may lose scopes or win some. One
  request: requests share only the vault, and what another does to it is `Consent` and
  `Revoke`. That the tables agree for every set of scopes is proved.
- *CredentialLifecycle.cfg*: two accounts in one file, two calls, two consents, two
  keys, one clock step. Two calls are needed for a refresh across a revocation, two
  accounts for one's persist to carry the other's failed change.
- *AuthorizationState.cfg*, *AuthorizationRace.cfg*: two values, three callbacks, two users, a
  lifetime of one tick within two; the Map, the table of one process and that of several.
- *ApplicationState.cfg*: two processes, two users, one account, two providers, two
  fingerprints, transactions of up to two writes. Rows of two accounts never meet; one
  account is enough to be removed under the other process's hands. Per account there is
  one cursor type, one mailbox and one idempotency key, for the same reason.
- *BrowserShell.cfg*, *ComposeDemo.cfg*: two messages, three loads (the first, one that
  overtakes, one by a mutation), one mutation, one flag call at a time, with and without flags;
  Sent and Drafts are always empty, and Sent alone is visited, where there are no flags
  (`Unvisited`). Three files, of which two large ones together exceed the total; two openings,
  selections and submissions.

Every bound is a constant: `MaxTime`, `MaxLoads`, `MaxMutations`, `MaxComposes`,
`MaxSelections`, `MaxWrites` (in ComposeDialog and in ApplicationState), `MaxRuns`, `MaxParts`,
`ReadAttempts` and the sizes of the sets.
Symmetry is used for interchangeable values in runs without liveness only.

Some properties say themselves where they stop being true. `ListConverges` is about a
provider without flags (with them, a star set after a read is not shown, and section 6 has
the starred list) and about loads that did not fail; `RefusalsCostNothing` is about the table
(the Map deletes an entry before it looks at it); `NoOrphans` lists the four ways in which a
file comes to have no record; `NoLateReplay` excepts callbacks that were under way together in
several processes.
`RecordsAreBacked` is about retrievals that succeeded. `Begin` of OutgoingWrite assumes
`HonoursMutationIds`: a client repeats one request under one id.

## 4. Fairness

- `OutgoingWrite!FairSpec`: the `Timed` steps only. The scanner's headers and every
  attempt at Gmail have a timer (`AbortController` in `wardveil-scan-client.js` and
  `runProviderRequest`), and the file system settles. Nothing is assumed of the scanner's
  body, of the token endpoint or of Gmail: the first two have no timer, and
  `OnlyUntimedWaitsLast` says that they are all a call can wait for.

`AccountApi!RemovalQuiesces` is a liveness property that needs no fairness: it says that
something stops happening.

No other run assumes fairness. In particular nothing is assumed of who calls `remove` or
`cleanupExpired`, or when: the repository has no scheduler for them, and no property says that
an expired attachment goes in the end.

## 5. Proofs

The theorems hold for every value of the constants that satisfies the module's
assumptions (types, positive limits, `None` outside the data), hence for any
number of users, objects, workers, calls, processes, accounts, keys, files and clock ticks.
Between them they state every property the passing runs check, except the two liveness
properties. Hypotheses beyond the assumptions are part of a theorem's statement: there are two,
`~Views` and `SumsAdd`. Each
module proves that an inductive invariant (`Inv` or `IInv`) holds first and is kept by every
action; what it adds to the properties, and why they need it:

**AttachmentDeliveryProofs**: `TypeCorrect`, `BackedRecords`, `CleanDownloads`,
`FilesGoFirst`, `NothingOrphaned` and the refinement `DeliveryKeepsPromise`, under every
disturbance and for the Map as well as SQLite. `RecordsAreBacked` is not inductive: a row
becomes visible in the last of four steps, so the proof has to know what the three before it
left behind. `IInv` adds

- `CallInv`: what a retrieval at each program point has been given;
- `FileInv`: the files a retrieval has at each program point until it records the object, and
  that an intact sidecar repeats its evidence;
- `RecordInv`: a row belongs to a retrieval that is over or being rolled back, and agrees with
  what was cleared;
- `DeletionInv`: the files a worker has deleted stay deleted until it comes to the row.

`CleanDownloads` follows from `RecordInv` and from an intact sidecar or cache being the
accepted scan; `FilesGoFirst` from `DeletionInv`. `NothingOrphaned` is the converse of
`BackedRecords`: a file without a record has one of the four reasons of `AnsweredFor`: an
account that went, a rollback whose `rm` was rejected, an unrepresentable expiry, or the end of
the process. Its invariant `Tidy` adds the files a rollback still has to come to.

**OutgoingWriteProofs**: `TypeCorrect`, `Cleared` and the refinement `PromiseKept`. `Cleared`
(no attachment reaches Gmail unless exactly its bytes were found clean and that is on disk)
has the hypothesis `~Views`; with shared views it is false. What carries it is `FoundSoFar`:
the attachments a call has passed were found as they are now. `PromiseKept` needs no such hypothesis; it rests on
`OneWrite` (before its one write a call has left nothing in Gmail, and a refused call leaves
nothing ever), `DraftsWritten` and `SearchedById` (a search has an id to look for, so that
what it finds is a write of that mutation).

**CredentialLifecycleProofs**: `TypeCorrect`, `Acknowledged`, `Openable`, `RetryPossible`,
`Sticks`. `permitted` makes `AcknowledgedSurvives` nearly inductive; what is missing is that a
call that waits has an account and a secret (`WaitingCalls`), so that its answer stores
something well typed, and that the key of a running process is the configured one
(`KeyInUse`), without which an ordinary `put` after a failed rotation could write under a
key nobody knows. `Sticks` (what was reported as revoked comes back by a refresh under way
and nothing else) also needs that a grant belongs to one account (`OneAccount`), so that no
other entry still holds it, and that a process that is down remembers nothing (`Forgotten`).

**AuthorizationStateProofs**: `TypeCorrect`, `NeverReplayed`, `Timely`, `RefusalsHarmless` and
the refinement `KeepsPromise`, for one process and for several. The strengthening: rows were
issued, a callback between the two statements is entitled to its value (`Entitled`), what was
granted is open to nobody (`Marked`), so that whoever is checked afterwards is checked for
another value (`Fresh`); and in one process a callback between the statements is alone
(`Alone`), from which single use follows there.

**ApplicationStateProofs**: `TypeCorrect`, `RowsOwned`, `OneRequest`, `SchemaComplete`,
`Atomic`, for any number of processes and for SQLite and the Maps. The difficulty is that a
rollback, or the end of a process inside a transaction, brings back an older state under the
statements of the other calls. So every part of the invariant is stated of the committed
state and of the uncommitted one. `OwnersFixed`: an account id has one owner, committed or
not, and a drawn id that is not yet inserted is nobody's; hence a row written one statement
after its owner was looked up is that owner's. `Answered` and `Inserted`: what `begin` has
answered, or has inserted and not read back yet, stands in both states until the account
goes; this is what makes lookup, insert and read-back in three statements answer for one request.
`Basics` has the types, who is in a transaction, and how far a migration is.

**RuntimeAcceptanceProofs**: `TypeCorrect`, `EvidenceEarned`, `OneRuleAlways` and, about
ScanDecision alone, `RuleIsOne`: for every answer at every moment, reachable or not, the
server, the reference and the presentation agree but for the named differences.
`EvidenceEarned` needs to know at the end of the matrix what happened at its start: `SaidSoFar` (what
the scanner said in the cases that are over) and `WrittenSoFar` (the controls written once
each, EICAR only where the run is about to fail); `ReportOpened` orders the report after the
removal of the work directory.

**AccountApiProofs**: `TypeCorrect`, `OthersInvisible`, `ScopesSufficient`. `OthersInvisible`
compares the answers before and after every step; it needs that a waiting request is for an
account of its own user (`RequestOwned`), so that what a refresh stores is his, and that an
account keeps its user (`UserKept`). `ScopesSufficient` rests on `CredentialChecked`: as long as
nobody else has changed the credential and no refresh has lost scopes since its capabilities
were looked at, the entry in the vault, the one a refresh carries and the one behind the token
have the scopes that admitted the request; and on the tables, row by row (`CapabilityBacked` and
the lemmas after it).

**BrowserShellProofs**: of the mailbox shell `TypeCorrect`, `NewestWins`, `NeverHeld`,
`Converges`; of the compose dialog `DialogTypeCorrect`, `PreviewLeaves`, `LimitsHold`. For the
shell `NewestPending` ties the history `newest` to the load with the highest generation;
`Released` says that whoever disabled the controls or cleared the list is still to come back;
`Fresh`, which is what `ListConverges` lacks, that an answer on its way agrees with the
provider unless a mutation has happened since, whose own reload is then to come. For the
dialog `Shown` says that preview and payload agree, that what they hold was put there for this
opening, and that they are not empty where the input holds files and no selection is being
read; `LimitsKept` follows the
limits from the first file read to the message submitted. `Counted` relates timers to
answered submissions, for the types. `LimitsHold` has the hypothesis
`SumsAdd`: adding an attachment adds its size to the total. It is true of every finite list,
and proving it is an induction over the fold; TLC evaluates it for the instance.

Only model-checked: the liveness properties `OnlyUntimedWaitsLast` and
`RemovalQuiesces`, as fairness, ENABLED and what eventually stops are out of the provers'
reach; and the arithmetic fact `SumsAdd`, as the library's induction theorems cannot be
instantiated. The four runs of section 6 are counterexamples and have nothing to prove.

## 6. Where the code and its documents part

Four runs end in a violation; each checks a sentence of the repository:

1. `outgoing_expiry`: `docs/outgoing-attachment-wardveil-gate.md:13,19` says that a
   write is blocked when evidence is expired. The code looks at each attachment's
   evidence once, when its scan returns; scans of the other attachments, the provenance
   file and a token refresh follow.
2. `credential_revival`: `docs/provider-backend-contract.md:108` says that removal
   invalidates subsequent reads. A refresh under way stores the credential again.
3. `authorization_race`: `oauth-state-store.js:15-17` says that state values are single-use. Two
   processes on one database may both pass the SELECT before either marks the row; `NoLateReplay`
   says that no callback that comes later is granted it too.
4. `compose_demo`: `README.md:60` says that demo mode refuses every attachment-bearing
   submission. One whose files are still being read is accepted, without them (nothing is
   transmitted).

Other behaviour the models contain and no run asserts against:

- With `Views = TRUE` a caller's `Uint8Array` is shared with it until the scan has
  answered, and `WritesAreCleared` fails; with copies (`Buffer`, base64) it holds.
- The builder admits 20 MiB of attachments, the transport 2 MiB: a message may be
  scanned, recorded and refused all the same.
- Removing an account leaves the files of its attachments, and its credential.
- `docs/wardveil-attachment-scanning.md:103` says that the rollback of a failed delivery deletes
  bytes and sidecar together. It does, but the insert of the record commits before it is read
  back (`sqlite-state.js:165-166`): if reading fails, the files are removed and the record stays
  (`ReadBackFails`). And a lifetime whose end no `Date` can hold throws
  (`attachment-delivery-service.js:147`) outside the `try`: both files stay (`ExpiryFails`).
- A stop between two steps of a delivery leaves files nothing sweeps; so does a rollback whose
  `rm` fails.
- A cleanup pass ends at the first file it cannot remove, and the next pass begins with it again:
  one such file keeps every later record. Nothing in the repository calls `cleanupExpired`.
- Expiries are compared as text. One past the year 9999 begins with a sign, sorts before every
  other and is cleaned up at once.
- A rotation whose last `chmod` fails has rotated the file and not the vault; the next
  persist writes it under the old key again.
- Changing mailboxes clears the reader (`README.md:44`), but a search typed while the new
  mailbox loads brings the old cards back, and one of them opened then stays in the reader
  beside the new list.
- `begin` of an idempotent operation returns the record of a request still in progress to a
  second caller, and a late `fail` overwrites a completed record.
- The answer to a flag is applied to the message then in the reader: in the Starred view another
  message than the one unstarred may be dropped from the list.
- Files still being read when the dialog is closed go with the message opened next, after its
  preview has shown them; a message submitted while its files are being read leaves without
  them.
- The browser's messages carry no `clientMutationId`, so none of them is ever reconciled.
  With a consent to send or to compose that includes no reading, Gmail refuses the search that
  would reconcile a message sent.
- Capabilities are looked at before the gate, the credential is read after it: a consent or a
  revocation in between leads to a refusal by Gmail, or to the credential that is there now, and
  so does a refresh that comes back with fewer scopes.
- The token endpoint and the body of the scanner's answer have no timer and may hold a call.
- A suspicious attachment is held when it comes in and blocked when it goes out. Evidence ends
  at `valid_until` for the server (`<=`) and just after it for the reference (`>`). The server
  asks for the correlation id of its request (the client; the services ask for one at all), a
  record id, a producer id that is a string and references that are strings; the reference asks
  for neither of the first two, of the producer only that it has an id, and for one reference
  only where it allows. Each reads some
  times the other does not (`RefusalsAreAccountedFor`, `ServerWithinReference`).
- The server's decisions are in camel case, the presentation reads snake case, and the public
  form of a provider error carries no decision: what `Presented` says of a decision is true of
  the reference's, not of one the server could send today.
- An acceptance run killed while it writes its report leaves a partial file, and every later
  run fails at it, its matrix passed or not.
- A second submission of the compose form before the first answer is a second message;
  the timer of a sent message may close the dialog of the next.

## 7. What is not modelled, and why

- Byte- and character-level code (content sniffing, archive inspection, sanitizing,
  normalising, MIME, URL and form building): its verdict is a nondeterministic
  outcome where a model needs it.
- Parsing of requests and the shape of responses in `mail-api-router.js`; the repository's static checks.
- `removeOutgoingWardveilScanProvenance` (`outgoing-attachment-scan-provenance-store.js:153-158`),
  which nothing in the repository calls.
- Backup, packaging, and the validators of configuration and evidence: sequential, run by hand.
- `listProviderAccountsForUser`, `getMailboxState` and other pure reads; account status
  (always `active`); the uniqueness of external account ids (SQLite's; `Throw` stands for
  its violation).
- `.partial` files: no reader opens them. Several vault objects on one file: the code
  opens one per process.
- In the browser: toasts, theme, layout, message text.

`PROJECT.json` gives the status of each component.

## 8. Plan

Done: the modules above with their abstract specifications, and theorems for every safety
property, action property and refinement the passing runs check. What is left to model is
text and bytes (section 7). What could be added:

1. Properties of the open hazards of `PROJECT.json`, those without one, once it is decided
   what the code should do there: today's behaviour is in section 6.
2. What remains true with shared views: which content may reach Gmail.

## 9. How to run

In this directory: `tlc -config X.cfg MCModule.tla` for a row of section 3,
`tlapm ModuleProofs.tla` for the proofs. The longest runs are
browser_shell (two and a half minutes, four million states), account_api and
attachment_delivery (about two minutes each), credential_lifecycle and application_state (about
one); the others take seconds to half a minute.
