------------------------- MODULE AttachmentDelivery -------------------------
(***************************************************************************)
(* The cached delivery of incoming Gmail attachments:                      *)
(* server/attachment-delivery-service.js on top of the byte store          *)
(* (attachment-stream-store.js), the provenance sidecars                   *)
(* (attachment-scan-provenance-store.js) and the attachment records of     *)
(* sqlite-state.js.                                                        *)
(*                                                                         *)
(* The byte store draws a fresh random object id for every retrieval, so   *)
(* the id names the retrieval too: pc[o] is where the one that gets o is.  *)
(* Every await of the code ends an action; authorizeDownload never awaits  *)
(* and is one action.  A content stands for the bytes and their digest.    *)
(* Temporary ".partial" files, which no reader opens, are left out.        *)
(***************************************************************************)
EXTENDS Integers, FiniteSets

CONSTANTS
  Users,         \* session users
  Accounts,      \* linked Gmail accounts (random ids, never reused)
  Owner,         \* [Accounts -> Users]: provider_accounts.user_id
  Objects,       \* object ids; numbers, because cleanup orders by object_id
  Contents,      \* attachment contents
  Ttls,          \* the ttlMs arguments callers use; Never is "ttlMs: null"
  Workers,       \* concurrent remove / cleanupExpired calls
  SweepLimit,    \* cleanupExpired's limit
  MaxTime,       \* bound on the clock
  MaxPlain,      \* the last instant of the year 9999
  MaxInstant,    \* the last instant a Date can hold
  None,          \* null, or no such file, row or map entry
  Durable,       \* TRUE: a stateStore (SQLite) is given; FALSE: the Map
  Disturbances   \* which of DisturbanceKinds may happen

Never == -1
DisturbanceKinds == {"crash", "tamper", "unlink", "rm", "undo"}
Files == {"bytes", "sidecar"}
Results == {"clean", "malicious", "suspicious", "unknown", "unsupported"}

VARIABLES
  clock,      \* Date.now()
  linked,     \* rows of provider_accounts
  pc,         \* where the retrieval that draws each object id is
  request,    \* who retrieves, from which account, and what the provider sent
  cleared,    \* what the accepted envelope said, and the expiry derived from it
  stored,     \* the digest storeFn returned
  undo,       \* the rm calls of the retrieval's rollback still to settle
  swallowed,  \* history: the rm calls of a rollback that were rejected
  bytes,      \* the file <rootDir>/<objectId>
  sidecar,    \* the file <rootDir>/.<objectId>.wardveil-scan.json
  row,        \* attachment_delivery_records, or the records Map
  memory,     \* the scanProvenance Map
  worker,     \* the remove and cleanupExpired calls in flight
  attempted   \* history: objects some deletion has started on

call == <<pc, request, cleared, stored, undo, swallowed>>
files == <<bytes, sidecar>>
state == <<row, memory>>
vars == <<clock, linked, call, files, state, worker, attempted>>

Times == 0 .. MaxTime + 1

\* What the scanner answers.  "valid" stands for every structural check on the
\* envelope that is neither the digest, nor the result, nor a time.
Envelopes == [valid : BOOLEAN, digest : Contents, result : Results,
              observedAt : Times, validUntil : Times]

\* The minimised clean provenance that is remembered and persisted.
Scans == [digest : Contents, observedAt : Times, validUntil : Times]

Sidecars == [scan : Scans, intact : BOOLEAN]

Rows == [userId : Users, accountId : Accounts, sha256 : Contents,
         expiresAt : Int, lastAccessedAt : Int]

ASSUME InstanceAssumption ==
  /\ Owner \in [Accounts -> Users]
  /\ Objects \subseteq Nat
  /\ Ttls \subseteq (Nat \ {0}) \cup {Never}
  /\ SweepLimit \in Nat \ {0}
  /\ MaxTime \in Nat /\ MaxPlain \in Nat /\ MaxInstant \in Nat
  /\ MaxTime <= MaxPlain /\ MaxPlain <= MaxInstant
  /\ Durable \in BOOLEAN
  /\ Disturbances \subseteq DisturbanceKinds
  /\ None \notin Users \cup Accounts \cup Contents
  /\ None \notin Scans /\ None \notin Sidecars /\ None \notin Rows

Pcs == {"idle", "scanning", "storing", "persisting", "recording",
        "undoing", "done", "failed", "lost"}

InFlight == {"scanning", "storing", "persisting", "recording", "undoing"}

Requests == [userId : Users, accountId : Accounts, content : Contents]

\* expiresAt is fixed by the validation instant and the ttlMs argument.
Clearances == [scan : Scans, expiresAt : Int]

Jobs == [queue : SUBSET Objects, rm : SUBSET Files, failed : BOOLEAN]

IdleJob == [queue |-> {}, rm |-> {}, failed |-> FALSE]

\* A call about to delete the files of the first record of its list.
Job(queue) == [queue |-> queue, rm |-> Files, failed |-> FALSE]

TypeOK ==
  /\ clock \in 0 .. MaxTime
  /\ linked \subseteq Accounts
  /\ pc \in [Objects -> Pcs]
  /\ request \in [Objects -> Requests \cup {None}]
  /\ cleared \in [Objects -> Clearances \cup {None}]
  /\ stored \in [Objects -> Contents \cup {None}]
  /\ undo \in [Objects -> SUBSET Files]
  /\ swallowed \in [Objects -> SUBSET Files]
  /\ bytes \in [Objects -> Contents \cup {None}]
  /\ sidecar \in [Objects -> Sidecars \cup {None}]
  /\ row \in [Objects -> Rows \cup {None}]
  /\ memory \in [Objects -> Scans \cup {None}]
  /\ worker \in [Workers -> Jobs]
  /\ attempted \subseteq Objects

Init ==
  /\ clock = 0
  /\ linked = Accounts
  /\ pc = [o \in Objects |-> "idle"]
  /\ request = [o \in Objects |-> None]
  /\ cleared = [o \in Objects |-> None]
  /\ stored = [o \in Objects |-> None]
  /\ undo = [o \in Objects |-> {}]
  /\ swallowed = [o \in Objects |-> {}]
  /\ bytes = [o \in Objects |-> None]
  /\ sidecar = [o \in Objects |-> None]
  /\ row = [o \in Objects |-> None]
  /\ memory = [o \in Objects |-> None]
  /\ worker = [w \in Workers |-> IdleJob]
  /\ attempted = {}

-----------------------------------------------------------------------------
(* Retrieval *)

Goto(o, to) ==
  /\ pc' = [pc EXCEPT ![o] = to]
  /\ UNCHANGED <<request, cleared, stored, undo, swallowed>>

Fail(o) == Goto(o, "failed")

\* Undo the listed files, then rethrow.
FailAfterUndoing(o, fs) ==
  /\ pc' = [pc EXCEPT ![o] = "undoing"]
  /\ undo' = [undo EXCEPT ![o] = fs]
  /\ UNCHANGED <<request, cleared, stored, swallowed>>

\* ownership and capability check, then the provider fetch has answered.
Retrieve(o, u, a, c) ==
  /\ pc[o] = "idle"
  /\ a \in linked /\ Owner[a] = u
  /\ pc' = [pc EXCEPT ![o] = "scanning"]
  /\ request' = [request EXCEPT ![o] = [userId |-> u, accountId |-> a, content |-> c]]
  /\ UNCHANGED <<cleared, stored, undo, swallowed>>
  /\ UNCHANGED <<clock, linked, files, state, worker, attempted>>

\* requireCurrentCleanScan.
CurrentCleanScan(env, digest, now) ==
  /\ env.valid
  /\ env.digest = digest
  /\ env.observedAt <= now
  /\ env.observedAt < env.validUntil
  /\ env.result = "clean"
  /\ now < env.validUntil

ScanOf(env) == [digest |-> env.digest, observedAt |-> env.observedAt,
                validUntil |-> env.validUntil]

ExpiryFor(ttl) == IF ttl = Never THEN Never ELSE clock + ttl

\* The scanner answered and the envelope was validated at this instant.
ScanAccepted(o, env, ttl) ==
  /\ pc[o] = "scanning"
  /\ CurrentCleanScan(env, request[o].content, clock)
  /\ pc' = [pc EXCEPT ![o] = "storing"]
  /\ cleared' = [cleared EXCEPT ![o] = [scan |-> ScanOf(env), expiresAt |-> ExpiryFor(ttl)]]
  /\ UNCHANGED <<request, stored, undo, swallowed>>
  /\ UNCHANGED <<clock, linked, files, state, worker, attempted>>

\* Any other envelope, or no answer at all: an error before anything is stored.
ScanRejected(o) ==
  /\ pc[o] = "scanning"
  /\ Fail(o)
  /\ UNCHANGED <<clock, linked, files, state, worker, attempted>>

\* Bug: what was stored is not compared with what was scanned.
StoreBytesUncompared(o, c) ==
  /\ pc[o] = "storing"
  /\ bytes' = [bytes EXCEPT ![o] = c]
  /\ pc' = [pc EXCEPT ![o] = "persisting"]
  /\ stored' = [stored EXCEPT ![o] = c]
  /\ UNCHANGED <<request, cleared, undo, swallowed>>
  /\ UNCHANGED <<clock, linked, sidecar, state, worker, attempted>>

\* storeFn has renamed the temporary file into place.  storeFn is injected, so
\* what it stored is compared with what was scanned.
StoreBytes(o, c) ==
  /\ pc[o] = "storing"
  /\ bytes' = [bytes EXCEPT ![o] = c]
  /\ IF c = request[o].content /\ c = cleared[o].scan.digest
       THEN /\ pc' = [pc EXCEPT ![o] = "persisting"]
            /\ stored' = [stored EXCEPT ![o] = c]
            /\ UNCHANGED <<request, cleared, undo, swallowed>>
       ELSE FailAfterUndoing(o, {"bytes"})
  /\ UNCHANGED <<clock, linked, sidecar, state, worker, attempted>>

StoreFails(o) ==
  /\ pc[o] = "storing"
  /\ Fail(o)
  /\ UNCHANGED <<clock, linked, files, state, worker, attempted>>

\* Bug: the scan is written without its integrity envelope.
PersistSidecarBare(o) ==
  /\ pc[o] = "persisting"
  /\ sidecar' = [sidecar EXCEPT ![o] = cleared[o].scan]
  /\ Goto(o, "recording")
  /\ UNCHANGED <<clock, linked, bytes, state, worker, attempted>>

PersistSidecar(o) ==
  /\ pc[o] = "persisting"
  /\ sidecar' = [sidecar EXCEPT ![o] = [scan |-> cleared[o].scan, intact |-> TRUE]]
  /\ Goto(o, "recording")
  /\ UNCHANGED <<clock, linked, bytes, state, worker, attempted>>

\* Bug: a sidecar that could not be written is ignored.
PersistFailsSwallowed(o) ==
  /\ pc[o] = "persisting"
  /\ Goto(o, "recording")
  /\ UNCHANGED <<clock, linked, files, state, worker, attempted>>

PersistFails(o) ==
  /\ pc[o] = "persisting"
  /\ FailAfterUndoing(o, {"bytes"})
  /\ UNCHANGED <<clock, linked, files, state, worker, attempted>>

RowFor(o) == [userId |-> request[o].userId, accountId |-> request[o].accountId,
              sha256 |-> stored[o], expiresAt |-> cleared[o].expiresAt,
              lastAccessedAt |-> Never]

\* toISOString throws for an instant no Date can hold.
Representable(o) == cleared[o].expiresAt <= MaxInstant

\* That throw comes after both files were written and is caught nowhere.
ExpiryFails(o) ==
  /\ pc[o] = "recording"
  /\ ~Representable(o)
  /\ Fail(o)
  /\ UNCHANGED <<clock, linked, files, state, worker, attempted>>

\* The row or Map entry is about to be written.
Recording(o) == pc[o] = "recording" /\ Representable(o)

\* putAttachmentDeliveryRecord requires the account to be linked still; the
\* records Map of the non-durable mode does not.
Record(o) ==
  /\ Recording(o)
  /\ Durable => request[o].accountId \in linked
  /\ row' = [row EXCEPT ![o] = RowFor(o)]
  /\ memory' = [memory EXCEPT ![o] = cleared[o].scan]
  /\ Goto(o, "done")
  /\ UNCHANGED <<clock, linked, files, worker, attempted>>

\* Bug: the rollback forgets the files.
RecordFailsLeavingFiles(o) ==
  /\ Recording(o)
  /\ Durable
  /\ memory' = [memory EXCEPT ![o] = None]
  /\ Fail(o)
  /\ UNCHANGED <<clock, linked, files, row, worker, attempted>>

\* The insert throws: the account is gone, or SQLite failed.
RecordFails(o) ==
  /\ Recording(o)
  /\ Durable
  /\ memory' = [memory EXCEPT ![o] = None]
  /\ FailAfterUndoing(o, Files)
  /\ UNCHANGED <<clock, linked, files, row, worker, attempted>>

\* The insert has committed by itself and reading the row back throws: the files
\* are rolled back, the row is not.
ReadBackFails(o) ==
  /\ Recording(o)
  /\ Durable /\ request[o].accountId \in linked
  /\ row' = [row EXCEPT ![o] = RowFor(o)]
  /\ memory' = [memory EXCEPT ![o] = None]
  /\ FailAfterUndoing(o, Files)
  /\ UNCHANGED <<clock, linked, files, worker, attempted>>

Erase(o, f) ==
  /\ bytes' = IF f = "bytes" THEN [bytes EXCEPT ![o] = None] ELSE bytes
  /\ sidecar' = IF f = "sidecar" THEN [sidecar EXCEPT ![o] = None] ELSE sidecar

\* One of the deletions of the rollback settles; a rejected one is swallowed.
Undo(o, f) ==
  /\ pc[o] = "undoing"
  /\ f \in undo[o]
  /\ \/ Erase(o, f) /\ UNCHANGED swallowed
     \/ /\ "undo" \in Disturbances
        /\ swallowed' = [swallowed EXCEPT ![o] = @ \cup {f}]
        /\ UNCHANGED files
  /\ undo' = [undo EXCEPT ![o] = @ \ {f}]
  /\ pc' = [pc EXCEPT ![o] = IF undo[o] = {f} THEN "failed" ELSE "undoing"]
  /\ UNCHANGED <<request, cleared, stored>>
  /\ UNCHANGED <<clock, linked, state, worker, attempted>>

-----------------------------------------------------------------------------
(* authorizeDownload *)

Expired(r) == r.expiresAt # Never /\ r.expiresAt <= clock

\* #ownedRecord, then the expiry check.
Visible(u, o) ==
  /\ row[o] # None
  /\ row[o].userId = u
  /\ ~Expired(row[o])

\* Bug: the integrity digest is not verified.
DurableScanUnverified(o) == IF sidecar[o] # None THEN sidecar[o].scan ELSE None

\* #loadDurableScanProvenance fails on a missing or corrupt sidecar.
DurableScan(o) ==
  IF sidecar[o] # None /\ sidecar[o].intact THEN sidecar[o].scan ELSE None

KnownScan(o) == IF memory[o] # None THEN memory[o] ELSE DurableScan(o)

\* requirePersistedCleanScan.
PersistedCleanScan(scan, storedDigest, now) ==
  /\ scan # None
  /\ scan.digest = storedDigest
  /\ scan.observedAt <= now
  /\ scan.observedAt < scan.validUntil
  /\ now < scan.validUntil

\* authorizeDownload returns a path now.
DownloadAllowed(u, o) ==
  /\ Visible(u, o)
  /\ PersistedCleanScan(KnownScan(o), row[o].sha256, clock)

\* What authorizeDownload changes: the restored provenance is remembered before it
\* is validated, and an allowed download touches the record, if SQLite lets it.
AuthorizeDownload(u, o) ==
  /\ Visible(u, o)
  /\ memory' = [memory EXCEPT ![o] = KnownScan(o)]
  /\ \/ /\ Durable /\ DownloadAllowed(u, o)
        /\ row' = [row EXCEPT ![o].lastAccessedAt = clock]
     \/ UNCHANGED row
  /\ UNCHANGED <<clock, linked, call, files, worker, attempted>>

-----------------------------------------------------------------------------
(* remove and cleanupExpired *)

\* The database compares instants as ISO text, where the sign that a year after
\* 9999 has sorts before every digit.
IsoKey(t) == IF t > MaxPlain THEN t - MaxInstant - 1 ELSE t

\* expires_at IS NOT NULL AND expires_at <= now.
ExpiredObjects ==
  {o \in Objects : /\ row[o] # None
                   /\ row[o].expiresAt # Never /\ IsoKey(row[o].expiresAt) <= clock}

\* ORDER BY expires_at, object_id.
Precedes(p, o) ==
  LET kp == IsoKey(cleared[p].expiresAt)  ko == IsoKey(cleared[o].expiresAt)
  IN  kp < ko \/ (kp = ko /\ p < o)

\* listExpiredAttachmentDeliveryRecords.
Listed == {o \in ExpiredObjects :
             Cardinality({p \in ExpiredObjects : Precedes(p, o)}) < SweepLimit}

Begin(w, queue) ==
  /\ worker[w] = IdleJob
  /\ worker' = [worker EXCEPT ![w] = Job(queue)]
  /\ attempted' = attempted \cup queue
  /\ UNCHANGED <<clock, linked, call, files, state>>

Remove(w, u, o) ==
  /\ row[o] # None /\ row[o].userId = u
  /\ Begin(w, {o})

CleanupExpired(w) ==
  /\ Durable
  /\ Listed # {}
  /\ Begin(w, Listed)

\* The record whose files the call is deleting.
Current(w, o) ==
  /\ o \in worker[w].queue
  /\ \A p \in worker[w].queue : p = o \/ Precedes(o, p)

\* One of the two deletions of the allSettled settles.  That of the sidecar makes
\* two rm calls, so it may be rejected with the sidecar gone.
DeleteFile(w, o, f) ==
  /\ Current(w, o)
  /\ f \in worker[w].rm
  /\ \/ /\ Erase(o, f)
        /\ worker' = [worker EXCEPT ![w].rm = @ \ {f}]
     \/ /\ "rm" \in Disturbances
        /\ worker' = [worker EXCEPT ![w] = [queue |-> worker[w].queue,
                                         rm |-> worker[w].rm \ {f}, failed |-> TRUE]]
        /\ UNCHANGED files \/ (f = "sidecar" /\ Erase(o, f))
  /\ UNCHANGED <<clock, linked, call, state, attempted>>

\* A deletion failed, or the row had gone: the call throws, and a cleanup pass
\* gives up the rest of its list.
Abort(w, o) ==
  /\ Current(w, o)
  /\ worker[w].rm = {}
  /\ worker[w].failed \/ (Durable /\ row[o] = None)
  /\ worker' = [worker EXCEPT ![w] = IdleJob]
  /\ UNCHANGED <<clock, linked, call, files, state, attempted>>

\* Bug: a failed deletion does not stop the record's.
ForgetRegardless(w, o) ==
  /\ Current(w, o)
  /\ worker[w].rm = {}
  /\ row' = [row EXCEPT ![o] = None]
  /\ memory' = [memory EXCEPT ![o] = None]
  /\ worker' = [worker EXCEPT ![w] = IdleJob]
  /\ UNCHANGED <<clock, linked, call, files, attempted>>

Forget(w, o) ==
  /\ Current(w, o)
  /\ worker[w].rm = {}
  /\ ~worker[w].failed
  /\ Durable => row[o] # None
  /\ row' = [row EXCEPT ![o] = None]
  /\ memory' = [memory EXCEPT ![o] = None]
  /\ worker' = IF worker[w].queue = {o}
                  THEN [worker EXCEPT ![w] = IdleJob]
                  ELSE [worker EXCEPT ![w] = Job(worker[w].queue \ {o})]
  /\ UNCHANGED <<clock, linked, call, files, attempted>>

-----------------------------------------------------------------------------
(* The environment *)

Tick ==
  /\ clock < MaxTime
  /\ clock' = clock + 1
  /\ UNCHANGED <<linked, call, files, state, worker, attempted>>

\* removeProviderAccountForUser; the foreign key cascades to the records.
RemoveAccount(a) ==
  /\ "unlink" \in Disturbances
  /\ a \in linked
  /\ linked' = linked \ {a}
  /\ row' = [o \in Objects |->
               IF Durable /\ row[o] # None /\ row[o].accountId = a THEN None ELSE row[o]]
  /\ UNCHANGED <<clock, call, files, memory, worker, attempted>>

\* A sidecar is edited without its integrity digest.  Of all edits the model
\* makes the most tempting one: evidence that never expires.
Tamper(o) ==
  /\ "tamper" \in Disturbances
  /\ sidecar[o] # None
  /\ sidecar' = [sidecar EXCEPT ![o] = [scan |-> [@.scan EXCEPT !.validUntil = MaxTime + 1],
                                        intact |-> FALSE]]
  /\ UNCHANGED <<clock, linked, call, bytes, state, worker, attempted>>

\* Calls in flight, and the records of a Map, end with the process.
Interrupted(o) == pc[o] \in InFlight \/ (~Durable /\ row[o] # None)

\* The process dies and a new service object is built on the same files.
Restart ==
  /\ "crash" \in Disturbances
  /\ pc' = [o \in Objects |-> IF Interrupted(o) THEN "lost" ELSE pc[o]]
  /\ memory' = [o \in Objects |-> None]
  /\ row' = IF Durable THEN row ELSE [o \in Objects |-> None]
  /\ worker' = [w \in Workers |-> IdleJob]
  /\ UNCHANGED <<clock, linked, request, cleared, stored, undo, swallowed, files, attempted>>

Retrieval(o) ==
  \/ \E env \in Envelopes, ttl \in Ttls : ScanAccepted(o, env, ttl)
  \/ ScanRejected(o)
  \/ \E c \in Contents : StoreBytes(o, c)
  \/ StoreFails(o)
  \/ PersistSidecar(o)
  \/ PersistFails(o)
  \/ ExpiryFails(o)
  \/ Record(o)
  \/ RecordFails(o)
  \/ ReadBackFails(o)
  \/ \E f \in Files : Undo(o, f)

Deletion(w) ==
  \E o \in Objects : \/ \E f \in Files : DeleteFile(w, o, f)
                     \/ Abort(w, o)
                     \/ Forget(w, o)

Next ==
  \/ \E o \in Objects, u \in Users, a \in Accounts, c \in Contents : Retrieve(o, u, a, c)
  \/ \E o \in Objects : Retrieval(o)
  \/ \E u \in Users, o \in Objects : AuthorizeDownload(u, o)
  \/ \E w \in Workers, u \in Users, o \in Objects : Remove(w, u, o)
  \/ \E w \in Workers : CleanupExpired(w)
  \/ \E w \in Workers : Deletion(w)
  \/ Tick
  \/ \E a \in Accounts : RemoveAccount(a)
  \/ \E o \in Objects : Tamper(o)
  \/ Restart

Spec == Init /\ [][Next]_vars

-----------------------------------------------------------------------------
(* Properties *)

\* authorizeDownload returns a path only to the user whose account the bytes
\* came from, for the very content the scanner called clean, and only inside
\* the validity window the scanner gave: across restarts, tampering with the
\* sidecars, and whatever removals are under way.
DownloadsAreClean ==
  \A u \in Users, o \in Objects :
    DownloadAllowed(u, o) =>
      /\ request[o].userId = u /\ Owner[request[o].accountId] = u
      /\ row[o].sha256 = request[o].content
      /\ cleared[o].scan.digest = request[o].content
      /\ cleared[o].scan.observedAt <= clock /\ clock < cleared[o].scan.validUntil

\* The write order bytes, sidecar, record: whatever fails or dies in between, a
\* record whose retrieval succeeded, and which no deletion has touched, has its
\* scanned bytes and its sidecar on disk.
RecordsAreBacked ==
  \A o \in Objects :
    row[o] # None /\ pc[o] = "done" /\ o \notin attempted =>
      /\ bytes[o] = row[o].sha256
      /\ sidecar[o] # None
      /\ sidecar[o].intact => sidecar[o].scan = cleared[o].scan

\* The delete order files, record: a record goes away only once both files have
\* gone, except through the foreign-key cascade and the loss of the Map.
RecordsOutliveFiles ==
  [][\A o \in Objects :
       row[o] # None /\ row'[o] = None /\ (\E w \in Workers : Deletion(w))
         => bytes[o] = None /\ sidecar[o] = None]_vars

OnDisk(o, f) == IF f = "bytes" THEN bytes[o] # None ELSE sidecar[o] # None

\* Who may still come for a file, or why nobody will.
AnsweredFor(o, f) ==
  \/ row[o] # None
  \/ request[o].accountId \notin linked
  \/ f \in swallowed[o]
  \/ pc[o] = "failed" /\ ~Representable(o)
  \/ pc[o] = "lost"

\* The whole list of what leaves a file without a record once its retrieval is over: a
\* removed account, a rollback whose rm was rejected, an expiry no Date can hold, or the
\* end of the process.  No failure of the store, the sidecar or the database does, nor
\* any overlap of deletions that fail half-way.
NoOrphans ==
  \A o \in Objects, f \in Files :
    OnDisk(o, f) /\ pc[o] \notin InFlight => AnsweredFor(o, f)

\* What the service promises, see CleanDelivery.
Stage(o) ==
  CASE row[o] # None -> "offered"
    [] row[o] = None /\ pc[o] \in {"idle", "scanning"} -> "pending"
    [] row[o] = None /\ pc[o] \in {"storing", "persisting", "recording"} -> "cleared"
    [] OTHER -> "withdrawn"

Terms(o) ==
  CASE Stage(o) = "cleared" ->
         [user |-> request[o].userId, digest |-> cleared[o].scan.digest]
    [] Stage(o) = "offered" -> [user |-> row[o].userId, digest |-> row[o].sha256]
    [] OTHER -> None

Promise == INSTANCE CleanDelivery
             WITH stage <- [o \in Objects |-> Stage(o)],
                  terms <- [o \in Objects |-> Terms(o)]

\* The service implements the promise: an object is offered at most once, after
\* its content was cleared for that user, and never again once withdrawn.
ImplementsPromise == Promise!Spec

=============================================================================
