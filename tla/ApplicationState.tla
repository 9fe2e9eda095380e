--------------------------- MODULE ApplicationState ---------------------------
(***************************************************************************)
(* The durable application state: SqliteMailState (server/sqlite-state.js) *)
(* with the schema and the migrations it runs when it is opened, used by   *)
(* several processes at once; and the Maps that stand in for it during     *)
(* development (provider-account-registry.js, sync-state-store.js,         *)
(* idempotency-store.js).  Attachment records and OAuth state are left to  *)
(* AttachmentDelivery and AuthorizationState.                              *)
(*                                                                         *)
(* An operation is a sequence of SQL statements without a transaction of   *)
(* its own, so each statement is an action and other processes run between *)
(* them; within a process an operation is synchronous.  Per account there  *)
(* is one cursor type, one mailbox and one idempotency key: rows of other  *)
(* names meet no statement but the cascade.                                *)
(***************************************************************************)
EXTENDS Naturals

CONSTANTS
  Users,
  Accounts,      \* account ids: random UUIDs, never drawn twice
  Providers,
  Fingerprints,  \* request fingerprints of idempotent operations
  Processes,
  MaxWrites,     \* bound on the writes of one transaction
  None           \* no row, no call, no transaction

VARIABLES
  durable,    \* TRUE: SQLite; FALSE: the Maps of one process
  tables,     \* the migrations whose tables exist
  recorded,   \* the versions in schema_migrations
  process,    \* where each process is, and the migrations it has yet to apply
  linked,     \* provider_accounts
  used,       \* the account ids that have been drawn
  row,        \* the other tables, by scope
  call,       \* the operation each process is in
  holder,     \* the process inside transaction(), which holds the write lock
  saved,      \* what was committed when it began
  writes,     \* how many writes it has made
  accepted    \* history: the fingerprints begin has been answered for

schema == <<tables, recorded>>
data == <<linked, used, row, accepted>>
transaction == <<holder, saved, writes>>
vars == <<durable, schema, process, data, call, transaction>>

Versions == {1, 2}

Owners == [user : Users, provider : Providers]

Tables == {"ref", "cursor", "mailbox", "operation"}
Scopes == [table : Tables, user : Users, account : Accounts]

Refs == [provider : Providers]
\* A cursor's value and the times and error of a mailbox: opaque to the store.
Values == [value : {"opaque"}]
Operations == [fingerprint : Fingerprints, status : {"in-progress", "completed", "failed"}]

Rows == Refs \cup Values \cup Operations

Kinds == {"create", "remove", "putRef", "removeRef", "putCursor", "removeCursor",
          "recordMailbox", "begin", "complete", "fail"}

\* The table an operation writes to.
TableOf(kind) ==
  CASE kind \in {"putRef", "removeRef"} -> "ref"
    [] kind \in {"putCursor", "removeCursor"} -> "cursor"
    [] kind = "recordMailbox" -> "mailbox"
    [] OTHER -> "operation"

\* arg: a provider or a fingerprint, where there is one.
Calls == [kind : Kinds, user : Users, account : Accounts,
          arg : Providers \cup Fingerprints \cup {None}]

Pending == [call : Calls, step : {"look", "write", "read"}]

Committed == [linked : [Accounts -> Owners \cup {None}], row : [Scopes -> Rows \cup {None}],
              accepted : SUBSET [scope : Scopes, fingerprint : Fingerprints]]

ASSUME InstanceAssumption ==
  /\ MaxWrites \in Nat
  /\ None \notin Owners \cup Rows \cup Providers \cup Fingerprints \cup Processes
  /\ None \notin Pending /\ None \notin Committed

TypeOK ==
  /\ durable \in BOOLEAN
  /\ tables \subseteq Versions /\ recorded \subseteq Versions
  /\ process \in [Processes -> [at : {"down", "opening", "up"}, pending : SUBSET Versions]]
  /\ linked \in [Accounts -> Owners \cup {None}]
  /\ used \subseteq Accounts
  /\ row \in [Scopes -> Rows \cup {None}]
  /\ call \in [Processes -> Pending \cup {None}]
  /\ holder \in Processes \cup {None}
  /\ saved \in Committed \cup {None}
  /\ writes \in 0 .. MaxWrites
  /\ accepted \subseteq [scope : Scopes, fingerprint : Fingerprints]

Down == [at |-> "down", pending |-> {}]
Up == [at |-> "up", pending |-> {}]

\* No database, one from before the migrations, an old one, a current one.  (The
\* Maps have none, and no use for one.)
Schemas == {[tables |-> {}, recorded |-> {}], [tables |-> {1}, recorded |-> {}],
            [tables |-> {1}, recorded |-> {1}], [tables |-> Versions, recorded |-> Versions]}

Init ==
  /\ durable \in BOOLEAN
  /\ \E s \in Schemas : tables = s.tables /\ recorded = s.recorded
  /\ ~durable => tables = {}
  /\ process = [p \in Processes |-> Down]
  /\ linked = [a \in Accounts |-> None] /\ used = {}
  /\ row = [s \in Scopes |-> None]
  /\ call = [p \in Processes |-> None]
  /\ holder = None /\ saved = None /\ writes = 0
  /\ accepted = {}

-----------------------------------------------------------------------------
(* Opening, and the migrations *)

\* The constructor, up to the SELECT of the applied versions.
Open(p) ==
  /\ process[p] = Down
  /\ \/ durable /\ process' = [process EXCEPT ![p] = [at |-> "opening", pending |-> Versions \ recorded]]
     \/ /\ ~durable /\ \A q \in Processes : process[q] = Down
        /\ process' = [process EXCEPT ![p] = Up]
  /\ UNCHANGED <<durable, schema, data, call, transaction>>

\* One migration, inside BEGIN IMMEDIATE.  Another process may have applied it by
\* now: IF NOT EXISTS and OR IGNORE make that harmless.
Migrate(p, v) ==
  /\ process[p].at = "opening" /\ holder = None
  /\ v \in process[p].pending /\ \A w \in process[p].pending : v <= w
  /\ tables' = tables \cup {v} /\ recorded' = recorded \cup {v}
  /\ process' = [process EXCEPT ![p].pending = @ \ {v}]
  /\ UNCHANGED <<durable, data, call, transaction>>

\* Bug: the version is recorded before, and outside, the migration.
OpenFailsRecorded(p) ==
  /\ process[p].at = "opening"
  /\ process' = [process EXCEPT ![p] = Down]
  /\ recorded' = recorded \cup process[p].pending
  /\ UNCHANGED <<durable, tables, data, call, transaction>>

\* BEGIN, a statement of the migration or COMMIT fails; ROLLBACK, and the
\* constructor throws.
OpenFails(p) ==
  /\ process[p].at = "opening"
  /\ process' = [process EXCEPT ![p] = Down]
  /\ UNCHANGED <<durable, schema, data, call, transaction>>

Opened(p) ==
  /\ process[p].at = "opening" /\ process[p].pending = {}
  /\ process' = [process EXCEPT ![p] = Up]
  /\ UNCHANGED <<durable, schema, data, call, transaction>>

-----------------------------------------------------------------------------
(* transaction() *)

Current == [linked |-> linked, row |-> row, accepted |-> accepted]

\* What a process reads: the last committed state, and its own changes.
View(p) == IF holder \in {None, p} THEN Current ELSE saved

Idle(p) == process[p] = Up /\ call[p] = None

BeginTransaction(p) ==
  /\ durable /\ Idle(p) /\ holder = None
  /\ holder' = p /\ saved' = Current /\ writes' = 0
  /\ UNCHANGED <<durable, schema, process, data, call>>

Commit(p) ==
  /\ Idle(p) /\ holder = p
  /\ holder' = None /\ saved' = None /\ writes' = 0
  /\ UNCHANGED <<durable, schema, process, data, call>>

\* Bug: PRAGMA journal_mode = OFF.
RestoreUnjournaled ==
  /\ UNCHANGED <<linked, row, accepted, used>>
  /\ holder' = None /\ saved' = None /\ writes' = 0

\* Back to what was committed when the transaction began.
Restore ==
  /\ linked' = saved.linked /\ row' = saved.row /\ accepted' = saved.accepted
  /\ holder' = None /\ saved' = None /\ writes' = 0
  /\ UNCHANGED used

\* The callback, or COMMIT, throws.
Rollback(p) ==
  /\ Idle(p) /\ holder = p
  /\ Restore
  /\ UNCHANGED <<durable, schema, process, call>>

\* The process ends; SQLite rolls its transaction back, its Maps are gone.
Crash(p) ==
  /\ process[p] # Down
  /\ process' = [process EXCEPT ![p] = Down]
  /\ call' = [call EXCEPT ![p] = None]
  /\ \/ durable /\ holder = p /\ Restore
     \/ durable /\ holder # p /\ UNCHANGED <<data, transaction>>
     \/ /\ ~durable
        /\ linked' = [a \in Accounts |-> None] /\ row' = [s \in Scopes |-> None]
        /\ accepted' = {}
        /\ UNCHANGED <<used, transaction>>
  /\ UNCHANGED <<durable, schema>>

-----------------------------------------------------------------------------
(* The first statement of an operation: does it find what it needs? *)

Step(p, c, step) ==
  /\ call' = [call EXCEPT ![p] = [call |-> c, step |-> step]]
  /\ UNCHANGED <<durable, schema, process, data, transaction>>

ScopeOf(c) == [table |-> TableOf(c.kind), user |-> c.user, account |-> c.account]

\* getProviderAccountForUser finds the account.
Owned(p, u, a) == View(p).linked[a] # None /\ View(p).linked[a].user = u

\* createProviderAccount draws an id.
Create(p, c) ==
  /\ c.kind = "create" /\ c.arg \in Providers /\ c.account \notin used
  /\ used' = used \cup {c.account}
  /\ call' = [call EXCEPT ![p] = [call |-> c, step |-> "write"]]
  /\ UNCHANGED <<durable, schema, process, linked, row, accepted, transaction>>

\* removeProviderAccountForUser.
Remove(p, c) ==
  /\ c.kind = "remove" /\ c.arg = None
  /\ Owned(p, c.user, c.account)
  /\ Step(p, c, "write")

\* putCredentialRef; the Maps have no counterpart.
PutRef(p, c) ==
  /\ durable
  /\ c.kind = "putRef" /\ c.arg \in Providers
  /\ Owned(p, c.user, c.account) /\ View(p).linked[c.account].provider = c.arg
  /\ Step(p, c, "write")

\* putCursor, recordMailboxAttempt, recordMailboxSuccess.  The Maps take any account.
Put(p, c) ==
  /\ c.kind \in {"putCursor", "recordMailbox"} /\ c.arg = None
  /\ durable => Owned(p, c.user, c.account)
  /\ Step(p, c, "write")

\* beginIdempotentOperation, begin.
Begin(p, c) ==
  /\ c.kind = "begin" /\ c.arg \in Fingerprints
  /\ durable => Owned(p, c.user, c.account)
  /\ Step(p, c, "look")

\* removeCredentialRef, removeCursor, complete and fail look for their row.
Change(p, c) ==
  /\ c.kind \in {"removeRef", "removeCursor", "complete", "fail"} /\ c.arg = None
  /\ View(p).row[ScopeOf(c)] # None
  /\ Step(p, c, "write")

-----------------------------------------------------------------------------
(* The statements that follow *)

At(p, step) == call[p] # None /\ call[p].step = step

Return(p) == call' = [call EXCEPT ![p] = None]

\* begin answers for the request of c.  What a process read while another one is inside
\* transaction() was committed before: a rollback does not take that answer back.
Accept(p, c) ==
  LET answered == {[scope |-> ScopeOf(c), fingerprint |-> c.arg]}
  IN  /\ accepted' = accepted \cup answered
      /\ saved' = IF holder \in {None, p} THEN saved
                  ELSE [saved EXCEPT !.accepted = @ \cup answered]

AcceptNothing == UNCHANGED <<accepted, saved>>

\* begin has read the row of its key: it returns it, or throws a conflict, or
\* goes on to insert one.
Look(p) ==
  /\ At(p, "look")
  /\ LET c == call[p].call
         prior == View(p).row[ScopeOf(c)]
     IN  \/ prior = None /\ Step(p, c, "write")
         \/ /\ prior # None
            /\ Return(p)
            /\ IF prior.fingerprint = c.arg THEN Accept(p, c) ELSE AcceptNothing
            /\ UNCHANGED <<durable, schema, process, linked, used, row, holder, writes>>

\* Bug: PRAGMA foreign_keys is left at its default.
ReferencesUnchecked(s) == TRUE

\* The foreign keys, where there are any.
References(s) == durable => linked[s.account] # None

\* What INSERT and ON CONFLICT DO UPDATE leave in the row.
Written(c) ==
  CASE c.kind = "putRef" -> [provider |-> c.arg]
    [] c.kind \in {"putCursor", "recordMailbox"} -> [value |-> "opaque"]
    [] c.kind = "begin" -> [fingerprint |-> c.arg, status |-> "in-progress"]

\* Bug: INSERT OR REPLACE.
InsertableAlways(c) == TRUE

\* begin inserts, the others upsert.
Insertable(c) == c.kind = "begin" => row[ScopeOf(c)] = None

\* The write lock is free, or held by this process.
MayWrite(p) ==
  /\ At(p, "write") /\ holder \in {None, p}
  /\ holder = p => writes < MaxWrites
  /\ writes' = IF holder = p THEN writes + 1 ELSE writes
  /\ UNCHANGED <<durable, schema, process, used, accepted, holder, saved>>

GoOn(p) == call' = [call EXCEPT ![p].step = "read"]

InsertAccount(p) ==
  /\ MayWrite(p)
  /\ LET c == call[p].call
     IN  /\ c.kind = "create"
         /\ linked' = [linked EXCEPT ![c.account] = [user |-> c.user, provider |-> c.arg]]
  /\ GoOn(p)
  /\ UNCHANGED row

\* DELETE FROM provider_accounts, which cascades; the Maps are left as they are.
DeleteAccount(p) ==
  /\ MayWrite(p)
  /\ LET c == call[p].call
     IN  /\ c.kind = "remove"
         /\ linked' = [linked EXCEPT ![c.account] = None]
         /\ row' = [s \in Scopes |-> IF durable /\ s.account = c.account THEN None ELSE row[s]]
  /\ Return(p)

PutRow(p) ==
  /\ MayWrite(p)
  /\ LET c == call[p].call
         s == ScopeOf(c)
     IN  /\ c.kind \in {"putRef", "putCursor", "recordMailbox", "begin"}
         /\ References(s) /\ Insertable(c)
         /\ row' = [row EXCEPT ![s] = Written(c)]
  /\ GoOn(p)
  /\ UNCHANGED linked

\* Bug: INSERT OR REPLACE with the columns of the UPDATE only.
UpdateOperationUpserting(p) ==
  /\ MayWrite(p)
  /\ LET c == call[p].call
         status == IF c.kind = "complete" THEN "completed" ELSE "failed"
     IN  /\ c.kind \in {"complete", "fail"}
         /\ row' = [row EXCEPT ![ScopeOf(c)] = [status |-> status]]
  /\ GoOn(p)
  /\ UNCHANGED linked

\* UPDATE ... WHERE changes no row if there is none any more.
UpdateOperation(p) ==
  /\ MayWrite(p)
  /\ LET c == call[p].call
         s == ScopeOf(c)
         status == IF c.kind = "complete" THEN "completed" ELSE "failed"
     IN  /\ c.kind \in {"complete", "fail"}
         /\ row' = IF row[s] = None THEN row
                   ELSE [row EXCEPT ![s] = [fingerprint |-> row[s].fingerprint, status |-> status]]
  /\ GoOn(p)
  /\ UNCHANGED linked

DeleteRow(p) ==
  /\ MayWrite(p)
  /\ LET c == call[p].call
     IN  /\ c.kind \in {"removeRef", "removeCursor"}
         /\ row' = [row EXCEPT ![ScopeOf(c)] = None]
  /\ Return(p)
  /\ UNCHANGED linked

\* The operation reads back what it wrote, and returns it or, when another
\* process has removed it, throws.
ReadBack(p) ==
  /\ At(p, "read")
  /\ LET c == call[p].call
     IN  IF c.kind = "begin" /\ View(p).row[ScopeOf(c)] # None
           THEN Accept(p, c) ELSE AcceptNothing
  /\ Return(p)
  /\ UNCHANGED <<durable, schema, process, linked, used, row, holder, writes>>

\* A statement throws: the lock is held elsewhere, a key or foreign key is
\* violated, or SQLite fails.
Throw(p) ==
  /\ durable /\ call[p] # None
  /\ Return(p)
  /\ UNCHANGED <<durable, schema, process, data, transaction>>

-----------------------------------------------------------------------------
Start(p) ==
  /\ Idle(p)
  /\ \E c \in Calls : \/ Create(p, c) \/ Remove(p, c) \/ PutRef(p, c)
                      \/ Put(p, c) \/ Begin(p, c) \/ Change(p, c)

Write(p) ==
  InsertAccount(p) \/ DeleteAccount(p) \/ PutRow(p) \/ UpdateOperation(p) \/ DeleteRow(p)

Next ==
  \E p \in Processes :
    \/ Open(p)
    \/ \E v \in Versions : Migrate(p, v)
    \/ OpenFails(p)
    \/ Opened(p)
    \/ BeginTransaction(p)
    \/ Commit(p)
    \/ Rollback(p)
    \/ Crash(p)
    \/ Start(p)
    \/ Look(p)
    \/ Write(p)
    \/ ReadBack(p)
    \/ Throw(p)

Spec == Init /\ [][Next]_vars

-----------------------------------------------------------------------------
(* Properties *)

\* In SQLite every credential reference, cursor, mailbox state and idempotency record
\* belongs to an account that exists and to the user who owns it, and a credential
\* reference names the account's provider: although each operation checks the account
\* in one statement and writes in another, and other processes remove it in between.
RowsAreOwned ==
  durable =>
    \A s \in Scopes : row[s] # None =>
      /\ linked[s.account] # None /\ linked[s.account].user = s.user
      /\ s.table = "ref" => row[s].provider = linked[s.account].provider

\* An idempotency key stands for one request: whichever processes begin it at once,
\* no two different fingerprints are accepted under it.  (A transaction that is rolled
\* back takes its own answers back; the Maps forget theirs with the process.)
OneRequestPerKey ==
  \A x, y \in accepted : x.scope = y.scope => x.fingerprint = y.fingerprint

\* What is committed, as the other processes read it.
Seen == IF holder = None THEN Current ELSE saved

\* A transaction is all or nothing: others see none of its writes while it is open,
\* and unless it commits, because its callback throws or its process ends, none ever.
TransactionsAreAtomic ==
  [][\A p \in Processes : holder = p /\ ~Commit(p) =>
       Seen'.linked = Seen.linked /\ Seen'.row = Seen.row]_vars

\* A migration that did not succeed is not recorded, however many processes migrate
\* at once, and no process serves on a schema that lacks a table.
SchemaIsComplete ==
  /\ recorded \subseteq tables
  /\ \A p \in Processes : durable /\ process[p].at = "up" => tables = Versions

=============================================================================
