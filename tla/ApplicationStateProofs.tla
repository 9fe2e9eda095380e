------------------------- MODULE ApplicationStateProofs -------------------------
(***************************************************************************)
(* Proofs about ApplicationState, for any users, accounts, providers,      *)
(* fingerprints, processes and any length of transactions: rows belong to  *)
(* accounts and owners, a key stands for one request, a transaction is all *)
(* or nothing, and no process serves on half a schema.                     *)
(***************************************************************************)
EXTENDS ApplicationState, TLAPS

-----------------------------------------------------------------------------
(* The inductive invariant *)

\* The operations that look for the account's owner first and write a row of the account later.
Puts == {"putRef", "putCursor", "recordMailbox", "begin"}

InCall(p, kinds) == call[p] # None /\ call[p].call.kind \in kinds
AccountOf(p) == call[p].call.account

\* A call has what its statements need, and a process that runs.
CallsFit ==
  \A p \in Processes : call[p] # None =>
    /\ process[p] = Up
    /\ InCall(p, {"create", "putRef"}) => call[p].call.arg \in Providers
    /\ InCall(p, {"begin"}) => call[p].call.arg \in Fingerprints
    /\ call[p].step = "look" => call[p].call.kind = "begin"

\* A row is of its table.
RowsFit(rows) ==
  \A s \in Scopes : rows[s] # None =>
    /\ s.table = "ref" => rows[s] \in Refs
    /\ s.table \in {"cursor", "mailbox"} => rows[s] \in Values
    /\ s.table = "operation" => rows[s] \in Operations

\* There is a saved state exactly inside a transaction, and transactions only in SQLite.
InTransaction ==
  /\ holder # None <=> saved # None
  /\ holder # None => durable /\ RowsFit(saved.row)

\* The Maps belong to one process.
OneProcess ==
  ~durable => \A p, q \in Processes : process[p] # Down /\ process[q] # Down => p = q

\* A process that opens the database has applied what is no longer pending.
Migrating ==
  durable => \A p \in Processes :
    /\ process[p].at = "opening" => Versions \ process[p].pending \subseteq tables
    /\ process[p].at = "up" => tables = Versions

Basics ==
  /\ TypeOK /\ CallsFit /\ RowsFit(row) /\ InTransaction /\ OneProcess
  /\ recorded \subseteq tables /\ Migrating

\* The rows belong to the accounts that are linked, and to their owners.
Owns(links, rows) ==
  \A s \in Scopes : rows[s] # None =>
    /\ links[s.account] # None /\ links[s.account].user = s.user
    /\ s.table = "ref" => rows[s].provider = links[s.account].provider

\* The owner of a pending operation is the account's, if the account is there.
Fits(p, links) ==
  links[AccountOf(p)] # None =>
    /\ links[AccountOf(p)].user = call[p].call.user
    /\ call[p].call.kind = "putRef" => links[AccountOf(p)].provider = call[p].call.arg

\* An account has one owner, committed or not, for ever: ids are not drawn twice.
OwnersNow ==
  /\ Owns(linked, row)
  /\ \A a \in Accounts : linked[a] # None => a \in used
  /\ \A p \in Processes : InCall(p, Puts) => AccountOf(p) \in used /\ Fits(p, linked)
  /\ \A x \in accepted : x.scope.account \in used

OwnersSaved ==
  saved # None =>
    /\ Owns(saved.linked, saved.row)
    /\ \A a \in Accounts : saved.linked[a] # None =>
         a \in used /\ (linked[a] # None => linked[a] = saved.linked[a])
    /\ \A p \in Processes : InCall(p, Puts) => Fits(p, saved.linked)

Creating(p) == InCall(p, {"create"}) /\ call[p].step = "write"

\* An account that is being created is nobody's yet.
Fresh ==
  \A p \in Processes : Creating(p) =>
    /\ AccountOf(p) \in used /\ linked[AccountOf(p)] = None
    /\ saved # None => saved.linked[AccountOf(p)] = None
    /\ \A q \in Processes : InCall(q, Puts) => AccountOf(q) # AccountOf(p)
    /\ \A q \in Processes : Creating(q) /\ q # p => AccountOf(q) # AccountOf(p)
    /\ \A x \in accepted : x.scope.account # AccountOf(p)

OwnersFixed == durable => OwnersNow /\ OwnersSaved /\ Fresh

\* The row of a key, if it is there, is of this fingerprint; it goes only with its account.
Stands(scope, fingerprint, links, rows) ==
  IF rows[scope] # None THEN rows[scope].fingerprint = fingerprint
  ELSE durable /\ links[scope.account] = None

\* What has been answered stands, in what is committed and in what is not yet.
Answered ==
  /\ \A x \in accepted : x.scope.table = "operation" /\ Stands(x.scope, x.fingerprint, linked, row)
  /\ saved # None =>
       /\ saved.accepted \subseteq accepted
       /\ \A x \in saved.accepted : Stands(x.scope, x.fingerprint, saved.linked, saved.row)
       /\ \A x \in accepted : saved.row[x.scope] # None =>
            saved.row[x.scope].fingerprint = x.fingerprint
       /\ \A s \in Scopes : s.table = "operation" /\ saved.row[s] # None =>
            Stands(s, saved.row[s].fingerprint, linked, row)

\* And so does what begin has written and not read back yet.
Inserted ==
  \A p \in Processes : InCall(p, {"begin"}) /\ call[p].step = "read" =>
    /\ Stands(ScopeOf(call[p].call), call[p].call.arg, linked, row)
    /\ holder \notin {None, p} =>
         Stands(ScopeOf(call[p].call), call[p].call.arg, saved.linked, saved.row)

Inv == Basics /\ OwnersFixed /\ Answered /\ Inserted /\ OneRequestPerKey

-----------------------------------------------------------------------------
(* Helpers *)

LEMMA TableCases ==
  ASSUME NEW kind \in Kinds
  PROVE  /\ TableOf(kind) \in Tables
         /\ kind \in {"putRef", "removeRef"} => TableOf(kind) = "ref"
         /\ kind \in {"putCursor", "removeCursor"} => TableOf(kind) = "cursor"
         /\ kind = "recordMailbox" => TableOf(kind) = "mailbox"
         /\ kind \in {"create", "remove", "begin", "complete", "fail"} => TableOf(kind) = "operation"
<1>1. /\ kind \in {"putRef", "removeRef"} => TableOf(kind) = "ref"
      /\ kind \in {"putCursor", "removeCursor"} => TableOf(kind) = "cursor"
      /\ kind = "recordMailbox" => TableOf(kind) = "mailbox"
      /\ kind \in {"create", "remove", "begin", "complete", "fail"} => TableOf(kind) = "operation"
  BY Zenon DEF TableOf
<1> QED BY <1>1 DEF Kinds, Tables

LEMMA WrittenCases ==
  ASSUME NEW c \in Calls
  PROVE  /\ c.kind = "putRef" => Written(c) = [provider |-> c.arg]
         /\ c.kind \in {"putCursor", "recordMailbox"} => Written(c) = [value |-> "opaque"]
         /\ c.kind = "begin" => Written(c) = [fingerprint |-> c.arg, status |-> "in-progress"]
  BY Zenon DEF Written

LEMMA ScopeTypes ==
  ASSUME NEW c \in Calls
  PROVE  /\ c.kind \in Kinds /\ c.user \in Users /\ c.account \in Accounts
         /\ c.arg \in Providers \cup Fingerprints \cup {None}
         /\ ScopeOf(c) \in Scopes /\ ScopeOf(c).table = TableOf(c.kind)
         /\ ScopeOf(c).user = c.user /\ ScopeOf(c).account = c.account
  BY TableCases DEF Calls, ScopeOf, Scopes

\* What a pending call is made of.
LEMMA PendingTypes ==
  ASSUME TypeOK, NEW p \in Processes, call[p] # None
  PROVE  /\ call[p] \in Pending /\ call[p].call \in Calls
         /\ call[p].step \in {"look", "write", "read"}
  BY DEF TypeOK, Pending

LEMMA SavedTypes ==
  ASSUME TypeOK, saved # None
  PROVE  /\ saved.linked \in [Accounts -> Owners \cup {None}]
         /\ saved.row \in [Scopes -> Rows \cup {None}]
         /\ saved.accepted \subseteq [scope : Scopes, fingerprint : Fingerprints]
  BY DEF TypeOK, Committed

\* An operation begins: what has been looked at, and what it leaves alone.
LEMMA Starting ==
  ASSUME TypeOK, NEW p \in Processes, Start(p)
  PROVE  \E c \in Calls, step \in {"look", "write"} :
           /\ Idle(p)
           /\ call' = [call EXCEPT ![p] = [call |-> c, step |-> step]]
           /\ UNCHANGED <<durable, schema, process, linked, row, accepted, transaction>>
           /\ c.kind = "create" => /\ c.arg \in Providers /\ c.account \notin used
                                   /\ used' = used \cup {c.account}
           /\ c.kind # "create" => used' = used
           /\ c.kind = "putRef" => /\ c.arg \in Providers
                                   /\ View(p).linked[c.account].provider = c.arg
           /\ c.kind = "begin" <=> step = "look"
           /\ c.kind = "begin" => c.arg \in Fingerprints
           /\ durable /\ c.kind \in Puts => Owned(p, c.user, c.account)
<1>1. PICK c \in Calls : \/ Create(p, c) \/ Remove(p, c) \/ PutRef(p, c)
                         \/ Put(p, c) \/ Begin(p, c) \/ Change(p, c)
  BY DEF Start
<1>2. Idle(p)
  BY DEF Start
<1>3. CASE Create(p, c)
  BY <1>2, <1>3 DEF Create, Puts
<1>4. CASE Remove(p, c)
  BY <1>2, <1>4 DEF Remove, Step, Puts, data
<1>5. CASE PutRef(p, c)
  BY <1>2, <1>5 DEF PutRef, Step, Puts, data
<1>6. CASE Put(p, c)
  BY <1>2, <1>6 DEF Put, Step, Puts, data
<1>7. CASE Begin(p, c)
  BY <1>2, <1>7 DEF Begin, Step, Puts, data
<1>8. CASE Change(p, c)
  BY <1>2, <1>8 DEF Change, Step, Puts, data
<1> QED BY <1>1, <1>3, <1>4, <1>5, <1>6, <1>7, <1>8

\* begin goes on to insert; or an operation ends, and begin may have been answered.
LEMMA Reading ==
  ASSUME TypeOK, CallsFit, NEW p \in Processes, Look(p) \/ ReadBack(p)
  PROVE  LET c == call[p].call
         IN  /\ call[p] # None /\ c \in Calls
             /\ UNCHANGED <<durable, schema, process, linked, used, row, holder, writes>>
             /\ \/ /\ c.kind = "begin" /\ call[p].step = "look" /\ UNCHANGED <<accepted, saved>>
                   /\ call' = [call EXCEPT ![p] = [call |-> c, step |-> "write"]]
                \/ /\ call' = [call EXCEPT ![p] = None] /\ UNCHANGED <<accepted, saved>>
                \/ /\ call' = [call EXCEPT ![p] = None] /\ c.kind = "begin" /\ Accept(p, c)
                   /\ View(p).row[ScopeOf(c)] # None
                   /\ \/ call[p].step = "read"
                      \/ View(p).row[ScopeOf(c)].fingerprint = c.arg
<1> DEFINE c == call[p].call
<1>1. call[p] # None /\ c \in Calls
  BY PendingTypes DEF Look, ReadBack, At
<1>2. CASE Look(p)
  <2>1. c.kind = "begin" /\ call[p].step = "look"
    BY <1>1, <1>2 DEF Look, At, CallsFit
  <2> QED BY <1>1, <1>2, <2>1
          DEF Look, At, Step, Return, AcceptNothing, Accept, schema, data, transaction
<1>3. CASE ReadBack(p)
  BY <1>1, <1>3 DEF ReadBack, At, Return, AcceptNothing, Accept, schema
<1> QED BY <1>2, <1>3

\* A statement that writes.
LEMMA Writing ==
  ASSUME TypeOK, NEW p \in Processes, Write(p)
  PROVE  /\ call[p] # None /\ call[p].call \in Calls /\ call[p].step = "write"
         /\ holder \in {None, p} /\ writes' \in 0 .. MaxWrites
         /\ UNCHANGED <<durable, schema, process, used, accepted, holder, saved>>
         /\ \/ call' = [call EXCEPT ![p].step = "read"]
            \/ call' = [call EXCEPT ![p] = None]
<1>1. MayWrite(p) /\ (GoOn(p) \/ Return(p))
  BY DEF Write, InsertAccount, DeleteAccount, PutRow, UpdateOperation, DeleteRow
<1>2. call[p] # None /\ call[p].step = "write"
  BY <1>1 DEF MayWrite, At
<1>3. writes' \in 0 .. MaxWrites
  <2>1. writes \in 0 .. MaxWrites /\ MaxWrites \in Nat
    BY InstanceAssumption DEF TypeOK
  <2>2. writes' = writes \/ (writes < MaxWrites /\ writes' = writes + 1)
    BY <1>1 DEF MayWrite
  <2> QED BY <2>1, <2>2
<1> QED BY <1>1, <1>2, <1>3, PendingTypes DEF MayWrite, GoOn, Return

\* The frames of the steps that stay out of the tables.
LEMMA Opening ==
  ASSUME NEW p \in Processes, NEW v,
         Open(p) \/ Migrate(p, v) \/ OpenFails(p) \/ Opened(p)
  PROVE  UNCHANGED <<durable, data, call, transaction>> /\ process[p] # Up
  BY DEF Open, Migrate, OpenFails, Opened, Up, Down, schema, data, transaction

-----------------------------------------------------------------------------
(* Types, calls, and the schema *)

LEMMA TypesHoldAtFirst == Init => TypeOK
<1> SUFFICES ASSUME Init PROVE TypeOK
  OBVIOUS
<1>1. tables \subseteq Versions /\ recorded \subseteq Versions
  BY DEF Init, Schemas, Versions
<1>2. 0 \in 0 .. MaxWrites
  BY InstanceAssumption
<1>3. Down \in [at : {"down", "opening", "up"}, pending : SUBSET Versions]
  BY DEF Down
<1> QED BY <1>1, <1>2, <1>3 DEF Init, TypeOK

LEMMA RestoreTypes ==
  ASSUME TypeOK, saved # None, Restore
  PROVE  /\ linked' \in [Accounts -> Owners \cup {None}]
         /\ row' \in [Scopes -> Rows \cup {None}]
         /\ accepted' \subseteq [scope : Scopes, fingerprint : Fingerprints]
         /\ saved' = None /\ holder' = None /\ writes' \in 0 .. MaxWrites /\ used' = used
<1>1. writes' \in 0 .. MaxWrites
  BY InstanceAssumption DEF Restore
<1> QED BY <1>1, SavedTypes DEF Restore

LEMMA AcceptTypes ==
  ASSUME TypeOK, NEW p \in Processes, NEW c \in Calls, c.arg \in Fingerprints, Accept(p, c),
         holder # None => saved # None
  PROVE  /\ accepted' \subseteq [scope : Scopes, fingerprint : Fingerprints]
         /\ saved' \in Committed \cup {None} /\ (saved' = None <=> saved = None)
         /\ saved # None => /\ saved'.linked = saved.linked /\ saved'.row = saved.row
                            /\ saved'.accepted \in {saved.accepted, saved.accepted \cup
                                  {[scope |-> ScopeOf(c), fingerprint |-> c.arg]}}
<1> DEFINE answered == {[scope |-> ScopeOf(c), fingerprint |-> c.arg]}
<1>1. answered \subseteq [scope : Scopes, fingerprint : Fingerprints]
  BY ScopeTypes
<1>2. accepted' = accepted \cup answered
      /\ saved' = IF holder \in {None, p} THEN saved
                  ELSE [saved EXCEPT !.accepted = @ \cup answered]
  BY DEF Accept
<1> HIDE DEF answered
<1>3. accepted' \subseteq [scope : Scopes, fingerprint : Fingerprints]
  BY <1>1, <1>2 DEF TypeOK
<1>4. CASE saved' = saved
  BY <1>3, <1>4 DEF TypeOK
<1>5. CASE saved # None /\ saved' = [saved EXCEPT !.accepted = @ \cup answered]
  <2>1. saved \in Committed
    BY <1>5 DEF TypeOK
  <2>2. saved' \in Committed /\ saved' # None
    BY <1>1, <1>5, <2>1, InstanceAssumption DEF Committed
  <2>3. saved'.linked = saved.linked /\ saved'.row = saved.row
        /\ saved'.accepted = saved.accepted \cup answered
    BY <1>5, <2>1 DEF Committed
  <2> QED BY <1>3, <1>5, <2>2, <2>3 DEF answered
<1> QED BY <1>2, <1>4, <1>5

\* What an UPDATE leaves of a record of a key.
LEMMA UpdatedRow ==
  ASSUME TypeOK, RowsFit(row), NEW p \in Processes, UpdateOperation(p)
  PROVE  LET s == ScopeOf(call[p].call)
         IN  /\ s \in Scopes /\ s.table = "operation" /\ linked' = linked
             /\ row' \in [Scopes -> Rows \cup {None}]
             /\ \A t \in Scopes : t # s => row'[t] = row[t]
             /\ row'[s] # None <=> row[s] # None
             /\ row[s] # None => /\ row'[s] \in Operations
                                 /\ row'[s].fingerprint = row[s].fingerprint
<1> DEFINE c == call[p].call
           s == ScopeOf(c)
           status == IF c.kind = "complete" THEN "completed" ELSE "failed"
<1>1. c \in Calls /\ c.kind \in {"complete", "fail"} /\ linked' = linked
  BY PendingTypes DEF UpdateOperation, MayWrite, At
<1>2. s \in Scopes /\ s.table = "operation"
  BY <1>1, ScopeTypes, TableCases
<1>3. row' = IF row[s] = None THEN row
             ELSE [row EXCEPT ![s] = [fingerprint |-> row[s].fingerprint, status |-> status]]
  BY DEF UpdateOperation
<1> HIDE DEF s
<1>4. row \in [Scopes -> Rows \cup {None}]
  BY DEF TypeOK
<1>5. CASE row[s] = None
  BY <1>1, <1>2, <1>3, <1>4, <1>5 DEF s
<1>6. CASE row[s] # None
  <2>1. row[s] \in Operations
    BY <1>2, <1>6 DEF RowsFit
  <2>2. [fingerprint |-> row[s].fingerprint, status |-> status] \in Operations
    BY <2>1 DEF Operations
  <2> DEFINE r == [fingerprint |-> row[s].fingerprint, status |-> status]
  <2>3. r \in Rows /\ r # None /\ r.fingerprint = row[s].fingerprint
    BY <2>2, InstanceAssumption DEF Rows
  <2>4. row' = [row EXCEPT ![s] = r]
    BY <1>3, <1>6
  <2> HIDE DEF r
  <2>5. /\ row' \in [Scopes -> Rows \cup {None}] /\ row'[s] = r
        /\ \A t \in Scopes : t # s => row'[t] = row[t]
    BY <1>2, <1>4, <2>3, <2>4
  <2>6. r \in Operations
    BY <2>2 DEF r
  <2> QED BY <1>1, <1>2, <1>6, <2>3, <2>5, <2>6 DEF s
<1> QED BY <1>5, <1>6

\* What an INSERT or an upsert puts in a table.
LEMMA InsertedRow ==
  ASSUME TypeOK, CallsFit, NEW p \in Processes, PutRow(p)
  PROVE  LET c == call[p].call
             s == ScopeOf(c)
         IN  /\ s \in Scopes /\ s.table = TableOf(c.kind) /\ c.kind \in Puts /\ linked' = linked
             /\ s.user = c.user /\ s.account = c.account
             /\ row' \in [Scopes -> Rows \cup {None}]
             /\ \A t \in Scopes : t # s => row'[t] = row[t]
             /\ row'[s] # None
             /\ durable => linked[s.account] # None
             /\ c.kind = "putRef" => row'[s] \in Refs /\ row'[s].provider = c.arg
             /\ c.kind \in {"putCursor", "recordMailbox"} => row'[s] \in Values
             /\ c.kind = "begin" => /\ row'[s] \in Operations /\ row'[s].fingerprint = c.arg
                                    /\ row[s] = None
<1> DEFINE c == call[p].call
           s == ScopeOf(c)
           r == Written(c)
<1>1. call[p] # None /\ c \in Calls /\ c.kind \in Puts /\ linked' = linked
  BY PendingTypes DEF PutRow, MayWrite, At, Puts
<1>2. s \in Scopes /\ s.table = TableOf(c.kind) /\ s.user = c.user /\ s.account = c.account
  BY <1>1, ScopeTypes
<1>3. row' = [row EXCEPT ![s] = r] /\ References(s) /\ Insertable(c)
  BY DEF PutRow
<1>4. /\ c.kind = "putRef" => r \in Refs /\ r.provider = c.arg
      /\ c.kind \in {"putCursor", "recordMailbox"} => r \in Values
      /\ c.kind = "begin" => r \in Operations /\ r.fingerprint = c.arg
  BY <1>1, WrittenCases DEF CallsFit, InCall, Refs, Values, Operations
<1>5. r \in Rows /\ r # None
  BY <1>1, <1>4, InstanceAssumption DEF Puts, Rows
<1>6. row \in [Scopes -> Rows \cup {None}]
  BY DEF TypeOK
<1>7. (durable => linked[s.account] # None) /\ (c.kind = "begin" => row[s] = None)
  BY <1>3 DEF References, Insertable
<1> HIDE DEF s, r
<1>8. /\ row' \in [Scopes -> Rows \cup {None}] /\ row'[s] = r
      /\ \A t \in Scopes : t # s => row'[t] = row[t]
  BY <1>2, <1>3, <1>5, <1>6
<1> QED BY <1>1, <1>2, <1>4, <1>5, <1>7, <1>8 DEF s

LEMMA DeletedRows ==
  ASSUME TypeOK, NEW p \in Processes, DeleteAccount(p) \/ DeleteRow(p)
  PROVE  LET c == call[p].call
         IN  /\ row' \in [Scopes -> Rows \cup {None}]
             /\ linked' \in [Accounts -> Owners \cup {None}]
             /\ \A s \in Scopes : row'[s] \in {row[s], None}
             /\ \A a \in Accounts : linked'[a] \in {linked[a], None}
             /\ \/ /\ linked'[c.account] = None /\ \A a \in Accounts \ {c.account} : linked'[a] = linked[a]
                   /\ \A s \in Scopes :
                        row'[s] = IF durable /\ s.account = c.account THEN None ELSE row[s]
                \/ /\ linked' = linked
                   /\ \A s \in Scopes : s.table = "operation" => row'[s] = row[s]
<1> DEFINE c == call[p].call
<1>1. call[p] # None /\ c \in Calls /\ c.account \in Accounts
  BY PendingTypes, ScopeTypes DEF DeleteAccount, DeleteRow, MayWrite, At
<1>2. row \in [Scopes -> Rows \cup {None}] /\ linked \in [Accounts -> Owners \cup {None}]
  BY DEF TypeOK
<1>3. CASE DeleteAccount(p)
  <2>1. /\ linked' = [linked EXCEPT ![c.account] = None]
        /\ row' = [s \in Scopes |-> IF durable /\ s.account = c.account THEN None ELSE row[s]]
    BY <1>3 DEF DeleteAccount
  <2> HIDE DEF c
  <2>2. /\ linked' \in [Accounts -> Owners \cup {None}] /\ linked'[c.account] = None
        /\ \A a \in Accounts \ {c.account} : linked'[a] = linked[a]
    BY <1>1, <1>2, <2>1
  <2>3. /\ row' \in [Scopes -> Rows \cup {None}]
        /\ \A s \in Scopes : row'[s] = IF durable /\ s.account = c.account THEN None ELSE row[s]
    BY <1>2, <2>1
  <2> QED BY <1>1, <2>2, <2>3 DEF c
<1>4. CASE DeleteRow(p)
  <2>1. /\ row' = [row EXCEPT ![ScopeOf(c)] = None] /\ linked' = linked
        /\ c.kind \in {"removeRef", "removeCursor"}
    BY <1>4 DEF DeleteRow
  <2>2. ScopeOf(c) \in Scopes /\ ScopeOf(c).table # "operation"
    BY <1>1, <2>1, ScopeTypes, TableCases
  <2> HIDE DEF c
  <2>3. /\ row' \in [Scopes -> Rows \cup {None}]
        /\ \A s \in Scopes : row'[s] = IF s = ScopeOf(c) THEN None ELSE row[s]
    BY <1>2, <2>1, <2>2
  <2> QED BY <1>2, <2>1, <2>2, <2>3 DEF c
<1> QED BY <1>3, <1>4

LEMMA InsertedAccount ==
  ASSUME TypeOK, CallsFit, NEW p \in Processes, InsertAccount(p)
  PROVE  LET c == call[p].call
         IN  /\ Creating(p) /\ row' = row
             /\ linked' \in [Accounts -> Owners \cup {None}]
             /\ linked'[c.account] = [user |-> c.user, provider |-> c.arg]
             /\ \A a \in Accounts \ {c.account} : linked'[a] = linked[a]
<1> DEFINE c == call[p].call
<1>1. /\ call[p] # None /\ c \in Calls /\ c.kind = "create" /\ row' = row /\ call[p].step = "write"
      /\ linked' = [linked EXCEPT ![c.account] = [user |-> c.user, provider |-> c.arg]]
  BY PendingTypes DEF InsertAccount, MayWrite, At
<1>2. c.account \in Accounts /\ [user |-> c.user, provider |-> c.arg] \in Owners
  BY <1>1, ScopeTypes DEF CallsFit, InCall, Owners
<1>3. Creating(p)
  BY <1>1 DEF Creating, InCall
<1> HIDE DEF c
<1>4. linked \in [Accounts -> Owners \cup {None}]
  BY DEF TypeOK
<1> QED BY <1>1, <1>2, <1>3, <1>4 DEF c

LEMMA TypesKept == Basics /\ [Next]_vars => TypeOK'
<1> SUFFICES ASSUME Basics, [Next]_vars PROVE TypeOK'
  OBVIOUS
<1>0. TypeOK /\ CallsFit /\ RowsFit(row) /\ InTransaction
  BY DEF Basics
<1>1. ASSUME NEW p \in Processes, NEW v \in Versions,
             Open(p) \/ Migrate(p, v) \/ OpenFails(p) \/ Opened(p)
      PROVE  TypeOK'
  <2>1. UNCHANGED <<durable, data, call, transaction>>
    BY <1>1, Opening
  <2>2. tables' \subseteq Versions /\ recorded' \subseteq Versions
    BY <1>0, <1>1 DEF Open, Migrate, OpenFails, Opened, TypeOK, schema
  <2>3. process' \in [Processes -> [at : {"down", "opening", "up"}, pending : SUBSET Versions]]
    BY <1>0, <1>1 DEF Open, Migrate, OpenFails, Opened, TypeOK, Up, Down
  <2> QED BY <1>0, <2>1, <2>2, <2>3 DEF TypeOK, data, transaction
<1>2. ASSUME NEW p \in Processes, BeginTransaction(p) \/ Commit(p) PROVE TypeOK'
  <2>1. Current \in Committed
    BY <1>0 DEF Current, Committed, TypeOK
  <2>2. holder' \in Processes \cup {None} /\ saved' \in Committed \cup {None}
        /\ writes' \in 0 .. MaxWrites
    BY <1>2, <2>1, InstanceAssumption DEF BeginTransaction, Commit
  <2> QED BY <1>0, <1>2, <2>2 DEF BeginTransaction, Commit, TypeOK, schema, data
<1>3. ASSUME NEW p \in Processes, Rollback(p) PROVE TypeOK'
  <2>1. saved # None
    BY <1>0, <1>3, InstanceAssumption DEF Rollback, InTransaction
  <2> QED BY <1>0, <1>3, <2>1, RestoreTypes DEF Rollback, TypeOK, schema
<1>4. ASSUME NEW p \in Processes, Crash(p) PROVE TypeOK'
  <2>1. process' \in [Processes -> [at : {"down", "opening", "up"}, pending : SUBSET Versions]]
        /\ call' \in [Processes -> Pending \cup {None}] /\ UNCHANGED <<durable, schema>>
    BY <1>0, <1>4 DEF Crash, TypeOK, Down
  <2>2. CASE holder = p /\ Restore
    <3>1. saved # None
      BY <1>0, <2>2, InstanceAssumption DEF InTransaction
    <3> QED BY <1>0, <2>1, <2>2, <3>1, RestoreTypes DEF TypeOK, schema
  <2>3. CASE UNCHANGED <<data, transaction>>
    BY <1>0, <2>1, <2>3 DEF TypeOK, schema, data, transaction
  <2>4. CASE /\ linked' = [a \in Accounts |-> None] /\ row' = [s \in Scopes |-> None]
             /\ accepted' = {} /\ UNCHANGED <<used, transaction>>
    BY <1>0, <2>1, <2>4 DEF TypeOK, schema, transaction
  <2> QED BY <1>4, <2>2, <2>3, <2>4 DEF Crash
<1>5. ASSUME NEW p \in Processes, Start(p) PROVE TypeOK'
  <2>1. PICK c \in Calls, step \in {"look", "write"} :
          /\ call' = [call EXCEPT ![p] = [call |-> c, step |-> step]]
          /\ UNCHANGED <<durable, schema, process, linked, row, accepted, transaction>>
          /\ used' = used \/ used' = used \cup {c.account}
    BY <1>0, <1>5, Starting
  <2>2. used' \subseteq Accounts /\ call' \in [Processes -> Pending \cup {None}]
    BY <1>0, <2>1, ScopeTypes DEF TypeOK, Pending
  <2> QED BY <1>0, <2>1, <2>2 DEF TypeOK, schema, transaction
<1>6. ASSUME NEW p \in Processes, Look(p) \/ ReadBack(p) PROVE TypeOK'
  <2>1. /\ call[p] # None /\ call[p].call \in Calls
        /\ UNCHANGED <<durable, schema, process, linked, used, row, holder, writes>>
        /\ \/ call' = [call EXCEPT ![p] = [call |-> call[p].call, step |-> "write"]]
           \/ call' = [call EXCEPT ![p] = None]
        /\ \/ UNCHANGED <<accepted, saved>>
           \/ call[p].call.kind = "begin" /\ Accept(p, call[p].call)
    BY <1>0, <1>6, Reading
  <2>2. call' \in [Processes -> Pending \cup {None}]
    BY <1>0, <2>1 DEF TypeOK, Pending
  <2>3. /\ accepted' \subseteq [scope : Scopes, fingerprint : Fingerprints]
        /\ saved' \in Committed \cup {None}
    <3>1. CASE call[p].call.kind = "begin" /\ Accept(p, call[p].call)
      <4>1. call[p].call.arg \in Fingerprints
        BY <1>0, <2>1, <3>1 DEF CallsFit, InCall
      <4> QED BY <1>0, <2>1, <3>1, <4>1, AcceptTypes DEF InTransaction
    <3> QED BY <1>0, <2>1, <3>1 DEF TypeOK
  <2> QED BY <1>0, <2>1, <2>2, <2>3 DEF TypeOK, schema
<1>7. ASSUME NEW p \in Processes, Write(p) PROVE TypeOK'
  <2>1. /\ call[p] # None /\ writes' \in 0 .. MaxWrites /\ call[p] \in Pending
        /\ UNCHANGED <<durable, schema, process, used, accepted, holder, saved>>
        /\ \/ call' = [call EXCEPT ![p].step = "read"]
           \/ call' = [call EXCEPT ![p] = None]
    BY <1>0, <1>7, Writing, PendingTypes
  <2>2. call' \in [Processes -> Pending \cup {None}]
    <3>1. [call[p] EXCEPT !.step = "read"] \in Pending
      BY <2>1 DEF Pending
    <3> QED BY <1>0, <2>1, <3>1 DEF TypeOK
  <2>3. linked' \in [Accounts -> Owners \cup {None}] /\ row' \in [Scopes -> Rows \cup {None}]
    <3>1. CASE InsertAccount(p)
      BY <1>0, <3>1, InsertedAccount DEF TypeOK
    <3>2. CASE DeleteAccount(p) \/ DeleteRow(p)
      BY <1>0, <3>2, DeletedRows
    <3>3. CASE PutRow(p)
      BY <1>0, <3>3, InsertedRow DEF TypeOK
    <3>4. CASE UpdateOperation(p)
      BY <1>0, <3>4, UpdatedRow DEF TypeOK
    <3> QED BY <1>7, <3>1, <3>2, <3>3, <3>4 DEF Write
  <2> QED BY <1>0, <2>1, <2>2, <2>3 DEF TypeOK, schema
<1>8. ASSUME NEW p \in Processes, Throw(p) PROVE TypeOK'
  <2>1. call' \in [Processes -> Pending \cup {None}]
    BY <1>0, <1>8 DEF Throw, Return, TypeOK
  <2> QED BY <1>0, <1>8, <2>1 DEF Throw, TypeOK, schema, data, transaction
<1>9. CASE UNCHANGED vars
  BY <1>0, <1>9 DEF vars, TypeOK, schema, data, transaction
<1>10. Versions # {}
  BY DEF Versions
<1> QED BY <1>1, <1>2, <1>3, <1>4, <1>5, <1>6, <1>7, <1>8, <1>9, <1>10 DEF Next

\* The statements that write leave the rows of their tables.
LEMMA RowsFitWritten ==
  ASSUME TypeOK, CallsFit, RowsFit(row), NEW p \in Processes, Write(p)
  PROVE  RowsFit(row')
<1>1. CASE InsertAccount(p)
  BY <1>1, InsertedAccount
<1>2. CASE DeleteAccount(p) \/ DeleteRow(p)
  BY <1>2, DeletedRows DEF RowsFit
<1>3. CASE PutRow(p)
  <2> DEFINE c == call[p].call
             s == ScopeOf(c)
  <2>1. /\ c.kind \in Kinds /\ s \in Scopes /\ s.table = TableOf(c.kind) /\ c.kind \in Puts
        /\ \A t \in Scopes : t # s => row'[t] = row[t]
        /\ c.kind = "putRef" => row'[s] \in Refs
        /\ c.kind \in {"putCursor", "recordMailbox"} => row'[s] \in Values
        /\ c.kind = "begin" => row'[s] \in Operations
    BY <1>3, InsertedRow DEF Puts, Kinds
  <2> HIDE DEF c, s
  <2>2. /\ s.table = "ref" => row'[s] \in Refs
        /\ s.table \in {"cursor", "mailbox"} => row'[s] \in Values
        /\ s.table = "operation" => row'[s] \in Operations
    BY <2>1, TableCases DEF Puts
  <2> QED BY <2>1, <2>2 DEF RowsFit
<1>4. CASE UpdateOperation(p)
  BY <1>4, UpdatedRow DEF RowsFit
<1> QED BY <1>1, <1>2, <1>3, <1>4 DEF Write

LEMMA RowsFitKept == Basics /\ [Next]_vars => RowsFit(row')
<1> SUFFICES ASSUME Basics, [Next]_vars PROVE RowsFit(row')
  OBVIOUS
<1>0. TypeOK /\ CallsFit /\ RowsFit(row) /\ InTransaction
  BY DEF Basics
<1>1. ASSUME saved # None, Restore PROVE RowsFit(row')
  BY <1>0, <1>1 DEF Restore, InTransaction
<1>2. ASSUME row' = row PROVE RowsFit(row')
  BY <1>0, <1>2
<1>3. ASSUME NEW p \in Processes, Rollback(p) \/ Crash(p) PROVE RowsFit(row')
  <2>1. CASE holder = p /\ Restore
    BY <1>0, <1>1, <2>1, InstanceAssumption DEF InTransaction
  <2>2. CASE row' = [s \in Scopes |-> None]
    BY <2>2 DEF RowsFit
  <2> QED BY <1>2, <1>3, <2>1, <2>2 DEF Rollback, Crash, data
<1>4. ASSUME NEW p \in Processes, NEW v,
             \/ Open(p) \/ Migrate(p, v) \/ OpenFails(p) \/ Opened(p)
             \/ BeginTransaction(p) \/ Commit(p) \/ Throw(p)
      PROVE  row' = row
  BY <1>4 DEF Open, Migrate, OpenFails, Opened, BeginTransaction, Commit, Throw, data
<1>5. ASSUME NEW p \in Processes, Start(p) \/ Look(p) \/ ReadBack(p) PROVE row' = row
  BY <1>0, <1>5, Starting, Reading
<1>6. CASE UNCHANGED vars
  BY <1>2, <1>6 DEF vars, data
<1> QED
  BY <1>0, <1>2, <1>3, <1>4, <1>5, <1>6, RowsFitWritten DEF Next

LEMMA CallsFitKept == Basics /\ [Next]_vars => CallsFit'
<1> SUFFICES ASSUME Basics, [Next]_vars PROVE CallsFit'
  OBVIOUS
<1>0. TypeOK /\ CallsFit
  BY DEF Basics
<1> DEFINE Fit(q) == /\ process'[q] = Up
                     /\ call'[q].call.kind \in {"create", "putRef"} => call'[q].call.arg \in Providers
                     /\ call'[q].call.kind = "begin" => call'[q].call.arg \in Fingerprints
                     /\ call'[q].step = "look" => call'[q].call.kind = "begin"
<1>1. ASSUME \A q \in Processes : call'[q] # None => Fit(q) PROVE CallsFit'
  BY <1>1 DEF CallsFit, InCall
<1>2. ASSUME NEW p \in Processes,
             \A q \in Processes : q # p => call'[q] = call[q] /\ process'[q] = process[q],
             call'[p] # None => Fit(p)
      PROVE  CallsFit'
  <2>1. ASSUME NEW q \in Processes, call'[q] # None PROVE Fit(q)
    <3>1. CASE q = p
      BY <1>2, <2>1, <3>1
    <3>2. CASE q # p
      BY <1>0, <1>2, <2>1, <3>2 DEF CallsFit, InCall
    <3> QED BY <3>1, <3>2
  <2> QED BY <1>1, <2>1
<1>3. ASSUME NEW p \in Processes, NEW v,
             Open(p) \/ Migrate(p, v) \/ OpenFails(p) \/ Opened(p)
      PROVE  CallsFit'
  <2>1. call' = call /\ call[p] = None /\ \A q \in Processes : q # p => process'[q] = process[q]
    BY <1>0, <1>3, Opening DEF Open, Migrate, OpenFails, Opened, TypeOK, CallsFit
  <2> QED BY <1>2, <2>1
<1>4. ASSUME NEW p \in Processes, BeginTransaction(p) \/ Commit(p) \/ Rollback(p) PROVE CallsFit'
  BY <1>0, <1>4 DEF BeginTransaction, Commit, Rollback, CallsFit, InCall
<1>5. ASSUME NEW p \in Processes, Crash(p) PROVE CallsFit'
  <2>1. call'[p] = None
        /\ \A q \in Processes : q # p => call'[q] = call[q] /\ process'[q] = process[q]
    BY <1>0, <1>5 DEF Crash, TypeOK
  <2> QED BY <1>2, <2>1
<1>6. ASSUME NEW p \in Processes, Start(p) PROVE CallsFit'
  <2>1. PICK c \in Calls, step \in {"look", "write"} :
          /\ Idle(p) /\ process' = process
          /\ call' = [call EXCEPT ![p] = [call |-> c, step |-> step]]
          /\ c.kind \in {"create", "putRef"} => c.arg \in Providers
          /\ c.kind = "begin" <=> step = "look"
          /\ c.kind = "begin" => c.arg \in Fingerprints
    BY <1>0, <1>6, Starting
  <2>2. call'[p] = [call |-> c, step |-> step] /\ process'[p] = Up
        /\ \A q \in Processes : q # p => call'[q] = call[q] /\ process'[q] = process[q]
    BY <1>0, <2>1 DEF TypeOK, Idle
  <2>3. Fit(p)
    BY <2>1, <2>2
  <2> HIDE DEF Fit
  <2> QED BY <1>2, <2>2, <2>3
<1>7. ASSUME NEW p \in Processes, Look(p) \/ ReadBack(p) PROVE CallsFit'
  <2>1. /\ call[p] # None /\ process' = process
        /\ \/ call' = [call EXCEPT ![p] = [call |-> call[p].call, step |-> "write"]]
           \/ call' = [call EXCEPT ![p] = None]
    BY <1>0, <1>7, Reading
  <2>2. /\ call'[p] = None \/ call'[p] = [call |-> call[p].call, step |-> "write"]
        /\ \A q \in Processes : q # p => call'[q] = call[q] /\ process'[q] = process[q]
    BY <1>0, <2>1 DEF TypeOK
  <2>3. call'[p] # None => Fit(p)
    BY <1>0, <2>1, <2>2 DEF CallsFit, InCall
  <2> HIDE DEF Fit
  <2> QED BY <1>2, <2>2, <2>3
<1>8. ASSUME NEW p \in Processes, Write(p) PROVE CallsFit'
  <2>1. /\ call[p] # None /\ process' = process /\ call[p] \in Pending
        /\ \/ call' = [call EXCEPT ![p].step = "read"]
           \/ call' = [call EXCEPT ![p] = None]
    BY <1>0, <1>8, Writing, PendingTypes
  <2>2. /\ call'[p] = None \/ (call'[p].call = call[p].call /\ call'[p].step = "read")
        /\ \A q \in Processes : q # p => call'[q] = call[q] /\ process'[q] = process[q]
    BY <1>0, <2>1 DEF TypeOK, Pending
  <2>3. call'[p] # None => Fit(p)
    BY <1>0, <2>1, <2>2 DEF CallsFit, InCall
  <2> HIDE DEF Fit
  <2> QED BY <1>2, <2>2, <2>3
<1>9. ASSUME NEW p \in Processes, Throw(p) PROVE CallsFit'
  <2>1. call'[p] = None
        /\ \A q \in Processes : q # p => call'[q] = call[q] /\ process'[q] = process[q]
    BY <1>0, <1>9 DEF Throw, Return, TypeOK
  <2> QED BY <1>2, <2>1
<1>10. CASE UNCHANGED vars
  BY <1>0, <1>10 DEF vars, CallsFit, InCall
<1> HIDE DEF Fit
<1> QED
  BY <1>3, <1>4, <1>5, <1>6, <1>7, <1>8, <1>9, <1>10 DEF Next

\* A transaction belongs to a process until that process ends it.
LEMMA InTransactionKept == Basics /\ [Next]_vars => InTransaction'
<1> SUFFICES ASSUME Basics, [Next]_vars PROVE InTransaction'
  OBVIOUS
<1>0. TypeOK /\ CallsFit /\ RowsFit(row) /\ InTransaction
  BY DEF Basics
<1>1. ASSUME UNCHANGED <<durable, holder, saved>> PROVE InTransaction'
  BY <1>0, <1>1 DEF InTransaction, RowsFit
<1>2. ASSUME holder' = None, saved' = None PROVE InTransaction'
  BY <1>2 DEF InTransaction
<1>3. ASSUME NEW p \in Processes, BeginTransaction(p) PROVE InTransaction'
  <2>1. Current \in Committed
    BY <1>0 DEF Current, Committed, TypeOK
  <2>2. holder' # None /\ saved' # None /\ saved' = Current /\ durable'
    BY <1>3, <2>1, InstanceAssumption DEF BeginTransaction
  <2>3. RowsFit(saved'.row)
    BY <1>0, <2>2 DEF Current
  <2> QED BY <2>2, <2>3 DEF InTransaction, RowsFit
<1>4. ASSUME NEW p \in Processes, Look(p) \/ ReadBack(p) PROVE InTransaction'
  <2>1. /\ call[p] # None /\ call[p].call \in Calls /\ UNCHANGED <<durable, holder>>
        /\ \/ saved' = saved
           \/ call[p].call.kind = "begin" /\ Accept(p, call[p].call)
    BY <1>0, <1>4, Reading
  <2>2. CASE call[p].call.kind = "begin" /\ Accept(p, call[p].call)
    <3>1. call[p].call.arg \in Fingerprints
      BY <1>0, <2>1, <2>2 DEF CallsFit, InCall
    <3>2. (saved' = None <=> saved = None) /\ (saved # None => saved'.row = saved.row)
      BY <1>0, <2>1, <2>2, <3>1, AcceptTypes DEF InTransaction
    <3> QED BY <1>0, <2>1, <3>2 DEF InTransaction, RowsFit
  <2> QED BY <1>1, <2>1, <2>2
<1>5. ASSUME NEW p \in Processes, NEW v,
             \/ Open(p) \/ Migrate(p, v) \/ OpenFails(p) \/ Opened(p) \/ Throw(p)
      PROVE  InTransaction'
  BY <1>1, <1>5 DEF Open, Migrate, OpenFails, Opened, Throw, transaction
<1>6. ASSUME NEW p \in Processes, Commit(p) \/ Rollback(p) \/ Crash(p) PROVE InTransaction'
  BY <1>1, <1>2, <1>6 DEF Commit, Rollback, Crash, Restore, transaction
<1>7. ASSUME NEW p \in Processes, Start(p) \/ Write(p) PROVE InTransaction'
  BY <1>0, <1>1, <1>7, Starting, Writing DEF transaction
<1>8. CASE UNCHANGED vars
  BY <1>1, <1>8 DEF vars, transaction
<1> QED
  BY <1>3, <1>4, <1>5, <1>6, <1>7, <1>8 DEF Next

\* What opening and ending do to the processes and the schema.
LEMMA ProcessSteps ==
  ASSUME TypeOK, CallsFit, NEW p \in Processes,
         \/ BeginTransaction(p) \/ Commit(p) \/ Rollback(p) \/ Start(p) \/ Look(p) \/ Write(p)
         \/ ReadBack(p) \/ Throw(p)
  PROVE  UNCHANGED <<durable, schema, process>>
<1>1. ASSUME BeginTransaction(p) \/ Commit(p) \/ Rollback(p) \/ Throw(p)
      PROVE  UNCHANGED <<durable, schema, process>>
  BY <1>1 DEF BeginTransaction, Commit, Rollback, Throw
<1> QED BY <1>1, Starting, Reading, Writing

LEMMA SchemaKept ==
  Basics /\ [Next]_vars => OneProcess' /\ (recorded \subseteq tables)' /\ Migrating'
<1> DEFINE Goal == OneProcess' /\ (recorded \subseteq tables)' /\ Migrating'
<1> SUFFICES ASSUME Basics, [Next]_vars PROVE Goal
  OBVIOUS
<1>0. TypeOK /\ CallsFit /\ OneProcess /\ recorded \subseteq tables /\ Migrating
  BY DEF Basics
<1>1. ASSUME UNCHANGED <<durable, schema, process>> PROVE Goal
  BY <1>0, <1>1 DEF OneProcess, Migrating, schema
<1>2. ASSUME NEW p \in Processes, Open(p) PROVE Goal
  <2>1. /\ UNCHANGED <<durable, tables, recorded>> /\ process[p] = Down
        /\ \A q \in Processes : q # p => process'[q] = process[q]
        /\ durable => process'[p] = [at |-> "opening", pending |-> Versions \ recorded]
        /\ ~durable => \A q \in Processes : process[q] = Down
    BY <1>0, <1>2 DEF Open, TypeOK, schema
  <2>2. OneProcess'
    BY <2>1 DEF OneProcess
  <2>3. durable => Versions \ process'[p].pending \subseteq tables /\ process'[p].at = "opening"
    BY <1>0, <2>1
  <2>4. Migrating'
    BY <1>0, <2>1, <2>3 DEF Migrating
  <2> QED BY <1>0, <2>1, <2>2, <2>4
<1>3. ASSUME NEW p \in Processes, NEW v \in Versions, Migrate(p, v) PROVE Goal
  <2>1. /\ durable' = durable /\ process[p].at = "opening"
        /\ tables' = tables \cup {v} /\ recorded' = recorded \cup {v}
        /\ process' = [process EXCEPT ![p].pending = @ \ {v}]
    BY <1>3 DEF Migrate
  <2>2. /\ \A q \in Processes : q # p => process'[q] = process[q]
        /\ process'[p].at = "opening" /\ process'[p].pending = process[p].pending \ {v}
        /\ process[p] # Down
    BY <1>0, <2>1 DEF TypeOK, Down
  <2>3. OneProcess'
    BY <1>0, <2>1, <2>2 DEF OneProcess
  <2>4. durable => Versions \ process'[p].pending \subseteq tables'
    BY <1>0, <2>1, <2>2 DEF Migrating
  <2>5. tables \subseteq tables' /\ tables \subseteq Versions /\ tables' \subseteq Versions
    BY <1>0, <2>1 DEF TypeOK
  <2>6. Migrating'
    BY <1>0, <2>1, <2>2, <2>4, <2>5 DEF Migrating
  <2> QED BY <1>0, <2>1, <2>3, <2>6
<1>4. ASSUME NEW p \in Processes, OpenFails(p) \/ Opened(p) \/ Crash(p) PROVE Goal
  <2>1. /\ UNCHANGED <<durable, tables, recorded>> /\ process[p] # Down
        /\ \A q \in Processes : q # p => process'[q] = process[q]
        /\ \/ process'[p] = Down
           \/ process'[p] = Up /\ process[p].at = "opening" /\ process[p].pending = {}
    <3>1. /\ UNCHANGED <<durable, tables, recorded>> /\ process[p] # Down
          /\ \/ process' = [process EXCEPT ![p] = Down]
             \/ /\ process' = [process EXCEPT ![p] = Up]
                /\ process[p].at = "opening" /\ process[p].pending = {}
      BY <1>4 DEF OpenFails, Opened, Crash, schema, Down
    <3> QED BY <1>0, <3>1 DEF TypeOK
  <2>2. OneProcess'
    BY <1>0, <2>1 DEF OneProcess
  <2>3. durable /\ process'[p] = Up => tables = Versions
    <3>1. Up # Down
      BY DEF Up, Down
    <3>2. tables \subseteq Versions
      BY <1>0 DEF TypeOK
    <3>3. durable /\ process'[p] = Up => Versions \ {} \subseteq tables
      BY <1>0, <2>1, <3>1 DEF Migrating
    <3> QED BY <3>2, <3>3
  <2>4. Migrating'
    BY <1>0, <2>1, <2>3 DEF Migrating, Down, Up
  <2> QED BY <1>0, <2>1, <2>2, <2>4
<1>5. CASE UNCHANGED vars
  BY <1>1, <1>5 DEF vars
<1> HIDE DEF Goal
<1> QED
  BY <1>0, <1>1, <1>2, <1>3, <1>4, <1>5, ProcessSteps DEF Next

LEMMA BasicsKept == Basics /\ [Next]_vars => Basics'
  BY TypesKept, CallsFitKept, RowsFitKept, InTransactionKept, SchemaKept DEF Basics, RowsFit

-----------------------------------------------------------------------------
(* Owners *)

\* An operation goes on, or is over.
Continues(q) ==
  call'[q] # None =>
    /\ call[q] # None /\ call'[q].call = call[q].call
    /\ call[q].call.kind = "create" /\ call'[q].step = "write" => call[q].step = "write"

\* Most steps draw no id and begin no operation: accounts stay, go, or are as they were saved.
LEMMA OwnersKept ==
  ASSUME OwnersNow, OwnersSaved, Fresh, used' = used, \A q \in Processes : Continues(q),
         Owns(linked', row'),
         \A a \in Accounts : linked'[a] # None =>
           linked'[a] = linked[a] \/ (saved # None /\ linked'[a] = saved.linked[a]),
         saved' # None => /\ saved # None /\ saved'.linked = saved.linked
                          /\ saved'.row = saved.row
                          /\ \A a \in Accounts : linked'[a] \in {linked[a], None},
         \A x \in accepted' : \/ x \in accepted
                              \/ \E q \in Processes : /\ InCall(q, {"begin"})
                                                      /\ x.scope.account = AccountOf(q),
         \A q \in Processes : call[q] # None => AccountOf(q) \in Accounts
  PROVE  OwnersNow' /\ OwnersSaved' /\ Fresh'
<1>1. ASSUME NEW q \in Processes, NEW kinds, InCall(q, kinds)'
      PROVE  InCall(q, kinds) /\ call'[q].call = call[q].call /\ AccountOf(q) \in Accounts
  BY <1>1 DEF Continues, InCall
<1>2. ASSUME NEW q \in Processes, Creating(q)'
      PROVE  Creating(q) /\ call'[q].call = call[q].call /\ AccountOf(q) \in Accounts
  BY <1>2 DEF Continues, Creating, InCall
<1>3. OwnersNow'
  <2>1. \A a \in Accounts : linked'[a] # None => a \in used'
    BY DEF OwnersNow, OwnersSaved
  <2>2. ASSUME NEW q \in Processes, InCall(q, Puts)'
        PROVE  AccountOf(q)' \in used' /\ Fits(q, linked)'
    <3>1. InCall(q, Puts) /\ call'[q].call = call[q].call /\ AccountOf(q) \in Accounts
      BY <1>1, <2>2
    <3>2. AccountOf(q) \in used /\ Fits(q, linked) /\ (saved # None => Fits(q, saved.linked))
      BY <3>1 DEF OwnersNow, OwnersSaved
    <3> QED BY <3>1, <3>2 DEF Fits, AccountOf
  <2>3. \A x \in accepted' : x.scope.account \in used'
    BY DEF OwnersNow, InCall, Puts
  <2> QED BY <2>1, <2>2, <2>3 DEF OwnersNow, Owns
<1>4. OwnersSaved'
  <2> SUFFICES ASSUME saved' # None PROVE OwnersSaved'
    BY DEF OwnersSaved
  <2>1. ASSUME NEW q \in Processes, InCall(q, Puts)' PROVE Fits(q, saved.linked)'
    <3>1. InCall(q, Puts) /\ call'[q].call = call[q].call
      BY <1>1, <2>1
    <3>2. Fits(q, saved.linked)
      BY <3>1 DEF OwnersSaved
    <3> QED BY <3>1, <3>2 DEF Fits, AccountOf
  <2>2. Owns(saved.linked, saved.row)'
    BY DEF OwnersSaved, Owns
  <2>3. \A a \in Accounts : saved'.linked[a] # None =>
          a \in used' /\ (linked'[a] # None => linked'[a] = saved'.linked[a])
    BY DEF OwnersSaved
  <2> QED BY <2>1, <2>2, <2>3 DEF OwnersSaved
<1>5. ASSUME NEW p \in Processes, Creating(p)'
      PROVE  /\ AccountOf(p)' \in used' /\ linked'[AccountOf(p)'] = None
             /\ saved' # None => saved'.linked[AccountOf(p)'] = None
             /\ \A q \in Processes : InCall(q, Puts)' => AccountOf(q)' # AccountOf(p)'
             /\ \A q \in Processes : Creating(q)' /\ q # p => AccountOf(q)' # AccountOf(p)'
             /\ \A x \in accepted' : x.scope.account # AccountOf(p)'
  <2>1. Creating(p) /\ AccountOf(p)' = AccountOf(p) /\ AccountOf(p) \in Accounts
    BY <1>2, <1>5 DEF AccountOf
  <2>2. /\ AccountOf(p) \in used /\ linked[AccountOf(p)] = None
        /\ saved # None => saved.linked[AccountOf(p)] = None
        /\ \A q \in Processes : InCall(q, Puts) => AccountOf(q) # AccountOf(p)
        /\ \A q \in Processes : Creating(q) /\ q # p => AccountOf(q) # AccountOf(p)
        /\ \A x \in accepted : x.scope.account # AccountOf(p)
    BY <2>1 DEF Fresh
  <2>3. \A q \in Processes : InCall(q, Puts)' => AccountOf(q)' # AccountOf(p)'
    BY <1>1, <2>1, <2>2 DEF AccountOf
  <2>4. \A q \in Processes : Creating(q)' /\ q # p => AccountOf(q)' # AccountOf(p)'
    BY <1>2, <2>1, <2>2 DEF AccountOf
  <2>5. \A x \in accepted' : x.scope.account # AccountOf(p)'
    BY <2>1, <2>2 DEF InCall, Puts
  <2> QED BY <2>1, <2>2, <2>3, <2>4, <2>5
<1>6. Fresh'
  BY <1>5 DEF Fresh
<1> QED BY <1>3, <1>4, <1>6

\* An operation that has found its account knows the owner for as long as it goes on.
LEMMA FoundOwner ==
  ASSUME Basics, OwnersNow, OwnersSaved, NEW p \in Processes, NEW u, NEW a \in Accounts,
         Owned(p, u, a)
  PROVE  /\ a \in used
         /\ linked[a] # None => linked[a].user = u /\ linked[a] = View(p).linked[a]
         /\ saved # None /\ saved.linked[a] # None =>
              saved.linked[a].user = u /\ saved.linked[a] = View(p).linked[a]
<1>1. CASE holder \in {None, p}
  <2>1. View(p).linked = linked
    BY <1>1 DEF View, Current
  <2>2. linked[a] # None /\ linked[a].user = u
    BY <2>1 DEF Owned
  <2> QED BY <2>1, <2>2 DEF OwnersNow, OwnersSaved
<1>2. CASE holder \notin {None, p}
  <2>1. View(p).linked = saved.linked /\ saved # None
    BY <1>2 DEF View, Basics, InTransaction
  <2>2. saved.linked[a] # None /\ saved.linked[a].user = u
    BY <2>1 DEF Owned
  <2> QED BY <2>1, <2>2 DEF OwnersNow, OwnersSaved
<1> QED BY <1>1, <1>2

\* An operation begins: a new account is nobody's, an old one is its owner's.
LEMMA OwnedStarted ==
  ASSUME Basics, durable, OwnersNow, OwnersSaved, Fresh, NEW p \in Processes, Start(p)
  PROVE  OwnersNow' /\ OwnersSaved' /\ Fresh'
<1>0. TypeOK
  BY DEF Basics
<1>1. PICK c \in Calls, step \in {"look", "write"} :
        /\ Idle(p)
        /\ call' = [call EXCEPT ![p] = [call |-> c, step |-> step]]
        /\ UNCHANGED <<durable, schema, process, linked, row, accepted, transaction>>
        /\ c.kind = "create" => /\ c.arg \in Providers /\ c.account \notin used
                                /\ used' = used \cup {c.account}
        /\ c.kind # "create" => used' = used
        /\ c.kind = "putRef" => /\ c.arg \in Providers
                                /\ View(p).linked[c.account].provider = c.arg
        /\ c.kind = "begin" <=> step = "look"
        /\ c.kind = "begin" => c.arg \in Fingerprints
        /\ durable /\ c.kind \in Puts => Owned(p, c.user, c.account)
  BY <1>0, Starting
<1>2. /\ call'[p] = [call |-> c, step |-> step] /\ call'[p] # None
      /\ \A q \in Processes : q # p => call'[q] = call[q]
  <2>1. call'[p] = [call |-> c, step |-> step] /\ \A q \in Processes : q # p => call'[q] = call[q]
    BY <1>0, <1>1 DEF TypeOK
  <2>2. [call |-> c, step |-> step] \in Pending
    BY DEF Pending
  <2> QED BY <2>1, <2>2, InstanceAssumption
<1>3. UNCHANGED <<linked, row, accepted, saved>> /\ used \subseteq used' /\ c.account \in Accounts
  BY <1>1, ScopeTypes DEF transaction
<1>4. \A q \in Processes : q # p =>
        /\ \A kinds : InCall(q, kinds)' <=> InCall(q, kinds)
        /\ AccountOf(q)' = AccountOf(q) /\ (Creating(q)' <=> Creating(q))
  BY <1>2 DEF InCall, AccountOf, Creating
<1>5. /\ AccountOf(p)' = c.account /\ (InCall(p, Puts)' <=> c.kind \in Puts)
      /\ Creating(p)' => c.kind = "create"
  BY <1>2 DEF InCall, AccountOf, Creating
<1>6. ASSUME c.kind \in Puts
      PROVE  /\ c.account \in used
             /\ linked[c.account] # None =>
                  /\ linked[c.account].user = c.user
                  /\ linked[c.account] = View(p).linked[c.account]
             /\ saved # None /\ saved.linked[c.account] # None =>
                  /\ saved.linked[c.account].user = c.user
                  /\ saved.linked[c.account] = View(p).linked[c.account]
  BY <1>1, <1>3, <1>6, FoundOwner
<1>7. OwnersNow'
  <2>1. ASSUME NEW q \in Processes, InCall(q, Puts)'
        PROVE  AccountOf(q)' \in used' /\ Fits(q, linked)'
    <3>1. CASE q = p
      <4>1. c.kind \in Puts
        BY <1>5, <2>1, <3>1
      <4> QED BY <1>1, <1>2, <1>3, <1>5, <1>6, <3>1, <4>1 DEF Fits
    <3>2. CASE q # p
      BY <1>2, <1>3, <1>4, <2>1, <3>2 DEF OwnersNow, Fits
    <3> QED BY <3>1, <3>2
  <2> QED BY <1>3, <2>1 DEF OwnersNow, Owns
<1>8. OwnersSaved'
  <2> SUFFICES ASSUME saved # None PROVE OwnersSaved'
    BY <1>3 DEF OwnersSaved
  <2>1. ASSUME NEW q \in Processes, InCall(q, Puts)' PROVE Fits(q, saved.linked)'
    <3>1. CASE q = p
      <4>1. c.kind \in Puts
        BY <1>5, <2>1, <3>1
      <4> QED BY <1>1, <1>2, <1>3, <1>5, <1>6, <3>1, <4>1 DEF Fits
    <3>2. CASE q # p
      BY <1>2, <1>3, <1>4, <2>1, <3>2 DEF OwnersSaved, Fits
    <3> QED BY <3>1, <3>2
  <2> QED BY <1>3, <2>1 DEF OwnersSaved, Owns
<1>9. Fresh'
  <2>1. \A q \in Processes : InCall(q, Puts) => AccountOf(q) \in used
    BY DEF OwnersNow
  <2>2. \A q \in Processes : Creating(q) => AccountOf(q) \in used
    BY DEF Fresh
  <2>3. CASE c.kind = "create"
    <3>1. /\ c.account \notin used /\ c.account \in used' /\ ~InCall(p, Puts)'
          /\ linked[c.account] = None /\ (saved # None => saved.linked[c.account] = None)
          /\ \A x \in accepted : x.scope.account # c.account
      BY <1>1, <1>3, <1>5, <2>3 DEF OwnersNow, OwnersSaved, Puts
    <3> QED BY <1>3, <1>4, <1>5, <2>1, <2>2, <3>1 DEF Fresh
  <2>4. CASE c.kind # "create"
    <3>1. ~Creating(p)' /\ used' = used
      BY <1>1, <1>5, <2>4
    <3>2. ASSUME NEW q \in Processes, Creating(q), InCall(p, Puts)'
          PROVE  AccountOf(q) # c.account
      <4>1. Owned(p, c.user, c.account)
        BY <1>1, <1>5, <3>2
      <4>2. linked[AccountOf(q)] = None /\ (saved # None => saved.linked[AccountOf(q)] = None)
        BY <3>2 DEF Fresh
      <4>3. holder \notin {None, p} => saved # None
        BY DEF Basics, InTransaction
      <4> QED BY <4>1, <4>2, <4>3 DEF Owned, View, Current
    <3> QED BY <1>3, <1>4, <1>5, <3>1, <3>2 DEF Fresh
  <2> QED BY <2>3, <2>4
<1> QED BY <1>7, <1>8, <1>9

\* A call goes on, or ends, in the steps that begin none.
LEMMA Continuing ==
  ASSUME TypeOK, CallsFit, NEW p \in Processes,
         \/ Look(p) \/ ReadBack(p) \/ Write(p) \/ Throw(p) \/ Crash(p)
         \/ BeginTransaction(p) \/ Commit(p) \/ Rollback(p)
  PROVE  \A q \in Processes : Continues(q)
<1>1. CASE Look(p) \/ ReadBack(p)
  <2>1. /\ call[p] # None
        /\ \/ /\ call' = [call EXCEPT ![p] = [call |-> call[p].call, step |-> "write"]]
              /\ call[p].call.kind = "begin"
           \/ call' = [call EXCEPT ![p] = None]
    BY <1>1, Reading
  <2>2. /\ \A q \in Processes : q # p => call'[q] = call[q]
        /\ \/ call'[p] = None
           \/ call'[p] = [call |-> call[p].call, step |-> "write"] /\ call[p].call.kind = "begin"
    BY <2>1 DEF TypeOK
  <2> QED BY <2>1, <2>2 DEF Continues
<1>2. CASE Write(p)
  <2>1. /\ call[p] # None /\ call[p] \in Pending
        /\ \/ call' = [call EXCEPT ![p].step = "read"]
           \/ call' = [call EXCEPT ![p] = None]
    BY <1>2, Writing, PendingTypes
  <2>2. /\ \A q \in Processes : q # p => call'[q] = call[q]
        /\ \/ call'[p] = None
           \/ call'[p].call = call[p].call /\ call'[p].step = "read"
    BY <2>1 DEF TypeOK, Pending
  <2> QED BY <2>1, <2>2 DEF Continues
<1>3. CASE Throw(p) \/ Crash(p)
  <2>1. call' = [call EXCEPT ![p] = None]
    BY <1>3 DEF Throw, Crash, Return
  <2>2. call'[p] = None /\ \A q \in Processes : q # p => call'[q] = call[q]
    BY <2>1 DEF TypeOK
  <2> QED BY <2>2 DEF Continues
<1>4. CASE BeginTransaction(p) \/ Commit(p) \/ Rollback(p)
  BY <1>4 DEF BeginTransaction, Commit, Rollback, Continues
<1> QED BY <1>1, <1>2, <1>3, <1>4

\* The foreign keys and the cascade keep every row with its account; the checks before
\* the statement keep it with its owner.
LEMMA OwnedWritten ==
  ASSUME Basics, durable, OwnersNow, OwnersSaved, Fresh, NEW p \in Processes, Write(p)
  PROVE  OwnersNow' /\ OwnersSaved' /\ Fresh'
<1> DEFINE c == call[p].call
           Goal == OwnersNow' /\ OwnersSaved' /\ Fresh'
<1>0. TypeOK /\ CallsFit /\ RowsFit(row)
  BY DEF Basics
<1>1. /\ call[p] # None /\ c \in Calls /\ c.account \in Accounts
      /\ UNCHANGED <<durable, schema, process, used, accepted, holder, saved>>
      /\ \A q \in Processes : Continues(q)
      /\ \A q \in Processes : call[q] # None => AccountOf(q) \in Accounts
  <2>1. \A q \in Processes : call[q] # None => AccountOf(q) \in Accounts
    BY <1>0, PendingTypes, ScopeTypes DEF AccountOf
  <2> QED BY <1>0, <2>1, Writing, Continuing, ScopeTypes
<1>2. ASSUME Owns(linked', row'), \A a \in Accounts : linked'[a] \in {linked[a], None} PROVE Goal
  BY <1>1, <1>2, OwnersKept
<1>3. CASE InsertAccount(p)
  <2>1. /\ Creating(p) /\ row' = row
        /\ linked'[c.account] = [user |-> c.user, provider |-> c.arg]
        /\ \A a \in Accounts \ {c.account} : linked'[a] = linked[a]
    BY <1>0, <1>3, InsertedAccount
  <2>2. /\ c.account \in used /\ linked[c.account] = None
        /\ saved # None => saved.linked[c.account] = None
        /\ \A q \in Processes : InCall(q, Puts) => AccountOf(q) # c.account
        /\ \A q \in Processes : Creating(q) /\ q # p => AccountOf(q) # c.account
    BY <2>1 DEF Fresh, AccountOf
  <2>3. ~Creating(p)' /\ \A q \in Processes : q # p => call'[q] = call[q]
    <3>1. call' = [call EXCEPT ![p].step = "read"] /\ call[p] \in Pending
      BY <1>0, <1>1, <1>3, PendingTypes DEF InsertAccount, GoOn
    <3>2. call'[p].step = "read" /\ \A q \in Processes : q # p => call'[q] = call[q]
      BY <1>0, <3>1 DEF TypeOK, Pending
    <3> QED BY <3>2 DEF Creating
  <2>4. ~InCall(p, Puts) /\ ~InCall(p, Puts)'
    BY <1>1, <2>1 DEF Creating, InCall, Puts, Continues
  <2>5. \A q \in Processes : q # p =>
          /\ InCall(q, Puts)' <=> InCall(q, Puts)
          /\ AccountOf(q)' = AccountOf(q) /\ (Creating(q)' <=> Creating(q))
    BY <2>3 DEF InCall, AccountOf, Creating
  <2>6. Owns(linked', row')
    <3>1. \A s \in Scopes : row[s] # None => s.account # c.account /\ s.account \in Accounts
      BY <2>2 DEF OwnersNow, Owns, Scopes
    <3> QED BY <2>1, <3>1 DEF OwnersNow, Owns
  <2>7. OwnersNow'
    <3>1. ASSUME NEW q \in Processes, InCall(q, Puts)'
          PROVE  AccountOf(q)' \in used' /\ Fits(q, linked)'
      <4>1. q # p /\ InCall(q, Puts) /\ call'[q] = call[q]
        BY <2>3, <2>4, <2>5, <3>1
      <4>2. AccountOf(q) \in used /\ Fits(q, linked) /\ AccountOf(q) # c.account
            /\ AccountOf(q) \in Accounts /\ AccountOf(q)' = AccountOf(q)
        BY <1>1, <2>2, <2>5, <4>1 DEF OwnersNow, InCall
      <4>3. linked'[AccountOf(q)] = linked[AccountOf(q)]
        BY <2>1, <4>2
      <4> QED BY <1>1, <4>1, <4>2, <4>3 DEF Fits
    <3>2. \A a \in Accounts : linked'[a] # None => a \in used'
      BY <1>1, <2>1, <2>2 DEF OwnersNow
    <3> QED BY <1>1, <2>6, <3>1, <3>2 DEF OwnersNow, Owns
  <2>8. OwnersSaved'
    <3> SUFFICES ASSUME saved # None PROVE OwnersSaved'
      BY <1>1 DEF OwnersSaved
    <3>1. ASSUME NEW q \in Processes, InCall(q, Puts)' PROVE Fits(q, saved.linked)'
      <4>1. q # p /\ InCall(q, Puts) /\ call'[q] = call[q] /\ AccountOf(q)' = AccountOf(q)
        BY <2>3, <2>4, <2>5, <3>1
      <4> QED BY <1>1, <4>1 DEF OwnersSaved, Fits
    <3>2. \A a \in Accounts : saved.linked[a] # None =>
            a \in used /\ (linked'[a] # None => linked'[a] = saved.linked[a])
      BY <2>1, <2>2 DEF OwnersSaved
    <3> QED BY <1>1, <3>1, <3>2 DEF OwnersSaved, Owns
  <2>9. Fresh'
    <3>1. ASSUME NEW q \in Processes, Creating(q)'
          PROVE  q # p /\ Creating(q) /\ AccountOf(q)' = AccountOf(q)
                 /\ linked'[AccountOf(q)] = linked[AccountOf(q)]
      <4>1. q # p /\ Creating(q) /\ AccountOf(q)' = AccountOf(q)
        BY <2>3, <2>5, <3>1
      <4>2. AccountOf(q) # c.account /\ AccountOf(q) \in Accounts
        BY <1>1, <2>2, <4>1 DEF Creating, InCall
      <4> QED BY <2>1, <4>1, <4>2
    <3> QED BY <1>1, <2>4, <2>5, <3>1 DEF Fresh
  <2> QED BY <2>7, <2>8, <2>9
<1>4. CASE DeleteAccount(p) \/ DeleteRow(p)
  <2>1. /\ \A s \in Scopes : row'[s] \in {row[s], None}
        /\ \A a \in Accounts : linked'[a] \in {linked[a], None}
        /\ \/ /\ linked'[c.account] = None /\ \A a \in Accounts \ {c.account} : linked'[a] = linked[a]
              /\ \A s \in Scopes : row'[s] = IF durable /\ s.account = c.account THEN None ELSE row[s]
           \/ linked' = linked
    BY <1>0, <1>4, DeletedRows
  <2>2. ASSUME NEW s \in Scopes, row'[s] # None
        PROVE  row'[s] = row[s] /\ linked'[s.account] = linked[s.account]
    BY <2>1, <2>2 DEF Scopes
  <2>3. Owns(linked', row')
    BY <2>2 DEF OwnersNow, Owns
  <2> QED BY <1>2, <2>1, <2>3
<1>5. CASE PutRow(p)
  <2> DEFINE s == ScopeOf(c)
  <2>1. /\ s \in Scopes /\ s.table = TableOf(c.kind) /\ c.kind \in Puts /\ linked' = linked
        /\ s.user = c.user /\ s.account = c.account
        /\ \A t \in Scopes : t # s => row'[t] = row[t]
        /\ linked[s.account] # None
        /\ c.kind = "putRef" => row'[s] \in Refs /\ row'[s].provider = c.arg
    BY <1>0, <1>5, InsertedRow
  <2>2. /\ linked[c.account].user = c.user
        /\ c.kind = "putRef" => linked[c.account].provider = c.arg
    BY <1>1, <2>1 DEF OwnersNow, InCall, Fits, AccountOf
  <2>3. s.table = "ref" => c.kind = "putRef"
    BY <1>1, <2>1, TableCases, ScopeTypes DEF Puts
  <2> HIDE DEF s, c
  <2>4. Owns(linked', row')
    BY <2>1, <2>2, <2>3 DEF OwnersNow, Owns
  <2> QED BY <1>2, <2>1, <2>4
<1>6. CASE UpdateOperation(p)
  <2>1. /\ linked' = linked
        /\ \A t \in Scopes : t # ScopeOf(c) => row'[t] = row[t]
        /\ row'[ScopeOf(c)] # None <=> row[ScopeOf(c)] # None
        /\ ScopeOf(c).table = "operation"
    BY <1>0, <1>6, UpdatedRow
  <2>2. Owns(linked', row')
    BY <2>1 DEF OwnersNow, Owns
  <2> QED BY <1>2, <2>1, <2>2
<1> HIDE DEF Goal
<1>7. Goal
  BY <1>3, <1>4, <1>5, <1>6 DEF Write, Goal
<1> QED BY <1>7 DEF Goal

LEMMA OwnersFixedKept == Inv /\ [Next]_vars => OwnersFixed'
<1> DEFINE Goal == OwnersNow' /\ OwnersSaved' /\ Fresh'
<1> SUFFICES ASSUME Inv, [Next]_vars, durable' PROVE Goal
  BY DEF OwnersFixed
<1>0. Basics /\ TypeOK /\ CallsFit /\ InTransaction
  BY DEF Inv, Basics
<1>1. durable' = durable
  <2>1. ASSUME NEW p \in Processes, NEW v,
               Open(p) \/ Migrate(p, v) \/ OpenFails(p) \/ Opened(p) \/ Crash(p)
        PROVE  durable' = durable
    BY <2>1 DEF Open, Migrate, OpenFails, Opened, Crash
  <2>2. Versions # {}
    BY DEF Versions
  <2>3. UNCHANGED vars => durable' = durable
    BY DEF vars
  <2> QED BY <1>0, <2>1, <2>2, <2>3, ProcessSteps DEF Next
<1>2. OwnersNow /\ OwnersSaved /\ Fresh /\ Owns(linked, row)
  BY <1>1 DEF Inv, OwnersFixed, OwnersNow
<1>3. \A q \in Processes : call[q] # None => AccountOf(q) \in Accounts
  BY <1>0, PendingTypes, ScopeTypes DEF AccountOf
<1>4. ASSUME UNCHANGED <<linked, row, used, saved, accepted>>, \A q \in Processes : Continues(q)
      PROVE  Goal
  BY <1>2, <1>3, <1>4, OwnersKept
<1>5. ASSUME saved # None, Restore, \A q \in Processes : Continues(q) PROVE Goal
  <2>1. /\ linked' = saved.linked /\ row' = saved.row /\ saved' = None /\ used' = used
        /\ accepted' \subseteq accepted
    BY <1>5 DEF Restore, Inv, Answered
  <2>2. Owns(linked', row')
    BY <1>2, <1>5, <2>1 DEF OwnersSaved
  <2> QED BY <1>2, <1>3, <1>5, <2>1, <2>2, OwnersKept
<1>6. ASSUME NEW p \in Processes, NEW v,
             Open(p) \/ Migrate(p, v) \/ OpenFails(p) \/ Opened(p)
      PROVE  Goal
  BY <1>4, <1>6, Opening DEF data, transaction, Continues
<1>7. ASSUME NEW p \in Processes, BeginTransaction(p) PROVE Goal
  <2>1. saved' = Current /\ UNCHANGED <<linked, row, used, accepted, call>>
    BY <1>7 DEF BeginTransaction, data
  <2>2. OwnersNow' /\ Fresh'
    BY <1>2, <2>1 DEF OwnersNow, Fresh, Owns, InCall, Fits, AccountOf, Creating, Current
  <2>3. OwnersSaved'
    BY <1>2, <2>1 DEF OwnersNow, OwnersSaved, Owns, InCall, Fits, AccountOf, Current
  <2> QED BY <2>2, <2>3
<1>8. ASSUME NEW p \in Processes, Commit(p) PROVE Goal
  <2>1. saved' = None /\ UNCHANGED <<linked, row, used, accepted, call>>
    BY <1>8 DEF Commit, data
  <2>2. \A q \in Processes : Continues(q)
    BY <2>1 DEF Continues
  <2> QED BY <1>2, <1>3, <2>1, <2>2, OwnersKept
<1>9. ASSUME NEW p \in Processes, Rollback(p) \/ Crash(p) PROVE Goal
  <2>1. \A q \in Processes : Continues(q)
    BY <1>0, <1>9, Continuing
  <2>2. \/ holder = p /\ Restore
        \/ UNCHANGED <<linked, row, used, saved, accepted>>
    BY <1>1, <1>9 DEF Rollback, Crash, data, transaction
  <2>3. holder = p => saved # None
    BY <1>0, InstanceAssumption DEF InTransaction
  <2> QED BY <1>4, <1>5, <2>1, <2>2, <2>3
<1>10. ASSUME NEW p \in Processes, Start(p) PROVE Goal
  BY <1>0, <1>1, <1>2, <1>10, OwnedStarted
<1>11. ASSUME NEW p \in Processes, Look(p) \/ ReadBack(p) PROVE Goal
  <2> DEFINE c == call[p].call
  <2>1. \A q \in Processes : Continues(q)
    BY <1>0, <1>11, Continuing
  <2>2. /\ call[p] # None /\ c \in Calls /\ UNCHANGED <<linked, used, row, holder>>
        /\ \/ UNCHANGED <<accepted, saved>>
           \/ c.kind = "begin" /\ Accept(p, c)
    BY <1>0, <1>11, Reading
  <2>3. CASE c.kind = "begin" /\ Accept(p, c)
    <3>1. c.arg \in Fingerprints
      BY <1>0, <2>2, <2>3 DEF CallsFit, InCall
    <3>2. /\ saved' = None <=> saved = None
          /\ saved # None => saved'.linked = saved.linked /\ saved'.row = saved.row
      BY <1>0, <2>2, <2>3, <3>1, AcceptTypes DEF InTransaction
    <3>3. \A x \in accepted' : \/ x \in accepted
                               \/ \E q \in Processes : /\ InCall(q, {"begin"})
                                                       /\ x.scope.account = AccountOf(q)
      <4>1. accepted' = accepted \cup {[scope |-> ScopeOf(c), fingerprint |-> c.arg]}
        BY <2>3 DEF Accept
      <4>2. InCall(p, {"begin"}) /\ ScopeOf(c).account = AccountOf(p)
        BY <2>2, <2>3, ScopeTypes DEF InCall, AccountOf
      <4> QED BY <4>1, <4>2
    <3> QED BY <1>2, <1>3, <2>1, <2>2, <3>2, <3>3, OwnersKept
  <2> QED BY <1>4, <2>1, <2>2, <2>3
<1>12. ASSUME NEW p \in Processes, Write(p) PROVE Goal
  BY <1>0, <1>1, <1>2, <1>12, OwnedWritten
<1>13. ASSUME NEW p \in Processes, Throw(p) PROVE Goal
  BY <1>0, <1>4, <1>13, Continuing DEF Throw, data, transaction
<1>14. CASE UNCHANGED vars
  BY <1>4, <1>14 DEF vars, data, transaction, Continues
<1> HIDE DEF Goal
<1>15. Versions # {}
  BY DEF Versions
<1> QED
  BY <1>6, <1>7, <1>8, <1>9, <1>10, <1>11, <1>12, <1>13, <1>14, <1>15 DEF Next

-----------------------------------------------------------------------------
(* Answers *)

\* No statement takes a key's request back: begin inserts where there is no row, an
\* UPDATE keeps the fingerprint, and only the cascade deletes a record.
LEMMA StandsKept ==
  ASSUME TypeOK, CallsFit, RowsFit(row), NEW p \in Processes, Write(p),
         NEW s \in Scopes, s.table = "operation", NEW f, Stands(s, f, linked, row),
         durable /\ Creating(p) => s.account # AccountOf(p)
  PROVE  Stands(s, f, linked', row')
<1> DEFINE c == call[p].call
<1>0. durable' = durable /\ s.account \in Accounts /\ call[p] # None /\ c \in Calls
  BY Writing DEF Scopes
<1>1. CASE InsertAccount(p)
  <2>1. /\ Creating(p) /\ row' = row
        /\ \A a \in Accounts \ {c.account} : linked'[a] = linked[a]
    BY <1>1, InsertedAccount
  <2> QED BY <1>0, <2>1 DEF Stands, AccountOf
<1>2. CASE DeleteAccount(p) \/ DeleteRow(p)
  <2>1. \/ /\ linked'[c.account] = None /\ \A a \in Accounts \ {c.account} : linked'[a] = linked[a]
           /\ \A t \in Scopes :
                row'[t] = IF durable /\ t.account = c.account THEN None ELSE row[t]
        \/ /\ linked' = linked
           /\ \A t \in Scopes : t.table = "operation" => row'[t] = row[t]
    BY <1>2, DeletedRows
  <2> QED BY <1>0, <2>1 DEF Stands
<1>3. CASE PutRow(p)
  <2>1. /\ ScopeOf(c).table = TableOf(c.kind) /\ c.kind \in Puts /\ linked' = linked
        /\ \A t \in Scopes : t # ScopeOf(c) => row'[t] = row[t]
        /\ durable => linked[ScopeOf(c).account] # None
        /\ c.kind = "begin" => row[ScopeOf(c)] = None
    BY <1>3, InsertedRow
  <2>2. s # ScopeOf(c)
    <3>1. CASE c.kind = "begin"
      BY <2>1, <3>1 DEF Stands
    <3>2. CASE c.kind # "begin"
      <4>1. TableOf(c.kind) # "operation"
        BY <1>0, <2>1, <3>2, TableCases, ScopeTypes DEF Puts
      <4> QED BY <2>1, <4>1
    <3> QED BY <3>1, <3>2
  <2> QED BY <2>1, <2>2 DEF Stands
<1>4. CASE UpdateOperation(p)
  <2>1. /\ linked' = linked
        /\ \A t \in Scopes : t # ScopeOf(c) => row'[t] = row[t]
        /\ row'[ScopeOf(c)] # None <=> row[ScopeOf(c)] # None
        /\ row[ScopeOf(c)] # None => row'[ScopeOf(c)].fingerprint = row[ScopeOf(c)].fingerprint
    BY <1>4, UpdatedRow
  <2>2. /\ row'[s] # None <=> row[s] # None
        /\ row[s] # None => row'[s].fingerprint = row[s].fingerprint
    BY <2>1
  <2> QED BY <1>0, <2>1, <2>2 DEF Stands
<1> QED BY <1>1, <1>2, <1>3, <1>4 DEF Write

\* What begin answers for is the request of the row it has read, committed or not; and
\* it is the one every earlier answer for the key was for.
LEMMA Accepting ==
  ASSUME Inv, NEW p \in Processes, call[p] # None, call[p].call.kind = "begin",
         NEW s, s = ScopeOf(call[p].call), NEW f, f = call[p].call.arg,
         View(p).row[s] # None,
         call[p].step = "read" \/ View(p).row[s].fingerprint = f
  PROVE  /\ s \in Scopes /\ s.table = "operation" /\ f \in Fingerprints
         /\ Stands(s, f, linked, row)
         /\ holder \notin {None, p} => Stands(s, f, saved.linked, saved.row)
         /\ saved # None /\ saved.row[s] # None => saved.row[s].fingerprint = f
         /\ \A y \in accepted : y.scope = s => y.fingerprint = f
<1>1. TypeOK /\ CallsFit /\ InTransaction
  BY DEF Inv, Basics
<1>2. s \in Scopes /\ s.table = "operation" /\ f \in Fingerprints
  <2>1. call[p].call \in Calls
    BY <1>1, PendingTypes
  <2> QED BY <1>1, <2>1, ScopeTypes, TableCases DEF CallsFit, InCall
<1>3. /\ call[p].step = "read" => Stands(s, f, linked, row)
      /\ call[p].step = "read" /\ holder \notin {None, p} => Stands(s, f, saved.linked, saved.row)
  BY DEF Inv, Inserted, InCall
<1>4. /\ \A x \in accepted : Stands(x.scope, x.fingerprint, linked, row)
      /\ saved # None =>
           /\ \A x \in accepted : saved.row[x.scope] # None =>
                saved.row[x.scope].fingerprint = x.fingerprint
           /\ saved.row[s] # None => Stands(s, saved.row[s].fingerprint, linked, row)
  BY <1>2 DEF Inv, Answered
<1>5. CASE holder \in {None, p}
  <2>1. row[s] # None /\ (call[p].step = "read" \/ row[s].fingerprint = f)
    BY <1>5 DEF View, Current
  <2>2. row[s].fingerprint = f
    BY <1>3, <2>1 DEF Stands
  <2> QED BY <1>2, <1>4, <1>5, <2>1, <2>2 DEF Stands
<1>6. CASE holder \notin {None, p}
  <2>1. saved # None /\ saved.row[s] # None
        /\ (call[p].step = "read" \/ saved.row[s].fingerprint = f)
    BY <1>1, <1>6 DEF View, InTransaction
  <2>2. saved.row[s].fingerprint = f
    BY <1>3, <1>6, <2>1 DEF Stands
  <2> QED BY <1>2, <1>4, <2>1, <2>2 DEF Stands
<1> QED BY <1>5, <1>6

\* A process that ends in a transaction takes it back; the Maps end with their process.
LEMMA Ending ==
  ASSUME Basics, NEW p \in Processes, Rollback(p) \/ Crash(p)
  PROVE  /\ durable' = durable /\ call'[p] = None
         /\ \A q \in Processes : q # p => call'[q] = call[q]
         /\ \/ holder = p /\ saved # None /\ Restore
            \/ UNCHANGED <<linked, row, accepted, holder, saved>> /\ holder # p
            \/ /\ ~durable /\ accepted' = {} /\ saved' = None /\ holder' = None
               /\ \A q \in Processes : q # p => call[q] = None
<1>0. TypeOK /\ CallsFit /\ InTransaction /\ OneProcess
  BY DEF Basics
<1>1. holder = p => saved # None
  BY <1>0, InstanceAssumption DEF InTransaction
<1>2. CASE Rollback(p)
  BY <1>1, <1>2 DEF Rollback, Idle
<1>3. CASE Crash(p)
  <2>1. /\ durable' = durable /\ call'[p] = None
        /\ \A q \in Processes : q # p => call'[q] = call[q]
    BY <1>0, <1>3 DEF Crash, TypeOK
  <2>2. CASE durable
    BY <1>1, <1>3, <2>1, <2>2 DEF Crash, data, transaction
  <2>3. CASE ~durable
    <3>1. accepted' = {} /\ saved' = saved /\ holder' = holder /\ process[p] # Down
      BY <1>3, <2>3 DEF Crash, transaction
    <3>2. saved = None /\ holder = None
      BY <1>0, <2>3 DEF InTransaction
    <3>3. \A q \in Processes : q # p => call[q] = None
      BY <1>0, <2>3, <3>1 DEF OneProcess, CallsFit, Up, Down
    <3> QED BY <2>1, <2>3, <3>1, <3>2, <3>3
  <2> QED BY <2>2, <2>3
<1> QED BY <1>2, <1>3

\* The answers there are stand while rows are written.
LEMMA AnsweredWritten ==
  ASSUME Inv, NEW p \in Processes, Write(p)
  PROVE  Answered'
<1>1. TypeOK /\ CallsFit /\ RowsFit(row) /\ InTransaction
  BY DEF Inv, Basics
<1>2. UNCHANGED <<durable, accepted, saved>> /\ call[p] # None /\ call[p].call \in Calls
  BY <1>1, Writing
<1>3. accepted \subseteq [scope : Scopes, fingerprint : Fingerprints]
  BY <1>1 DEF TypeOK
<1>4. ASSUME NEW x \in accepted PROVE Stands(x.scope, x.fingerprint, linked', row')
  <2>1. x.scope \in Scopes /\ x.scope.table = "operation"
        /\ Stands(x.scope, x.fingerprint, linked, row)
    BY <1>3 DEF Inv, Answered
  <2>2. durable /\ Creating(p) => x.scope.account # AccountOf(p)
    BY DEF Inv, OwnersFixed, Fresh
  <2> QED BY <1>1, <2>1, <2>2, StandsKept
<1>5. ASSUME saved # None, NEW s \in Scopes, s.table = "operation", saved.row[s] # None
      PROVE  Stands(s, saved.row[s].fingerprint, linked', row')
  <2>1. Stands(s, saved.row[s].fingerprint, linked, row)
    BY <1>5 DEF Inv, Answered
  <2>2. durable /\ Creating(p) => s.account # AccountOf(p)
    <3>1. durable => saved.linked[s.account] # None
      BY <1>5 DEF Inv, OwnersFixed, OwnersSaved, Owns
    <3>2. durable /\ Creating(p) => saved.linked[AccountOf(p)] = None
      BY <1>5 DEF Inv, OwnersFixed, Fresh
    <3> QED BY <3>1, <3>2
  <2> QED BY <1>1, <1>5, <2>1, <2>2, StandsKept
<1>6. /\ \A x \in accepted : x.scope.table = "operation"
      /\ saved # None =>
           /\ saved.accepted \subseteq accepted
           /\ \A x \in saved.accepted : Stands(x.scope, x.fingerprint, saved.linked, saved.row)
           /\ \A x \in accepted : saved.row[x.scope] # None =>
                saved.row[x.scope].fingerprint = x.fingerprint
  BY DEF Inv, Answered
<1>7. \A x \in accepted' : x.scope.table = "operation" /\ Stands(x.scope, x.fingerprint, linked, row)'
  BY <1>2, <1>4, <1>6 DEF Stands
<1>8. ASSUME saved' # None
      PROVE  /\ saved'.accepted \subseteq accepted'
             /\ \A x \in saved'.accepted : Stands(x.scope, x.fingerprint, saved.linked, saved.row)'
             /\ \A x \in accepted' : saved'.row[x.scope] # None =>
                  saved'.row[x.scope].fingerprint = x.fingerprint
             /\ \A s \in Scopes : s.table = "operation" /\ saved'.row[s] # None =>
                  Stands(s, saved.row[s].fingerprint, linked, row)'
  BY <1>2, <1>5, <1>6, <1>8 DEF Stands
<1> QED BY <1>7, <1>8 DEF Answered

\* A new answer is for the request that stands.
LEMMA AnswersAgree ==
  ASSUME Inv, NEW p \in Processes, Look(p) \/ ReadBack(p)
  PROVE  Answered' /\ OneRequestPerKey'
<1> DEFINE c == call[p].call
           s == ScopeOf(c)
           x == [scope |-> s, fingerprint |-> c.arg]
<1>0. TypeOK /\ CallsFit /\ InTransaction
  BY DEF Inv, Basics
<1>1. /\ call[p] # None /\ c \in Calls /\ UNCHANGED <<durable, linked, row, holder>>
      /\ \/ UNCHANGED <<accepted, saved>>
         \/ /\ c.kind = "begin" /\ Accept(p, c) /\ View(p).row[s] # None
            /\ call[p].step = "read" \/ View(p).row[s].fingerprint = c.arg
  BY <1>0, Reading
<1>2. CASE UNCHANGED <<accepted, saved>>
  BY <1>1, <1>2 DEF Inv, Answered, OneRequestPerKey, Stands
<1>3. CASE /\ c.kind = "begin" /\ Accept(p, c) /\ View(p).row[s] # None
           /\ call[p].step = "read" \/ View(p).row[s].fingerprint = c.arg
  <2>1. /\ s \in Scopes /\ s.table = "operation" /\ c.arg \in Fingerprints
        /\ Stands(s, c.arg, linked, row)
        /\ holder \notin {None, p} => Stands(s, c.arg, saved.linked, saved.row)
        /\ saved # None /\ saved.row[s] # None => saved.row[s].fingerprint = c.arg
        /\ \A y \in accepted : y.scope = s => y.fingerprint = c.arg
    BY <1>1, <1>3, Accepting
  <2>2. /\ saved' = None <=> saved = None
        /\ saved # None => saved'.linked = saved.linked /\ saved'.row = saved.row
    BY <1>0, <1>1, <1>3, <2>1, AcceptTypes DEF InTransaction
  <2>3. /\ accepted' = accepted \cup {x}
        /\ saved # None => \/ saved'.accepted = saved.accepted
                           \/ saved'.accepted = saved.accepted \cup {x} /\ holder \notin {None, p}
    <3>1. /\ accepted' = accepted \cup {x}
          /\ saved' = IF holder \in {None, p} THEN saved
                      ELSE [saved EXCEPT !.accepted = @ \cup {x}]
      BY <1>3 DEF Accept
    <3> HIDE DEF x
    <3>2. saved # None => saved \in Committed
      BY <1>0 DEF TypeOK
    <3> QED BY <3>1, <3>2 DEF Committed
  <2>4. x.scope = s /\ x.fingerprint = c.arg
    OBVIOUS
  <2> HIDE DEF c, s, x
  <2>5. OneRequestPerKey'
    BY <2>1, <2>3, <2>4 DEF Inv, OneRequestPerKey
  <2>6. \A y \in accepted' :
          y.scope.table = "operation" /\ Stands(y.scope, y.fingerprint, linked, row)'
    BY <1>1, <2>1, <2>3, <2>4 DEF Inv, Answered, Stands
  <2>7. ASSUME saved # None
        PROVE  /\ saved'.accepted \subseteq accepted'
               /\ \A y \in saved'.accepted : Stands(y.scope, y.fingerprint, saved.linked, saved.row)'
               /\ \A y \in accepted' : saved'.row[y.scope] # None =>
                    saved'.row[y.scope].fingerprint = y.fingerprint
               /\ \A t \in Scopes : t.table = "operation" /\ saved'.row[t] # None =>
                    Stands(t, saved.row[t].fingerprint, linked, row)'
    <3>1. /\ saved.accepted \subseteq accepted
          /\ \A y \in saved.accepted : Stands(y.scope, y.fingerprint, saved.linked, saved.row)
          /\ \A y \in accepted : saved.row[y.scope] # None =>
               saved.row[y.scope].fingerprint = y.fingerprint
          /\ \A t \in Scopes : t.table = "operation" /\ saved.row[t] # None =>
               Stands(t, saved.row[t].fingerprint, linked, row)
      BY <2>7 DEF Inv, Answered
    <3>2. saved'.accepted \subseteq accepted'
      BY <2>3, <2>7, <3>1
    <3>3. \A y \in saved'.accepted : Stands(y.scope, y.fingerprint, saved.linked, saved.row)'
      BY <1>1, <2>1, <2>2, <2>3, <2>4, <2>7, <3>1 DEF Stands
    <3>4. \A y \in accepted' : saved'.row[y.scope] # None =>
            saved'.row[y.scope].fingerprint = y.fingerprint
      BY <2>1, <2>2, <2>3, <2>4, <2>7, <3>1
    <3>5. \A t \in Scopes : t.table = "operation" /\ saved'.row[t] # None =>
            Stands(t, saved.row[t].fingerprint, linked, row)'
      BY <1>1, <2>2, <2>7, <3>1 DEF Stands
    <3> QED BY <3>2, <3>3, <3>4, <3>5
  <2>8. Answered'
    BY <2>2, <2>6, <2>7 DEF Answered
  <2> QED BY <2>5, <2>8
<1> QED BY <1>1, <1>2, <1>3

LEMMA AnswersKept == Inv /\ [Next]_vars => Answered' /\ OneRequestPerKey'
<1> DEFINE Goal == Answered' /\ OneRequestPerKey'
<1> SUFFICES ASSUME Inv, [Next]_vars PROVE Goal
  OBVIOUS
<1>0. Basics /\ TypeOK /\ CallsFit /\ Answered /\ OneRequestPerKey
  BY DEF Inv, Basics
<1>1. ASSUME UNCHANGED <<durable, linked, row, accepted, saved>> PROVE Goal
  BY <1>0, <1>1 DEF Answered, OneRequestPerKey, Stands
<1>2. ASSUME NEW p \in Processes, NEW v,
             Open(p) \/ Migrate(p, v) \/ OpenFails(p) \/ Opened(p) \/ Throw(p)
      PROVE  Goal
  BY <1>1, <1>2, Opening DEF data, transaction, Throw
<1>3. ASSUME NEW p \in Processes, BeginTransaction(p) PROVE Goal
  <2>1. saved' = Current /\ UNCHANGED <<durable, linked, row, accepted>>
    BY <1>3 DEF BeginTransaction, data
  <2>2. OneRequestPerKey'
    BY <1>0, <2>1 DEF OneRequestPerKey
  <2>3. /\ saved'.linked = linked /\ saved'.row = row /\ saved'.accepted = accepted
    BY <2>1 DEF Current
  <2>4. \A x \in accepted :
          /\ x.scope.table = "operation" /\ Stands(x.scope, x.fingerprint, linked, row)
          /\ row[x.scope] # None => row[x.scope].fingerprint = x.fingerprint
    BY <1>0 DEF Answered, Stands
  <2>5. \A s \in Scopes : row[s] # None => Stands(s, row[s].fingerprint, linked, row)
    BY DEF Stands
  <2>6. Answered'
    BY <2>1, <2>3, <2>4, <2>5 DEF Answered, Stands
  <2> QED BY <2>2, <2>6
<1>4. ASSUME NEW p \in Processes, Commit(p) PROVE Goal
  <2>1. saved' = None /\ UNCHANGED <<durable, linked, row, accepted>>
    BY <1>4 DEF Commit, data
  <2> QED BY <1>0, <2>1 DEF Answered, OneRequestPerKey, Stands
<1>5. ASSUME NEW p \in Processes, Rollback(p) \/ Crash(p) PROVE Goal
  <2>1. /\ durable' = durable
        /\ \/ saved # None /\ Restore
           \/ UNCHANGED <<linked, row, accepted, saved>>
           \/ accepted' = {} /\ saved' = None
    BY <1>0, <1>5, Ending
  <2>2. CASE saved # None /\ Restore
    <3>1. /\ linked' = saved.linked /\ row' = saved.row /\ accepted' = saved.accepted
          /\ saved' = None
      BY <2>2 DEF Restore
    <3>2. /\ saved.accepted \subseteq accepted
          /\ \A x \in accepted : x.scope.table = "operation"
          /\ \A x \in saved.accepted : Stands(x.scope, x.fingerprint, saved.linked, saved.row)
      BY <1>0, <2>2 DEF Answered
    <3>3. Answered'
      BY <2>1, <3>1, <3>2 DEF Answered, Stands
    <3> QED BY <1>0, <3>1, <3>2, <3>3 DEF OneRequestPerKey
  <2>3. CASE accepted' = {} /\ saved' = None
    BY <2>3 DEF Answered, OneRequestPerKey
  <2> QED BY <1>1, <2>1, <2>2, <2>3
<1>6. ASSUME NEW p \in Processes, Start(p) PROVE Goal
  BY <1>0, <1>1, <1>6, Starting DEF transaction
<1>7. ASSUME NEW p \in Processes, Look(p) \/ ReadBack(p) PROVE Goal
  BY <1>7, AnswersAgree
<1>8. ASSUME NEW p \in Processes, Write(p) PROVE Goal
  <2>1. accepted' = accepted
    BY <1>0, <1>8, Writing
  <2> QED BY <1>0, <1>8, <2>1, AnsweredWritten DEF OneRequestPerKey
<1>9. CASE UNCHANGED vars
  BY <1>1, <1>9 DEF vars, data, transaction
<1> HIDE DEF Goal
<1>10. Versions # {}
  BY DEF Versions
<1> QED
  BY <1>2, <1>3, <1>4, <1>5, <1>6, <1>7, <1>8, <1>9, <1>10 DEF Next

\* What begin has inserted stands until it has read it back.
LEMMA InsertedKept == Inv /\ [Next]_vars => Inserted'
<1> SUFFICES ASSUME Inv, [Next]_vars PROVE Inserted'
  OBVIOUS
<1>0. Basics /\ TypeOK /\ CallsFit /\ InTransaction /\ RowsFit(row)
  BY DEF Inv, Basics
<1> DEFINE Reads(q) == call[q] # None /\ call[q].call.kind = "begin" /\ call[q].step = "read"
           Shown(q, links, rows) == Stands(ScopeOf(call[q].call), call[q].call.arg, links, rows)
<1>1. \A q \in Processes : Reads(q) =>
        /\ Shown(q, linked, row)
        /\ holder \notin {None, q} => Shown(q, saved.linked, saved.row)
  BY DEF Inv, Inserted, InCall
<1>2. ASSUME durable' = durable,
             \A q \in Processes : Reads(q)' =>
               /\ Reads(q) /\ call'[q].call = call[q].call
               /\ Shown(q, linked', row')
               /\ holder' \notin {None, q} => Shown(q, saved'.linked, saved'.row)
      PROVE  Inserted'
  <2>1. \A q \in Processes : Reads(q)' =>
          /\ Stands(ScopeOf(call'[q].call), call'[q].call.arg, linked', row')
          /\ holder' \notin {None, q} =>
               Stands(ScopeOf(call'[q].call), call'[q].call.arg, saved'.linked, saved'.row)
    BY <1>2
  <2> QED BY <1>2, <2>1 DEF Inserted, InCall, Stands, ScopeOf
<1>3. ASSUME UNCHANGED <<durable, linked, row, holder>>,
             holder # None => saved'.linked = saved.linked /\ saved'.row = saved.row,
             \A q \in Processes : Reads(q)' => call'[q] = call[q]
      PROVE  Inserted'
  BY <1>1, <1>2, <1>3
<1>4. ASSUME NEW p \in Processes, NEW v,
             Open(p) \/ Migrate(p, v) \/ OpenFails(p) \/ Opened(p)
      PROVE  Inserted'
  BY <1>3, <1>4, Opening DEF data, transaction
<1>5. ASSUME NEW p \in Processes, BeginTransaction(p) PROVE Inserted'
  <2>1. /\ saved' = Current /\ holder' = p /\ UNCHANGED <<durable, linked, row, call>>
    BY <1>5 DEF BeginTransaction, data
  <2>2. saved'.linked = linked /\ saved'.row = row
    BY <2>1 DEF Current
  <2> QED BY <1>1, <1>2, <2>1, <2>2
<1>6. ASSUME NEW p \in Processes, Commit(p) PROVE Inserted'
  <2>1. holder' = None /\ UNCHANGED <<durable, linked, row, call>>
    BY <1>6 DEF Commit, data
  <2> QED BY <1>1, <1>2, <2>1
<1>7. ASSUME NEW p \in Processes, Rollback(p) \/ Crash(p) PROVE Inserted'
  <2>1. /\ durable' = durable /\ call'[p] = None
        /\ \A q \in Processes : q # p => call'[q] = call[q]
        /\ \/ holder = p /\ saved # None /\ Restore
           \/ UNCHANGED <<linked, row, accepted, holder, saved>> /\ holder # p
           \/ /\ ~durable /\ accepted' = {} /\ saved' = None /\ holder' = None
              /\ \A q \in Processes : q # p => call[q] = None
    BY <1>0, <1>7, Ending
  <2>2. CASE holder = p /\ saved # None /\ Restore
    <3>1. linked' = saved.linked /\ row' = saved.row /\ holder' = None
      BY <2>2 DEF Restore
    <3>2. \A q \in Processes : Reads(q)' => q # p /\ call'[q] = call[q] /\ Reads(q)
      BY <2>1
    <3>3. holder # None
      BY <2>2, InstanceAssumption
    <3>4. \A q \in Processes : Reads(q)' => Shown(q, linked', row')
      BY <1>1, <2>2, <3>1, <3>2, <3>3
    <3> HIDE DEF Shown
    <3> QED BY <1>2, <2>1, <3>1, <3>2, <3>4
  <2>3. CASE UNCHANGED <<linked, row, accepted, holder, saved>>
    BY <1>3, <2>1, <2>3
  <2>4. CASE \A q \in Processes : q # p => call[q] = None
    BY <1>2, <2>1, <2>4
  <2> QED BY <2>1, <2>2, <2>3, <2>4
<1>8. ASSUME NEW p \in Processes, Start(p) PROVE Inserted'
  <2>1. PICK c \in Calls, step \in {"look", "write"} :
          /\ call' = [call EXCEPT ![p] = [call |-> c, step |-> step]]
          /\ UNCHANGED <<durable, linked, row, transaction>>
    BY <1>0, <1>8, Starting
  <2>2. /\ call'[p] = [call |-> c, step |-> step]
        /\ \A q \in Processes : q # p => call'[q] = call[q]
    BY <1>0, <2>1 DEF TypeOK
  <2> QED BY <1>3, <2>1, <2>2 DEF transaction
<1>9. ASSUME NEW p \in Processes, Look(p) \/ ReadBack(p) PROVE Inserted'
  <2> DEFINE c == call[p].call
  <2>1. /\ call[p] # None /\ c \in Calls /\ UNCHANGED <<durable, linked, row, holder>>
        /\ \/ call' = [call EXCEPT ![p] = [call |-> c, step |-> "write"]]
           \/ call' = [call EXCEPT ![p] = None]
        /\ saved' = saved \/ (c.kind = "begin" /\ Accept(p, c))
    BY <1>0, <1>9, Reading
  <2>2. /\ call'[p] \in {None, [call |-> c, step |-> "write"]}
        /\ \A q \in Processes : q # p => call'[q] = call[q]
    BY <1>0, <2>1 DEF TypeOK
  <2>3. holder # None => saved'.linked = saved.linked /\ saved'.row = saved.row
    <3>1. CASE c.kind = "begin" /\ Accept(p, c)
      <4>1. c.arg \in Fingerprints
        BY <1>0, <2>1, <3>1 DEF CallsFit, InCall
      <4> QED BY <1>0, <2>1, <3>1, <4>1, AcceptTypes DEF InTransaction
    <3> QED BY <2>1, <3>1
  <2> QED BY <1>3, <2>1, <2>2, <2>3
<1>10. ASSUME NEW p \in Processes, Write(p) PROVE Inserted'
  <2> DEFINE c == call[p].call
  <2>1. /\ call[p] # None /\ c \in Calls /\ holder \in {None, p}
        /\ UNCHANGED <<durable, holder, saved>>
        /\ \/ call' = [call EXCEPT ![p].step = "read"]
           \/ call' = [call EXCEPT ![p] = None]
    BY <1>0, <1>10, Writing
  <2>2. /\ \A q \in Processes : q # p => call'[q] = call[q]
        /\ call'[p] # None => call'[p].call = c
    BY <1>0, <2>1, PendingTypes DEF TypeOK, Pending
  <2>3. ASSUME NEW q \in Processes, q # p, Reads(q)
        PROVE  Shown(q, linked', row')
    <3> DEFINE s == ScopeOf(call[q].call)
    <3>1. s \in Scopes /\ s.table = "operation" /\ s.account = AccountOf(q)
      BY <1>0, <2>3, PendingTypes, ScopeTypes, TableCases DEF AccountOf
    <3>2. durable /\ Creating(p) => s.account # AccountOf(p)
      BY <2>3, <3>1 DEF Inv, OwnersFixed, Fresh, InCall, Puts
    <3>3. Stands(s, call[q].call.arg, linked, row)
      BY <1>1, <2>3
    <3> QED BY <1>0, <1>10, <3>1, <3>2, <3>3, StandsKept
  <2>4. ASSUME Reads(p)' PROVE Stands(ScopeOf(c), c.arg, linked', row')
    <3>1. c.kind = "begin"
      BY <2>2, <2>4
    <3>2. PutRow(p)
      BY <1>10, <3>1 DEF Write, InsertAccount, DeleteAccount, UpdateOperation, DeleteRow
    <3>3. row'[ScopeOf(c)] # None /\ row'[ScopeOf(c)].fingerprint = c.arg
      BY <1>0, <3>1, <3>2, InsertedRow
    <3> QED BY <3>3 DEF Stands
  <2>5. \A q \in Processes : Reads(q)' =>
          /\ Stands(ScopeOf(call'[q].call), call'[q].call.arg, linked', row')
          /\ holder \notin {None, q} =>
               Stands(ScopeOf(call'[q].call), call'[q].call.arg, saved.linked, saved.row)
    BY <1>1, <2>1, <2>2, <2>3, <2>4
  <2> QED BY <2>1, <2>5 DEF Inserted, InCall, Stands, ScopeOf
<1>11. ASSUME NEW p \in Processes, Throw(p) PROVE Inserted'
  <2>1. /\ call'[p] = None /\ \A q \in Processes : q # p => call'[q] = call[q]
        /\ UNCHANGED <<durable, linked, row, holder, saved>>
    BY <1>0, <1>11 DEF Throw, Return, TypeOK, data, transaction
  <2> QED BY <1>3, <2>1
<1>12. CASE UNCHANGED vars
  BY <1>3, <1>12 DEF vars, data, transaction
<1>13. Versions # {}
  BY DEF Versions
<1> HIDE DEF Reads, Shown
<1> QED
  BY <1>4, <1>5, <1>6, <1>7, <1>8, <1>9, <1>10, <1>11, <1>12, <1>13 DEF Next

-----------------------------------------------------------------------------
(* The theorems *)

LEMMA Initially == Init => Inv
<1> SUFFICES ASSUME Init PROVE Inv
  OBVIOUS
<1>0. TypeOK
  BY TypesHoldAtFirst
<1>1. /\ \A p \in Processes : call[p] = None /\ process[p] = Down
      /\ \A s \in Scopes : row[s] = None
      /\ \A a \in Accounts : linked[a] = None
      /\ holder = None /\ saved = None /\ accepted = {}
  BY DEF Init
<1>2. recorded \subseteq tables
  BY DEF Init, Schemas, Versions
<1>3. CallsFit /\ RowsFit(row) /\ InTransaction /\ OneProcess /\ Migrating
  BY <1>1 DEF CallsFit, RowsFit, InTransaction, OneProcess, Migrating, Down
<1>4. OwnersFixed
  BY <1>1 DEF OwnersFixed, OwnersNow, OwnersSaved, Fresh, Owns, InCall, Creating
<1>5. Answered /\ Inserted /\ OneRequestPerKey
  BY <1>1 DEF Answered, Inserted, OneRequestPerKey, InCall
<1> QED BY <1>0, <1>2, <1>3, <1>4, <1>5 DEF Inv, Basics

LEMMA Inductive == Spec => []Inv
<1>1. Init => Inv
  BY Initially
<1>2. Inv /\ [Next]_vars => Inv'
  BY BasicsKept, OwnersFixedKept, AnswersKept, InsertedKept DEF Inv
<1> QED BY <1>1, <1>2, PTL DEF Spec

\* The state is always of its types, whoever runs, fails or ends.
THEOREM TypeCorrect == Spec => []TypeOK
<1>1. Inv => TypeOK
  BY DEF Inv, Basics
<1> QED BY <1>1, Inductive, PTL

\* Rows of an account exist with the account and for its owner: the foreign keys of the
\* schema, with the checks the operations make one statement earlier, are enough.
THEOREM RowsOwned == Spec => []RowsAreOwned
<1>1. Inv => RowsAreOwned
  BY DEF Inv, OwnersFixed, OwnersNow, Owns, RowsAreOwned
<1> QED BY <1>1, Inductive, PTL

\* No two requests are answered for under one idempotency key, although begin looks in
\* one statement, inserts in another and reads back in a third.
THEOREM OneRequest == Spec => []OneRequestPerKey
<1>1. Inv => OneRequestPerKey
  BY DEF Inv
<1> QED BY <1>1, Inductive, PTL

\* However processes migrate, fail and try again, what is recorded has been applied, and
\* a process that serves has every table.
THEOREM SchemaComplete == Spec => []SchemaIsComplete
<1>1. Inv => SchemaIsComplete
  BY DEF Inv, Basics, Migrating, SchemaIsComplete
<1> QED BY <1>1, Inductive, PTL

\* Only the transaction's own commit shows others what it has written.
LEMMA Hidden ==
  ASSUME Basics, [Next]_vars, NEW p \in Processes, holder = p, ~Commit(p)
  PROVE  Seen'.linked = Seen.linked /\ Seen'.row = Seen.row
<1> DEFINE Goal == Seen'.linked = Seen.linked /\ Seen'.row = Seen.row
<1> SUFFICES Goal
  OBVIOUS
<1>0. TypeOK /\ CallsFit /\ InTransaction
  BY DEF Basics
<1>1. holder # None /\ saved # None /\ durable /\ Seen = saved
  BY <1>0, InstanceAssumption DEF InTransaction, Seen
<1>2. ASSUME holder' = holder, saved'.linked = saved.linked, saved'.row = saved.row
      PROVE  Goal
  BY <1>1, <1>2 DEF Seen
<1>3. ASSUME NEW q \in Processes, NEW v,
             Open(q) \/ Migrate(q, v) \/ OpenFails(q) \/ Opened(q) \/ Throw(q)
      PROVE  Goal
  BY <1>2, <1>3, Opening DEF Throw, transaction
<1>4. ASSUME NEW q \in Processes, BeginTransaction(q) \/ Commit(q) PROVE Goal
  BY <1>1, <1>4 DEF BeginTransaction, Commit
<1>5. ASSUME NEW q \in Processes, Rollback(q) \/ Crash(q) PROVE Goal
  <2>1. \/ Restore
        \/ UNCHANGED <<holder, saved>>
    BY <1>1, <1>5, Ending
  <2>2. ASSUME Restore PROVE Goal
    <3>1. holder' = None /\ linked' = saved.linked /\ row' = saved.row
      BY <2>2 DEF Restore
    <3> QED BY <1>1, <3>1 DEF Seen, Current
  <2> QED BY <1>2, <2>1, <2>2
<1>6. ASSUME NEW q \in Processes, Look(q) \/ ReadBack(q) PROVE Goal
  <2>1. /\ call[q] # None /\ call[q].call \in Calls /\ UNCHANGED <<durable, holder>>
        /\ \/ saved' = saved
           \/ call[q].call.kind = "begin" /\ Accept(q, call[q].call)
    BY <1>0, <1>6, Reading
  <2>2. saved'.linked = saved.linked /\ saved'.row = saved.row
    <3>1. CASE call[q].call.kind = "begin" /\ Accept(q, call[q].call)
      <4>1. call[q].call.arg \in Fingerprints
        BY <1>0, <2>1, <3>1 DEF CallsFit, InCall
      <4> QED BY <1>0, <1>1, <2>1, <3>1, <4>1, AcceptTypes DEF InTransaction
    <3> QED BY <2>1, <3>1
  <2> QED BY <1>2, <2>1, <2>2
<1>7. ASSUME NEW q \in Processes, Start(q) \/ Write(q) PROVE Goal
  <2>1. UNCHANGED <<holder, saved>>
    BY <1>0, <1>7, Starting, Writing DEF transaction
  <2> QED BY <1>2, <2>1
<1>8. CASE UNCHANGED vars
  BY <1>2, <1>8 DEF vars, transaction
<1>9. Versions # {}
  BY DEF Versions
<1> HIDE DEF Goal
<1> QED
  BY <1>3, <1>4, <1>5, <1>6, <1>7, <1>8, <1>9 DEF Next

\* Others see nothing of a transaction that does not commit, for any number of writes
\* and wherever it throws or its process ends.
THEOREM Atomic == Spec => TransactionsAreAtomic
<1>1. Inv /\ [Next]_vars =>
        [\A p \in Processes : holder = p /\ ~Commit(p) =>
           Seen'.linked = Seen.linked /\ Seen'.row = Seen.row]_vars
  BY Hidden DEF Inv
<1> QED BY <1>1, Inductive, PTL DEF Spec, TransactionsAreAtomic

=============================================================================
