---------------------- MODULE AttachmentDeliveryProofs ----------------------
(***************************************************************************)
(* Proofs about AttachmentDelivery for every number of users, accounts,    *)
(* objects and concurrent deletions, any clock bound and any disturbance.  *)
(***************************************************************************)
EXTENDS AttachmentDelivery, TLAPS

Fetched == {"scanning", "storing", "persisting", "recording", "done"}
ScanPassed == Fetched \ {"scanning"}
Stored == ScanPassed \ {"storing"}

\* The retrieval is over, or only its rollback is left.
Settled == {"undoing", "done", "failed", "lost"}

\* What a call has from its request on, from its scan on, from its storing on.
Asked(o) == request[o] \in Requests /\ request[o].userId = Owner[request[o].accountId]
Passed(o) == cleared[o] \in Clearances /\ cleared[o].scan.digest = request[o].content
Known(o) == Asked(o) /\ Passed(o) /\ stored[o] = request[o].content

\* A call past the ownership check knows its owner and content; one past the
\* scan also holds clean evidence for that content.
CallInv ==
  \A o \in Objects :
    /\ pc[o] \in Fetched => Asked(o)
    /\ pc[o] \in ScanPassed => Passed(o)
    /\ pc[o] \in Stored => stored[o] = request[o].content

\* A retrieval has no file before it has written it, has it in place until it records the
\* object, and an intact sidecar never disagrees with the evidence of its call.
FileInv ==
  \A o \in Objects :
    /\ pc[o] \in {"idle", "scanning", "storing"} => bytes[o] = None
    /\ pc[o] \in {"idle", "scanning", "storing", "persisting"} => sidecar[o] = None
    /\ pc[o] \in {"persisting", "recording"} => bytes[o] = request[o].content
    /\ pc[o] = "recording" => sidecar[o] # None
    /\ sidecar[o] # None /\ sidecar[o].intact => sidecar[o].scan = cleared[o].scan

\* Rows and remembered scans belong to settled calls and repeat what they knew.
RecordInv ==
  \A o \in Objects :
    /\ row[o] # None =>
         /\ pc[o] \in Settled /\ Known(o)
         /\ row[o].userId = request[o].userId /\ row[o].accountId = request[o].accountId
         /\ row[o].sha256 = stored[o]
    /\ memory[o] # None => pc[o] \in Settled /\ memory[o] = cleared[o].scan

\* Deletions concern settled calls only, and a file a deletion has crossed off
\* without a failure is gone.
DeletionInv ==
  /\ \A o \in attempted : pc[o] \in Settled /\ cleared[o] \in Clearances
  /\ \A w \in Workers : worker[w].queue \subseteq attempted
  /\ \A w \in Workers, o \in Objects :
       Current(w, o) /\ ~worker[w].failed =>
         /\ "bytes" \notin worker[w].rm => bytes[o] = None
         /\ "sidecar" \notin worker[w].rm => sidecar[o] = None

IInv == TypeOK /\ CallInv /\ FileInv /\ RecordInv /\ DeletionInv /\ RecordsAreBacked

-----------------------------------------------------------------------------

\* Every step keeps the types, given what the calls are known to hold.
LEMMA TypeStep == TypeOK /\ CallInv /\ [Next]_vars => TypeOK'
<1> SUFFICES ASSUME TypeOK, CallInv, [Next]_vars PROVE TypeOK'
  OBVIOUS
<1> USE InstanceAssumption DEF TypeOK, vars, call, files, state, Pcs, Files
<1>1. ASSUME NEW o \in Objects, NEW u \in Users, NEW a \in Accounts, NEW c \in Contents,
             Retrieve(o, u, a, c)
      PROVE  TypeOK'
  BY <1>1 DEF Retrieve, Requests
<1>2. ASSUME NEW o \in Objects, NEW env \in Envelopes, NEW ttl \in Ttls,
             ScanAccepted(o, env, ttl)
      PROVE  TypeOK'
  BY <1>2 DEF ScanAccepted, ScanOf, ExpiryFor, Envelopes, Clearances, Scans, Never
<1>3. ASSUME NEW o \in Objects, ScanRejected(o) PROVE TypeOK'
  BY <1>3 DEF ScanRejected, Fail, Goto
<1>4. ASSUME NEW o \in Objects, NEW c \in Contents,
             StoreBytes(o, c)
      PROVE  TypeOK'
  BY <1>4 DEF StoreBytes, FailAfterUndoing
<1>5. ASSUME NEW o \in Objects, StoreFails(o) PROVE TypeOK'
  BY <1>5 DEF StoreFails, Fail, Goto
<1>6. ASSUME NEW o \in Objects, PersistSidecar(o) PROVE TypeOK'
  BY <1>6 DEF PersistSidecar, Goto, CallInv, Passed, Fetched, ScanPassed, Clearances, Sidecars
<1>7. ASSUME NEW o \in Objects, PersistFails(o) PROVE TypeOK'
  BY <1>7 DEF PersistFails, FailAfterUndoing
<1>8. ASSUME NEW o \in Objects, Record(o) PROVE TypeOK'
  BY <1>8 DEF Record, Recording, Goto, RowFor, CallInv, Asked, Passed, Fetched, ScanPassed, Stored,
              Requests, Clearances, Rows, Never
<1>9. ASSUME NEW o \in Objects, RecordFails(o) PROVE TypeOK'
  BY <1>9 DEF RecordFails, FailAfterUndoing
<1>9a. ASSUME NEW o \in Objects, ExpiryFails(o) PROVE TypeOK'
  BY <1>9a DEF ExpiryFails, Fail, Goto
<1>9b. ASSUME NEW o \in Objects, ReadBackFails(o) PROVE TypeOK'
  BY <1>9b DEF ReadBackFails, FailAfterUndoing, Recording, RowFor, CallInv, Asked, Passed,
               Fetched, ScanPassed, Stored, Requests, Clearances, Rows, Never
<1>10. ASSUME NEW o \in Objects, NEW f \in Files, Undo(o, f) PROVE TypeOK'
  BY <1>10 DEF Undo, Erase
<1>11. ASSUME NEW u \in Users, NEW o \in Objects,
             AuthorizeDownload(u, o)
      PROVE  TypeOK'
  BY <1>11 DEF AuthorizeDownload, Visible, KnownScan, DurableScan, Sidecars, Rows
<1>12. ASSUME NEW w \in Workers, NEW u \in Users, NEW o \in Objects,
             Remove(w, u, o)
      PROVE  TypeOK'
  BY <1>12 DEF Remove, Begin, Job, Jobs
<1>13. ASSUME NEW w \in Workers, CleanupExpired(w) PROVE TypeOK'
  BY <1>13 DEF CleanupExpired, Begin, Listed, ExpiredObjects, Job, Jobs
<1>14. ASSUME NEW w \in Workers, NEW o \in Objects, NEW f \in Files,
             DeleteFile(w, o, f)
      PROVE  TypeOK'
  <2>1. /\ [worker[w] EXCEPT !.rm = @ \ {f}] \in Jobs
        /\ [queue |-> worker[w].queue, rm |-> worker[w].rm \ {f}, failed |-> TRUE] \in Jobs
    BY DEF Jobs
  <2>2. worker' \in [Workers -> Jobs]
    BY <1>14, <2>1 DEF DeleteFile, Erase
  <2>. QED
    BY <1>14, <2>2 DEF DeleteFile, Erase
<1>15. ASSUME NEW w \in Workers, NEW o \in Objects, Abort(w, o) PROVE TypeOK'
  BY <1>15 DEF Abort, IdleJob, Jobs
<1>16. ASSUME NEW w \in Workers, NEW o \in Objects, Forget(w, o) PROVE TypeOK'
  BY <1>16 DEF Forget, IdleJob, Job, Jobs
<1>17. ASSUME Tick PROVE TypeOK'
  BY <1>17 DEF Tick
<1>18. ASSUME NEW a \in Accounts, RemoveAccount(a) PROVE TypeOK'
  BY <1>18 DEF RemoveAccount
<1>19. ASSUME NEW o \in Objects, Tamper(o) PROVE TypeOK'
  BY <1>19 DEF Tamper, Sidecars, Scans, Times
<1>20. ASSUME Restart PROVE TypeOK'
  BY <1>20 DEF Restart, IdleJob, Jobs
<1>21. CASE UNCHANGED vars
  BY <1>21 DEF vars
<1>. QED
  BY <1>1, <1>2, <1>3, <1>4, <1>5, <1>6, <1>7, <1>8, <1>9, <1>9a, <1>9b, <1>10, <1>11,
     <1>12, <1>13, <1>14, <1>15, <1>16, <1>17, <1>18, <1>19, <1>20, <1>21
  DEF Next, Retrieval, Deletion

\* CallInv is kept: what a call knows is fixed before the step that relies on it.
LEMMA CallStep == IInv /\ [Next]_vars => CallInv'
<1> SUFFICES ASSUME IInv, [Next]_vars PROVE CallInv'
  OBVIOUS
<1> USE InstanceAssumption
    DEF IInv, TypeOK, CallInv, vars, call, files, state, Asked, Passed, Fetched, ScanPassed,
        Stored, Fail, Goto, FailAfterUndoing
<1>1. ASSUME NEW o \in Objects, NEW u \in Users, NEW a \in Accounts, NEW c \in Contents,
             Retrieve(o, u, a, c)
      PROVE  CallInv'
  BY <1>1 DEF Retrieve, Requests
<1>2. ASSUME NEW o \in Objects, NEW env \in Envelopes, NEW ttl \in Ttls,
             ScanAccepted(o, env, ttl)
      PROVE  CallInv'
  BY <1>2 DEF ScanAccepted, CurrentCleanScan, ScanOf, ExpiryFor, Envelopes, Clearances, Scans,
              Never
<1>3. ASSUME NEW o \in Objects,
             ScanRejected(o)
      PROVE  CallInv'
  BY <1>3 DEF ScanRejected
<1>4. ASSUME NEW o \in Objects, NEW c \in Contents,
             StoreBytes(o, c)
      PROVE  CallInv'
  BY <1>4 DEF StoreBytes
<1>5. ASSUME NEW o \in Objects,
             StoreFails(o)
      PROVE  CallInv'
  BY <1>5 DEF StoreFails
<1>6. ASSUME NEW o \in Objects,
             PersistSidecar(o)
      PROVE  CallInv'
  BY <1>6 DEF PersistSidecar
<1>7. ASSUME NEW o \in Objects,
             PersistFails(o)
      PROVE  CallInv'
  BY <1>7 DEF PersistFails
<1>8. ASSUME NEW o \in Objects,
             Record(o)
      PROVE  CallInv'
  BY <1>8 DEF Record, Recording
<1>9. ASSUME NEW o \in Objects,
             RecordFails(o)
      PROVE  CallInv'
  BY <1>9 DEF RecordFails
<1>9a. ASSUME NEW o \in Objects, ExpiryFails(o) PROVE CallInv'
  BY <1>9a DEF ExpiryFails
<1>9b. ASSUME NEW o \in Objects, ReadBackFails(o) PROVE CallInv'
  BY <1>9b DEF ReadBackFails
<1>10. ASSUME NEW o \in Objects, NEW f \in Files,
             Undo(o, f)
      PROVE  CallInv'
  BY <1>10 DEF Undo, Erase
<1>11. ASSUME Restart PROVE CallInv'
  BY <1>11 DEF Restart, InFlight, Interrupted
<1>12. ASSUME UNCHANGED <<pc, request, cleared, stored>> PROVE CallInv'
  BY <1>12
<1>. QED
  BY <1>1, <1>2, <1>3, <1>4, <1>5, <1>6, <1>7, <1>8, <1>9, <1>9a, <1>9b, <1>10, <1>11, <1>12
  DEF Next, Retrieval, Deletion, AuthorizeDownload, Remove, CleanupExpired, DeleteFile, Abort,
      Forget, Tick, RemoveAccount, Tamper, Begin

\* FileInv is kept: only the retrieval itself writes its files, and only its own
\* rollback deletes them before they are recorded.
LEMMA FileStep == IInv /\ [Next]_vars => FileInv'
<1> SUFFICES ASSUME IInv, [Next]_vars PROVE FileInv'
  OBVIOUS
<1> USE InstanceAssumption
    DEF IInv, TypeOK, CallInv, FileInv, DeletionInv, vars, call, files, state,
        Asked, Passed, Fetched, ScanPassed, Stored, Settled, Fail, Goto, FailAfterUndoing
<1>1. ASSUME NEW o \in Objects, NEW u \in Users, NEW a \in Accounts, NEW c \in Contents,
             Retrieve(o, u, a, c)
      PROVE  FileInv'
  BY <1>1 DEF Retrieve
<1>2. ASSUME NEW o \in Objects, NEW env \in Envelopes, NEW ttl \in Ttls,
             ScanAccepted(o, env, ttl)
      PROVE  FileInv'
  <2>1. /\ pc'[o] = "storing" /\ pc[o] = "scanning"
        /\ UNCHANGED <<request, bytes, sidecar>>
        /\ \A p \in Objects \ {o} : pc'[p] = pc[p] /\ cleared'[p] = cleared[p]
    BY <1>2 DEF ScanAccepted
  <2> HIDE DEF TypeOK, CallInv, DeletionInv
  <2>. QED
    BY <2>1
<1>3. ASSUME NEW o \in Objects,
             ScanRejected(o)
      PROVE  FileInv'
  BY <1>3 DEF ScanRejected
<1>4. ASSUME NEW o \in Objects, NEW c \in Contents,
             StoreBytes(o, c)
      PROVE  FileInv'
  BY <1>4 DEF StoreBytes
<1>5. ASSUME NEW o \in Objects,
             StoreFails(o)
      PROVE  FileInv'
  BY <1>5 DEF StoreFails
<1>6. ASSUME NEW o \in Objects,
             PersistSidecar(o)
      PROVE  FileInv'
  <2>1. [scan |-> cleared[o].scan, intact |-> TRUE] \in Sidecars
    BY <1>6 DEF PersistSidecar, Sidecars, Clearances
  <2>2. /\ pc[o] = "persisting" /\ pc'[o] = "recording" /\ sidecar'[o] # None
        /\ sidecar'[o].scan = cleared[o].scan
        /\ UNCHANGED <<request, cleared, bytes>>
        /\ \A p \in Objects \ {o} : pc'[p] = pc[p] /\ sidecar'[p] = sidecar[p]
    BY <1>6, <2>1 DEF PersistSidecar
  <2> HIDE DEF TypeOK, CallInv, DeletionInv
  <2>. QED
    BY <2>2
<1>7. ASSUME NEW o \in Objects,
             PersistFails(o)
      PROVE  FileInv'
  BY <1>7 DEF PersistFails
<1>8. ASSUME NEW o \in Objects,
             Record(o)
      PROVE  FileInv'
  BY <1>8 DEF Record
<1>9. ASSUME NEW o \in Objects,
             RecordFails(o)
      PROVE  FileInv'
  BY <1>9 DEF RecordFails
<1>9a. ASSUME NEW o \in Objects, ExpiryFails(o) PROVE FileInv'
  BY <1>9a DEF ExpiryFails
<1>9b. ASSUME NEW o \in Objects, ReadBackFails(o) PROVE FileInv'
  BY <1>9b DEF ReadBackFails
<1>10. ASSUME NEW o \in Objects, NEW f \in Files,
             Undo(o, f)
      PROVE  FileInv'
  BY <1>10 DEF Undo, Erase, Files
<1>11. ASSUME NEW w \in Workers, NEW o \in Objects, NEW f \in Files,
             DeleteFile(w, o, f)
      PROVE  FileInv'
  BY <1>11 DEF DeleteFile, Erase, Current, Files
<1>12. ASSUME NEW o \in Objects,
             Tamper(o)
      PROVE  FileInv'
  <2>1. PICK t \in Scans : sidecar' = [sidecar EXCEPT ![o] = [scan |-> t, intact |-> FALSE]]
    <3>1. [sidecar[o].scan EXCEPT !.validUntil = MaxTime + 1] \in Scans
      BY <1>12 DEF Tamper, Sidecars, Scans, Times
    <3>. QED
      BY <1>12, <3>1, Zenon DEF Tamper
  <2>2. UNCHANGED <<pc, request, cleared, bytes>>
    BY <1>12 DEF Tamper
  <2>3. [scan |-> t, intact |-> FALSE] \in Sidecars
    BY DEF Sidecars
  <2>4. /\ sidecar'[o] = [scan |-> t, intact |-> FALSE] /\ sidecar[o] # None
        /\ \A p \in Objects \ {o} : sidecar'[p] = sidecar[p]
    BY <1>12, <2>1 DEF Tamper
  <2>5. sidecar'[o] # None
    BY <2>3, <2>4, InstanceAssumption, Zenon
  <2>6. sidecar'[o].intact = FALSE
    <3>1. [scan |-> t, intact |-> FALSE].intact = FALSE
      OBVIOUS
    <3>. QED
      BY <2>4, <3>1, Zenon
  <2> HIDE DEF TypeOK, CallInv, DeletionInv
  <2>. QED
    BY <2>2, <2>4, <2>5, <2>6
<1>13. ASSUME Restart PROVE FileInv'
  BY <1>13 DEF Restart, InFlight, Interrupted
<1>14. ASSUME UNCHANGED <<pc, request, cleared, bytes, sidecar>> PROVE FileInv'
  BY <1>14
<1>. QED
  BY <1>1, <1>2, <1>3, <1>4, <1>5, <1>6, <1>7, <1>8, <1>9, <1>9a, <1>9b, <1>10, <1>11, <1>12, <1>13, <1>14
  DEF Next, Retrieval, Deletion, AuthorizeDownload, Remove, CleanupExpired, Abort, Forget, Tick,
      RemoveAccount, Begin

\* RecordInv is kept: a row and a remembered scan are written once, from the call.
LEMMA RecordStep == IInv /\ [Next]_vars => RecordInv'
<1> SUFFICES ASSUME IInv, [Next]_vars PROVE RecordInv'
  OBVIOUS
<1> USE InstanceAssumption
    DEF IInv, TypeOK, CallInv, FileInv, RecordInv, vars, call, files, state, RowFor,
        Asked, Passed, Known, Fetched, ScanPassed, Stored, Settled, Fail, Goto, FailAfterUndoing
<1>1. ASSUME NEW o \in Objects, NEW u \in Users, NEW a \in Accounts, NEW c \in Contents,
             Retrieve(o, u, a, c)
      PROVE  RecordInv'
  BY <1>1 DEF Retrieve
<1>2. ASSUME NEW o \in Objects, NEW env \in Envelopes, NEW ttl \in Ttls,
             ScanAccepted(o, env, ttl)
      PROVE  RecordInv'
  <2>1. /\ pc'[o] = "storing" /\ pc[o] = "scanning"
        /\ UNCHANGED <<request, stored, row, memory>>
        /\ \A p \in Objects \ {o} : pc'[p] = pc[p] /\ cleared'[p] = cleared[p]
    BY <1>2 DEF ScanAccepted
  <2>2. row[o] = None /\ memory[o] = None
    BY <2>1
  <2> HIDE DEF TypeOK, CallInv, FileInv, Settled
  <2>. QED
    BY <2>1, <2>2
<1>3. ASSUME NEW o \in Objects,
             ScanRejected(o)
      PROVE  RecordInv'
  BY <1>3 DEF ScanRejected
<1>4. ASSUME NEW o \in Objects, NEW c \in Contents,
             StoreBytes(o, c)
      PROVE  RecordInv'
  BY <1>4 DEF StoreBytes
<1>5. ASSUME NEW o \in Objects,
             StoreFails(o)
      PROVE  RecordInv'
  BY <1>5 DEF StoreFails
<1>6. ASSUME NEW o \in Objects,
             PersistSidecar(o)
      PROVE  RecordInv'
  BY <1>6 DEF PersistSidecar
<1>7. ASSUME NEW o \in Objects,
             PersistFails(o)
      PROVE  RecordInv'
  BY <1>7 DEF PersistFails
<1>8. ASSUME NEW o \in Objects,
             Record(o)
      PROVE  RecordInv'
  BY <1>8 DEF Record, Recording
<1>9. ASSUME NEW o \in Objects,
             RecordFails(o)
      PROVE  RecordInv'
  BY <1>9 DEF RecordFails
<1>9a. ASSUME NEW o \in Objects, ExpiryFails(o) PROVE RecordInv'
  BY <1>9a DEF ExpiryFails
<1>9b. ASSUME NEW o \in Objects, ReadBackFails(o) PROVE RecordInv'
  BY <1>9b DEF ReadBackFails, Recording, Never
<1>10. ASSUME NEW o \in Objects, NEW f \in Files,
             Undo(o, f)
      PROVE  RecordInv'
  BY <1>10 DEF Undo, Erase
<1>11. ASSUME NEW u \in Users, NEW o \in Objects,
             AuthorizeDownload(u, o)
      PROVE  RecordInv'
  BY <1>11 DEF AuthorizeDownload, Visible, KnownScan, DurableScan, Rows
<1>12. ASSUME NEW w \in Workers, NEW o \in Objects,
             Forget(w, o)
      PROVE  RecordInv'
  BY <1>12 DEF Forget
<1>13. ASSUME NEW a \in Accounts,
             RemoveAccount(a)
      PROVE  RecordInv'
  BY <1>13 DEF RemoveAccount
<1>14. ASSUME Restart PROVE RecordInv'
  BY <1>14 DEF Restart, InFlight, Interrupted
<1>15. ASSUME UNCHANGED <<pc, request, cleared, stored, row, memory>> PROVE RecordInv'
  BY <1>15
<1>. QED
  BY <1>1, <1>2, <1>3, <1>4, <1>5, <1>6, <1>7, <1>8, <1>9, <1>9a, <1>9b, <1>10, <1>11, <1>12, <1>13, <1>14,
     <1>15
  DEF Next, Retrieval, Deletion, Remove, CleanupExpired, DeleteFile, Abort, Tick, Tamper, Begin

\* RecordsAreBacked is kept: files of a recorded object go only through a deletion.
LEMMA BackedStep == IInv /\ [Next]_vars => RecordsAreBacked'
<1> SUFFICES ASSUME IInv, [Next]_vars PROVE RecordsAreBacked'
  OBVIOUS
<1> USE InstanceAssumption
    DEF IInv, TypeOK, CallInv, FileInv, RecordInv, DeletionInv, RecordsAreBacked, vars,
        call, files, state, Asked, Passed, Known, Fetched, ScanPassed, Stored, Settled, RowFor, Fail, Goto, FailAfterUndoing
<1>1. ASSUME NEW o \in Objects, NEW u \in Users, NEW a \in Accounts, NEW c \in Contents,
             Retrieve(o, u, a, c)
      PROVE  RecordsAreBacked'
  BY <1>1 DEF Retrieve
<1>2. ASSUME NEW o \in Objects, NEW env \in Envelopes, NEW ttl \in Ttls,
             ScanAccepted(o, env, ttl)
      PROVE  RecordsAreBacked'
  <2>1. /\ pc[o] = "scanning" /\ pc'[o] = "storing" /\ UNCHANGED <<row, bytes, sidecar, attempted>>
        /\ \A p \in Objects \ {o} : pc'[p] = pc[p] /\ cleared'[p] = cleared[p]
    BY <1>2 DEF ScanAccepted
  <2> HIDE DEF TypeOK, CallInv, FileInv, RecordInv, DeletionInv
  <2>. QED
    BY <2>1
<1>3. ASSUME NEW o \in Objects,
             ScanRejected(o)
      PROVE  RecordsAreBacked'
  BY <1>3 DEF ScanRejected
<1>4. ASSUME NEW o \in Objects, NEW c \in Contents,
             StoreBytes(o, c)
      PROVE  RecordsAreBacked'
  BY <1>4 DEF StoreBytes
<1>5. ASSUME NEW o \in Objects,
             StoreFails(o)
      PROVE  RecordsAreBacked'
  BY <1>5 DEF StoreFails
<1>6. ASSUME NEW o \in Objects,
             PersistSidecar(o)
      PROVE  RecordsAreBacked'
  BY <1>6 DEF PersistSidecar
<1>7. ASSUME NEW o \in Objects,
             PersistFails(o)
      PROVE  RecordsAreBacked'
  <2>1. /\ pc'[o] # "done" /\ UNCHANGED <<row, cleared, bytes, sidecar, attempted>>
        /\ \A p \in Objects \ {o} : pc'[p] = pc[p]
    BY <1>7 DEF PersistFails
  <2> HIDE DEF TypeOK, CallInv, FileInv, RecordInv, DeletionInv
  <2>. QED
    BY <2>1
<1>8. ASSUME NEW o \in Objects,
             Record(o)
      PROVE  RecordsAreBacked'
  BY <1>8 DEF Record, Recording
<1>9. ASSUME NEW o \in Objects,
             RecordFails(o)
      PROVE  RecordsAreBacked'
  <2>1. /\ pc'[o] # "done" /\ UNCHANGED <<row, cleared, bytes, sidecar, attempted>>
        /\ \A p \in Objects \ {o} : pc'[p] = pc[p]
    BY <1>9 DEF RecordFails, Recording
  <2> HIDE DEF TypeOK, CallInv, FileInv, RecordInv, DeletionInv
  <2>. QED
    BY <2>1
<1>9a. ASSUME NEW o \in Objects, ExpiryFails(o) PROVE RecordsAreBacked'
  <2>1. /\ pc'[o] # "done" /\ UNCHANGED <<row, cleared, bytes, sidecar, attempted>>
        /\ \A p \in Objects \ {o} : pc'[p] = pc[p]
    BY <1>9a DEF ExpiryFails
  <2> HIDE DEF TypeOK, CallInv, FileInv, RecordInv, DeletionInv
  <2>. QED
    BY <2>1
<1>9b. ASSUME NEW o \in Objects, ReadBackFails(o) PROVE RecordsAreBacked'
  BY <1>9b DEF ReadBackFails
<1>10. ASSUME NEW o \in Objects, NEW f \in Files,
             Undo(o, f)
      PROVE  RecordsAreBacked'
  BY <1>10 DEF Undo, Erase
<1>10a. ASSUME NEW u \in Users, NEW o \in Objects,
               AuthorizeDownload(u, o)
        PROVE  RecordsAreBacked'
  BY <1>10a DEF AuthorizeDownload, Visible, Rows
<1>11. ASSUME NEW w \in Workers, NEW u \in Users, NEW o \in Objects,
             Remove(w, u, o)
      PROVE  RecordsAreBacked'
  BY <1>11 DEF Remove, Begin
<1>12. ASSUME NEW w \in Workers,
             CleanupExpired(w)
      PROVE  RecordsAreBacked'
  BY <1>12 DEF CleanupExpired, Begin
<1>13. ASSUME NEW w \in Workers, NEW o \in Objects, NEW f \in Files,
             DeleteFile(w, o, f)
      PROVE  RecordsAreBacked'
  BY <1>13 DEF DeleteFile, Erase, Current
<1>14. ASSUME NEW w \in Workers, NEW o \in Objects,
             Forget(w, o)
      PROVE  RecordsAreBacked'
  BY <1>14 DEF Forget
<1>15. ASSUME NEW a \in Accounts,
             RemoveAccount(a)
      PROVE  RecordsAreBacked'
  BY <1>15 DEF RemoveAccount
<1>16. ASSUME NEW o \in Objects,
             Tamper(o)
      PROVE  RecordsAreBacked'
  <2>1. [scan |-> [sidecar[o].scan EXCEPT !.validUntil = MaxTime + 1],
         intact |-> FALSE] \in Sidecars
    BY <1>16 DEF Tamper, Sidecars, Scans, Times
  <2>2. /\ sidecar[o] # None
        /\ sidecar' = [sidecar EXCEPT ![o] = [scan |-> [sidecar[o].scan EXCEPT !.validUntil = MaxTime + 1],
                                              intact |-> FALSE]]
        /\ UNCHANGED <<pc, cleared, row, bytes, attempted>>
    BY <1>16 DEF Tamper
  <2>3. sidecar'[o] # None /\ ~sidecar'[o].intact
    <3> DEFINE left == [scan |-> [sidecar[o].scan EXCEPT !.validUntil = MaxTime + 1],
                        intact |-> FALSE]
    <3>1. left # None /\ ~left.intact
      BY <2>1
    <3>2. sidecar'[o] = left
      BY <2>2
    <3>. QED
      BY <3>1, <3>2
  <2>4. \A p \in Objects \ {o} : sidecar'[p] = sidecar[p]
    BY <2>2
  <2> HIDE DEF TypeOK, CallInv, FileInv, RecordInv, DeletionInv
  <2>. QED
    BY <2>2, <2>3, <2>4
<1>17. ASSUME Restart PROVE RecordsAreBacked'
  BY <1>17 DEF Restart, InFlight, Interrupted
<1>18. ASSUME UNCHANGED <<pc, cleared, row, bytes, sidecar, attempted>> PROVE RecordsAreBacked'
  BY <1>18
<1>. QED
  BY <1>1, <1>2, <1>3, <1>4, <1>5, <1>6, <1>7, <1>8, <1>9, <1>9a, <1>9b, <1>10, <1>10a, <1>11, <1>12, <1>13, <1>14,
     <1>15, <1>16, <1>17, <1>18
  DEF Next, Retrieval, Deletion, Abort, Tick, Begin

\* The text of an instant is compared like an integer.
LEMMA KeyOrder ==
  ASSUME NEW t \in Int
  PROVE  IsoKey(t) \in Int
BY InstanceAssumption DEF IsoKey

\* What keeps the deletions' own facts when a step leaves the deletions alone.
LEMMA DeletionFrame ==
  ASSUME IInv, UNCHANGED <<worker, attempted>>,
         \A o \in attempted : /\ pc'[o] \in Settled /\ cleared'[o] = cleared[o]
                              /\ bytes[o] = None => bytes'[o] = None
                              /\ sidecar[o] = None => sidecar'[o] = None
  PROVE  DeletionInv'
BY DEF IInv, TypeOK, Jobs, DeletionInv, Current, Precedes

\* The same when one deletion call moves on to the state j.
LEMMA JobFrame ==
  ASSUME IInv, NEW w \in Workers, NEW j \in Jobs, worker' = [worker EXCEPT ![w] = j],
         UNCHANGED <<pc, cleared>>,
         attempted \subseteq attempted', attempted' \subseteq Objects,
         j.queue \subseteq attempted',
         \A o \in attempted' : pc[o] \in Settled /\ cleared[o] \in Clearances,
         \A o \in Objects :
           /\ bytes[o] = None => bytes'[o] = None
           /\ sidecar[o] = None => sidecar'[o] = None,
         \A o \in Objects :
           Current(w, o)' /\ ~j.failed =>
             /\ "bytes" \notin j.rm => bytes'[o] = None
             /\ "sidecar" \notin j.rm => sidecar'[o] = None
  PROVE  DeletionInv'
<1> USE DEF IInv, TypeOK
<1>1. worker'[w] = j /\ \A v \in Workers \ {w} : worker'[v] = worker[v]
  OBVIOUS
<1>2. \A v \in Workers : worker'[v].queue \subseteq attempted'
  BY <1>1 DEF DeletionInv
<1>3. ASSUME NEW v \in Workers \ {w}, NEW o \in Objects, Current(v, o)'
      PROVE  Current(v, o)
  BY <1>1, <1>3 DEF Current, Precedes
<1>4. ASSUME NEW v \in Workers, NEW o \in Objects, Current(v, o)', ~worker'[v].failed
      PROVE  /\ "bytes" \notin worker'[v].rm => bytes'[o] = None
             /\ "sidecar" \notin worker'[v].rm => sidecar'[o] = None
  <2>1. CASE v = w
    BY <1>1, <1>4, <2>1 DEF Current, Precedes
  <2>2. CASE v # w
    BY <1>1, <1>3, <1>4, <2>2 DEF DeletionInv, Current, Precedes
  <2>. QED
    BY <2>1, <2>2
<1>. QED
  BY <1>2, <1>4 DEF DeletionInv

\* DeletionInv is kept: only recorded objects are deleted, nothing recreates their
\* files, and the first record of a list is unique.
LEMMA DeletionStep == IInv /\ [Next]_vars => DeletionInv'
<1> SUFFICES ASSUME IInv, [Next]_vars PROVE DeletionInv'
  OBVIOUS
<1> USE InstanceAssumption
    DEF IInv, TypeOK, CallInv, FileInv, RecordInv, DeletionInv, vars, call, files, state,
        Asked, Passed, Known, Settled, Fail, Goto, FailAfterUndoing
<1>1. ASSUME NEW o \in Objects, NEW u \in Users, NEW a \in Accounts, NEW c \in Contents,
             Retrieve(o, u, a, c)
      PROVE  DeletionInv'
  BY <1>1, DeletionFrame DEF Retrieve
<1>2. ASSUME NEW o \in Objects, NEW env \in Envelopes, NEW ttl \in Ttls,
             ScanAccepted(o, env, ttl)
      PROVE  DeletionInv'
  BY <1>2, DeletionFrame DEF ScanAccepted
<1>3. ASSUME NEW o \in Objects,
             ScanRejected(o)
      PROVE  DeletionInv'
  BY <1>3, DeletionFrame DEF ScanRejected
<1>4. ASSUME NEW o \in Objects, NEW c \in Contents,
             StoreBytes(o, c)
      PROVE  DeletionInv'
  BY <1>4, DeletionFrame DEF StoreBytes
<1>5. ASSUME NEW o \in Objects,
             StoreFails(o)
      PROVE  DeletionInv'
  BY <1>5, DeletionFrame DEF StoreFails
<1>6. ASSUME NEW o \in Objects,
             PersistSidecar(o)
      PROVE  DeletionInv'
  BY <1>6, DeletionFrame DEF PersistSidecar
<1>7. ASSUME NEW o \in Objects,
             PersistFails(o)
      PROVE  DeletionInv'
  BY <1>7, DeletionFrame DEF PersistFails
<1>8. ASSUME NEW o \in Objects,
             Record(o)
      PROVE  DeletionInv'
  BY <1>8, DeletionFrame DEF Record, Recording
<1>9. ASSUME NEW o \in Objects,
             RecordFails(o)
      PROVE  DeletionInv'
  BY <1>9, DeletionFrame DEF RecordFails, Recording
<1>9a. ASSUME NEW o \in Objects, ExpiryFails(o) PROVE DeletionInv'
  BY <1>9a, DeletionFrame DEF ExpiryFails
<1>9b. ASSUME NEW o \in Objects, ReadBackFails(o) PROVE DeletionInv'
  BY <1>9b, DeletionFrame DEF ReadBackFails, Recording
<1>10. ASSUME NEW o \in Objects, NEW f \in Files,
             Undo(o, f)
      PROVE  DeletionInv'
  BY <1>10, DeletionFrame DEF Undo, Erase
<1>11. ASSUME NEW w \in Workers, NEW u \in Users, NEW o \in Objects,
             Remove(w, u, o)
      PROVE  DeletionInv'
  <2>1. Job({o}) \in Jobs
    BY DEF Job, Jobs, Files
  <2>2. Job({o}).queue = {o} /\ "bytes" \in Job({o}).rm /\ "sidecar" \in Job({o}).rm
    BY DEF Job, Files
  <2>3. /\ worker' = [worker EXCEPT ![w] = Job({o})]
        /\ attempted' = attempted \cup {o} /\ row[o] # None
        /\ UNCHANGED <<pc, cleared, bytes, sidecar>>
    BY <1>11 DEF Remove, Begin
  <2>4. attempted' \subseteq Objects /\ \A p \in attempted' : pc[p] \in Settled /\ cleared[p] \in Clearances
    BY <2>3
  <2>5. \A p \in Objects :
          /\ bytes[p] = None => bytes'[p] = None
          /\ sidecar[p] = None => sidecar'[p] = None
    BY <2>3
  <2>. QED
    BY <2>1, <2>2, <2>3, <2>4, <2>5, JobFrame DEF Current
<1>12. ASSUME NEW w \in Workers,
             CleanupExpired(w)
      PROVE  DeletionInv'
  <2>1. Listed \subseteq Objects /\ \A o \in Listed : row[o] # None
    BY DEF Listed, ExpiredObjects
  <2>2. Job(Listed) \in Jobs
    BY <2>1 DEF Job, Jobs, Files
  <2>3. /\ Job(Listed).queue = Listed
        /\ "bytes" \in Job(Listed).rm /\ "sidecar" \in Job(Listed).rm
    BY DEF Job, Files
  <2>4. /\ worker' = [worker EXCEPT ![w] = Job(Listed)]
        /\ attempted' = attempted \cup Listed
        /\ UNCHANGED <<pc, cleared, bytes, sidecar>>
    BY <1>12 DEF CleanupExpired, Begin
  <2>5. attempted' \subseteq Objects /\ \A p \in attempted' : pc[p] \in Settled /\ cleared[p] \in Clearances
    BY <2>1, <2>4
  <2>6. \A p \in Objects :
          /\ bytes[p] = None => bytes'[p] = None
          /\ sidecar[p] = None => sidecar'[p] = None
    BY <2>4
  <2>. QED
    BY <2>2, <2>3, <2>4, <2>5, <2>6, JobFrame DEF Current
<1>13. ASSUME NEW w \in Workers, NEW o \in Objects, NEW f \in Files,
             DeleteFile(w, o, f)
      PROVE  DeletionInv'
  <2>1. PICK j \in Jobs : /\ worker' = [worker EXCEPT ![w] = j]
                          /\ j.queue = worker[w].queue
                          /\ j.rm = worker[w].rm \ {f}
                          /\ ~j.failed => ~worker[w].failed
                          /\ ~j.failed /\ f = "bytes" => bytes' = [bytes EXCEPT ![o] = None]
                          /\ ~j.failed /\ f = "sidecar" => sidecar' = [sidecar EXCEPT ![o] = None]
    <3> DEFINE r == worker[w].rm \ {f}
               ok == [worker[w] EXCEPT !.rm = r]
               ko == [queue |-> worker[w].queue, rm |-> r, failed |-> TRUE]
    <3>1. ok \in Jobs /\ ok.queue = worker[w].queue /\ ok.rm = r /\ ok.failed = worker[w].failed
      BY DEF Jobs
    <3>2. ko \in Jobs
      BY DEF Jobs
    <3>3. CASE /\ worker' = [worker EXCEPT ![w] = ok]
               /\ f = "bytes" => bytes' = [bytes EXCEPT ![o] = None]
               /\ f = "sidecar" => sidecar' = [sidecar EXCEPT ![o] = None]
      BY <3>1, <3>3
    <3>4. CASE worker' = [worker EXCEPT ![w] = ko]
      BY <3>2, <3>4
    <3>. QED
      BY <1>13, <3>3, <3>4 DEF DeleteFile, Erase
  <2>2. /\ UNCHANGED <<pc, cleared, attempted>>
        /\ \A p \in Objects :
             /\ bytes[p] = None => bytes'[p] = None
             /\ sidecar[p] = None => sidecar'[p] = None
    BY <1>13 DEF DeleteFile, Erase
  <2>3. worker'[w] = j
    BY <2>1
  <2>4. ASSUME NEW p \in Objects, Current(w, p)' PROVE p = o /\ Current(w, o)
    <3>1. Current(w, p)
      BY <2>1, <2>2, <2>3, <2>4 DEF Current, Precedes
    <3>2. cleared[p] \in Clearances /\ cleared[o] \in Clearances
      BY <1>13, <3>1 DEF DeleteFile, Current
    <3>3. cleared[p].expiresAt \in Int /\ cleared[o].expiresAt \in Int
      BY <3>2 DEF Clearances
    <3>4. IsoKey(cleared[p].expiresAt) \in Int /\ IsoKey(cleared[o].expiresAt) \in Int
      BY <3>3, KeyOrder
    <3>5. /\ p \in worker[w].queue /\ o \in worker[w].queue /\ Current(w, o)
          /\ p = o \/ Precedes(o, p)
          /\ p = o \/ Precedes(p, o)
      BY <1>13, <3>1 DEF DeleteFile, Current
    <3>. QED
      BY <3>4, <3>5 DEF Precedes
  <2>5. ASSUME NEW p \in Objects, Current(w, p)', ~j.failed
        PROVE  /\ "bytes" \notin j.rm => bytes'[p] = None
               /\ "sidecar" \notin j.rm => sidecar'[p] = None
    <3>1. p = o /\ Current(w, o) /\ ~worker[w].failed
      BY <2>1, <2>4, <2>5
    <3>2. /\ "bytes" \notin worker[w].rm => bytes[o] = None
          /\ "sidecar" \notin worker[w].rm => sidecar[o] = None
      BY <3>1 DEF Current, Precedes
    <3>. QED
      BY <2>1, <2>2, <2>5, <3>1, <3>2
  <2>6. j.queue \subseteq attempted' /\ \A p \in attempted' : pc[p] \in Settled /\ cleared[p] \in Clearances
    BY <2>1, <2>2
  <2>7. \A p \in Objects : Current(w, p)' /\ ~j.failed =>
           /\ "bytes" \notin j.rm => bytes'[p] = None
           /\ "sidecar" \notin j.rm => sidecar'[p] = None
    BY <2>5
  <2> HIDE DEF TypeOK, CallInv, FileInv, RecordInv, DeletionInv, IInv
  <2>8. UNCHANGED <<pc, cleared>> /\ attempted' = attempted /\ attempted \subseteq Objects
    BY <2>2 DEF IInv, TypeOK
  <2>. QED
    BY <2>1, <2>2, <2>6, <2>7, <2>8, JobFrame
<1>14. ASSUME NEW w \in Workers, NEW o \in Objects,
             Abort(w, o)
      PROVE  DeletionInv'
  <2>1. IdleJob \in Jobs /\ IdleJob.queue = {}
    BY DEF IdleJob, Jobs
  <2>2. \A p \in Objects : ~Current(w, p)'
    BY <1>14, <2>1 DEF Abort, Current
  <2>. QED
    BY <1>14, <2>1, <2>2, JobFrame DEF Abort
<1>15. ASSUME NEW w \in Workers, NEW o \in Objects,
             Forget(w, o)
      PROVE  DeletionInv'
  <2> DEFINE rest == worker[w].queue \ {o}
  <2>1. CASE worker[w].queue = {o}
    <3>1. IdleJob \in Jobs /\ IdleJob.queue = {}
      BY DEF IdleJob, Jobs
    <3>2. worker' = [worker EXCEPT ![w] = IdleJob]
      BY <1>15, <2>1 DEF Forget
    <3>3. \A p \in Objects : ~Current(w, p)'
      BY <3>1, <3>2 DEF Current
    <3>. QED
      BY <1>15, <3>1, <3>2, <3>3, JobFrame DEF Forget
  <2>2. CASE worker[w].queue # {o}
    <3>1. Job(rest) \in Jobs /\ Job(rest).queue = rest /\ Job(rest).rm = Files
      BY DEF Job, Jobs, Files
    <3>2. worker' = [worker EXCEPT ![w] = Job(rest)]
      BY <1>15, <2>2 DEF Forget
    <3>3. UNCHANGED <<pc, cleared, attempted, bytes, sidecar>>
      BY <1>15 DEF Forget
    <3>4. /\ rest \subseteq attempted /\ attempted \subseteq Objects
          /\ \A p \in attempted : pc[p] \in Settled /\ cleared[p] \in Clearances
      OBVIOUS
    <3> HIDE DEF rest, Files, RecordInv, FileInv, CallInv, TypeOK, IInv
    <3>. QED
      BY <3>1, <3>2, <3>3, <3>4, JobFrame DEF Files
  <2>. QED
    BY <2>1, <2>2
<1>16. ASSUME NEW o \in Objects,
             Tamper(o)
      PROVE  DeletionInv'
  BY <1>16, DeletionFrame DEF Tamper
<1>17. ASSUME Restart PROVE DeletionInv'
  BY <1>17 DEF Restart, InFlight, Interrupted, IdleJob, Current
<1>18. ASSUME UNCHANGED <<pc, cleared, bytes, sidecar, worker, attempted>> PROVE DeletionInv'
  BY <1>18, DeletionFrame
<1>. QED
  BY <1>1, <1>2, <1>3, <1>4, <1>5, <1>6, <1>7, <1>8, <1>9, <1>9a, <1>9b, <1>10, <1>11, <1>12, <1>13, <1>14,
     <1>15, <1>16, <1>17, <1>18
  DEF Next, Retrieval, Deletion, AuthorizeDownload, Tick, RemoveAccount, Begin

-----------------------------------------------------------------------------
(* Theorems *)

\* The initial state satisfies the inductive invariant.
LEMMA InitIInv == Init => IInv
<1> SUFFICES ASSUME Init PROVE IInv
  OBVIOUS
<1> USE InstanceAssumption DEF Init
<1>1. TypeOK
  BY DEF TypeOK, Pcs, Files, Jobs, IdleJob
<1>2. CallInv /\ FileInv /\ RecordInv /\ RecordsAreBacked
  BY DEF CallInv, FileInv, RecordInv, RecordsAreBacked, Fetched, ScanPassed, Stored
<1>3. DeletionInv
  BY DEF DeletionInv, IdleJob, Current
<1>. QED
  BY <1>1, <1>2, <1>3 DEF IInv

\* The inductive invariant holds: what every later theorem rests on.
LEMMA Invariance == Spec => []IInv
<1>1. IInv /\ [Next]_vars => IInv'
  <2> SUFFICES ASSUME IInv, [Next]_vars PROVE IInv'
    OBVIOUS
  <2>1. TypeOK'
    BY TypeStep DEF IInv
  <2>. QED
    BY <2>1, CallStep, FileStep, RecordStep, BackedStep, DeletionStep DEF IInv
<1>. QED
  BY <1>1, InitIInv, PTL DEF Spec

\* The state of the service, its disk and its database has the declared types.
THEOREM TypeCorrect == Spec => []TypeOK
<1>1. IInv => TypeOK
  BY DEF IInv
<1>. QED
  BY <1>1, Invariance, PTL

\* A record no deletion has touched always has its scanned bytes and its sidecar
\* on disk, through any sequence of failures, removals and restarts.
THEOREM BackedRecords == Spec => []RecordsAreBacked
<1>1. IInv => RecordsAreBacked
  BY DEF IInv
<1>. QED
  BY <1>1, Invariance, PTL

\* authorizeDownload hands a path out only to the owner, for content the scanner
\* called clean, inside the validity window the scanner gave.
THEOREM CleanDownloads == Spec => []DownloadsAreClean
<1>1. IInv => DownloadsAreClean
  <2> SUFFICES ASSUME IInv, NEW u \in Users, NEW o \in Objects, DownloadAllowed(u, o)
               PROVE  /\ request[o].userId = u /\ Owner[request[o].accountId] = u
                      /\ row[o].sha256 = request[o].content
                      /\ cleared[o].scan.digest = request[o].content
                      /\ cleared[o].scan.observedAt <= clock
                      /\ clock < cleared[o].scan.validUntil
    BY DEF DownloadsAreClean
  <2>1. row[o] # None /\ row[o].userId = u /\ PersistedCleanScan(KnownScan(o), row[o].sha256, clock)
    BY DEF DownloadAllowed, Visible
  <2>2. Known(o) /\ row[o].userId = request[o].userId /\ row[o].sha256 = stored[o]
    BY <2>1 DEF IInv, RecordInv
  <2>3. KnownScan(o) = cleared[o].scan
    BY <2>1, <2>2 DEF IInv, RecordInv, FileInv, KnownScan, DurableScan, PersistedCleanScan
  <2>4. /\ request[o].userId = Owner[request[o].accountId]
        /\ cleared[o].scan.digest = request[o].content
        /\ stored[o] = request[o].content
    BY <2>2 DEF Known, Asked, Passed
  <2>. QED
    BY <2>1, <2>2, <2>3, <2>4 DEF PersistedCleanScan
<1>. QED
  BY <1>1, Invariance, PTL

\* remove and cleanupExpired drop a record only after both of its files.
THEOREM FilesGoFirst == Spec => RecordsOutliveFiles
<1>1. ASSUME IInv, [Next]_vars
      PROVE  [\A o \in Objects :
                row[o] # None /\ row'[o] = None /\ (\E w \in Workers : Deletion(w))
                  => bytes[o] = None /\ sidecar[o] = None]_vars
  <2> SUFFICES ASSUME NEW o \in Objects, row[o] # None, row'[o] = None,
                      NEW w \in Workers, Deletion(w)
               PROVE  bytes[o] = None /\ sidecar[o] = None
    OBVIOUS
  <2>1. PICK p \in Objects : \/ \E f \in Files : DeleteFile(w, p, f)
                             \/ Abort(w, p)
                             \/ Forget(w, p)
    BY DEF Deletion
  <2>2. Forget(w, p)
    <3>1. ASSUME NEW f \in Files, DeleteFile(w, p, f) PROVE FALSE
      BY <3>1 DEF DeleteFile, state
    <3>2. ASSUME Abort(w, p) PROVE FALSE
      BY <3>2 DEF Abort, state
    <3>. QED
      BY <2>1, <3>1, <3>2
  <2>3. p = o
    <3>1. row' = [row EXCEPT ![p] = None]
      BY <2>2 DEF Forget
    <3>2. row \in [Objects -> Rows \cup {None}]
      BY <1>1 DEF IInv, TypeOK
    <3>. QED
      BY <3>1, <3>2
  <2>4. Current(w, o) /\ worker[w].rm = {} /\ ~worker[w].failed
    BY <2>2, <2>3 DEF Forget
  <2>. QED
    BY <1>1, <2>4 DEF IInv, DeletionInv
<1>. QED
  BY <1>1, Invariance, PTL DEF Spec, RecordsOutliveFiles

-----------------------------------------------------------------------------
(* Every file without a record is accounted for *)

\* A file of a settled retrieval is accounted for, or the rollback still has to come to it.
Tidy ==
  \A o \in Objects, f \in Files :
    pc[o] \in Settled /\ OnDisk(o, f) =>
      AnsweredFor(o, f) \/ (pc[o] = "undoing" /\ f \in undo[o])

\* Tidy is kept: a row goes only after its files, with its account or with the process, and
\* a retrieval that fails lists every file it has made or is one of the two exceptions.
LEMMA TidyStep == IInv /\ Tidy /\ [Next]_vars => Tidy'
<1> SUFFICES ASSUME IInv, Tidy, [Next]_vars PROVE Tidy'
  OBVIOUS
<1> USE InstanceAssumption
    DEF IInv, TypeOK, FileInv, Tidy, Settled, OnDisk, AnsweredFor, Representable, vars, call,
        files, state, Fail, Goto, FailAfterUndoing
<1>1. ASSUME NEW o \in Objects, NEW u \in Users, NEW a \in Accounts, NEW c \in Contents,
             Retrieve(o, u, a, c)
      PROVE  Tidy'
  BY <1>1 DEF Retrieve
<1>2. ASSUME NEW o \in Objects, NEW env \in Envelopes, NEW ttl \in Ttls,
             ScanAccepted(o, env, ttl)
      PROVE  Tidy'
  <2>1. /\ pc'[o] = "storing" /\ pc[o] = "scanning"
        /\ UNCHANGED <<request, undo, swallowed, linked, row, bytes, sidecar>>
        /\ \A p \in Objects \ {o} : pc'[p] = pc[p] /\ cleared'[p] = cleared[p]
    BY <1>2 DEF ScanAccepted
  <2> HIDE DEF TypeOK, FileInv
  <2>. QED
    BY <2>1
<1>3. ASSUME NEW o \in Objects, ScanRejected(o) PROVE Tidy'
  <2>1. /\ pc'[o] = "failed" /\ bytes[o] = None /\ sidecar[o] = None
        /\ UNCHANGED <<request, cleared, undo, swallowed, linked, row, bytes, sidecar>>
        /\ \A p \in Objects \ {o} : pc'[p] = pc[p]
    BY <1>3 DEF ScanRejected
  <2> HIDE DEF TypeOK, FileInv
  <2>. QED
    BY <2>1
<1>4. ASSUME NEW o \in Objects, NEW c \in Contents, StoreBytes(o, c) PROVE Tidy'
  BY <1>4 DEF StoreBytes
<1>5. ASSUME NEW o \in Objects, StoreFails(o) PROVE Tidy'
  BY <1>5 DEF StoreFails
<1>6. ASSUME NEW o \in Objects, PersistSidecar(o) PROVE Tidy'
  BY <1>6 DEF PersistSidecar
<1>7. ASSUME NEW o \in Objects, PersistFails(o) PROVE Tidy'
  BY <1>7 DEF PersistFails
<1>8. ASSUME NEW o \in Objects, ExpiryFails(o) PROVE Tidy'
  BY <1>8 DEF ExpiryFails
<1>9. ASSUME NEW o \in Objects, Record(o) \/ ReadBackFails(o) PROVE Tidy'
  <2>1. RowFor(o) # None
    BY <1>9 DEF Record, ReadBackFails, Recording, RowFor, CallInv, Asked, Passed, Fetched,
                ScanPassed, Stored, Requests, Clearances, Rows, Never
  <2>. QED
    BY <1>9, <2>1 DEF Record, ReadBackFails, Recording, Files
<1>10. ASSUME NEW o \in Objects, RecordFails(o) PROVE Tidy'
  BY <1>10 DEF RecordFails, Recording, Files
<1>11. ASSUME NEW o \in Objects, NEW f \in Files, Undo(o, f) PROVE Tidy'
  BY <1>11 DEF Undo, Erase, Files
<1>12. ASSUME NEW u \in Users, NEW o \in Objects, AuthorizeDownload(u, o) PROVE Tidy'
  <2>1. row' = row \/ row' = [row EXCEPT ![o] = [@ EXCEPT !.lastAccessedAt = clock]]
    BY <1>12 DEF AuthorizeDownload
  <2>2. [row[o] EXCEPT !.lastAccessedAt = clock] # None
    BY <1>12 DEF AuthorizeDownload, Visible, Rows
  <2>. QED
    BY <1>12, <2>1, <2>2 DEF AuthorizeDownload
<1>13. ASSUME NEW w \in Workers, NEW o \in Objects, NEW f \in Files, DeleteFile(w, o, f)
       PROVE  Tidy'
  BY <1>13 DEF DeleteFile, Erase
<1>14. ASSUME NEW w \in Workers, NEW o \in Objects, Forget(w, o) PROVE Tidy'
  <2>1. bytes[o] = None /\ sidecar[o] = None
    BY <1>14 DEF Forget, DeletionInv
  <2>. QED
    BY <1>14, <2>1 DEF Forget
<1>15. ASSUME NEW a \in Accounts, RemoveAccount(a) PROVE Tidy'
  BY <1>15 DEF RemoveAccount, RecordInv
<1>16. ASSUME NEW o \in Objects, Tamper(o) PROVE Tidy'
  BY <1>16 DEF Tamper
<1>17. ASSUME Restart PROVE Tidy'
  BY <1>17 DEF Restart, Interrupted, InFlight
<1>18. ASSUME UNCHANGED <<linked, pc, request, cleared, undo, swallowed, bytes, sidecar, row>>
       PROVE  Tidy'
  BY <1>18
<1> HIDE DEF IInv, TypeOK, FileInv, Tidy
<1>. QED
  BY <1>1, <1>2, <1>3, <1>4, <1>5, <1>6, <1>7, <1>8, <1>9, <1>10, <1>11, <1>12, <1>13,
     <1>14, <1>15, <1>16, <1>17, <1>18
  DEF Next, Retrieval, Deletion, Remove, CleanupExpired, Abort, Tick, Begin

\* Once its retrieval is over, a file without a record belongs to an account that has gone,
\* to a rollback whose rm was rejected, to an expiry no Date can hold or to a process that
\* died: nothing else that fails, is tampered with or overlaps leaves one behind.
THEOREM NothingOrphaned == Spec => []NoOrphans
<1>1. Init => Tidy
  BY DEF Init, Tidy, Settled
<1>2. IInv /\ Tidy /\ [Next]_vars => Tidy'
  BY TidyStep
<1>3. IInv /\ Tidy => NoOrphans
  BY DEF IInv, TypeOK, FileInv, Tidy, NoOrphans, OnDisk, Settled, Pcs, InFlight, Files
<1>. QED
  BY <1>1, <1>2, <1>3, Invariance, PTL DEF Spec

-----------------------------------------------------------------------------
(* The service implements CleanDelivery *)

\* An object keeps its stage and terms, or is withdrawn.
Kept(o) ==
  \/ Stage(o)' = "withdrawn"
  \/ Stage(o)' = Stage(o) /\ Terms(o)' = Terms(o)

\* Every step that neither accepts a scan nor records an object can only withdraw.
LEMMA OtherSteps ==
  ASSUME IInv, [Next]_vars, NEW o \in Objects,
         \A env \in Envelopes, ttl \in Ttls : ~ScanAccepted(o, env, ttl),
         ~Record(o), ~ReadBackFails(o)
  PROVE  Kept(o)
<1> USE InstanceAssumption
    DEF Kept, Stage, Terms, IInv, TypeOK, RecordInv, Settled, Known, vars, call, files, state,
        Fail, Goto, FailAfterUndoing
<1>1. ASSUME NEW p \in Objects, NEW u \in Users, NEW a \in Accounts, NEW c \in Contents,
             Retrieve(p, u, a, c)
      PROVE  Kept(o)
  BY <1>1 DEF Retrieve
<1>2. ASSUME NEW p \in Objects, NEW env \in Envelopes, NEW ttl \in Ttls,
             ScanAccepted(p, env, ttl), p # o
      PROVE  Kept(o)
  BY <1>2 DEF ScanAccepted
<1>3. ASSUME NEW p \in Objects, ScanRejected(p) PROVE Kept(o)
  BY <1>3 DEF ScanRejected
<1>4. ASSUME NEW p \in Objects, NEW c \in Contents, StoreBytes(p, c) PROVE Kept(o)
  BY <1>4 DEF StoreBytes
<1>5. ASSUME NEW p \in Objects, StoreFails(p) PROVE Kept(o)
  BY <1>5 DEF StoreFails
<1>6. ASSUME NEW p \in Objects, PersistSidecar(p) PROVE Kept(o)
  BY <1>6 DEF PersistSidecar
<1>7. ASSUME NEW p \in Objects, PersistFails(p) PROVE Kept(o)
  BY <1>7 DEF PersistFails
<1>8. ASSUME NEW p \in Objects, Record(p), p # o PROVE Kept(o)
  BY <1>8 DEF Record
<1>9. ASSUME NEW p \in Objects, RecordFails(p) PROVE Kept(o)
  BY <1>9 DEF RecordFails, Recording
<1>9a. ASSUME NEW p \in Objects, ExpiryFails(p) PROVE Kept(o)
  BY <1>9a DEF ExpiryFails
<1>9b. ASSUME NEW p \in Objects, ReadBackFails(p), p # o PROVE Kept(o)
  BY <1>9b DEF ReadBackFails
<1>10. ASSUME NEW p \in Objects, NEW f \in Files, Undo(p, f) PROVE Kept(o)
  BY <1>10 DEF Undo, Erase
<1>10a. ASSUME NEW u \in Users, NEW p \in Objects, AuthorizeDownload(u, p) PROVE Kept(o)
  BY <1>10a DEF AuthorizeDownload, Visible, Rows
<1>11. ASSUME NEW w \in Workers, NEW p \in Objects, Forget(w, p) PROVE Kept(o)
  BY <1>11 DEF Forget
<1>12. ASSUME NEW a \in Accounts, RemoveAccount(a) PROVE Kept(o)
  BY <1>12 DEF RemoveAccount
<1>13. ASSUME Restart PROVE Kept(o)
  BY <1>13 DEF Restart, InFlight, Interrupted
<1>14. ASSUME UNCHANGED <<pc, request, cleared, row>> PROVE Kept(o)
  BY <1>14
<1> HIDE DEF Kept, IInv, TypeOK, RecordInv
<1>. QED
  BY <1>1, <1>2, <1>3, <1>4, <1>5, <1>6, <1>7, <1>8, <1>9, <1>9a, <1>9b, <1>10, <1>10a, <1>11, <1>12, <1>13, <1>14
  DEF Next, Retrieval, Deletion, Remove, CleanupExpired, DeleteFile, Abort,
      Tick, Tamper, Begin

\* An accepted scan clears the object for the user and content of its call.
LEMMA ScanClears ==
  ASSUME IInv, NEW o \in Objects, NEW env \in Envelopes, NEW ttl \in Ttls,
         ScanAccepted(o, env, ttl)
  PROVE  Promise!Next
<1>1. request[o] \in Requests /\ env.digest = request[o].content
  BY DEF ScanAccepted, CurrentCleanScan, IInv, CallInv, Asked, Fetched
<1> DEFINE t == [user |-> request[o].userId, digest |-> env.digest]
<1>2. t \in [user : Users, digest : Contents]
  BY <1>1 DEF Requests
<1>3. Stage(o) = "pending" /\ Stage(o)' = "cleared" /\ Terms(o)' = t
  <2>1. /\ pc[o] = "scanning" /\ pc'[o] = "storing" /\ request' = request
        /\ row[o] = None /\ row'[o] = None
    BY DEF ScanAccepted, IInv, TypeOK, RecordInv, Settled, state
  <2>2. cleared'[o] = [scan |-> ScanOf(env), expiresAt |-> ExpiryFor(ttl)]
    BY DEF ScanAccepted, IInv, TypeOK
  <2>3. Stage(o) = "pending" /\ Stage(o)' = "cleared"
    BY <2>1 DEF Stage, IInv, TypeOK
  <2>. QED
    BY <2>1, <2>2, <2>3 DEF Stage, Terms, ScanOf
<1>4. ASSUME NEW p \in Objects, p # o PROVE Stage(p)' = Stage(p) /\ Terms(p)' = Terms(p)
  BY <1>4 DEF ScanAccepted, Stage, Terms, IInv, TypeOK, state
<1> HIDE DEF t
<1>5. Promise!Clear(o, t)
  BY <1>3, <1>4 DEF Promise!Clear
<1>. QED
  BY <1>2, <1>5 DEF Promise!Next

\* The insert offers an object on the terms it was cleared for, whether or not the row
\* can then be read back.
LEMMA RecordOffers ==
  ASSUME IInv, NEW o \in Objects, Record(o) \/ ReadBackFails(o)
  PROVE  Promise!Next
<1>1. /\ row'[o] = RowFor(o) /\ RowFor(o) \in Rows
      /\ stored[o] = cleared[o].scan.digest
  BY DEF Record, ReadBackFails, Recording, RowFor, Rows, IInv, CallInv, Asked, Passed, TypeOK,
         Fetched, ScanPassed, Stored, Requests, Clearances, Never
<1>2. /\ Stage(o) = "cleared" /\ Stage(o)' = "offered"
      /\ Terms(o)' = Terms(o)
  <2>1. pc[o] = "recording" /\ row[o] = None /\ UNCHANGED <<request, cleared>>
    BY DEF Record, ReadBackFails, Recording, Goto, FailAfterUndoing, IInv, TypeOK, RecordInv,
           Settled
  <2>2. Stage(o) = "cleared" /\ Stage(o)' = "offered"
    BY <1>1, <2>1, InstanceAssumption DEF Stage, IInv, TypeOK
  <2>. QED
    BY <1>1, <2>1, <2>2, InstanceAssumption DEF Stage, Terms, RowFor
<1>3. ASSUME NEW p \in Objects, p # o PROVE Stage(p)' = Stage(p) /\ Terms(p)' = Terms(p)
  BY <1>3 DEF Record, ReadBackFails, Goto, FailAfterUndoing, Stage, Terms, IInv, TypeOK
<1>4. Promise!Offer(o)
  BY <1>2, <1>3 DEF Promise!Offer
<1>. QED
  BY <1>4 DEF Promise!Next

\* The service implements its promise: whatever is interleaved, lost or tampered
\* with, an object goes from pending to cleared to offered on unchanged terms, and
\* once withdrawn it never comes back.
THEOREM DeliveryKeepsPromise == Spec => ImplementsPromise
<1>1. Init => Promise!Init
  BY DEF Init, Promise!Init, Stage, Terms
<1>2. IInv /\ [Next]_vars
        => [Promise!Next]_<<[o \in Objects |-> Stage(o)], [o \in Objects |-> Terms(o)]>>
  <2> SUFFICES ASSUME IInv, [Next]_vars PROVE Promise!Next
    OBVIOUS
  <2>1. CASE \E o \in Objects, env \in Envelopes, ttl \in Ttls : ScanAccepted(o, env, ttl)
    BY <2>1, ScanClears
  <2>2. CASE \E o \in Objects : Record(o) \/ ReadBackFails(o)
    BY <2>2, RecordOffers
  <2>3. CASE /\ \A o \in Objects, env \in Envelopes, ttl \in Ttls : ~ScanAccepted(o, env, ttl)
             /\ \A o \in Objects : ~Record(o) /\ ~ReadBackFails(o)
    <3> DEFINE S == {o \in Objects : Stage(o)' = "withdrawn"}
    <3>1. \A o \in Objects : Kept(o)
      BY <2>3, OtherSteps
    <3>2. ASSUME NEW o \in S PROVE Terms(o)' = None
      BY DEF Terms
    <3>3. Promise!Withdraw(S)
      BY <3>1, <3>2 DEF Promise!Withdraw, Kept
    <3>. QED
      BY <3>3 DEF Promise!Next
  <2>. QED
    BY <2>1, <2>2, <2>3
<1>. QED
  BY <1>1, <1>2, Invariance, PTL DEF Spec, ImplementsPromise, Promise!Spec

=============================================================================
