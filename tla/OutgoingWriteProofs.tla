--------------------------- MODULE OutgoingWriteProofs ---------------------------
(***************************************************************************)
(* Proofs about OutgoingWrite, for any calls, mutations, contents, number  *)
(* of attachments, of read attempts and any clock: no attachment leaves    *)
(* uncleared, and the service keeps MailWrite's promise.                   *)
(***************************************************************************)
EXTENDS OutgoingWrite, FiniteSetTheorems, TLAPS

-----------------------------------------------------------------------------
(* The inductive invariant *)

AtGate == {"scanning", "reading"}
AfterTheGate == {"resolving", "writing", "renewing", "searching"}

\* A call is at an attachment of its message, from the first on.
SlotInMessage ==
  \A k \in Calls :
    /\ pc[k] = "idle" => slot[k] = 1
    /\ pc[k] \notin {"idle", "refused"} => request[k] # None
    /\ pc[k] \in AtGate => slot[k] <= request[k].parts

\* A finding is kept with the bytes it is about, unless the caller's memory is shared.
Found(k, i) == scans[k][i] # None /\ (Views \/ scans[k][i].digest = secured[k][i])

\* A sidecar says of each attachment what the call has found.
Recorded(k) ==
  request[k].parts > 0 =>
    \E s \in provenance :
      /\ s.action = Action(k)
      /\ \A i \in 1 .. request[k].parts :
           s.scans[i] # None /\ (Views \/ s.scans[i].digest = secured[k][i])

\* What has been passed has been found, and what has left the gate is recorded.
FoundSoFar ==
  \A k \in Calls :
    /\ pc[k] \in AtGate => \A i \in 1 .. request[k].parts : i < slot[k] => Found(k, i)
    /\ pc[k] = "persisting" => \A i \in 1 .. request[k].parts : Found(k, i)
    /\ pc[k] \in AfterTheGate \/ Written(k) => Recorded(k)

\* A call writes once: before, there is nothing, and a refused call has left nothing behind.
OneWrite ==
  \A k \in Calls :
    /\ wire[k] # "none" <=> pc[k] = "writing"
    /\ wire[k] # "none" => left[k] = 1 /\ ghosts[k] = 0
    /\ wire[k] = "done" => effects[k] = 1
    /\ wire[k] # "done" /\ wire[k] # "none" => effects[k] = 0
    /\ ghosts[k] + effects[k] <= 1
    /\ pc[k] \in {"idle", "persisting", "resolving", "refused"} \cup AtGate =>
         ghosts[k] = 0 /\ effects[k] = 0

\* Gmail's drafts are of writes that took effect.
DraftsWritten == \A d \in Calls : draft[d] # None => draft[d] \in Calls /\ effects[draft[d]] > 0

\* What is looked up has an id to look for.
SearchedById == \A k \in Calls : pc[k] \in {"renewing", "searching"} => mutation[k] # None

Inv == TypeOK /\ SlotInMessage /\ FoundSoFar /\ OneWrite /\ DraftsWritten /\ SearchedById

-----------------------------------------------------------------------------
(* Helpers *)

LEMMA PcNames ==
  /\ "scanning" \in Pcs /\ "reading" \in Pcs /\ "persisting" \in Pcs /\ "resolving" \in Pcs
  /\ "writing" \in Pcs /\ "renewing" \in Pcs /\ "searching" \in Pcs /\ "refused" \in Pcs
  /\ "ok" \in Pcs /\ "reconciled" \in Pcs /\ "unknown" \in Pcs /\ "ambiguous" \in Pcs
  /\ "lost" \in Pcs
  BY DEF Pcs, InFlight, Unbounded, Finished

LEMMA RequestTypes ==
  ASSUME NEW r \in Requests
  PROVE  /\ r # None /\ r.kind \in Kinds /\ r.parts \in 0 .. MaxParts
         /\ r.kind = "update" => r.target \in Calls
  BY InstanceAssumption DEF Requests, Kinds

\* Goto moves one call.
LEMMA GotoMoves ==
  ASSUME TypeOK, NEW k \in Calls, NEW to \in Pcs, Goto(k, to)
  PROVE  /\ pc' \in [Calls -> Pcs] /\ pc'[k] = to
         /\ \A j \in Calls : j # k => pc'[j] = pc[j]
  BY DEF TypeOK, Goto

LEMMA RefuseTypes ==
  ASSUME TypeOK, NEW k \in Calls, Refuse(k)
  PROVE  /\ pc' \in [Calls -> Pcs] /\ pc'[k] = "refused"
         /\ \A j \in Calls : j # k => /\ pc'[j] = pc[j] /\ scans'[j] = scans[j]
                                      /\ secured'[j] = secured[j] /\ slot'[j] = slot[j]
         /\ buffer' \in [Calls -> [Slots -> Contents \cup {None}]]
         /\ submitted' \in [Calls -> Contents \cup {None}]
         /\ scans' \in [Calls -> [Slots -> Findings \cup {None}]]
         /\ secured' \in [Calls -> [Slots -> Contents \cup {None}]]
         /\ slot' \in [Calls -> 1 .. MaxParts + 1]
         /\ provenance' = provenance
<1>1. pc' \in [Calls -> Pcs] /\ pc'[k] = "refused" /\ \A j \in Calls : j # k => pc'[j] = pc[j]
  BY PcNames, GotoMoves DEF Refuse
<1>2. 1 \in 1 .. MaxParts + 1
  BY InstanceAssumption
<1> QED BY <1>1, <1>2 DEF Refuse, TypeOK

\* What a call may become after its attachments have been cleared.
LEMMA AfterGateMoves ==
  ASSUME TypeOK, NEW k \in Calls, AfterGate(k)
  PROVE  /\ pc' \in [Calls -> Pcs] /\ pc'[k] \in {"resolving", "refused"}
         /\ \A j \in Calls : j # k => pc'[j] = pc[j]
<1>1. PICK to \in {"resolving", "refused"} : Goto(k, to)
  BY DEF AfterGate
<1> QED BY <1>1, PcNames, GotoMoves

LEMMA FailAmbiguouslyMoves ==
  ASSUME TypeOK, NEW k \in Calls, FailAmbiguously(k)
  PROVE  /\ pc' \in [Calls -> Pcs] /\ pc'[k] \in {"renewing", "ambiguous"}
         /\ \A j \in Calls : j # k => pc'[j] = pc[j]
         /\ pc'[k] = "renewing" => mutation[k] # None
  BY PcNames, GotoMoves DEF FailAmbiguously

\* The draft that a write leaves is its own.
LEMMA TakeEffectTypes ==
  ASSUME TypeOK, NEW k \in Calls, request[k] # None, TakeEffect(k)
  PROVE  /\ effects' \in [Calls -> Nat] /\ effects'[k] = effects[k] + 1
         /\ \A j \in Calls : j # k => effects'[j] = effects[j]
         /\ draft' \in [Calls -> Calls \cup {None}]
         /\ \A d \in Calls : draft'[d] \in {draft[d], k}
<1>0. request[k] \in Requests
  BY DEF TypeOK
<1>1. effects' \in [Calls -> Nat] /\ effects'[k] = effects[k] + 1
      /\ \A j \in Calls : j # k => effects'[j] = effects[j]
  BY DEF TakeEffect, TypeOK
<1>2. /\ request[k].kind = "send" => draft' = draft
      /\ request[k].kind = "create" => draft' = [draft EXCEPT ![k] = k]
      /\ request[k].kind = "update" => draft' = [draft EXCEPT ![request[k].target] = k]
  BY Zenon DEF TakeEffect
<1>3. draft \in [Calls -> Calls \cup {None}]
  BY DEF TypeOK
<1>4. draft' \in [Calls -> Calls \cup {None}] /\ \A d \in Calls : draft'[d] \in {draft[d], k}
  BY <1>0, <1>2, <1>3, RequestTypes DEF Kinds
<1> QED BY <1>1, <1>4

\* A write under way, or a late one, has a request.
LEMMA WrittenHasRequest ==
  ASSUME SlotInMessage, OneWrite, NEW k \in Calls, wire[k] = "sent" \/ ghosts[k] > 0
  PROVE  request[k] # None
  BY DEF SlotInMessage, OneWrite

-----------------------------------------------------------------------------
(* Types *)

LEMMA TypesHoldAtFirst == Init => TypeOK
<1> SUFFICES ASSUME Init PROVE TypeOK
  OBVIOUS
<1>1. 1 \in 1 .. MaxParts + 1 /\ 0 \in 0 .. ReadAttempts /\ 0 \in 0 .. MaxTime
  BY InstanceAssumption
<1>2. "idle" \in Pcs
  BY DEF Pcs
<1> QED BY <1>1, <1>2 DEF Init, TypeOK

\* Attempts are counted down.
LEMMA AttemptsLeft ==
  ASSUME TypeOK, NEW k \in Calls
  PROVE  /\ left \in [Calls -> 0 .. ReadAttempts] /\ 0 \in 0 .. ReadAttempts
         /\ left[k] > 1 => left[k] - 1 \in 0 .. ReadAttempts
<1>1. ReadAttempts \in Nat /\ left[k] \in 0 .. ReadAttempts
  BY InstanceAssumption DEF TypeOK
<1> QED BY <1>1 DEF TypeOK

LEMMA TypesKept == TypeOK /\ SlotInMessage /\ OneWrite /\ [Next]_vars => TypeOK'
<1> SUFFICES ASSUME TypeOK, SlotInMessage, OneWrite, [Next]_vars PROVE TypeOK'
  OBVIOUS
<1>1. ASSUME NEW k \in Calls, NEW req \in Requests, NEW contents \in [Slots -> Contents],
             Begin(k, req, contents)
      PROVE  TypeOK'
  <2>1. pc' \in [Calls -> Pcs]
    BY <1>1, PcNames, GotoMoves, AfterGateMoves DEF Begin
  <2>2. request' \in [Calls -> Requests \cup {None}]
    BY <1>1 DEF Begin, TypeOK
  <2>3. buffer' \in [Calls -> [Slots -> Contents \cup {None}]]
    BY <1>1 DEF Begin, TypeOK
  <2>4. submitted' \in [Calls -> Contents \cup {None}]
    <3>1. req.parts # 0 => 1 \in Slots
      BY RequestTypes, InstanceAssumption DEF Slots
    <3> QED BY <1>1, <3>1 DEF Begin, TypeOK
  <2> QED BY <1>1, <2>1, <2>2, <2>3, <2>4 DEF Begin, TypeOK, gmail
<1>2. ASSUME NEW k \in Calls, Decline(k) PROVE TypeOK'
  <2>1. pc' \in [Calls -> Pcs]
    BY <1>2, PcNames, GotoMoves DEF Decline
  <2> QED BY <1>2, <2>1 DEF Decline, TypeOK, gate, gmail
<1>3. ASSUME NEW k \in Calls, NEW i \in Slots, NEW c \in Contents, Overwrite(k, i, c)
      PROVE TypeOK'
  <2>1. buffer' \in [Calls -> [Slots -> Contents \cup {None}]]
    BY <1>3 DEF Overwrite, TypeOK
  <2> QED BY <1>3, <2>1 DEF Overwrite, TypeOK, gmail
<1>4. ASSUME NEW k \in Calls, ScanUnavailable(k) \/ PersistFails(k) \/ ScanRejected(k)
      PROVE TypeOK'
  <2>1. Refuse(k) /\ UNCHANGED <<clock, mutation, request, left, gmail>>
    BY <1>4 DEF ScanUnavailable, PersistFails, ScanRejected
  <2> QED BY <2>1, RefuseTypes DEF TypeOK, gmail
<1>5. ASSUME NEW k \in Calls, PersistProvenance(k) PROVE TypeOK'
  <2>1. [action |-> Action(k), scans |-> scans[k]] \in Sidecars
    BY DEF Sidecars, Action, TypeOK
  <2>2. provenance' \subseteq Sidecars
    BY <1>5, <2>1 DEF PersistProvenance, TypeOK
  <2>3. pc' \in [Calls -> Pcs]
    BY <1>5, AfterGateMoves DEF PersistProvenance
  <2> QED BY <1>5, <2>2, <2>3 DEF PersistProvenance, TypeOK, gmail
<1>6. ASSUME NEW k \in Calls, Receive(k) PROVE TypeOK'
  <2>1. pc' \in [Calls -> Pcs]
    BY <1>6, PcNames, GotoMoves DEF Receive
  <2>2. wire' \in [Calls -> {"none", "sent", "done", "refused", "busy"}]
    BY <1>6 DEF Receive, TypeOK
  <2> QED BY <1>6, <2>1, <2>2 DEF Receive, TypeOK, gate
<1>7. ASSUME NEW k \in Calls, AttemptFails(k) PROVE TypeOK'
  <2>1. pc' \in [Calls -> Pcs]
    BY <1>7, FailAmbiguouslyMoves DEF AttemptFails, TypeOK
  <2>2. wire' \in [Calls -> {"none", "sent", "done", "refused", "busy"}]
    BY <1>7 DEF AttemptFails, TypeOK
  <2>3. ghosts' \in [Calls -> Nat]
    BY <1>7 DEF AttemptFails, TypeOK
  <2>4. left' \in [Calls -> 0 .. ReadAttempts]
    <3>1. \/ left' = left
          \/ left[k] > 1 /\ left' = [left EXCEPT ![k] = left[k] - 1]
      BY <1>7 DEF AttemptFails
    <3> QED BY <3>1, AttemptsLeft
  <2> QED BY <1>7, <2>1, <2>2, <2>3, <2>4 DEF AttemptFails, TypeOK, gate
<1>8. ASSUME NEW k \in Calls, SearchAnswers(k) \/ SearchFails(k) \/ SearchRefused(k) PROVE TypeOK'
  <2>1. pc' \in [Calls -> Pcs]
    <3>1. \A to \in Pcs : Goto(k, to) => pc' \in [Calls -> Pcs]
      BY GotoMoves
    <3>2. pc' = pc \/ \E to \in Pcs : Goto(k, to)
      BY <1>8, PcNames DEF SearchAnswers, SearchFails, SearchRefused
    <3> QED BY <3>1, <3>2 DEF TypeOK
  <2>2. left' \in [Calls -> 0 .. ReadAttempts]
    <3>1. \/ left' = [left EXCEPT ![k] = 0]
          \/ left[k] > 1 /\ left' = [left EXCEPT ![k] = left[k] - 1]
      BY <1>8 DEF SearchAnswers, SearchFails, SearchRefused
    <3> QED BY <3>1, AttemptsLeft
  <2>3. UNCHANGED <<clock, mutation, request, gate, gmail>>
    BY <1>8 DEF SearchAnswers, SearchFails, SearchRefused
  <2> QED BY <2>1, <2>2, <2>3 DEF TypeOK, gate, gmail
<1>9. ASSUME NEW k \in Calls, HeadersArrive(k) \/ TokenRefused(k) PROVE TypeOK'
  <2>1. pc' \in [Calls -> Pcs]
    BY <1>9, PcNames, GotoMoves DEF HeadersArrive, TokenRefused
  <2> QED BY <1>9, <2>1 DEF HeadersArrive, TokenRefused, TypeOK, gate, gmail
<1>10. ASSUME NEW k \in Calls, NEW env \in Envelopes, ScanAccepted(k, env) PROVE TypeOK'
  <2>1. /\ slot[k] \in Slots /\ slot[k] \in 1 .. request[k].parts
        /\ slot[k] # request[k].parts => slot[k] + 1 \in Slots
        /\ slot[k] + 1 \in 1 .. MaxParts + 1
    <3>1. request[k] \in Requests /\ slot[k] <= request[k].parts /\ slot[k] \in 1 .. MaxParts + 1
      BY <1>10 DEF ScanAccepted, SlotInMessage, AtGate, TypeOK
    <3> QED BY <3>1, RequestTypes, InstanceAssumption DEF Slots
  <2>2. pc' \in [Calls -> Pcs]
    BY <1>10, PcNames, GotoMoves DEF ScanAccepted
  <2>3. scans' \in [Calls -> [Slots -> Findings \cup {None}]]
    <3>1. [digest |-> env.digest, validUntil |-> env.validUntil] \in Findings
      BY DEF Envelopes, Findings
    <3> QED BY <1>10, <2>1, <3>1 DEF ScanAccepted, TypeOK
  <2>4. secured' \in [Calls -> [Slots -> Contents \cup {None}]]
    <3>1. Materialised(k) \in Contents \cup {None}
      BY <2>1 DEF Materialised, TypeOK
    <3> QED BY <1>10, <2>1, <3>1 DEF ScanAccepted, TypeOK
  <2>5. slot' \in [Calls -> 1 .. MaxParts + 1]
    BY <1>10, <2>1 DEF ScanAccepted, TypeOK
  <2>6. buffer' \in [Calls -> [Slots -> Contents \cup {None}]]
    BY <1>10, <2>1 DEF ScanAccepted, TypeOK
  <2>7. submitted' \in [Calls -> Contents \cup {None}]
    <3>1. slot[k] # request[k].parts => buffer[k][slot[k] + 1] \in Contents \cup {None}
      BY <2>1 DEF TypeOK
    <3>2. \/ submitted' = [submitted EXCEPT ![k] = None]
          \/ /\ slot[k] # request[k].parts
             /\ submitted' = [submitted EXCEPT ![k] = buffer[k][slot[k] + 1]]
      BY <1>10 DEF ScanAccepted
    <3> QED BY <3>1, <3>2 DEF TypeOK
  <2> QED
    BY <1>10, <2>2, <2>3, <2>4, <2>5, <2>6, <2>7 DEF ScanAccepted, TypeOK, gmail
<1>11. ASSUME NEW k \in Calls, SendWrite(k) PROVE TypeOK'
  <2>1. pc' \in [Calls -> Pcs]
    BY <1>11, PcNames, GotoMoves DEF SendWrite
  <2>2. wire' \in [Calls -> {"none", "sent", "done", "refused", "busy"}]
    BY <1>11 DEF SendWrite, TypeOK
  <2>3. left' \in [Calls -> 0 .. ReadAttempts]
    BY <1>11, InstanceAssumption DEF SendWrite, WriteAttempts, TypeOK
  <2> QED BY <1>11, <2>1, <2>2, <2>3 DEF SendWrite, TypeOK, gate
<1>12. ASSUME NEW k \in Calls, TokenFails(k) PROVE TypeOK'
  <2>1. pc' \in [Calls -> Pcs]
    BY <1>12, FailAmbiguouslyMoves DEF TokenFails
  <2> QED BY <1>12, <2>1 DEF TokenFails, TypeOK, gate, gmail
<1>13. ASSUME NEW k \in Calls, SendSearch(k) PROVE TypeOK'
  <2>1. pc' \in [Calls -> Pcs]
    BY <1>13, PcNames, GotoMoves DEF SendSearch
  <2>2. left' \in [Calls -> 0 .. ReadAttempts]
    BY <1>13, InstanceAssumption DEF SendSearch, TypeOK
  <2> QED BY <1>13, <2>1, <2>2 DEF SendSearch, TypeOK, gate, gmail
<1>14. ASSUME NEW k \in Calls, Process(k) PROVE TypeOK'
  <2>1. request[k] # None
    BY <1>14, WrittenHasRequest DEF Process
  <2>2. effects' \in [Calls -> Nat] /\ draft' \in [Calls -> Calls \cup {None}]
    BY <1>14, <2>1, TakeEffectTypes DEF Process
  <2>3. wire' \in [Calls -> {"none", "sent", "done", "refused", "busy"}]
    BY <1>14 DEF Process, TypeOK
  <2> QED BY <1>14, <2>2, <2>3 DEF Process, TypeOK, gate
<1>15. ASSUME NEW k \in Calls, NEW answer \in {"refused", "busy"}, Turn(k, answer) PROVE TypeOK'
  <2>1. wire' \in [Calls -> {"none", "sent", "done", "refused", "busy"}]
    BY <1>15 DEF Turn, TypeOK
  <2> QED BY <1>15, <2>1 DEF Turn, TypeOK, gate
<1>16. ASSUME NEW k \in Calls, ProcessLate(k) PROVE TypeOK'
  <2>1. request[k] # None
    BY <1>16, WrittenHasRequest DEF ProcessLate
  <2>2. effects' \in [Calls -> Nat] /\ draft' \in [Calls -> Calls \cup {None}]
    BY <1>16, <2>1, TakeEffectTypes DEF ProcessLate, TypeOK
  <2>3. ghosts' \in [Calls -> Nat]
    BY <1>16 DEF ProcessLate, TypeOK
  <2> QED BY <1>16, <2>2, <2>3 DEF ProcessLate, TypeOK, gate
<1>17. CASE Tick
  BY <1>17, InstanceAssumption DEF Tick, TypeOK, gate, gmail
<1>18. CASE Crash
  <2>1. pc' \in [Calls -> Pcs]
    BY <1>18, PcNames DEF Crash, TypeOK
  <2>2. ghosts' \in [Calls -> Nat] /\ wire' \in [Calls -> {"none", "sent", "done", "refused", "busy"}]
    BY <1>18 DEF Crash, TypeOK
  <2>3. buffer' \in [Calls -> [Slots -> Contents \cup {None}]]
        /\ submitted' \in [Calls -> Contents \cup {None}]
    BY <1>18 DEF Crash
  <2>4. left' \in [Calls -> 0 .. ReadAttempts]
    BY <1>18, InstanceAssumption DEF Crash
  <2> QED BY <1>18, <2>1, <2>2, <2>3, <2>4 DEF Crash, TypeOK
<1>19. CASE UNCHANGED vars
  BY <1>19 DEF vars, TypeOK, gate, gmail
<1> QED
  BY <1>1, <1>2, <1>3, <1>4, <1>5, <1>6, <1>7, <1>8, <1>9, <1>10, <1>11, <1>12, <1>13, <1>14,
     <1>15, <1>16, <1>17, <1>18, <1>19 DEF Next, Timed, Answered

-----------------------------------------------------------------------------
(* One call moves, the others stay *)

Others(k) == \A j \in Calls : j # k => pc'[j] = pc[j]

\* What each kind of step does to the place of its call, and leaves alone.
LEMMA RefusingSteps ==
  ASSUME TypeOK, NEW k \in Calls, ScanUnavailable(k) \/ PersistFails(k) \/ ScanRejected(k)
  PROVE  /\ pc[k] \in {"scanning", "reading", "persisting"} /\ pc'[k] = "refused" /\ Others(k)
         /\ \A j \in Calls : j # k => /\ scans'[j] = scans[j] /\ secured'[j] = secured[j]
                                      /\ slot'[j] = slot[j]
         /\ UNCHANGED <<clock, mutation, request, left, wire, ghosts, effects, draft, provenance>>
<1>1. /\ pc[k] \in {"scanning", "reading", "persisting"}
      /\ Refuse(k) /\ UNCHANGED <<clock, mutation, request, left, gmail>>
  BY DEF ScanUnavailable, PersistFails, ScanRejected
<1> QED BY <1>1, RefuseTypes DEF Others, gmail

LEMMA SearchSteps ==
  ASSUME TypeOK, NEW k \in Calls,
         SendSearch(k) \/ SearchAnswers(k) \/ SearchFails(k) \/ SearchRefused(k)
  PROVE  /\ pc[k] \in {"renewing", "searching"} /\ Others(k)
         /\ pc'[k] \in {"searching", "reconciled", "unknown"}
         /\ \A j \in Calls : j # k => left'[j] = left[j]
         /\ UNCHANGED <<clock, mutation, request, gate, gmail>>
<1>1. \A to \in Pcs : Goto(k, to) => pc'[k] = to /\ Others(k)
  BY GotoMoves DEF Others
<1>2. CASE SendSearch(k)
  BY <1>1, <1>2, PcNames DEF SendSearch, TypeOK
<1>3. CASE SearchAnswers(k)
  BY <1>1, <1>3, PcNames DEF SearchAnswers, TypeOK
<1>4. CASE SearchFails(k)
  BY <1>1, <1>4, PcNames DEF SearchFails, TypeOK, Others
<1>5. CASE SearchRefused(k)
  BY <1>1, <1>5, PcNames DEF SearchRefused, TypeOK
<1> QED BY <1>2, <1>3, <1>4, <1>5

-----------------------------------------------------------------------------
(* The place of a call *)

LEMMA SlotMoves ==
  ASSUME SlotInMessage, NEW k \in Calls, Others(k), UNCHANGED <<slot, request>>,
         pc[k] \notin {"idle", "refused"}, pc'[k] \notin {"idle", "scanning"},
         pc'[k] = "reading" => pc[k] \in AtGate
  PROVE  SlotInMessage'
  BY DEF SlotInMessage, Others, AtGate

LEMMA SlotKept == TypeOK /\ SlotInMessage /\ [Next]_vars => SlotInMessage'
<1> SUFFICES ASSUME TypeOK, SlotInMessage, [Next]_vars PROVE SlotInMessage'
  OBVIOUS
<1>1. ASSUME NEW k \in Calls, NEW req \in Requests, NEW contents \in [Slots -> Contents],
             Begin(k, req, contents)
      PROVE  SlotInMessage'
  <2>1. /\ pc[k] = "idle" /\ slot[k] = 1 /\ slot' = slot /\ Others(k)
        /\ request'[k] = req /\ \A j \in Calls : j # k => request'[j] = request[j]
    BY <1>1, PcNames, GotoMoves, AfterGateMoves DEF Begin, SlotInMessage, Others, TypeOK
  <2>2. req # None /\ req.parts \in Nat
    BY RequestTypes, InstanceAssumption
  <2>3. pc'[k] \in {"resolving", "refused"} \/ (pc'[k] = "scanning" /\ req.parts # 0)
    BY <1>1, PcNames, GotoMoves, AfterGateMoves DEF Begin
  <2> QED BY <2>1, <2>2, <2>3 DEF SlotInMessage, AtGate, Others
<1>2. ASSUME NEW k \in Calls, Decline(k) PROVE SlotInMessage'
  <2>1. pc'[k] = "refused" /\ Others(k)
    BY <1>2, PcNames, GotoMoves DEF Decline, Others
  <2> QED BY <1>2, <2>1 DEF Decline, SlotInMessage, Others, AtGate, gate
<1>3. ASSUME NEW k \in Calls, NEW i \in Slots, NEW c \in Contents, Overwrite(k, i, c)
      PROVE  SlotInMessage'
  BY <1>3 DEF Overwrite, SlotInMessage, AtGate
<1>4. ASSUME NEW k \in Calls, ScanUnavailable(k) \/ PersistFails(k) \/ ScanRejected(k)
      PROVE  SlotInMessage'
  BY <1>4, RefusingSteps DEF SlotInMessage, AtGate, Others
<1>5. ASSUME NEW k \in Calls, NEW env \in Envelopes, ScanAccepted(k, env) PROVE SlotInMessage'
  <2>1. /\ pc[k] = "reading" /\ slot[k] <= request[k].parts /\ request' = request
        /\ request[k] # None /\ slot[k] \in Nat /\ request[k].parts \in Nat
    <3>1. /\ pc[k] = "reading" /\ slot[k] <= request[k].parts /\ request' = request
          /\ request[k] # None
      BY <1>5 DEF ScanAccepted, SlotInMessage, AtGate
    <3>2. slot[k] \in 1 .. MaxParts + 1 /\ request[k] \in Requests
      BY <3>1 DEF TypeOK
    <3> QED BY <3>1, <3>2, RequestTypes, InstanceAssumption
  <2>2. slot'[k] = slot[k] + 1 /\ \A j \in Calls : j # k => slot'[j] = slot[j]
    BY <1>5 DEF ScanAccepted, TypeOK
  <2>3. /\ Others(k)
        /\ pc'[k] = "persisting" \/ (pc'[k] = "scanning" /\ slot[k] # request[k].parts)
    BY <1>5, PcNames, GotoMoves DEF ScanAccepted, Others
  <2> QED BY <2>1, <2>2, <2>3 DEF SlotInMessage, AtGate, Others
<1>6. ASSUME NEW k \in Calls, HeadersArrive(k) PROVE SlotInMessage'
  <2>1. pc[k] = "scanning" /\ pc'[k] = "reading" /\ Others(k) /\ UNCHANGED <<slot, request>>
    BY <1>6, PcNames, GotoMoves DEF HeadersArrive, Others, gate
  <2> QED BY <2>1, SlotMoves DEF AtGate
<1>7. ASSUME NEW k \in Calls, PersistProvenance(k) PROVE SlotInMessage'
  <2>1. /\ pc[k] = "persisting" /\ pc'[k] \in {"resolving", "refused"} /\ Others(k)
        /\ UNCHANGED <<slot, request>>
    BY <1>7, AfterGateMoves DEF PersistProvenance, Others
  <2> QED BY <2>1, SlotMoves
<1>8. ASSUME NEW k \in Calls, SendWrite(k) \/ TokenRefused(k) \/ TokenFails(k)
      PROVE SlotInMessage'
  <2>1. /\ pc[k] = "resolving" /\ pc'[k] \in {"writing", "refused", "renewing", "ambiguous"}
        /\ Others(k) /\ UNCHANGED <<slot, request>>
    BY <1>8, PcNames, GotoMoves, FailAmbiguouslyMoves
       DEF SendWrite, TokenRefused, TokenFails, Others, gate
  <2> QED BY <2>1, SlotMoves
<1>9. ASSUME NEW k \in Calls, Receive(k) PROVE SlotInMessage'
  <2>1. /\ pc[k] = "writing" /\ pc'[k] \in {"ok", "refused"}
        /\ Others(k) /\ UNCHANGED <<slot, request>>
    BY <1>9, PcNames, GotoMoves DEF Receive, Others, gate
  <2> QED BY <2>1, SlotMoves
<1>10. ASSUME NEW k \in Calls, AttemptFails(k) PROVE SlotInMessage'
  <2>1. /\ pc[k] = "writing" /\ pc'[k] \in {"writing", "renewing", "ambiguous"}
        /\ Others(k) /\ UNCHANGED <<slot, request>>
    BY <1>10, FailAmbiguouslyMoves DEF AttemptFails, Others, gate
  <2> QED BY <2>1, SlotMoves
<1>11. ASSUME NEW k \in Calls,
              SendSearch(k) \/ SearchAnswers(k) \/ SearchFails(k) \/ SearchRefused(k)
       PROVE  SlotInMessage'
  <2>1. /\ pc[k] \in {"renewing", "searching"} /\ pc'[k] \in {"searching", "reconciled", "unknown"}
        /\ Others(k) /\ UNCHANGED <<slot, request>>
    BY <1>11, SearchSteps DEF gate
  <2> QED BY <2>1, SlotMoves
<1>12. CASE Crash
  BY <1>12 DEF Crash, SlotInMessage, AtGate, TypeOK, InFlight, Unbounded
<1>13. ASSUME UNCHANGED <<pc, slot, request>> PROVE SlotInMessage'
  BY <1>13 DEF SlotInMessage, AtGate
<1>14. ASSUME NEW k \in Calls, NEW answer, Process(k) \/ Turn(k, answer) \/ ProcessLate(k)
       PROVE  UNCHANGED <<pc, slot, request>>
  BY <1>14 DEF Process, Turn, ProcessLate, gate
<1>15. ASSUME Tick \/ UNCHANGED vars PROVE UNCHANGED <<pc, slot, request>>
  BY <1>15 DEF Tick, vars, gate
<1> QED
  BY <1>1, <1>2, <1>3, <1>4, <1>5, <1>6, <1>7, <1>8, <1>9, <1>10, <1>11, <1>12, <1>13, <1>14,
     <1>15 DEF Next, Timed, Answered

-----------------------------------------------------------------------------
(* One write *)

\* The steps that stay clear of Gmail keep what is known of the write, wherever they lead.
LEMMA WriteUntouched ==
  ASSUME OneWrite, NEW k \in Calls, Others(k), UNCHANGED <<wire, ghosts, effects>>,
         \A j \in Calls : j # k => left'[j] = left[j],
         pc[k] # "writing", pc'[k] # "writing",
         pc'[k] \in {"idle", "persisting", "resolving", "refused"} \cup AtGate =>
           pc[k] \in {"idle", "persisting", "resolving", "refused"} \cup AtGate
  PROVE  OneWrite'
  BY DEF OneWrite, Others, AtGate

LEMMA OneWriteKept == TypeOK /\ SlotInMessage /\ OneWrite /\ [Next]_vars => OneWrite'
<1> SUFFICES ASSUME TypeOK, SlotInMessage, OneWrite, [Next]_vars PROVE OneWrite'
  OBVIOUS
<1>0. /\ \A j \in Calls : ghosts[j] \in Nat /\ effects[j] \in Nat
      /\ left \in [Calls -> 0 .. ReadAttempts]
      /\ wire \in [Calls -> {"none", "sent", "done", "refused", "busy"}]
  BY DEF TypeOK
<1>1. ASSUME NEW k \in Calls, NEW req \in Requests, NEW contents \in [Slots -> Contents],
             Begin(k, req, contents)
      PROVE  OneWrite'
  <2>1. /\ pc[k] = "idle" /\ pc'[k] \in {"scanning", "resolving", "refused"} /\ Others(k)
        /\ UNCHANGED <<wire, ghosts, effects, left>>
    BY <1>1, PcNames, GotoMoves, AfterGateMoves DEF Begin, Others, gmail
  <2> QED BY <2>1, WriteUntouched
<1>2. ASSUME NEW k \in Calls, Decline(k) PROVE OneWrite'
  <2>1. /\ pc[k] = "idle" /\ pc'[k] = "refused" /\ Others(k)
        /\ UNCHANGED <<wire, ghosts, effects, left>>
    BY <1>2, PcNames, GotoMoves DEF Decline, Others, gmail
  <2> QED BY <2>1, WriteUntouched
<1>3. ASSUME NEW k \in Calls, ScanUnavailable(k) \/ PersistFails(k) \/ ScanRejected(k)
      PROVE  OneWrite'
  BY <1>3, RefusingSteps, WriteUntouched DEF AtGate
<1>4. ASSUME NEW k \in Calls, NEW env \in Envelopes, ScanAccepted(k, env) PROVE OneWrite'
  <2>1. /\ pc[k] = "reading" /\ pc'[k] \in {"scanning", "persisting"} /\ Others(k)
        /\ UNCHANGED <<wire, ghosts, effects, left>>
    BY <1>4, PcNames, GotoMoves DEF ScanAccepted, Others, gmail
  <2> QED BY <2>1, WriteUntouched DEF AtGate
<1>5. ASSUME NEW k \in Calls, HeadersArrive(k) PROVE OneWrite'
  <2>1. /\ pc[k] = "scanning" /\ pc'[k] = "reading" /\ Others(k)
        /\ UNCHANGED <<wire, ghosts, effects, left>>
    BY <1>5, PcNames, GotoMoves DEF HeadersArrive, Others, gmail
  <2> QED BY <2>1, WriteUntouched DEF AtGate
<1>6. ASSUME NEW k \in Calls, PersistProvenance(k) PROVE OneWrite'
  <2>1. /\ pc[k] = "persisting" /\ pc'[k] \in {"resolving", "refused"} /\ Others(k)
        /\ UNCHANGED <<wire, ghosts, effects, left>>
    BY <1>6, AfterGateMoves DEF PersistProvenance, Others, gmail
  <2> QED BY <2>1, WriteUntouched
<1>7. ASSUME NEW k \in Calls, TokenRefused(k) \/ TokenFails(k) PROVE OneWrite'
  <2>1. /\ pc[k] = "resolving" /\ pc'[k] \in {"refused", "renewing", "ambiguous"} /\ Others(k)
        /\ UNCHANGED <<wire, ghosts, effects, left>>
    BY <1>7, PcNames, GotoMoves, FailAmbiguouslyMoves DEF TokenRefused, TokenFails, Others, gmail
  <2> QED BY <2>1, WriteUntouched DEF AtGate
<1>8. ASSUME NEW k \in Calls,
             SendSearch(k) \/ SearchAnswers(k) \/ SearchFails(k) \/ SearchRefused(k)
      PROVE  OneWrite'
  BY <1>8, SearchSteps, WriteUntouched DEF gmail, AtGate
<1>9. ASSUME NEW k \in Calls, SendWrite(k) PROVE OneWrite'
  <2>1. /\ pc[k] = "resolving" /\ pc'[k] = "writing" /\ Others(k)
        /\ UNCHANGED <<ghosts, effects>>
    BY <1>9, PcNames, GotoMoves DEF SendWrite, Others
  <2>2. /\ wire'[k] = "sent" /\ left'[k] = 1
        /\ \A j \in Calls : j # k => wire'[j] = wire[j] /\ left'[j] = left[j]
    BY <1>0, <1>9 DEF SendWrite, WriteAttempts
  <2> QED BY <1>0, <2>1, <2>2 DEF OneWrite, Others, AtGate
<1>10. ASSUME NEW k \in Calls, Receive(k) PROVE OneWrite'
  <2>1. /\ pc[k] = "writing" /\ Others(k) /\ UNCHANGED <<ghosts, effects, left>>
        /\ pc'[k] = IF wire[k] = "done" THEN "ok" ELSE "refused"
    BY <1>10, PcNames, GotoMoves DEF Receive, Others
  <2>2. wire'[k] = "none" /\ \A j \in Calls : j # k => wire'[j] = wire[j]
    BY <1>0, <1>10 DEF Receive
  <2> QED BY <1>0, <2>1, <2>2 DEF OneWrite, Others, AtGate
<1>11. ASSUME NEW k \in Calls, AttemptFails(k) PROVE OneWrite'
  <2>1. left[k] = 1 /\ ghosts[k] = 0 /\ pc[k] = "writing"
    BY <1>11 DEF AttemptFails, OneWrite
  <2>2. /\ pc'[k] \in {"renewing", "ambiguous"} /\ Others(k)
        /\ UNCHANGED <<effects, left>> /\ wire' = [wire EXCEPT ![k] = "none"]
    BY <1>11, <2>1, FailAmbiguouslyMoves DEF AttemptFails, Others
  <2>3. wire'[k] = "none" /\ \A j \in Calls : j # k => wire'[j] = wire[j]
    BY <1>0, <2>2
  <2>4. /\ ghosts'[k] = IF wire[k] = "sent" THEN 1 ELSE 0
        /\ \A j \in Calls : j # k => ghosts'[j] = ghosts[j]
    BY <1>11, <2>1 DEF AttemptFails, TypeOK
  <2>5. wire[k] = "sent" => effects[k] = 0
    BY DEF OneWrite
  <2>6. ghosts'[k] + effects'[k] <= 1
    BY <1>0, <2>1, <2>2, <2>4, <2>5 DEF OneWrite
  <2> QED BY <1>0, <2>2, <2>3, <2>4, <2>6 DEF OneWrite, Others, AtGate
<1>12. ASSUME NEW k \in Calls, Process(k) PROVE OneWrite'
  <2>1. request[k] # None
    BY <1>12, WrittenHasRequest DEF Process
  <2>2. /\ effects'[k] = effects[k] + 1 /\ \A j \in Calls : j # k => effects'[j] = effects[j]
        /\ UNCHANGED <<pc, left, ghosts>>
    BY <1>12, <2>1, TakeEffectTypes DEF Process
  <2>3. /\ wire[k] = "sent" /\ wire'[k] = "done"
        /\ \A j \in Calls : j # k => wire'[j] = wire[j]
    BY <1>0, <1>12 DEF Process
  <2>4. effects[k] = 0 /\ ghosts[k] = 0 /\ pc[k] = "writing"
    BY <2>3 DEF OneWrite
  <2> QED BY <1>0, <2>2, <2>3, <2>4 DEF OneWrite, AtGate
<1>13. ASSUME NEW k \in Calls, NEW answer \in {"refused", "busy"}, Turn(k, answer) PROVE OneWrite'
  <2>1. /\ wire[k] = "sent" /\ wire'[k] \in {"refused", "busy"}
        /\ \A j \in Calls : j # k => wire'[j] = wire[j]
        /\ UNCHANGED <<pc, left, ghosts, effects>>
    BY <1>0, <1>13 DEF Turn
  <2> QED BY <2>1 DEF OneWrite, AtGate
<1>14. ASSUME NEW k \in Calls, ProcessLate(k) PROVE OneWrite'
  <2>1. request[k] # None
    BY <1>14, WrittenHasRequest DEF ProcessLate
  <2>2. /\ ghosts[k] > 0 /\ ghosts'[k] = ghosts[k] - 1 /\ UNCHANGED <<pc, left, wire>>
        /\ \A j \in Calls : j # k => ghosts'[j] = ghosts[j]
    BY <1>14 DEF ProcessLate, TypeOK
  <2>3. /\ effects'[k] \in {effects[k], effects[k] + 1}
        /\ \A j \in Calls : j # k => effects'[j] = effects[j]
    BY <1>14, <2>1, TakeEffectTypes DEF ProcessLate
  <2>4. ghosts[k] = 1 /\ effects[k] = 0 /\ wire[k] = "none"
    BY <1>0, <2>2 DEF OneWrite
  <2> QED BY <1>0, <2>2, <2>3, <2>4 DEF OneWrite, AtGate
<1>15. CASE Crash
  <2>1. \A j \in Calls :
          /\ pc'[j] = IF pc[j] \in InFlight THEN "lost" ELSE pc[j]
          /\ wire'[j] = "none" /\ effects'[j] = effects[j]
          /\ ghosts'[j] = IF wire[j] = "sent" THEN ghosts[j] + 1 ELSE ghosts[j]
    BY <1>15 DEF Crash
  <2>2. \A j \in Calls : wire[j] = "sent" => ghosts[j] = 0 /\ effects[j] = 0 /\ pc[j] = "writing"
    BY DEF OneWrite
  <2> QED BY <1>0, <2>1, <2>2 DEF OneWrite, AtGate, InFlight, Unbounded
<1>16. ASSUME UNCHANGED <<pc, wire, ghosts, effects, left>> PROVE OneWrite'
  BY <1>16 DEF OneWrite, AtGate
<1>17. ASSUME NEW k \in Calls, NEW i \in Slots, NEW c \in Contents, Overwrite(k, i, c)
       PROVE  UNCHANGED <<pc, wire, ghosts, effects, left>>
  BY <1>17 DEF Overwrite, gmail
<1>18. ASSUME Tick \/ UNCHANGED vars PROVE UNCHANGED <<pc, wire, ghosts, effects, left>>
  BY <1>18 DEF Tick, vars, gmail
<1> QED
  BY <1>1, <1>2, <1>3, <1>4, <1>5, <1>6, <1>7, <1>8, <1>9, <1>10, <1>11, <1>12, <1>13, <1>14,
     <1>15, <1>16, <1>17, <1>18 DEF Next, Timed, Answered

-----------------------------------------------------------------------------
(* Gmail's drafts *)

LEMMA DraftsKept == TypeOK /\ SlotInMessage /\ OneWrite /\ DraftsWritten /\ [Next]_vars => DraftsWritten'
<1> SUFFICES ASSUME TypeOK, SlotInMessage, OneWrite, DraftsWritten, [Next]_vars
             PROVE DraftsWritten'
  OBVIOUS
<1>1. ASSUME NEW k \in Calls, request[k] # None, TakeEffect(k) PROVE DraftsWritten'
  <2>1. /\ effects'[k] = effects[k] + 1 /\ \A j \in Calls : j # k => effects'[j] = effects[j]
        /\ \A d \in Calls : draft'[d] \in {draft[d], k}
    BY <1>1, TakeEffectTypes
  <2>2. \A j \in Calls : effects[j] \in Nat
    BY DEF TypeOK
  <2>3. \A j \in Calls : effects[j] > 0 \/ j = k => effects'[j] > 0
    BY <2>1, <2>2
  <2>4. ASSUME NEW d \in Calls, draft'[d] # None
        PROVE  draft'[d] \in Calls /\ effects'[draft'[d]] > 0
    <3>1. CASE draft'[d] = k
      BY <2>3, <3>1
    <3>2. CASE draft'[d] = draft[d]
      BY <2>3, <2>4, <3>2 DEF DraftsWritten
    <3> QED BY <2>1, <3>1, <3>2
  <2> QED BY <2>4 DEF DraftsWritten
<1>2. ASSUME UNCHANGED <<draft, effects>> PROVE DraftsWritten'
  BY <1>2 DEF DraftsWritten
<1>3. ASSUME NEW k \in Calls, Process(k) \/ ProcessLate(k) PROVE DraftsWritten'
  <2>1. (TakeEffect(k) \/ UNCHANGED <<draft, effects>>) /\ (wire[k] = "sent" \/ ghosts[k] > 0)
    BY <1>3 DEF Process, ProcessLate
  <2> QED BY <1>1, <1>2, <2>1, WrittenHasRequest
<1>4. ASSUME NEW k \in Calls, NEW req, NEW contents, NEW i, NEW c, NEW answer, NEW env,
             \/ Begin(k, req, contents) \/ Decline(k) \/ Overwrite(k, i, c)
             \/ Turn(k, answer) \/ ScanAccepted(k, env)
             \/ HeadersArrive(k) \/ SendWrite(k) \/ TokenRefused(k) \/ TokenFails(k)
             \/ PersistProvenance(k) \/ Receive(k) \/ AttemptFails(k)
      PROVE  UNCHANGED <<draft, effects>>
  BY <1>4 DEF Begin, Decline, Overwrite, Turn, ScanAccepted, HeadersArrive, SendWrite,
              TokenRefused,
              TokenFails, PersistProvenance, Receive, AttemptFails, gmail
<1>5. ASSUME NEW k \in Calls,
             \/ ScanUnavailable(k) \/ PersistFails(k) \/ ScanRejected(k)
             \/ SendSearch(k) \/ SearchAnswers(k) \/ SearchFails(k) \/ SearchRefused(k)
      PROVE  UNCHANGED <<draft, effects>>
  BY <1>5, RefusingSteps, SearchSteps DEF gmail
<1>6. ASSUME Tick \/ Crash \/ UNCHANGED vars PROVE UNCHANGED <<draft, effects>>
  BY <1>6 DEF Tick, Crash, vars, gmail
<1> QED
  BY <1>2, <1>3, <1>4, <1>5, <1>6 DEF Next, Timed, Answered

-----------------------------------------------------------------------------
(* What has been found, and recorded *)

\* Nothing takes a record back.
LEMMA RecordedStays ==
  ASSUME NEW k \in Calls, Recorded(k), provenance \subseteq provenance',
         request'[k] = request[k], secured'[k] = secured[k]
  PROVE  Recorded(k)'
<1> SUFFICES ASSUME request[k].parts > 0
             PROVE  \E s \in provenance' :
                      /\ s.action = Action(k)'
                      /\ \A i \in 1 .. request'[k].parts :
                           s.scans[i] # None /\ (Views \/ s.scans[i].digest = secured'[k][i])
  BY DEF Recorded
<1>1. Action(k)' = Action(k)
  BY DEF Action
<1> QED BY <1>1 DEF Recorded

\* A call that keeps its findings, and leaves the gate only with a record.
LEMMA FoundMoves ==
  ASSUME TypeOK, SlotInMessage, FoundSoFar, NEW k \in Calls, Others(k),
         provenance \subseteq provenance',
         \A j \in Calls : /\ request'[j] = request[j]
                          /\ scans'[j] = scans[j] /\ secured'[j] = secured[j] /\ slot'[j] = slot[j],
         \A j \in Calls : j # k => (Written(j)' => Written(j)),
         pc'[k] \in AtGate => pc[k] \in AtGate,
         pc'[k] = "persisting" => pc[k] = "persisting",
         pc'[k] \in AfterTheGate \/ Written(k)' => Recorded(k)'
  PROVE  FoundSoFar'
<1>1. \A j \in Calls : j # k => (Recorded(j) => Recorded(j)')
  BY RecordedStays
<1>2. \A j \in Calls : \A i : Found(j, i)' <=> Found(j, i)
  BY DEF Found
<1> QED BY <1>1, <1>2 DEF FoundSoFar, Others

LEMMA FoundKept ==
  TypeOK /\ SlotInMessage /\ OneWrite /\ FoundSoFar /\ [Next]_vars => FoundSoFar'
<1> SUFFICES ASSUME TypeOK, SlotInMessage, OneWrite, FoundSoFar, [Next]_vars PROVE FoundSoFar'
  OBVIOUS
<1>0. ASSUME NEW k \in Calls, pc[k] \in {"idle", "refused", "scanning", "reading", "persisting",
             "resolving"}
      PROVE  ~Written(k)
  BY <1>0 DEF OneWrite, Written, AtGate
<1>1. ASSUME NEW k \in Calls, NEW req \in Requests, NEW contents \in [Slots -> Contents],
             Begin(k, req, contents)
      PROVE  FoundSoFar'
  <2>1. /\ pc[k] = "idle" /\ slot[k] = 1 /\ Others(k) /\ ~Written(k)
        /\ UNCHANGED <<slot, scans, secured, provenance, wire, ghosts, effects>>
        /\ request'[k] = req /\ \A j \in Calls : j # k => request'[j] = request[j]
    BY <1>0, <1>1, PcNames, GotoMoves, AfterGateMoves
       DEF Begin, SlotInMessage, Others, TypeOK, gmail
  <2>2. \/ pc'[k] \in {"resolving", "refused"} /\ req.parts = 0
        \/ pc'[k] = "scanning"
    BY <1>1, PcNames, GotoMoves, AfterGateMoves DEF Begin
  <2>3. \A j \in Calls : Written(j)' <=> Written(j)
    BY <2>1 DEF Written
  <2>4. \A j \in Calls : j # k => (Recorded(j) => Recorded(j)')
    BY <2>1, RecordedStays
  <2>5. \A j \in Calls : \A i : Found(j, i)' <=> Found(j, i)
    BY <2>1 DEF Found
  <2>6. \A i \in 1 .. req.parts : ~(i < 1)
    BY RequestTypes
  <2>7. req.parts = 0 => Recorded(k)'
    BY <2>1 DEF Recorded
  <2> QED BY <2>1, <2>2, <2>3, <2>4, <2>5, <2>6, <2>7
          DEF FoundSoFar, Others, AtGate, AfterTheGate
<1>2. ASSUME NEW k \in Calls, ScanUnavailable(k) \/ PersistFails(k) \/ ScanRejected(k)
      PROVE  FoundSoFar'
  <2>1. /\ pc'[k] = "refused" /\ Others(k) /\ ~Written(k)
        /\ UNCHANGED <<request, wire, ghosts, effects, provenance>>
        /\ \A j \in Calls : j # k => /\ scans'[j] = scans[j] /\ secured'[j] = secured[j]
                                     /\ slot'[j] = slot[j]
    BY <1>0, <1>2, RefusingSteps
  <2>2. \A j \in Calls : Written(j)' <=> Written(j)
    BY <2>1 DEF Written
  <2>3. \A j \in Calls : j # k => (Recorded(j) => Recorded(j)')
    BY <2>1, RecordedStays
  <2>4. \A j \in Calls : \A i : j # k => (Found(j, i)' <=> Found(j, i))
    BY <2>1 DEF Found
  <2> QED BY <2>1, <2>2, <2>3, <2>4 DEF FoundSoFar, Others, AtGate, AfterTheGate
<1>3. ASSUME NEW k \in Calls, NEW env \in Envelopes, ScanAccepted(k, env) PROVE FoundSoFar'
  <2>1. /\ pc[k] = "reading" /\ Others(k) /\ ~Written(k)
        /\ UNCHANGED <<request, provenance, wire, ghosts, effects>>
        /\ \/ pc'[k] = "persisting" /\ slot[k] = request[k].parts
           \/ pc'[k] = "scanning" /\ slot[k] # request[k].parts
    BY <1>0, <1>3, PcNames, GotoMoves DEF ScanAccepted, Others, gmail
  <2>2. /\ slot[k] \in Nat /\ request[k].parts \in Nat /\ slot[k] <= request[k].parts
        /\ slot[k] \in Slots
    <3>1. slot[k] <= request[k].parts /\ request[k] \in Requests /\ slot[k] \in 1 .. MaxParts + 1
      BY <2>1 DEF SlotInMessage, AtGate, TypeOK
    <3> QED BY <3>1, RequestTypes, InstanceAssumption DEF Slots
  <2>3. /\ slot'[k] = slot[k] + 1 /\ \A j \in Calls : j # k => slot'[j] = slot[j]
        /\ scans'[k] = [scans[k] EXCEPT ![slot[k]] = [digest |-> env.digest, validUntil |-> env.validUntil]]
        /\ secured'[k] = [secured[k] EXCEPT ![slot[k]] = Materialised(k)]
        /\ \A j \in Calls : j # k => scans'[j] = scans[j] /\ secured'[j] = secured[j]
    BY <1>3 DEF ScanAccepted, TypeOK
  <2>4. \A i : i = slot[k] => Found(k, i)'
    <3>1. env.digest = submitted[k] /\ [digest |-> env.digest, validUntil |-> env.validUntil] # None
      BY <1>3, InstanceAssumption DEF ScanAccepted, CurrentCleanScan, Envelopes, Findings
    <3>2. /\ scans'[k][slot[k]] = [digest |-> env.digest, validUntil |-> env.validUntil]
          /\ secured'[k][slot[k]] = Materialised(k)
      BY <2>2, <2>3 DEF TypeOK
    <3>3. ~Views => Materialised(k) = env.digest
      BY <3>1 DEF Materialised
    <3>4. scans'[k][slot[k]] # None /\ (Views \/ scans'[k][slot[k]].digest = secured'[k][slot[k]])
      BY <3>1, <3>2, <3>3
    <3>5. \A i : Found(k, i)' <=>
            scans'[k][i] # None /\ (Views \/ scans'[k][i].digest = secured'[k][i])
      BY DEF Found
    <3> QED BY <3>4, <3>5
  <2>5. \A i \in 1 .. request[k].parts : i < slot[k] => Found(k, i)'
    <3>1. \A i \in 1 .. request[k].parts : i < slot[k] => Found(k, i) /\ i \in Slots
      BY <2>1, <2>2, InstanceAssumption DEF FoundSoFar, AtGate, Slots
    <3> QED BY <2>2, <2>3, <3>1 DEF Found, TypeOK
  <2>6. \A j \in Calls : j # k => (Recorded(j) => Recorded(j)')
    BY <2>1, <2>3, RecordedStays
  <2>7. \A j \in Calls : \A i : j # k => (Found(j, i)' <=> Found(j, i))
    BY <2>3 DEF Found
  <2>8. \A j \in Calls : Written(j)' <=> Written(j)
    BY <2>1 DEF Written
  <2>9. \A i \in 1 .. request[k].parts : i < slot'[k] => Found(k, i)'
    BY <2>2, <2>3, <2>4, <2>5
  <2>10. slot[k] = request[k].parts => \A i \in 1 .. request[k].parts : i < slot'[k]
    BY <2>2, <2>3
  <2> QED BY <2>1, <2>3, <2>6, <2>7, <2>8, <2>9, <2>10
          DEF FoundSoFar, Others, AtGate, AfterTheGate

<1>4. ASSUME NEW k \in Calls, HeadersArrive(k) PROVE FoundSoFar'
  <2>1. /\ pc[k] = "scanning" /\ pc'[k] = "reading" /\ Others(k)
        /\ UNCHANGED <<request, slot, scans, secured, provenance, wire, ghosts, effects>>
    BY <1>4, PcNames, GotoMoves DEF HeadersArrive, Others, gate, gmail
  <2>2. (\A j \in Calls : Written(j)' <=> Written(j)) /\ ~Written(k)
    BY <1>0, <2>1 DEF Written
  <2> QED BY <2>1, <2>2, FoundMoves DEF AtGate, AfterTheGate
<1>5. ASSUME NEW k \in Calls, PersistProvenance(k) PROVE FoundSoFar'
  <2>1. /\ pc[k] = "persisting" /\ pc'[k] \in {"resolving", "refused"} /\ Others(k)
        /\ UNCHANGED <<request, slot, scans, secured, wire, ghosts, effects>>
        /\ provenance' = provenance \cup {[action |-> Action(k), scans |-> scans[k]]}
    BY <1>5, AfterGateMoves DEF PersistProvenance, Others, gmail
  <2>2. (\A j \in Calls : Written(j)' <=> Written(j)) /\ ~Written(k)
    BY <1>0, <2>1 DEF Written
  <2>3. Recorded(k)'
    <3>1. \A i \in 1 .. request[k].parts :
            scans[k][i] # None /\ (Views \/ scans[k][i].digest = secured[k][i])
      BY <2>1 DEF FoundSoFar, Found
    <3>2. Action(k)' = Action(k)
      BY <2>1 DEF Action
    <3> DEFINE s == [action |-> Action(k), scans |-> scans[k]]
    <3>3. s \in provenance' /\ s.action = Action(k)' /\ s.scans = scans[k]
      BY <2>1, <3>2
    <3> HIDE DEF s
    <3> QED BY <2>1, <3>1, <3>3 DEF Recorded
  <2> QED BY <2>1, <2>2, <2>3, FoundMoves DEF AtGate, AfterTheGate
<1>6. ASSUME NEW k \in Calls, SendWrite(k) \/ TokenRefused(k) \/ TokenFails(k) PROVE FoundSoFar'
  <2>1. /\ pc[k] = "resolving" /\ pc'[k] \in {"writing", "refused", "renewing", "ambiguous"}
        /\ Others(k)
        /\ UNCHANGED <<request, slot, scans, secured, provenance, ghosts, effects>>
    BY <1>6, PcNames, GotoMoves, FailAmbiguouslyMoves
       DEF SendWrite, TokenRefused, TokenFails, Others, gate, gmail
  <2>2. \A j \in Calls : j # k => wire'[j] = wire[j]
    BY <1>6 DEF SendWrite, TokenRefused, TokenFails, gmail, TypeOK
  <2>3. \A j \in Calls : j # k => (Written(j)' => Written(j))
    BY <2>1, <2>2 DEF Written
  <2>4. Recorded(k)'
    BY <2>1, RecordedStays DEF FoundSoFar, AfterTheGate
  <2> QED BY <2>1, <2>3, <2>4, FoundMoves DEF AtGate
<1>7. ASSUME NEW k \in Calls, Receive(k) \/ AttemptFails(k) PROVE FoundSoFar'
  <2>1. /\ pc[k] = "writing" /\ Others(k)
        /\ pc'[k] \in {"ok", "refused", "writing", "renewing", "ambiguous"}
        /\ UNCHANGED <<request, slot, scans, secured, provenance, effects>>
    BY <1>7, PcNames, GotoMoves, FailAmbiguouslyMoves DEF Receive, AttemptFails, Others, gate
  <2>2. \A j \in Calls : j # k => wire'[j] = wire[j] /\ ghosts'[j] = ghosts[j]
    BY <1>7 DEF Receive, AttemptFails, TypeOK
  <2>3. \A j \in Calls : j # k => (Written(j)' => Written(j))
    BY <2>1, <2>2 DEF Written
  <2>4. Recorded(k)'
    BY <2>1, RecordedStays DEF FoundSoFar, AfterTheGate
  <2> QED BY <2>1, <2>3, <2>4, FoundMoves DEF AtGate
<1>8. ASSUME NEW k \in Calls,
             SendSearch(k) \/ SearchAnswers(k) \/ SearchFails(k) \/ SearchRefused(k)
      PROVE  FoundSoFar'
  <2>1. /\ pc[k] \in {"renewing", "searching"} /\ Others(k)
        /\ pc'[k] \in {"searching", "reconciled", "unknown"}
        /\ UNCHANGED <<request, slot, scans, secured, provenance, wire, ghosts, effects>>
    BY <1>8, SearchSteps DEF gate, gmail
  <2>2. \A j \in Calls : Written(j)' <=> Written(j)
    BY <2>1 DEF Written
  <2>3. Recorded(k)'
    BY <2>1, RecordedStays DEF FoundSoFar, AfterTheGate
  <2> QED BY <2>1, <2>2, <2>3, FoundMoves DEF AtGate
<1>9. ASSUME NEW k \in Calls, NEW answer, Process(k) \/ Turn(k, answer) \/ ProcessLate(k)
      PROVE  FoundSoFar'
  <2>1. /\ Written(k) /\ UNCHANGED <<pc, request, slot, scans, secured, provenance>>
    BY <1>9 DEF Process, Turn, ProcessLate, Written, gate
  <2>2. \A j \in Calls : j # k => /\ wire'[j] = wire[j] /\ ghosts'[j] = ghosts[j]
                                  /\ effects'[j] = effects[j]
    BY <1>9 DEF Process, Turn, ProcessLate, TakeEffect, TypeOK
  <2>3. \A j \in Calls : j # k => (Written(j)' => Written(j))
    BY <2>2 DEF Written
  <2>4. Recorded(k)'
    BY <2>1, RecordedStays DEF FoundSoFar
  <2> QED BY <2>1, <2>3, <2>4, FoundMoves DEF Others
<1>10. CASE Crash
  <2>1. /\ \A j \in Calls : pc'[j] = pc[j] \/ pc'[j] = "lost"
        /\ UNCHANGED <<request, slot, scans, secured, provenance, effects>>
    BY <1>10 DEF Crash
  <2>2. \A j \in Calls : /\ wire'[j] = "none"
                         /\ ghosts'[j] > 0 => ghosts[j] > 0 \/ wire[j] # "none"
    BY <1>10 DEF Crash
  <2>3. \A j \in Calls : Written(j)' => Written(j)
    BY <2>1, <2>2 DEF Written
  <2>4. \A j \in Calls : Recorded(j) => Recorded(j)'
    BY <2>1, RecordedStays
  <2>5. \A j \in Calls : \A i : Found(j, i)' <=> Found(j, i)
    BY <2>1 DEF Found
  <2> QED BY <2>1, <2>3, <2>4, <2>5 DEF FoundSoFar, AtGate, AfterTheGate
<1>11. ASSUME UNCHANGED <<pc, request, slot, scans, secured, provenance, wire, ghosts, effects>>
       PROVE  FoundSoFar'
  <2>1. \A j \in Calls : /\ Written(j)' <=> Written(j)
                         /\ Recorded(j) => Recorded(j)'
                         /\ \A i : Found(j, i)' <=> Found(j, i)
    BY <1>11, RecordedStays DEF Written, Found
  <2> QED BY <1>11, <2>1 DEF FoundSoFar
<1>12. ASSUME NEW k \in Calls, NEW i \in Slots, NEW c \in Contents, Overwrite(k, i, c)
       PROVE  FoundSoFar'
  BY <1>11, <1>12 DEF Overwrite, gmail
<1>13. ASSUME NEW k \in Calls, Decline(k) PROVE FoundSoFar'
  <2>1. /\ pc[k] = "idle" /\ pc'[k] = "refused" /\ Others(k)
        /\ UNCHANGED <<request, slot, scans, secured, provenance, wire, ghosts, effects>>
    BY <1>13, PcNames, GotoMoves DEF Decline, Others, gate, gmail
  <2>2. (\A j \in Calls : Written(j)' <=> Written(j)) /\ ~Written(k)
    BY <1>0, <2>1 DEF Written
  <2> QED BY <2>1, <2>2, FoundMoves DEF AtGate, AfterTheGate
<1>14. ASSUME Tick \/ UNCHANGED vars PROVE FoundSoFar'
  BY <1>11, <1>14 DEF Tick, vars, gate, gmail
<1> QED
  BY <1>1, <1>2, <1>3, <1>4, <1>5, <1>6, <1>7, <1>8, <1>9, <1>10, <1>12, <1>13, <1>14
     DEF Next, Timed, Answered

-----------------------------------------------------------------------------
(* The search *)

LEMMA SearchedKept == TypeOK /\ SearchedById /\ [Next]_vars => SearchedById'
<1> SUFFICES ASSUME TypeOK, SearchedById, [Next]_vars PROVE SearchedById'
  OBVIOUS
<1>1. ASSUME NEW k \in Calls, Others(k), mutation' = mutation,
             pc'[k] \in {"renewing", "searching"} =>
               pc[k] \in {"renewing", "searching"} \/ mutation[k] # None
      PROVE  SearchedById'
  BY <1>1 DEF SearchedById, Others
<1>2. ASSUME UNCHANGED <<pc, mutation>> PROVE SearchedById'
  BY <1>2 DEF SearchedById
<1>3. ASSUME NEW k \in Calls, NEW req, NEW contents, NEW env,
             \/ Begin(k, req, contents) \/ Decline(k) \/ HeadersArrive(k) \/ ScanAccepted(k, env)
             \/ PersistProvenance(k) \/ Receive(k)
      PROVE  SearchedById'
  <2>1. /\ Others(k) /\ mutation' = mutation
        /\ pc'[k] \notin {"renewing", "searching"}
    BY <1>3, PcNames, GotoMoves, AfterGateMoves
       DEF Begin, Decline, HeadersArrive, ScanAccepted, PersistProvenance, Receive, Others
  <2> QED BY <1>1, <2>1
<1>4. ASSUME NEW k \in Calls,
             SendWrite(k) \/ TokenRefused(k) \/ TokenFails(k) \/ AttemptFails(k)
      PROVE  SearchedById'
  <2>1. CASE SendWrite(k) \/ TokenRefused(k)
    BY <1>1, <2>1, PcNames, GotoMoves DEF SendWrite, TokenRefused, Others
  <2>2. CASE FailAmbiguously(k) /\ mutation' = mutation
    BY <1>1, <2>2, FailAmbiguouslyMoves DEF Others
  <2> QED BY <1>2, <1>4, <2>1, <2>2 DEF TokenFails, AttemptFails
<1>5. ASSUME NEW k \in Calls, ScanUnavailable(k) \/ PersistFails(k) \/ ScanRejected(k)
      PROVE  SearchedById'
  BY <1>1, <1>5, RefusingSteps
<1>6. ASSUME NEW k \in Calls,
             SendSearch(k) \/ SearchAnswers(k) \/ SearchFails(k) \/ SearchRefused(k)
      PROVE  SearchedById'
  BY <1>1, <1>6, SearchSteps
<1>7. ASSUME NEW k \in Calls, NEW i, NEW c, NEW answer,
             Overwrite(k, i, c) \/ Process(k) \/ Turn(k, answer) \/ ProcessLate(k)
      PROVE  SearchedById'
  BY <1>2, <1>7 DEF Overwrite, Process, Turn, ProcessLate
<1>8. CASE Crash
  BY <1>8 DEF Crash, SearchedById
<1>9. ASSUME Tick \/ UNCHANGED vars PROVE SearchedById'
  BY <1>2, <1>9 DEF Tick, vars
<1> QED
  BY <1>3, <1>4, <1>5, <1>6, <1>7, <1>8, <1>9 DEF Next, Timed, Answered

-----------------------------------------------------------------------------
(* The invariants *)

LEMMA Initially == Init => Inv
<1> SUFFICES ASSUME Init PROVE Inv
  OBVIOUS
<1>1. SlotInMessage
  BY DEF Init, SlotInMessage, AtGate
<1>2. \A k \in Calls : ~Written(k)
  BY DEF Init, Written
<1>3. FoundSoFar
  BY <1>2 DEF Init, FoundSoFar, AtGate, AfterTheGate
<1>4. OneWrite
  BY DEF Init, OneWrite, AtGate
<1>5. DraftsWritten
  BY DEF Init, DraftsWritten
<1>6. SearchedById
  BY DEF Init, SearchedById
<1> QED BY TypesHoldAtFirst, <1>1, <1>3, <1>4, <1>5, <1>6 DEF Inv

LEMMA Inductive == Inv /\ [Next]_vars => Inv'
  BY TypesKept, SlotKept, FoundKept, OneWriteKept, DraftsKept, SearchedKept DEF Inv

LEMMA Invariant == Spec => []Inv
  BY Initially, Inductive, PTL DEF Spec

\* Every reachable state is of the declared types.
THEOREM TypeCorrect == Spec => []TypeOK
<1>1. Inv => TypeOK
  BY DEF Inv
<1> QED BY <1>1, Invariant, PTL

\* Where the gate keeps copies, no attachment reaches Gmail unless exactly its bytes were found
\* clean and that finding is on disk.
THEOREM Cleared == ~Views => (Spec => []WritesAreCleared)
<1> SUFFICES ASSUME ~Views PROVE Spec => []WritesAreCleared
  OBVIOUS
<1>1. Inv => WritesAreCleared
  BY DEF Inv, FoundSoFar, Recorded, WritesAreCleared
<1> QED BY <1>1, Invariant, PTL

-----------------------------------------------------------------------------
(* The promise *)

LEMMA OutcomeCases ==
  ASSUME NEW k \in Calls
  PROVE  /\ pc[k] \in InFlight \cup {"idle"} => Outcome(k) = "open"
         /\ pc[k] \in {"ok", "reconciled"} => Outcome(k) = "confirmed"
         /\ pc[k] = "refused" => Outcome(k) = "refused"
         /\ pc[k] \in {"unknown", "ambiguous", "lost"} => Outcome(k) = "unknown"
<1>1. /\ \A p \in InFlight \cup {"idle"} :
           p \notin {"ok", "reconciled", "refused", "unknown", "ambiguous", "lost"}
  BY DEF InFlight, Unbounded
<1> QED BY <1>1, Zenon DEF Outcome

LEMMA OutcomeCasesNext ==
  ASSUME NEW k \in Calls
  PROVE  /\ pc'[k] \in InFlight \cup {"idle"} => Outcome(k)' = "open"
         /\ pc'[k] \in {"ok", "reconciled"} => Outcome(k)' = "confirmed"
         /\ pc'[k] = "refused" => Outcome(k)' = "refused"
         /\ pc'[k] \in {"unknown", "ambiguous", "lost"} => Outcome(k)' = "unknown"
<1>1. /\ \A p \in InFlight \cup {"idle"} :
           p \notin {"ok", "reconciled", "refused", "unknown", "ambiguous", "lost"}
  BY DEF InFlight, Unbounded
<1> QED BY <1>1, Zenon DEF Outcome

\* A call is told something new, and Gmail does nothing: MailWrite lets it end this way.
LEMMA CallMoves ==
  ASSUME TypeOK, NEW k \in Calls, Others(k), UNCHANGED <<mutation, effects>>,
         pc[k] \in InFlight \cup {"idle"}, pc'[k] \in Pcs,
         pc'[k] = "refused" => effects[k] = 0,
         pc'[k] \in {"ok", "reconciled"} => \E j \in Promise!SameMutation(k) : effects[j] > 0
  PROVE  [Promise!Next]_<<mutation, [j \in Calls |-> Outcome(j)], effects>>
<1> DEFINE out == [j \in Calls |-> Outcome(j)]
<1>1. \A j \in Calls : j # k => Outcome(j)' = Outcome(j)
  BY DEF Others, Outcome
<1>2. Outcome(k) = "open" /\ out[k] = "open"
  BY OutcomeCases
<1>3. out' = [out EXCEPT ![k] = Outcome(k)']
  BY <1>1
<1>4. CASE pc'[k] \in InFlight \cup {"idle"}
  <2>1. Outcome(k)' = Outcome(k)
    BY <1>2, <1>4, OutcomeCasesNext
  <2>2. out' = out
    BY <1>1, <2>1
  <2> QED BY <2>2
<1>5. CASE pc'[k] \in {"ok", "reconciled"}
  <2>1. out' = [out EXCEPT ![k] = "confirmed"]
    BY <1>3, <1>5, OutcomeCasesNext
  <2> HIDE DEF out
  <2>2. Promise!Confirm(k)
    BY <1>2, <1>5, <2>1 DEF Promise!Confirm, out
  <2> QED BY <2>2 DEF Promise!Next, out
<1>6. CASE pc'[k] = "refused"
  <2>1. out' = [out EXCEPT ![k] = "refused"]
    BY <1>3, <1>6, OutcomeCasesNext
  <2> HIDE DEF out
  <2>2. Promise!Refuse(k)
    BY <1>2, <1>6, <2>1 DEF Promise!Refuse, out
  <2> QED BY <2>2 DEF Promise!Next, out
<1>7. CASE pc'[k] \in {"unknown", "ambiguous", "lost"}
  <2>1. Outcome(k)' = "unknown"
    BY <1>7, OutcomeCasesNext
  <2>2. out' = [j \in Calls |-> IF j \in {k} THEN "unknown" ELSE out[j]]
    BY <1>1, <2>1
  <2> HIDE DEF out
  <2>3. Promise!GiveUp({k})
    BY <1>2, <2>2 DEF Promise!GiveUp, out
  <2> QED BY <2>3 DEF Promise!Next, out
<1> QED BY <1>4, <1>5, <1>6, <1>7 DEF Pcs, Finished

\* Gmail carries the write out, and the call is told nothing yet.
LEMMA EffectMoves ==
  ASSUME Inv, NEW k \in Calls, wire[k] = "sent" \/ ghosts[k] > 0, TakeEffect(k),
         UNCHANGED <<mutation, pc>>
  PROVE  [Promise!Next]_<<mutation, [j \in Calls |-> Outcome(j)], effects>>
<1> DEFINE out == [j \in Calls |-> Outcome(j)]
<1>1. out' = out
  BY DEF Outcome
<1>2. effects[k] = 0 /\ pc[k] # "refused" /\ pc[k] \in Pcs
  <2>1. effects[k] \in Nat /\ ghosts[k] \in Nat /\ pc[k] \in Pcs
    BY DEF Inv, TypeOK
  <2> QED BY <2>1 DEF Inv, OneWrite
<1>3. effects' = [effects EXCEPT ![k] = 1]
  BY <1>2 DEF TakeEffect
<1>4. out[k] # "refused"
  BY <1>2, OutcomeCases DEF Pcs, Finished
<1> HIDE DEF out
<1>5. Promise!Write(k)
  BY <1>1, <1>2, <1>3, <1>4 DEF Promise!Write, out
<1> QED BY <1>5 DEF Promise!Next, out

\* What a search confirms has happened.
LEMMA SearchFinds ==
  ASSUME Inv, NEW k \in Calls, pc[k] = "searching", NEW found \in SUBSET Matches(k),
         Confirms(k, found)
  PROVE  \E j \in Promise!SameMutation(k) : effects[j] > 0
<1>1. found # {}
  BY FS_EmptySet DEF Confirms
<1>2. PICK m \in found : m \in Matches(k)
  BY <1>1
<1>3. mutation[k] # None
  BY DEF Inv, SearchedById
<1>4. CASE request[k].kind = "send"
  <2>1. m[1] \in Calls /\ m[2] \in 1 .. 2 /\ m[2] <= effects[m[1]] /\ mutation[m[1]] = mutation[k]
    BY <1>2, <1>4 DEF Matches
  <2>2. effects[m[1]] > 0
    BY <2>1 DEF Inv, TypeOK
  <2> QED BY <1>3, <2>1, <2>2 DEF Promise!SameMutation
<1>5. CASE request[k].kind # "send"
  <2>1. PICK d \in Calls : draft[d] # None /\ mutation[draft[d]] = mutation[k]
    BY <1>2, <1>5 DEF Matches
  <2>2. draft[d] \in Calls /\ effects[draft[d]] > 0
    BY <2>1 DEF Inv, DraftsWritten
  <2> QED BY <1>3, <2>1, <2>2 DEF Promise!SameMutation
<1> QED BY <1>4, <1>5

LEMMA StepsKeepThePromise ==
  Inv /\ [Next]_vars => [Promise!Next]_<<mutation, [j \in Calls |-> Outcome(j)], effects>>
<1> DEFINE Kept == [Promise!Next]_<<mutation, [j \in Calls |-> Outcome(j)], effects>>
<1> SUFFICES ASSUME Inv, [Next]_vars PROVE Kept
  OBVIOUS
<1>0. TypeOK /\ OneWrite
  BY DEF Inv
<1>a. /\ \A p \in {"idle", "scanning", "reading", "persisting", "resolving", "writing", "renewing",
                   "searching"} : p \in InFlight \cup {"idle"}
  BY DEF InFlight, Unbounded
<1>b. ASSUME NEW k \in Calls, pc[k] \in {"idle", "scanning", "reading", "persisting", "resolving"}
      PROVE  effects[k] = 0
  BY <1>0, <1>b DEF OneWrite, AtGate
<1>1. ASSUME UNCHANGED <<pc, mutation, effects>> PROVE Kept
  <2>1. \A j \in Calls : Outcome(j)' = Outcome(j)
    BY <1>1 DEF Outcome
  <2> QED BY <1>1, <2>1
<1>2. ASSUME NEW k \in Calls, NEW req, NEW contents, NEW env,
             \/ Begin(k, req, contents) \/ Decline(k) \/ HeadersArrive(k) \/ ScanAccepted(k, env)
             \/ PersistProvenance(k) \/ TokenRefused(k) \/ SendWrite(k)
      PROVE  Kept
  <2>1. /\ pc[k] \in {"idle", "scanning", "reading", "persisting", "resolving"}
        /\ pc'[k] \in {"scanning", "reading", "persisting", "resolving", "writing", "refused"}
        /\ Others(k) /\ UNCHANGED <<mutation, effects>>
    BY <1>0, <1>2, PcNames, GotoMoves, AfterGateMoves
       DEF Begin, Decline, HeadersArrive, ScanAccepted, PersistProvenance, TokenRefused,
           SendWrite,
           Others, gmail
  <2> HIDE DEF Kept
  <2> QED BY <1>0, <1>a, <1>b, <2>1, PcNames, CallMoves DEF Kept
<1>3. ASSUME NEW k \in Calls, ScanUnavailable(k) \/ PersistFails(k) \/ ScanRejected(k) PROVE Kept
  BY <1>0, <1>a, <1>b, <1>3, PcNames, RefusingSteps, CallMoves
<1>4. ASSUME NEW k \in Calls, TokenFails(k) \/ AttemptFails(k) PROVE Kept
  <2>1. /\ pc[k] \in {"resolving", "writing"} /\ UNCHANGED <<mutation, effects>>
        /\ pc' = pc \/ FailAmbiguously(k)
    BY <1>4 DEF TokenFails, AttemptFails, gmail
  <2>2. CASE FailAmbiguously(k)
    <3>1. Others(k) /\ pc'[k] \in {"renewing", "ambiguous"}
      BY <1>0, <2>2, FailAmbiguouslyMoves DEF Others
    <3> QED BY <1>0, <1>a, <2>1, <3>1, PcNames, CallMoves
  <2> QED BY <1>1, <2>1, <2>2
<1>5. ASSUME NEW k \in Calls, Receive(k) PROVE Kept
  <2>1. /\ pc[k] = "writing" /\ pc'[k] = (IF wire[k] = "done" THEN "ok" ELSE "refused")
        /\ Others(k) /\ UNCHANGED <<mutation, effects>> /\ wire[k] \in {"done", "refused"}
    BY <1>0, <1>5, PcNames, GotoMoves DEF Receive, Others
  <2>2. /\ wire[k] = "done" => effects[k] > 0
        /\ wire[k] = "refused" => effects[k] = 0
    BY <1>0 DEF OneWrite
  <2>3. k \in Promise!SameMutation(k)
    BY DEF Promise!SameMutation
  <2> QED BY <1>0, <1>a, <2>1, <2>2, <2>3, PcNames, CallMoves
<1>6. ASSUME NEW k \in Calls, SearchAnswers(k) PROVE Kept
  <2>1. PICK found \in SUBSET Matches(k) :
          Goto(k, IF Confirms(k, found) THEN "reconciled" ELSE "unknown")
    BY <1>6 DEF SearchAnswers
  <2>2. /\ pc[k] = "searching" /\ UNCHANGED <<mutation, effects>> /\ Others(k)
        /\ pc'[k] = (IF Confirms(k, found) THEN "reconciled" ELSE "unknown")
    BY <1>0, <1>6, <2>1, PcNames, GotoMoves DEF SearchAnswers, Others, gmail
  <2>3. Confirms(k, found) => \E j \in Promise!SameMutation(k) : effects[j] > 0
    BY <2>2, SearchFinds
  <2> QED BY <1>0, <1>a, <2>2, <2>3, PcNames, CallMoves
<1>7. ASSUME NEW k \in Calls, SendSearch(k) \/ SearchFails(k) \/ SearchRefused(k) PROVE Kept
  <2>1. /\ pc[k] \in {"renewing", "searching"} /\ UNCHANGED <<mutation, effects>>
        /\ \E to \in {"searching", "unknown"} : pc' = pc \/ Goto(k, to)
    BY <1>7 DEF SendSearch, SearchFails, SearchRefused, gmail
  <2>2. CASE \E to \in {"searching", "unknown"} : Goto(k, to)
    <3>1. Others(k) /\ pc'[k] \in {"searching", "unknown"}
      BY <1>0, <2>2, PcNames, GotoMoves DEF Others
    <3> QED BY <1>0, <1>a, <2>1, <3>1, PcNames, CallMoves
  <2> QED BY <1>1, <2>1, <2>2
<1>8. ASSUME NEW k \in Calls, Process(k) PROVE Kept
  BY <1>8, EffectMoves DEF Process
<1>9. ASSUME NEW k \in Calls, ProcessLate(k) PROVE Kept
  <2>1. CASE TakeEffect(k)
    BY <1>9, <2>1, EffectMoves DEF ProcessLate
  <2>2. CASE UNCHANGED <<effects, draft>>
    BY <1>1, <1>9, <2>2 DEF ProcessLate
  <2> QED BY <1>9, <2>1, <2>2 DEF ProcessLate
<1>10. ASSUME NEW k \in Calls, NEW i, NEW c, NEW answer, Overwrite(k, i, c) \/ Turn(k, answer)
       PROVE  Kept
  BY <1>1, <1>10 DEF Overwrite, Turn, gmail
<1>11. CASE Crash
  <2> DEFINE out == [j \in Calls |-> Outcome(j)]
             S == {j \in Calls : pc[j] \in InFlight}
  <2>1. \A j \in Calls : pc'[j] = (IF pc[j] \in InFlight THEN "lost" ELSE pc[j])
    BY <1>11 DEF Crash
  <2>2. \A j \in S : out[j] = "open" /\ Outcome(j)' = "unknown"
    BY <2>1, OutcomeCases, OutcomeCasesNext
  <2>3. \A j \in Calls \ S : Outcome(j)' = Outcome(j)
    BY <2>1 DEF Outcome
  <2>4. out' = [j \in Calls |-> IF j \in S THEN "unknown" ELSE out[j]]
    BY <2>2, <2>3
  <2>5. UNCHANGED <<mutation, effects>> /\ S \in SUBSET Calls
    BY <1>11 DEF Crash
  <2> HIDE DEF out, S
  <2>6. Promise!GiveUp(S)
    BY <2>2, <2>4, <2>5 DEF Promise!GiveUp, out
  <2> QED BY <2>5, <2>6 DEF Promise!Next
<1>12. ASSUME Tick \/ UNCHANGED vars PROVE Kept
  BY <1>1, <1>12 DEF Tick, vars, gmail
<1> HIDE DEF Kept
<1>13. ASSUME NEW k \in Calls, Timed(k) \/ Answered(k) PROVE Kept
  BY <1>2, <1>3, <1>4, <1>5, <1>6, <1>7, <1>13 DEF Timed, Answered
<1>14. CASE Next
  BY <1>2, <1>8, <1>9, <1>10, <1>11, <1>12, <1>13, <1>14 DEF Next
<1> QED
  BY <1>12, <1>14

\* The service implements MailWrite: the write takes effect at most once, a confirmed one has
\* taken effect, by this call or by another of its mutation, and a refused one never does.
THEOREM PromiseKept == Spec => ImplementsMailWrite
<1>1. Init => Promise!Init
  <2> SUFFICES ASSUME Init PROVE Promise!Init
    OBVIOUS
  <2>1. \A k \in Calls : Outcome(k) = "open"
    BY OutcomeCases DEF Init
  <2> QED BY <2>1 DEF Init, Promise!Init
<1>2. Inv /\ [Next]_vars =>
        [Promise!Next]_<<mutation, [k \in Calls |-> Outcome(k)], effects>>
  BY StepsKeepThePromise
<1> QED
  BY <1>1, <1>2, Invariant, PTL DEF Spec, ImplementsMailWrite, Promise!Spec

=============================================================================
