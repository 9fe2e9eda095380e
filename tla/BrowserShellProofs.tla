-------------------------- MODULE BrowserShellProofs --------------------------
(***************************************************************************)
(* Proofs about the two halves of web/app.js: MailboxShell for every set   *)
(* of messages and any number of loads and mutations, and ComposeDialog    *)
(* for every finite set of files, any limits and any number of             *)
(* compositions, selections and submissions.                               *)
(***************************************************************************)
EXTENDS MailboxShell, ComposeDialog, FiniteSetTheorems, TLAPS

\* The newest load is under way exactly while its outcome is pending, and it is
\* newer than the load the snapshot came from; once it has succeeded, it is that load.
NewestPending ==
  /\ generation >= 1 /\ stamp <= generation
  /\ newest = "pending" <=> loads[generation] # None
  /\ newest = "pending" => stamp < generation
  /\ newest = "ok" => stamp = generation

\* Whoever disables the buttons or clears the list is the newest load or a mutation,
\* and undoes it when it ends.
Released ==
  /\ cards # messages => loads[generation] # None
  /\ disabled => mutation # None \/ loads[generation] # None

\* The mutation in flight has not been carried out yet, or its reload has begun.
Settled == mutation = None \/ mutation.step \in {"sent", "reloading"}

\* Without flags, what was read since the last change of the provider still stands:
\* the snapshot if the newest load has succeeded, its answer if that is on its way.
Fresh ==
  ~flags =>
    /\ flagging = None
    /\ generation > unsure /\ Settled =>
         /\ newest = "ok" => messages = Contents(selected)
         /\ loads[generation] # None /\ loads[generation].answer # None =>
              loads[generation].answer.ids = Contents(loads[generation].mailbox)

IInv == TypeOK /\ NewestPending /\ Released /\ Fresh

-----------------------------------------------------------------------------

\* What the provider answers is an answer.
LEMMA SnapshotType ==
  ASSUME TypeOK, NEW b \in Mailboxes
  PROVE  Contents(b) \subseteq Messages /\ Snapshot(b) \in Answers
BY DEF TypeOK, Contents, Snapshot, Answers

\* A call of loadMailbox opens the next generation and leaves the others.
LEMMA StartLoadType ==
  ASSUME TypeOK, NEW b \in Mailboxes, StartLoad(b)
  PROVE  /\ generation' = generation + 1 /\ generation' \in 1 .. MaxLoads
         /\ loads' \in [1 .. MaxLoads -> Loads \cup {None}]
         /\ loads'[generation'] = [mailbox |-> b, previous |-> messages, answer |-> None]
         /\ loads'[generation'] # None /\ newest' = "pending"
<1> DEFINE load == [mailbox |-> b, previous |-> messages, answer |-> None]
<1>1. load \in Loads
  BY DEF TypeOK, Loads
<1>2. load # None
  BY <1>1, InstanceAssumption
<1>3. generation' = generation + 1 /\ generation' \in 1 .. MaxLoads
  BY InstanceAssumption DEF TypeOK, StartLoad
<1>4. loads' = [loads EXCEPT ![generation'] = load]
  BY <1>3 DEF StartLoad
<1> HIDE DEF load
<1>5. loads' \in [1 .. MaxLoads -> Loads \cup {None}] /\ loads'[generation'] = load
  BY <1>1, <1>3, <1>4 DEF TypeOK
<1>. QED
  BY <1>2, <1>3, <1>5 DEF load, StartLoad

\* A load that has ended is over, and the others go on.
LEMMA EndLoadType ==
  ASSUME TypeOK, NEW g \in 1 .. MaxLoads, EndLoad(g)
  PROVE  /\ loads' \in [1 .. MaxLoads -> Loads \cup {None}]
         /\ loads'[g] = None
         /\ \A h \in 1 .. MaxLoads : h # g => loads'[h] = loads[h]
BY DEF TypeOK, EndLoad

\* The provider's answer is all that ProvideList adds to a call.
LEMMA ProvideListType ==
  ASSUME TypeOK, NEW g \in 1 .. MaxLoads, ProvideList(g)
  PROVE  /\ loads' \in [1 .. MaxLoads -> Loads \cup {None}]
         /\ \A h \in 1 .. MaxLoads : h # g => loads'[h] = loads[h]
         /\ \A h \in 1 .. MaxLoads : loads'[h] = None <=> loads[h] = None
         /\ loads'[g].mailbox = loads[g].mailbox
         /\ loads'[g].answer.ids = Contents(loads'[g].mailbox)
<1>1. loads[g] \in Loads
  BY DEF TypeOK, ProvideList
<1> DEFINE load == [loads[g] EXCEPT !.answer = Snapshot(loads[g].mailbox)]
<1>2. loads[g].mailbox \in Mailboxes
  BY <1>1 DEF Loads
<1>3. load \in Loads /\ load.mailbox = loads[g].mailbox
      /\ load.answer.ids = Contents(loads[g].mailbox)
  BY <1>1, <1>2, SnapshotType DEF Loads, Snapshot
<1>4. load # None
  BY <1>3, InstanceAssumption
<1>5. loads' = [loads EXCEPT ![g] = load]
  BY DEF ProvideList
<1> HIDE DEF load
<1>. QED
  BY <1>1, <1>3, <1>4, <1>5 DEF TypeOK, ProvideList


\* A mutation that is not over is not None, and one that is carried out or answered
\* is not settled.
LEMMA MutationSent == ASSUME TypeOK, NEW to \in Mailboxes, Mutate(to) PROVE mutation' # None
<1>1. to \in Folders
  BY DEF Mutate, Offered, Destinations, Mailboxes, Folders
<1>2. [id |-> reader, to |-> to, step |-> "sent", load |-> 0] \in Mutations
  BY <1>1, InstanceAssumption DEF TypeOK, Mutate, Mutations
<1>. QED
  BY <1>2, InstanceAssumption DEF Mutate

LEMMA MutationGoesOn ==
  ASSUME TypeOK, ProvideMutation \/ MutationArrives
  PROVE  mutation' # None /\ mutation'.step \in {"done", "refreshing"}
<1>1. mutation \in Mutations
  BY DEF TypeOK, ProvideMutation, MutationArrives
<1>2. mutation' \in Mutations /\ mutation'.step \in {"done", "refreshing"}
  BY <1>1 DEF ProvideMutation, MutationArrives, Mutations
<1>. QED
  BY <1>2, InstanceAssumption

-----------------------------------------------------------------------------

\* Every step keeps the types.
LEMMA TypeStep == TypeOK /\ NewestPending /\ [Next]_vars => TypeOK'
<1> SUFFICES ASSUME TypeOK, NewestPending, [Next]_vars PROVE TypeOK'
  OBVIOUS
<1>started. ASSUME NEW b \in Mailboxes, StartLoad(b)
            PROVE  /\ generation' \in 1 .. MaxLoads
                   /\ loads' \in [1 .. MaxLoads -> Loads \cup {None}]
  BY <1>started, StartLoadType
<1>provided. ASSUME NEW g \in 1 .. MaxLoads, ProvideList(g)
             PROVE  loads' \in [1 .. MaxLoads -> Loads \cup {None}]
  BY <1>provided, ProvideListType
<1>ended. ASSUME NEW g \in 1 .. MaxLoads, EndLoad(g)
          PROVE  loads' \in [1 .. MaxLoads -> Loads \cup {None}]
  BY <1>ended, EndLoadType
<1> USE InstanceAssumption DEF TypeOK, NewestPending, vars, provider, snapshot, view, loading,
        mutating
<1>1. ASSUME NEW b \in Mailboxes, SelectMailbox(b) PROVE TypeOK'
  <2>1. /\ generation' \in 0 .. MaxLoads
        /\ loads' \in [1 .. MaxLoads -> Loads \cup {None}]
    BY <1>1, <1>started DEF SelectMailbox
  <2>. QED
    BY <1>1, <2>1 DEF SelectMailbox, StartLoad, ClearReader
<1>2. ASSUME NEW g \in 1 .. MaxLoads, ProvideList(g) PROVE TypeOK'
  <2>1. loads' \in [1 .. MaxLoads -> Loads \cup {None}]
    BY <1>2, <1>provided
  <2>. QED
    BY <1>2, <2>1 DEF ProvideList
<1>3. ASSUME NEW g \in 1 .. MaxLoads, ListArrives(g) PROVE TypeOK'
  <2>1. loads' \in [1 .. MaxLoads -> Loads \cup {None}]
    BY <1>3, <1>ended DEF ListArrives
  <2>2. loads[g].mailbox \in Mailboxes /\ loads[g].answer \in Answers
    BY <1>3 DEF ListArrives, Loads
  <2>3. /\ selected' \in Mailboxes /\ messages' \subseteq Messages
        /\ star' \in [Messages -> BOOLEAN] /\ stamp' \in 0 .. MaxLoads
        /\ cards' \subseteq Messages /\ disabled' \in BOOLEAN
        /\ newest' \in {"pending", "ok", "failed"}
    BY <1>3, <2>2 DEF ListArrives, Answers
  <2>4. UNCHANGED <<flags, where, starred, generation, reader, opening, mutation, mutations,
                    flagging, unsure>>
    BY <1>3 DEF ListArrives
  <2>. QED
    BY <2>1, <2>3, <2>4
<1>4. ASSUME NEW g \in 1 .. MaxLoads, ListFails(g) PROVE TypeOK'
  <2>1. loads' \in [1 .. MaxLoads -> Loads \cup {None}]
    BY <1>4, <1>ended DEF ListFails
  <2>2. loads[g].previous \subseteq Messages
    BY <1>4 DEF ListFails, Loads
  <2>. QED
    BY <1>4, <2>1, <2>2 DEF ListFails
<1>5. ASSUME Search PROVE TypeOK'
  BY <1>5 DEF Search
<1>6. ASSUME NEW m \in Messages, ClickCard(m) PROVE TypeOK'
  BY <1>6 DEF ClickCard
<1>7. ASSUME MessageArrives PROVE TypeOK'
  BY <1>7 DEF MessageArrives
<1>8. ASSUME MessageFails PROVE TypeOK'
  BY <1>8 DEF MessageFails
<1>9. ASSUME NEW to \in Mailboxes, Mutate(to) PROVE TypeOK'
  <2>1. to \in Folders
    BY <1>9 DEF Mutate, Offered, Destinations, Mailboxes, Folders
  <2>2. [id |-> reader, to |-> to, step |-> "sent", load |-> 0] \in Mutations
    BY <1>9, <2>1 DEF Mutate, Mutations
  <2>. QED
    BY <1>9, <2>2 DEF Mutate
<1>10. ASSUME ProvideMutation PROVE TypeOK'
  <2>1. mutation \in Mutations
    BY <1>10 DEF ProvideMutation
  <2>. QED
    BY <1>10, <2>1 DEF ProvideMutation, Mutations
<1>11. ASSUME MutationArrives PROVE TypeOK'
  BY <1>11 DEF MutationArrives, Mutations
<1>12. ASSUME MutationFails PROVE TypeOK'
  BY <1>12 DEF MutationFails, EndMutation
<1>13. ASSUME Reload PROVE TypeOK'
  <2>1. /\ generation' \in 0 .. MaxLoads
        /\ loads' \in [1 .. MaxLoads -> Loads \cup {None}]
    BY <1>13, <1>started DEF Reload
  <2>2. [mutation EXCEPT !.step = "reloading", !.load = generation'] \in Mutations
    BY <1>13, <2>1 DEF Reload, Mutations
  <2>. QED
    BY <1>13, <2>1, <2>2 DEF Reload, StartLoad, ClearReader
<1>14. ASSUME FinishMutation PROVE TypeOK'
  BY <1>14 DEF FinishMutation, EndMutation
<1>15. ASSUME ClickFlag PROVE TypeOK'
  BY <1>15 DEF ClickFlag, Flaggings
<1>16. ASSUME ProvideFlag PROVE TypeOK'
  BY <1>16 DEF ProvideFlag, Flaggings
<1>17. ASSUME FlagArrives PROVE TypeOK'
  BY <1>17 DEF FlagArrives, Flaggings, ClearReader
<1>18. ASSUME FlagFails PROVE TypeOK'
  BY <1>18 DEF FlagFails
<1>19. ASSUME FlagRefreshed PROVE TypeOK'
  BY <1>19 DEF FlagRefreshed
<1>20. ASSUME UNCHANGED vars PROVE TypeOK'
  BY <1>20
<1>. QED
  BY <1>1, <1>2, <1>3, <1>4, <1>5, <1>6, <1>7, <1>8, <1>9, <1>10, <1>11, <1>12,
     <1>13, <1>14, <1>15, <1>16, <1>17, <1>18, <1>19, <1>20
  DEF Next

\* NewestPending is kept: only the newest load decides its own outcome.
LEMMA PendingStep == TypeOK /\ NewestPending /\ [Next]_vars => NewestPending'
<1> SUFFICES ASSUME TypeOK, NewestPending, [Next]_vars PROVE NewestPending'
  OBVIOUS
<1>types. /\ generation \in 1 .. MaxLoads /\ generation \in Nat /\ stamp \in Nat
          /\ loads \in [1 .. MaxLoads -> Loads \cup {None}]
          /\ selected \in Mailboxes
  BY InstanceAssumption DEF TypeOK, NewestPending
<1> USE <1>types DEF NewestPending, vars, provider, snapshot, view, loading, mutating
<1>1. ASSUME NEW b \in Mailboxes, SelectMailbox(b) PROVE NewestPending'
  <2>1. /\ generation' = generation + 1
        /\ newest' = "pending" /\ loads'[generation'] # None
    BY <1>1, StartLoadType DEF SelectMailbox
  <2>2. stamp' = stamp
    BY <1>1 DEF SelectMailbox
  <2>. QED
    BY <2>1, <2>2
<1>2. ASSUME NEW g \in 1 .. MaxLoads, ProvideList(g) PROVE NewestPending'
  <2>1. \A h \in 1 .. MaxLoads : loads'[h] = None <=> loads[h] = None
    BY <1>2, ProvideListType
  <2>2. UNCHANGED <<generation, newest, stamp>>
    BY <1>2 DEF ProvideList
  <2>. QED
    BY <2>1, <2>2
<1>3. ASSUME NEW g \in 1 .. MaxLoads, ListArrives(g) PROVE NewestPending'
  BY <1>3, EndLoadType DEF ListArrives
<1>4. ASSUME NEW g \in 1 .. MaxLoads, ListFails(g) PROVE NewestPending'
  BY <1>4, EndLoadType DEF ListFails
<1>5. ASSUME Reload PROVE NewestPending'
  <2>1. /\ generation' = generation + 1
        /\ newest' = "pending" /\ loads'[generation'] # None
    BY <1>5, StartLoadType DEF Reload
  <2>2. stamp' = stamp
    BY <1>5 DEF Reload
  <2>. QED
    BY <2>1, <2>2
<1>6. ASSUME UNCHANGED <<generation, loads, newest, stamp>> PROVE NewestPending'
  BY <1>6
<1>. QED
  BY <1>1, <1>2, <1>3, <1>4, <1>5, <1>6
    DEF Next, Search, ClickCard, MessageArrives, MessageFails, Mutate, ProvideMutation,
      MutationArrives, MutationFails, FinishMutation, ClickFlag, ProvideFlag, FlagArrives,
      FlagFails, FlagRefreshed

\* Released is kept: every way a load or a mutation ends releases the controls.
LEMMA ReleasedStep == TypeOK /\ NewestPending /\ Released /\ [Next]_vars => Released'
<1> SUFFICES ASSUME TypeOK, NewestPending, Released, [Next]_vars PROVE Released'
  OBVIOUS
<1>types. /\ generation \in 1 .. MaxLoads /\ generation \in Nat /\ stamp \in Nat
          /\ loads \in [1 .. MaxLoads -> Loads \cup {None}]
          /\ selected \in Mailboxes
  BY InstanceAssumption DEF TypeOK, NewestPending
<1> USE <1>types DEF NewestPending, Released, vars, provider, snapshot, view, loading, mutating
<1>1. ASSUME NEW b \in Mailboxes, SelectMailbox(b) PROVE Released'
  BY <1>1, StartLoadType DEF SelectMailbox
<1>2. ASSUME NEW g \in 1 .. MaxLoads, ProvideList(g) PROVE Released'
  <2>1. \A h \in 1 .. MaxLoads : loads'[h] = None <=> loads[h] = None
    BY <1>2, ProvideListType
  <2>2. UNCHANGED <<generation, cards, messages, disabled, mutation>>
    BY <1>2 DEF ProvideList
  <2>. QED
    BY <2>1, <2>2
<1>3. ASSUME NEW g \in 1 .. MaxLoads, ListArrives(g) PROVE Released'
  BY <1>3, EndLoadType DEF ListArrives
<1>4. ASSUME NEW g \in 1 .. MaxLoads, ListFails(g) PROVE Released'
  BY <1>4, EndLoadType DEF ListFails
<1>5. ASSUME Search PROVE Released'
  BY <1>5 DEF Search
<1>6. ASSUME MessageArrives PROVE Released'
  BY <1>6 DEF MessageArrives
<1>7. ASSUME NEW to \in Mailboxes, Mutate(to) PROVE Released'
  <2>1. mutation' # None
    BY <1>7, MutationSent
  <2>. QED
    BY <1>7, <2>1 DEF Mutate
<1>8. ASSUME ProvideMutation PROVE Released'
  <2>1. mutation' # None
    BY <1>8, MutationGoesOn
  <2>. QED
    BY <1>8, <2>1 DEF ProvideMutation
<1>9. ASSUME MutationArrives PROVE Released'
  <2>1. mutation' # None
    BY <1>9, MutationGoesOn
  <2>. QED
    BY <1>9, <2>1 DEF MutationArrives
<1>10. ASSUME MutationFails PROVE Released'
  BY <1>10 DEF MutationFails, EndMutation
<1>11. ASSUME Reload PROVE Released'
  BY <1>11, StartLoadType DEF Reload
<1>12. ASSUME FinishMutation PROVE Released'
  BY <1>12 DEF FinishMutation, EndMutation
<1>13. ASSUME FlagArrives PROVE Released'
  BY <1>13 DEF FlagArrives
<1>14. ASSUME FlagRefreshed PROVE Released'
  <2>1. disabled' => disabled
    BY <1>14, Zenon DEF FlagRefreshed
  <2>. QED
    BY <1>14, <2>1 DEF FlagRefreshed
<1>15. ASSUME UNCHANGED <<cards, messages, generation, loads, disabled, mutation>> PROVE Released'
  BY <1>15
<1>. QED
  BY <1>1, <1>2, <1>3, <1>4, <1>5, <1>6, <1>7, <1>8, <1>9, <1>10, <1>11, <1>12,
     <1>13, <1>14, <1>15
  DEF Next, ClickCard, MessageFails, ProvideFlag, ClickFlag, FlagFails

\* Fresh is kept: the provider changes only for a mutation that is not settled until
\* it has a reload of its own, and a failed one makes the generation unsure.
LEMMA FreshStep == TypeOK /\ NewestPending /\ Fresh /\ [Next]_vars => Fresh'
<1> SUFFICES ASSUME TypeOK, NewestPending, Fresh, [Next]_vars PROVE Fresh'
  OBVIOUS
<1>types. /\ generation \in 1 .. MaxLoads /\ generation \in Nat /\ stamp \in Nat
          /\ loads \in [1 .. MaxLoads -> Loads \cup {None}]
          /\ selected \in Mailboxes
  BY InstanceAssumption DEF TypeOK, NewestPending
<1> USE <1>types DEF NewestPending, Fresh, Settled, Contents, vars, provider, snapshot, view,
        loading, mutating
<1>same. ASSUME UNCHANGED <<flags, where, starred, selected, messages, newest, generation,
                           mutation, unsure, flagging>>,
                loads'[generation] = loads[generation]
         PROVE  Fresh'
  BY <1>same
<1>1. ASSUME NEW b \in Mailboxes, SelectMailbox(b) PROVE Fresh'
  <2>1. /\ newest' = "pending" /\ loads'[generation'].answer = None
        /\ UNCHANGED <<flags, flagging>>
    BY <1>1, StartLoadType DEF SelectMailbox, StartLoad
  <2>. QED
    BY <2>1
<1>2. ASSUME NEW g \in 1 .. MaxLoads, ProvideList(g) PROVE Fresh'
  <2>1. /\ \A h \in 1 .. MaxLoads : h # g => loads'[h] = loads[h]
        /\ \A h \in 1 .. MaxLoads : loads'[h] = None <=> loads[h] = None
        /\ loads'[g].answer.ids = Contents(loads'[g].mailbox)
    BY <1>2, ProvideListType
  <2>2. UNCHANGED <<flags, where, starred, selected, messages, newest, generation, mutation,
                    unsure, flagging>>
    BY <1>2 DEF ProvideList
  <2>3. CASE g = generation
    BY <2>1, <2>2, <2>3
  <2>4. CASE g # generation
    <3>1. loads'[generation] = loads[generation]
      BY <2>1, <2>4
    <3>. QED
      BY <2>2, <3>1, <1>same
  <2>. QED
    BY <2>3, <2>4
<1>3. ASSUME NEW g \in 1 .. MaxLoads, ListArrives(g) PROVE Fresh'
  <2>1. /\ loads'[g] = None
        /\ \A h \in 1 .. MaxLoads : h # g => loads'[h] = loads[h]
    BY <1>3, EndLoadType DEF ListArrives
  <2>2. UNCHANGED <<flags, where, starred, generation, mutation, unsure, flagging>>
    BY <1>3 DEF ListArrives
  <2>3. CASE g = generation
    <3>1. /\ loads[g] # None /\ loads[g].answer # None
          /\ messages' = loads[g].answer.ids /\ selected' = loads[g].mailbox
      BY <1>3, <2>3 DEF ListArrives
    <3>. QED
      BY <2>1, <2>2, <2>3, <3>1
  <2>4. CASE g # generation
    <3>1. UNCHANGED <<selected, messages, newest>>
      BY <1>3, <2>4 DEF ListArrives
    <3>2. loads'[generation] = loads[generation]
      BY <2>1, <2>4
    <3>. QED
      BY <2>2, <3>1, <3>2, <1>same
  <2>. QED
    BY <2>3, <2>4
<1>4. ASSUME NEW g \in 1 .. MaxLoads, ListFails(g) PROVE Fresh'
  <2>1. /\ loads'[g] = None
        /\ \A h \in 1 .. MaxLoads : h # g => loads'[h] = loads[h]
    BY <1>4, EndLoadType DEF ListFails
  <2>2. UNCHANGED <<flags, where, starred, generation, mutation, unsure, flagging>>
    BY <1>4 DEF ListFails
  <2>3. CASE g = generation
    <3>1. newest' = "failed"
      BY <1>4, <2>3 DEF ListFails
    <3>. QED
      BY <2>1, <2>2, <2>3, <3>1
  <2>4. CASE g # generation
    <3>1. UNCHANGED <<selected, messages, newest>>
      BY <1>4, <2>4 DEF ListFails
    <3>2. loads'[generation] = loads[generation]
      BY <2>1, <2>4
    <3>. QED
      BY <2>2, <3>1, <3>2, <1>same
  <2>. QED
    BY <2>3, <2>4
<1>5. ASSUME NEW to \in Mailboxes, Mutate(to) PROVE Fresh'
  <2>1. UNCHANGED <<flags, where, starred, snapshot, loading, unsure, flagging>> /\ Settled
    BY <1>5 DEF Mutate
  <2>. QED
    BY <2>1
<1>6. ASSUME ProvideMutation PROVE Fresh'
  <2>1. ~Settled'
    BY <1>6, MutationGoesOn
  <2>2. UNCHANGED <<flags, flagging>>
    BY <1>6 DEF ProvideMutation
  <2>. QED
    BY <2>1, <2>2
<1>7. ASSUME MutationArrives PROVE Fresh'
  <2>1. ~Settled'
    BY <1>7, MutationGoesOn
  <2>2. UNCHANGED <<flags, flagging>>
    BY <1>7 DEF MutationArrives
  <2>. QED
    BY <2>1, <2>2
<1>8. ASSUME MutationFails PROVE Fresh'
  BY <1>8 DEF MutationFails
<1>9. ASSUME Reload PROVE Fresh'
  <2>1. /\ newest' = "pending" /\ loads'[generation'].answer = None
        /\ UNCHANGED <<flags, flagging>>
    BY <1>9, StartLoadType DEF Reload, StartLoad
  <2>. QED
    BY <2>1
<1>10. ASSUME FinishMutation PROVE Fresh'
  <2>1. UNCHANGED <<flags, where, starred, snapshot, loading, unsure, flagging>> /\ Settled
    BY <1>10 DEF FinishMutation
  <2>. QED
    BY <2>1
<1>11. ASSUME ClickFlag PROVE Fresh'
  BY <1>11 DEF ClickFlag
<1>12. ASSUME ProvideFlag PROVE Fresh'
  BY <1>12 DEF ProvideFlag
<1>13. ASSUME FlagArrives PROVE Fresh'
  BY <1>13 DEF FlagArrives
<1>14. ASSUME FlagFails PROVE Fresh'
  BY <1>14 DEF FlagFails
<1>15. ASSUME FlagRefreshed PROVE Fresh'
  BY <1>15 DEF FlagRefreshed
<1>16. ASSUME UNCHANGED <<flags, where, starred, selected, messages, newest, generation, loads,
              mutation,
                       unsure, flagging>> PROVE Fresh'
  BY <1>16
<1>. QED
  BY <1>1, <1>2, <1>3, <1>4, <1>5, <1>6, <1>7, <1>8, <1>9, <1>10, <1>11, <1>12,
     <1>13, <1>14, <1>15, <1>16
  DEF Next, Search, ClickCard, MessageArrives, MessageFails

-----------------------------------------------------------------------------
(* Theorems *)

\* The initial state satisfies the inductive invariant.
LEMMA InitIInv == Init => IInv
<1> SUFFICES ASSUME Init PROVE IInv
  OBVIOUS
<1> USE InstanceAssumption DEF Init
<1> DEFINE first == [mailbox |-> "inbox", previous |-> {}, answer |-> None]
<1>1. first \in Loads /\ first # None
  <2>1. first \in Loads
    BY DEF Loads, Mailboxes
  <2>. QED
    BY <2>1
<1>2. loads = [g \in 1 .. MaxLoads |-> IF g = 1 THEN first ELSE None]
  OBVIOUS
<1>3. loads \in [1 .. MaxLoads -> Loads \cup {None}] /\ loads[1] # None /\ loads[1].answer = None
  <2>1. loads[1] = first /\ first.answer = None
    BY <1>2
  <2>. QED
    BY <1>1, <1>2, <2>1
<1> HIDE DEF first
<1>4. TypeOK
  <2>1. MaxLoads \in Nat /\ MaxLoads >= 1 /\ MaxMutations \in Nat
    OBVIOUS
  <2>2. /\ generation \in 0 .. MaxLoads /\ stamp \in 0 .. MaxLoads /\ unsure \in 0 .. MaxLoads
        /\ mutations \in 0 .. MaxMutations
    BY <2>1
  <2>. QED
    BY <1>3, <2>2 DEF TypeOK, Mailboxes, Folders, NoMessages
<1>5. NewestPending /\ Released /\ Fresh
  BY <1>3 DEF NewestPending, Released, Fresh
<1>. QED
  BY <1>4, <1>5 DEF IInv

\* The inductive invariant holds: what every later theorem rests on.
LEMMA Invariance == Spec => []IInv
<1>1. IInv /\ [Next]_vars => IInv'
  BY TypeStep, PendingStep, ReleasedStep, FreshStep DEF IInv
<1>. QED
  BY <1>1, InitIInv, PTL DEF Spec

\* The state of the shell and of the provider has the declared types.
THEOREM TypeCorrect == Spec => []TypeOK
<1>1. IInv => TypeOK
  BY DEF IInv
<1>. QED
  BY <1>1, Invariance, PTL

\* However slow answers overtake each other and whatever fails, the messages shown
\* after a successful newest load are that load's, and the title changes only together
\* with the messages.
THEOREM NewestWins == Spec => NewestLoadWins
<1>1. IInv => (newest = "ok" => stamp = generation)
  BY DEF IInv, NewestPending
<1>2. ASSUME IInv, [Next]_vars PROVE [selected' # selected => stamp' # stamp]_vars
  <2> SUFFICES ASSUME selected' # selected PROVE stamp' # stamp
    OBVIOUS
  <2>1. PICK g \in 1 .. MaxLoads : ListArrives(g)
    <3>1. \/ UNCHANGED snapshot
          \/ \E g \in 1 .. MaxLoads : ListArrives(g) \/ ListFails(g)
          \/ FlagArrives
      BY <1>2 DEF Next, vars, SelectMailbox, ProvideList, Search, ClickCard, MessageArrives,
                  MessageFails, Mutate, ProvideMutation, MutationArrives, MutationFails, Reload,
                  FinishMutation, ClickFlag, ProvideFlag, FlagFails, FlagRefreshed
    <3>. QED
      BY <3>1 DEF snapshot, ListFails, FlagArrives
  <2>2. g = generation /\ stamp' = g /\ loads[g] # None
    BY <2>1 DEF ListArrives, snapshot
  <2>3. stamp < generation /\ stamp \in Nat /\ generation \in Nat
    BY <1>2, <2>2, InstanceAssumption DEF IInv, TypeOK, NewestPending
  <2>. QED
    BY <2>2, <2>3
<1>. QED
  BY <1>1, <1>2, Invariance, PTL DEF Spec, NewestLoadWins

\* Disabled buttons or a list that says "Loading" always have a load or a mutation
\* under way that will release them.
THEOREM NeverHeld == Spec => []NeverStuck
<1>1. IInv => NeverStuck
  <2> SUFFICES ASSUME IInv, disabled \/ cards # messages
               PROVE  mutation # None \/ \E g \in 1 .. MaxLoads : loads[g] # None
    BY DEF NeverStuck
  <2>1. mutation # None \/ loads[generation] # None
    BY DEF IInv, Released
  <2>2. generation \in 1 .. MaxLoads
    BY InstanceAssumption DEF IInv, TypeOK, NewestPending
  <2>. QED
    BY <2>1, <2>2
<1>. QED
  BY <1>1, Invariance, PTL

\* Without flags, once everything has been answered, a successful newest read later
\* than the last mutation of unknown outcome shows what the provider holds.
THEOREM Converges == Spec => []ListConverges
<1>1. IInv => ListConverges
  BY DEF IInv, Fresh, Settled, ListConverges, Quiet
<1>. QED
  BY <1>1, Invariance, PTL

-----------------------------------------------------------------------------
(* The compose dialog *)

\* The submissions that have been answered.
Done == {i \in 1 .. MaxWrites : writes[i] # Absent /\ ~writes[i].pending}

\* A shown dialog has a number, submissions are numbered without gaps, and every timer
\* comes from an answer.
Counted ==
  /\ open => compose >= 1
  /\ \A i \in 1 .. MaxWrites : i > Cardinality(Submissions) => writes[i] = Absent
  /\ timers <= Cardinality(Done)

\* The preview shows what a submission would take, it was put there for this opening, and
\* where the input holds files it is not empty unless some selection is being read.
Shown ==
  /\ attached.content = preview
  /\ attached.content # {} => attached.shownIn = compose
  /\ picker # {} =>
       attached.content # {} \/ \E i \in 1 .. MaxSelections : reading[i] # Absent

DialogIInv == DialogTypeOK /\ Counted /\ Shown /\ PreviewIsWhatLeaves

\* A selection being read: what has been read and what has not are apart, together no
\* more files than allowed, and what has been read is within the limits.
Partial(r) ==
  /\ r.todo # {}
  /\ IsFiniteSet(r.done)
  /\ Cardinality(r.done) + Cardinality(r.todo) <= MaxFiles
  /\ \A a \in r.done : a[1] \notin r.todo /\ a[2] = Declared[a[1]] /\ a[2] <= MaxFileSize
  /\ TotalSize(r.done) <= MaxTotal

\* The limits are kept from the first file read to the message submitted.
LimitsKept ==
  /\ \A i \in 1 .. MaxSelections : reading[i] # Absent => Partial(reading[i])
  /\ WithinLimits(attached.content)
  /\ OnlyCheckedAttachmentsLeave

-----------------------------------------------------------------------------

\* What the picker is said to hold at a submission.
LEMMA ChosenIs ==
  ASSUME DialogTypeOK
  PROVE  /\ Chosen \in {"nothing", "files", "being read"}
         /\ picker # {} /\ (\E i \in 1 .. MaxSelections : reading[i] # Absent)
              => Chosen = "being read"
         /\ picker = {} => Chosen = "nothing"
<1>1. DOMAIN reading = 1 .. MaxSelections
  BY DEF DialogTypeOK
<1>. QED
  BY <1>1, Zenon DEF Chosen

\* Submissions and answers are finitely many, numbers of the program.
LEMMA Finite ==
  /\ IsFiniteSet(Submissions) /\ Cardinality(Submissions) \in Nat
  /\ IsFiniteSet(Done) /\ Cardinality(Done) \in 0 .. MaxWrites
  /\ IsFiniteSet(1 .. MaxWrites) /\ Cardinality(1 .. MaxWrites) = MaxWrites
<1>1. IsFiniteSet(1 .. MaxWrites) /\ Cardinality(1 .. MaxWrites) = MaxWrites
  BY FS_Interval, DialogAssumption
<1>2. Submissions \subseteq 1 .. MaxWrites /\ Done \subseteq 1 .. MaxWrites
  BY DEF Submissions, Done
<1>3. /\ IsFiniteSet(Submissions) /\ IsFiniteSet(Done)
      /\ Cardinality(Done) <= MaxWrites
  BY <1>1, <1>2, FS_Subset
<1>. QED
  BY <1>1, <1>3, FS_CardinalityType, DialogAssumption

\* A submitted message is the next of the list, and pending.
LEMMA SubmitAppends ==
  ASSUME DialogTypeOK, Counted, Submit
  PROVE  LET k == Cardinality(Submissions) + 1
         IN  /\ k \in 1 .. MaxWrites /\ writes[k] = Absent
             /\ Message \in Writes
             /\ writes' = [writes EXCEPT ![k] = Message]
<1> DEFINE k == Cardinality(Submissions) + 1
<1>1. k \in 1 .. MaxWrites
  <2>1. Cardinality(Submissions) \in Nat
    BY Finite
  <2>2. Cardinality(Submissions) < MaxWrites /\ MaxWrites \in Nat
    BY DialogAssumption DEF Submit
  <2>. QED
    BY <2>1, <2>2
<1>2. writes[k] = Absent
  BY <1>1, Finite DEF Counted
<1>3. compose \in 1 .. MaxComposes
  BY DialogAssumption DEF Submit, DialogTypeOK, Counted
<1>4. Message \in Writes
  BY <1>3, ChosenIs DEF Message, Writes, DialogTypeOK
<1>5. writes' = [writes EXCEPT ![k] = Message]
  BY DEF Submit
<1>. QED
  BY <1>1, <1>2, <1>4, <1>5

\* An answered submission differs from the pending one only in that.
LEMMA Answer ==
  ASSUME DialogTypeOK, NEW i \in 1 .. MaxWrites,
         WriteSucceeds(i) \/ WriteFails(i)
  PROVE  LET w == [writes[i] EXCEPT !.pending = FALSE]
         IN  /\ w \in Writes /\ w # Absent /\ writes[i] # Absent
             /\ w.compose = writes[i].compose /\ w.attachments = writes[i].attachments
             /\ w.chosen = writes[i].chosen /\ w.shown = writes[i].shown /\ ~w.pending
             /\ writes[i].pending
             /\ writes' = [writes EXCEPT ![i] = w]
<1> DEFINE w == [writes[i] EXCEPT !.pending = FALSE]
<1>1. writes[i] \in Writes /\ writes[i] # Absent /\ writes[i].pending
  BY DEF DialogTypeOK, WriteSucceeds, WriteFails
<1>2. /\ w \in Writes
      /\ w.compose = writes[i].compose /\ w.attachments = writes[i].attachments
      /\ w.chosen = writes[i].chosen /\ w.shown = writes[i].shown /\ ~w.pending
  BY <1>1 DEF Writes
<1>3. w # Absent
  BY <1>2, DialogAssumption
<1>4. writes' = [writes EXCEPT ![i] = w]
  BY DEF WriteSucceeds, WriteFails
<1>. QED
  BY <1>1, <1>2, <1>3, <1>4

\* A file read either ends its selection, refused or as the new list, or is added to it.
LEMMA ReadFileIs ==
  ASSUME DialogTypeOK, NEW i \in 1 .. MaxSelections,
         NEW f \in Files, NEW n \in Actual, ReadFile(i, f, n)
  PROVE  LET r == reading[i]
             done == r.done \cup {<<f, n>>}
             next == [todo |-> r.todo \ {f}, done |-> done]
         IN  /\ r \in Readings /\ r # Absent /\ f \in r.todo
             /\ done \in Attachments /\ next \in Readings /\ next # Absent
             /\ \/ EndReading(i) /\ Reject
                \/ /\ Fits(f, n, r.done) /\ r.todo \ {f} # {}
                   /\ reading' = [reading EXCEPT ![i] = next]
                   /\ UNCHANGED <<attached, preview, picker>>
                \/ /\ Fits(f, n, r.done) /\ r.todo \ {f} = {}
                   /\ EndReading(i)
                   /\ attached' = [content |-> done, shownIn |-> compose] /\ preview' = done
                   /\ UNCHANGED picker
<1> DEFINE r == reading[i]
           done == r.done \cup {<<f, n>>}
           next == [todo |-> r.todo \ {f}, done |-> done]
<1>1. r \in Readings /\ r # Absent /\ f \in r.todo
  BY DEF DialogTypeOK, ReadFile
<1>2. done \in Attachments
  BY <1>1 DEF Readings, Attachments
<1>3. next \in Readings
  BY <1>1, <1>2 DEF Readings
<1>4. next # Absent
  BY <1>3, DialogAssumption
<1>. QED
  BY <1>1, <1>2, <1>3, <1>4 DEF ReadFile, Render, materialized

-----------------------------------------------------------------------------

\* An answer turns one more submission into a done one, and leaves their number.
LEMMA AnswerCounts ==
  ASSUME DialogTypeOK, NEW i \in 1 .. MaxWrites,
         WriteSucceeds(i) \/ WriteFails(i)
  PROVE  /\ Submissions' = Submissions
         /\ Cardinality(Done') = Cardinality(Done) + 1 /\ Cardinality(Done) < MaxWrites
<1>1. i \notin Done /\ Done \cup {i} \subseteq 1 .. MaxWrites
  BY Answer DEF Done
<1>2. IsFiniteSet(Done) /\ Cardinality(Done) \in Nat /\ MaxWrites \in Nat
  BY Finite, DialogAssumption
<1>3. Cardinality(Done \cup {i}) = Cardinality(Done) + 1
  BY <1>1, <1>2, FS_AddElement
<1>4. IsFiniteSet(1 .. MaxWrites) /\ Cardinality(1 .. MaxWrites) = MaxWrites
  BY Finite
<1>5. Cardinality(Done \cup {i}) <= MaxWrites
  BY <1>1, <1>4, FS_Subset
<1>6. PICK w : w # Absent /\ ~w.pending /\ writes' = [writes EXCEPT ![i] = w]
  BY Answer
<1>7. /\ writes' \in [1 .. MaxWrites -> {writes'[j] : j \in 1 .. MaxWrites}]
      /\ writes'[i] = w /\ \A j \in 1 .. MaxWrites : j # i => writes'[j] = writes[j]
  BY <1>6 DEF DialogTypeOK
<1>8. writes[i] # Absent
  BY Answer
<1>9. Done' = Done \cup {i} /\ Submissions' = Submissions
  BY <1>6, <1>7, <1>8 DEF Done, Submissions
<1>. QED
  BY <1>2, <1>3, <1>5, <1>9

\* Every step of the dialog keeps the types.
LEMMA DialogTypeStep ==
  ASSUME DialogTypeOK, Counted, [DialogNext]_dialogVars
  PROVE  DialogTypeOK'
<1>read. ASSUME NEW i \in 1 .. MaxSelections, NEW f \in Files, NEW n \in Actual,
                ReadFile(i, f, n)
         PROVE  \E done \in Attachments, next \in Readings :
                  \/ EndReading(i) /\ Reject
                  \/ reading' = [reading EXCEPT ![i] = next] /\ UNCHANGED <<attached, preview, picker>>
                  \/ /\ EndReading(i) /\ UNCHANGED picker
                     /\ attached' = [content |-> done, shownIn |-> compose] /\ preview' = done
  <2> DEFINE done == reading[i].done \cup {<<f, n>>}
             next == [todo |-> reading[i].todo \ {f}, done |-> done]
  <2>1. /\ done \in Attachments /\ next \in Readings
        /\ \/ EndReading(i) /\ Reject
           \/ reading' = [reading EXCEPT ![i] = next] /\ UNCHANGED <<attached, preview, picker>>
           \/ /\ EndReading(i) /\ UNCHANGED picker
              /\ attached' = [content |-> done, shownIn |-> compose] /\ preview' = done
    BY <1>read, ReadFileIs
  <2> HIDE DEF done, next
  <2>. QED
    BY <2>1
<1>submitted. ASSUME Submit
              PROVE  writes' \in [1 .. MaxWrites -> Writes \cup {Absent}]
  BY <1>submitted, SubmitAppends DEF DialogTypeOK
<1>answered. ASSUME NEW i \in 1 .. MaxWrites, WriteSucceeds(i) \/ WriteFails(i)
             PROVE  /\ writes' \in [1 .. MaxWrites -> Writes \cup {Absent}]
                    /\ Cardinality(Done) < MaxWrites /\ Cardinality(Done) \in Nat
  <2>1. PICK w \in Writes : writes' = [writes EXCEPT ![i] = w]
    BY <1>answered, Answer
  <2>2. Cardinality(Done) < MaxWrites /\ Cardinality(Done) \in Nat
    BY <1>answered, AnswerCounts, Finite
  <2>. QED
    BY <2>1, <2>2 DEF DialogTypeOK
<1>bounds. MaxFiles \in Nat /\ MaxComposes \in Nat /\ MaxSelections \in Nat /\ MaxWrites \in Nat
  BY DialogAssumption
<1> USE <1>bounds DEF DialogTypeOK, NoAttachments, Lists, Attachments,
                      dialog, materialized, Clear, Reject, EndReading
<1>1. ASSUME OpenCompose PROVE DialogTypeOK'
  BY <1>1 DEF OpenCompose
<1>2. ASSUME Close PROVE DialogTypeOK'
  BY <1>2 DEF Close
<1>3. ASSUME CloseByTimer PROVE DialogTypeOK'
  <2>1. /\ timers' = timers - 1 /\ timers > 0 /\ open' = FALSE
        /\ UNCHANGED <<gateway, compose, picker, reading, picks, attached, preview, writes>>
    BY <1>3 DEF CloseByTimer
  <2>2. timers' \in 0 .. MaxWrites
    BY <2>1
  <2>. QED
    BY <2>1, <2>2
<1>4. ASSUME NEW files \in SUBSET Files, Select(files) PROVE DialogTypeOK'
  <2>1. [todo |-> files, done |-> {}] \in Readings
    BY DEF Readings
  <2>2. picks' \in 0 .. MaxSelections
    BY <1>4 DEF Select
  <2>3. /\ Clear \/ UNCHANGED <<attached, preview>>
        /\ picker' = {} \/ picker' = files
        /\ \/ reading' = reading
           \/ reading' = [reading EXCEPT ![picks + 1] = [todo |-> files, done |-> {}]]
        /\ UNCHANGED <<gateway, open, compose, writes, timers>>
    BY <1>4 DEF Select
  <2>4. reading' \in [1 .. MaxSelections -> Readings \cup {Absent}]
    BY <2>1, <2>3
  <2>5. attached' \in Lists /\ preview' \in Attachments /\ picker' \subseteq Files
    BY <2>3
  <2>. QED
    BY <2>2, <2>3, <2>4, <2>5
<1>5. ASSUME NEW i \in 1 .. MaxSelections, NEW f \in Files, NEW n \in Actual,
             ReadFile(i, f, n) PROVE DialogTypeOK'
  <2>1. PICK done \in Attachments, next \in Readings :
          \/ EndReading(i) /\ Reject
          \/ reading' = [reading EXCEPT ![i] = next] /\ UNCHANGED <<attached, preview, picker>>
          \/ /\ EndReading(i) /\ UNCHANGED picker
             /\ attached' = [content |-> done, shownIn |-> compose] /\ preview' = done
    BY <1>5, <1>read
  <2>2. UNCHANGED <<gateway, open, compose, picks, writes, timers>>
    BY <1>5 DEF ReadFile
  <2>. QED
    BY <2>1, <2>2
<1>6. ASSUME NEW i \in 1 .. MaxSelections, RejectFile(i) PROVE DialogTypeOK'
  BY <1>6 DEF RejectFile
<1>7. ASSUME Submit PROVE DialogTypeOK'
  <2>1. writes' \in [1 .. MaxWrites -> Writes \cup {Absent}]
    BY <1>7, <1>submitted
  <2>. QED
    BY <1>7, <2>1 DEF Submit
<1>8. ASSUME NEW i \in 1 .. MaxWrites, WriteSucceeds(i) PROVE DialogTypeOK'
  <2>1. writes' \in [1 .. MaxWrites -> Writes \cup {Absent}]
    BY <1>8, <1>answered
  <2>2. timers < MaxWrites
    BY <1>8, <1>answered DEF Counted
  <2>. QED
    BY <1>8, <2>1, <2>2 DEF WriteSucceeds
<1>9. ASSUME NEW i \in 1 .. MaxWrites, WriteFails(i) PROVE DialogTypeOK'
  <2>1. writes' \in [1 .. MaxWrites -> Writes \cup {Absent}]
    BY <1>9, <1>answered
  <2>. QED
    BY <1>9, <2>1 DEF WriteFails
<1>10. ASSUME UNCHANGED <<gateway, open, compose, picker, reading, picks, attached, preview, writes,
              timers>> PROVE DialogTypeOK'
  BY <1>10
<1>. QED
  BY <1>1, <1>2, <1>3, <1>4, <1>5, <1>6, <1>7, <1>8, <1>9, <1>10
  DEF DialogNext, dialogVars, dialog

\* Counted is kept: a submission takes the next number, an answer turns one into a done
\* one and starts at most one timer.
LEMMA CountedStep ==
  ASSUME DialogTypeOK, Counted, [DialogNext]_dialogVars
  PROVE  Counted'
<1>types. timers \in Nat /\ compose \in Nat /\ Cardinality(Done) \in Nat
  BY Finite, DialogAssumption DEF DialogTypeOK
<1> USE <1>types DEF Counted, dialog
<1>1. ASSUME OpenCompose PROVE Counted'
  <2>1. UNCHANGED <<writes, timers>> /\ compose' >= 1
    BY <1>1 DEF OpenCompose
  <2>. QED
    BY <2>1 DEF Done, Submissions
<1>2. ASSUME Close PROVE Counted'
  <2>1. UNCHANGED <<writes, timers>> /\ ~open'
    BY <1>2 DEF Close
  <2>. QED
    BY <2>1 DEF Done, Submissions
<1>3. ASSUME CloseByTimer PROVE Counted'
  <2>1. UNCHANGED writes /\ timers' <= timers /\ ~open'
    BY <1>3 DEF CloseByTimer
  <2>2. Done' = Done /\ Submissions' = Submissions
    BY <2>1 DEF Done, Submissions
  <2>3. timers' \in Int
    BY <1>3 DEF CloseByTimer
  <2>. QED
    BY <2>1, <2>2, <2>3
<1>4. ASSUME Submit PROVE Counted'
  <2> DEFINE k == Cardinality(Submissions) + 1
  <2>1. /\ k \in 1 .. MaxWrites /\ writes[k] = Absent /\ Message # Absent
        /\ writes' = [writes EXCEPT ![k] = Message]
    BY <1>4, SubmitAppends, DialogAssumption
  <2>2. Cardinality(Submissions) \in Nat /\ IsFiniteSet(Submissions)
    BY Finite
  <2>3. /\ writes'[k] = Message
        /\ \A j \in 1 .. MaxWrites : j # k => writes'[j] = writes[j]
    BY <2>1 DEF DialogTypeOK
  <2>4. Message.pending
    BY DEF Message
  <2> HIDE DEF k
  <2>5. Done' = Done
    BY <2>1, <2>3, <2>4 DEF Done
  <2>6. Submissions' = Submissions \cup {k} /\ k \notin Submissions
    BY <2>1, <2>3 DEF Submissions
  <2>7. Cardinality(Submissions') = k
    BY <2>2, <2>6, FS_AddElement DEF k
  <2>8. UNCHANGED <<open, compose, timers>>
    BY <1>4 DEF Submit
  <2>9. ASSUME NEW i \in 1 .. MaxWrites, i > k PROVE writes'[i] = Absent
    BY <2>2, <2>3, <2>9 DEF k
  <2>. QED
    BY <2>5, <2>7, <2>8, <2>9
<1>5. ASSUME NEW i \in 1 .. MaxWrites, WriteSucceeds(i) PROVE Counted'
  <2>1. /\ Submissions' = Submissions
        /\ Cardinality(Done') = Cardinality(Done) + 1
    BY <1>5, AnswerCounts
  <2>2. PICK w : writes' = [writes EXCEPT ![i] = w]
    BY <1>5, Answer
  <2>3. i <= Cardinality(Submissions)
    <3>1. writes[i] # Absent
      BY <1>5, Answer
    <3>. QED
      BY <3>1, Finite
  <2>4. /\ timers' = timers + 1 /\ UNCHANGED <<open, compose>>
    BY <1>5 DEF WriteSucceeds
  <2>5. \A j \in 1 .. MaxWrites : j # i => writes'[j] = writes[j]
    BY <2>2 DEF DialogTypeOK
  <2>. QED
    BY <2>1, <2>3, <2>4, <2>5, Finite
<1>6. ASSUME NEW i \in 1 .. MaxWrites, WriteFails(i) PROVE Counted'
  <2>1. /\ Submissions' = Submissions
        /\ Cardinality(Done') = Cardinality(Done) + 1
    BY <1>6, AnswerCounts
  <2>2. PICK w : writes' = [writes EXCEPT ![i] = w]
    BY <1>6, Answer
  <2>3. i <= Cardinality(Submissions)
    <3>1. writes[i] # Absent
      BY <1>6, Answer
    <3>. QED
      BY <3>1, Finite
  <2>4. UNCHANGED <<timers, open, compose>>
    BY <1>6 DEF WriteFails
  <2>5. \A j \in 1 .. MaxWrites : j # i => writes'[j] = writes[j]
    BY <2>2 DEF DialogTypeOK
  <2>. QED
    BY <2>1, <2>3, <2>4, <2>5, Finite
<1>7. ASSUME UNCHANGED <<open, compose, writes, timers>> PROVE Counted'
  BY <1>7 DEF Done, Submissions
<1>. QED
  BY <1>1, <1>2, <1>3, <1>4, <1>5, <1>6, <1>7
  DEF DialogNext, dialogVars, dialog, Select, ReadFile, RejectFile

\* Shown is kept: a selection that ends fills the preview or empties the input, and
\* whoever empties the preview empties the input.
LEMMA ShownStep ==
  ASSUME DialogTypeOK, Shown, [DialogNext]_dialogVars
  PROVE  Shown'
<1> USE DEF Shown, NoAttachments, Clear, dialog, materialized
<1>1. ASSUME OpenCompose PROVE Shown'
  BY <1>1 DEF OpenCompose
<1>2. ASSUME NEW files \in SUBSET Files, Select(files) PROVE Shown'
  <2>1. CASE Clear /\ picker' = {}
    BY <2>1
  <2>2. CASE /\ UNCHANGED <<attached, preview, compose>> /\ picks < MaxSelections
             /\ reading' = [reading EXCEPT ![picks + 1] = [todo |-> files, done |-> {}]]
    <3>1. picks + 1 \in 1 .. MaxSelections
      BY <2>2, DialogAssumption DEF DialogTypeOK
    <3>2. [todo |-> files, done |-> {}] # Absent
      BY DialogAssumption DEF Readings, Attachments
    <3>3. reading'[picks + 1] # Absent
      BY <2>2, <3>1, <3>2 DEF DialogTypeOK
    <3>. QED
      BY <2>2, <3>1, <3>3
  <2>. QED
    BY <1>2, <2>1, <2>2 DEF Select, Reject
<1>3. ASSUME NEW i \in 1 .. MaxSelections, NEW f \in Files, NEW n \in Actual,
             ReadFile(i, f, n) PROVE Shown'
  <2>1. UNCHANGED compose
    BY <1>3 DEF ReadFile
  <2>2. CASE Reject
    BY <2>2 DEF Reject
  <2>3. CASE \E next : /\ next # Absent /\ reading' = [reading EXCEPT ![i] = next]
                       /\ UNCHANGED <<attached, preview, picker>>
    <3>1. reading'[i] # Absent
      BY <2>3 DEF DialogTypeOK
    <3>. QED
      BY <2>1, <2>3, <3>1
  <2>4. CASE \E done : /\ done # {} /\ preview' = done
                       /\ attached' = [content |-> done, shownIn |-> compose]
    BY <2>1, <2>4
  <2> DEFINE done == reading[i].done \cup {<<f, n>>}
             next == [todo |-> reading[i].todo \ {f}, done |-> done]
  <2>5. /\ next # Absent
        /\ \/ Reject
           \/ reading' = [reading EXCEPT ![i] = next] /\ UNCHANGED <<attached, preview, picker>>
           \/ attached' = [content |-> done, shownIn |-> compose] /\ preview' = done
    <3>1. next # Absent
      <4> HIDE DEF Shown, Clear, dialog, materialized
      <4>. QED
        BY <1>3, ReadFileIs
    <3>2. \/ EndReading(i) /\ Reject
          \/ /\ Fits(f, n, reading[i].done) /\ reading[i].todo \ {f} # {}
             /\ reading' = [reading EXCEPT ![i] = next]
             /\ UNCHANGED <<attached, preview, picker>>
          \/ /\ Fits(f, n, reading[i].done) /\ reading[i].todo \ {f} = {}
             /\ EndReading(i)
             /\ attached' = [content |-> done, shownIn |-> compose] /\ preview' = done
             /\ UNCHANGED picker
      BY <1>3, ReadFileIs
    <3> HIDE DEF done, next
    <3>. QED
      BY <3>1, <3>2
  <2>6. done # {}
    OBVIOUS
  <2> HIDE DEF done, next
  <2>. QED
    BY <2>2, <2>3, <2>4, <2>5, <2>6
<1>4. ASSUME NEW i \in 1 .. MaxSelections, RejectFile(i) PROVE Shown'
  BY <1>4 DEF RejectFile, Reject
<1>5. ASSUME NEW i \in 1 .. MaxWrites, WriteSucceeds(i) PROVE Shown'
  BY <1>5 DEF WriteSucceeds
<1>6. ASSUME UNCHANGED <<compose, picker, reading, attached, preview>> PROVE Shown'
  BY <1>6
<1>. QED
  BY <1>1, <1>2, <1>3, <1>4, <1>5, <1>6
  DEF DialogNext, dialogVars, dialog, Close, CloseByTimer, Submit,
      WriteFails

\* What has left was shown by its own dialog: a submission takes over the preview as it is.
LEMMA LeavesStep ==
  ASSUME DialogTypeOK, Counted, Shown, PreviewIsWhatLeaves,
         [DialogNext]_dialogVars
  PROVE  PreviewIsWhatLeaves'
<1> USE DEF PreviewIsWhatLeaves, Submissions, dialog
<1>1. ASSUME Submit PROVE PreviewIsWhatLeaves'
  <2> DEFINE k == Cardinality(Submissions) + 1
  <2>1. k \in 1 .. MaxWrites /\ writes' = [writes EXCEPT ![k] = Message]
    BY <1>1, SubmitAppends
  <2>2. /\ writes'[k] = Message
        /\ \A j \in 1 .. MaxWrites : j # k => writes'[j] = writes[j]
    BY <2>1 DEF DialogTypeOK
  <2>3. /\ Message.attachments = attached /\ Message.shown = preview
        /\ Message.compose = compose /\ Message.chosen = Chosen
    BY DEF Message
  <2> HIDE DEF k
  <2>4. attached.content = {} => Chosen # "files"
    BY ChosenIs DEF Shown
  <2>. QED
    BY <2>2, <2>3, <2>4 DEF Shown
<1>2. ASSUME NEW i \in 1 .. MaxWrites, WriteSucceeds(i) PROVE PreviewIsWhatLeaves'
  <2>1. PICK w : /\ w # Absent /\ writes[i] # Absent
                 /\ w.compose = writes[i].compose /\ w.attachments = writes[i].attachments
                 /\ w.chosen = writes[i].chosen /\ w.shown = writes[i].shown
                 /\ writes' = [writes EXCEPT ![i] = w]
    BY <1>2, Answer
  <2>2. writes'[i] = w /\ \A j \in 1 .. MaxWrites : j # i => writes'[j] = writes[j]
    BY <2>1 DEF DialogTypeOK
  <2> SUFFICES ASSUME NEW j \in 1 .. MaxWrites, writes'[j] # Absent
               PROVE  /\ writes'[j].attachments.content = writes'[j].shown
                      /\ writes'[j].attachments.content # {} =>
                           writes'[j].attachments.shownIn = writes'[j].compose
                      /\ writes'[j].attachments.content = {} =>
                           writes'[j].chosen # "files"
    OBVIOUS
  <2>3. writes[j] # Absent /\ writes'[j].attachments = writes[j].attachments
    BY <2>1, <2>2
  <2>4. /\ writes'[j].compose = writes[j].compose /\ writes'[j].chosen = writes[j].chosen
        /\ writes'[j].shown = writes[j].shown
    BY <2>1, <2>2
  <2>. QED
    BY <2>3, <2>4
<1>3. ASSUME NEW i \in 1 .. MaxWrites, WriteFails(i) PROVE PreviewIsWhatLeaves'
  <2>1. PICK w : /\ w # Absent /\ writes[i] # Absent
                 /\ w.compose = writes[i].compose /\ w.attachments = writes[i].attachments
                 /\ w.chosen = writes[i].chosen /\ w.shown = writes[i].shown
                 /\ writes' = [writes EXCEPT ![i] = w]
    BY <1>3, Answer
  <2>2. writes'[i] = w /\ \A j \in 1 .. MaxWrites : j # i => writes'[j] = writes[j]
    BY <2>1 DEF DialogTypeOK
  <2> SUFFICES ASSUME NEW j \in 1 .. MaxWrites, writes'[j] # Absent
               PROVE  /\ writes'[j].attachments.content = writes'[j].shown
                      /\ writes'[j].attachments.content # {} =>
                           writes'[j].attachments.shownIn = writes'[j].compose
                      /\ writes'[j].attachments.content = {} =>
                           writes'[j].chosen # "files"
    OBVIOUS
  <2>3. writes[j] # Absent /\ writes'[j].attachments = writes[j].attachments
    BY <2>1, <2>2
  <2>4. /\ writes'[j].compose = writes[j].compose /\ writes'[j].chosen = writes[j].chosen
        /\ writes'[j].shown = writes[j].shown
    BY <2>1, <2>2
  <2>. QED
    BY <2>3, <2>4
<1>4. ASSUME UNCHANGED writes PROVE PreviewIsWhatLeaves'
  BY <1>4
<1>. QED
  BY <1>1, <1>2, <1>3, <1>4
  DEF DialogNext, dialogVars, dialog, OpenCompose, Close,
      CloseByTimer, Select, ReadFile, RejectFile

\* The empty list is within the limits.
LEMMA EmptyWithin ==
  ASSUME SumsAdd
  PROVE  WithinLimits({})
BY FS_EmptySet, DialogAssumption DEF SumsAdd, WithinLimits

\* One more file that fits: the selection stays within the limits, or is a list within
\* them when it was the last.
LEMMA OneMore ==
  ASSUME SumsAdd, NEW r \in Readings, Partial(r),
         NEW f \in Files, NEW n \in Actual, f \in r.todo, Fits(f, n, r.done)
  PROVE  LET done == r.done \cup {<<f, n>>}
         IN  /\ r.todo \ {f} # {} => Partial([todo |-> r.todo \ {f}, done |-> done])
             /\ WithinLimits(done)
<1> DEFINE done == r.done \cup {<<f, n>>}
           todo == r.todo \ {f}
<1>1. /\ r.todo \subseteq Files /\ r.done \in Attachments
      /\ <<f, n>> \in Files \X Actual
  BY DEF Readings, Attachments
<1>2. <<f, n>> \notin r.done /\ IsFiniteSet(r.done)
  BY DEF Partial
<1>3. IsFiniteSet(r.todo)
  BY <1>1, FS_Subset, DialogAssumption
<1>4. /\ IsFiniteSet(done) /\ Cardinality(done) = Cardinality(r.done) + 1
      /\ Cardinality(r.done) \in Nat
  BY <1>2, FS_AddElement, FS_CardinalityType
<1>5. /\ Cardinality(todo) = Cardinality(r.todo) - 1 /\ Cardinality(todo) \in Nat
      /\ Cardinality(r.todo) \in Nat
  BY <1>3, FS_RemoveElement, FS_CardinalityType
<1>6. Cardinality(done) + Cardinality(todo) <= MaxFiles /\ Cardinality(done) <= MaxFiles
  <2>1. Cardinality(r.done) + Cardinality(r.todo) <= MaxFiles /\ MaxFiles \in Nat
    BY DialogAssumption DEF Partial
  <2> HIDE DEF done, todo
  <2>. QED
    BY <1>4, <1>5, <2>1
<1>7. TotalSize(done) <= MaxTotal
  <2>1. TotalSize(done) = TotalSize(r.done) + <<f, n>>[2]
    BY <1>1, <1>2 DEF SumsAdd
  <2>. QED
    BY <2>1 DEF Fits
<1>8. \A a \in done : a[1] \notin todo /\ a[2] = Declared[a[1]] /\ a[2] <= MaxFileSize
  <2>1. n = Declared[f] /\ n <= MaxFileSize
    BY DEF Fits
  <2>. QED
    BY <2>1 DEF Partial
<1> HIDE DEF done
<1>9. WithinLimits(done)
  BY <1>6, <1>7, <1>8 DEF WithinLimits
<1>10. ASSUME todo # {} PROVE Partial([todo |-> todo, done |-> done])
  <2> HIDE DEF todo
  <2>. QED
    BY <1>4, <1>6, <1>7, <1>8, <1>10 DEF Partial
<1>. QED
  BY <1>9, <1>10 DEF done


\* LimitsKept is kept: a file is added only if it fits, a list replaces the preview only
\* when all of it has been read, and demo mode submits no list.
LEMMA LimitsStep ==
  ASSUME SumsAdd, DialogTypeOK, Counted, LimitsKept,
         [DialogNext]_dialogVars
  PROVE  LimitsKept'
<1>empty. WithinLimits(NoAttachments.content)
  BY EmptyWithin DEF NoAttachments
<1>frame. UNCHANGED <<gateway, writes>> /\ LimitsKept => OnlyCheckedAttachmentsLeave'
  BY DEF LimitsKept, OnlyCheckedAttachmentsLeave, Submissions
<1>end. ASSUME NEW i \in 1 .. MaxSelections, EndReading(i)
        PROVE  \A j \in 1 .. MaxSelections : reading'[j] = reading[j] \/ reading'[j] = Absent
  BY <1>end DEF EndReading, DialogTypeOK
<1> USE DEF LimitsKept, Clear, materialized
<1>1. ASSUME OpenCompose PROVE LimitsKept'
  <2>1. attached' = NoAttachments /\ UNCHANGED <<gateway, reading, writes>>
    BY <1>1 DEF OpenCompose
  <2>. QED
    BY <2>1, <1>frame, <1>empty
<1>2. ASSUME NEW files \in SUBSET Files, Select(files) PROVE LimitsKept'
  <2>1. UNCHANGED <<gateway, writes>>
    BY <1>2 DEF Select
  <2>2. CASE attached' = NoAttachments /\ UNCHANGED reading
    BY <2>1, <2>2, <1>frame, <1>empty
  <2>3. CASE /\ Cardinality(files) \in 1 .. MaxFiles /\ UNCHANGED attached
             /\ reading' = [reading EXCEPT ![picks + 1] = [todo |-> files, done |-> {}]]
    <3>1. IsFiniteSet(files)
      BY FS_Subset, DialogAssumption
    <3>2. files # {}
      BY <2>3, FS_EmptySet
    <3>3. Partial([todo |-> files, done |-> {}])
      BY <2>3, <3>2, FS_EmptySet, DialogAssumption DEF Partial, SumsAdd
    <3>4. \A i \in 1 .. MaxSelections :
            reading'[i] = reading[i] \/ reading'[i] = [todo |-> files, done |-> {}]
      BY <2>3 DEF DialogTypeOK
    <3>. QED
      BY <2>1, <2>3, <3>3, <3>4, <1>frame
  <2>. QED
    BY <1>2, <2>2, <2>3 DEF Select, Reject
<1>3. ASSUME NEW i \in 1 .. MaxSelections, NEW f \in Files, NEW n \in Actual,
             ReadFile(i, f, n) PROVE LimitsKept'
  <2>1. UNCHANGED <<gateway, writes>>
    BY <1>3 DEF ReadFile
  <2> DEFINE r == reading[i]
             done == r.done \cup {<<f, n>>}
             next == [todo |-> r.todo \ {f}, done |-> done]
  <2>2. /\ r \in Readings /\ Partial(r) /\ f \in r.todo
        /\ \/ EndReading(i) /\ Reject
           \/ /\ Fits(f, n, r.done) /\ r.todo \ {f} # {}
              /\ reading' = [reading EXCEPT ![i] = next]
              /\ UNCHANGED attached
           \/ /\ Fits(f, n, r.done)
              /\ EndReading(i)
              /\ attached' = [content |-> done, shownIn |-> compose]
    <3>1. r \in Readings /\ r # Absent /\ f \in r.todo
      BY <1>3, ReadFileIs
    <3>2. \/ EndReading(i) /\ Reject
          \/ /\ Fits(f, n, r.done) /\ r.todo \ {f} # {}
             /\ reading' = [reading EXCEPT ![i] = next]
             /\ UNCHANGED <<attached, preview, picker>>
          \/ /\ Fits(f, n, r.done) /\ r.todo \ {f} = {}
             /\ EndReading(i)
             /\ attached' = [content |-> done, shownIn |-> compose] /\ preview' = done
      BY <1>3, ReadFileIs
    <3> HIDE DEF done, next
    <3>. QED
      BY <3>1, <3>2
  <2>3. CASE EndReading(i) /\ Reject
    BY <2>1, <2>3, <1>frame, <1>empty, <1>end DEF Reject
  <2>4. CASE /\ Fits(f, n, r.done) /\ r.todo \ {f} # {}
             /\ reading' = [reading EXCEPT ![i] = next]
             /\ UNCHANGED attached
    <3>1. Partial(next)
      BY <2>2, <2>4, OneMore
    <3>2. \A j \in 1 .. MaxSelections : reading'[j] = reading[j] \/ reading'[j] = next
      BY <2>4 DEF DialogTypeOK
    <3> HIDE DEF next
    <3>. QED
      BY <2>1, <2>4, <3>1, <3>2, <1>frame
  <2>5. CASE /\ Fits(f, n, r.done)
             /\ EndReading(i)
             /\ attached' = [content |-> done, shownIn |-> compose]
    <3>1. WithinLimits(done)
      BY <2>2, <2>5, OneMore
    <3> HIDE DEF done
    <3>. QED
      BY <2>1, <2>5, <3>1, <1>frame, <1>end
  <2>. QED
    BY <2>2, <2>3, <2>4, <2>5
<1>4. ASSUME NEW i \in 1 .. MaxSelections, RejectFile(i) PROVE LimitsKept'
  <2>1. UNCHANGED <<gateway, writes>> /\ attached' = NoAttachments /\ EndReading(i)
    BY <1>4 DEF RejectFile, Reject
  <2>. QED
    BY <2>1, <1>frame, <1>empty, <1>end
<1>5. ASSUME Submit PROVE LimitsKept'
  <2> DEFINE k == Cardinality(Submissions) + 1
  <2>1. k \in 1 .. MaxWrites /\ writes' = [writes EXCEPT ![k] = Message]
    BY <1>5, SubmitAppends
  <2>2. /\ writes'[k] = Message
        /\ \A j \in 1 .. MaxWrites : j # k => writes'[j] = writes[j]
    BY <2>1 DEF DialogTypeOK
  <2>3. /\ Message.attachments = attached
        /\ Message.compose = compose /\ Message.chosen = Chosen
    BY DEF Message
  <2> HIDE DEF k
  <2>4. attached.content # {} => gateway
    BY <1>5 DEF Submit, Blocked
  <2>5. UNCHANGED <<gateway, reading, attached>>
    BY <1>5 DEF Submit
  <2>6. OnlyCheckedAttachmentsLeave'
    BY <2>2, <2>3, <2>4, <2>5 DEF OnlyCheckedAttachmentsLeave, Submissions
  <2>. QED
    BY <2>5, <2>6
<1>6. ASSUME NEW i \in 1 .. MaxWrites, WriteSucceeds(i) PROVE LimitsKept'
  <2>1. PICK w : /\ w # Absent /\ writes[i] # Absent
                 /\ w.compose = writes[i].compose /\ w.attachments = writes[i].attachments
                 /\ w.chosen = writes[i].chosen /\ w.shown = writes[i].shown
                 /\ writes' = [writes EXCEPT ![i] = w]
    BY <1>6, Answer
  <2>2. writes'[i] = w /\ \A j \in 1 .. MaxWrites : j # i => writes'[j] = writes[j]
    BY <2>1 DEF DialogTypeOK
  <2>3. attached' \in {attached, NoAttachments} /\ UNCHANGED <<gateway, reading>>
    BY <1>6 DEF WriteSucceeds, WriteFails
  <2>4. OnlyCheckedAttachmentsLeave'
    BY <2>1, <2>2, <2>3 DEF OnlyCheckedAttachmentsLeave, Submissions
  <2>. QED
    BY <2>3, <2>4, EmptyWithin DEF NoAttachments
<1>7. ASSUME NEW i \in 1 .. MaxWrites, WriteFails(i) PROVE LimitsKept'
  <2>1. PICK w : /\ w # Absent /\ writes[i] # Absent
                 /\ w.compose = writes[i].compose /\ w.attachments = writes[i].attachments
                 /\ w.chosen = writes[i].chosen /\ w.shown = writes[i].shown
                 /\ writes' = [writes EXCEPT ![i] = w]
    BY <1>7, Answer
  <2>2. writes'[i] = w /\ \A j \in 1 .. MaxWrites : j # i => writes'[j] = writes[j]
    BY <2>1 DEF DialogTypeOK
  <2>3. attached' = attached /\ UNCHANGED <<gateway, reading>>
    BY <1>7 DEF WriteFails
  <2>4. OnlyCheckedAttachmentsLeave'
    BY <2>1, <2>2, <2>3 DEF OnlyCheckedAttachmentsLeave, Submissions
  <2>. QED
    BY <2>3, <2>4
<1>8. ASSUME UNCHANGED <<gateway, reading, attached, writes>> PROVE LimitsKept'
  BY <1>8, <1>frame
<1>. QED
  BY <1>1, <1>2, <1>3, <1>4, <1>5, <1>6, <1>7, <1>8
  DEF DialogNext, dialogVars, dialog, Close, CloseByTimer

-----------------------------------------------------------------------------
(* Theorems about the compose dialog *)

\* The inductive invariant of the dialog holds.
LEMMA DialogInvariance == DialogSpec => []DialogIInv
<1>1. DialogInit => DialogIInv
  <2> SUFFICES ASSUME DialogInit PROVE DialogIInv
    OBVIOUS
  <2>1. DialogTypeOK
    <3>1. /\ MaxComposes \in Nat /\ MaxSelections \in Nat /\ MaxWrites \in Nat
      BY DialogAssumption
    <3>2. 0 \in 0 .. MaxComposes /\ 0 \in 0 .. MaxSelections /\ 0 \in 0 .. MaxWrites
      BY <3>1
    <3>3. NoAttachments \in Lists
      BY <3>2 DEF NoAttachments, Lists, Attachments
    <3>4. /\ reading \in [1 .. MaxSelections -> Readings \cup {Absent}]
          /\ writes \in [1 .. MaxWrites -> Writes \cup {Absent}]
      BY DEF DialogInit
    <3>. QED
      BY <3>2, <3>3, <3>4 DEF DialogInit, DialogTypeOK, Attachments
  <2>2. \A i \in 1 .. MaxWrites : writes[i] = Absent
    BY DEF DialogInit
  <2>3. Counted
    BY <2>2, Finite DEF Counted, DialogInit
  <2>4. Shown
    BY DEF Shown, DialogInit, NoAttachments
  <2>5. PreviewIsWhatLeaves
    BY <2>2 DEF PreviewIsWhatLeaves, Submissions
  <2>. QED
    BY <2>1, <2>3, <2>4, <2>5 DEF DialogIInv
<1>2. DialogIInv /\ [DialogNext]_dialogVars => DialogIInv'
  BY DialogTypeStep, CountedStep, ShownStep, LeavesStep DEF DialogIInv
<1>. QED
  BY <1>1, <1>2, PTL DEF DialogSpec

\* The state of the dialog, its selections and its submissions has the declared types.
THEOREM DialogTypeCorrect == DialogSpec => []DialogTypeOK
<1>1. DialogIInv => DialogTypeOK
  BY DEF DialogIInv
<1>. QED
  BY <1>1, DialogInvariance, PTL

\* A message leaves with exactly the list its own dialog showed, and chosen files stay behind
\* only while some selection is being read: for any overlap of selections, submissions,
\* answers, closings and reopenings.
THEOREM PreviewLeaves == DialogSpec => []PreviewIsWhatLeaves
<1>1. DialogIInv => PreviewIsWhatLeaves
  BY DEF DialogIInv
<1>. QED
  BY <1>1, DialogInvariance, PTL

\* Given that the recursive sum of the sizes is a sum, every list that leaves is within
\* all the limits, and in demo mode it is empty.
THEOREM LimitsHold == SumsAdd => (DialogSpec => []OnlyCheckedAttachmentsLeave)
<1> SUFFICES ASSUME SumsAdd
             PROVE  DialogSpec => []OnlyCheckedAttachmentsLeave
  OBVIOUS
<1>1. DialogInit => LimitsKept
  <2> SUFFICES ASSUME DialogInit PROVE LimitsKept
    OBVIOUS
  <2>1. /\ \A i \in 1 .. MaxSelections : reading[i] = Absent
        /\ \A i \in 1 .. MaxWrites : writes[i] = Absent
        /\ attached.content = {}
    BY DEF DialogInit, NoAttachments
  <2>. QED
    BY <2>1, EmptyWithin
    DEF LimitsKept, OnlyCheckedAttachmentsLeave, Submissions
<1>2. DialogIInv /\ LimitsKept /\ [DialogNext]_dialogVars => LimitsKept'
  BY LimitsStep DEF DialogIInv
<1>3. LimitsKept => OnlyCheckedAttachmentsLeave
  BY DEF LimitsKept
<1>. QED
  BY <1>1, <1>2, <1>3, DialogInvariance, PTL DEF DialogSpec

=============================================================================
