----------------------------- MODULE MailboxShell -----------------------------
(***************************************************************************)
(* The mailbox half of the browser shell, web/app.js: switching mailboxes, *)
(* opening, archiving, deleting, moving and flagging messages, and the     *)
(* local search, over a provider with the behaviour of DemoMailProvider    *)
(* (web/providers/demo-provider.js) whose answers may be slow, overtake    *)
(* each other or fail, as those of the gateway do.                         *)
(*                                                                         *)
(* A handler runs up to its next await in one action; the provider carries *)
(* a request out in one action and the answer arrives in another.  Of a    *)
(* message only its identity, its mailbox and its star are kept.  Only the *)
(* newest openMessage call matters (the generation check ends the others), *)
(* so opening names the message it waits for.                              *)
(***************************************************************************)
EXTENDS Naturals

CONSTANTS
  Messages,
  None,
  MaxLoads,      \* bound on mailboxLoadGeneration
  MaxMutations   \* bound on archive, remove and move calls

Mailboxes == {"inbox", "starred", "sent", "drafts", "archive", "trash"}

\* Where a message can be; Starred is a view, Sent and Drafts the shell offers nowhere.
Folders == {"inbox", "archive", "trash"}
NoMessages == [m \in Messages |-> FALSE]

VARIABLES
  flags,       \* providerCapabilities: has the provider the FLAGS capability?
  where,       \* provider: mailboxByMessageId
  starred,     \* provider: the flagged messages
  selected,    \* selectedMailboxId
  messages,    \* the ids of messages, the loaded snapshot
  star,        \* the flagged fields of that snapshot's objects
  stamp,       \* the load that snapshot came from
  generation,  \* mailboxLoadGeneration
  loads,       \* the calls of loadMailbox, by generation
  reader,      \* selectedMessageId
  opening,     \* the message the newest openMessage waits for
  cards,       \* the messages whose cards can be clicked
  disabled,    \* are the mailbox buttons disabled?
  mutation,    \* the archive, remove or move in flight
  mutations,   \* how many there have been
  flagging,    \* the flag call in flight (the model makes one at a time)
  newest,      \* history: how the newest load has ended
  unsure       \* history: the generation at which a mutation last failed

provider == <<flags, where, starred>>
snapshot == <<selected, messages, star, stamp>>
view == <<reader, opening, cards, disabled>>
loading == <<generation, loads, newest>>
mutating == <<mutation, mutations, unsure>>
vars == <<provider, snapshot, view, loading, mutating, flagging>>

Answers == [ids : SUBSET Messages, star : [Messages -> BOOLEAN]]

Loads == [mailbox : Mailboxes, previous : SUBSET Messages, answer : Answers \cup {None}]

\* to: the destination; a removal goes to the trash.
Mutations == [id : Messages, to : Folders, step : {"sent", "done", "refreshing", "reloading"},
              load : 0 .. MaxLoads]

Flaggings == [id : Messages, next : BOOLEAN, stamp : 0 .. MaxLoads,
              step : {"sent", "done", "refreshing"}]

ASSUME InstanceAssumption ==
  /\ MaxLoads \in Nat \ {0} /\ MaxMutations \in Nat
  /\ None \notin Messages /\ None \notin Answers /\ None \notin Loads
  /\ None \notin Mutations /\ None \notin Flaggings

TypeOK ==
  /\ flags \in BOOLEAN
  /\ where \in [Messages -> Folders] /\ starred \subseteq Messages
  /\ selected \in Mailboxes
  /\ messages \subseteq Messages
  /\ star \in [Messages -> BOOLEAN]
  /\ stamp \in 0 .. MaxLoads /\ generation \in 0 .. MaxLoads
  /\ loads \in [1 .. MaxLoads -> Loads \cup {None}]
  /\ reader \in Messages \cup {None} /\ opening \in Messages \cup {None}
  /\ cards \subseteq Messages
  /\ disabled \in BOOLEAN
  /\ mutation \in Mutations \cup {None} /\ mutations \in 0 .. MaxMutations
  /\ flagging \in Flaggings \cup {None}
  /\ newest \in {"pending", "ok", "failed"}
  /\ unsure \in 0 .. MaxLoads

\* initialize has asked for the first mailbox.
Init ==
  /\ flags \in BOOLEAN
  /\ where = [m \in Messages |-> "inbox"]
  /\ starred \in SUBSET Messages
  /\ selected = "inbox"
  /\ messages = {} /\ star = NoMessages /\ stamp = 0
  /\ generation = 1 /\ newest = "pending"
  /\ loads = [g \in 1 .. MaxLoads |->
                IF g = 1 THEN [mailbox |-> "inbox", previous |-> {}, answer |-> None] ELSE None]
  /\ reader = None /\ opening = None
  /\ cards = {} /\ disabled = TRUE
  /\ mutation = None /\ mutations = 0 /\ unsure = 0
  /\ flagging = None

-----------------------------------------------------------------------------
(* The provider *)

\* messagesForMailbox.
Contents(b) ==
  IF b = "starred" THEN {m \in starred : where[m] # "trash"}
                   ELSE {m \in Messages : where[m] = b /\ b \notin {"sent", "drafts"}}

Snapshot(b) == [ids |-> Contents(b), star |-> [m \in Messages |-> m \in starred \cap Contents(b)]]

ProvideList(g) ==
  /\ loads[g] # None /\ loads[g].answer = None
  /\ loads' = [loads EXCEPT ![g].answer = Snapshot(loads[g].mailbox)]
  /\ UNCHANGED <<provider, snapshot, view, generation, newest, mutating, flagging>>

\* archive, remove and move.
ProvideMutation ==
  /\ mutation # None /\ mutation.step = "sent"
  /\ where' = [where EXCEPT ![mutation.id] = mutation.to]
  /\ mutation' = [mutation EXCEPT !.step = "done"]
  /\ UNCHANGED <<flags, starred, snapshot, view, loading, mutations, unsure, flagging>>

ProvideFlag ==
  /\ flagging # None /\ flagging.step = "sent"
  /\ starred' = IF flagging.next THEN starred \cup {flagging.id} ELSE starred \ {flagging.id}
  /\ flagging' = [flagging EXCEPT !.step = "done"]
  /\ UNCHANGED <<flags, where, snapshot, view, loading, mutating>>

-----------------------------------------------------------------------------
(* loadMailbox *)

ClearReader == reader' = None /\ opening' = None

\* Up to its await.
StartLoad(b) ==
  /\ generation < MaxLoads
  /\ generation' = generation + 1
  /\ loads' = [loads EXCEPT ![generation + 1] =
                 [mailbox |-> b, previous |-> messages, answer |-> None]]
  /\ newest' = "pending"
  /\ ClearReader
  /\ cards' = {}
  /\ disabled' = TRUE

\* A click in the mailbox rail.
SelectMailbox(b) ==
  /\ ~disabled
  /\ ~(b = selected /\ messages # {})
  /\ StartLoad(b)
  /\ UNCHANGED <<snapshot, provider, mutating, flagging>>

EndLoad(g) == loads' = [loads EXCEPT ![g] = None]

\* Bug: the generation is not checked.
ListArrivesUnchecked(g) ==
  /\ loads[g] # None /\ loads[g].answer # None
  /\ EndLoad(g)
  /\ selected' = loads[g].mailbox
  /\ messages' = loads[g].answer.ids /\ star' = loads[g].answer.star /\ stamp' = g
  /\ cards' = messages' /\ disabled' = FALSE
  /\ newest' = IF g = generation THEN "ok" ELSE newest
  /\ UNCHANGED <<reader, opening, provider, generation, mutating, flagging>>

ListArrives(g) ==
  /\ loads[g] # None /\ loads[g].answer # None
  /\ EndLoad(g)
  /\ IF g = generation
       THEN /\ selected' = loads[g].mailbox
            /\ messages' = loads[g].answer.ids
            /\ star' = loads[g].answer.star
            /\ stamp' = g
            /\ cards' = messages'
            /\ disabled' = FALSE
            /\ newest' = "ok"
       ELSE UNCHANGED <<snapshot, cards, disabled, newest>>
  /\ UNCHANGED <<reader, opening, provider, generation, mutating, flagging>>

\* Bug: a failed read does not release the controls.
ListFailsHolding(g) ==
  /\ loads[g] # None
  /\ EndLoad(g)
  /\ newest' = IF g = generation THEN "failed" ELSE newest
  /\ UNCHANGED <<snapshot, view, provider, generation, mutating, flagging>>

\* The read failed: back to the messages of the moment the load began.
ListFails(g) ==
  /\ loads[g] # None
  /\ EndLoad(g)
  /\ IF g = generation
       THEN /\ messages' = loads[g].previous
            /\ cards' = messages'
            /\ disabled' = FALSE
            /\ newest' = "failed"
       ELSE UNCHANGED <<messages, cards, disabled, newest>>
  /\ UNCHANGED <<selected, star, stamp, reader, opening, provider, generation, mutating, flagging>>

-----------------------------------------------------------------------------
(* The message list and the reader *)

\* The input event of the search field renders the snapshot at hand.  The model's
\* queries match every message.
Search ==
  /\ cards' = messages
  /\ UNCHANGED <<snapshot, provider, reader, opening, disabled, loading, mutating, flagging>>

ClickCard(m) ==
  /\ m \in cards
  /\ opening' = m
  /\ UNCHANGED <<snapshot, provider, reader, cards, disabled, loading, mutating, flagging>>

\* openMessage, after its await.
MessageArrives ==
  /\ opening # None
  /\ opening' = None
  /\ IF opening \in messages
       THEN reader' = opening /\ cards' = messages
       ELSE UNCHANGED <<reader, cards>>
  /\ UNCHANGED <<snapshot, provider, disabled, loading, mutating, flagging>>

MessageFails ==
  /\ opening # None
  /\ opening' = None
  /\ UNCHANGED <<snapshot, provider, reader, cards, disabled, loading, mutating, flagging>>

-----------------------------------------------------------------------------
(* runSelectedMessageMutation and runSelectedMessageMove *)

\* Bug: every mailbox is offered, the Starred view included.
OfferedAny == Mailboxes

\* moveDestinationMailboxes: the current mailbox, Starred, Sent, Drafts and Trash are none.
Destinations == Mailboxes \ {selected, "starred", "sent", "drafts", "trash"}

\* What the reader offers: Archive is hidden in Archive and Trash, Delete in Trash.
Offered ==
  (IF selected \in {"archive", "trash"} THEN {} ELSE {"archive"})
    \cup (IF selected = "trash" THEN {} ELSE {"trash"})
    \cup Destinations

Mutate(to) ==
  /\ mutations < MaxMutations
  /\ reader # None /\ mutation = None
  /\ to \in Offered
  /\ mutation' = [id |-> reader, to |-> to, step |-> "sent", load |-> 0]
  /\ mutations' = mutations + 1
  /\ disabled' = TRUE
  /\ UNCHANGED <<snapshot, provider, reader, opening, cards, loading, unsure, flagging>>

MutationArrives ==
  /\ mutation # None /\ mutation.step = "done"
  /\ mutation' = [mutation EXCEPT !.step = "refreshing"]
  /\ UNCHANGED <<snapshot, provider, view, loading, mutations, unsure, flagging>>

\* The finally block.
EndMutation == mutation' = None /\ disabled' = FALSE

\* The call failed, and may or may not have been carried out.
MutationFails ==
  /\ mutation # None /\ mutation.step \in {"sent", "done"}
  /\ EndMutation
  /\ unsure' = generation
  /\ UNCHANGED <<snapshot, provider, reader, opening, cards, loading, mutations, flagging>>

\* Bug: the reload is not forced, and a mailbox already loaded is not read again.
ReloadUnforced ==
  /\ mutation # None /\ mutation.step = "refreshing"
  /\ IF messages # {}
       THEN EndMutation /\ UNCHANGED <<reader, opening, cards, loading>>
       ELSE /\ StartLoad(selected)
            /\ mutation' = [mutation EXCEPT !.step = "reloading", !.load = generation']
  /\ UNCHANGED <<snapshot, provider, mutations, unsure, flagging>>

\* refreshMailboxMetadata has answered or failed; loadMailbox, forced.
Reload ==
  /\ mutation # None /\ mutation.step = "refreshing"
  /\ StartLoad(selected)
  /\ mutation' = [mutation EXCEPT !.step = "reloading", !.load = generation']
  /\ UNCHANGED <<snapshot, provider, mutations, unsure, flagging>>

\* The awaited load has ended, with or without an effect.
FinishMutation ==
  /\ mutation # None /\ mutation.step = "reloading"
  /\ loads[mutation.load] = None
  /\ EndMutation
  /\ UNCHANGED <<snapshot, provider, reader, opening, cards, loading, mutations, unsure, flagging>>

-----------------------------------------------------------------------------
(* The flag button *)

ClickFlag ==
  /\ flags
  /\ flagging = None
  /\ reader # None /\ mutation = None /\ reader \in messages
  /\ flagging' = [id |-> reader, next |-> ~star[reader], stamp |-> stamp, step |-> "sent"]
  /\ UNCHANGED <<snapshot, provider, view, loading, mutating>>

\* The object found before the await is updated, but the message taken out of the
\* starred list is the one selected now.
FlagArrives ==
  /\ flagging # None /\ flagging.step = "done"
  /\ flagging' = [flagging EXCEPT !.step = "refreshing"]
  /\ star' = IF flagging.stamp = stamp THEN [star EXCEPT ![flagging.id] = flagging.next] ELSE star
  /\ IF selected = "starred" /\ ~flagging.next
       THEN messages' = messages \ {reader} /\ ClearReader
       ELSE UNCHANGED <<messages, reader, opening>>
  /\ cards' = messages'
  /\ UNCHANGED <<provider, selected, stamp, disabled, loading, mutating>>

FlagFails ==
  /\ flagging # None /\ flagging.step \in {"sent", "done"}
  /\ flagging' = None
  /\ UNCHANGED <<snapshot, provider, view, loading, mutating>>

\* refreshMailboxMetadata renders the mailbox buttons anew, and enabled; when it
\* fails it leaves them.
FlagRefreshed ==
  /\ flagging # None /\ flagging.step = "refreshing"
  /\ flagging' = None
  /\ disabled' \in {FALSE, disabled}
  /\ UNCHANGED <<snapshot, provider, reader, opening, cards, loading, mutating>>

-----------------------------------------------------------------------------
Next ==
  \/ \E b \in Mailboxes : SelectMailbox(b)
  \/ \E g \in 1 .. MaxLoads : ProvideList(g)
  \/ \E g \in 1 .. MaxLoads : ListArrives(g)
  \/ \E g \in 1 .. MaxLoads : ListFails(g)
  \/ Search
  \/ \E m \in Messages : ClickCard(m)
  \/ MessageArrives
  \/ MessageFails
  \/ \E to \in Mailboxes : Mutate(to)
  \/ ProvideMutation
  \/ MutationArrives
  \/ MutationFails
  \/ Reload
  \/ FinishMutation
  \/ ClickFlag
  \/ ProvideFlag
  \/ FlagArrives
  \/ FlagFails
  \/ FlagRefreshed

Spec == Init /\ [][Next]_vars

-----------------------------------------------------------------------------
(* Properties *)

Quiet == newest # "pending" /\ mutation = None /\ flagging = None

\* A slower earlier read never replaces a later one: once the newest load has
\* succeeded, the messages shown are its messages.  And the title changes with them: it
\* names the mailbox they were read from, whatever loads fail, are superseded or are
\* started by mutations meanwhile.
NewestLoadWins ==
  /\ [](newest = "ok" => stamp = generation)
  /\ [][selected' # selected => stamp' # stamp]_vars

\* The shell is never stuck: mailbox buttons are disabled, or the list says
\* "Loading", only while a load or a mutation that will end it is under way.
NeverStuck ==
  disabled \/ cards # messages =>
    mutation # None \/ \E g \in 1 .. MaxLoads : loads[g] # None

\* Once everything has been answered, and unless the newest read failed or a
\* mutation whose outcome is unknown came after it, the list is what the provider
\* holds: no archived, deleted or moved message lingers.  (With flags it may differ:
\* a star can be set after the read, and FlagArrives drops the message of the reader.)
ListConverges ==
  ~flags /\ Quiet /\ newest = "ok" /\ generation > unsure => messages = Contents(selected)

=============================================================================
