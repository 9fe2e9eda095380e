------------------------------ MODULE AccountApi ------------------------------
(***************************************************************************)
(* A request about a provider account, from the session to Gmail:          *)
(* routeMailApi, the account and operation services, the registry, the     *)
(* capability resolvers, the development vault, and the part of            *)
(* GmailAccountService and GmailApiClient that decides with which          *)
(* credential a request goes out.                                          *)
(*                                                                         *)
(* Everything up to the first real wait is synchronous: session, owner,    *)
(* provider and capabilities are looked at in one step. The credential     *)
(* itself is read later, when the token is resolved. One request of a      *)
(* Gmail operation is followed; accounts, consents and revocations are     *)
(* everybody's.                                                            *)
(***************************************************************************)
EXTENDS Integers, FiniteSets

CONSTANTS
  Users,    \* session users
  Ids,      \* account ids; randomUUID never draws one twice
  Grants,   \* the sets of scopes a user may consent to
  None      \* null, or absent

VARIABLES
  accounts,   \* the registry's records, of accounts that have gone as well
  live,       \* the ids the registry still holds
  vault,      \* the credential vault: the scopes stored for a user and an account
  pc,         \* where the request is
  request,    \* its user, account, operation and whether it has a client mutation id
  secret,     \* the scopes of the credential a refresh has read
  token,      \* the scopes behind the access token sent to Gmail
  answer,     \* what the caller is told
  stale       \* history: since the capability check somebody else has changed the stored
              \* credential, or a refresh has brought back fewer scopes

registry == <<accounts, live>>
locals == <<secret, token, answer>>
vars == <<registry, vault, pc, request, locals, stale>>

Providers == {"gmail", "other"}
Scopes == {"full", "modify", "readonly", "labels", "compose", "send", "metadata"}

\* resolveGmailCapabilitiesFromScopes: any scope of the set gives the capability.
Reading == {"full", "modify", "readonly"}
Composing == {"full", "modify", "compose"}

\* Bug: a grant to send is taken for one to compose.
GrantedByLoose ==
  [mailboxAccess |-> Reading, messageRead |-> Reading, attachmentRetrieval |-> Reading,
   labels |-> Reading \cup {"labels"}, drafts |-> Composing \cup {"send"},
   send |-> Composing \cup {"send"}]

GrantedBy ==
  [mailboxAccess |-> Reading, messageRead |-> Reading, attachmentRetrieval |-> Reading,
   labels |-> Reading \cup {"labels"}, drafts |-> Composing, send |-> Composing \cup {"send"}]

\* Every capability that is not named is false: senderIdentities is.
Capabilities(scopes) == {c \in DOMAIN GrantedBy : scopes \cap GrantedBy[c] # {}}

\* What GmailAccountService asks for.  sendAs and draftAs are writes with a from address.
Required ==
  [listLabels |-> {"labels"}, listMessages |-> {"mailboxAccess"}, getMessage |-> {"messageRead"},
   getAttachment |-> {"mailboxAccess", "attachmentRetrieval"},
   send |-> {"send"}, sendAs |-> {"send", "senderIdentities"},
   draft |-> {"drafts"}, draftAs |-> {"drafts", "senderIdentities"}]

Operations == DOMAIN Required

\* Routes to the account itself, of whatever provider.
AccountRoutes == {"get", "remove", "capabilities"}

Writes == {"send", "sendAs", "draft", "draftAs"}

\* What Gmail asks for: messages.list takes no query from the metadata scope.
Permits ==
  [listLabels |-> Reading \cup {"labels", "metadata"}, listMessages |-> Reading \cup {"metadata"},
   getMessage |-> Reading, getAttachment |-> Reading,
   send |-> Composing \cup {"send"}, sendAs |-> Composing \cup {"send"},
   draft |-> Composing, draftAs |-> Composing]

PermitsSearch(op) ==
  IF op \in {"send", "sendAs"} THEN Reading ELSE Composing \cup {"readonly"}

Accounts == [user : Users, provider : Providers]
Requests == [user : Users, id : Ids, op : Operations, identified : BOOLEAN]

\* "renewing" and "refreshing again" are the token of the search after a write.
Waiting == {"securing", "resolving", "refreshing", "sent", "renewing", "refreshing again", "searching"}

Answers ==
  {"authentication-required", "account-not-found", "unsupported", "capability-unavailable",
   "refused", "credential-not-found", "authorization-required", "forbidden", "failed", "ok",
   "reconciled", "unknown", "search-forbidden"}

ASSUME InstanceAssumption ==
  /\ Grants \subseteq SUBSET Scopes
  /\ None \notin Grants \cup Users \cup Accounts \cup Requests \cup Answers

TypeOK ==
  /\ accounts \in [Ids -> Accounts \cup {None}]
  /\ live \subseteq {i \in Ids : accounts[i] # None}
  /\ vault \in [Users \X Ids -> Grants \cup {None}]
  /\ pc \in {"idle", "answered"} \cup Waiting
  /\ request \in Requests \cup {None}
  /\ secret \in Grants \cup {None}
  /\ token \in Grants \cup {None}
  /\ answer \in Answers \cup {None}
  /\ stale \in BOOLEAN
  /\ pc \in Waiting =>
       request # None /\ accounts[request.id] # None /\ accounts[request.id].provider = "gmail"

Init ==
  /\ accounts = [i \in Ids |-> None]
  /\ live = {}
  /\ vault = [e \in Users \X Ids |-> None]
  /\ pc = "idle"
  /\ request = None
  /\ secret = None
  /\ token = None
  /\ answer = None
  /\ stale = FALSE

-----------------------------------------------------------------------------
(* The registry and the vault: synchronous requests of anybody *)

\* Bug: an account that has been removed is still found.
OwnedOnce(u, i) == accounts[i] # None /\ accounts[i].user = u

\* getForUser: an account of somebody else is not found either.
Owned(u, i) == i \in live /\ accounts[i].user = u

\* Bug: an id is drawn again.
CreateAgain(u, i, provider) ==
  /\ i \notin live
  /\ accounts' = [accounts EXCEPT ![i] = [user |-> u, provider |-> provider]]
  /\ live' = live \cup {i}
  /\ UNCHANGED <<vault, pc, request, locals, stale>>

Create(u, i, provider) ==
  /\ accounts[i] = None
  /\ accounts' = [accounts EXCEPT ![i] = [user |-> u, provider |-> provider]]
  /\ live' = live \cup {i}
  /\ UNCHANGED <<vault, pc, request, locals, stale>>

\* removeForUser: the credential stays in the vault.
Remove(u, i) ==
  /\ Owned(u, i)
  /\ live' = live \ {i}
  /\ UNCHANGED <<accounts, vault, pc, request, locals, stale>>

\* The key of the vault entry the request uses.
Entry == <<request.user, request.id>>

\* Somebody else than the request changes the credential.
Change(u, i, grant) ==
  /\ vault' = [vault EXCEPT ![<<u, i>>] = grant]
  /\ stale' = (stale \/ (request # None /\ Entry = <<u, i>>))

\* put, after the user has consented at Google; the account may have gone meanwhile.
Consent(u, i, grant) ==
  /\ accounts[i] = [user |-> u, provider |-> "gmail"]
  /\ Change(u, i, grant)
  /\ UNCHANGED <<registry, pc, request, locals>>

\* remove, at the end of a revocation.
Revoke(u, i) ==
  /\ vault[<<u, i>>] # None
  /\ Change(u, i, None)
  /\ UNCHANGED <<registry, pc, request, locals>>

-----------------------------------------------------------------------------
(* The request up to its first wait *)

\* Without an entry there are no capabilities: get throws credential-not-found.
CapabilitiesOf(u, i) ==
  IF accounts[i].provider = "gmail" /\ vault[<<u, i>>] # None THEN Capabilities(vault[<<u, i>>]) ELSE {}

\* Where the owner has been established: what is missing, or None.
Missing(u, i, op) ==
  CASE op \in AccountRoutes -> None
    [] op \in Operations /\ accounts[i].provider # "gmail" -> "unsupported"
    [] op \in Operations /\ accounts[i].provider = "gmail" ->
         IF Required[op] \subseteq CapabilitiesOf(u, i) THEN None ELSE "capability-unavailable"

\* Bug: the provider is looked at before the owner.
SynchronousAnswerUnowned(u, i, op) ==
  CASE u = None -> "authentication-required"
    [] u # None /\ i \notin live -> "account-not-found"
    [] u # None /\ i \in live ->
         IF Missing(u, i, op) = None /\ ~Owned(u, i) THEN "account-not-found" ELSE Missing(u, i, op)

\* The session, #service and #context: what is answered at once, or None.
SynchronousAnswer(u, i, op) ==
  CASE u = None -> "authentication-required"
    [] u # None /\ ~Owned(u, i) -> "account-not-found"
    [] u # None /\ Owned(u, i) -> Missing(u, i, op)

Answer(code) == pc' = "answered" /\ answer' = code

Refuse(u, i, op) ==
  /\ pc = "idle"
  /\ SynchronousAnswer(u, i, op) # None
  /\ Answer(SynchronousAnswer(u, i, op))
  /\ UNCHANGED <<registry, vault, request, secret, token, stale>>

\* A write with attachments goes to the outgoing gate first.
Admit(u, i, op, identified) ==
  /\ pc = "idle"
  /\ SynchronousAnswer(u, i, op) = None
  /\ request' = [user |-> u, id |-> i, op |-> op, identified |-> identified]
  /\ stale' = FALSE
  /\ \/ pc' = "resolving"
     \/ op \in Writes /\ pc' = "securing"
  /\ UNCHANGED <<registry, vault, locals>>

-----------------------------------------------------------------------------
(* The waits *)

\* The outgoing gate, and the checks of the message.
GatePasses ==
  /\ pc = "securing"
  /\ pc' = "resolving"
  /\ UNCHANGED <<registry, vault, request, locals, stale>>

GateRefuses ==
  /\ pc \in {"securing", "resolving"}
  /\ Answer("refused")
  /\ UNCHANGED <<registry, vault, request, secret, token, stale>>

\* resolveAccessToken reads the vault now, under the user and the id of the context.  An
\* error of the token service reaches the caller of a write; a search hides it.
ResolveToken ==
  /\ pc \in {"resolving", "renewing"}
  /\ vault[Entry] # None
  /\ \/ /\ token' = vault[Entry]
        /\ pc' = IF pc = "resolving" THEN "sent" ELSE "searching"
        /\ UNCHANGED <<secret, answer>>
     \/ /\ secret' = vault[Entry]
        /\ pc' = IF pc = "resolving" THEN "refreshing" ELSE "refreshing again"
        /\ UNCHANGED <<token, answer>>
     \/ /\ Answer(IF pc = "resolving" THEN "authorization-required" ELSE "unknown")
        /\ UNCHANGED <<secret, token>>
  /\ UNCHANGED <<registry, vault, request, stale>>

TokenMissing ==
  /\ pc \in {"resolving", "renewing"}
  /\ vault[Entry] = None
  /\ Answer(IF pc = "resolving" THEN "credential-not-found" ELSE "unknown")
  /\ UNCHANGED <<registry, vault, request, secret, token, stale>>

\* The scopes Google names, or the old ones where it names none, are stored whatever the
\* vault holds by now.
RefreshAnswers(grant) ==
  /\ pc \in {"refreshing", "refreshing again"}
  /\ vault' = [vault EXCEPT ![Entry] = grant]
  /\ token' = grant
  /\ stale' = (stale \/ ~(secret \subseteq grant))
  /\ secret' = None
  /\ pc' = IF pc = "refreshing" THEN "sent" ELSE "searching"
  /\ UNCHANGED <<registry, request, answer>>

\* isAmbiguousWriteFailure and a client mutation id: the message is looked up.
FailAmbiguously ==
  IF request.op \in Writes /\ request.identified
    THEN pc' = "renewing" /\ UNCHANGED answer
    ELSE Answer("failed")

RefreshFails ==
  /\ pc \in {"refreshing", "refreshing again"}
  /\ secret' = None
  /\ \/ pc = "refreshing" /\ FailAmbiguously
     \/ pc = "refreshing" /\ (Answer("failed") \/ Answer("authorization-required"))
     \/ pc = "refreshing again" /\ Answer("unknown")
  /\ UNCHANGED <<registry, vault, request, token, stale>>

\* Gmail carries the request out, is unsure, refuses it as it is, its token, or its scopes.
GmailAnswers ==
  /\ pc = "sent"
  /\ token' = None
  /\ IF token \cap Permits[request.op] = {}
       THEN Answer("forbidden")
       ELSE \/ FailAmbiguously
            \/ \E code \in {"ok", "failed", "authorization-required"} : Answer(code)
  /\ UNCHANGED <<registry, vault, request, secret, stale>>

\* A search that is refused is a write whose outcome is unknown: the caller is told no more
\* than that, the model tells the two apart.
SearchAnswers ==
  /\ pc = "searching"
  /\ token' = None
  /\ IF token \cap PermitsSearch(request.op) = {}
       THEN Answer("search-forbidden")
       ELSE Answer("reconciled") \/ Answer("unknown")
  /\ UNCHANGED <<registry, vault, request, secret, stale>>

\* The response leaves.
Respond ==
  /\ pc = "answered"
  /\ pc' = "idle"
  /\ request' = None
  /\ answer' = None
  /\ stale' = FALSE
  /\ UNCHANGED <<registry, vault, secret, token>>

Next ==
  \/ \E u \in Users, i \in Ids :
       \/ \E provider \in Providers : Create(u, i, provider)
       \/ Remove(u, i)
       \/ \E grant \in Grants : Consent(u, i, grant)
       \/ Revoke(u, i)
       \/ \E op \in Operations, identified \in BOOLEAN : Admit(u, i, op, identified)
  \/ \E u \in Users \cup {None}, i \in Ids, op \in Operations \cup AccountRoutes :
       Refuse(u, i, op)
  \/ GatePasses
  \/ GateRefuses
  \/ ResolveToken
  \/ TokenMissing
  \/ \E grant \in Grants : RefreshAnswers(grant)
  \/ RefreshFails
  \/ GmailAnswers
  \/ SearchAnswers
  \/ Respond

Spec == Init /\ [][Next]_vars

-----------------------------------------------------------------------------
(* Properties *)

\* docs/provider-backend-contract.md: "Cross-user references fail closed with the same
\* not-found state used for absent records": nobody can tell from an answer what others do.
\* Whatever step is taken, what a user would be told of an account, by any operation, changes
\* only if the account is his: another's creation, consent, refresh, revocation and removal
\* leave him with the answer he had.
OthersAreInvisible ==
  [][\A u \in Users, i \in Ids, op \in Operations \cup AccountRoutes :
       SynchronousAnswer(u, i, op)' # SynchronousAnswer(u, i, op) =>
         accounts'[i] # None /\ accounts'[i].user = u]_vars

\* Capabilities stand in for scopes nobody looks at again: unless somebody else has changed
\* the credential or a refresh has lost scopes since they were checked, Gmail does not refuse
\* what the resolver let through, and refuses the search after it only where the consent is
\* to send or to compose without reading.
ScopesSuffice ==
  pc = "answered" /\ ~stale =>
    /\ answer # "forbidden"
    /\ answer = "search-forbidden" => request.op = "send" /\ vault[Entry] \cap Reading = {}

\* A request under way when its account is removed may still reach Gmail, for the
\* credential stays; but from some moment on an account that has gone is used no more.
RemovalQuiesces ==
  <>[][pc' = "sent" /\ pc # "sent" => request.id \in live]_vars

=============================================================================
