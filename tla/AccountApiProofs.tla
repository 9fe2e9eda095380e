--------------------------- MODULE AccountApiProofs ---------------------------
(***************************************************************************)
(* Proofs about AccountApi, for any number of users and accounts and any   *)
(* consents: its types, that nobody sees what others do, and that          *)
(* capabilities stand for scopes Gmail accepts.                            *)
(***************************************************************************)
EXTENDS AccountApi, TLAPS

-----------------------------------------------------------------------------
(* The tables: what the resolver grants against what Gmail asks for *)

\* A capability that an operation requires is backed by one of its scopes.
LEMMA CapabilityBacked ==
  ASSUME NEW scopes, NEW op \in Operations, Required[op] \subseteq Capabilities(scopes),
         NEW c \in Required[op]
  PROVE  c \in DOMAIN GrantedBy /\ scopes \cap GrantedBy[c] # {}
BY DEF Capabilities

\* Nobody has the capability to choose a sender.
LEMMA NoSenderIdentities ==
  ASSUME NEW scopes, NEW op \in Operations, Required[op] \subseteq Capabilities(scopes)
  PROVE  op \notin {"sendAs", "draftAs"}
<1> SUFFICES ASSUME op \in {"sendAs", "draftAs"} PROVE FALSE
  OBVIOUS
<1>1. "senderIdentities" \in Required[op]
  BY DEF Required
<1>2. "senderIdentities" \notin DOMAIN GrantedBy
  BY DEF GrantedBy
<1> QED BY <1>1, <1>2, CapabilityBacked

\* What the resolver lets through Gmail permits.
LEMMA CapabilitiesPermit ==
  ASSUME NEW scopes, NEW op \in Operations, Required[op] \subseteq Capabilities(scopes)
  PROVE  scopes \cap Permits[op] # {}
<1>1. PICK c \in Required[op] : GrantedBy[c] \subseteq Permits[op]
  <2>1. op \in {"listLabels", "listMessages", "getMessage", "getAttachment", "send", "draft"}
    BY NoSenderIdentities DEF Operations, Required
  <2>2. CASE op = "listLabels"
    <3>1. "labels" \in Required[op] /\ GrantedBy["labels"] \subseteq Permits[op]
      BY <2>2 DEF Required, GrantedBy, Permits
    <3> QED BY <3>1
  <2>3. CASE op = "listMessages"
    <3>1. "mailboxAccess" \in Required[op] /\ GrantedBy["mailboxAccess"] \subseteq Permits[op]
      BY <2>3 DEF Required, GrantedBy, Permits
    <3> QED BY <3>1
  <2>4. CASE op = "getMessage"
    <3>1. "messageRead" \in Required[op] /\ GrantedBy["messageRead"] \subseteq Permits[op]
      BY <2>4 DEF Required, GrantedBy, Permits
    <3> QED BY <3>1
  <2>5. CASE op = "getAttachment"
    <3>1. "mailboxAccess" \in Required[op] /\ GrantedBy["mailboxAccess"] \subseteq Permits[op]
      BY <2>5 DEF Required, GrantedBy, Permits
    <3> QED BY <3>1
  <2>6. CASE op = "send"
    <3>1. "send" \in Required[op] /\ GrantedBy["send"] \subseteq Permits[op]
      BY <2>6 DEF Required, GrantedBy, Permits
    <3> QED BY <3>1
  <2>7. CASE op = "draft"
    <3>1. "drafts" \in Required[op] /\ GrantedBy["drafts"] \subseteq Permits[op]
      BY <2>7 DEF Required, GrantedBy, Permits
    <3> QED BY <3>1
  <2> QED BY <2>1, <2>2, <2>3, <2>4, <2>5, <2>6, <2>7
<1> QED BY <1>1, CapabilityBacked

\* Of the writes only a send may be granted without what its search needs: without reading.
LEMMA CapabilitiesPermitSearch ==
  ASSUME NEW scopes, NEW op \in Writes, Required[op] \subseteq Capabilities(scopes),
         scopes \cap PermitsSearch(op) = {}
  PROVE  op = "send" /\ scopes \cap Reading = {}
<1>1. op \in Operations
  BY DEF Writes, Operations, Required
<1>2. op \in {"send", "draft"}
  BY <1>1, NoSenderIdentities DEF Writes
<1>3. CASE op = "send"
  BY <1>3 DEF PermitsSearch
<1>4. CASE op = "draft"
  <2>1. "drafts" \in Required[op]
    BY <1>4 DEF Required
  <2>2. scopes \cap GrantedBy["drafts"] # {}
    BY <1>1, <2>1, CapabilityBacked
  <2>3. GrantedBy["drafts"] \subseteq PermitsSearch(op)
    BY <1>4 DEF GrantedBy, PermitsSearch
  <2> QED BY <2>2, <2>3
<1> QED BY <1>2, <1>3, <1>4

-----------------------------------------------------------------------------
(* What is answered at once *)

LEMMA SynchronousCases ==
  ASSUME NEW u, NEW i, NEW op
  PROVE  /\ u = None => SynchronousAnswer(u, i, op) = "authentication-required"
         /\ u # None /\ ~Owned(u, i) => SynchronousAnswer(u, i, op) = "account-not-found"
         /\ u # None /\ Owned(u, i) => SynchronousAnswer(u, i, op) = Missing(u, i, op)
BY Zenon DEF SynchronousAnswer

LEMMA MissingCases ==
  ASSUME NEW u, NEW i, NEW op \in Operations \cup AccountRoutes
  PROVE  /\ Missing(u, i, op) \in {"unsupported", "capability-unavailable", None}
         /\ op \in Operations /\ Missing(u, i, op) = None =>
              accounts[i].provider = "gmail" /\ Required[op] \subseteq CapabilitiesOf(u, i)
<1>1. op \in Operations => op \notin AccountRoutes
  BY DEF Operations, Required, AccountRoutes
<1>2. op \in AccountRoutes => Missing(u, i, op) = None
  BY <1>1, Zenon DEF Missing
<1>3. op \in Operations /\ accounts[i].provider # "gmail" => Missing(u, i, op) = "unsupported"
  BY <1>1, Zenon DEF Missing
<1>4. op \in Operations /\ accounts[i].provider = "gmail" =>
        Missing(u, i, op) = IF Required[op] \subseteq CapabilitiesOf(u, i)
                              THEN None ELSE "capability-unavailable"
  BY <1>1, Zenon DEF Missing
<1>5. None \notin {"unsupported", "capability-unavailable"}
  BY InstanceAssumption DEF Answers
<1> QED BY <1>1, <1>2, <1>3, <1>4, <1>5

-----------------------------------------------------------------------------
(* Types *)

LEMMA TypesHoldAtFirst == Init => TypeOK
  BY InstanceAssumption DEF Init, TypeOK, Waiting

\* Each step keeps the types; a waiting request is about an account of Gmail.
LEMMA TypesKept == TypeOK /\ [Next]_vars => TypeOK'
<1> SUFFICES ASSUME TypeOK, [Next]_vars PROVE TypeOK'
  OBVIOUS
<1> USE InstanceAssumption DEF TypeOK, Waiting, Providers, Answers
<1>1. ASSUME NEW u \in Users, NEW i \in Ids, NEW provider \in Providers, Create(u, i, provider)
      PROVE  TypeOK'
  <2>1. accounts[i] = None /\ [user |-> u, provider |-> provider] \in Accounts
    BY <1>1 DEF Create, Accounts
  <2>2. /\ accounts' = [accounts EXCEPT ![i] = [user |-> u, provider |-> provider]]
        /\ live' = live \cup {i} /\ UNCHANGED <<vault, pc, request, secret, token, answer, stale>>
    BY <1>1 DEF Create, locals
  <2>3. pc \in Waiting => request.id \in Ids /\ request.id # i
    BY <2>1 DEF Requests
  <2>4. accounts' \in [Ids -> Accounts \cup {None}]
    BY <2>1, <2>2
  <2>5. \A j \in Ids : accounts'[j] = IF j = i THEN [user |-> u, provider |-> provider]
                                            ELSE accounts[j]
    BY <2>2
  <2>6. live' \subseteq {j \in Ids : accounts'[j] # None}
    <3>1. ASSUME NEW j \in live' PROVE j \in Ids /\ accounts'[j] # None
      BY <2>1, <2>2, <2>5, <3>1
    <3> QED BY <3>1
  <2>7. pc' \in Waiting =>
          /\ request' # None /\ accounts'[request'.id] # None
          /\ accounts'[request'.id].provider = "gmail"
    BY <2>2, <2>3
  <2>8. UNCHANGED <<vault, pc, request, secret, token, answer, stale>>
    BY <2>2
  <2> HIDE DEF Waiting, Answers
  <2> QED BY <2>4, <2>6, <2>7, <2>8
<1>2. ASSUME NEW u \in Users, NEW i \in Ids, Remove(u, i) PROVE TypeOK'
  <2>1. live' \subseteq live /\ UNCHANGED <<accounts, vault, pc, request, secret, token, answer, stale>>
    BY <1>2 DEF Remove, locals
  <2> HIDE DEF Waiting, Answers
  <2> QED BY <2>1
<1>3. ASSUME NEW u \in Users, NEW i \in Ids, NEW grant \in Grants \cup {None}, Change(u, i,
             grant),
             UNCHANGED <<registry, pc, request, locals>>
      PROVE  TypeOK'
  BY <1>3 DEF Change, registry, locals
<1>4. ASSUME NEW u \in Users, NEW i \in Ids, NEW op \in Operations, NEW identified \in BOOLEAN,
             Admit(u, i, op, identified)
      PROVE  TypeOK'
  <2>1. u # None /\ Owned(u, i) /\ Missing(u, i, op) = None
    BY <1>4, SynchronousCases DEF Admit, Answers
  <2>2. i \in live /\ accounts[i].provider = "gmail"
    BY <2>1, MissingCases DEF Owned
  <2>3. request' \in Requests /\ request'.id = i /\ pc' \in {"resolving", "securing"}
    BY <1>4 DEF Admit, Requests
  <2> QED BY <1>4, <2>2, <2>3 DEF Admit, registry, locals
<1>5. ASSUME NEW u \in Users \cup {None}, NEW i \in Ids, NEW op \in Operations \cup AccountRoutes,
             Refuse(u, i, op)
      PROVE  TypeOK'
  <2> DEFINE given == SynchronousAnswer(u, i, op)
  <2>1. given \in {"authentication-required", "account-not-found", Missing(u, i, op)}
    <3> HIDE InstanceAssumption DEF TypeOK, Waiting, Providers, Answers
    <3> QED BY SynchronousCases, Zenon
  <2>2. Missing(u, i, op) \in {"unsupported", "capability-unavailable", None}
    BY MissingCases
  <2> HIDE DEF given
  <2>3. given \in Answers \cup {None}
    BY <2>1, <2>2
  <2> QED BY <1>5, <2>3 DEF Refuse, given, Answer, registry
<1>6. CASE GatePasses \/ GateRefuses
  BY <1>6 DEF GatePasses, GateRefuses, Answer, registry, locals
<1>7. CASE ResolveToken \/ TokenMissing
  <2>1. pc \in Waiting
    BY <1>7 DEF ResolveToken, TokenMissing
  <2>2. vault[Entry] \in Grants \cup {None}
    BY <2>1 DEF Entry, Requests
  <2> QED BY <1>7, <2>1, <2>2 DEF ResolveToken, TokenMissing, Answer, registry
<1>8. ASSUME NEW grant \in Grants, RefreshAnswers(grant) PROVE TypeOK'
  BY <1>8 DEF RefreshAnswers, registry
<1>9. CASE RefreshFails
  BY <1>9 DEF RefreshFails, FailAmbiguously, Answer, registry
<1>10. CASE GmailAnswers \/ SearchAnswers
  BY <1>10 DEF GmailAnswers, SearchAnswers, FailAmbiguously, Answer, registry
<1>11. CASE Respond
  BY <1>11 DEF Respond, registry
<1>12. CASE UNCHANGED vars
  <2>1. UNCHANGED <<accounts, live, vault, pc, request, secret, token, answer, stale>>
    BY <1>12 DEF vars, registry, locals
  <2> HIDE DEF Waiting, Answers
  <2> QED BY <2>1
<1>13. ASSUME NEW u \in Users, NEW i \in Ids, NEW grant \in Grants, Consent(u, i, grant)
       PROVE  TypeOK'
  BY <1>3, <1>13 DEF Consent
<1>14. ASSUME NEW u \in Users, NEW i \in Ids, Revoke(u, i) PROVE TypeOK'
  BY <1>3, <1>14 DEF Revoke
<1> HIDE InstanceAssumption DEF TypeOK, Waiting, Providers, Answers
<1>15. ASSUME Next PROVE TypeOK'
  <2>1. CASE \E u \in Users, i \in Ids :
               \/ \E provider \in Providers : Create(u, i, provider)
               \/ Remove(u, i)
               \/ \E grant \in Grants : Consent(u, i, grant)
               \/ Revoke(u, i)
               \/ \E op \in Operations, identified \in BOOLEAN : Admit(u, i, op, identified)
    BY <2>1, <1>1, <1>2, <1>4, <1>13, <1>14
  <2> QED
    BY <1>15, <2>1, <1>5, <1>6, <1>7, <1>8, <1>10, <1>11, <1>9 DEF Next
<1> QED
  BY <1>12, <1>15

\* Every reachable state is of the declared types.
THEOREM TypeCorrect == Spec => []TypeOK
<1> QED
  BY TypesHoldAtFirst, TypesKept, PTL DEF Spec

-----------------------------------------------------------------------------
(* What is known of a request under way *)

\* It is its owner's; of nothing else is there a request.
RequestOwned ==
  /\ pc \in Waiting => accounts[request.id].user = request.user
  /\ pc = "idle" => request = None

\* Only a write is looked up afterwards.
SearchesAfterWrites ==
  pc \in {"renewing", "refreshing again", "searching"} => request.op \in Writes

\* Until somebody else changes it or a refresh loses scopes, the stored credential, the one
\* a refresh carries and the one behind the token have the scopes that admitted the request.
CredentialChecked ==
  pc \in Waiting /\ ~stale =>
    /\ vault[Entry] # None
    /\ Required[request.op] \subseteq Capabilities(vault[Entry])
    /\ pc \in {"refreshing", "refreshing again"} => secret = vault[Entry]
    /\ pc \in {"sent", "searching"} => token = vault[Entry]

\* An answer about scopes is the answer to a request that was admitted.
AnswersSuffice ==
  pc = "answered" =>
    /\ answer \in {"forbidden", "search-forbidden"} => request # None
    /\ ~stale => /\ answer # "forbidden"
                 /\ answer = "search-forbidden" =>
                      request.op = "send" /\ vault[Entry] \cap Reading = {}

Inv == TypeOK /\ RequestOwned /\ SearchesAfterWrites /\ CredentialChecked /\ AnswersSuffice

LEMMA Initially == Init => Inv
<1> SUFFICES ASSUME Init PROVE Inv
  OBVIOUS
<1>1. TypeOK
  BY TypesHoldAtFirst
<1>2. RequestOwned /\ SearchesAfterWrites /\ CredentialChecked /\ AnswersSuffice
  BY DEF Init, RequestOwned, SearchesAfterWrites, CredentialChecked, AnswersSuffice, Waiting
<1> QED BY <1>1, <1>2 DEF Inv

\* The registry may change, but an id is drawn once and an account keeps its user.
LEMMA RegistryKeeps ==
  ASSUME Inv, NEW u \in Users, NEW i \in Ids,
         (\E provider \in Providers : Create(u, i, provider)) \/ Remove(u, i)
  PROVE  Inv'
<1>1. UNCHANGED <<vault, pc, request, secret, token, answer, stale>>
  BY DEF Create, Remove, locals
<1>2. pc \in Waiting => request.id \in Ids /\ accounts'[request.id] = accounts[request.id]
  BY DEF Create, Remove, Inv, TypeOK, Requests
<1>3. TypeOK'
  BY TypesKept DEF Inv, Next
<1>4. RequestOwned'
  BY <1>1, <1>2 DEF Inv, RequestOwned
<1>5. SearchesAfterWrites' /\ CredentialChecked' /\ AnswersSuffice'
  BY <1>1 DEF Inv, SearchesAfterWrites, CredentialChecked, AnswersSuffice, Entry
<1> QED BY <1>3, <1>4, <1>5 DEF Inv

\* A consent or a revocation of the request's own credential makes it stale, another does
\* not touch what was checked.
LEMMA ChangeKeeps ==
  ASSUME Inv, NEW u \in Users, NEW i \in Ids,
         (\E grant \in Grants : Consent(u, i, grant)) \/ Revoke(u, i)
  PROVE  Inv'
<1>1. /\ UNCHANGED <<accounts, pc, request, secret, token, answer>>
      /\ \E grant \in Grants \cup {None} : Change(u, i, grant)
  BY DEF Consent, Revoke, registry, locals
<1>2. request # None /\ ~stale' => ~stale /\ Entry' = Entry /\ vault'[Entry] = vault[Entry]
  BY <1>1 DEF Change, Entry, Inv, TypeOK, Requests
<1>3. ~stale' => ~stale
  BY <1>1 DEF Change, Inv, TypeOK
<1>4. TypeOK'
  BY TypesKept DEF Inv, Next
<1>5. RequestOwned' /\ SearchesAfterWrites'
  BY <1>1 DEF Inv, RequestOwned, SearchesAfterWrites
<1>6. CredentialChecked'
  BY <1>1, <1>2 DEF Inv, TypeOK, CredentialChecked
<1>7. AnswersSuffice'
  BY <1>1, <1>2, <1>3 DEF Inv, AnswersSuffice
<1> QED BY <1>4, <1>5, <1>6, <1>7 DEF Inv

\* What admits a request is what CredentialChecked keeps of it.
LEMMA AdmitKeeps ==
  ASSUME Inv, NEW u \in Users, NEW i \in Ids, NEW op \in Operations, NEW identified \in BOOLEAN,
         Admit(u, i, op, identified)
  PROVE  Inv'
<1>1. /\ request' = [user |-> u, id |-> i, op |-> op, identified |-> identified]
      /\ pc' \in {"resolving", "securing"} /\ UNCHANGED <<accounts, vault>>
  BY DEF Admit, registry, locals
<1>2. u # None /\ Owned(u, i) /\ Missing(u, i, op) = None
  BY SynchronousCases, InstanceAssumption DEF Admit, Answers
<1>3. Required[op] \subseteq CapabilitiesOf(u, i)
  BY <1>2, MissingCases
<1>4. vault[<<u, i>>] # None /\ Required[op] \subseteq Capabilities(vault[<<u, i>>])
  <2>1. Required[op] # {}
    BY DEF Operations, Required
  <2> QED BY <1>3, <2>1 DEF CapabilitiesOf
<1>5. Entry' = <<u, i>> /\ request'.op = op
  BY <1>1 DEF Entry
<1>6. TypeOK'
  BY TypesKept DEF Inv, Next
<1>7. RequestOwned' /\ SearchesAfterWrites' /\ AnswersSuffice'
  BY <1>1, <1>2 DEF RequestOwned, SearchesAfterWrites, AnswersSuffice, Owned
<1>8. CredentialChecked'
  BY <1>1, <1>4, <1>5 DEF CredentialChecked
<1> QED BY <1>6, <1>7, <1>8 DEF Inv

\* A refusal says nothing about scopes.
LEMMA RefuseKeeps ==
  ASSUME Inv, NEW u \in Users \cup {None}, NEW i \in Ids,
         NEW op \in Operations \cup AccountRoutes,
         Refuse(u, i, op)
  PROVE  Inv'
<1>1. answer' \in {"authentication-required", "account-not-found", Missing(u, i, op)}
  BY SynchronousCases, Zenon DEF Refuse, Answer
<1>2. answer' \notin {"forbidden", "search-forbidden"}
  BY <1>1, MissingCases, InstanceAssumption DEF Answers
<1>3. pc' = "answered" /\ UNCHANGED <<request, vault, stale>>
  BY DEF Refuse, Answer
<1>4. TypeOK'
  BY TypesKept DEF Inv, Next
<1>5. RequestOwned' /\ SearchesAfterWrites' /\ CredentialChecked' /\ AnswersSuffice'
  BY <1>2, <1>3
     DEF RequestOwned, SearchesAfterWrites, CredentialChecked, AnswersSuffice, Waiting
<1> QED BY <1>4, <1>5 DEF Inv

\* An answer that has nothing to do with scopes.
LEMMA AnswerKeeps ==
  ASSUME Inv, TypeOK', pc \in Waiting, pc' = "answered",
         answer' \notin {"forbidden", "search-forbidden"}
  PROVE  Inv'
<1>1. RequestOwned' /\ SearchesAfterWrites' /\ CredentialChecked' /\ AnswersSuffice'
  BY DEF RequestOwned, SearchesAfterWrites, CredentialChecked, AnswersSuffice, Waiting
<1> QED BY <1>1 DEF Inv

\* The request goes on, with the credential as it is or with more scopes.
LEMMA WaitKeeps ==
  ASSUME Inv, TypeOK', pc \in Waiting, pc' \in Waiting, UNCHANGED <<accounts, request>>, ~stale' => ~stale,
         ~stale' => \/ vault' = vault
                    \/ vault'[Entry] # None /\ vault[Entry] \subseteq vault'[Entry],
         pc' \in {"renewing", "refreshing again", "searching"} => request.op \in Writes,
         ~stale' /\ pc' \in {"refreshing", "refreshing again"} => secret' = vault'[Entry],
         ~stale' /\ pc' \in {"sent", "searching"} => token' = vault'[Entry]
  PROVE  Inv'
<1>1. Entry' = Entry
  BY DEF Entry
<1>2. RequestOwned' /\ SearchesAfterWrites' /\ AnswersSuffice'
  BY DEF Inv, RequestOwned, SearchesAfterWrites, AnswersSuffice, Waiting
<1>3. ~stale' => vault'[Entry] # None /\ Required[request.op] \subseteq Capabilities(vault'[Entry])
  BY DEF Inv, CredentialChecked, Capabilities
<1>4. CredentialChecked'
  BY <1>1, <1>3 DEF CredentialChecked
<1> QED BY <1>2, <1>4 DEF Inv

\* Every step keeps the invariant.
LEMMA Inductive == Inv /\ [Next]_vars => Inv'
<1> SUFFICES ASSUME Inv, [Next]_vars PROVE Inv'
  OBVIOUS
<1>0. TypeOK'
  BY TypesKept DEF Inv
<1>1. ASSUME NEW u \in Users, NEW i \in Ids,
             \/ \E provider \in Providers : Create(u, i, provider)
             \/ Remove(u, i)
             \/ \E grant \in Grants : Consent(u, i, grant)
             \/ Revoke(u, i)
             \/ \E op \in Operations, identified \in BOOLEAN : Admit(u, i, op, identified)
      PROVE  Inv'
  BY <1>1, RegistryKeeps, ChangeKeeps, AdmitKeeps
<1>2. ASSUME NEW u \in Users \cup {None}, NEW i \in Ids, NEW op \in Operations \cup AccountRoutes,
             Refuse(u, i, op)
      PROVE  Inv'
  BY <1>2, RefuseKeeps
<1>3. CASE GatePasses
  <2>1. /\ pc = "securing" /\ pc' = "resolving"
        /\ UNCHANGED <<accounts, vault, request, secret, token, stale>>
    BY <1>3 DEF GatePasses, registry, locals
  <2> QED BY <1>0, <2>1, WaitKeeps DEF Waiting
<1>4. CASE GateRefuses
  BY <1>0, <1>4, AnswerKeeps DEF GateRefuses, Answer, Waiting
<1>5. CASE ResolveToken
  <2>1. /\ pc \in {"resolving", "renewing"} /\ UNCHANGED <<accounts, vault, request, stale>>
        /\ pc = "renewing" => request.op \in Writes
    BY <1>5 DEF ResolveToken, registry, Inv, SearchesAfterWrites
  <2>2. CASE token' = vault[Entry] /\ pc' = IF pc = "resolving" THEN "sent" ELSE "searching"
    BY <1>0, <2>1, <2>2, WaitKeeps DEF Waiting
  <2>3. CASE secret' = vault[Entry] /\ pc' = IF pc = "resolving" THEN "refreshing" ELSE "refreshing again"
    BY <1>0, <2>1, <2>3, WaitKeeps DEF Waiting
  <2>4. CASE Answer(IF pc = "resolving" THEN "authorization-required" ELSE "unknown")
    BY <1>0, <2>1, <2>4, AnswerKeeps DEF Answer, Waiting
  <2> QED BY <1>5, <2>2, <2>3, <2>4 DEF ResolveToken
<1>6. CASE TokenMissing
  BY <1>0, <1>6, AnswerKeeps DEF TokenMissing, Answer, Waiting
<1>7. ASSUME NEW grant \in Grants, RefreshAnswers(grant) PROVE Inv'
  <2>1. /\ pc \in {"refreshing", "refreshing again"} /\ UNCHANGED <<accounts, request>>
        /\ token' = grant /\ pc' = IF pc = "refreshing" THEN "sent" ELSE "searching"
        /\ vault' = [vault EXCEPT ![Entry] = grant]
        /\ stale' = (stale \/ ~(secret \subseteq grant))
    BY <1>7 DEF RefreshAnswers, registry
  <2>2. pc = "refreshing again" => request.op \in Writes
    BY DEF Inv, SearchesAfterWrites
  <2>3. vault'[Entry] = grant /\ grant # None
    <3>1. Entry \in Users \X Ids
      BY <2>1 DEF Entry, Inv, TypeOK, Waiting, Requests
    <3> QED BY <2>1, <3>1, InstanceAssumption DEF Inv, TypeOK
  <2>4. ~stale' => ~stale /\ vault[Entry] = secret /\ secret \subseteq grant
    BY <2>1 DEF Inv, TypeOK, CredentialChecked, Waiting
  <2> QED BY <1>0, <2>1, <2>2, <2>3, <2>4, WaitKeeps DEF Waiting
<1>8. CASE RefreshFails
  <2>1. /\ pc \in {"refreshing", "refreshing again"}
        /\ UNCHANGED <<accounts, vault, request, token, stale>>
    BY <1>8 DEF RefreshFails, registry
  <2>2. CASE pc' = "renewing" /\ request.op \in Writes
    BY <1>0, <2>1, <2>2, WaitKeeps DEF Waiting
  <2>3. CASE pc' = "answered" /\ answer' \in {"failed", "authorization-required", "unknown"}
    BY <1>0, <2>1, <2>3, AnswerKeeps DEF Waiting
  <2> QED BY <1>8, <2>2, <2>3 DEF RefreshFails, FailAmbiguously, Answer
<1>9. CASE GmailAnswers
  <2>1. pc = "sent" /\ UNCHANGED <<accounts, vault, request, secret, stale>>
    BY <1>9 DEF GmailAnswers, registry
  <2>2. request.op \in Operations
    BY <2>1 DEF Inv, TypeOK, Waiting, Requests
  <2>3. CASE token \cap Permits[request.op] = {}
    <3>1. pc' = "answered" /\ answer' = "forbidden"
      BY <1>9, <2>3 DEF GmailAnswers, Answer
    <3>2. stale
      BY <2>1, <2>2, <2>3, CapabilitiesPermit DEF Inv, CredentialChecked, Waiting
    <3>3. AnswersSuffice'
      BY <2>1, <3>1, <3>2 DEF AnswersSuffice, Inv, TypeOK, Waiting
    <3> QED
      BY <1>0, <2>1, <3>1, <3>3
         DEF Inv, RequestOwned, SearchesAfterWrites, CredentialChecked, Waiting
  <2>4. CASE pc' = "renewing" /\ request.op \in Writes
    BY <1>0, <2>1, <2>4, WaitKeeps DEF Waiting
  <2>5. CASE pc' = "answered" /\ answer' \in {"failed", "ok", "authorization-required"}
    BY <1>0, <2>1, <2>5, AnswerKeeps DEF Waiting
  <2> QED BY <1>9, <2>3, <2>4, <2>5 DEF GmailAnswers, FailAmbiguously, Answer
<1>10. CASE SearchAnswers
  <2>1. pc = "searching" /\ pc' = "answered" /\ UNCHANGED <<accounts, vault, request, secret, stale>>
    BY <1>10 DEF SearchAnswers, Answer, registry
  <2>2. request.op \in Writes
    BY <2>1 DEF Inv, SearchesAfterWrites
  <2>3. CASE token \cap PermitsSearch(request.op) = {}
    <3>1. answer' = "search-forbidden"
      BY <1>10, <2>3 DEF SearchAnswers, Answer
    <3>2. ~stale => request.op = "send" /\ vault[Entry] \cap Reading = {}
      BY <2>1, <2>2, <2>3, CapabilitiesPermitSearch DEF Inv, CredentialChecked, Waiting
    <3>3. AnswersSuffice'
      BY <2>1, <3>1, <3>2 DEF AnswersSuffice, Inv, TypeOK, Waiting, Entry
    <3> QED
      BY <1>0, <2>1, <3>3 DEF Inv, RequestOwned, SearchesAfterWrites, CredentialChecked, Waiting
  <2>4. CASE answer' \in {"reconciled", "unknown"}
    BY <1>0, <2>1, <2>4, AnswerKeeps DEF Waiting
  <2> QED BY <1>10, <2>3, <2>4 DEF SearchAnswers, Answer
<1>11. CASE Respond
  <2>1. pc' = "idle" /\ request' = None
    BY <1>11 DEF Respond
  <2> QED
    BY <1>0, <2>1
       DEF Inv, RequestOwned, SearchesAfterWrites, CredentialChecked, AnswersSuffice, Waiting
<1>12. CASE UNCHANGED vars
  BY <1>0, <1>12
     DEF vars, registry, locals, Inv, RequestOwned, SearchesAfterWrites, CredentialChecked,
         AnswersSuffice, Entry
<1>13. ASSUME Next PROVE Inv'
  BY <1>13, <1>1, <1>2, <1>3, <1>4, <1>5, <1>6, <1>7, <1>8, <1>9, <1>10, <1>11 DEF Next
<1> QED BY <1>12, <1>13

LEMMA Invariant == Spec => []Inv
  BY Initially, Inductive, PTL DEF Spec

\* An account keeps its user: an id is drawn once, whatever happens to the account.
LEMMA UserKept ==
  ASSUME [Next]_vars, NEW i \in Ids, accounts[i] # None
  PROVE  accounts'[i] = accounts[i]
<1>1. CASE \E u \in Users, j \in Ids, provider \in Providers : Create(u, j, provider)
  BY <1>1 DEF Create
<1>2. CASE UNCHANGED accounts
  BY <1>2
<1>3. CASE UNCHANGED vars
  BY <1>3 DEF vars, registry
<1> QED
  BY <1>1, <1>2, <1>3
     DEF Next, Remove, Consent, Revoke, Admit, Refuse, GatePasses, GateRefuses, ResolveToken,
         TokenMissing, RefreshAnswers, RefreshFails, GmailAnswers, SearchAnswers, Respond,
         registry

\* What anybody is told of an account that is not his stays what it is, whatever its owner and
\* the requests about it do: for any users, accounts and consents.
THEOREM OthersInvisible == Spec => OthersAreInvisible
<1>1. TypeOK /\ [Next]_vars =>
        [\A u \in Users, i \in Ids, op \in Operations \cup AccountRoutes :
           SynchronousAnswer(u, i, op)' # SynchronousAnswer(u, i, op) =>
             accounts'[i] # None /\ accounts'[i].user = u]_vars
  <2> SUFFICES ASSUME TypeOK, [Next]_vars, NEW u \in Users, NEW i \in Ids,
                      NEW op \in Operations \cup AccountRoutes,
                      ~(accounts'[i] # None /\ accounts'[i].user = u)
               PROVE  SynchronousAnswer(u, i, op)' = SynchronousAnswer(u, i, op)
    OBVIOUS
  <2>1. u # None
    BY InstanceAssumption
  <2>2. ~Owned(u, i)
    BY UserKept DEF Owned, TypeOK
  <2>3. ~Owned(u, i)'
    BY TypesKept DEF Owned, TypeOK
  <2>4. SynchronousAnswer(u, i, op) = "account-not-found"
    BY <2>1, <2>2, SynchronousCases
  <2>5. SynchronousAnswer(u, i, op)' = "account-not-found"
    BY <2>1, <2>3, Zenon DEF SynchronousAnswer
  <2> QED BY <2>4, <2>5
<1> QED BY <1>1, TypeCorrect, PTL DEF Spec, OthersAreInvisible

\* Unless somebody else changes the credential or a refresh loses scopes, Gmail refuses neither
\* what the capabilities let through nor, but for a consent that includes no reading, the search
\* after a send: for any consents and any refreshed scopes.
THEOREM ScopesSufficient == Spec => []ScopesSuffice
<1>1. Inv => ScopesSuffice
  BY DEF Inv, AnswersSuffice, ScopesSuffice
<1> QED BY <1>1, Invariant, PTL

=============================================================================
