---------------------------- MODULE OutgoingWrite ----------------------------
(***************************************************************************)
(* Sending, creating and updating Gmail messages: GmailAccountService's    *)
(* send, createDraft and updateDraft (server/gmail-account-service.js), in *)
(* front of them the outgoing Wardveil gate                                *)
(* (gmail-outgoing-attachment-security.js) with its provenance sidecars,   *)
(* behind them GmailApiClient and runProviderRequest, and Gmail itself.    *)
(*                                                                         *)
(* One account: the reconciliation Message-ID is a hash of the account and *)
(* the client mutation id, so equal ids of two accounts are two mutations. *)
(* A content stands for the bytes of an attachment and for their digest.   *)
(***************************************************************************)
EXTENDS Integers, FiniteSets

CONSTANTS
  Calls,          \* service calls; the draft a call creates is named after it
  Mutations,      \* clientMutationIds
  Contents,       \* attachment contents
  MaxParts,       \* attachments of a message (20 in the code)
  ReadAttempts,   \* runProviderRequest's maxAttempts (3 in the code)
  MaxTime,        \* bound on the clock
  None,           \* null, or absent
  Views           \* TRUE: callers pass Uint8Array views; FALSE: Buffers, base64

VARIABLES
  clock,        \* Date.now()
  mutation,     \* the clientMutationId each call comes with, or None
  pc,           \* where each call is
  request,      \* the message of the call
  buffer,       \* the caller's memory that holds the attachments still to be scanned
  slot,         \* the attachment the gate is at
  submitted,    \* the digest that went out with the scan under way
  scans,        \* the clean findings accepted so far
  secured,      \* the byte buffers the gate returns in place of the caller's
  provenance,   \* the sidecars .wardveil-outgoing-<operationId>.json
  left,         \* attempts runProviderRequest has left
  wire,         \* the HTTP write request the call waits for
  ghosts,       \* write requests the call gave up on that Gmail may still see
  effects,      \* how often Gmail has carried the call's write out
  draft         \* Gmail's drafts: the call that wrote the current version

gate == <<buffer, slot, submitted, scans, secured, provenance>>
gmail == <<wire, ghosts, effects, draft>>
vars == <<clock, mutation, pc, request, gate, left, gmail>>

Slots == 1 .. MaxParts
Times == 0 .. MaxTime
Kinds == {"send", "create", "update"}
Results == {"clean", "malicious", "suspicious", "unknown", "unsupported"}

Envelopes == [valid : BOOLEAN, digest : Contents, result : Results,
              observedAt : Times, validUntil : Times]

\* What is kept of a clean finding.
Findings == [digest : Contents, validUntil : Times]

Sidecars == [action : {"send", "draft"}, scans : [Slots -> Findings \cup {None}]]

\* target: the draft an update replaces.
Requests ==
  {r \in [kind : Kinds, target : Calls \cup {None}, parts : 0 .. MaxParts] :
     r.kind = "update" <=> r.target # None}

\* The awaits that no timer bounds: the body of the scanner's answer, the access
\* token of the write, and the access token of the reconciliation's search.
Unbounded == {"reading", "resolving", "renewing"}

InFlight == {"scanning", "persisting", "writing", "searching"} \cup Unbounded
Finished == {"ok", "reconciled", "refused", "unknown", "ambiguous", "lost"}
Pcs == {"idle"} \cup InFlight \cup Finished

\* Bug: the write is retried like a read.
WriteAttemptsLikeRead == ReadAttempts

\* replaySafe is false: runProviderRequest makes one attempt.
WriteAttempts == 1

ASSUME InstanceAssumption ==
  /\ MaxParts \in Nat /\ MaxTime \in Nat
  /\ ReadAttempts \in Nat \ {0}
  /\ Views \in BOOLEAN
  /\ None \notin Contents \cup Calls /\ None \notin Findings /\ None \notin Requests
  /\ None \notin Mutations

TypeOK ==
  /\ clock \in 0 .. MaxTime
  /\ mutation \in [Calls -> Mutations \cup {None}]
  /\ pc \in [Calls -> Pcs]
  /\ request \in [Calls -> Requests \cup {None}]
  /\ buffer \in [Calls -> [Slots -> Contents \cup {None}]]
  /\ slot \in [Calls -> 1 .. MaxParts + 1]
  /\ submitted \in [Calls -> Contents \cup {None}]
  /\ scans \in [Calls -> [Slots -> Findings \cup {None}]]
  /\ secured \in [Calls -> [Slots -> Contents \cup {None}]]
  /\ provenance \subseteq Sidecars
  /\ left \in [Calls -> 0 .. ReadAttempts]
  /\ wire \in [Calls -> {"none", "sent", "done", "refused", "busy"}]
  /\ ghosts \in [Calls -> Nat]
  /\ effects \in [Calls -> Nat]
  /\ draft \in [Calls -> Calls \cup {None}]

Init ==
  /\ clock = 0
  /\ mutation \in [Calls -> Mutations \cup {None}]
  /\ pc = [k \in Calls |-> "idle"]
  /\ request = [k \in Calls |-> None]
  /\ buffer = [k \in Calls |-> [i \in Slots |-> None]]
  /\ slot = [k \in Calls |-> 1]
  /\ submitted = [k \in Calls |-> None]
  /\ scans = [k \in Calls |-> [i \in Slots |-> None]]
  /\ secured = [k \in Calls |-> [i \in Slots |-> None]]
  /\ provenance = {}
  /\ left = [k \in Calls |-> 0]
  /\ wire = [k \in Calls |-> "none"]
  /\ ghosts = [k \in Calls |-> 0]
  /\ effects = [k \in Calls |-> 0]
  /\ draft = [k \in Calls |-> None]

Goto(k, to) == pc' = [pc EXCEPT ![k] = to]

\* The gate throws: its locals go.
Refuse(k) ==
  /\ Goto(k, "refused")
  /\ buffer' = [buffer EXCEPT ![k] = [i \in Slots |-> None]]
  /\ submitted' = [submitted EXCEPT ![k] = None]
  /\ scans' = [scans EXCEPT ![k] = [i \in Slots |-> None]]
  /\ secured' = [secured EXCEPT ![k] = [i \in Slots |-> None]]
  /\ slot' = [slot EXCEPT ![k] = 1]
  /\ UNCHANGED provenance

Action(k) == IF request[k].kind = "send" THEN "send" ELSE "draft"

-----------------------------------------------------------------------------
(* The call begins, and the gate scans its attachments one by one *)

\* What a client mutation id means: calls that share it repeat one request.
HonoursMutationIds(k, req) ==
  \A j \in Calls \ {k} :
    mutation[k] # None /\ mutation[j] = mutation[k] /\ request[j] # None => request[j] = req

\* Without attachments, or once their findings are recorded, the built message goes to
\* the API client, whose validateRawMessage refuses what the builder's limits admit but
\* is too long for the transport.
AfterGate(k) == \E to \in {"resolving", "refused"} : Goto(k, to)

\* #writeContext passed, and buildGmailRawMessage validated the message; the first
\* attachment has been materialised and submitted.
Begin(k, req, contents) ==
  /\ pc[k] = "idle"
  /\ HonoursMutationIds(k, req)
  /\ request' = [request EXCEPT ![k] = req]
  /\ buffer' = [buffer EXCEPT ![k] = [i \in Slots |-> IF i <= req.parts THEN contents[i] ELSE None]]
  /\ IF req.parts = 0
       THEN AfterGate(k) /\ UNCHANGED submitted
       ELSE /\ Goto(k, "scanning")
            /\ submitted' = [submitted EXCEPT ![k] = contents[1]]
  /\ UNCHANGED <<clock, mutation, slot, scans, secured, provenance, left, gmail>>

\* No session, a foreign or non-Gmail account, a missing capability, an invalid
\* message, or attachments without a configured gate.
Decline(k) ==
  /\ pc[k] = "idle"
  /\ Goto(k, "refused")
  /\ UNCHANGED <<clock, mutation, request, gate, left, gmail>>

\* The caller reuses its memory while the call is suspended.
Overwrite(k, i, c) ==
  /\ pc[k] \in {"scanning", "reading"}
  /\ i \in slot[k] .. request[k].parts
  /\ buffer' = [buffer EXCEPT ![k][i] = c]
  /\ UNCHANGED <<clock, mutation, pc, request, slot, submitted, scans, secured, provenance, left, gmail>>

\* The scanner's headers arrived in time: 200, JSON, and not too long.  The client's
\* timer is cleared before it reads the body.
HeadersArrive(k) ==
  /\ pc[k] = "scanning"
  /\ Goto(k, "reading")
  /\ UNCHANGED <<clock, mutation, request, gate, left, gmail>>

\* The timer ran out, the connection failed, or the headers are refused.
ScanUnavailable(k) ==
  /\ pc[k] = "scanning"
  /\ Refuse(k)
  /\ UNCHANGED <<clock, mutation, request, left, gmail>>

\* requireCurrentCleanOutgoingScan.
CurrentCleanScan(env, digest, now) ==
  /\ env.valid
  /\ env.digest = digest
  /\ env.observedAt <= now
  /\ env.observedAt < env.validUntil
  /\ env.result = "clean"
  /\ now < env.validUntil

\* Bug: the secured buffer is taken from the caller's memory after the scan.
MaterialisedLive(k) == buffer[k][slot[k]]

\* A materialised Buffer or base64 string is a copy, a Uint8Array shares memory.
Materialised(k) == IF Views THEN buffer[k][slot[k]] ELSE submitted[k]

ScanAccepted(k, env) ==
  /\ pc[k] = "reading"
  /\ CurrentCleanScan(env, submitted[k], clock)
  /\ scans' = [scans EXCEPT ![k][slot[k]] = [digest |-> env.digest, validUntil |-> env.validUntil]]
  /\ secured' = [secured EXCEPT ![k][slot[k]] = Materialised(k)]
  /\ slot' = [slot EXCEPT ![k] = slot[k] + 1]
  /\ buffer' = [buffer EXCEPT ![k][slot[k]] = None]
  /\ IF slot[k] = request[k].parts
       THEN /\ Goto(k, "persisting")
            /\ submitted' = [submitted EXCEPT ![k] = None]
       ELSE /\ Goto(k, "scanning")
            /\ submitted' = [submitted EXCEPT ![k] = buffer[k][slot[k] + 1]]
  /\ UNCHANGED <<clock, mutation, request, provenance, left, gmail>>

\* Any other envelope, or a body that is cut off.
ScanRejected(k) ==
  /\ pc[k] = "reading"
  /\ Refuse(k)
  /\ UNCHANGED <<clock, mutation, request, left, gmail>>

PersistProvenance(k) ==
  /\ pc[k] = "persisting"
  /\ provenance' = provenance \cup {[action |-> Action(k), scans |-> scans[k]]}
  /\ AfterGate(k)
  /\ UNCHANGED <<clock, mutation, request, buffer, slot, submitted, scans, secured, left, gmail>>

\* The write failed, or its acknowledgement does not match.
PersistFails(k) ==
  /\ pc[k] = "persisting"
  /\ Refuse(k)
  /\ UNCHANGED <<clock, mutation, request, left, gmail>>

-----------------------------------------------------------------------------
(* The one write, and what its failure means *)

\* isAmbiguousWriteFailure: with a reconciliation Message-ID the service looks
\* the message up, without one it rethrows.
FailAmbiguously(k) ==
  IF mutation[k] # None
    THEN Goto(k, "renewing")
    ELSE Goto(k, "ambiguous")

\* tokenResolver answered; replaySafe is false.
SendWrite(k) ==
  /\ pc[k] = "resolving"
  /\ Goto(k, "writing")
  /\ wire' = [wire EXCEPT ![k] = "sent"]
  /\ left' = [left EXCEPT ![k] = WriteAttempts]
  /\ UNCHANGED <<clock, mutation, request, gate, ghosts, effects, draft>>

\* The token service gives up: definitely (authorization required) ...
TokenRefused(k) ==
  /\ pc[k] = "resolving"
  /\ Goto(k, "refused")
  /\ UNCHANGED <<clock, mutation, request, gate, left, gmail>>

\* ... or with a temporary or unknown provider error, which counts as ambiguous
\* although no write has gone out.
TokenFails(k) ==
  /\ pc[k] = "resolving"
  /\ FailAmbiguously(k)
  /\ UNCHANGED <<clock, mutation, request, gate, left, gmail>>

\* The response arrived and was understood.
Receive(k) ==
  /\ pc[k] = "writing"
  /\ wire[k] \in {"done", "refused"}
  /\ Goto(k, IF wire[k] = "done" THEN "ok" ELSE "refused")
  /\ wire' = [wire EXCEPT ![k] = "none"]
  /\ UNCHANGED <<clock, mutation, request, gate, left, ghosts, effects, draft>>

\* Timeout, lost connection, 429, 5xx, or an answer that cannot be parsed.
\* runProviderRequest may try again.
AttemptFails(k) ==
  /\ pc[k] = "writing"
  /\ ghosts' = [ghosts EXCEPT ![k] = IF wire[k] = "sent" THEN @ + 1 ELSE @]
  /\ IF left[k] > 1
       THEN /\ wire' = [wire EXCEPT ![k] = "sent"]
            /\ left' = [left EXCEPT ![k] = @ - 1]
            /\ UNCHANGED pc
       ELSE /\ wire' = [wire EXCEPT ![k] = "none"]
            /\ FailAmbiguously(k)
            /\ UNCHANGED left
  /\ UNCHANGED <<clock, mutation, request, gate, effects, draft>>

-----------------------------------------------------------------------------
(* Reconciliation *)

\* The messages that carry the Message-ID of k: copies in Sent, or drafts.
Matches(k) ==
  IF request[k].kind = "send"
    THEN {m \in Calls \X (1 .. 2) :   \* a call, and which of its copies
            /\ m[2] <= effects[m[1]]
            /\ mutation[m[1]] = mutation[k] /\ request[m[1]].kind = "send"}
    ELSE {<<d, 1>> : d \in {e \in Calls : draft[e] # None /\ mutation[draft[e]] = mutation[k]}}

\* The search is a request like any other: tokenResolver answers, then the read is
\* attempted up to ReadAttempts times.
SendSearch(k) ==
  /\ pc[k] = "renewing"
  /\ Goto(k, "searching")
  /\ left' = [left EXCEPT ![k] = ReadAttempts]
  /\ UNCHANGED <<clock, mutation, request, gate, gmail>>

\* exactly one match, and for an update the very draft that was to be replaced.
Confirms(k, found) ==
  /\ Cardinality(found) = 1
  /\ request[k].kind = "update" => \A m \in found : m[1] = request[k].target

\* Gmail's index may lag: the search sees some of the matches.
SearchAnswers(k) ==
  /\ pc[k] = "searching"
  /\ \E found \in SUBSET Matches(k) :
       Goto(k, IF Confirms(k, found) THEN "reconciled" ELSE "unknown")
  /\ left' = [left EXCEPT ![k] = 0]
  /\ UNCHANGED <<clock, mutation, request, gate, gmail>>

\* Bug: the attempts are not bounded from below.
SearchFailsUnbounded(k) ==
  /\ pc[k] = "searching"
  /\ left' = [left EXCEPT ![k] = @ - 1]
  /\ UNCHANGED <<clock, mutation, pc, request, gate, gmail>>

\* Bug: the last failure starts the attempts afresh.
SearchFailsAfresh(k) ==
  /\ pc[k] = "searching"
  /\ left' = [left EXCEPT ![k] = IF @ > 1 THEN @ - 1 ELSE ReadAttempts]
  /\ UNCHANGED <<clock, mutation, pc, request, gate, gmail>>

\* A retryable failure of the read.
SearchFails(k) ==
  /\ pc[k] = "searching"
  /\ IF left[k] > 1
       THEN left' = [left EXCEPT ![k] = @ - 1] /\ UNCHANGED pc
       ELSE Goto(k, "unknown") /\ left' = [left EXCEPT ![k] = 0]
  /\ UNCHANGED <<clock, mutation, request, gate, gmail>>

\* The token for the search, or the search itself, is refused.
SearchRefused(k) ==
  /\ pc[k] \in {"renewing", "searching"}
  /\ Goto(k, "unknown")
  /\ left' = [left EXCEPT ![k] = 0]
  /\ UNCHANGED <<clock, mutation, request, gate, gmail>>

-----------------------------------------------------------------------------
(* Gmail, time, and the process *)

\* An update of a draft that does not exist is answered 404.
Feasible(k) == request[k].kind = "update" => draft[request[k].target] # None

TakeEffect(k) ==
  /\ effects' = [effects EXCEPT ![k] = @ + 1]
  /\ draft' = CASE request[k].kind = "send" -> draft
                [] request[k].kind = "create" -> [draft EXCEPT ![k] = k]
                [] request[k].kind = "update" -> [draft EXCEPT ![request[k].target] = k]

Process(k) ==
  /\ wire[k] = "sent"
  /\ Feasible(k)
  /\ TakeEffect(k)
  /\ wire' = [wire EXCEPT ![k] = "done"]
  /\ UNCHANGED <<clock, mutation, pc, request, gate, left, ghosts>>

\* Refused for good (400, 401, 403, 404), or for now (429, 5xx; the client counts
\* every other status as that, too).
Turn(k, answer) ==
  /\ wire[k] = "sent"
  /\ answer \in {"refused", "busy"}
  /\ wire' = [wire EXCEPT ![k] = answer]
  /\ UNCHANGED <<clock, mutation, pc, request, gate, left, ghosts, effects, draft>>

\* A request the client gave up on is carried out after all, or never.
ProcessLate(k) ==
  /\ ghosts[k] > 0
  /\ ghosts' = [ghosts EXCEPT ![k] = @ - 1]
  /\ \/ Feasible(k) /\ TakeEffect(k)
     \/ UNCHANGED <<effects, draft>>
  /\ UNCHANGED <<clock, mutation, pc, request, gate, left, wire>>

Tick ==
  /\ clock < MaxTime
  /\ clock' = clock + 1
  /\ UNCHANGED <<mutation, pc, request, gate, left, gmail>>

\* The process dies; sidecars and Gmail remain.
Crash ==
  /\ \E k \in Calls : pc[k] \in InFlight
  /\ pc' = [k \in Calls |-> IF pc[k] \in InFlight THEN "lost" ELSE pc[k]]
  /\ ghosts' = [k \in Calls |-> IF wire[k] = "sent" THEN ghosts[k] + 1 ELSE ghosts[k]]
  /\ wire' = [k \in Calls |-> "none"]
  /\ buffer' = [k \in Calls |-> [i \in Slots |-> None]]
  /\ submitted' = [k \in Calls |-> None]
  /\ left' = [k \in Calls |-> 0]
  /\ UNCHANGED <<clock, mutation, request, slot, scans, secured, provenance, effects, draft>>

\* What the service does of its own accord, or once a timer runs out.
Timed(k) ==
  \/ ScanUnavailable(k)
  \/ PersistProvenance(k)
  \/ PersistFails(k)
  \/ Receive(k)
  \/ AttemptFails(k)
  \/ pc[k] = "searching" /\ (SearchAnswers(k) \/ SearchFails(k) \/ SearchRefused(k))

\* What it does only when the scanner, or the token endpoint, has answered.
Answered(k) ==
  \/ HeadersArrive(k)
  \/ \E env \in Envelopes : ScanAccepted(k, env)
  \/ ScanRejected(k)
  \/ SendWrite(k)
  \/ TokenRefused(k)
  \/ TokenFails(k)
  \/ SendSearch(k)
  \/ pc[k] = "renewing" /\ SearchRefused(k)

Next ==
  \/ \E k \in Calls, req \in Requests, contents \in [Slots -> Contents] : Begin(k, req, contents)
  \/ \E k \in Calls : Decline(k)
  \/ \E k \in Calls, i \in Slots, c \in Contents : Overwrite(k, i, c)
  \/ \E k \in Calls : Timed(k)
  \/ \E k \in Calls : Answered(k)
  \/ \E k \in Calls : Process(k)
  \/ \E k \in Calls, answer \in {"refused", "busy"} : Turn(k, answer)
  \/ \E k \in Calls : ProcessLate(k)
  \/ Tick
  \/ Crash

Spec == Init /\ [][Next]_vars

\* The scanner's headers and every attempt at Gmail have a timer, and the file system
\* settles.  Nothing is assumed of the scanner's body and of the token endpoint, which
\* may keep a call waiting for ever, or of Gmail.
FairSpec == Spec /\ \A k \in Calls : WF_vars(Timed(k))

-----------------------------------------------------------------------------
(* Properties *)

\* Has the write request of k left the client?
Written(k) == wire[k] # "none" \/ ghosts[k] > 0 \/ effects[k] > 0

\* No attachment reaches Gmail unless exactly its bytes were found clean and that
\* finding is on disk, whatever the caller does to its buffers meanwhile.
WritesAreCleared ==
  \A k \in Calls : Written(k) /\ request[k].parts > 0 =>
    \E s \in provenance :
      /\ s.action = Action(k)
      /\ \A i \in 1 .. request[k].parts :
           s.scans[i] # None /\ s.scans[i].digest = secured[k][i]

\* The evidence is still current when the write leaves for Gmail.
EvidenceIsCurrentAtWrite ==
  [][\A k \in Calls : SendWrite(k) =>
       \A i \in 1 .. request[k].parts : clock < scans[k][i].validUntil]_vars

\* A call that does not end is, from some moment on, waiting for the rest of the
\* scanner's answer or for the token endpoint: everything else has a timer and a
\* bounded number of attempts (unless the process dies first).
OnlyUntimedWaitsLast == \A k \in Calls : <>[](pc[k] \in InFlight => pc[k] \in Unbounded)

\* What the caller is told.
Outcome(k) ==
  CASE pc[k] \in InFlight \cup {"idle"} -> "open"
    [] pc[k] \in {"ok", "reconciled"} -> "confirmed"
    [] pc[k] = "refused" -> "refused"
    [] pc[k] \in {"unknown", "ambiguous", "lost"} -> "unknown"

Promise == INSTANCE MailWrite WITH outcome <- [k \in Calls |-> Outcome(k)]

\* The service implements MailWrite: at most one effect per call, confirmations
\* only of what happened, refusals only of what never will, under lost and late
\* replies, a lagging index, retries by the caller and crashes.
ImplementsMailWrite == Promise!Spec

=============================================================================
