-------------------------- MODULE RuntimeAcceptance --------------------------
(***************************************************************************)
(* The acceptance of a deployed Wardveil scanner: the script               *)
(* run-mail-wardveil-runtime-acceptance.mjs drives the matrix of           *)
(* mail-wardveil-runtime-acceptance.js, six cases that put a clean control *)
(* and the EICAR control through the delivery service and the outgoing     *)
(* gate, with a provider of its own, in a work directory of its own, and   *)
(* writes the report an operator files as evidence.                        *)
(*                                                                         *)
(* The services are the real ones (their decisions are ScanDecision's);    *)
(* what varies is the scanner, the file system, the clock and the process. *)
(***************************************************************************)
EXTENDS ScanDecision, Sequences

CONSTANTS
  Answers,   \* the answers the scanner gives
  MaxRuns,   \* bound: how often the operator runs the script
  None       \* null, or absent

VARIABLES
  clock,      \* Date.now()
  runs,       \* runs of the script so far; the number names the work directory
  pc,         \* where the run is
  at,         \* the case of the matrix it is at
  answer,     \* what the scanner has answered to the case, or None
  said,       \* history: the results the scanner gave in this run, by case
  until,      \* valid_until of the object under incoming/
  incoming,   \* the control stored with its sidecar under incoming/, or None
  recorded,   \* the actions of the provenance records under outgoing/
  clients,    \* providerState.clientFactoryCalls
  before,     \* what the provider and outgoing/ had seen when the case began
  writes,     \* providerState.sendWrites and draftWrites
  roots,      \* the work directories on disk
  report      \* the evidence file: "none", "partial" or "passed"

files == <<until, incoming, recorded>>
provider == <<clients, before, writes>>
vars == <<clock, runs, pc, at, answer, said, files, provider, roots, report>>

Matrix ==
  << [use |-> "download", control |-> "clean"], [use |-> "download", control |-> "eicar"],
     [use |-> "send", control |-> "clean"],     [use |-> "draft", control |-> "clean"],
     [use |-> "send", control |-> "eicar"],     [use |-> "draft", control |-> "eicar"] >>

Cases == DOMAIN Matrix
Current == Matrix[at]
Controls == {"clean", "eicar"}
Writes == [send : Seq(Controls), draft : Seq(Controls)]
NoWrites == [send |-> <<>>, draft |-> <<>>]
NothingSeen == [clients |-> 0, writes |-> NoWrites, recorded |-> {}]

Ended == {"idle", "failed", "passed"}
Running == {"scanning", "admitted", "returned", "cleaning", "reporting", "syncing"}

ASSUME InstanceAssumption ==
  /\ MaxTime \in Nat /\ MaxRuns \in Nat
  /\ Answers \subseteq Envelopes
  /\ None \notin Envelopes /\ None \notin Findings /\ None \notin Controls

TypeOK ==
  /\ clock \in Times
  /\ runs \in 0 .. MaxRuns
  /\ pc \in Ended \cup Running
  /\ at \in Cases
  /\ answer \in Envelopes \cup {None}
  /\ said \in [Cases -> Findings \cup {None}]
  /\ until \in Times
  /\ incoming \in Controls \cup {None}
  /\ recorded \subseteq {"send", "draft"}
  /\ clients \in Nat
  /\ before \in [clients : Nat, writes : Writes, recorded : SUBSET {"send", "draft"}]
  /\ writes \in Writes
  /\ roots \subseteq 1 .. MaxRuns
  /\ report \in {"none", "partial", "passed"}

Init ==
  /\ clock = 0
  /\ runs = 0
  /\ pc = "idle"
  /\ at = 1
  /\ answer = None
  /\ said = [i \in Cases |-> None]
  /\ until = 0
  /\ incoming = None
  /\ recorded = {}
  /\ clients = 0
  /\ before = NothingSeen
  /\ writes = NoWrites
  /\ roots = {}
  /\ report = "none"

-----------------------------------------------------------------------------
(* The run, and its cases one after the other *)

\* The arguments are good and mkdtemp succeeds.  The first case fetches its attachment.
Start ==
  /\ pc \in Ended
  /\ runs < MaxRuns
  /\ runs' = runs + 1
  /\ pc' = "scanning"
  /\ at' = 1
  /\ said' = [i \in Cases |-> None]
  /\ incoming' = None
  /\ recorded' = {}
  /\ clients' = 1
  /\ before' = NothingSeen
  /\ writes' = NoWrites
  /\ roots' = roots \cup {runs + 1}
  /\ UNCHANGED <<clock, answer, until, report>>

\* A requireCondition fails, or an exception propagates: the finally block is next.
Fail ==
  /\ pc' = "cleaning"
  /\ UNCHANGED <<at, clients, before>>

\* Bug: the last case is not the end.
NextCaseAlways ==
  /\ pc' = "scanning"
  /\ at' = at + 1
  /\ clients' = IF at = 1 THEN clients + 1 ELSE clients
  /\ before' = [clients |-> clients', writes |-> writes, recorded |-> recorded]

\* The next case begins.  A download asks the provider for its attachment before anything
\* is scanned; an outgoing case notes what the provider has seen so far.
NextCase ==
  IF at = Len(Matrix)
    THEN pc' = "reporting" /\ UNCHANGED <<at, clients, before>>
    ELSE /\ pc' = "scanning"
         /\ at' = at + 1
         /\ clients' = IF Matrix[at + 1].use = "download" THEN clients + 1 ELSE clients
         /\ before' = [clients |-> clients', writes |-> writes, recorded |-> recorded]

\* The scanner has looked at the attachment; its answer is on its way.
ScannerAnswers(env) ==
  /\ pc = "scanning"
  /\ answer = None
  /\ answer' = env
  /\ said' = [said EXCEPT ![at] = env.result]
  /\ UNCHANGED <<clock, runs, pc, at, files, provider, roots, report>>

NothingHappened ==
  incoming = None /\ [clients |-> clients, writes |-> writes, recorded |-> recorded] = before

\* Bug: any refusal counts as a block.
BlockedAsMeantAnyhow(code) == NothingHappened

\* What the script asks of the error an EICAR case ends in.
BlockedAsMeant(code) == code = "blocked" /\ NothingHappened

\* The service throws: what a clean control may not do, and what EICAR must.
Refused(code) ==
  IF Current.control = "eicar" /\ BlockedAsMeant(code) THEN NextCase ELSE Fail

\* The service validates the answer when it arrives.
Decide ==
  /\ answer # None
  /\ LET decision ==
           CASE ~Readable(answer) -> Unverified("unavailable")
             [] Readable(answer) /\ Current.use = "download" -> Incoming(answer, clock)
             [] Readable(answer) /\ Current.use # "download" -> Outgoing(answer, clock)
     IN IF decision = Allow
          THEN pc' = "admitted" /\ UNCHANGED <<at, clients, before>>
          ELSE Refused(decision.code)
  /\ until' = answer.validUntil
  /\ answer' = None
  /\ UNCHANGED <<clock, runs, said, incoming, recorded, writes, roots, report>>

\* No answer: the timer, the connection, or an HTTP error.
ScanFails ==
  /\ pc = "scanning"
  /\ answer = None
  /\ Refused("unavailable")
  /\ UNCHANGED <<clock, runs, answer, said, files, writes, roots, report>>

\* The bytes, the sidecar and the record of a delivery.
Deliver ==
  /\ pc = "admitted"
  /\ Current.use = "download"
  /\ incoming' = Current.control
  /\ pc' = "returned"
  /\ UNCHANGED <<clock, runs, at, answer, said, until, recorded, provider, roots, report>>

\* The provenance record, and then the provider's write.
Write ==
  /\ pc = "admitted"
  /\ Current.use # "download"
  /\ recorded' = recorded \cup {Current.use}
  /\ clients' = clients + 1
  /\ writes' = [writes EXCEPT ![Current.use] = Append(@, Current.control)]
  /\ pc' = "returned"
  /\ UNCHANGED <<clock, runs, at, answer, said, until, incoming, before, roots, report>>

\* The file system fails: the service undoes what it can and throws something else.
StoreFails ==
  /\ pc = "admitted"
  /\ Refused("invalid")
  /\ UNCHANGED <<clock, runs, answer, said, files, writes, roots, report>>

\* authorizeDownload, the stored bytes, remove and the directory.
DownloadAccepted ==
  Current.control = "clean" /\ incoming = "clean" /\ clock < until

\* The ids the provider returned and, when the draft is there, both writes and records.
WriteAccepted ==
  /\ Current.control = "clean"
  /\ Len(writes[Current.use]) = 1
  /\ Current.use = "draft" =>
       /\ writes = [send |-> <<"clean">>, draft |-> <<"clean">>]
       /\ recorded = {"send", "draft"}

\* The service returned; an EICAR control it admitted fails the run.
CheckDownload ==
  /\ pc = "returned"
  /\ Current.use = "download"
  /\ \/ DownloadAccepted /\ incoming' = None /\ NextCase
     \/ UNCHANGED incoming /\ Fail
  /\ UNCHANGED <<clock, runs, answer, said, until, recorded, writes, roots, report>>

CheckWrite ==
  /\ pc = "returned"
  /\ Current.use # "download"
  /\ IF WriteAccepted THEN NextCase ELSE Fail
  /\ UNCHANGED <<clock, runs, answer, said, files, writes, roots, report>>

-----------------------------------------------------------------------------
(* The end of the run, and the report *)

\* finally: rm of the work directory.  Where it throws, that is what the run ends in.
CleanUp ==
  /\ pc = "cleaning"
  /\ pc' = "failed"
  /\ roots' \in {roots, roots \ {runs}}
  /\ UNCHANGED <<clock, runs, at, answer, said, files, provider, report>>

\* The matrix has passed.  The report exists once the directory is gone, and is opened for
\* exclusive creation.
OpenReport ==
  /\ pc = "reporting"
  /\ \/ /\ roots' = roots \ {runs}
        /\ report = "none"
        /\ report' = "partial"
        /\ pc' = "syncing"
     \/ /\ roots' \in {roots, roots \ {runs}}
        /\ pc' = "failed"
        /\ UNCHANGED report
  /\ UNCHANGED <<clock, runs, at, answer, said, files, provider>>

\* The report is written and synced, or the disk is full.
WriteReport ==
  /\ pc = "syncing"
  /\ \/ report' = "passed" /\ pc' = "passed"
     \/ UNCHANGED report /\ pc' = "failed"
  /\ UNCHANGED <<clock, runs, at, answer, said, files, provider, roots>>

\* The process is killed; of a report that was not synced anything may be on disk.
Crash ==
  /\ pc \in Running
  /\ pc' = "failed"
  /\ answer' = None
  /\ report' \in {report, IF pc = "syncing" THEN "passed" ELSE report}
  /\ UNCHANGED <<clock, runs, at, said, files, provider, roots>>

Tick ==
  /\ clock < MaxTime
  /\ clock' = clock + 1
  /\ UNCHANGED <<runs, pc, at, answer, said, files, provider, roots, report>>

Next ==
  \/ Start
  \/ \E env \in Answers : ScannerAnswers(env)
  \/ Decide
  \/ ScanFails
  \/ Deliver
  \/ Write
  \/ StoreFails
  \/ CheckDownload
  \/ CheckWrite
  \/ CleanUp
  \/ OpenReport
  \/ WriteReport
  \/ Crash
  \/ Tick

Spec == Init /\ [][Next]_vars

-----------------------------------------------------------------------------
(* Properties *)

\* In this run the scanner called every clean control clean and every EICAR control
\* malicious, the provider saw the clean ones once each, and the work directory has gone.
Earned ==
  /\ \A i \in Cases : said[i] = IF Matrix[i].control = "clean" THEN "clean" ELSE "malicious"
  /\ writes = [send |-> <<"clean">>, draft |-> <<"clean">>]
  /\ runs \notin roots

\* docs/mail-wardveil-runtime-acceptance.md, "The runtime matrix requires all of the
\* following": whatever the scanner answers, late, never or in error, and wherever the
\* script stops, a report comes only of a run that earned it, and one that is on disk is
\* never replaced.
EvidenceIsEarned ==
  [][report' # report =>
       \/ report = "none" /\ report' = "partial"
       \/ report = "partial" /\ report' = "passed" /\ Earned]_vars

\* The rule is one, although it is written three times: at any moment the server, the
\* reference and the presentation make the same of an answer, apart from the differences
\* RefusalsAreAccountedFor names.
VerdictsAgree ==
  answer # None =>
    /\ ServerWithinReference(answer, clock)
    /\ RefusalsAreAccountedFor(answer, clock)
    /\ BlockedStaysBlocked(answer, clock)

=============================================================================
