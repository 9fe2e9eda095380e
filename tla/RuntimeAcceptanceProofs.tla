------------------------ MODULE RuntimeAcceptanceProofs ------------------------
(***************************************************************************)
(* Proofs about ScanDecision and RuntimeAcceptance, for any clock and any  *)
(* number of runs: the three statements of the scan rule agree at every    *)
(* moment, and a report comes only of a run that earned it.                *)
(***************************************************************************)
EXTENDS RuntimeAcceptance, TLAPS

-----------------------------------------------------------------------------
(* The scan rule, branch by branch *)

LEMMA VerdictCases ==
  ASSUME NEW valid \in BOOLEAN, NEW env \in Envelopes, NEW now, NEW held
  PROVE  /\ ~valid => Verdict(valid, env, now, held) = Unverified("invalid")
         /\ valid /\ env.result = "malicious" => Verdict(valid, env, now, held) = Quarantine
         /\ valid /\ env.result = "suspicious" => Verdict(valid, env, now, held) = Held(held)
         /\ valid /\ env.result \notin {"malicious", "suspicious", "clean"} =>
              Verdict(valid, env, now, held) = Unverified("invalid")
         /\ valid /\ env.result = "clean" /\ env.validUntil <= now =>
              Verdict(valid, env, now, held) = Unverified("expired")
         /\ valid /\ env.result = "clean" /\ ~(env.validUntil <= now) =>
              Verdict(valid, env, now, held) = Allow
  BY Zenon DEF Verdict

LEMMA ReferenceCases ==
  ASSUME NEW env \in Envelopes, NEW now
  PROVE  LET valid == ReferenceValid(env, now)
             bare == env.evidence \in {"empty", "bad"}
         IN  /\ ~valid => Reference(env, now) = Unverified("invalid")
             /\ valid /\ env.result = "malicious" => Reference(env, now) = Quarantine
             /\ valid /\ env.result = "suspicious" => Reference(env, now) = Held("hold_review")
             /\ valid /\ env.result \notin {"malicious", "suspicious", "clean"} =>
                  Reference(env, now) = Unverified("invalid")
             /\ valid /\ env.result = "clean" /\ bare =>
                  Reference(env, now) = Unverified("invalid")
             /\ valid /\ env.result = "clean" /\ ~bare /\ now > env.validUntil =>
                  Reference(env, now) = Unverified("expired")
             /\ valid /\ env.result = "clean" /\ ~bare /\ ~(now > env.validUntil) =>
                  Reference(env, now) = Allow
  BY Zenon DEF Reference

LEMMA Fields ==
  ASSUME NEW env \in Envelopes, NEW now \in Times
  PROVE  /\ now \in Nat /\ env.validUntil \in Nat /\ env.observedAt \in Nat
         /\ env.result \in Findings /\ env.evidence \in References /\ env.format \in Formats
         /\ env.correlation \in {"own", "foreign", "none"}
         /\ IncomingValid(env, now) \in BOOLEAN /\ OutgoingValid(env, now) \in BOOLEAN
  BY InstanceAssumption DEF Envelopes, Times, IncomingValid, OutgoingValid

\* Only what is allowed without quarantine, and has evidence, can be opened.
LEMMA PresentedCases ==
  ASSUME NEW decision, NEW evidence
  PROVE  LET clear == decision.disposition = "allow" /\ ~decision.quarantine /\ evidence
             held == decision.disposition = "hold_review"
             blocked == decision.disposition = "block_quarantine" \/ decision.quarantine
         IN  /\ clear => Presented(decision, evidence) = "scan-clear"
             /\ held => Presented(decision, evidence) = "held-for-review"
             /\ ~held /\ blocked => ~clear /\ Presented(decision, evidence) = "blocked-by-security"
             /\ ~clear /\ ~held /\ ~blocked =>
                  Presented(decision, evidence) = "verification-unavailable"
  BY Zenon DEF Presented

\* The decisions differ in their disposition.
LEMMA DecisionsDiffer ==
  ASSUME NEW code, NEW held \in {"hold_review", "blocked_unverified"}
  PROVE  /\ Allow # Quarantine /\ Allow # Held(held) /\ Allow # Unverified(code)
         /\ Allow.disposition = "allow" /\ ~Allow.quarantine
         /\ Quarantine.disposition = "block_quarantine" /\ Quarantine.quarantine
         /\ Held(held).disposition = held /\ ~Held(held).quarantine
         /\ Unverified(code).disposition = "blocked_unverified" /\ ~Unverified(code).quarantine
  BY DEF Allow, Quarantine, Held, Unverified

\* A rule lets nothing through that is not valid, clean and current.
LEMMA VerdictAllows ==
  ASSUME NEW valid \in BOOLEAN, NEW env \in Envelopes, NEW now \in Times,
         NEW held \in {"hold_review", "blocked_unverified"}
  PROVE  Verdict(valid, env, now, held) = Allow <=>
           valid /\ env.result = "clean" /\ now < env.validUntil
<1>1. CASE valid /\ env.result = "clean"
  <2>1. CASE env.validUntil <= now
    <3>1. Verdict(valid, env, now, held) # Allow
      BY <1>1, <2>1, VerdictCases, DecisionsDiffer, Zenon
    <3> QED BY <2>1, <3>1, Fields
  <2>2. CASE ~(env.validUntil <= now)
    <3>1. Verdict(valid, env, now, held) = Allow
      BY <1>1, <2>2, VerdictCases, Zenon
    <3>2. now < env.validUntil
      BY <2>2, Fields
    <3> QED BY <1>1, <3>1, <3>2, Zenon
  <2> QED BY <2>1, <2>2
<1>2. CASE ~(valid /\ env.result = "clean")
  <2>1. Verdict(valid, env, now, held) \in {Unverified("invalid"), Quarantine, Held(held)}
    BY <1>2, VerdictCases
  <2> QED BY <1>2, <2>1, DecisionsDiffer
<1> QED BY <1>1, <1>2

LEMMA ServerAllows ==
  ASSUME NEW env \in Envelopes, NEW now \in Times
  PROVE  /\ Incoming(env, now) = Allow <=>
              IncomingValid(env, now) /\ env.result = "clean" /\ now < env.validUntil
         /\ Outgoing(env, now) = Allow <=>
              OutgoingValid(env, now) /\ env.result = "clean" /\ now < env.validUntil
<1>1. IncomingValid(env, now) \in BOOLEAN /\ OutgoingValid(env, now) \in BOOLEAN
  BY Fields
<1> QED
  BY <1>1, VerdictAllows DEF Incoming, Outgoing

LEMMA ReferenceAllows ==
  ASSUME NEW env \in Envelopes, NEW now \in Times
  PROVE  Reference(env, now) = Allow <=>
           /\ ReferenceValid(env, now) /\ env.result = "clean"
           /\ env.evidence \notin {"empty", "bad"} /\ now <= env.validUntil
<1> DEFINE valid == ReferenceValid(env, now)
<1>1. CASE valid /\ env.result = "clean"
  BY <1>1, Fields, ReferenceCases, DecisionsDiffer
<1>2. CASE ~(valid /\ env.result = "clean")
  <2>1. Reference(env, now) \in {Unverified("invalid"), Quarantine, Held("hold_review")}
    BY <1>2, ReferenceCases
  <2> QED BY <1>2, <2>1, DecisionsDiffer
<1> QED BY <1>1, <1>2

\* What is allowed can be opened if there are strings to show, and only then.
LEMMA PresentedAllow ==
  /\ Presented(Allow, TRUE) = "scan-clear"
  /\ Presented(Allow, FALSE) = "verification-unavailable"
  BY DEF Presented, Allow

\* Of the reference's decisions the user may open the one that allows, given strings to show.
LEMMA ShownClear ==
  ASSUME NEW env \in Envelopes, NEW now \in Times
  PROVE  Shown(env, now) = "scan-clear" <=>
           Reference(env, now) = Allow /\ env.evidence \in {"good", "mixed"}
<1> DEFINE strings == env.evidence \in {"good", "mixed"}
<1>1. CASE Reference(env, now) = Allow
  <2>1. CASE strings
    <3>1. Shown(env, now) = Presented(Allow, TRUE)
      BY <1>1, <2>1 DEF Shown
    <3> QED BY <1>1, <2>1, <3>1, PresentedAllow
  <2>2. CASE ~strings
    <3>1. strings = FALSE
      BY <2>2
    <3>2. Shown(env, now) = Presented(Reference(env, now), strings)
      BY DEF Shown
    <3>3. Shown(env, now) = Presented(Allow, FALSE)
      <4> HIDE DEF strings
      <4> QED BY <1>1, <3>1, <3>2
    <3> QED BY <1>1, <2>2, <3>3, PresentedAllow
  <2> QED BY <2>1, <2>2
<1>2. CASE Reference(env, now) # Allow
  <2>1. \/ Reference(env, now) = Unverified("invalid")
        \/ Reference(env, now) = Unverified("expired")
        \/ Reference(env, now) = Quarantine
        \/ Reference(env, now) = Held("hold_review")
    BY <1>2, ReferenceCases
  <2>2. Reference(env, now).disposition # "allow"
    BY <2>1, DecisionsDiffer
  <2> QED BY <1>2, <2>2, PresentedCases DEF Shown
<1> QED BY <1>1, <1>2

\* The statements of the rule agree about every answer at every moment, on a run's way or not,
\* but for the differences ServerWithinReference and RefusalsAreAccountedFor name.
THEOREM RuleIsOne ==
  ASSUME NEW env \in Envelopes, NEW now \in Times
  PROVE  /\ ServerWithinReference(env, now)
         /\ RefusalsAreAccountedFor(env, now)
         /\ BlockedStaysBlocked(env, now)
<1>1. ServerWithinReference(env, now)
  <2>1. IncomingValid(env, now) => OutgoingValid(env, now)
    BY DEF IncomingValid
  <2>2. Readable(env) /\ OutgoingValid(env, now) => IncomingValid(env, now)
    BY DEF IncomingValid, Readable
  <2>3. ASSUME Incoming(env, now) = Allow, env.format = "common"
        PROVE  /\ Reference(env, now) = Allow
               /\ env.evidence = "good" => Shown(env, now) = "scan-clear"
    <3>1. IncomingValid(env, now) /\ env.result = "clean" /\ now < env.validUntil
      BY <2>3, ServerAllows
    <3>2. ReferenceValid(env, now) /\ env.evidence \notin {"empty", "bad"}
      BY <2>3, <3>1 DEF IncomingValid, OutgoingValid, ReferenceValid
    <3>3. Reference(env, now) = Allow
      BY <3>1, <3>2, Fields, ReferenceAllows
    <3> QED BY <3>3, ShownClear
  <2> QED BY <2>1, <2>2, <2>3, ServerAllows DEF ServerWithinReference
<1>2. RefusalsAreAccountedFor(env, now)
  <2> SUFFICES ASSUME Reference(env, now) = Allow, ~(Readable(env) /\ Incoming(env, now) = Allow),
                      env.named, env.attributed, env.correlation = "own",
                      env.evidence # "mixed", env.validUntil # now, env.format # "iso"
               PROVE  FALSE
    BY DEF RefusalsAreAccountedFor
  <2>1. /\ ReferenceValid(env, now) /\ env.result = "clean"
        /\ env.evidence \in {"blank", "good"} /\ env.format = "common" /\ now < env.validUntil
    BY Fields, ReferenceAllows DEF References, Formats, ReferenceValid
  <2>2. Readable(env)
    BY <2>1 DEF Readable, ReferenceValid, Results
  <2>3. IncomingValid(env, now)
    BY <2>1 DEF IncomingValid, OutgoingValid, ReferenceValid
  <2> QED BY <2>1, <2>2, <2>3, ServerAllows
<1>3. BlockedStaysBlocked(env, now)
  <2>1. ASSUME IncomingValid(env, now), env.result = "malicious"
        PROVE  /\ Incoming(env, now) = Quarantine /\ Outgoing(env, now) = Quarantine
               /\ env.format = "common" => Shown(env, now) = "blocked-by-security"
    <3>1. OutgoingValid(env, now)
      BY <2>1 DEF IncomingValid
    <3>2. Incoming(env, now) = Quarantine /\ Outgoing(env, now) = Quarantine
      BY <2>1, <3>1, Fields, VerdictCases DEF Incoming, Outgoing
    <3>3. ASSUME env.format = "common" PROVE Shown(env, now) = "blocked-by-security"
      <4>1. ReferenceValid(env, now)
        BY <2>1, <3>3 DEF IncomingValid, OutgoingValid, ReferenceValid
      <4>2. Reference(env, now) = Quarantine
        BY <2>1, <4>1, ReferenceCases
      <4> QED BY <4>2, PresentedCases, DecisionsDiffer DEF Shown
    <3> QED BY <3>2, <3>3
  <2>2. env.result # "clean" => Shown(env, now) # "scan-clear"
    BY ReferenceAllows, ShownClear
  <2> QED BY <2>1, <2>2 DEF BlockedStaysBlocked
<1> QED BY <1>1, <1>2, <1>3

-----------------------------------------------------------------------------
(* Types *)

LEMMA MatrixCases ==
  /\ Cases = 1 .. 6 /\ Len(Matrix) = 6
  /\ Matrix[1] = [use |-> "download", control |-> "clean"]
  /\ Matrix[2] = [use |-> "download", control |-> "eicar"]
  /\ Matrix[3] = [use |-> "send", control |-> "clean"]
  /\ Matrix[4] = [use |-> "draft", control |-> "clean"]
  /\ Matrix[5] = [use |-> "send", control |-> "eicar"]
  /\ Matrix[6] = [use |-> "draft", control |-> "eicar"]
  BY DEF Cases, Matrix

LEMMA CurrentCase ==
  ASSUME at \in Cases
  PROVE  /\ Current.use \in {"download", "send", "draft"} /\ Current.control \in Controls
         /\ Current.control = "clean" <=> at \in {1, 3, 4}
         /\ Current.use = "download" <=> at \in {1, 2}
         /\ Current.use = "send" <=> at \in {3, 5}
  BY MatrixCases DEF Current, Controls

\* NextCase, and Fail, keep the types.
LEMMA NextCaseTypes ==
  ASSUME TypeOK, writes' \in Writes, recorded' \in SUBSET {"send", "draft"}, NextCase \/ Fail
  PROVE  /\ pc' \in Running /\ at' \in Cases /\ clients' \in Nat
         /\ before' \in [clients : Nat, writes : Writes, recorded : SUBSET {"send", "draft"}]
<1>1. CASE Fail
  BY <1>1 DEF Fail, TypeOK, Running
<1>2. CASE NextCase /\ at = Len(Matrix)
  BY <1>2 DEF NextCase, TypeOK, Running
<1>3. CASE NextCase /\ at # Len(Matrix)
  <2>1. pc' = "scanning" /\ at' = at + 1 /\ clients' \in {clients, clients + 1}
        /\ before' = [clients |-> clients', writes |-> writes, recorded |-> recorded]
    BY <1>3 DEF NextCase
  <2>2. at' \in Cases
    BY <1>3, <2>1, MatrixCases DEF TypeOK
  <2> QED BY <2>1, <2>2 DEF TypeOK, Running
<1> QED BY <1>1, <1>2, <1>3

\* What Decide makes of an answer.
LEMMA DecideCases ==
  ASSUME Decide
  PROVE  \E decision \in {Unverified("unavailable"), Incoming(answer, clock), Outgoing(answer, clock)} :
           IF decision = Allow
             THEN pc' = "admitted" /\ UNCHANGED <<at, clients, before>>
             ELSE Refused(decision.code)
<1> DEFINE decision ==
      CASE ~Readable(answer) -> Unverified("unavailable")
        [] Readable(answer) /\ Current.use = "download" -> Incoming(answer, clock)
        [] Readable(answer) /\ Current.use # "download" -> Outgoing(answer, clock)
<1>1. IF decision = Allow
        THEN pc' = "admitted" /\ UNCHANGED <<at, clients, before>>
        ELSE Refused(decision.code)
  BY Zenon DEF Decide
<1>2. decision \in {Unverified("unavailable"), Incoming(answer, clock), Outgoing(answer, clock)}
  BY Zenon
<1> HIDE DEF decision
<1> QED BY <1>1, <1>2

LEMMA WriteKept ==
  ASSUME NEW w \in Writes, NEW use \in {"send", "draft"}, NEW control \in Controls
  PROVE  [w EXCEPT ![use] = Append(@, control)] \in Writes
<1>1. w.send \in Seq(Controls) /\ w.draft \in Seq(Controls)
  BY DEF Writes
<1>2. Append(w.send, control) \in Seq(Controls) /\ Append(w.draft, control) \in Seq(Controls)
  BY <1>1
<1>3. CASE use = "send"
  BY <1>1, <1>2, <1>3 DEF Writes
<1>4. CASE use = "draft"
  BY <1>1, <1>2, <1>4 DEF Writes
<1> QED BY <1>3, <1>4

LEMMA TypesKept == TypeOK /\ [Next]_vars => TypeOK'
<1> SUFFICES ASSUME TypeOK, [Next]_vars PROVE TypeOK'
  OBVIOUS
<1>0. at \in Cases /\ pc \in Ended \cup Running
  BY DEF TypeOK
<1>1. CASE Start
  <2>1. NoWrites \in Writes
    BY DEF NoWrites, Writes
  <2>2. NothingSeen \in [clients : Nat, writes : Writes, recorded : SUBSET {"send", "draft"}]
    BY <2>1 DEF NothingSeen
  <2>3. runs + 1 \in 1 .. MaxRuns
    BY <1>1, InstanceAssumption DEF Start, TypeOK
  <2>4. runs' \in 0 .. MaxRuns /\ roots' \subseteq 1 .. MaxRuns
    BY <1>1, <2>3, InstanceAssumption DEF Start, TypeOK
  <2>5. pc' \in Ended \cup Running /\ at' \in Cases /\ said' \in [Cases -> Findings \cup {None}]
    BY <1>1, MatrixCases DEF Start, Running
  <2> QED BY <1>1, <2>1, <2>2, <2>4, <2>5 DEF Start, TypeOK
<1>2. ASSUME NEW env \in Answers, ScannerAnswers(env) PROVE TypeOK'
  <2>1. env \in Envelopes /\ env.result \in Findings
    BY InstanceAssumption DEF Envelopes
  <2> QED BY <1>2, <2>1 DEF ScannerAnswers, TypeOK, files, provider
<1>3. CASE Decide
  <2>1. answer.validUntil \in Times
    BY <1>3 DEF Decide, TypeOK, Envelopes
  <2>2. /\ pc' \in Running /\ at' \in Cases /\ clients' \in Nat
        /\ before' \in [clients : Nat, writes : Writes, recorded : SUBSET {"send", "draft"}]
    <3>1. writes' \in Writes /\ recorded' \in SUBSET {"send", "draft"}
      BY <1>3 DEF Decide, TypeOK
    <3>2. CASE pc' = "admitted" /\ UNCHANGED <<at, clients, before>>
      BY <3>2 DEF TypeOK, Running
    <3>3. CASE NextCase \/ Fail
      BY <3>1, <3>3, NextCaseTypes
    <3> QED BY <1>3, <3>2, <3>3, DecideCases DEF Refused
  <2> QED BY <1>3, <2>1, <2>2 DEF Decide, TypeOK
<1>4. CASE ScanFails \/ StoreFails
  <2>1. /\ NextCase \/ Fail
        /\ UNCHANGED <<clock, runs, answer, said, files, writes, roots, report>>
    BY <1>4 DEF ScanFails, StoreFails, Refused
  <2>2. /\ pc' \in Running /\ at' \in Cases /\ clients' \in Nat
        /\ before' \in [clients : Nat, writes : Writes, recorded : SUBSET {"send", "draft"}]
    BY <2>1, NextCaseTypes DEF TypeOK, files
  <2> QED BY <2>1, <2>2 DEF TypeOK, files
<1>5. CASE Deliver
  BY <1>0, <1>5, CurrentCase DEF Deliver, TypeOK, Running, provider
<1>6. CASE Write
  <2>1. Current.use \in {"send", "draft"} /\ Current.control \in Controls
    BY <1>0, <1>6, CurrentCase DEF Write
  <2>2. writes \in Writes /\ writes' = [writes EXCEPT ![Current.use] = Append(@, Current.control)]
    BY <1>6 DEF Write, TypeOK
  <2>3. writes' \in Writes
    BY <2>1, <2>2, WriteKept
  <2>4. clients' \in Nat /\ pc' \in Ended \cup Running
    BY <1>6 DEF Write, TypeOK, Running
  <2>5. recorded' \subseteq {"send", "draft"}
    <3>1. recorded \subseteq {"send", "draft"} /\ recorded' = recorded \cup {Current.use}
      BY <1>6 DEF Write, TypeOK
    <3> HIDE DEF Current
    <3> QED BY <2>1, <3>1
  <2> QED BY <1>6, <2>3, <2>4, <2>5 DEF Write, TypeOK
<1>7. CASE CheckDownload \/ CheckWrite
  <2>1. /\ NextCase \/ Fail
        /\ UNCHANGED <<clock, runs, answer, said, until, recorded, writes, roots, report>>
        /\ incoming' \in {None, incoming}
    BY <1>7 DEF CheckDownload, CheckWrite, files
  <2>2. /\ pc' \in Running /\ at' \in Cases /\ clients' \in Nat
        /\ before' \in [clients : Nat, writes : Writes, recorded : SUBSET {"send", "draft"}]
    BY <2>1, NextCaseTypes DEF TypeOK
  <2> QED BY <2>1, <2>2 DEF TypeOK
<1>8. CASE CleanUp \/ OpenReport \/ WriteReport
  BY <1>8 DEF CleanUp, OpenReport, WriteReport, TypeOK, Ended, Running, files, provider
<1>9. CASE Crash
  BY <1>9 DEF Crash, TypeOK, Ended, files, provider
<1>10. CASE Tick
  BY <1>10, InstanceAssumption DEF Tick, TypeOK, Times, files, provider
<1>11. CASE UNCHANGED vars
  BY <1>11 DEF vars, TypeOK, files, provider
<1> QED
  BY <1>1, <1>2, <1>3, <1>4, <1>5, <1>6, <1>7, <1>8, <1>9, <1>10, <1>11 DEF Next

LEMMA TypesHoldAtFirst == Init => TypeOK
  BY InstanceAssumption, MatrixCases
     DEF Init, TypeOK, Times, Ended, NothingSeen, NoWrites, Writes

\* Every reachable state is of the declared types.
THEOREM TypeCorrect == Spec => []TypeOK
<1> QED
  BY TypesHoldAtFirst, TypesKept, PTL DEF Spec

-----------------------------------------------------------------------------
(* What a run has behind it *)

InMatrix == {"scanning", "admitted", "returned"}
Passing == InMatrix \cup {"reporting", "syncing"}

Expected(i) == IF Matrix[i].control = "clean" THEN "clean" ELSE "malicious"

\* What the provider has seen when case i begins.
WrittenBefore(i) ==
  [send  |-> IF i > 3 THEN <<"clean">> ELSE <<>>,
   draft |-> IF i > 4 THEN <<"clean">> ELSE <<>>]

AllWritten == [send |-> <<"clean">>, draft |-> <<"clean">>]

\* The scanner said what it should in every case that is over, and "clean" where the service
\* went on.
SaidSoFar ==
  /\ answer # None => pc = "scanning" /\ said[at] = answer.result
  /\ pc \in Passing => \A i \in Cases : i < at => said[i] = Expected(i)
  /\ pc \in {"admitted", "returned"} => said[at] = "clean"
  /\ pc \in {"reporting", "syncing"} => at = 6 /\ said[6] = "malicious"

\* The clean controls have been written once each, and EICAR only where a run is about to fail.
WrittenSoFar ==
  /\ pc \in {"scanning", "admitted"} => writes = WrittenBefore(at)
  /\ pc = "returned" =>
       writes = IF Current.use = "download" THEN WrittenBefore(at)
                ELSE [WrittenBefore(at) EXCEPT ![Current.use] = Append(@, Current.control)]
  /\ pc \in {"reporting", "syncing"} => writes = AllWritten

\* The report is opened after the work directory has gone.
ReportOpened == pc = "syncing" => report = "partial" /\ runs \notin roots

Inv == TypeOK /\ SaidSoFar /\ WrittenSoFar /\ ReportOpened

LEMMA Initially == Init => Inv
<1> SUFFICES ASSUME Init PROVE Inv
  OBVIOUS
<1>1. TypeOK
  BY TypesHoldAtFirst
<1>2. answer = None /\ pc = "idle"
  BY DEF Init
<1> QED BY <1>1, <1>2 DEF Inv, SaidSoFar, WrittenSoFar, ReportOpened, Passing, InMatrix

\* The clean outgoing cases are 3 and 4.
LEMMA WrittenByCase ==
  /\ WrittenBefore(1) = NoWrites /\ WrittenBefore(1) = WrittenBefore(2)
  /\ WrittenBefore(2) = WrittenBefore(3)
  /\ [WrittenBefore(3) EXCEPT !["send"] = Append(@, "clean")] = WrittenBefore(4)
  /\ [WrittenBefore(4) EXCEPT !["draft"] = Append(@, "clean")] = WrittenBefore(5)
  /\ WrittenBefore(5) = WrittenBefore(6) /\ WrittenBefore(6) = AllWritten
<1>1. Append(<<>>, "clean") = <<"clean">>
  OBVIOUS
<1>2. /\ \A i \in {1, 2, 3} : WrittenBefore(i) = [send |-> <<>>, draft |-> <<>>]
      /\ WrittenBefore(4) = [send |-> <<"clean">>, draft |-> <<>>]
      /\ \A i \in {5, 6} : WrittenBefore(i) = [send |-> <<"clean">>, draft |-> <<"clean">>]
  BY DEF WrittenBefore
<1>3. /\ [WrittenBefore(3) EXCEPT !["send"] = <<"clean">>] = WrittenBefore(4)
      /\ WrittenBefore(3).send = <<>>
  BY <1>2
<1>4. /\ [WrittenBefore(4) EXCEPT !["draft"] = <<"clean">>] = WrittenBefore(5)
      /\ WrittenBefore(4).draft = <<>>
  BY <1>2
<1>5. /\ [WrittenBefore(3) EXCEPT !["send"] = Append(@, "clean")] = WrittenBefore(4)
      /\ [WrittenBefore(4) EXCEPT !["draft"] = Append(@, "clean")] = WrittenBefore(5)
  BY <1>1, <1>3, <1>4
<1> QED BY <1>2, <1>5 DEF NoWrites, AllWritten

LEMMA ExpectedByCase ==
  /\ \A i \in {1, 3, 4} : Expected(i) = "clean"
  /\ \A i \in {2, 5, 6} : Expected(i) = "malicious"
  BY MatrixCases DEF Expected

\* Only a finding is blocked, and only a clean answer let through.
LEMMA DecisionSaysResult ==
  ASSUME NEW env \in Envelopes, NEW now \in Times,
         NEW decision \in {Incoming(env, now), Outgoing(env, now)}
  PROVE  /\ decision.code = "blocked" => env.result = "malicious"
         /\ decision = Allow => env.result = "clean"
<1>1. PICK valid \in BOOLEAN, held \in {"hold_review", "blocked_unverified"} :
        decision = Verdict(valid, env, now, held)
  BY Fields DEF Incoming, Outgoing
<1>2. /\ \A code : Unverified(code).code = code
      /\ Held(held).code = "held" /\ Allow.code = "none"
  BY DEF Unverified, Held, Allow
<1>3. ASSUME env.result # "malicious" PROVE Verdict(valid, env, now, held).code # "blocked"
  <2>1. Verdict(valid, env, now, held) \in
          {Unverified("invalid"), Unverified("expired"), Held(held), Allow}
    BY <1>3, VerdictCases
  <2> QED BY <1>2, <2>1
<1> QED BY <1>1, <1>3, VerdictAllows

\* A case that is over as it should be leads to the next, or to the report.
LEMMA CasePassed ==
  ASSUME TypeOK, NextCase, answer' = None, UNCHANGED <<said, writes>>,
         \A i \in Cases : i < at => said[i] = Expected(i),
         said[at] = Expected(at),
         at # 6 => writes = WrittenBefore(at + 1),
         at = 6 => writes = AllWritten
  PROVE  SaidSoFar' /\ WrittenSoFar' /\ ReportOpened'
<1>1. CASE at = 6
  <2>1. pc' = "reporting" /\ at' = 6
    BY <1>1, MatrixCases DEF NextCase
  <2>2. said'[6] = "malicious"
    BY <1>1, ExpectedByCase
  <2>3. \A i \in Cases : i < at' => said'[i] = Expected(i)
    BY <1>1, <2>1
  <2> QED BY <1>1, <2>1, <2>2, <2>3 DEF SaidSoFar, WrittenSoFar, ReportOpened, Expected
<1>2. CASE at # 6
  <2>1. pc' = "scanning" /\ at' = at + 1
    BY <1>2, MatrixCases DEF NextCase
  <2>2. \A i \in Cases : i < at' => said'[i] = Expected(i)
    BY <2>1, MatrixCases DEF TypeOK
  <2> QED BY <1>2, <2>1, <2>2 DEF SaidSoFar, WrittenSoFar, ReportOpened, Expected, WrittenBefore
<1> QED BY <1>1, <1>2

\* A run that has failed, or is about to, has nothing left to keep.
LEMMA RunFailed ==
  ASSUME pc' \notin Passing, answer' = None
  PROVE  SaidSoFar' /\ WrittenSoFar' /\ ReportOpened'
  BY DEF SaidSoFar, WrittenSoFar, ReportOpened, Passing, InMatrix

\* An EICAR case goes on from a block alone, with the finding said and nothing written.
LEMMA RefusedCase ==
  ASSUME Inv, NEW code, Refused(code), pc \in {"scanning", "admitted"},
         code = "blocked" => said[at] = "malicious",
         answer' = None, UNCHANGED <<said, writes>>
  PROVE  SaidSoFar' /\ WrittenSoFar' /\ ReportOpened'
<1>0. TypeOK /\ at \in Cases
  BY DEF Inv, TypeOK
<1>1. CASE Fail
  BY <1>1, RunFailed DEF Fail, Passing, InMatrix
<1>2. CASE NextCase /\ Current.control = "eicar" /\ code = "blocked"
  <2>1. at \in {2, 5, 6}
    BY <1>0, <1>2, CurrentCase, MatrixCases
  <2>2. said[at] = Expected(at)
    BY <1>2, <2>1, ExpectedByCase
  <2>3. writes = WrittenBefore(at) /\ \A i \in Cases : i < at => said[i] = Expected(i)
    BY DEF Inv, SaidSoFar, WrittenSoFar, Passing, InMatrix
  <2>4. /\ at # 6 => writes = WrittenBefore(at + 1)
        /\ at = 6 => writes = AllWritten
    BY <2>1, <2>3, WrittenByCase
  <2> QED BY <1>0, <1>2, <2>2, <2>3, <2>4, CasePassed
<1> QED BY <1>1, <1>2 DEF Refused, BlockedAsMeant

LEMMA Inductive == Inv /\ [Next]_vars => Inv'
<1> SUFFICES ASSUME Inv, [Next]_vars PROVE SaidSoFar' /\ WrittenSoFar' /\ ReportOpened'
  BY TypesKept DEF Inv
<1>0. TypeOK /\ SaidSoFar /\ WrittenSoFar /\ ReportOpened /\ at \in Cases
  BY DEF Inv, TypeOK
<1>a. pc # "scanning" => answer = None
  BY <1>0 DEF SaidSoFar
<1>1. CASE Start
  <2>1. answer' = None /\ pc' = "scanning" /\ at' = 1 /\ writes' = NoWrites
    BY <1>1, <1>a DEF Start, Ended
  <2>2. \A i \in Cases : ~(i < 1)
    BY MatrixCases
  <2> QED BY <2>1, <2>2, WrittenByCase
          DEF SaidSoFar, WrittenSoFar, ReportOpened, WrittenBefore
<1>2. ASSUME NEW env \in Answers, ScannerAnswers(env)
      PROVE  SaidSoFar' /\ WrittenSoFar' /\ ReportOpened'
  <2>1. /\ pc = "scanning" /\ pc' = "scanning" /\ at' = at /\ writes' = writes
        /\ answer' = env /\ said' = [said EXCEPT ![at] = env.result]
    BY <1>2 DEF ScannerAnswers, provider
  <2>2. said'[at] = env.result /\ \A i \in Cases : i < at => said'[i] = said[i]
    BY <1>0, <2>1, MatrixCases DEF TypeOK
  <2>3. SaidSoFar'
    BY <1>0, <2>1, <2>2 DEF SaidSoFar, Passing, InMatrix, Expected
  <2>4. WrittenSoFar' /\ ReportOpened'
    BY <1>0, <2>1 DEF WrittenSoFar, ReportOpened, WrittenBefore
  <2> QED BY <2>3, <2>4
<1>3. CASE Decide
  <2>1. /\ answer # None /\ pc = "scanning" /\ answer' = None /\ UNCHANGED <<said, writes>>
        /\ said[at] = answer.result /\ answer \in Envelopes /\ clock \in Times
    BY <1>0, <1>3 DEF Decide, SaidSoFar, TypeOK
  <2>2. PICK decision \in {Unverified("unavailable"), Incoming(answer, clock), Outgoing(answer, clock)} :
          IF decision = Allow
            THEN pc' = "admitted" /\ UNCHANGED <<at, clients, before>>
            ELSE Refused(decision.code)
    BY <1>3, DecideCases
  <2>3. /\ decision.code = "blocked" => said[at] = "malicious"
        /\ decision = Allow => said[at] = "clean"
    <3>1. Unverified("unavailable").code = "unavailable" /\ Unverified("unavailable") # Allow
      BY DEF Unverified, Allow
    <3> QED BY <2>1, <2>2, <3>1, DecisionSaysResult
  <2>4. CASE decision = Allow
    <3>1. pc' = "admitted" /\ at' = at /\ said'[at] = "clean"
      BY <2>1, <2>2, <2>3, <2>4
    <3> QED BY <1>0, <2>1, <3>1
            DEF SaidSoFar, WrittenSoFar, ReportOpened, Passing, InMatrix, Expected, WrittenBefore
  <2>5. CASE decision # Allow
    BY <2>1, <2>2, <2>3, <2>5, RefusedCase
  <2> QED BY <2>4, <2>5
<1>4. CASE ScanFails
  <2>1. Refused("unavailable") /\ pc = "scanning" /\ answer' = None /\ UNCHANGED <<said, writes>>
    BY <1>4 DEF ScanFails
  <2> QED BY <2>1, RefusedCase
<1>5. CASE StoreFails
  <2>1. Refused("invalid") /\ pc = "admitted" /\ answer' = None /\ UNCHANGED <<said, writes>>
    BY <1>5, <1>a DEF StoreFails
  <2> QED BY <2>1, RefusedCase
<1>6. CASE Deliver
  <2>1. /\ pc = "admitted" /\ pc' = "returned" /\ at' = at /\ Current.use = "download"
        /\ answer' = None /\ UNCHANGED <<said, writes>>
    BY <1>6, <1>a DEF Deliver, provider
  <2> QED BY <1>0, <2>1
          DEF SaidSoFar, WrittenSoFar, ReportOpened, Passing, InMatrix, Expected, WrittenBefore,
              Current
<1>7. CASE Write
  <2>1. /\ pc = "admitted" /\ pc' = "returned" /\ at' = at /\ Current.use # "download"
        /\ answer' = None /\ UNCHANGED said
        /\ writes' = [writes EXCEPT ![Current.use] = Append(@, Current.control)]
    BY <1>7, <1>a DEF Write
  <2>2. writes' = [WrittenBefore(at) EXCEPT ![Current.use] = Append(@, Current.control)]
    BY <1>0, <2>1 DEF WrittenSoFar
  <2>3. WrittenSoFar'
    BY <2>1, <2>2 DEF WrittenSoFar, WrittenBefore, Current
  <2> QED BY <1>0, <2>1, <2>3 DEF SaidSoFar, ReportOpened, Passing, InMatrix, Expected
<1>8. CASE CheckDownload
  <2>1. pc = "returned" /\ answer' = None /\ UNCHANGED <<said, writes>> /\ Current.use = "download"
    BY <1>8, <1>a DEF CheckDownload
  <2>2. CASE Fail
    BY <2>1, <2>2, RunFailed DEF Fail, Passing, InMatrix
  <2>3. CASE NextCase /\ Current.control = "clean"
    <3>1. at = 1 /\ writes = WrittenBefore(1) /\ said[at] = "clean"
      BY <1>0, <2>1, <2>3, CurrentCase, MatrixCases DEF WrittenSoFar, SaidSoFar
    <3>2. \A i \in Cases : ~(i < at)
      BY <3>1, MatrixCases
    <3> QED BY <1>0, <2>1, <2>3, <3>1, <3>2, WrittenByCase, ExpectedByCase, CasePassed
  <2> QED BY <1>8, <2>2, <2>3 DEF CheckDownload, DownloadAccepted
<1>9. CASE CheckWrite
  <2>1. pc = "returned" /\ answer' = None /\ UNCHANGED <<said, writes>> /\ Current.use # "download"
    BY <1>9, <1>a DEF CheckWrite
  <2>2. CASE Fail
    BY <2>1, <2>2, RunFailed DEF Fail, Passing, InMatrix
  <2>3. CASE NextCase /\ Current.control = "clean"
    <3>1. at \in {3, 4} /\ said[at] = "clean"
      BY <1>0, <2>1, <2>3, CurrentCase, MatrixCases DEF SaidSoFar
    <3>2. writes = [WrittenBefore(at) EXCEPT ![Current.use] = Append(@, "clean")]
      BY <1>0, <2>1, <2>3 DEF WrittenSoFar
    <3>3. (at = 3 => Current.use = "send") /\ (at = 4 => Current.use = "draft")
      BY MatrixCases DEF Current
    <3>4. writes = WrittenBefore(at + 1)
      <4>1. CASE at = 3
        BY <3>2, <3>3, <4>1, WrittenByCase
      <4>2. CASE at = 4
        BY <3>2, <3>3, <4>2, WrittenByCase
      <4> QED BY <3>1, <4>1, <4>2
    <3>5. \A i \in Cases : i < at => said[i] = Expected(i)
      BY <1>0, <2>1 DEF SaidSoFar, Passing, InMatrix
    <3> QED BY <1>0, <2>1, <2>3, <3>1, <3>4, <3>5, ExpectedByCase, CasePassed
  <2> QED BY <1>9, <2>2, <2>3 DEF CheckWrite, WriteAccepted
<1>10. CASE CleanUp
  BY <1>10, <1>a, RunFailed DEF CleanUp, Passing, InMatrix
<1>11. CASE OpenReport
  <2>1. pc = "reporting" /\ answer' = None /\ UNCHANGED <<at, said, writes, runs>>
    BY <1>11, <1>a DEF OpenReport, provider
  <2>2. CASE pc' = "failed"
    BY <2>1, <2>2, RunFailed DEF Passing, InMatrix
  <2>3. CASE pc' = "syncing" /\ roots' = roots \ {runs} /\ report' = "partial"
    BY <1>0, <2>1, <2>3
       DEF SaidSoFar, WrittenSoFar, ReportOpened, Passing, InMatrix, Expected
  <2> QED BY <1>11, <2>2, <2>3 DEF OpenReport
<1>12. CASE WriteReport
  BY <1>12, <1>a, RunFailed DEF WriteReport, Passing, InMatrix
<1>13. CASE Crash
  BY <1>13, RunFailed DEF Crash, Passing, InMatrix
<1>14. CASE Tick \/ UNCHANGED vars
  <2>1. UNCHANGED <<runs, pc, at, answer, said, writes, roots, report>>
    BY <1>14 DEF Tick, vars, provider
  <2> QED BY <1>0, <2>1
          DEF SaidSoFar, WrittenSoFar, ReportOpened, Expected, WrittenBefore, Current
<1> QED
  BY <1>1, <1>2, <1>3, <1>4, <1>5, <1>6, <1>7, <1>8, <1>9, <1>10, <1>11, <1>12, <1>13, <1>14
     DEF Next

-----------------------------------------------------------------------------
(* The theorems *)

\* Whenever an answer is on its way, the server, the reference and the presentation make the
\* same of it, apart from the differences that are named.
THEOREM OneRuleAlways == Spec => []VerdictsAgree
<1>1. TypeOK => VerdictsAgree
  BY RuleIsOne DEF TypeOK, VerdictsAgree
<1> QED
  BY <1>1, TypeCorrect, PTL

\* A report comes only of a run in which the scanner and the provider did what it claims and
\* the work directory has gone; one that is on disk is never replaced.
THEOREM EvidenceEarned == Spec => EvidenceIsEarned
<1> DEFINE Step ==
      report' # report =>
        \/ report = "none" /\ report' = "partial"
        \/ report = "partial" /\ report' = "passed" /\ Earned
<1>1. ASSUME Inv, pc = "syncing" PROVE report = "partial" /\ Earned
  <2>1. report = "partial" /\ runs \notin roots /\ writes = AllWritten
    BY <1>1 DEF Inv, ReportOpened, WrittenSoFar
  <2>2. at = 6 /\ said[6] = "malicious" /\ \A i \in Cases : i < at => said[i] = Expected(i)
    BY <1>1 DEF Inv, SaidSoFar, Passing
  <2>3. \A i \in Cases : said[i] = Expected(i)
    BY <2>2, MatrixCases, ExpectedByCase
  <2> QED BY <2>1, <2>3 DEF Earned, AllWritten, Expected
<1>2. Inv /\ [Next]_vars => [Step]_vars
  <2> SUFFICES ASSUME Inv, Next PROVE Step
    OBVIOUS
  <2>1. CASE OpenReport
    BY <2>1 DEF OpenReport
  <2>2. CASE WriteReport
    BY <1>1, <2>2 DEF WriteReport
  <2>3. CASE Crash
    BY <1>1, <2>3 DEF Crash
  <2>4. CASE UNCHANGED report
    BY <2>4
  <2>5. ASSUME NEW env \in Answers, ScannerAnswers(env) PROVE UNCHANGED report
    BY <2>5 DEF ScannerAnswers
  <2>6. ASSUME Start \/ Decide \/ ScanFails \/ Deliver \/ Write \/ StoreFails \/ CheckDownload
               \/ CheckWrite \/ CleanUp \/ Tick
        PROVE  UNCHANGED report
    BY <2>6
       DEF Start, Decide, ScanFails, Deliver, Write, StoreFails, CheckDownload, CheckWrite,
           CleanUp, Tick
  <2> HIDE DEF Step
  <2> QED BY <2>1, <2>2, <2>3, <2>4, <2>5, <2>6 DEF Next
<1>3. Spec => [][Step]_vars
  BY <1>2, Initially, Inductive, PTL DEF Spec
<1> QED
  BY <1>3 DEF EvidenceIsEarned

=============================================================================
