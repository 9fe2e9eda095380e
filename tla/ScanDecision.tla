----------------------------- MODULE ScanDecision -----------------------------
(***************************************************************************)
(* What GoreeCloud Mail makes of a Wardveil Scan answer. The rule is       *)
(* written three times: in attachment-delivery-service.js for attachments  *)
(* that come in, in gmail-outgoing-attachment-security.js for those that   *)
(* go out, and in reference/mail_attachment_security.py; the browser       *)
(* (web/security/attachment-security-presentation.js) and                  *)
(* reference/mail_attachment_security_ui.py present a decision to the      *)
(* user. This module has no state: each is an operator of the answer and   *)
(* of the moment, and the properties say how they relate.                  *)
(***************************************************************************)
EXTENDS Integers

CONSTANT MaxTime   \* bound on the clock, and on the times of the evidence

Times == 0 .. MaxTime
Results == {"clean", "malicious", "suspicious", "unknown", "unsupported"}

\* The result field may hold something that is no result.
Findings == Results \cup {"other"}

\* No strings, blank strings only, strings, strings among other values or one in place of a
\* list, and other values only.
References == {"empty", "blank", "good", "mixed", "bad"}

\* The grammar of the two timestamps: Date.parse and datetime.fromisoformat read some texts
\* both ("common"), and some one of them only.
Formats == {"common", "parse", "iso"}

\* An answer, by who checks what.
\*   bound        names this resource and its digest
\*   sound        contract, record type, authoritative producer with an id, scope
\*   attributed   that id is a string
\*   current      has no scan_result, the field's former name
\*   correlation  is this request's own, another string, or no string
\*   named        has a record id
Envelopes ==
  [bound : BOOLEAN, sound : BOOLEAN, attributed : BOOLEAN, current : BOOLEAN,
   correlation : {"own", "foreign", "none"}, named : BOOLEAN, evidence : References,
   result : Findings, format : Formats, observedAt : Times, validUntil : Times]

\* code: the error of the server, or "none"; quarantine: quarantine_required.
Decisions ==
  [disposition : {"allow", "hold_review", "block_quarantine", "blocked_unverified"},
   quarantine : BOOLEAN, code : {"none", "blocked", "held", "invalid", "expired", "unavailable"}]

Allow == [disposition |-> "allow", quarantine |-> FALSE, code |-> "none"]
Quarantine == [disposition |-> "block_quarantine", quarantine |-> TRUE, code |-> "blocked"]

Held(disposition) == [disposition |-> disposition, quarantine |-> FALSE, code |-> "held"]
Unverified(code) == [disposition |-> "blocked_unverified", quarantine |-> FALSE, code |-> code]

\* observed_at is not in the future, and there is a window.
WindowOpens(env, now) == env.observedAt <= now /\ env.observedAt < env.validUntil

-----------------------------------------------------------------------------
(* The server *)

\* validateEnvelope: the client passes on nothing else.  It reads no times, and an empty
\* list of references is no objection here.
Readable(env) ==
  /\ env.bound /\ env.sound /\ env.attributed /\ env.current
  /\ env.correlation = "own"
  /\ env.evidence \in {"empty", "blank", "good"}
  /\ env.result \in Results

\* What the outgoing gate asks of a record before it looks at the result: any correlation
\* id, and no word about the former field.
OutgoingValid(env, now) ==
  /\ env.bound /\ env.sound /\ env.attributed /\ env.named
  /\ env.correlation # "none"
  /\ env.evidence \in {"blank", "good"}
  /\ env.format \in {"common", "parse"}
  /\ WindowOpens(env, now)

IncomingValid(env, now) == env.current /\ OutgoingValid(env, now)

\* Bug: the age of the evidence is looked at before the finding.
VerdictByAge(valid, env, now, held) ==
  CASE ~valid \/ env.result \notin {"malicious", "suspicious", "clean"} -> Unverified("invalid")
    [] valid /\ env.result = "malicious" ->
         IF env.validUntil <= now THEN Unverified("expired") ELSE Quarantine
    [] valid /\ env.result = "suspicious" -> Held(held)
    [] valid /\ env.result = "clean" ->
         IF env.validUntil <= now THEN Unverified("expired") ELSE Allow

\* What becomes of a valid record: a finding is looked at before its age.
Verdict(valid, env, now, held) ==
  CASE ~valid \/ env.result \notin {"malicious", "suspicious", "clean"} -> Unverified("invalid")
    [] valid /\ env.result = "malicious" -> Quarantine
    [] valid /\ env.result = "suspicious" -> Held(held)
    [] valid /\ env.result = "clean" ->
         IF env.validUntil <= now THEN Unverified("expired") ELSE Allow

\* requireCurrentCleanScan.
Incoming(env, now) == Verdict(IncomingValid(env, now), env, now, "hold_review")

\* requireCurrentCleanOutgoingScan: a held attachment is blocked as unverified.
Outgoing(env, now) == Verdict(OutgoingValid(env, now), env, now, "blocked_unverified")

-----------------------------------------------------------------------------
(* The reference, and what the user is shown *)

\* What evaluate_attachment_scan asks before it looks at the result: neither a correlation id
\* nor a record id, and of the producer's id only that there is one.
ReferenceValid(env, now) ==
  /\ env.bound /\ env.sound /\ env.current
  /\ env.format \in {"common", "iso"}
  /\ WindowOpens(env, now)

\* It keeps the references that are strings and asks for one only where it allows; evidence
\* is good until now has passed valid_until.
Reference(env, now) ==
  LET valid == ReferenceValid(env, now)
  IN  CASE ~valid \/ env.result \notin {"malicious", "suspicious", "clean"} ->
             Unverified("invalid")
        [] valid /\ env.result = "malicious" -> Quarantine
        [] valid /\ env.result = "suspicious" -> Held("hold_review")
        [] valid /\ env.result = "clean" /\ env.evidence \in {"empty", "bad"} ->
             Unverified("invalid")
        [] valid /\ env.result = "clean" /\ env.evidence \notin {"empty", "bad"} ->
             IF now > env.validUntil THEN Unverified("expired") ELSE Allow

\* presentAttachmentSecurity and present_attachment_security, of a decision that has
\* evidence or not.  "allow" carries the reason wardveil_scan_clean_current.
Presented(decision, evidence) ==
  LET clear == decision.disposition = "allow" /\ ~decision.quarantine /\ evidence
      held == decision.disposition = "hold_review"
      blocked == decision.disposition = "block_quarantine" \/ decision.quarantine
  IN  CASE clear -> "scan-clear"
        [] held -> "held-for-review"
        [] ~held /\ blocked -> "blocked-by-security"
        [] ~clear /\ ~held /\ ~blocked -> "verification-unavailable"

\* What the user is shown of the reference's decision by presentAttachmentSecurity, which
\* drops blank references; only "scan-clear" can be opened.
Shown(env, now) == Presented(Reference(env, now), env.evidence \in {"good", "mixed"})

-----------------------------------------------------------------------------
(* How they relate, for an answer of the scanner at the moment now *)

\* Of what the client passes on, the server lets the same through in either direction; and
\* what it lets in the reference allows and the user may open, but for a time only Date.parse
\* reads and for references that are blank.
ServerWithinReference(env, now) ==
  /\ Incoming(env, now) = Allow => Outgoing(env, now) = Allow
  /\ Readable(env) /\ Outgoing(env, now) = Allow => Incoming(env, now) = Allow
  /\ Incoming(env, now) = Allow /\ env.format = "common" =>
       /\ Reference(env, now) = Allow
       /\ env.evidence = "good" => Shown(env, now) = "scan-clear"

\* The whole list of what the reference allows and the server refuses: a record without an
\* identity or of another request, a producer or a reference that is no string, the last
\* instant of the evidence, and a time only Python reads.
RefusalsAreAccountedFor(env, now) ==
  Reference(env, now) = Allow /\ ~(Readable(env) /\ Incoming(env, now) = Allow) =>
    \/ ~env.named \/ ~env.attributed
    \/ env.correlation # "own"
    \/ env.evidence = "mixed"
    \/ env.validUntil = now
    \/ env.format = "iso"

\* However old a malicious finding is, the server blocks in both directions; the user is told
\* so where the reference can read its times, and no answer turns from a finding into
\* something to open.
BlockedStaysBlocked(env, now) ==
  /\ IncomingValid(env, now) /\ env.result = "malicious" =>
       /\ Incoming(env, now) = Quarantine /\ Outgoing(env, now) = Quarantine
       /\ env.format = "common" => Shown(env, now) = "blocked-by-security"
  /\ env.result # "clean" => Shown(env, now) # "scan-clear"

=============================================================================
