-------------------------- MODULE CandidateEvidence --------------------------
(***************************************************************************)
(* One candidate from the claim of the model to the verdict of the         *)
(* verifier: what its span, its slot and its value may become on the way.  *)
(* CandidateFlow models the tables the results go to, this module what the *)
(* results are.  The models may answer anything; a call and its semantic   *)
(* retries (VerdictRetry) are one step, with the answer they end with.     *)
(***************************************************************************)
EXTENDS EvidenceChecks

CONSTANTS
  Atom,         \* what texts are made of: every word and separator
  Chunks,       \* chunks: the text with the offsets of its first character
  Payload(_),   \* the payloads the executor's model may emit for a chunk
  Correction(_) \* the corrections the critic's model may propose for a candidate

(* What a stage builds of a payload.                                       *)
Built(p, c) == BuildCandidate(p, Prepare(p, ResolveSource(p, c), c), c)

Text == Seq(Atom)

(* What a normalizer may write.                                            *)
ASSUME AtomAssumption == {Space, "meeting", "launch"} \subseteq Atom

(* Chunk, ExtractedCandidatePayload and the delta of a correction have no  *)
(* negative positions, and no chunk is empty.                              *)
ASSUME EvidenceAssumption ==
  \A c \in Chunks :
    /\ c.text \in Text \ {<<>>} /\ c.start \in Nat /\ c.startByte \in Nat
    /\ \A p \in Payload(c) :
         p.value \in Text /\ p.start \in Nat /\ p.length \in Nat
    /\ \A p \in Payload(c) \cup DerivedPayloads(c) : \A k \in Correction(Built(p, c)) :
         k.start \in Nat \cup {NoStart} /\ k.text \in Text

VARIABLES
  stage,      \* how far the candidate is
  chunk,
  payload,    \* what the executor works on
  candidate,  \* what the last stage handed on
  original,   \* the candidate as the executor built it
  verified    \* the report of the verifier

vars == <<stage, chunk, payload, candidate, original, verified>>

NoPayload == [category |-> "", field |-> "", value |-> <<>>, start |-> 0, length |-> 0]
NoCandidate ==
  [category |-> "", field |-> "", value |-> <<>>, verbatim |-> <<>>, status |-> "",
   span |-> [start |-> 0, end |-> 0, startByte |-> 0, endByte |-> 0, text |-> <<>>]]
NoReport == [accepted |-> FALSE, reasons |-> {}, spanVerified |-> FALSE,
             categoryVerified |-> FALSE]

Init ==
  /\ stage = "proposed"
  /\ chunk \in Chunks
  /\ payload \in Payload(chunk) \cup DerivedPayloads(chunk)
  /\ candidate = NoCandidate /\ original = NoCandidate
  /\ verified = NoReport

(* The body of the loop of the executor's task; validate_executor_batch    *)
(* builds the same candidate before, to look for complaints, and raises    *)
(* where this would.                                                       *)
Materialize(resolved, draft) ==
  IF IsMaterializable(draft)
  THEN /\ candidate' = BuildCandidate(payload, draft, chunk)
       /\ original' = candidate'
       /\ stage' = IF ExecutorReasons(resolved, candidate', chunk) = {}
                   THEN "executed" ELSE "refused"
  ELSE stage' = "raised" /\ UNCHANGED <<candidate, original>>

Execute ==
  /\ stage = "proposed"
  /\ \E resolved \in {ResolveSource(payload, chunk)} :
       Materialize(resolved, Prepare(payload, resolved, chunk))
  /\ UNCHANGED <<chunk, payload, verified>>

Verdict(decisions, codes, contexts, corrections) ==
  [decision : decisions, code : codes, contextual : contexts, correction : corrections]
NoCorrection ==
  [given |-> FALSE, category |-> "same", field |-> "same", value |-> <<>>,
   start |-> NoStart, text |-> <<>>]

(* A verdict that rejects has one of these codes, given or by default; any *)
(* other makes the constructor of RejectionReason raise.                   *)
RejectionReasonCode ==
  {"invented_span", "invalid_source_offsets", "ambiguous_source_span",
   "category_not_approved", "schema_violation", "critic_rejected",
   "verifier_rejected", "reconciler_rejected", "duplicate_candidate"}
CriticVerdict ==
  Verdict({"accept"}, {"none"}, {FALSE}, {NoCorrection})
  \cup Verdict({"reject"}, RejectionReasonCode, BOOLEAN, {NoCorrection})
  \cup Verdict({"correct"}, {"critic_rejected"}, {FALSE},
               Correction(candidate) \cup {NoCorrection})

(* A candidate without a verdict after the last retry: the loop builds its *)
(* reason, and only then the rejection.                                    *)
CriticMisses ==
  /\ stage = "executed"
  /\ stage' = IF "critic_missing_report" \in RejectionReasonCode THEN "dropped" ELSE "raised"
  /\ payload' = NoPayload
  /\ UNCHANGED <<chunk, candidate, original, verified>>

CriticReviews ==
  /\ stage = "executed"
  /\ \E verdict \in CriticVerdict :
       LET report == CriticReport(verdict, candidate, chunk)
       IN  /\ candidate' = report.candidate
           /\ stage' = IF report.accepted THEN "reviewed" ELSE "dropped"
  /\ payload' = NoPayload
  /\ UNCHANGED <<chunk, original, verified>>

VerifierReviews ==
  /\ stage = "reviewed"
  /\ \E verdict \in Verdict({"accept"}, {"none"}, {FALSE}, {NoCorrection})
                    \cup Verdict({"reject"}, RejectionReasonCode, {FALSE}, {NoCorrection}) :
       verified' = VerifierReport(verdict, candidate, chunk)
  /\ stage' = IF verified'.accepted THEN "verified" ELSE "unverified"
  /\ UNCHANGED <<chunk, payload, candidate, original>>

(* The same without any retry: the reason, then a report that rejects.     *)
VerifierMisses ==
  /\ stage = "reviewed"
  /\ LET reason == "verifier_missing_report"
     IN  IF reason \in RejectionReasonCode
         THEN /\ stage' = "unverified"
              /\ verified' = [NoReport EXCEPT !.reasons = {reason}]
         ELSE stage' = "raised" /\ UNCHANGED verified
  /\ UNCHANGED <<chunk, payload, candidate, original>>

Next == Execute \/ CriticMisses \/ CriticReviews \/ VerifierMisses \/ VerifierReviews

Spec == Init /\ [][Next]_vars
-----------------------------------------------------------------------------
InReview == stage \in {"executed", "reviewed", "verified"}

(* What the verifier accepts holds whatever the models said: the text at   *)
(* the span's character offsets and at its byte offsets is the span's, the *)
(* slot is in the plan, and the value is supported unless it is a label.   *)
AcceptedIsGrounded ==
  stage = "verified" =>
    LET span == candidate.span
    IN  /\ \A k \in 1..(span.end - span.start) :
             span.text[k] = chunk.text[span.start - chunk.start + k]
        /\ span.startByte - chunk.startByte =
             ByteLen(SubSeq(chunk.text, 1, span.start - chunk.start))
        /\ span.endByte - span.startByte = ByteLen(span.text)
        /\ IsApproved(candidate)
        /\ IsLabel(candidate) \/ IsSupported(candidate)

(* The critic narrows the evidence of a candidate or leaves it, so that    *)
(* its value_verbatim still has the span's text in it, and never touches   *)
(* its value; it gives a candidate another slot only when the value lacked *)
(* support, or the executor's slot stands.                                 *)
ReviewOnlyNarrows ==
  stage \in {"reviewed", "verified", "unverified"} =>
    /\ original.span.start <= candidate.span.start
    /\ candidate.span.end <= original.span.end
    /\ OccursIn(candidate.verbatim, candidate.span.text)
    /\ candidate.value = original.value
    /\ IsSameSlot(candidate, original) \/ ~IsMechanicallyValid(original, chunk)

(* A claim that is right is not lost by the executor: it lies in the       *)
(* chunk, holds the value, is no short text that occurs twice, and its     *)
(* slot is in the plan.                                                    *)
IsGoodClaim ==
  /\ payload.category \in DOMAIN ApprovedFields
  /\ payload.field \in ApprovedFields[payload.category]
  /\ ClaimHolds(payload, chunk)
  /\ ~IsShortAndRepeated(chunk, Claimed(payload, chunk))
GoodClaimsAreKept == stage = "refused" => ~IsGoodClaim

(* Where a value may be taken from: the claim, if it holds the value or    *)
(* nothing in the chunk does; else the one place of the value, or for the  *)
(* fields next to their header one outside of headings.                    *)
EvidencePlaces(p, c) ==
  LET matches == Matches(p, c)
  IN  IF ClaimHolds(p, c) \/ matches = {}
      THEN {<<RelativeStart(p, c), RelativeStart(p, c) + p.length>>}
      ELSE {m \in matches :
              \/ Cardinality(matches) = 1
              \/ p.field \in OffsetRepairField /\ ~StartsInHeading(c.text, m[1])}

(* A normalizer takes a part of the place; only a condition and a date may *)
(* go on after it, and then not beyond a line or a sentence.               *)
NormalizedField ==
  {"event_type", "prior_period_value", "effective_date", "target_value", "condition",
   "notable_qualifier", "asset_detail", "speaker"}
IsTakenFrom(place, span, field, c) ==
  LET first == span.start - c.start
      last == span.end - c.start
  IN  /\ place[1] <= first /\ first <= place[2]
      /\ field \notin NormalizedField => first = place[1] /\ last = place[2]
      /\ last > place[2] =>
           /\ field \in {"effective_date", "condition"}
           /\ {Stop, NewLine} \cap ToSet(Slice(c.text, place[2], last)) = {}

(* That of a prior period takes an amount of the place or of the value,    *)
(* wherever the chunk has it with a quarter.                               *)
IsAmountOf(place, text, p, c) ==
  /\ p.field = "prior_period_value"
  /\ \E n \in Number \cap ToSet(p.value \o Slice(c.text, place[1], place[2])) :
       text = <<n, Space, "in Q1">>

(* What the executor hands on, after its normalizers, was taken from the   *)
(* claim or, if the value is not there, from a certain place of it; and    *)
(* then the span supports the value that is handed on, but for a label.    *)
RepairsAreCertain ==
  stage = "executed" =>
    /\ \E place \in EvidencePlaces(payload, chunk) :
         \/ IsTakenFrom(place, candidate.span, payload.field, chunk)
         \/ IsAmountOf(place, candidate.span.text, payload, chunk)
    /\ ClaimHolds(payload, chunk) \/ Matches(payload, chunk) = {}
         \/ IsLabel(candidate) \/ IsSupported(candidate)

(* The codes that say nothing the checks could decide.                     *)
JudgementCode ==
  {"critic_rejected", "verifier_rejected", "reconciler_rejected", "duplicate_candidate"}

(* A candidate the checks find nothing wrong with is rejected by the       *)
(* verifier only on its own judgement, and its flags say so.               *)
RejectionsAreNotContradicted ==
  stage = "unverified" /\ IsMechanicallyValid(candidate, chunk) =>
    /\ \E code \in JudgementCode : verified.reasons = {code}
    /\ verified.spanVerified /\ verified.categoryVerified

(* A candidate the answer has no verdict for is recorded as a rejection    *)
(* like any other; the task of its batch does not raise.                   *)
MissingVerdictsAreRejected == stage = "raised" => candidate = NoCandidate

-----------------------------------------------------------------------------
(* What makes them inductive: the span of a candidate was made from its    *)
(* first position and its text, and lies within the chunk.                 *)

SpanIsPlaced(span, c) ==
  /\ span = SpanAt(c, span.start, span.text)
  /\ span.start \in Int /\ span.text \in Text
  /\ c.start <= span.start /\ span.end <= c.start + Len(c.text)

EvidenceInv ==
  /\ chunk \in Chunks
  /\ stage \in {"proposed", "executed", "refused", "raised", "dropped", "reviewed",
                "verified", "unverified"}
  /\ stage \in {"proposed", "executed"} =>
       payload \in Payload(chunk) \cup DerivedPayloads(chunk)
  /\ stage = "executed" => candidate = Built(payload, chunk) /\ original = candidate
  /\ stage \notin {"proposed", "raised"} =>
       SpanIsPlaced(candidate.span, chunk) /\ SpanIsPlaced(original.span, chunk)
=============================================================================
