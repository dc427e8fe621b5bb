--------------------------- MODULE EvidenceChecks ---------------------------
(***************************************************************************)
(* What the code itself decides about a candidate whatever the models say: *)
(* the critic's filter of mechanically false rejections (critic/checks.py) *)
(* and its treatment of corrections (corrections.py, reports.py), and the  *)
(* report of the verifier (verifier/policies.py).                          *)
(***************************************************************************)
EXTENDS SourceResolution

CONSTANTS
  AtomicField,         \* fields whose name has a token of _ATOMIC_FIELD_ROLE_TOKENS
  SourceBackedDetail   \* the schema describes CorporateEvent.asset_detail as source-backed

ASSUME SourceBackedAssumption == SourceBackedDetail \in BOOLEAN

IsLabel(candidate) == candidate.field \in LabelField
IsSupported(candidate) == Supports(candidate.span.text, candidate.value)

(* candidate_is_mechanically_valid                                         *)
IsMechanicallyValid(candidate, chunk) ==
  /\ IsApproved(candidate)
  /\ SpanMatches(candidate.span, chunk)
  /\ IsSupported(candidate)

IsSourceBackedDetail(candidate, chunk) ==
  /\ candidate.category = "CorporateEvent" /\ candidate.field = "asset_detail"
  /\ SourceBackedDetail
  /\ IsMechanicallyValid(candidate, chunk)

IsContextOnlyObjection(verdict, candidate, chunk) ==
  /\ verdict.contextual
  /\ candidate.field \in AtomicField
  /\ IsMechanicallyValid(candidate, chunk)

(* contradicted_rejection_reasons is not empty.                            *)
IsContradicted(verdict, candidate, chunk) ==
  \/ verdict.code = "category_not_approved" /\ IsApproved(candidate)
  \/ verdict.code = "invalid_source_offsets" /\ SpanMatches(candidate.span, chunk)
  \/ /\ verdict.code \in {"critic_rejected", "schema_violation", "invented_span"}
     /\ IsSourceBackedDetail(candidate, chunk)
  \/ /\ verdict.code \in {"critic_rejected", "schema_violation"}
     /\ IsContextOnlyObjection(verdict, candidate, chunk)

-----------------------------------------------------------------------------
(* A correction is a delta: "same", NoStart or no text where the model     *)
(* gave nothing.                                                           *)
NoStart == -1
Delta(given, original) == IF given = "same" THEN original ELSE given
CorrectedStart(correction, original) ==
  IF correction.start = NoStart THEN original.span.start ELSE correction.start
CorrectedText(correction, original) ==
  IF correction.text = <<>> THEN original.span.text ELSE correction.text

MergedCorrection(correction, original, chunk) ==
  [original EXCEPT
     !.category = Delta(correction.category, @),
     !.field = Delta(correction.field, @),
     !.value = IF correction.value = <<>> THEN @ ELSE correction.value,
     !.span = SpanAt(chunk, CorrectedStart(correction, original),
                     CorrectedText(correction, original))]

IsSliceOf(correction, original, chunk) ==
  LET first == CorrectedStart(correction, original) - chunk.start
      text == CorrectedText(correction, original)
  IN  /\ 0 <= first /\ first + Len(text) <= Len(chunk.text)
      /\ Slice(chunk.text, first, first + Len(text)) = text

(* validate_normalization_metadata: value_canonical and value_verbatim     *)
(* stay those of the original, and the value has to equal one of them.     *)
KeepsItsMetadata(corrected, original) == corrected.value = original.value

(* materialize_correction: the reasons it gives, if any.                   *)
StructuralReasons(correction, original, chunk) ==
  IF ~correction.given THEN {"no_payload"}
  ELSE IF ~IsSliceOf(correction, original, chunk) THEN {"no_slice"}
  ELSE IF ~KeepsItsMetadata(MergedCorrection(correction, original, chunk), original)
       THEN {"broken_contract"}
  ELSE {}

ExpandsToTheLeft(corrected, original) ==  \* variant: its end is not compared
  corrected.span.start < original.span.start
Expands(corrected, original) ==
  \/ corrected.span.start < original.span.start \/ corrected.span.end > original.span.end
  \/ corrected.span.startByte < original.span.startByte
  \/ corrected.span.endByte > original.span.endByte

DropsQualifier(corrected, original) ==
  /\ corrected.value # original.value
  /\ OccursIn(Fold(corrected.span.text), <<"about">>)
  /\ ~OccursIn(Fold(corrected.value), <<"about">>)

(* correction_rejection_reasons; the identity is kept by construction.     *)
CorrectionReasons(corrected, original, chunk) ==
  {reason \in {"slot", "span", "expands", "unsupported", "qualifier"} :
     \/ reason = "slot" /\ ~IsApproved(corrected)
     \/ reason = "span" /\ ~SpanMatches(corrected.span, chunk)
     \/ reason = "expands" /\ Expands(corrected, original)
     \/ reason = "unsupported" /\ ~IsLabel(corrected) /\ ~IsSupported(corrected)
     \/ reason = "qualifier" /\ DropsQualifier(corrected, original)}

IsSameSlot(corrected, original) ==
  corrected.category = original.category /\ corrected.field = original.field

(* should_preserve_original_for_correction                                 *)
IsOriginalKept(original, corrected, reasons, chunk) ==
  /\ IsMechanicallyValid(original, chunk)
  /\ \/ ~IsSameSlot(corrected, original)
     \/ reasons = {"expands"}

(* build_report: the candidate the critic hands on, or its rejection.      *)
Accepted(candidate) == [accepted |-> TRUE, candidate |-> candidate, corrected |-> FALSE]
AcceptedAs(candidate) == [accepted |-> TRUE, candidate |-> candidate, corrected |-> TRUE]
Rejected(candidate) == [accepted |-> FALSE, candidate |-> candidate, corrected |-> FALSE]

CorrectionReport(correction, original, chunk) ==
  LET structural == StructuralReasons(correction, original, chunk)
      corrected == MergedCorrection(correction, original, chunk)
      reasons == CorrectionReasons(corrected, original, chunk)
  IN  IF structural # {}
      THEN IF structural # {"no_payload"} /\ IsMechanicallyValid(original, chunk)
           THEN Accepted(original) ELSE Rejected(original)
      ELSE IF IsOriginalKept(original, corrected, reasons, chunk) THEN Accepted(original)
      ELSE IF reasons # {} THEN Rejected(original) ELSE AcceptedAs(corrected)

(* _filter_contradicted_reject_issues                                      *)
Issues(verdict, candidate, chunk) ==
  IF IsContradicted(verdict, candidate, chunk) THEN {} ELSE {verdict.code}

CriticReport(verdict, candidate, chunk) ==
  CASE verdict.decision = "accept" -> Accepted(candidate)
    [] verdict.decision = "reject" ->
         IF Issues(verdict, candidate, chunk) = {}
         THEN Accepted(candidate) ELSE Rejected(candidate)
    [] OTHER -> CorrectionReport(verdict.correction, candidate, chunk)

-----------------------------------------------------------------------------
(* _deterministic_rejection_reasons: a label needs no support.             *)
LabelsAreNoExceptions(candidate) == FALSE  \* variant: no value needs support
NeedsSupport(candidate) == ~IsLabel(candidate)
VerifierChecks(candidate, chunk) ==
  SlotReasons(candidate)
    \cup (IF ~SpanMatches(candidate.span, chunk)
             \/ (NeedsSupport(candidate) /\ ~IsSupported(candidate))
          THEN {"invented_span"} ELSE {})

(* _is_contradicted_llm_reason                                             *)
IsFalseSpan(code, candidate, chunk) ==  \* variant: an objection to the slot stands
  \/ /\ code \in {"invalid_source_offsets", "ambiguous_source_span"}
     /\ SpanMatches(candidate.span, chunk)
  \/ /\ code = "invented_span"
     /\ SpanMatches(candidate.span, chunk) /\ IsSupported(candidate)
IsFalse(code, candidate, chunk) ==
  LET matches == SpanMatches(candidate.span, chunk)
      approved == IsApproved(candidate)
  IN  \/ code \in {"invalid_source_offsets", "ambiguous_source_span"} /\ matches
      \/ code = "invented_span" /\ matches /\ IsSupported(candidate)
      \/ code = "category_not_approved" /\ approved
      \/ code = "schema_violation" /\ approved /\ matches /\ IsSupported(candidate)

Objections(verdict) == IF verdict.decision = "accept" THEN {} ELSE {verdict.code}

(* build_verifier_report: what is left of the model's objection and what   *)
(* the checks say; the flags and the acceptance are read off it.           *)
VerifierReport(verdict, candidate, chunk) ==
  LET reasons == {code \in Objections(verdict) : ~IsFalse(code, candidate, chunk)}
                 \cup VerifierChecks(candidate, chunk)
  IN  [accepted |-> reasons = {}, reasons |-> reasons,
       spanVerified |-> reasons \cap {"invented_span", "invalid_source_offsets",
                                      "ambiguous_source_span"} = {},
       categoryVerified |-> reasons \cap {"category_not_approved", "schema_violation"} = {}]
=============================================================================
