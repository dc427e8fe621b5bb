-------------------------- MODULE SourceResolution --------------------------
(***************************************************************************)
(* What the executor makes of one payload of the model: the span it finds  *)
(* for the claim (executor/source_resolution.py), the normalizers of the   *)
(* fields (field_normalizers.py), the candidate with its byte offsets and  *)
(* normalization metadata (materialization.py), its own checks             *)
(* (policies.py), and the payloads it derives by itself                    *)
(* (payload_expansion.py).                                                 *)
(***************************************************************************)
EXTENDS SourceText

CONSTANTS
  ApprovedFields,  \* the plan: the fields of each approved category
  ShortSpan        \* _SHORT_AMBIGUOUS_SPAN_MAX_CHARS

ASSUME ShortSpanAssumption == ShortSpan \in Nat

OffsetRepairField == {"metric_name", "period"}
LabelField == {"event_type"}
Number == {"nine", "ten"}

Matches(payload, chunk) == ValueMatches(chunk.text, payload.value)
RelativeStart(payload, chunk) == payload.start - chunk.start
ClaimFits(payload, chunk) ==
  /\ RelativeStart(payload, chunk) >= 0
  /\ RelativeStart(payload, chunk) + payload.length <= Len(chunk.text)
  /\ payload.length # 0
Claimed(payload, chunk) ==
  Slice(chunk.text, RelativeStart(payload, chunk),
        RelativeStart(payload, chunk) + payload.length)

Spot(chunk, match) ==
  [start |-> chunk.start + match[1], text |-> Slice(chunk.text, match[1], match[2]),
   reasons |-> {}]

AnyAdjacentMatches(payload, chunk, matches) ==  \* variant: any match after the claim, any field
  {m \in matches : m[1] >= RelativeStart(payload, chunk)}
(* _select_header_adjacent_value_match: the first match outside headings   *)
(* after the claim, or the only one.                                       *)
AdjacentMatches(payload, chunk, matches) ==
  LET body == {m \in matches : ~StartsInHeading(chunk.text, m[1])}
      after == {m \in body : m[1] >= RelativeStart(payload, chunk)}
  IN  IF payload.field \notin OffsetRepairField THEN {}
      ELSE IF after # {} THEN {m \in after : \A n \in after : m[1] <= n[1]}
      ELSE IF Cardinality(body) = 1 THEN body ELSE {}

IsShortAndRepeated(chunk, source) ==
  /\ Len(source) <= ShortSpan
  /\ Cardinality(ExactMatches(chunk.text, source)) > 1

ClaimWithReasons(payload, chunk, matches) ==
  LET claimed == Claimed(payload, chunk)
  IN  [start |-> payload.start, text |-> claimed,
       reasons |->
         IF IsShortAndRepeated(chunk, claimed) THEN {"ambiguous_source_span"}
         ELSE IF /\ Cardinality(matches) > 1
                 /\ ~HoldsValue(claimed, payload.value)
              THEN {"invalid_source_offsets", "ambiguous_source_span"}
              ELSE {}]

(* _fallback_resolution: the first character of the chunk stands in.       *)
Fallback(chunk, matches) ==
  [start |-> chunk.start, text |-> Slice(chunk.text, 0, 1),
   reasons |-> {"invalid_source_offsets"}
               \cup (IF Cardinality(matches) > 1 THEN {"ambiguous_source_span"} ELSE {})]

ClaimHolds(payload, chunk) ==
  ClaimFits(payload, chunk) /\ HoldsValue(Claimed(payload, chunk), payload.value)

(* resolve_source_text: a claim without the value gives way to the one     *)
(* place the value is found at.                                            *)
Resolution(payload, chunk, matches, adjacent) ==
  IF ClaimHolds(payload, chunk) THEN ClaimWithReasons(payload, chunk, matches)
  ELSE IF Cardinality(matches) = 1 THEN Spot(chunk, CHOOSE m \in matches : TRUE)
  ELSE IF ~ClaimFits(payload, chunk) THEN Fallback(chunk, matches)
  ELSE IF adjacent # {} THEN Spot(chunk, CHOOSE m \in adjacent : TRUE)
  ELSE ClaimWithReasons(payload, chunk, matches)

ResolveAmong(payload, chunk, matches) ==
  Resolution(payload, chunk, matches, AdjacentMatches(payload, chunk, matches))
ResolveSource(payload, chunk) == ResolveAmong(payload, chunk, Matches(payload, chunk))

-----------------------------------------------------------------------------
(* NORMALIZERS: each looks at fields of its own, so at most one applies.   *)
(* A draft is the value with the span it was resolved to.                  *)
Follows(chunk, draft) ==
  Slice(chunk.text, draft.start - chunk.start + Len(draft.text), Len(chunk.text))
Part(draft, start, end, value) ==
  [start |-> draft.start + start, text |-> Slice(draft.text, start, end), value |-> value]
Itself(draft, start, end) == Part(draft, start, end, Slice(draft.text, start, end))
Extended(draft, more) ==
  [start |-> draft.start, text |-> draft.text \o more, value |-> draft.text \o more]
Leading(text) == IF IsBlank(text) THEN Len(text) ELSE Min(Words(text)) - 1

(* normalize_label_value, for one of its three phrases.                    *)
NormalizeLabel(draft, chunk) ==
  LET found == ExactMatches(Fold(draft.text), <<"commenced">>)
  IN  IF found = {} THEN draft ELSE Part(draft, Min(found), Min(found) + 1, <<"launch">>)

(* normalize_prior_period_value: the amount "in" a quarter that is nearest *)
(* to the resolved span, anywhere in the chunk.                            *)
NormalizePriorPeriod(draft, chunk) ==
  LET said == draft.value \o draft.text
      numbers == {i \in DOMAIN said : said[i] \in Number}
      found == IF numbers = {} THEN {}
               ELSE ExactMatches(chunk.text, <<said[Min(numbers)], Space, "in Q1">>)
      distance(i) == LET d == i - (draft.start - chunk.start) IN IF d < 0 THEN -d ELSE d
      nearest == {i \in found : \A j \in found : \/ distance(i) < distance(j)
                                                 \/ distance(i) = distance(j) /\ i <= j}
  IN  IF found = {} THEN draft
      ELSE LET i == Min(nearest)
           IN  [start |-> chunk.start + i, text |-> Slice(chunk.text, i, i + 3),
                value |-> Slice(chunk.text, i, i + 3)]

NormalizeEffectiveDate(draft, chunk) ==
  IF IsPrefix(<<Space, "meeting">>, Follows(chunk, draft))
  THEN Extended(draft, <<Space, "meeting">>) ELSE draft

(* normalize_role_labeled_atomic_value: the label of the role is cut off.  *)
NormalizeRole(draft, chunk) ==
  LET n == Leading(draft.text)
      source == Slice(draft.text, n, Len(draft.text))
  IN  IF \E number \in Number : IsPrefix(<<number, Space, "target">>, source)
      THEN Itself(draft, n, n + 1) ELSE draft

(* normalize_condition_value: "with" is cut off, a clause that begins with *)
(* "under" is taken in up to the end of its line or sentence.              *)
NormalizeCondition(draft, chunk) ==
  LET bare == IF IsPrefix(<<"with", Space>>, draft.text)
              THEN Itself(draft, 2, Len(draft.text)) ELSE draft
      rest == Follows(chunk, bare)
      ends == {i \in DOMAIN rest : rest[i] \in {Stop, NewLine}}
      clause == IF ends = {} THEN rest ELSE Slice(rest, 0, Min(ends) - 1)
  IN  IF IsPrefix(<<Space, "under", Space>>, rest) THEN Extended(bare, clause) ELSE bare

NormalizeQualifier(draft, chunk) ==
  LET matches == ValueMatches(draft.text, draft.value)
      match == CHOOSE m \in matches : TRUE
  IN  IF Cardinality(matches) = 1 /\ match # <<0, Len(draft.text)>>
      THEN Itself(draft, match[1], match[2]) ELSE draft

(* normalize_asset_detail_operational_profile: what follows the verb.      *)
NormalizeAssetDetail(draft, chunk) ==
  LET verbs == {i \in DOMAIN draft.text :
                  /\ draft.text[i] = "owns" /\ i + 1 \in DOMAIN draft.text
                  /\ draft.text[i + 1] \in Blank /\ \E w \in Words(draft.text) : w > i}
      n == Min(verbs)
      last == Max(Words(draft.text))
      end == IF draft.text[last] = Stop THEN last - 1 ELSE last
      inside == {w \in Words(draft.text) : n < w /\ w <= end}
  IN  IF verbs # {} /\ \E w \in inside : draft.text[w] \in Number
      THEN Itself(draft, Min(inside) - 1, Max(inside)) ELSE draft

NormalizeSpeaker(draft, chunk) ==
  LET rest == Slice(draft.text, 2, Len(draft.text))
  IN  IF IsPrefix(<<"CEO", Space>>, draft.text) /\ Cardinality(Words(rest)) >= 2
      THEN Itself(draft, 2, Len(draft.text)) ELSE draft

Normalized(field, draft, chunk) ==
  CASE field = "event_type" -> NormalizeLabel(draft, chunk)
    [] field = "prior_period_value" -> NormalizePriorPeriod(draft, chunk)
    [] field = "effective_date" -> NormalizeEffectiveDate(draft, chunk)
    [] field = "target_value" -> NormalizeRole(draft, chunk)
    [] field = "condition" -> NormalizeCondition(draft, chunk)
    [] field = "notable_qualifier" -> NormalizeQualifier(draft, chunk)
    [] field = "asset_detail" -> NormalizeAssetDetail(draft, chunk)
    [] field = "speaker" -> NormalizeSpeaker(draft, chunk)
    [] OTHER -> draft

(* prepare_candidate_payload: a resolution with reasons is left as it is.  *)
Draft(payload, resolved) ==
  [start |-> resolved.start, text |-> resolved.text, value |-> payload.value]
Prepare(payload, resolved, chunk) ==
  IF resolved.reasons # {} THEN Draft(payload, resolved)
  ELSE Normalized(payload.field, Draft(payload, resolved), chunk)

-----------------------------------------------------------------------------
(* build_candidate raises when its contracts refuse what it is given: the  *)
(* value and value_verbatim, which is the text of the span, have a letter  *)
(* that is not blank.                                                      *)
IsMaterializable(draft) == ~IsBlank(draft.value) /\ ~IsBlank(draft.text)

CharOffsets(chunk, start, text) ==  \* variant: bytes counted like characters
  LET first == chunk.startByte + (start - chunk.start)
  IN  [start |-> start, end |-> start + Len(text),
       startByte |-> first, endByte |-> first + Len(text), text |-> text]
SpanAt(chunk, start, text) ==
  LET first == chunk.startByte + ByteLen(Slice(chunk.text, 0, start - chunk.start))
  IN  [start |-> start, end |-> start + Len(text),
       startByte |-> first, endByte |-> first + ByteLen(text), text |-> text]

BuildCandidate(payload, draft, chunk) ==
  [category |-> payload.category, field |-> payload.field, value |-> draft.value,
   span |-> SpanAt(chunk, draft.start, draft.text), verbatim |-> draft.text,
   status |-> IF draft.value = draft.text THEN "verbatim_only" ELSE "canonicalized"]

(* span_matches_chunk, the same function in three places of the code.      *)
SpanMatches(span, chunk) ==
  /\ chunk.start <= span.start /\ span.end <= chunk.start + Len(chunk.text)
  /\ chunk.startByte <= span.startByte
  /\ span.endByte <= chunk.startByte + ByteLen(chunk.text)
  /\ Slice(chunk.text, span.start - chunk.start, span.end - chunk.start) = span.text
  /\ ByteSlice(chunk.text, span.startByte - chunk.startByte,
               span.endByte - chunk.startByte) = Bytes(span.text)

IsApproved(candidate) ==
  /\ candidate.category \in DOMAIN ApprovedFields
  /\ candidate.field \in ApprovedFields[candidate.category]

SlotReasons(candidate) ==
  IF candidate.category \notin DOMAIN ApprovedFields THEN {"category_not_approved"}
  ELSE IF candidate.field \notin ApprovedFields[candidate.category] THEN {"schema_violation"}
  ELSE {}

(* candidate_rejection_reasons, after those of the resolution.             *)
ExecutorReasons(resolved, candidate, chunk) ==
  resolved.reasons \cup SlotReasons(candidate)
    \cup (IF SpanMatches(candidate.span, chunk) THEN {} ELSE {"invented_span"})

(* expand_candidate_payloads for the event lens: an event, its summary and *)
(* its details for every sentence that speaks of a commencement; that of   *)
(* an acquisition is handled alike.                                        *)
DerivedPayloads(chunk) ==
  LET verbs(s) == {i \in s[1]..(s[2] - 1) : FoldOf(chunk.text[i + 1]) \in {"began", "commenced"}}
      payload(category, field, value, start, length) ==
        [category |-> category, field |-> field, value |-> value,
         start |-> chunk.start + start, length |-> length]
  IN  UNION {
        {payload(category, "event_type", <<"launch">>, Min(verbs(s)), 1)}
        \cup {payload(category, field, Slice(chunk.text, s[1], s[2]), s[1], s[2] - s[1]) :
                field \in ApprovedFields[category] \cap {"summary", "asset_detail"}} :
        s \in {t \in SentenceSpans(chunk.text) : verbs(t) # {}},
        category \in {c \in DOMAIN ApprovedFields : "event_type" \in ApprovedFields[c]}}
=============================================================================
