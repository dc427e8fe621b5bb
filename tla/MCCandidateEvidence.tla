-------------------------- MODULE MCCandidateEvidence --------------------------
(***************************************************************************)
(* Chunks with repeated words, a heading, words of two bytes, blanks at    *)
(* the start, and one for each normalizer; payloads with every claim in    *)
(* and just around the chunk; corrections of every slice and slot.         *)
(***************************************************************************)
EXTENDS CandidateEvidence

MCAtom == STRING
T(a, b) == <<a, Space, b>>
MCTexts ==
  {<<"half", Space, "nine", Space, "about", Space, "nine">>,
   <<Space, "nine", NewLine, Hash, "nine", NewLine, "nine">>,
   <<"Began", Space, Space, "nine", Stop, Space, "CEO", Space, "ten", Space, "half">>,
   <<"with", Space, "nine", Space, "under", Space, "ten", Stop>>,
   <<"commenced", Space, "owns", Space, "ten", Space, "target", Stop>>,
   <<"ten", Space, "in Q1", Space, "meeting", Space, "ten", Space, "in Q1">>}
MCChunks == {[text |-> t, start |-> 2, startByte |-> 3] : t \in MCTexts}

MCApprovedFields ==
  [c \in {"CorporateEvent"} |->
     {"event_type", "prior_period_value", "effective_date", "target_value", "condition",
      "notable_qualifier", "asset_detail", "speaker", "metric_name", "summary"}]
MCAtomicField == {"prior_period_value", "effective_date", "target_value"}

MCSlots ==
  {<<"CorporateEvent", f>> : f \in MCApprovedFields["CorporateEvent"]}
  \cup {<<"Other", "summary">>, <<"CorporateEvent", "unknown">>}
MCValues ==
  {<<"nine">>, <<"ten">>, <<"half">>, T("began", "nine"), T("about", "nine"),
   <<Space, "nine">>, T("under", "ten"), T("nine", "ten")}
MCPayload(c) ==
  [category : {"CorporateEvent"}, field : MCApprovedFields["CorporateEvent"],
   value : MCValues, start : (c.start - 1)..(c.start + Len(c.text)), length : {0, 1, 3, 5}]
  \cup [category : {"Other"}, field : {"summary"}, value : {<<"nine">>},
        start : {c.start}, length : {3}]
  \cup [category : {"CorporateEvent"}, field : {"unknown"}, value : {<<"nine">>},
        start : {c.start}, length : {3}]

MCCorrection(c) ==
  LET length == Len(c.span.text)
  IN  [given : {TRUE}, category : {"same"}, field : {"same", "event_type", "unknown"},
       value : {<<>>, <<"nine">>}, start : {NoStart},
       text : {<<>>} \cup {SubSeq(c.span.text, 1, k) : k \in 1..(length - 1)}]
      \cup [given : {TRUE}, category : {"same", "Other"}, field : {"same"},
            value : {<<>>}, start : {c.span.start - 1, c.span.start + 1},
            text : {<<>>, <<"nine">>} \cup {SubSeq(c.span.text, 2, length)}]
=============================================================================
