----------------------------- MODULE CriticStage -----------------------------
(***************************************************************************)
(* review_candidates over the canonical candidates, the mirroring of its   *)
(* reports to the merged duplicates, and the reuse of an audited review.   *)
(*                                                                         *)
(* Bound: critic_batch_size is at least the number of candidates of a      *)
(* chunk, so a batch is the canonical candidates of one chunk.             *)
(***************************************************************************)
EXTENDS CandidateTables

Reported == {c \in Candidate : criticReport[c] # "none"}

(* critic_complete reports which of the canonical candidates the audit     *)
(* store accounts for: none, some or all of them.                          *)
ReviewAccounted == Canonical(accepted) \cap (Reported \cup RejectedAt("critic"))
ReviewMissing == Canonical(accepted) \ ReviewAccounted

ReviewIsPartial == ReviewAccounted # {} /\ ReviewMissing # {}
ReviewIsComplete == ReviewMissing = {}

(* critic_result_from_audit raises on a report about an unknown candidate. *)
ReviewIsOrphanedAmongCanonical ==  \* variant: the duplicates are forgotten
  ~ (Reported \cup RejectedAt("critic") \subseteq Canonical(accepted))
ReviewIsOrphaned ==
  ~ (Reported \cup RejectedAt("critic") \subseteq accepted)

(* validate_critic_inputs: a row whose category, field or span does not    *)
(* match raises CriticError before the first call.                         *)
ReviewInputIsValid == \A c \in Canonical(accepted) : row[c] # "malformed"

ReviewRaises ==
  IF ReviewIsComplete THEN ReviewIsOrphaned
  ELSE ReviewIsPartial \/ ~ReviewInputIsValid

RefuseReview ==
  /\ MainFlowAt("critic")
  /\ ReviewRaises
  /\ exception' = "raised"
  /\ UNCHANGED <<durable, pc, answer, done, accepted, decision>>

ReuseReview ==
  /\ MainFlowAt("critic")
  /\ ReviewIsComplete /\ ~ReviewRaises
  /\ accepted' = {c \in Candidate : criticReport[c] = "accepted"}
  /\ Goto("reviewed")
  /\ UNCHANGED <<durable, exception, answer, done, decision>>

StartReview ==
  /\ MainFlowAt("critic")
  /\ ~ReviewIsComplete /\ ~ReviewRaises
  /\ Goto("reviewing")
  /\ UNCHANGED <<durable, exception, answer, done, accepted, decision>>

CriticBatch(chunk) == {c \in Canonical(accepted) : ChunkOf[c] = chunk}

(* The verdicts after the semantic retries and the local checks of         *)
(* build_report.  A candidate that is left without one is meant to be      *)
(* rejected, but the loop raises there (CandidateEvidence has why): that   *)
(* is a failure of the task, here and at the verifier.                     *)
CriticCallReturns(chunk) ==
  /\ pc = "reviewing"
  /\ CriticBatch(chunk) # {}
  /\ \A c \in CriticBatch(chunk) : answer[c] = "pending"
  /\ \E verdict \in [CriticBatch(chunk) -> {"accept", "reject"}] :
       answer' = [c \in Candidate |-> IF c \in CriticBatch(chunk)
                                      THEN verdict[c] ELSE answer[c]]
  /\ UNCHANGED <<durable, pc, exception, done, accepted, decision>>

(* The loop over a batch finishes one candidate before the next.           *)
CriticHalfRecorded(c) == criticReport[c] = "rejected" /\ c \notin done
CriticTurn(c) ==
  /\ pc = "reviewing"
  /\ c \in Canonical(accepted) \ done
  /\ \A d \in CriticBatch(ChunkOf[c]) \ {c} : ~CriticHalfRecorded(d)

RecordCriticReport(c) ==
  /\ CriticTurn(c)
  /\ answer[c] \in {"accept", "reject"} /\ criticReport[c] = "none"
  /\ criticReport' = [criticReport EXCEPT ![c] = ReportOf(answer[c])]
  /\ done' = IF answer[c] = "accept" THEN done \cup {c} ELSE done
  /\ UNCHANGED <<history, callLogs, row, rejections, verifierReport, dataPoints, stages,
                 manifest, report, pc, exception, answer, accepted, decision>>

(* A rejecting report is followed by its rejection.                        *)
RecordCriticRejection(c) ==
  /\ CriticTurn(c)
  /\ CriticHalfRecorded(c)
  /\ rejections' = rejections \cup {<<c, "critic">>}
  /\ done' = done \cup {c}
  /\ UNCHANGED <<history, callLogs, row, criticReport, verifierReport, dataPoints, stages,
                 manifest, report, pc, exception, answer, accepted, decision>>

FinishReview ==
  /\ MainFlowAt("reviewing")
  /\ Canonical(accepted) \subseteq done
  /\ answer' = NoAnswer /\ done' = {}
  /\ Goto("mirroring")
  /\ UNCHANGED <<durable, exception, accepted, decision>>

(* mirror_merged_critic_reports: the duplicates in id order, those whose   *)
(* primary has no report are passed over.                                  *)
MirrorPending ==
  {d \in Merged(accepted) : criticReport[d] = "none"
                            /\ criticReport[Primary(d, accepted)] # "none"}

MirrorReport(d) ==
  /\ MainFlowAt("mirroring")
  /\ d \in MirrorPending
  /\ \A e \in MirrorPending : d <= e
  /\ criticReport' = [criticReport EXCEPT ![d] =
                        criticReport[Primary(d, accepted)]]
  /\ UNCHANGED <<history, callLogs, row, rejections, verifierReport, dataPoints, stages,
                 manifest, report, memory>>

FinishMirroring ==
  /\ MainFlowAt("mirroring")
  /\ MirrorPending = {}
  /\ accepted' = {c \in accepted : criticReport[c] = "accepted"}
  /\ Goto("reviewed")
  /\ UNCHANGED <<durable, exception, answer, done, decision>>

CriticTasks ==
  \/ \E chunk \in Chunk : CriticCallReturns(chunk)
  \/ \E c \in Candidate : RecordCriticReport(c) \/ RecordCriticRejection(c)

CriticMain ==
  \/ RefuseReview \/ ReuseReview \/ StartReview
  \/ FinishReview \/ FinishMirroring
  \/ \E d \in Candidate : MirrorReport(d)
==============================================================================
