---------------------------- MODULE VerifierStage ----------------------------
(***************************************************************************)
(* verify_candidates over the candidates the critic accepted, mirrored     *)
(* duplicates included, and the reuse of an audited verification.          *)
(*                                                                         *)
(* Bound: verifier_batch_size is at least the number of candidates of a    *)
(* chunk, so a batch is the candidates of one chunk.                       *)
(***************************************************************************)
EXTENDS CandidateTables

Verified == {c \in Candidate : verifierReport[c] # "none"}

(* verifier_complete *)
VerificationAccounted == accepted \cap (Verified \cup RejectedAt("verifier"))
VerificationMissing == accepted \ VerificationAccounted
VerificationIsComplete == VerificationMissing = {}
VerificationIsPartial == VerificationAccounted # {} /\ VerificationMissing # {}

(* verification_result_from_audit *)
VerificationIsOrphaned ==
  ~ (Verified \cup RejectedAt("verifier") \subseteq accepted)

(* validate_verifier_inputs: one accepted critic report for each candidate *)
VerifierInputIsValid == \A c \in accepted : criticReport[c] = "accepted"

VerificationRaises ==
  IF VerificationIsComplete THEN VerificationIsOrphaned
  ELSE VerificationIsPartial \/ ~VerifierInputIsValid

RefuseVerification ==
  /\ MainFlowAt("verifier")
  /\ VerificationRaises
  /\ exception' = "raised"
  /\ UNCHANGED <<durable, pc, answer, done, accepted, decision>>

ReuseVerification ==
  /\ MainFlowAt("verifier")
  /\ VerificationIsComplete /\ ~VerificationRaises
  /\ accepted' = {c \in Candidate : verifierReport[c] = "accepted"}
  /\ Goto("verified")
  /\ UNCHANGED <<durable, exception, answer, done, decision>>

StartVerification ==
  /\ MainFlowAt("verifier")
  /\ ~VerificationIsComplete /\ ~VerificationRaises
  /\ Goto("verifying")
  /\ UNCHANGED <<durable, exception, answer, done, accepted, decision>>

VerifierBatch(chunk) == {c \in accepted : ChunkOf[c] = chunk}

VerifierCallReturns(chunk) ==
  /\ pc = "verifying"
  /\ VerifierBatch(chunk) # {}
  /\ \A c \in VerifierBatch(chunk) : answer[c] = "pending"
  /\ \E verdict \in [VerifierBatch(chunk) -> {"accept", "reject"}] :
       answer' = [c \in Candidate |-> IF c \in VerifierBatch(chunk)
                                      THEN verdict[c] ELSE answer[c]]
  /\ UNCHANGED <<durable, pc, exception, done, accepted, decision>>

VerifierHalfRecorded(c) == verifierReport[c] = "rejected" /\ c \notin done
VerifierTurn(c) ==
  /\ pc = "verifying"
  /\ c \in accepted \ done
  /\ \A d \in VerifierBatch(ChunkOf[c]) \ {c} : ~VerifierHalfRecorded(d)

RecordVerifierReport(c) ==
  /\ VerifierTurn(c)
  /\ answer[c] \in {"accept", "reject"} /\ verifierReport[c] = "none"
  /\ verifierReport' = [verifierReport EXCEPT ![c] = ReportOf(answer[c])]
  /\ done' = IF answer[c] = "accept" THEN done \cup {c} ELSE done
  /\ UNCHANGED <<history, callLogs, row, rejections, criticReport, dataPoints, stages,
                 manifest, report, pc, exception, answer, accepted, decision>>

RecordVerifierRejection(c) ==
  /\ VerifierTurn(c)
  /\ VerifierHalfRecorded(c)
  /\ rejections' = rejections \cup {<<c, "verifier">>}
  /\ done' = done \cup {c}
  /\ UNCHANGED <<history, callLogs, row, criticReport, verifierReport, dataPoints, stages,
                 manifest, report, pc, exception, answer, accepted, decision>>

FinishVerification ==
  /\ MainFlowAt("verifying")
  /\ accepted \subseteq done
  /\ accepted' = {c \in accepted : verifierReport[c] = "accepted"}
  /\ answer' = NoAnswer /\ done' = {}
  /\ Goto("verified")
  /\ UNCHANGED <<durable, exception, decision>>

VerifierTasks ==
  \/ \E chunk \in Chunk : VerifierCallReturns(chunk)
  \/ \E c \in Candidate : RecordVerifierReport(c) \/ RecordVerifierRejection(c)

VerifierMain ==
  \/ RefuseVerification \/ ReuseVerification
  \/ StartVerification \/ FinishVerification
==============================================================================
