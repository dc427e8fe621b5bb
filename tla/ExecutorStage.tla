---------------------------- MODULE ExecutorStage ----------------------------
(***************************************************************************)
(* execute_plan and the dedup that follows it.  One task for each lens and *)
(* chunk calls the LLM and then writes its candidates one by one: the row, *)
(* and for a candidate with rejection reasons the rejection, in two        *)
(* commits.  The tasks interleave at every await.                          *)
(***************************************************************************)
EXTENDS CandidateTables

TaskOf(c) == <<LensOf[c], ChunkOf[c]>>
CandidatesOf(lens, chunk) == {c \in Candidate : TaskOf(c) = <<lens, chunk>>}

ExecutionFromRows == Recorded  \* variant: the rejections are not read
(* execution_result_from_audit: what was not rejected was accepted.        *)
ExecutionFromAudit == Recorded \ RejectedAt("executor")

(* service.py 172-201.  Any candidate row at all counts as the executor's  *)
(* complete output.                                                        *)
ReuseExecution ==
  /\ MainFlowAt("executor")
  /\ Recorded # {} \/ "executor" \in stages
  /\ accepted' = ExecutionFromAudit
  /\ Goto("executed")
  /\ UNCHANGED <<durable, exception, answer, done, decision>>

StartExecution ==
  /\ MainFlowAt("executor")
  /\ Recorded = {} /\ "executor" \notin stages
  /\ answer' = NoAnswer
  /\ done' = {}
  /\ Goto("executing")
  /\ UNCHANGED <<durable, exception, accepted, decision>>

(* The call of a task returns: each of its candidates is proposed, sound   *)
(* or with a defect, or it is not proposed at all.                         *)
ExecutorCallReturns(lens, chunk) ==
  /\ pc = "executing"
  /\ \A c \in CandidatesOf(lens, chunk) : answer[c] = "pending"
  /\ \E proposal \in [CandidatesOf(lens, chunk) -> RowContent \cup {"missing"}] :
       /\ answer' = [c \in Candidate |-> IF TaskOf(c) = <<lens, chunk>>
                                         THEN proposal[c] ELSE answer[c]]
       /\ done' = done \cup {c \in CandidatesOf(lens, chunk) :
                               proposal[c] = "missing"}
  /\ callLogs' = callLogs \cup {<<lens, chunk>>}
  /\ UNCHANGED <<history, row, rejections, criticReport, verifierReport, dataPoints,
                 stages, manifest, report, pc, exception, accepted, decision>>

(* Rows with reasons wait for their rejection before their task goes on.   *)
HalfRecorded(c) == row[c] \in RejectedRow /\ c \notin done

RecordLensCandidate(c) ==
  /\ pc = "executing"
  /\ answer[c] \in RowContent /\ row[c] = "absent"
  /\ \A d \in Candidate : TaskOf(d) = TaskOf(c) => ~HalfRecorded(d)
  /\ row' = [row EXCEPT ![c] = answer[c]]
  /\ done' = IF answer[c] = "sound" THEN done \cup {c} ELSE done
  /\ UNCHANGED <<history, callLogs, rejections, criticReport, verifierReport, dataPoints, stages,
                 manifest, report, pc, exception, answer, accepted, decision>>

RecordExecutorRejection(c) ==
  /\ pc = "executing"
  /\ HalfRecorded(c)
  /\ rejections' = rejections \cup {<<c, "executor">>}
  /\ done' = done \cup {c}
  /\ UNCHANGED <<history, callLogs, row, criticReport, verifierReport, dataPoints, stages,
                 manifest, report, pc, exception, answer, accepted, decision>>

(* gather returns when every task has. *)
FinishExecution ==
  /\ MainFlowAt("executing")
  /\ done = Candidate
  /\ accepted' = {c \in Candidate : answer[c] = "sound"}
  /\ answer' = NoAnswer /\ done' = {}
  /\ Goto("executed")
  /\ UNCHANGED <<durable, exception, decision>>

(* service.py 209-222: duplicates get a rejection row each, in id order,   *)
(* unless the row exists already.                                          *)
DedupPendingNever == {}  \* variant: merged duplicates leave no trace
DedupPending == Merged(accepted) \ RejectedAt("dedup")

RecordDedupRejection(d) ==
  /\ MainFlowAt("deduping")
  /\ d \in DedupPending
  /\ \A e \in DedupPending : d <= e
  /\ rejections' = rejections \cup {<<d, "dedup">>}
  /\ UNCHANGED <<history, callLogs, row, criticReport, verifierReport, dataPoints, stages,
                 manifest, report, memory>>

ExecutorTasks ==
  \/ \E lens \in Lens, chunk \in Chunk : ExecutorCallReturns(lens, chunk)
  \/ \E c \in Candidate : RecordLensCandidate(c) \/ RecordExecutorRejection(c)

ExecutorMain ==
  \/ ReuseExecution \/ StartExecution \/ FinishExecution
  \/ \E d \in Candidate : RecordDedupRejection(d)
==============================================================================
