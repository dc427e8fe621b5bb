--------------------------- MODULE ReconcilerStage ---------------------------
(***************************************************************************)
(* reconcile_candidates over the verified candidates: one call, then the   *)
(* data points and the rejections, one commit each; and the reuse of an    *)
(* audited reconciliation.  What build_reconciliation_result computes from *)
(* the model's groups is the subject of module Reconciliation; here its    *)
(* result is any of the outcomes that module shows it can have.            *)
(***************************************************************************)
EXTENDS CandidateTables

(* reconciler_complete *)
Contributors(points) == UNION points
ReconciliationMissing ==
  accepted \ (Contributors(dataPoints) \cup RejectedAt("reconciler"))
ReconciliationIsAbsent == dataPoints = {} /\ RejectedAt("reconciler") = {}

ReconciliationIsReusable ==
  accepted = {} \/ (~ReconciliationIsAbsent /\ ReconciliationMissing = {})
ReconciliationIsPartial ==
  accepted # {} /\ ~ReconciliationIsAbsent /\ ReconciliationMissing # {}

(* validate_reconciler_inputs: a candidate comes with both accepted reports *)
ReconcilerInputIsValid ==
  \A c \in accepted :
    criticReport[c] = "accepted" /\ verifierReport[c] = "accepted"

RefuseReconciliation ==
  /\ MainFlowAt("reconciler")
  /\ ~ReconciliationIsReusable
  /\ ReconciliationIsAbsent => ~ReconcilerInputIsValid
  /\ exception' = "raised"
  /\ UNCHANGED <<durable, pc, answer, done, accepted, decision>>

ReuseReconciliation ==
  /\ MainFlowAt("reconciler")
  /\ ReconciliationIsReusable
  /\ decision' = [points |-> dataPoints, rejected |-> RejectedAt("reconciler")]
  /\ Goto("reconciled")
  /\ UNCHANGED <<durable, exception, answer, done, accepted>>

(* The outcomes of build_reconciliation_result: disjoint groups, every     *)
(* other candidate rejected, and rejected too any kept candidate that a    *)
(* later group of the batch names again.                                   *)
Outcomes ==
  {d \in [points : SUBSET ((SUBSET accepted) \ {{}}), rejected : SUBSET accepted] :
     /\ \A p, q \in d.points : p # q => p \cap q = {}
     /\ accepted \ Contributors(d.points) \subseteq d.rejected}

ReconcilerCallReturns ==
  /\ MainFlowAt("reconciler")
  /\ accepted # {} /\ ReconciliationIsAbsent /\ ReconcilerInputIsValid
  /\ decision' \in Outcomes
  /\ Goto("recording")
  /\ UNCHANGED <<durable, exception, answer, done, accepted>>

RecordDataPoint(point) ==
  /\ MainFlowAt("recording")
  /\ point \in decision.points \ dataPoints
  /\ dataPoints' = dataPoints \cup {point}
  /\ UNCHANGED <<history, callLogs, row, rejections, criticReport, verifierReport, stages,
                 manifest, report, memory>>

(* The rejections follow when every data point is stored, in id order.     *)
RejectionsPending == decision.rejected \ RejectedAt("reconciler")

RecordReconcilerRejection(c) ==
  /\ MainFlowAt("recording")
  /\ decision.points \subseteq dataPoints
  /\ c \in RejectionsPending
  /\ \A d \in RejectionsPending : c <= d
  /\ rejections' = rejections \cup {<<c, "reconciler">>}
  /\ UNCHANGED <<history, callLogs, row, criticReport, verifierReport, dataPoints, stages,
                 manifest, report, memory>>

FinishReconciliation ==
  /\ MainFlowAt("recording")
  /\ decision.points \subseteq dataPoints /\ RejectionsPending = {}
  /\ Goto("reconciled")
  /\ UNCHANGED <<durable, exception, answer, done, accepted, decision>>

ReconcilerMain ==
  \/ RefuseReconciliation \/ ReuseReconciliation
  \/ ReconcilerCallReturns \/ FinishReconciliation
  \/ \E point \in decision.points : RecordDataPoint(point)
  \/ \E c \in Candidate : RecordReconcilerRejection(c)
==============================================================================
