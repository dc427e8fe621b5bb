--------------------------- MODULE CandidateReview ---------------------------
(***************************************************************************)
(* The inductive invariant of CandidateFlow that carries its safety        *)
(* properties: what the tables and the memory of the process say about     *)
(* each other at each point of the pipeline.                               *)
(***************************************************************************)
EXTENDS CandidateFlow

(* The executor rejects only rows with a defect, and what the critic says  *)
(* is about rows the executor accepted.                                    *)
RowsSupportReviews ==
  \A c \in Candidate :
    /\ c \in RejectedAt("executor") => row[c] \in RejectedRow
    /\ c \in RejectedAt("critic") => row[c] # "absent"
    /\ criticReport[c] # "none" => c \in Executed

(* While the executor's tasks run there is no review yet; a row is what    *)
(* its call proposed, and a candidate is over when it was not proposed,    *)
(* when its row is sound or rejected, or when its task raised.             *)
ExecutionIsSound ==
  pc = "executing" =>
    /\ RejectedAt("critic") = {}
    /\ \A c \in Candidate :
         /\ criticReport[c] = "none"
         /\ answer[c] \in RowContent \cup {"pending", "missing", "stopped"}
         /\ answer[c] \in {"pending", "missing"} => row[c] = "absent"
         /\ answer[c] \in RowContent /\ row[c] # "absent" => row[c] = answer[c]
         /\ answer[c] = "stopped" => exception # "none"
         /\ c \in done => answer[c] # "pending"
         /\ c \in done /\ answer[c] = "sound" => row[c] = "sound"
         /\ c \in done /\ answer[c] \in RejectedRow => c \in RejectedAt("executor")

AcceptedIsExecuted ==
  pc \in {"executed", "deduping", "critic", "reviewing", "mirroring"}
    => accepted = Executed

RowsInv == RowsSupportReviews /\ ExecutionIsSound /\ AcceptedIsExecuted

(* An accepting report of the critic stands alone; duplicates are never    *)
(* rejected by it, and while it reviews, what is not over has no report    *)
(* and no rejection from before.                                           *)
CriticInv ==
  /\ \A c \in Candidate : criticReport[c] = "accepted" => c \notin RejectedAt("critic")
  /\ Merged(Executed) \cap RejectedAt("critic") = {}
  /\ pc = "reviewing" =>
       \A c \in Canonical(accepted) :
         /\ c \notin done => c \notin RejectedAt("critic")
         /\ answer[c] \in {"pending", "missing"} => criticReport[c] = "none"

(* The same of the verifier, which only reviews what the critic accepted.  *)
VerifierInv ==
  /\ \A c \in Candidate :
       /\ verifierReport[c] # "none" => criticReport[c] = "accepted"
       /\ verifierReport[c] = "accepted" => c \notin RejectedAt("verifier")
  /\ pc = "verifying" =>
       \A c \in accepted :
         /\ criticReport[c] = "accepted"
         /\ c \notin done => c \notin RejectedAt("verifier")

(* A data point, stored or about to be, has contributors with both reports *)
(* accepting.                                                              *)
AcceptedByBoth(S) ==
  \A c \in S : criticReport[c] = "accepted" /\ verifierReport[c] = "accepted"
Disjoint(points) == \A p, q \in points : p # q => p \cap q = {}

PointsInv ==
  /\ AcceptedByBoth(UNION dataPoints)
  /\ Disjoint(dataPoints)
  /\ pc = "recording" =>
       /\ AcceptedByBoth(UNION decision.points)
       /\ Disjoint(decision.points)
       /\ dataPoints \subseteq decision.points

(* The manifest says running while the process works on the run.  From the *)
(* end of the reconciler on, what the process reports is what is stored; a *)
(* completed run was reported and nothing works on it.                     *)
ReportInv ==
  /\ pc \notin {"reported", "down"} /\ exception # "marked"
       => manifest.status = "running"
  /\ pc \in {"reconciled", "reporting", "written", "reported"}
       => decision.points = dataPoints
  /\ pc \in {"written", "reported"}
       => report = [written |-> TRUE, points |-> dataPoints]
  /\ manifest.status = "completed" =>
       /\ pc \in {"reported", "down"}
       /\ manifest.output = dataPoints
       /\ report = [written |-> TRUE, points |-> dataPoints]

(* Who a finished stage accounts for: each duplicate, each candidate that  *)
(* went on from the stage before has a row of the stage that says what     *)
(* became of it.                                                           *)
DedupAccounts == Merged(Executed) \subseteq RejectedAt("dedup")
CriticAccounts == Canonical(Executed) \subseteq Reported \cup RejectedAt("critic")
VerifierAccounts ==
  {c \in Candidate : criticReport[c] = "accepted"}
    \subseteq Verified \cup RejectedAt("verifier")
ReconcilerAccounts ==
  {c \in Candidate : verifierReport[c] = "accepted"}
    \subseteq (UNION dataPoints) \cup RejectedAt("reconciler")

(* The points of the pipeline behind each stage. *)
PastReconciler == {"reconciled", "reporting", "written", "reported"}
PastVerifier == PastReconciler \cup {"verified", "reconciler", "recording"}
PastCritic ==
  PastVerifier \cup {"mirroring", "reviewed", "verifier", "verifying"}
PastDedup == PastCritic \cup {"critic", "reviewing"}

(* While a gather runs and nothing was raised, a candidate that is over    *)
(* has its report; what a stage hands on is what its reports accept.       *)
HandedOn ==
  /\ ~AtGather => done = {}
  /\ pc = "reviewing" /\ exception = "none"
       => Canonical(accepted) \cap done \subseteq Reported
  /\ pc \in {"reviewed", "verifier", "verifying"}
       => accepted = {c \in Candidate : criticReport[c] = "accepted"}
  /\ pc = "verifying" /\ exception = "none" => accepted \cap done \subseteq Verified
  /\ pc \in {"verified", "reconciler", "recording"}
       => accepted = {c \in Candidate : verifierReport[c] = "accepted"}
  /\ pc = "recording"
       => accepted \subseteq (UNION decision.points) \cup decision.rejected

(* Each stage the process has passed accounts for its candidates, and so   *)
(* do all of them in a completed run.                                      *)
AccountInv ==
  /\ pc \in PastDedup \/ manifest.status = "completed" => DedupAccounts
  /\ pc \in PastCritic \/ manifest.status = "completed" => CriticAccounts
  /\ pc \in PastVerifier \/ manifest.status = "completed" => VerifierAccounts
  /\ pc \in PastReconciler \/ manifest.status = "completed" => ReconcilerAccounts

(* A rejection of the critic or the verifier goes with a rejecting report, *)
(* and the reconciler decides about what both accepted: its data points    *)
(* and its rejections never cover nothing of it.                           *)
RejectionsInv ==
  /\ \A c \in RejectedAt("critic") : criticReport[c] = "rejected"
  /\ \A c \in RejectedAt("verifier") : verifierReport[c] = "rejected"
  /\ \A c \in RejectedAt("reconciler") : verifierReport[c] = "accepted"
  /\ {} \notin dataPoints
  /\ pc = "recording" =>
       /\ {} \notin decision.points
       /\ \A c \in decision.rejected : verifierReport[c] = "accepted"

(* The recorded stages are the ones behind the process, without a gap;     *)
(* what a recorded stage left still accounts for its candidates, so the    *)
(* stage is not run again.                                                 *)
StagesInv ==
  /\ pc \in PastDedup \cup {"deduping"} => "executor" \in stages
  /\ pc \in PastDedup => "dedup" \in stages
  /\ pc \in PastCritic \ {"mirroring", "reviewed"} => "critic" \in stages
  /\ pc \in PastVerifier \ {"verified"} => "verifier" \in stages
  /\ "executor" \in stages => pc # "executing"
  /\ "dedup" \in stages => "executor" \in stages /\ DedupAccounts
  /\ "critic" \in stages =>
       "dedup" \in stages /\ CriticAccounts /\ pc \notin {"reviewing", "mirroring"}
  /\ "verifier" \in stages =>
       "critic" \in stages /\ VerifierAccounts /\ pc # "verifying"
  /\ "reconciler" \in stages =>
       "verifier" \in stages /\ ReconcilerAccounts /\ pc # "recording"

ReviewInv ==
  /\ RowsInv /\ CriticInv /\ VerifierInv /\ PointsInv /\ ReportInv
  /\ HandedOn /\ AccountInv /\ RejectionsInv /\ StagesInv
=============================================================================
