---------------------------- MODULE CandidateFlow ----------------------------
(***************************************************************************)
(* run_extraction_pipeline from the executor to the reporter, with what    *)
(* may go wrong on the way: a step of the main flow or of a task raises,   *)
(* the process dies between two commits, the run is resumed, and an        *)
(* operator clears stages with scripts/prepare_failed_run_resume.py.       *)
(*                                                                         *)
(* Bounds: MaxFaults limits crashes and raised exceptions, MaxPrepares the *)
(* uses of the script.  A resume is not limited.                           *)
(***************************************************************************)
EXTENDS ExecutorStage, CriticStage, VerifierStage, ReconcilerStage

CONSTANTS
  MaxFaults,    \* crashes and raised exceptions in a behaviour
  MaxPrepares   \* uses of prepare_failed_run_resume.py in a behaviour

ASSUME BoundAssumption == MaxFaults \in Nat /\ MaxPrepares \in Nat

Init ==
  /\ callLogs = {}
  /\ row = [c \in Candidate |-> "absent"]
  /\ rejections = {}
  /\ criticReport = NoReports /\ verifierReport = NoReports
  /\ dataPoints = {}
  /\ stages = {}
  /\ manifest = [status |-> "running", output |-> {}]
  /\ report = NoReport
  /\ pc = "executor" /\ exception = "none"
  /\ answer = NoAnswer /\ done = {} /\ accepted = {}
  /\ decision = NoDecision
  /\ faults = 0 /\ prepares = 0

-----------------------------------------------------------------------------
(* The stage states and the reporter. *)

EnsureStageCompleted(stage, from, to) ==
  /\ MainFlowAt(from)
  /\ stages' = stages \cup {stage}
  /\ Goto(to)
  /\ UNCHANGED <<history, callLogs, row, rejections, criticReport, verifierReport,
                 dataPoints, manifest, report,
                 exception, answer, done, accepted, decision>>

StageEnds ==
  \/ EnsureStageCompleted("executor", "executed", "deduping")
  \/ DedupPending = {} /\ EnsureStageCompleted("dedup", "deduping", "critic")
  \/ EnsureStageCompleted("critic", "reviewed", "verifier")
  \/ EnsureStageCompleted("verifier", "verified", "reconciler")
  \/ EnsureStageCompleted("reconciler", "reconciled", "reporting")

(* write_report: the state of the store is compared with what is to be     *)
(* reported, then the file is replaced, before the manifest is updated.    *)
ReportInputIsValid ==
  manifest.status = "running" /\ decision.points \subseteq dataPoints

RenderOnce ==  \* variant: a report that exists is kept
  IF report.written THEN report
  ELSE [written |-> TRUE, points |-> decision.points]
RenderedReport == [written |-> TRUE, points |-> decision.points]

WriteReportFile ==
  /\ MainFlowAt("reporting")
  /\ ReportInputIsValid
  /\ report' = RenderedReport
  /\ Goto("written")
  /\ UNCHANGED <<history, callLogs, row, rejections, criticReport, verifierReport,
                 dataPoints, stages, manifest,
                 exception, answer, done, accepted, decision>>

CompleteManifest ==
  /\ MainFlowAt("written")
  /\ manifest' = [status |-> "completed", output |-> decision.points]
  /\ Goto("reported")
  /\ UNCHANGED <<history, callLogs, row, rejections, criticReport, verifierReport,
                 dataPoints, stages, report,
                 exception, answer, done, accepted, decision>>

MemoryIsLost ==
  /\ pc' = "down" /\ exception' = "none"
  /\ answer' = NoAnswer /\ done' = {} /\ accepted' = {}
  /\ decision' = NoDecision

(* The last stage state, and the pipeline returns. *)
FinishRun ==
  /\ MainFlowAt("reported")
  /\ stages' = stages \cup {"reporter"}
  /\ MemoryIsLost
  /\ UNCHANGED <<history, callLogs, row, rejections, criticReport, verifierReport,
                 dataPoints, manifest, report>>

-----------------------------------------------------------------------------
(* What goes wrong. *)

OneMoreFault ==
  faults < MaxFaults /\ faults' = faults + 1 /\ UNCHANGED prepares

AtGather == pc \in {"executing", "reviewing", "verifying"}

(* A call or a commit of the main flow raises. *)
MainFails ==
  /\ OneMoreFault
  /\ pc # "down" /\ exception = "none" /\ ~AtGather
  /\ exception' = "raised"
  /\ UNCHANGED <<audit, pc, answer, done, accepted, decision>>

InGather == CASE pc = "executing" -> Candidate
              [] pc = "reviewing" -> Canonical(accepted)
              [] OTHER -> accepted
SameTask(c, d) == IF pc = "executing" THEN TaskOf(c) = TaskOf(d)
                                      ELSE ChunkOf[c] = ChunkOf[d]

(* A call or a commit of one task raises, or the loop over a batch meets a *)
(* candidate without a verdict: that task is over.  gather has no          *)
(* return_exceptions, so the pipeline fails while the other tasks write on *)
(* until the store is closed.                                              *)
TaskFails(c) ==
  /\ OneMoreFault
  /\ AtGather /\ exception = "none"
  /\ c \in InGather \ done
  /\ exception' = "raised"
  /\ answer' = [d \in Candidate |-> IF SameTask(c, d) THEN "stopped"
                                                      ELSE answer[d]]
  /\ done' = done \cup {d \in InGather : SameTask(c, d)}
  /\ UNCHANGED <<audit, pc, accepted, decision>>

(* The except clause: mark_run_failed, from the manifest in memory. *)
MarkRunFailed ==
  /\ exception = "raised"
  /\ manifest' = [status |-> "failed", output |-> {}]
  /\ exception' = "marked"
  /\ UNCHANGED <<history, callLogs, row, rejections, criticReport, verifierReport,
                 dataPoints, stages, report, pc, answer, done, accepted, decision>>

(* The store is closed and the exception leaves the pipeline. *)
Close ==
  /\ exception = "marked"
  /\ MemoryIsLost
  /\ UNCHANGED durable

Crash ==
  /\ OneMoreFault
  /\ pc # "down"
  /\ MemoryIsLost
  /\ UNCHANGED audit

-----------------------------------------------------------------------------
(* What the operator does. *)

IsFailedRun == manifest.status = "failed"  \* variant: not a run that crashed
IsResumable == manifest.status # "completed"

Resume ==
  /\ pc = "down"
  /\ IsResumable
  /\ manifest' = [manifest EXCEPT !.status = "running"]
  /\ Goto("executor")
  /\ UNCHANGED <<history, callLogs, row, rejections, criticReport, verifierReport,
                 dataPoints, stages, report,
                 exception, answer, done, accepted, decision>>

StageOrder == [executor |-> 1, dedup |-> 2, critic |-> 3, verifier |-> 4,
               reconciler |-> 5, reporter |-> 6]
OnlyStage(first) == {first}  \* variant: later stages keep their rows
StagesFrom(first) == {s \in StageNames : StageOrder[s] >= StageOrder[first]}

(* _delete_partial_rows and _reset_manifest_for_resume, one transaction;   *)
(* on a completed run with --allow-completed.  The report file stays.      *)
PrepareResume(first) ==
  LET cleared == StagesFrom(first) IN
  /\ pc = "down"
  /\ prepares < MaxPrepares /\ prepares' = prepares + 1
  /\ callLogs' = IF "executor" \in cleared THEN {} ELSE callLogs
  /\ row' = IF "executor" \in cleared THEN [c \in Candidate |-> "absent"] ELSE row
  /\ criticReport' = IF "critic" \in cleared THEN NoReports ELSE criticReport
  /\ verifierReport' = IF "verifier" \in cleared THEN NoReports ELSE verifierReport
  /\ dataPoints' = {}
  /\ rejections' = {r \in rejections : r[2] \notin cleared}
  /\ stages' = stages \ cleared
  /\ manifest' = IF manifest.status = "completed"
                 THEN [status |-> "failed", output |-> {}] ELSE manifest
  /\ UNCHANGED <<report, faults, memory>>

-----------------------------------------------------------------------------
MainStep ==
  \/ ExecutorMain \/ CriticMain \/ VerifierMain \/ ReconcilerMain
  \/ StageEnds \/ WriteReportFile \/ CompleteManifest \/ FinishRun
  \/ MarkRunFailed \/ Close
TaskStep == ExecutorTasks \/ CriticTasks \/ VerifierTasks
ProcessStep == MainStep \/ TaskStep

Fault == MainFails \/ (\E c \in Candidate : TaskFails(c)) \/ Crash

Operator == Resume \/ \E first \in RejectionStages : PrepareResume(first)

Next == ProcessStep \/ Fault \/ Operator

(* asyncio runs every task that is ready and the LLM client's calls have   *)
(* timeouts, so a process that is up takes its next step; the operator     *)
(* resumes a run that is not completed.                                    *)
Fairness == WF_vars(ProcessStep) /\ WF_vars(Resume)

Spec == Init /\ [][Next]_vars /\ Fairness

-----------------------------------------------------------------------------
(* Properties. *)

TypeOK ==
  /\ callLogs \subseteq Lens \X Chunk
  /\ row \in [Candidate -> Row]
  /\ rejections \subseteq Candidate \X RejectionStages
  /\ criticReport \in [Candidate -> ReportRow]
  /\ verifierReport \in [Candidate -> ReportRow]
  /\ dataPoints \subseteq DataPoint
  /\ stages \subseteq StageNames
  /\ manifest \in Manifests
  /\ report \in Reports
  /\ pc \in PcValues
  /\ exception \in {"none", "raised", "marked"}
  /\ answer \in [Candidate -> Answers]
  /\ done \subseteq Candidate
  /\ accepted \subseteq Candidate
  /\ decision \in Decisions
  /\ faults \in Nat /\ prepares \in Nat

(* Every contributor of a stored data point is a recorded candidate with   *)
(* an accepting critic report and an accepting verifier report, and no     *)
(* stage before the reconciler but dedup has a rejection of it: whatever   *)
(* was lost, redone or cleared on the way (README "no invented value").    *)
DataPointsAreReviewed ==
  \A c \in UNION dataPoints :
    /\ row[c] # "absent"
    /\ criticReport[c] = "accepted" /\ verifierReport[c] = "accepted"
    /\ c \notin RejectedAt("executor") \cup RejectedAt("critic")
                                       \cup RejectedAt("verifier")

(* In a completed run every recorded candidate is accounted for: it        *)
(* contributes to a data point of the output, it has a rejection, or a     *)
(* report that rejects it.                                                 *)
CompletedAccountsForAll ==
  manifest.status = "completed" =>
    \A c \in Recorded :
      \/ c \in UNION manifest.output
      \/ \E s \in RejectionStages : <<c, s>> \in rejections
      \/ criticReport[c] = "rejected" \/ verifierReport[c] = "rejected"

(* A completed manifest, the data point table and the report file say the  *)
(* same, through crashes between the three writes and through reruns.      *)
CompletedReportIsFaithful ==
  manifest.status = "completed" =>
    /\ report.written
    /\ report.points = dataPoints /\ manifest.output = dataPoints

(* No two data points of a run share a contributor. *)
DataPointsAreDisjoint ==
  \A p, q \in dataPoints : p # q => p \cap q = {}

(* The input checks of the verifier and the reporter, and the checks for   *)
(* reports about unknown candidates, are never what stops a resume.        *)
InputChecksHold ==
  /\ MainFlowAt("critic") => ~ReviewIsOrphaned
  /\ MainFlowAt("verifier") => VerifierInputIsValid /\ ~VerificationIsOrphaned
  /\ MainFlowAt("reconciler") => ReconcilerInputIsValid
  /\ MainFlowAt("reporting") => ReportInputIsValid

RowsOf(stage) ==
  CASE stage = "executor" -> <<row, callLogs, RejectedAt("executor")>>
    [] stage = "dedup" -> RejectedAt("dedup")
    [] stage = "critic" -> <<criticReport, RejectedAt("critic")>>
    [] stage = "verifier" -> <<verifierReport, RejectedAt("verifier")>>
    [] stage = "reconciler" -> <<dataPoints, RejectedAt("reconciler")>>
    [] stage = "reporter" -> <<report, manifest.output>>

(* The rows of a stage whose completion is recorded never change while it  *)
(* stays recorded: a rerun reuses them, and no task of an earlier gather   *)
(* is still writing.                                                       *)
RecordedStagesAreFrozen ==
  [][\A s \in StageNames \ {"reporter"} :
       s \in stages \cap stages' => RowsOf(s)' = RowsOf(s)]_vars

(* The output of a stage that later stages build on is not cleared from    *)
(* under them: a report is only there while the row it is about is.        *)
ReportsHaveRows ==
  \A c \in Candidate :
    /\ criticReport[c] # "none" => row[c] # "absent"
    /\ verifierReport[c] # "none" => criticReport[c] = "accepted"

(* Why a resume can be refused for ever: the output of a stage stopped     *)
(* half way, or a row that the executor meant to reject.                   *)
Executed == ExecutionFromAudit
CriticAccepted == {c \in Executed : criticReport[c] = "accepted"}
VerifierAccepted == {c \in CriticAccepted : verifierReport[c] = "accepted"}
Partial(expected, accounted) ==
  expected \cap accounted # {} /\ ~(expected \subseteq accounted)
StuckAtCritic ==
  \/ Partial(Canonical(Executed), Reported \cup RejectedAt("critic"))
  \/ /\ Canonical(Executed) \cap (Reported \cup RejectedAt("critic")) = {}
     /\ \E c \in Canonical(Executed) : row[c] = "malformed"
StuckAtVerifier ==
  Partial(CriticAccepted, Verified \cup RejectedAt("verifier"))
StuckAtReconciler ==
  Partial(VerifierAccepted, (UNION dataPoints) \cup RejectedAt("reconciler"))
Stuck == StuckAtCritic \/ StuckAtVerifier \/ StuckAtReconciler

(* A resumed process raises without a new fault only where the audit       *)
(* store holds half of a stage's output or a row left without rejection.   *)
RefusedOnlyIfStuck ==
  [][exception = "none" /\ exception' = "raised" /\ faults' = faults => Stuck]_vars

(* With finitely many faults the run completes in the end, unless it is    *)
(* stuck for ever in a half written stage.                                 *)
CompletesOrStuck == <>[](manifest.status = "completed") \/ <>[]Stuck

-----------------------------------------------------------------------------
(* What the documents say and the code does not do. *)

(* README.md: no silent drops, a rejected candidate is logged with its     *)
(* reason; system-flow-review.md: if the span is repeated or absent, the   *)
(* executor records a rejection.  So none of them reaches the output.      *)
RejectedRowsStayOut ==
  \A c \in UNION dataPoints : row[c] \notin RejectedRow
==============================================================================
