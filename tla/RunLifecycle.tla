---------------------------- MODULE RunLifecycle ----------------------------
(***************************************************************************)
(* The life of extraction runs over one document: start_or_resume_run, the *)
(* chunks, plan_or_refuse, the refusal report, the report, and how a run   *)
(* fails, crashes, is resumed and is prepared for a resume.  The stages    *)
(* from the executor to the reconciler are one step here (CandidateFlow    *)
(* has them).  Runs share the document and its chunks, which are keyed by  *)
(* the document, and nothing else.                                         *)
(*                                                                         *)
(* Bounds: one process works on a run at a time; every run uses the same   *)
(* source file and the same configuration; MaxFaults limits crashes and    *)
(* exceptions, MaxPrepares the uses of the script.                         *)
(***************************************************************************)
EXTENDS Naturals

CONSTANTS Run, ChunkCount, MaxFaults, MaxPrepares

ASSUME LifecycleAssumption ==
  ChunkCount \in Nat \ {0} /\ MaxFaults \in Nat /\ MaxPrepares \in Nat

VARIABLES
  \* ---- durable, of the document
  document,    \* is the document stored
  chunks,      \* how many chunks are stored, a prefix of the document's
  \* ---- durable, of each run
  manifest,    \* status, "none" before the manifest is recorded
  stages,      \* run_stage_states
  refusal,     \* does the planner's stage state hold a refusal
  plan,        \* is there an extraction plan
  covered,     \* how many chunks the executor worked on
  report,      \* what lies at the output path
  \* ---- volatile, of the process of each run
  pc,
  owns,        \* is running_manifest set, for the except clause
  used,        \* how many chunks it has read or written
  \* ---- history
  faults, prepares

tables == <<document, chunks, manifest, stages, refusal, plan, covered, report>>
process == <<pc, owns, used>>
history == <<faults, prepares>>
vars == <<tables, process, history>>

Terminal == {"completed", "refused"}
Stages == {"ingestion", "chunker", "planner", "extraction", "reporter"}
PcValues ==
  {"idle", "ingest", "create", "takeover", "ingested", "chunker", "chunking",
   "chunked", "planner", "refused", "refusalWritten", "refusalReported",
   "planned", "extracting", "extracted", "written", "reported",
   "failing"}

Init ==
  /\ document = FALSE /\ chunks = 0
  /\ manifest = [r \in Run |-> "none"]
  /\ stages = [r \in Run |-> {}]
  /\ refusal = [r \in Run |-> FALSE]
  /\ plan = [r \in Run |-> FALSE]
  /\ covered = [r \in Run |-> 0]
  /\ report = [r \in Run |-> "none"]
  /\ pc = [r \in Run |-> "idle"]
  /\ owns = [r \in Run |-> FALSE]
  /\ used = [r \in Run |-> 0]
  /\ faults = 0 /\ prepares = 0

Move(r, from, to) == pc[r] = from /\ pc' = [pc EXCEPT ![r] = to]

ProcessEnds(r) ==
  /\ pc' = [pc EXCEPT ![r] = "idle"]
  /\ owns' = [owns EXCEPT ![r] = FALSE]
  /\ used' = [used EXCEPT ![r] = 0]

-----------------------------------------------------------------------------
(* start_or_resume_run *)

StartNew(r) ==
  /\ Move(r, "idle", "ingest")
  /\ manifest[r] = "none"
  /\ UNCHANGED <<tables, owns, used, history>>

(* ingest_document stores the document, the same row every time. *)
Ingest(r) ==
  /\ Move(r, "ingest", "create")
  /\ document' = TRUE
  /\ UNCHANGED <<chunks, manifest, stages, refusal, plan, covered, report,
                 owns, used, history>>

CreateManifest(r) ==
  /\ Move(r, "create", "takeover")
  /\ manifest' = [manifest EXCEPT ![r] = "created"]
  /\ owns' = [owns EXCEPT ![r] = TRUE]
  /\ UNCHANGED <<document, chunks, stages, refusal, plan, covered, report,
                 used, history>>

ResumableFailed == {"failed"}  \* variant: not a run that crashed
Resumable == {"created", "running", "failed"}

(* load_resume_document finds the stored document, or stores it again. *)
StartResume(r) ==
  /\ Move(r, "idle", "takeover")
  /\ manifest[r] \in Resumable
  /\ document' = TRUE
  /\ owns' = [owns EXCEPT ![r] = TRUE]
  /\ UNCHANGED <<chunks, manifest, stages, refusal, plan, covered, report,
                 used, history>>

Takeover(r) ==
  /\ Move(r, "takeover", "ingested")
  /\ manifest' = [manifest EXCEPT ![r] = "running"]
  /\ UNCHANGED <<document, chunks, stages, refusal, plan, covered, report,
                 owns, used, history>>

EnsureStageCompleted(r, stage, from, to) ==
  /\ Move(r, from, to)
  /\ stages' = [stages EXCEPT ![r] = @ \cup {stage}]
  /\ UNCHANGED <<document, chunks, manifest, refusal, plan, covered, report,
                 owns, used, history>>

-----------------------------------------------------------------------------
(* The chunks: whatever is stored of them is taken to be all of them. *)

ReuseChunks(r) ==
  /\ Move(r, "chunker", "chunked")
  /\ chunks > 0
  /\ used' = [used EXCEPT ![r] = chunks]
  /\ UNCHANGED <<tables, owns, history>>

StartChunking(r) ==
  /\ Move(r, "chunker", "chunking")
  /\ chunks = 0 /\ "chunker" \notin stages[r]
  /\ UNCHANGED <<tables, owns, used, history>>

(* One commit for each chunk; a chunk that another run stored is the same. *)
ChunksLeft(r) == used[r] < ChunkCount

ChunksWith(n) == IF n > chunks THEN n ELSE chunks

RecordChunk(r) ==
  /\ pc[r] = "chunking" /\ ChunksLeft(r)
  /\ used' = [used EXCEPT ![r] = @ + 1]
  /\ chunks' = ChunksWith(used[r] + 1)
  /\ UNCHANGED <<document, manifest, stages, refusal, plan, covered, report,
                 pc, owns, history>>

FinishChunking(r) ==
  /\ Move(r, "chunking", "chunked")
  /\ ~ChunksLeft(r)
  /\ UNCHANGED <<tables, owns, used, history>>

-----------------------------------------------------------------------------
(* plan_or_refuse and complete_planner_refusal *)

PlannerIsSettled(r) == "planner" \in stages[r]
PlannerIsForgotten(r) == FALSE  \* variant: a recorded refusal is planned again
PlannerBlocks(r) == ~plan[r] /\ PlannerIsSettled(r)

ReusePlan(r) ==
  /\ Move(r, "planner", "planned")
  /\ plan[r]
  /\ UNCHANGED <<tables, owns, used, history>>

(* Cannot resume: the planner refused, or its plan is gone. *)
PlanIsRefused(r) ==
  /\ Move(r, "planner", "failing")
  /\ PlannerBlocks(r)
  /\ UNCHANGED <<tables, owns, used, history>>

PlannerApproves(r) ==
  /\ Move(r, "planner", "planned")
  /\ ~plan[r] /\ ~PlannerBlocks(r)
  /\ plan' = [plan EXCEPT ![r] = TRUE]
  /\ UNCHANGED <<document, chunks, manifest, stages, refusal, covered, report,
                 owns, used, history>>

(* PlanningRefusalError, and the stage state that records it. *)
PlannerRefuses(r) ==
  /\ Move(r, "planner", "refused")
  /\ ~plan[r] /\ ~PlannerBlocks(r)
  /\ stages' = [stages EXCEPT ![r] = @ \cup {"planner"}]
  /\ refusal' = [refusal EXCEPT ![r] = TRUE]
  /\ UNCHANGED <<document, chunks, manifest, plan, covered, report,
                 owns, used, history>>

(* The file is replaced before the manifest is updated. *)
RenderOnce(r, kind) == IF report[r] = "none" THEN kind ELSE report[r]  \* variant
Rendered(r, kind) == kind

WriteReportFile(r, kind, from, to) ==
  /\ Move(r, from, to)
  /\ manifest[r] = "running"
  /\ report' = [report EXCEPT ![r] = Rendered(r, kind)]
  /\ UNCHANGED <<document, chunks, manifest, stages, refusal, plan, covered,
                 owns, used, history>>

SettleManifest(r, status, from, to) ==
  /\ Move(r, from, to)
  /\ manifest' = [manifest EXCEPT ![r] = status]
  /\ UNCHANGED <<document, chunks, stages, refusal, plan, covered, report,
                 owns, used, history>>

FinishRun(r) ==
  /\ pc[r] \in {"refusalReported", "reported"}
  /\ stages' = [stages EXCEPT ![r] = @ \cup {"reporter"}]
  /\ ProcessEnds(r)
  /\ UNCHANGED <<document, chunks, manifest, refusal, plan, covered, report,
                 history>>

(* From the executor to the reconciler; a resume reuses what they stored. *)
Extract(r) ==
  /\ Move(r, "extracting", "extracted")
  /\ covered' = [covered EXCEPT ![r] = IF "extraction" \in stages[r] THEN @
                                                             ELSE used[r]]
  /\ stages' = [stages EXCEPT ![r] = @ \cup {"extraction"}]
  /\ UNCHANGED <<document, chunks, manifest, refusal, plan, report,
                 owns, used, history>>

-----------------------------------------------------------------------------
(* What goes wrong, and what the operator does. *)

OneMoreFault ==
  faults < MaxFaults /\ faults' = faults + 1 /\ UNCHANGED prepares

(* Without a running_manifest there is nothing to mark. *)
Raise(r) ==
  /\ OneMoreFault
  /\ pc[r] \notin {"idle", "failing"}
  /\ IF owns[r]
     THEN pc' = [pc EXCEPT ![r] = "failing"] /\ UNCHANGED <<owns, used>>
     ELSE ProcessEnds(r)
  /\ UNCHANGED tables

MarkRunFailed(r) ==
  /\ pc[r] = "failing"
  /\ manifest' = [manifest EXCEPT ![r] = "failed"]
  /\ ProcessEnds(r)
  /\ UNCHANGED <<document, chunks, stages, refusal, plan, covered, report,
                 history>>

Crash(r) ==
  /\ OneMoreFault
  /\ pc[r] # "idle"
  /\ ProcessEnds(r)
  /\ UNCHANGED tables

ClearedFrom(first) ==
  IF first = "planner" THEN {"planner", "extraction", "reporter"}
                       ELSE {"extraction", "reporter"}

(* _reset_manifest_for_resume.  The variant clears the rows only. *)
StatusKept(status) == status
StatusReset(status) == IF status = "completed" THEN "failed" ELSE status

(* The script refuses refused runs; --allow-completed reopens a completed. *)
PrepareResume(r, first) ==
  /\ prepares < MaxPrepares /\ prepares' = prepares + 1
  /\ pc[r] = "idle" /\ manifest[r] \notin {"none", "refused"}
  /\ manifest' = [manifest EXCEPT ![r] = StatusReset(@)]
  /\ stages' = [stages EXCEPT ![r] = @ \ ClearedFrom(first)]
  /\ plan' = [plan EXCEPT ![r] = @ /\ first # "planner"]
  /\ refusal' = [refusal EXCEPT ![r] = @ /\ first # "planner"]
  /\ covered' = [covered EXCEPT ![r] = 0]
  /\ UNCHANGED <<document, chunks, report, process, faults>>

-----------------------------------------------------------------------------
Start(r) == StartNew(r) \/ StartResume(r)

Step(r) ==
  \/ Ingest(r) \/ CreateManifest(r) \/ Takeover(r)
  \/ EnsureStageCompleted(r, "ingestion", "ingested", "chunker")
  \/ ReuseChunks(r) \/ StartChunking(r) \/ RecordChunk(r) \/ FinishChunking(r)
  \/ EnsureStageCompleted(r, "chunker", "chunked", "planner")
  \/ ReusePlan(r) \/ PlanIsRefused(r) \/ PlannerApproves(r)
  \/ PlannerRefuses(r)
  \/ WriteReportFile(r, "refused", "refused", "refusalWritten")
  \/ SettleManifest(r, "refused", "refusalWritten", "refusalReported")
  \/ EnsureStageCompleted(r, "planner", "planned", "extracting")
  \/ Extract(r)
  \/ WriteReportFile(r, "completed", "extracted", "written")
  \/ SettleManifest(r, "completed", "written", "reported")
  \/ FinishRun(r) \/ MarkRunFailed(r)

Fault(r) == Raise(r) \/ Crash(r)

Next == \E r \in Run :
  \/ Start(r) \/ Step(r) \/ Fault(r)
  \/ \E first \in {"planner", "executor"} : PrepareResume(r, first)

(* A process that is up goes on, and the operator starts and resumes.      *)
Fairness == \A r \in Run : WF_vars(Step(r)) /\ WF_vars(Start(r))

Spec == Init /\ [][Next]_vars /\ Fairness

-----------------------------------------------------------------------------
(* Properties. *)

TypeOK ==
  /\ document \in BOOLEAN /\ chunks \in 0 .. ChunkCount
  /\ manifest \in [Run -> Terminal \cup {"none", "created", "running", "failed"}]
  /\ stages \in [Run -> SUBSET Stages]
  /\ refusal \in [Run -> BOOLEAN] /\ plan \in [Run -> BOOLEAN]
  /\ covered \in [Run -> 0 .. ChunkCount]
  /\ report \in [Run -> Terminal \cup {"none"}]
  /\ pc \in [Run -> PcValues]
  /\ owns \in [Run -> BOOLEAN]
  /\ used \in [Run -> 0 .. ChunkCount]
  /\ faults \in Nat /\ prepares \in Nat

(* A run whose planner refused has no plan and extracts nothing, also when *)
(* it fails in the middle of the refusal and is resumed (phase 27: resume  *)
(* does not continue a refusal as though it were an incomplete run).       *)
RefusedRunsExtractNothing ==
  \A r \in Run : refusal[r] =>
    /\ ~plan[r] /\ covered[r] = 0 /\ "extraction" \notin stages[r]
    /\ manifest[r] # "completed"

(* The stored state tells success, refusal and failure apart: the manifest,*)
(* the stage states and the report agree in a settled run.                 *)
SettledRunsAreConsistent ==
  \A r \in Run :
    /\ manifest[r] = "completed" =>
         /\ report[r] = "completed" /\ plan[r] /\ ~refusal[r]
         /\ {"planner", "extraction"} \subseteq stages[r] /\ covered[r] > 0
    /\ manifest[r] = "refused" => report[r] = "refused" /\ refusal[r]

(* The chunks a process works with are stored and stay stored; a chunker   *)
(* that is recorded as complete has left some (what the resume relies on). *)
ChunksStayStored ==
  /\ \A r \in Run : used[r] <= chunks /\ covered[r] <= chunks
  /\ \A r \in Run : "chunker" \in stages[r] => chunks > 0 /\ document

(* A run is not blocked by another: without a fault of its own, its        *)
(* process is only refused where its planner has refused.                  *)
BlockedOnlyByRefusal ==
  [][\A r \in Run : pc[r] # "failing" /\ pc'[r] = "failing" /\ faults' = faults
                      => refusal[r]]_vars

(* With finitely many faults every run settles, or its planner's refusal   *)
(* stays recorded and blocks it.                                           *)
SettlesOrIsBlocked ==
  \A r \in Run : <>[](manifest[r] \in Terminal) \/ <>[](refusal[r])

Status == INSTANCE RunStatus WITH
  outcome <- [r \in Run |-> IF manifest[r] \in Terminal THEN manifest[r]
                                                        ELSE "open"],
  published <- report

(* The lifecycle implements RunStatus: a run settles only on a published   *)
(* report of the same kind.                                                *)
ImplementsRunStatus == Status!StatusSpec

-----------------------------------------------------------------------------
(* The inductive invariant: what the tables and the points of a process    *)
(* say about each other.                                                   *)

Past(r, points) == pc[r] \in points
AfterPlan == {"planned", "extracting", "extracted", "written", "reported"}
WithChunks == {"chunked", "planner", "refused", "planned", "extracting"}

(* A stored chunk stays, and a process past the chunker has some.          *)
ChunksInv ==
  /\ ChunksStayStored
  /\ \A r \in Run :
       /\ pc[r] \notin {"idle", "ingest", "failing"} => document
       /\ Past(r, WithChunks) => used[r] > 0
       /\ "extraction" \in stages[r] => covered[r] > 0

(* The planner is complete with a plan or with a refusal, never with both, *)
(* and nothing is extracted before it is.                                  *)
PlannerInv ==
  \A r \in Run :
    /\ refusal[r] => /\ "planner" \in stages[r] /\ ~plan[r] /\ covered[r] = 0
                     /\ "extraction" \notin stages[r]
    /\ "planner" \in stages[r] => plan[r] \/ refusal[r]
    /\ covered[r] > 0 => "extraction" \in stages[r]
    /\ "extraction" \in stages[r] => "planner" \in stages[r]
    /\ Past(r, AfterPlan) => plan[r]
    /\ Past(r, AfterPlan \ {"planned"}) => "planner" \in stages[r]
    /\ Past(r, {"refused", "refusalWritten", "refusalReported"}) => refusal[r]

(* A report is written before the manifest is settled, by the process that *)
(* settles it; afterwards that process can only end or fail.               *)
OutcomeInv ==
  \A r \in Run :
    /\ Past(r, {"extracted", "written", "reported"}) => "extraction" \in stages[r]
    /\ Past(r, {"written", "reported"}) => report[r] = "completed"
    /\ Past(r, {"refusalWritten", "refusalReported"}) => report[r] = "refused"
    /\ manifest[r] = "completed" => Past(r, {"idle", "reported", "failing"})
    /\ manifest[r] = "refused" => Past(r, {"idle", "refusalReported", "failing"})

LifecycleInv == ChunksInv /\ PlannerInv /\ OutcomeInv /\ SettledRunsAreConsistent
==============================================================================
