--------------------------- MODULE CandidateTables ---------------------------
(***************************************************************************)
(* The audit tables of one extraction run, from the executor to the        *)
(* reporter, and the memory of the process that is working on the run.     *)
(*                                                                         *)
(* A row that the store has committed survives a crash; what the process   *)
(* holds in memory does not.  Every write of AuditStore commits on its own *)
(* (audit/base.py, _insert_payload), so a crash falls between any two of   *)
(* them.  The plan and the chunks of the run exist already: RunLifecycle   *)
(* models how they come about.                                             *)
(***************************************************************************)
EXTENDS Naturals

CONSTANTS
  Candidate,    \* candidate ids; primaries are chosen by their order
  Lens,         \* plan.enabled_lenses
  Chunk,        \* the chunks of the document
  LensOf,       \* the lens that proposes a candidate
  ChunkOf,      \* the chunk a candidate is proposed from
  IdentityOf    \* the dedup identity of a candidate (executor/dedup.py)

ASSUME CandidateAssumption ==
  /\ Candidate \subseteq Nat
  /\ LensOf \in [Candidate -> Lens]
  /\ ChunkOf \in [Candidate -> Chunk]
  \* every executor task may propose something, and may as well propose nothing
  /\ \A lens \in Lens, chunk \in Chunk :
       \E c \in Candidate : LensOf[c] = lens /\ ChunkOf[c] = chunk

VARIABLES
  \* ---- durable: the SQLite tables and the report file
  callLogs,        \* llm_call_logs of the executor: the tasks that have one
  row,             \* lens_candidates: the content of each row, or "absent"
  rejections,      \* candidate_rejections: <<candidate, stage>> pairs
  criticReport,    \* critic_reports
  verifierReport,  \* verifier_reports
  dataPoints,      \* data_points: the set of contributors of each
  stages,          \* run_stage_states
  manifest,        \* run_manifests: status and output_data_point_ids
  report,          \* the report file: NoReport, or the data points in it
  \* ---- volatile: the process
  pc,              \* where run_extraction_pipeline is
  exception,       \* "none", "raised" or "marked" (manifest set to failed)
  answer,          \* the stage's LLM answer about each candidate
  done,            \* the candidates whose batch loop iteration is over
  accepted,        \* the candidates the last finished stage handed on
  decision,        \* the reconciler's data points and rejections
  \* ---- history, for the bounds on a behaviour
  faults,          \* the crashes and raised exceptions so far
  prepares         \* the uses of the operator's script so far

audit == <<callLogs, row, rejections, criticReport, verifierReport,
           dataPoints, stages, manifest, report>>
memory == <<pc, exception, answer, done, accepted, decision>>
history == <<faults, prepares>>
durable == <<audit, history>>
vars == <<audit, memory, history>>

(* A row that the executor rejects is either "malformed", which whoever    *)
(* reads it again can tell (a category, a field or a span that does not    *)
(* match), or "ambiguous", which only the resolution of its source text    *)
(* knew (invalid_source_offsets, ambiguous_source_span).                   *)
RowContent == {"sound", "malformed", "ambiguous"}
Row == RowContent \cup {"absent"}
RejectedRow == {"malformed", "ambiguous"}
ReportRow == {"none", "accepted", "rejected"}

StageNames ==
  {"executor", "dedup", "critic", "verifier", "reconciler", "reporter"}
RejectionStages == {"executor", "dedup", "critic", "verifier", "reconciler"}

DataPoint == SUBSET Candidate      \* a data point, named by its contributors

NoReport == [written |-> FALSE, points |-> {}]
Reports == [written : BOOLEAN, points : SUBSET DataPoint]
Manifests == [status : {"running", "failed", "completed"},
              output : SUBSET DataPoint]

NoDecision == [points |-> {}, rejected |-> {}]
Decisions == [points : SUBSET DataPoint, rejected : SUBSET Candidate]

Answers == {"pending", "missing", "accept", "reject", "stopped"} \cup RowContent
NoAnswer == [c \in Candidate |-> "pending"]
NoReports == [c \in Candidate |-> "none"]

(* The process is at one of these points; "down" means no process runs.    *)
PcValues ==
  {"down", "executor", "executing", "executed", "deduping", "critic",
   "reviewing", "mirroring", "reviewed", "verifier", "verifying", "verified",
   "reconciler", "recording", "reconciled", "reporting", "written",
   "reported"}

Recorded == {c \in Candidate : row[c] # "absent"}
RejectedAt(stage) == {c \in Candidate : <<c, stage>> \in rejections}

(* deduplicate_candidates: in each identity group the least id is kept,    *)
(* the others are merged into it.                                          *)
SameIdentity(c, d) == IdentityOf[c] = IdentityOf[d]
Canonical(A) == {c \in A : \A d \in A : SameIdentity(c, d) => c <= d}
Merged(A) == A \ Canonical(A)
Primary(d, A) == CHOOSE c \in Canonical(A) : SameIdentity(c, d)

(* The accepted column of a report. *)
ReportOf(verdict) == IF verdict = "accept" THEN "accepted" ELSE "rejected"

(* The main flow of the pipeline takes a step only while no exception has  *)
(* been raised; the tasks that asyncio.gather started go on regardless.    *)
MainFlowAt(point) == pc = point /\ exception = "none"

Goto(point) == pc' = point
==============================================================================
