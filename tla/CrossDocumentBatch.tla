------------------------- MODULE CrossDocumentBatch -------------------------
(***************************************************************************)
(* run_cross_document_reconciliation_batch: one extraction run for each    *)
(* source, then the reconciliation of their data points, its record and    *)
(* its report.  Several batches may be started under one cross-document    *)
(* run id and output path, one after the other or at once, each with runs  *)
(* of its own; and the operator may prepare a run that completed for a     *)
(* resume, which deletes its data points.                                  *)
(*                                                                         *)
(* Bounds: a batch is started once; an extraction run is one step          *)
(* (RunLifecycle and CandidateFlow have its parts); MaxReopened limits the *)
(* uses of the script; all runs use one schema.                            *)
(***************************************************************************)
EXTENDS FactGroups, Naturals, Sequences

CONSTANTS Batch, SourceCount, MaxReopened

ASSUME BatchAssumption ==
  SourceCount \in Nat \ {0, 1} /\ MaxReopened \in Nat

Source == 1 .. SourceCount
Run == Batch \X Source
Point == [run : Run, doc : Doc, claim : Claim]
TheSchema == [r \in Run |-> "schema"]

VARIABLES
  docOf,       \* the document of each source file, by content
  runs,        \* the outcome of each run
  dataPoints,  \* data_points
  manifest,    \* the row of cross_document_run_manifests
  recorded,    \* the row of cross_document_results
  report,      \* the report at the output path
  pc,
  next,        \* the source a batch has reached
  results,     \* input_results: the data points of its runs, in memory
  computed,    \* reconciliation, in memory
  reopened

stored == <<docOf, dataPoints, manifest, recorded, report>>
vars == <<stored, runs, pc, next, results, computed, reopened>>

NoManifest == [status |-> "none"]
Nothing == {}
Mine(b, status, groups) == [status |-> status, by |-> b, groups |-> groups]

Init ==
  /\ docOf \in [Source -> Doc]
  /\ runs = [r \in Run |-> "none"]
  /\ dataPoints = {}
  /\ manifest = NoManifest
  /\ recorded = Nothing /\ report = Nothing
  /\ pc = [b \in Batch |-> "inputs"]
  /\ next = [b \in Batch |-> 1]
  /\ results = [b \in Batch |-> {}]
  /\ computed = [b \in Batch |-> Nothing]
  /\ reopened = 0

Move(b, from, to) == pc[b] = from /\ pc' = [pc EXCEPT ![b] = to]

-----------------------------------------------------------------------------
(* _run_single_document_inputs, one run after the other *)

InputCompletes(b) ==
  /\ pc[b] = "inputs" /\ next[b] <= SourceCount
  /\ \E claims \in SUBSET Claim :
       LET run == <<b, next[b]>>
           points == {[run |-> run, doc |-> docOf[next[b]], claim |-> c] : c \in claims}
       IN  /\ runs' = [runs EXCEPT ![run] = "completed"]
           /\ dataPoints' = dataPoints \cup points
           /\ results' = [results EXCEPT ![b] = @ \cup points]
  /\ next' = [next EXCEPT ![b] = @ + 1]
  /\ UNCHANGED <<docOf, manifest, recorded, report, pc, computed, reopened>>

(* A run that refuses or fails stops the batch; nothing is recorded of it. *)
InputStops(b) ==
  /\ Move(b, "inputs", "done")
  /\ next[b] <= SourceCount
  /\ runs' = [runs EXCEPT ![<<b, next[b]>>] = "stopped"]
  /\ UNCHANGED <<stored, next, results, computed, reopened>>

AnyDocuments == TRUE  \* variant: the same document is reconciled with itself
DocumentsAreDistinct == \A i, j \in Source : docOf[i] = docOf[j] => i = j

ValidateDistinctDocuments(b) ==
  /\ Move(b, "inputs", IF DocumentsAreDistinct THEN "record" ELSE "done")
  /\ next[b] > SourceCount
  /\ UNCHANGED <<stored, runs, next, results, computed, reopened>>

-----------------------------------------------------------------------------
(* The insert of the manifest decides between batches of one id.  The one  *)
(* that finds the id taken raises, outside of the try statement.           *)
IdIsFree == manifest = NoManifest

RecordManifest(b) ==
  /\ Move(b, "record", IF IdIsFree THEN "reconcile" ELSE "done")
  /\ manifest' = IF IdIsFree THEN Mine(b, "running", {}) ELSE manifest
  /\ UNCHANGED <<docOf, dataPoints, recorded, report, runs, next, results,
                 computed, reopened>>

Reconcile(b) ==
  /\ Move(b, "reconcile", "result")
  /\ computed' = [computed EXCEPT ![b] = FactGroups(results[b], TheSchema)]
  /\ UNCHANGED <<stored, runs, next, results, reopened>>

RecordResult(b) ==
  /\ Move(b, "result", "report")
  /\ recorded' = computed[b]
  /\ UNCHANGED <<docOf, dataPoints, manifest, report, runs, next, results,
                 computed, reopened>>

(* write_cross_document_report: the stored rows are as the batch left      *)
(* them; the file is replaced, then the manifest is completed.             *)
StoreIsAsLeft(b) == manifest = Mine(b, "running", {}) /\ recorded = computed[b]

WriteReport(b) ==
  /\ Move(b, "report", "complete")
  /\ StoreIsAsLeft(b)
  /\ report' = computed[b]
  /\ UNCHANGED <<docOf, dataPoints, manifest, recorded, runs, next, results,
                 computed, reopened>>

CompleteManifest(b) ==
  /\ Move(b, "complete", "done")
  /\ manifest' = Mine(b, "completed", computed[b])
  /\ UNCHANGED <<docOf, dataPoints, recorded, report, runs, next, results,
                 computed, reopened>>

-----------------------------------------------------------------------------
(* An exception inside of the try statement marks the manifest as failed;  *)
(* one outside of it, and a crash, end the batch as it is.                 *)
InsertToo ==  \* variant: the insert of the manifest inside of the try
  {"record", "reconcile", "result", "report", "complete"}
Guarded == {"reconcile", "result", "report", "complete"}

Raise(b) ==
  /\ pc[b] \in Guarded
  /\ pc' = [pc EXCEPT ![b] = "failing"]
  /\ UNCHANGED <<stored, runs, next, results, computed, reopened>>

MarkFailed(b) ==
  /\ Move(b, "failing", "done")
  /\ manifest' = Mine(b, "failed", {})
  /\ UNCHANGED <<docOf, dataPoints, recorded, report, runs, next, results,
                 computed, reopened>>

Crash(b) ==
  /\ pc[b] # "done"
  /\ pc' = [pc EXCEPT ![b] = "done"]
  /\ UNCHANGED <<stored, runs, next, results, computed, reopened>>

(* The script with --allow-completed, on a run of any batch.               *)
PrepareResume(r) ==
  /\ reopened < MaxReopened /\ reopened' = reopened + 1
  /\ runs[r] = "completed"
  /\ runs' = [runs EXCEPT ![r] = "stopped"]
  /\ dataPoints' = {p \in dataPoints : p.run # r}
  /\ UNCHANGED <<docOf, manifest, recorded, report, pc, next, results, computed>>

-----------------------------------------------------------------------------
Step(b) ==
  \/ InputCompletes(b) \/ InputStops(b) \/ ValidateDistinctDocuments(b)
  \/ RecordManifest(b) \/ Reconcile(b) \/ RecordResult(b)
  \/ WriteReport(b) \/ CompleteManifest(b) \/ MarkFailed(b)

Fault(b) == Raise(b) \/ Crash(b)

Next ==
  \/ \E b \in Batch : Step(b) \/ Fault(b)
  \/ \E r \in Run : PrepareResume(r)

Spec == Init /\ [][Next]_vars

-----------------------------------------------------------------------------
(* Properties. *)

Groups == [schema : {"schema"}, claim : Claim, sources : SUBSET Point]

TypeOK ==
  /\ docOf \in [Source -> Doc]
  /\ runs \in [Run -> {"none", "completed", "stopped"}]
  /\ dataPoints \in SUBSET Point
  /\ manifest \in {NoManifest} \cup
       [status : {"running", "completed", "failed"}, by : Batch, groups : SUBSET Groups]
  /\ recorded \in SUBSET Groups /\ report \in SUBSET Groups
  /\ pc \in [Batch -> Guarded \cup {"inputs", "record", "failing", "done"}]
  /\ next \in [Batch -> 1 .. SourceCount + 1]
  /\ results \in [Batch -> SUBSET Point]
  /\ computed \in [Batch -> SUBSET Groups]
  /\ reopened \in Nat

(* What a completed cross-document run shows is one batch's work: the      *)
(* manifest, the stored result and the report file agree, over documents   *)
(* that differ and all the data points its runs returned.  Each of these   *)
(* is in the audit store, unless the script has since cleared its run.     *)
CompletedBatchIsFaithful ==
  manifest.status = "completed" =>
    /\ report = manifest.groups /\ recorded = manifest.groups
    /\ \A i, j \in Source : i # j => docOf[i] # docOf[j]
    /\ UNION {g.sources : g \in manifest.groups} = results[manifest.by]
    /\ \A g \in manifest.groups : \A p \in g.sources :
         p.claim = g.claim /\ (p \in dataPoints \/ runs[p.run] = "stopped")

(* Another batch under the same id neither takes over nor revokes what is  *)
(* recorded: only the batch that inserted the manifest goes on with it.    *)
OneBatchOwnsTheRun ==
  [][manifest # NoManifest =>
       /\ manifest'.by = manifest.by
       /\ manifest.status = "completed" => UNCHANGED <<manifest, recorded, report>>]_vars

-----------------------------------------------------------------------------
(* The inductive invariant. *)

AtOrPast(b, points) == pc[b] \in points

(* Between the insert of the manifest and its last update the manifest is  *)
(* the batch's own, and what the batch computed is what it has stored.     *)
OwnerInv(b) ==
  /\ AtOrPast(b, Guarded \cup {"failing"}) => manifest = Mine(b, "running", {})
  /\ AtOrPast(b, Guarded \cup {"record"}) => DocumentsAreDistinct
  /\ AtOrPast(b, {"result", "report", "complete"})
       => computed[b] = FactGroups(results[b], TheSchema)
  /\ AtOrPast(b, {"report", "complete"}) => recorded = computed[b]
  /\ AtOrPast(b, {"complete"}) => report = computed[b]

(* A manifest that is settled has no batch that could still write it.      *)
CompletedInv ==
  manifest.status = "completed" =>
    /\ manifest.by \in Batch /\ pc[manifest.by] = "done"
    /\ manifest.groups = FactGroups(results[manifest.by], TheSchema)
    /\ report = manifest.groups /\ recorded = manifest.groups
    /\ DocumentsAreDistinct

(* What a batch holds in memory was stored by its runs so far.             *)
StoredInv(b) ==
  \A p \in results[b] :
    /\ p.run[1] = b /\ p.run[2] < next[b]
    /\ p \in dataPoints \/ runs[p.run] = "stopped"

BatchInv == CompletedInv /\ \A b \in Batch : OwnerInv(b)
=============================================================================
