------------------------- MODULE CrossDocumentInputs -------------------------
(***************************************************************************)
(* reconcile_cross_document_data_points on whatever its callers hand it:   *)
(* data points whose run has no manifest, no schema or no stored document, *)
(* manifests of runs that did not complete, manifests that name data       *)
(* points nobody supplied.                                                 *)
(*                                                                         *)
(* Bounds: MaxPoints limits the data points.  A data point, a document and *)
(* a manifest is supplied once.                                            *)
(***************************************************************************)
EXTENDS FactGroups, FiniteSets, Naturals

CONSTANTS
  InputRun, Schema, PointId,
  NoSchema,    \* a run without schema metadata
  OutputsOf,   \* output_data_point_ids of the manifest of a run
  MaxPoints

ASSUME InputsAssumption ==
  /\ NoSchema \notin Schema
  /\ OutputsOf \in [InputRun -> SUBSET PointId]
  /\ MaxPoints \in Nat
  /\ \A c, d \in Claim : /\ c.field = d.field /\ c.source = d.source
                         /\ c.key = d.key
                         => c = d

VARIABLES
  supplied,    \* data_points
  documentOf,  \* the document of each run
  documents,   \* the documents supplied
  schemas,     \* schema_metadata_by_run_id
  manifests,   \* the status by run, "absent" without a manifest
  result,      \* CrossDocumentReconciliationResult
  outcome

inputs == <<supplied, documentOf, documents, schemas, manifests>>
inputsVars == <<inputs, result, outcome>>

SuppliedPoint == [id : PointId, run : InputRun, claim : Claim]
Status == {"absent", "running", "completed"}

InputsInit ==
  /\ supplied \in {ps \in SUBSET SuppliedPoint : Cardinality(ps) <= MaxPoints}
  /\ documentOf \in [InputRun -> Doc]
  /\ documents \in SUBSET Doc
  /\ schemas \in [InputRun -> Schema \cup {NoSchema}]
  /\ manifests \in [InputRun -> Status]
  /\ result = [groups |-> {}, conflicts |-> {}, skipped |-> {}]
  /\ outcome = "open"

-----------------------------------------------------------------------------
(* prepare_cross_document_inputs *)

SuppliedRuns == {r \in InputRun : manifests[r] # "absent"}
IdsAreUnique == \A p, q \in supplied : p.id = q.id => p = q

SkippedRuns == {r \in SuppliedRuns : manifests[r] # "completed"}
PromisedOutputs == UNION {OutputsOf[r] : r \in SuppliedRuns \ SkippedRuns}
MissingOutputs == PromisedOutputs \ {p.id : p \in supplied}

NoReason == "none"
(* Why a data point of a run that is not skipped is left out.              *)
SkipReason(p) ==
  CASE SuppliedRuns # {} /\ p.run \notin SuppliedRuns -> "missing_run_manifest"
    [] documentOf[p.run] \notin documents             -> "missing_document"
    [] schemas[p.run] = NoSchema                      -> "missing_schema_metadata"
    [] OTHER                                          -> NoReason

Considered == {p \in supplied : p.run \notin SkippedRuns}
Prepared == {p \in Considered : SkipReason(p) = NoReason}

RunsOnly ==  \* variant: a data point left out leaves no trace
  {<<"run", r, "run_not_completed">> : r \in SkippedRuns}
Skipped ==
  {<<"run", r, "run_not_completed">> : r \in SkippedRuns}
  \cup {<<"data_point", id, "missing_data_point">> : id \in MissingOutputs}
  \cup {<<"data_point", p.id, SkipReason(p)>> : p \in Considered \ Prepared}

-----------------------------------------------------------------------------
(* Two data points of one id raise, and a result names at least one run.   *)
Accepted == IdsAreUnique /\ (SuppliedRuns # {} \/ supplied # {})

ReconcileInputs ==
  /\ outcome = "open" /\ Accepted
  /\ LET groups == FactGroups(Prepared, schemas)
     IN  result' = [groups |-> groups, conflicts |-> Conflicts(groups),
                    skipped |-> Skipped]
  /\ outcome' = "returned"
  /\ UNCHANGED inputs

RefuseInputs ==
  /\ outcome = "open" /\ ~Accepted
  /\ outcome' = "raised"
  /\ UNCHANGED <<inputs, result>>

InputsNext == ReconcileInputs \/ RefuseInputs

InputsSpec == InputsInit /\ [][InputsNext]_inputsVars

-----------------------------------------------------------------------------
(* Every data point a caller supplied, or a completed run promises, is the *)
(* source of exactly one group, or the result says why it is left out      *)
(* (phase 39: log every skipped data point or input run with a reason).    *)
EveryInputIsAccounted ==
  outcome = "returned" =>
    /\ \A p \in supplied :
         \/ \E g \in result.groups : /\ p \in g.sources
                                     /\ \A h \in result.groups \ {g} : p \notin h.sources
         \/ \E s \in result.skipped : s[1] = "data_point" /\ s[2] = p.id
         \/ \E s \in result.skipped : s[1] = "run" /\ s[2] = p.run
    /\ \A r \in InputRun : manifests[r] = "completed" =>
         \A id \in OutputsOf[r] :
           \/ \E p \in supplied : p.id = id
           \/ \E s \in result.skipped : s[1] = "data_point" /\ s[2] = id
    /\ \A g \in result.groups : g.sources # {} /\ \A p \in g.sources :
         /\ p \in supplied /\ manifests[p.run] # "running"
         /\ documentOf[p.run] \in documents

(* Two canonicalized data points of one field and schema disagree exactly  *)
(* when a conflict holds the groups of both (phase 39: distinct canonical  *)
(* values conflict); one without a canonical value is in no conflict,      *)
(* whether or not its text is that of another.                             *)
Disagree(p, q) ==
  /\ schemas[p.run] = schemas[q.run] /\ p.claim.field = q.claim.field
  /\ p.claim.source = "canonical" /\ q.claim.source = "canonical"
  /\ p.claim.key # q.claim.key

InConflict(p, q) ==
  \E conflict \in result.conflicts : \E g, h \in conflict :
    g # h /\ p \in g.sources /\ q \in h.sources

ConflictsAreDisagreements ==
  LET used == UNION {g.sources : g \in result.groups}
  IN  /\ \A p, q \in used : Disagree(p, q) <=> InConflict(p, q)
      /\ \A c, d \in result.conflicts : c # d => c \cap d = {}

(* What the function returned is made of its inputs.                       *)
ResultInv ==
  /\ supplied \in SUBSET SuppliedPoint
  /\ outcome = "returned" =>
       /\ result.groups = FactGroups(Prepared, schemas)
       /\ result.conflicts = Conflicts(result.groups)
       /\ result.skipped = Skipped
  /\ outcome # "returned" => result.groups = {} /\ result.conflicts = {}
==============================================================================
