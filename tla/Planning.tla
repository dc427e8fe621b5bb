------------------------------- MODULE Planning -------------------------------
(***************************************************************************)
(* How a run comes by its plan: the approved schemas that are loaded,      *)
(* create_extraction_plan with the model's five answers, the choice        *)
(* between an approved schema, a generated one and a refusal, and what a   *)
(* later process of the same run does with the outcome.  The manifest and  *)
(* the refusal's report are RunLifecycle's.                                *)
(*                                                                         *)
(* A process may be started with another configuration than the one        *)
(* before it.  Hints are sets: their order is only in the prompts.  A      *)
(* category maps its fields to their wording.                              *)
(*                                                                         *)
(* Bounds: MaxAttempts processes, one after the other; MaxCalls is the     *)
(* largest budget of a lens.                                               *)
(***************************************************************************)
EXTENDS Naturals, FiniteSets, Functions, SequencesExt

CONSTANTS
  Configuration,   \* packs, files, required, minimum, hints and window
  Classification,  \* answers of classify_document: type, hints, confidence
  Critique,        \* answers of critique_schema: accepted, categories
  TypeField,       \* the field names that end in "_type"
  Lens, MaxCalls,
  ChunksWith,      \* how many chunks each window makes of the document
  MaxAttempts

ASSUME PlanningAssumption ==
  /\ MaxCalls \in Nat \ {0} /\ MaxAttempts \in Nat
  /\ \A c \in Configuration :
       ChunksWith[c.window] \in Nat \ {0} /\ IsFiniteSet(DOMAIN c.files)

VARIABLES
  \* ---- durable
  chunked,    \* the window that the document's chunks were made with, or 0
  plan,       \* the extraction plan of the run
  planner,    \* the planner's stage state
  \* ---- volatile, of the process
  pc, config, classification, schema, lenses, budget,
  \* ---- history
  basis,      \* what the plan or the refusal was decided on
  attempts

tables == <<chunked, plan, planner>>
process == <<pc, config, classification, schema, lenses, budget>>
history == <<basis, attempts>>
vars == <<tables, process, history>>

None == [kind |-> "none"]

Init ==
  /\ chunked \in {0} \cup {c.window : c \in Configuration}
  /\ plan = None /\ planner = None
  /\ pc = "idle" /\ config = None
  /\ classification = None /\ schema = None /\ lenses = {} /\ budget = <<>>
  /\ basis = None /\ attempts = 0

(* An exception or a crash, which loses all that is not stored.            *)
ProcessIsOver ==
  /\ pc' = "idle" /\ config' = None
  /\ classification' = None /\ schema' = None /\ lenses' = {} /\ budget' = <<>>

-----------------------------------------------------------------------------
(* The artifacts that a process validates before it opens the store        *)

(* canonical_schema_hash, which is the same in any order of the parts      *)
SchemaHash(source, categories, hints, class) ==
  <<source, Len(categories), ToSet(categories), hints, class>>

ArtifactIsValid(file) ==
  /\ file.categories # <<>>
  /\ file.hash = SchemaHash("schema_registry", file.categories, file.hints, file.class)

(* The paths of files that are not hidden                                  *)
Listed(files) == {i \in DOMAIN files : files[i].kind # "hidden"}

RegistryLoads(files) ==
  /\ \A i \in Listed(files) : files[i].kind = "artifact" /\ ArtifactIsValid(files[i])
  /\ IsInjective([i \in Listed(files) |-> files[i].id])

Registry(files) == {files[i] : i \in Listed(files)}

PackIsValid(pack) ==
  /\ IsInjective(pack.templates)
  /\ ToSet(pack.templates) = pack.declared

Start ==
  /\ pc = "idle" /\ attempts < MaxAttempts
  /\ config' \in {c \in Configuration :
                    RegistryLoads(c.files) /\ \A p \in c.packs : PackIsValid(p)}
  /\ pc' = "chunker"
  /\ attempts' = attempts + 1
  /\ UNCHANGED <<tables, classification, schema, lenses, budget, basis>>

(* Chunks that are stored are used, whatever window they were made with.   *)
ReuseOrMakeChunks ==
  /\ pc = "chunker"
  /\ chunked' = IF chunked = 0 THEN config.window ELSE chunked
  /\ pc' = "planner"
  /\ UNCHANGED <<plan, planner, config, classification, schema, lenses, budget, history>>

-----------------------------------------------------------------------------
(* plan_or_refuse *)

ReuseStoredPlan ==
  /\ pc = "planner" /\ plan # None
  /\ plan.window = config.window
  /\ pc' = "planned"
  /\ UNCHANGED <<tables, config, classification, schema, lenses, budget, history>>

WindowHasChanged ==
  /\ pc = "planner" /\ plan # None
  /\ plan.window # config.window
  /\ ProcessIsOver /\ UNCHANGED <<tables, history>>

PlannerIsOpenAnyhow == plan = None  \* variant: the stage state is ignored
PlannerIsOpen == plan = None /\ planner = None

RefusedOrLost ==
  /\ pc = "planner" /\ plan = None /\ ~PlannerIsOpen
  /\ ProcessIsOver /\ UNCHANGED <<tables, history>>

Classify ==
  /\ pc = "planner" /\ PlannerIsOpen
  /\ classification' \in Classification
  /\ pc' = "classified"
  /\ UNCHANGED <<tables, config, schema, lenses, budget, history>>

-----------------------------------------------------------------------------
(* decide_schema_fit *)

MergedHints == config.hints \cup classification.hints

MatchesClass(a) == a.class = classification.type  \* variant: any hints
Matches(a) == a.class = classification.type /\ a.hints \subseteq MergedHints
Candidates == {a \in Registry(config.files) : Matches(a)}

(* The confidence of the classification stands for every coverage.         *)
Fitting == {a \in Candidates : classification.confidence >= config.minimum}

OneFits == Cardinality(Fitting) = 1

ReuseApprovedSchema ==
  /\ pc = "classified" /\ OneFits
  /\ \E a \in Fitting :
       schema' = [kind |-> "schema_registry", categories |-> a.categories,
                  hints |-> a.hints, class |-> a.class, hash |-> a.hash]
  /\ pc' = "schema"
  /\ UNCHANGED <<tables, config, classification, lenses, budget, history>>

FallBack ==
  /\ pc = "classified" /\ ~OneFits /\ ~config.required
  /\ pc' = "proposing"
  /\ UNCHANGED <<tables, config, classification, schema, lenses, budget, history>>

Refuse ==
  /\ pc = "classified" /\ ~OneFits /\ config.required
  /\ pc' = "refused"
  /\ UNCHANGED <<tables, config, classification, schema, lenses, budget, history>>

CoverageFirst ==  \* variant: the fit is looked at before the candidates
  CASE Fitting = {} -> "coverage_below_threshold"
    [] OTHER -> "ambiguous_schema_candidates"

RefusalReason ==
  CASE Candidates = {} /\ classification.type = "unknown_document" -> "document_out_of_scope"
    [] Candidates = {} /\ classification.type # "unknown_document" -> "no_approved_schema_candidates"
    [] Cardinality(Fitting) > 1 -> "ambiguous_schema_candidates"
    [] OTHER -> "coverage_below_threshold"

(* complete_planner_refusal *)
RecordRefusal ==
  /\ pc = "refused"
  /\ planner' = [kind |-> "refused", reason |-> RefusalReason]
  /\ basis' = [kind |-> "basis", config |-> config, classification |-> classification]
  /\ ProcessIsOver
  /\ UNCHANGED <<chunked, plan, attempts>>

-----------------------------------------------------------------------------
(* A generated schema *)

GeneralWording(name, wording) ==
  CASE name = "facility" -> "general"
    [] name \in TypeField -> "labelled"
    [] OTHER -> wording

WithFacility(category) ==
  IF category.name = "OperationalMetric" /\ "facility" \notin DOMAIN category.fields
  THEN [category EXCEPT !.fields =
          [n \in (DOMAIN @) \cup {"facility"} |-> IF n = "facility" THEN "metric" ELSE @[n]]]
  ELSE category

Generalized(category) ==
  WithFacility(
    [category EXCEPT
       !.wording = IF category.name = "CorporateEvent" THEN "general" ELSE @,
       !.fields = [n \in DOMAIN @ |-> GeneralWording(n, @[n])]])

Propose ==
  /\ pc = "proposing"
  /\ pc' = "critique"
  /\ UNCHANGED <<tables, config, classification, schema, lenses, budget, history>>

ApproveSchema ==
  /\ pc = "critique"
  /\ \E answer \in Critique :
       /\ answer.accepted
       /\ LET categories == [i \in DOMAIN answer.categories |-> Generalized(answer.categories[i])]
          IN schema' = [kind |-> "planner_generated", categories |-> categories,
                        hints |-> MergedHints, class |-> "none",
                        hash |-> SchemaHash("planner_generated", categories, MergedHints, "none")]
  /\ pc' = "schema"
  /\ UNCHANGED <<tables, config, classification, lenses, budget, history>>

RejectSchema ==
  /\ pc = "critique"
  /\ \E answer \in Critique : ~answer.accepted
  /\ ProcessIsOver /\ UNCHANGED <<tables, history>>

-----------------------------------------------------------------------------
(* The strategy, the budget and the plan *)

SelectStrategy ==
  /\ pc = "schema"
  /\ lenses' \in (SUBSET Lens) \ {{}}
  /\ pc' = "strategy"
  /\ UNCHANGED <<tables, config, classification, schema, budget, history>>

AllocateBudget ==
  /\ pc = "strategy"
  /\ budget' \in UNION {[L -> 1..MaxCalls] : L \in (SUBSET Lens) \ {{}}}
  /\ pc' = "budgeted"
  /\ UNCHANGED <<tables, config, classification, schema, lenses, history>>

PlanIsValid ==
  /\ IsInjective([i \in DOMAIN schema.categories |-> schema.categories[i].name])
  /\ lenses \subseteq DOMAIN budget
  /\ schema.hash = SchemaHash(schema.kind, schema.categories, schema.hints, schema.class)

RecordPlan ==
  /\ pc = "budgeted" /\ PlanIsValid
  /\ plan' = [kind |-> schema.kind, categories |-> schema.categories, hints |-> schema.hints,
              lenses |-> lenses, budget |-> budget, window |-> config.window]
  /\ basis' = [kind |-> "basis", config |-> config, classification |-> classification]
  /\ pc' = "planned"
  /\ classification' = None /\ schema' = None /\ lenses' = {} /\ budget' = <<>>
  /\ UNCHANGED <<chunked, planner, config, attempts>>

PlanIsInvalid ==
  /\ pc = "budgeted" /\ ~PlanIsValid
  /\ ProcessIsOver /\ UNCHANGED <<tables, history>>

(* ensure_stage_completed *)
CompletePlanner ==
  /\ pc = "planned"
  /\ planner' = IF planner = None THEN [kind |-> "completed"] ELSE planner
  /\ pc' = "executor"
  /\ UNCHANGED <<chunked, plan, config, classification, schema, lenses, budget, history>>

-----------------------------------------------------------------------------
(* validate_executor_inputs: each lens calls the model once for each chunk *)

Funded == \A l \in plan.lenses : ChunksWith[chunked] <= plan.budget[l]

StartExecutor ==
  /\ pc = "executor" /\ Funded
  /\ pc' = "executing"
  /\ UNCHANGED <<tables, config, classification, schema, lenses, budget, history>>

Underfunded ==
  /\ pc = "executor" /\ ~Funded
  /\ ProcessIsOver /\ UNCHANGED <<tables, history>>

Stop ==
  /\ pc # "idle"
  /\ ProcessIsOver /\ UNCHANGED <<tables, history>>

Next ==
  \/ Start \/ ReuseOrMakeChunks
  \/ ReuseStoredPlan \/ WindowHasChanged \/ RefusedOrLost \/ Classify
  \/ ReuseApprovedSchema \/ FallBack \/ Refuse \/ RecordRefusal
  \/ Propose \/ ApproveSchema \/ RejectSchema
  \/ SelectStrategy \/ AllocateBudget \/ RecordPlan \/ PlanIsInvalid \/ CompletePlanner
  \/ StartExecutor \/ Underfunded \/ Stop

Spec == Init /\ [][Next]_vars

-----------------------------------------------------------------------------
(* What approved schemas suit, on what the outcome was decided on          *)

OfClass == {a \in Registry(basis.config.files) : a.class = basis.classification.type}
Asked == {a \in OfClass : a.hints \ basis.config.hints \subseteq basis.classification.hints}
Suitable == {a \in Asked : basis.config.minimum <= basis.classification.confidence}

(* schema_fit.py:63, service.py:88: a plan, whichever process made it and  *)
(* whichever uses it, has exactly the categories and hints of the one      *)
(* approved schema that suited, or it was made where no single one did     *)
(* and a generated schema was allowed.                                     *)
PlanFollowsSelection ==
  plan # None =>
    IF plan.kind = "schema_registry"
    THEN \E a \in Suitable :
           /\ Suitable = {a}
           /\ plan.categories = a.categories /\ plan.hints = a.hints
    ELSE Cardinality(Suitable) # 1 /\ ~basis.config.required

(* schema_fit.py:158: a refusal was made where an approved schema was      *)
(* required and no single one suited, and its reason says which is wrong:  *)
(* the scope, the registry, the confidence, or that several suit.          *)
RefusalsAreJustified ==
  planner.kind = "refused" =>
    /\ plan = None /\ basis.config.required
    /\ planner.reason = "ambiguous_schema_candidates" <=> Cardinality(Suitable) > 1
    /\ planner.reason = "coverage_below_threshold" <=> Asked # {} /\ Suitable = {}
    /\ planner.reason = "document_out_of_scope" <=>
         Asked = {} /\ basis.classification.type = "unknown_document"
    /\ planner.reason = "no_approved_schema_candidates" <=>
         Asked = {} /\ basis.classification.type # "unknown_document"

(* planning.py:37, 45: over any number of processes with any policies and  *)
(* answers, a run's plan stays the one it is, a refused run gets no plan,  *)
(* and a planner that was completed is not refused.                        *)
DecisionIsFinal ==
  [][/\ plan # None => plan' = plan
     /\ planner # None => planner' = planner
     /\ planner.kind = "refused" => plan' = None]_vars

-----------------------------------------------------------------------------
(* What makes them inductive: what each step of a process may rely on      *)

Undecided == {"classified", "proposing", "critique", "refused", "schema", "strategy", "budgeted"}

(* service.py:54: the model is asked only while the run has no outcome,    *)
(* and the choice that was made of the schema is still the right one when  *)
(* the plan or the refusal is stored.                                      *)
SelectionInv ==
  /\ pc # "idle" => config \in Configuration
  /\ pc \in Undecided => plan = None /\ planner = None
  /\ pc \in {"proposing", "critique"} => ~OneFits /\ ~config.required
  /\ pc = "refused" => ~OneFits /\ config.required
  /\ pc \in {"schema", "strategy", "budgeted"} =>
       \/ /\ schema.kind = "schema_registry"
          /\ \E a \in Fitting :
               /\ Fitting = {a}
               /\ schema.categories = a.categories /\ schema.hints = a.hints
       \/ schema.kind = "planner_generated" /\ ~OneFits /\ ~config.required

PlanningInv == SelectionInv /\ PlanFollowsSelection /\ RefusalsAreJustified
=============================================================================
