--------------------------- MODULE Planning_proofs ---------------------------
(***************************************************************************)
(* Planning with any configurations, approved schemas, answers of the      *)
(* model and number of processes.                                          *)
(***************************************************************************)
EXTENDS Planning, FiniteSetTheorems, TLAPS

(* A registry is finite, so the schemas that fit can be counted.           *)
LEMMA RegistriesAreFinite ==
  ASSUME config \in Configuration
  PROVE  IsFiniteSet(Candidates) /\ Fitting \subseteq Candidates /\ IsFiniteSet(Fitting)
<1>1. IsFiniteSet(Listed(config.files))
  <2>1. IsFiniteSet(DOMAIN config.files)
    BY PlanningAssumption
  <2>2. Listed(config.files) \in SUBSET (DOMAIN config.files)
    BY DEF Listed
  <2>3. QED
    BY <2>1, <2>2, FS_Subset
<1>2. IsFiniteSet(Registry(config.files))
  <2> DEFINE read == [i \in Listed(config.files) |-> config.files[i]]
  <2>1. read \in Surjection(Listed(config.files), Registry(config.files))
    BY DEF Registry, Surjection
  <2>2. QED
    BY <1>1, <2>1, FS_Surjection
<1>3. Candidates \subseteq Registry(config.files) /\ Fitting \subseteq Candidates
  BY DEF Candidates, Fitting
<1>4. QED
  BY <1>2, <1>3, FS_Subset

(* One schema fits exactly when the set of those that fit is a singleton,  *)
(* several when it is neither empty nor a singleton.                       *)
LEMMA CountOfFitting ==
  ASSUME config \in Configuration
  PROVE  /\ OneFits <=> \E a \in Fitting : Fitting = {a}
         /\ ~OneFits => (Cardinality(Fitting) > 1 <=> Fitting # {})
<1>1. IsFiniteSet(Fitting)
  BY RegistriesAreFinite
<1>2. Cardinality(Fitting) \in Nat
  BY <1>1, FS_CardinalityType
<1>3. Cardinality(Fitting) = 0 <=> Fitting = {}
  BY <1>1, FS_EmptySet
<1>4. Cardinality(Fitting) = 1 <=> \E a : Fitting = {a}
  BY <1>1, FS_Singleton
<1>5. QED
  BY <1>2, <1>3, <1>4 DEF OneFits

(* What the selection looked at is what the basis says, when the basis     *)
(* names the configuration and the classification of the process.          *)
LEMMA BasisIsTheSelection ==
  ASSUME basis'.config = config, basis'.classification = classification
  PROVE  Asked' = Candidates /\ Suitable' = Fitting
<1>1. ASSUME NEW a
      PROVE  a.hints \subseteq MergedHints <=>
               a.hints \ config.hints \subseteq classification.hints
  BY DEF MergedHints
<1>2. Asked' = Candidates
  BY <1>1 DEF Asked, OfClass, Candidates, Matches, Registry, Listed
<1>3. QED
  BY <1>2 DEF Suitable, Fitting

(* A step that touches neither an outcome nor its basis leaves what is     *)
(* known of both.                                                          *)
LEMMA OutcomesStand ==
  ASSUME PlanFollowsSelection, RefusalsAreJustified,
         UNCHANGED <<plan, planner, basis>>
  PROVE  PlanFollowsSelection' /\ RefusalsAreJustified'
<1>1. Asked' = Asked /\ Suitable' = Suitable
  BY DEF Asked, Suitable, OfClass
<1>2. QED
  BY <1>1 DEF PlanFollowsSelection, RefusalsAreJustified

(* The choice of the schema depends on the configuration and the           *)
(* classification only.                                                    *)
LEMMA SelectionStands ==
  ASSUME UNCHANGED <<config, classification>>
  PROVE  Fitting' = Fitting /\ (OneFits' <=> OneFits)
BY DEF Fitting, OneFits, Candidates, Matches, MergedHints

(* Whatever is lost with a process, nothing is known of it afterwards.     *)
LEMMA EndOfProcess ==
  ASSUME ProcessIsOver
  PROVE  SelectionInv'
BY DEF ProcessIsOver, SelectionInv, Undecided

(* The part of each step that concerns the selection.                      *)
LEMMA SelectionStep ==
  ASSUME SelectionInv, [Next]_vars
  PROVE  SelectionInv'
<1> USE DEF SelectionInv, Undecided
<1>1. CASE Start
  BY <1>1 DEF Start, tables
<1>2. CASE ReuseOrMakeChunks
  BY <1>2 DEF ReuseOrMakeChunks
<1>3. CASE ReuseStoredPlan
  BY <1>3 DEF ReuseStoredPlan
<1>4. CASE Classify
  BY <1>4 DEF Classify, PlannerIsOpen, tables
<1>5. CASE ReuseApprovedSchema
  <2>1. PICK a \in Fitting :
          schema' = [kind |-> "schema_registry", categories |-> a.categories,
                     hints |-> a.hints, class |-> a.class, hash |-> a.hash]
    BY <1>5 DEF ReuseApprovedSchema
  <2>2. pc = "classified" /\ config \in Configuration /\ OneFits
    BY <1>5 DEF ReuseApprovedSchema
  <2>3. Fitting = {a}
    BY <2>1, <2>2, CountOfFitting
  <2>4. UNCHANGED <<tables, config, classification>> /\ pc' = "schema"
    BY <1>5 DEF ReuseApprovedSchema
  <2>5. Fitting' = Fitting
    BY <2>4, SelectionStands
  <2>6. QED
    BY <2>1, <2>2, <2>3, <2>4, <2>5 DEF tables
<1>6. CASE FallBack
  <2>1. Fitting' = Fitting /\ (OneFits' <=> OneFits)
    BY <1>6, SelectionStands DEF FallBack
  <2>2. QED
    BY <1>6, <2>1 DEF FallBack, tables
<1>7. CASE Refuse
  <2>1. Fitting' = Fitting /\ (OneFits' <=> OneFits)
    BY <1>7, SelectionStands DEF Refuse
  <2>2. QED
    BY <1>7, <2>1 DEF Refuse, tables
<1>8. CASE Propose
  <2>1. Fitting' = Fitting /\ (OneFits' <=> OneFits)
    BY <1>8, SelectionStands DEF Propose
  <2>2. QED
    BY <1>8, <2>1 DEF Propose, tables
<1>9. CASE ApproveSchema
  <2>1. Fitting' = Fitting /\ (OneFits' <=> OneFits)
    BY <1>9, SelectionStands DEF ApproveSchema
  <2>2. schema'.kind = "planner_generated"
    BY <1>9 DEF ApproveSchema
  <2>3. pc = "critique" /\ pc' = "schema" /\ UNCHANGED <<tables, config>>
    BY <1>9 DEF ApproveSchema
  <2>4. QED
    BY <2>1, <2>2, <2>3 DEF tables
<1>10. CASE SelectStrategy
  <2>1. Fitting' = Fitting /\ (OneFits' <=> OneFits)
    BY <1>10, SelectionStands DEF SelectStrategy
  <2>2. QED
    BY <1>10, <2>1 DEF SelectStrategy, tables
<1>11. CASE AllocateBudget
  <2>1. Fitting' = Fitting /\ (OneFits' <=> OneFits)
    BY <1>11, SelectionStands DEF AllocateBudget
  <2>2. QED
    BY <1>11, <2>1 DEF AllocateBudget, tables
<1>12. CASE RecordPlan
  BY <1>12 DEF RecordPlan
<1>13. CASE CompletePlanner
  BY <1>13 DEF CompletePlanner
<1>14. CASE StartExecutor
  BY <1>14 DEF StartExecutor
<1>15. CASE \/ WindowHasChanged \/ RefusedOrLost \/ RecordRefusal \/ RejectSchema
            \/ PlanIsInvalid \/ Underfunded \/ Stop
  BY <1>15, EndOfProcess
  DEF WindowHasChanged, RefusedOrLost, RecordRefusal, RejectSchema, PlanIsInvalid,
      Underfunded, Stop
<1>16. CASE UNCHANGED vars
  <2>1. Fitting' = Fitting /\ (OneFits' <=> OneFits)
    BY <1>16, SelectionStands DEF vars, process
  <2>2. QED
    BY <1>16, <2>1 DEF vars, tables, process
<1>17. QED
  BY <1>1, <1>2, <1>3, <1>4, <1>5, <1>6, <1>7, <1>8, <1>9, <1>10, <1>11, <1>12,
     <1>13, <1>14, <1>15, <1>16 DEF Next

(* Outcomes are written by three steps only.                               *)
LEMMA OutcomesAreWrittenBy ==
  ASSUME [Next]_vars
  PROVE  RecordRefusal \/ RecordPlan \/ CompletePlanner \/ UNCHANGED <<plan, planner, basis>>
BY DEF Next, vars, tables, history, Start, ReuseOrMakeChunks, ReuseStoredPlan, WindowHasChanged,
       RefusedOrLost, Classify, ReuseApprovedSchema, FallBack, Refuse, Propose,
       ApproveSchema, RejectSchema, SelectStrategy, AllocateBudget, PlanIsInvalid,
       StartExecutor, Underfunded, Stop

(* The refusal names what was wrong with the registry that was looked at.  *)
LEMMA RecordedRefusalIsJustified ==
  ASSUME SelectionInv, RecordRefusal
  PROVE  PlanFollowsSelection' /\ RefusalsAreJustified'
<1>1. /\ pc = "refused" /\ config \in Configuration /\ plan = None
      /\ ~OneFits /\ config.required
  BY DEF RecordRefusal, SelectionInv, Undecided
<1>2. /\ planner' = [kind |-> "refused", reason |-> RefusalReason] /\ plan' = plan
      /\ basis' = [kind |-> "basis", config |-> config, classification |-> classification]
  BY DEF RecordRefusal
<1>3. Asked' = Candidates /\ Suitable' = Fitting
  BY <1>2, BasisIsTheSelection
<1>4. Cardinality(Fitting) > 1 <=> Fitting # {}
  BY <1>1, CountOfFitting
<1>5. Fitting \subseteq Candidates
  BY DEF Fitting
<1>6. /\ RefusalReason = "ambiguous_schema_candidates" <=> Cardinality(Fitting) > 1
      /\ RefusalReason = "coverage_below_threshold" <=> Candidates # {} /\ Fitting = {}
      /\ RefusalReason = "document_out_of_scope" <=>
           Candidates = {} /\ classification.type = "unknown_document"
      /\ RefusalReason = "no_approved_schema_candidates" <=>
           Candidates = {} /\ classification.type # "unknown_document"
  BY <1>4, <1>5 DEF RefusalReason
<1>7. PlanFollowsSelection'
  BY <1>1, <1>2 DEF PlanFollowsSelection, None
<1>8. RefusalsAreJustified'
  BY <1>1, <1>2, <1>3, <1>6 DEF RefusalsAreJustified, None
<1>9. QED
  BY <1>7, <1>8

(* The plan has the categories and hints of the schema that was chosen.    *)
LEMMA RecordedPlanFollows ==
  ASSUME SelectionInv, RecordPlan
  PROVE  PlanFollowsSelection' /\ RefusalsAreJustified'
<1>1. /\ pc = "budgeted" /\ config \in Configuration /\ planner' = None
  BY DEF RecordPlan, SelectionInv, Undecided
<1>2. /\ plan' = [kind |-> schema.kind, categories |-> schema.categories, hints |-> schema.hints,
                  lenses |-> lenses, budget |-> budget, window |-> config.window]
      /\ basis' = [kind |-> "basis", config |-> config, classification |-> classification]
  BY DEF RecordPlan
<1>3. Suitable' = Fitting
  BY <1>2, BasisIsTheSelection
<1>4. RefusalsAreJustified'
  BY <1>1 DEF RefusalsAreJustified, None
<1>5. CASE schema.kind = "planner_generated" /\ ~OneFits /\ ~config.required
  <2>1. plan'.kind = "planner_generated" /\ ~basis'.config.required
    BY <1>2, <1>5
  <2>2. Cardinality(Suitable') # 1
    BY <1>3, <1>5 DEF OneFits
  <2>3. QED
    BY <1>4, <2>1, <2>2 DEF PlanFollowsSelection
<1>6. CASE /\ schema.kind = "schema_registry"
           /\ \E a \in Fitting :
                /\ Fitting = {a}
                /\ schema.categories = a.categories /\ schema.hints = a.hints
  <2>1. PICK a \in Fitting : /\ Fitting = {a}
                             /\ schema.categories = a.categories /\ schema.hints = a.hints
    BY <1>6
  <2>2. /\ plan'.kind = "schema_registry"
        /\ plan'.categories = a.categories /\ plan'.hints = a.hints
    BY <1>2, <1>6, <2>1
  <2>3. a \in Suitable' /\ Suitable' = {a}
    BY <1>3, <2>1
  <2>4. QED
    BY <1>4, <2>2, <2>3 DEF PlanFollowsSelection
<1>7. QED
  BY <1>1, <1>4, <1>5, <1>6 DEF SelectionInv

LEMMA PlanningInvariant == Spec => []PlanningInv
<1>1. Init => PlanningInv
  BY DEF Init, PlanningInv, SelectionInv, PlanFollowsSelection, RefusalsAreJustified, Undecided,
         None
<1>2. PlanningInv /\ [Next]_vars => PlanningInv'
  <2> SUFFICES ASSUME PlanningInv, [Next]_vars PROVE PlanningInv'
    OBVIOUS
  <2>1. SelectionInv'
    BY SelectionStep DEF PlanningInv
  <2>2. CASE RecordRefusal
    BY <2>1, <2>2, RecordedRefusalIsJustified DEF PlanningInv
  <2>3. CASE RecordPlan
    BY <2>1, <2>3, RecordedPlanFollows DEF PlanningInv
  <2>4. CASE CompletePlanner
    <3>1. UNCHANGED <<plan, basis>> /\ planner'.kind = "refused" => planner' = planner
      BY <2>4 DEF CompletePlanner, history
    <3>2. Asked' = Asked /\ Suitable' = Suitable
      BY <2>4 DEF CompletePlanner, history, Asked, Suitable, OfClass
    <3>3. PlanFollowsSelection'
      BY <2>4, <3>2 DEF PlanningInv, PlanFollowsSelection, CompletePlanner, history
    <3>4. RefusalsAreJustified'
      BY <2>4, <3>2 DEF PlanningInv, RefusalsAreJustified, CompletePlanner, history
    <3>5. QED
      BY <2>1, <3>3, <3>4 DEF PlanningInv
  <2>5. CASE UNCHANGED <<plan, planner, basis>>
    BY <2>1, <2>5, OutcomesStand DEF PlanningInv
  <2>6. QED
    BY <2>2, <2>3, <2>4, <2>5, OutcomesAreWrittenBy
<1>3. QED
  BY <1>1, <1>2, PTL DEF Spec

(* A plan has exactly the content of the one approved schema that suited,  *)
(* or was made where none or several did and a generated one was allowed.  *)
THEOREM PlansFollowTheSelection == Spec => []PlanFollowsSelection
BY PlanningInvariant, PTL DEF PlanningInv

(* A refusal is made where it must be, and for the reason it gives.        *)
THEOREM RefusalsAreRight == Spec => []RefusalsAreJustified
BY PlanningInvariant, PTL DEF PlanningInv

(* The outcome of planning, once stored, is never changed by any process.  *)
THEOREM OutcomesAreFinal == Spec => DecisionIsFinal
<1> DEFINE Final == /\ plan # None => plan' = plan
                    /\ planner # None => planner' = planner
                    /\ planner.kind = "refused" => plan' = None
<1>1. PlanningInv /\ [Next]_vars => [Final]_vars
  <2> SUFFICES ASSUME PlanningInv, [Next]_vars PROVE Final
    OBVIOUS
  <2>1. planner.kind = "refused" => plan = None
    BY DEF PlanningInv, RefusalsAreJustified
  <2>2. CASE RecordRefusal
    BY <2>1, <2>2 DEF RecordRefusal, PlanningInv, SelectionInv, Undecided
  <2>3. CASE RecordPlan
    BY <2>1, <2>3 DEF RecordPlan, PlanningInv, SelectionInv, Undecided, None
  <2>4. CASE CompletePlanner
    BY <2>1, <2>4 DEF CompletePlanner
  <2>5. CASE UNCHANGED <<plan, planner, basis>>
    BY <2>1, <2>5
  <2>6. QED
    BY <2>2, <2>3, <2>4, <2>5, OutcomesAreWrittenBy
<1>2. QED
  BY <1>1, PlanningInvariant, PTL DEF Spec, DecisionIsFinal
=============================================================================
