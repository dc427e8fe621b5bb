CONSTANTS
  Configuration <- MCConfiguration
  Classification <- MCClassification
  Critique <- MCCritique
  TypeField = {"event_type"}
  Lens = {l1, l2}
  MaxCalls = 2
  ChunksWith <- MCChunksWith
  MaxAttempts = 3
SPECIFICATION Spec
CHECK_DEADLOCK FALSE
INVARIANTS
  PlanFollowsSelection
  RefusalsAreJustified
PROPERTIES
  DecisionIsFinal
