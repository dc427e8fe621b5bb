CONSTANTS
  InputRun <- MCRun
  Doc = {d, e}
  Schema = {s, t}
  PointId <- MCPointId
  Claim <- MCClaim
  NoSchema = NoSchema
  OutputsOf <- MCOutputsOf
  MaxPoints = 3
SPECIFICATION InputsSpec
CHECK_DEADLOCK FALSE
INVARIANTS
  EveryInputIsAccounted
  ConflictsAreDisagreements
