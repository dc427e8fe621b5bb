CONSTANTS
  ShortSpan = 1
  ApprovedFields <- MCApprovedFields
  AtomicField <- MCAtomicField
  SourceBackedDetail = TRUE
  Atom <- MCAtom
  Chunks <- MCChunks
  Payload <- MCPayload
  Correction <- MCCorrection
SPECIFICATION Spec
CHECK_DEADLOCK FALSE
INVARIANT MissingVerdictsAreRejected
