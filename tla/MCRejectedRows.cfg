CONSTANTS
  facts = facts
  here = here
  there = there
  Candidate <- MCCandidate
  Lens <- MCLens
  Chunk <- MCChunk
  LensOf <- MCLensOf
  ChunkOf <- MCChunkOf
  IdentityOf <- MCIdentityOf
  MaxFaults = 1
  MaxPrepares = 0
SPECIFICATION Spec
CHECK_DEADLOCK FALSE
INVARIANT
  RejectedRowsStayOut
