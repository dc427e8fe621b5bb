CONSTANTS
  facts = facts
  here = here
  there = there
  Candidate <- MCCandidate
  Lens <- MCLens
  Chunk <- MCChunk
  LensOf <- MCLensOf
  ChunkOf <- MCChunkOf
  IdentityOf <- MCIdentityOf
  MaxFaults = 1
  MaxPrepares = 1
SPECIFICATION Spec
CHECK_DEADLOCK FALSE
INVARIANTS
  DataPointsAreReviewed
  CompletedAccountsForAll
  CompletedReportIsFaithful
PROPERTIES
  RecordedStagesAreFrozen
  RefusedOnlyIfStuck
  CompletesOrStuck
