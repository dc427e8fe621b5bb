CONSTANTS
  Candidate <- MCCandidate
  Field <- MCField
  Approved <- MCApproved
  FieldOf <- MCFieldOf
  RankOf <- MCRankOf
  KeyOf <- MCKeyOf
  NoKey = "none"
  MaxRetries = 1
  MaxGroups = 2
SPECIFICATION ReconciliationSpec
CHECK_DEADLOCK FALSE
INVARIANTS
  EveryCandidateIsAccounted
  PointsAreSound
  DistinctValuesAreKept
  ConflictsAreMutual
