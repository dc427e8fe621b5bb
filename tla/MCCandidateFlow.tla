--------------------------- MODULE MCCandidateFlow ---------------------------
(***************************************************************************)
(* Three candidates of one lens in two chunks: 1 and 2 are duplicates from *)
(* different chunks, 3 comes from the chunk of 1 and stands alone.         *)
(***************************************************************************)
EXTENDS CandidateReview

CONSTANTS facts, here, there

MCCandidate == 1 .. 3
MCLens == {facts}
MCChunk == {here, there}
MCLensOf == [c \in MCCandidate |-> facts]
MCChunkOf == [c \in MCCandidate |-> IF c = 2 THEN there ELSE here]
MCIdentityOf == [c \in MCCandidate |-> IF c = 3 THEN 2 ELSE 1]
==============================================================================
