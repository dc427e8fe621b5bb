------------------------ MODULE Reconciliation_proofs ------------------------
(***************************************************************************)
(* The reconciliation of one document's candidates and of several          *)
(* documents.  Reconciliation: reconcile_candidates with any candidates,   *)
(* fields, values and retries and any answer of the model; the groups are  *)
(* gone through in a loop, so GroupsInv says what each of its iterations   *)
(* leaves behind.  FactGroups and CrossDocumentInputs: what the groups and *)
(* conflicts of data points are, for any data points and schemas, and what *)
(* the service makes of them over any runs and documents.                  *)
(* CrossDocumentBatch: the batches of one cross-document run, for any      *)
(* number of batches and sources.                                          *)
(***************************************************************************)
EXTENDS Reconciliation, CrossDocumentInputs, CrossDocumentBatch, FiniteSetTheorems, TLAPS

-----------------------------------------------------------------------------
(* Reconciliation: the candidates of one document                          *)

(* Some candidate of a set that is not empty has the least rank.  The      *)
(* segments 0 .. RankOf[c] are finite, and the strict subset order on      *)
(* finite sets is well founded.                                            *)
LEMMA MostSpecific ==
  ASSUME NEW C \in SUBSET Candidate, C # {}
  PROVE  \E c \in C : \A d \in C : RankOf[c] <= RankOf[d]
<1> DEFINE Segments == {0 .. RankOf[c] : c \in C}
<1>1. \A c \in C : RankOf[c] \in Nat
  BY ReconciliationAssumption
<1>2. Segments \subseteq FiniteSubsetsOf(Nat)
  <2>1. ASSUME NEW c \in C PROVE IsFiniteSet(0 .. RankOf[c])
    <3>1. RankOf[c] \in Int /\ 0 \in Int
      BY <1>1
    <3>2. QED
      BY <3>1, FS_Interval
  <2>2. QED
    BY <1>1, <2>1 DEF FiniteSubsetsOf
<1>3. Segments # {}
  OBVIOUS
<1>4. \E s \in Segments : \A t \in Segments : ~ (<<t, s>> \in StrictSubsetOrdering(Nat))
  <2> HIDE DEF Segments
  <2> QED
    BY <1>2, <1>3, FS_StrictSubsetOrderingWellFounded, WFMin
<1>5. PICK c \in C : \A d \in C : ~ (<<0 .. RankOf[d], 0 .. RankOf[c]>> \in StrictSubsetOrdering(Nat))
  BY <1>4
<1>6. ASSUME NEW d \in C, RankOf[d] < RankOf[c] PROVE FALSE
  <2> DEFINE lower == RankOf[d]
             upper == RankOf[c]
  <2>1. lower \in Nat /\ upper \in Nat /\ lower < upper
    BY <1>1, <1>6
  <2> HIDE DEF lower, upper
  <2>2. 0 .. lower \in SUBSET Nat /\ 0 .. upper \in SUBSET Nat
    BY <2>1
  <2>3. 0 .. lower \subseteq 0 .. upper /\ upper \in 0 .. upper /\ upper \notin 0 .. lower
    BY <2>1
  <2>4. <<0 .. lower, 0 .. upper>> \in StrictSubsetOrdering(Nat)
    BY <2>2, <2>3 DEF StrictSubsetOrdering
  <2>5. QED
    BY <1>5, <2>4 DEF lower, upper
<1>7. QED
  BY <1>1, <1>6

(* _best_source_candidate_id finds a contributor of the field, and none of *)
(* that field is more specific.                                            *)
LEMMA BestSourceIsBest ==
  ASSUME NEW g \in Group
  PROVE  /\ BestSource(g) \in g.contributors
         /\ FieldOf[BestSource(g)] = FieldOf[g.source]
         /\ \A d \in g.contributors :
              FieldOf[d] = FieldOf[g.source] => RankOf[BestSource(g)] <= RankOf[d]
<1> DEFINE Same == {c \in g.contributors : FieldOf[c] = FieldOf[g.source]}
<1>1. Same \in SUBSET Candidate /\ Same # {}
  BY DEF Group
<1>2. PICK c \in Same : \A d \in Same : RankOf[c] <= RankOf[d]
  <2> HIDE DEF Same
  <2> QED
    BY <1>1, MostSpecific
<1>3. \E b \in g.contributors : /\ FieldOf[b] = FieldOf[g.source]
                                /\ \A d \in g.contributors :
                                     FieldOf[d] = FieldOf[g.source] => RankOf[b] <= RankOf[d]
  BY <1>2
<1>4. QED
  BY <1>3 DEF BestSource

(* What is known of a group of an answer.                                  *)
LEMMA GroupsOfAnswer ==
  ASSUME AnswerInv, NEW i \in 1 .. Len(batch.groups)
  PROVE  /\ batch.groups[i] \in Group
         /\ batch.groups[i].contributors \subseteq Candidate
         /\ batch.groups[i].source \in batch.groups[i].contributors
BY DEF AnswerInv, Group

(* Answers are taken, reviewed and validated before anything is built.     *)
LEMMA AnswerStep ==
  ASSUME AnswerInv, [ReconciliationNext]_reconciliationVars
  PROVE  AnswerInv'
<1> USE DEF AnswerInv
<1>1. CASE Call
  <2>1. CASE batch' \in ReconciliationBatch /\ phase' \in {"review", "validate"}
    <3>1. batch'.groups \in Seq(Group) /\ batch'.listed \subseteq Candidate
      BY <2>1 DEF ReconciliationBatch
    <3>2. UNCHANGED <<accepted, building>> /\ phase = "call"
      BY <1>1 DEF Call
    <3>3. index' \in 1 .. Len(batch'.groups) + 1
      BY <3>1, <3>2 DEF building
    <3>4. QED
      BY <2>1, <3>1, <3>2, <3>3 DEF building
  <2>2. CASE batch' = batch /\ phase' = "raised"
    BY <1>1, <2>2 DEF Call, building
  <2>3. QED
    BY <1>1, <2>1, <2>2 DEF Call
<1>2. CASE Accept
  BY <1>2 DEF Accept, building, OmittedValues, InGroups
<1>3. CASE Complain
  <2>1. batch'.groups = <<>> /\ batch'.listed = {}
    BY <1>3 DEF Complain, NoBatch
  <2>2. batch'.groups \in Seq(Group) /\ index' \in 1 .. Len(batch'.groups) + 1
    BY <1>3, <2>1 DEF Complain, building
  <2>3. QED
    BY <1>3, <2>1, <2>2 DEF Complain, building
<1>4. CASE ValidateIds
  BY <1>4 DEF ValidateIds, asking, building, OmittedValues, InGroups
<1>5. CASE KeepGroup
  BY <1>5 DEF KeepGroup, asking, OmittedValues, InGroups
<1>6. CASE RejectGroup
  BY <1>6 DEF RejectGroup, asking, OmittedValues, InGroups
<1>7. CASE RejectListed
  BY <1>7 DEF RejectListed, asking, OmittedValues, InGroups
<1>8. CASE RejectRest
  BY <1>8 DEF RejectRest, asking, OmittedValues, InGroups
<1>9. CASE MarkConflicts
  BY <1>9 DEF MarkConflicts, asking, OmittedValues, InGroups
<1>10. CASE UNCHANGED reconciliationVars
  BY <1>10 DEF reconciliationVars, asking, OmittedValues, InGroups
<1>11. QED
  BY <1>1, <1>2, <1>3, <1>4, <1>5, <1>6, <1>7, <1>8, <1>9, <1>10 DEF ReconciliationNext

(* The next group is one more than those before it.                        *)
LEMMA OneMoreGroup ==
  ASSUME AnswerInv, batch' = batch, index' = index + 1, index <= Len(batch.groups)
  PROVE  /\ index \in 1 .. Len(batch.groups) /\ Before' = Before \cup {index}
         /\ Earlier' = Earlier \cup batch.groups[index].contributors
         /\ \A i \in Before : i \in Nat /\ i < index
<1>1. index \in 1 .. Len(batch.groups) /\ Len(batch.groups) \in Nat
  BY DEF AnswerInv
<1>2. Before' = Before \cup {index}
  BY <1>1 DEF Before
<1>3. Earlier' = Earlier \cup batch.groups[index].contributors
  BY <1>2 DEF Earlier
<1>4. \A i \in Before : i \in Nat /\ i < index
  BY <1>1 DEF Before
<1>5. QED
  BY <1>1, <1>2, <1>3, <1>4

(* The loop, on a group that becomes a data point.                         *)
LEMMA KeepStep ==
  ASSUME AnswerInv, GroupsInv, PointsAreSound, \A p \in points : p.source \in p.contributors,
         KeepGroup
  PROVE  GroupsInv' /\ PointsAreSound' /\ (\A p \in points : p.source \in p.contributors)'
<1> DEFINE g == batch.groups[index]
<1>1. /\ phase = "groups" /\ phase' = "groups" /\ batch' = batch /\ rejected' = rejected
      /\ index' = index + 1 /\ index <= Len(batch.groups)
      /\ points' = points \cup {DataPoint(g)} /\ accounted' = accounted \cup g.contributors
      /\ ~HasReasons(g)
  BY DEF KeepGroup, asking
<1>2. /\ index \in 1 .. Len(batch.groups) /\ Before' = Before \cup {index}
      /\ Earlier' = Earlier \cup g.contributors
      /\ \A i \in Before : i \in Nat /\ i < index
  BY <1>1, OneMoreGroup
<1>3. g \in Group /\ g.contributors \subseteq Candidate /\ g.source \in g.contributors
  BY <1>2, GroupsOfAnswer
<1>4. /\ DataPoint(g).contributors = g.contributors
      /\ DataPoint(g).source = BestSource(g)
  BY DEF DataPoint
<1>5. Kept' = Kept \cup g.contributors
  BY <1>1, <1>4 DEF Kept
<1>6. /\ g.contributors \cap accounted = {} /\ FieldOf[g.source] \in Approved
      /\ \A c \in g.contributors : FieldOf[c] = FieldOf[g.source]
  BY <1>1 DEF HasReasons, Repeated, Mixed
<1>7. accounted = Earlier /\ Earlier = Kept \cup rejected
  BY <1>1 DEF GroupsInv
<1> HIDE DEF g
<1>8. /\ Kept' \subseteq Earlier'
      /\ accounted' = Earlier' /\ Earlier' = Kept' \cup rejected'
  BY <1>1, <1>2, <1>5, <1>7
<1>9. ASSUME NEW i \in Before'
      PROVE  \/ batch.groups[i].contributors \subseteq Kept'
             \/ FieldOf[batch.groups[i].source] \notin Approved
             \/ Mixed(batch.groups[i])
             \/ \E j \in 1 .. i - 1 :
                  batch.groups[i].contributors \cap batch.groups[j].contributors # {}
  BY <1>2, <1>5 DEF GroupsInv, g
<1>10. ASSUME NEW c \in (Kept \cap rejected)'
       PROVE  \E i, j \in Before' :
                i < j /\ c \in batch.groups[i].contributors \cap batch.groups[j].contributors
  <2>1. c \in Kept \cap rejected
    BY <1>1, <1>5, <1>6, <1>7
  <2>2. QED
    BY <1>2, <2>1 DEF GroupsInv
<1>11. GroupsInv'
  BY <1>1, <1>8, <1>9, <1>10 DEF GroupsInv, Mixed
<1>12. BestSource(g) \in g.contributors /\ \A d \in g.contributors : RankOf[BestSource(g)] <= RankOf[d]
  BY <1>3, <1>6, BestSourceIsBest
<1>13. \A p \in points : p.contributors \cap g.contributors = {}
  BY <1>6, <1>7 DEF Kept
<1>14. \A p \in points' : p \in points \/ p = DataPoint(g)
  BY <1>1
<1>15. PointsAreSound'
  <2>1. ASSUME NEW p \in points', NEW q \in points', p # q
        PROVE  p.contributors \cap q.contributors = {}
    BY <1>4, <1>13, <1>14, <2>1 DEF PointsAreSound
  <2>2. ASSUME NEW p \in points', NEW c \in p.contributors
        PROVE  /\ FieldOf[c] = FieldOf[p.source] /\ FieldOf[c] \in Approved
               /\ RankOf[p.source] <= RankOf[c]
    BY <1>4, <1>6, <1>12, <1>14 DEF PointsAreSound
  <2>3. QED
    BY <2>1, <2>2 DEF PointsAreSound
<1>16. QED
  BY <1>4, <1>11, <1>12, <1>14, <1>15

(* The loop, on a group that is rejected: when it overlaps an earlier one, *)
(* that is where a candidate both contributes and is rejected.             *)
LEMMA RejectStep ==
  ASSUME AnswerInv, GroupsInv, RejectGroup
  PROVE  GroupsInv' /\ points' = points
<1> DEFINE g == batch.groups[index]
<1>1. /\ phase = "groups" /\ phase' = "groups" /\ batch' = batch /\ points' = points
      /\ index' = index + 1 /\ index <= Len(batch.groups)
      /\ rejected' = rejected \cup g.contributors /\ accounted' = accounted \cup g.contributors
      /\ HasReasons(g)
  BY DEF RejectGroup, asking
<1>2. /\ index \in 1 .. Len(batch.groups) /\ Before' = Before \cup {index}
      /\ Earlier' = Earlier \cup g.contributors
      /\ \A i \in Before : i \in Nat /\ i < index
  BY <1>1, OneMoreGroup
<1>3. Kept' = Kept
  BY <1>1 DEF Kept
<1>4. accounted = Earlier /\ Earlier = Kept \cup rejected
  BY <1>1 DEF GroupsInv
<1>5. ASSUME NEW c \in g.contributors, c \in Earlier
      PROVE  \E i \in Before : c \in batch.groups[i].contributors
  BY <1>5 DEF Earlier
<1>6. ASSUME Repeated(g)
      PROVE  \E j \in 1 .. index - 1 : g.contributors \cap batch.groups[j].contributors # {}
  <2>1. PICK c \in g.contributors : c \in Earlier
    BY <1>4, <1>6 DEF Repeated
  <2>2. PICK i \in Before : c \in batch.groups[i].contributors
    BY <2>1, <1>5
  <2>3. QED
    BY <2>1, <2>2 DEF Before
<1>7. \/ FieldOf[g.source] \notin Approved \/ Mixed(g)
      \/ \E j \in 1 .. index - 1 : g.contributors \cap batch.groups[j].contributors # {}
  BY <1>1, <1>6 DEF HasReasons
<1> HIDE DEF g
<1>8. /\ Kept' \subseteq Earlier'
      /\ accounted' = Earlier' /\ Earlier' = Kept' \cup rejected'
  BY <1>1, <1>2, <1>3, <1>4
<1>9. ASSUME NEW i \in Before'
      PROVE  \/ batch.groups[i].contributors \subseteq Kept'
             \/ FieldOf[batch.groups[i].source] \notin Approved
             \/ Mixed(batch.groups[i])
             \/ \E j \in 1 .. i - 1 :
                  batch.groups[i].contributors \cap batch.groups[j].contributors # {}
  <2>1. CASE i \in Before
    BY <1>3, <2>1 DEF GroupsInv
  <2>2. CASE i = index
    BY <1>7, <2>2 DEF g
  <2>3. QED
    BY <1>2, <2>1, <2>2
<1>10. ASSUME NEW c \in (Kept \cap rejected)'
       PROVE  \E i, j \in Before' :
                i < j /\ c \in batch.groups[i].contributors \cap batch.groups[j].contributors
  <2>1. CASE c \in rejected
    BY <1>2, <1>3, <2>1 DEF GroupsInv
  <2>2. CASE c \in g.contributors
    <3>1. PICK i \in Before : c \in batch.groups[i].contributors
      BY <1>3, <1>4, <1>5, <2>2
    <3>2. i \in Before' /\ index \in Before' /\ i < index
      BY <1>2, <3>1
    <3>3. QED
      BY <2>2, <3>1, <3>2 DEF g
  <2>3. QED
    BY <1>1, <2>1, <2>2
<1>11. GroupsInv'
  BY <1>1, <1>8, <1>9, <1>10 DEF GroupsInv, Mixed
<1>12. QED
  BY <1>1, <1>11

(* The candidates left: those the answer lists, then those it omits.       *)
LEMMA RestStep ==
  ASSUME AnswerInv, GroupsInv, RejectListed \/ RejectRest
  PROVE  GroupsInv' /\ points' = points
<1>1. /\ batch' = batch /\ index' = index /\ points' = points
      /\ \/ phase = "groups" /\ phase' = "rest"
         \/ phase = "rest" /\ phase' = "marking"
  BY DEF RejectListed, RejectRest, asking
<1>2. Kept' = Kept /\ Earlier' = Earlier /\ Before' = Before
  BY <1>1 DEF Kept, Earlier, Before
<1>3. accounted = Kept \cup rejected
  BY <1>1 DEF GroupsInv
<1>4. (Kept \cap rejected)' = Kept \cap rejected
  BY <1>2, <1>3 DEF RejectListed, RejectRest, ListedAnew, Rest
<1>5. Earlier \subseteq Candidate
  <2>1. ASSUME NEW i \in Before PROVE batch.groups[i].contributors \subseteq Candidate
    <3>1. i \in 1 .. Len(batch.groups)
      BY DEF Before, AnswerInv
    <3>2. QED
      BY <3>1, GroupsOfAnswer
  <2>2. QED
    BY <2>1 DEF Earlier
<1>6. phase' = "rest" => accounted' = Kept' \cup rejected' /\ accounted' \subseteq Candidate
  <2>1. phase' = "rest" => RejectListed /\ accounted \subseteq Candidate
    BY <1>1, <1>5 DEF RejectListed, RejectRest, GroupsInv
  <2>2. QED
    BY <1>2, <1>3, <2>1 DEF RejectListed, ListedAnew, AnswerInv
<1>7. phase' = "marking" => Candidate = Kept' \cup rejected'
  <2>1. phase' = "marking" => RejectRest /\ accounted \subseteq Candidate
    BY <1>1 DEF RejectListed, RejectRest, GroupsInv
  <2>2. QED
    BY <1>2, <1>3, <2>1 DEF RejectRest, Rest
<1>8. QED
  BY <1>1, <1>2, <1>4, <1>6, <1>7 DEF GroupsInv, Mixed

(* A step that builds nothing keeps what is known of what is built.        *)
LEMMA BuiltStands ==
  ASSUME UNCHANGED <<batch, index, points, rejected>>
  PROVE  /\ Kept' = Kept /\ Earlier' = Earlier /\ Before' = Before
         /\ PointsAreSound <=> PointsAreSound'
         /\ \A field : Conflicting(field)' = Conflicting(field)
BY DEF Kept, Earlier, Before, PointsAreSound, Conflicting, CanonicalPoints

LEMMA ReconciliationInvariant == ReconciliationSpec => []ReconciliationInv
<1>1. ReconciliationInit => ReconciliationInv
  <2> SUFFICES ASSUME ReconciliationInit PROVE ReconciliationInv
    OBVIOUS
  <2>1. AnswerInv
    <3>1. batch.groups = <<>> /\ batch.listed = {}
      BY DEF ReconciliationInit, NoBatch
    <3>2. batch.groups \in Seq(Group) /\ index \in 1 .. Len(batch.groups) + 1
      BY <3>1 DEF ReconciliationInit
    <3>3. QED
      BY <3>1, <3>2 DEF ReconciliationInit, AnswerInv
  <2>2. GroupsInv /\ PointsAreSound
    BY DEF ReconciliationInit, GroupsInv, PointsAreSound, Kept, Before, Earlier
  <2>3. QED
    BY <2>1, <2>2 DEF ReconciliationInit, ReconciliationInv, ConflictsInv
<1>2. ReconciliationInv /\ [ReconciliationNext]_reconciliationVars => ReconciliationInv'
  <2> SUFFICES ASSUME ReconciliationInv, [ReconciliationNext]_reconciliationVars PROVE ReconciliationInv'
    OBVIOUS
  <2> DEFINE SourcesContribute == \A p \in points : p.source \in p.contributors
  <2>1. AnswerInv /\ GroupsInv /\ PointsAreSound /\ ConflictsInv /\ SourcesContribute
    BY DEF ReconciliationInv
  <2>2. AnswerInv'
    BY <2>1, AnswerStep
  <2>3. CASE Call \/ Accept \/ Complain \/ ValidateIds
    <3>1. phase' \in {"call", "review", "validate", "raised", "groups"}
      BY <2>3 DEF Call, Accept, Complain, ValidateIds
    <3>2. /\ phase \in {"call", "review", "validate"}
          /\ UNCHANGED building
      BY <2>3 DEF Call, Accept, Complain, ValidateIds
    <3>3. index' = 1 /\ points' = {} /\ rejected' = {} /\ accounted' = {}
      BY <2>1, <3>2 DEF AnswerInv, building
    <3>4. GroupsInv' /\ PointsAreSound' /\ SourcesContribute'
      BY <3>1, <3>3 DEF GroupsInv, PointsAreSound, Kept, Before, Earlier
    <3>5. QED
      BY <2>2, <3>1, <3>4 DEF ReconciliationInv, ConflictsInv
  <2>4. CASE KeepGroup
    <3>1. GroupsInv' /\ PointsAreSound' /\ SourcesContribute'
      BY <2>1, <2>4, KeepStep
    <3>2. phase' = "groups"
      BY <2>4 DEF KeepGroup
    <3>3. QED
      BY <2>2, <3>1, <3>2 DEF ReconciliationInv, ConflictsInv
  <2>5. CASE RejectGroup
    <3>1. GroupsInv' /\ points' = points
      BY <2>1, <2>5, RejectStep
    <3>2. phase' = "groups"
      BY <2>5 DEF RejectGroup
    <3>3. QED
      BY <2>1, <2>2, <3>1, <3>2 DEF ReconciliationInv, ConflictsInv, PointsAreSound
  <2>6. CASE RejectListed \/ RejectRest
    <3>1. GroupsInv' /\ points' = points
      BY <2>1, <2>6, RestStep
    <3>2. phase' # "done"
      BY <2>6 DEF RejectListed, RejectRest
    <3>3. QED
      BY <2>1, <2>2, <3>1, <3>2 DEF ReconciliationInv, ConflictsInv, PointsAreSound
  <2>7. CASE MarkConflicts
    <3>1. /\ UNCHANGED <<batch, index, points, rejected>> /\ phase = "marking" /\ phase' = "done"
          /\ conflicting' = UNION {Conflicting(field) : field \in Field}
      BY <2>7 DEF MarkConflicts, asking
    <3>2. /\ Kept' = Kept /\ Earlier' = Earlier /\ Before' = Before /\ PointsAreSound'
          /\ \A field : Conflicting(field)' = Conflicting(field)
      BY <2>1, <3>1, BuiltStands
    <3>3. GroupsInv'
      BY <2>1, <3>1, <3>2 DEF GroupsInv, Mixed
    <3>4. ConflictsInv'
      BY <3>1, <3>2 DEF ConflictsInv
    <3>5. QED
      BY <2>1, <2>2, <3>1, <3>2, <3>3, <3>4 DEF ReconciliationInv
  <2>8. CASE UNCHANGED reconciliationVars
    <3>1. /\ UNCHANGED <<batch, index, points, rejected, accounted, conflicting, phase>>
      BY <2>8 DEF reconciliationVars, asking
    <3>2. /\ Kept' = Kept /\ Earlier' = Earlier /\ Before' = Before /\ PointsAreSound'
          /\ \A field : Conflicting(field)' = Conflicting(field)
      BY <2>1, <3>1, BuiltStands
    <3>3. GroupsInv' /\ ConflictsInv'
      BY <2>1, <3>1, <3>2 DEF GroupsInv, ConflictsInv, Mixed
    <3>4. QED
      BY <2>1, <2>2, <3>1, <3>2, <3>3 DEF ReconciliationInv
  <2>9. QED
    BY <2>3, <2>4, <2>5, <2>6, <2>7, <2>8 DEF ReconciliationNext
<1>3. QED
  BY <1>1, <1>2, PTL DEF ReconciliationSpec

(* What is looked at below a group of the answer: all groups are.          *)
LEMMA AllGroupsAreBefore ==
  ASSUME AnswerInv, phase \in {"rest", "marking", "done"}
  PROVE  Before = DOMAIN batch.groups /\ Earlier = InGroups
<1>1. Before = DOMAIN batch.groups
  BY DEF AnswerInv, Before
<1>2. QED
  BY <1>1 DEF Earlier, InGroups

(* Every verified candidate contributes to a data point or is rejected,    *)
(* and both only where two groups of the answer share it.                  *)
THEOREM CandidatesAreAccounted == ReconciliationSpec => []EveryCandidateIsAccounted
<1>1. ReconciliationInv => EveryCandidateIsAccounted
  <2> SUFFICES ASSUME ReconciliationInv, phase \in {"marking", "done"}
               PROVE  EveryCandidateIsAccounted
    BY DEF EveryCandidateIsAccounted
  <2>1. Before = DOMAIN batch.groups
    BY AllGroupsAreBefore DEF ReconciliationInv
  <2>2. QED
    BY <2>1 DEF ReconciliationInv, GroupsInv, EveryCandidateIsAccounted
<1>2. QED
  BY <1>1, ReconciliationInvariant, PTL

(* No two data points share a contributor, each is about one approved      *)
(* field and has its value from the most specific contributor.             *)
THEOREM PointsAreAlwaysSound == ReconciliationSpec => []PointsAreSound
BY ReconciliationInvariant, PTL DEF ReconciliationInv

(* Of an accepted answer, only a group the code rejects loses a value that *)
(* disagrees with a data point.                                            *)
THEOREM NoDistinctValueIsDropped == ReconciliationSpec => []DistinctValuesAreKept
<1>1. ReconciliationInv => DistinctValuesAreKept
  <2> SUFFICES ASSUME ReconciliationInv, phase = "done", accepted,
                      NEW p \in points, NEW c \in Candidate \ Kept,
                      NEW d \in p.contributors, SameFieldDistinctValue(c, d)
               PROVE  \E i, j \in DOMAIN batch.groups :
                        /\ c \in batch.groups[i].contributors
                        /\ \/ j < i /\ batch.groups[i].contributors
                                         \cap batch.groups[j].contributors # {}
                           \/ Mixed(batch.groups[i])
    BY DEF DistinctValuesAreKept
  <2>1. AnswerInv /\ GroupsInv /\ PointsAreSound
    BY DEF ReconciliationInv
  <2>2. Before = DOMAIN batch.groups /\ Earlier = InGroups
    BY <2>1, AllGroupsAreBefore
  <2>3. d \in InGroups
    BY <2>1, <2>2 DEF GroupsInv, Kept
  <2>4. c \in InGroups
    BY <2>1, <2>3 DEF AnswerInv, OmittedValues
  <2>5. PICK i \in Before : c \in batch.groups[i].contributors
    BY <2>2, <2>4 DEF Earlier
  <2>6. FieldOf[c] \in Approved
    BY <2>1 DEF PointsAreSound, SameFieldDistinctValue
  <2>7. CASE Mixed(batch.groups[i])
    BY <2>2, <2>5, <2>7
  <2>8. CASE ~Mixed(batch.groups[i])
    <3>1. FieldOf[batch.groups[i].source] \in Approved
      BY <2>5, <2>6, <2>8 DEF Mixed
    <3>2. PICK j \in 1 .. i - 1 :
            batch.groups[i].contributors \cap batch.groups[j].contributors # {}
      BY <2>1, <2>5, <2>8, <3>1 DEF GroupsInv
    <3>3. j \in Before /\ j < i
      BY <2>1, <2>5, <3>2 DEF Before, AnswerInv
    <3>4. QED
      BY <2>2, <2>5, <3>2, <3>3
  <2>9. QED
    BY <2>7, <2>8
<1>2. QED
  BY <1>1, ReconciliationInvariant, PTL

(* Conflicts are marked on both sides, and nowhere else.                   *)
THEOREM ConflictsAreMarked == ReconciliationSpec => []ConflictsAreMutual
<1>1. ReconciliationInv => ConflictsAreMutual
  <2> SUFFICES ASSUME ReconciliationInv, phase = "done", NEW p \in points
               PROVE  p \in conflicting <=>
                        \E q \in points :
                          /\ FieldOf[q.source] = FieldOf[p.source]
                          /\ NoKey \notin {KeyOf[p.source], KeyOf[q.source]}
                          /\ KeyOf[q.source] # KeyOf[p.source]
    BY DEF ConflictsAreMutual
  <2>1. conflicting = UNION {Conflicting(field) : field \in Field}
    BY DEF ReconciliationInv, ConflictsInv
  <2>2. FieldOf[p.source] \in Field
    BY ReconciliationAssumption DEF ReconciliationInv, PointsAreSound
  <2>3. p \in conflicting <=> p \in Conflicting(FieldOf[p.source])
    BY <2>1, <2>2 DEF Conflicting, CanonicalPoints
  <2>4. QED
    BY <2>3 DEF Conflicting, CanonicalPoints
<1>2. QED
  BY <1>1, ReconciliationInvariant, PTL

-----------------------------------------------------------------------------
(* Several documents                                                       *)

(* The groups partition the data points: each has its source in the group  *)
(* of its claim, and a group is made of the data points of its claim.    *)
LEMMA GroupsCoverPoints ==
  ASSUME NEW data, NEW schemaOf
  PROVE  /\ UNION {g.sources : g \in FactGroups(data, schemaOf)} = data
         /\ \A g \in FactGroups(data, schemaOf) : g.sources # {} /\ \A p \in g.sources :
              p \in data /\ p.claim = g.claim /\ schemaOf[p.run] = g.schema
<1> DEFINE GroupOf(key) ==
      [schema |-> key[1], claim |-> key[2],
       sources |-> {p \in data : FactKey(p, schemaOf) = key}]
<1>1. ASSUME NEW g \in FactGroups(data, schemaOf), NEW p \in g.sources
      PROVE  p \in data /\ p.claim = g.claim /\ schemaOf[p.run] = g.schema
  <2>1. PICK q \in data : g = GroupOf(FactKey(q, schemaOf))
    BY DEF FactGroups
  <2>2. p \in data /\ FactKey(p, schemaOf) = FactKey(q, schemaOf)
    BY <2>1
  <2>3. FactKey(p, schemaOf)[1] = schemaOf[p.run] /\ FactKey(p, schemaOf)[2] = p.claim
    BY DEF FactKey
  <2>4. g.schema = FactKey(q, schemaOf)[1] /\ g.claim = FactKey(q, schemaOf)[2]
    BY <2>1
  <2>5. QED
    BY <2>2, <2>3, <2>4
<1>2. ASSUME NEW p \in data
      PROVE  \E g \in FactGroups(data, schemaOf) : p \in g.sources
  <2>1. GroupOf(FactKey(p, schemaOf)) \in FactGroups(data, schemaOf)
    BY DEF FactGroups
  <2>2. p \in GroupOf(FactKey(p, schemaOf)).sources
    OBVIOUS
  <2>3. QED
    BY <2>1, <2>2
<1>3. ASSUME NEW g \in FactGroups(data, schemaOf) PROVE g.sources # {}
  <2>1. PICK q \in data : g = GroupOf(FactKey(q, schemaOf))
    BY DEF FactGroups
  <2>2. q \in g.sources
    BY <2>1
  <2>3. QED
    BY <2>2
<1>4. QED
  BY <1>1, <1>2, <1>3

(* A group is determined by its schema and its claim.                      *)
LEMMA GroupsAreKeyed ==
  ASSUME NEW data, NEW schemaOf,
         NEW g \in FactGroups(data, schemaOf), NEW h \in FactGroups(data, schemaOf),
         g.schema = h.schema, g.claim = h.claim
  PROVE  g = h
<1> DEFINE GroupOf(key) ==
      [schema |-> key[1], claim |-> key[2],
       sources |-> {p \in data : FactKey(p, schemaOf) = key}]
<1>1. PICK p \in data : g = GroupOf(FactKey(p, schemaOf))
  BY DEF FactGroups
<1>2. PICK q \in data : h = GroupOf(FactKey(q, schemaOf))
  BY DEF FactGroups
<1>3. FactKey(p, schemaOf) = FactKey(q, schemaOf)
  <2>1. schemaOf[p.run] = schemaOf[q.run]
    BY <1>1, <1>2 DEF FactKey
  <2>2. p.claim = q.claim
    BY <1>1, <1>2 DEF FactKey
  <2>3. QED
    BY <2>1, <2>2 DEF FactKey
<1>4. QED
  BY <1>1, <1>2, <1>3

(* Two data points with canonical values are in one conflict exactly when  *)
(* they are of one schema and field and claim different values: no         *)
(* disagreement is lost, and none is made up.                              *)
THEOREM ConflictsAreExact ==
  ASSUME NEW data, NEW schemaOf, NEW p \in data, NEW q \in data
  PROVE  (\E conflict \in Conflicts(FactGroups(data, schemaOf)) :
            \E g, h \in conflict : g # h /\ p \in g.sources /\ q \in h.sources)
         <=> /\ schemaOf[p.run] = schemaOf[q.run] /\ p.claim.field = q.claim.field
             /\ IsCanonical(p.claim) /\ IsCanonical(q.claim) /\ p.claim # q.claim
<1> DEFINE groups == FactGroups(data, schemaOf)
           Alike(g) == {h \in Comparable(groups) : SameField(g, h)}
<1>1. ASSUME NEW conflict \in Conflicts(groups), NEW g \in conflict,
             NEW h \in conflict, g # h, p \in g.sources, q \in h.sources
      PROVE  /\ schemaOf[p.run] = schemaOf[q.run] /\ p.claim.field = q.claim.field
             /\ IsCanonical(p.claim) /\ IsCanonical(q.claim) /\ p.claim # q.claim
  <2>1. PICK f \in Comparable(groups) : conflict = Alike(f)
    BY DEF Conflicts
  <2>2. /\ g \in groups /\ h \in groups
        /\ IsCanonical(g.claim) /\ IsCanonical(h.claim)
        /\ SameField(f, g) /\ SameField(f, h)
    BY <2>1 DEF Comparable
  <2>3. /\ g.schema = h.schema /\ g.claim.field = h.claim.field
    BY <2>2 DEF SameField
  <2>4. g.claim # h.claim
    BY <1>1, <2>2, <2>3, GroupsAreKeyed
  <2>5. /\ p.claim = g.claim /\ schemaOf[p.run] = g.schema
        /\ q.claim = h.claim /\ schemaOf[q.run] = h.schema
    BY <1>1, <2>2, GroupsCoverPoints
  <2>6. QED
    BY <2>2, <2>3, <2>4, <2>5
<1>2. ASSUME schemaOf[p.run] = schemaOf[q.run], p.claim.field = q.claim.field,
             IsCanonical(p.claim), IsCanonical(q.claim), p.claim # q.claim
      PROVE  \E conflict \in Conflicts(groups) :
               \E g, h \in conflict : g # h /\ p \in g.sources /\ q \in h.sources
  <2>1. PICK g \in groups : p \in g.sources
    BY GroupsCoverPoints
  <2>2. PICK h \in groups : q \in h.sources
    BY GroupsCoverPoints
  <2>3. /\ p.claim = g.claim /\ schemaOf[p.run] = g.schema
        /\ q.claim = h.claim /\ schemaOf[q.run] = h.schema
    BY <2>1, <2>2, GroupsCoverPoints
  <2>4. g \in Comparable(groups) /\ h \in Comparable(groups)
    BY <1>2, <2>3 DEF Comparable
  <2>5. g \in Alike(g) /\ h \in Alike(g) /\ g # h
    BY <1>2, <2>3, <2>4 DEF SameField
  <2>6. Alike(g) \in Conflicts(groups)
    BY <2>4, <2>5 DEF Conflicts
  <2>7. QED
    BY <2>1, <2>2, <2>5, <2>6
<1>3. QED
  BY <1>1, <1>2

(* A group is in one conflict at most, as conflict_ids_by_group_id holds.  *)
LEMMA ConflictsAreDisjoint ==
  ASSUME NEW groups, NEW c \in Conflicts(groups), NEW d \in Conflicts(groups),
         c \cap d # {}
  PROVE  c = d
<1>1. PICK f \in Comparable(groups) : c = {h \in Comparable(groups) : SameField(f, h)}
  BY DEF Conflicts
<1>2. PICK e \in Comparable(groups) : d = {h \in Comparable(groups) : SameField(e, h)}
  BY DEF Conflicts
<1>3. PICK g : g \in c /\ g \in d
  OBVIOUS
<1>4. SameField(f, g) /\ SameField(e, g)
  BY <1>1, <1>2, <1>3
<1>5. \A h : SameField(f, h) <=> SameField(e, h)
  BY <1>4 DEF SameField
<1>6. QED
  BY <1>1, <1>2, <1>5

-------------------------------------------------------------------------------
(* The result is made of the inputs, which do not change.                  *)
LEMMA ResultInvariant == InputsSpec => []ResultInv
<1>1. InputsInit => ResultInv
  BY DEF InputsInit, ResultInv
<1>2. ResultInv /\ [InputsNext]_inputsVars => ResultInv'
  <2> SUFFICES ASSUME ResultInv, [InputsNext]_inputsVars PROVE ResultInv'
    OBVIOUS
  <2>1. UNCHANGED inputs
    BY DEF InputsNext, ReconcileInputs, RefuseInputs, inputsVars
  <2>2. Prepared' = Prepared /\ Skipped' = Skipped
    BY <2>1 DEF inputs, Prepared, Skipped, Considered, SkippedRuns, SuppliedRuns,
                SkipReason, NoReason, MissingOutputs, PromisedOutputs
  <2>3. CASE ReconcileInputs
    BY <2>1, <2>2, <2>3 DEF ResultInv, ReconcileInputs, inputs
  <2>4. CASE RefuseInputs
    BY <2>1, <2>4 DEF ResultInv, RefuseInputs, inputs
  <2>5. CASE UNCHANGED inputsVars
    BY <2>1, <2>2, <2>5 DEF ResultInv, inputsVars, inputs
  <2>6. QED
    BY <2>3, <2>4, <2>5 DEF InputsNext
<1>3. QED
  BY <1>1, <1>2, PTL DEF InputsSpec

(* Every data point, and every output of a completed run, is in exactly    *)
(* one group or left out with a reason.                                    *)
THEOREM InputsAreAccounted == InputsSpec => []EveryInputIsAccounted
<1>1. ResultInv => EveryInputIsAccounted
  <2> SUFFICES ASSUME ResultInv, outcome = "returned" PROVE EveryInputIsAccounted
    BY DEF EveryInputIsAccounted
  <2>1. /\ result.groups = FactGroups(Prepared, schemas)
        /\ result.skipped = Skipped
    BY DEF ResultInv
  <2>2. ASSUME NEW p \in supplied
        PROVE  \/ \E g \in result.groups : /\ p \in g.sources
                                     /\ \A h \in result.groups \ {g} : p \notin h.sources
               \/ \E s \in result.skipped : s[1] = "data_point" /\ s[2] = p.id
               \/ \E s \in result.skipped : s[1] = "run" /\ s[2] = p.run
    <3>1. CASE p.run \in SkippedRuns
      <4>1. <<"run", p.run, "run_not_completed">> \in result.skipped
        BY <2>1, <3>1 DEF Skipped
      <4>2. QED
        BY <4>1
    <3>2. CASE p \in Considered \ Prepared
      <4>1. <<"data_point", p.id, SkipReason(p)>> \in result.skipped
        BY <2>1, <3>2 DEF Skipped
      <4>2. QED
        BY <4>1
    <3>3. CASE p \in Prepared
      <4>1. PICK g \in result.groups : p \in g.sources
        BY <2>1, <3>3, GroupsCoverPoints
      <4>2. ASSUME NEW h \in result.groups, p \in h.sources PROVE h = g
        <5>1. h.schema = g.schema /\ h.claim = g.claim
          BY <2>1, <4>1, <4>2, GroupsCoverPoints
        <5>2. QED
          BY <2>1, <5>1, GroupsAreKeyed
      <4>3. QED
        BY <4>1, <4>2
    <3>4. QED
      BY <3>1, <3>2, <3>3 DEF Considered
  <2>3. ASSUME NEW r \in InputRun, manifests[r] = "completed", NEW id \in OutputsOf[r]
        PROVE  \/ \E p \in supplied : p.id = id
               \/ \E s \in result.skipped : s[1] = "data_point" /\ s[2] = id
    <3>1. r \in SuppliedRuns \ SkippedRuns
      BY <2>3 DEF SuppliedRuns, SkippedRuns
    <3>2. CASE id \in MissingOutputs
      <4>1. <<"data_point", id, "missing_data_point">> \in result.skipped
        BY <2>1, <3>2 DEF Skipped
      <4>2. QED
        BY <4>1
    <3>3. CASE id \notin MissingOutputs
      <4>1. id \in PromisedOutputs
        BY <2>3, <3>1 DEF PromisedOutputs
      <4>2. id \in {p.id : p \in supplied}
        BY <3>3, <4>1 DEF MissingOutputs
      <4>3. QED
        BY <4>2
    <3>4. QED
      BY <3>2, <3>3
  <2>4. ASSUME NEW g \in result.groups
        PROVE  g.sources # {} /\ \A p \in g.sources :
                 /\ p \in supplied /\ manifests[p.run] # "running"
                 /\ documentOf[p.run] \in documents
    <3>1. g.sources # {} /\ g.sources \subseteq Prepared
      BY <2>1, GroupsCoverPoints
    <3>2. ASSUME NEW p \in Prepared
          PROVE  /\ p \in supplied /\ manifests[p.run] # "running"
                 /\ documentOf[p.run] \in documents
      <4>1. p \in supplied /\ p.run \in InputRun /\ p.run \notin SkippedRuns
        BY <3>2 DEF Prepared, Considered, ResultInv, SuppliedPoint
      <4>2. manifests[p.run] # "running"
        BY <4>1 DEF SkippedRuns, SuppliedRuns
      <4>3. documentOf[p.run] \in documents
        BY <3>2 DEF Prepared, SkipReason, NoReason
      <4>4. QED
        BY <4>1, <4>2, <4>3
    <3>3. QED
      BY <3>1, <3>2
  <2>5. QED
    BY <2>2, <2>3, <2>4 DEF EveryInputIsAccounted
<1>2. QED
  BY <1>1, ResultInvariant, PTL

(* No disagreement between canonical values is lost and none is made up.   *)
THEOREM DisagreementsAreFound == InputsSpec => []ConflictsAreDisagreements
<1>1. ResultInv => ConflictsAreDisagreements
  <2> SUFFICES ASSUME ResultInv PROVE ConflictsAreDisagreements
    OBVIOUS
  <2> DEFINE used == UNION {g.sources : g \in result.groups}
  <2>1. CASE outcome # "returned"
    <3>1. result.groups = {} /\ result.conflicts = {}
      BY <2>1 DEF ResultInv
    <3>2. QED
      BY <3>1 DEF ConflictsAreDisagreements
  <2>2. CASE outcome = "returned"
    <3>1. /\ result.groups = FactGroups(Prepared, schemas)
          /\ result.conflicts = Conflicts(FactGroups(Prepared, schemas))
      BY <2>2 DEF ResultInv
    <3>2. used = Prepared /\ Prepared \subseteq SuppliedPoint
      <4>1. UNION {g.sources : g \in FactGroups(Prepared, schemas)} = Prepared
        BY GroupsCoverPoints
      <4>2. Prepared \subseteq supplied
        BY DEF Prepared, Considered
      <4>3. QED
        BY <3>1, <4>1, <4>2 DEF ResultInv
    <3>3. ASSUME NEW p \in Prepared, NEW q \in Prepared
          PROVE  Disagree(p, q) <=> InConflict(p, q)
      <4>1. p.claim \in Claim /\ q.claim \in Claim
        BY <3>2 DEF SuppliedPoint
      <4>2. Disagree(p, q) <=>
              /\ schemas[p.run] = schemas[q.run] /\ p.claim.field = q.claim.field
              /\ IsCanonical(p.claim) /\ IsCanonical(q.claim) /\ p.claim # q.claim
        BY <4>1, InputsAssumption DEF Disagree, IsCanonical
      <4>3. QED
        BY <3>1, <4>2, ConflictsAreExact DEF InConflict
    <3>4. ASSUME NEW c \in result.conflicts, NEW d \in result.conflicts, c # d
          PROVE  c \cap d = {}
      BY <3>1, <3>4, ConflictsAreDisjoint
    <3>5. QED
      BY <3>2, <3>3, <3>4 DEF ConflictsAreDisagreements
  <2>3. QED
    BY <2>1, <2>2
<1>2. QED
  BY <1>1, ResultInvariant, PTL

-----------------------------------------------------------------------------
(* The groups of typed data points are typed.                              *)
LEMMA GroupsAreGroups ==
  ASSUME NEW returned \in SUBSET Point
  PROVE  FactGroups(returned, TheSchema) \in SUBSET Groups
<1> SUFFICES ASSUME NEW p \in returned
             PROVE  FactKey(p, TheSchema)[1] \in {"schema"}
                    /\ FactKey(p, TheSchema)[2] \in Claim
  BY DEF FactGroups, Groups, FactKey
<1>1. p \in Point
  OBVIOUS
<1>2. QED
  BY <1>1 DEF FactKey, TheSchema, Point

-----------------------------------------------------------------------------
(* The types. *)
LEMMA TypeStep == TypeOK /\ [Next]_vars => TypeOK'
<1> SUFFICES ASSUME TypeOK, [Next]_vars PROVE TypeOK'
  OBVIOUS
<1> USE BatchAssumption DEF TypeOK, Move, Mine, stored, Guarded
<1>1. ASSUME NEW b \in Batch, InputCompletes(b) PROVE TypeOK'
  <2>1. next[b] \in Source /\ <<b, next[b]>> \in Run
    BY <1>1 DEF InputCompletes, Source, Run
  <2>2. PICK claims \in SUBSET Claim :
          LET returned == {[run |-> <<b, next[b]>>, doc |-> docOf[next[b]],
                          claim |-> c] : c \in claims}
          IN  /\ runs' = [runs EXCEPT ![<<b, next[b]>>] = "completed"]
              /\ dataPoints' = dataPoints \cup returned
              /\ results' = [results EXCEPT ![b] = @ \cup returned]
    BY <1>1 DEF InputCompletes
  <2> DEFINE returned == {[run |-> <<b, next[b]>>, doc |-> docOf[next[b]],
                         claim |-> c] : c \in claims}
  <2>3. returned \in SUBSET Point
    BY <2>1 DEF Point
  <2> HIDE DEF returned
  <2>4. dataPoints' \in SUBSET Point /\ results' \in [Batch -> SUBSET Point]
    BY <2>2, <2>3 DEF returned
  <2>5. runs' \in [Run -> {"none", "completed", "stopped"}]
    BY <2>2
  <2>6. next' \in [Batch -> 1 .. SourceCount + 1]
    BY <1>1 DEF InputCompletes
  <2>7. UNCHANGED <<docOf, manifest, recorded, report, pc, computed, reopened>>
    BY <1>1 DEF InputCompletes
  <2>8. QED
    BY <2>4, <2>5, <2>6, <2>7
<1>2. ASSUME NEW b \in Batch, InputStops(b) PROVE TypeOK'
  BY <1>2 DEF InputStops
<1>3. ASSUME NEW b \in Batch, ValidateDistinctDocuments(b) PROVE TypeOK'
  BY <1>3 DEF ValidateDistinctDocuments
<1>4. ASSUME NEW b \in Batch, RecordManifest(b) PROVE TypeOK'
  BY <1>4 DEF RecordManifest
<1>5. ASSUME NEW b \in Batch, Reconcile(b) PROVE TypeOK'
  <2>1. FactGroups(results[b], TheSchema) \in SUBSET Groups
    BY GroupsAreGroups
  <2>2. QED
    BY <1>5, <2>1 DEF Reconcile
<1>6. ASSUME NEW b \in Batch, RecordResult(b) PROVE TypeOK'
  BY <1>6 DEF RecordResult
<1>7. ASSUME NEW b \in Batch, WriteReport(b) PROVE TypeOK'
  BY <1>7 DEF WriteReport
<1>8. ASSUME NEW b \in Batch, CompleteManifest(b) PROVE TypeOK'
  BY <1>8 DEF CompleteManifest
<1>9. ASSUME NEW b \in Batch, MarkFailed(b) PROVE TypeOK'
  BY <1>9 DEF MarkFailed
<1>10. ASSUME NEW b \in Batch, Raise(b) PROVE TypeOK'
  BY <1>10 DEF Raise
<1>11. ASSUME NEW b \in Batch, Crash(b) PROVE TypeOK'
  BY <1>11 DEF Crash
<1>12. ASSUME NEW r \in Run, PrepareResume(r) PROVE TypeOK'
  BY <1>12 DEF PrepareResume
<1>13. CASE UNCHANGED vars
  BY <1>13 DEF vars
<1>14. QED
  BY <1>1, <1>2, <1>3, <1>4, <1>5, <1>6, <1>7, <1>8, <1>9, <1>10, <1>11, <1>12,
     <1>13 DEF Next, Step, Fault

(* Every variable has its type, for any batches, sources and claims.       *)
THEOREM TypeCorrect == Spec => []TypeOK
<1>1. Init => TypeOK
  BY BatchAssumption DEF Init, TypeOK, NoManifest, Nothing, Guarded
<1>2. QED
  BY <1>1, TypeStep, PTL DEF Spec

-----------------------------------------------------------------------------
(* A step of any batch keeps what every batch knows of the store.          *)
LEMMA BatchStep == TypeOK /\ BatchInv /\ [Next]_vars => BatchInv'
<1> SUFFICES ASSUME TypeOK, BatchInv, [Next]_vars PROVE BatchInv'
  OBVIOUS
<1> USE DEF TypeOK, BatchInv, OwnerInv, CompletedInv, AtOrPast, Move, Mine,
            stored, Guarded, DocumentsAreDistinct
<1>1. ASSUME NEW b \in Batch, InputCompletes(b) PROVE BatchInv'
  <2>1. \A c \in Batch \ {b} : results'[c] = results[c]
    BY <1>1 DEF InputCompletes
  <2>2. UNCHANGED <<docOf, manifest, recorded, report, pc, computed>>
        /\ pc[b] = "inputs"
    BY <1>1 DEF InputCompletes
  <2>3. QED
    BY <2>1, <2>2
<1>2. ASSUME NEW b \in Batch, InputStops(b) PROVE BatchInv'
  BY <1>2 DEF InputStops
<1>3. ASSUME NEW b \in Batch, ValidateDistinctDocuments(b) PROVE BatchInv'
  BY <1>3 DEF ValidateDistinctDocuments
<1>4. ASSUME NEW b \in Batch, RecordManifest(b) PROVE BatchInv'
  <2>1. CASE IdIsFree
    <3>1. \A c \in Batch : pc[c] \notin Guarded \cup {"failing"}
      BY <2>1 DEF IdIsFree, NoManifest
    <3>2. /\ pc' = [pc EXCEPT ![b] = "reconcile"] /\ pc[b] = "record"
          /\ manifest' = Mine(b, "running", {})
          /\ UNCHANGED <<docOf, recorded, report, results, computed>>
      BY <1>4, <2>1 DEF RecordManifest
    <3>3. QED
      BY <3>1, <3>2
  <2>2. CASE ~IdIsFree
    BY <1>4, <2>2 DEF RecordManifest
  <2>3. QED
    BY <2>1, <2>2
<1>5. ASSUME NEW b \in Batch, Reconcile(b) PROVE BatchInv'
  BY <1>5 DEF Reconcile
<1>6. ASSUME NEW b \in Batch, RecordResult(b) PROVE BatchInv'
  BY <1>6 DEF RecordResult
<1>7. ASSUME NEW b \in Batch, WriteReport(b) PROVE BatchInv'
  BY <1>7 DEF WriteReport
<1>8. ASSUME NEW b \in Batch, CompleteManifest(b) PROVE BatchInv'
  BY <1>8 DEF CompleteManifest
<1>9. ASSUME NEW b \in Batch, MarkFailed(b) PROVE BatchInv'
  BY <1>9 DEF MarkFailed
<1>10. ASSUME NEW b \in Batch, Raise(b) PROVE BatchInv'
  BY <1>10 DEF Raise
<1>11. ASSUME NEW b \in Batch, Crash(b) PROVE BatchInv'
  BY <1>11 DEF Crash
<1>12. ASSUME NEW r \in Run, PrepareResume(r) PROVE BatchInv'
  BY <1>12 DEF PrepareResume
<1>13. CASE UNCHANGED vars
  BY <1>13 DEF vars
<1>14. QED
  BY <1>1, <1>2, <1>3, <1>4, <1>5, <1>6, <1>7, <1>8, <1>9, <1>10, <1>11, <1>12,
     <1>13 DEF Next, Step, Fault

(* The manifest is its batch's own until that batch settles it.            *)
THEOREM BatchInvariant == Spec => []BatchInv
<1>1. Init => BatchInv
  BY DEF Init, BatchInv, OwnerInv, CompletedInv, AtOrPast, NoManifest, Guarded
<1>2. QED
  BY <1>1, BatchStep, TypeCorrect, PTL DEF Spec

(* A run of a batch is new when it completes, so completing it never hides *)
(* that the script has cleared another one.                                *)
LEMMA StoredStep ==
  TypeOK /\ (\A b \in Batch : StoredInv(b)) /\ [Next]_vars
    => (\A b \in Batch : StoredInv(b))'
<1> SUFFICES ASSUME TypeOK, \A b \in Batch : StoredInv(b), [Next]_vars,
                    NEW c \in Batch, NEW p \in results'[c]
             PROVE  /\ p.run[1] = c /\ p.run[2] < next'[c]
                    /\ p \in dataPoints' \/ runs'[p.run] = "stopped"
  BY DEF StoredInv
<1> DEFINE Known(q) == /\ q.run[1] = c /\ q.run[2] < next[c]
                       /\ q \in dataPoints \/ runs[q.run] = "stopped"
<1>1. \A q \in results[c] : Known(q) /\ q \in Point /\ q.run \in Run
  BY DEF StoredInv, TypeOK, Point
<1>2. next[c] \in Nat
  BY BatchAssumption DEF TypeOK
<1>3. ASSUME NEW b \in Batch, InputCompletes(b)
      PROVE  /\ p.run[1] = c /\ p.run[2] < next'[c]
             /\ p \in dataPoints' \/ runs'[p.run] = "stopped"
  <2> DEFINE run == <<b, next[b]>>
  <2>1. PICK claims \in SUBSET Claim :
          LET returned == {[run |-> run, doc |-> docOf[next[b]],
                          claim |-> d] : d \in claims}
          IN  /\ runs' = [runs EXCEPT ![run] = "completed"]
              /\ dataPoints' = dataPoints \cup returned
              /\ results' = [results EXCEPT ![b] = @ \cup returned]
    BY <1>3 DEF InputCompletes
  <2> DEFINE returned == {[run |-> run, doc |-> docOf[next[b]],
                         claim |-> d] : d \in claims}
  <2>2. next' = [next EXCEPT ![b] = @ + 1] /\ next \in [Batch -> 1 .. SourceCount + 1]
    BY <1>3 DEF InputCompletes, TypeOK
  <2>3. next'[c] >= next[c] /\ next'[b] = next[b] + 1 /\ next[b] \in Nat
    BY <2>2, <1>2, BatchAssumption
  <2>4. CASE p \in results[c]
    <3>1. Known(p) /\ p.run \in Run
      BY <2>4, <1>1
    <3>2. p.run # run
      BY <3>1, <2>3
    <3>3. runs'[p.run] = runs[p.run]
      BY <2>1, <3>2, <3>1 DEF TypeOK
    <3>4. p.run[2] \in Nat
      BY <3>1 DEF Run, Source
    <3>5. p.run[2] < next'[c]
      BY <3>1, <3>4, <2>3, <1>2, <2>2, BatchAssumption
    <3>6. QED
      BY <2>1, <3>1, <3>3, <3>5
  <2>5. CASE p \notin results[c]
    <3> HIDE DEF run
    <3>1. c = b /\ p \in returned
      BY <2>5, <2>1 DEF TypeOK
    <3>2. p.run = run
      BY <3>1
    <3>3. p.run[1] = b /\ p.run[2] = next[b]
      BY <3>2 DEF run
    <3>4. p \in dataPoints'
      BY <2>1, <3>1
    <3>5. QED
      BY <3>1, <3>3, <3>4, <2>3
  <2>6. QED
    BY <2>4, <2>5
<1>4. ASSUME NEW b \in Batch, InputStops(b)
      PROVE  /\ p.run[1] = c /\ p.run[2] < next'[c]
             /\ p \in dataPoints' \/ runs'[p.run] = "stopped"
  BY <1>4, <1>1 DEF InputStops, stored, TypeOK
<1>5. ASSUME NEW r \in Run, PrepareResume(r)
      PROVE  /\ p.run[1] = c /\ p.run[2] < next'[c]
             /\ p \in dataPoints' \/ runs'[p.run] = "stopped"
  BY <1>5, <1>1 DEF PrepareResume, TypeOK
<1>6. ASSUME UNCHANGED <<dataPoints, runs, next, results>>
      PROVE  /\ p.run[1] = c /\ p.run[2] < next'[c]
             /\ p \in dataPoints' \/ runs'[p.run] = "stopped"
  BY <1>6, <1>1
<1>7. ASSUME NEW b \in Batch,
             \/ ValidateDistinctDocuments(b) \/ RecordManifest(b) \/ Reconcile(b)
             \/ RecordResult(b) \/ WriteReport(b) \/ CompleteManifest(b)
             \/ MarkFailed(b) \/ Raise(b) \/ Crash(b)
      PROVE  UNCHANGED <<dataPoints, runs, next, results>>
  BY <1>7 DEF ValidateDistinctDocuments, RecordManifest, Reconcile, RecordResult,
              WriteReport, CompleteManifest, MarkFailed, Raise, Crash, stored
<1>8. UNCHANGED vars => UNCHANGED <<dataPoints, runs, next, results>>
  BY DEF vars, stored
<1>9. QED
  BY <1>3, <1>4, <1>5, <1>6, <1>7, <1>8 DEF Next, Step, Fault

(* What a batch works with was stored by its own runs.                     *)
THEOREM ResultsAreStored == Spec => [](\A b \in Batch : StoredInv(b))
<1>1. Init => \A b \in Batch : StoredInv(b)
  BY DEF Init, StoredInv
<1>2. QED
  BY <1>1, StoredStep, TypeCorrect, PTL DEF Spec

(* A completed cross-document run is one batch's work: its manifest, its   *)
(* result and its report agree, over distinct documents and all the data   *)
(* points its runs returned, which are stored as long as nobody clears     *)
(* their run.                                                              *)
THEOREM CompletedIsFaithful == Spec => []CompletedBatchIsFaithful
<1>1. BatchInv /\ (\A b \in Batch : StoredInv(b)) => CompletedBatchIsFaithful
  <2> SUFFICES ASSUME BatchInv, \A b \in Batch : StoredInv(b),
                      manifest.status = "completed"
               PROVE  CompletedBatchIsFaithful
    BY DEF CompletedBatchIsFaithful
  <2> DEFINE own == results[manifest.by]
  <2>1. manifest.by \in Batch /\ manifest.groups = FactGroups(own, TheSchema)
    BY DEF BatchInv, CompletedInv
  <2>2. ASSUME NEW p \in own PROVE \E g \in manifest.groups : p \in g.sources
    <3> DEFINE key == FactKey(p, TheSchema)
               alike == {q \in own : FactKey(q, TheSchema) = key}
    <3>1. [schema |-> key[1], claim |-> key[2], sources |-> alike] \in manifest.groups
      BY <2>1 DEF FactGroups
    <3>2. p \in alike
      OBVIOUS
    <3>3. QED
      BY <3>1, <3>2
  <2>3. ASSUME NEW g \in manifest.groups, NEW p \in g.sources
        PROVE  p \in own /\ p.claim = g.claim
    BY <2>1 DEF FactGroups, FactKey
  <2>4. \A p \in own : p \in dataPoints \/ runs[p.run] = "stopped"
    BY <2>1 DEF StoredInv
  <2>5. QED
    BY <2>2, <2>3, <2>4
    DEF BatchInv, CompletedInv, CompletedBatchIsFaithful, DocumentsAreDistinct
<1>2. QED
  BY <1>1, BatchInvariant, ResultsAreStored, PTL

-----------------------------------------------------------------------------
(* One step of OneBatchOwnsTheRun. *)
OwnedStep ==
  manifest # NoManifest =>
    /\ manifest'.by = manifest.by
    /\ manifest.status = "completed" => UNCHANGED <<manifest, recorded, report>>

LEMMA StepIsOwned == TypeOK /\ BatchInv /\ [Next]_vars => OwnedStep
<1> SUFFICES ASSUME TypeOK, BatchInv, [Next]_vars PROVE OwnedStep
  OBVIOUS
<1> USE DEF OwnedStep, BatchInv, OwnerInv, AtOrPast, Move, Mine, Guarded, stored
<1>1. ASSUME NEW b \in Batch, RecordManifest(b) PROVE OwnedStep
  BY <1>1 DEF RecordManifest, IdIsFree
<1>2. ASSUME NEW b \in Batch, RecordResult(b) PROVE OwnedStep
  BY <1>2 DEF RecordResult
<1>3. ASSUME NEW b \in Batch, WriteReport(b) PROVE OwnedStep
  BY <1>3 DEF WriteReport
<1>4. ASSUME NEW b \in Batch, CompleteManifest(b) PROVE OwnedStep
  BY <1>4 DEF CompleteManifest
<1>5. ASSUME NEW b \in Batch, MarkFailed(b) PROVE OwnedStep
  BY <1>5 DEF MarkFailed
<1>6. ASSUME UNCHANGED <<manifest, recorded, report>> PROVE OwnedStep
  BY <1>6
<1>7. ASSUME NEW b \in Batch,
             \/ InputCompletes(b) \/ InputStops(b) \/ ValidateDistinctDocuments(b)
             \/ Reconcile(b) \/ Raise(b) \/ Crash(b)
      PROVE  UNCHANGED <<manifest, recorded, report>>
  BY <1>7 DEF InputCompletes, InputStops, ValidateDistinctDocuments, Reconcile,
              Raise, Crash
<1>8. ASSUME NEW r \in Run, PrepareResume(r)
      PROVE  UNCHANGED <<manifest, recorded, report>>
  BY <1>8 DEF PrepareResume
<1>9. QED
  BY <1>1, <1>2, <1>3, <1>4, <1>5, <1>6, <1>7, <1>8 DEF Next, Step, Fault, vars

(* No batch takes over or revokes what another has recorded under the same *)
(* cross-document run id.                                                  *)
THEOREM OneOwner == Spec => OneBatchOwnsTheRun
<1>1. OwnedStep => [manifest # NoManifest =>
       /\ manifest'.by = manifest.by
       /\ manifest.status = "completed" => UNCHANGED <<manifest, recorded, report>>]_vars
  BY DEF OwnedStep
<1>2. QED
  BY <1>1, StepIsOwned, TypeCorrect, BatchInvariant, PTL DEF Spec, OneBatchOwnsTheRun
=============================================================================
