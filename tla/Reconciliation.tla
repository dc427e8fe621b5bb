--------------------------- MODULE Reconciliation ---------------------------
(***************************************************************************)
(* reconcile_candidates: the calls for the model's answer, with the        *)
(* complaints that have it repeat the whole answer, the data points and    *)
(* rejections build_reconciliation_result makes of the answer's groups,    *)
(* and the marking of conflicting data points.  The state is the local     *)
(* state of the functions; the steps are the iterations of their loops.    *)
(*                                                                         *)
(* Bound: MaxGroups limits the groups of an answer.                        *)
(***************************************************************************)
EXTENDS Naturals, Sequences

CONSTANTS
  Candidate,    \* the verified candidates
  Field,        \* pairs of a category and a field name
  Approved,     \* the fields of the extraction plan
  FieldOf,
  RankOf,       \* candidate_source_specificity_rank: least is most specific
  KeyOf,        \* canonical value key, or NoKey when not canonicalized
  NoKey,
  MaxRetries,
  MaxGroups

ASSUME ReconciliationAssumption ==
  /\ FieldOf \in [Candidate -> Field] /\ Approved \subseteq Field
  /\ RankOf \in [Candidate -> Nat]
  /\ \A c, d \in Candidate : RankOf[c] = RankOf[d] => c = d
  /\ MaxRetries \in Nat /\ MaxGroups \in Nat

VARIABLES
  retries,     \* what is left of MaxRetries; 0 with a provider without retries
  batch,       \* the model's answer
  accepted,    \* has it been validated, without complaints
  index,       \* index of the next group
  points,      \* the data points built
  rejected,    \* rejections_by_candidate_id
  accounted,   \* accounted_ids
  conflicting, \* the data points marked as unresolved conflict
  phase

asking == <<retries, batch, accepted>>
reconciliationVars == <<asking, index, points, rejected, accounted, conflicting, phase>>

(* The model validator: the source contributes, contributors are unique.   *)
Group ==
  {g \in [source : Candidate, contributors : SUBSET Candidate] :
     g.source \in g.contributors}

ReconciliationBatch ==
  [groups : UNION {[1 .. n -> Group] : n \in 0 .. MaxGroups},
   listed : SUBSET Candidate,       \* the ids the model rejects
   known : BOOLEAN]                 \* does it name known candidates only

NoBatch == [groups |-> <<>>, listed |-> {}, known |-> FALSE]

ReconciliationInit ==
  /\ retries \in {0, MaxRetries}
  /\ batch = NoBatch /\ accepted = FALSE
  /\ index = 1
  /\ points = {} /\ rejected = {} /\ accounted = {} /\ conflicting = {}
  /\ phase = "call"

building == <<index, points, rejected, accounted, conflicting>>

(* The provider's answer, or its exception. *)
Call ==
  /\ phase = "call"
  /\ \/ batch' \in ReconciliationBatch /\ phase' = IF retries > 0 THEN "review" ELSE "validate"
     \/ batch' = batch /\ phase' = "raised"
  /\ UNCHANGED <<retries, accepted, building>>

-----------------------------------------------------------------------------
(* validate_reconciliation_batch.                                          *)

InGroups == UNION {batch.groups[i].contributors : i \in DOMAIN batch.groups}

SameFieldDistinctValue(c, d) ==
  /\ FieldOf[c] = FieldOf[d]
  /\ NoKey \notin {KeyOf[c], KeyOf[d]}
  /\ KeyOf[c] # KeyOf[d]

(* Variant: only those the answer rejects, not those it omits. *)
ListedValues ==
  {c \in batch.listed \ InGroups : \E d \in InGroups : SameFieldDistinctValue(c, d)}

(* Candidates left out although they disagree with one that was not.       *)
OmittedValues ==
  {c \in Candidate \ InGroups : \E d \in InGroups : SameFieldDistinctValue(c, d)}

Accept ==
  /\ phase = "review"
  /\ batch.known /\ OmittedValues = {}
  /\ accepted' = TRUE
  /\ phase' = "validate"
  /\ UNCHANGED <<retries, batch, building>>

(* The answer is dropped: replace_reconciliation_batch takes the next one, *)
(* whole, which is reviewed only if there is a retry after it.             *)
Complain ==
  /\ phase = "review"
  /\ ~batch.known \/ OmittedValues # {}
  /\ retries' = retries - 1
  /\ batch' = NoBatch
  /\ phase' = "call"
  /\ UNCHANGED <<accepted, building>>

-----------------------------------------------------------------------------
(* expand_reconciliation_batch_ids: the model was given short ids.         *)
IdsResolve == batch.known

(* Unknown ids raise before anything is built: their expansion does, and   *)
(* _validate_output_candidate_ids again.                                   *)
ValidateIds ==
  /\ phase = "validate"
  /\ phase' = IF IdsResolve THEN "groups" ELSE "raised"
  /\ UNCHANGED <<asking, building>>

-----------------------------------------------------------------------------
(* _best_source_candidate_id: the most specific contributor of the field   *)
(* the model chose, whichever of them it chose.                            *)
SelectedSource(g) == g.source  \* variant: the model's choice stands
BestSource(g) ==
  CHOOSE c \in g.contributors :
    /\ FieldOf[c] = FieldOf[g.source]
    /\ \A d \in g.contributors :
         FieldOf[d] = FieldOf[g.source] => RankOf[c] <= RankOf[d]

Repeated(g) == g.contributors \cap accounted # {}
Mixed(g) == \E c \in g.contributors : FieldOf[c] # FieldOf[g.source]

(* _data_point_rejection_reasons *)
HasReasons(g) == FieldOf[g.source] \notin Approved \/ Repeated(g) \/ Mixed(g)

(* The value is the source's; spans, reports and the least confidence are  *)
(* those of the contributors.                                              *)
DataPoint(g) == [source |-> BestSource(g), contributors |-> g.contributors]

KeepGroup ==
  /\ phase = "groups" /\ index <= Len(batch.groups)
  /\ LET g == batch.groups[index] IN
       /\ ~HasReasons(g)
       /\ points' = points \cup {DataPoint(g)}
       /\ accounted' = accounted \cup g.contributors
  /\ index' = index + 1
  /\ UNCHANGED <<asking, rejected, conflicting, phase>>

RejectGroup ==
  /\ phase = "groups" /\ index <= Len(batch.groups)
  /\ LET g == batch.groups[index] IN
       /\ HasReasons(g)
       /\ rejected' = rejected \cup g.contributors
       /\ accounted' = accounted \cup g.contributors
  /\ index' = index + 1
  /\ UNCHANGED <<asking, points, conflicting, phase>>

ListedAnew == batch.listed \ accounted

RejectListed ==
  /\ phase = "groups" /\ index > Len(batch.groups)
  /\ rejected' = rejected \cup ListedAnew
  /\ accounted' = accounted \cup ListedAnew
  /\ phase' = "rest"
  /\ UNCHANGED <<asking, index, points, conflicting>>

NoRest == {}  \* variant: omitted candidates are dropped
Rest == Candidate \ accounted

RejectRest ==
  /\ phase = "rest"
  /\ rejected' = rejected \cup Rest
  /\ phase' = "marking"
  /\ UNCHANGED <<asking, index, points, accounted, conflicting>>

-----------------------------------------------------------------------------
(* mark_unresolved_conflicts: by field, the data points with a canonical   *)
(* value, if these values are not all the same.                            *)
AllOf(field) == {p \in points : FieldOf[p.source] = field}  \* variant
CanonicalPoints(field) ==
  {p \in points : FieldOf[p.source] = field /\ KeyOf[p.source] # NoKey}

Conflicting(field) ==
  LET group == CanonicalPoints(field) IN
  IF \E p, q \in group : KeyOf[p.source] # KeyOf[q.source] THEN group ELSE {}

MarkConflicts ==
  /\ phase = "marking"
  /\ conflicting' = UNION {Conflicting(field) : field \in Field}
  /\ phase' = "done"
  /\ UNCHANGED <<asking, index, points, rejected, accounted>>

ReconciliationNext ==
  \/ Call \/ Accept \/ Complain \/ ValidateIds
  \/ KeepGroup \/ RejectGroup \/ RejectListed \/ RejectRest \/ MarkConflicts

ReconciliationSpec == ReconciliationInit /\ [][ReconciliationNext]_reconciliationVars

-----------------------------------------------------------------------------
(* Properties. *)

Kept == UNION {p.contributors : p \in points}

(* Whatever the model answers, every verified candidate contributes to a   *)
(* data point or has a rejection when the function returns, and has both   *)
(* only if the model put it into several groups: naming it in the rejected *)
(* list as well does not reject it.                                        *)
EveryCandidateIsAccounted ==
  phase \in {"marking", "done"} =>
    /\ Candidate = Kept \cup rejected
    /\ \A c \in Kept \cap rejected :
         \E i, j \in DOMAIN batch.groups :
           i < j /\ c \in batch.groups[i].contributors \cap batch.groups[j].contributors

(* No candidate contributes to two data points; each is about one approved *)
(* field, and its value comes from the most specific contributor,          *)
(* whichever source the model named.                                       *)
PointsAreSound ==
  /\ \A p, q \in points : p # q => p.contributors \cap q.contributors = {}
  /\ \A p \in points : \A c \in p.contributors :
       /\ FieldOf[c] = FieldOf[p.source] /\ FieldOf[c] \in Approved
       /\ RankOf[p.source] <= RankOf[c]

(* Of an answer that was accepted, a value that disagrees with a data      *)
(* point is lost only with a group the code rejects because it overlaps an *)
(* earlier one or mixes fields: the model cannot leave it out or list it   *)
(* as rejected.  The last answer of an exhausted retry has no such claim.  *)
DistinctValuesAreKept ==
  phase = "done" /\ accepted =>
    \A p \in points, c \in Candidate \ Kept :
      (\E d \in p.contributors : SameFieldDistinctValue(c, d)) =>
        \E i, j \in DOMAIN batch.groups :
          /\ c \in batch.groups[i].contributors
          /\ \/ j < i /\ batch.groups[i].contributors
                           \cap batch.groups[j].contributors # {}
             \/ Mixed(batch.groups[i])

(* A data point is marked exactly when a data point of the same field has  *)
(* another canonical value, and then that one is marked as well.           *)
ConflictsAreMutual ==
  phase = "done" =>
    \A p \in points :
      p \in conflicting <=>
        \E q \in points :
          /\ FieldOf[q.source] = FieldOf[p.source]
          /\ NoKey \notin {KeyOf[p.source], KeyOf[q.source]}
          /\ KeyOf[q.source] # KeyOf[p.source]

-----------------------------------------------------------------------------
(* What makes them inductive: what is known before each group.             *)

Before == 1 .. index - 1
Earlier == UNION {batch.groups[i].contributors : i \in Before}

(* The answer is a list of groups, of which next is one or is past the     *)
(* last; nothing is built before the ids are validated, and only an answer *)
(* without complaints is an accepted one.                                  *)
AnswerInv ==
  /\ batch.groups \in Seq(Group) /\ batch.listed \subseteq Candidate
  /\ index \in 1 .. Len(batch.groups) + 1
  /\ phase \in {"call", "review", "validate", "raised"} =>
       index = 1 /\ points = {} /\ rejected = {} /\ accounted = {}
  /\ phase \in {"rest", "marking", "done"} => index = Len(batch.groups) + 1
  /\ accepted => phase \notin {"call", "review"} /\ OmittedValues = {}

(* The candidates of the groups gone through are those of the data points  *)
(* and those rejected; a group that made no data point was rejected for    *)
(* its field, for mixing fields or for overlapping an earlier one.         *)
GroupsInv ==
  /\ Kept \subseteq Earlier
  /\ phase = "groups" => accounted = Earlier /\ Earlier = Kept \cup rejected
  /\ phase = "rest" => accounted = Kept \cup rejected /\ accounted \subseteq Candidate
  /\ phase \in {"marking", "done"} => Candidate = Kept \cup rejected
  /\ \A i \in Before :
       \/ batch.groups[i].contributors \subseteq Kept
       \/ FieldOf[batch.groups[i].source] \notin Approved
       \/ Mixed(batch.groups[i])
       \/ \E j \in 1 .. i - 1 :
            batch.groups[i].contributors \cap batch.groups[j].contributors # {}
  /\ \A c \in Kept \cap rejected : \E i, j \in Before :
       i < j /\ c \in batch.groups[i].contributors \cap batch.groups[j].contributors

ConflictsInv ==
  phase = "done" => conflicting = UNION {Conflicting(field) : field \in Field}

ReconciliationInv ==
  /\ AnswerInv /\ GroupsInv /\ PointsAreSound /\ ConflictsInv
  /\ \A p \in points : p.source \in p.contributors
==============================================================================
