---------------------------- MODULE VerdictRetry ----------------------------
(***************************************************************************)
(* complete_structured_with_retry for one batch: an output with complaints *)
(* is sent back to the model, which is to correct the items complained     *)
(* about, and its correction is merged into the output so far.  The critic *)
(* names items by id (validate_critic_batch, merge_critic_batch), the      *)
(* executor by index (validate_executor_batch, merge_executor_batch).      *)
(*                                                                         *)
(* Bounds: MaxLength limits the items of a model output.                   *)
(***************************************************************************)
EXTENDS Naturals, Sequences, FiniteSets

CONSTANTS
  Expected,    \* the ids of the batch, in the critic
  Unknown,     \* an id that is not of the batch
  MaxRetries,  \* max_llm_attempts - 1
  MaxLength

ASSUME RetryAssumption ==
  /\ Unknown \notin Expected
  /\ MaxRetries \in Nat /\ MaxLength \in Nat

VARIABLES
  stage,       \* "critic" or "executor"
  output,      \* the output so far: a sequence of items
  response,    \* the last response of the model, not merged yet
  complaints,  \* ids or indices
  calls,       \* calls made so far
  ending,      \* "accepted", "merge error", "exhausted" or "raised"
  step

retrying == <<stage, output, response, complaints, calls, ending, step>>

(* An item of an output: the id it is about, whether validation finds it   *)
(* sound, and the call that gave it.  Ids mean nothing in the executor.    *)
Ids == Expected \cup {Unknown}
Items == [id : Ids, sound : BOOLEAN, call : 1 .. MaxRetries + 1]
ItemsOf(call) ==
  [id : IF stage = "critic" THEN Ids ELSE {Unknown}, sound : BOOLEAN,
   call : {call}]
Answers(call) == UNION {[1 .. n -> ItemsOf(call)] : n \in 0 .. MaxLength}

IdsOf(items) == {items[i].id : i \in DOMAIN items}

RetryInit ==
  /\ stage \in {"critic", "executor"}
  /\ output = <<>> /\ response = <<>>
  /\ complaints = {} /\ calls = 0
  /\ ending = "none" /\ step = "call"

FirstCall ==
  /\ step = "call"
  /\ calls' = 1
  /\ output' \in Answers(1)
  /\ step' = "validate"
  /\ UNCHANGED <<stage, response, complaints, ending>>

-----------------------------------------------------------------------------
(* What the stages complain about. *)

Omissions == Expected \ IdsOf(output)

CriticComplaints ==
  (IdsOf(output) \ Expected) \cup Omissions
    \cup {output[i].id : i \in {j \in DOMAIN output : ~output[j].sound}}
ExecutorComplaints == {i \in DOMAIN output : ~output[i].sound}
Complaints == IF stage = "critic" THEN CriticComplaints ELSE ExecutorComplaints

ReturnAs(why) == ending' = why /\ step' = "returned"

RetryLeft == calls <= MaxRetries

(* An exhausted output is not validated again. *)
Validate ==
  /\ step = "validate"
  /\ \/ ~RetryLeft /\ ReturnAs("exhausted") /\ UNCHANGED complaints
     \/ RetryLeft /\ Complaints = {} /\ ReturnAs("accepted") /\ UNCHANGED complaints
     \/ RetryLeft /\ Complaints # {} /\ complaints' = Complaints
        /\ step' = "retry" /\ UNCHANGED ending
  /\ UNCHANGED <<stage, output, response, calls>>

NextCall == calls + 1

RetryCall ==
  /\ step = "retry"
  /\ calls' = NextCall
  /\ response' \in Answers(NextCall)
  /\ step' = "merge"
  /\ UNCHANGED <<stage, output, complaints, ending>>

(* The provider fails, or the response is not one of the tool: whatever    *)
(* the calls before gave is lost with the exception.                       *)
RetryRaises ==
  /\ step \in {"call", "retry"}
  /\ ending' = "raised" /\ step' = "returned"
  /\ UNCHANGED <<stage, output, response, complaints, calls>>

-----------------------------------------------------------------------------
(* merge_critic_batch: exactly one item for each expected id complained    *)
(* about, put in the place of the item it corrects; unknown items go.  The *)
(* order in which missing verdicts are appended is that of the response.   *)

(* The place of a position among those of a set, and the way back.         *)
Place(positions, i) == Cardinality({j \in positions : j <= i})
Nth(positions, k) == CHOOSE i \in positions : Place(positions, i) = k

Known(item) == item.id \in Expected
KnownAt == {i \in DOMAIN output : Known(output[i])}
FixFor(id) == response[CHOOSE i \in DOMAIN response : response[i].id = id]

CriticFixes == IdsOf(response) = complaints \cap Expected
OnceEach == Cardinality(IdsOf(response)) = Len(response)

FixAll(item) ==  \* variant: the position decides, not the complaint
  IF response # <<>> THEN [response[1] EXCEPT !.id = item.id] ELSE item
FixOf(item) == IF item.id \in IdsOf(response) THEN FixFor(item.id) ELSE item

MergeKnown == {}  \* variant: verdicts that were missing stay out
MergeMissing == IdsOf(response) \ IdsOf(output)
MissingAt == {i \in DOMAIN response : response[i].id \in MergeMissing}

Fixed == [k \in 1 .. Cardinality(KnownAt) |-> FixOf(output[Nth(KnownAt, k)])]
Appended == [k \in 1 .. Cardinality(MissingAt) |-> response[Nth(MissingAt, k)]]
CriticMerged == Fixed \o Appended

(* merge_executor_batch: the corrections are taken in the order of the     *)
(* indices complained about.                                               *)
ExecutorFixes == Len(response) = Cardinality(complaints)
ExecutorMerged ==
  [i \in DOMAIN output |->
     IF i \in complaints THEN response[Place(complaints, i)] ELSE output[i]]

CanMerge == IF stage = "critic" THEN OnceEach /\ CriticFixes ELSE ExecutorFixes
Merged == IF stage = "critic" THEN CriticMerged ELSE ExecutorMerged

Merge ==
  /\ step = "merge"
  /\ CanMerge
  /\ output' = Merged
  /\ step' = "validate"
  /\ UNCHANGED <<stage, response, complaints, calls, ending>>

ResponseInstead == response  \* variant: the correction replaces the output
OutputSoFar == output

(* LLMRetryMergeError: the output so far is returned, complaints and all. *)
MergeError ==
  /\ step = "merge"
  /\ ~CanMerge
  /\ output' = OutputSoFar
  /\ ReturnAs("merge error")
  /\ UNCHANGED <<stage, response, complaints, calls>>

RetryNext ==
  FirstCall \/ Validate \/ RetryCall \/ RetryRaises \/ Merge \/ MergeError

RetrySpec == RetryInit /\ [][RetryNext]_retrying

-----------------------------------------------------------------------------
(* Properties. *)

(* The first verdict about an id, which is the one the critic stage takes. *)
VerdictOn(items, id) ==
  items[CHOOSE i \in DOMAIN items :
          items[i].id = id /\ \A j \in DOMAIN items : items[j].id = id => i <= j]

(* What nobody complained about is not touched by a retry: the verdict on  *)
(* the id (critic) or the candidate at the index (executor) stays.         *)
UndisputedItemsStay ==
  [][/\ stage = "critic" =>
          \A id \in (IdsOf(output) \cap Expected) \ complaints :
            id \in IdsOf(output') /\ VerdictOn(output', id) = VerdictOn(output, id)
     /\ stage = "executor" =>
          \A i \in (DOMAIN output) \ complaints :
            i \in DOMAIN output' /\ output'[i] = output[i]
    ]_<<output, step>>

(* A retry never loses a verdict or a candidate that was there before,     *)
(* merged or not.                                                          *)
RetriesNeverLose ==
  [][calls >= 1 =>
       /\ stage = "critic" =>
            IdsOf(output) \cap Expected \subseteq IdsOf(output')
       /\ stage = "executor" => Len(output') = Len(output)]_retrying

(* What the critic is given after a retry was merged, accepted or not, has *)
(* a verdict on every id of the batch and on no other; and what either is  *)
(* given as accepted has no item to complain about: any other output has   *)
(* used its attempts up or has met a correction that does not fit.         *)
ReturnedIsComplete ==
  /\ stage = "critic" /\ (ending = "accepted" \/ (calls > 1 /\ ending = "exhausted"))
       => IdsOf(output) = Expected
  /\ ending = "accepted" => \A i \in DOMAIN output : output[i].sound

-----------------------------------------------------------------------------
(* What makes them inductive.                                              *)

RetryTypeOK ==
  /\ stage \in {"critic", "executor"}
  /\ output \in Seq(Items) /\ response \in Seq(Items)
  /\ calls \in 0 .. MaxRetries + 1
  /\ ending \in {"none", "accepted", "merge error", "exhausted", "raised"}
  /\ step \in {"call", "validate", "retry", "merge", "returned"}

(* A retry is about what the validation of this very output found, and a   *)
(* critic's output is complete once a correction was merged.               *)
RetryInv ==
  /\ step = "call" => calls = 0 /\ output = <<>> /\ complaints = {}
  /\ step \in {"validate", "retry", "merge"} => calls >= 1
  /\ step = "retry" => calls <= MaxRetries
  /\ step \in {"retry", "merge"} => complaints = Complaints
  /\ step = "validate" /\ stage = "critic" /\ calls > 1 => IdsOf(output) = Expected
  /\ step # "returned" => ending = "none"
==============================================================================
