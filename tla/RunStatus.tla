------------------------------ MODULE RunStatus ------------------------------
(***************************************************************************)
(* What a run promises to whoever waits for its outcome: the outcome is    *)
(* "completed" or "refused" only while a report of that kind lies at the   *)
(* output path, and a settled run is settled otherwise only after it was   *)
(* opened again.                                                           *)
(***************************************************************************)
CONSTANT Run

VARIABLES
  outcome,    \* "open", "completed" or "refused"
  published   \* the report at the output path: "none" or its kind

statusVars == <<outcome, published>>

Settled == {"completed", "refused"}

StatusInit ==
  /\ outcome = [r \in Run |-> "open"]
  /\ published = [r \in Run |-> "none"]

Publish(r) ==
  /\ outcome[r] = "open"
  /\ \E kind \in Settled : published' = [published EXCEPT ![r] = kind]
  /\ UNCHANGED outcome

Settle(r) ==
  /\ outcome[r] = "open" /\ published[r] # "none"
  /\ outcome' = [outcome EXCEPT ![r] = published[r]]
  /\ UNCHANGED published

Reopen(r) ==
  /\ outcome[r] \in Settled
  /\ outcome' = [outcome EXCEPT ![r] = "open"]
  /\ UNCHANGED published

StatusNext == \E r \in Run : Publish(r) \/ Settle(r) \/ Reopen(r)

StatusSpec == StatusInit /\ [][StatusNext]_statusVars
==============================================================================
