-------------------------- MODULE MCReconciliation --------------------------
(***************************************************************************)
(* Four candidates: three of one approved field, two of them with distinct *)
(* canonical values and one without, and one of a field not approved.      *)
(***************************************************************************)
EXTENDS Reconciliation

MCCandidate == 1 .. 4
MCField == {"price", "other"}
MCApproved == {"price"}
MCFieldOf == [c \in MCCandidate |-> IF c = 4 THEN "other" ELSE "price"]
MCRankOf == [c \in MCCandidate |-> 5 - c]
MCKeyOf == [c \in MCCandidate |-> IF c = 3 THEN "none" ELSE IF c = 2 THEN "k2" ELSE "k1"]
==============================================================================
