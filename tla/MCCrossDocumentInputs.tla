------------------------ MODULE MCCrossDocumentInputs ------------------------
(***************************************************************************)
(* Two runs that promise one data point each; three claims about a field:  *)
(* two distinct canonical values, and raw text equal to one of them.       *)
(***************************************************************************)
EXTENDS CrossDocumentInputs

MCRun == {"r1", "r2"}
MCPointId == {1, 2, 3}
MCClaim == {[field |-> "price", source |-> s[1], key |-> s[2]] :
              s \in {<<"canonical", "k1">>, <<"canonical", "k2">>, <<"verbatim", "k1">>}}
MCOutputsOf == [r \in MCRun |-> IF r = "r1" THEN {1} ELSE {2}]
==============================================================================
