----------------------------- MODULE FactGroups -----------------------------
(***************************************************************************)
(* The pure part of reconcile_cross_document_data_points: the groups of    *)
(* data points that state the same fact, and the conflicts between groups. *)
(* A data point is a record with at least the fields run, doc and claim; a *)
(* claim is a record of a field, the source of its canonical key, and the  *)
(* key.  The ids of groups and conflicts are hashes of what they contain,  *)
(* so a group stands for its id.                                           *)
(***************************************************************************)

CONSTANTS Doc, Claim

AnySource(claim) == TRUE  \* variant: verbatim values are compared too
IsCanonical(claim) == claim.source = "canonical"

FactKey(p, schemas) == <<schemas[p.run], p.claim>>

FactGroups(points, schemas) ==
  {[schema |-> key[1], claim |-> key[2],
    sources |-> {p \in points : FactKey(p, schemas) = key}] :
       key \in {FactKey(p, schemas) : p \in points}}

SameField(g, h) == g.schema = h.schema /\ g.claim.field = h.claim.field

Comparable(groups) == {g \in groups : IsCanonical(g.claim)}

(* All canonical groups of a field, when there are two or more.            *)
Conflicts(groups) ==
  {conflict \in {{h \in Comparable(groups) : SameField(g, h)} :
                    g \in Comparable(groups)} :
     \E g, h \in conflict : g # h}
=============================================================================
