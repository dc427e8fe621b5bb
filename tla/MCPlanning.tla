------------------------------ MODULE MCPlanning ------------------------------
(***************************************************************************)
(* Two lenses and two windows.  The registries: none, one schema, one that *)
(* asks for a hint, two of the same class, one whose categories share a    *)
(* name, and those that do not load.                                       *)
(***************************************************************************)
EXTENDS Planning

Category(name, wording, fields) ==
  [name |-> name, wording |-> wording, fields |-> fields]
Metric == Category("OperationalMetric", "own", [value |-> "own"])
Event == Category("CorporateEvent", "own", [event_type |-> "own", facility |-> "own"])

File(kind, id, hints, categories, hash) ==
  [kind |-> kind, id |-> id, class |-> "report", hints |-> hints,
   categories |-> categories, hash |-> hash]
Artifact(id, hints, categories) ==
  File("artifact", id, hints, categories,
       SchemaHash("schema_registry", categories, hints, "report"))
Broad == Artifact("s1", {}, <<Event, Metric>>)
Narrow == Artifact("s2", {"energy"}, <<Metric>>)
Twins == Artifact("s3", {}, <<Metric, Metric>>)
Edited == [Broad EXCEPT !.categories = <<Metric>>]
Hidden == [Edited EXCEPT !.kind = "hidden"]
Stray == [Broad EXCEPT !.kind = "other"]

Conf(files, required, minimum, hints, window) ==
  [files |-> files, required |-> required, minimum |-> minimum, hints |-> hints,
   window |-> window, packs |-> {[templates |-> <<"t">>, declared |-> {"t"}]}]
MCConfiguration ==
  {Conf(<<>>, FALSE, 1, {}, 1),
   Conf(<<>>, TRUE, 1, {}, 1),
   Conf(<<Broad>>, TRUE, 2, {}, 1),
   Conf(<<Broad, Narrow>>, TRUE, 1, {"energy"}, 2),
   Conf(<<Hidden, Narrow>>, TRUE, 1, {}, 2),
   Conf(<<Broad, Narrow>>, FALSE, 2, {}, 2),
   Conf(<<Twins>>, FALSE, 1, {}, 1),
   Conf(<<Edited>>, FALSE, 1, {}, 1),
   Conf(<<Broad, Stray>>, FALSE, 1, {}, 1),
   Conf(<<Broad, Broad>>, FALSE, 1, {}, 1),
   [Conf(<<>>, FALSE, 1, {}, 1) EXCEPT
      !.packs = {[templates |-> <<"t", "t">>, declared |-> {"t"}]}]}

MCClassification ==
  [kind : {"classification"}, type : {"report", "unknown_document"},
   hints : {{}, {"energy"}}, confidence : {1, 2}]

MCCritique ==
  {[accepted |-> FALSE, categories |-> <<>>],
   [accepted |-> TRUE, categories |-> <<Event, Metric>>],
   [accepted |-> TRUE, categories |-> <<Metric, Metric>>]}

MCChunksWith == <<2, 1>>
=============================================================================
