------------------------ MODULE MCCrossDocumentBatch ------------------------
(***************************************************************************)
(* Two batches of two sources; the runs return up to two canonical values  *)
(* of one field.                                                           *)
(***************************************************************************)
EXTENDS CrossDocumentBatch

MCClaim == [field : {"price"}, source : {"canonical"}, key : {"k1", "k2"}]
=============================================================================
