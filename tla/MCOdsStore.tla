----------------------------- MODULE MCOdsStore -----------------------------
(* Small instances of OdsStore and of its refinement for TLC: the data file  *)
(* has the cells that the transactions of a behaviour can fill.              *)
EXTENDS OdsStoreObjects

MCMaxData == MaxTran * MaxTransData
=============================================================================
