---------------------------- MODULE MCOdsRecovery ----------------------------
(* Small instances of OdsRecovery for TLC.                                  *)
EXTENDS OdsRecovery

OneObject == <<1>>
TwoObjects == <<1, 2>>
=============================================================================
