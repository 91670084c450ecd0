---------------------------- MODULE MCRegionCache ----------------------------
(* Small instances of RegionCache for TLC.                                  *)
EXTENDS RegionCache, TLC

Pages3 == 0 .. 2
Pages4 == 0 .. 3
Values == Permutations(Value)
=============================================================================
