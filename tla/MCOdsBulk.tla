----------------------------- MODULE MCOdsBulk -----------------------------
(* Small instances of OdsBulk: three threads, so that a mode left behind by  *)
(* one can be picked up by either of two others; two of them share an        *)
(* instance, as threads do that of the system.                               *)
EXTENDS OdsBulk, TLC

CONSTANTS t1, t2, t3, i1, i2

MCThread == {t1, t2, t3}

MCInstanceOf == [t \in MCThread |-> IF t = t3 THEN i2 ELSE i1]

ThreadSymmetry == Permutations({t1, t2})
=============================================================================
