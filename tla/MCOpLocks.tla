------------------------------ MODULE MCOpLocks ------------------------------
(* Small instances of the operation locks for TLC: sessions may be swapped,  *)
(* keys may not, since the lock table is scanned in their order.             *)
EXTENDS OpLocks, TLC

Sessions == Permutations(Session)
=============================================================================
