-------------------------------- MODULE Pages --------------------------------
(* What a cache in front of a file of pages promises (src/cache.h, General  *)
(* Usage): a page that is read holds what was last put there, whenever the  *)
(* cache writes pages back or drops them, and a flush leaves nothing behind.*)
EXTENDS Naturals

CONSTANTS Page, Value, Dropped

VARIABLES
  contents, \* what a read of each page returns; Dropped when it was given up
  stored    \* the pages of the file

vars == <<contents, stored>>

\* Any page may be written back at any time, a dropped one whatever it held.
MayWriteBack ==
  \A p \in Page : stored'[p] \in {stored[p], contents'[p]} \/ contents'[p] = Dropped

Init == contents = stored /\ stored \in [Page -> Value]

Get == MayWriteBack /\ UNCHANGED contents

Put(p, val) == MayWriteBack /\ contents' = [contents EXCEPT ![p] = val]

Flush ==
  /\ \A p \in Page : stored'[p] = contents[p] \/ contents[p] = Dropped
  /\ UNCHANGED contents

\* Somebody else has changed the file: what the cache holds is given up.
Reload(p, val) == stored' = [stored EXCEPT ![p] = val] /\ contents' = stored'

DropFrom(p) ==
  /\ contents' = [q \in Page |-> IF q >= p THEN Dropped ELSE contents[q]]
  /\ UNCHANGED stored

Next ==
  \/ Get \/ Flush
  \/ \E p \in Page : DropFrom(p)
  \/ \E p \in Page, val \in Value : Put(p, val) \/ Reload(p, val)

Spec == Init /\ [][Next]_vars
==============================================================================
