---------------------------- MODULE OdsBulkLock ----------------------------
(* What the bulk lock promises: one owner at a time holds it, for one        *)
(* purpose, as often as it likes; only a purpose other than dumping may be   *)
(* entered again by its owner; it is free again after as many releases.  A   *)
(* release that is lost is lost for good: the lock stays with its owner.     *)
EXTENDS Naturals

CONSTANTS Thread, NoThread, MaxLevel

VARIABLES owner, purpose,
          depth,  \* how often it has been acquired
          lost    \* how many of these are never going to be released

lockVars == << owner, purpose, depth, lost >>

Init == owner = NoThread /\ purpose = "none" /\ depth = 0 /\ lost = 0

Acquire(t, kind) ==
  /\ \/ owner = NoThread
     \/ owner = t /\ purpose = kind /\ kind # "dump"
  /\ depth < MaxLevel
  /\ owner' = t /\ purpose' = kind /\ depth' = depth + 1
  /\ UNCHANGED lost

(* Acquired for one operation, which fails without releasing it.             *)
AcquireForGood(t) ==
  /\ owner = NoThread
  /\ owner' = t /\ purpose' = "write" /\ depth' = 1 /\ lost' = 1

Release ==
  /\ depth > lost
  /\ depth' = depth - 1
  /\ IF depth = 1 THEN owner' = NoThread /\ purpose' = "none"
                  ELSE UNCHANGED << owner, purpose >>
  /\ UNCHANGED lost

Abandon ==
  /\ depth > lost
  /\ lost' = lost + 1
  /\ UNCHANGED << owner, purpose, depth >>

Next == \/ \E t \in Thread : \/ \E kind \in {"dump", "read", "write"} : Acquire(t, kind)
                             \/ AcquireForGood(t)
        \/ Release \/ Abandon

Spec == Init /\ [][Next]_lockVars
=============================================================================
