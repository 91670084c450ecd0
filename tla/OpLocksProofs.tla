---------------------------- MODULE OpLocksProofs ----------------------------
(* Proofs, for any sessions, objects, instances and bounds, that two sessions  *)
(* never have locks that cannot coexist.  What makes it inductive is that the  *)
(* lock of an operation keeps the operation's type until the instance has been *)
(* stored (HandleInv): without it the change of a lock to "update" that        *)
(* follows a creation might strengthen a lock that another session ran past.   *)
(* The second part proves that what an open transaction has written stays      *)
(* locked until it ends, so that no two open transactions have written the     *)
(* same instance and none is stored over a change that came after it was       *)
(* fetched.  That holds for clients that keep to CarefulClients; the runs show *)
(* what comes of the others.                                                   *)
EXTENDS OpLocks, SequenceTheorems, WellFoundedInduction, NaturalsInduction, TLAPS

(* A lock in the table belongs to the object that got it, if to any, and is    *)
(* found by the handle of that object's operation only; objects ask for locks  *)
(* on instances, never on the class.                                           *)
OfInstance(r) == r.obj # 0 => r.key \in Instance

Owned(l) == l.root \in {0, l.base} /\ (l.base # 0 => l.key \in Instance)

HandleInv ==
  /\ \A h \in DOMAIN locks : Owned(locks[h])
  /\ \A s \in Session : OfInstance(request[s])
  /\ \A s \in Session, o \in Object :
       /\ op[s][o].handle <= next_lock_handle
       /\ op[s][o].phase # "none" => op[s][o].key \in Instance
       /\ op[s][o].phase # "none" /\ op[s][o].handle \in DOMAIN locks =>
            LET l == locks[op[s][o].handle] IN
            /\ l.session = s /\ l.base = o
            /\ op[s][o].phase # "stored" => l.type = op[s][o].kind

LockInv == TypeOK /\ HandleInv /\ LocksCoexist

(* The parts of TypeOK that say nothing of the table.                          *)
RestTyped ==
  /\ next_lock_handle \in Nat
  /\ tran_id \in [Session -> Nat] /\ tran_level \in [Session -> Nat] /\ next_tran_id \in Nat
  /\ request \in [Session -> Request] /\ op \in [Session -> [Object -> Op]]
  /\ finishing \in [Session -> Seq(Object)] /\ written \in [Session -> SUBSET Instance]
  /\ \A s \in Session : OfInstance(request[s])

(* What may become of a lock other than its removal: it stays where it is and  *)
(* whose it is, and holds off nobody that it did not hold off before.  Only    *)
(* the locks of object "o" of session "s" change their types.                  *)
Narrower(l, m, s, o) ==
  /\ m \in Lock /\ Owned(m)
  /\ m.session = l.session /\ m.key = l.key /\ m.base = l.base
  /\ m.type <= l.type
  /\ m.tx_type <= l.tx_type \/ m.tx_type <= l.type
  /\ m.type = l.type \/ (l.session = s /\ l.base = o)

TableTyped(t) == \A h \in DOMAIN t : t[h] \in Lock /\ Owned(t[h])

Narrowed(t, u, s, o) ==
  DOMAIN u \subseteq DOMAIN t /\ \A h \in DOMAIN u : Narrower(t[h], u[h], s, o)

(* LocksCoexist, of any table.                                                 *)
Coexist(t) ==
  \A g, h \in DOMAIN t :
    t[g].session # t[h].session /\ Overlap(t[g].key, t[h].key) =>
      \A a \in Held(t[g]), b \in Held(t[h]) : CanCoexist(a, b)

-----------------------------------------------------------------------------
(* Whether two types can coexist is symmetric, and a weaker type coexists with *)
(* all that a stronger one does.                                               *)
LEMMA Coexistence ==
  ASSUME NEW a \in Type, NEW b \in Type, NEW c \in Type, CanCoexist(a, b), c <= a
  PROVE  CanCoexist(c, b) /\ CanCoexist(b, a)
BY DEF CanCoexist, Strongest, Type, None, View, Link, Review, Obtain, Update, Create, Destroy

LEMMA NarrowedAgain ==
  ASSUME NEW t, NEW u, NEW v, NEW s, NEW o, TableTyped(t),
         Narrowed(t, u, s, o), Narrowed(u, v, s, o)
  PROVE  Narrowed(t, v, s, o)
<1>1. DOMAIN v \subseteq DOMAIN u /\ DOMAIN u \subseteq DOMAIN t
  BY DEF Narrowed
<1>2. ASSUME NEW h \in DOMAIN v
      PROVE  Narrower(t[h], v[h], s, o)
  <2>1. t[h] \in Lock /\ Narrower(t[h], u[h], s, o) /\ Narrower(u[h], v[h], s, o)
    BY <1>1 DEF Narrowed, TableTyped
  <2> QED BY <2>1 DEF Narrower, Owned, Lock, Type, None, Destroy
<1> QED BY <1>1, <1>2 DEF Narrowed

LEMMA NarrowedTyped ==
  ASSUME NEW t, NEW u, NEW s, NEW o, Narrowed(t, u, s, o)
  PROVE  TableTyped(u)
BY DEF Narrowed, Narrower, TableTyped

LEMMA UnchangedNarrows ==
  ASSUME NEW t, NEW s, NEW o, TableTyped(t)
  PROVE  Narrowed(t, t, s, o)
BY DEF Narrowed, Narrower, TableTyped, Lock, Type, None, Destroy

(* Removing locks narrows a table.                                             *)
LEMMA WithoutNarrows ==
  ASSUME NEW t, NEW handles, NEW s, NEW o, TableTyped(t)
  PROVE  Narrowed(t, Without(t, handles), s, o)
BY DEF Narrowed, Narrower, Without, TableTyped, Lock, Type, None, Destroy

(* So does releasing a lock of the object ...                                  *)
LEMMA ReleasedNarrows ==
  ASSUME NEW t, NEW h, NEW force \in BOOLEAN, NEW s, NEW o, TableTyped(t),
         h \in DOMAIN t => (t[h].session = s /\ t[h].base = o) \/ t[h].type = None \/ force
  PROVE  Narrowed(t, Released(t, h, force), s, o)
<1>1. CASE h \notin DOMAIN t
  BY <1>1, UnchangedNarrows DEF Released
<1>2. CASE h \in DOMAIN t /\ t[h].level > 0 /\ ~force
  <2>1. Released(t, h, force) = [t EXCEPT ![h].type = None]
    BY <1>2 DEF Released
  <2>2. ASSUME NEW g \in DOMAIN t
        PROVE  Narrower(t[g], [t EXCEPT ![h].type = None][g], s, o)
    <3>1. [t EXCEPT ![h].type = None][g] = IF g = h THEN [t[h] EXCEPT !.type = None] ELSE t[g]
      BY <1>2
    <3>2. t[g] \in Lock /\ Owned(t[g])
      BY DEF TableTyped
    <3> QED BY <1>2, <3>1, <3>2 DEF Narrower, Owned, Lock, Type, None, Destroy
  <2> QED BY <2>1, <2>2 DEF Narrowed
<1>3. CASE h \in DOMAIN t /\ ~(t[h].level > 0 /\ ~force)
  BY <1>3, WithoutNarrows DEF Released
<1> QED BY <1>1, <1>2, <1>3

LEMMA DeadLock ==
  ASSUME NEW l \in Lock, NEW m, m = [l EXCEPT !.root = 0, !.type = None]
  PROVE  /\ m.type = None /\ m.root = 0 /\ m.session = l.session
         /\ m.key = l.key /\ m.base = l.base /\ m.tx_type = l.tx_type
         /\ m \in Lock
<1> DEFINE rootless == [l EXCEPT !.root = 0]
<1>1. /\ rootless \in Lock /\ rootless.root = 0 /\ rootless.session = l.session
      /\ rootless.key = l.key /\ rootless.base = l.base /\ rootless.tx_type = l.tx_type
  BY DEF Lock
<1>2. m = [rootless EXCEPT !.type = None]
  OBVIOUS
<1> HIDE DEF rootless
<1> QED BY <1>1, <1>2 DEF Lock, Type, None, Destroy

(* ... and all that belong to it.                                              *)
LEMMA OwnerNarrows ==
  ASSUME NEW t, NEW s, NEW o, NEW force \in BOOLEAN, TableTyped(t), o \in Object \/ force
  PROVE  Narrowed(t, OwnerReleased(t, s, o, force), s, o)
<1> DEFINE u == OwnerReleased(t, s, o, force)
<1>1. DOMAIN u \subseteq DOMAIN t
  BY DEF OwnerReleased
<1>2. ASSUME NEW h \in DOMAIN u
      PROVE  Narrower(t[h], u[h], s, o)
  <2>1. t[h] \in Lock /\ Owned(t[h])
    BY <1>1 DEF TableTyped
  <2>2. \/ u[h] = t[h]
        \/ /\ u[h] = [t[h] EXCEPT !.root = 0, !.type = None]
           /\ t[h].session = s /\ t[h].root = o /\ o \in Object
    BY DEF OwnerReleased, OwnedBy
  <2>3. o \in Object => o # 0
    BY LockAssumption
  <2>4. CASE u[h] = t[h]
    BY <2>1, <2>4 DEF Narrower, Owned, Lock, Type, None, Destroy
  <2>5. CASE /\ u[h] = [t[h] EXCEPT !.root = 0, !.type = None]
             /\ t[h].session = s /\ t[h].root = o /\ o \in Object
    <3>1. /\ u[h].type = None /\ u[h].root = 0 /\ u[h].session = t[h].session
          /\ u[h].key = t[h].key /\ u[h].base = t[h].base /\ u[h].tx_type = t[h].tx_type
          /\ u[h] \in Lock
      BY <2>1, <2>5, DeadLock
    <3>2. t[h].base = o
      BY <2>1, <2>3, <2>5 DEF Owned
    <3> QED BY <2>1, <2>5, <3>1, <3>2 DEF Narrower, Owned, Lock, Type, None, Destroy
  <2> QED BY <2>2, <2>4, <2>5
<1> QED BY <1>1, <1>2 DEF Narrowed

LEMMA NarrowedCoexists ==
  ASSUME NEW t, NEW u, NEW s, NEW o, TableTyped(t), Coexist(t), Narrowed(t, u, s, o)
  PROVE  Coexist(u)
<1> SUFFICES ASSUME NEW g \in DOMAIN u, NEW h \in DOMAIN u,
                    u[g].session # u[h].session, Overlap(u[g].key, u[h].key),
                    NEW a \in Held(u[g]), NEW b \in Held(u[h])
             PROVE  CanCoexist(a, b)
  BY DEF Coexist
<1>1. g \in DOMAIN t /\ h \in DOMAIN t /\ Narrower(t[g], u[g], s, o) /\ Narrower(t[h], u[h], s, o)
  BY DEF Narrowed
<1>2. t[g] \in Lock /\ t[h] \in Lock
  BY <1>1 DEF TableTyped
<1>3. PICK c \in Held(t[g]) : a <= c
  BY <1>1 DEF Held, Narrower
<1>4. PICK d \in Held(t[h]) : b <= d
  BY <1>1 DEF Held, Narrower
<1>5. a \in Type /\ b \in Type /\ c \in Type /\ d \in Type
  BY <1>1, <1>2 DEF Held, Narrower, Lock
<1>6. CanCoexist(c, d)
  BY <1>1, <1>3, <1>4 DEF Coexist, Narrower
<1>7. CanCoexist(a, d)
  BY <1>3, <1>5, <1>6, Coexistence
<1>8. CanCoexist(d, a)
  BY <1>5, <1>7, Coexistence DEF Type, None, Destroy
<1>9. CanCoexist(b, a)
  BY <1>4, <1>5, <1>8, Coexistence
<1> QED BY <1>5, <1>9, Coexistence DEF Type, None, Destroy

-----------------------------------------------------------------------------
(* The operations after a step that only narrows the table: none is new, and   *)
(* that of object "o" of session "s" has stored, or is over.                   *)
OpsFollow(s, o) ==
  \A t \in Session, p \in Object :
    /\ op'[t][p].handle \in {0, op[t][p].handle}
    /\ op'[t][p].phase # "none" =>
         /\ op[t][p].phase # "none"
         /\ op'[t][p].handle = op[t][p].handle /\ op'[t][p].kind = op[t][p].kind
         /\ op'[t][p].key = op[t][p].key
         /\ op'[t][p].phase = "stored" \/ (op[t][p].phase # "stored" /\ (t # s \/ p # o))

LEMMA TableIsTyped ==
  ASSUME LockInv
  PROVE  TableTyped(locks) /\ Coexist(locks)
BY DEF LockInv, TypeOK, HandleInv, LocksCoexist, TableTyped, Coexist

LEMMA NarrowingKeeps ==
  ASSUME LockInv, NEW s, NEW o, Narrowed(locks, locks', s, o), RestTyped',
         next_lock_handle' = next_lock_handle, OpsFollow(s, o),
         lock_duplicates' \subseteq lock_duplicates \cup (DOMAIN locks \ DOMAIN locks')
  PROVE  LockInv'
<1>1. TableTyped(locks) /\ Coexist(locks)
  BY TableIsTyped
<1>2. TableTyped(locks') /\ Coexist(locks')
  BY <1>1, NarrowedTyped, NarrowedCoexists
<1>3. DOMAIN locks' \subseteq DOMAIN locks
  BY DEF Narrowed
<1>4. TypeOK'
  BY <1>2, <1>3 DEF LockInv, TypeOK, RestTyped, TableTyped
<1>5. HandleInv'
  <2>1. \A h \in DOMAIN locks' : Owned(locks'[h])
    BY <1>2 DEF TableTyped
  <2>2. ASSUME NEW t \in Session, NEW p \in Object
        PROVE  /\ op'[t][p].handle <= next_lock_handle'
               /\ op'[t][p].phase # "none" => op'[t][p].key \in Instance
               /\ op'[t][p].phase # "none" /\ op'[t][p].handle \in DOMAIN locks' =>
                    LET l == locks'[op'[t][p].handle] IN
                    /\ l.session = t /\ l.base = p
                    /\ op'[t][p].phase # "stored" => l.type = op'[t][p].kind
    <3>1. op'[t][p].handle <= next_lock_handle'
      <4>1. op'[t][p].handle \in {0, op[t][p].handle}
        BY DEF OpsFollow
      <4>2. op[t][p].handle <= next_lock_handle /\ next_lock_handle \in Nat
        BY DEF LockInv, HandleInv, TypeOK
      <4> QED BY <4>1, <4>2
    <3>0. op'[t][p].phase # "none" => op'[t][p].key \in Instance
      BY DEF OpsFollow, LockInv, HandleInv
    <3>2. ASSUME op'[t][p].phase # "none", op'[t][p].handle \in DOMAIN locks'
          PROVE  LET l == locks'[op'[t][p].handle] IN
                 /\ l.session = t /\ l.base = p
                 /\ op'[t][p].phase # "stored" => l.type = op'[t][p].kind
      <4> DEFINE h == op[t][p].handle
      <4>1. op'[t][p].handle = h /\ op[t][p].phase # "none" /\ op'[t][p].kind = op[t][p].kind
        BY <3>2 DEF OpsFollow
      <4>2. h \in DOMAIN locks /\ Narrower(locks[h], locks'[h], s, o)
        BY <1>3, <3>2, <4>1 DEF Narrowed
      <4>3. /\ locks[h].session = t /\ locks[h].base = p
            /\ op[t][p].phase # "stored" => locks[h].type = op[t][p].kind
        BY <4>1, <4>2 DEF LockInv, HandleInv
      <4>4. op'[t][p].phase # "stored" => op[t][p].phase # "stored" /\ (t # s \/ p # o)
        BY <3>2 DEF OpsFollow
      <4> HIDE DEF h
      <4> QED BY <4>1, <4>2, <4>3, <4>4 DEF Narrower
    <3> QED BY <3>0, <3>1, <3>2
  <2> QED BY <2>1, <2>2 DEF HandleInv, RestTyped
<1> QED BY <1>2, <1>4, <1>5 DEF LockInv, LocksCoexist, Coexist

(* The table has the same locks and the operations do not move.                *)
LEMMA NothingNarrows ==
  ASSUME LockInv, UNCHANGED << lockVars, op >>, RestTyped'
  PROVE  LockInv'
<1>1. Narrowed(locks, locks', 0, 0)
  BY TableIsTyped, UnchangedNarrows DEF lockVars
<1>2. OpsFollow(0, 0)
  BY LockAssumption DEF OpsFollow
<1> QED BY <1>1, <1>2, NarrowingKeeps DEF lockVars
(* The operations of the other objects do not move when that of one ends.      *)
LEMMA OpsEnd ==
  ASSUME LockInv, NEW s \in Session, NEW o \in Object \cup {0}, op' = [op EXCEPT ![s][o] = NoOp]
  PROVE  OpsFollow(s, o) /\ op' \in [Session -> [Object -> Op]]
<1>1. NoOp \in Op /\ NoOp.phase = "none" /\ NoOp.handle = 0
  BY DEF NoOp, Op, Type, None, Destroy
<1>2. op \in [Session -> [Object -> Op]]
  BY DEF LockInv, TypeOK
<1>3. op' \in [Session -> [Object -> Op]]
  <2>1. [op[s] EXCEPT ![o] = NoOp] \in [Object -> Op]
    BY <1>1, <1>2
  <2> QED BY <1>2, <2>1
<1>4. \A t \in Session, p \in Object :
        op'[t][p] = IF t = s /\ p = o THEN NoOp ELSE op[t][p]
  BY <1>2
<1>5. OpsFollow(s, o)
  BY <1>1, <1>4 DEF OpsFollow
<1> QED BY <1>3, <1>5
-----------------------------------------------------------------------------
(* Obtaining a lock.  The scan looks at every lock of another session that     *)
(* overlaps, so one that is granted coexists with all of them.                 *)
LEMMA ScanCoexists ==
  ASSUME LockInv, NEW s \in Session, NEW r \in Request, NEW skip \in Nat, Clashing(s, r, skip) = {},
         NEW h \in DOMAIN locks \ {skip}, locks[h].session # s, Overlap(r.key, locks[h].key),
         NEW b \in Held(locks[h])
  PROVE  CanCoexist(r.type, b) /\ CanCoexist(b, r.type)
<1>1. ~Clash(s, r, locks[h])
  BY DEF Clashing, Visible
<1>2. CanCoexist(r.type, b)
  BY <1>1 DEF Clash, Held
<1>3. r.type \in Type /\ b \in Type
  BY DEF Request, Held, LockInv, TypeOK, Lock
<1> QED BY <1>2, <1>3, Coexistence DEF Type, None, Destroy

LEMMA NewLockTyped ==
  ASSUME LockInv, NEW s \in Session, NEW r \in Request
  PROVE  /\ NewLock(s, r) \in Lock
         /\ NewLock(s, r).root = r.obj /\ NewLock(s, r).base = r.obj
         /\ NewLock(s, r).session = s /\ NewLock(s, r).key = r.key /\ NewLock(s, r).type = r.type
         /\ NewLock(s, r).tx_type \in {None, r.type}
BY DEF NewLock, Lock, Request, LockInv, TypeOK, Type, None, Destroy

(* The operation for which the lock was asked has its handle.                  *)
LEMMA OpGrantedTyped ==
  ASSUME LockInv, NEW s \in Session, NEW r \in Request, op' = OpGranted(s, r)
  PROVE  /\ op' \in [Session -> [Object -> Op]]
         /\ \A t \in Session, p \in Object :
              \/ op'[t][p] = op[t][p]
              \/ /\ t = s /\ p = r.obj /\ op'[t][p].handle = next_lock_handle + 1
                 /\ op'[t][p].kind = r.type /\ op'[t][p].key = r.key
<1>1. op \in [Session -> [Object -> Op]] /\ next_lock_handle \in Nat
  BY DEF LockInv, TypeOK
<1> DEFINE new == [phase |-> "beginning", kind |-> r.type, key |-> r.key,
                   handle |-> next_lock_handle + 1, own_tx |-> FALSE, stale |-> FALSE]
<1>2. new \in Op /\ new.handle = next_lock_handle + 1 /\ new.kind = r.type /\ new.key = r.key
  BY <1>1 DEF Op, Request, ClassWide
<1>3. op' = IF r.for = "op" THEN [op EXCEPT ![s][r.obj] = new] ELSE op
  BY DEF OpGranted
<1> HIDE DEF new
<1>4. op' \in [Session -> [Object -> Op]]
  <2>1. [op[s] EXCEPT ![r.obj] = new] \in [Object -> Op]
    BY <1>1, <1>2
  <2>2. op' = op \/ op' = [op EXCEPT ![s] = [op[s] EXCEPT ![r.obj] = new]]
    BY <1>3
  <2> QED BY <1>1, <2>1, <2>2
<1>5. \A t \in Session, p \in Object :
        op'[t][p] = op[t][p] \/ (t = s /\ p = r.obj /\ op'[t][p] = new)
  BY <1>1, <1>3
<1> QED BY <1>2, <1>4, <1>5

LEMMA GrantedKeeps ==
  ASSUME LockInv, NEW s \in Session, NEW r \in Request, OfInstance(r), Granted(s, r),
         lock_duplicates' = lock_duplicates \cup Duplicates(s, r, 0),
         UNCHANGED << tranVars, finishing, written >>
  PROVE  LockInv'
<1> DEFINE kept == Without(locks, Duplicates(s, r, 0))
           new  == NewLock(s, r)
           n    == next_lock_handle + 1
<1>1. /\ Clashing(s, r, 0) = {} /\ next_lock_handle' = n
      /\ locks' = [h \in DOMAIN kept \cup {n} |-> IF h = n THEN new ELSE kept[h]]
      /\ op' = OpGranted(s, r) /\ request' = [request EXCEPT ![s] = NoRequest]
  BY DEF Granted
<1>2. /\ next_lock_handle \in Nat /\ DOMAIN locks \subseteq 1 .. next_lock_handle
      /\ lock_duplicates \subseteq (1 .. next_lock_handle) \ DOMAIN locks
  BY DEF LockInv, TypeOK
<1>3. /\ DOMAIN kept = DOMAIN locks \ Duplicates(s, r, 0)
      /\ Duplicates(s, r, 0) \subseteq DOMAIN locks
      /\ \A h \in DOMAIN kept : kept[h] = locks[h]
  BY DEF Without, Duplicates, Scanned, Visible
<1>4. DOMAIN locks' = DOMAIN kept \cup {n} /\ locks'[n] = new
      /\ \A h \in DOMAIN kept : h # n /\ h # 0 /\ locks'[h] = locks[h]
  BY <1>1, <1>2, <1>3
<1>5. TableTyped(locks) /\ Coexist(locks)
  BY TableIsTyped
<1>6. /\ new \in Lock /\ new.root = r.obj /\ new.base = r.obj /\ new.session = s
      /\ new.key = r.key /\ new.type = r.type /\ new.tx_type \in {None, r.type}
  BY NewLockTyped
<1> HIDE DEF kept, new, n
<1>7. TableTyped(locks')
  BY <1>3, <1>4, <1>5, <1>6 DEF TableTyped, Owned, OfInstance
<1>8. Coexist(locks')
  <2>1. ASSUME NEW h \in DOMAIN kept, locks[h].session # s, Overlap(r.key, locks[h].key),
               NEW a \in Held(new), NEW b \in Held(locks[h])
        PROVE  CanCoexist(a, b) /\ CanCoexist(b, a)
    <3>1. CanCoexist(r.type, b) /\ CanCoexist(b, r.type)
      BY <1>1, <1>3, <1>4, <2>1, ScanCoexists
    <3>2. a = r.type \/ a = None
      BY <1>6 DEF Held
    <3> QED BY <3>1, <3>2 DEF CanCoexist
  <2> SUFFICES ASSUME NEW g \in DOMAIN locks', NEW h \in DOMAIN locks',
                      locks'[g].session # locks'[h].session, Overlap(locks'[g].key, locks'[h].key),
                      NEW a \in Held(locks'[g]), NEW b \in Held(locks'[h])
               PROVE  CanCoexist(a, b)
    BY DEF Coexist
  <2>2. CASE g \in DOMAIN kept /\ h \in DOMAIN kept
    BY <1>3, <1>4, <1>5, <2>2 DEF Coexist
  <2>3. CASE g = n /\ h \in DOMAIN kept
    BY <1>4, <1>6, <2>1, <2>3
  <2>4. CASE h = n /\ g \in DOMAIN kept
    BY <1>4, <1>6, <2>1, <2>4 DEF Overlap
  <2>5. ~(g = n /\ h = n)
    OBVIOUS
  <2> QED BY <1>4, <2>2, <2>3, <2>4, <2>5
<1>9. /\ op' \in [Session -> [Object -> Op]]
      /\ \A t \in Session, p \in Object :
           \/ op'[t][p] = op[t][p]
           \/ /\ t = s /\ p = r.obj /\ op'[t][p].handle = n
              /\ op'[t][p].kind = r.type /\ op'[t][p].key = r.key
  BY <1>1, OpGrantedTyped DEF n
<1>10. TypeOK'
  <2>1. request' \in [Session -> Request]
    BY <1>1 DEF LockInv, TypeOK, NoRequest, Request, Type, ClassWide, None, Destroy
  <2>2. next_lock_handle' \in Nat /\ DOMAIN locks' \subseteq 1 .. next_lock_handle'
    BY <1>1, <1>2, <1>3, <1>4 DEF n
  <2>3. lock_duplicates' \subseteq (1 .. next_lock_handle') \ DOMAIN locks'
    <3> SUFFICES ASSUME NEW d \in lock_duplicates'
                 PROVE  d \in 1 .. n /\ d \notin DOMAIN locks'
      BY <1>1
    <3>1. d \in lock_duplicates \/ d \in Duplicates(s, r, 0)
      OBVIOUS
    <3>2. d \in 1 .. next_lock_handle /\ d \notin DOMAIN kept
      BY <1>2, <1>3, <3>1
    <3>3. d \in 1 .. n /\ d # n
      BY <1>2, <3>2 DEF n
    <3> QED BY <1>4, <3>2, <3>3
  <2> QED BY <1>7, <1>9, <2>1, <2>2, <2>3 DEF LockInv, TypeOK, TableTyped, tranVars
<1>11. HandleInv'
  <2>1. \A h \in DOMAIN locks' : Owned(locks'[h])
    BY <1>7 DEF TableTyped
  <2>2. ASSUME NEW t \in Session, NEW p \in Object
        PROVE  /\ op'[t][p].handle <= next_lock_handle'
               /\ op'[t][p].phase # "none" => op'[t][p].key \in Instance
               /\ op'[t][p].phase # "none" /\ op'[t][p].handle \in DOMAIN locks' =>
                    LET l == locks'[op'[t][p].handle] IN
                    /\ l.session = t /\ l.base = p
                    /\ op'[t][p].phase # "stored" => l.type = op'[t][p].kind
    <3>1. CASE op'[t][p] = op[t][p]
      <4>1. op[t][p].handle \in Nat /\ op[t][p].handle <= next_lock_handle
        BY DEF LockInv, TypeOK, HandleInv, Op
      <4>2. op[t][p].handle # n /\ op[t][p].handle <= n
        BY <1>2, <4>1 DEF n
      <4>3. op[t][p].handle \in DOMAIN locks' =>
              /\ op[t][p].handle \in DOMAIN locks
              /\ locks'[op[t][p].handle] = locks[op[t][p].handle]
        BY <1>3, <1>4, <4>2
      <4> QED BY <1>1, <3>1, <4>2, <4>3 DEF LockInv, HandleInv
    <3>2. CASE /\ t = s /\ p = r.obj /\ op'[t][p].handle = n
               /\ op'[t][p].kind = r.type /\ op'[t][p].key = r.key
      <4>1. p # 0
        BY LockAssumption
      <4> QED BY <1>1, <1>2, <1>4, <1>6, <3>2, <4>1 DEF n, OfInstance
    <3> QED BY <1>9, <3>1, <3>2
  <2>3. \A t \in Session : OfInstance(request'[t])
    BY <1>1 DEF LockInv, TypeOK, HandleInv, OfInstance, NoRequest
  <2> QED BY <2>1, <2>2, <2>3 DEF HandleInv
<1> QED BY <1>8, <1>10, <1>11 DEF LockInv, LocksCoexist, Coexist

LEMMA AttemptKeeps ==
  ASSUME LockInv, NEW s \in Session, NEW r \in Request, OfInstance(r), Attempt(s, r)
  PROVE  LockInv'
<1> DEFINE kept == Without(locks, Duplicates(s, r, 0))
<1>1. /\ lock_duplicates' = lock_duplicates \cup Duplicates(s, r, 0)
      /\ UNCHANGED << tranVars, finishing, written >>
  BY DEF Attempt
<1>2. TableTyped(locks) /\ \A o : Narrowed(locks, kept, s, o)
  BY TableIsTyped, WithoutNarrows
<1>3. Duplicates(s, r, 0) \subseteq DOMAIN locks \ DOMAIN kept
  BY DEF Without, Duplicates, Scanned, Visible
<1> HIDE DEF kept
<1>4. NoRequest \in Request /\ OfInstance(NoRequest)
  BY DEF NoRequest, Request, OfInstance, Type, ClassWide, None, Destroy
<1>5. CASE Granted(s, r)
  BY <1>1, <1>5, GrantedKeeps
<1>6. CASE Waiting(s, r)
  <2>1. /\ locks' = kept /\ UNCHANGED << next_lock_handle, op >> /\ r.attempts > 1
        /\ request' = [request EXCEPT ![s] = [r EXCEPT !.attempts = @ - 1]]
    BY <1>6 DEF Waiting, kept
  <2>2. [r EXCEPT !.attempts = @ - 1] \in Request /\ OfInstance([r EXCEPT !.attempts = @ - 1])
    BY <2>1 DEF Request, OfInstance
  <2>3. RestTyped'
    BY <1>1, <2>1, <2>2 DEF LockInv, TypeOK, HandleInv, RestTyped, tranVars
  <2>4. OpsFollow(0, 0)
    BY <2>1, LockAssumption DEF OpsFollow
  <2>5. Narrowed(locks, locks', 0, 0)
    BY <2>1, TableIsTyped, WithoutNarrows DEF kept
  <2> QED BY <1>1, <1>3, <2>1, <2>3, <2>4, <2>5, NarrowingKeeps
<1>7. CASE Refused(s, r)
  <2>1. request' = [request EXCEPT ![s] = NoRequest] /\ next_lock_handle' = next_lock_handle
    BY <1>7 DEF Refused
  <2>2. CASE r.for # "cascade"
    <3>1. locks' = kept /\ UNCHANGED op
      BY <1>7, <2>2 DEF Refused, kept
    <3>2. RestTyped'
      BY <1>1, <1>4, <2>1, <3>1 DEF LockInv, TypeOK, HandleInv, RestTyped, tranVars
    <3>3. OpsFollow(0, 0)
      BY <3>1, LockAssumption DEF OpsFollow
    <3>4. Narrowed(locks, locks', 0, 0)
      BY <3>1, TableIsTyped, WithoutNarrows DEF kept
    <3> QED BY <1>1, <1>3, <2>1, <3>1, <3>2, <3>3, <3>4, NarrowingKeeps
  <2>3. CASE r.for = "cascade"
    <3>1. /\ locks' = OwnerReleased(kept, s, r.obj, TRUE)
          /\ op' = [op EXCEPT ![s][r.obj] = NoOp]
      BY <1>7, <2>3 DEF Refused, kept
    <3>2. Narrowed(kept, locks', s, r.obj)
      BY <1>2, <3>1, NarrowedTyped, OwnerNarrows
    <3>3. Narrowed(locks, locks', s, r.obj)
      BY <1>2, <3>2, NarrowedAgain
    <3>4. RestTyped'
      BY <1>1, <1>4, <2>1, <3>1, OpsEnd DEF Request, LockInv, TypeOK, HandleInv, RestTyped, tranVars
    <3>5. OpsFollow(s, r.obj)
      BY <3>1, OpsEnd DEF Request
    <3>6. DOMAIN locks' \subseteq DOMAIN kept
      BY <3>2 DEF Narrowed
    <3> QED BY <1>1, <1>3, <2>1, <3>3, <3>4, <3>5, <3>6, NarrowingKeeps
  <2> QED BY <2>2, <2>3
<1> QED BY <1>5, <1>6, <1>7 DEF Attempt
LEMMA RetryKeeps ==
  ASSUME LockInv, NEW s \in Session, Retry(s)
  PROVE  LockInv'
BY AttemptKeeps DEF Retry, LockInv, TypeOK, HandleInv

LEMMA BeginKeeps ==
  ASSUME LockInv, NEW s \in Session, NEW o \in Object, NEW key \in Instance, NEW kind \in Kinds,
         BeginOp(s, o, kind, key)
  PROVE  LockInv'
<1> DEFINE r == [for |-> "op", key |-> key, type |-> kind, obj |-> o, attempts |-> MaxAttempts]
<1>1. r \in Request /\ OfInstance(r)
  BY LockAssumption DEF Request, OfInstance, Type, None, Review, Update, Create, Destroy
<1>2. Attempt(s, r)
  BY DEF BeginOp
<1> HIDE DEF r
<1> QED BY <1>1, <1>2, AttemptKeeps

LEMMA CascadeKeeps ==
  ASSUME LockInv, NEW s \in Session, NEW o \in Object, NEW key \in Instance,
         NEW type \in {Update, Destroy}, CascadeLock(s, o, key, type)
  PROVE  LockInv'
<1> DEFINE r == [for |-> "cascade", key |-> key, type |-> type, obj |-> o, attempts |-> MaxAttempts]
<1>1. r \in Request /\ OfInstance(r)
  BY LockAssumption DEF Request, OfInstance, Type, None, Update, Destroy
<1>2. Attempt(s, r)
  BY DEF CascadeLock
<1> HIDE DEF r
<1> QED BY <1>1, <1>2, AttemptKeeps

LEMMA KeyedLockKeeps ==
  ASSUME LockInv, NEW s \in Session, NEW key \in Instance \cup {ClassWide}, NEW type \in KeyedTypes,
         KeyedLock(s, key, type)
  PROVE  LockInv'
<1> DEFINE r == [for |-> "keyed", key |-> key, type |-> type, obj |-> 0,
                 attempts |-> IF type = Link THEN MaxAttempts ELSE 1]
<1>1. r \in Request /\ OfInstance(r)
  BY LockAssumption DEF Request, OfInstance, Type, None, Destroy
<1>2. Attempt(s, r)
  BY DEF KeyedLock
<1> HIDE DEF r
<1> QED BY <1>1, <1>2, AttemptKeeps

(* A keyed lock belongs to no object, so that its type is nobody's but its     *)
(* own: a weaker one narrows the table, a stronger one has been scanned for.   *)
LEMMA KeyedReleaseKeeps ==
  ASSUME LockInv, NEW s \in Session, NEW h \in DOMAIN locks, KeyedRelease(s, h)
  PROVE  LockInv'
<1>1. /\ locks[h].session = s /\ locks[h].base = 0 /\ locks' = Released(locks, h, FALSE)
      /\ lock_duplicates' = lock_duplicates \ {h}
      /\ UNCHANGED << next_lock_handle, tranVars, request, op, finishing, written >>
  BY DEF KeyedRelease, Keyed
<1>2. Narrowed(locks, locks', s, 0)
  BY <1>1, TableIsTyped, ReleasedNarrows
<1>3. RestTyped'
  BY <1>1 DEF LockInv, TypeOK, HandleInv, RestTyped, tranVars
<1>4. OpsFollow(s, 0)
  BY <1>1, LockAssumption DEF OpsFollow
<1> QED BY <1>1, <1>2, <1>3, <1>4, NarrowingKeeps

LEMMA TransformKeeps ==
  ASSUME LockInv, NEW s \in Session, NEW type \in KeyedTypes, NEW h \in DOMAIN locks,
         KeyedTransform(s, h, type)
  PROVE  LockInv'
<1> DEFINE r == [for |-> "keyed", key |-> locks[h].key, type |-> type, obj |-> 0, attempts |-> 1]
           dup == IF type > locks[h].type THEN Duplicates(s, r, h) ELSE {}
           kept == Without(locks, dup)
<1>1. /\ locks[h].session = s /\ locks[h].base = 0
      /\ lock_duplicates' = lock_duplicates \cup dup
      /\ UNCHANGED << next_lock_handle, tranVars, request, op, finishing, written >>
  BY DEF KeyedTransform, Keyed
<1>2. \/ locks' = kept
      \/ /\ locks' = [kept EXCEPT ![h].type = type]
         /\ type > locks[h].type => Clashing(s, r, h) = {}
  BY DEF KeyedTransform
<1>3. TableTyped(locks) /\ Coexist(locks)
  BY TableIsTyped
<1>4. /\ DOMAIN kept = DOMAIN locks \ dup /\ dup \subseteq DOMAIN locks
      /\ h \in DOMAIN kept /\ \A g \in DOMAIN kept : kept[g] = locks[g]
  BY DEF Without, Duplicates, Scanned, Visible
<1>5. type \in Type /\ r \in Request /\ r.key = locks[h].key /\ r.type = type
  BY <1>3, LockAssumption DEF Request, Type, TableTyped, Lock, None, Destroy
<1>6. Narrowed(locks, kept, s, 0)
  BY <1>3, WithoutNarrows
<1>7. RestTyped'
  BY <1>1 DEF LockInv, TypeOK, HandleInv, RestTyped, tranVars
<1>8. OpsFollow(s, 0)
  BY <1>1, LockAssumption DEF OpsFollow
<1> HIDE DEF r, dup, kept
<1>9. CASE locks' = kept
  BY <1>1, <1>4, <1>6, <1>7, <1>8, <1>9, NarrowingKeeps
<1>10. CASE /\ locks' = [kept EXCEPT ![h].type = type]
            /\ type > locks[h].type => Clashing(s, r, h) = {}
  <2>1. /\ DOMAIN locks' = DOMAIN kept
        /\ locks'[h] = [locks[h] EXCEPT !.type = type]
        /\ \A g \in DOMAIN kept : g # h => locks'[g] = locks[g]
    BY <1>4, <1>10
  <2>2. /\ locks'[h] \in Lock /\ Owned(locks'[h]) /\ locks'[h].type = type
        /\ locks'[h].session = s /\ locks'[h].base = 0
        /\ locks'[h].key = locks[h].key /\ locks'[h].tx_type = locks[h].tx_type
    BY <1>1, <1>3, <1>5, <2>1 DEF TableTyped, Owned, Lock
  <2>3. CASE type <= locks[h].type
    <3>1. ASSUME NEW g \in DOMAIN locks'
          PROVE  Narrower(locks[g], locks'[g], s, 0)
      <4>1. CASE g = h
        BY <1>1, <1>3, <1>5, <2>2, <2>3, <4>1 DEF Narrower, TableTyped, Lock, Type, None, Destroy
      <4>2. CASE g # h
        BY <1>3, <1>4, <2>1, <4>2 DEF Narrower, TableTyped, Lock, Type, None, Destroy
      <4> QED BY <4>1, <4>2
    <3>2. Narrowed(locks, locks', s, 0)
      BY <1>4, <2>1, <3>1 DEF Narrowed
    <3> QED BY <1>1, <1>4, <1>7, <1>8, <2>1, <3>2, NarrowingKeeps
  <2>4. CASE type > locks[h].type
    <3>1. TableTyped(locks')
      BY <1>3, <1>4, <2>1, <2>2 DEF TableTyped
    <3>2. Coexist(locks')
      <4>1. ASSUME NEW g \in DOMAIN kept, g # h, locks[g].session # s,
                   Overlap(locks[h].key, locks[g].key),
                   NEW a \in Held(locks'[h]), NEW b \in Held(locks[g])
            PROVE  CanCoexist(a, b) /\ CanCoexist(b, a)
        <5>1. a = type \/ a \in Held(locks[h])
          BY <2>2 DEF Held
        <5>2. CASE a = type
          <6>1. Clashing(s, r, h) = {} /\ h \in Nat
            BY <1>10, <2>4 DEF LockInv, TypeOK
          <6>2. Overlap(r.key, locks[g].key)
            BY <1>5, <4>1
          <6> QED BY <1>4, <1>5, <4>1, <5>2, <6>1, <6>2, ScanCoexists
        <5>3. CASE a \in Held(locks[h])
          BY <1>1, <1>3, <1>4, <4>1, <5>3 DEF Coexist, Overlap
        <5> QED BY <5>1, <5>2, <5>3
      <4> SUFFICES ASSUME NEW f \in DOMAIN locks', NEW g \in DOMAIN locks',
                          locks'[f].session # locks'[g].session,
                          Overlap(locks'[f].key, locks'[g].key),
                          NEW a \in Held(locks'[f]), NEW b \in Held(locks'[g])
                   PROVE  CanCoexist(a, b)
        BY DEF Coexist
      <4>2. CASE f # h /\ g # h
        BY <1>3, <1>4, <2>1, <4>2 DEF Coexist
      <4>3. CASE f = h /\ g # h
        BY <2>1, <2>2, <4>1, <4>3
      <4>4. CASE g = h /\ f # h
        BY <2>1, <2>2, <4>1, <4>4 DEF Overlap
      <4> QED BY <4>2, <4>3, <4>4
    <3>3. TypeOK'
      BY <1>1, <1>4, <1>7, <2>1, <3>1 DEF LockInv, TypeOK, RestTyped, TableTyped
    <3>4. ASSUME NEW t \in Session, NEW p \in Object, op[t][p].phase # "none",
                 op[t][p].handle \in DOMAIN locks'
          PROVE  /\ op[t][p].handle \in DOMAIN locks /\ op[t][p].handle # h
                 /\ locks'[op[t][p].handle] = locks[op[t][p].handle]
      <4>1. op[t][p].handle \in DOMAIN locks
        BY <1>4, <2>1, <3>4
      <4>2. locks[op[t][p].handle].base = p /\ p # 0
        BY <3>4, <4>1, LockAssumption DEF LockInv, HandleInv
      <4> QED BY <1>1, <2>1, <3>4, <4>1, <4>2
    <3>5. HandleInv'
      BY <1>1, <3>1, <3>4 DEF LockInv, HandleInv, TableTyped
    <3> QED BY <3>2, <3>3, <3>5 DEF LockInv, LocksCoexist, Coexist
  <2>5. locks[h].type \in Nat /\ type \in Nat
    BY <1>3, <1>5 DEF TableTyped, Lock, Type, None, Destroy
  <2> QED BY <2>3, <2>4, <2>5
<1> QED BY <1>2, <1>9, <1>10
-----------------------------------------------------------------------------
(* The operations.  One that changes leaves the others as they are.            *)
LEMMA OpMoves ==
  ASSUME LockInv, NEW s \in Session, NEW o \in Object, NEW new \in Op,
         op' = [op EXCEPT ![s][o] = new]
  PROVE  /\ op' \in [Session -> [Object -> Op]]
         /\ \A t \in Session, p \in Object :
              op'[t][p] = IF t = s /\ p = o THEN new ELSE op[t][p]
<1>1. op \in [Session -> [Object -> Op]]
  BY DEF LockInv, TypeOK
<1>2. [op[s] EXCEPT ![o] = new] \in [Object -> Op]
  BY <1>1
<1>3. op' \in [Session -> [Object -> Op]]
  BY <1>1, <1>2
<1>4. \A t \in Session, p \in Object :
        op'[t][p] = IF t = s /\ p = o THEN new ELSE op[t][p]
  BY <1>1
<1> QED BY <1>3, <1>4

LEMMA OpBegunKeeps ==
  ASSUME LockInv, NEW s \in Session, NEW o \in Object, OpBegun(s, o)
  PROVE  LockInv'
<1>1. /\ op[s][o].phase = "beginning" /\ op' = [op EXCEPT ![s][o].phase = "begun"]
      /\ UNCHANGED << lockVars, tranVars, request, finishing, written >>
  BY DEF OpBegun
<1>2. /\ op' \in [Session -> [Object -> Op]]
      /\ \A t \in Session, p \in Object :
           /\ op'[t][p].handle = op[t][p].handle /\ op'[t][p].kind = op[t][p].kind
           /\ op'[t][p].key = op[t][p].key
           /\ op'[t][p].phase = IF t = s /\ p = o THEN "begun" ELSE op[t][p].phase
  <2> DEFINE new == [op[s][o] EXCEPT !.phase = "begun"]
  <2>1. op[s][o] \in Op
    BY DEF LockInv, TypeOK
  <2>2. /\ new \in Op /\ new.handle = op[s][o].handle /\ new.kind = op[s][o].kind
        /\ new.key = op[s][o].key /\ new.phase = "begun"
    BY <2>1 DEF Op
  <2>3. op' = [op EXCEPT ![s][o] = new]
    BY <1>1
  <2> HIDE DEF new
  <2>4. /\ op' \in [Session -> [Object -> Op]]
        /\ \A t \in Session, p \in Object :
             op'[t][p] = IF t = s /\ p = o THEN new ELSE op[t][p]
    BY <2>2, <2>3, OpMoves
  <2> QED BY <2>2, <2>4
<1>3. OpsFollow(0, 0)
  BY <1>1, <1>2, LockAssumption DEF OpsFollow
<1>4. RestTyped'
  BY <1>1, <1>2 DEF LockInv, TypeOK, HandleInv, RestTyped, lockVars, tranVars
<1>5. Narrowed(locks, locks', 0, 0)
  BY <1>1, TableIsTyped, UnchangedNarrows DEF lockVars
<1> QED BY <1>1, <1>3, <1>4, <1>5, NarrowingKeeps DEF lockVars

(* The lock of an operation is its object's, in any table narrower than locks. *)
LEMMA HandleReleased ==
  ASSUME LockInv, NEW s \in Session, NEW o \in Object, op[s][o].phase # "none",
         NEW t, Narrowed(locks, t, s, o), NEW force \in BOOLEAN
  PROVE  Narrowed(locks, Released(t, op[s][o].handle, force), s, o)
<1> DEFINE h == op[s][o].handle
<1>1. TableTyped(locks) /\ TableTyped(t)
  BY TableIsTyped, NarrowedTyped
<1>2. h \in DOMAIN t => t[h].session = s /\ t[h].base = o
  BY DEF LockInv, HandleInv, Narrowed, Narrower
<1>3. Narrowed(t, Released(t, h, force), s, o)
  BY <1>1, <1>2, ReleasedNarrows
<1> QED BY <1>1, <1>3, NarrowedAgain

LEMMA OwnerReleasedToo ==
  ASSUME LockInv, NEW s \in Session, NEW o \in Object,
         NEW t, Narrowed(locks, t, s, o), NEW force \in BOOLEAN
  PROVE  Narrowed(locks, OwnerReleased(t, s, o, force), s, o)
BY TableIsTyped, NarrowedTyped, OwnerNarrows, NarrowedAgain

LEMMA CancelNarrows ==
  ASSUME LockInv, NEW s \in Session, NEW o \in Object, op[s][o].phase # "none",
         NEW t, Narrowed(locks, t, s, o)
  PROVE  Narrowed(locks, Cancelled(t, s, o), s, o)
<1> DEFINE u == IF op[s][o].kind = Destroy THEN OwnerReleased(t, s, o, TRUE) ELSE t
<1>1. Narrowed(locks, u, s, o)
  BY OwnerReleasedToo
<1> HIDE DEF u
<1> QED BY <1>1, HandleReleased DEF Cancelled, u

(* An operation ends with its locks narrowed, whatever becomes of its          *)
(* transaction.                                                                *)
LEMMA EndKeeps ==
  ASSUME LockInv, NEW s \in Session, NEW o \in Object, Narrowed(locks, locks', s, o),
         op' = [op EXCEPT ![s][o] = NoOp],
         lock_duplicates' = lock_duplicates \ {op[s][o].handle},
         UNCHANGED << next_lock_handle, tran_id, next_tran_id, request >>,
         Ended(s) \/ UNCHANGED << tran_level, written >>,
         (finishing[s] # << >> /\ PopFinishing(s)) \/ UNCHANGED finishing
  PROVE  LockInv'
<1>1. OpsFollow(s, o) /\ op' \in [Session -> [Object -> Op]]
  BY OpsEnd
<1>2. finishing' \in [Session -> Seq(Object)]
  <2>1. CASE finishing[s] # << >> /\ PopFinishing(s)
    <3>1. finishing[s] \in Seq(Object) /\ finishing \in [Session -> Seq(Object)]
      BY DEF LockInv, TypeOK
    <3>2. [i \in 1 .. Len(finishing[s]) - 1 |-> finishing[s][i]] \in Seq(Object)
      <4>1. Len(finishing[s]) \in Nat \ {0}
        BY <2>1, <3>1, EmptySeq, LenProperties
      <4>2. \A i \in 1 .. Len(finishing[s]) : finishing[s][i] \in Object
        BY <3>1, ElementOfSeq
      <4> QED BY <4>1, <4>2, IsASeq
    <3> QED BY <2>1, <3>1, <3>2 DEF PopFinishing
  <2>2. CASE UNCHANGED finishing
    BY <2>2 DEF LockInv, TypeOK
  <2> QED BY <2>1, <2>2
<1>3. tran_level' \in [Session -> Nat] /\ written' \in [Session -> SUBSET Instance]
  <2>1. tran_level \in [Session -> Nat] /\ written \in [Session -> SUBSET Instance]
    BY DEF LockInv, TypeOK
  <2>2. CASE Ended(s)
    BY <2>1, <2>2 DEF Ended
  <2>3. CASE UNCHANGED << tran_level, written >>
    BY <2>1, <2>3
  <2> QED BY <2>2, <2>3
<1>4. RestTyped'
  BY <1>1, <1>2, <1>3 DEF LockInv, TypeOK, HandleInv, RestTyped
<1> QED BY <1>1, <1>4, NarrowingKeeps

LEMMA AbortKeeps ==
  ASSUME LockInv, NEW s \in Session, NEW o \in Object, AbortBegin(s, o)
  PROVE  LockInv'
<1>1. op[s][o].phase # "none"
  BY DEF AbortBegin
<1>2. Narrowed(locks, locks, s, o)
  BY TableIsTyped, UnchangedNarrows
<1>3. Narrowed(locks, Released(locks, op[s][o].handle, TRUE), s, o)
  BY <1>1, <1>2, HandleReleased
<1>4. Narrowed(locks, locks', s, o)
  BY <1>3, OwnerReleasedToo DEF AbortBegin
<1> QED BY <1>4, EndKeeps DEF AbortBegin, tranVars

LEMMA CancelKeeps ==
  ASSUME LockInv, NEW s \in Session, NEW o \in Object, CancelOp(s, o)
  PROVE  LockInv'
<1>1. op[s][o].phase # "none"
  BY DEF CancelOp
<1>2. Narrowed(locks, locks', s, o)
  BY <1>1, TableIsTyped, UnchangedNarrows, CancelNarrows DEF CancelOp
<1> QED BY <1>2, EndKeeps DEF CancelOp, tranVars

LEMMA FailKeeps ==
  ASSUME LockInv, NEW s \in Session, NEW o \in Object, FailOp(s, o)
  PROVE  LockInv'
<1> DEFINE t == IF op[s][o].own_tx THEN RollbackReleased(s) ELSE locks
<1>1. op[s][o].phase # "none"
  BY DEF FailOp
<1>2. Narrowed(locks, t, s, o)
  BY TableIsTyped, UnchangedNarrows, WithoutNarrows DEF RollbackReleased
<1>3. locks' = Cancelled(t, s, o)
  BY DEF FailOp
<1> HIDE DEF t
<1>4. Narrowed(locks, locks', s, o)
  BY <1>1, <1>2, <1>3, CancelNarrows
<1>5. finishing[s] # << >> /\ PopFinishing(s)
  BY DEF FailOp, Innermost
<1> QED BY <1>4, <1>5, EndKeeps DEF FailOp

LEMMA CompleteKeeps ==
  ASSUME LockInv, NEW s \in Session, NEW o \in Object, CompleteOp(s, o)
  PROVE  LockInv'
<1> DEFINE after == IF op[s][o].own_tx THEN CommitReleased(s) ELSE locks
           owner == IF op[s][o].kind = Destroy THEN OwnerReleased(after, s, o, FALSE) ELSE after
<1>1. op[s][o].phase # "none"
  BY DEF CompleteOp
<1>2. Narrowed(locks, after, s, o)
  BY TableIsTyped, UnchangedNarrows, WithoutNarrows DEF CommitReleased
<1>3. locks' = Released(owner, op[s][o].handle, FALSE)
  BY DEF CompleteOp
<1>4. Narrowed(locks, owner, s, o)
  BY <1>2, OwnerReleasedToo
<1> HIDE DEF after, owner
<1>5. Narrowed(locks, locks', s, o)
  BY <1>1, <1>3, <1>4, HandleReleased
<1>6. finishing[s] # << >> /\ PopFinishing(s)
  BY DEF CompleteOp, Innermost
<1> QED BY <1>5, <1>6, EndKeeps DEF CompleteOp
(* The start of a transaction for an operation: the locks of the session are   *)
(* marked to be kept, with the types that they have.                           *)
LEMMA MarkedNarrows ==
  ASSUME LockInv, NEW s \in Session
  PROVE  Narrowed(locks, Updated(s), 0, 0)
<1>1. TableTyped(locks) /\ next_tran_id \in Nat
  BY TableIsTyped DEF LockInv, TypeOK
<1>2. DOMAIN Updated(s) = DOMAIN locks
  BY DEF Updated
<1>3. ASSUME NEW h \in DOMAIN locks
      PROVE  Narrower(locks[h], Updated(s)[h], 0, 0)
  <2>1. locks[h] \in Lock /\ Owned(locks[h])
    BY <1>1 DEF TableTyped
  <2>2. CASE locks[h].session # s
    <3>1. Updated(s)[h] = locks[h]
      BY <2>2 DEF Updated
    <3> QED BY <2>1, <3>1 DEF Narrower, Lock, Type, None, Destroy
  <2>3. CASE locks[h].session = s
    <3>1. Updated(s)[h] = [locks[h] EXCEPT !.tx_type = locks[h].type, !.tran_id = next_tran_id,
                                           !.level = 1]
      BY <2>3 DEF Updated
    <3>2. /\ Updated(s)[h] \in Lock /\ Updated(s)[h].root = locks[h].root
          /\ Updated(s)[h].session = locks[h].session /\ Updated(s)[h].key = locks[h].key
          /\ Updated(s)[h].base = locks[h].base /\ Updated(s)[h].type = locks[h].type
          /\ Updated(s)[h].tx_type = locks[h].type
      <4> DEFINE l  == locks[h]
                 m  == Updated(s)[h]
                 l1 == [l EXCEPT !.tx_type = l.type]
                 l2 == [l1 EXCEPT !.tran_id = next_tran_id]
      <4>1. m = [l2 EXCEPT !.level = 1] /\ l \in Lock
        BY <2>1, <3>1
      <4> HIDE DEF l, m
      <4>2. /\ l1 \in Lock /\ l1.root = l.root /\ l1.session = l.session /\ l1.key = l.key
            /\ l1.base = l.base /\ l1.type = l.type /\ l1.tx_type = l.type
        BY <4>1 DEF Lock
      <4> HIDE DEF l1
      <4>3. /\ l2 \in Lock /\ l2.root = l.root /\ l2.session = l.session /\ l2.key = l.key
            /\ l2.base = l.base /\ l2.type = l.type /\ l2.tx_type = l.type
        BY <1>1, <4>2 DEF Lock
      <4> HIDE DEF l2
      <4>4. /\ m \in Lock /\ m.root = l.root /\ m.session = l.session /\ m.key = l.key
            /\ m.base = l.base /\ m.type = l.type /\ m.tx_type = l.type
        BY <4>1, <4>3 DEF Lock
      <4> QED BY <4>4 DEF l, m
    <3> QED BY <2>1, <3>2 DEF Narrower, Owned, Lock, Type, None, Destroy
  <2> QED BY <2>2, <2>3
<1> QED BY <1>2, <1>3 DEF Narrowed

LEMMA ApplyKeeps ==
  ASSUME LockInv, NEW s \in Session, NEW o \in Object, ApplyOp(s, o)
  PROVE  LockInv'
<1> DEFINE own == tran_level[s] = 0
<1>1. /\ op[s][o].phase = "begun"
      /\ op' = [op EXCEPT ![s][o] = [@ EXCEPT !.phase = "storing", !.own_tx = own]]
      /\ finishing' = [finishing EXCEPT ![s] = Append(@, o)]
      /\ UNCHANGED << next_lock_handle, lock_duplicates, request, written >>
  BY DEF ApplyOp
<1>2. \/ /\ locks' = Updated(s) /\ tran_id' = [tran_id EXCEPT ![s] = next_tran_id]
         /\ tran_level' = [tran_level EXCEPT ![s] = 1] /\ next_tran_id' = next_tran_id + 1
      \/ UNCHANGED << locks, tranVars >>
  BY DEF ApplyOp
<1>3. own \in BOOLEAN
  OBVIOUS
<1> HIDE DEF own
<1>4. Narrowed(locks, locks', 0, 0)
  BY <1>2, MarkedNarrows, TableIsTyped, UnchangedNarrows
<1>5. /\ op' \in [Session -> [Object -> Op]]
      /\ \A t \in Session, p \in Object :
           /\ op'[t][p].handle = op[t][p].handle /\ op'[t][p].kind = op[t][p].kind
           /\ op'[t][p].key = op[t][p].key
           /\ op'[t][p].phase = IF t = s /\ p = o THEN "storing" ELSE op[t][p].phase
  <2> DEFINE mid == [op[s][o] EXCEPT !.phase = "storing"]
             new == [op[s][o] EXCEPT !.phase = "storing", !.own_tx = own]
  <2>1. op[s][o] \in Op
    BY DEF LockInv, TypeOK
  <2>2. /\ mid \in Op /\ mid.handle = op[s][o].handle /\ mid.kind = op[s][o].kind
        /\ mid.key = op[s][o].key /\ mid.phase = "storing"
    BY <2>1 DEF Op
  <2>3. new = [mid EXCEPT !.own_tx = own]
    OBVIOUS
  <2>4. op' = [op EXCEPT ![s][o] = new]
    BY <1>1
  <2> HIDE DEF mid, new
  <2>5. /\ new \in Op /\ new.handle = op[s][o].handle /\ new.kind = op[s][o].kind
        /\ new.key = op[s][o].key /\ new.phase = "storing"
    BY <1>3, <2>2, <2>3 DEF Op
  <2>6. /\ op' \in [Session -> [Object -> Op]]
        /\ \A t \in Session, p \in Object :
             op'[t][p] = IF t = s /\ p = o THEN new ELSE op[t][p]
    BY <2>4, <2>5, OpMoves
  <2> QED BY <2>5, <2>6
<1>6. OpsFollow(0, 0)
  BY <1>1, <1>5, LockAssumption DEF OpsFollow
<1>7. finishing' \in [Session -> Seq(Object)]
  <2>1. finishing \in [Session -> Seq(Object)] /\ Append(finishing[s], o) \in Seq(Object)
    BY AppendProperties DEF LockInv, TypeOK
  <2> QED BY <1>1, <2>1
<1>8. tran_id' \in [Session -> Nat] /\ tran_level' \in [Session -> Nat] /\ next_tran_id' \in Nat
  <2>1. tran_id \in [Session -> Nat] /\ tran_level \in [Session -> Nat] /\ next_tran_id \in Nat
    BY DEF LockInv, TypeOK
  <2> QED BY <1>2, <2>1 DEF tranVars
<1>9. RestTyped'
  BY <1>1, <1>5, <1>7, <1>8 DEF LockInv, TypeOK, HandleInv, RestTyped
<1> QED BY <1>1, <1>4, <1>6, <1>9, NarrowingKeeps

(* Storing: what was locked to create an instance is locked to update it.      *)
LEMMA StoreKeeps ==
  ASSUME LockInv, NEW s \in Session, NEW o \in Object, StoreOp(s, o)
  PROVE  LockInv'
<1> DEFINE h == op[s][o].handle
<1>1. /\ op[s][o].phase = "storing"
      /\ written' = [written EXCEPT ![s] = @ \cup Targets(s, o)]
      /\ UNCHANGED << next_lock_handle, lock_duplicates, tranVars, request, finishing >>
  BY DEF StoreOp
<1>2. \/ locks' = locks
      \/ /\ op[s][o].kind = Create /\ h \in DOMAIN locks
         /\ locks' = [locks EXCEPT ![h].type = Update]
  BY DEF StoreOp
<1>3. op' = [t \in Session |-> [p \in Object |->
              IF t = s /\ p = o THEN [op[t][p] EXCEPT !.phase = "stored"]
              ELSE IF t # s /\ op[t][p].phase # "none" /\ op[t][p].key \in Targets(s, o)
              THEN [op[t][p] EXCEPT !.stale = TRUE] ELSE op[t][p]]]
  BY DEF StoreOp
<1>4. TableTyped(locks)
  BY TableIsTyped
<1>5. h \in DOMAIN locks =>
        locks[h].session = s /\ locks[h].base = o /\ locks[h].type = op[s][o].kind
  BY <1>1 DEF LockInv, HandleInv
<1> HIDE DEF h
<1>6. Narrowed(locks, locks', s, o)
  <2>1. CASE locks' = locks
    BY <1>4, <2>1, UnchangedNarrows
  <2>2. CASE /\ op[s][o].kind = Create /\ h \in DOMAIN locks
             /\ locks' = [locks EXCEPT ![h].type = Update]
    <3>1. ASSUME NEW g \in DOMAIN locks
          PROVE  Narrower(locks[g], locks'[g], s, o)
      <4>1. locks[g] \in Lock /\ Owned(locks[g])
        BY <1>4 DEF TableTyped
      <4>2. locks'[g] = IF g = h THEN [locks[h] EXCEPT !.type = Update] ELSE locks[g]
        BY <2>2
      <4> QED BY <1>5, <2>2, <4>1, <4>2
              DEF Narrower, Owned, Lock, Type, None, Update, Create, Destroy
    <3> QED BY <2>2, <3>1 DEF Narrowed
  <2> QED BY <1>2, <2>1, <2>2
<1>7. ASSUME NEW t \in Session, NEW p \in Object
      PROVE  /\ op'[t][p] \in Op
             /\ op'[t][p].handle = op[t][p].handle /\ op'[t][p].kind = op[t][p].kind
             /\ op'[t][p].key = op[t][p].key
             /\ op'[t][p].phase = IF t = s /\ p = o THEN "stored" ELSE op[t][p].phase
  <2>1. op[t][p] \in Op
    BY DEF LockInv, TypeOK
  <2>2. \/ op'[t][p] = [op[t][p] EXCEPT !.phase = "stored"] /\ t = s /\ p = o
        \/ op'[t][p] = [op[t][p] EXCEPT !.stale = TRUE] /\ ~(t = s /\ p = o)
        \/ op'[t][p] = op[t][p] /\ ~(t = s /\ p = o)
    BY <1>3
  <2> QED BY <2>1, <2>2 DEF Op
<1>8. op' \in [Session -> [Object -> Op]]
  <2>1. DOMAIN op' = Session /\ \A t \in Session : DOMAIN op'[t] = Object
    BY <1>3
  <2>2. op' = [t \in Session |-> [p \in Object |-> op'[t][p]]]
    BY <1>3
  <2> QED BY <1>7, <2>2
<1>9. OpsFollow(s, o)
  <2>1. ASSUME NEW t \in Session, NEW p \in Object
        PROVE  /\ op'[t][p].handle \in {0, op[t][p].handle}
               /\ op'[t][p].phase # "none" =>
                    /\ op[t][p].phase # "none"
                    /\ op'[t][p].handle = op[t][p].handle /\ op'[t][p].kind = op[t][p].kind
                    /\ op'[t][p].key = op[t][p].key
                    /\ op'[t][p].phase = "stored" \/ (op[t][p].phase # "stored" /\ (t # s \/ p # o))
    <3>1. CASE t = s /\ p = o
      BY <1>1, <1>7, <3>1
    <3>2. CASE ~(t = s /\ p = o)
      BY <1>7, <3>2
    <3> QED BY <3>1, <3>2
  <2> QED BY <2>1, Zenon DEF OpsFollow
<1>10. written' \in [Session -> SUBSET Instance]
  <2>1. op[s][o].key \in Instance
    BY <1>1 DEF LockInv, HandleInv
  <2>2. \A g \in OwnedBy(locks, s, o) : locks[g].key \in Instance
    BY <1>4, LockAssumption DEF OwnedBy, TableTyped, Owned
  <2>3. Targets(s, o) \subseteq Instance
    BY <2>1, <2>2 DEF Targets
  <2>4. written \in [Session -> SUBSET Instance]
    BY DEF LockInv, TypeOK
  <2> QED BY <1>1, <2>3, <2>4
<1>11. RestTyped'
  BY <1>1, <1>8, <1>10 DEF LockInv, TypeOK, HandleInv, RestTyped, tranVars
<1> QED BY <1>1, <1>6, <1>9, <1>11, NarrowingKeeps

-----------------------------------------------------------------------------
(* Transactions started, and ended, by the client.                             *)
LEMMA TransactionStartKeeps ==
  ASSUME LockInv, NEW s \in Session, TransactionStart(s)
  PROVE  LockInv'
<1>1. tran_id \in [Session -> Nat] /\ tran_level \in [Session -> Nat] /\ next_tran_id \in Nat
  BY DEF LockInv, TypeOK
<1>2. tran_id' \in [Session -> Nat] /\ tran_level' \in [Session -> Nat] /\ next_tran_id' \in Nat
  BY <1>1 DEF TransactionStart
<1>3. UNCHANGED << lockVars, request, op, finishing, written >>
  BY DEF TransactionStart
<1>4. RestTyped'
  BY <1>2, <1>3 DEF LockInv, TypeOK, HandleInv, RestTyped, lockVars
<1> QED BY <1>3, <1>4, NothingNarrows

LEMMA InnerEndKeeps ==
  ASSUME LockInv, NEW s \in Session, TransactionInnerEnd(s)
  PROVE  LockInv'
<1>1. tran_level' \in [Session -> Nat]
  BY DEF TransactionInnerEnd, LockInv, TypeOK
<1>2. UNCHANGED << lockVars, tran_id, next_tran_id, request, op, finishing, written >>
  BY DEF TransactionInnerEnd
<1>3. RestTyped'
  BY <1>1, <1>2 DEF LockInv, TypeOK, HandleInv, RestTyped, lockVars
<1> QED BY <1>2, <1>3, NothingNarrows

LEMMA TransactionEndKeeps ==
  ASSUME LockInv, NEW s \in Session, TransactionEnd(s)
  PROVE  LockInv'
<1>1. /\ Ended(s) /\ locks' \in {CommitReleased(s), RollbackReleased(s)}
      /\ UNCHANGED << next_lock_handle, lock_duplicates, tran_id, next_tran_id, request, op, finishing >>
  BY DEF TransactionEnd
<1>2. Narrowed(locks, locks', 0, 0)
  BY <1>1, TableIsTyped, WithoutNarrows DEF CommitReleased, RollbackReleased
<1>3. tran_level' \in [Session -> Nat] /\ written' \in [Session -> SUBSET Instance]
  BY <1>1 DEF Ended, LockInv, TypeOK
<1>4. RestTyped'
  BY <1>1, <1>3 DEF LockInv, TypeOK, HandleInv, RestTyped
<1>5. OpsFollow(0, 0)
  BY <1>1, LockAssumption DEF OpsFollow
<1> QED BY <1>1, <1>2, <1>4, <1>5, NarrowingKeeps

-----------------------------------------------------------------------------
LEMMA InitLocks == Init => LockInv
<1> SUFFICES ASSUME Init PROVE LockInv
  OBVIOUS
<1>1. NoRequest \in Request /\ OfInstance(NoRequest) /\ NoOp \in Op /\ NoOp.handle = 0 /\ NoOp.phase = "none"
  BY DEF NoRequest, Request, OfInstance, NoOp, Op, Type, ClassWide, None, Destroy
<1>2. DOMAIN locks = {} /\ next_lock_handle = 0 /\ lock_duplicates = {}
  BY DEF Init
<1>3. << >> \in Seq(Object)
  BY EmptySeq
<1>4. TypeOK
  BY <1>1, <1>2, <1>3 DEF Init, TypeOK
<1>5. HandleInv
  BY <1>1, <1>2 DEF Init, HandleInv
<1>6. LocksCoexist
  BY <1>2 DEF LocksCoexist
<1> QED BY <1>4, <1>5, <1>6 DEF LockInv

LEMMA StepKeeps == LockInv /\ [Next]_vars => LockInv'
<1> SUFFICES ASSUME LockInv, [Next]_vars PROVE LockInv'
  OBVIOUS
<1>1. CASE UNCHANGED vars
  BY <1>1, NothingNarrows DEF vars, lockVars, tranVars, LockInv, TypeOK, HandleInv, RestTyped
<1>2. ASSUME NEW s \in Session,
             Retry(s) \/ TransactionStart(s) \/ TransactionInnerEnd(s) \/ TransactionEnd(s)
      PROVE  LockInv'
  BY <1>2, RetryKeeps, TransactionStartKeeps, InnerEndKeeps, TransactionEndKeeps
<1>3. ASSUME NEW s \in Session, NEW o \in Object, NEW key \in Instance,
             \/ \E kind \in Kinds : BeginOp(s, o, kind, key)
             \/ \E type \in {Update, Destroy} : CascadeLock(s, o, key, type)
      PROVE  LockInv'
  BY <1>3, BeginKeeps, CascadeKeeps
<1>4. ASSUME NEW s \in Session, NEW o \in Object,
             \/ OpBegun(s, o) \/ AbortBegin(s, o) \/ CancelOp(s, o) \/ ApplyOp(s, o)
             \/ StoreOp(s, o) \/ CompleteOp(s, o) \/ FailOp(s, o)
      PROVE  LockInv'
  BY <1>4, OpBegunKeeps, AbortKeeps, CancelKeeps, ApplyKeeps, StoreKeeps, CompleteKeeps, FailKeeps
<1>5. ASSUME NEW s \in Session, NEW type \in KeyedTypes,
             \/ \E key \in Instance \cup {ClassWide} : KeyedLock(s, key, type)
             \/ \E h \in DOMAIN locks : KeyedTransform(s, h, type)
      PROVE  LockInv'
  BY <1>5, KeyedLockKeeps, TransformKeeps
<1>6. ASSUME NEW s \in Session, NEW h \in DOMAIN locks, KeyedRelease(s, h)
      PROVE  LockInv'
  BY <1>6, KeyedReleaseKeeps
<1>7. CASE Quiescent
  BY <1>1, <1>7 DEF Quiescent
<1> QED BY <1>1, <1>2, <1>3, <1>4, <1>5, <1>6, <1>7 DEF Next

LEMMA AlwaysLockInv == Spec => []LockInv
BY InitLocks, StepKeeps, PTL DEF Spec

(* The lock table, the requests and the operations are well typed, in any      *)
(* number of sessions and however calls interleave.                            *)
THEOREM LocksTyped == Spec => []TypeOK
<1>1. LockInv => TypeOK
  BY DEF LockInv
<1> QED BY <1>1, AlwaysLockInv, PTL

(* No two sessions ever have locks of types that cannot coexist on what is the *)
(* same instance, for every order of grants, transforms, releases, commits and *)
(* rollbacks, with class-wide requests, forced releases and the removal of     *)
(* duplicates among them.                                                      *)
THEOREM LocksExclude == Spec => []LocksCoexist
<1>1. LockInv => LocksCoexist
  BY DEF LockInv
<1> QED BY <1>1, AlwaysLockInv, PTL

-----------------------------------------------------------------------------
(* No class-wide scan passes dead locks of one session on different instances, *)
(* not even after a wait (of the locks asked for by key only "link" locks wait)*)
(* and nothing is destroyed through an object that its transaction still locks.*)
CarefulClients == ~ScanAcross /\ ~ForcedInTx /\ Link \notin KeyedTypes

(* The object's destroy may still be called off, with all its locks.           *)
Destroying(s, o) ==
  op[s][o].kind = Destroy /\ op[s][o].phase \in {"beginning", "begun", "storing"}

(* A lock of the session that nothing can force out before its transaction     *)
(* ends: of no operation that is beginning, and of no destroy that may fail.   *)
Safe(s, h) ==
  \A o \in Object : /\ op[s][o].phase = "beginning" => op[s][o].handle # h
                    /\ Destroying(s, o) => locks[h].root # o

Covers(h, s, key) ==
  /\ locks[h].session = s /\ Overlap(locks[h].key, key)
  /\ locks[h].level > 0 /\ locks[h].tx_type >= Update /\ Safe(s, h)

WrittenCovered ==
  \A s \in Session : \A key \in written[s] : \E h \in DOMAIN locks : Covers(h, s, key)

(* A lock that an object got in a transaction is kept as strong as it was had. *)
LevelInv ==
  \A h \in DOMAIN locks :
    locks[h].base # 0 /\ locks[h].type >= Update /\ locks[h].level > 0 => locks[h].tx_type >= Update

(* Only operations wait, each for its own lock or for those of its cascade.    *)
Waits(s, r) ==
  /\ r.key \in Instance /\ r.obj \in Object
  /\ \/ /\ r.for = "op" /\ r.type \in Kinds /\ op[s][r.obj] = NoOp
        /\ r.type = Destroy => OwnedBy(locks, s, r.obj) = {}
     \/ /\ r.for = "cascade" /\ r.type \in {Update, Destroy}
        /\ op[s][r.obj].phase = "beginning" /\ op[s][r.obj].kind = Destroy

RequestInv == \A s \in Session : request[s] # NoRequest => Waits(s, request[s])

OpLocked(s, o) ==
  LET p == op[s][o] IN
  /\ p.phase # "none" => p.kind \in Kinds
  /\ p.phase # "none" /\ p.handle \in DOMAIN locks =>
       /\ locks[p.handle].key = p.key
       /\ p.phase = "beginning" => locks[p.handle].level = tran_level[s]
  /\ p.phase \in {"beginning", "begun"} /\ p.stale => p.handle \notin DOMAIN locks
  /\ Destroying(s, o) =>
       \A h \in OwnedBy(locks, s, o) :
         /\ locks[h].type # None
         /\ p.handle \in DOMAIN locks => locks[h].level = locks[p.handle].level
  /\ p.phase = "storing" =>
       /\ ~p.stale /\ p.kind # Review
       /\ p.handle \in DOMAIN locks /\ locks[p.handle].level > 0
  /\ p.phase = "stored" => ~p.stale /\ p.key \in written[s]

OpInv == \A s \in Session, o \in Object : OpLocked(s, o)

Finishing(s, o) == op[s][o].phase \in {"storing", "stored"}

(* The operations being finished are nested in one transaction; the one that   *)
(* started it, if any, is the outermost.                                       *)
FinishOf(s) ==
  /\ tran_level[s] = 0 => Len(finishing[s]) = 0 /\ written[s] = {}
  /\ \A i, j \in 1 .. Len(finishing[s]) : finishing[s][i] = finishing[s][j] => i = j
  /\ \A i \in 1 .. Len(finishing[s]) :
       /\ Finishing(s, finishing[s][i])
       /\ op[s][finishing[s][i]].own_tx => i = 1
  /\ \A o \in Object : Finishing(s, o) =>
       \E i \in 1 .. Len(finishing[s]) : finishing[s][i] = o

FinishInv == \A s \in Session : FinishOf(s)

KeptInv == WrittenCovered /\ LevelInv /\ RequestInv /\ OpInv /\ FinishInv

-----------------------------------------------------------------------------
(* Lemmas about numbers and locks.                                             *)
LEMMA LeastNumber ==
  ASSUME NEW T \in SUBSET Nat, T # {}
  PROVE  \E n \in T : \A k \in T : n <= k
<1>1. PICK x \in T : \A y \in T : ~ (<<y, x>> \in OpToRel(<, Nat))
  BY NatLessThanWellFounded, WFMin
<1>2. \A m, n \in Nat : m < n => <<m, n>> \in OpToRel(<, Nat)
  BY Zenon DEF OpToRel
<1>3. \A y \in T : ~(y < x)
  BY <1>1, <1>2, Zenon
<1> QED BY <1>3

LEMMA LockFacts ==
  ASSUME LockInv, NEW h \in DOMAIN locks
  PROVE  /\ h \in Nat /\ h # 0 /\ locks[h] \in Lock /\ locks[h].key \in Nat
         /\ locks[h].level \in Nat /\ locks[h].type \in Nat /\ locks[h].tx_type \in Nat
<1>1. h \in 1 .. next_lock_handle /\ next_lock_handle \in Nat /\ locks[h] \in Lock
  BY DEF LockInv, TypeOK
<1>2. /\ locks[h].key \in Instance \cup {ClassWide}
      /\ locks[h].level \in Nat /\ locks[h].type \in Type /\ locks[h].tx_type \in Type
  BY <1>1 DEF Lock
<1>3. \A k \in Instance : k \in Nat
  BY LockAssumption
<1>4. Type \subseteq Nat
  BY DEF Type, None, Destroy
<1>5. h \in Nat /\ h # 0
  BY <1>1
<1>6. locks[h].key \in Nat
  <2>1. locks[h].key = 0 \/ locks[h].key \in Instance
    BY <1>2 DEF ClassWide
  <2>2. CASE locks[h].key = 0
    BY <2>2
  <2>3. CASE locks[h].key \in Instance
    BY <1>3, <2>3
  <2> QED BY <2>1, <2>2, <2>3
<1>7. locks[h].level \in Nat /\ locks[h].type \in Nat /\ locks[h].tx_type \in Nat
  BY <1>2, <1>4
<1> QED BY <1>1, <1>5, <1>6, <1>7

(* Of some locks one comes first: the one with the least handle among those    *)
(* with the least key.                                                         *)
LEMMA FirstLock ==
  ASSUME LockInv, NEW D \in SUBSET DOMAIN locks, D # {}
  PROVE  \E f \in D : \A g \in D : ~Before(g, f)
<1> DEFINE Keys == {locks[h].key : h \in D}
<1>1. /\ D \subseteq Nat
      /\ \A h \in D : locks[h].key \in Nat
  BY LockFacts
<1>2. PICK k \in Keys : \A m \in Keys : k <= m
  <2>1. Keys \in SUBSET Nat /\ Keys # {}
    BY <1>1
  <2> HIDE DEF Keys
  <2> QED BY <2>1, LeastNumber
<1>3. PICK f \in {h \in D : locks[h].key = k} : \A g \in {h \in D : locks[h].key = k} : f <= g
  <2>1. {h \in D : locks[h].key = k} # {} /\ {h \in D : locks[h].key = k} \in SUBSET Nat
    BY <1>1, <1>2
  <2> QED BY <2>1, LeastNumber
<1>4. ASSUME NEW g \in D, Before(g, f) PROVE FALSE
  <2>1. locks[g].key \in Nat /\ locks[f].key = k /\ k \in Nat /\ g \in Nat /\ f \in Nat
    BY <1>1, <1>2, <1>3
  <2>2. k <= locks[g].key
    BY <1>2
  <2>3. locks[g].key = k => f <= g
    BY <1>3
  <2> QED BY <1>4, <2>1, <2>2, <2>3 DEF Before
<1> QED BY <1>3, <1>4

(* A lock to change an instance coexists with none, of another session, to     *)
(* review or change it.                                                        *)
LEMMA Conflict ==
  ASSUME LockInv, NEW g \in DOMAIN locks, NEW h \in DOMAIN locks,
         locks[g].session # locks[h].session, Overlap(locks[g].key, locks[h].key),
         NEW a \in Held(locks[g]), NEW b \in Held(locks[h]), a >= Review, b >= Update
  PROVE  FALSE
<1>1. CanCoexist(a, b)
  BY DEF LockInv, LocksCoexist
<1>2. a \in Type /\ b \in Type
  BY DEF LockInv, TypeOK, Held, Lock
<1> QED BY <1>1, <1>2
        DEF CanCoexist, Strongest, Type, None, View, Link, Review, Obtain, Update, Create, Destroy

(* The lock that the handle of an operation finds.                             *)
LEMMA HandleLock ==
  ASSUME LockInv, OpInv, NEW s \in Session, NEW o \in Object, op[s][o].phase # "none",
         op[s][o].handle \in DOMAIN locks
  PROVE  /\ locks[op[s][o].handle].session = s /\ locks[op[s][o].handle].base = o
         /\ locks[op[s][o].handle].root \in {0, o} /\ o # 0
         /\ locks[op[s][o].handle].key = op[s][o].key
         /\ op[s][o].kind \in Kinds
         /\ op[s][o].kind \in Type /\ op[s][o].kind >= Review
         /\ op[s][o].kind # Review => op[s][o].kind >= Update
         /\ op[s][o].phase # "stored" => locks[op[s][o].handle].type = op[s][o].kind
<1>1. OpLocked(s, o)
  BY DEF OpInv
<1>2. o # 0
  BY LockAssumption
<1>3. op[s][o].kind \in Kinds
  BY <1>1 DEF OpLocked
<1>4. op[s][o].kind \in {Create, Review, Update, Destroy}
  BY <1>3, LockAssumption
<1> QED BY <1>1, <1>2, <1>3, <1>4 DEF OpLocked, LockInv, HandleInv, Owned,
             Type, None, Review, Update, Create, Destroy

(* A lock that belongs to an object was got by it.                             *)
LEMMA OwnersLock ==
  ASSUME LockInv, NEW s \in Session, NEW o \in Object, NEW h \in OwnedBy(locks, s, o)
  PROVE  /\ h \in DOMAIN locks /\ locks[h].session = s /\ locks[h].root = o
         /\ locks[h].base = o /\ o # 0 /\ locks[h] \in Lock
BY LockAssumption DEF LockInv, TypeOK, HandleInv, Owned, OwnedBy

-----------------------------------------------------------------------------
(* When duplicates are removed, the first of the locks that cover a written    *)
(* instance stays: one is a duplicate only of another that covers it too.      *)
LEMMA DuplicateCovers ==
  ASSUME LockInv, OpInv, NEW s, NEW r, NEW skip, r.key # ClassWide \/ ~DeadApart,
         NEW t \in Session, NEW key, NEW f \in DOMAIN locks, NEW g \in DOMAIN locks,
         Covers(f, t, key), Overlap(r.key, locks[f].key), Overlap(r.key, locks[g].key),
         locks[f].type = None, Before(g, f), SameLock(locks[g], locks[f])
  PROVE  Covers(g, t, key)
<1>1. /\ locks[g].type = None /\ locks[g].session = t /\ locks[g].level > 0
      /\ locks[g].tx_type >= Update
  BY DEF SameLock, Covers
<1>2. Overlap(locks[g].key, key)
  <2>1. locks[f].key \in Nat /\ locks[g].key \in Nat
    BY LockFacts
  <2>2. CASE ~DeadApart
    BY <1>1, <2>2 DEF DeadApart, Covers
  <2>3. CASE r.key # ClassWide
    <3>1. locks[f].key \in {ClassWide, r.key} /\ locks[g].key \in {ClassWide, r.key}
      BY <2>3 DEF Overlap
    <3>2. locks[g].key <= locks[f].key
      BY <2>1 DEF Before
    <3>3. locks[g].key = ClassWide \/ locks[g].key = locks[f].key
      BY <2>1, <3>1, <3>2 DEF ClassWide
    <3> QED BY <3>3 DEF Overlap, Covers
  <2> QED BY <2>2, <2>3
<1>3. Safe(t, g)
  <2> SUFFICES ASSUME NEW o \in Object
               PROVE  /\ op[t][o].phase = "beginning" => op[t][o].handle # g
                      /\ Destroying(t, o) => locks[g].root # o
    BY DEF Safe
  <2>1. ASSUME op[t][o].phase = "beginning", op[t][o].handle = g PROVE FALSE
    <3>1. locks[g].type = op[t][o].kind /\ op[t][o].kind \in Type /\ op[t][o].kind >= Review
      BY <2>1, HandleLock
    <3> QED BY <1>1, <3>1 DEF Type, None, Review, Destroy
  <2>2. ASSUME Destroying(t, o), locks[g].root = o PROVE FALSE
    <3>1. g \in OwnedBy(locks, t, o)
      BY <1>1, <2>2 DEF OwnedBy
    <3> QED BY <1>1, <2>2, <3>1 DEF OpInv, OpLocked
  <2> QED BY <2>1, <2>2
<1> QED BY <1>1, <1>2, <1>3 DEF Covers

LEMMA CoverKept ==
  ASSUME LockInv, OpInv, WrittenCovered, NEW s, NEW r, NEW skip,
         r.key # ClassWide \/ ~DeadApart, NEW t \in Session, NEW key \in written[t]
  PROVE  \E h \in DOMAIN locks \ Duplicates(s, r, skip) : Covers(h, t, key)
<1> DEFINE D == {h \in DOMAIN locks : Covers(h, t, key)}
<1>1. D # {} /\ D \in SUBSET DOMAIN locks
  BY DEF WrittenCovered
<1>2. PICK f \in D : \A g \in D : ~Before(g, f)
  <2> HIDE DEF D
  <2> QED BY <1>1, FirstLock
<1>3. ASSUME f \in Duplicates(s, r, skip) PROVE FALSE
  <2>1. PICK g \in Scanned(s, r, skip) : Before(g, f) /\ SameLock(locks[g], locks[f])
    BY <1>3 DEF Duplicates
  <2>2. locks[f].type = None /\ f \in Scanned(s, r, skip)
    BY <1>3 DEF Duplicates
  <2>3. /\ g \in DOMAIN locks /\ Overlap(r.key, locks[g].key)
        /\ f \in DOMAIN locks /\ Overlap(r.key, locks[f].key)
    BY <2>1, <2>2 DEF Scanned, Visible
  <2>4. Covers(g, t, key)
    BY <1>2, <2>1, <2>2, <2>3, DuplicateCovers
  <2> QED BY <1>2, <2>1, <2>3, <2>4
<1> QED BY <1>2, <1>3

(* No duplicate is the lock of an operation that has yet to store.             *)
LEMMA HandleNoDuplicate ==
  ASSUME LockInv, OpInv, NEW s, NEW r, NEW skip, NEW t \in Session, NEW p \in Object,
         op[t][p].phase \notin {"none", "stored"}
  PROVE  op[t][p].handle \notin Duplicates(s, r, skip)
<1> SUFFICES ASSUME op[t][p].handle \in Duplicates(s, r, skip) PROVE FALSE
  OBVIOUS
<1>1. op[t][p].handle \in DOMAIN locks /\ locks[op[t][p].handle].type = None
  BY DEF Duplicates, Scanned, Visible
<1>2. locks[op[t][p].handle].type = op[t][p].kind /\ op[t][p].kind >= Review
  BY <1>1, HandleLock
<1> QED BY <1>1, <1>2 DEF None, Review

-----------------------------------------------------------------------------
(* What may become of a lock when none is granted: it is as it was, but that   *)
(* one of object "o" of session "s" may die, and a keyed one of that session   *)
(* may have another type.                                                      *)
Remains(l, m, s, o) ==
  /\ m.session = l.session /\ m.key = l.key /\ m.base = l.base
  /\ m.level = l.level /\ m.tx_type = l.tx_type /\ m.root \in {0, l.root}
  /\ m.type = l.type \/ /\ l.session = s /\ l.base \in {0, o}
                        /\ l.base # 0 => m.type = None

Trimmed(t, u, s, o) ==
  DOMAIN u \subseteq DOMAIN t /\ \A h \in DOMAIN u : Remains(t[h], u[h], s, o)

LEMMA TrimmedAgain ==
  ASSUME NEW t, NEW u, NEW v, NEW s, NEW o, Trimmed(t, u, s, o), Trimmed(u, v, s, o)
  PROVE  Trimmed(t, v, s, o)
<1>1. DOMAIN v \subseteq DOMAIN u /\ DOMAIN u \subseteq DOMAIN t
  BY DEF Trimmed
<1>2. ASSUME NEW h \in DOMAIN v
      PROVE  Remains(t[h], v[h], s, o)
  <2>1. Remains(t[h], u[h], s, o) /\ Remains(u[h], v[h], s, o)
    BY <1>1 DEF Trimmed
  <2> QED BY <2>1 DEF Remains
<1> QED BY <1>1, <1>2 DEF Trimmed

LEMMA UnchangedTrims ==
  ASSUME NEW t, NEW s, NEW o
  PROVE  Trimmed(t, t, s, o)
BY DEF Trimmed, Remains

LEMMA WithoutTrims ==
  ASSUME NEW t, NEW handles, NEW s, NEW o
  PROVE  /\ Trimmed(t, Without(t, handles), s, o)
         /\ DOMAIN Without(t, handles) = DOMAIN t \ handles
BY DEF Trimmed, Remains, Without

(* A trimmed table is typed as far as the lemmas below need it.                *)
LEMMA TypeSet ==
  ASSUME NEW l \in Lock, NEW type
  PROVE  /\ [l EXCEPT !.type = type].type = type
         /\ [l EXCEPT !.type = type].session = l.session
         /\ [l EXCEPT !.type = type].key = l.key
         /\ [l EXCEPT !.type = type].base = l.base
         /\ [l EXCEPT !.type = type].root = l.root
         /\ [l EXCEPT !.type = type].level = l.level
         /\ [l EXCEPT !.type = type].tx_type = l.tx_type
BY DEF Lock

LEMMA ReleasedTrims ==
  ASSUME NEW t, TableTyped(t), NEW h, NEW force \in BOOLEAN, NEW s, NEW o,
         h \in DOMAIN t => t[h].session = s /\ t[h].base \in {0, o}
  PROVE  Trimmed(t, Released(t, h, force), s, o)
<1>1. CASE h \notin DOMAIN t
  BY <1>1, UnchangedTrims DEF Released
<1>2. CASE h \in DOMAIN t /\ t[h].level > 0 /\ ~force
  <2>1. Released(t, h, force) = [t EXCEPT ![h].type = None]
    BY <1>2 DEF Released
  <2>2. ASSUME NEW g \in DOMAIN t
        PROVE  Remains(t[g], [t EXCEPT ![h].type = None][g], s, o)
    <3>1. CASE g = h
      <4>1. [t EXCEPT ![h].type = None][g] = [t[h] EXCEPT !.type = None] /\ t[h] \in Lock
        BY <1>2, <3>1 DEF TableTyped
      <4> QED BY <1>2, <3>1, <4>1, TypeSet DEF Remains
    <3>2. CASE g # h
      <4>1. [t EXCEPT ![h].type = None][g] = t[g]
        BY <3>2
      <4> QED BY <4>1 DEF Remains
    <3> QED BY <3>1, <3>2
  <2> QED BY <2>1, <2>2 DEF Trimmed
<1>3. CASE h \in DOMAIN t /\ ~(t[h].level > 0 /\ ~force)
  BY <1>3, WithoutTrims DEF Released
<1> QED BY <1>1, <1>2, <1>3

LEMMA DeadLevel ==
  ASSUME NEW l \in Lock
  PROVE  [l EXCEPT !.root = 0, !.type = None].level = l.level
<1> DEFINE rootless == [l EXCEPT !.root = 0]
<1>1. DOMAIN rootless = DOMAIN l /\ rootless.level = l.level
  BY DEF Lock
<1>2. [l EXCEPT !.root = 0, !.type = None] = [rootless EXCEPT !.type = None]
  OBVIOUS
<1>3. "level" \in DOMAIN l
  BY DEF Lock
<1> HIDE DEF rootless
<1> QED BY <1>1, <1>2, <1>3

LEMMA OwnerTrims ==
  ASSUME NEW t, TableTyped(t), NEW s, NEW o, o # 0, NEW force \in BOOLEAN
  PROVE  Trimmed(t, OwnerReleased(t, s, o, force), s, o)
<1> DEFINE u == OwnerReleased(t, s, o, force)
<1>1. DOMAIN u \subseteq DOMAIN t
  BY DEF OwnerReleased
<1>2. ASSUME NEW h \in DOMAIN u
      PROVE  Remains(t[h], u[h], s, o)
  <2>1. t[h] \in Lock /\ Owned(t[h])
    BY <1>1 DEF TableTyped
  <2>2. \/ u[h] = t[h]
        \/ /\ u[h] = [t[h] EXCEPT !.root = 0, !.type = None]
           /\ t[h].session = s /\ t[h].root = o
    BY DEF OwnerReleased, OwnedBy
  <2>3. CASE u[h] = t[h]
    BY <2>3 DEF Remains
  <2>4. CASE /\ u[h] = [t[h] EXCEPT !.root = 0, !.type = None]
             /\ t[h].session = s /\ t[h].root = o
    <3>1. /\ u[h].type = None /\ u[h].root = 0 /\ u[h].session = t[h].session
          /\ u[h].key = t[h].key /\ u[h].base = t[h].base /\ u[h].tx_type = t[h].tx_type
      BY <2>1, <2>4, DeadLock
    <3>2. u[h].level = t[h].level
      BY <2>1, <2>4, DeadLevel
    <3>3. t[h].base = o
      BY <2>1, <2>4 DEF Owned
    <3> QED BY <2>4, <3>1, <3>2, <3>3 DEF Remains
  <2> QED BY <2>2, <2>3, <2>4
<1> QED BY <1>1, <1>2 DEF Trimmed

(* The locks that stay, of a table that has been trimmed for an object whose   *)
(* locks are then released: those that cover what is written ...               *)
LEMMA CoverStays ==
  ASSUME LockInv, NEW s \in Session, NEW o \in Object, NEW u, Trimmed(locks, u, s, o),
         NEW h \in DOMAIN u, NEW t \in Session, NEW key, Covers(h, t, key)
  PROVE  /\ \A g : h \in DOMAIN Released(u, g, FALSE)
         /\ h \in DOMAIN OwnerReleased(u, s, o, FALSE)
         /\ t # s \/ Destroying(s, o) => h \in DOMAIN OwnerReleased(u, s, o, TRUE)
         /\ op[s][o].phase = "beginning" => h \in DOMAIN Released(u, op[s][o].handle, TRUE)
<1>1. /\ h \in DOMAIN locks /\ u[h].level > 0 /\ u[h].session = t /\ locks[h].session = t
      /\ u[h].root \in {0, locks[h].root} /\ Safe(t, h)
  BY DEF Trimmed, Remains, Covers
<1>2. \A g : h \in DOMAIN Released(u, g, FALSE)
  BY <1>1 DEF Released, Without
<1>3. h \in DOMAIN OwnerReleased(u, s, o, FALSE)
  BY <1>1 DEF OwnerReleased
<1>4. ASSUME t # s \/ Destroying(s, o) PROVE h \in DOMAIN OwnerReleased(u, s, o, TRUE)
  <2>1. o # 0
    BY LockAssumption
  <2>2. h \notin OwnedBy(u, s, o)
    BY <1>1, <1>4, <2>1 DEF OwnedBy, Safe
  <2> QED BY <2>2 DEF OwnerReleased
<1>5. ASSUME op[s][o].phase = "beginning" PROVE h \in DOMAIN Released(u, op[s][o].handle, TRUE)
  <2>1. h # op[s][o].handle
    BY <1>1, <1>5 DEF Safe, LockInv, HandleInv
  <2> QED BY <2>1 DEF Released, Without
<1> QED BY <1>2, <1>3, <1>4, <1>5

(* ... and those of the other operations that have yet to store.               *)
LEMMA HandleStays ==
  ASSUME LockInv, OpInv, NEW s \in Session, NEW o \in Object, NEW u, Trimmed(locks, u, s, o),
         NEW t \in Session, NEW p \in Object, t # s \/ p # o,
         op[t][p].phase \notin {"none", "stored"}, op[t][p].handle \in DOMAIN u
  PROVE  /\ \A force : op[t][p].handle \in DOMAIN OwnerReleased(u, s, o, force)
         /\ op[s][o].phase # "none" =>
              \A force : op[t][p].handle \in DOMAIN Released(u, op[s][o].handle, force)
<1> DEFINE h == op[t][p].handle
<1>1. h \in DOMAIN locks
  BY DEF Trimmed
<1>2. locks[h].session = t /\ locks[h].base = p /\ locks[h].root \in {0, p} /\ p # 0 /\ o # 0
  BY <1>1, HandleLock, LockAssumption
<1>3. u[h].session = t /\ u[h].root \in {0, p}
  BY <1>2 DEF Trimmed, Remains
<1>4. ASSUME NEW force PROVE h \in DOMAIN OwnerReleased(u, s, o, force)
  <2>1. h \notin OwnedBy(u, s, o)
    BY <1>2, <1>3 DEF OwnedBy
  <2> QED BY <2>1 DEF OwnerReleased
<1>5. ASSUME op[s][o].phase # "none", NEW force PROVE h \in DOMAIN Released(u, op[s][o].handle, force)
  <2>1. h # op[s][o].handle
    <3> SUFFICES ASSUME h = op[s][o].handle PROVE FALSE
      OBVIOUS
    <3>1. locks[h].session = s /\ locks[h].base = o
      BY <1>1, <1>5, HandleLock
    <3> QED BY <1>2, <3>1
  <2> QED BY <2>1 DEF Released, Without
<1> QED BY <1>4, <1>5

-----------------------------------------------------------------------------
(* The operations after a step that grants no lock and stores nothing: that of *)
(* object "o" of session "s", if any, is over.                                 *)
OpsStay(s, o) ==
  \A t \in Session, p \in Object : op'[t][p] = IF t = s /\ p = o THEN NoOp ELSE op[t][p]

(* What such a step must leave for what is written to stay covered.            *)
Leaves(s, o) ==
  /\ Trimmed(locks, locks', s, o) /\ OpsStay(s, o)
  /\ \A t \in Session : request'[t] # NoRequest => Waits(t, request'[t]) /\ op'[t] = op[t]
  /\ \A t \in Session, p \in Object :
       /\ op'[t][p].phase = "storing" => op[t][p].handle \in DOMAIN locks'
       /\ op'[t][p].phase = "stored" => op[t][p].key \in written'[t]
       /\ op'[t][p].phase = "beginning" => tran_level'[t] = tran_level[t]
  /\ \A t \in Session : \A key \in written'[t] : \E h \in DOMAIN locks' : Covers(h, t, key)

LEMMA NoOpFacts ==
  /\ NoOp.phase = "none" /\ NoOp.kind = None /\ NoOp.own_tx = FALSE
  /\ NoOp.stale = FALSE /\ NoOp.handle = 0
BY DEF NoOp

LEMMA CoversAfter ==
  ASSUME NEW s, NEW o, Trimmed(locks, locks', s, o), OpsStay(s, o),
         NEW t \in Session, NEW key, NEW h \in DOMAIN locks', Covers(h, t, key)
  PROVE  Covers(h, t, key)'
<1>1. h \in DOMAIN locks /\ Remains(locks[h], locks'[h], s, o)
  BY DEF Trimmed
<1>2. ASSUME NEW p \in Object
      PROVE  /\ op'[t][p].phase = "beginning" => op'[t][p].handle # h
             /\ Destroying(t, p)' => locks'[h].root # p
  <2>1. \/ op'[t][p].phase = "none"
        \/ op'[t][p] = op[t][p]
    BY NoOpFacts DEF OpsStay
  <2>2. CASE op'[t][p].phase = "none"
    BY <2>2 DEF Destroying
  <2>3. CASE op'[t][p] = op[t][p]
    <3>1. p # 0
      BY LockAssumption
    <3> QED BY <1>1, <2>3, <3>1 DEF Covers, Safe, Destroying, Remains
  <2> QED BY <2>1, <2>2, <2>3
<1>3. Safe(t, h)'
  BY <1>2 DEF Safe
<1> QED BY <1>1, <1>3 DEF Covers, Remains

(* The locks of an object whose destroy goes on are as they were.              *)
LEMMA OwnedAfter ==
  ASSUME LockInv, NEW s, NEW o, Trimmed(locks, locks', s, o),
         NEW t \in Session, NEW p \in Object, NEW h \in OwnedBy(locks', t, p)
  PROVE  /\ h \in OwnedBy(locks, t, p) /\ locks'[h].level = locks[h].level
         /\ t # s \/ p # o => locks'[h].type = locks[h].type
<1>1. h \in DOMAIN locks /\ Remains(locks[h], locks'[h], s, o) /\ p # 0
  BY LockAssumption DEF Trimmed, OwnedBy
<1>2. locks'[h].session = t /\ locks'[h].root = p
  BY DEF OwnedBy
<1>3. h \in OwnedBy(locks, t, p)
  BY <1>1, <1>2 DEF Remains, OwnedBy
<1>4. locks[h].base = p
  BY <1>3, OwnersLock
<1> QED BY <1>1, <1>2, <1>3, <1>4 DEF Remains

LEMMA LeavesOps ==
  ASSUME LockInv, OpInv, NEW s, NEW o, Leaves(s, o), NEW t \in Session, NEW p \in Object
  PROVE  OpLocked(t, p)'
<1>1. CASE t = s /\ p = o
  <2>1. op'[t][p] = NoOp
    BY <1>1 DEF Leaves, OpsStay
  <2> QED BY <2>1, NoOpFacts DEF OpLocked, Destroying
<1>2. CASE ~(t = s /\ p = o)
  <2>1. op'[t][p] = op[t][p] /\ OpLocked(t, p)
    BY <1>2 DEF Leaves, OpsStay, OpInv
  <2>2. DOMAIN locks' \subseteq DOMAIN locks
    BY DEF Leaves, Trimmed
  <2>3. op'[t][p].phase # "none" => op'[t][p].kind \in Kinds
    BY <2>1 DEF OpLocked
  <2>4. ASSUME op'[t][p].phase # "none", op'[t][p].handle \in DOMAIN locks'
        PROVE  /\ locks'[op'[t][p].handle].key = op'[t][p].key
               /\ locks'[op'[t][p].handle].level = locks[op[t][p].handle].level
               /\ op'[t][p].phase = "beginning" =>
                    locks'[op'[t][p].handle].level = tran_level'[t]
    <3>1. Remains(locks[op[t][p].handle], locks'[op[t][p].handle], s, o)
      BY <2>1, <2>4 DEF Leaves, Trimmed
    <3> QED BY <2>1, <2>2, <2>4, <3>1 DEF OpLocked, Remains, Leaves
  <2>5. op'[t][p].phase \in {"beginning", "begun"} /\ op'[t][p].stale =>
          op'[t][p].handle \notin DOMAIN locks'
    BY <2>1, <2>2 DEF OpLocked
  <2>6. ASSUME Destroying(t, p)', NEW h \in OwnedBy(locks', t, p)
        PROVE  /\ locks'[h].type # None
               /\ op'[t][p].handle \in DOMAIN locks' =>
                    locks'[h].level = locks'[op'[t][p].handle].level
    <3>1. /\ h \in OwnedBy(locks, t, p) /\ locks'[h].level = locks[h].level
          /\ locks'[h].type = locks[h].type
      BY <1>2, OwnedAfter DEF Leaves
    <3>2. Destroying(t, p) /\ op'[t][p].phase # "none"
      BY <2>1, <2>6 DEF Destroying
    <3>3. /\ locks[h].type # None
          /\ op[t][p].handle \in DOMAIN locks => locks[h].level = locks[op[t][p].handle].level
      BY <2>1, <3>1, <3>2 DEF OpLocked
    <3> QED BY <2>1, <2>2, <2>4, <3>1, <3>2, <3>3
  <2>7. op'[t][p].phase = "storing" =>
          /\ ~op'[t][p].stale /\ op'[t][p].kind # Review
          /\ op'[t][p].handle \in DOMAIN locks' /\ locks'[op'[t][p].handle].level > 0
    <3> SUFFICES ASSUME op'[t][p].phase = "storing"
                 PROVE  /\ ~op'[t][p].stale /\ op'[t][p].kind # Review
                        /\ op'[t][p].handle \in DOMAIN locks'
                        /\ locks'[op'[t][p].handle].level > 0
      OBVIOUS
    <3>1. op'[t][p].handle \in DOMAIN locks'
      BY <2>1 DEF Leaves
    <3> QED BY <2>1, <2>4, <3>1 DEF OpLocked
  <2>8. op'[t][p].phase = "stored" => ~op'[t][p].stale /\ op'[t][p].key \in written'[t]
    BY <2>1 DEF OpLocked, Leaves
  <2> QED BY <2>3, <2>4, <2>5, <2>6, <2>7, <2>8 DEF OpLocked
<1> QED BY <1>1, <1>2

LEMMA LeavesKept ==
  ASSUME LockInv, KeptInv, NEW s \in Session, NEW o, Leaves(s, o), FinishInv'
  PROVE  KeptInv'
<1>1. WrittenCovered'
  <2> SUFFICES ASSUME NEW t \in Session, NEW key \in written'[t]
               PROVE  \E h \in DOMAIN locks' : Covers(h, t, key)'
    BY DEF WrittenCovered
  <2>1. PICK h \in DOMAIN locks' : Covers(h, t, key)
    BY DEF Leaves
  <2> QED BY <2>1, CoversAfter DEF Leaves
<1>2. LevelInv'
  <2> SUFFICES ASSUME NEW h \in DOMAIN locks', locks'[h].base # 0, locks'[h].type >= Update,
                      locks'[h].level > 0
               PROVE  locks'[h].tx_type >= Update
    BY DEF LevelInv
  <2>1. h \in DOMAIN locks /\ Remains(locks[h], locks'[h], s, o)
    BY DEF Leaves, Trimmed
  <2>2. locks'[h].type = locks[h].type
    BY <2>1 DEF Remains, None, Update
  <2> QED BY <2>1, <2>2 DEF KeptInv, LevelInv, Remains
<1>3. RequestInv'
  <2> SUFFICES ASSUME NEW t \in Session, request'[t] # NoRequest
               PROVE  Waits(t, request[t])'
    BY DEF RequestInv
  <2>1. Waits(t, request'[t]) /\ op'[t] = op[t]
    BY DEF Leaves
  <2>2. OwnedBy(locks, t, request'[t].obj) = {} => OwnedBy(locks', t, request'[t].obj) = {}
    BY <2>1, OwnedAfter DEF Leaves, Waits
  <2> QED BY <2>1, <2>2 DEF Waits
<1>4. OpInv'
  BY LeavesOps DEF OpInv, KeptInv
<1> QED BY <1>1, <1>2, <1>3, <1>4 DEF KeptInv

-----------------------------------------------------------------------------
(* The operations that a session is finishing.                                 *)
LEMMA FinishSame ==
  ASSUME NEW t \in Session, FinishOf(t), finishing'[t] = finishing[t],
         tran_level'[t] = 0 => tran_level[t] = 0 /\ written'[t] = written[t],
         finishing[t] \in Seq(Object),
         \A p \in Object : /\ Finishing(t, p)' <=> Finishing(t, p)
                           /\ Finishing(t, p) => op'[t][p].own_tx = op[t][p].own_tx
  PROVE  FinishOf(t)'
<1>1. \A i \in 1 .. Len(finishing[t]) : finishing[t][i] \in Object
  BY ElementOfSeq
<1>2. tran_level'[t] = 0 => Len(finishing'[t]) = 0 /\ written'[t] = {}
  BY DEF FinishOf
<1>3. \A i, j \in 1 .. Len(finishing'[t]) : finishing'[t][i] = finishing'[t][j] => i = j
  BY DEF FinishOf
<1>4. ASSUME NEW i \in 1 .. Len(finishing'[t])
      PROVE  Finishing(t, finishing[t][i])' /\ (op'[t][finishing'[t][i]].own_tx => i = 1)
  <2>1. finishing[t][i] \in Object /\ Finishing(t, finishing[t][i])
    BY <1>1 DEF FinishOf
  <2>2. op[t][finishing[t][i]].own_tx => i = 1
    BY DEF FinishOf
  <2>3. Finishing(t, finishing[t][i])' /\ op'[t][finishing[t][i]].own_tx = op[t][finishing[t][i]].own_tx
    BY <2>1
  <2> QED BY <2>2, <2>3 DEF Finishing
<1>5. \A p \in Object : Finishing(t, p)' =>
        \E i \in 1 .. Len(finishing'[t]) : finishing'[t][i] = p
  BY DEF FinishOf
<1> QED BY <1>2, <1>3, <1>4, <1>5 DEF FinishOf

-----------------------------------------------------------------------------
(* A table cut down from the present one, for an object that gives up locks.   *)
Cut(u, s, o) == Trimmed(locks, u, s, o) /\ Narrowed(locks, u, s, o)

LEMMA CutNone ==
  ASSUME LockInv, NEW s, NEW o
  PROVE  Cut(locks, s, o)
BY TableIsTyped, UnchangedTrims, UnchangedNarrows DEF Cut

LEMMA CutWithout ==
  ASSUME LockInv, NEW handles, NEW s, NEW o
  PROVE  Cut(Without(locks, handles), s, o)
BY TableIsTyped, WithoutTrims, WithoutNarrows DEF Cut

LEMMA CutOwner ==
  ASSUME LockInv, NEW s \in Session, NEW o \in Object, NEW u, Cut(u, s, o), NEW force \in BOOLEAN
  PROVE  Cut(OwnerReleased(u, s, o, force), s, o)
<1>1. TableTyped(u) /\ o # 0
  BY NarrowedTyped, LockAssumption DEF Cut
<1>2. Trimmed(u, OwnerReleased(u, s, o, force), s, o)
  BY <1>1, OwnerTrims
<1>3. Narrowed(locks, OwnerReleased(u, s, o, force), s, o)
  BY OwnerReleasedToo DEF Cut
<1> QED BY <1>2, <1>3, TrimmedAgain DEF Cut

LEMMA CutHandle ==
  ASSUME LockInv, NEW s \in Session, NEW o \in Object, op[s][o].phase # "none",
         NEW u, Cut(u, s, o), NEW force \in BOOLEAN
  PROVE  Cut(Released(u, op[s][o].handle, force), s, o)
<1> DEFINE h == op[s][o].handle
<1>1. TableTyped(u)
  BY NarrowedTyped DEF Cut
<1>2. h \in DOMAIN u => u[h].session = s /\ u[h].base \in {0, o}
  BY DEF LockInv, HandleInv, Cut, Trimmed, Remains
<1>3. Trimmed(u, Released(u, h, force), s, o)
  BY <1>1, <1>2, ReleasedTrims
<1>4. Narrowed(locks, Released(u, h, force), s, o)
  BY HandleReleased DEF Cut
<1> QED BY <1>3, <1>4, TrimmedAgain DEF Cut

LEMMA CutCancelled ==
  ASSUME LockInv, OpInv, NEW s \in Session, NEW o \in Object, op[s][o].phase # "none",
         NEW u, Cut(u, s, o)
  PROVE  /\ Cut(Cancelled(u, s, o), s, o)
         /\ \A h \in DOMAIN u, t \in Session, key \in Instance :
              Covers(h, t, key) /\ (t # s \/ op[s][o].kind # Destroy \/ Destroying(s, o)) =>
                h \in DOMAIN Cancelled(u, s, o)
         /\ \A t \in Session, p \in Object :
              (t # s \/ p # o) /\ op[t][p].phase \notin {"none", "stored"}
                /\ op[t][p].handle \in DOMAIN u =>
                op[t][p].handle \in DOMAIN Cancelled(u, s, o)
<1> DEFINE v == IF op[s][o].kind = Destroy THEN OwnerReleased(u, s, o, TRUE) ELSE u
<1>1. Cut(v, s, o)
  BY CutOwner
<1>2. Cancelled(u, s, o) = Released(v, op[s][o].handle, FALSE)
  BY DEF Cancelled
<1>3. ASSUME NEW h \in DOMAIN u, NEW t \in Session, NEW key \in Instance, Covers(h, t, key),
             t # s \/ op[s][o].kind # Destroy \/ Destroying(s, o)
      PROVE  h \in DOMAIN v
  BY <1>3, CoverStays DEF Cut
<1>4. ASSUME NEW t \in Session, NEW p \in Object, t # s \/ p # o,
             op[t][p].phase \notin {"none", "stored"}, op[t][p].handle \in DOMAIN u
      PROVE  op[t][p].handle \in DOMAIN v
  BY <1>4, HandleStays DEF Cut
<1> HIDE DEF v
<1>5. Cut(Released(v, op[s][o].handle, FALSE), s, o)
  BY <1>1, CutHandle
<1>6. ASSUME NEW h \in DOMAIN u, NEW t \in Session, NEW key \in Instance, Covers(h, t, key),
             t # s \/ op[s][o].kind # Destroy \/ Destroying(s, o)
      PROVE  h \in DOMAIN Released(v, op[s][o].handle, FALSE)
  BY <1>1, <1>3, <1>6, CoverStays DEF Cut
<1>7. ASSUME NEW t \in Session, NEW p \in Object, t # s \/ p # o,
             op[t][p].phase \notin {"none", "stored"}, op[t][p].handle \in DOMAIN u
      PROVE  op[t][p].handle \in DOMAIN Released(v, op[s][o].handle, FALSE)
  BY <1>1, <1>4, <1>7, HandleStays DEF Cut
<1> QED BY <1>2, <1>5, <1>6, <1>7

-----------------------------------------------------------------------------
(* The end of an operation: the locks of the others that have yet to store are *)
(* there, and what covers all that is written after it.                        *)
OthersLeft(s, o) ==
  \A t \in Session, p \in Object : t # s \/ p # o =>
    /\ op[t][p].phase = "storing" => op[t][p].handle \in DOMAIN locks'
    /\ op[t][p].phase = "stored" => op[t][p].key \in written'[t]

WrittenLeft ==
  \A t \in Session : \A key \in written'[t] : \E h \in DOMAIN locks' : Covers(h, t, key)

LevelsLeft(s) ==
  \A t \in Session : tran_level'[t] = tran_level[t] \/ (t = s /\ Ready(s))

LEMMA EndLeaves ==
  ASSUME LockInv, KeptInv, NEW s \in Session, NEW o \in Object, request[s] = NoRequest,
         request' = request, op' = [op EXCEPT ![s][o] = NoOp], Cut(locks', s, o),
         OthersLeft(s, o), WrittenLeft, LevelsLeft(s)
  PROVE  Leaves(s, o) /\ OpsStay(s, o)
<1>1. OpsStay(s, o)
  <2>1. op \in [Session -> [Object -> Op]]
    BY DEF LockInv, TypeOK
  <2> QED BY <2>1 DEF OpsStay
<1>2. ASSUME NEW t \in Session, request'[t] # NoRequest
      PROVE  Waits(t, request'[t]) /\ op'[t] = op[t]
  <2>1. t # s
    BY <1>2
  <2>2. op'[t] = op[t]
    BY <2>1
  <2> QED BY <1>2, <2>2 DEF KeptInv, RequestInv
<1>3. ASSUME NEW t \in Session, NEW p \in Object
      PROVE  /\ op'[t][p].phase = "storing" => op[t][p].handle \in DOMAIN locks'
             /\ op'[t][p].phase = "stored" => op[t][p].key \in written'[t]
             /\ op'[t][p].phase = "beginning" => tran_level'[t] = tran_level[t]
  <2>1. CASE t = s /\ p = o
    BY <1>1, <2>1, NoOpFacts DEF OpsStay
  <2>2. CASE t # s \/ p # o
    <3>1. op'[t][p] = op[t][p]
      BY <1>1, <2>2 DEF OpsStay
    <3> QED BY <2>2, <3>1 DEF Ready, OthersLeft, LevelsLeft
  <2> QED BY <2>1, <2>2
<1> QED BY <1>1, <1>2, <1>3 DEF Leaves, Cut, WrittenLeft

(* One that has not started to finish leaves the others to finish.             *)
LEMMA FinishUntouched ==
  ASSUME LockInv, KeptInv, NEW s, NEW o, OpsStay(s, o), ~Finishing(s, o),
         UNCHANGED << tran_level, written, finishing >>
  PROVE  FinishInv'
<1> SUFFICES ASSUME NEW t \in Session PROVE FinishOf(t)'
  BY DEF FinishInv
<1>1. FinishOf(t) /\ finishing[t] \in Seq(Object)
  BY DEF KeptInv, FinishInv, LockInv, TypeOK
<1>2. ASSUME NEW p \in Object
      PROVE  /\ Finishing(t, p)' <=> Finishing(t, p)
             /\ Finishing(t, p) => op'[t][p].own_tx = op[t][p].own_tx
  BY NoOpFacts DEF OpsStay, Finishing
<1> QED BY <1>1, <1>2, FinishSame

LEMMA AbortKept ==
  ASSUME LockInv, KeptInv, NEW s \in Session, NEW o \in Object, AbortBegin(s, o)
  PROVE  KeptInv'
<1> DEFINE u == Released(locks, op[s][o].handle, TRUE)
           v == OwnerReleased(u, s, o, TRUE)
<1>1. /\ request[s] = NoRequest /\ op[s][o].phase = "beginning"
      /\ locks' = u \/ (op[s][o].kind = Destroy /\ locks' = v)
      /\ op' = [op EXCEPT ![s][o] = NoOp]
      /\ request' = request /\ UNCHANGED << tran_level, written, finishing >>
  BY DEF AbortBegin, tranVars
<1>2. OpInv /\ WrittenCovered
  BY DEF KeptInv
<1>3. Cut(locks, s, o) /\ Cut(u, s, o)
  BY <1>1, CutNone, CutHandle
<1>4. ASSUME NEW h \in DOMAIN locks, NEW t \in Session, NEW key, Covers(h, t, key)
      PROVE  h \in DOMAIN u
  BY <1>1, <1>3, <1>4, CoverStays DEF Cut
<1>5. ASSUME NEW t \in Session, NEW p \in Object, t # s \/ p # o, op[t][p].phase = "storing"
      PROVE  op[t][p].handle \in DOMAIN u
  <2>1. op[t][p].handle \in DOMAIN locks
    BY <1>2, <1>5 DEF OpInv, OpLocked
  <2> QED BY <1>1, <1>2, <1>3, <1>5, <2>1, HandleStays DEF Cut
<1> HIDE DEF u
<1>6. Cut(v, s, o)
  BY <1>3, CutOwner
<1>7. ASSUME NEW h \in DOMAIN locks, NEW t \in Session, NEW key, Covers(h, t, key)
      PROVE  h \in DOMAIN locks'
  <2>1. h \in DOMAIN u
    BY <1>4, <1>7
  <2>2. op[s][o].kind = Destroy => h \in DOMAIN v
    BY <1>1, <1>3, <1>7, <2>1, CoverStays DEF Cut, Destroying
  <2> QED BY <1>1, <2>1, <2>2
<1>8. ASSUME NEW t \in Session, NEW p \in Object, t # s \/ p # o, op[t][p].phase = "storing"
      PROVE  op[t][p].handle \in DOMAIN locks'
  <2>1. op[t][p].handle \in DOMAIN u
    BY <1>5, <1>8
  <2>2. op[t][p].handle \in DOMAIN v
    BY <1>2, <1>3, <1>8, <2>1, HandleStays DEF Cut
  <2> QED BY <1>1, <2>1, <2>2
<1> HIDE DEF v
<1>9. Cut(locks', s, o)
  BY <1>1, <1>3, <1>6
<1>10. WrittenLeft
  BY <1>1, <1>2, <1>7 DEF WrittenCovered, WrittenLeft
<1>11. OthersLeft(s, o) /\ LevelsLeft(s)
  BY <1>1, <1>2, <1>8 DEF OpInv, OpLocked, OthersLeft, LevelsLeft
<1>12. Leaves(s, o) /\ OpsStay(s, o)
  BY <1>1, <1>9, <1>10, <1>11, EndLeaves
<1>13. FinishInv'
  BY <1>1, <1>12, FinishUntouched DEF Finishing
<1> QED BY <1>12, <1>13, LeavesKept

LEMMA CancelKept ==
  ASSUME LockInv, KeptInv, NEW s \in Session, NEW o \in Object, CancelOp(s, o)
  PROVE  KeptInv'
<1>1. /\ Ready(s) /\ op[s][o].phase = "begun" /\ locks' = Cancelled(locks, s, o)
      /\ op' = [op EXCEPT ![s][o] = NoOp]
      /\ request' = request /\ UNCHANGED << tran_level, written, finishing >>
  BY DEF CancelOp, tranVars
<1>2. OpInv /\ WrittenCovered
  BY DEF KeptInv
<1>3. Cut(locks', s, o)
  BY <1>1, <1>2, CutNone, CutCancelled
<1>4. ASSUME NEW h \in DOMAIN locks, NEW t \in Session, NEW key \in Instance, Covers(h, t, key)
      PROVE  h \in DOMAIN locks'
  BY <1>1, <1>2, <1>4, CutNone, CutCancelled DEF Destroying
<1>5. ASSUME NEW t \in Session, NEW p \in Object, t # s \/ p # o, op[t][p].phase = "storing"
      PROVE  op[t][p].handle \in DOMAIN locks'
  <2>1. op[t][p].handle \in DOMAIN locks
    BY <1>2, <1>5 DEF OpInv, OpLocked
  <2> QED BY <1>1, <1>2, <1>5, <2>1, CutNone, CutCancelled
<1>6. WrittenLeft
  <2>1. written \in [Session -> SUBSET Instance]
    BY DEF LockInv, TypeOK
  <2> QED BY <1>1, <1>2, <1>4, <2>1 DEF WrittenCovered, WrittenLeft
<1>7. OthersLeft(s, o) /\ LevelsLeft(s)
  BY <1>1, <1>2, <1>5 DEF OpInv, OpLocked, OthersLeft, LevelsLeft
<1>8. Leaves(s, o) /\ OpsStay(s, o)
  BY <1>1, <1>3, <1>6, <1>7, EndLeaves DEF Ready
<1>9. FinishInv'
  BY <1>1, <1>8, FinishUntouched DEF Finishing
<1> QED BY <1>8, <1>9, LeavesKept

-----------------------------------------------------------------------------
(* The innermost operation finishes.                                           *)
LEMMA OwnIsOutermost ==
  ASSUME LockInv, KeptInv, NEW s \in Session, NEW o \in Object, Innermost(s, o)
  PROVE  /\ Len(finishing[s]) \in Nat \ {0}
         /\ finishing[s][Len(finishing[s])] = o
         /\ \A i \in 1 .. Len(finishing[s]) : finishing[s][i] = o => i = Len(finishing[s])
         /\ op[s][o].own_tx => /\ Len(finishing[s]) = 1
                               /\ \A p \in Object : p # o => ~Finishing(s, p)
<1> DEFINE n == Len(finishing[s])
<1>1. finishing[s] \in Seq(Object) /\ FinishOf(s)
  BY DEF LockInv, TypeOK, KeptInv, FinishInv
<1>2. n \in Nat \ {0}
  BY <1>1, EmptySeq, LenProperties DEF Innermost
<1>3. n \in 1 .. n /\ finishing[s][n] = o
  BY <1>2 DEF Innermost
<1>4. \A i \in 1 .. n : finishing[s][i] = o => i = n
  BY <1>1, <1>3 DEF FinishOf
<1>5. ASSUME op[s][o].own_tx
      PROVE  n = 1 /\ \A p \in Object : p # o => ~Finishing(s, p)
  <2>1. n = 1
    BY <1>1, <1>3, <1>5 DEF FinishOf
  <2>2. ASSUME NEW p \in Object, Finishing(s, p) PROVE p = o
    <3>1. PICK i \in 1 .. n : finishing[s][i] = p
      BY <1>1, <2>2 DEF FinishOf
    <3> HIDE DEF n
    <3>2. i = n
      BY <2>1, <3>1
    <3> QED BY <1>3, <3>1, <3>2
  <2> QED BY <2>1, <2>2
<1> QED BY <1>2, <1>3, <1>4, <1>5

TransactionAfter(s, o) ==
  \/ op[s][o].own_tx /\ Ended(s)
  \/ ~op[s][o].own_tx /\ UNCHANGED << tran_level, written >>

LEMMA FinishPops ==
  ASSUME LockInv, KeptInv, NEW s \in Session, NEW o \in Object, Innermost(s, o), PopFinishing(s),
         OpsStay(s, o), TransactionAfter(s, o)
  PROVE  FinishInv'
<1> DEFINE n == Len(finishing[s])
<1>1. /\ n \in Nat \ {0} /\ finishing[s][n] = o
      /\ \A i \in 1 .. n : finishing[s][i] = o => i = n
      /\ op[s][o].own_tx => n = 1 /\ \A p \in Object : p # o => ~Finishing(s, p)
  BY OwnIsOutermost
<1>2. /\ finishing \in [Session -> Seq(Object)] /\ tran_level \in [Session -> Nat]
      /\ written \in [Session -> SUBSET Instance]
  BY DEF LockInv, TypeOK
<1>3. FinishInv
  BY DEF KeptInv
<1>4. ASSUME NEW p \in Object, Finishing(s, p)'
      PROVE  p # o /\ Finishing(s, p) /\ op'[s][p] = op[s][p]
  BY <1>4, NoOpFacts DEF OpsStay, Finishing
<1>5. ASSUME NEW t \in Session, t # s
      PROVE  FinishOf(t)'
  <2>1. finishing'[t] = finishing[t]
    BY <1>2, <1>5 DEF PopFinishing
  <2>2. tran_level'[t] = tran_level[t] /\ written'[t] = written[t]
    BY <1>2, <1>5 DEF TransactionAfter, Ended
  <2>3. \A p \in Object : op'[t][p] = op[t][p]
    BY <1>5 DEF OpsStay
  <2>4. \A p \in Object : /\ Finishing(t, p)' <=> Finishing(t, p)
                          /\ Finishing(t, p) => op'[t][p].own_tx = op[t][p].own_tx
    BY <2>3 DEF Finishing
  <2>5. FinishOf(t) /\ finishing[t] \in Seq(Object)
    BY <1>2, <1>3 DEF FinishInv
  <2> QED BY <2>1, <2>2, <2>4, <2>5, FinishSame
<1>6. FinishOf(s)'
  <2>1. finishing'[s] = [i \in 1 .. n - 1 |-> finishing[s][i]]
    BY <1>2 DEF PopFinishing
  <2>2. FinishOf(s)
    BY <1>3 DEF FinishInv
  <2>3. \A i \in 1 .. n : finishing[s][i] \in Object
    BY <1>2, ElementOfSeq
  <2> HIDE DEF n
  <2>4. finishing'[s] \in Seq(Object) /\ Len(finishing'[s]) = n - 1
    <3>1. n - 1 \in Nat /\ \A i \in 1 .. n - 1 : finishing[s][i] \in Object
      BY <1>1, <2>3
    <3> QED BY <2>1, <3>1, IsASeq
  <2>5. \A i \in 1 .. n - 1 : i \in 1 .. n /\ i # n /\ finishing'[s][i] = finishing[s][i]
    BY <1>1, <2>1
  <2>6. tran_level'[s] = 0 => n - 1 = 0 /\ written'[s] = {}
    <3>1. CASE op[s][o].own_tx
      BY <1>1, <1>2, <3>1 DEF TransactionAfter, Ended
    <3>2. CASE ~op[s][o].own_tx
      <4>1. tran_level[s] # 0
        BY <1>1, <2>2 DEF FinishOf, n
      <4> QED BY <3>2, <4>1 DEF TransactionAfter
    <3> QED BY <3>1, <3>2
  <2>7. \A i, j \in 1 .. n - 1 : finishing'[s][i] = finishing'[s][j] => i = j
    BY <2>2, <2>5 DEF FinishOf, n
  <2>8. ASSUME NEW i \in 1 .. n - 1
        PROVE  /\ Finishing(s, finishing[s][i])'
               /\ op'[s][finishing'[s][i]].own_tx => i = 1
    <3>1. /\ finishing'[s][i] \in Object /\ finishing'[s][i] # o
          /\ Finishing(s, finishing[s][i]) /\ finishing'[s][i] = finishing[s][i]
          /\ op[s][finishing[s][i]].own_tx => i = 1
      BY <1>1, <2>2, <2>3, <2>5 DEF FinishOf, n
    <3>2. op'[s][finishing'[s][i]] = op[s][finishing[s][i]]
      BY <3>1 DEF OpsStay
    <3> QED BY <3>1, <3>2 DEF Finishing
  <2>9. ASSUME NEW p \in Object, Finishing(s, p)'
        PROVE  \E i \in 1 .. n - 1 : finishing'[s][i] = p
    <3>1. p # o /\ Finishing(s, p)
      BY <1>4, <2>9
    <3>2. PICK i \in 1 .. n : finishing[s][i] = p
      BY <2>2, <3>1 DEF FinishOf, n
    <3>3. i # n
      BY <1>1, <3>1, <3>2
    <3>4. i \in 1 .. n - 1
      BY <1>1, <3>2, <3>3
    <3> QED BY <2>5, <3>2, <3>4
  <2> QED BY <2>4, <2>6, <2>7, <2>8, <2>9 DEF FinishOf
<1> QED BY <1>5, <1>6 DEF FinishInv

(* What is left when the innermost operation finishes: the locks of the others *)
(* and, unless its transaction ends with it, what covers the written.          *)
Remaining(u, s, o) ==
  \/ u = locks
  \/ op[s][o].own_tx /\ \A h \in DOMAIN locks : locks[h].session # s => h \in DOMAIN u

CoversPass(u, s, o) ==
  \A h \in DOMAIN u, t \in Session, key \in Instance :
    Covers(h, t, key) /\ (t # s \/ ~op[s][o].own_tx) => h \in DOMAIN locks'

HandlesPass(u, s, o) ==
  \A t \in Session, p \in Object :
    (t # s \/ p # o) /\ op[t][p].phase = "storing" /\ op[t][p].handle \in DOMAIN u =>
      op[t][p].handle \in DOMAIN locks'

LEMMA FinishLeaves ==
  ASSUME LockInv, KeptInv, NEW s \in Session, NEW o \in Object, Ready(s), Innermost(s, o),
         Finishing(s, o), PopFinishing(s), request' = request, op' = [op EXCEPT ![s][o] = NoOp],
         TransactionAfter(s, o), Cut(locks', s, o),
         NEW u, Remaining(u, s, o), CoversPass(u, s, o), HandlesPass(u, s, o)
  PROVE  KeptInv'
<1>1. OpInv /\ WrittenCovered
  BY DEF KeptInv
<1>2. /\ tran_level \in [Session -> Nat] /\ written \in [Session -> SUBSET Instance]
  BY DEF LockInv, TypeOK
<1>3. ASSUME NEW t \in Session, NEW p \in Object, t # s \/ p # o
      PROVE  /\ op[t][p].phase = "storing" => op[t][p].handle \in DOMAIN locks'
             /\ op[t][p].phase = "stored" => op[t][p].key \in written'[t]
  <2>1. OpLocked(t, p)
    BY <1>1 DEF OpInv
  <2>2. Finishing(t, p) => t # s \/ ~op[s][o].own_tx
    BY <1>3, OwnIsOutermost
  <2>3. ASSUME op[t][p].phase = "storing" PROVE op[t][p].handle \in DOMAIN locks'
    <3>1. op[t][p].handle \in DOMAIN locks
      BY <2>1, <2>3 DEF OpLocked
    <3>2. locks[op[t][p].handle].session = t
      BY <1>1, <2>3, <3>1, HandleLock
    <3>3. op[t][p].handle \in DOMAIN u
      BY <2>2, <2>3, <3>1, <3>2 DEF Finishing, Remaining
    <3> QED BY <1>3, <2>3, <3>3 DEF HandlesPass
  <2>4. ASSUME op[t][p].phase = "stored" PROVE op[t][p].key \in written'[t]
    <3>1. op[t][p].key \in written[t]
      BY <2>1, <2>4 DEF OpLocked
    <3>2. written'[t] = written[t]
      BY <1>2, <2>2, <2>4 DEF Finishing, TransactionAfter, Ended
    <3> QED BY <3>1, <3>2
  <2> QED BY <2>3, <2>4
<1>4. ASSUME NEW t \in Session, NEW key \in written'[t]
      PROVE  \E h \in DOMAIN locks' : Covers(h, t, key)
  <2>1. (t # s \/ ~op[s][o].own_tx) /\ written'[t] = written[t]
    BY <1>2, <1>4 DEF TransactionAfter, Ended
  <2>2. PICK h \in DOMAIN locks : Covers(h, t, key)
    BY <1>1, <1>4, <2>1 DEF WrittenCovered
  <2>3. locks[h].session = t /\ key \in Instance
    BY <1>2, <2>1, <2>2 DEF Covers
  <2>4. h \in DOMAIN u
    BY <2>1, <2>2, <2>3 DEF Remaining
  <2> QED BY <2>1, <2>2, <2>3, <2>4 DEF CoversPass
<1>5. LevelsLeft(s)
  BY <1>2 DEF TransactionAfter, Ended, LevelsLeft
<1>6. OthersLeft(s, o) /\ WrittenLeft
  BY <1>3, <1>4 DEF OthersLeft, WrittenLeft
<1>8. Leaves(s, o) /\ OpsStay(s, o)
  BY <1>5, <1>6, EndLeaves DEF Ready
<1>9. FinishInv'
  BY <1>8, FinishPops
<1> QED BY <1>8, <1>9, LeavesKept

LEMMA FailKept ==
  ASSUME LockInv, KeptInv, CarefulClients, NEW s \in Session, NEW o \in Object, FailOp(s, o)
  PROVE  KeptInv'
<1> DEFINE u == IF op[s][o].own_tx THEN RollbackReleased(s) ELSE locks
<1>1. /\ Ready(s) /\ Finishing(s, o) /\ Innermost(s, o) /\ PopFinishing(s)
      /\ op[s][o].own_tx \/ op[s][o].kind # Destroy \/ op[s][o].phase = "storing"
      /\ TransactionAfter(s, o)
      /\ locks' = Cancelled(u, s, o) /\ op' = [op EXCEPT ![s][o] = NoOp] /\ request' = request
  BY DEF FailOp, Finishing, CarefulClients, TransactionAfter
<1>2. Cut(u, s, o)
  BY CutNone, CutWithout DEF RollbackReleased
<1>3. Remaining(u, s, o)
  BY DEF RollbackReleased, Without, Remaining
<1> HIDE DEF u
<1>4. OpInv /\ op[s][o].phase # "none"
  BY <1>1 DEF KeptInv, Finishing
<1>5. Cut(locks', s, o)
  BY <1>1, <1>2, <1>4, CutCancelled
<1>6. CoversPass(u, s, o)
  BY <1>1, <1>2, <1>4, CutCancelled DEF Destroying, CoversPass
<1>7. HandlesPass(u, s, o)
  BY <1>1, <1>2, <1>4, CutCancelled DEF HandlesPass
<1> QED BY <1>1, <1>3, <1>5, <1>6, <1>7, FinishLeaves

LEMMA CompleteKept ==
  ASSUME LockInv, KeptInv, NEW s \in Session, NEW o \in Object, CompleteOp(s, o)
  PROVE  KeptInv'
<1> DEFINE u == IF op[s][o].own_tx THEN CommitReleased(s) ELSE locks
           v == IF op[s][o].kind = Destroy THEN OwnerReleased(u, s, o, FALSE) ELSE u
<1>1. /\ Ready(s) /\ Finishing(s, o) /\ Innermost(s, o) /\ PopFinishing(s)
      /\ TransactionAfter(s, o)
      /\ locks' = Released(v, op[s][o].handle, FALSE)
      /\ op' = [op EXCEPT ![s][o] = NoOp] /\ request' = request
  BY DEF CompleteOp, Finishing, TransactionAfter
<1>2. Cut(u, s, o)
  BY CutNone, CutWithout DEF CommitReleased
<1>3. Remaining(u, s, o)
  BY DEF CommitReleased, Without, Remaining
<1> HIDE DEF u
<1>4. OpInv /\ op[s][o].phase # "none"
  BY <1>1 DEF KeptInv, Finishing
<1>5. Cut(v, s, o)
  BY <1>2, CutOwner
<1>6. ASSUME NEW h \in DOMAIN u, NEW t \in Session, NEW key \in Instance, Covers(h, t, key)
      PROVE  h \in DOMAIN v
  BY <1>2, <1>6, CoverStays DEF Cut
<1>7. ASSUME NEW t \in Session, NEW p \in Object, t # s \/ p # o, op[t][p].phase = "storing",
             op[t][p].handle \in DOMAIN u
      PROVE  op[t][p].handle \in DOMAIN v
  BY <1>2, <1>4, <1>7, HandleStays DEF Cut
<1> HIDE DEF v
<1>8. Cut(locks', s, o)
  BY <1>1, <1>4, <1>5, CutHandle
<1>9. ASSUME NEW h \in DOMAIN u, NEW t \in Session, NEW key \in Instance, Covers(h, t, key)
      PROVE  h \in DOMAIN locks'
  BY <1>1, <1>5, <1>6, <1>9, CoverStays DEF Cut
<1>10. ASSUME NEW t \in Session, NEW p \in Object, t # s \/ p # o, op[t][p].phase = "storing",
              op[t][p].handle \in DOMAIN u
       PROVE  op[t][p].handle \in DOMAIN locks'
  BY <1>1, <1>4, <1>5, <1>7, <1>10, HandleStays DEF Cut
<1>11. CoversPass(u, s, o) /\ HandlesPass(u, s, o)
  BY <1>9, <1>10 DEF CoversPass, HandlesPass
<1> QED BY <1>1, <1>3, <1>8, <1>11, FinishLeaves

-----------------------------------------------------------------------------
(* Steps that leave the operations as they are.                                *)
LEMMA QuietLeaves ==
  ASSUME LockInv, KeptInv, NEW s \in Session, UNCHANGED << request, op >>,
         Trimmed(locks, locks', s, 0), OthersLeft(s, 0), WrittenLeft, LevelsLeft(s)
  PROVE  Leaves(s, 0)
<1>1. \A p \in Object : p # 0
  BY LockAssumption
<1>2. OpsStay(s, 0)
  BY <1>1 DEF OpsStay
<1>3. \A t \in Session : request'[t] # NoRequest => Waits(t, request'[t]) /\ op'[t] = op[t]
  BY DEF KeptInv, RequestInv
<1>4. ASSUME NEW t \in Session, NEW p \in Object
      PROVE  /\ op'[t][p].phase = "storing" => op[t][p].handle \in DOMAIN locks'
             /\ op'[t][p].phase = "stored" => op[t][p].key \in written'[t]
             /\ op'[t][p].phase = "beginning" => tran_level'[t] = tran_level[t]
  BY <1>1 DEF OthersLeft, LevelsLeft, Ready
<1> QED BY <1>2, <1>3, <1>4 DEF Leaves, WrittenLeft

(* ... and what is written as it is.                                           *)
LEMMA AllLeft ==
  ASSUME LockInv, KeptInv, NEW s, UNCHANGED << op, written >>,
         \A h \in DOMAIN locks, t \in Session, key \in Instance : Covers(h, t, key) => h \in DOMAIN locks',
         \A t \in Session, p \in Object : op[t][p].phase = "storing" => op[t][p].handle \in DOMAIN locks'
  PROVE  OthersLeft(s, 0) /\ WrittenLeft
<1>1. OpInv /\ WrittenCovered
  BY DEF KeptInv
<1>2. written \in [Session -> SUBSET Instance]
  BY DEF LockInv, TypeOK
<1>3. WrittenLeft
  BY <1>1, <1>2 DEF WrittenCovered, WrittenLeft
<1>4. OthersLeft(s, 0)
  BY <1>1 DEF OpInv, OpLocked, OthersLeft
<1> QED BY <1>3, <1>4

LEMMA FinishStays ==
  ASSUME LockInv, KeptInv, UNCHANGED << op, written, finishing >>,
         \A t \in Session : tran_level'[t] = 0 => tran_level[t] = 0
  PROVE  FinishInv'
<1> SUFFICES ASSUME NEW t \in Session PROVE FinishOf(t)'
  BY DEF FinishInv
<1>1. FinishOf(t) /\ finishing[t] \in Seq(Object)
  BY DEF KeptInv, FinishInv, LockInv, TypeOK
<1>2. \A p \in Object : /\ Finishing(t, p)' <=> Finishing(t, p)
                        /\ Finishing(t, p) => op'[t][p].own_tx = op[t][p].own_tx
  BY DEF Finishing
<1> QED BY <1>1, <1>2, FinishSame

LEMMA NothingKept ==
  ASSUME LockInv, KeptInv, NEW s \in Session,
         UNCHANGED << locks, request, op, written, finishing >>, LevelsLeft(s),
         \A t \in Session : tran_level'[t] = 0 => tran_level[t] = 0
  PROVE  KeptInv'
<1>1. Trimmed(locks, locks', s, 0)
  BY UnchangedTrims
<1>2. \A t \in Session, p \in Object : op[t][p].phase = "storing" => op[t][p].handle \in DOMAIN locks'
  BY DEF KeptInv, OpInv, OpLocked
<1>3. OthersLeft(s, 0) /\ WrittenLeft
  BY <1>2, AllLeft
<1> QED BY <1>1, <1>3, QuietLeaves, FinishStays, LeavesKept

LEMMA StartKept ==
  ASSUME LockInv, KeptInv, NEW s \in Session, TransactionStart(s)
  PROVE  KeptInv'
<1>1. /\ Ready(s) /\ tran_level' = [tran_level EXCEPT ![s] = @ + 1]
      /\ UNCHANGED << locks, request, op, written, finishing >>
  BY DEF TransactionStart, lockVars
<1>2. tran_level \in [Session -> Nat]
  BY DEF LockInv, TypeOK
<1>3. LevelsLeft(s) /\ \A t \in Session : tran_level'[t] = 0 => tran_level[t] = 0
  BY <1>1, <1>2 DEF LevelsLeft
<1> QED BY <1>1, <1>3, NothingKept

LEMMA InnerEndKept ==
  ASSUME LockInv, KeptInv, NEW s \in Session, TransactionInnerEnd(s)
  PROVE  KeptInv'
<1>1. /\ Ready(s) /\ tran_level' = [tran_level EXCEPT ![s] = @ - 1] /\ tran_level[s] > 1
      /\ UNCHANGED << locks, request, op, written, finishing >>
  BY DEF TransactionInnerEnd, lockVars
<1>2. tran_level \in [Session -> Nat]
  BY DEF LockInv, TypeOK
<1>3. LevelsLeft(s) /\ \A t \in Session : tran_level'[t] = 0 => tran_level[t] = 0
  BY <1>1, <1>2 DEF LevelsLeft
<1> QED BY <1>1, <1>3, NothingKept

LEMMA TransactionEndKept ==
  ASSUME LockInv, KeptInv, NEW s \in Session, TransactionEnd(s)
  PROVE  KeptInv'
<1>1. /\ Ready(s) /\ finishing[s] = << >> /\ Ended(s)
      /\ UNCHANGED << request, op, finishing >>
  BY DEF TransactionEnd
<1>2. PICK handles : /\ locks' = Without(locks, handles)
                      /\ \A h \in handles : locks[h].session = s
  BY DEF TransactionEnd, CommitReleased, RollbackReleased
<1>3. /\ Trimmed(locks, locks', s, 0)
      /\ \A h \in DOMAIN locks : locks[h].session # s => h \in DOMAIN locks'
  BY <1>2, WithoutTrims
<1>4. OpInv /\ WrittenCovered /\ FinishInv
  BY DEF KeptInv
<1>5. /\ tran_level \in [Session -> Nat] /\ written \in [Session -> SUBSET Instance]
      /\ finishing \in [Session -> Seq(Object)]
  BY DEF LockInv, TypeOK
<1>6. Len(finishing[s]) = 0
  BY <1>1, EmptySeq
<1>7. \A p \in Object : ~Finishing(s, p)
  BY <1>4, <1>6 DEF FinishInv, FinishOf
<1>8. ASSUME NEW t \in Session, NEW p \in Object
      PROVE  /\ op[t][p].phase = "storing" => op[t][p].handle \in DOMAIN locks'
             /\ op[t][p].phase = "stored" => op[t][p].key \in written'[t]
  <2>1. CASE t = s
    BY <1>7, <2>1 DEF Finishing
  <2>2. CASE t # s
    <3>1. OpLocked(t, p) /\ written'[t] = written[t]
      BY <1>1, <1>4, <1>5, <2>2 DEF OpInv, Ended
    <3>2. op[t][p].phase = "storing" => op[t][p].handle \in DOMAIN locks
      BY <3>1 DEF OpLocked
    <3>3. op[t][p].phase = "storing" => locks[op[t][p].handle].session = t
      BY <1>4, <3>2, HandleLock
    <3> QED BY <1>3, <2>2, <3>1, <3>2, <3>3 DEF OpLocked
  <2> QED BY <2>1, <2>2
<1>9. ASSUME NEW t \in Session, NEW key \in written'[t]
      PROVE  \E h \in DOMAIN locks' : Covers(h, t, key)
  <2>1. t # s /\ written'[t] = written[t]
    BY <1>1, <1>5, <1>9 DEF Ended
  <2>2. PICK h \in DOMAIN locks : Covers(h, t, key)
    BY <1>4, <1>9, <2>1 DEF WrittenCovered
  <2> QED BY <1>3, <2>1, <2>2 DEF Covers
<1>10. OthersLeft(s, 0) /\ WrittenLeft
  BY <1>8, <1>9 DEF OthersLeft, WrittenLeft
<1>11. LevelsLeft(s)
  BY <1>1, <1>5 DEF Ended, LevelsLeft
<1>12. ASSUME NEW t \in Session PROVE FinishOf(t)'
  <2>1. CASE t = s
    <3>1. Len(finishing'[s]) = 0 /\ written'[s] = {}
      BY <1>1, <1>5, <1>6 DEF Ended
    <3>2. \A p \in Object : ~Finishing(s, p)'
      BY <1>1, <1>7 DEF Finishing
    <3> QED BY <2>1, <3>1, <3>2 DEF FinishOf
  <2>2. CASE t # s
    <3>1. tran_level'[t] = tran_level[t] /\ written'[t] = written[t]
      BY <1>1, <1>5, <2>2 DEF Ended
    <3>2. FinishOf(t) /\ finishing[t] \in Seq(Object) /\ finishing'[t] = finishing[t]
      BY <1>1, <1>4, <1>5 DEF FinishInv
    <3>3. \A p \in Object : /\ Finishing(t, p)' <=> Finishing(t, p)
                            /\ Finishing(t, p) => op'[t][p].own_tx = op[t][p].own_tx
      BY <1>1 DEF Finishing
    <3> QED BY <3>1, <3>2, <3>3, FinishSame
  <2> QED BY <2>1, <2>2
<1>13. FinishInv'
  BY <1>12 DEF FinishInv
<1>14. Leaves(s, 0)
  BY <1>1, <1>3, <1>10, <1>11, QuietLeaves
<1> QED BY <1>13, <1>14, LeavesKept

LEMMA KeyedReleaseKept ==
  ASSUME LockInv, KeptInv, NEW s \in Session, NEW h \in DOMAIN locks, KeyedRelease(s, h)
  PROVE  KeptInv'
<1>1. /\ locks[h].session = s /\ locks[h].base = 0 /\ locks' = Released(locks, h, FALSE)
      /\ UNCHANGED << tran_level, request, op, finishing, written >>
  BY DEF KeyedRelease, Keyed, tranVars
<1>2. Trimmed(locks, locks', s, 0)
  BY <1>1, TableIsTyped, ReleasedTrims
<1>3. OpInv
  BY DEF KeptInv
<1>4. \A g \in DOMAIN locks, t \in Session, key \in Instance : Covers(g, t, key) => g \in DOMAIN locks'
  BY <1>1 DEF Released, Without, Covers
<1>5. ASSUME NEW t \in Session, NEW p \in Object, op[t][p].phase = "storing"
      PROVE  op[t][p].handle \in DOMAIN locks'
  <2>1. op[t][p].handle \in DOMAIN locks
    BY <1>3, <1>5 DEF OpInv, OpLocked
  <2>2. op[t][p].handle # h
    BY <1>1, <1>3, <1>5, <2>1, HandleLock
  <2> QED BY <1>1, <2>1, <2>2 DEF Released, Without
<1>6. OthersLeft(s, 0) /\ WrittenLeft /\ LevelsLeft(s)
  BY <1>1, <1>4, <1>5, AllLeft DEF LevelsLeft
<1>7. Leaves(s, 0)
  BY <1>1, <1>2, <1>6, QuietLeaves
<1>8. FinishInv'
  BY <1>1, FinishStays
<1> QED BY <1>7, <1>8, LeavesKept

LEMMA TransformKept ==
  ASSUME LockInv, KeptInv, CarefulClients, NEW s \in Session, NEW type \in KeyedTypes,
         NEW h \in DOMAIN locks, KeyedTransform(s, h, type)
  PROVE  KeptInv'
<1> DEFINE r == [for |-> "keyed", key |-> locks[h].key, type |-> type, obj |-> 0, attempts |-> 1]
           dup == IF type > locks[h].type THEN Duplicates(s, r, h) ELSE {}
           kept == Without(locks, dup)
<1>1. /\ locks[h].session = s /\ locks[h].base = 0
      /\ locks' = kept \/ locks' = [kept EXCEPT ![h].type = type]
      /\ UNCHANGED << tran_level, request, op, finishing, written >>
  BY DEF KeyedTransform, Keyed, tranVars
<1>2. r.key # ClassWide \/ ~DeadApart
  BY DEF KeyedTransform, MayScan, CarefulClients
<1>3. OpInv /\ WrittenCovered /\ TableTyped(locks)
  BY TableIsTyped DEF KeptInv
<1>4. DOMAIN locks' = DOMAIN locks \ dup
  BY <1>1 DEF Without
<1>5. ASSUME NEW g \in DOMAIN locks'
      PROVE  Remains(locks[g], locks'[g], s, 0)
  <2>1. g \in DOMAIN locks /\ kept[g] = locks[g] /\ locks[g] \in Lock
    BY <1>3, <1>4 DEF Without, TableTyped
  <2>2. \/ locks'[g] = locks[g]
        \/ g = h /\ locks'[g] = [locks[g] EXCEPT !.type = type]
    BY <1>1, <1>4, <2>1 DEF Without
  <2>3. CASE locks'[g] = locks[g]
    BY <2>3 DEF Remains
  <2>4. CASE g = h /\ locks'[g] = [locks[g] EXCEPT !.type = type]
    BY <1>1, <2>1, <2>4, TypeSet DEF Remains
  <2> QED BY <2>2, <2>3, <2>4
<1>6. Trimmed(locks, locks', s, 0)
  BY <1>4, <1>5 DEF Trimmed
<1>7. ASSUME NEW t \in Session, NEW key \in written'[t]
      PROVE  \E g \in DOMAIN locks' : Covers(g, t, key)
  <2>1. key \in written[t]
    BY <1>1, <1>7
  <2> HIDE DEF r
  <2>2. CASE dup = {}
    BY <1>3, <1>4, <2>1, <2>2 DEF WrittenCovered
  <2>3. CASE dup = Duplicates(s, r, h)
    BY <1>2, <1>3, <1>4, <2>1, <2>3, CoverKept
  <2> QED BY <2>2, <2>3
<1>8. ASSUME NEW t \in Session, NEW p \in Object, op[t][p].phase = "storing"
      PROVE  op[t][p].handle \in DOMAIN locks'
  <2>1. op[t][p].handle \in DOMAIN locks
    BY <1>3, <1>8 DEF OpInv, OpLocked
  <2> HIDE DEF r
  <2>2. op[t][p].handle \notin dup
    BY <1>3, <1>8, HandleNoDuplicate
  <2> QED BY <1>4, <2>1, <2>2
<1> HIDE DEF r, dup, kept
<1>9. OthersLeft(s, 0) /\ WrittenLeft /\ LevelsLeft(s)
  BY <1>1, <1>3, <1>7, <1>8 DEF OthersLeft, WrittenLeft, LevelsLeft, OpInv, OpLocked
<1>10. Leaves(s, 0)
  BY <1>1, <1>6, <1>9, QuietLeaves
<1>11. FinishInv'
  BY <1>1, FinishStays
<1> QED BY <1>10, <1>11, LeavesKept

-----------------------------------------------------------------------------
(* Asking for a lock.  What is asked for, at first or again: the lock of an    *)
(* operation, one of a cascade, or a keyed one, for which nobody waits.        *)
Asked(s, r) ==
  \/ Waits(s, r)
  \/ r.for = "keyed" /\ r.obj = 0 /\ r.attempts = 1 /\ (r.key # ClassWide \/ ~DeadApart)

LEMMA AskedScan ==
  ASSUME LockInv, NEW s, NEW r, Asked(s, r)
  PROVE  r.key # ClassWide \/ ~DeadApart
BY LockAssumption DEF Asked, Waits, ClassWide

LEMMA WaitingKept ==
  ASSUME LockInv, KeptInv, NEW s \in Session, NEW r \in Request, Asked(s, r), Waiting(s, r),
         UNCHANGED << tranVars, finishing, written >>
  PROVE  KeptInv'
<1> DEFINE dup == Duplicates(s, r, 0)
<1>1. /\ r.attempts > 1 /\ locks' = Without(locks, dup) /\ op' = op
      /\ request' = [request EXCEPT ![s] = [r EXCEPT !.attempts = @ - 1]]
      /\ UNCHANGED << tran_level, finishing, written >>
  BY DEF Waiting, tranVars
<1>2. OpInv /\ WrittenCovered /\ (r.key # ClassWide \/ ~DeadApart)
  BY AskedScan DEF KeptInv
<1>3. Trimmed(locks, locks', s, 0) /\ DOMAIN locks' = DOMAIN locks \ dup
  BY <1>1, WithoutTrims
<1>4. ASSUME NEW t \in Session, request'[t] # NoRequest
      PROVE  Waits(t, request'[t]) /\ op'[t] = op[t]
  <2>1. CASE t = s
    <3> DEFINE again == [r EXCEPT !.attempts = @ - 1]
    <3>1. request'[s] = again
      BY <1>1 DEF LockInv, TypeOK
    <3>2. again.for = r.for /\ again.key = r.key /\ again.type = r.type /\ again.obj = r.obj
      BY DEF Request
    <3> HIDE DEF again
    <3>3. Waits(s, r)
      BY <1>1 DEF Asked
    <3> QED BY <1>1, <2>1, <3>1, <3>2, <3>3 DEF Waits
  <2>2. CASE t # s
    <3>1. request'[t] = request[t]
      BY <1>1, <2>2 DEF LockInv, TypeOK
    <3> QED BY <1>1, <1>4, <3>1 DEF KeptInv, RequestInv
  <2> QED BY <2>1, <2>2
<1>5. \A p \in Object : p # 0
  BY LockAssumption
<1>6. OpsStay(s, 0)
  BY <1>1, <1>5 DEF OpsStay
<1>7. ASSUME NEW t \in Session, NEW p \in Object
      PROVE  /\ op'[t][p].phase = "storing" => op[t][p].handle \in DOMAIN locks'
             /\ op'[t][p].phase = "stored" => op[t][p].key \in written'[t]
             /\ op'[t][p].phase = "beginning" => tran_level'[t] = tran_level[t]
  <2>1. OpLocked(t, p)
    BY <1>2 DEF OpInv
  <2>2. op[t][p].phase = "storing" => op[t][p].handle \notin dup
    BY <1>2, HandleNoDuplicate
  <2> QED BY <1>1, <1>3, <2>1, <2>2 DEF OpLocked
<1>8. ASSUME NEW t \in Session, NEW key \in written'[t]
      PROVE  \E h \in DOMAIN locks' : Covers(h, t, key)
  BY <1>1, <1>2, <1>3, CoverKept
<1> HIDE DEF dup
<1>9. Leaves(s, 0)
  BY <1>3, <1>4, <1>6, <1>7, <1>8 DEF Leaves
<1>10. FinishInv'
  BY <1>1, FinishStays
<1> QED BY <1>9, <1>10, LeavesKept

LEMMA RefusedKept ==
  ASSUME LockInv, KeptInv, NEW s \in Session, NEW r \in Request, Asked(s, r), Refused(s, r),
         UNCHANGED << tranVars, finishing, written >>
  PROVE  KeptInv'
<1> DEFINE dup  == Duplicates(s, r, 0)
           kept == Without(locks, dup)
           o    == IF r.for = "cascade" THEN r.obj ELSE 0
<1>1. /\ IF r.for = "cascade"
         THEN /\ locks' = OwnerReleased(kept, s, r.obj, TRUE)
              /\ op' = [op EXCEPT ![s][r.obj] = NoOp]
         ELSE locks' = kept /\ UNCHANGED op
      /\ request' = [request EXCEPT ![s] = NoRequest]
      /\ UNCHANGED << tran_level, finishing, written >>
  BY DEF Refused, tranVars
<1>2. OpInv /\ WrittenCovered /\ (r.key # ClassWide \/ ~DeadApart)
  BY AskedScan DEF KeptInv
<1>3. /\ r.for = "cascade" =>
           /\ o \in Object /\ op[s][o].phase = "beginning" /\ op[s][o].kind = Destroy
      /\ r.for # "cascade" => o = 0
  BY DEF Asked, Waits
<1>4. /\ Cut(kept, s, o)
      /\ DOMAIN kept = DOMAIN locks \ dup
  BY CutWithout, WithoutTrims
<1>5. ASSUME NEW t \in Session, NEW key \in written[t]
      PROVE  \E h \in DOMAIN kept : Covers(h, t, key)
  BY <1>2, <1>4, <1>5, CoverKept
<1>6. ASSUME NEW t \in Session, NEW p \in Object, op[t][p].phase = "storing"
      PROVE  op[t][p].handle \in DOMAIN kept
  <2>1. op[t][p].handle \in DOMAIN locks
    BY <1>2, <1>6 DEF OpInv, OpLocked
  <2>2. op[t][p].handle \notin dup
    BY <1>2, <1>6, HandleNoDuplicate
  <2> QED BY <1>4, <2>1, <2>2
<1> HIDE DEF dup, kept
<1>7. Trimmed(locks, locks', s, o)
  <2>1. CASE r.for = "cascade"
    BY <1>1, <1>3, <1>4, <2>1, CutOwner DEF Cut
  <2>2. CASE r.for # "cascade"
    BY <1>1, <1>4, <2>2 DEF Cut
  <2> QED BY <2>1, <2>2
<1>8. ASSUME NEW t \in Session, NEW key \in written'[t]
      PROVE  \E h \in DOMAIN locks' : Covers(h, t, key)
  <2>1. PICK h \in DOMAIN kept : Covers(h, t, key)
    BY <1>1, <1>5
  <2>2. CASE r.for = "cascade"
    <3>1. Destroying(s, o)
      BY <1>3, <2>2 DEF Destroying
    <3>2. h \in DOMAIN OwnerReleased(kept, s, o, TRUE)
      BY <1>3, <1>4, <2>1, <2>2, <3>1, CoverStays DEF Cut
    <3> QED BY <1>1, <2>1, <2>2, <3>2
  <2>3. CASE r.for # "cascade"
    BY <1>1, <2>1, <2>3
  <2> QED BY <2>2, <2>3
<1>9. \A p \in Object : p # 0
  BY LockAssumption
<1>10. OpsStay(s, o)
  <2>1. op \in [Session -> [Object -> Op]]
    BY DEF LockInv, TypeOK
  <2>2. CASE r.for = "cascade"
    BY <1>1, <1>3, <2>1, <2>2 DEF OpsStay
  <2>3. CASE r.for # "cascade"
    BY <1>1, <1>3, <1>9, <2>3 DEF OpsStay
  <2> QED BY <2>2, <2>3
<1>11. ASSUME NEW t \in Session, NEW p \in Object
       PROVE  /\ op'[t][p].phase = "storing" => op[t][p].handle \in DOMAIN locks'
              /\ op'[t][p].phase = "stored" => op[t][p].key \in written'[t]
              /\ op'[t][p].phase = "beginning" => tran_level'[t] = tran_level[t]
  <2>1. CASE t = s /\ p = o
    BY <1>10, <2>1, NoOpFacts DEF OpsStay
  <2>2. CASE ~(t = s /\ p = o)
    <3>1. op'[t][p] = op[t][p] /\ OpLocked(t, p)
      BY <1>2, <1>10, <2>2 DEF OpsStay, OpInv
    <3>2. ASSUME op[t][p].phase = "storing" PROVE op[t][p].handle \in DOMAIN locks'
      <4>1. op[t][p].handle \in DOMAIN kept
        BY <1>6, <3>2
      <4>2. CASE r.for = "cascade"
        <5>1. op[t][p].handle \in DOMAIN OwnerReleased(kept, s, o, TRUE)
          BY <1>2, <1>3, <1>4, <2>2, <3>2, <4>1, <4>2, HandleStays DEF Cut
        <5> QED BY <1>1, <4>2, <5>1
      <4>3. CASE r.for # "cascade"
        BY <1>1, <4>1, <4>3
      <4> QED BY <4>2, <4>3
    <3> QED BY <1>1, <3>1, <3>2 DEF OpLocked
  <2> QED BY <2>1, <2>2
<1>12. ASSUME NEW t \in Session, request'[t] # NoRequest
       PROVE  Waits(t, request'[t]) /\ op'[t] = op[t]
  <2>1. t # s /\ request'[t] = request[t]
    BY <1>1, <1>12 DEF LockInv, TypeOK
  <2>2. op'[t] = op[t]
    BY <1>1, <2>1 DEF LockInv, TypeOK
  <2> QED BY <1>12, <2>1, <2>2 DEF KeptInv, RequestInv
<1>13. Leaves(s, o)
  BY <1>7, <1>8, <1>10, <1>11, <1>12 DEF Leaves
<1>14. FinishInv'
  <2>1. ~Finishing(s, o) \/ o \notin Object
    BY <1>3, <1>9 DEF Finishing
  <2>2. CASE o \in Object
    BY <1>1, <1>10, <2>1, <2>2, FinishUntouched
  <2>3. CASE o \notin Object
    <3>1. op' = op
      BY <1>1, <1>3, <2>3
    <3> QED BY <1>1, <3>1, FinishStays
  <2> QED BY <2>2, <2>3
<1> QED BY <1>13, <1>14, LeavesKept

-----------------------------------------------------------------------------
(* A lock that is granted joins the table after the duplicates have left it.   *)
LEMMA GrantedTable ==
  ASSUME LockInv, NEW s \in Session, NEW r \in Request, Granted(s, r)
  PROVE  LET n == next_lock_handle + 1
             kept == DOMAIN locks \ Duplicates(s, r, 0)
         IN /\ DOMAIN locks' = kept \cup {n} /\ n \notin DOMAIN locks
            /\ locks'[n] = NewLock(s, r)
            /\ \A h \in kept : locks'[h] = locks[h]
            /\ \A t \in Session, p \in Object : op[t][p].handle # n
<1> DEFINE n == next_lock_handle + 1
<1>1. next_lock_handle \in Nat /\ DOMAIN locks \subseteq 1 .. next_lock_handle
  BY DEF LockInv, TypeOK
<1>2. n \notin DOMAIN locks
  BY <1>1
<1>3. /\ DOMAIN locks' = (DOMAIN locks \ Duplicates(s, r, 0)) \cup {n}
      /\ locks'[n] = NewLock(s, r)
      /\ \A h \in DOMAIN locks \ Duplicates(s, r, 0) : locks'[h] = locks[h]
  BY <1>2 DEF Granted, Without
<1>4. ASSUME NEW t \in Session, NEW p \in Object PROVE op[t][p].handle # n
  <2>1. op[t][p].handle \in Nat /\ op[t][p].handle <= next_lock_handle
    BY DEF LockInv, TypeOK, HandleInv, Op
  <2> QED BY <1>1, <2>1
<1> QED BY <1>2, <1>3, <1>4

(* The operation that it may be for begins; the others go on.                  *)
LEMMA GrantedOps ==
  ASSUME LockInv, NEW s \in Session, NEW r \in Request, Asked(s, r), Granted(s, r)
  PROVE  \A t \in Session, p \in Object :
           \/ op'[t][p] = op[t][p] /\ ~(r.for = "op" /\ t = s /\ p = r.obj)
           \/ /\ r.for = "op" /\ t = s /\ p = r.obj /\ op[t][p] = NoOp
              /\ op'[t][p] = [phase |-> "beginning", kind |-> r.type, key |-> r.key,
                              handle |-> next_lock_handle + 1, own_tx |-> FALSE, stale |-> FALSE]
<1> DEFINE new == [phase |-> "beginning", kind |-> r.type, key |-> r.key,
                   handle |-> next_lock_handle + 1, own_tx |-> FALSE, stale |-> FALSE]
<1>1. op \in [Session -> [Object -> Op]]
  BY DEF LockInv, TypeOK
<1>2. op' = IF r.for = "op" THEN [op EXCEPT ![s][r.obj] = new] ELSE op
  BY DEF Granted, OpGranted
<1>3. r.for = "op" => r.obj \in Object /\ op[s][r.obj] = NoOp
  BY DEF Asked, Waits
<1> HIDE DEF new
<1>4. ASSUME NEW t \in Session, NEW p \in Object
      PROVE  \/ op'[t][p] = op[t][p] /\ ~(r.for = "op" /\ t = s /\ p = r.obj)
             \/ /\ r.for = "op" /\ t = s /\ p = r.obj /\ op[t][p] = NoOp
                /\ op'[t][p] = new
  BY <1>1, <1>2, <1>3
<1> QED BY <1>4 DEF new

LEMMA GrantedOrSame ==
  ASSUME LockInv, NEW s \in Session, NEW r \in Request, Asked(s, r), Granted(s, r),
         NEW t \in Session, NEW p \in Object
  PROVE  op'[t][p] = op[t][p] \/ (t = s /\ op[t][p] = NoOp /\ op'[t][p].phase = "beginning")
<1>1. \/ op'[t][p] = op[t][p]
      \/ /\ t = s /\ op[t][p] = NoOp
         /\ op'[t][p] = [phase |-> "beginning", kind |-> r.type, key |-> r.key,
                         handle |-> next_lock_handle + 1, own_tx |-> FALSE, stale |-> FALSE]
  BY GrantedOps
<1> QED BY <1>1

LEMMA NewLockFacts ==
  ASSUME LockInv, NEW s \in Session, NEW r \in Request
  PROVE  /\ NewLock(s, r).session = s /\ NewLock(s, r).key = r.key /\ NewLock(s, r).type = r.type
         /\ NewLock(s, r).root = r.obj /\ NewLock(s, r).base = r.obj
         /\ NewLock(s, r).level = tran_level[s]
         /\ tran_level[s] > 0 => NewLock(s, r).tx_type = r.type
BY DEF NewLock

LEMMA GrantedCovers ==
  ASSUME LockInv, KeptInv, NEW s \in Session, NEW r \in Request, Asked(s, r), Granted(s, r),
         NEW t \in Session, NEW key, NEW h \in DOMAIN locks \ Duplicates(s, r, 0), Covers(h, t, key)
  PROVE  h \in DOMAIN locks' /\ Covers(h, t, key)'
<1>1. h \in DOMAIN locks' /\ locks'[h] = locks[h] /\ h # next_lock_handle + 1
  BY GrantedTable
<1>2. ASSUME NEW p \in Object
      PROVE  /\ op'[t][p].phase = "beginning" => op'[t][p].handle # h
             /\ Destroying(t, p)' => locks'[h].root # p
  <2>1. CASE op'[t][p] = op[t][p]
    BY <1>1, <2>1 DEF Covers, Safe, Destroying
  <2>2. CASE /\ r.for = "op" /\ t = s /\ p = r.obj
             /\ op'[t][p] = [phase |-> "beginning", kind |-> r.type, key |-> r.key,
                             handle |-> next_lock_handle + 1, own_tx |-> FALSE, stale |-> FALSE]
    <3>1. r.type = Destroy => OwnedBy(locks, s, p) = {}
      BY <2>2 DEF Asked, Waits
    <3>2. op'[t][p].kind = r.type /\ op'[t][p].handle = next_lock_handle + 1
      BY <2>2
    <3>3. r.type = Destroy => locks[h].root # p
      BY <2>2, <3>1 DEF OwnedBy, Covers
    <3> QED BY <1>1, <3>2, <3>3 DEF Destroying
  <2> QED BY <2>1, <2>2, GrantedOps
<1>3. Safe(t, h)'
  BY <1>2 DEF Safe
<1> QED BY <1>1, <1>3 DEF Covers

LEMMA GrantedLocked ==
  ASSUME LockInv, KeptInv, CarefulClients, NEW s \in Session, NEW r \in Request, Asked(s, r),
         Granted(s, r), UNCHANGED << tranVars, finishing, written >>,
         NEW t \in Session, NEW p \in Object
  PROVE  OpLocked(t, p)'
<1> DEFINE n == next_lock_handle + 1
<1>1. /\ DOMAIN locks' = (DOMAIN locks \ Duplicates(s, r, 0)) \cup {n} /\ n \notin DOMAIN locks
      /\ locks'[n] = NewLock(s, r) /\ op[t][p].handle # n
      /\ \A h \in DOMAIN locks \ Duplicates(s, r, 0) : locks'[h] = locks[h]
  BY GrantedTable
<1>2. /\ locks'[n].session = s /\ locks'[n].key = r.key /\ locks'[n].type = r.type
      /\ locks'[n].root = r.obj /\ locks'[n].level = tran_level[s]
  BY <1>1, NewLockFacts
<1>3. tran_level' = tran_level /\ written' = written /\ p # 0
  BY LockAssumption DEF tranVars
<1>4. OpInv /\ OpLocked(t, p)
  BY DEF KeptInv, OpInv
<1> HIDE DEF n
<1>5. CASE op'[t][p] = op[t][p] /\ ~(r.for = "op" /\ t = s /\ p = r.obj)
  <2>1. op[t][p].handle \in DOMAIN locks' =>
          op[t][p].handle \in DOMAIN locks /\ locks'[op[t][p].handle] = locks[op[t][p].handle]
    BY <1>1
  <2>2. op[t][p].phase = "storing" => op[t][p].handle \in DOMAIN locks'
    <3>1. op[t][p].phase = "storing" =>
            op[t][p].handle \in DOMAIN locks /\ op[t][p].handle \notin Duplicates(s, r, 0)
      BY <1>4, HandleNoDuplicate DEF OpLocked
    <3> QED BY <1>1, <3>1
  <2>3. ASSUME Destroying(t, p), NEW h \in OwnedBy(locks', t, p)
        PROVE  /\ locks'[h].type # None
               /\ op[t][p].handle \in DOMAIN locks' =>
                    locks'[h].level = locks'[op[t][p].handle].level
    <3>1. CASE h # n
      <4>1. h \in OwnedBy(locks, t, p) /\ locks'[h] = locks[h]
        BY <1>1, <3>1 DEF OwnedBy
      <4> QED BY <1>4, <2>1, <2>3, <4>1 DEF OpLocked
    <3>2. CASE h = n
      <4>1. t = s /\ p = r.obj
        BY <1>2, <3>2 DEF OwnedBy
      <4>2. r.for = "cascade" /\ r.type \in {Update, Destroy} /\ op[t][p].phase = "beginning"
        BY <1>3, <1>5, <4>1 DEF Asked, Waits
      <4>3. op[t][p].handle \in DOMAIN locks => locks[op[t][p].handle].level = tran_level[s]
        BY <1>4, <4>1, <4>2 DEF OpLocked
      <4> QED BY <1>2, <2>1, <3>2, <4>2, <4>3 DEF None, Update, Destroy
    <3> QED BY <3>1, <3>2
  <2>4. Destroying(t, p)' <=> Destroying(t, p)
    BY <1>5 DEF Destroying
  <2> QED BY <1>3, <1>4, <1>5, <2>1, <2>2, <2>3, <2>4 DEF OpLocked
<1>6. CASE /\ r.for = "op" /\ t = s /\ p = r.obj
           /\ op'[t][p] = [phase |-> "beginning", kind |-> r.type, key |-> r.key,
                           handle |-> n, own_tx |-> FALSE, stale |-> FALSE]
  <2>1. /\ op'[t][p].phase = "beginning" /\ op'[t][p].kind = r.type /\ op'[t][p].key = r.key
        /\ op'[t][p].handle = n /\ op'[t][p].stale = FALSE
    BY <1>6
  <2>2. r.type \in Kinds /\ (r.type = Destroy => OwnedBy(locks, s, p) = {})
    BY <1>6 DEF Asked, Waits
  <2>3. r.type # None
    BY <2>2, LockAssumption DEF None, Review, Update, Create, Destroy
  <2>4. r.type = Destroy => \A h \in OwnedBy(locks', s, p) : h = n
    BY <1>1, <2>2 DEF OwnedBy
  <2>5. ASSUME Destroying(t, p)', NEW h \in OwnedBy(locks', t, p)
        PROVE  h = n
    BY <1>6, <2>1, <2>4, <2>5 DEF Destroying
  <2> QED BY <1>2, <1>3, <1>6, <2>1, <2>2, <2>3, <2>5 DEF OpLocked
<1> QED BY <1>5, <1>6, GrantedOps DEF n

LEMMA GrantedKept ==
  ASSUME LockInv, KeptInv, CarefulClients, NEW s \in Session, NEW r \in Request, Asked(s, r),
         Granted(s, r), UNCHANGED << tranVars, finishing, written >>
  PROVE  KeptInv'
<1> DEFINE n == next_lock_handle + 1
<1>1. /\ DOMAIN locks' = (DOMAIN locks \ Duplicates(s, r, 0)) \cup {n} /\ n \notin DOMAIN locks
      /\ locks'[n] = NewLock(s, r)
      /\ \A h \in DOMAIN locks \ Duplicates(s, r, 0) : locks'[h] = locks[h]
  BY GrantedTable
<1>2. /\ locks'[n].session = s /\ locks'[n].type = r.type /\ locks'[n].level = tran_level[s]
      /\ tran_level[s] > 0 => locks'[n].tx_type = r.type
  BY <1>1, NewLockFacts
<1>3. /\ request' = [request EXCEPT ![s] = NoRequest]
      /\ UNCHANGED << tran_level, finishing, written >>
  BY DEF Granted, tranVars
<1>4. OpInv /\ WrittenCovered /\ LevelInv /\ FinishInv
  BY DEF KeptInv
<1> HIDE DEF n
<1>5. WrittenCovered'
  <2> SUFFICES ASSUME NEW t \in Session, NEW key \in written'[t]
               PROVE  \E h \in DOMAIN locks' : Covers(h, t, key)'
    BY DEF WrittenCovered
  <2>1. PICK h \in DOMAIN locks \ Duplicates(s, r, 0) : Covers(h, t, key)
    BY <1>3, <1>4, AskedScan, CoverKept
  <2> QED BY <2>1, GrantedCovers
<1>6. LevelInv'
  BY <1>1, <1>2, <1>4 DEF LevelInv
<1>7. RequestInv'
  <2> SUFFICES ASSUME NEW t \in Session, request'[t] # NoRequest
               PROVE  Waits(t, request[t])'
    BY DEF RequestInv
  <2>1. t # s /\ request'[t] = request[t]
    BY <1>3 DEF LockInv, TypeOK
  <2>2. Waits(t, request[t])
    BY <2>1 DEF KeptInv, RequestInv
  <2>3. op'[t][request[t].obj] = op[t][request[t].obj]
    <3>1. request[t].obj \in Object
      BY <2>2 DEF Waits
    <3> QED BY <2>1, <3>1, GrantedOrSame
  <2>4. OwnedBy(locks, t, request[t].obj) = {} => OwnedBy(locks', t, request[t].obj) = {}
    BY <1>1, <1>2, <2>1 DEF OwnedBy
  <2> QED BY <2>1, <2>2, <2>3, <2>4 DEF Waits
<1>8. OpInv'
  BY GrantedLocked DEF OpInv
<1>9. FinishInv'
  <2> SUFFICES ASSUME NEW t \in Session PROVE FinishOf(t)'
    BY DEF FinishInv
  <2>1. FinishOf(t) /\ finishing[t] \in Seq(Object)
    BY <1>4 DEF FinishInv, LockInv, TypeOK
  <2>2. ASSUME NEW p \in Object
        PROVE  /\ Finishing(t, p)' <=> Finishing(t, p)
               /\ Finishing(t, p) => op'[t][p].own_tx = op[t][p].own_tx
    <3>1. CASE op'[t][p] = op[t][p]
      BY <3>1 DEF Finishing
    <3>2. CASE op[t][p] = NoOp /\ op'[t][p].phase = "beginning"
      BY <3>2, NoOpFacts DEF Finishing
    <3> QED BY <3>1, <3>2, GrantedOrSame
  <2> QED BY <1>3, <2>1, <2>2, FinishSame
<1> QED BY <1>5, <1>6, <1>7, <1>8, <1>9 DEF KeptInv

LEMMA AttemptKept ==
  ASSUME LockInv, KeptInv, CarefulClients, NEW s \in Session, NEW r \in Request, Asked(s, r),
         Attempt(s, r)
  PROVE  KeptInv'
BY GrantedKept, WaitingKept, RefusedKept DEF Attempt

LEMMA RetryKept ==
  ASSUME LockInv, KeptInv, CarefulClients, NEW s \in Session, Retry(s)
  PROVE  KeptInv'
<1>1. request[s] \in Request /\ Attempt(s, request[s]) /\ request[s] # NoRequest
  BY DEF Retry, LockInv, TypeOK
<1>2. Asked(s, request[s])
  BY <1>1 DEF KeptInv, RequestInv, Asked
<1> QED BY <1>1, <1>2, AttemptKept

LEMMA BeginKept ==
  ASSUME LockInv, KeptInv, CarefulClients, NEW s \in Session, NEW o \in Object,
         NEW key \in Instance, NEW kind \in Kinds, BeginOp(s, o, kind, key)
  PROVE  KeptInv'
<1> DEFINE r == [for |-> "op", key |-> key, type |-> kind, obj |-> o, attempts |-> MaxAttempts]
<1>1. r \in Request
  BY LockAssumption DEF Request, Type, None, Review, Update, Create, Destroy
<1>2. Attempt(s, r) /\ Asked(s, r)
  BY DEF BeginOp, CarefulClients, Asked, Waits
<1> HIDE DEF r
<1> QED BY <1>1, <1>2, AttemptKept

LEMMA CascadeKept ==
  ASSUME LockInv, KeptInv, CarefulClients, NEW s \in Session, NEW o \in Object,
         NEW key \in Instance, NEW type \in {Update, Destroy}, CascadeLock(s, o, key, type)
  PROVE  KeptInv'
<1> DEFINE r == [for |-> "cascade", key |-> key, type |-> type, obj |-> o, attempts |-> MaxAttempts]
<1>1. r \in Request
  BY LockAssumption DEF Request, Type, None, Update, Destroy
<1>2. Attempt(s, r) /\ Asked(s, r)
  BY DEF CascadeLock, Asked, Waits
<1> HIDE DEF r
<1> QED BY <1>1, <1>2, AttemptKept

LEMMA KeyedLockKept ==
  ASSUME LockInv, KeptInv, CarefulClients, NEW s \in Session,
         NEW key \in Instance \cup {ClassWide}, NEW type \in KeyedTypes, KeyedLock(s, key, type)
  PROVE  KeptInv'
<1> DEFINE r == [for |-> "keyed", key |-> key, type |-> type, obj |-> 0,
                 attempts |-> IF type = Link THEN MaxAttempts ELSE 1]
<1>1. r \in Request
  BY LockAssumption DEF Request, Type, None, Destroy
<1>2. Attempt(s, r) /\ Asked(s, r)
  BY DEF KeyedLock, MayScan, CarefulClients, Asked
<1> HIDE DEF r
<1> QED BY <1>1, <1>2, AttemptKept

-----------------------------------------------------------------------------
(* An operation that goes on: its kind, key and handle stay.                   *)
OpGoes(s, o, phase) ==
  /\ \A t \in Session, p \in Object : ~(t = s /\ p = o) => op'[t][p] = op[t][p]
  /\ op'[s][o].phase = phase /\ op'[s][o].kind = op[s][o].kind
  /\ op'[s][o].key = op[s][o].key /\ op'[s][o].handle = op[s][o].handle
  /\ op'[s][o].stale = op[s][o].stale

LEMMA OpBegunKept ==
  ASSUME LockInv, KeptInv, NEW s \in Session, NEW o \in Object, OpBegun(s, o)
  PROVE  KeptInv'
<1>1. /\ request[s] = NoRequest /\ op[s][o].phase = "beginning"
      /\ op' = [op EXCEPT ![s][o].phase = "begun"]
      /\ UNCHANGED << locks, tran_level, request, finishing, written >>
  BY DEF OpBegun, lockVars, tranVars
<1>2. OpGoes(s, o, "begun")
  <2> DEFINE new == [op[s][o] EXCEPT !.phase = "begun"]
  <2>1. op[s][o] \in Op
    BY DEF LockInv, TypeOK
  <2>2. /\ new \in Op /\ new.handle = op[s][o].handle /\ new.kind = op[s][o].kind
        /\ new.key = op[s][o].key /\ new.phase = "begun" /\ new.stale = op[s][o].stale
    BY <2>1 DEF Op
  <2>3. op' = [op EXCEPT ![s][o] = new]
    BY <1>1
  <2> HIDE DEF new
  <2>4. \A t \in Session, p \in Object :
          op'[t][p] = IF t = s /\ p = o THEN new ELSE op[t][p]
    BY <2>2, <2>3, OpMoves
  <2> QED BY <2>2, <2>4 DEF OpGoes
<1>3. \A t \in Session, p \in Object :
        /\ Destroying(t, p)' <=> Destroying(t, p)
        /\ op'[t][p].phase = "beginning" => op[t][p].phase = "beginning"
        /\ op'[t][p].handle = op[t][p].handle
  BY <1>1, <1>2 DEF OpGoes, Destroying
<1>4. WrittenCovered'
  <2>1. \A h \in DOMAIN locks, t \in Session : Safe(t, h) => Safe(t, h)'
    BY <1>1, <1>3 DEF Safe
  <2> QED BY <1>1, <2>1 DEF KeptInv, WrittenCovered, Covers
<1>5. LevelInv'
  BY <1>1 DEF KeptInv, LevelInv
<1>6. RequestInv'
  <2> SUFFICES ASSUME NEW t \in Session, request'[t] # NoRequest
               PROVE  Waits(t, request[t])'
    BY DEF RequestInv
  <2>1. t # s /\ Waits(t, request[t])
    BY <1>1 DEF KeptInv, RequestInv
  <2>2. op'[t][request[t].obj] = op[t][request[t].obj]
    BY <1>2, <2>1 DEF OpGoes, Waits
  <2> QED BY <1>1, <2>1, <2>2 DEF Waits, OwnedBy
<1>7. ASSUME NEW t \in Session, NEW p \in Object PROVE OpLocked(t, p)'
  <2>1. OpLocked(t, p) /\ (Destroying(t, p)' <=> Destroying(t, p))
    BY <1>3 DEF KeptInv, OpInv
  <2>2. CASE ~(t = s /\ p = o)
    <3>1. op'[t][p] = op[t][p]
      BY <1>2, <2>2 DEF OpGoes
    <3> QED BY <1>1, <2>1, <3>1 DEF OpLocked, OwnedBy
  <2>3. CASE t = s /\ p = o
    BY <1>1, <1>2, <2>1, <2>3 DEF OpGoes, OpLocked, OwnedBy
  <2> QED BY <2>2, <2>3
<1>8. OpInv'
  BY <1>7 DEF OpInv
<1>9. FinishInv'
  <2> SUFFICES ASSUME NEW t \in Session PROVE FinishOf(t)'
    BY DEF FinishInv
  <2>1. FinishOf(t) /\ finishing[t] \in Seq(Object)
    BY DEF KeptInv, FinishInv, LockInv, TypeOK
  <2>2. ASSUME NEW p \in Object
        PROVE  /\ Finishing(t, p)' <=> Finishing(t, p)
               /\ Finishing(t, p) => op'[t][p].own_tx = op[t][p].own_tx
    BY <1>1, <1>2 DEF OpGoes, Finishing
  <2> QED BY <1>1, <2>1, <2>2, FinishSame
<1> QED BY <1>4, <1>5, <1>6, <1>8, <1>9 DEF KeptInv

-----------------------------------------------------------------------------
(* The start of a finish, and of the transaction that it may need.             *)
LEMMA Marked ==
  ASSUME LockInv, NEW s \in Session, NEW h \in DOMAIN locks
  PROVE  /\ h \in DOMAIN Updated(s)
         /\ locks[h].session # s => Updated(s)[h] = locks[h]
         /\ Updated(s)[h].session = locks[h].session /\ Updated(s)[h].key = locks[h].key
         /\ Updated(s)[h].base = locks[h].base /\ Updated(s)[h].root = locks[h].root
         /\ Updated(s)[h].type = locks[h].type
         /\ locks[h].session = s =>
              Updated(s)[h].level = 1 /\ Updated(s)[h].tx_type = locks[h].type
<1>1. locks[h] \in Lock
  BY LockFacts
<1>2. CASE locks[h].session # s
  BY <1>2 DEF Updated
<1>3. CASE locks[h].session = s
  <2> DEFINE l  == locks[h]
             l1 == [l EXCEPT !.tx_type = l.type]
             l2 == [l1 EXCEPT !.tran_id = next_tran_id]
             m  == [l2 EXCEPT !.level = 1]
  <2>1. Updated(s)[h] = m /\ h \in DOMAIN Updated(s)
    BY <1>3 DEF Updated
  <2>2. next_tran_id \in Nat
    BY DEF LockInv, TypeOK
  <2> HIDE DEF l, m
  <2>3. l \in Lock
    BY <1>1 DEF l
  <2>4. /\ l1 \in Lock /\ l1.root = l.root /\ l1.session = l.session /\ l1.key = l.key
        /\ l1.base = l.base /\ l1.type = l.type /\ l1.tx_type = l.type
    BY <2>3 DEF Lock
  <2> HIDE DEF l1
  <2>5. /\ l2 \in Lock /\ l2.root = l.root /\ l2.session = l.session /\ l2.key = l.key
        /\ l2.base = l.base /\ l2.type = l.type /\ l2.tx_type = l.type
    BY <2>2, <2>4 DEF Lock
  <2> HIDE DEF l2
  <2>6. /\ m.root = l.root /\ m.session = l.session /\ m.key = l.key
        /\ m.base = l.base /\ m.type = l.type /\ m.tx_type = l.type /\ m.level = 1
    BY <2>5 DEF Lock, m
  <2> QED BY <1>3, <2>1, <2>6 DEF l
<1> QED BY <1>2, <1>3

(* The table that a finish starts with: the locks are as they were, but that   *)
(* outside a transaction those of the session are marked.                      *)
AppliedLocks(s) ==
  /\ DOMAIN locks' = DOMAIN locks
  /\ \A h \in DOMAIN locks :
       /\ locks'[h].session = locks[h].session /\ locks'[h].key = locks[h].key
       /\ locks'[h].base = locks[h].base /\ locks'[h].root = locks[h].root
       /\ locks'[h].type = locks[h].type
       /\ locks[h].session # s \/ tran_level[s] # 0 => locks'[h] = locks[h]
       /\ locks[h].session = s /\ tran_level[s] = 0 =>
            locks'[h].level = 1 /\ locks'[h].tx_type = locks[h].type

LEMMA ApplyFacts ==
  ASSUME LockInv, NEW s \in Session, NEW o \in Object, ApplyOp(s, o)
  PROVE  /\ AppliedLocks(s) /\ OpGoes(s, o, "storing")
         /\ op'[s][o].own_tx = (tran_level[s] = 0)
         /\ tran_level' = [tran_level EXCEPT ![s] = IF @ = 0 THEN 1 ELSE @]
<1> DEFINE own == tran_level[s] = 0
<1>1. /\ op' = [op EXCEPT ![s][o] = [@ EXCEPT !.phase = "storing", !.own_tx = own]]
      /\ \/ own /\ locks' = Updated(s) /\ tran_level' = [tran_level EXCEPT ![s] = 1]
         \/ ~own /\ UNCHANGED << locks, tran_level >>
  BY DEF ApplyOp, tranVars
<1>2. AppliedLocks(s)
  <2>1. CASE own /\ locks' = Updated(s)
    <3>1. DOMAIN locks' = DOMAIN locks
      BY <2>1 DEF Updated
    <3> QED BY <2>1, <3>1, Marked DEF AppliedLocks
  <2>2. CASE ~own /\ UNCHANGED locks
    BY <2>2 DEF AppliedLocks
  <2> QED BY <1>1, <2>1, <2>2
<1>3. tran_level' = [tran_level EXCEPT ![s] = IF @ = 0 THEN 1 ELSE @]
  <2>1. tran_level \in [Session -> Nat]
    BY DEF LockInv, TypeOK
  <2> QED BY <1>1, <2>1
<1>4. own \in BOOLEAN
  OBVIOUS
<1> HIDE DEF own
<1>5. OpGoes(s, o, "storing") /\ op'[s][o].own_tx = own
  <2> DEFINE mid == [op[s][o] EXCEPT !.phase = "storing"]
             new == [op[s][o] EXCEPT !.phase = "storing", !.own_tx = own]
  <2>1. op[s][o] \in Op
    BY DEF LockInv, TypeOK
  <2>2. /\ mid \in Op /\ mid.handle = op[s][o].handle /\ mid.kind = op[s][o].kind
        /\ mid.key = op[s][o].key /\ mid.phase = "storing" /\ mid.stale = op[s][o].stale
    BY <2>1 DEF Op
  <2>3. new = [mid EXCEPT !.own_tx = own]
    OBVIOUS
  <2>4. op' = [op EXCEPT ![s][o] = new]
    BY <1>1
  <2> HIDE DEF mid, new
  <2>5. /\ new \in Op /\ new.handle = op[s][o].handle /\ new.kind = op[s][o].kind
        /\ new.key = op[s][o].key /\ new.phase = "storing" /\ new.stale = op[s][o].stale
    BY <1>4, <2>2, <2>3 DEF Op
  <2>6. new.own_tx = own
    BY <2>2, <2>3 DEF Op
  <2>7. \A t \in Session, p \in Object :
          op'[t][p] = IF t = s /\ p = o THEN new ELSE op[t][p]
    BY <2>4, <2>5, OpMoves
  <2> QED BY <2>5, <2>6, <2>7 DEF OpGoes
<1> QED BY <1>2, <1>3, <1>5 DEF own

LEMMA ApplyFinish ==
  ASSUME LockInv, KeptInv, NEW s \in Session, NEW o \in Object, ApplyOp(s, o)
  PROVE  FinishInv'
<1> DEFINE n == Len(finishing[s])
<1>1. /\ OpGoes(s, o, "storing") /\ op'[s][o].own_tx = (tran_level[s] = 0)
      /\ tran_level' = [tran_level EXCEPT ![s] = IF @ = 0 THEN 1 ELSE @]
  BY ApplyFacts
<1>2. /\ op[s][o].phase = "begun" /\ finishing' = [finishing EXCEPT ![s] = Append(@, o)]
      /\ written' = written
  BY DEF ApplyOp
<1>3. /\ finishing \in [Session -> Seq(Object)] /\ tran_level \in [Session -> Nat]
  BY DEF LockInv, TypeOK
<1>4. ASSUME NEW t \in Session, t # s PROVE FinishOf(t)'
  <2>1. FinishOf(t) /\ finishing[t] \in Seq(Object) /\ finishing'[t] = finishing[t]
    BY <1>2, <1>3, <1>4 DEF KeptInv, FinishInv
  <2>2. tran_level'[t] = tran_level[t] /\ written'[t] = written[t]
    BY <1>1, <1>2, <1>3, <1>4
  <2>3. \A p \in Object : /\ Finishing(t, p)' <=> Finishing(t, p)
                          /\ Finishing(t, p) => op'[t][p].own_tx = op[t][p].own_tx
    BY <1>1, <1>4 DEF OpGoes, Finishing
  <2> QED BY <2>1, <2>2, <2>3, FinishSame
<1>5. FinishOf(s)'
  <2>1. FinishOf(s) /\ finishing[s] \in Seq(Object) /\ n \in Nat
    BY <1>3, LenProperties DEF KeptInv, FinishInv
  <2>2. finishing'[s] = Append(finishing[s], o)
    BY <1>2, <1>3
  <2>3. /\ Len(finishing'[s]) = n + 1 /\ finishing'[s][n + 1] = o
        /\ \A i \in 1 .. n : finishing'[s][i] = finishing[s][i]
    BY <2>1, <2>2, AppendProperties
  <2>4. \A i \in 1 .. n : finishing[s][i] \in Object
    BY <2>1, ElementOfSeq
  <2>5. \A i \in 1 .. n : finishing[s][i] # o
    BY <1>2, <2>1 DEF FinishOf, Finishing
  <2>6. tran_level[s] = 0 => n = 0
    BY <2>1 DEF FinishOf
  <2>7. tran_level'[s] # 0
    BY <1>1, <1>3
  <2>8. \A i \in 1 .. n : /\ Finishing(s, finishing[s][i])
                          /\ op[s][finishing[s][i]].own_tx => i = 1
                          /\ op'[s][finishing[s][i]] = op[s][finishing[s][i]]
    BY <1>1, <2>1, <2>4, <2>5 DEF FinishOf, OpGoes
  <2>9. \A i, j \in 1 .. n : finishing[s][i] = finishing[s][j] => i = j
    BY <2>1 DEF FinishOf
  <2>10. \A p \in Object : Finishing(s, p) => \E i \in 1 .. n : finishing[s][i] = p
    BY <2>1 DEF FinishOf
  <2> HIDE DEF n
  <2>11. \A i \in 1 .. n + 1 : i \in 1 .. n \/ i = n + 1
    BY <2>1
  <2>12. n + 1 \in 1 .. n + 1 /\ \A i \in 1 .. n : i \in 1 .. n + 1
    BY <2>1
  <2>13. \A i, j \in 1 .. n + 1 : finishing'[s][i] = finishing'[s][j] => i = j
    BY <2>3, <2>5, <2>9, <2>11
  <2>14. ASSUME NEW i \in 1 .. n + 1
         PROVE  /\ Finishing(s, finishing[s][i])'
                /\ op'[s][finishing'[s][i]].own_tx => i = 1
    <3>1. CASE i \in 1 .. n
      BY <2>3, <2>8, <3>1 DEF Finishing
    <3>2. CASE i = n + 1
      <4>1. op'[s][o].own_tx => i = 1
        <5>1. op'[s][o].own_tx => tran_level[s] = 0
          BY <1>1, Zenon
        <5>2. tran_level[s] = 0 => i = 1
          BY <2>6, <3>2
        <5> QED BY <5>1, <5>2
      <4> QED BY <1>1, <2>3, <3>2, <4>1 DEF Finishing, OpGoes
    <3> QED BY <2>11, <3>1, <3>2
  <2>15. ASSUME NEW p \in Object, Finishing(s, p)'
         PROVE  \E i \in 1 .. n + 1 : finishing'[s][i] = p
    <3>1. CASE p = o
      BY <2>3, <2>12, <3>1
    <3>2. CASE p # o
      <4>1. Finishing(s, p)
        BY <1>1, <2>15, <3>2 DEF OpGoes, Finishing
      <4> QED BY <2>3, <2>10, <2>12, <4>1
    <3> QED BY <3>1, <3>2
  <2> QED BY <2>3, <2>7, <2>13, <2>14, <2>15 DEF FinishOf
<1> QED BY <1>4, <1>5 DEF FinishInv

LEMMA ApplyKept ==
  ASSUME LockInv, KeptInv, NEW s \in Session, NEW o \in Object, ApplyOp(s, o)
  PROVE  KeptInv'
<1>1. /\ AppliedLocks(s) /\ OpGoes(s, o, "storing")
      /\ tran_level' = [tran_level EXCEPT ![s] = IF @ = 0 THEN 1 ELSE @]
  BY ApplyFacts
<1>2. /\ Ready(s) /\ op[s][o].phase = "begun" /\ op[s][o].kind # Review /\ InScope(s, o)
      /\ UNCHANGED << request, written >>
  BY DEF ApplyOp
<1>3. \A t \in Session, p \in Object :
        /\ Destroying(t, p)' <=> Destroying(t, p)
        /\ op'[t][p].phase = "beginning" => op[t][p].phase = "beginning"
        /\ op'[t][p].handle = op[t][p].handle
  BY <1>1, <1>2 DEF OpGoes, Destroying
<1>4. tran_level \in [Session -> Nat]
  BY DEF LockInv, TypeOK
<1>5. WrittenCovered /\ LevelInv /\ RequestInv /\ OpInv /\ FinishInv
  BY DEF KeptInv
<1>6. WrittenCovered'
  <2> SUFFICES ASSUME NEW t \in Session, NEW key \in written'[t]
               PROVE  \E h \in DOMAIN locks' : Covers(h, t, key)'
    BY DEF WrittenCovered
  <2>1. PICK h \in DOMAIN locks : Covers(h, t, key)
    BY <1>2, <1>5 DEF WrittenCovered
  <2>2. t # s \/ tran_level[s] # 0
    BY <1>2, <1>5 DEF FinishInv, FinishOf
  <2>3. h \in DOMAIN locks' /\ locks'[h] = locks[h]
    BY <1>1, <2>1, <2>2 DEF AppliedLocks, Covers
  <2>4. Safe(t, h)'
    BY <1>3, <2>1, <2>3 DEF Covers, Safe
  <2> QED BY <2>1, <2>3, <2>4 DEF Covers
<1>7. LevelInv'
  <2> SUFFICES ASSUME NEW h \in DOMAIN locks', locks'[h].base # 0, locks'[h].type >= Update,
                      locks'[h].level > 0
               PROVE  locks'[h].tx_type >= Update
    BY DEF LevelInv
  <2>1. CASE locks[h].session = s /\ tran_level[s] = 0
    BY <1>1, <2>1 DEF AppliedLocks
  <2>2. CASE locks[h].session # s \/ tran_level[s] # 0
    BY <1>1, <1>5, <2>2 DEF AppliedLocks, LevelInv
  <2> QED BY <2>1, <2>2
<1>8. \A t \in Session, p \in Object : OwnedBy(locks', t, p) = OwnedBy(locks, t, p)
  BY <1>1 DEF AppliedLocks, OwnedBy
<1>9. RequestInv'
  <2> SUFFICES ASSUME NEW t \in Session, request'[t] # NoRequest
               PROVE  Waits(t, request[t])'
    BY DEF RequestInv
  <2>1. t # s /\ Waits(t, request[t])
    BY <1>2, <1>5 DEF RequestInv, Ready
  <2>2. op'[t][request[t].obj] = op[t][request[t].obj]
    BY <1>1, <2>1 DEF OpGoes, Waits
  <2> QED BY <1>2, <1>8, <2>1, <2>2 DEF Waits
<1>10. ASSUME NEW t \in Session, NEW p \in Object PROVE OpLocked(t, p)'
  <2>1. OpLocked(t, p) /\ (Destroying(t, p)' <=> Destroying(t, p)) /\ DOMAIN locks' = DOMAIN locks
    BY <1>1, <1>3, <1>5 DEF OpInv, AppliedLocks
  <2>2. op[t][p].phase # "none" /\ op[t][p].handle \in DOMAIN locks =>
          /\ locks[op[t][p].handle].session = t
          /\ locks'[op[t][p].handle].key = locks[op[t][p].handle].key
    BY <1>1, <1>5, HandleLock DEF AppliedLocks
  <2>3. ASSUME Destroying(t, p), NEW h \in OwnedBy(locks, t, p)
        PROVE  /\ locks'[h].type # None
               /\ op[t][p].handle \in DOMAIN locks =>
                    locks'[h].level = locks'[op[t][p].handle].level
    <3>1. h \in DOMAIN locks /\ locks[h].session = t /\ op[t][p].phase # "none"
      BY <2>3 DEF OwnedBy, Destroying
    <3>2. /\ locks[h].type # None
          /\ op[t][p].handle \in DOMAIN locks => locks[h].level = locks[op[t][p].handle].level
      BY <2>1, <2>3 DEF OpLocked
    <3>3. CASE t = s /\ tran_level[s] = 0
      BY <1>1, <2>2, <3>1, <3>2, <3>3 DEF AppliedLocks
    <3>4. CASE t # s \/ tran_level[s] # 0
      BY <1>1, <2>2, <3>1, <3>2, <3>4 DEF AppliedLocks
    <3> QED BY <3>3, <3>4
  <2>4. CASE ~(t = s /\ p = o)
    <3>1. op'[t][p] = op[t][p]
      BY <1>1, <2>4 DEF OpGoes
    <3>2. op[t][p].phase = "beginning" => t # s /\ tran_level'[t] = tran_level[t]
      BY <1>1, <1>2, <1>4 DEF Ready
    <3>3. op[t][p].phase = "beginning" /\ op[t][p].handle \in DOMAIN locks =>
            locks'[op[t][p].handle] = locks[op[t][p].handle]
      BY <1>1, <2>2, <3>2 DEF AppliedLocks
    <3>4. op[t][p].phase = "storing" => locks'[op[t][p].handle].level > 0
      <4>1. SUFFICES ASSUME op[t][p].phase = "storing" PROVE locks'[op[t][p].handle].level > 0
        OBVIOUS
      <4>2. op[t][p].handle \in DOMAIN locks /\ locks[op[t][p].handle].level > 0
        BY <2>1, <4>1 DEF OpLocked
      <4>3. CASE t = s /\ tran_level[s] = 0
        BY <1>1, <2>2, <4>1, <4>2, <4>3 DEF AppliedLocks
      <4>4. CASE t # s \/ tran_level[s] # 0
        BY <1>1, <2>2, <4>1, <4>2, <4>4 DEF AppliedLocks
      <4> QED BY <4>3, <4>4
    <3> QED BY <1>2, <1>8, <2>1, <2>2, <2>3, <3>1, <3>2, <3>3, <3>4 DEF OpLocked
  <2>5. CASE t = s /\ p = o
    <3>1. /\ op[s][o].handle \in DOMAIN locks
          /\ locks[op[s][o].handle].level = tran_level[s]
      BY <1>2 DEF InScope
    <3>2. ~op[s][o].stale
      BY <1>2, <2>1, <2>5, <3>1 DEF OpLocked
    <3>3. locks'[op[s][o].handle].level > 0
      <4>1. CASE tran_level[s] = 0
        BY <1>1, <1>2, <2>2, <2>5, <3>1, <4>1 DEF AppliedLocks
      <4>2. CASE tran_level[s] # 0
        <5>1. tran_level[s] > 0
          BY <1>4, <4>2
        <5> QED BY <1>1, <3>1, <4>2, <5>1 DEF AppliedLocks
      <4> QED BY <4>1, <4>2
    <3>4. /\ op'[s][o].phase = "storing" /\ op'[s][o].kind = op[s][o].kind
          /\ op'[s][o].key = op[s][o].key /\ op'[s][o].handle = op[s][o].handle
          /\ op'[s][o].stale = op[s][o].stale
      BY <1>1 DEF OpGoes
    <3> QED BY <1>2, <1>8, <2>1, <2>2, <2>3, <2>5, <3>1, <3>2, <3>3, <3>4 DEF OpLocked
  <2> QED BY <2>4, <2>5
<1>11. OpInv'
  BY <1>10 DEF OpInv
<1> QED BY <1>6, <1>7, <1>9, <1>11, ApplyFinish DEF KeptInv

-----------------------------------------------------------------------------
(* An instance is stored: its lock stays as it was, but for a "create" that is *)
(* an "update" from then on, and what the other sessions have fetched of it is *)
(* stale.                                                                      *)
StoredLocks ==
  /\ DOMAIN locks' = DOMAIN locks
  /\ \A h \in DOMAIN locks :
       /\ locks'[h].session = locks[h].session /\ locks'[h].key = locks[h].key
       /\ locks'[h].base = locks[h].base /\ locks'[h].root = locks[h].root
       /\ locks'[h].level = locks[h].level /\ locks'[h].tx_type = locks[h].tx_type
       /\ locks'[h].type = locks[h].type \/ (locks'[h].type = Update /\ locks[h].type = Create)

StoredOps(s, o) ==
  \A t \in Session, p \in Object :
    /\ op'[t][p].handle = op[t][p].handle /\ op'[t][p].kind = op[t][p].kind
    /\ op'[t][p].key = op[t][p].key /\ op'[t][p].own_tx = op[t][p].own_tx
    /\ t = s /\ p = o => op'[t][p].phase = "stored"
    /\ ~(t = s /\ p = o) => op'[t][p].phase = op[t][p].phase
    /\ \/ op'[t][p].stale = op[t][p].stale
       \/ t # s /\ op[t][p].phase # "none" /\ op[t][p].key \in Targets(s, o)

LEMMA StoreFacts ==
  ASSUME LockInv, NEW s \in Session, NEW o \in Object, StoreOp(s, o)
  PROVE  StoredLocks /\ StoredOps(s, o)
<1> DEFINE h == op[s][o].handle
<1>1. /\ op[s][o].phase = "storing"
      /\ \/ locks' = locks
         \/ /\ op[s][o].kind = Create /\ h \in DOMAIN locks
            /\ locks' = [locks EXCEPT ![h].type = Update]
  BY DEF StoreOp
<1>2. h \in DOMAIN locks => locks[h].type = op[s][o].kind
  BY <1>1 DEF LockInv, HandleInv
<1> HIDE DEF h
<1>3. StoredLocks
  <2>1. CASE locks' = locks
    BY <2>1 DEF StoredLocks
  <2>2. CASE /\ op[s][o].kind = Create /\ h \in DOMAIN locks
             /\ locks' = [locks EXCEPT ![h].type = Update]
    <3>1. ASSUME NEW g \in DOMAIN locks
          PROVE  locks'[g] = IF g = h THEN [locks[h] EXCEPT !.type = Update] ELSE locks[g]
      BY <2>2
    <3>2. locks[h] \in Lock
      BY <2>2, LockFacts
    <3>3. DOMAIN locks' = DOMAIN locks
      BY <2>2
    <3> QED BY <1>2, <2>2, <3>1, <3>2, <3>3, TypeSet DEF StoredLocks
  <2> QED BY <1>1, <2>1, <2>2
<1>4. StoredOps(s, o)
  <2> SUFFICES ASSUME NEW t \in Session, NEW p \in Object
               PROVE  /\ op'[t][p].handle = op[t][p].handle /\ op'[t][p].kind = op[t][p].kind
                      /\ op'[t][p].key = op[t][p].key /\ op'[t][p].own_tx = op[t][p].own_tx
                      /\ t = s /\ p = o => op'[t][p].phase = "stored"
                      /\ ~(t = s /\ p = o) => op'[t][p].phase = op[t][p].phase
                      /\ \/ op'[t][p].stale = op[t][p].stale
                         \/ t # s /\ op[t][p].phase # "none" /\ op[t][p].key \in Targets(s, o)
    BY DEF StoredOps
  <2>1. op[t][p] \in Op
    BY DEF LockInv, TypeOK
  <2>2. \/ op'[t][p] = [op[t][p] EXCEPT !.phase = "stored"] /\ t = s /\ p = o
        \/ /\ op'[t][p] = [op[t][p] EXCEPT !.stale = TRUE] /\ ~(t = s /\ p = o)
           /\ t # s /\ op[t][p].phase # "none" /\ op[t][p].key \in Targets(s, o)
        \/ op'[t][p] = op[t][p] /\ ~(t = s /\ p = o)
    BY DEF StoreOp
  <2> QED BY <2>1, <2>2 DEF Op
<1> QED BY <1>3, <1>4

(* Each instance that is stored or destroyed is locked by the operation, in    *)
(* its transaction.                                                            *)
LEMMA TargetLocked ==
  ASSUME LockInv, KeptInv, NEW s \in Session, NEW o \in Object, op[s][o].phase = "storing",
         NEW key \in Targets(s, o)
  PROVE  \E g \in DOMAIN locks :
           /\ locks[g].session = s /\ locks[g].key = key /\ locks[g].root \in {0, o}
           /\ locks[g].type >= Update /\ locks[g].tx_type >= Update /\ locks[g].level > 0
<1> DEFINE h == op[s][o].handle
<1>1. /\ LevelInv /\ OpInv /\ OpLocked(s, o)
  BY DEF KeptInv, OpInv
<1>2. op[s][o].kind # Review /\ h \in DOMAIN locks /\ locks[h].level > 0
  BY <1>1 DEF OpLocked
<1>3. /\ locks[h].session = s /\ locks[h].base = o /\ locks[h].root \in {0, o} /\ o # 0
      /\ locks[h].key = op[s][o].key /\ locks[h].type >= Update
  BY <1>1, <1>2, HandleLock
<1>4. CASE key = op[s][o].key
  BY <1>1, <1>2, <1>3, <1>4 DEF LevelInv
<1>5. CASE key # op[s][o].key
  <2>1. PICK g \in OwnedBy(locks, s, o) :
          op[s][o].kind = Destroy /\ locks[g].type \in {Update, Destroy} /\ locks[g].key = key
    BY <1>5 DEF Targets
  <2>2. g \in DOMAIN locks /\ locks[g].session = s /\ locks[g].root = o /\ locks[g].base = o
    BY <2>1, OwnersLock
  <2>3. locks[g].level = locks[h].level
    BY <1>1, <1>2, <2>1 DEF OpLocked, Destroying
  <2>4. locks[g].type >= Update
    BY <2>1 DEF Update, Destroy
  <2> QED BY <1>1, <1>2, <1>3, <2>1, <2>2, <2>3, <2>4 DEF LevelInv
<1> QED BY <1>4, <1>5

(* Nobody else has a lock on what is stored that is at least a review.         *)
LEMMA TargetExclusive ==
  ASSUME LockInv, KeptInv, NEW s \in Session, NEW o \in Object, op[s][o].phase = "storing",
         NEW h \in DOMAIN locks, locks[h].session # s, NEW key \in Targets(s, o),
         Overlap(locks[h].key, key), locks[h].type >= Review \/ locks[h].tx_type >= Review
  PROVE  FALSE
<1>1. PICK g \in DOMAIN locks :
        locks[g].session = s /\ locks[g].key = key /\ locks[g].type >= Update
  BY TargetLocked
<1>2. PICK a \in Held(locks[h]) : a >= Review
  BY DEF Held
<1>3. locks[g].type \in Held(locks[g])
  BY DEF Held
<1> QED BY <1>1, <1>2, <1>3, Conflict

LEMMA StoreLocked ==
  ASSUME LockInv, KeptInv, NEW s \in Session, NEW o \in Object, StoreOp(s, o),
         NEW t \in Session, NEW p \in Object
  PROVE  OpLocked(t, p)'
<1>1. StoredLocks /\ StoredOps(s, o) /\ OpLocked(t, p) /\ OpLocked(s, o) /\ OpInv /\ WrittenCovered
  BY StoreFacts DEF KeptInv, OpInv
<1>2. /\ op[s][o].phase = "storing" /\ tran_level' = tran_level
      /\ written' = [written EXCEPT ![s] = @ \cup Targets(s, o)]
  BY DEF StoreOp, tranVars
<1>3. written \in [Session -> SUBSET Instance]
  BY DEF LockInv, TypeOK
<1>4. /\ DOMAIN locks' = DOMAIN locks /\ OwnedBy(locks', t, p) = OwnedBy(locks, t, p)
      /\ OwnedBy(locks, t, p) \subseteq DOMAIN locks
  BY <1>1 DEF StoredLocks, OwnedBy
<1>5. Destroying(t, p)' => Destroying(t, p)
  BY <1>1, <1>2 DEF StoredOps, Destroying
<1>6. ASSUME op[t][p].handle \in DOMAIN locks, op[t][p].phase \in {"beginning", "begun", "storing"}
      PROVE  op'[t][p].stale = op[t][p].stale
  <2> SUFFICES ASSUME t # s, op[t][p].phase # "none", op[t][p].key \in Targets(s, o) PROVE FALSE
    BY <1>1 DEF StoredOps
  <2>1. /\ locks[op[t][p].handle].session = t /\ locks[op[t][p].handle].key = op[t][p].key
        /\ locks[op[t][p].handle].type >= Review
    BY <1>1, <1>6, HandleLock
  <2> QED BY <1>2, <1>6, <2>1, TargetExclusive DEF Overlap
<1>7. ASSUME op[t][p].phase = "stored"
      PROVE  op'[t][p].stale = op[t][p].stale
  <2> SUFFICES ASSUME t # s, op[t][p].key \in Targets(s, o) PROVE FALSE
    BY <1>1 DEF StoredOps
  <2>1. PICK h \in DOMAIN locks : Covers(h, t, op[t][p].key)
    BY <1>1, <1>7 DEF OpLocked, WrittenCovered
  <2>2. locks[h].tx_type >= Review
    BY <2>1, LockFacts DEF Covers, Update, Review
  <2> QED BY <1>2, <2>1, <2>2, TargetExclusive DEF Covers
<1>8. written[t] \subseteq written'[t] /\ op[s][o].key \in written'[s]
  BY <1>2, <1>3 DEF Targets
<1>9. /\ op'[t][p].handle = op[t][p].handle /\ op'[t][p].kind = op[t][p].kind
      /\ op'[t][p].key = op[t][p].key
      /\ t = s /\ p = o => op'[t][p].phase = "stored"
      /\ ~(t = s /\ p = o) => op'[t][p].phase = op[t][p].phase
  BY <1>1 DEF StoredOps
<1>10. ASSUME Destroying(t, p)', NEW h \in OwnedBy(locks', t, p)
       PROVE  /\ locks'[h].type # None
              /\ op'[t][p].handle \in DOMAIN locks' =>
                   locks'[h].level = locks'[op'[t][p].handle].level
  <2>1. h \in OwnedBy(locks, t, p) /\ h \in DOMAIN locks /\ Destroying(t, p)
    BY <1>4, <1>5, <1>10
  <2>2. /\ locks[h].type # None
        /\ op[t][p].handle \in DOMAIN locks => locks[h].level = locks[op[t][p].handle].level
    BY <1>1, <2>1 DEF OpLocked
  <2> QED BY <1>1, <1>4, <1>9, <2>1, <2>2 DEF StoredLocks, None, Update
<1>11. CASE t = s /\ p = o
  <2>1. /\ op'[t][p].phase = "stored" /\ ~op'[t][p].stale
    BY <1>1, <1>2, <1>6, <1>9, <1>11 DEF OpLocked
  <2>2. op'[t][p].handle \in DOMAIN locks' => locks'[op'[t][p].handle].key = op'[t][p].key
    BY <1>1, <1>2, <1>4, <1>9, <1>11 DEF OpLocked, StoredLocks
  <2> QED BY <1>1, <1>2, <1>8, <1>9, <1>10, <1>11, <2>1, <2>2 DEF OpLocked
<1>12. CASE ~(t = s /\ p = o)
  <2>1. op'[t][p].phase = op[t][p].phase
    BY <1>9, <1>12
  <2>2. op[t][p].handle \in DOMAIN locks =>
          /\ locks'[op[t][p].handle].key = locks[op[t][p].handle].key
          /\ locks'[op[t][p].handle].level = locks[op[t][p].handle].level
    BY <1>1 DEF StoredLocks
  <2> QED BY <1>1, <1>2, <1>4, <1>6, <1>7, <1>8, <1>9, <1>10, <2>1, <2>2 DEF OpLocked
<1> QED BY <1>11, <1>12

LEMMA StoreKept ==
  ASSUME LockInv, KeptInv, NEW s \in Session, NEW o \in Object, StoreOp(s, o)
  PROVE  KeptInv'
<1>1. /\ StoredLocks /\ StoredOps(s, o) /\ WrittenCovered /\ LevelInv /\ RequestInv /\ FinishInv
  BY StoreFacts DEF KeptInv
<1>2. /\ Ready(s) /\ op[s][o].phase = "storing"
      /\ written' = [written EXCEPT ![s] = @ \cup Targets(s, o)]
      /\ UNCHANGED << tran_level, request, finishing >>
  BY DEF StoreOp, tranVars
<1>3. written \in [Session -> SUBSET Instance] /\ finishing \in [Session -> Seq(Object)]
  BY DEF LockInv, TypeOK
<1>4. \A t \in Session, p \in Object :
        /\ Destroying(t, p)' => Destroying(t, p) /\ ~(t = s /\ p = o)
        /\ op'[t][p].phase = "beginning" => op[t][p].phase = "beginning"
        /\ op'[t][p].handle = op[t][p].handle
  BY <1>1, <1>2 DEF StoredOps, Destroying
<1>5. WrittenCovered'
  <2> SUFFICES ASSUME NEW t \in Session, NEW key \in written'[t]
               PROVE  \E h \in DOMAIN locks' : Covers(h, t, key)'
    BY DEF WrittenCovered
  <2>1. CASE key \in written[t]
    <3>1. PICK h \in DOMAIN locks : Covers(h, t, key)
      BY <1>1, <2>1 DEF WrittenCovered
    <3>2. Safe(t, h)'
      BY <1>1, <1>4, <3>1 DEF StoredLocks, Covers, Safe
    <3> QED BY <1>1, <3>1, <3>2 DEF StoredLocks, Covers
  <2>2. CASE key \notin written[t]
    <3>1. t = s /\ key \in Targets(s, o)
      BY <1>2, <1>3, <2>2
    <3>2. PICK h \in DOMAIN locks :
            /\ locks[h].session = s /\ locks[h].key = key /\ locks[h].root \in {0, o}
            /\ locks[h].tx_type >= Update /\ locks[h].level > 0
      BY <1>2, <3>1, TargetLocked
    <3>3. \A p \in Object : op[s][p].phase # "beginning" /\ p # 0
      BY <1>2, LockAssumption DEF Ready
    <3>4. Safe(s, h)'
      BY <1>1, <1>4, <3>2, <3>3 DEF StoredLocks, Safe
    <3> QED BY <1>1, <3>1, <3>2, <3>4 DEF StoredLocks, Covers, Overlap
  <2> QED BY <2>1, <2>2
<1>6. LevelInv'
  BY <1>1 DEF StoredLocks, LevelInv, Update, Create
<1>7. \A t \in Session, p \in Object : OwnedBy(locks', t, p) = OwnedBy(locks, t, p)
  BY <1>1 DEF StoredLocks, OwnedBy
<1>8. RequestInv'
  <2> SUFFICES ASSUME NEW t \in Session, request'[t] # NoRequest
               PROVE  Waits(t, request[t])'
    BY DEF RequestInv
  <2>1. t # s /\ Waits(t, request[t])
    BY <1>1, <1>2 DEF RequestInv, Ready
  <2>2. request[t].obj \in Object
    BY <2>1 DEF Waits
  <2>3. op[t][request[t].obj] = NoOp => op'[t][request[t].obj] = op[t][request[t].obj]
    BY <1>2, <2>1, <2>2, NoOpFacts DEF StoreOp
  <2>4. /\ op'[t][request[t].obj].phase = op[t][request[t].obj].phase
        /\ op'[t][request[t].obj].kind = op[t][request[t].obj].kind
    BY <1>1, <2>1, <2>2 DEF StoredOps
  <2> QED BY <1>2, <1>7, <2>1, <2>2, <2>3, <2>4 DEF Waits
<1>9. OpInv'
  BY StoreLocked DEF OpInv
<1>10. FinishInv'
  <2> SUFFICES ASSUME NEW t \in Session PROVE FinishOf(t)'
    BY DEF FinishInv
  <2>1. FinishOf(t) /\ finishing[t] \in Seq(Object) /\ finishing'[t] = finishing[t]
    BY <1>1, <1>2, <1>3 DEF FinishInv
  <2>2. \A p \in Object : /\ Finishing(t, p)' <=> Finishing(t, p)
                          /\ op'[t][p].own_tx = op[t][p].own_tx
    BY <1>1, <1>2 DEF StoredOps, Finishing
  <2>3. tran_level'[t] = 0 => tran_level[t] = 0 /\ written'[t] = written[t]
    <3>1. CASE t # s
      BY <1>2, <1>3, <3>1
    <3>2. CASE t = s
      <4>1. PICK i \in 1 .. Len(finishing[s]) : finishing[s][i] = o
        BY <1>1, <1>2 DEF FinishInv, FinishOf, Finishing
      <4>2. Len(finishing[s]) # 0
        BY <4>1
      <4> QED BY <1>1, <1>2, <3>2, <4>2 DEF FinishInv, FinishOf
    <3> QED BY <3>1, <3>2
  <2> QED BY <2>1, <2>2, <2>3, FinishSame
<1> QED BY <1>5, <1>6, <1>8, <1>9, <1>10 DEF KeptInv

-----------------------------------------------------------------------------
LEMMA InitKept == Init => KeptInv
<1> SUFFICES ASSUME Init PROVE KeptInv
  OBVIOUS
<1>1. DOMAIN locks = {}
  BY DEF Init
<1>2. \A s \in Session : /\ tran_level[s] = 0 /\ request[s] = NoRequest
                         /\ finishing[s] = << >> /\ written[s] = {}
  BY DEF Init
<1>3. \A s \in Session, o \in Object : op[s][o] = NoOp
  BY DEF Init
<1>4. Len(<< >>) = 0 /\ 1 .. 0 = {}
  OBVIOUS
<1>5. WrittenCovered /\ LevelInv /\ RequestInv
  BY <1>1, <1>2 DEF WrittenCovered, LevelInv, RequestInv
<1>6. OpInv
  BY <1>3, NoOpFacts DEF OpInv, OpLocked, Destroying
<1>7. FinishInv
  BY <1>2, <1>3, <1>4, NoOpFacts DEF FinishInv, FinishOf, Finishing
<1> QED BY <1>5, <1>6, <1>7 DEF KeptInv

LEMMA StutterKept ==
  ASSUME LockInv, KeptInv, UNCHANGED vars
  PROVE  KeptInv'
<1>1. UNCHANGED << locks, request, op, written, finishing, tran_level >>
  BY DEF vars, lockVars, tranVars
<1>2. CASE Session = {}
  BY <1>1, <1>2 DEF KeptInv, WrittenCovered, LevelInv, RequestInv, OpInv, FinishInv
<1>3. CASE Session # {}
  <2>1. PICK s \in Session : TRUE
    BY <1>3
  <2> QED BY <1>1, <2>1, NothingKept DEF LevelsLeft
<1> QED BY <1>2, <1>3

LEMMA StepKept == CarefulClients /\ LockInv /\ KeptInv /\ [Next]_vars => KeptInv'
<1> SUFFICES ASSUME CarefulClients, LockInv, KeptInv, [Next]_vars PROVE KeptInv'
  OBVIOUS
<1>1. CASE UNCHANGED vars
  BY <1>1, StutterKept
<1>2. ASSUME NEW s \in Session,
             Retry(s) \/ TransactionStart(s) \/ TransactionInnerEnd(s) \/ TransactionEnd(s)
      PROVE  KeptInv'
  BY <1>2, RetryKept, StartKept, InnerEndKept, TransactionEndKept
<1>3. ASSUME NEW s \in Session, NEW o \in Object, NEW key \in Instance,
             \/ \E kind \in Kinds : BeginOp(s, o, kind, key)
             \/ \E type \in {Update, Destroy} : CascadeLock(s, o, key, type)
      PROVE  KeptInv'
  BY <1>3, BeginKept, CascadeKept
<1>4. ASSUME NEW s \in Session, NEW o \in Object,
             \/ OpBegun(s, o) \/ AbortBegin(s, o) \/ CancelOp(s, o) \/ ApplyOp(s, o)
             \/ StoreOp(s, o) \/ CompleteOp(s, o) \/ FailOp(s, o)
      PROVE  KeptInv'
  BY <1>4, OpBegunKept, AbortKept, CancelKept, ApplyKept, StoreKept, CompleteKept, FailKept
<1>5. ASSUME NEW s \in Session, NEW type \in KeyedTypes,
             \/ \E key \in Instance \cup {ClassWide} : KeyedLock(s, key, type)
             \/ \E h \in DOMAIN locks : KeyedTransform(s, h, type)
      PROVE  KeptInv'
  BY <1>5, KeyedLockKept, TransformKept
<1>6. ASSUME NEW s \in Session, NEW h \in DOMAIN locks, KeyedRelease(s, h)
      PROVE  KeptInv'
  BY <1>6, KeyedReleaseKept
<1>7. CASE Quiescent
  BY <1>1, <1>7 DEF Quiescent
<1> QED BY <1>1, <1>2, <1>3, <1>4, <1>5, <1>6, <1>7 DEF Next

LEMMA AlwaysKept == CarefulClients => (Spec => []KeptInv)
<1> SUFFICES ASSUME CarefulClients PROVE Spec => []KeptInv
  OBVIOUS
<1>1. LockInv /\ KeptInv /\ [Next]_vars => KeptInv'
  BY StepKept
<1> QED BY <1>1, InitKept, AlwaysLockInv, PTL DEF Spec

(* With careful clients, what an open transaction has written stays under a    *)
(* lock that keeps the other sessions from reviewing or changing it: through   *)
(* every release, failed begin, cancel, nested finish, transform and removal   *)
(* of duplicates, until the transaction ends.                                  *)
THEOREM WrittenKept == CarefulClients => (Spec => []WrittenStayLocked)
<1>1. KeptInv => WrittenStayLocked
  BY DEF KeptInv, WrittenCovered, Covers, WrittenStayLocked, Held
<1> QED BY <1>1, AlwaysKept, PTL

(* ... so that no instance is ever changed by two transactions that are both   *)
(* open, and the rollback of one undoes nothing of the other.                  *)
THEOREM OverwritesExcluded == CarefulClients => (Spec => []NoDirtyOverwrite)
<1>1. LockInv /\ KeptInv => NoDirtyOverwrite
  <2> SUFFICES ASSUME LockInv, KeptInv, NEW s \in Session, NEW t \in Session, s # t,
                      NEW key \in written[s], key \in written[t]
               PROVE  FALSE
    BY DEF NoDirtyOverwrite
  <2>1. PICK g \in DOMAIN locks : Covers(g, s, key)
    BY DEF KeptInv, WrittenCovered
  <2>2. PICK h \in DOMAIN locks : Covers(h, t, key)
    BY DEF KeptInv, WrittenCovered
  <2>3. locks[g].tx_type >= Review /\ locks[h].tx_type >= Update
    BY <2>1, <2>2, LockFacts DEF Covers, Review, Update
  <2>4. locks[g].tx_type \in Held(locks[g]) /\ locks[h].tx_type \in Held(locks[h])
    BY DEF Held
  <2>5. key # ClassWide
    BY LockAssumption DEF LockInv, TypeOK, ClassWide
  <2>6. Overlap(locks[g].key, locks[h].key) /\ locks[g].session # locks[h].session
    BY <2>1, <2>2, <2>5 DEF Covers, Overlap
  <2> QED BY <2>3, <2>4, <2>6, Conflict
<1> QED BY <1>1, AlwaysKept, AlwaysLockInv, PTL

(* ... and an instance is stored over the record that its operation fetched,   *)
(* even where the commit of another operation has taken the lock away in       *)
(* between: the finish is then refused.                                        *)
THEOREM StoredOverFetched == CarefulClients => (Spec => []StoresOverFetched)
<1>1. KeptInv => StoresOverFetched
  BY DEF KeptInv, OpInv, OpLocked, StoresOverFetched
<1> QED BY <1>1, AlwaysKept, PTL
=============================================================================
