------------------------------- MODULE OpLocks -------------------------------
(* The operation locks of src/ciyam_base.cpp (storage_handler::obtain_lock   *)
(* and what follows it), and the calls that create, review, update and       *)
(* destroy instances under them (begin_instance_op and finish_instance_op of *)
(* src/ciyam_base_ops.cpp), for the instances of one class.                  *)
(*                                                                           *)
(* A section that holds "lock_mutex" is one action.  A lock that cannot be   *)
(* had is asked for again after a sleep, with the mutex released; while a    *)
(* lock is transformed the mutex is kept through every attempt, so that all  *)
(* of them see the table that the first one saw and are one action.          *)
(* A lock released in a transaction stays in the table with no type and the  *)
(* "tx_type" it had: it is dead to its own session and holds off the others  *)
(* until the transaction ends.                                               *)
EXTENDS Integers, Sequences, FiniteSets

CONSTANTS Session,       \* each is one thread
          Object,        \* the class objects of a session, by number
          Instance,      \* the keys of the class, by number
          Kinds,         \* the operations that sessions perform
          KeyedTypes,    \* the types that "storage_lock_create" asks for
          Cascades,      \* are there children to lock when an instance is destroyed?
          ScanAcross,    \* may class-wide locks be asked for while instances are dead locked?
          ForcedInTx,    \* may a destroy force out locks that its transaction still needs?
          MaxAttempts,   \* c_max_lock_attempts
          MaxHandles,    \* bound: locks granted
          MaxTran,       \* bound: transaction ids
          MaxLevel       \* bound: nested transactions

None == 0  View == 1  Link == 2  Review == 3  Obtain == 4  Update == 5  Create == 6  Destroy == 7

Type == None .. Destroy

ASSUME LockAssumption ==
  /\ Object \subseteq Nat \ {0} /\ Instance \subseteq Nat \ {0}
  /\ Kinds \subseteq {Create, Review, Update, Destroy} /\ KeyedTypes \subseteq Type \ {None}
  /\ Cascades \in BOOLEAN /\ ScanAcross \in BOOLEAN /\ ForcedInTx \in BOOLEAN
  /\ MaxAttempts \in Nat \ {0} /\ MaxHandles \in Nat /\ MaxTran \in Nat /\ MaxLevel \in Nat

VARIABLES locks,            \* "locks" and "lock_index": the locks, by handle
          next_lock_handle,
          lock_duplicates,
          tran_id,          \* ods::get_transaction_id of a session's ods copy
          tran_level,       \* ods::get_transaction_level
          next_tran_id,
          request,          \* the lock that a session is waiting for
          op,               \* the operation of each object
          finishing,        \* the objects in "finish_instance_op", outermost first
          written           \* what a session's open transaction has changed

lockVars == << locks, next_lock_handle, lock_duplicates >>
tranVars == << tran_id, tran_level, next_tran_id >>
vars == << lockVars, tranVars, request, op, finishing, written >>

-----------------------------------------------------------------------------
ClassWide == 0  \* an empty lock instance

NoRequest == [for |-> "none", key |-> 0, type |-> None, obj |-> 0, attempts |-> 0]
NoOp == [phase |-> "none", kind |-> None, key |-> 0, handle |-> 0,
         own_tx |-> FALSE, stale |-> FALSE]

Init ==
  /\ locks = << >> /\ next_lock_handle = 0 /\ lock_duplicates = {}
  /\ tran_id = [s \in Session |-> 0] /\ tran_level = [s \in Session |-> 0]
  /\ next_tran_id = 1
  /\ request = [s \in Session |-> NoRequest]
  /\ op = [s \in Session |-> [o \in Object |-> NoOp]]
  /\ finishing = [s \in Session |-> << >>]
  /\ written = [s \in Session |-> {}]

-----------------------------------------------------------------------------
\* the strongest type that each type can coexist with
Strongest(type) == CASE type = View -> Destroy
                     [] type = Link -> Update
                     [] type = Review -> Obtain
                     [] type = Obtain -> Review
                     [] type = Update -> Link
                     [] OTHER -> View

CanCoexist(a, b) == a = None \/ b = None \/ b <= Strongest(a)

Overlap(key1, key2) == key1 = ClassWide \/ key2 = ClassWide \/ key1 = key2

\* "is_after_store" of an object whose lock has the type "update"
AfterStore(s, o) == op[s][o].phase = "stored"

\* A faulty Clash: what a transaction has released does not count.
ClashIgnoringTx(s, r, l) ==
  LET same == l.session = s
  IN /\ ~CanCoexist(r.type, l.type) /\ (~same \/ r.obj = 0 \/ r.obj # l.root)
     /\ ~(same /\ Review \in {r.type, l.type} /\ r.obj # l.base)
     /\ ~(/\ same /\ r.type = Update /\ l.type = Update
          /\ l.base \notin {0, r.obj} /\ AfterStore(s, l.base))

\* whether the lock "l" keeps the session from what it asks for
Clash(s, r, l) ==
  LET same == l.session = s
  IN /\ \/ ~CanCoexist(r.type, l.type) /\ (~same \/ r.obj = 0 \/ r.obj # l.root)
        \/ ~CanCoexist(r.type, l.tx_type) /\ ~same
     /\ ~(same /\ Review \in {r.type, l.type} /\ r.obj # l.base)
     /\ ~(/\ same /\ r.type = Update /\ l.type = Update
          /\ l.base \notin {0, r.obj} /\ AfterStore(s, l.base))

\* The locks that are looked at for a request, other than the lock "skip".
Visible(r, skip) == {h \in DOMAIN locks \ {skip} : Overlap(r.key, locks[h].key)}
Clashing(s, r, skip) == {h \in Visible(r, skip) : Clash(s, r, locks[h])}

\* ... they are in the order of their keys and then of their handles, and the
\* scan ends at the first that clashes
Before(g, h) == \/ locks[g].key < locks[h].key
                \/ locks[g].key = locks[h].key /\ g < h
Scanned(s, r, skip) ==
  {h \in Visible(r, skip) : \A g \in Clashing(s, r, skip) : Before(h, g)}

\* the comparison of locks, which takes in neither the key nor the handle
SameLock(l, m) ==
  /\ l.type = m.type /\ l.tx_type = m.tx_type /\ l.session = m.session
  /\ l.tran_id = m.tran_id /\ l.level = m.level

\* A dead lock that is equal to the one scanned just before it is taken out.
Duplicates(s, r, skip) ==
  LET seen == Scanned(s, r, skip)
  IN {h \in seen : /\ locks[h].type = None
                   /\ \E g \in seen : /\ Before(g, h) /\ SameLock(locks[g], locks[h])
                                      /\ \A f \in seen : ~(Before(g, f) /\ Before(f, h))}

Without(t, handles) == [h \in DOMAIN t \ handles |-> t[h]]

\* release_lock
Released(t, h, force) ==
  IF h \notin DOMAIN t THEN t
  ELSE IF t[h].level > 0 /\ ~force THEN [t EXCEPT ![h].type = None]
  ELSE Without(t, {h})

OwnedBy(t, s, o) == {h \in DOMAIN t : t[h].session = s /\ t[h].root = o}

\* release_locks_for_owner
OwnerReleased(t, s, o, force) ==
  LET mine == OwnedBy(t, s, o)
      dead == IF force THEN {} ELSE {h \in mine : t[h].level > 0}
  IN [h \in DOMAIN t \ (mine \ dead) |->
        IF h \in dead THEN [t[h] EXCEPT !.root = 0, !.type = None] ELSE t[h]]

-----------------------------------------------------------------------------
\* a session that is neither waiting for a lock nor in the middle of a "begin"
Ready(s) == request[s] = NoRequest /\ \A o \in Object : op[s][o].phase # "beginning"

\* locks are handed out up to the bound, with one kept for each that waits
HandlesLeft ==
  next_lock_handle + Cardinality({s \in Session : request[s] # NoRequest}) < MaxHandles

\* locks of one session, dead and on different keys: the ones that a scan of
\* the whole class can take for duplicates
DeadApart ==
  \E g, h \in DOMAIN locks :
    /\ locks[g].key # locks[h].key /\ SameLock(locks[g], locks[h]) /\ locks[g].type = None

MayScan(key) == key = ClassWide => ScanAcross \/ ~DeadApart

NewLock(s, r) ==
  [key |-> r.key, type |-> r.type, tx_type |-> IF tran_level[s] > 0 THEN r.type ELSE None,
   tran_id |-> tran_id[s], level |-> tran_level[s],
   session |-> s, base |-> r.obj, root |-> r.obj]

\* the operation that the lock was asked for, when it is had
OpGranted(s, r) ==
  IF r.for = "op"
  THEN [op EXCEPT ![s][r.obj] = [phase |-> "beginning", kind |-> r.type, key |-> r.key,
                                 handle |-> next_lock_handle + 1, own_tx |-> FALSE, stale |-> FALSE]]
  ELSE op

\* A faulty Granted: a duplicate is noted, and left in the table.
GrantedKeeping(s, r) ==
  /\ Clashing(s, r, 0) = {}
  /\ next_lock_handle' = next_lock_handle + 1
  /\ locks' = [h \in DOMAIN locks \cup {next_lock_handle'} |->
                 IF h = next_lock_handle' THEN NewLock(s, r) ELSE locks[h]]
  /\ op' = OpGranted(s, r)
  /\ request' = [request EXCEPT ![s] = NoRequest]

Granted(s, r) ==
  LET kept == Without(locks, Duplicates(s, r, 0))
  IN /\ Clashing(s, r, 0) = {}
     /\ next_lock_handle' = next_lock_handle + 1
     /\ locks' = [h \in DOMAIN kept \cup {next_lock_handle'} |->
                    IF h = next_lock_handle' THEN NewLock(s, r) ELSE kept[h]]
     /\ op' = OpGranted(s, r)
     /\ request' = [request EXCEPT ![s] = NoRequest]

\* A faulty Waiting: the attempts are not counted down.
WaitingForever(s, r) ==
  /\ Clashing(s, r, 0) # {} /\ r.attempts > 1
  /\ locks' = Without(locks, Duplicates(s, r, 0))
  /\ request' = [request EXCEPT ![s] = r]
  /\ UNCHANGED << next_lock_handle, op >>

Waiting(s, r) ==
  /\ Clashing(s, r, 0) # {} /\ r.attempts > 1
  /\ locks' = Without(locks, Duplicates(s, r, 0))
  /\ request' = [request EXCEPT ![s] = [r EXCEPT !.attempts = @ - 1]]
  /\ UNCHANGED << next_lock_handle, op >>

\* A child that cannot be locked ends the destroy that asked for it.
Refused(s, r) ==
  LET kept == Without(locks, Duplicates(s, r, 0))
  IN /\ Clashing(s, r, 0) # {} /\ r.attempts = 1
     /\ IF r.for = "cascade"
        THEN /\ locks' = OwnerReleased(kept, s, r.obj, TRUE)
             /\ op' = [op EXCEPT ![s][r.obj] = NoOp]
        ELSE locks' = kept /\ UNCHANGED op
     /\ request' = [request EXCEPT ![s] = NoRequest]
     /\ UNCHANGED next_lock_handle

\* one attempt of obtain_lock
Attempt(s, r) ==
  /\ Granted(s, r) \/ Waiting(s, r) \/ Refused(s, r)
  /\ lock_duplicates' = lock_duplicates \cup Duplicates(s, r, 0)
  /\ UNCHANGED << tranVars, finishing, written >>

Retry(s) == request[s] # NoRequest /\ Attempt(s, request[s])

-----------------------------------------------------------------------------
\* begin_instance_op, up to the lock
BeginOp(s, o, kind, key) ==
  /\ Ready(s) /\ HandlesLeft /\ op[s][o] = NoOp
  /\ ForcedInTx \/ kind # Destroy \/ OwnedBy(locks, s, o) = {}
  /\ Attempt(s, [for |-> "op", key |-> key, type |-> kind, obj |-> o, attempts |-> MaxAttempts])

\* obtain_cascade_locks_for_destroy: a child to destroy, or one to unlink
CascadeLock(s, o, key, type) ==
  /\ Cascades /\ request[s] = NoRequest /\ HandlesLeft
  /\ op[s][o].phase = "beginning" /\ op[s][o].kind = Destroy
  /\ \A h \in OwnedBy(locks, s, o) : locks[h].key = key => locks[h].type = None
  /\ Attempt(s, [for |-> "cascade", key |-> key, type |-> type, obj |-> o, attempts |-> MaxAttempts])

OpBegun(s, o) ==
  /\ request[s] = NoRequest /\ op[s][o].phase = "beginning"
  /\ op' = [op EXCEPT ![s][o].phase = "begun"]
  /\ UNCHANGED << lockVars, tranVars, request, finishing, written >>

\* what begin_instance_op finds may end it: the lock is forced out, and for a
\* constrained destroy so are all the locks of the object
AbortBegin(s, o) ==
  /\ request[s] = NoRequest /\ op[s][o].phase = "beginning"
  /\ \/ locks' = Released(locks, op[s][o].handle, TRUE)
     \/ /\ op[s][o].kind = Destroy
        /\ locks' = OwnerReleased(Released(locks, op[s][o].handle, TRUE), s, o, TRUE)
  /\ lock_duplicates' = lock_duplicates \ {op[s][o].handle}
  /\ op' = [op EXCEPT ![s][o] = NoOp]
  /\ UNCHANGED << next_lock_handle, tranVars, request, finishing, written >>

\* A faulty Cancelled: the lock is forced out although a transaction needs it.
CancelledByForce(t, s, o) == OwnerReleased(Released(t, op[s][o].handle, TRUE), s, o, TRUE)

\* perform_op_cancel, and clean_up of the object
Cancelled(t, s, o) ==
  Released(IF op[s][o].kind = Destroy THEN OwnerReleased(t, s, o, TRUE) ELSE t,
           op[s][o].handle, FALSE)

CancelOp(s, o) ==
  /\ Ready(s) /\ op[s][o].phase = "begun"
  /\ locks' = Cancelled(locks, s, o)
  /\ lock_duplicates' = lock_duplicates \ {op[s][o].handle}
  /\ op' = [op EXCEPT ![s][o] = NoOp]
  /\ UNCHANGED << next_lock_handle, tranVars, request, finishing, written >>

-----------------------------------------------------------------------------
\* A faulty InScope: the lock is not looked for.
InScopeUnchecked(s, o) == TRUE

\* instance_tx_check: the lock is still there, from the same transaction level
InScope(s, o) ==
  op[s][o].handle \in DOMAIN locks /\ locks[op[s][o].handle].level = tran_level[s]

\* update_session_locks_for_transaction, in the transaction just started
Updated(s) ==
  [h \in DOMAIN locks |->
     IF locks[h].session = s
     THEN [locks[h] EXCEPT !.tx_type = locks[h].type, !.tran_id = next_tran_id, !.level = 1]
     ELSE locks[h]]

\* the first part of finish_instance_op: an operation outside a transaction
\* starts one of its own; then come the "for" triggers
ApplyOp(s, o) ==
  LET own == tran_level[s] = 0
  IN /\ Ready(s) /\ op[s][o].phase = "begun" /\ op[s][o].kind # Review
     /\ InScope(s, o)
     /\ IF own
        THEN /\ next_tran_id < MaxTran
             /\ locks' = Updated(s)
             /\ tran_id' = [tran_id EXCEPT ![s] = next_tran_id]
             /\ tran_level' = [tran_level EXCEPT ![s] = 1]
             /\ next_tran_id' = next_tran_id + 1
        ELSE UNCHANGED << locks, tranVars >>
     /\ op' = [op EXCEPT ![s][o] = [@ EXCEPT !.phase = "storing", !.own_tx = own]]
     /\ finishing' = [finishing EXCEPT ![s] = Append(@, o)]
     /\ UNCHANGED << next_lock_handle, lock_duplicates, request, written >>

\* the operation whose finish was the last to start
Innermost(s, o) == finishing[s] # << >> /\ finishing[s][Len(finishing[s])] = o

\* the instance, and the ones that a destroy cascades to
Targets(s, o) ==
  {op[s][o].key} \cup
  {locks[h].key : h \in {g \in OwnedBy(locks, s, o) :
                          op[s][o].kind = Destroy /\ locks[g].type \in {Update, Destroy}}}

\* the instance is stored or destroyed; a "create" lock becomes an "update"
\* lock, and the "after" triggers come next
StoreOp(s, o) ==
  /\ Ready(s) /\ op[s][o].phase = "storing" /\ Innermost(s, o)
  /\ written' = [written EXCEPT ![s] = @ \cup Targets(s, o)]
  /\ locks' = IF op[s][o].kind = Create /\ op[s][o].handle \in DOMAIN locks
              THEN [locks EXCEPT ![op[s][o].handle].type = Update] ELSE locks
  /\ op' = [t \in Session |-> [p \in Object |->
              IF t = s /\ p = o THEN [op[t][p] EXCEPT !.phase = "stored"]
              ELSE IF t # s /\ op[t][p].phase # "none" /\ op[t][p].key \in Targets(s, o)
              THEN [op[t][p] EXCEPT !.stale = TRUE] ELSE op[t][p]]]
  /\ UNCHANGED << next_lock_handle, lock_duplicates, tranVars, request, finishing >>

\* release_locks_for_commit comes when the level is 0 again: every lock of the
\* session goes, and "transaction_level" is not 0 in none of them
CommitReleased(s) == Without(locks, {h \in DOMAIN locks : locks[h].session = s})

\* release_locks_for_rollback
RollbackReleased(s) ==
  Without(locks, {h \in DOMAIN locks : locks[h].session = s /\ locks[h].tran_id = tran_id[s]})

Ended(s) == /\ tran_level' = [tran_level EXCEPT ![s] = 0]
            /\ written' = [written EXCEPT ![s] = {}]

PopFinishing(s) ==
  finishing' = [finishing EXCEPT ![s] = [i \in 1 .. Len(@) - 1 |-> @[i]]]

\* the last part of finish_instance_op: the commit of the operation's own
\* transaction, and clean_up of the object
CompleteOp(s, o) ==
  LET after == IF op[s][o].own_tx THEN CommitReleased(s) ELSE locks
      owner == IF op[s][o].kind = Destroy THEN OwnerReleased(after, s, o, FALSE) ELSE after
  IN /\ Ready(s) /\ op[s][o].phase = "stored" /\ Innermost(s, o)
     /\ IF op[s][o].own_tx THEN Ended(s) ELSE UNCHANGED << tran_level, written >>
     /\ locks' = Released(owner, op[s][o].handle, FALSE)
     /\ lock_duplicates' = lock_duplicates \ {op[s][o].handle}
     /\ op' = [op EXCEPT ![s][o] = NoOp]
     /\ PopFinishing(s)
     /\ UNCHANGED << next_lock_handle, tran_id, next_tran_id, request >>

\* an exception in finish_instance_op: the operation's own transaction is
\* rolled back before perform_op_cancel
FailOp(s, o) ==
  /\ Ready(s) /\ op[s][o].phase \in {"storing", "stored"} /\ Innermost(s, o)
  /\ \/ ForcedInTx \/ op[s][o].own_tx
     \/ op[s][o].kind # Destroy \/ op[s][o].phase = "storing"
  /\ IF op[s][o].own_tx THEN Ended(s) ELSE UNCHANGED << tran_level, written >>
  /\ locks' = Cancelled(IF op[s][o].own_tx THEN RollbackReleased(s) ELSE locks, s, o)
  /\ lock_duplicates' = lock_duplicates \ {op[s][o].handle}
  /\ op' = [op EXCEPT ![s][o] = NoOp]
  /\ PopFinishing(s)
  /\ UNCHANGED << next_lock_handle, tran_id, next_tran_id, request >>

-----------------------------------------------------------------------------
\* the commands storage_transaction_start, _commit and _rollback; the rows in
\* the database have no inner transactions, and keep their locks with them
TransactionStart(s) ==
  /\ Ready(s) /\ finishing[s] = << >> /\ tran_level[s] < MaxLevel
  /\ tran_level' = [tran_level EXCEPT ![s] = @ + 1]
  /\ IF tran_level[s] > 0
     THEN UNCHANGED << tran_id, next_tran_id >>
     ELSE /\ next_tran_id < MaxTran
          /\ tran_id' = [tran_id EXCEPT ![s] = next_tran_id]
          /\ next_tran_id' = next_tran_id + 1
  /\ UNCHANGED << lockVars, request, op, finishing, written >>

TransactionInnerEnd(s) ==
  /\ Ready(s) /\ finishing[s] = << >> /\ tran_level[s] > 1
  /\ tran_level' = [tran_level EXCEPT ![s] = @ - 1]
  /\ UNCHANGED << lockVars, tran_id, next_tran_id, request, op, finishing, written >>

TransactionEnd(s) ==
  /\ Ready(s) /\ finishing[s] = << >> /\ tran_level[s] = 1
  /\ Ended(s)
  /\ locks' \in {CommitReleased(s), RollbackReleased(s)}
  /\ UNCHANGED << next_lock_handle, lock_duplicates, tran_id, next_tran_id, request, op, finishing >>

-----------------------------------------------------------------------------
\* storage_lock_create, which tries once, and the lock of a foreign key
KeyedLock(s, key, type) ==
  /\ Ready(s) /\ HandlesLeft /\ MayScan(key)
  /\ Attempt(s, [for |-> "keyed", key |-> key, type |-> type, obj |-> 0,
                 attempts |-> IF type = Link THEN MaxAttempts ELSE 1])

\* the keyed locks that a session still holds
Keyed(s) == {h \in DOMAIN locks : /\ locks[h].session = s /\ locks[h].base = 0
                                  /\ locks[h].type # None}

KeyedRelease(s, h) ==
  /\ Ready(s) /\ h \in Keyed(s)
  /\ locks' = Released(locks, h, FALSE)
  /\ lock_duplicates' = lock_duplicates \ {h}
  /\ UNCHANGED << next_lock_handle, tranVars, request, op, finishing, written >>

\* A faulty KeyedTransform: a stronger type is not asked for.
KeyedTransformUnchecked(s, h, type) ==
  /\ Ready(s) /\ h \in Keyed(s)
  /\ locks' = [locks EXCEPT ![h].type = type]
  /\ UNCHANGED << next_lock_handle, lock_duplicates, tranVars, request, op, finishing, written >>

\* transform_lock: a stronger type has to be had, a weaker one is just set
KeyedTransform(s, h, type) ==
  LET r == [for |-> "keyed", key |-> locks[h].key, type |-> type, obj |-> 0, attempts |-> 1]
      stronger == type > locks[h].type
      dup == IF stronger THEN Duplicates(s, r, h) ELSE {}
      kept == Without(locks, dup)
  IN /\ Ready(s) /\ h \in Keyed(s) /\ MayScan(r.key)
     /\ locks' = IF stronger /\ Clashing(s, r, h) # {} THEN kept
                 ELSE [kept EXCEPT ![h].type = type]
     /\ lock_duplicates' = lock_duplicates \cup dup
     /\ UNCHANGED << next_lock_handle, tranVars, request, op, finishing, written >>

-----------------------------------------------------------------------------
\* no call in progress: the clients may all be done
Quiescent == /\ \A s \in Session : /\ request[s] = NoRequest /\ tran_level[s] = 0
                                   /\ \A o \in Object : op[s][o] = NoOp
             /\ UNCHANGED vars

Next == \/ \E s \in Session : \/ Retry(s) \/ TransactionStart(s)
                              \/ TransactionInnerEnd(s) \/ TransactionEnd(s)
        \/ \E s \in Session, o \in Object :
             \/ \E key \in Instance :
                  \/ \E kind \in Kinds : BeginOp(s, o, kind, key)
                  \/ \E type \in {Update, Destroy} : CascadeLock(s, o, key, type)
             \/ OpBegun(s, o) \/ AbortBegin(s, o) \/ CancelOp(s, o) \/ ApplyOp(s, o)
             \/ StoreOp(s, o) \/ CompleteOp(s, o) \/ FailOp(s, o)
        \/ \E s \in Session, type \in KeyedTypes :
             \/ \E key \in Instance \cup {ClassWide} : KeyedLock(s, key, type)
             \/ \E h \in DOMAIN locks : KeyedTransform(s, h, type)
        \/ \E s \in Session, h \in DOMAIN locks : KeyedRelease(s, h)
        \/ Quiescent

\* A thread that sleeps between two attempts wakes up and tries again.
Fairness == \A s \in Session : WF_vars(Retry(s))

Spec == Init /\ [][Next]_vars /\ Fairness

-----------------------------------------------------------------------------
Lock == [key : Instance \cup {ClassWide}, type : Type, tx_type : Type, tran_id : Nat,
         level : Nat, session : Session, base : Object \cup {0}, root : Object \cup {0}]
Request == [for : {"none", "op", "keyed", "cascade"}, key : Instance \cup {ClassWide},
            type : Type, obj : Object \cup {0}, attempts : Nat]
Op == [phase : {"none", "beginning", "begun", "storing", "stored"}, kind : Type,
       key : Instance \cup {0}, handle : Nat, own_tx : BOOLEAN, stale : BOOLEAN]

\* The variables hold what the fields of the code's structures can hold, and a
\* handle is that of a lock in the table or of one taken out as a duplicate.
TypeOK ==
  /\ next_lock_handle \in Nat
  /\ DOMAIN locks \subseteq 1 .. next_lock_handle
  /\ \A h \in DOMAIN locks : locks[h] \in Lock
  /\ lock_duplicates \subseteq (1 .. next_lock_handle) \ DOMAIN locks
  /\ tran_id \in [Session -> Nat] /\ tran_level \in [Session -> Nat] /\ next_tran_id \in Nat
  /\ request \in [Session -> Request] /\ op \in [Session -> [Object -> Op]]
  /\ finishing \in [Session -> Seq(Object)] /\ written \in [Session -> SUBSET Instance]

\* what a lock holds off the other sessions from
Held(l) == {l.type, l.tx_type}

\* Two sessions never have locks on one instance, or on it and the class, of
\* types that cannot coexist, the types kept for a transaction included; for
\* every way a lock is granted, transformed, released and marked.
LocksCoexist ==
  \A g, h \in DOMAIN locks :
    locks[g].session # locks[h].session /\ Overlap(locks[g].key, locks[h].key) =>
      \A a \in Held(locks[g]), b \in Held(locks[h]) : CanCoexist(a, b)

\* "Locks that are being held for the duration of a transaction": what an open
\* transaction has written stays under a lock of its session, strong enough to
\* keep every other session from reviewing or changing it.
WrittenStayLocked ==
  \A s \in Session : \A key \in written[s] :
    \E h \in DOMAIN locks : /\ locks[h].session = s /\ Overlap(locks[h].key, key)
                            /\ \E a \in Held(locks[h]) : a >= Update

\* No instance is changed by two transactions that are both open, so that the
\* rollback of one undoes nothing of the other.
NoDirtyOverwrite ==
  \A s, t \in Session : s # t => written[s] \cap written[t] = {}

\* An instance is stored over the record that the operation fetched: no other
\* session has changed it since the operation began, even when the commit of
\* another operation has taken the lock away in between.
StoresOverFetched ==
  \A s \in Session, o \in Object : op[s][o].phase \in {"storing", "stored"} => ~op[s][o].stale

\* "to ensure that a record will not have any changes made to it whilst the
\* lock is held": nobody else changes an instance between begin_review and
\* finish_review.
ReviewIsStable ==
  \A s \in Session, o \in Object :
    op[s][o].kind = Review => ~op[s][o].stale

\* Nobody waits for a lock for ever: sessions that wait for each other give up
\* when their attempts run out.
WaitingEnds == \A s \in Session : request[s] # NoRequest ~> request[s] = NoRequest
=============================================================================
