------------------------------ MODULE OdsBulk ------------------------------
(* The bulk lock of an object database (src/ods.cpp, ods::bulk_dump,         *)
(* ods::bulk_read, ods::bulk_write and the bulk_operation_* functions).      *)
(*                                                                           *)
(* The threads of one process share one bulk mode, one bulk level and the    *)
(* ids of the reading and writing threads.  The process shares the database  *)
(* files with other processes through an fcntl lock on one byte of the       *)
(* header file, which the first bulk scope takes and the last one gives up.  *)
(* Every critical section of the code that runs with "rp_impl_lock" held is  *)
(* one action; the sleep of "pause" keeps that mutex but gives up the header *)
(* lock, so it is two actions between which no other thread of the process   *)
(* may enter a section.                                                      *)
(*                                                                           *)
(* Every thread works with an ods instance, its own copy (the storage of a   *)
(* session) or one that threads share (the system's), and an operation has   *)
(* the locks of its instance from its first check to its end.  A commit or   *)
(* rollback that throws leaves its instance in a bad state: all it is asked  *)
(* for then throws, and the destructors of its bulk scopes do nothing.       *)
(*                                                                           *)
(* No caller in the repository sets allow_thread_promotion or                *)
(* allow_thread_demotion, so a thread in a mode that a new scope cannot join *)
(* gets an exception, which changes nothing and is not a step.               *)
EXTENDS Integers, Sequences

CONSTANTS Thread,         \* the threads of this process
          NoThread,       \* dummy_thread_id
          Instance,       \* the ods instances
          InstanceOf,     \* the instance of each thread
          MaxLevel,       \* bound: the bulk level
          MaxFailedOpens  \* bound: opens that leave the count of opens wrong

ASSUME BulkAssumption == /\ NoThread \notin Thread
                         /\ InstanceOf \in [Thread -> Instance]
                         /\ MaxLevel \in Nat \ {0}
                         /\ MaxFailedOpens \in Nat

VARIABLES bulk_mode,             \* rp_bulk_mode
          bulk_level,            \* rp_bulk_level
          bulk_read_thread_id,   \* rp_bulk_read_thread_id
          bulk_write_thread_id,  \* rp_bulk_write_thread_id
          is_in_bulk_pause,      \* rp_is_in_bulk_pause
          open_store_ref_count,  \* rp_open_store_ref_count
          header_lock,           \* holder of the fcntl lock: free, us, other
          okay,                  \* per instance: it is in no bad state
          scopes,                \* per thread, its live bulk objects, outermost first
          left,                  \* per thread, its bulk objects destroyed in a bad state
          asleep,                \* the thread sleeping in pause with the impl lock
          permitted,             \* threads between a bulk check and its mutation
          caches,                \* dirty: they hold changes that the files lack
          content,               \* flips with every mutation of an object
          failed_opens           \* opens that threw and left the count wrong

lockVars  == << bulk_mode, bulk_level, bulk_read_thread_id, bulk_write_thread_id, scopes, left >>
storeVars == << open_store_ref_count, header_lock, caches, failed_opens >>
pauseVars == << is_in_bulk_pause, asleep >>
opVars    == << permitted, content, okay >>
vars      == << lockVars, storeVars, pauseVars, opVars >>

Kind == {"dump", "read", "write"}

Front(q) == [i \in 1 .. Len(q) - 1 |-> q[i]]

Init ==
  /\ bulk_mode = "none" /\ bulk_level = 0
  /\ bulk_read_thread_id = NoThread /\ bulk_write_thread_id = NoThread
  /\ scopes = [t \in Thread |-> << >>] /\ left = [t \in Thread |-> 0]
  /\ open_store_ref_count = 0 /\ header_lock = "free" /\ caches = "clean"
  /\ is_in_bulk_pause = FALSE /\ asleep = NoThread /\ failed_opens = 0
  /\ permitted = {} /\ content = 0 /\ okay = [i \in Instance |-> TRUE]

(* An operation or a sleep has the locks of the instance.                    *)
InUse(i) == \E u \in Thread : InstanceOf[u] = i /\ (u \in permitted \/ u = asleep)

(* A thread may enter a section with the locks of its instance.              *)
Enters(t) == asleep = NoThread /\ ~InUse(InstanceOf[t])

-----------------------------------------------------------------------------
(* open_store / close_store: only the outermost pair does any work, and      *)
(* close_store flushes only when the count it leaves is exactly zero.        *)

(* Faulty: close_store forgets data_and_index_write.                         *)
FlushedByNothing(count) == caches

FlushedBy(count) == IF count = 0 THEN "clean" ELSE caches

(* Faulty: the level is counted up first, which turns lock_header_file into  *)
(* a no-op (the error that the comment at src/ods.cpp:5155 warns of).        *)
OpenUnlocked ==
  /\ header_lock # "other"
  /\ open_store_ref_count' = open_store_ref_count + 1
  /\ UNCHANGED << caches, header_lock, failed_opens >>

(* bulk_operation_open: throws, changing nothing, if another process has the *)
(* header lock for longer than the attempts last.                            *)
BulkOperationOpen ==
  /\ header_lock # "other"
  /\ header_lock' = "us"
  /\ open_store_ref_count' = open_store_ref_count + 1
  /\ UNCHANGED << caches, failed_opens >>

(* open_store has counted when reading the header or its version throws; it  *)
(* looks at them only when it is the first to open.                          *)
OpenStoreFails ==
  /\ header_lock # "other"
  /\ failed_opens < MaxFailedOpens
  /\ failed_opens' = failed_opens + 1
  /\ open_store_ref_count' = open_store_ref_count + 1
  /\ header_lock' = "free"
  /\ UNCHANGED caches

(* bulk_operation_open throws in open_store, or because there seem to be     *)
(* writers, which dumps do not mind: only the header is unlocked.            *)
BulkOperationOpenFails(kind) ==
  /\ kind = "dump" => open_store_ref_count <= 0
  /\ OpenStoreFails

(* bulk_operation_close: fcntl F_UNLCK by a process that does not hold the   *)
(* lock succeeds and changes nothing.                                        *)
BulkOperationClose ==
  /\ open_store_ref_count' = open_store_ref_count - 1
  /\ caches' = FlushedBy(open_store_ref_count - 1)
  /\ header_lock' = IF header_lock = "us" THEN "free" ELSE header_lock
  /\ UNCHANGED failed_opens

(* bulk_operation_start: the files are opened by the outermost scope only.   *)
BulkOperationStart(t, kind) ==
  /\ Enters(t) /\ okay[InstanceOf[t]]
  /\ bulk_level < MaxLevel
  /\ IF bulk_level = 0 THEN BulkOperationOpen ELSE UNCHANGED storeVars
  /\ bulk_level' = bulk_level + 1
  /\ bulk_mode' = kind
  /\ scopes' = [scopes EXCEPT ![t] = Append(@, kind)]
  /\ UNCHANGED << left, pauseVars, opVars >>

BulkDump(t) ==
  /\ bulk_mode = "none"
  /\ BulkOperationStart(t, "dump")
  /\ UNCHANGED << bulk_read_thread_id, bulk_write_thread_id >>

(* Faulty: a second thread may join the readers.                             *)
BulkReadShared(t) ==
  /\ bulk_mode \in {"none", "read"}
  /\ BulkOperationStart(t, "read")
  /\ bulk_read_thread_id' = t
  /\ UNCHANGED bulk_write_thread_id

BulkRead(t) ==
  /\ \/ bulk_mode = "none"
     \/ bulk_mode = "read" /\ bulk_read_thread_id = t
  /\ BulkOperationStart(t, "read")
  /\ bulk_read_thread_id' = t
  /\ UNCHANGED bulk_write_thread_id

BulkWrite(t) ==
  /\ \/ bulk_mode = "none"
     \/ bulk_mode = "write" /\ bulk_write_thread_id = t
  /\ BulkOperationStart(t, "write")
  /\ bulk_write_thread_id' = t
  /\ UNCHANGED bulk_read_thread_id

(* Faulty: the constructor does not put back the mode.                       *)
BulkFailsKeepingMode(t) ==
  /\ Enters(t) /\ okay[InstanceOf[t]]
  /\ bulk_mode = "none"
  /\ \E kind \in Kind : BulkOperationOpenFails(kind) /\ bulk_mode' = kind
  /\ UNCHANGED << bulk_level, bulk_read_thread_id, bulk_write_thread_id, scopes, left,
                  pauseVars, opVars >>

(* A constructor whose open throws puts the mode back and passes it on.      *)
BulkFails(t) ==
  /\ Enters(t) /\ okay[InstanceOf[t]]
  /\ bulk_mode = "none"
  /\ \E kind \in Kind : BulkOperationOpenFails(kind)
  /\ UNCHANGED << lockVars, pauseVars, opVars >>

(* Faulty: bulk_operation_finish counts down a second time.                  *)
EndBulkTwice(t) ==
  /\ Enters(t)
  /\ scopes[t] # << >>
  /\ bulk_level' = bulk_level - 2
  /\ scopes' = [scopes EXCEPT ![t] = Front(@)]
  /\ UNCHANGED << storeVars, bulk_mode, bulk_read_thread_id, bulk_write_thread_id >>
  /\ UNCHANGED << left, pauseVars, opVars >>

(* The destructors, innermost scope first: bulk_operation_finish, then the   *)
(* mode and the id of the kind of scope that is destroyed; in a bad state    *)
(* nothing.                                                                  *)
EndBulk(t) ==
  /\ Enters(t)
  /\ scopes[t] # << >>
  /\ scopes' = [scopes EXCEPT ![t] = Front(@)]
  /\ \/ /\ okay[InstanceOf[t]]
        /\ bulk_level' = bulk_level - 1
        /\ IF bulk_level = 1
             THEN LET kind == scopes[t][Len(scopes[t])] IN
                  /\ BulkOperationClose
                  /\ bulk_mode' = "none"
                  /\ bulk_read_thread_id'  = IF kind = "read"  THEN NoThread ELSE bulk_read_thread_id
                  /\ bulk_write_thread_id' = IF kind = "write" THEN NoThread ELSE bulk_write_thread_id
             ELSE UNCHANGED << storeVars, bulk_mode, bulk_read_thread_id, bulk_write_thread_id >>
        /\ UNCHANGED left
     \/ /\ ~okay[InstanceOf[t]]
        /\ left' = [left EXCEPT ![t] = @ + 1]
        /\ UNCHANGED << storeVars, bulk_level, bulk_mode, bulk_read_thread_id,
                        bulk_write_thread_id >>
  /\ UNCHANGED << pauseVars, opVars >>

-----------------------------------------------------------------------------
(* pause: the store is closed and the header lock given up for the length of *)
(* a sleep, so that other processes may work on the files.                   *)

PauseSleep(t) ==
  /\ Enters(t) /\ okay[InstanceOf[t]]
  /\ scopes[t] # << >>
  /\ is_in_bulk_pause' = TRUE
  /\ BulkOperationClose
  /\ asleep' = t
  /\ UNCHANGED << lockVars, opVars >>

PauseReopen(t) ==
  /\ asleep = t
  /\ BulkOperationOpen
  /\ is_in_bulk_pause' = FALSE
  /\ asleep' = NoThread
  /\ UNCHANGED << lockVars, opVars >>

(* The reopening throws, for want of the header lock, before the store has   *)
(* been reopened, or after open_store has counted; in both cases before the  *)
(* pause flag is reset.                                                      *)
PauseThrow(t) ==
  /\ asleep = t
  /\ \/ /\ header_lock = "other"
        /\ failed_opens < MaxFailedOpens
        /\ failed_opens' = failed_opens + 1
        /\ UNCHANGED << open_store_ref_count, header_lock, caches >>
     \/ BulkOperationOpenFails(bulk_mode)
  /\ asleep' = NoThread
  /\ UNCHANGED << lockVars, is_in_bulk_pause, opVars >>

-----------------------------------------------------------------------------
(* Storing, destroying, committing and rolling back first ask whether the    *)
(* bulk state permits a mutation and then, in a section of its own, mutate.  *)

(* The thread is not asked for: the bulk write may be one of another thread. *)
BulkOperationNoneOrWrite(t) ==
  /\ ~InUse(InstanceOf[t]) /\ okay[InstanceOf[t]]
  /\ bulk_level = 0 \/ bulk_mode = "write"
  /\ permitted' = permitted \cup {t}
  /\ UNCHANGED << lockVars, storeVars, pauseVars, content, okay >>

(* One header_file_lock and, outside of bulk scopes, one file_scope or bulk  *)
(* scope around the mutation.  lock_header_file and unlock_header_file do    *)
(* nothing inside of a bulk scope, unless the pause flag is set.             *)
Mutation ==
  /\ content' = 1 - content
  /\ IF bulk_level > 0 /\ ~is_in_bulk_pause
       THEN UNCHANGED header_lock
       ELSE header_lock # "other" /\ header_lock' = "free"
  /\ caches' = IF bulk_level = 0 /\ open_store_ref_count = 0 THEN "clean" ELSE "dirty"
  /\ UNCHANGED << open_store_ref_count, failed_opens >>

Mutate(t) ==
  /\ asleep = NoThread
  /\ t \in permitted
  /\ permitted' = permitted \ {t}
  /\ Mutation
  /\ UNCHANGED << lockVars, pauseVars, okay >>

(* The file_scope of an operation throws in open_store.                      *)
OpenThrows(t) ==
  /\ asleep = NoThread
  /\ t \in permitted
  /\ permitted' = permitted \ {t}
  /\ bulk_level = 0 /\ open_store_ref_count <= 0
  /\ OpenStoreFails
  /\ UNCHANGED << lockVars, pauseVars, content, okay >>

(* A commit or rollback throws.  Outside of bulk scopes it has one of its    *)
(* own, whose opening may be what fails, and which is closed, what has been  *)
(* done being flushed, before the state becomes a bad one; but a throw in    *)
(* transaction_completed makes it one first, and the scope is left.          *)
OperationFails(t) ==
  /\ asleep = NoThread
  /\ t \in permitted
  /\ permitted' = permitted \ {t}
  /\ okay' = [okay EXCEPT ![InstanceOf[t]] = FALSE]
  /\ \/ /\ \/ UNCHANGED storeVars /\ UNCHANGED content
           \/ bulk_level = 0 /\ BulkOperationOpenFails("write") /\ UNCHANGED content
           \/ Mutation
        /\ UNCHANGED lockVars
     \/ /\ bulk_level = 0 /\ header_lock # "other"
        /\ bulk_level' = 1 /\ bulk_mode' = "write" /\ bulk_write_thread_id' = t
        /\ left' = [left EXCEPT ![t] = @ + 1]
        /\ header_lock' = IF is_in_bulk_pause THEN "free" ELSE "us"
        /\ open_store_ref_count' = open_store_ref_count + 1
        /\ content' = 1 - content /\ caches' = "dirty"
        /\ UNCHANGED << bulk_read_thread_id, scopes, failed_opens >>
  /\ UNCHANGED pauseVars

(* A copy takes the place of an instance in a bad state.                     *)
NewInstance(i) ==
  /\ asleep = NoThread /\ ~InUse(i)
  /\ ~okay[i]
  /\ \A t \in Thread : InstanceOf[t] = i => scopes[t] = << >>
  /\ okay' = [okay EXCEPT ![i] = TRUE]
  /\ UNCHANGED << lockVars, storeVars, pauseVars, permitted, content >>

-----------------------------------------------------------------------------
(* Another process takes and gives up the header lock.                       *)

OtherProcessLocks ==
  /\ header_lock = "free"
  /\ header_lock' = "other"
  /\ UNCHANGED << lockVars, open_store_ref_count, caches, failed_opens, pauseVars, opVars >>

OtherProcessUnlocks ==
  /\ header_lock = "other"
  /\ header_lock' = "free"
  /\ UNCHANGED << lockVars, open_store_ref_count, caches, failed_opens, pauseVars, opVars >>

Next ==
  \/ \E t \in Thread : \/ BulkDump(t) \/ BulkRead(t) \/ BulkWrite(t) \/ BulkFails(t)
                       \/ EndBulk(t)
                       \/ PauseSleep(t) \/ PauseReopen(t) \/ PauseThrow(t)
                       \/ BulkOperationNoneOrWrite(t) \/ Mutate(t) \/ OpenThrows(t)
                       \/ OperationFails(t)
  \/ \E i \in Instance : NewInstance(i)
  \/ OtherProcessLocks
  \/ OtherProcessUnlocks

Spec == Init /\ [][Next]_vars
-----------------------------------------------------------------------------
TypeOK ==
  /\ bulk_mode \in Kind \cup {"none"}
  /\ bulk_level \in Nat
  /\ bulk_read_thread_id \in Thread \cup {NoThread}
  /\ bulk_write_thread_id \in Thread \cup {NoThread}
  /\ is_in_bulk_pause \in BOOLEAN
  /\ open_store_ref_count \in Int
  /\ header_lock \in {"free", "us", "other"}
  /\ okay \in [Instance -> BOOLEAN]
  /\ scopes \in [Thread -> Seq(Kind)]
  /\ left \in [Thread -> Nat]
  /\ asleep \in Thread \cup {NoThread}
  /\ permitted \subseteq Thread
  /\ caches \in {"clean", "dirty"}
  /\ content \in {0, 1}
  /\ failed_opens \in Nat

(* A thread has live bulk objects, or has left some of the level behind.     *)
Holds(t) == scopes[t] # << >> \/ left[t] > 0

(* Bulk scopes are exclusive between the threads of the process: whatever    *)
(* their kinds, two threads never have live bulk objects, or some left by    *)
(* failures, at the same time, although the code has one shared mode and     *)
(* level and two separate ids.                                               *)
OneBulkThread ==
  \A t, u \in Thread : Holds(t) /\ Holds(u) => t = u

(* The shared level is the number of live scopes of the thread that has any  *)
(* and of those it has left, so the destructor that finds it at zero is the  *)
(* outermost one, and none finds it there after a failure.                   *)
LevelCountsScopes ==
  /\ bulk_level > 0 => \E t \in Thread : Holds(t)
  /\ \A t \in Thread : Holds(t) => bulk_level = Len(scopes[t]) + left[t]

(* The mode and the thread id that goes with it name the scopes: no nested   *)
(* scope changes the mode under an outer one, no id outlives its scopes      *)
(* unless they were left.                                                    *)
ModeNamesScopes ==
  /\ bulk_mode = "none" <=> bulk_level = 0
  /\ \A t \in Thread : \A i \in 1 .. Len(scopes[t]) : scopes[t][i] = bulk_mode
  /\ \A t \in Thread : bulk_read_thread_id = t  <=> bulk_mode = "read"  /\ Holds(t)
  /\ \A t \in Thread : bulk_write_thread_id = t <=> bulk_mode = "write" /\ Holds(t)

(* From the first bulk scope to the last, except while pause sleeps, this    *)
(* process has the header lock and other processes are kept out; for good    *)
(* when a scope has been left.                                               *)
HeaderHeldInBulk ==
  bulk_level > 0 /\ ~is_in_bulk_pause => header_lock = "us"

(* Whenever the header lock is not ours, the caches hold nothing that the    *)
(* files lack: another process that takes the lock reads what was written,   *)
(* also after failed commits and rollbacks.  An open that throws may leave   *)
(* the count of opens wrong, for good: one too high when open_store has      *)
(* counted, one too low after a pause that does not get the header lock.     *)
FlushedBeforeRelease ==
  failed_opens = 0 /\ header_lock # "us" => caches = "clean"

(* The shared variables implement one exclusive, recursive lock.             *)
BulkOwner == IF \E t \in Thread : Holds(t)
               THEN CHOOSE t \in Thread : Holds(t)
               ELSE NoThread

BulkLock == INSTANCE OdsBulkLock
              WITH owner <- BulkOwner, purpose <- bulk_mode, depth <- bulk_level,
                   lost <- IF BulkOwner = NoThread THEN 0 ELSE left[BulkOwner]

(* Constructors acquire that lock, failed ones do not; destructors release   *)
(* it, except in a bad state, when it stays with its thread whatever comes,  *)
(* a new instance included; and a commit or rollback that fails may take it  *)
(* for good.                                                                 *)
ImplementsBulkLock == BulkLock!Spec

(* src/ods.cpp:6968 and 3456: an object is never stored or destroyed while   *)
(* the database is bulk locked for dumping or reading.                       *)
MutatesOnlyWhenPermitted ==
  [][content' # content => bulk_mode \notin {"dump", "read"}]_vars

=============================================================================
