# A TLA+ model of CIYAM's storage, caches and transfers

CIYAM is an application platform: a server with one thread per session, an
object database of its own (ODS), an SQL database for application records,
a files area that peers fill from one another, and tools and a web interface
on top. These modules specify the parts that everything else stands on and
that are hardest to test: the object database as the sessions of one process
use it, the lock that lets one thread work in bulk, the cache under its files
and its recovery after a crash; the operation locks under which sessions change
application records; how a file is put into the files area; and how the
sessions of a server share the work of fetching files from a peer.

Paths are relative to the repository; `ods.cpp`, `ciyam_base.cpp` and the other
sources named below are in `src/src/`.

## 1. The system

| part | state | operations | interacts with |
|---|---|---|---|
| ODS bulk locks (`ods.cpp`) | bulk mode, level, owner thread ids, pause flag, reference count of the open store, the `fcntl` lock on the header file | `bulk_dump`, `bulk_read`, `bulk_write` (scope objects), `pause` | every mutating call tests the mode; the header lock keeps other processes out |
| ODS store (`ods.cpp`, `ods.h`) | header (totals, free list, ids), index entries, data file behind a page cache; per session the transaction levels, operations and data | `<<` (create, revive, update), `>>`, `destroy`, `get_size`, `transaction_start/commit/rollback` | one `rp_impl_lock` per process; sessions have an `ods` copy each |
| ODS log and recovery (`ods.cpp`) | transaction log with its entries and items, log info, good point in the header | append entry, append item, commit an entry, restore, `rollback_dead_transactions` | every write and the ends of transactions append; runs when a store that was not closed is opened |
| ODS between processes (`ods.cpp`) | per-process caches, transform ids in the header file | refresh, flush | file locks |
| Region cache (`cache.h`) | slots of items, their used, changed and unchanged lists, copies of the last items read and written | get, put, flush, clear, clear_from | under the ODS buffers: index, data, and what transactions have pending |
| Operation locks (`ciyam_base.cpp`) | lock table, lock index, duplicates, next handle | obtain, transform, release, release for owner / commit / rollback, mark for a transaction | `lock_mutex`; transaction ids and levels of the session's ods copy |
| Instance operations (`ciyam_base_ops.cpp`, `class_base.cpp`) | the operation, lock handle and flags of each class object | `begin_instance_op`, `finish_instance_op`, cancel; triggers that call them again | operation locks, transactions, SQL |
| Record cache, session registry (`ciyam_base.cpp`) | cached records; sessions, condemned sessions | fetch, clear; connect, condemn, end | commits remove cached records |
| ODS file system, B-trees | nodes stored as ODS objects | add, move, remove | ODS store |
| Files area and transfer (`ciyam_files.cpp`, `sockets.cpp`, `ciyam_client.cpp`, `udp_stream*.cpp`) | files by hash, tags; per session a buffer and the chunks that came by datagram | put, get, tag | a TCP line protocol helped by UDP datagrams, a thread that collects them |
| Peer sessions (`peer_session.cpp`, `ciyam_base.cpp`) | per session the hashes to get and put, condemned and captured marks | connect, start support, take, process lists and blobs, set the zenith, terminate | one session table under `g_session_mutex`; the peer's sessions |
| Channels, notifier, variables | accounts, watch flags, named values | protocol commands | ODS file system |
| Cryptography, sockets, tools, web interface | none that is shared | | |

The hard behaviours are these. Sessions are threads; ODS calls hold the
implementation lock only in sections, and pages move with no lock held between
them. Transactions nest and are rolled back level by level. A commit gives the
tail of the data file back. Bulk scopes nest, change mode and pause. Operation
locks outlive their operations in a transaction, as "dead" locks, and waiting
for one is a bounded retry. Failures unwind through `catch` clauses and
destructors that release locks. A crash can happen anywhere, with pages written
in any order, and again during the repair; other processes may share the files.
The cache hands out copies of items that it may drop meanwhile. Datagrams are lost,
repeated and late, and a client that gives up waiting uses the connection on which the
server still works. Sessions of one peer pass hashes to each other and
end at any time, and one waits for the others.

What makes each part correct:

- *bulk locks*: one owner at a time; level and mode describe its scopes, and those that
  failures leave behind; the header stays locked while a scope is open and not paused, and
  nothing unflushed is left when it is unlocked; calls respect the mode;
- *store*: it behaves as a map of objects with one stack of uncommitted overlays
  per session; no two objects overlap; freed entries are never lost or
  handed out twice; logged operations name the right data; reads see one
  version; the implementation lock is always given back;
- *operation locks*: incompatible locks are never held together; what a
  transaction changed stays locked until it ends; no record is stored over a
  newer one; nobody waits for ever;
- *recovery*: after a crash the store holds what the committed transactions made of
  it, and it is a sound store, also after a crash in the repair;
- *region cache*: callers see pages, as if there was no cache; nothing put is lost;
- *file transfer*: a file is stored whole or not, the client is told which, and the
  two ends agree on where the next command begins, as long as neither has given up on the other;
- *peer sessions*: a block becomes the zenith only with all of its files; no
  file is forgotten when a session ends; condemned sessions end.

`PROJECT.json` has the full list of components, with those that are not
modelled and why, and of hazards with the line where each one bites.

## 2. The modules

| module | models | role |
|---|---|---|
| `OdsBulk` | `bulk_*` of `ods.cpp`, 5072-5208 and the scope classes at 4733-4948 | component |
| `OdsBulkLock` | nothing: what a caller may rely on | abstract specification of `OdsBulk` |
| `OdsBulkProofs` | | theorems about `OdsBulk` |
| `OdsStore` | `<<`, `>>`, `destroy` and the transactions of `ods.cpp` | component |
| `OdsObjects` | nothing: a map of objects with overlays | abstract specification of `OdsStore` |
| `OdsStoreObjects` | | refinement mapping from `OdsStore` to `OdsObjects`, and `ReadsView` |
| `OdsStoreProofs` | | theorems about `OdsStore` |
| `OdsObjectsProofs` | | `OdsStore` implements `OdsObjects`, and reads give what that shows |
| `OdsRecovery` | the same store on its files: header, pages, log, crash and restore | component |
| `OdsRecoveryProofs` | | a repair of `OdsRecovery` goes forward |
| `RegionCache` | `cache_base` of `cache.h` | component |
| `Pages` | nothing: pages that hold what was last put there | abstract specification of `RegionCache` |
| `RegionCacheProofs` | | theorems about `RegionCache`, which implements `Pages` |
| `OpLocks` | `storage_handler`'s locks, `begin_instance_op`, `finish_instance_op`, session transactions | component |
| `OpLocksProofs` | | theorems about `OpLocks`: locks exclude each other, and for careful clients what is written stays locked |
| `FileTransfer` | `file_transfer` of `sockets.cpp`, `store_file`, the client's put and the UDP streams | composition of client, session, collector thread and networks |
| `FilePut` | nothing: puts that store their file or not, and say which, and what is open when an answer is missing | abstract specification of `FileTransfer` |
| `PeerSessions` | the session table and the work of a peer's sessions | component |
| `FileTransferProofs` | | theorems about `FileTransfer`, which implements `FilePut` |
| `PeerSessionsProofs` | | theorems about `PeerSessions` |
| `MCOdsBulk`, `MCOdsStore`, `MCOdsRecovery`, `MCRegionCache`, `MCOpLocks`, `MCFileTransfer`, `MCPeerSessions` | | instances for TLC: values of constants, symmetry sets |

Definitions marked "A faulty ..." are deliberate bugs, used to see that each
property can be broken by the code going wrong. They are not part of any
specification.

### OdsBulk

`scopes[t]` is the stack of live scope objects of a thread; the other variables
are the shared fields of the same names, the `fcntl` lock on the header file
(`free`, `us`, `other`), and whether the caches hold changes that the files lack
(`caches`). `BulkDump`, `BulkRead` and `BulkWrite` are the constructors,
`EndBulk` the destructors, innermost first. A pause is three steps (close and
sleep, reopen, or throw). The check of the mode by a mutating call (`BulkOperationNoneOrWrite`)
and the mutation (`Mutate`) are two steps, because the code makes the first before it has the lock.

Two kinds of failure leave something behind.

- `open_store` counts before it reads the header and the version (5029, 5060). When it throws, or when
  `bulk_operation_open` finds writers in the header, the header is unlocked and the count stays
  (`BulkOperationOpenFails`, as a failing constructor in `BulkFails`, at the end of a pause in `PauseThrow`, in a
  `file_scope` in `OpenThrows`). A pause that does not get the header lock leaves the count one too
  low, and the pause flag is set after either. Closes then no longer flush, or do so too early.
  `failed_opens` counts these, and `MaxFailedOpens` bounds them.
- A commit or rollback that throws (`OperationFails`) puts its ods instance into a bad state, by
  `okay_failsafe`: `okay` is a flag of an instance, which one or several threads use (`InstanceOf`). In a bad
  state nothing can be begun, and `EndBulk` does nothing but end the object (4783, 4857, 4936), so that
  level, mode, id and header lock stay. `left[t]` counts these. Outside of bulk scopes a commit has
  a scope of its own, and is left with it if `transaction_completed` throws. `NewInstance`
  is the copy that the next storage session makes: it is well, but what was left stays with the thread.

The abstract lock, `OdsBulkLock`, has an owner, a purpose and a depth. A release may be lost (`Abandon`), and a
failing operation may take the lock for good (`AcquireForGood`); `lost` is how much of the depth nobody will release.

### OdsStore

A section with `rp_impl_lock` held is one action. A commit or rollback keeps
the lock over many steps, one per logged operation (`CommitBegin`, `CommitOp`,
`CommitEnd`, and the same for rollbacks), because readers and writers go on
moving pages meanwhile. `pc` says what each session is inside of. `index` has
the fields of `ods_index_entry` that control depends on; `levels` and `ops` are the
transaction buffer and the operations file; `data` and `trans_data` are the two
data files cell by cell; `page_copy` is the private page buffer of a session.
`read[s].outdated` is a ghost, set when the object being read is committed anew or freed. That the
entry is the same at the end as at the beginning of the read would not do: the rollback of a destroy leaves the
transaction's id on the entry, so an object destroyed, undone, revived and stored again in one
transaction can have an equal one.

A write fills all cells of its object with one value. This is enough to
tell versions apart and to see a torn read or a lost cell. Entry numbers in
`index_free_list` are shifted by one, as in the code, so that 0 ends the list.
The transaction log file is left out here: the log entries that are written change
nothing that a running process reads back. `OdsRecovery` has it.

`OdsObjects` has two variables: the committed objects, and one overlay for each
transaction level of each session. `Set` changes the innermost overlay (or the
committed object, for plain calls), `Commit` folds it outwards, `Rollback` drops
it. Under the mapping a commit of `OdsStore` takes effect at `CommitBegin`: the
entries that it has not come to yet stand for their last operation.

### OpLocks

`locks` maps a handle to its lock and stands for both `locks` and `lock_index`.
Keys are numbers in the order in which the table is scanned, and 0 is the empty
instance, that is the whole class. `request` is a caller inside the retry loop
of `obtain_lock`. `op[s][o]` is the operation of class object `o` of session `s`,
with the phases of the two calls: *beginning* (the lock is had; cascade
locks and checks follow), *begun*, *storing* (the `for_` triggers may run
other operations), *stored* (the `after_` triggers may). `finishing[s]` is the stack
of finish calls, since triggers call in again. `written[s]` is a ghost variable:
the instances that the open transaction changed. `stale` is a ghost field: another
session changed the instance since the operation began.

A released lock of a transaction has type `None` and keeps its `tx_type`;
`Clash` is the condition of the scan; `Duplicates` are the locks the scan
removes. `transform_lock` holds the mutex through its retries, which
therefore all see one table and are one action.

Three CONSTANTS are switches for what the environment does: `ScanAcross`
(class-wide requests while locks of one session on different instances are
dead), `ForcedInTx` (a destroy, with its forced release, on an object whose
transaction still has locks) and, in `OdsStore`, `StaleIds` (callers that use
the id of an object that is gone). Each is FALSE in the passing runs. They state
the conditions under which the code keeps its promises: with `ScanAcross` or
`ForcedInTx` set TLC violates `WrittenStayLocked`, with `StaleIds` it violates
`FreeListLinks`.

### OdsRecovery

`mem` is what the process sees (header, index entries, data), `disk` what the three
files hold, `log` and `info` the transaction log. `EvictIndex` and `EvictData`
write any page at any time, as the region caches may; the header is written only where
the code calls `write_header_file_info`, and `Flush` and `Close` are the two halves of
`close_store`, which moves the good point in the log. A step ends where the code
writes the log or the header or closes the store, so a crash can fall between any two of
these. `Crash` keeps `disk`, `log` and `info`; `Reopen` tests `is_corrupt`, and `RestoreEntry`,
`RestoreInfo` and `RestoreHeader` are the repair, entry by entry: a committed entry is
redone item by item (`RestoreItem`), one that was not is undone by giving its new
objects to the free list. `committed` is a ghost: the objects as the committed
transactions left them, with which `RecoversCommitted` compares the store.

Not every crash is recovered from. `window` holds the windows that are open now in which
a crash does harm, and `CrashIn` names those in which one may happen. It is
empty in the run `recovery`, so that run says: outside these windows recovery
works, for two objects that share a page of the index and two crashes one after the other, each with a repair
that may itself be interrupted. With more objects and pages it
does not always, as section 3 says.

| window | where | what happens |
|---|---|---|
| `flush` | `ods.cpp:5781` | between the header of a completed transaction that freed an entry and the flush at the close: the entry is linked to itself (run `recovery_flush`) |
| `write`, `destroy` | 7161-7197, 3513-3547 | inside a write or destroy outside transactions, whose old contents are not logged |
| `inner` | 5704-5738 | after an inner rollback in a bulk write, until the store is closed |
| `repair` | 6720-6790 | between the writes of the log's info and of the header at the end of a repair |
| `links` | 5895-5906 | while the last entry names an earlier one: if it is not committed, the next repair skips its items (6401) |

The last needs a repair before it. `append_log_entry` makes a new entry of a copy of the last one and clears
only what says that it is committed (`Inherited`). After a repair that set the end of the log back, the last
entry still names the one behind it, so the new one may name itself or one before it. Where `restore_from_transaction_log`
comes to such a link it tells the end of the log by `next_offs == last_offs` (`EndsLog`), or takes the entry to be empty
(`ItemsRead`). A later entry puts the link right (5938).

Also outside the run are a log without any entry (`FreshLog`, 5240 and 6380: the first
entry is at the offset that also means "none") and three levels of nesting
(`num_at_height`, 6418-6452). Each of these and of the windows can be switched on by its constant and
makes TLC violate `RecoversCommitted` or `FreeListReachesAll`. Where a repair has set the end of the log
back to before its last entry (6751), the code goes on to write over that entry; `RoomInLog` ends the
behaviour there.

### RegionCache

Every public call of `cache_base` holds its lock, so each is one action (`Get`, `Put`,
`Flush`, `Reload`, `ClearFrom`). `cache.slots` are the regions in the cache, with items
and the most and least recent of the three lists as offsets; `read` and `write` are
the two temporary copies. `Reload` is `clear` as `open_store` uses it after another
process changed the file; `ClearFrom` is what the end of a transaction does to pages that are given up.
The counters of items and regions, which age by halving, decide only which of several
candidates gives way: `Rooms` allows any of them. An item that is null when it is dereferenced ends the
process (`halted`), which is why the runs of this module do not check deadlock.
`Pages` says what callers see: `Get`, `Put`, `Flush`, `Reload` and `DropFrom` of pages, with what the file
holds for each. `MaxCost` bounds `flush_cost`: a put with `prevent_lazy` clears the changed mark of an item
without taking it off the cost (`cache.h:509`), so that it grows by one each time.

### FileTransfer

`client` and `server` are the two ends with their program counters (`phase`), `toServer` and
`toClient` the lines of the TCP connection, in order. `dgrams` are the datagrams sent so far,
which `Deliver` may hand over in any order, any number of times, and in a later put:
this is how loss, delay and repetition are modelled. `chunks` is what the collecting
thread has stored for the session; `Wanted` and `TakeChunk` are the rules by which the
receiver takes a chunk or leaves it. Bytes carry the file and position they come
from, so `ReceivedIsFile` can say that the buffer is right. A line of base64 is its bytes; only the
put direction is modelled. A reader takes lines until the size it was told, the sender until its
stream ends: `AllReceived` and `SendLine` keep these two rules apart.

A timeout may fire whenever there is nothing to read, be the other end dead, slow or at work. The client's
(`ReplyLost`, `sockets.cpp:1118`, 1212) are caught in `ciyam_client.cpp:1463`: the put has failed, and the next one
uses the same connection. The one that waits for the response of a finished transfer ends the client
(`ResponseLost`). The session's (`LineLost`, 1263, 1439) end its command with an error, and it reads its next
command. After one of these the two are out of step: the session may take the lines of one put
for a command (`ReadGarbage`; a line of data has no end, so it runs into the command that follows) or for lines of another
(`ReceiveMixed`), and the client replies to one put for those of the next. `intime` is a history variable: no end
has given up on a live one. What is claimed only while it holds: `InStep`, `ReceivedIsFile`, `ReportsStored`, and in `FilePut` (as
`sure`) that what the client is told is right. `ReceivedIsFile` is false after two timeouts, when a late offset
tells the client how much the session has of another file; the hash then keeps the content out. What is claimed always: a file
is stored whole and only if it was put, and puts and commands end.

### PeerSessions

`phase`, `support`, `captured` and `condemned` are the session table; `queue` is
`file_hashes_to_get` of each session. Each call into `ciyam_base.cpp` under
`g_session_mutex` is a step, and so is what a session does between two of them. A session takes the
hash at the front of its deque, or some of a supporter's (`Taken`), fetches the file, goes through a
list (`AddItem`, one item a step, to the least busy supporter) or processes a blob, and pops the
hash: at once, or, for a support session, when it has processed it. `Term` hands the hashes of a
support session over. `Terminate` and `WaitOver` are the end of the main session, which condemns the others and waits. `InitMain`, `Kill`,
`Bye`, `StartSupport` and `Shutdown` are the environment's; `MaxEvents` bounds them together.
`lost` and `alone` are ghosts: hashes whose processing threw, and main sessions that never had
another main session beside them; a second main session condemns the first and takes nothing over from it.

## 3. The runs

| run | instance and bounds | shows |
|---|---|---|
| `bulk` | 3 threads, two of them on one instance, 3 levels, 2 failed opens; any operation may fail | one owner, header held, flushing; implements `OdsBulkLock` |
| `store_extents` | 1 session, sizes 1-2, pages of 2, 3 entries, 3 operations, 2 levels | extents disjoint, free list sound and complete, entries, operations and data name each other |
| `store_objects` | a plain writer and a reader, both with transactions; sizes 1-2 on pages of 1, 2 entries, 2 operations, 2 levels | types, writers' locks, reads see the view, implements `OdsObjects`; the implementation lock is given back (liveness) |
| `locks` | 2 sessions, 1 object each, 2 instances; create, update, review and destroy with cascades; 3 handles, 3 transaction ids | types, what is written stays locked, no store over a newer record |
| `locks_keyed` | 2 sessions, 2 objects each, 2 instances; updates in triggers, link and review locks by key and by class, transforms; 2 levels, 2 attempts | no incompatible locks, no instance changed by two open transactions; waiting ends (liveness) |
| `file_transfer` | 3 files of 1, 5 and 6 bytes, one of which may be there already, lines of 4, packets of 3, 2 puts | the buffer is the file, ends in step, implements `FilePut`; puts end (liveness) |
| `recovery` | 1 session, 2 entries, 2 operations, 2 levels, 3 log entries, 2 crashes and one more in a repair | recovers what was committed, free list and extents sound after it, and a repair goes forward (action property) |
| `cache` | 3 pages in 2 regions, 2 values, 1 or 2 slots, 2 items | nothing lost, counts agree, implements `Pages` |
| `peers` | 3 slots, a tree of 2 lists and 2 files, 3 events | hash in work at the front, none forgotten, zenith with all files; all settles (liveness) |

Bounds and why they are enough. Two sessions are enough for every conflict
the store and the locks decide, because each check compares the caller with one lock, entry
or owner; three threads are used for the bulk lock, where a third could
slip in between two, and two of them share an instance, so that one meets the other's bad state. Two levels distinguish inner from outermost commits and
rollbacks, the only distinction the store makes. Three entries in `store_extents` make
runs of deleted objects at the tail, with a live object below them, and a free
list of more than one link. Two pages of one cell, or one page of two cells, make
the two cases of a write: over several pages, and beside a neighbour. In
`store_objects` there is one value, and versions of an object differ in size.
`MaxData` is the most that the transactions of a behaviour can store, so the data
file never runs out: the assumption `StoreAssumption` relates it to the other
bounds. `MaxAttempts` is 2 where the code has 20: the first attempt and the
last are the ones that differ. `MaxHandles` and `MaxTran` (one more than the number of
transaction ids) bound how many locks and transactions a behaviour has.

In `recovery` the store starts with one object and a log with one entry, so that with 3 entries two
transactions follow it; a page of the index has two entries, and the good point can lie
before, between and after them; with two crashes a repair reads what the one before it left in the log. Two files of two packets, both of more than one line, and one
that is sent in the header line cover the ways of a put; one of the files may be in the files area
from the beginning, as `Before` says; two puts make stale datagrams, and let what a timeout left under way meet
the next put. The sizes
are those for which the sender's and the receiver's rules agree, which the boundary run is about.
Three pages with two items in the cache make each put retire something, with one slot or
two; two regions make slots change hands. `peers` has a main session with two supporters, or two
main sessions with one; the tree has a list below the root, so that lists are gone through
by both kinds of session, and two blobs, so that a deque can be taken from. Three slots keep the
table from being full for the main sessions that the bounds allow; a full table is only
met by a late supporter.

The two threads that share an instance are symmetric in `bulk`, sessions in `locks`, values in `cache`; instances of `OpLocks` are not, as the lock table
is ordered. Runs with liveness use no symmetry. Deadlock is checked in every run but those of
`RegionCache`; `Quiescent` is the step of a system that waits for callers.

### Disagreements

Three runs expect a violation. Each is a behaviour of the code that contradicts a
comment or an assertion of the repository.

| run | what happens | contradicts |
|---|---|---|
| `file_transfer_boundary` | what is left to send fills its last line exactly: `sockets.cpp:1207` sees no end of file, and a stored file is reported as failed | `sockets.cpp:1223`, the sender's assertion on replies |
| `recovery_flush` | a crash between the header and the flush of a completed transaction; the redo links a freed entry to itself | `ods.cpp:6377` |
| `cache_null_head` | a copy of an item comes back with links to items that are gone, and one of these becomes the head of a list | `cache.h:44` |

These further disagreements are not runs, but properties of the modules or values of constants that
TLC refutes when they are put into the run named.

| module, run | what to change | what happens |
|---|---|---|
| `OdsBulk`, `bulk` | check `MutatesOnlyWhenPermitted` | the bulk mode changes between the check (`ods.cpp:6967`) and the mutation |
| `OdsStore`, `store_objects` | `PageSize = 2`, check `NoTornRead` | a commit writes in place between two pages of a read; refused outside transactions (7023) |
| `OdsStore`, `store_objects` | `PageSize = 2` | `ImplementsObjects`: a write of part of a page goes through a private copy of the page (7486), and a neighbour's update is lost |
| `OdsStore`, `store_extents` | `Size = {0, 1}` | `ExtentsDisjoint`: an object of size 0 at the tail lets live data be cut off, against `docs/object_data_storage.md:44` |
| `OdsRecovery`, `recovery` | `PageEntries = 1`, four objects of size 1 in `Objects0`, `MaxEntries` and `MaxData = 4`, `MaxOps = 3`, `MaxLevel = 1`, `MaxLog = 2`, `MaxAgain = 0`, `Plain = FALSE` | `ExtentsDisjoint`: a page with an entry that the commit has freed is written, and after a crash the redo takes its free list link for the position of its data and gives back the bytes of a live object (`ods.cpp:6625`), against `ods.cpp:6377`; with `MaxLog = 3` the object is then overwritten (`RecoversCommitted`) |
| `OdsRecovery`, `recovery` | `CrashIn = {"links"}` | `RecoversCommitted`: after a repair the first transaction has an entry that names an earlier one; a second crash leaves it uncommitted, and the repair undoes nothing of it (`ods.cpp:5906`, 6401), against `ods.cpp:6377` |
| `OdsRecovery`, `recovery` | `CrashIn = {"links", "repair"}`, `Value = {1}`, `MaxOps = 1`, `MaxLevel = 1`, `MaxLog = 4`, `MaxCrashes = 4`, `MaxAgain = 0`, `Plain = FALSE` | `RestoreAdvances`: an entry at the good point names itself, and the repair reads it for ever (6724) |
| `OpLocks`, `locks` | `ScanAcross = TRUE` and `KeyedTypes = {2}` (`KeyedLock`, here of the whole class) | `WrittenStayLocked`: another instance's dead lock is removed as a duplicate, against `ciyam_base.cpp:1491` |
| `OpLocks`, `locks` | check `ReviewIsStable` | a commit takes the review lock of an operation in progress, against `docs/main_class_functions.md:210` |
| `FileTransfer`, `file_transfer` | without `intime` in `InStep` or `ReceivedIsFile` | after a timeout the client is at its prompt and the session in the put, whose buffer may later get bytes from a wrong offset |
| `FileTransfer`, `file_transfer` | check `ClosedOnlyIfUnused` | the client stops using UDP after any file that was appended to its header or skipped, against `ciyam_client.cpp:1432` |

The torn read and the lost neighbour depend on two sessions of one process that work on the same
store outside bulk scopes; the application server takes a `bulk_write` around
most of its calls, and `OdsBulk` shows what this gives.

### Fairness

`OdsStore` assumes weak fairness of `HolderStep(s)`: the thread inside a commit
or a rollback keeps running. It never waits there for anything but the
processor. Nothing else is fair: callers may stop calling, and which thread gets
the mutex next is open. `OpLocks` assumes weak fairness of `Retry(s)`: a thread
asleep between two attempts wakes up, as `msleep` returns. `FileTransfer` assumes weak
fairness of the steps of the client and of the session: each end goes on when it has a line, a chunk or a
timeout; delivery of datagrams is not fair, and an end may die. `PeerSessions` assumes the
least there is: as long as some thread of the server can take a step, some thread does (one weak
fairness of all steps together, with the peer's answers, which come or time out). `OdsBulk`,
`OdsRecovery` and `RegionCache` have no liveness: a scope may stay open for ever, and a
server need not be started again. That a repair goes forward is an action property.

## 4. The proofs

All proofs are for arbitrary constants that satisfy the modules' assumptions.

*OdsBulkProofs.* `BulkTyped` and `LockCorrect`: type correctness, one owner, level and mode, by one
invariant that describes the shared fields as a function of the scopes of the only thread that has any, or has
left any. A thread that has left some keeps the level above zero, so no destructor of its later
scopes resets the mode. `HeaderHeld`: the header lock belongs to us when the level is not zero
outside a pause, from the same invariant. `Flushed`: as long as no open has failed
after it counted and no pause for want of the header lock, nothing is unflushed when
the header is not ours, also in a bad state; the invariant counts how often the
store is open. After such a failure it can be, since the count is
then wrong for good and `close_store` does not flush. `Refinement`: every step of `OdsBulk` is a step
of `OdsBulkLock` or leaves its variables alone: a destructor releases the lock, or in a bad state abandons it.

*OdsStoreProofs.* The inductive invariant `StoreInv` has three parts.

- `SessionInv`: types of the sessions' state, and `Tile(s)`: the transaction levels of
  a session lie end to end over its operations and data, also while a level
  is being committed or undone. Without it the position that a store computes
  from the innermost level cannot be related to the total that it writes at.
- `IndexInv`: the header and index are typed; `LockInv`, which ties every locked entry
  to exactly one plain writer that holds a copy of it; and `FreeListLinks`.
  These support each other: reviving the head is safe because it is free, so not
  locked; an undo does not touch a locked entry because a locked entry has no
  transaction mark.
- `StoredWhereLogged`, the property itself, which `Tile` makes inductive.

There is one lemma per action (`CreateKeeps`, `CommitOpKeeps`, ...), on lemmas for
the three ways an action changes the free list (`ListUntouched`, `HeadAdded`,
`HeadTaken`) and the locks (`LocksUntouched`, `LockTaken`, `LockLeft`). From
`Invariant` follow `TypeCorrect`, `FreeListSound`, `FreeListComplete`, `WritersLocked` and `StoresLogged`.
All assume `~StaleIds`; with stale ids `FreeListLinks` is false.

`FreeListComplete` says that no freed entry is lost. The links alone do not give it, since
a free entry that links to itself, or a second cycle, has sound links too. So the invariant has
`FreeListWhole`: there is a path of numbers that begins at the head, follows the links, has each
free entry once and ends with 0; freeing puts an entry in front of the path, and reviving takes the
first one off. That the property's recursive `link` is this path for every number is shown by a
least counterexample, as is everything in these modules that would be an induction.

`LastOpNamed`: an entry's mark names the last operation its transaction logged for it. It
has an invariant of its own, `MarkInv`, over `StoreInv`:

- `OneHolder` and `OwnIds`: one session commits or undoes at a time, and ids of open transactions differ;
- `MarksNamed`, the property, and `Unnamed`, since an entry without a mark must not keep a number
  that the next operation would take over as its predecessor;
- `OpsMarked`: the entry of an operation not yet dealt with is marked for its transaction,
  or a commit has dealt with a later one of the same entry. Without it an undo could clear a mark that
  another transaction set;
- `OpsLinked`: what an operation kept of the mark is the operation before it on the same entry.
  An undo puts this back, and `MarksNamed` holds again.

`ExtentsNeverShared`: live objects share no byte of the data. It assumes beside `~StaleIds` that no object
is empty (`0 \notin Size`): an empty object in a run of deleted ones is not compared with what a commit
gives back (`ods.cpp:5432-5441`), and the property is then false (section 3). `ExtentInv`, over the other two, has

- `ExtentsApart`, the property with each extent inside the data;
- `FreeEmpty`: a revived entry has no extent, so a store gets a new one;
- `UpdatesFit`: an update in a transaction is logged while the object is as large, and is
  written at commit after other operations; it still fits, as no operation shrinks an entry in between;
- `DeletesApart`: the bytes that a commit may cut off, when the object it deletes is the last in the file,
  are those of the objects that it deleted just before, and nothing lies in them any more.

TLC was used to find that these invariants hold on both store configurations, with `Size = {1, 2}`, before they were proved.

*OdsObjectsProofs.* `ObjectsImplemented`: `OdsStore` implements `OdsObjects`. A commit takes effect for the
objects at its first step, while the entries it has still to process stand for what their last
operation stored; every other step of a commit, and every page of a plain write, is invisible. It assumes

- `~StaleIds` and `0 \notin Size`, as above;
- `WholePages`: a page has one cell, or only one session exists, or nobody writes outside a transaction. A plain
  write goes through a private copy of each page, with a neighbour's cells as they were, so without it
  the refinement is false (TLC finds the lost update with `PageSize = 2`, section 3).

The invariant `AllInv` puts `CellInv` (at the end of `OdsStoreProofs`) on top of the other three there:

- `OrderOK`: the cells that a transaction's operations stored lie one behind the other, also across levels and
  while one is undone, so that a store overwrites none of them (`InOrder`);
- `RoomLeft`: a transaction fills `MaxTransData` cells of the data file at most, counted by the ids
  that have ended, so an append at commit stays inside the file. This is what justifies the bound `MaxData`;
- `WritersOK`: the page that a plain writer holds is the cache's with its own cells changed, and the
  pages before it have been put back;
- `CellsOK`: the cells have their types.

An entry stands for its object in one of four ways (`EntryCases`): settled, being written, marked by an open transaction, or
not processed yet by a commit. The proof shows for each action which entries change their case,
that all others stand for what they did (`SameObjects`), and that the layers of a session's
transactions change as the action of `OdsObjects` says (`OverlayOf`, from `Tile`). That the
last operation of a session on an object is what its layers show (`ViewLast`) and that a rolled back entry
is as its session found it (`UndoneEntry`) rest on `MarkInv`.

In the same module, `ReadsShown`: a read gives what the session may see (`ReadsView`), under the assumptions of `ObjectsImplemented`. The invariant `ReadInv`
says of each read from the data file that is not `outdated` that its entry is in use, unlocked and still has
the extent that was read from, that the cells read are those in the file, and that the session has no operation on the
object. A step that moves the entry (`EntryMoves`) is then one of another transaction that keeps the
extent, or an undo of one, or it makes the read outdated; a store is refused by `found_instance_currently_reading`.
An entry marked by the reader's own transaction is moved by nobody (`MarkedEntry`), so a read of what it stored itself
needs no such condition. `IdsApart` is stronger than `OwnIds`: a session keeps the id of its last transaction, and were
that the id of somebody's open one, it would read uncommitted data as its own.

*OdsRecoveryProofs.* `RestoreForward`: a repair comes to the last entry of the log and ends there, goes
forward on the way, and leaves no entry out from the first that it restores (`RestoreAdvances`). A
repair that finds the last entries uncommitted leaves them in the log, with what they name, and sets `log_info`
back, so that the next entry is written over them or behind them and, being a copy of the last one, names what
that named. Entries that are no longer read may thus name anything, and the last one itself or an earlier one.
`RepairInv` says which links can be relied on:

- `ChainInv`: there is a set of entries, from the first to the last of `log_info`, in which each but the last names
  the next, none is passed over, and behind the good point of the header no number is left out (`Live`). What a repair is
  reading, and the last committed entry that it came by, are in this set (`WalkInv`);
- `LogInv`: a link is the number of an entry or 0, and the first entry is committed;
- `InfoInv`: the next entry goes behind the last one and behind the good point, and a last entry that names a later
  one, left there by a repair, is committed. So an uncommitted last entry is never a copy with a link ahead;
- `DirtyInv`, `DownInv`: when the process is down, the last entry does not lead back if it is behind the good
  point, and neither if the header counts a writer or a transaction. Otherwise a repair that starts for
  the count alone would follow such a link round;
- `HeaderInv`, `SessionInv`: why the header counts somebody just as long as it does: the
  session is counted as a writer from its first change to the close, which also moves the good point, and a transaction
  is counted only when its entry is behind the good point;
- `RestoredInv`: what the end of a repair will write to the header is what it wrote to `log_info`.

It holds for any number of crashes, in any of the windows of `CrashIn` but `links`, with which it is false (section 3). It
assumes `~FreshLog`, that the log has an entry, as it has from the first
transaction on: the entry is committed, so a repair always finds a last one. Without it TLC finds `RestoreAdvances`
violated after a second crash, with an empty store. TLC checked the invariant with three
and four crashes in those windows before it was proved.

*OpLocksProofs.* `LocksTyped` and `LocksExclude`: the lock table is well typed, and no two
incompatible locks are ever held together. The inductive invariant `LockInv` adds
`HandleInv`: the lock that an operation in progress names, if the table still has it, belongs to its object and
keeps the operation's type until the record is stored. It is needed because a
failed or finished call releases the lock by its handle alone, and without it
that could touch another session's. Every action does one of three things to the table: it grants a
lock after a scan that found no clash (`ScanCoexists`), it transforms a lock after
the same scan, or it only narrows the table (`Narrowed`: locks are removed or
weakened), which cannot create a conflict. Both theorems hold for all values of the switches `ScanAcross`,
`ForcedInTx` and `Cascades`.

`WrittenKept`, `OverwritesExcluded` and `StoredOverFetched`: what an open transaction
has written stays locked, so no other open transaction changes it, and nothing is stored over a
record that changed after its operation fetched it. They assume `CarefulClients`, that is the switches
`ScanAcross` and `ForcedInTx` off (with either on, TLC finds the lock gone) and no `link` locks by
key, since such a lock waits and may scan the class after others have died. The run
`locks_keyed` has link locks and is outside the assumption, so there `NoDirtyOverwrite` is only checked.
The inductive invariant `KeptInv`, beside `LockInv`, has five parts:

- `WrittenCovered`: each written instance has a lock of the session whose `tx_type` is at least
  an update and that is `Safe`, so no beginning operation can force it out and no destroy that may
  still be called off owns it;
- `LevelInv`: a lock of an operation in a transaction keeps a `tx_type` for its type;
- `RequestInv`: who waits for a lock, and that its operation is still the one that asked;
- `OpInv`: the level and the type of the locks of an operation in progress and of its cascade, and that
  an operation in progress is stale only when its lock has gone;
- `FinishInv`: the operations being finished are nested, and one that started the
  transaction itself is the outermost, so that its commit or rollback ends all of them.

Staleness and written locks need each other: an operation becomes stale when another session stores
its instance, and `TargetExclusive` says that this cannot be while its lock is in the table, nor
after it has stored, since then a written lock stands for it. When duplicates are removed, the
first of those that cover an instance stays (`CoverKept`).

*PeerSessionsProofs.* `SessionsTyped` and `FrontHeld`: while a session takes hashes from a
supporter's deque, also while the supporter fetches and processes a file between looking at its own
front and popping it, what the supporter pops is what it worked on. The inductive invariant `PeerInv` adds
`AtWork` to the two properties: a session that fetches, or works alone, has not come to its end (the
slot it leaves would keep its marks otherwise), and one that processes a file knows the
file's hash. Hashes that are handed over are appended to deques (`HandOverAppends`), and
a session takes from behind a front and never the front (`TakingFromBehind`, `FullestIsOne`).

`NothingForgotten` and `ZenithComplete`: while a block is fetched by a main session that was alone,
every file that the lists gone through name is stored, or waits, or is worked on, or is still to be looked at; so
the block becomes the zenith only when its tree is complete. Both properties speak of what can be `Reached`, a
recursion over the tree, which no action follows. The invariant `SearchInv` therefore claims a set instead:
`Accounted` says that some set has the root, is closed under the lists gone through, and lies in what is
accounted for. An action only has to show how the set grows by the items of a list, and whatever
is reached lies in every such set (`ReachedWithin`, by the lengths of paths). The other parts say which
session may have what: `OneMain`; `Paced`, what is in hand in each phase; `OnlyBlobs`: support
sessions pass on no lists, so no list is gone through by a session that searches nothing; and
`AllDone`: at the zenith the deques are empty and stay so. `PeerAssumption` states that there are
finitely many lists, for a block is a finite tree.

*FileTransferProofs.* `TransferTyped`, `BufferIsFile` and `EndsInStep`, for any files, sizes, line and
packet lengths and whatever datagrams do. The inductive invariant has a part that holds always and one that holds until an
end gives up on the other (`intime => TransferInv`). The first, `Typed`, is the types; that every datagram and
chunk carries what its number says (`PacketInv`); and that there is a file where one is being put. It takes
the steps of a session that reads lines of another put, in which nothing may lead outside the buffer.
It needs that the largest file that is accepted fits the buffer (`MaxSize <= BufferSize`, `sockets.cpp:1231`). The second says, besides the properties: the receiver's
count of bytes is what its chunk number or its lines give (`ReceiverInv`); the lines that the server
has still to read are those it expects (`LinesInv`); and for each phase of the client, where the server can be and which replies
are on their way (`ClientInv`). The last two need each other: a line is expected only because the
client sends it in a phase that the server has to be ready for. One lemma per action; a step out of step
(`ReadGarbage`, `ReceiveMixed`) cannot be taken while `TransferInv` holds (`NothingMixed`).

`PutImplemented`: `FileTransfer` implements `FilePut` if `NoFullLastLine`, that is, if in no file
a line that begins after some packets and some full lines ends just at the end of the file. Without the
assumption it is false, as the run `file_transfer_boundary` shows. On top of `TransferInv` the proof has
`OutcomeInv`, what is stored and what the client is being told of it, and `GridInv`: the client's positions
are points of that grid, so it never awaits the acknowledgement of the last line, and "okay" is only read as the response.
These too hold until the first timeout. The abstract `pending`, the files that the session may still store, is read off
the lines under way and the session's phase, and each step changes it as `FilePut` allows with or without them: in step a
response comes only when nothing is pending.

*RegionCacheProofs.* `AlwaysTyped`, `AlwaysCounts`, `AlwaysKeeps`, and `RefinesPages`: `RegionCache` implements
`Pages`, for any file, number of slots and number of items. The inductive invariant `CacheInv` says

- `CacheOK`: the slots in use come first and hold different regions, and `num_cached` is the number of
  items in them. A put needs it: when the cache is full it must find an item to retire, and a page must not be
  found in one slot and lie changed in another;
- `SlotInv` of each slot: its links stay inside it and its `flush_cost` is at least the number of its
  changed items. It is counted down once for each changed item that is written or given up, so this bound is what
  keeps it from running below zero;
- `CopyOK`: what the temporary copies of the last items read and written may hold;
- every page that was not given up has one value that is what a read gives, in whichever of the cache, the
  file and the two copies it is found (`Fine`).

Retiring, flushing and clearing are folds over slots and items in the model. What a fold does to
a slot is stated as a relation that holds of every step and can be composed (`SlotFlushed` and others), and
that the fold reaches its end is shown by a least counterexample. Nothing in the argument depends on
*what* the lists of a slot link, so the theorems also hold of the behaviours in which the lists are
corrupted. `NeverHalts`, which does depend on it, is false (run `cache_null_head`).

Only model-checked: the invariants of `OdsRecovery`. `ExtentsDisjoint`, and with it `RecoversCommitted`, does not
hold for all constants (section 3), and all four speak of what the redo of an entry makes of the
store, which is a fold of `RestoreItem` over the items, so an induction over data. Also
`NoDirtyOverwrite` in the run `locks_keyed`, whose link locks are outside `CarefulClients`; and all liveness,
which is out of the prover's reach.

## 5. Not modelled

- *Several processes* with caches of their own on one store: planned, see below.
- *Recovery by other paths*: `rollback_dead_transactions` (stores without a log; it tells created objects
  from changed ones by size 0, 6130), rewinding, truncation of the log, reconstruction from several logs, `move_free_data_to_end`.
- *The get direction of file transfer*, lists as they are put, tags, archives; in the peer sessions
  the deque of hashes to put, hub, paired and backup identities, trust levels, the
  contents of blocks, user and data chains, and timing. A capture by an operator's command is
  left out; `Kill` takes a capture away.
- *Bulk scopes inside the store's actions*: `OdsBulk` and `OdsStore` are separate, so the
  effect of a bulk write on the lock flag of a plain write is a listed hazard only.
- *Promotion and demotion* between bulk modes (`allow_thread_promotion`,
  `allow_thread_demotion`): no caller in the repository asks for either.
- *Exceptions* thrown by a caller's `put_instance` in the middle of a write.
- *Encryption, truncation and compression* of ODS files: data, not control.
- In the operation locks: administrative sessions (one at a time, which ignore
  conflicts), clone locks, more than one lock class, the end of a session, and
  the transformation of another session's lock by its handle.
- SQL: a store is atomic, fails or succeeds, and is undone by a rollback. An
  inner rollback does not undo it, since the code sends `ROLLBACK` for the
  outermost transaction only.
- The remaining components of section 1, with reasons in `PROJECT.json`.

## 6. The plan

1. done: `OdsBulk`, `OdsStore` with their abstract specifications and proofs; `OpLocks`.
2. done: `OdsRecovery`, `RegionCache` with `Pages`, `FileTransfer` with `FilePut`, `PeerSessions`.
3. done: proofs for `OpLocks` (what is written stays locked), `OdsStore` (last operations, free list,
   extents, it implements `OdsObjects`), `PeerSessions` (no hash is forgotten), `RegionCache` (it implements
   `Pages`), `OdsRecovery` (a repair goes forward).
4. `OdsShared`: header, index and data caches of two processes and the transform ids;
   property: no process acts on an entry older than the file's.
5. `OdsBulkStore`: plain writes, transactions and bulk scopes together.
6. The record cache and its removal at commit, the B-tree as a pure algorithm, tags of the
   files area.
