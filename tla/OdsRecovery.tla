----------------------------- MODULE OdsRecovery -----------------------------
(***************************************************************************)
(* How the object store of src/ods.cpp survives a crash: the header, index *)
(* and data files, the cache in front of them, the transaction log, and    *)
(* restore_from_transaction_log.                                           *)
(*                                                                         *)
(* mem is what the process sees (rp_header_info and the region caches),    *)
(* disk what the files hold.  A page that differs may be written at any    *)
(* time (EvictIndex, EvictData), the header only where the code writes it.  A crash keeps  *)
(* disk, log and info.  There is one session, which has the store for      *)
(* itself; an object is "size" cells that a write fills with one value.    *)
(*                                                                         *)
(* The log is a sequence of entries, one per transaction, each with its    *)
(* items; an offset is the number of an entry, 0 being no entry.  What one *)
(* call of append_log_entry or append_log_entry_item writes is one step.   *)
(***************************************************************************)
EXTENDS Integers, Sequences, FiniteSets, SequencesExt

CONSTANTS
  Value,       \* what a write may fill an object with
  Size,        \* the sizes objects have
  PageEntries, \* c_index_items_per_item
  PageCells,   \* c_data_bytes_per_item
  MaxEntries,  \* bound: index entries
  MaxData,     \* bound: cells of the data file
  MaxOps,      \* bound: operations of a transaction
  MaxLevel,    \* bound: nested transactions
  MaxLog,      \* bound: entries and inner transactions in the log
  MaxCrashes,  \* bound: crashes
  MaxAgain,    \* bound: crashes more while restoring
  Plain,       \* does the session also write outside transactions?
  CrashIn,     \* the windows in which it may crash as well
  FreshLog,    \* is the log still without an entry?
  Objects0     \* the sizes of the objects that the store begins with

Window == {"write", "destroy", "flush", "inner", "repair", "links"}

ASSUME RecoveryAssumption ==
  /\ 0 \notin Value /\ Size \subseteq Nat \ {0}
  /\ PageEntries \in Nat \ {0} /\ PageCells \in Nat \ {0}
  /\ MaxEntries \in Nat /\ MaxData \in Nat /\ MaxOps \in Nat /\ MaxLevel \in Nat
  /\ MaxLog \in Nat /\ MaxCrashes \in Nat /\ MaxAgain \in Nat
  /\ Plain \in BOOLEAN /\ CrashIn \subseteq Window /\ FreshLog \in BOOLEAN
  /\ Objects0 \in Seq(Size) /\ Len(Objects0) <= MaxEntries

VARIABLES
  mem,        \* header, index entries and data as the process sees them
  disk,       \* ... as the files hold them
  log,        \* the entries of the transaction log
  info,       \* its log_info: the last entry, and where the next one goes
  session,    \* the ods instance: what it is doing and its members
  work,       \* locals of the commit, rollback, plain write or restore
  committed,  \* the content of each object by the transactions committed
  window,     \* windows open now in which a crash is not recovered from
  crashes     \* crashes so far, to bound them

vars == <<mem, disk, log, info, session, work, committed, window, crashes>>

Num  == 0 .. MaxEntries - 1
Cell == 0 .. MaxData - 1
Blank == [pos |-> 0, size |-> 0, tran_id |-> 0, tran_op |-> 0,
          lock |-> "none", trans |-> "none"]
NoDelete == [pos |-> 0, size |-> 0, prior |-> 0]
Absent == <<>>
Fill(size, val) == [i \in 1 .. size |-> val]

\* A store with its first objects; its log has an entry, of the transaction
\* that created them, unless it has just been truncated or created.
Pos0(n) == FoldLeft(LAMBDA size, p : p + size, 0, SubSeq(Objects0, 1, n))
Store0 ==
  [hdr |-> [total_entries |-> Len(Objects0), total_size |-> Pos0(Len(Objects0)),
            free_list |-> 0, tranlog_offset |-> IF FreshLog THEN 0 ELSE 1,
            transaction_id |-> 2, num_trans |-> 0, num_writers |-> 0],
   index |-> [n \in Num |-> IF n >= Len(Objects0) THEN Blank
               ELSE [Blank EXCEPT !.pos = Pos0(n), !.size = Objects0[n + 1], !.tran_id = 1]],
   data  |-> [c \in Cell |-> 0]]

NewEntry(tx) == [tx_id |-> tx, items |-> <<>>, committed |-> FALSE, next |-> 0]

Started(pc) == [pc |-> pc, then |-> "idle", bulk |-> FALSE, has_changed |-> FALSE,
                tran_id |-> 0, tranlog_offset |-> 0, levels |-> <<>>, ops |-> <<>>]

NoWork == [cursor |-> 0, offset |-> 0, deleted |-> NoDelete]

Init ==
  /\ mem = Store0 /\ disk = Store0
  /\ log = IF FreshLog THEN <<>> ELSE <<[NewEntry(1) EXCEPT !.committed = TRUE]>>
  /\ info = [entry |-> Len(log), append |-> Len(log) + 1]
  /\ session = Started("idle")
  /\ work = NoWork
  /\ committed = [n \in Num |-> IF n < Len(Objects0) THEN Fill(Objects0[n + 1], 0) ELSE Absent]
  /\ window = {} /\ crashes = 0

-----------------------------------------------------------------------------
(* Objects, sections and the log.                                          *)

\* the cells of an extent, and the data with cells written at a position
Read(m, e) == [i \in 1 .. e.size |-> m.data[e.pos + i - 1]]
Wrote(data, pos, cells) ==
  [c \in DOMAIN data |-> IF c - pos + 1 \in DOMAIN cells THEN cells[c - pos + 1]
                                                         ELSE data[c]]

\* open_store reads the header unless the store is open already
Opened == IF session.bulk THEN mem ELSE [mem EXCEPT !.hdr = disk.hdr]

\* A faulty first change, that counts no writer.
ChangedUncounted(m) == m

\* write_index_entry: the first change since the store was opened counts a writer
Changed(m) == IF session.has_changed THEN m
              ELSE [m EXCEPT !.hdr.num_writers = @ + 1]

\* the end of a section: the store is closed now, or with the bulk write
Closing(s, then) == [s EXCEPT !.pc = IF s.bulk THEN then ELSE "closing",
                              !.then = then, !.has_changed = TRUE]

Idle == session.pc = "idle"
InTx == session.levels # <<>>
Depth == Len(session.levels)
Top == session.levels[Depth]

\* append_log_entry makes the new entry of a copy of the last one, which names
\* the next one already when a repair has left an entry behind it; nothing that
\* comes after append_offs is read again.
Inherited == IF info.entry = 0 THEN 0 ELSE log[info.entry].next
WithEntry(entry) ==
  Append([k \in 1 .. info.append - 1 |->
            IF k = info.entry THEN [log[k] EXCEPT !.next = info.append] ELSE log[k]],
         [entry EXCEPT !.next = Inherited])
EntryAdded == info' = [entry |-> info.append, append |-> info.append + 1]
InnerLogged == UNION {{<<k, i>> : i \in {j \in DOMAIN log[k].items :
                                           log[k].items[j].op = "nested start"}} :
                      k \in DOMAIN log}
\* A log whose end has been set back before its last entry is written over
\* from there; the model ends where the code would do that.
RoomInLog == /\ info.append + Cardinality(InnerLogged) <= MaxLog
             /\ info.entry < info.append

\* append_log_entry_item
WithItem(item) == [log EXCEPT ![session.tranlog_offset].items = Append(@, item)]

Item(op, id, tx, pos, size, cells) ==
  [op |-> op, id |-> id, tx_oid |-> tx, pos |-> pos, size |-> size, cells |-> cells]
PreItem(op, n, e) == Item(op, n, e.tran_id, e.pos, e.size, Read(mem, e))
CreateItem(n, link) == Item("create", n, 0, link, 0, <<>>)
NestedItem(op) == Item(op, 0, 0, 0, 0, <<>>)

-----------------------------------------------------------------------------
(* The cache and the header file.                                          *)

MayCrash ==
  \/ crashes < MaxCrashes
  \/ session.pc = "restoring" /\ crashes < MaxCrashes + MaxAgain

\* A page of the index or of the data is written to its file, because the cache
\* needs room or when it is flushed.  Nobody sees that but after a crash.
EvictIndex(p) ==
  /\ session.pc # "down" /\ MayCrash
  /\ LET page == [n \in Num |-> IF n \div PageEntries = p THEN mem.index[n] ELSE disk.index[n]]
     IN disk.index # page /\ disk' = [disk EXCEPT !.index = page]
  /\ UNCHANGED <<mem, log, info, session, work, committed, window, crashes>>

EvictData(p) ==
  /\ session.pc # "down" /\ MayCrash
  /\ LET page == [c \in Cell |-> IF c \div PageCells = p THEN mem.data[c] ELSE disk.data[c]]
     IN disk.data # page /\ disk' = [disk EXCEPT !.data = page]
  /\ UNCHANGED <<mem, log, info, session, work, committed, window, crashes>>

\* A faulty close, that leaves the good point in the log where it is.
SameGoodPoint(h) == h

\* close_store: with no transaction open the log up to here is done with.
GoodPoint(h) ==
  [h EXCEPT !.tranlog_offset =
     IF session.tranlog_offset > @ /\ h.num_trans = 0 /\ h.num_writers = 1
       THEN session.tranlog_offset ELSE @]

Flushed == disk.index = mem.index /\ disk.data = mem.data

\* close_store: data_and_index_write flushes the pages ...
Flush ==
  /\ session.pc = "closing" /\ ~Flushed
  /\ disk' = [mem EXCEPT !.hdr = disk.hdr]
  /\ UNCHANGED <<mem, log, info, session, work, committed, window, crashes>>

\* ... and the header follows, if anything was changed.
Close ==
  /\ session.pc = "closing" /\ Flushed
  /\ LET h == [GoodPoint(mem.hdr) EXCEPT !.num_writers = @ - 1] IN
       IF session.has_changed
       THEN mem' = [mem EXCEPT !.hdr = h] /\ disk' = [disk EXCEPT !.hdr = h]
       ELSE UNCHANGED <<mem, disk>>
  /\ session' = [session EXCEPT !.pc = session.then, !.has_changed = FALSE]
  /\ window' = IF session.then = "writing" THEN window ELSE {}
  /\ UNCHANGED <<log, info, work, committed, crashes>>

\* A bulk write is begun and ended with no transaction open.
BulkBegin ==
  /\ Idle /\ ~InTx /\ ~session.bulk
  /\ mem' = Opened
  /\ session' = [session EXCEPT !.bulk = TRUE]
  /\ UNCHANGED <<disk, log, info, work, committed, window, crashes>>

BulkEnd ==
  /\ Idle /\ ~InTx /\ session.bulk
  /\ session' = [session EXCEPT !.bulk = FALSE, !.pc = "closing", !.then = "idle"]
  /\ UNCHANGED <<mem, disk, log, info, work, committed, window, crashes>>

-----------------------------------------------------------------------------
(* Transactions.                                                           *)

\* transaction_start at the outermost level: an entry in the log ...
TransactionStart ==
  /\ Idle /\ ~InTx /\ RoomInLog
  /\ LET tx == Opened.hdr.transaction_id IN
       /\ log' = WithEntry(NewEntry(tx)) /\ EntryAdded
       /\ mem' = [Changed(Opened) EXCEPT
            !.hdr.transaction_id = tx + 1,
            !.hdr.tranlog_offset = IF @ = 0 THEN info.append ELSE @,
            !.hdr.num_trans = @ + 1]
       /\ session' = [session EXCEPT !.pc = "starting", !.tran_id = tx,
                        !.tranlog_offset = info.append, !.has_changed = TRUE,
                        !.levels = <<[op_count |-> 0, op_offset |-> 0]>>]
  /\ UNCHANGED <<disk, work, committed, window, crashes>>

\* ... and then the header
StartHeader ==
  /\ session.pc = "starting"
  /\ disk' = [disk EXCEPT !.hdr = mem.hdr]
  /\ session' = Closing(session, "idle")
  /\ UNCHANGED <<mem, log, info, work, committed, window, crashes>>

\* An inner transaction only marks the log; the store is not opened for it.
NestedStart ==
  /\ Idle /\ InTx /\ Depth < MaxLevel
  /\ RoomInLog
  /\ log' = WithItem(NestedItem("nested start"))
  /\ session' = [session EXCEPT !.levels =
       Append(@, [op_count |-> 0, op_offset |-> Len(session.ops)])]
  /\ UNCHANGED <<mem, disk, info, work, committed, window, crashes>>

NestedCommit ==
  /\ Idle /\ Depth > 1
  /\ log' = WithItem(NestedItem("nested commit"))
  /\ session' = [session EXCEPT !.levels =
       [Front(@) EXCEPT ![Depth - 1].op_count = @ + Top.op_count]]
  /\ UNCHANGED <<mem, disk, info, work, committed, window, crashes>>

\* the cells that the open transaction may still append
Pending == FoldFunction(LAMBDA op, n : op.size + n, 0, session.ops)

\* an operation of the transaction, and the entry that names it
LogOp(op) ==
  session' = Closing([session EXCEPT !.ops = Append(@, op),
                                     !.levels[Depth].op_count = @ + 1], "idle")

Own(e) == e.tran_id = session.tran_id
Writable(e) ==
  /\ e.lock = "none"
  /\ e.trans = "none" \/ (InTx /\ Own(e) /\ e.trans # "delete")

\* "<<" in a transaction: what the entry held is logged when the transaction
\* first touches it, and the entry marked; the data waits for the commit.
TxStore(m, n, e, isNew, link, size, val) ==
  /\ InTx /\ Len(session.ops) < MaxOps
  /\ m.hdr.total_size + Pending + size <= MaxData
  /\ LogOp([id |-> n, type |-> IF ~isNew /\ size <= e.size THEN "update" ELSE "append",
            size |-> size, val |-> val,
            old_tran_id |-> IF isNew THEN -1 ELSE e.tran_id,
            old_tran_op |-> IF e.trans # "none" THEN e.tran_op ELSE 0])
  /\ log' = CASE isNew -> WithItem(CreateItem(n, link))
              [] ~isNew /\ ~Own(e) -> WithItem(PreItem("update", n, e))
              [] OTHER -> log
  /\ mem' = [Changed(m) EXCEPT !.index[n] =
       [e EXCEPT !.tran_id = session.tran_id, !.trans = "change",
                 !.tran_op = Top.op_offset + Top.op_count + 1]]
  /\ UNCHANGED <<info, work, committed, window>>

\* "<<" outside a transaction, its first section: an entry of the log, which
\* its first item makes a committed one, and the index entry locked.
PlainStore(m, n, e, isNew, link, size, val) ==
  LET inPlace == ~isNew /\ size <= e.size
      tx   == m.hdr.transaction_id
      item == IF isNew THEN CreateItem(n, link) ELSE PreItem("update", n, e)
      new  == [e EXCEPT !.pos = IF inPlace THEN @ ELSE m.hdr.total_size,
                        !.size = size, !.tran_id = tx,
                        !.lock = IF session.bulk THEN "none" ELSE "entry"]
  IN
  /\ Plain /\ ~InTx /\ RoomInLog
  /\ m.hdr.total_size + size <= MaxData
  /\ log' = WithEntry([NewEntry(tx) EXCEPT !.items = <<item>>, !.committed = TRUE])
  /\ EntryAdded
  /\ mem' = [Changed(m) EXCEPT
       !.index[n] = new,
       !.hdr.total_size = IF inPlace THEN @ ELSE @ + size,
       !.hdr.tranlog_offset = IF @ = 0 THEN info.append ELSE @,
       !.hdr.transaction_id = tx + 1]
  /\ session' = Closing([session EXCEPT !.tranlog_offset = info.append], "writing")
  /\ work' = [num |-> n, entry |-> new, cells |-> Fill(size, val)]
  /\ window' = window \cup {"write"}
  /\ UNCHANGED committed

Store(m, n, e, isNew, link, size, val) ==
  /\ \/ TxStore(m, n, e, isNew, link, size, val)
     \/ PlainStore(m, n, e, isNew, link, size, val)
  /\ UNCHANGED <<disk, crashes>>

Create(size, val) ==
  LET h == Opened.hdr IN
  /\ Idle /\ h.free_list = 0 /\ h.total_entries < MaxEntries
  /\ Store([Opened EXCEPT !.hdr.total_entries = @ + 1], h.total_entries, Blank,
           TRUE, 0, size, val)

Revive(size, val) ==
  LET n == Opened.hdr.free_list - 1
      e == mem.index[n]
  IN
  /\ Idle /\ Opened.hdr.free_list # 0
  /\ e.lock = "none" /\ e.trans = "free_list"
  /\ Store([Opened EXCEPT !.hdr.free_list = e.pos], n,
           [e EXCEPT !.trans = "none", !.pos = 0], TRUE, e.pos, size, val)

Update(n, size, val) ==
  /\ Idle /\ n < Opened.hdr.total_entries /\ mem.index[n].trans # "free_list"
  /\ Writable(mem.index[n])
  /\ Store(Opened, n, mem.index[n], FALSE, 0, size, val)

\* The rest of a plain "<<": the data, the item that says so, and the entry
\* unlocked.
FinishWrite ==
  /\ session.pc = "writing"
  /\ LET m == [Changed(Opened) EXCEPT
                 !.data = Wrote(@, work.entry.pos, work.cells),
                 !.index[work.num] = [work.entry EXCEPT !.lock = "none"]]
     IN /\ mem' = m
        /\ log' = WithItem(Item("store", work.num, 0, work.entry.pos, work.entry.size,
                                work.cells))
  /\ session' = Closing(session, "idle")
  /\ committed' = [committed EXCEPT ![work.num] = work.cells]
  /\ work' = NoWork
  /\ window' = IF session.bulk THEN window \ {"write"} ELSE window
  /\ UNCHANGED <<disk, info, crashes>>

AtTail(m, e) == e.pos + e.size = m.hdr.total_size

\* an entry put at the head of the free list of m
Freed(m, n) ==
  [m EXCEPT !.index[n] = [@ EXCEPT !.pos = m.hdr.free_list, !.size = 0,
                                   !.tran_op = 0, !.trans = "free_list"],
            !.hdr.free_list = n + 1]

DestroyInTx(n) ==
  LET e == mem.index[n] IN
  /\ InTx /\ Len(session.ops) < MaxOps
  /\ LogOp([id |-> n, type |-> "destroy", size |-> 0, val |-> 0,
            old_tran_id |-> 0, old_tran_op |-> e.tran_op])
  /\ log' = IF Own(e) THEN log ELSE WithItem(PreItem("destroy", n, e))
  /\ mem' = [Changed(Opened) EXCEPT !.index[n] =
       [e EXCEPT !.tran_id = session.tran_id, !.tran_op = 0, !.trans = "delete"]]
  /\ UNCHANGED <<info, committed, window>>

DestroyPlain(n) ==
  LET e == mem.index[n]
      tx == Opened.hdr.transaction_id
      m == Freed(Changed(Opened), n)
  IN
  /\ Plain /\ ~InTx /\ RoomInLog
  /\ log' = WithEntry([NewEntry(tx) EXCEPT !.items = <<PreItem("destroy", n, e)>>,
                                           !.committed = TRUE])
  /\ EntryAdded
  /\ mem' = [m EXCEPT
       !.index[n].tran_id = tx,
       !.hdr.total_size = IF AtTail(mem, e) THEN @ - e.size ELSE @,
       !.hdr.tranlog_offset = IF @ = 0 THEN info.append ELSE @,
       !.hdr.transaction_id = tx + 1]
  /\ session' = Closing([session EXCEPT !.tranlog_offset = info.append], "idle")
  /\ committed' = [committed EXCEPT ![n] = Absent]
  /\ window' = window \cup {"destroy"}

Destroy(n) ==
  /\ Idle /\ n < Opened.hdr.total_entries /\ mem.index[n].trans # "free_list"
  /\ Writable(mem.index[n])
  /\ DestroyInTx(n) \/ DestroyPlain(n)
  /\ UNCHANGED <<disk, work, crashes>>

-----------------------------------------------------------------------------
(* Commit and rollback.                                                    *)

\* An extent at the tail of the data is given back, with the extents just
\* before it that were deleted just before (in a commit and when it is redone).
GivenBack(d, m, e) ==
  LET touching == d.pos + d.size = e.pos
      prior == IF d.size = 0 THEN d.prior ELSE IF touching THEN d.prior + d.size ELSE 0
  IN [bytes |-> IF AtTail(m, e) THEN e.size + prior ELSE 0,
      deleted |-> IF (d.size # 0 /\ ~touching) \/ AtTail(m, e) THEN NoDelete
                  ELSE [pos |-> e.pos, size |-> e.size, prior |-> prior]]

CommitBegin ==
  /\ Idle /\ Depth = 1
  /\ mem' = Opened
  /\ work' = [NoWork EXCEPT !.cursor = Top.op_count]
  /\ session' = [session EXCEPT !.pc = "committing"]
  /\ UNCHANGED <<disk, log, info, committed, window, crashes>>

CommitDelete(n) ==
  LET e == mem.index[n]
      tail == GivenBack(work.deleted, mem, e)
  IN
  /\ e.trans = "delete"
  /\ log' = WithItem(Item("freed", n, 0, 0, 0, <<>>))
  /\ mem' = [Freed(Changed(mem), n) EXCEPT !.hdr.total_size = @ - tail.bytes]
  /\ work' = [work EXCEPT !.cursor = @ - 1, !.deleted = tail.deleted]

CommitChange(op) ==
  LET e == mem.index[op.id]
      pos == IF op.type = "append" THEN mem.hdr.total_size ELSE e.pos
      cells == Fill(op.size, op.val)
  IN
  /\ e.trans = "change"
  /\ log' = WithItem(Item("store", op.id, 0, pos, op.size, cells))
  /\ mem' = [Changed(mem) EXCEPT
       !.data = Wrote(@, pos, cells),
       !.index[op.id] = [e EXCEPT !.pos = pos, !.size = op.size, !.tran_op = 0,
                                  !.trans = "none"],
       !.hdr.total_size = IF op.type = "append" THEN @ + op.size ELSE @]
  /\ work' = [work EXCEPT !.cursor = @ - 1]

\* an earlier operation of an entry that is dealt with
CommitSkip(n) ==
  /\ mem.index[n].trans \in {"none", "free_list"}
  /\ work' = [work EXCEPT !.cursor = @ - 1]
  /\ UNCHANGED <<mem, log>>

CommitOp ==
  /\ session.pc = "committing" /\ work.cursor > 0
  /\ LET op == session.ops[work.cursor] IN
       /\ mem.index[op.id].lock = "none"
       /\ \/ CommitDelete(op.id)
          \/ CommitChange(op)
          \/ CommitSkip(op.id)
  /\ session' = [session EXCEPT !.has_changed = @ \/ mem' # mem]
  /\ UNCHANGED <<disk, info, committed, window, crashes>>

\* the contents after operations
Applied(ops, contents) ==
  FoldLeft(LAMBDA c, op : [c EXCEPT ![op.id] =
             IF op.type = "destroy" THEN Absent ELSE Fill(op.size, op.val)],
           contents, ops)

\* log_entry_commit: from here on the transaction is committed
LogCommit ==
  /\ session.pc = "committing" /\ work.cursor = 0
  /\ session' = [session EXCEPT !.pc = "completing"]
  /\ IF session.ops # <<>>
     THEN /\ log' = [log EXCEPT ![session.tranlog_offset].committed = TRUE]
          /\ committed' = Applied(session.ops, committed)
     ELSE UNCHANGED <<log, committed>>
  /\ UNCHANGED <<mem, disk, info, work, window, crashes>>

RollbackBegin ==
  /\ Idle /\ InTx
  /\ mem' = Opened
  /\ log' = IF Depth > 1 THEN WithItem(NestedItem("nested rollback")) ELSE log
  /\ work' = [NoWork EXCEPT !.cursor = Top.op_count, !.offset = Top.op_offset]
  /\ session' = [session EXCEPT !.pc = "rolling back"]
  /\ UNCHANGED <<disk, info, committed, window, crashes>>

\* the entry that an operation found, by what the operation kept of it
RollbackOp ==
  /\ session.pc = "rolling back" /\ work.cursor > 0
  /\ LET op == session.ops[work.offset + work.cursor]
         e  == mem.index[op.id]
         created == op.old_tran_op = 0 /\ op.old_tran_id = -1
         m  == IF ~created THEN mem
               ELSE [Freed(mem, op.id) EXCEPT
                       !.hdr.total_size = IF AtTail(mem, e) THEN @ - e.size ELSE @]
     IN
     IF e.trans \in {"none", "free_list"} THEN UNCHANGED <<mem, session>>
     ELSE /\ mem' = [Changed(m) EXCEPT !.index[op.id] =
               [@ EXCEPT !.tran_op = op.old_tran_op,
                         !.tran_id = IF op.old_tran_id > 0 THEN op.old_tran_id ELSE @,
                         !.trans = IF created THEN "free_list"
                                   ELSE IF op.old_tran_op = 0 THEN "none" ELSE "change"]]
          /\ session' = [session EXCEPT !.has_changed = TRUE]
  /\ work' = [work EXCEPT !.cursor = @ - 1]
  /\ UNCHANGED <<disk, log, info, committed, window, crashes>>

RollbackEnd ==
  /\ session.pc = "rolling back" /\ work.cursor = 0
  /\ LET s == [session EXCEPT !.ops = SubSeq(@, 1, work.offset)] IN
       session' = IF Depth = 1 THEN [s EXCEPT !.pc = "completing"]
                  ELSE [s EXCEPT !.levels = Front(@), !.then = "idle",
                                 !.pc = IF s.bulk THEN "idle" ELSE "closing"]
  /\ window' = IF Depth > 1 /\ session.bulk THEN window \cup {"inner"} ELSE window
  /\ UNCHANGED <<mem, disk, log, info, work, committed, crashes>>

\* transaction_completed: the header is written while the pages need not be
CompletedHeader ==
  /\ session.pc = "completing"
  /\ LET m == [Changed(mem) EXCEPT !.hdr.num_trans = @ - 1] IN
       mem' = m /\ disk' = [disk EXCEPT !.hdr = m.hdr]
  /\ session' = Closing([session EXCEPT !.levels = <<>>, !.ops = <<>>], "idle")
  /\ work' = NoWork
  /\ window' = IF \E i \in DOMAIN log[session.tranlog_offset].items :
                    log[session.tranlog_offset].items[i].op = "freed"
                 THEN window \cup {"flush"} ELSE window
  /\ UNCHANGED <<log, info, committed, crashes>>

-----------------------------------------------------------------------------
(* Crash and restore.                                                      *)

\* The last entry names an earlier one, and is not yet before the good point.
StaleLink == /\ info.entry > disk.hdr.tranlog_offset
             /\ log[info.entry].next \in 1 .. info.entry - 1

Crash ==
  /\ session.pc # "down" /\ MayCrash
  /\ window \cup {w \in {"links"} : StaleLink} \subseteq CrashIn
  /\ crashes' = crashes + 1
  /\ session' = Started("down")
  /\ mem' = disk /\ work' = NoWork /\ window' = {}
  /\ UNCHANGED <<disk, log, info, committed>>

\* is_corrupt: writers or transactions that nobody has any more, or entries in
\* the log that the header does not know of
IsCorrupt == \/ disk.hdr.num_trans # 0 \/ disk.hdr.num_writers # 0
             \/ info.entry > disk.hdr.tranlog_offset

\* what is left of the restore when nothing has been read
NothingRestored == [next |-> IF log = <<>> THEN 0 ELSE 1, good |-> disk.hdr.tranlog_offset,
                    last |-> [offset |-> 0, tx_id |-> 0, append |-> 0], any |-> FALSE]

\* The server opens the store and repairs it when it is corrupt.
Reopen ==
  /\ session.pc = "down"
  /\ session' = Started(IF IsCorrupt THEN "restoring" ELSE "idle")
  /\ work' = IF IsCorrupt THEN NothingRestored ELSE NoWork
  /\ UNCHANGED <<mem, disk, log, info, committed, window, crashes>>

\* add_entry_to_freelist
FreelistEntry(m, n, tx) ==
  IF m.index[n].trans = "free_list" THEN m
  ELSE [Freed(m, n) EXCEPT !.index[n].tran_id = tx]

\* The entries that a restored transaction created, with a mark (-1) where an
\* inner transaction began.
Mark == -1

\* An inner transaction was rolled back: the entries it created are freed,
\* those of the inner transactions committed into it as well.
UndoNested(r, tx) ==
  LET level == r.level - 1
      marks == {i \in DOMAIN r.made : r.made[i] = Mark}
      \* the marks passed: its own and num_at_height more
      passed == {i \in marks :
                   Cardinality({j \in marks : j > i}) <= r.num_at_height[level + 1]}
      first == IF passed = {} THEN 1
               ELSE CHOOSE i \in passed : \A j \in passed : i <= j
      freed == SelectSeq([i \in 1 .. Len(r.made) - first + 1 |->
                            r.made[Len(r.made) + 1 - i]], LAMBDA n : n # Mark)
      left == r.num_at_height[level + 1] - (Cardinality(passed) - 1)
  IN [r EXCEPT !.level = level,
               !.m = FoldLeft(LAMBDA m, n : FreelistEntry(m, n, tx), @, freed),
               !.made = SubSeq(@, 1, first - 1),
               !.num_at_height[level + 1] = IF left < 0 THEN 0 ELSE left]

\* A faulty redo of a creation, that leaves the entry at the head of the list.
HeadKept(head, item) == head

\* An entry that was taken from the head of the free list is taken again.
HeadWithout(head, item) == IF head = item.id + 1 THEN item.pos ELSE head

\* A faulty redo of a write, that takes the size in the header to be right.
TailUnmoved(total, item) == total

\* The data file reaches at least to the end of what is written again.
TailAfter(total, item) ==
  IF total < item.pos + item.size THEN item.pos + item.size ELSE total

\* One item of an entry of the log, redone if the transaction was committed
\* and undone if not.
RestoreItem(entry, r, item) ==
  LET n == item.id
      tx == entry.tx_id
      redo == entry.committed
      known == n < r.m.hdr.total_entries
      e == IF known THEN r.m.index[n] ELSE Blank
      m == IF known THEN r.m ELSE [r.m EXCEPT !.hdr.total_entries = n + 1]
      preOp == item.op \in {"create", "update", "destroy"}
      by == IF ~redo /\ preOp THEN item.tx_oid ELSE tx
      With(new) == [m EXCEPT !.index[n] = [new EXCEPT !.tran_id = by, !.tran_op = 0]]
      written == [With([e EXCEPT !.pos = item.pos, !.size = item.size, !.trans = "none"])
                    EXCEPT !.data = Wrote(@, item.pos, item.cells)]
      tail == GivenBack(r.deleted, m, e)
  IN CASE item.op = "nested start" ->
            [r EXCEPT !.level = @ + 1, !.made = Append(@, Mark)]
       [] item.op = "nested commit" ->
            [r EXCEPT !.level = @ - 1, !.num_at_height[r.level - 1] = @ + 1]
       [] item.op = "nested rollback" -> UndoNested(r, tx)
       [] item.op = "create" ->
            [r EXCEPT !.made = Append(@, n),
                      !.m = [With([e EXCEPT !.trans = "none"]) EXCEPT
                               !.hdr.free_list = HeadWithout(@, item)]]
       [] item.op = "store" /\ redo ->
            [r EXCEPT !.m = [written EXCEPT
                               !.hdr.total_size = TailAfter(@, item)]]
       [] item.op \in {"update", "destroy"} /\ ~redo -> [r EXCEPT !.m = written]
       [] item.op = "freed" /\ redo ->
            [r EXCEPT !.deleted = tail.deleted,
                      !.m = [Freed(m, n) EXCEPT !.index[n].tran_id = by,
                                                !.hdr.total_size = @ - tail.bytes]]
       [] OTHER -> [r EXCEPT !.m = IF known THEN @ ELSE With(e)]

\* an entry of the log, and what it created if it was not committed
RestoredBy(entry) ==
  LET r == FoldLeft(LAMBDA r, item : RestoreItem(entry, r, item),
                    [m |-> mem, made |-> <<>>, level |-> 0, deleted |-> NoDelete,
                     num_at_height |-> [l \in 0 .. MaxLevel |-> 0]], entry.items)
      made == SelectSeq([i \in DOMAIN r.made |-> r.made[Len(r.made) + 1 - i]],
                        LAMBDA n : n # Mark)
  IN IF entry.committed THEN r.m
     ELSE FoldLeft(LAMBDA m, n : FreelistEntry(m, n, entry.tx_id), r.m, made)

\* The entries after the good point in the header are restored.
AfterGoodPoint(offset) == offset > work.good

\* A faulty step to the next entry, that stays when this one was not restored.
StaysBefore(k, after) == IF ~after THEN k ELSE log[k].next

\* An entry that names none, or itself, ends at the end of the log: last_offs
\* is the offset of the entry being read, which the one before it named.
EndsLog(k) == log[k].next \in {0, k}

\* The entry after entry k: the one it names, or for the last one restored
\* what comes at the end of the log.
NextEntry(k, after) == IF EndsLog(k) /\ after THEN info.append ELSE log[k].next

\* The items of an entry are those before the next one: none if it names an
\* earlier one.
ItemsRead(k) == IF NextEntry(k, TRUE) > k THEN log[k] ELSE [log[k] EXCEPT !.items = <<>>]

\* The next entry of the log is read, and restored if it comes after the good
\* point of the header.
RestoreEntry ==
  /\ session.pc = "restoring" /\ work.next # 0
  /\ LET k == work.next
         entry == log[k]
         after == AfterGoodPoint(k)
         last  == IF entry.committed
                  THEN [offset |-> k, tx_id |-> entry.tx_id, append |-> entry.next]
                  ELSE work.last
         next  == NextEntry(k, after)
     IN
     /\ mem' = IF after THEN Changed(RestoredBy(ItemsRead(k))) ELSE mem
     /\ session' = [session EXCEPT !.has_changed = @ \/ after]
     /\ work' = [work EXCEPT
          !.good = IF after THEN k ELSE @, !.any = @ \/ after,
          !.last = IF EndsLog(k) /\ after THEN [last EXCEPT !.append = info.append]
                                              ELSE last,
          !.next = IF next > info.entry \/ (k = info.entry /\ after) THEN 0 ELSE next]
  /\ UNCHANGED <<disk, log, info, committed, window, crashes>>

\* The log ends after the last committed entry ...
RestoreInfo ==
  /\ session.pc = "restoring" /\ work.next = 0
  /\ session' = [session EXCEPT !.pc = "restored"]
  /\ info' = IF work.any THEN [entry |-> work.last.offset, append |-> work.last.append]
                         ELSE info
  /\ window' = window \cup {"repair"}
  /\ UNCHANGED <<mem, disk, log, work, committed, crashes>>

\* ... the header says that all is well, and then the pages are flushed.
RestoreHeader ==
  /\ session.pc = "restored"
  /\ LET h == [total_entries |-> mem.hdr.total_entries, total_size |-> mem.hdr.total_size,
               free_list |-> mem.hdr.free_list, num_trans |-> 0, num_writers |-> 0,
               tranlog_offset |-> IF work.any THEN work.last.offset
                                              ELSE mem.hdr.tranlog_offset,
               transaction_id |-> IF work.any THEN work.last.tx_id + 1
                                              ELSE mem.hdr.transaction_id]
     IN /\ mem' = [hdr |-> h, index |-> mem.index, data |-> mem.data]
        /\ disk' = [disk EXCEPT !.hdr = h]
  /\ session' = [session EXCEPT !.pc = "closing", !.then = "idle", !.has_changed = FALSE]
  /\ work' = NoWork
  /\ UNCHANGED <<log, info, committed, window, crashes>>

-----------------------------------------------------------------------------
Quiescent == Idle /\ ~InTx /\ ~session.bulk /\ UNCHANGED vars

SystemStep ==
  \/ Flush \/ Close \/ StartHeader \/ FinishWrite
  \/ CommitOp \/ LogCommit \/ RollbackOp \/ RollbackEnd \/ CompletedHeader
  \/ Reopen \/ RestoreEntry \/ RestoreInfo \/ RestoreHeader

Next ==
  \/ \E n \in Num : Destroy(n)
  \/ \E p \in Num \cup Cell : EvictIndex(p) \/ EvictData(p)
  \/ \E size \in Size, val \in Value :
       Create(size, val) \/ Revive(size, val) \/ \E n \in Num : Update(n, size, val)
  \/ BulkBegin \/ BulkEnd
  \/ TransactionStart \/ NestedStart \/ NestedCommit \/ CommitBegin \/ RollbackBegin
  \/ SystemStep
  \/ Crash
  \/ Quiescent

Spec == Init /\ [][Next]_vars

-----------------------------------------------------------------------------
(* Properties.                                                             *)

Header == [total_entries : 0 .. MaxEntries, total_size : 0 .. MaxData,
           free_list : 0 .. MaxEntries, tranlog_offset : 0 .. MaxLog,
           transaction_id : Nat, num_trans : 0 .. 1, num_writers : 0 .. 2]
IndexEntry == [pos : Nat, size : Size \cup {0}, tran_id : Nat, tran_op : 0 .. MaxOps,
               lock : {"none", "entry"}, trans : {"none", "change", "delete", "free_list"}]

\* Types: the counts in the header are those of one session, and a log entry or
\* an offset in the header or log_info is one that exists or comes next.
TypeOK ==
  /\ mem.hdr \in Header /\ disk.hdr \in Header
  /\ mem.index \in [Num -> IndexEntry] /\ disk.index \in [Num -> IndexEntry]
  /\ mem.data \in [Cell -> Value \cup {0}] /\ disk.data \in [Cell -> Value \cup {0}]
  /\ Len(log) <= MaxLog
  /\ info.entry \in 0 .. Len(log) /\ info.append \in 1 .. Len(log) + 1
  /\ \A k \in DOMAIN log : log[k].next \in 0 .. Len(log)
  /\ session.pc \in {"idle", "starting", "writing", "committing", "rolling back",
                     "completing", "closing", "down", "restoring", "restored"}
  /\ session.then \in {"idle", "writing"}
  /\ Len(session.levels) <= MaxLevel /\ Len(session.ops) <= MaxOps
  /\ committed \in [Num -> {Absent} \cup {Fill(size, val) : size \in Size, val \in Value \cup {0}}]
  /\ window \subseteq Window /\ crashes \in 0 .. MaxCrashes + MaxAgain

\* The store is at rest: no transaction, no call and no restore in progress.
AtRest == Idle /\ ~InTx

Entries == 0 .. mem.hdr.total_entries - 1
Objects == {n \in Entries : mem.index[n].trans # "free_list"}
Content(n) == IF n \in Objects THEN Read(mem, mem.index[n]) ELSE Absent

\* Whatever happened, crashes and restores included, at rest the objects are
\* those of the transactions committed, and none is left marked or locked.
RecoversCommitted ==
  AtRest => \A n \in Num :
    /\ Content(n) = committed[n]
    /\ n \in Objects => mem.index[n].trans = "none" /\ mem.index[n].lock = "none"

\* No freed entry is lost, and the list has no loop: followed from its head it
\* comes to every free entry and then ends, also after a restore.
FreeListReachesAll ==
  LET free == Entries \ Objects
      link[k \in Nat] == IF k = 0 THEN mem.hdr.free_list
                         ELSE IF link[k - 1] = 0 THEN 0 ELSE mem.index[link[k - 1] - 1].pos
  IN AtRest =>
       /\ {link[k] : k \in 0 .. Cardinality(free) - 1} = {n + 1 : n \in free}
       /\ link[Cardinality(free)] = 0

Extent(n) == mem.index[n].pos .. mem.index[n].pos + mem.index[n].size - 1

\* Two objects never share a cell, and none lies where the next append goes,
\* also after a restore.
ExtentsDisjoint ==
  AtRest => \A n \in Objects :
    /\ Extent(n) \subseteq 0 .. mem.hdr.total_size - 1
    /\ \A m \in Objects \ {n} : Extent(n) \cap Extent(m) = {}

\* A repair comes to the last entry of the log and ends there.  It goes forward
\* on the way, and from the first entry that it restores on it leaves none out,
\* whatever earlier repairs have left behind in the links.
RestoreAdvances ==
  [][session.pc = "restoring" /\ session'.pc = "restoring" /\ work' # work =>
       LET k == work.next IN
       IF k = info.entry THEN work'.next = 0
       ELSE /\ work'.next \in k + 1 .. info.entry
            /\ AfterGoodPoint(k) => work'.next = k + 1]_vars

=============================================================================
