------------------------------ MODULE OdsStore ------------------------------
(* The object store of src/ods.cpp: index entries with their free list, the  *)
(* extents of the data file, and the nested transactions, reads and writes   *)
(* that the sessions of one process make through their own "ods" copies.     *)
(*                                                                           *)
(* A section of the code that runs with "rp_impl_lock" held is one action.   *)
(* Commits and rollbacks keep that mutex from their first step to their last *)
(* and take one step per logged operation; the pages of the data file move   *)
(* between the cache and a session's own buffers with no lock held, one page *)
(* per step.  An object is "size" cells of the data file, and a write fills  *)
(* them all with one value.                                                  *)
EXTENDS Integers, Sequences, FiniteSets

CONSTANTS Session,       \* the ods copies, one per thread
          NoSession,     \* nobody holds the impl lock
          PlainSession,  \* sessions that also write outside a transaction
          Reader,        \* sessions that read
          StaleIds,      \* may callers pass the id of an object that is gone?
          Value,         \* what a write may fill an object with
          Size,          \* the sizes objects have
          PageSize,      \* c_data_bytes_per_item
          MaxEntries,    \* bound: index entries
          MaxData,       \* cells of the data file: what MaxTran transactions can fill
          MaxTransData,  \* bound: cells written in one transaction
          MaxOps,        \* bound: operations logged in one transaction
          MaxLevel,      \* bound: nested transactions
          MaxTran        \* bound: transaction ids handed out

ASSUME StoreAssumption ==
  /\ NoSession \notin Session /\ PlainSession \subseteq Session
  /\ Reader \subseteq Session
  /\ StaleIds \in BOOLEAN /\ Size \subseteq Nat /\ 0 \notin Value
  /\ PageSize \in Nat \ {0} /\ MaxEntries \in Nat /\ MaxData \in Nat
  /\ \A z \in Size : z <= MaxTransData
  /\ MaxData >= MaxTran * MaxTransData
  /\ MaxTransData \in Nat /\ MaxOps \in Nat /\ MaxLevel \in Nat /\ MaxTran \in Nat

VARIABLES total_entries, total_size_of_data,  \* fields of rp_header_info
          index_free_list, transaction_id,
          index,             \* the index entries, by number
          data,              \* the cells of the data file, as the cache has them
          rp_impl_lock,      \* the session inside a commit or a rollback
          pc,                \* what each session is doing
          tran_id,           \* p_trans_buffer->tran_id, kept after the end
          levels,            \* p_trans_buffer->levels, outermost first
          ops,               \* the operations logged in the transaction
          trans_data,        \* the cells written in the transaction
          total_trans_size,
          write,             \* the write in progress
          page_copy,         \* data_write_buffer_num and data_write_buffer
          read,              \* the read in progress
          work               \* the locals of a commit or a rollback in progress

headerVars == << total_entries, total_size_of_data, index_free_list, transaction_id >>
tranVars   == << tran_id, levels, ops, total_trans_size >>
vars == << headerVars, index, data, rp_impl_lock, pc, tranVars, trans_data, write, page_copy, read, work >>

-----------------------------------------------------------------------------
Num   == 0 .. MaxEntries - 1
Cell  == 0 .. MaxData + PageSize - 1  \* the page after the last object may be touched
Blank == [pos |-> 0, size |-> 0, tran_id |-> 0, tran_op |-> 0,
          lock |-> "none", trans |-> "none"]

NoWrite == [num |-> -1, pos |-> 0, size |-> 0, val |-> 0, entry |-> Blank]
NoPage  == [page |-> -1, cells |-> << >>]
NoRead  == [num |-> -1, from |-> "none", pos |-> 0, size |-> 0,
            outdated |-> FALSE, got |-> << >>]
NoTransData == [c \in 0 .. MaxTransData - 1 |-> 0]
NoWork  == [cursor |-> 0, op_count |-> 0, op_offset |-> 0, size |-> 0,
            last_delete_pos |-> 0, last_delete_size |-> 0, prior_deleted_bytes |-> 0]

Init ==
  /\ total_entries = 0 /\ total_size_of_data = 0
  /\ index_free_list = 0 /\ transaction_id = 1
  /\ index = [n \in Num |-> Blank]
  /\ data = [c \in Cell |-> 0]
  /\ rp_impl_lock = NoSession
  /\ pc = [s \in Session |-> "idle"]
  /\ tran_id = [s \in Session |-> 0]
  /\ levels = [s \in Session |-> << >>]
  /\ ops = [s \in Session |-> << >>]
  /\ trans_data = [s \in Session |-> NoTransData]
  /\ total_trans_size = [s \in Session |-> 0]
  /\ write = [s \in Session |-> NoWrite]
  /\ page_copy = [s \in Session |-> NoPage]
  /\ read = [s \in Session |-> NoRead]
  /\ work = [s \in Session |-> NoWork]

-----------------------------------------------------------------------------
Depth(s) == Len(levels[s])
InTx(s)  == levels[s] # << >>
Top(s)   == levels[s][Depth(s)]
Pop(s)   == [l \in 1 .. Depth(s) - 1 |-> levels[s][l]]

\* a call that locks the impl mutex for one section
Section(s) == pc[s] = "idle" /\ rp_impl_lock = NoSession

\* A faulty Writable: the lock of an entry being written is not looked at.
WritableWhileLocked(s, e) ==
  \/ e.trans = "none"
  \/ InTx(s) /\ e.tran_id = tran_id[s] /\ e.trans # "delete"

\* the entry is free of other sessions' changes
Writable(s, e) ==
  /\ e.lock = "none"
  /\ \/ e.trans = "none"
     \/ InTx(s) /\ e.tran_id = tran_id[s] /\ e.trans # "delete"

\* ids that the caller may hold: those of objects, or any that were handed out
Known(n) == n < total_entries /\ (StaleIds \/ index[n].trans # "free_list")

\* ghost: the reads of an object that is committed anew or freed meanwhile
Outdated(n) == [t \in Session |-> IF read[t].num = n THEN [read[t] EXCEPT !.outdated = TRUE]
                                  ELSE read[t]]

CurrentlyReading(n) == \E t \in Session : read[t].num = n
CurrentlyWriting(n) == \E t \in Session : write[t].num = n

\* A faulty StoreOp: the operation that the entry named before is forgotten.
StoreOpForgetful(s, n, e, isNew, size) ==
  [id |-> n, type |-> IF ~isNew /\ size <= e.size THEN "update" ELSE "append",
   pos |-> Top(s).offset + Top(s).size, size |-> size,
   old_tran_id |-> IF isNew THEN -1 ELSE e.tran_id, old_tran_op |-> 0]

\* A faulty StoreOp: the offset of the level is left out.
StoreOpUnshifted(s, n, e, isNew, size) ==
  [id |-> n, type |-> IF ~isNew /\ size <= e.size THEN "update" ELSE "append",
   pos |-> Top(s).size, size |-> size,
   old_tran_id |-> IF isNew THEN -1 ELSE e.tran_id,
   old_tran_op |-> IF e.trans # "none" THEN e.tran_op ELSE 0]

\* the operation that a store of "size" cells logs for the entry "e"
StoreOp(s, n, e, isNew, size) ==
  [id |-> n, type |-> IF ~isNew /\ size <= e.size THEN "update" ELSE "append",
   pos |-> Top(s).offset + Top(s).size, size |-> size,
   old_tran_id |-> IF isNew THEN -1 ELSE e.tran_id,
   old_tran_op |-> IF e.trans # "none" THEN e.tran_op ELSE 0]

LogOp(s, op) ==
  /\ Len(ops[s]) < MaxOps
  /\ ops' = [ops EXCEPT ![s] = Append(@, op)]
  /\ levels' = [levels EXCEPT ![s][Depth(s)].op_count = @ + 1,
                              ![s][Depth(s)].size = @ + op.size]
  /\ total_trans_size' = [total_trans_size EXCEPT ![s] = @ + op.size]

\* the first section of "<<" in a transaction: the index entry only gets marked
StoreInTx(s, n, e, isNew, size, val) ==
  /\ InTx(s) /\ total_trans_size[s] + size <= MaxTransData
  /\ LogOp(s, StoreOp(s, n, e, isNew, size))
  /\ index' = [index EXCEPT ![n] =
                 [e EXCEPT !.tran_id = tran_id[s], !.trans = "change",
                           !.tran_op = Top(s).op_offset + Top(s).op_count + 1]]
  /\ write' = [write EXCEPT ![s] =
                 [NoWrite EXCEPT !.num = n, !.pos = total_trans_size[s],
                                 !.size = size, !.val = val]]
  /\ pc' = [pc EXCEPT ![s] = "storing"]
  /\ UNCHANGED << total_size_of_data, transaction_id, tran_id >>

\* the first section of "<<" outside one: the extent is chosen, the entry locked
StorePlain(s, n, e, isNew, size, val) ==
  LET inPlace == ~isNew /\ size <= e.size
      locked  == [e EXCEPT !.pos = IF inPlace THEN @ ELSE total_size_of_data,
                           !.size = size, !.tran_id = transaction_id, !.lock = "entry"]
  IN /\ s \in PlainSession /\ ~InTx(s) /\ transaction_id < MaxTran
     /\ index' = [index EXCEPT ![n] = locked]
     /\ transaction_id' = transaction_id + 1
     /\ total_size_of_data' = IF inPlace THEN total_size_of_data
                              ELSE total_size_of_data + size
     /\ write' = [write EXCEPT ![s] =
                    [NoWrite EXCEPT !.num = n, !.pos = locked.pos, !.size = size,
                                    !.val = val, !.entry = locked]]
     /\ pc' = [pc EXCEPT ![s] = "writing"]
     /\ UNCHANGED tranVars

Store(s, n, e, isNew, size, val) ==
  /\ \/ StoreInTx(s, n, e, isNew, size, val)
     \/ StorePlain(s, n, e, isNew, size, val)
  /\ UNCHANGED << data, rp_impl_lock, trans_data, page_copy, read, work >>

-----------------------------------------------------------------------------
\* a store of an object that has no id yet: a new entry if the free list is empty
Create(s, size, val) ==
  /\ Section(s) /\ index_free_list = 0 /\ total_entries < MaxEntries
  /\ Store(s, total_entries, Blank, TRUE, size, val)
  /\ total_entries' = total_entries + 1
  /\ UNCHANGED index_free_list

\* A faulty Revive: the head of the free list stays where it is.
ReviveKeepingHead(s, size, val) ==
  LET n == index_free_list - 1
      e == index[n]
  IN /\ Section(s) /\ index_free_list # 0
     /\ e.lock = "none" /\ e.trans = "free_list"
     /\ Store(s, n, [e EXCEPT !.trans = "none", !.pos = 0], TRUE, size, val)
     /\ UNCHANGED << index_free_list, total_entries >>

\* ... otherwise the head of the free list, whose "pos" links to the next
Revive(s, size, val) ==
  LET n == index_free_list - 1
      e == index[n]
  IN /\ Section(s) /\ index_free_list # 0
     /\ e.lock = "none" /\ e.trans = "free_list"
     /\ Store(s, n, [e EXCEPT !.trans = "none", !.pos = 0], TRUE, size, val)
     /\ index_free_list' = e.pos
     /\ UNCHANGED total_entries

Update(s, n, size, val) ==
  /\ Section(s) /\ Known(n)
  /\ ~CurrentlyReading(n) /\ ~CurrentlyWriting(n)
  /\ Writable(s, index[n])
  /\ Store(s, n, index[n], FALSE, size, val)
  /\ UNCHANGED << total_entries, index_free_list >>

\* write_trans_data_bytes and the last section of "<<" in a transaction
FinishStore(s) ==
  /\ pc[s] = "storing" /\ rp_impl_lock = NoSession
  /\ trans_data' = [trans_data EXCEPT ![s] =
       [c \in DOMAIN @ |-> IF c \in write[s].pos .. write[s].pos + write[s].size - 1
                           THEN write[s].val ELSE @[c]]]
  /\ write' = [write EXCEPT ![s] = NoWrite]
  /\ pc' = [pc EXCEPT ![s] = "idle"]
  /\ UNCHANGED << headerVars, index, data, rp_impl_lock, tranVars, page_copy, read, work >>

-----------------------------------------------------------------------------
\* The data file is written by whole pages: a page is copied from the cache,
\* the object's cells are changed in the copy, and the copy is put back.
PageOf(c) == c \div PageSize

LastPage(w) == PageOf(IF w.size = 0 THEN w.pos ELSE w.pos + w.size - 1)

\* a copy of the page, with the cells of a write changed in it
Copied(w, p) ==
  [page |-> p,
   cells |-> [i \in 0 .. PageSize - 1 |->
                IF p * PageSize + i \in w.pos .. w.pos + w.size - 1 THEN w.val
                ELSE data[p * PageSize + i]]]

\* the data file once a copy is put back
Put(copy) ==
  [c \in Cell |-> IF PageOf(c) = copy.page THEN copy.cells[c % PageSize] ELSE data[c]]

\* set_write_data_pos; the region lock it takes keeps out other processes only
FetchPage(s) ==
  /\ pc[s] = "writing" /\ page_copy[s] = NoPage
  /\ page_copy' = [page_copy EXCEPT ![s] = Copied(write[s], PageOf(write[s].pos))]
  /\ UNCHANGED << headerVars, index, data, rp_impl_lock, pc, tranVars, trans_data,
                  write, read, work >>

\* write_data_bytes: on to the next page of the object
NextPage(s) ==
  /\ pc[s] = "writing" /\ page_copy[s] # NoPage
  /\ page_copy[s].page < LastPage(write[s])
  /\ data' = Put(page_copy[s])
  /\ page_copy' = [page_copy EXCEPT ![s] = Copied(write[s], @.page + 1)]
  /\ UNCHANGED << headerVars, index, rp_impl_lock, pc, tranVars, trans_data, write, read, work >>

\* the last section of "<<": the entry held since the first one is written back
FinishWrite(s) ==
  /\ pc[s] = "writing" /\ rp_impl_lock = NoSession
  /\ page_copy[s].page = LastPage(write[s])
  /\ data' = Put(page_copy[s])
  /\ index' = [index EXCEPT ![write[s].num] = [write[s].entry EXCEPT !.lock = "none"]]
  /\ write' = [write EXCEPT ![s] = NoWrite]
  /\ page_copy' = [page_copy EXCEPT ![s] = NoPage]
  /\ pc' = [pc EXCEPT ![s] = "idle"]
  /\ UNCHANGED << headerVars, rp_impl_lock, tranVars, trans_data, read, work >>

-----------------------------------------------------------------------------
\* A faulty Freed: the rest of the list is forgotten.
FreedUnlinked(e) == [e EXCEPT !.pos = 0, !.size = 0, !.trans = "free_list"]

\* an entry put at the head of the free list
Freed(e) == [e EXCEPT !.pos = index_free_list, !.size = 0, !.trans = "free_list"]

AtTail(e) == e.pos + e.size = total_size_of_data

DestroyInTx(s, n) ==
  /\ InTx(s)
  /\ LogOp(s, [id |-> n, type |-> "destroy", pos |-> 0, size |-> 0,
               old_tran_id |-> 0, old_tran_op |-> index[n].tran_op])
  /\ index' = [index EXCEPT ![n] =
                 [@ EXCEPT !.tran_id = tran_id[s], !.tran_op = 0, !.trans = "delete"]]
  /\ UNCHANGED << headerVars, tran_id, read >>

DestroyPlain(s, n) ==
  /\ s \in PlainSession /\ ~InTx(s) /\ transaction_id < MaxTran
  /\ index' = [index EXCEPT ![n] =
                 Freed([@ EXCEPT !.tran_id = transaction_id, !.tran_op = 0])]
  /\ index_free_list' = n + 1
  /\ total_size_of_data' = IF AtTail(index[n]) THEN total_size_of_data - index[n].size
                           ELSE total_size_of_data
  /\ transaction_id' = transaction_id + 1
  /\ read' = Outdated(n)
  /\ UNCHANGED << total_entries, tranVars >>

\* "destroy" looks at neither the readers nor the writers of the object
Destroy(s, n) ==
  /\ Section(s) /\ Known(n) /\ Writable(s, index[n])
  /\ \/ DestroyInTx(s, n)
     \/ DestroyPlain(s, n)
  /\ UNCHANGED << data, rp_impl_lock, pc, trans_data, write, page_copy, work >>

-----------------------------------------------------------------------------
\* where a read finds an object; the page or the operation it comes from is
\* looked at after the section ends
ReadFrom(s, e) ==
  IF e.trans = "none" \/ e.tran_id # tran_id[s]
  THEN [from |-> "data", pos |-> e.pos, size |-> e.size]
  ELSE IF e.tran_op = 0  \* read_transaction_op looks before its first operation
       THEN [from |-> "undefined", pos |-> 0, size |-> 0]
       ELSE [from |-> "trans", pos |-> ops[s][e.tran_op].pos, size |-> ops[s][e.tran_op].size]

\* A faulty StartRead: an entry being written is read all the same.
StartReadWhileLocked(s, n) ==
  LET at == ReadFrom(s, index[n])
  IN /\ s \in Reader /\ Section(s) /\ Known(n)
     /\ read' = [read EXCEPT ![s] = [num |-> n, from |-> at.from, pos |-> at.pos,
                                     size |-> at.size, outdated |-> FALSE, got |-> << >>]]
     /\ pc' = [pc EXCEPT ![s] = "reading"]
     /\ UNCHANGED << headerVars, index, data, rp_impl_lock, tranVars, trans_data, write, page_copy, work >>

StartRead(s, n) ==
  LET at == ReadFrom(s, index[n])
  IN /\ s \in Reader /\ Section(s) /\ Known(n) /\ ~CurrentlyWriting(n)
     /\ index[n].lock = "none"
     /\ read' = [read EXCEPT ![s] = [num |-> n, from |-> at.from, pos |-> at.pos,
                                     size |-> at.size, outdated |-> FALSE, got |-> << >>]]
     /\ pc' = [pc EXCEPT ![s] = "reading"]
     /\ UNCHANGED << headerVars, index, data, rp_impl_lock, tranVars, trans_data, write, page_copy, work >>

\* the next page of the object, copied from the cache
ReadPage(s) ==
  LET r    == read[s]
      next == r.pos + Len(r.got)
      stop == IF (PageOf(next) + 1) * PageSize < r.pos + r.size
              THEN (PageOf(next) + 1) * PageSize ELSE r.pos + r.size
  IN /\ pc[s] = "reading" /\ Len(r.got) < r.size
     /\ read' = [read EXCEPT ![s].got = @ \o
          [i \in 1 .. stop - next |->
             IF r.from = "data" THEN data[next + i - 1] ELSE trans_data[s][next + i - 1]]]
     /\ UNCHANGED << headerVars, index, data, rp_impl_lock, pc, tranVars, trans_data, write, page_copy, work >>

ReadDone(s) == pc[s] = "reading" /\ Len(read[s].got) = read[s].size

FinishRead(s) ==
  /\ ReadDone(s)
  /\ read' = [read EXCEPT ![s] = NoRead]
  /\ pc' = [pc EXCEPT ![s] = "idle"]
  /\ UNCHANGED << headerVars, index, data, rp_impl_lock, tranVars, trans_data, write, page_copy, work >>

-----------------------------------------------------------------------------
TransactionStart(s) ==
  /\ Section(s) /\ Depth(s) < MaxLevel
  /\ IF InTx(s)
     THEN UNCHANGED << transaction_id, tran_id >>
     ELSE /\ transaction_id < MaxTran
          /\ tran_id' = [tran_id EXCEPT ![s] = transaction_id]
          /\ transaction_id' = transaction_id + 1
  /\ levels' = [levels EXCEPT ![s] =
       Append(@, [size |-> 0, offset |-> total_trans_size[s],
                  op_count |-> 0, op_offset |-> Len(ops[s])])]
  /\ UNCHANGED << total_entries, total_size_of_data, index_free_list, index, data,
                  rp_impl_lock, pc, ops, total_trans_size, trans_data, write, page_copy, read, work >>

\* the commit of an inner transaction hands its operations to the outer one
CommitInner(s) ==
  /\ Section(s) /\ Depth(s) > 1
  /\ levels' = [levels EXCEPT ![s] =
       [Pop(s) EXCEPT ![Depth(s) - 1].size = @ + Top(s).size,
                      ![Depth(s) - 1].op_count = @ + Top(s).op_count]]
  /\ UNCHANGED << headerVars, index, data, rp_impl_lock, pc, tran_id, ops,
                  total_trans_size, trans_data, write, page_copy, read, work >>

CommitBegin(s) ==
  /\ Section(s) /\ Depth(s) = 1
  /\ rp_impl_lock' = s
  /\ work' = [work EXCEPT ![s] = [NoWork EXCEPT !.cursor = Top(s).op_count,
                                                !.op_count = Top(s).op_count]]
  /\ levels' = [levels EXCEPT ![s] = Pop(s)]
  /\ pc' = [pc EXCEPT ![s] = "committing"]
  /\ UNCHANGED << headerVars, index, data, tran_id, ops, total_trans_size, trans_data, write, page_copy, read >>

\* A faulty TailDeleted: extents count as touching without being compared.
TailDeletedUnchecked(k, e) ==
  LET prior == k.prior_deleted_bytes + k.last_delete_size
  IN [given_back |-> IF AtTail(e) THEN e.size + prior ELSE 0,
      work |-> IF AtTail(e) THEN [k EXCEPT !.last_delete_pos = 0, !.last_delete_size = 0,
                                           !.prior_deleted_bytes = 0]
               ELSE [k EXCEPT !.last_delete_pos = e.pos, !.last_delete_size = e.size,
                              !.prior_deleted_bytes = prior]]

\* An extent at the tail of the data file is given back, with the bytes of the
\* extents just before it when they were deleted by the operations just before.
TailDeleted(k, e) ==
  LET touching == k.last_delete_pos + k.last_delete_size = e.pos
      prior == IF k.last_delete_size = 0 THEN k.prior_deleted_bytes
               ELSE IF touching THEN k.prior_deleted_bytes + k.last_delete_size ELSE 0
      clear == (k.last_delete_size # 0 /\ ~touching) \/ AtTail(e)
  IN [given_back |-> IF AtTail(e) THEN e.size + prior ELSE 0,
      work |-> IF clear THEN [k EXCEPT !.last_delete_pos = 0, !.last_delete_size = 0,
                                       !.prior_deleted_bytes = 0]
               ELSE [k EXCEPT !.last_delete_pos = e.pos, !.last_delete_size = e.size,
                              !.prior_deleted_bytes = prior]]

CommitDelete(s, n) ==
  LET e == index[n]
      tail == TailDeleted(work[s], e)
  IN /\ e.trans = "delete"
     /\ total_size_of_data' = total_size_of_data - tail.given_back
     /\ work' = [work EXCEPT ![s] = [tail.work EXCEPT !.cursor = @ - 1]]
     /\ index' = [index EXCEPT ![n] = [Freed(e) EXCEPT !.tran_op = 0]]
     /\ index_free_list' = n + 1
     /\ read' = Outdated(n)
     /\ UNCHANGED data

CommitChange(s, op) ==
  LET e == index[op.id]
      pos == IF op.type = "append" THEN total_size_of_data ELSE e.pos
  IN /\ e.trans = "change"
     /\ total_size_of_data' = IF op.type = "append" THEN total_size_of_data + op.size
                              ELSE total_size_of_data
     /\ data' = [c \in Cell |-> IF c \in pos .. pos + op.size - 1
                                THEN trans_data[s][op.pos + (c - pos)] ELSE data[c]]
     /\ index' = [index EXCEPT ![op.id] = [e EXCEPT !.pos = pos, !.size = op.size,
                                                    !.tran_op = 0, !.trans = "none"]]
     /\ work' = [work EXCEPT ![s].cursor = @ - 1]
     /\ read' = Outdated(op.id)
     /\ UNCHANGED index_free_list

\* A faulty CommitSkip: the loop does not go on.
CommitSkipStaying(s, n) ==
  /\ index[n].trans \in {"none", "free_list"}
  /\ UNCHANGED << total_size_of_data, index_free_list, index, data, work, read >>

\* an earlier operation of an entry that a later one has already dealt with
CommitSkip(s, n) ==
  /\ index[n].trans \in {"none", "free_list"}
  /\ work' = [work EXCEPT ![s].cursor = @ - 1]
  /\ UNCHANGED << total_size_of_data, index_free_list, index, data, read >>

CommitOp(s) ==
  LET op == ops[s][work[s].cursor]
  IN /\ pc[s] = "committing" /\ work[s].cursor > 0
     /\ op.id < total_entries /\ index[op.id].lock = "none"
     /\ \/ CommitDelete(s, op.id)
        \/ CommitChange(s, op)
        \/ CommitSkip(s, op.id)
     /\ UNCHANGED << total_entries, transaction_id, rp_impl_lock, pc, tranVars,
                     trans_data, write, page_copy >>

\* transaction_completed with no transaction left: end_transaction empties the
\* caches, and the mutex is let go
CommitEnd(s) ==
  /\ pc[s] = "committing" /\ work[s].cursor = 0
  /\ rp_impl_lock' = NoSession
  /\ ops' = [ops EXCEPT ![s] = << >>]
  /\ total_trans_size' = [total_trans_size EXCEPT ![s] = 0]
  /\ trans_data' = [trans_data EXCEPT ![s] = NoTransData]
  /\ work' = [work EXCEPT ![s] = NoWork]
  /\ pc' = [pc EXCEPT ![s] = "idle"]
  /\ UNCHANGED << headerVars, index, data, tran_id, levels, write, page_copy, read >>

-----------------------------------------------------------------------------
RollbackBegin(s) ==
  /\ Section(s) /\ InTx(s)
  /\ rp_impl_lock' = s
  /\ work' = [work EXCEPT ![s] = [NoWork EXCEPT !.cursor = Top(s).op_count,
                                                !.op_count = Top(s).op_count,
                                                !.op_offset = Top(s).op_offset,
                                                !.size = Top(s).size]]
  /\ levels' = [levels EXCEPT ![s] = Pop(s)]
  /\ pc' = [pc EXCEPT ![s] = "rolling back"]
  /\ UNCHANGED << headerVars, index, data, tran_id, ops, total_trans_size, trans_data, write, page_copy, read >>

\* A faulty Undone: the transaction id is put back even when none was kept.
UndoneAlways(op, e) ==
  LET created == op.old_tran_op = 0 /\ op.old_tran_id = -1
      was == [e EXCEPT !.tran_op = op.old_tran_op, !.tran_id = op.old_tran_id]
  IN IF created THEN Freed(was)
     ELSE [was EXCEPT !.trans = IF op.old_tran_op = 0 THEN "none" ELSE "change"]

\* the entry that an operation found, from what the operation kept of it
Undone(op, e) ==
  LET created == op.old_tran_op = 0 /\ op.old_tran_id = -1
      was == [e EXCEPT !.tran_op = op.old_tran_op,
                       !.tran_id = IF op.old_tran_id > 0 THEN op.old_tran_id ELSE @]
  IN IF created THEN Freed(was)
     ELSE [was EXCEPT !.trans = IF op.old_tran_op = 0 THEN "none" ELSE "change"]

RollbackOp(s) ==
  LET op == ops[s][work[s].op_offset + work[s].cursor]
      e  == index[op.id]
      undo == e.trans \in {"change", "delete"}
      free == undo /\ Undone(op, e).trans = "free_list"
  IN /\ pc[s] = "rolling back" /\ work[s].cursor > 0 /\ op.id < total_entries
     /\ index' = IF undo THEN [index EXCEPT ![op.id] = Undone(op, e)] ELSE index
     /\ index_free_list' = IF free THEN op.id + 1 ELSE index_free_list
     /\ total_size_of_data' = IF free /\ AtTail(e) THEN total_size_of_data - e.size
                              ELSE total_size_of_data
     /\ work' = [work EXCEPT ![s].cursor = @ - 1]
     /\ read' = IF free THEN Outdated(op.id) ELSE read
     /\ UNCHANGED << total_entries, transaction_id, data, rp_impl_lock, pc, tranVars,
                     trans_data, write, page_copy >>

RollbackEnd(s) ==
  /\ pc[s] = "rolling back" /\ work[s].cursor = 0
  /\ rp_impl_lock' = NoSession
  /\ ops' = [ops EXCEPT ![s] = [i \in 1 .. Len(@) - work[s].op_count |-> @[i]]]
  /\ total_trans_size' = [total_trans_size EXCEPT ![s] = @ - work[s].size]
  /\ trans_data' = IF InTx(s) THEN trans_data ELSE [trans_data EXCEPT ![s] = NoTransData]
  /\ work' = [work EXCEPT ![s] = NoWork]
  /\ pc' = [pc EXCEPT ![s] = "idle"]
  /\ UNCHANGED << headerVars, index, data, tran_id, levels, write, page_copy, read >>

-----------------------------------------------------------------------------
\* no call in progress and no transaction open: the callers may all be done
Quiescent == /\ \A s \in Session : pc[s] = "idle" /\ ~InTx(s)
             /\ UNCHANGED vars

\* the steps of a session that has the impl mutex
HolderStep(s) == CommitOp(s) \/ CommitEnd(s) \/ RollbackOp(s) \/ RollbackEnd(s)

Next == \/ \E s \in Session, size \in Size, val \in Value :
             \/ Create(s, size, val)
             \/ Revive(s, size, val)
             \/ \E n \in Num : Update(s, n, size, val)
        \/ \E s \in Session, n \in Num : Destroy(s, n) \/ StartRead(s, n)
        \/ \E s \in Session :
             \/ FinishStore(s) \/ FetchPage(s) \/ NextPage(s) \/ FinishWrite(s)
             \/ ReadPage(s) \/ FinishRead(s)
             \/ TransactionStart(s) \/ CommitInner(s) \/ CommitBegin(s)
             \/ RollbackBegin(s) \/ HolderStep(s)
        \/ Quiescent

\* Every thread that holds the mutex goes on running; whether a caller makes a
\* call, and which thread gets the mutex next, is left open.
Fairness == \A s \in Session : WF_vars(HolderStep(s))

Spec == Init /\ [][Next]_vars /\ Fairness

-----------------------------------------------------------------------------
Fill  == Value \cup {0}
Entry == [pos : Int, size : Nat, tran_id : Nat, tran_op : Nat,
          lock : {"none", "entry"}, trans : {"none", "change", "delete", "free_list"}]
Op    == [id : Num, type : {"update", "append", "destroy"}, pos : Nat, size : Nat,
          old_tran_id : Nat \cup {-1}, old_tran_op : Nat]
Level == [size : Nat, offset : Nat, op_count : Nat, op_offset : Nat]
Write == [num : Num \cup {-1}, pos : Int, size : Nat, val : Fill, entry : Entry]
Work  == [cursor : Nat, op_count : Nat, op_offset : Nat, size : Nat,
          last_delete_pos : Int, last_delete_size : Nat, prior_deleted_bytes : Nat]

\* The variables hold what the fields of the code's structures can hold; what
\* the cells of the files hold is left to the properties about reads.
TypeOK ==
  /\ total_entries \in 0 .. MaxEntries /\ total_size_of_data \in Int
  /\ index_free_list \in 0 .. MaxEntries /\ transaction_id \in Nat
  /\ index \in [Num -> Entry]
  /\ rp_impl_lock \in Session \cup {NoSession}
  /\ pc \in [Session -> {"idle", "storing", "writing", "reading", "committing", "rolling back"}]
  /\ tran_id \in [Session -> Nat] /\ levels \in [Session -> Seq(Level)]
  /\ ops \in [Session -> Seq(Op)] /\ total_trans_size \in [Session -> Nat]
  /\ write \in [Session -> Write] /\ work \in [Session -> Work]

\* Entry 0 is written as 1 in the list, so that 0 can end it.
Free == {n \in 0 .. total_entries - 1 : index[n].trans = "free_list"}

\* The free list never has two links to one entry nor a link to an entry that
\* is not free: reviving the head ("unexpected trans flag value found in
\* freelist entry") never finds an object there.
FreeListLinks ==
  /\ index_free_list # 0 => index_free_list - 1 \in Free
  /\ \A n \in Free :
       index[n].pos # 0 => index[n].pos - 1 \in Free /\ index[n].pos # index_free_list
  /\ \A n, m \in Free : index[n].pos = index[m].pos /\ index[n].pos # 0 => n = m

\* No freed entry is lost: the free list, followed from its head, comes to
\* every free entry and then ends.
FreeListReachesAll ==
  LET link[k \in Nat] == IF k = 0 THEN index_free_list
                         ELSE IF link[k - 1] = 0 THEN 0 ELSE index[link[k - 1] - 1].pos
      count == Cardinality(Free)
  IN /\ {link[k] : k \in 0 .. count - 1} = {n + 1 : n \in Free}
     /\ link[count] = 0

Extent(n) == index[n].pos .. index[n].pos + index[n].size - 1
Stored == {n \in 0 .. total_entries - 1 : index[n].trans # "free_list"}

\* Two objects never share a cell of the data file, and none lies beyond
\* "total_size_of_data", where the next append goes: an object is stored
\* contiguously and moves when it grows.
ExtentsDisjoint ==
  \A n \in Stored : /\ Extent(n) \subseteq 0 .. total_size_of_data - 1
                    /\ \A m \in Stored : n # m => Extent(n) \cap Extent(m) = {}

\* the operations of a session that are neither committed nor undone yet
Live(s) == IF pc[s] \in {"committing", "rolling back"}
           THEN work[s].op_offset + work[s].cursor ELSE Len(ops[s])
Active(s) == InTx(s) \/ pc[s] \in {"committing", "rolling back"}
LastOp(s, n, i) == /\ ops[s][i].id = n
                   /\ \A j \in i + 1 .. Live(s) : ops[s][j].id # n

\* A changed or deleted entry belongs to exactly one open transaction and names
\* the last operation that this transaction still has for it; and an operation
\* that is not undone yet keeps its entry marked: through any nesting of
\* commits and rollbacks.
EntryNamesLastOp ==
  /\ \A n \in Num : index[n].trans \in {"change", "delete"} =>
       \E s \in Session :
         /\ \A t \in Session : Active(t) /\ tran_id[t] = index[n].tran_id <=> t = s
         /\ \E i \in 1 .. Live(s) :
              /\ LastOp(s, n, i)
              /\ IF index[n].trans = "delete"
                 THEN ops[s][i].type = "destroy" /\ index[n].tran_op = 0
                 ELSE ops[s][i].type # "destroy" /\ index[n].tran_op = i
  /\ \A s \in Session : pc[s] # "committing" =>
       \A i \in 1 .. Live(s) : /\ index[ops[s][i].id].trans \in {"change", "delete"}
                               /\ index[ops[s][i].id].tran_id = tran_id[s]

\* The data of a store goes where its operation says it is: the position
\* computed from the nested levels is the one computed from the total.
StoredWhereLogged ==
  \A s \in Session : pc[s] = "storing" =>
    LET op == ops[s][Len(ops[s])]
    IN op.id = write[s].num /\ op.pos = write[s].pos /\ op.size = write[s].size

\* A locked entry has one writer, which will unlock it, and it still is the
\* entry that this writer writes back.
LockedByWriter ==
  \A n \in Num : index[n].lock = "entry" =>
    \E s \in Session : /\ pc[s] = "writing" /\ write[s].num = n
                      /\ write[s].entry = index[n]
                      /\ \A t \in Session : pc[t] = "writing" /\ write[t].num = n => t = s

SameCells(q) == \A i, j \in DOMAIN q : q[i] = q[j]

\* "cannot write object currently being read": nothing is written into the cells
\* of an object while a read is on its way through them.
NoTornRead ==
  \A s \in Session : ReadDone(s) => SameCells(read[s].got)

\* The mutex held by a commit or a rollback is let go in the end: the loop over
\* the operations comes to its end and stops on none of them.
MutexIsReleased ==
  \A s \in Session : rp_impl_lock = s ~> rp_impl_lock = NoSession
=============================================================================
