--------------------------- MODULE OdsStoreProofs ---------------------------
(* Proofs about OdsStore, for any number of sessions, entries, objects and   *)
(* any nesting of transactions: its invariants, and the one about the cells   *)
(* of the data file that OdsObjectsProofs rests on.                           *)
EXTENDS OdsStore, SequenceTheorems, FiniteSetTheorems, WellFoundedInduction,
        NaturalsInduction, TLAPS

(* Where the operations and the data of a session's open levels end. *)
OpsEnd(s)  == IF InTx(s) THEN Top(s).op_offset + Top(s).op_count ELSE 0
DataEnd(s) == IF InTx(s) THEN Top(s).offset + Top(s).size ELSE 0

LevelsTouch(s) ==
  /\ InTx(s) => levels[s][1].op_offset = 0 /\ levels[s][1].offset = 0
  /\ \A l \in 1 .. Depth(s) - 1 :
       /\ levels[s][l + 1].op_offset = levels[s][l].op_offset + levels[s][l].op_count
       /\ levels[s][l + 1].offset = levels[s][l].offset + levels[s][l].size

(* The levels of a session's transactions lie end to end, from the first      *)
(* operation logged to the last; a level being committed or undone comes      *)
(* after them.                                                                *)
Tile(s) ==
  /\ LevelsTouch(s)
  /\ pc[s] \notin {"committing", "rolling back"} =>
       Len(ops[s]) = OpsEnd(s) /\ total_trans_size[s] = DataEnd(s)
  /\ pc[s] = "rolling back" =>
       /\ work[s].op_offset = OpsEnd(s) /\ Len(ops[s]) = OpsEnd(s) + work[s].op_count
       /\ total_trans_size[s] = DataEnd(s) + work[s].size
       /\ work[s].cursor <= work[s].op_count
  /\ pc[s] = "committing" =>
       /\ ~InTx(s) /\ Len(ops[s]) = work[s].op_count /\ work[s].cursor <= work[s].op_count

PC == {"idle", "storing", "writing", "reading", "committing", "rolling back"}

SessionsOK ==
  /\ pc \in [Session -> PC] /\ tran_id \in [Session -> Nat]
  /\ levels \in [Session -> Seq(Level)] /\ ops \in [Session -> Seq(Op)]
  /\ total_trans_size \in [Session -> Nat] /\ work \in [Session -> Work]
  /\ rp_impl_lock \in Session \cup {NoSession}

SessionInv == SessionsOK /\ \A s \in Session : Tile(s)

(* A plain writer holds the entry it will write back, and nobody else does. *)
LockInv ==
  /\ \A s \in Session : pc[s] = "writing" =>
       /\ write[s].num \in 0 .. total_entries - 1
       /\ write[s].entry = index[write[s].num] /\ write[s].entry.lock = "entry"
  /\ \A s, t \in Session :
       pc[s] = "writing" /\ pc[t] = "writing" /\ write[s].num = write[t].num => s = t
  /\ \A n \in Num : index[n].lock = "entry" =>
       /\ index[n].trans = "none"
       /\ \E s \in Session : pc[s] = "writing" /\ write[s].num = n

HeaderOK == /\ total_entries \in 0 .. MaxEntries /\ total_size_of_data \in Int
            /\ index_free_list \in 0 .. MaxEntries /\ transaction_id \in Nat
            /\ index \in [Num -> Entry] /\ write \in [Session -> Write]

(* The whole free list, as the path that its links make: the first c numbers  *)
(* of q are the free entries, each once, and the next one ends it.            *)
FreePath(q, c) ==
  /\ q[0] = index_free_list /\ q[c] = 0
  /\ \A k \in 0 .. c - 1 : q[k] # 0 /\ q[k] - 1 \in Free /\ q[k + 1] = index[q[k] - 1].pos
  /\ \A j, k \in 0 .. c - 1 : q[j] = q[k] => j = k
  /\ \A n \in Free : \E k \in 0 .. c - 1 : q[k] = n + 1

FreeListWhole == \E c \in Nat : \E q \in [Nat -> Int] : FreePath(q, c)

ListOK == FreeListLinks /\ FreeListWhole

IndexInv == HeaderOK /\ LockInv /\ ListOK

(* The inductive invariant. *)
StoreInv == SessionInv /\ IndexInv /\ StoredWhereLogged

-----------------------------------------------------------------------------
(* The levels of a session, pushed, popped and counted up.                    *)
LEMMA SeqFacts ==
  ASSUME NEW q \in Seq(Level)
  PROVE  /\ Len(q) \in Nat
         /\ q # << >> <=> Len(q) > 0
         /\ \A i \in 1 .. Len(q) : q[i] \in Level
BY EmptySeq, LenProperties, ElementOfSeq

(* A sequence of levels without its last one. *)
LEMMA PopFacts ==
  ASSUME NEW q \in Seq(Level), Len(q) > 0,
         NEW p, p = [l \in 1 .. Len(q) - 1 |-> q[l]]
  PROVE  /\ p \in Seq(Level) /\ Len(p) = Len(q) - 1
         /\ \A i \in 1 .. Len(q) - 1 : p[i] = q[i]
         /\ p # << >> <=> Len(q) > 1
<1>1. Len(q) \in Nat
  BY LenProperties
<1>2. p \in Seq(Level) /\ Len(p) = Len(q) - 1
  BY <1>1, SeqFacts
<1>3. p # << >> <=> Len(p) > 0
  BY <1>2, SeqFacts
<1> QED BY <1>1, <1>2, <1>3

Counted(level, count, size) == [level EXCEPT !.op_count = count, !.size = size]

(* A level with another count and size keeps where it begins. *)
LEMMA CountedLevel ==
  ASSUME NEW level \in Level, NEW count \in Nat, NEW size \in Nat
  PROVE  /\ Counted(level, count, size) \in Level
         /\ Counted(level, count, size).op_offset = level.op_offset
         /\ Counted(level, count, size).offset = level.offset
         /\ Counted(level, count, size).op_count = count
         /\ Counted(level, count, size).size = size
BY DEF Level, Counted

(* A session that a step leaves alone keeps its levels. *)
LEMMA TileFrame ==
  ASSUME NEW t \in Session, Tile(t),
         levels'[t] = levels[t], ops'[t] = ops[t], work'[t] = work[t], pc'[t] = pc[t],
         total_trans_size'[t] = total_trans_size[t]
  PROVE  Tile(t)'
<1>1. InTx(t)' = InTx(t) /\ Depth(t)' = Depth(t)
  BY DEF InTx, Depth
<1>2. OpsEnd(t)' = OpsEnd(t) /\ DataEnd(t)' = DataEnd(t)
  BY DEF OpsEnd, DataEnd, InTx, Top, Depth
<1>3. LevelsTouch(t) /\ LevelsTouch(t)' = LevelsTouch(t)
  BY <1>1 DEF LevelsTouch, Tile
<1> QED BY <1>1, <1>2, <1>3 DEF Tile

(* Logging an operation counts it into the innermost level. *)
LEMMA LogKeepsTile ==
  ASSUME SessionInv, NEW s \in Session, NEW op \in Op, InTx(s), pc[s] = "idle",
         LogOp(s, op), pc' \in [Session -> PC], \A t \in Session \ {s} : pc'[t] = pc[t],
         pc'[s] \in {"idle", "storing"}, UNCHANGED << work, tran_id, rp_impl_lock >>
  PROVE  SessionInv'
<1> DEFINE d == Depth(s)
           top == Counted(Top(s), Top(s).op_count + 1, Top(s).size + op.size)
<1>1. levels[s] \in Seq(Level) /\ d \in Nat /\ d > 0 /\ Top(s) \in Level
  BY SeqFacts DEF SessionInv, SessionsOK, InTx, Depth, Top
<1>2. /\ op.size \in Nat /\ top \in Level
      /\ top.op_offset = Top(s).op_offset /\ top.offset = Top(s).offset
      /\ top.op_count = Top(s).op_count + 1 /\ top.size = Top(s).size + op.size
  <2>1. op.size \in Nat
    BY DEF Op
  <2> DEFINE c == Top(s).op_count + 1
             z == Top(s).size + op.size
  <2>2. c \in Nat /\ z \in Nat
    BY <1>1, <2>1 DEF Level
  <2> HIDE DEF c, z
  <2>3. /\ Counted(Top(s), c, z) \in Level
        /\ Counted(Top(s), c, z).op_offset = Top(s).op_offset
        /\ Counted(Top(s), c, z).offset = Top(s).offset
        /\ Counted(Top(s), c, z).op_count = c /\ Counted(Top(s), c, z).size = z
    BY <1>1, <2>2, CountedLevel
  <2> QED BY <2>1, <2>3 DEF c, z
<1>3. levels'[s] = [levels[s] EXCEPT ![d] = top]
  BY <1>1 DEF Counted, LogOp, SessionInv, SessionsOK, Level, Top, Depth
<1>4. /\ levels'[s] \in Seq(Level) /\ Len(levels'[s]) = d
      /\ \A i \in 1 .. d : levels'[s][i] = IF i = d THEN top ELSE levels[s][i]
      /\ levels'[s] # << >>
  <2>1. levels'[s] \in Seq(Level) /\ Len(levels'[s]) = d
        /\ \A i \in 1 .. d : levels'[s][i] = IF i = d THEN top ELSE levels[s][i]
    BY <1>1, <1>2, <1>3, ExceptSeq DEF Depth
  <2> QED BY <2>1, <1>1, EmptySeq
<1>5. levels' \in [Session -> Seq(Level)] /\ \A t \in Session \ {s} : levels'[t] = levels[t]
  BY <1>4 DEF LogOp, SessionInv, SessionsOK
<1>6. /\ ops' \in [Session -> Seq(Op)] /\ \A t \in Session \ {s} : ops'[t] = ops[t]
      /\ Len(ops'[s]) = Len(ops[s]) + 1 /\ Len(ops[s]) \in Nat
  BY AppendProperties, LenProperties DEF LogOp, SessionInv, SessionsOK
<1>7. /\ total_trans_size' \in [Session -> Nat]
      /\ \A t \in Session \ {s} : total_trans_size'[t] = total_trans_size[t]
      /\ total_trans_size'[s] = total_trans_size[s] + op.size
  BY DEF LogOp, SessionInv, SessionsOK, Op
<1>8. SessionsOK'
  BY <1>5, <1>6, <1>7 DEF SessionInv, SessionsOK
<1>9. ASSUME NEW t \in Session \ {s} PROVE Tile(t)'
  BY <1>5, <1>6, <1>7, TileFrame DEF SessionInv
<1>10. Tile(s)'
  <2>1. /\ InTx(s)' /\ Depth(s)' = d /\ Top(s)' = top
        /\ \A i \in 1 .. d - 1 : levels'[s][i] = levels[s][i]
    BY <1>1, <1>4 DEF InTx, Depth, Top
  <2>2. LevelsTouch(s)
    BY DEF SessionInv, Tile
  <2>3. LevelsTouch(s)'
    <3>1. levels'[s][1].op_offset = 0 /\ levels'[s][1].offset = 0
      <4>1. levels[s][1].op_offset = 0 /\ levels[s][1].offset = 0
        BY <2>2 DEF LevelsTouch
      <4>2. CASE d = 1
        BY <4>1, <4>2, <1>1, <1>2, <1>4 DEF Top, Depth
      <4>3. CASE d > 1
        BY <4>1, <4>3, <1>1, <2>1
      <4> QED BY <1>1, <4>2, <4>3
    <3>2. ASSUME NEW l \in 1 .. d - 1
          PROVE  /\ levels'[s][l + 1].op_offset = levels'[s][l].op_offset + levels'[s][l].op_count
                 /\ levels'[s][l + 1].offset = levels'[s][l].offset + levels'[s][l].size
      <4>1. /\ levels[s][l + 1].op_offset = levels[s][l].op_offset + levels[s][l].op_count
            /\ levels[s][l + 1].offset = levels[s][l].offset + levels[s][l].size
        BY <2>2 DEF LevelsTouch
      <4>2. levels'[s][l] = levels[s][l]
        BY <2>1
      <4>3. /\ levels'[s][l + 1].op_offset = levels[s][l + 1].op_offset
            /\ levels'[s][l + 1].offset = levels[s][l + 1].offset
        <5>1. CASE l + 1 = d
          BY <5>1, <1>1, <1>2, <1>4 DEF Top, Depth
        <5>2. CASE l + 1 # d
          BY <5>2, <1>1, <2>1
        <5> QED BY <5>1, <5>2
      <4> QED BY <4>1, <4>2, <4>3
    <3> QED BY <2>1, <3>1, <3>2 DEF LevelsTouch
  <2>4. OpsEnd(s)' = OpsEnd(s) + 1 /\ DataEnd(s)' = DataEnd(s) + op.size
    <3>1. OpsEnd(s) = Top(s).op_offset + Top(s).op_count /\ DataEnd(s) = Top(s).offset + Top(s).size
      BY DEF OpsEnd, DataEnd
    <3>2. OpsEnd(s)' = Top(s)'.op_offset + Top(s)'.op_count /\ DataEnd(s)' = Top(s)'.offset + Top(s)'.size
      BY <2>1 DEF OpsEnd, DataEnd
    <3> HIDE DEF top
    <3>3. Top(s).op_offset \in Nat /\ Top(s).op_count \in Nat /\ Top(s).offset \in Nat /\ Top(s).size \in Nat
      BY <1>1 DEF Level
    <3> QED BY <1>2, <2>1, <3>1, <3>2, <3>3
  <2> QED BY <2>1, <2>3, <2>4, <1>6, <1>7 DEF SessionInv, Tile
<1> QED BY <1>8, <1>9, <1>10 DEF SessionInv

(* A call that opens, closes or leaves a session's levels alone, and does not *)
(* log anything, has to be looked at for that session only.                   *)
LEMMA OthersKeepTile ==
  ASSUME SessionInv, NEW s \in Session, SessionsOK', Tile(s)',
         \A t \in Session \ {s} :
           /\ levels'[t] = levels[t] /\ ops'[t] = ops[t] /\ work'[t] = work[t]
           /\ pc'[t] = pc[t] /\ total_trans_size'[t] = total_trans_size[t]
  PROVE  SessionInv'
<1>1. ASSUME NEW t \in Session \ {s} PROVE Tile(t)'
  BY TileFrame DEF SessionInv
<1> QED BY <1>1 DEF SessionInv

(* A read or write goes from one step to the next. *)
LEMMA CallKeepsTile ==
  ASSUME SessionInv, NEW s \in Session, UNCHANGED << tranVars, work, rp_impl_lock >>,
         pc' \in [Session -> PC], \A t \in Session \ {s} : pc'[t] = pc[t],
         pc[s] \notin {"committing", "rolling back"}, pc'[s] \notin {"committing", "rolling back"}
  PROVE  SessionInv'
<1>1. SessionsOK'
  BY DEF SessionInv, SessionsOK, tranVars
<1>2. /\ OpsEnd(s)' = OpsEnd(s) /\ DataEnd(s)' = DataEnd(s)
      /\ LevelsTouch(s)' = LevelsTouch(s)
  BY DEF tranVars, OpsEnd, DataEnd, LevelsTouch, InTx, Top, Depth
<1>3. Tile(s)'
  BY <1>2 DEF SessionInv, Tile, tranVars
<1> QED BY <1>1, <1>3, OthersKeepTile DEF tranVars

(* What is left of the levels when the innermost one is taken away. *)
LEMMA PoppedLevels ==
  ASSUME SessionInv, NEW s \in Session, InTx(s),
         NEW q \in Seq(Level), Len(q) = Depth(s) - 1,
         \A l \in 1 .. Depth(s) - 1 : q[l] = levels[s][l]
  PROVE  /\ q # << >> => q[1].op_offset = 0 /\ q[1].offset = 0
         /\ \A l \in 1 .. Len(q) - 1 :
              /\ q[l + 1].op_offset = q[l].op_offset + q[l].op_count
              /\ q[l + 1].offset = q[l].offset + q[l].size
         /\ q # << >> <=> Len(q) > 0
         /\ Top(s).op_offset = IF q = << >> THEN 0 ELSE q[Len(q)].op_offset + q[Len(q)].op_count
         /\ Top(s).offset = IF q = << >> THEN 0 ELSE q[Len(q)].offset + q[Len(q)].size
<1>1. levels[s] \in Seq(Level) /\ Depth(s) \in Nat /\ Depth(s) > 0
  BY SeqFacts DEF SessionInv, SessionsOK, InTx, Depth
<1>2. q # << >> <=> Len(q) > 0
  BY SeqFacts
<1>3. LevelsTouch(s)
  BY DEF SessionInv, Tile
<1>4. q # << >> => q[1].op_offset = 0 /\ q[1].offset = 0
  BY <1>1, <1>2, <1>3 DEF LevelsTouch
<1>5. ASSUME NEW l \in 1 .. Len(q) - 1
      PROVE  /\ q[l + 1].op_offset = q[l].op_offset + q[l].op_count
             /\ q[l + 1].offset = q[l].offset + q[l].size
  <2>1. l \in 1 .. Depth(s) - 1 /\ l + 1 \in 1 .. Depth(s) - 1
    BY <1>1
  <2>2. q[l] = levels[s][l] /\ q[l + 1] = levels[s][l + 1]
    BY <2>1
  <2> QED BY <1>3, <2>1, <2>2 DEF LevelsTouch
<1>6. CASE q = << >>
  <2>1. Depth(s) = 1
    BY <1>1, <1>2, <1>6
  <2> QED BY <1>3, <1>4, <1>5, <1>6, <1>2, <2>1 DEF LevelsTouch, Top
<1>7. CASE q # << >>
  <2>1. Len(q) \in 1 .. Depth(s) - 1 /\ Len(q) + 1 = Depth(s)
    BY <1>1, <1>2, <1>7
  <2>2. q[Len(q)] = levels[s][Len(q)]
    BY <2>1
  <2>3. /\ levels[s][Len(q) + 1].op_offset = levels[s][Len(q)].op_offset + levels[s][Len(q)].op_count
        /\ levels[s][Len(q) + 1].offset = levels[s][Len(q)].offset + levels[s][Len(q)].size
    BY <1>3, <2>1 DEF LevelsTouch
  <2>4. Top(s) = levels[s][Len(q) + 1]
    BY <2>1 DEF Top
  <2> QED BY <1>2, <1>4, <1>5, <1>7, <2>2, <2>3, <2>4
<1> QED BY <1>6, <1>7

(* transaction_start: the new level begins where the ones before end. *)
LEMMA StartKeepsTile ==
  ASSUME StoreInv, NEW s \in Session, TransactionStart(s)
  PROVE  SessionInv'
<1> DEFINE new == [size |-> 0, offset |-> total_trans_size[s], op_count |-> 0, op_offset |-> Len(ops[s])]
<1>1. /\ levels[s] \in Seq(Level) /\ Depth(s) \in Nat /\ (InTx(s) <=> Depth(s) > 0)
      /\ ops[s] \in Seq(Op) /\ Len(ops[s]) \in Nat /\ total_trans_size[s] \in Nat
      /\ transaction_id \in Nat
  BY SeqFacts, LenProperties DEF StoreInv, SessionInv, SessionsOK, IndexInv, HeaderOK, InTx, Depth
<1>2. new \in Level
  BY <1>1 DEF Level
<1>3. /\ levels'[s] = Append(levels[s], new)
      /\ levels'[s] \in Seq(Level) /\ Depth(s)' = Depth(s) + 1
      /\ \A i \in 1 .. Depth(s) : levels'[s][i] = levels[s][i]
      /\ levels'[s][Depth(s) + 1] = new
      /\ InTx(s)'
  <2>1. levels'[s] = Append(levels[s], new)
    BY DEF TransactionStart, StoreInv, SessionInv, SessionsOK
  <2> HIDE DEF new
  <2>2. /\ Append(levels[s], new) \in Seq(Level)
        /\ Len(Append(levels[s], new)) = Depth(s) + 1
        /\ \A i \in 1 .. Depth(s) : Append(levels[s], new)[i] = levels[s][i]
        /\ Append(levels[s], new)[Depth(s) + 1] = new
    BY <1>1, <1>2, AppendProperties DEF Depth
  <2>3. Append(levels[s], new) # << >>
    BY <1>1, <2>2, SeqFacts
  <2> QED BY <2>1, <2>2, <2>3 DEF Depth, InTx
<1>4. SessionsOK'
  <2>1. levels' \in [Session -> Seq(Level)]
    BY <1>3 DEF TransactionStart, StoreInv, SessionInv, SessionsOK
  <2>2. tran_id' \in [Session -> Nat]
    BY <1>1 DEF TransactionStart, StoreInv, SessionInv, SessionsOK
  <2> QED BY <2>1, <2>2 DEF TransactionStart, StoreInv, SessionInv, SessionsOK
<1>5. Tile(s)'
  <2>1. /\ pc[s] = "idle" /\ pc' = pc /\ ops' = ops /\ total_trans_size' = total_trans_size
        /\ Tile(s)
    BY DEF TransactionStart, Section, StoreInv, SessionInv
  <2>2. Len(ops[s]) = OpsEnd(s) /\ total_trans_size[s] = DataEnd(s) /\ LevelsTouch(s)
    BY <2>1 DEF Tile
  <2>3. Top(s)' = new
    BY <1>3 DEF Top
  <2>4. OpsEnd(s)' = Len(ops[s]) /\ DataEnd(s)' = total_trans_size[s]
    BY <1>1, <1>3, <2>3 DEF OpsEnd, DataEnd
  <2>5. LevelsTouch(s)'
    <3>1. levels'[s][1].op_offset = 0 /\ levels'[s][1].offset = 0
      BY <1>1, <1>3, <2>2 DEF LevelsTouch, OpsEnd, DataEnd
    <3>2. ASSUME NEW l \in 1 .. Depth(s)
          PROVE  /\ levels'[s][l + 1].op_offset = levels'[s][l].op_offset + levels'[s][l].op_count
                 /\ levels'[s][l + 1].offset = levels'[s][l].offset + levels'[s][l].size
      <4>1. CASE l = Depth(s)
        <5>1. InTx(s) /\ l \in 1 .. Depth(s)
          BY <1>1, <4>1
        <5>2. levels'[s][l] = levels[s][l] /\ levels[s][l] = Top(s) /\ levels'[s][l + 1] = new
          BY <1>3, <4>1, <5>1 DEF Top
        <5>3. Len(ops[s]) = Top(s).op_offset + Top(s).op_count
              /\ total_trans_size[s] = Top(s).offset + Top(s).size
          BY <2>2, <5>1 DEF OpsEnd, DataEnd
        <5> QED BY <5>2, <5>3
      <4>2. CASE l # Depth(s)
        <5>1. l \in 1 .. Depth(s) - 1 /\ l + 1 \in 1 .. Depth(s) /\ l \in 1 .. Depth(s)
          BY <1>1, <4>2
        <5>2. levels'[s][l] = levels[s][l] /\ levels'[s][l + 1] = levels[s][l + 1]
          BY <1>3, <5>1
        <5>3. /\ levels[s][l + 1].op_offset = levels[s][l].op_offset + levels[s][l].op_count
              /\ levels[s][l + 1].offset = levels[s][l].offset + levels[s][l].size
          BY <2>2, <5>1 DEF LevelsTouch
        <5> QED BY <5>2, <5>3
      <4> QED BY <4>1, <4>2
    <3>3. Depth(s)' - 1 = Depth(s)
      BY <1>1, <1>3
    <3> QED BY <3>1, <3>2, <3>3 DEF LevelsTouch
  <2> QED BY <2>1, <2>2, <2>4, <2>5 DEF Tile
<1> QED BY <1>4, <1>5, OthersKeepTile DEF TransactionStart, StoreInv, SessionInv, SessionsOK

(* Popping the innermost level: what Pop gives. *)
LEMMA PopIsPopped ==
  ASSUME SessionInv, NEW s \in Session, InTx(s)
  PROVE  /\ Pop(s) \in Seq(Level) /\ Len(Pop(s)) = Depth(s) - 1
         /\ \A l \in 1 .. Depth(s) - 1 : Pop(s)[l] = levels[s][l]
         /\ levels[s] \in Seq(Level) /\ Depth(s) \in Nat /\ Depth(s) > 0 /\ Top(s) \in Level
<1>1. levels[s] \in Seq(Level) /\ Depth(s) \in Nat /\ Depth(s) > 0 /\ Top(s) \in Level
  BY SeqFacts DEF SessionInv, SessionsOK, InTx, Depth, Top
<1> QED BY <1>1, PopFacts DEF Pop, Depth

(* An inner commit: the level that takes the operations over grows by them. *)
LEMMA CommitInnerKeepsTile ==
  ASSUME SessionInv, NEW s \in Session, CommitInner(s)
  PROVE  SessionInv'
<1> DEFINE p == Pop(s)
           d == Depth(s) - 1
           c == p[d].op_count + Top(s).op_count
           z == p[d].size + Top(s).size
<1>1. InTx(s) /\ Depth(s) > 1
  <2>1. Depth(s) > 1
    BY DEF CommitInner
  <2> QED BY <2>1, SeqFacts DEF SessionInv, SessionsOK, InTx, Depth
<1>2. /\ p \in Seq(Level) /\ Len(p) = d /\ d \in Nat /\ d > 0 /\ p # << >>
      /\ \A l \in 1 .. d : p[l] = levels[s][l]
      /\ Top(s) \in Level /\ p[d] \in Level
  BY <1>1, PopIsPopped, SeqFacts
<1>3. c \in Nat /\ z \in Nat
  <2> HIDE DEF p, d
  <2>1. /\ p[d].op_count \in Nat /\ p[d].size \in Nat
        /\ Top(s).op_count \in Nat /\ Top(s).size \in Nat
    BY <1>2 DEF Level
  <2> QED BY <2>1
<1>4. /\ Counted(p[d], c, z) \in Level
      /\ Counted(p[d], c, z).op_offset = p[d].op_offset
      /\ Counted(p[d], c, z).offset = p[d].offset
      /\ Counted(p[d], c, z).op_count = c /\ Counted(p[d], c, z).size = z
  <2> HIDE DEF c, z
  <2> QED BY <1>2, <1>3, CountedLevel
<1>5. levels'[s] = [p EXCEPT ![d] = Counted(p[d], c, z)]
  BY <1>2 DEF Counted, CommitInner, SessionInv, SessionsOK, Level
<1>6. /\ levels'[s] \in Seq(Level) /\ Len(levels'[s]) = d
      /\ \A l \in 1 .. d : levels'[s][l] = IF l = d THEN Counted(p[d], c, z) ELSE p[l]
      /\ levels'[s] # << >>
  <2> HIDE DEF c, z, p, d
  <2>1. d \in 1 .. Len(p)
    BY <1>2
  <2>2. /\ levels'[s] \in Seq(Level) /\ Len(levels'[s]) = d
        /\ \A l \in 1 .. d : levels'[s][l] = IF l = d THEN Counted(p[d], c, z) ELSE p[l]
    BY <1>2, <1>4, <1>5, <2>1, ExceptSeq
  <2> QED BY <1>2, <2>2, SeqFacts
<1>7. SessionsOK'
  <2>1. levels' \in [Session -> Seq(Level)]
    BY <1>6 DEF CommitInner, SessionInv, SessionsOK
  <2> QED BY <2>1 DEF CommitInner, SessionInv, SessionsOK
<1>8. /\ p[1].op_offset = 0 /\ p[1].offset = 0
      /\ \A l \in 1 .. d - 1 :
           /\ p[l + 1].op_offset = p[l].op_offset + p[l].op_count
           /\ p[l + 1].offset = p[l].offset + p[l].size
      /\ Top(s).op_offset = p[d].op_offset + p[d].op_count
      /\ Top(s).offset = p[d].offset + p[d].size
  BY <1>1, <1>2, PoppedLevels
<1>9. Tile(s)'
  <2> HIDE DEF c, z, p
  <2>1. InTx(s)' /\ Depth(s)' = d /\ Top(s)' = Counted(p[d], c, z)
    BY <1>2, <1>6 DEF InTx, Depth, Top
  <2>2. LevelsTouch(s)'
    <3>1. levels'[s][1].op_offset = 0 /\ levels'[s][1].offset = 0
      <4> HIDE DEF d
      <4>1. 1 \in 1 .. d
        BY <1>2
      <4>2. levels'[s][1] = IF 1 = d THEN Counted(p[d], c, z) ELSE p[1]
        BY <1>6, <4>1
      <4> QED BY <1>4, <1>8, <4>2
    <3>2. ASSUME NEW l \in 1 .. d - 1
          PROVE  /\ levels'[s][l + 1].op_offset = levels'[s][l].op_offset + levels'[s][l].op_count
                 /\ levels'[s][l + 1].offset = levels'[s][l].offset + levels'[s][l].size
      <4>1. levels'[s][l] = p[l]
        BY <1>2, <1>6
      <4>2. levels'[s][l + 1] = IF l + 1 = d THEN Counted(p[d], c, z) ELSE p[l + 1]
        BY <1>2, <1>6
      <4>3. /\ levels'[s][l + 1].op_offset = p[l + 1].op_offset
            /\ levels'[s][l + 1].offset = p[l + 1].offset
        BY <1>4, <4>2
      <4> QED BY <1>8, <4>1, <4>3
    <3> QED BY <2>1, <3>1, <3>2 DEF LevelsTouch
  <2>3. OpsEnd(s)' = p[d].op_offset + c /\ DataEnd(s)' = p[d].offset + z
    BY <1>4, <2>1 DEF OpsEnd, DataEnd
  <2>4. OpsEnd(s) = Top(s).op_offset + Top(s).op_count /\ DataEnd(s) = Top(s).offset + Top(s).size
    BY <1>1 DEF OpsEnd, DataEnd
  <2>5. OpsEnd(s)' = OpsEnd(s) /\ DataEnd(s)' = DataEnd(s)
    <3> HIDE DEF d
    <3>1. /\ p[d].op_offset \in Nat /\ p[d].op_count \in Nat
          /\ p[d].offset \in Nat /\ p[d].size \in Nat
          /\ Top(s).op_count \in Nat /\ Top(s).size \in Nat
      BY <1>2 DEF Level
    <3>2. c = p[d].op_count + Top(s).op_count /\ z = p[d].size + Top(s).size
      BY DEF c, z
    <3> QED BY <1>8, <2>3, <2>4, <3>1, <3>2
  <2>6. pc[s] = "idle" /\ UNCHANGED << pc, ops, total_trans_size >>
    BY DEF CommitInner, Section
  <2> QED BY <2>2, <2>5, <2>6 DEF SessionInv, Tile
<1> QED BY <1>7, <1>9, OthersKeepTile DEF CommitInner, SessionInv, SessionsOK

(* The arithmetic of the cursor of a commit or a rollback. *)
LEMMA WithinLevel ==
  /\ \A a, b, c, l \in Nat : l = a + b /\ c <= b /\ c > 0 => a + c \in 1 .. l
  /\ \A b, c \in Nat : c <= b => c - 1 <= b
OBVIOUS

Begun(work0, count, offset, size) ==
  [work0 EXCEPT !.cursor = count, !.op_count = count, !.op_offset = offset, !.size = size]

Counting(work0, count) == [work0 EXCEPT !.cursor = count, !.op_count = count]

(* The locals that a commit begins with. *)
LEMMA CountingWork ==
  ASSUME NEW work0 \in Work, NEW count \in Nat
  PROVE  /\ Counting(work0, count) \in Work
         /\ Counting(work0, count).cursor = count
         /\ Counting(work0, count).op_count = count
BY DEF Counting, Work

(* The locals that a rollback begins with. *)
LEMMA BegunWork ==
  ASSUME NEW work0 \in Work, NEW count \in Nat, NEW offset \in Nat, NEW size \in Nat
  PROVE  /\ Begun(work0, count, offset, size) \in Work
         /\ Begun(work0, count, offset, size).cursor = count
         /\ Begun(work0, count, offset, size).op_count = count
         /\ Begun(work0, count, offset, size).op_offset = offset
         /\ Begun(work0, count, offset, size).size = size
BY DEF Begun, Work

(* The step with which a commit or a rollback takes the innermost level away. *)
LEMMA BeginKeepsTile ==
  ASSUME SessionInv, NEW s \in Session, CommitBegin(s) \/ RollbackBegin(s)
  PROVE  SessionInv'
<1> DEFINE q == Pop(s)
<1>1. InTx(s)
  <2>1. InTx(s) \/ Depth(s) = 1
    BY DEF CommitBegin, RollbackBegin
  <2>2. levels[s] \in Seq(Level)
    BY DEF SessionInv, SessionsOK
  <2>3. InTx(s) <=> Depth(s) > 0
    BY <2>2, SeqFacts DEF InTx, Depth
  <2> QED BY <2>1, <2>3
<1>2. /\ q \in Seq(Level) /\ Len(q) = Depth(s) - 1
      /\ \A l \in 1 .. Depth(s) - 1 : q[l] = levels[s][l]
      /\ Depth(s) \in Nat /\ Depth(s) > 0 /\ Top(s) \in Level
  BY <1>1, PopIsPopped
<1>3. /\ Top(s).op_count \in Nat /\ Top(s).size \in Nat
      /\ Top(s).op_offset \in Nat /\ Top(s).offset \in Nat
  BY <1>2 DEF Level
<1> HIDE DEF q
<1>4. /\ q # << >> => q[1].op_offset = 0 /\ q[1].offset = 0
      /\ \A l \in 1 .. Len(q) - 1 :
           /\ q[l + 1].op_offset = q[l].op_offset + q[l].op_count
           /\ q[l + 1].offset = q[l].offset + q[l].size
      /\ q # << >> <=> Len(q) > 0
      /\ Top(s).op_offset = IF q = << >> THEN 0 ELSE q[Len(q)].op_offset + q[Len(q)].op_count
      /\ Top(s).offset = IF q = << >> THEN 0 ELSE q[Len(q)].offset + q[Len(q)].size
  BY <1>1, <1>2, PoppedLevels
<1>5. /\ levels' = [levels EXCEPT ![s] = q] /\ pc[s] = "idle"
      /\ UNCHANGED << ops, total_trans_size, tran_id >> /\ rp_impl_lock' = s
  BY DEF CommitBegin, RollbackBegin, Section, q
<1>6. levels'[s] = q /\ levels' \in [Session -> Seq(Level)]
  BY <1>2, <1>5 DEF SessionInv, SessionsOK
<1>7. /\ work' \in [Session -> Work]
      /\ work'[s].cursor = Top(s).op_count /\ work'[s].op_count = Top(s).op_count
      /\ RollbackBegin(s) => work'[s].op_offset = Top(s).op_offset /\ work'[s].size = Top(s).size
  <2>1. CASE CommitBegin(s)
    <3>4. NoWork \in Work
      BY DEF NoWork, Work
    <3> DEFINE count == Top(s).op_count
               w == Counting(NoWork, count)
    <3>1. w \in Work /\ w.cursor = count /\ w.op_count = count
      <4> HIDE DEF count
      <4>1. count \in Nat
        BY <1>3 DEF count
      <4> QED BY <4>1, <3>4, CountingWork
    <3>2. work' = [work EXCEPT ![s] = w] /\ pc'[s] = "committing"
      BY <2>1 DEF CommitBegin, Counting, SessionInv, SessionsOK
    <3>3. ~RollbackBegin(s)
      BY <3>2 DEF RollbackBegin, SessionInv, SessionsOK
    <3> HIDE DEF w
    <3> QED BY <3>1, <3>2, <3>3 DEF SessionInv, SessionsOK
  <2>2. CASE RollbackBegin(s)
    <3>4. NoWork \in Work
      BY DEF NoWork, Work
    <3> DEFINE count == Top(s).op_count
               offset == Top(s).op_offset
               size == Top(s).size
               w == Begun(NoWork, count, offset, size)
    <3>1. /\ w \in Work /\ w.cursor = count /\ w.op_count = count
          /\ w.op_offset = offset /\ w.size = size
      <4> HIDE DEF count, offset, size
      <4>1. count \in Nat /\ offset \in Nat /\ size \in Nat
        BY <1>3 DEF count, offset, size
      <4> QED BY <4>1, <3>4, BegunWork
    <3>2. work' = [work EXCEPT ![s] = w]
      BY <2>2 DEF RollbackBegin, Begun
    <3> HIDE DEF w
    <3> QED BY <3>1, <3>2 DEF SessionInv, SessionsOK
  <2> QED BY <2>1, <2>2
<1>8. /\ pc' \in [Session -> PC]
      /\ CommitBegin(s) => pc'[s] = "committing"
      /\ RollbackBegin(s) => pc'[s] = "rolling back"
  BY DEF CommitBegin, RollbackBegin, SessionInv, SessionsOK, PC
<1>9. SessionsOK'
  BY <1>5, <1>6, <1>7, <1>8 DEF SessionInv, SessionsOK
<1>10. LevelsTouch(s)'
  BY <1>4, <1>6 DEF LevelsTouch, InTx, Depth
<1>11. OpsEnd(s)' = Top(s).op_offset /\ DataEnd(s)' = Top(s).offset
  BY <1>4, <1>6 DEF OpsEnd, DataEnd, InTx, Top, Depth
<1>12. Len(ops[s]) = Top(s).op_offset + Top(s).op_count
       /\ total_trans_size[s] = Top(s).offset + Top(s).size
  BY <1>1, <1>5 DEF SessionInv, Tile, OpsEnd, DataEnd
<1>13. Tile(s)'
  <2>1. CASE RollbackBegin(s)
    <3>1. pc'[s] = "rolling back" /\ work'[s].op_offset = OpsEnd(s)'
          /\ work'[s].op_count = Top(s).op_count /\ work'[s].size = Top(s).size
          /\ work'[s].cursor = work'[s].op_count
      BY <2>1, <1>7, <1>11, <1>8
    <3>2. /\ Len(ops'[s]) = OpsEnd(s)' + work'[s].op_count
          /\ total_trans_size'[s] = DataEnd(s)' + work'[s].size
      BY <3>1, <1>5, <1>11, <1>12
    <3>3. work'[s].cursor <= work'[s].op_count
      BY <1>3, <1>7
    <3> QED BY <3>1, <3>2, <3>3, <1>10 DEF Tile
  <2>2. CASE CommitBegin(s)
    <3>1. q = << >>
      BY <2>2, <1>2, <1>4 DEF CommitBegin
    <3>2. ~InTx(s)'
      BY <3>1, <1>6 DEF InTx
    <3>3. Top(s).op_offset = 0
      BY <3>1, <1>4
    <3>4. pc'[s] = "committing" /\ Len(ops'[s]) = work'[s].op_count
          /\ work'[s].cursor <= work'[s].op_count
      BY <2>2, <3>3, <1>3, <1>5, <1>7, <1>12, <1>8
    <3> QED BY <3>2, <3>4, <1>10 DEF Tile
  <2> QED BY <2>1, <2>2
<1>14. \A t \in Session \ {s} :
         /\ levels'[t] = levels[t] /\ ops'[t] = ops[t] /\ work'[t] = work[t]
         /\ pc'[t] = pc[t] /\ total_trans_size'[t] = total_trans_size[t]
  BY DEF CommitBegin, RollbackBegin, SessionInv, SessionsOK
<1> QED BY <1>9, <1>13, <1>14, OthersKeepTile

(* One operation of a commit or a rollback less to deal with. *)
LEMMA CursorKeepsTile ==
  ASSUME SessionInv, NEW s \in Session, pc[s] \in {"committing", "rolling back"},
         work[s].cursor > 0, NEW w \in Work, work' = [work EXCEPT ![s] = w],
         w.cursor = work[s].cursor - 1, w.op_count = work[s].op_count,
         w.op_offset = work[s].op_offset, w.size = work[s].size,
         UNCHANGED << tranVars, pc, rp_impl_lock >>
  PROVE  SessionInv'
<1>1. work' \in [Session -> Work] /\ work'[s] = w /\ work[s] \in Work
  BY DEF SessionInv, SessionsOK
<1>2. SessionsOK'
  BY <1>1 DEF SessionInv, SessionsOK, tranVars
<1>3. /\ OpsEnd(s)' = OpsEnd(s) /\ DataEnd(s)' = DataEnd(s)
      /\ LevelsTouch(s)' = LevelsTouch(s) /\ InTx(s)' = InTx(s)
  BY DEF tranVars, OpsEnd, DataEnd, LevelsTouch, InTx, Top, Depth
<1>4. work[s].cursor \in Nat /\ work[s].op_count \in Nat
  BY <1>1 DEF Work
<1>5. Tile(s)'
  <2>1. Tile(s) /\ UNCHANGED << pc, ops, total_trans_size >>
    BY DEF SessionInv, tranVars
  <2>2. w.cursor <= work[s].op_count
    <3>1. work[s].cursor <= work[s].op_count
      BY <2>1 DEF Tile
    <3> QED BY <3>1, <1>4, WithinLevel
  <2> QED BY <1>1, <1>3, <2>1, <2>2 DEF Tile
<1>6. \A t \in Session \ {s} :
         /\ levels'[t] = levels[t] /\ ops'[t] = ops[t] /\ work'[t] = work[t]
         /\ pc'[t] = pc[t] /\ total_trans_size'[t] = total_trans_size[t]
  BY DEF tranVars, SessionInv, SessionsOK
<1> QED BY <1>2, <1>5, <1>6, OthersKeepTile

(* The operation that a commit or a rollback is at has been logged. *)
LEMMA CurrentOp ==
  ASSUME SessionInv, NEW s \in Session, pc[s] \in {"committing", "rolling back"},
         work[s].cursor > 0
  PROVE  /\ work[s] \in Work
         /\ pc[s] = "committing" => ops[s][work[s].cursor] \in Op
         /\ pc[s] = "rolling back" => ops[s][work[s].op_offset + work[s].cursor] \in Op
<1>1. work[s] \in Work /\ ops[s] \in Seq(Op) /\ Tile(s)
  BY DEF SessionInv, SessionsOK
<1>2. /\ work[s].cursor \in Nat /\ work[s].op_count \in Nat /\ work[s].op_offset \in Nat
      /\ Len(ops[s]) \in Nat
  BY <1>1, LenProperties DEF Work
<1>3. pc[s] = "committing" => work[s].cursor \in 1 .. Len(ops[s])
  BY <1>1, <1>2 DEF Tile
<1>4. pc[s] = "rolling back" => work[s].op_offset + work[s].cursor \in 1 .. Len(ops[s])
  <2>1. pc[s] = "rolling back" =>
          /\ Len(ops[s]) = work[s].op_offset + work[s].op_count
          /\ work[s].cursor <= work[s].op_count
    BY <1>1 DEF Tile
  <2> QED BY <2>1, <1>2, WithinLevel
<1> QED BY <1>1, <1>3, <1>4, ElementOfSeq

(* The end of a commit, with no level and no operation left. *)
LEMMA CommitEndKeepsTile ==
  ASSUME SessionInv, NEW s \in Session, CommitEnd(s)
  PROVE  SessionInv'
<1>1. << >> \in Seq(Op) /\ Len(<< >>) = 0
  BY EmptySeq
<1>2. SessionsOK'
  <2>1. NoWork \in Work
    BY DEF NoWork, Work
  <2> QED BY <1>1, <2>1 DEF CommitEnd, SessionInv, SessionsOK, PC
<1>3. /\ ops'[s] = << >> /\ total_trans_size'[s] = 0 /\ pc'[s] = "idle" /\ levels' = levels
      /\ ~InTx(s)
  BY DEF CommitEnd, SessionInv, SessionsOK, Tile
<1>4. OpsEnd(s)' = 0 /\ DataEnd(s)' = 0 /\ LevelsTouch(s)' = LevelsTouch(s)
  BY <1>3 DEF OpsEnd, DataEnd, LevelsTouch, InTx, Depth
<1>5. Tile(s)'
  BY <1>1, <1>3, <1>4 DEF Tile, SessionInv
<1> QED BY <1>2, <1>5, OthersKeepTile DEF CommitEnd, SessionInv, SessionsOK

(* The end of a rollback: the operations of its level are dropped, and what is
   left of them ends where the levels that are left end. *)
LEMMA RollbackEndKeepsTile ==
  ASSUME SessionInv, NEW s \in Session, RollbackEnd(s)
  PROVE  SessionInv'
<1> DEFINE m == Len(ops[s]) - work[s].op_count
<1>1. /\ work[s] \in Work /\ ops[s] \in Seq(Op) /\ Tile(s) /\ pc[s] = "rolling back"
      /\ total_trans_size[s] \in Nat /\ levels[s] \in Seq(Level)
  BY DEF RollbackEnd, SessionInv, SessionsOK
<1>2. /\ work[s].op_count \in Nat /\ work[s].op_offset \in Nat /\ work[s].size \in Nat
      /\ Len(ops[s]) \in Nat
  BY <1>1, LenProperties DEF Work
<1>3. /\ OpsEnd(s) \in Nat /\ DataEnd(s) \in Nat
  <2>1. CASE InTx(s)
    <3>1. Top(s) \in Level
      BY <2>1, PopIsPopped
    <3> QED BY <3>1, <2>1 DEF OpsEnd, DataEnd, Level
  <2>2. CASE ~InTx(s)
    BY <2>2 DEF OpsEnd, DataEnd
  <2> QED BY <2>1, <2>2
<1>4. m = OpsEnd(s) /\ total_trans_size[s] - work[s].size = DataEnd(s)
  <2>1. /\ Len(ops[s]) = OpsEnd(s) + work[s].op_count
        /\ total_trans_size[s] = DataEnd(s) + work[s].size
    BY <1>1 DEF Tile
  <2> QED BY <2>1, <1>2, <1>3
<1>5. /\ [i \in 1 .. m |-> ops[s][i]] \in Seq(Op)
      /\ Len([i \in 1 .. m |-> ops[s][i]]) = m
  <2>1. m \in Nat /\ m <= Len(ops[s])
    BY <1>2, <1>3, <1>4
  <2> HIDE DEF m
  <2>2. \A i \in 1 .. m : ops[s][i] \in Op
    <3>1. \A i \in 1 .. Len(ops[s]) : ops[s][i] \in Op
      BY <1>1, ElementOfSeq
    <3> QED BY <3>1, <1>2, <2>1
  <2> QED BY <2>1, <2>2
<1>6. /\ ops'[s] = [i \in 1 .. m |-> ops[s][i]] /\ pc'[s] = "idle" /\ levels' = levels
      /\ total_trans_size'[s] = DataEnd(s)
  BY <1>4 DEF RollbackEnd, SessionInv, SessionsOK
<1> HIDE DEF m
<1>7. SessionsOK'
  <2>1. ops' \in [Session -> Seq(Op)]
    BY <1>5, <1>6 DEF RollbackEnd, SessionInv, SessionsOK
  <2>2. total_trans_size' \in [Session -> Nat]
    BY <1>3, <1>6 DEF RollbackEnd, SessionInv, SessionsOK
  <2>3. NoWork \in Work
    BY DEF NoWork, Work
  <2> QED BY <2>1, <2>2, <2>3 DEF RollbackEnd, SessionInv, SessionsOK, PC
<1>8. OpsEnd(s)' = OpsEnd(s) /\ DataEnd(s)' = DataEnd(s) /\ LevelsTouch(s)' = LevelsTouch(s)
  BY <1>6 DEF OpsEnd, DataEnd, LevelsTouch, InTx, Top, Depth
<1>9. Tile(s)'
  BY <1>1, <1>4, <1>5, <1>6, <1>8 DEF Tile
<1> QED BY <1>7, <1>9, OthersKeepTile DEF RollbackEnd, SessionInv, SessionsOK

-----------------------------------------------------------------------------
(* The free list, as the three things that can happen to an entry change it.  *)

(* Entry numbers below a total, and below a larger one. *)
LEMMA RangeFacts ==
  ASSUME NEW a \in Nat, NEW b \in Nat
  PROVE  /\ \A m \in 0 .. a - 1 : b >= a => m \in 0 .. b - 1
         /\ \A m \in 0 .. b - 1 : m \notin a .. b - 1 => m \in 0 .. a - 1
         /\ \A m \in Nat : m < b => m \in 0 .. b - 1
OBVIOUS

(* The entries in use, and so the free ones, are entries of the index. *)
LEMMA NumFacts ==
  ASSUME HeaderOK
  PROVE  /\ \A m \in 0 .. total_entries - 1 : m \in Num
         /\ \A m \in Num : m \in Nat
         /\ \A m \in Free : m \in Num /\ m \in 0 .. total_entries - 1
         /\ total_entries \in Nat /\ total_entries <= MaxEntries /\ MaxEntries \in Nat
<1>1. MaxEntries \in Nat /\ total_entries \in 0 .. MaxEntries
  BY StoreAssumption DEF HeaderOK
<1> QED BY <1>1 DEF Num, Free

(* A set of naturals that is not empty has a least number. *)
LEMMA LeastExists ==
  ASSUME NEW T \in SUBSET Nat, T # {}
  PROVE  \E n \in T : \A k \in T : n <= k
<1>1. PICK x \in T : \A y \in T : ~ (<<y, x>> \in OpToRel(<, Nat))
  BY NatLessThanWellFounded, WFMin
<1>2. \A m, n \in Nat : m < n => <<m, n>> \in OpToRel(<, Nat)
  BY Zenon DEF OpToRel
<1>3. \A y \in T : ~(y < x)
  BY <1>1, <1>2, Zenon
<1> QED BY <1>3

(* There are as many free entries as numbers on the path. *)
LEMMA PathCount ==
  ASSUME HeaderOK, NEW c \in Nat, NEW q \in [Nat -> Int], FreePath(q, c)
  PROVE  Cardinality(Free) = c
<1> DEFINE S == 0 .. c - 1
           f == [k \in S |-> q[k] - 1]
<1>1. \A k \in S : k \in Nat
  OBVIOUS
<1>2. f \in [S -> Free]
  BY <1>1 DEF FreePath
<1>3. \A j, k \in S : f[j] = f[k] => j = k
  BY <1>1 DEF FreePath
<1>4. \A n \in Free : \E k \in S : f[k] = n
  <2> SUFFICES ASSUME NEW n \in Free PROVE \E k \in S : f[k] = n
    OBVIOUS
  <2>1. PICK k \in S : q[k] = n + 1
    BY DEF FreePath
  <2>2. n \in Nat
    BY NumFacts
  <2> QED BY <2>1, <2>2, <1>1
<1> HIDE DEF f
<1>5. f \in Bijection(S, Free)
  BY <1>2, <1>3, <1>4 DEF Bijection, Injection, Surjection, IsInjective
<1>6. IsFiniteSet(S) /\ Cardinality(S) = c
  <2>1. 0 \in Int /\ c - 1 \in Int
    OBVIOUS
  <2>2. IsFiniteSet(0 .. c - 1) /\ Cardinality(0 .. c - 1) = IF 0 > c - 1 THEN 0 ELSE (c - 1) - 0 + 1
    BY <2>1, FS_Interval
  <2>3. (IF 0 > c - 1 THEN 0 ELSE (c - 1) - 0 + 1) = c
    OBVIOUS
  <2> QED BY <2>2, <2>3
<1> HIDE DEF S
<1> QED BY <1>5, <1>6, FS_Bijection DEF ExistsBijection

(* The links, followed as the property follows them, are the path. *)
LEMMA WholeReachesAll ==
  ASSUME HeaderOK, FreeListWhole
  PROVE  FreeListReachesAll
<1>1. PICK c \in Nat : \E q \in [Nat -> Int] : FreePath(q, c)
  BY DEF FreeListWhole
<1>2. PICK q \in [Nat -> Int] : FreePath(q, c)
  BY <1>1
<1>3. Cardinality(Free) = c
  BY <1>2, PathCount
<1> DEFINE G(g) == [k \in Nat |-> IF k = 0 THEN index_free_list
                     ELSE IF g[k - 1] = 0 THEN 0 ELSE index[g[k - 1] - 1].pos]
           e == [k \in Nat |-> IF k < c THEN q[k] ELSE 0]
           link == CHOOSE g : g = G(g)
<1>4. e = G(e)
  <2>1. e[0] = index_free_list
    <3>1. CASE c = 0
      BY <1>2, <3>1 DEF FreePath
    <3>2. CASE c # 0
      BY <1>2, <3>2 DEF FreePath
    <3> QED BY <3>1, <3>2
  <2>2. ASSUME NEW k \in Nat \ {0}
        PROVE  e[k] = IF e[k - 1] = 0 THEN 0 ELSE index[e[k - 1] - 1].pos
    <3>1. k - 1 \in Nat /\ (k - 1) + 1 = k
      OBVIOUS
    <3>2. CASE k <= c
      <4>1. k - 1 \in 0 .. c - 1 /\ k - 1 < c
        BY <3>2
      <4>2. q[k - 1] # 0 /\ q[k] = index[q[k - 1] - 1].pos
        BY <4>1, <3>1, <1>2 DEF FreePath
      <4>3. e[k - 1] = q[k - 1]
        BY <4>1, <3>1
      <4>4. e[k] = q[k]
        <5>1. CASE k = c
          BY <5>1, <1>2 DEF FreePath
        <5>2. CASE k # c
          BY <5>2, <3>2
        <5> QED BY <5>1, <5>2
      <4> HIDE DEF e
      <4> QED BY <4>2, <4>3, <4>4
    <3>3. CASE ~(k <= c)
      <4>1. ~(k - 1 < c) /\ ~(k < c)
        BY <3>3
      <4> QED BY <4>1, <3>1
    <3> QED BY <3>2, <3>3
  <2> HIDE DEF e
  <2>3. \A k \in Nat : e[k] = G(e)[k]
    BY <2>1, <2>2
  <2>4. DOMAIN e = Nat /\ e = [k \in Nat |-> e[k]]
    BY DEF e
  <2> QED BY <2>3, <2>4
<1>5. link = G(link)
  <2> HIDE DEF G, e
  <2> QED BY <1>4
<1> HIDE DEF link
<1>6. \A k \in Nat : link[k] = IF k = 0 THEN index_free_list
                     ELSE IF link[k - 1] = 0 THEN 0 ELSE index[link[k - 1] - 1].pos
  BY <1>5
<1>7. \A k \in Nat : e[k] = IF k = 0 THEN index_free_list
                     ELSE IF e[k - 1] = 0 THEN 0 ELSE index[e[k - 1] - 1].pos
  <2> HIDE DEF e
  <2> QED BY <1>4
<1>8. \A k \in 0 .. c - 1 : k \in Nat /\ e[k] = q[k]
  OBVIOUS
<1>9. e[c] = 0
  OBVIOUS
<1> HIDE DEF e
<1> DEFINE Bad == {k \in Nat : link[k] # e[k]}
<1>10. Bad = {}
  <2> SUFFICES ASSUME Bad # {} PROVE FALSE
    OBVIOUS
  <2>1. PICK n \in Bad : \A k \in Bad : n <= k
    <3>1. Bad \in SUBSET Nat
      OBVIOUS
    <3> HIDE DEF Bad
    <3> QED BY <3>1, LeastExists
  <2>2. n \in Nat /\ link[n] # e[n]
    OBVIOUS
  <2>3. n # 0
    BY <1>6, <1>7, <2>2
  <2>4. n - 1 \in Nat /\ n - 1 \notin Bad
    <3> HIDE DEF Bad
    <3> QED BY <2>1, <2>2, <2>3
  <2>5. link[n - 1] = e[n - 1]
    BY <2>4
  <2> QED BY <1>6, <1>7, <2>2, <2>3, <2>5
<1>11. \A k \in Nat : link[k] = e[k]
  BY <1>10
<1>12. {link[k] : k \in 0 .. c - 1} = {n + 1 : n \in Free}
  <2>1. ASSUME NEW k \in 0 .. c - 1 PROVE link[k] \in {n + 1 : n \in Free}
    <3>1. link[k] = q[k] /\ q[k] \in Int
      BY <1>8, <1>11
    <3>2. q[k] - 1 \in Free /\ (q[k] - 1) + 1 = q[k]
      BY <3>1, <1>2 DEF FreePath
    <3> QED BY <3>1, <3>2
  <2>2. ASSUME NEW n \in Free PROVE \E k \in 0 .. c - 1 : link[k] = n + 1
    <3>1. PICK k \in 0 .. c - 1 : q[k] = n + 1
      BY <1>2 DEF FreePath
    <3> QED BY <3>1, <1>8, <1>11
  <2> QED BY <2>1, <2>2
<1>13. link[c] = 0
  BY <1>9, <1>11
<1> QED BY <1>3, <1>12, <1>13 DEF FreeListReachesAll, link, G

(* The list is left alone. *)
LEMMA PathUntouched ==
  ASSUME FreeListWhole, index_free_list' = index_free_list, Free' = Free,
         \A n \in Free : index'[n].pos = index[n].pos
  PROVE  FreeListWhole'
<1>1. PICK c \in Nat : \E q \in [Nat -> Int] : FreePath(q, c)
  BY DEF FreeListWhole
<1>2. PICK q \in [Nat -> Int] : FreePath(q, c)
  BY <1>1
<1>3. FreePath(q, c)'
  BY <1>2 DEF FreePath
<1> QED BY <1>3 DEF FreeListWhole

(* A new head is put before the others. *)
LEMMA PathAdded ==
  ASSUME HeaderOK, FreeListWhole, NEW n \in Num, n \notin Free, Free' = Free \cup {n},
         index_free_list' = n + 1, index'[n].pos = index_free_list,
         \A m \in Free : index'[m].pos = index[m].pos
  PROVE  FreeListWhole'
<1>1. PICK c \in Nat : \E q \in [Nat -> Int] : FreePath(q, c)
  BY DEF FreeListWhole
<1>2. PICK q \in [Nat -> Int] : FreePath(q, c)
  BY <1>1
<1>3. n \in Nat /\ (\A m \in Free : m \in Nat) /\ index_free_list \in Int
  BY NumFacts DEF HeaderOK
<1> DEFINE d == c + 1
           r == [k \in Nat |-> IF k = 0 THEN n + 1 ELSE q[k - 1]]
<1>4. d \in Nat /\ r \in [Nat -> Int]
  <2>1. \A k \in Nat : k # 0 => k - 1 \in Nat
    OBVIOUS
  <2> QED BY <2>1, <1>3
<1>5. r[0] = n + 1 /\ \A k \in Nat : r[k + 1] = q[k]
  OBVIOUS
<1>6. \A k \in 0 .. d - 1 : k \in Nat /\ (k = 0 \/ (k - 1 \in 0 .. c - 1 /\ (k - 1) + 1 = k))
  OBVIOUS
<1>7. \A k \in 0 .. c - 1 : k \in Nat /\ k + 1 \in 0 .. d - 1
  OBVIOUS
<1>8. 0 \in 0 .. d - 1 /\ c \in Nat
  OBVIOUS
<1> HIDE DEF r
<1>9. r[d] = 0
  BY <1>2, <1>5 DEF FreePath
<1>10. \A k \in 0 .. c - 1 : q[k] # n + 1
  <2> SUFFICES ASSUME NEW k \in 0 .. c - 1, q[k] = n + 1 PROVE FALSE
    OBVIOUS
  <2>1. q[k] - 1 \in Free
    BY <1>2 DEF FreePath
  <2>2. q[k] - 1 = n
    BY <1>3
  <2> QED BY <2>1, <2>2
<1>11. ASSUME NEW k \in 0 .. d - 1
       PROVE  r[k] # 0 /\ r[k] - 1 \in Free' /\ r[k + 1] = index'[r[k] - 1].pos
  <2>1. CASE k = 0
    <3>1. r[k] = n + 1 /\ (n + 1) - 1 = n /\ n + 1 # 0
      BY <2>1, <1>3, <1>5
    <3>2. r[k + 1] = q[0]
      BY <2>1, <1>5
    <3>3. q[0] = index_free_list
      BY <1>2 DEF FreePath
    <3> QED BY <3>1, <3>2, <3>3
  <2>2. CASE k # 0
    <3> DEFINE j == k - 1
    <3>1. j \in 0 .. c - 1 /\ j + 1 = k /\ j \in Nat
      BY <2>2, <1>6, <1>7
    <3> HIDE DEF j
    <3>2. r[k] = q[j] /\ r[k + 1] = q[j + 1]
      BY <3>1, <1>5, <1>6
    <3>3. q[j] # 0 /\ q[j] - 1 \in Free /\ q[j + 1] = index[q[j] - 1].pos
      BY <3>1, <1>2 DEF FreePath
    <3> QED BY <3>2, <3>3
  <2> QED BY <2>1, <2>2
<1>12. ASSUME NEW j \in 0 .. d - 1, NEW k \in 0 .. d - 1, r[j] = r[k]
       PROVE  j = k
  <2>1. ASSUME NEW i \in 0 .. d - 1, i # 0
        PROVE  i - 1 \in 0 .. c - 1 /\ r[i] = q[i - 1] /\ i \in Nat
    <3>1. i - 1 \in 0 .. c - 1 /\ (i - 1) + 1 = i /\ i - 1 \in Nat
      BY <2>1, <1>6, <1>7
    <3>2. r[(i - 1) + 1] = q[i - 1]
      BY <3>1, <1>5
    <3> QED BY <3>1, <3>2, <1>6
  <2>2. CASE j = 0 \/ k = 0
    BY <2>1, <2>2, <1>5, <1>10, <1>12
  <2>3. CASE j # 0 /\ k # 0
    <3>1. j - 1 = k - 1
      BY <2>1, <2>3, <1>2, <1>12 DEF FreePath
    <3> QED BY <3>1, <2>1, <2>3
  <2> QED BY <2>2, <2>3
<1>13. ASSUME NEW m \in Free' PROVE \E k \in 0 .. d - 1 : r[k] = m + 1
  <2>1. CASE m = n
    BY <2>1, <1>5, <1>8
  <2>2. CASE m # n
    <3>1. PICK k \in 0 .. c - 1 : q[k] = m + 1
      BY <2>2, <1>2 DEF FreePath
    <3>2. k + 1 \in 0 .. d - 1 /\ r[k + 1] = m + 1
      BY <3>1, <1>5, <1>7
    <3> QED BY <3>2
  <2> QED BY <2>1, <2>2
<1> HIDE DEF d
<1>14. FreePath(r, d)'
  BY <1>5, <1>9, <1>11, <1>12, <1>13 DEF FreePath
<1> QED BY <1>4, <1>14 DEF FreeListWhole

(* The head is taken off. *)
LEMMA PathTaken ==
  ASSUME HeaderOK, FreeListWhole, index_free_list # 0, NEW n, n = index_free_list - 1,
         Free' = Free \ {n}, index_free_list' = index[n].pos,
         \A m \in Free' : index'[m].pos = index[m].pos
  PROVE  FreeListWhole'
<1>1. PICK c \in Nat : \E q \in [Nat -> Int] : FreePath(q, c)
  BY DEF FreeListWhole
<1>2. PICK q \in [Nat -> Int] : FreePath(q, c)
  BY <1>1
<1>3. (\A m \in Free : m \in Nat) /\ index_free_list \in Nat
  BY NumFacts DEF HeaderOK
<1>4. c # 0
  BY <1>2 DEF FreePath
<1> DEFINE d == c - 1
           r == [k \in Nat |-> q[k + 1]]
<1>5. d \in Nat /\ r \in [Nat -> Int] /\ d + 1 = c
  BY <1>4
<1>6. \A k \in Nat : r[k] = q[k + 1]
  OBVIOUS
<1>7. \A k \in 0 .. d - 1 : k \in Nat /\ k + 1 \in 0 .. c - 1 /\ k + 1 # 0
  BY <1>5
<1>8. \A k \in 0 .. c - 1 : k # 0 => k - 1 \in 0 .. d - 1 /\ (k - 1) + 1 = k
  BY <1>5
<1>9. 0 \in 0 .. c - 1 /\ 0 + 1 = 1
  BY <1>4
<1> HIDE DEF r, d
<1>10. q[0] = n + 1 /\ q[1] = index[n].pos
  <2>1. q[0] = index_free_list
    BY <1>2 DEF FreePath
  <2>2. q[0 + 1] = index[q[0] - 1].pos
    BY <1>2, <1>9 DEF FreePath
  <2>3. index_free_list = n + 1
    BY <1>3
  <2> QED BY <2>1, <2>2, <2>3, <1>9
<1>11. r[0] = index_free_list' /\ r[d] = 0
  <2>1. q[c] = 0
    BY <1>2 DEF FreePath
  <2> QED BY <2>1, <1>5, <1>6, <1>9, <1>10
<1>12. ASSUME NEW k \in 0 .. d - 1
       PROVE  r[k] # 0 /\ r[k] - 1 \in Free' /\ r[k + 1] = index'[r[k] - 1].pos
  <2> DEFINE j == k + 1
  <2>1. j \in 0 .. c - 1 /\ j # 0 /\ j \in Nat /\ r[k] = q[j] /\ r[j] = q[j + 1]
    BY <1>6, <1>7
  <2> HIDE DEF j
  <2>2. q[j] # 0 /\ q[j] - 1 \in Free /\ q[j + 1] = index[q[j] - 1].pos
    BY <2>1, <1>2 DEF FreePath
  <2>3. q[j] # q[0]
    BY <2>1, <1>2, <1>9 DEF FreePath
  <2>4. q[j] - 1 # n
    <3>1. q[j] \in Int /\ q[0] \in Int /\ n = q[0] - 1
      BY <2>1, <1>2, <1>3 DEF FreePath
    <3> QED BY <3>1, <2>3
  <2> QED BY <2>1, <2>2, <2>4 DEF j
<1>13. ASSUME NEW j \in 0 .. d - 1, NEW k \in 0 .. d - 1, r[j] = r[k]
       PROVE  j = k
  <2>1. j + 1 = k + 1
    BY <1>2, <1>6, <1>7, <1>13 DEF FreePath
  <2> QED BY <2>1, <1>7
<1>14. ASSUME NEW m \in Free' PROVE \E k \in 0 .. d - 1 : r[k] = m + 1
  <2>1. m \in Free /\ m # n /\ m \in Nat
    BY <1>3
  <2>2. PICK k \in 0 .. c - 1 : q[k] = m + 1
    BY <2>1, <1>2 DEF FreePath
  <2>3. k # 0
    <3>1. n \in Int
      BY <1>3
    <3> QED BY <2>1, <2>2, <3>1, <1>10
  <2>4. k - 1 \in 0 .. d - 1 /\ (k - 1) + 1 = k
    BY <2>3, <1>8
  <2>5. r[k - 1] = m + 1
    BY <2>2, <2>4, <1>6, <1>7
  <2> QED BY <2>4, <2>5
<1>15. FreePath(r, d)'
  BY <1>11, <1>12, <1>13, <1>14 DEF FreePath
<1> QED BY <1>5, <1>15 DEF FreeListWhole

(* An entry that is not free stays so, and the list is left alone. *)
LEMMA ListUntouched ==
  ASSUME HeaderOK, ListOK, NEW n \in Num, NEW x \in Entry,
         index' = [index EXCEPT ![n] = x], n \notin Free, x.trans # "free_list",
         total_entries' \in Nat, total_entries' >= total_entries, index_free_list' = index_free_list,
         \A m \in total_entries .. total_entries' - 1 : m = n
  PROVE  ListOK'
<1>1. index \in [Num -> Entry] /\ total_entries \in Nat
  BY DEF HeaderOK
<1>2. \A m \in Num \ {n} : index'[m] = index[m]
  BY <1>1
<1>3. index'[n].trans # "free_list"
  BY <1>1
<1>4. Free' = Free
  <2>1. ASSUME NEW m \in Free PROVE m \in Free'
    <3>1. m \in 0 .. total_entries - 1 /\ m # n /\ m \in Num /\ index[m].trans = "free_list"
      BY NumFacts DEF Free
    <3>2. m \in 0 .. total_entries' - 1
      BY <3>1, <1>1, RangeFacts
    <3> QED BY <3>1, <3>2, <1>2 DEF Free
  <2>2. ASSUME NEW m \in Free' PROVE m \in Free
    <3>1. m \in 0 .. total_entries' - 1 /\ index'[m].trans = "free_list" /\ m # n
      BY <1>3 DEF Free
    <3>2. m \in 0 .. total_entries - 1
      <4>1. m \notin total_entries .. total_entries' - 1
        BY <3>1
      <4> QED BY <3>1, <4>1, <1>1, RangeFacts
    <3>3. m \in Num
      BY <3>2, NumFacts
    <3> QED BY <3>1, <3>2, <3>3, <1>2 DEF Free
  <2> QED BY <2>1, <2>2
<1>5. \A m \in Free : index'[m] = index[m]
  <2>1. \A m \in Free : m \in Num
    BY NumFacts
  <2> QED BY <2>1, <1>2
<1>6. FreeListLinks'
  BY <1>4, <1>5 DEF ListOK, FreeListLinks
<1>7. FreeListWhole'
  BY <1>4, <1>5, PathUntouched DEF ListOK
<1> QED BY <1>6, <1>7 DEF ListOK

(* An entry is freed: it becomes the head. *)
LEMMA HeadAdded ==
  ASSUME HeaderOK, ListOK, NEW n \in Num, NEW x \in Entry,
         index' = [index EXCEPT ![n] = x], n < total_entries, n \notin Free,
         x.trans = "free_list", x.pos = index_free_list,
         total_entries' = total_entries, index_free_list' = n + 1
  PROVE  ListOK'
<1>1. index \in [Num -> Entry] /\ total_entries \in Nat /\ index_free_list \in Nat
      /\ n \in Nat /\ n \in 0 .. total_entries - 1
  BY DEF HeaderOK, Num
<1>2. index'[n] = x /\ \A m \in Num \ {n} : index'[m] = index[m]
  BY <1>1
<1>3. \A m \in Free : m \in Num \ {n} /\ m \in Nat
  BY NumFacts
<1>4. Free' = Free \cup {n}
  <2>1. \A m \in 0 .. total_entries - 1 : m \in Num
    BY NumFacts
  <2> QED BY <2>1, <1>1, <1>2 DEF Free
<1>5. \A m \in Free : index[m].pos \in Int
  BY <1>1, <1>3 DEF Entry
<1>6. /\ index_free_list # 0 => index_free_list - 1 \in Free
      /\ \A m \in Free :
           index[m].pos # 0 => index[m].pos - 1 \in Free /\ index[m].pos # index_free_list
      /\ \A m, k \in Free : index[m].pos = index[k].pos /\ index[m].pos # 0 => m = k
  BY DEF ListOK, FreeListLinks
<1>7. index_free_list' # 0 => index_free_list' - 1 \in Free'
  BY <1>1, <1>4
<1>8. ASSUME NEW m \in Free', index'[m].pos # 0
      PROVE  index'[m].pos - 1 \in Free' /\ index'[m].pos # index_free_list'
  <2>1. CASE m = n
    <3>1. index'[m].pos = index_free_list
      BY <2>1, <1>2
    <3>2. index_free_list - 1 \in Free
      BY <3>1, <1>6, <1>8
    <3> QED BY <3>1, <3>2, <1>1, <1>4
  <2>2. CASE m # n
    <3>1. m \in Free /\ index'[m] = index[m]
      BY <2>2, <1>2, <1>3, <1>4
    <3>2. index[m].pos - 1 \in Free /\ index[m].pos \in Int
      BY <3>1, <1>5, <1>6, <1>8
    <3> QED BY <3>1, <3>2, <1>1, <1>4
  <2> QED BY <2>1, <2>2
<1>9. ASSUME NEW m \in Free', NEW k \in Free', index'[m].pos = index'[k].pos, index'[m].pos # 0
      PROVE  m = k
  <2>1. \A j \in Free' : j # n => j \in Free /\ index'[j] = index[j]
    BY <1>2, <1>3, <1>4
  <2> QED BY <2>1, <1>2, <1>6, <1>9
<1>10. FreeListLinks'
  BY <1>7, <1>8, <1>9 DEF FreeListLinks
<1>11. FreeListWhole'
  BY <1>2, <1>3, <1>4, PathAdded DEF ListOK
<1> QED BY <1>10, <1>11 DEF ListOK

(* The head is revived: its link becomes the head. *)
LEMMA HeadTaken ==
  ASSUME HeaderOK, ListOK, NEW n \in Num, NEW x \in Entry, index_free_list # 0,
         n = index_free_list - 1, index' = [index EXCEPT ![n] = x], x.trans # "free_list",
         total_entries' = total_entries, index_free_list' = index[n].pos
  PROVE  ListOK' /\ index_free_list' \in 0 .. MaxEntries
<1>1. index \in [Num -> Entry] /\ total_entries \in Nat /\ index_free_list \in Nat
      /\ n \in Nat
  BY DEF HeaderOK, Num
<1>2. index'[n] = x /\ \A m \in Num \ {n} : index'[m] = index[m]
  BY <1>1
<1>3. /\ index_free_list # 0 => index_free_list - 1 \in Free
      /\ \A m \in Free :
           index[m].pos # 0 => index[m].pos - 1 \in Free /\ index[m].pos # index_free_list
      /\ \A m, k \in Free : index[m].pos = index[k].pos /\ index[m].pos # 0 => m = k
  BY DEF ListOK, FreeListLinks
<1>4. n \in Free /\ \A m \in Free : m \in Num /\ m \in Nat /\ index[m].pos \in Int
  <2>1. n \in Free
    BY <1>3
  <2>2. \A m \in Num : index[m].pos \in Int
    BY <1>1 DEF Entry
  <2> QED BY <2>1, <2>2, NumFacts
<1>5. Free' = Free \ {n}
  <2>1. \A m \in 0 .. total_entries - 1 : m \in Num
    BY NumFacts
  <2> QED BY <2>1, <1>1, <1>2 DEF Free
<1>6. \A m \in Free' : m \in Free /\ m # n /\ index'[m] = index[m]
  BY <1>2, <1>4, <1>5
<1>7. index_free_list' # 0 => index_free_list' - 1 \in Free'
  <2>1. index_free_list' # 0 => index[n].pos - 1 \in Free /\ index[n].pos # index_free_list
    BY <1>3, <1>4
  <2>2. index[n].pos \in Int
    BY <1>4
  <2> QED BY <2>1, <2>2, <1>1, <1>5
<1>8. ASSUME NEW m \in Free', index'[m].pos # 0
      PROVE  index'[m].pos - 1 \in Free' /\ index'[m].pos # index_free_list'
  <2>1. index[m].pos - 1 \in Free /\ index[m].pos # index_free_list /\ index[m].pos \in Int
    BY <1>3, <1>4, <1>6, <1>8
  <2>2. index[m].pos - 1 # n
    BY <2>1, <1>1
  <2>3. index[m].pos # index[n].pos
    BY <1>3, <1>4, <1>6, <1>8
  <2> QED BY <2>1, <2>2, <2>3, <1>5, <1>6
<1>9. \A m, k \in Free' : index'[m].pos = index'[k].pos /\ index'[m].pos # 0 => m = k
  BY <1>3, <1>6
<1>10. index_free_list' \in 0 .. MaxEntries
  <2>1. index[n].pos \in Int /\ total_entries \in 0 .. MaxEntries /\ MaxEntries \in Nat
    BY <1>4, StoreAssumption DEF HeaderOK
  <2>2. index[n].pos # 0 => index[n].pos - 1 \in 0 .. total_entries - 1
    BY <1>3, <1>4 DEF Free
  <2> QED BY <2>1, <2>2
<1>11. FreeListLinks'
  BY <1>7, <1>8, <1>9 DEF FreeListLinks
<1>12. FreeListWhole'
  BY <1>5, <1>6, PathTaken DEF ListOK
<1> QED BY <1>10, <1>11, <1>12 DEF ListOK

-----------------------------------------------------------------------------
(* The locks of the entries.                                                  *)

(* An entry that nobody writes is changed, and is not locked by that. *)
LEMMA LocksUntouched ==
  ASSUME HeaderOK, LockInv, NEW n \in Num, NEW x \in Entry,
         index' = [index EXCEPT ![n] = x], index[n].lock = "none", x.lock = "none",
         total_entries' \in Nat, total_entries' >= total_entries,
         \A t \in Session : pc'[t] = "writing" <=> pc[t] = "writing",
         \A t \in Session : pc[t] = "writing" => write'[t] = write[t]
  PROVE  LockInv'
<1>1. index \in [Num -> Entry] /\ total_entries \in Nat /\ total_entries \in 0 .. MaxEntries
  BY DEF HeaderOK
<1>2. index'[n] = x /\ \A m \in Num \ {n} : index'[m] = index[m]
  BY <1>1
<1>3. ASSUME NEW t \in Session, pc'[t] = "writing"
      PROVE  /\ write'[t] = write[t] /\ write[t].num \in 0 .. total_entries' - 1
             /\ write[t].entry = index'[write[t].num] /\ write[t].entry.lock = "entry"
  <2>1. pc[t] = "writing" /\ write'[t] = write[t]
    BY <1>3
  <2>2. /\ write[t].num \in 0 .. total_entries - 1
        /\ write[t].entry = index[write[t].num] /\ write[t].entry.lock = "entry"
    BY <2>1 DEF LockInv
  <2>3. write[t].num # n /\ write[t].num \in Num
    BY <2>2, NumFacts
  <2> QED BY <2>1, <2>2, <2>3, <1>1, <1>2
<1>4. ASSUME NEW m \in Num, index'[m].lock = "entry"
      PROVE  /\ index'[m].trans = "none"
             /\ \E t \in Session : pc'[t] = "writing" /\ write'[t].num = m
  <2>1. m # n
    BY <1>2, <1>4
  <2>2. index'[m] = index[m]
    BY <2>1, <1>2
  <2> QED BY <2>2, <1>4 DEF LockInv
<1>5. \A s, t \in Session :
        pc'[s] = "writing" /\ pc'[t] = "writing" /\ write'[s].num = write'[t].num => s = t
  BY DEF LockInv
<1> QED BY <1>3, <1>4, <1>5 DEF LockInv

(* A write outside a transaction locks its entry. *)
LEMMA LockTaken ==
  ASSUME HeaderOK, LockInv, NEW n \in Num, NEW x \in Entry, NEW s \in Session,
         index' = [index EXCEPT ![n] = x], index[n].lock = "none",
         x.lock = "entry", x.trans = "none",
         total_entries' \in Nat, total_entries' >= total_entries, n < total_entries',
         pc[s] = "idle", pc'[s] = "writing", write'[s].num = n, write'[s].entry = x,
         \A t \in Session \ {s} : pc'[t] = pc[t] /\ write'[t] = write[t]
  PROVE  LockInv'
<1>1. index \in [Num -> Entry] /\ total_entries \in Nat /\ total_entries \in 0 .. MaxEntries
      /\ n \in Nat
  BY DEF HeaderOK, Num
<1>2. index'[n] = x /\ \A m \in Num \ {n} : index'[m] = index[m]
  BY <1>1
<1>3. ASSUME NEW t \in Session \ {s}, pc'[t] = "writing"
      PROVE  /\ write'[t] = write[t] /\ write[t].num \in 0 .. total_entries' - 1
             /\ write[t].entry = index'[write[t].num] /\ write[t].entry.lock = "entry"
             /\ write[t].num # n
  <2>1. pc[t] = "writing" /\ write'[t] = write[t]
    BY <1>3
  <2>2. /\ write[t].num \in 0 .. total_entries - 1
        /\ write[t].entry = index[write[t].num] /\ write[t].entry.lock = "entry"
    BY <2>1 DEF LockInv
  <2>3. write[t].num # n /\ write[t].num \in Num
    BY <2>2, NumFacts
  <2> QED BY <2>1, <2>2, <2>3, <1>1, <1>2
<1>4. write'[s].num \in 0 .. total_entries' - 1
  <2>1. n \in 0 .. total_entries' - 1
    BY <1>1, RangeFacts
  <2> QED BY <2>1
<1>5. ASSUME NEW t \in Session, pc'[t] = "writing"
      PROVE  /\ write'[t].num \in 0 .. total_entries' - 1
             /\ write'[t].entry = index'[write'[t].num] /\ write'[t].entry.lock = "entry"
  <2>1. CASE t = s
    BY <2>1, <1>2, <1>4
  <2>2. CASE t # s
    BY <2>2, <1>3, <1>5
  <2> QED BY <2>1, <2>2
<1>6. ASSUME NEW t \in Session, NEW u \in Session, pc'[t] = "writing", pc'[u] = "writing",
             write'[t].num = write'[u].num
      PROVE  t = u
  <2>1. CASE t # s /\ u # s
    BY <2>1, <1>6 DEF LockInv
  <2>2. CASE t = s \/ u = s
    BY <2>2, <1>3, <1>6
  <2> QED BY <2>1, <2>2
<1>7. ASSUME NEW m \in Num, index'[m].lock = "entry"
      PROVE  /\ index'[m].trans = "none"
             /\ \E t \in Session : pc'[t] = "writing" /\ write'[t].num = m
  <2>1. CASE m = n
    BY <2>1, <1>2
  <2>2. CASE m # n
    <3>1. index'[m] = index[m]
      BY <2>2, <1>2
    <3>2. PICK t \in Session : pc[t] = "writing" /\ write[t].num = m
      BY <3>1, <1>7 DEF LockInv
    <3>3. t # s
      BY <3>2
    <3> QED BY <3>1, <3>2, <3>3, <1>7 DEF LockInv
  <2> QED BY <2>1, <2>2
<1> QED BY <1>5, <1>6, <1>7 DEF LockInv

(* ... and lets it go at its end. *)
LEMMA LockLeft ==
  ASSUME SessionInv, HeaderOK, LockInv, NEW s \in Session, FinishWrite(s)
  PROVE  LockInv'
<1> DEFINE n == write[s].num
           x == [write[s].entry EXCEPT !.lock = "none"]
<1>1. /\ index \in [Num -> Entry] /\ total_entries \in 0 .. MaxEntries
      /\ write \in [Session -> Write]
  BY DEF HeaderOK
<1>2. /\ n \in 0 .. total_entries - 1 /\ n \in Num /\ pc[s] = "writing"
      /\ UNCHANGED total_entries
  <2>1. pc[s] = "writing" /\ UNCHANGED total_entries
    BY DEF FinishWrite, headerVars
  <2>2. n \in 0 .. total_entries - 1
    BY <2>1 DEF LockInv
  <2> QED BY <2>1, <2>2, NumFacts
<1>3. write[s].entry \in Entry
  BY <1>1 DEF Write
<1>4. x \in Entry /\ x.lock = "none"
  BY <1>3 DEF Entry
<1>5. /\ index' = [index EXCEPT ![n] = x]
      /\ \A t \in Session : pc'[t] = "writing" => t # s /\ pc[t] = "writing"
      /\ \A t \in Session : t # s /\ pc[t] = "writing" => pc'[t] = "writing"
      /\ \A t \in Session : t # s => write'[t] = write[t]
  <2>1. pc' = [pc EXCEPT ![s] = "idle"] /\ write' = [write EXCEPT ![s] = NoWrite]
    BY DEF FinishWrite
  <2>2. pc \in [Session -> PC]
    BY DEF SessionInv, SessionsOK
  <2>3. index' = [index EXCEPT ![n] = x]
    BY DEF FinishWrite
  <2> QED BY <1>1, <2>1, <2>2, <2>3
<1> HIDE DEF n, x
<1>6. index'[n] = x /\ \A m \in Num \ {n} : index'[m] = index[m]
  BY <1>1, <1>2, <1>5
<1>7. ASSUME NEW t \in Session, pc'[t] = "writing"
      PROVE  /\ t # s /\ write'[t] = write[t] /\ write[t].num \in 0 .. total_entries' - 1
             /\ write[t].entry = index'[write[t].num] /\ write[t].entry.lock = "entry"
  <2>1. t # s /\ pc[t] = "writing" /\ write'[t] = write[t]
    BY <1>5, <1>7
  <2>2. /\ write[t].num \in 0 .. total_entries - 1
        /\ write[t].entry = index[write[t].num] /\ write[t].entry.lock = "entry"
        /\ write[t].num # n
    BY <2>1, <1>2 DEF LockInv, n
  <2>3. write[t].num \in Num
    BY <2>2, NumFacts
  <2> QED BY <2>1, <2>2, <2>3, <1>2, <1>6
<1>8. \A t, u \in Session :
        pc'[t] = "writing" /\ pc'[u] = "writing" /\ write'[t].num = write'[u].num => t = u
  BY <1>5 DEF LockInv
<1>9. ASSUME NEW m \in Num, index'[m].lock = "entry"
      PROVE  /\ index'[m].trans = "none"
             /\ \E t \in Session : pc'[t] = "writing" /\ write'[t].num = m
  <2>1. m # n /\ index'[m] = index[m]
    BY <1>4, <1>6, <1>9
  <2>2. PICK t \in Session : pc[t] = "writing" /\ write[t].num = m
    BY <2>1, <1>9 DEF LockInv
  <2>3. t # s
    BY <2>1, <2>2 DEF n
  <2> QED BY <2>1, <2>2, <2>3, <1>5, <1>9 DEF LockInv
<1> QED BY <1>7, <1>8, <1>9 DEF LockInv

-----------------------------------------------------------------------------
(* The stores.                                                                *)

Marked(e, id, op, trans) == [e EXCEPT !.tran_id = id, !.tran_op = op, !.trans = trans]

Placed(e, pos, size, id, lock) ==
  [e EXCEPT !.pos = pos, !.size = size, !.tran_id = id, !.lock = lock]

Filling(w0, num, pos, size, val) ==
  [w0 EXCEPT !.num = num, !.pos = pos, !.size = size, !.val = val]

(* The write that a store begins is one. *)
LEMMA FillingWrite ==
  ASSUME NEW w0 \in Write, NEW num \in Num \cup {-1}, NEW pos \in Int, NEW size \in Nat,
         NEW val \in Fill
  PROVE  Filling(w0, num, pos, size, val) \in Write
BY DEF Filling, Write

(* So are the blank entry and the write of a session that writes nothing. *)
LEMMA NoWriteOK == NoWrite \in Write /\ Blank \in Entry
<1>1. Blank \in Entry
  BY DEF Blank, Entry
<1> QED BY <1>1 DEF NoWrite, Write, Fill

(* What a store logs goes where the levels say the data ends. *)
LEMMA StoreOpFits ==
  ASSUME SessionInv, NEW s \in Session, NEW n \in Num, NEW e \in Entry, NEW isNew,
         NEW size \in Size, InTx(s), pc[s] = "idle"
  PROVE  /\ StoreOp(s, n, e, isNew, size) \in Op
         /\ StoreOp(s, n, e, isNew, size).id = n
         /\ StoreOp(s, n, e, isNew, size).pos = total_trans_size[s]
         /\ StoreOp(s, n, e, isNew, size).size = size
         /\ Top(s).op_offset + Top(s).op_count + 1 \in Nat
<1> DEFINE pos == Top(s).offset + Top(s).size
           id == IF isNew THEN -1 ELSE e.tran_id
           old == IF e.trans # "none" THEN e.tran_op ELSE 0
           type == IF ~isNew /\ size <= e.size THEN "update" ELSE "append"
<1>1. Top(s) \in Level
  BY PopIsPopped
<1>2. /\ Top(s).offset \in Nat /\ Top(s).size \in Nat
      /\ Top(s).op_offset \in Nat /\ Top(s).op_count \in Nat
  BY <1>1 DEF Level
<1>3. pos \in Nat /\ Top(s).op_offset + Top(s).op_count + 1 \in Nat
  BY <1>2
<1>4. id \in Nat \cup {-1} /\ old \in Nat /\ type \in {"update", "append", "destroy"}
  BY DEF Entry
<1>5. total_trans_size[s] = pos
  BY DEF SessionInv, Tile, DataEnd
<1>6. size \in Nat
  BY StoreAssumption
<1>7. StoreOp(s, n, e, isNew, size) =
        [id |-> n, type |-> type, pos |-> pos, size |-> size, old_tran_id |-> id, old_tran_op |-> old]
  BY DEF StoreOp
<1> HIDE DEF pos, id, old, type
<1> QED BY <1>3, <1>4, <1>5, <1>6, <1>7 DEF Op

(* The first section of a store in a transaction: an operation is logged and
   the entry marked, which nobody else has. *)
LEMMA StoreInTxKeeps ==
  ASSUME StoreInv, NEW s \in Session, NEW n \in Num, NEW e \in Entry, NEW isNew,
         NEW size \in Size, NEW val \in Value, Section(s),
         index[n].lock = "none", e.lock = "none", total_entries' \in 0 .. MaxEntries,
         total_entries' >= total_entries, index_free_list' \in 0 .. MaxEntries,
         UNCHANGED << rp_impl_lock, work >>, StoreInTx(s, n, e, isNew, size, val)
  PROVE  /\ SessionInv' /\ HeaderOK' /\ LockInv' /\ StoredWhereLogged'
         /\ \E x \in Entry : index' = [index EXCEPT ![n] = x] /\ x.trans # "free_list"
<1> DEFINE op == StoreOp(s, n, e, isNew, size)
           at == Top(s).op_offset + Top(s).op_count + 1
           x == Marked(e, tran_id[s], at, "change")
           pos == total_trans_size[s]
           w == Filling(NoWrite, n, pos, size, val)
<1>1. pc[s] = "idle" /\ InTx(s) /\ SessionInv /\ SessionsOK /\ HeaderOK /\ LockInv
      /\ StoredWhereLogged /\ rp_impl_lock = NoSession
  BY DEF Section, StoreInTx, StoreInv, SessionInv, IndexInv
<1>2. op \in Op /\ op.id = n /\ op.pos = total_trans_size[s] /\ op.size = size /\ at \in Nat
  BY <1>1, StoreOpFits
<1>3. /\ index' = [index EXCEPT ![n] = x] /\ write' = [write EXCEPT ![s] = w]
      /\ pc' = [pc EXCEPT ![s] = "storing"] /\ LogOp(s, op)
      /\ UNCHANGED << total_size_of_data, transaction_id, tran_id >>
  BY DEF StoreInTx, Marked, Filling
<1>4. w \in Write /\ w.num = n /\ w.pos = total_trans_size[s] /\ w.size = size
  <2>1. pos \in Nat /\ size \in Nat /\ val \in Fill
    BY <1>1, StoreAssumption DEF SessionsOK, Fill
  <2>2. pos = total_trans_size[s]
    OBVIOUS
  <2> HIDE DEF pos
  <2>3. w \in Write
    <3>1. pos \in Int /\ n \in Num \cup {-1}
      BY <2>1
    <3>2. NoWrite \in Write
      BY NoWriteOK
    <3> QED BY <2>1, <3>1, <3>2, FillingWrite
  <2>4. w.num = n /\ w.pos = pos /\ w.size = size
    BY NoWriteOK DEF Filling, Write
  <2> QED BY <2>2, <2>3, <2>4
<1> HIDE DEF op, at, w
<1>5. x \in Entry /\ x.trans = "change" /\ x.lock = "none"
  <2> DEFINE id == tran_id[s]
             trans == "change"
  <2>1. id \in Nat
    BY <1>1 DEF SessionsOK
  <2>2. trans \in {"none", "change", "delete", "free_list"}
    OBVIOUS
  <2> HIDE DEF id, trans
  <2>3. /\ Marked(e, id, at, trans) \in Entry /\ Marked(e, id, at, trans).trans = trans
        /\ Marked(e, id, at, trans).lock = e.lock
    BY <1>2, <2>1, <2>2 DEF Marked, Entry
  <2> QED BY <2>3 DEF id, trans
<1> HIDE DEF x
<1>6. pc' \in [Session -> PC] /\ pc'[s] = "storing" /\ \A t \in Session \ {s} : pc'[t] = pc[t]
  BY <1>1, <1>3 DEF SessionsOK, PC
<1>7. SessionInv'
  BY <1>1, <1>2, <1>3, <1>6, LogKeepsTile
<1>8. HeaderOK'
  <2>1. index' \in [Num -> Entry] /\ write' \in [Session -> Write]
    BY <1>1, <1>3, <1>4, <1>5 DEF HeaderOK
  <2> QED BY <2>1, <1>1, <1>3 DEF HeaderOK
<1>9. LockInv'
  <2>1. \A t \in Session : pc'[t] = "writing" <=> pc[t] = "writing"
    BY <1>1, <1>6
  <2>2. \A t \in Session : pc[t] = "writing" => write'[t] = write[t]
    BY <1>1, <1>3
  <2>3. total_entries' \in Nat
    OBVIOUS
  <2> QED BY <2>1, <2>2, <2>3, <1>1, <1>3, <1>5, LocksUntouched
<1>10. StoredWhereLogged'
  <2>1. /\ ops' = [ops EXCEPT ![s] = Append(@, op)] /\ ops \in [Session -> Seq(Op)]
        /\ write \in [Session -> Write]
    BY <1>1, <1>3 DEF LogOp, SessionsOK, HeaderOK
  <2>2. /\ ops'[s] = Append(ops[s], op) /\ write'[s] = w
        /\ \A t \in Session \ {s} : ops'[t] = ops[t] /\ write'[t] = write[t]
    BY <2>1, <1>3
  <2>3. ops'[s][Len(ops'[s])] = op
    BY <2>1, <2>2, <1>2, AppendProperties, LenProperties
  <2> QED BY <2>2, <2>3, <1>1, <1>2, <1>4, <1>6 DEF StoredWhereLogged
<1> QED BY <1>3, <1>5, <1>7, <1>8, <1>9, <1>10

(* The first section of a store outside a transaction: the entry is placed and
   locked. *)
LEMMA StorePlainKeeps ==
  ASSUME StoreInv, NEW s \in Session, NEW n \in Num, NEW e \in Entry, NEW isNew,
         NEW size \in Size, NEW val \in Value, Section(s),
         index[n].lock = "none", e.trans = "none", total_entries' \in 0 .. MaxEntries,
         n < total_entries', total_entries' >= total_entries, index_free_list' \in 0 .. MaxEntries,
         UNCHANGED << rp_impl_lock, work >>, StorePlain(s, n, e, isNew, size, val)
  PROVE  /\ SessionInv' /\ HeaderOK' /\ LockInv' /\ StoredWhereLogged'
         /\ \E x \in Entry : index' = [index EXCEPT ![n] = x] /\ x.trans # "free_list"
<1> DEFINE inPlace == ~isNew /\ size <= e.size
           pos == IF inPlace THEN e.pos ELSE total_size_of_data
           x == Placed(e, pos, size, transaction_id, "entry")
           w == [NoWrite EXCEPT !.num = n, !.pos = x.pos, !.size = size, !.val = val, !.entry = x]
<1>1. pc[s] = "idle" /\ SessionInv /\ SessionsOK /\ HeaderOK /\ LockInv
      /\ StoredWhereLogged
  BY DEF Section, StoreInv, SessionInv, IndexInv
<1>2. /\ index' = [index EXCEPT ![n] = x] /\ write' = [write EXCEPT ![s] = w]
      /\ pc' = [pc EXCEPT ![s] = "writing"] /\ UNCHANGED tranVars
      /\ transaction_id' = transaction_id + 1
      /\ total_size_of_data' = IF inPlace THEN total_size_of_data ELSE total_size_of_data + size
  BY DEF StorePlain, Placed
<1>3. size \in Nat /\ transaction_id \in Nat /\ total_size_of_data \in Int /\ e.pos \in Int
  BY <1>1, StoreAssumption DEF HeaderOK, Entry
<1>4. pos \in Int /\ total_size_of_data' \in Int /\ transaction_id' \in Nat
  BY <1>2, <1>3
<1> HIDE DEF pos, inPlace
<1>5. x \in Entry /\ x.trans = "none" /\ x.lock = "entry" /\ x.pos = pos
  <2> DEFINE lock == "entry"
  <2>1. lock \in {"none", "entry"}
    OBVIOUS
  <2> HIDE DEF lock
  <2>2. /\ Placed(e, pos, size, transaction_id, lock) \in Entry
        /\ Placed(e, pos, size, transaction_id, lock).trans = e.trans
        /\ Placed(e, pos, size, transaction_id, lock).lock = lock
        /\ Placed(e, pos, size, transaction_id, lock).pos = pos
    BY <1>3, <1>4, <2>1 DEF Placed, Entry
  <2> QED BY <2>2 DEF lock
<1> HIDE DEF x
<1>6. w \in Write /\ w.num = n /\ w.entry = x
  BY <1>3, <1>4, <1>5 DEF Write, NoWrite, Fill
<1> HIDE DEF w
<1>7. pc' \in [Session -> PC] /\ pc'[s] = "writing" /\ \A t \in Session \ {s} : pc'[t] = pc[t]
  BY <1>1, <1>2 DEF SessionsOK, PC
<1>8. write' \in [Session -> Write] /\ write'[s] = w /\ \A t \in Session \ {s} : write'[t] = write[t]
  BY <1>1, <1>2, <1>6 DEF HeaderOK
<1>9. SessionInv'
  BY <1>1, <1>2, <1>7, CallKeepsTile
<1>10. HeaderOK'
  <2>1. index' \in [Num -> Entry]
    BY <1>1, <1>2, <1>5 DEF HeaderOK
  <2> QED BY <2>1, <1>4, <1>8 DEF HeaderOK
<1>11. LockInv'
  <2>1. total_entries' \in Nat
    OBVIOUS
  <2> QED BY <2>1, <1>1, <1>2, <1>5, <1>6, <1>7, <1>8, LockTaken
<1>12. StoredWhereLogged'
  BY <1>1, <1>2, <1>7, <1>8 DEF StoredWhereLogged, tranVars
<1> QED BY <1>2, <1>5, <1>9, <1>10, <1>11, <1>12

(* No entry beyond "total_entries" is locked, and no free entry. *)
LEMMA NotLocked ==
  ASSUME StoreInv, NEW n \in Num
  PROVE  /\ n >= total_entries => index[n].lock = "none"
         /\ index[n].trans # "none" => index[n].lock = "none"
<1>1. HeaderOK /\ LockInv
  BY DEF StoreInv, IndexInv
<1>2. index[n].lock \in {"none", "entry"}
  BY <1>1 DEF HeaderOK, Entry
<1>3. index[n].lock = "entry" => index[n].trans = "none"
  BY <1>1 DEF LockInv
<1>4. ASSUME index[n].lock = "entry", n >= total_entries PROVE FALSE
  <2>1. PICK t \in Session : pc[t] = "writing" /\ write[t].num = n
    BY <1>1, <1>4 DEF LockInv
  <2>2. n \in 0 .. total_entries - 1
    BY <1>1, <2>1 DEF LockInv
  <2> QED BY <2>2, <1>1, <1>4, NumFacts
<1> QED BY <1>2, <1>3, <1>4

(* All stores: through "Store", for an entry that nobody else has. *)
LEMMA StoreKeeps ==
  ASSUME StoreInv, NEW s \in Session, NEW n \in Num, NEW e \in Entry, NEW isNew,
         NEW size \in Size, NEW val \in Value, Section(s),
         index[n].lock = "none", e.lock = "none", InTx(s) \/ e.trans = "none",
         total_entries' \in 0 .. MaxEntries, n < total_entries',
         total_entries' >= total_entries, index_free_list' \in 0 .. MaxEntries,
         Store(s, n, e, isNew, size, val)
  PROVE  /\ SessionInv' /\ HeaderOK' /\ LockInv' /\ StoredWhereLogged'
         /\ \E x \in Entry : index' = [index EXCEPT ![n] = x] /\ x.trans # "free_list"
<1>1. UNCHANGED << rp_impl_lock, work >>
  BY DEF Store
<1>2. CASE StoreInTx(s, n, e, isNew, size, val)
  BY <1>1, <1>2, StoreInTxKeeps
<1>3. CASE StorePlain(s, n, e, isNew, size, val)
  <2>1. e.trans = "none"
    BY <1>3 DEF StorePlain
  <2> QED BY <1>1, <1>3, <2>1, StorePlainKeeps
<1> QED BY <1>2, <1>3 DEF Store

(* A store with a new entry. *)
LEMMA CreateKeeps ==
  ASSUME StoreInv, NEW s \in Session, NEW size \in Size, NEW val \in Value,
         Create(s, size, val)
  PROVE  StoreInv'
<1> DEFINE n == total_entries
<1>1. /\ Section(s) /\ total_entries < MaxEntries /\ total_entries' = total_entries + 1
      /\ UNCHANGED index_free_list /\ Store(s, n, Blank, TRUE, size, val)
  BY DEF Create
<1>2. HeaderOK /\ ListOK
  BY DEF StoreInv, IndexInv
<1>3. total_entries \in Nat /\ MaxEntries \in Nat
  BY <1>2, NumFacts
<1>4. /\ n \in Num /\ n >= total_entries /\ n < total_entries' /\ total_entries' \in 0 .. MaxEntries
      /\ total_entries' \in Nat /\ total_entries' >= total_entries
      /\ \A m \in total_entries .. total_entries' - 1 : m = n
  BY <1>1, <1>3 DEF Num
<1>5. n \notin Free
  BY <1>3 DEF Free
<1> HIDE DEF n
<1>6. index[n].lock = "none"
  BY <1>4, NotLocked
<1>7. Blank \in Entry /\ Blank.lock = "none" /\ Blank.trans = "none"
  BY NoWriteOK DEF Blank
<1>8. index_free_list' \in 0 .. MaxEntries
  BY <1>1, <1>2 DEF HeaderOK
<1>9. /\ SessionInv' /\ HeaderOK' /\ LockInv' /\ StoredWhereLogged'
      /\ \E x \in Entry : index' = [index EXCEPT ![n] = x] /\ x.trans # "free_list"
  BY <1>1, <1>4, <1>6, <1>7, <1>8, StoreKeeps
<1>10. ListOK'
  BY <1>1, <1>2, <1>4, <1>5, <1>9, ListUntouched
<1> QED BY <1>9, <1>10 DEF StoreInv, IndexInv

(* The head of the free list, as a store takes it. *)
LEMMA RevivedEntry ==
  ASSUME NEW e \in Entry
  PROVE  /\ [e EXCEPT !.trans = "none", !.pos = 0] \in Entry
         /\ [e EXCEPT !.trans = "none", !.pos = 0].lock = e.lock
         /\ [e EXCEPT !.trans = "none", !.pos = 0].trans = "none"
<1> DEFINE trans == "none"
           pos == 0
           x == [e EXCEPT !.trans = trans, !.pos = pos]
<1>1. trans \in {"none", "change", "delete", "free_list"} /\ pos \in Int
  OBVIOUS
<1> HIDE DEF trans, pos
<1>2. x \in Entry
  BY <1>1 DEF Entry
<1>3. x.lock = e.lock /\ x.trans = trans
  BY DEF Entry
<1> QED BY <1>2, <1>3 DEF trans, pos

(* A store with the head of the free list. *)
LEMMA ReviveKeeps ==
  ASSUME StoreInv, NEW s \in Session, NEW size \in Size, NEW val \in Value,
         Revive(s, size, val)
  PROVE  StoreInv'
<1> DEFINE n == index_free_list - 1
           e == [index[n] EXCEPT !.trans = "none", !.pos = 0]
<1>1. /\ Section(s) /\ index_free_list # 0 /\ index[n].lock = "none"
      /\ Store(s, n, e, TRUE, size, val)
      /\ index_free_list' = index[n].pos /\ UNCHANGED total_entries
  BY DEF Revive
<1>2. HeaderOK /\ ListOK
  BY DEF StoreInv, IndexInv
<1>3. n \in Free
  BY <1>1, <1>2 DEF ListOK, FreeListLinks
<1>4. n \in Num /\ n \in 0 .. total_entries - 1 /\ total_entries \in Nat /\ MaxEntries \in Nat
      /\ total_entries <= MaxEntries
  BY <1>2, <1>3, NumFacts
<1>5. index[n] \in Entry
  BY <1>2, <1>4 DEF HeaderOK
<1>6. e \in Entry /\ e.lock = "none" /\ e.trans = "none"
  <2> DEFINE was == index[n]
  <2>1. was \in Entry /\ was.lock = "none"
    BY <1>1, <1>5
  <2> HIDE DEF was
  <2>2. /\ [was EXCEPT !.trans = "none", !.pos = 0] \in Entry
        /\ [was EXCEPT !.trans = "none", !.pos = 0].lock = "none"
        /\ [was EXCEPT !.trans = "none", !.pos = 0].trans = "none"
    BY <2>1, RevivedEntry
  <2> QED BY <2>2 DEF was
<1>7. /\ total_entries' \in 0 .. MaxEntries /\ n < total_entries' /\ total_entries' >= total_entries
  BY <1>1, <1>4
<1>8. index_free_list' \in 0 .. MaxEntries
  <2>1. index[n].pos \in Int
    BY <1>5 DEF Entry
  <2>2. index[n].pos # 0 => index[n].pos - 1 \in 0 .. total_entries - 1
    BY <1>2, <1>3 DEF ListOK, FreeListLinks, Free
  <2> QED BY <2>1, <2>2, <1>1, <1>4
<1> HIDE DEF e
<1>9. /\ SessionInv' /\ HeaderOK' /\ LockInv' /\ StoredWhereLogged'
      /\ \E x \in Entry : index' = [index EXCEPT ![n] = x] /\ x.trans # "free_list"
  <2> HIDE DEF n
  <2> QED BY <1>1, <1>4, <1>6, <1>7, <1>8, StoreKeeps
<1>10. ListOK'
  <2>1. PICK x \in Entry : index' = [index EXCEPT ![n] = x] /\ x.trans # "free_list"
    BY <1>9
  <2> QED BY <2>1, <1>1, <1>2, <1>4, HeadTaken
<1> QED BY <1>9, <1>10 DEF StoreInv, IndexInv

(* An id that a caller holds is not that of a free entry. *)
LEMMA KnownIsStored ==
  ASSUME ~StaleIds, HeaderOK, NEW n \in Num, Known(n)
  PROVE  n \notin Free /\ n < total_entries /\ n \in 0 .. total_entries - 1
         /\ index[n].trans # "free_list" /\ index[n] \in Entry
<1>1. n < total_entries /\ index[n].trans # "free_list"
  BY DEF Known
<1> QED BY <1>1, NumFacts, RangeFacts DEF Free, HeaderOK

(* A store of an object that exists. *)
LEMMA UpdateKeeps ==
  ASSUME ~StaleIds, StoreInv, NEW s \in Session, NEW n \in Num, NEW size \in Size,
         NEW val \in Value, Update(s, n, size, val)
  PROVE  StoreInv'
<1>1. /\ Section(s) /\ Known(n) /\ Writable(s, index[n])
      /\ Store(s, n, index[n], FALSE, size, val)
      /\ UNCHANGED << total_entries, index_free_list >>
  BY DEF Update
<1>2. HeaderOK /\ ListOK
  BY DEF StoreInv, IndexInv
<1>3. n \notin Free /\ n < total_entries /\ index[n] \in Entry
  BY <1>1, <1>2, KnownIsStored
<1>4. index[n].lock = "none" /\ (InTx(s) \/ index[n].trans = "none")
  BY <1>1 DEF Writable
<1>5. /\ total_entries' \in 0 .. MaxEntries /\ n < total_entries' /\ total_entries' >= total_entries
      /\ total_entries' \in Nat /\ index_free_list' \in 0 .. MaxEntries
      /\ \A m \in total_entries .. total_entries' - 1 : m = n
  BY <1>1, <1>2, <1>3, NumFacts DEF HeaderOK
<1>6. /\ SessionInv' /\ HeaderOK' /\ LockInv' /\ StoredWhereLogged'
      /\ \E x \in Entry : index' = [index EXCEPT ![n] = x] /\ x.trans # "free_list"
  BY <1>1, <1>3, <1>4, <1>5, StoreKeeps
<1>7. ListOK'
  BY <1>1, <1>2, <1>3, <1>5, <1>6, ListUntouched
<1> QED BY <1>6, <1>7 DEF StoreInv, IndexInv

-----------------------------------------------------------------------------
(* A step that leaves the index, the header and the writers alone. *)
LEMMA IndexFrame ==
  ASSUME StoreInv, SessionInv', UNCHANGED << headerVars, index >>,
         write' \in [Session -> Write],
         \A t \in Session : pc'[t] = "writing" <=> pc[t] = "writing",
         \A t \in Session : pc[t] = "writing" => write'[t] = write[t],
         \A t \in Session : pc'[t] = "storing" =>
           pc[t] = "storing" /\ ops'[t] = ops[t] /\ write'[t] = write[t]
  PROVE  StoreInv'
<1>1. HeaderOK /\ LockInv /\ ListOK /\ StoredWhereLogged
  BY DEF StoreInv, IndexInv
<1>2. HeaderOK'
  BY <1>1 DEF HeaderOK, headerVars
<1>3. ListOK'
  <2>1. Free' = Free /\ UNCHANGED << index, index_free_list >>
    BY DEF Free, headerVars
  <2>2. FreeListLinks'
    BY <2>1, <1>1 DEF ListOK, FreeListLinks
  <2>3. FreeListWhole'
    BY <2>1, <1>1, PathUntouched DEF ListOK
  <2> QED BY <2>2, <2>3 DEF ListOK
<1>4. LockInv'
  BY <1>1 DEF LockInv, headerVars
<1>5. StoredWhereLogged'
  BY <1>1 DEF StoredWhereLogged
<1> QED BY <1>2, <1>3, <1>4, <1>5 DEF StoreInv, IndexInv

(* The steps of reads and writes that change no entry. *)
LEMMA CallStepsKeep ==
  ASSUME StoreInv, NEW s \in Session,
         \/ FinishStore(s) \/ FetchPage(s) \/ NextPage(s) \/ ReadPage(s) \/ FinishRead(s)
         \/ \E n \in Num : StartRead(s, n)
  PROVE  StoreInv'
<1>1. /\ SessionInv /\ pc \in [Session -> PC] /\ write \in [Session -> Write]
      /\ UNCHANGED << headerVars, index, tranVars, work, rp_impl_lock >>
  BY DEF StoreInv, SessionInv, SessionsOK, IndexInv, HeaderOK, FinishStore, FetchPage, NextPage,
         ReadPage, FinishRead, StartRead
<1>2. /\ pc' \in [Session -> PC] /\ \A t \in Session \ {s} : pc'[t] = pc[t]
      /\ pc[s] \in {"idle", "storing", "writing", "reading"}
      /\ pc'[s] \in {"idle", "writing", "reading"}
      /\ pc'[s] = "writing" <=> pc[s] = "writing"
  BY <1>1 DEF FinishStore, FetchPage, NextPage, ReadPage, FinishRead, ReadDone, StartRead, Section, PC
<1>3. /\ write' \in [Session -> Write]
      /\ \A t \in Session : t # s \/ pc[s] # "storing" => write'[t] = write[t]
  <2>1. CASE FinishStore(s)
    BY <2>1, <1>1, NoWriteOK DEF FinishStore
  <2>2. CASE ~FinishStore(s)
    BY <2>2, <1>1 DEF FetchPage, NextPage, ReadPage, FinishRead, StartRead
  <2> QED BY <2>1, <2>2
<1>4. SessionInv'
  BY <1>1, <1>2, CallKeepsTile
<1>5. ops' = ops
  BY <1>1 DEF tranVars
<1> QED BY <1>1, <1>2, <1>3, <1>4, <1>5, IndexFrame

(* The end of a write: the entry held since its first section is put back. *)
LEMMA FinishWriteKeeps ==
  ASSUME StoreInv, NEW s \in Session, FinishWrite(s)
  PROVE  StoreInv'
<1> DEFINE n == write[s].num
           entry == write[s].entry
           x == [entry EXCEPT !.lock = "none"]
<1>1. /\ SessionInv /\ pc \in [Session -> PC] /\ HeaderOK /\ LockInv /\ ListOK
      /\ write \in [Session -> Write] /\ StoredWhereLogged
  BY DEF StoreInv, SessionInv, SessionsOK, IndexInv, HeaderOK
<1>2. /\ pc[s] = "writing" /\ pc' = [pc EXCEPT ![s] = "idle"] /\ index' = [index EXCEPT ![n] = x]
      /\ write' = [write EXCEPT ![s] = NoWrite]
      /\ UNCHANGED << headerVars, tranVars, work, rp_impl_lock >>
  BY DEF FinishWrite
<1>3. pc' \in [Session -> PC] /\ pc'[s] = "idle" /\ \A t \in Session \ {s} : pc'[t] = pc[t]
  BY <1>1, <1>2 DEF PC
<1>4. SessionInv'
  BY <1>1, <1>2, <1>3, CallKeepsTile
<1>5. /\ n \in 0 .. total_entries - 1 /\ entry = index[n] /\ entry.lock = "entry" /\ n \in Num
  BY <1>1, <1>2, NumFacts DEF LockInv
<1>6. entry \in Entry /\ index[n].trans = "none"
  BY <1>1, <1>5 DEF HeaderOK, LockInv
<1> HIDE DEF n, entry
<1>7. x \in Entry /\ x.trans = entry.trans
  BY <1>6 DEF Entry
<1>8. x.trans # "free_list" /\ n \notin Free
  BY <1>5, <1>6, <1>7 DEF Free
<1> HIDE DEF x
<1>9. HeaderOK'
  <2>1. index' \in [Num -> Entry] /\ write' \in [Session -> Write]
    BY <1>1, <1>2, <1>7, NoWriteOK DEF HeaderOK
  <2> QED BY <2>1, <1>1, <1>2 DEF HeaderOK, headerVars
<1>10. ListOK'
  <2>1. /\ total_entries' \in Nat /\ total_entries' >= total_entries
        /\ index_free_list' = index_free_list
        /\ \A m \in total_entries .. total_entries' - 1 : m = n
    BY <1>1, <1>2, NumFacts DEF headerVars
  <2> QED BY <2>1, <1>1, <1>2, <1>5, <1>7, <1>8, ListUntouched
<1>11. LockInv'
  BY <1>1, LockLeft
<1>12. StoredWhereLogged'
  BY <1>1, <1>2, <1>3 DEF StoredWhereLogged, tranVars
<1> QED BY <1>4, <1>9, <1>10, <1>11, <1>12 DEF StoreInv, IndexInv

(* The steps that open, merge or take away a level. *)
LEMMA LevelStepsKeep ==
  ASSUME StoreInv, NEW s \in Session,
         TransactionStart(s) \/ CommitInner(s) \/ CommitBegin(s) \/ RollbackBegin(s)
  PROVE  StoreInv'
<1>1. SessionInv'
  BY StartKeepsTile, CommitInnerKeepsTile, BeginKeepsTile DEF StoreInv
<1>2. /\ HeaderOK /\ LockInv /\ ListOK /\ StoredWhereLogged /\ pc \in [Session -> PC]
  BY DEF StoreInv, IndexInv, SessionInv, SessionsOK
<1>3. /\ UNCHANGED << total_entries, total_size_of_data, index_free_list, index, write, ops >>
      /\ pc[s] = "idle" /\ pc'[s] \in {"idle", "committing", "rolling back"}
      /\ \A t \in Session \ {s} : pc'[t] = pc[t]
  BY <1>2 DEF TransactionStart, CommitInner, CommitBegin, RollbackBegin, Section, headerVars
<1>4. transaction_id' \in Nat
  <2>1. transaction_id \in Nat
    BY <1>2 DEF HeaderOK
  <2>2. transaction_id' = transaction_id \/ transaction_id' = transaction_id + 1
    BY DEF TransactionStart, CommitInner, CommitBegin, RollbackBegin, headerVars
  <2> QED BY <2>1, <2>2
<1>5. HeaderOK'
  BY <1>2, <1>3, <1>4 DEF HeaderOK
<1>6. ListOK'
  <2>1. Free' = Free
    BY <1>3 DEF Free
  <2>2. FreeListLinks'
    BY <2>1, <1>2, <1>3 DEF ListOK, FreeListLinks
  <2>3. FreeListWhole'
    BY <2>1, <1>2, <1>3, PathUntouched DEF ListOK
  <2> QED BY <2>2, <2>3 DEF ListOK
<1>7. \A t \in Session : pc'[t] = "writing" <=> pc[t] = "writing"
  BY <1>3
<1>8. LockInv'
  BY <1>2, <1>3, <1>7 DEF LockInv
<1>9. StoredWhereLogged'
  BY <1>2, <1>3 DEF StoredWhereLogged
<1> QED BY <1>1, <1>5, <1>6, <1>8, <1>9 DEF StoreInv, IndexInv

(* The last steps of a commit and of a rollback. *)
LEMMA EndsKeep ==
  ASSUME StoreInv, NEW s \in Session, CommitEnd(s) \/ RollbackEnd(s)
  PROVE  StoreInv'
<1>1. SessionInv'
  BY CommitEndKeepsTile, RollbackEndKeepsTile DEF StoreInv
<1>2. /\ pc \in [Session -> PC] /\ write \in [Session -> Write]
      /\ ops \in [Session -> Seq(Op)]
  BY DEF StoreInv, IndexInv, SessionInv, SessionsOK, HeaderOK
<1>3. /\ UNCHANGED << headerVars, index, write >>
      /\ pc[s] \in {"committing", "rolling back"} /\ pc'[s] = "idle"
      /\ \A t \in Session \ {s} : pc'[t] = pc[t] /\ ops'[t] = ops[t]
  BY <1>2 DEF CommitEnd, RollbackEnd
<1> QED BY <1>1, <1>2, <1>3, IndexFrame

-----------------------------------------------------------------------------
(* The entries that are deleted, committed and undone.                        *)
LEMMA FreedEntry ==
  ASSUME HeaderOK, NEW e \in Entry
  PROVE  /\ Freed(e) \in Entry /\ Freed(e).lock = e.lock
         /\ Freed(e).trans = "free_list" /\ Freed(e).pos = index_free_list
<1> DEFINE trans == "free_list"
           size == 0
           x == [e EXCEPT !.pos = index_free_list, !.size = size, !.trans = trans]
<1>1. trans \in {"none", "change", "delete", "free_list"} /\ size \in Nat
      /\ index_free_list \in Int
  BY DEF HeaderOK
<1> HIDE DEF trans, size
<1>2. x \in Entry
  BY <1>1 DEF Entry
<1>3. x.lock = e.lock /\ x.trans = trans /\ x.pos = index_free_list
  BY DEF Entry
<1> QED BY <1>2, <1>3 DEF Freed, trans, size

(* A destroy in a transaction marks the entry. *)
LEMMA DestroyInTxKeeps ==
  ASSUME ~StaleIds, StoreInv, NEW s \in Session, NEW n \in Num, Destroy(s, n), DestroyInTx(s, n)
  PROVE  StoreInv'
<1> DEFINE e == index[n]
           id == tran_id[s]
           zero == 0
           trans == "delete"
           x == Marked(e, id, zero, trans)
           op == [id |-> n, type |-> "destroy", pos |-> 0, size |-> 0,
                  old_tran_id |-> 0, old_tran_op |-> e.tran_op]
<1>1. /\ SessionInv /\ HeaderOK /\ LockInv /\ ListOK /\ StoredWhereLogged
      /\ pc \in [Session -> PC] /\ ops \in [Session -> Seq(Op)] /\ id \in Nat
  BY DEF StoreInv, IndexInv, SessionInv, SessionsOK
<1>2. /\ Section(s) /\ pc[s] = "idle" /\ Known(n) /\ Writable(s, e) /\ InTx(s) /\ LogOp(s, op)
      /\ index' = [index EXCEPT ![n] = x]
      /\ UNCHANGED << headerVars, tran_id, rp_impl_lock, pc, write, work >>
  BY DEF Destroy, DestroyInTx, Section, Marked
<1>3. /\ n \notin Free /\ n < total_entries /\ e \in Entry
  BY <1>1, <1>2, KnownIsStored
<1>4. e.lock = "none" /\ e.tran_op \in Nat
  BY <1>2, <1>3 DEF Writable, Entry
<1>5. op \in Op
  <2>1. 0 \in Nat /\ 0 \in Nat \cup {-1} /\ "destroy" \in {"update", "append", "destroy"}
    OBVIOUS
  <2> HIDE DEF e
  <2> QED BY <2>1, <1>4 DEF Op
<1>6. x \in Entry /\ x.lock = "none" /\ x.trans = trans
  <2>1. zero \in Nat /\ trans \in {"none", "change", "delete", "free_list"}
    OBVIOUS
  <2> HIDE DEF e, id, zero, trans
  <2> QED BY <2>1, <1>1, <1>3, <1>4 DEF Marked, Entry
<1> HIDE DEF op, x
<1>7. SessionInv'
  BY <1>1, <1>2, <1>5, LogKeepsTile
<1>8. HeaderOK'
  BY <1>1, <1>2, <1>6 DEF HeaderOK, headerVars
<1>9. /\ total_entries' \in Nat /\ total_entries' >= total_entries
      /\ index_free_list' = index_free_list
      /\ \A m \in total_entries .. total_entries' - 1 : m = n
  BY <1>1, <1>2, NumFacts DEF headerVars
<1>10. ListOK'
  BY <1>1, <1>2, <1>3, <1>6, <1>9, ListUntouched
<1>11. LockInv'
  BY <1>1, <1>2, <1>4, <1>6, <1>9, LocksUntouched
<1>12. StoredWhereLogged'
  BY <1>1, <1>2 DEF StoredWhereLogged, LogOp
<1> QED BY <1>7, <1>8, <1>10, <1>11, <1>12 DEF StoreInv, IndexInv

(* A destroy outside one frees it. *)
LEMMA DestroyPlainKeeps ==
  ASSUME ~StaleIds, StoreInv, NEW s \in Session, NEW n \in Num, Destroy(s, n), DestroyPlain(s, n)
  PROVE  StoreInv'
<1> DEFINE was == [index[n] EXCEPT !.tran_id = transaction_id, !.tran_op = 0]
           x == Freed(was)
<1>1. /\ SessionInv /\ HeaderOK /\ LockInv /\ ListOK /\ StoredWhereLogged
      /\ pc \in [Session -> PC] /\ transaction_id \in Nat /\ total_size_of_data \in Int
  BY DEF StoreInv, IndexInv, SessionInv, SessionsOK, HeaderOK
<1>2. /\ Section(s) /\ pc[s] = "idle" /\ Known(n) /\ Writable(s, index[n])
      /\ index' = [index EXCEPT ![n] = x] /\ index_free_list' = n + 1
      /\ total_size_of_data' \in {total_size_of_data, total_size_of_data - index[n].size}
      /\ transaction_id' = transaction_id + 1
      /\ UNCHANGED << total_entries, tranVars, rp_impl_lock, pc, write, work >>
  BY DEF Destroy, DestroyPlain, Section
<1>3. /\ n \notin Free /\ n < total_entries /\ index[n] \in Entry
  BY <1>1, <1>2, KnownIsStored
<1>4. index[n].lock = "none" /\ index[n].size \in Nat
  BY <1>2, <1>3 DEF Writable, Entry
<1>5. was \in Entry /\ was.lock = "none"
  <2> DEFINE e == index[n]
             zero == 0
  <2>1. e \in Entry /\ e.lock = "none" /\ zero \in Nat
    BY <1>3, <1>4
  <2> HIDE DEF e, zero
  <2>2. [e EXCEPT !.tran_id = transaction_id, !.tran_op = zero] \in Entry
    BY <2>1, <1>1 DEF Entry
  <2>3. [e EXCEPT !.tran_id = transaction_id, !.tran_op = zero].lock = "none"
    BY <2>1 DEF Entry
  <2> QED BY <2>2, <2>3 DEF e, zero
<1> HIDE DEF was
<1>6. x \in Entry /\ x.lock = "none" /\ x.trans = "free_list" /\ x.pos = index_free_list
  BY <1>1, <1>5, FreedEntry
<1> HIDE DEF x
<1>7. SessionInv'
  BY <1>1, <1>2, CallKeepsTile
<1>8. HeaderOK'
  <2>1. index_free_list' \in 0 .. MaxEntries
    BY <1>1, <1>2, <1>3, NumFacts
  <2>2. total_size_of_data' \in Int /\ transaction_id' \in Nat
    BY <1>1, <1>2, <1>4
  <2>3. index' \in [Num -> Entry]
    BY <1>1, <1>2, <1>6 DEF HeaderOK
  <2> QED BY <2>1, <2>2, <2>3, <1>1, <1>2 DEF HeaderOK
<1>9. ListOK'
  BY <1>1, <1>2, <1>3, <1>6, HeadAdded
<1>10. total_entries' \in Nat /\ total_entries' >= total_entries
  BY <1>1, <1>2, NumFacts
<1>11. LockInv'
  BY <1>1, <1>2, <1>4, <1>6, <1>10, LocksUntouched
<1>12. StoredWhereLogged'
  BY <1>1, <1>2 DEF StoredWhereLogged, tranVars
<1> QED BY <1>7, <1>8, <1>9, <1>11, <1>12 DEF StoreInv, IndexInv

(* One operation of a commit or a rollback changes one entry at most, frees   *)
(* it or keeps it stored.                                                     *)
LEMMA HolderKeeps ==
  ASSUME StoreInv, NEW s \in Session, NEW n \in Num, n < total_entries, n \notin Free,
         index[n].lock = "none", NEW x \in Entry, x.lock = "none",
         index' = [index EXCEPT ![n] = x],
         \/ x.trans # "free_list" /\ index_free_list' = index_free_list
         \/ x.trans = "free_list" /\ x.pos = index_free_list /\ index_free_list' = n + 1,
         total_size_of_data' \in Int, SessionInv',
         UNCHANGED << total_entries, transaction_id, pc, tranVars, write >>
  PROVE  StoreInv'
<1>1. /\ HeaderOK /\ LockInv /\ ListOK /\ StoredWhereLogged
  BY DEF StoreInv, IndexInv
<1>2. total_entries' \in Nat /\ total_entries' >= total_entries
      /\ \A m \in total_entries .. total_entries' - 1 : m = n
  BY <1>1, NumFacts
<1>3. HeaderOK'
  <2>1. index_free_list' \in 0 .. MaxEntries
    BY <1>1, NumFacts DEF HeaderOK
  <2>2. index' \in [Num -> Entry]
    BY <1>1 DEF HeaderOK
  <2> QED BY <2>1, <2>2, <1>1 DEF HeaderOK
<1>4. ListOK'
  BY <1>1, <1>2, ListUntouched, HeadAdded
<1>5. LockInv'
  BY <1>1, <1>2, LocksUntouched
<1>6. StoredWhereLogged'
  BY <1>1 DEF StoredWhereLogged, tranVars
<1> QED BY <1>3, <1>4, <1>5, <1>6 DEF StoreInv, IndexInv

(* What giving back an extent at the tail leaves of the locals of a commit. *)
LEMMA TailWork ==
  ASSUME NEW k \in Work, NEW e \in Entry
  PROVE  /\ TailDeleted(k, e).work \in Work /\ TailDeleted(k, e).given_back \in Nat
         /\ TailDeleted(k, e).work.cursor = k.cursor
         /\ TailDeleted(k, e).work.op_count = k.op_count
         /\ TailDeleted(k, e).work.op_offset = k.op_offset
         /\ TailDeleted(k, e).work.size = k.size
<1> DEFINE touching == k.last_delete_pos + k.last_delete_size = e.pos
           prior == IF k.last_delete_size = 0 THEN k.prior_deleted_bytes
                    ELSE IF touching THEN k.prior_deleted_bytes + k.last_delete_size ELSE 0
           clear == (k.last_delete_size # 0 /\ ~touching) \/ AtTail(e)
           pos == e.pos
           size == e.size
           zero == 0
           cleared == [k EXCEPT !.last_delete_pos = zero, !.last_delete_size = zero,
                                !.prior_deleted_bytes = zero]
           kept == [k EXCEPT !.last_delete_pos = pos, !.last_delete_size = size,
                             !.prior_deleted_bytes = prior]
           back == IF AtTail(e) THEN e.size + prior ELSE 0
<1>1. /\ k.last_delete_size \in Nat /\ k.prior_deleted_bytes \in Nat
      /\ pos \in Int /\ size \in Nat /\ zero \in Nat /\ zero \in Int
  BY DEF Work, Entry
<1>2. prior \in Nat
  BY <1>1
<1>3. TailDeleted(k, e).work = (IF clear THEN cleared ELSE kept)
      /\ TailDeleted(k, e).given_back = back
  BY DEF TailDeleted
<1>4. back \in Nat
  <2> HIDE DEF prior
  <2> QED BY <1>1, <1>2
<1> HIDE DEF prior, pos, size, zero, clear, back
<1>5. cleared \in Work /\ kept \in Work
  BY <1>1, <1>2 DEF Work
<1>6. /\ cleared.cursor = k.cursor /\ kept.cursor = k.cursor
      /\ cleared.op_count = k.op_count /\ kept.op_count = k.op_count
      /\ cleared.op_offset = k.op_offset /\ kept.op_offset = k.op_offset
      /\ cleared.size = k.size /\ kept.size = k.size
  BY DEF Work
<1> QED BY <1>3, <1>4, <1>5, <1>6

(* The loop of a commit or a rollback goes on to the next operation. *)
LEMMA CursorMoved ==
  ASSUME NEW k \in Work, k.cursor > 0
  PROVE  /\ [k EXCEPT !.cursor = @ - 1] \in Work
         /\ [k EXCEPT !.cursor = @ - 1].cursor = k.cursor - 1
         /\ [k EXCEPT !.cursor = @ - 1].op_count = k.op_count
         /\ [k EXCEPT !.cursor = @ - 1].op_offset = k.op_offset
         /\ [k EXCEPT !.cursor = @ - 1].size = k.size
<1> DEFINE c == k.cursor - 1
<1>1. c \in Nat
  BY DEF Work
<1> HIDE DEF c
<1>2. [k EXCEPT !.cursor = c] \in Work
  BY <1>1 DEF Work
<1>3. /\ [k EXCEPT !.cursor = c].cursor = c
      /\ [k EXCEPT !.cursor = c].op_count = k.op_count
      /\ [k EXCEPT !.cursor = c].op_offset = k.op_offset
      /\ [k EXCEPT !.cursor = c].size = k.size
  BY DEF Work
<1> QED BY <1>2, <1>3 DEF c

(* One operation of a commit: a delete frees its entry, a change keeps it. *)
LEMMA CommitOpKeeps ==
  ASSUME StoreInv, NEW s \in Session, CommitOp(s)
  PROVE  StoreInv'
<1> DEFINE op == ops[s][work[s].cursor]
           n == op.id
           e == index[n]
           k == work[s]
<1>1. /\ SessionInv /\ HeaderOK /\ work \in [Session -> Work] /\ ListOK
      /\ index \in [Num -> Entry] /\ total_size_of_data \in Int
  BY DEF StoreInv, IndexInv, SessionInv, SessionsOK, HeaderOK
<1>2. /\ pc[s] = "committing" /\ k.cursor > 0 /\ n < total_entries /\ index[n].lock = "none"
      /\ CommitDelete(s, n) \/ CommitChange(s, op) \/ CommitSkip(s, n)
      /\ UNCHANGED << total_entries, transaction_id, rp_impl_lock, pc, tranVars, write >>
  BY DEF CommitOp
<1>3. k \in Work /\ op \in Op
  BY <1>1, <1>2, CurrentOp
<1>4. n \in Num /\ op.size \in Nat
  BY <1>3 DEF Op
<1>5. e \in Entry
  BY <1>1, <1>4
<1> DEFINE next == [k EXCEPT !.cursor = @ - 1]
<1>6. /\ next \in Work /\ next.cursor = k.cursor - 1 /\ next.op_count = k.op_count
      /\ next.op_offset = k.op_offset /\ next.size = k.size
  <2> HIDE DEF k
  <2> QED BY <1>2, <1>3, CursorMoved
<1>7. ASSUME NEW w \in Work, work' = [work EXCEPT ![s] = w], w.cursor = k.cursor - 1,
             w.op_count = k.op_count, w.op_offset = k.op_offset, w.size = k.size
      PROVE  SessionInv'
  BY <1>1, <1>2, <1>7, CursorKeepsTile
<1>8. CASE CommitDelete(s, n)
  <2> DEFINE tail == TailDeleted(k, e)
             was == tail.work
             w == [was EXCEPT !.cursor = @ - 1]
             freed == Freed(e)
             zero == 0
             x == [freed EXCEPT !.tran_op = zero]
  <2>1. /\ e.trans = "delete" /\ total_size_of_data' = total_size_of_data - tail.given_back
        /\ work' = [work EXCEPT ![s] = w] /\ index' = [index EXCEPT ![n] = x]
        /\ index_free_list' = n + 1
    BY <1>8 DEF CommitDelete
  <2>2. /\ was \in Work /\ tail.given_back \in Nat /\ was.cursor = k.cursor
        /\ was.op_count = k.op_count /\ was.op_offset = k.op_offset /\ was.size = k.size
    <3> HIDE DEF k, e
    <3> QED BY <1>3, <1>5, TailWork
  <2>3. /\ w \in Work /\ w.cursor = k.cursor - 1 /\ w.op_count = k.op_count
        /\ w.op_offset = k.op_offset /\ w.size = k.size
    <3> HIDE DEF was, k
    <3> QED BY <1>2, <2>2, CursorMoved
  <2>4. /\ freed \in Entry /\ freed.lock = e.lock
        /\ freed.trans = "free_list" /\ freed.pos = index_free_list
    <3> HIDE DEF e
    <3> QED BY <1>1, <1>5, FreedEntry
  <2>5. /\ x \in Entry /\ x.lock = "none" /\ x.trans = "free_list" /\ x.pos = index_free_list
    <3>1. zero \in Nat
      OBVIOUS
    <3> HIDE DEF zero, freed
    <3>2. x \in Entry
      BY <2>4, <3>1 DEF Entry
    <3>3. x.lock = freed.lock /\ x.trans = freed.trans /\ x.pos = freed.pos
      BY <2>4 DEF Entry
    <3> QED BY <1>2, <2>4, <3>2, <3>3
  <2>6. n \notin Free
    BY <2>1 DEF Free
  <2>7. total_size_of_data' \in Int
    <3>1. total_size_of_data \in Int /\ tail.given_back \in Nat
      BY <1>1, <2>2
    <3>2. total_size_of_data' = total_size_of_data - tail.given_back
      BY <2>1
    <3> HIDE DEF tail
    <3> QED BY <3>1, <3>2
  <2> HIDE DEF w, x, tail
  <2>8. SessionInv'
    BY <1>7, <2>1, <2>3
  <2> QED BY <1>2, <1>4, <2>1, <2>5, <2>6, <2>7, <2>8, HolderKeeps
<1>9. CASE CommitChange(s, op)
  <2> DEFINE pos == IF op.type = "append" THEN total_size_of_data ELSE e.pos
             size == op.size
             zero == 0
             none == "none"
             x == [e EXCEPT !.pos = pos, !.size = size, !.tran_op = zero, !.trans = none]
  <2>1. /\ e.trans = "change" /\ index' = [index EXCEPT ![n] = x]
        /\ total_size_of_data' = IF op.type = "append" THEN total_size_of_data + op.size
                                 ELSE total_size_of_data
        /\ work' = [work EXCEPT ![s] = next] /\ index_free_list' = index_free_list
    BY <1>1, <1>9 DEF CommitChange
  <2>2. pos \in Int /\ size \in Nat /\ zero \in Nat
        /\ none \in {"none", "change", "delete", "free_list"}
    BY <1>1, <1>4, <1>5 DEF Entry
  <2>3. x \in Entry /\ x.lock = "none" /\ x.trans # "free_list"
    <3> HIDE DEF pos, size, zero, none, e
    <3>1. x \in Entry
      BY <1>5, <2>2 DEF Entry
    <3>2. x.lock = e.lock /\ x.trans = none
      BY <1>5 DEF Entry
    <3> QED BY <1>2, <3>1, <3>2 DEF none, e
  <2>4. n \notin Free
    BY <2>1 DEF Free
  <2>5. total_size_of_data' \in Int
    <3>1. total_size_of_data \in Int /\ op.size \in Nat
      BY <1>1, <1>4
    <3>2. \/ total_size_of_data' = total_size_of_data
          \/ total_size_of_data' = total_size_of_data + op.size
      BY <2>1
    <3> HIDE DEF op
    <3> QED BY <3>1, <3>2
  <2> HIDE DEF x
  <2>6. SessionInv'
    BY <1>6, <1>7, <2>1
  <2> QED BY <1>2, <1>4, <2>1, <2>3, <2>4, <2>5, <2>6, HolderKeeps
<1>10. CASE CommitSkip(s, n)
  <2>1. /\ UNCHANGED << headerVars, index, write, pc, ops >> /\ work' = [work EXCEPT ![s] = next]
    BY <1>1, <1>2, <1>10 DEF CommitSkip, headerVars, tranVars
  <2>2. SessionInv'
    BY <1>6, <1>7, <2>1
  <2> QED BY <1>1, <2>1, <2>2, IndexFrame DEF HeaderOK
<1> QED BY <1>2, <1>8, <1>9, <1>10

(* An entry put back by a rollback: free if the operation created it. *)
LEMMA UndoneEntry ==
  ASSUME HeaderOK, NEW e \in Entry, NEW op \in Op
  PROVE  /\ Undone(op, e) \in Entry /\ Undone(op, e).lock = e.lock
         /\ Undone(op, e).trans = "free_list" => Undone(op, e).pos = index_free_list
<1> DEFINE created == op.old_tran_op = 0 /\ op.old_tran_id = -1
           old == op.old_tran_op
           id == IF op.old_tran_id > 0 THEN op.old_tran_id ELSE e.tran_id
           was == [e EXCEPT !.tran_op = old, !.tran_id = id]
           trans == IF op.old_tran_op = 0 THEN "none" ELSE "change"
           back == [was EXCEPT !.trans = trans]
<1>1. old \in Nat /\ id \in Nat /\ trans \in {"none", "change", "delete", "free_list"}
      /\ trans # "free_list"
  BY DEF Op, Entry
<1>2. Undone(op, e) = (IF created THEN Freed(was) ELSE back)
  BY DEF Undone
<1> HIDE DEF old, id, trans, created
<1>3. was \in Entry /\ was.lock = e.lock
  BY <1>1 DEF Entry
<1> HIDE DEF was
<1>4. back \in Entry /\ back.lock = was.lock /\ back.trans = trans
  BY <1>1, <1>3 DEF Entry
<1>5. /\ Freed(was) \in Entry /\ Freed(was).lock = was.lock
      /\ Freed(was).pos = index_free_list
  BY <1>3, FreedEntry
<1> HIDE DEF back
<1> QED BY <1>1, <1>2, <1>3, <1>4, <1>5

(* One operation of a rollback. *)
LEMMA RollbackOpKeeps ==
  ASSUME StoreInv, NEW s \in Session, RollbackOp(s)
  PROVE  StoreInv'
<1> DEFINE op == ops[s][work[s].op_offset + work[s].cursor]
           n == op.id
           e == index[n]
           k == work[s]
           x == Undone(op, e)
           undo == e.trans \in {"change", "delete"}
           next == [k EXCEPT !.cursor = @ - 1]
<1>1. /\ SessionInv /\ HeaderOK /\ work \in [Session -> Work]
      /\ index \in [Num -> Entry] /\ total_size_of_data \in Int
      /\ write \in [Session -> Write]
  BY DEF StoreInv, IndexInv, SessionInv, SessionsOK, HeaderOK
<1>2. /\ pc[s] = "rolling back" /\ k.cursor > 0 /\ n < total_entries
      /\ index' = IF undo THEN [index EXCEPT ![n] = x] ELSE index
      /\ index_free_list' = IF undo /\ x.trans = "free_list" THEN n + 1 ELSE index_free_list
      /\ \/ total_size_of_data' = total_size_of_data
         \/ undo /\ total_size_of_data' = total_size_of_data - e.size
      /\ work' = [work EXCEPT ![s] = next]
      /\ UNCHANGED << total_entries, transaction_id, rp_impl_lock, pc, tranVars, write >>
  BY <1>1 DEF RollbackOp
<1>3. k \in Work /\ op \in Op
  BY <1>1, <1>2, CurrentOp
<1>4. n \in Num
  BY <1>3 DEF Op
<1>5. e \in Entry
  BY <1>1, <1>4
<1>6. /\ next \in Work /\ next.cursor = k.cursor - 1 /\ next.op_count = k.op_count
      /\ next.op_offset = k.op_offset /\ next.size = k.size
  <2> HIDE DEF k
  <2> QED BY <1>2, <1>3, CursorMoved
<1>7. SessionInv'
  BY <1>1, <1>2, <1>6, CursorKeepsTile
<1>8. /\ x \in Entry /\ x.lock = e.lock
      /\ x.trans = "free_list" => x.pos = index_free_list
  <2> HIDE DEF op, e
  <2> QED BY <1>1, <1>3, <1>5, UndoneEntry
<1>9. CASE undo
  <2>1. n \notin Free
    BY <1>9 DEF Free
  <2>2. e.lock = "none"
    BY <1>4, <1>9, NotLocked
  <2>3. total_size_of_data' \in Int
    <3>1. e.size \in Int /\ total_size_of_data \in Int
      BY <1>1, <1>5 DEF Entry
    <3>2. \/ total_size_of_data' = total_size_of_data
          \/ total_size_of_data' = total_size_of_data - e.size
      BY <1>2
    <3> HIDE DEF e
    <3> QED BY <3>1, <3>2
  <2> HIDE DEF x
  <2> QED BY <1>2, <1>4, <1>7, <1>8, <1>9, <2>1, <2>2, <2>3, HolderKeeps
<1>10. CASE ~undo
  <2>1. UNCHANGED << headerVars, index, write, pc, ops >>
    BY <1>2, <1>10 DEF headerVars, tranVars
  <2> QED BY <1>1, <1>7, <2>1, IndexFrame
<1> QED BY <1>9, <1>10

-----------------------------------------------------------------------------
(* The empty store. *)
LEMMA InitInv == Init => StoreInv
<1> SUFFICES ASSUME Init PROVE StoreInv
  OBVIOUS
<1>1. SessionsOK
  <2>1. NoWork \in Work
    BY DEF NoWork, Work
  <2>2. << >> \in Seq(Level) /\ << >> \in Seq(Op)
    BY EmptySeq
  <2> QED BY <2>1, <2>2 DEF Init, SessionsOK, PC
<1>2. ASSUME NEW s \in Session PROVE Tile(s)
  <2>1. levels[s] = << >> /\ ops[s] = << >> /\ pc[s] = "idle" /\ total_trans_size[s] = 0
    BY DEF Init
  <2>2. ~InTx(s) /\ Depth(s) = 0 /\ OpsEnd(s) = 0 /\ DataEnd(s) = 0
    BY <2>1, EmptySeq DEF InTx, Depth, OpsEnd, DataEnd
  <2>3. LevelsTouch(s)
    BY <2>2 DEF LevelsTouch
  <2> QED BY <2>1, <2>2, <2>3, EmptySeq DEF Tile
<1>3. HeaderOK
  BY NoWriteOK, StoreAssumption DEF Init, HeaderOK
<1>4. ListOK
  <2>1. Free = {} /\ index_free_list = 0
    BY DEF Init, Free
  <2>2. FreeListLinks
    BY <2>1 DEF FreeListLinks
  <2>3. FreePath([k \in Nat |-> 0], 0)
    BY <2>1 DEF FreePath
  <2>4. FreeListWhole
    BY <2>3 DEF FreeListWhole
  <2> QED BY <2>2, <2>4 DEF ListOK
<1>5. LockInv
  BY DEF Init, LockInv, Blank
<1>6. StoredWhereLogged
  BY DEF Init, StoredWhereLogged
<1> QED BY <1>1, <1>2, <1>3, <1>4, <1>5, <1>6 DEF StoreInv, SessionInv, IndexInv

(* Every step keeps the invariant. *)
LEMMA NextInv ==
  ASSUME ~StaleIds, StoreInv, [Next]_vars
  PROVE  StoreInv'
<1>1. ASSUME NEW s \in Session, NEW size \in Size, NEW val \in Value,
             \/ Create(s, size, val) \/ Revive(s, size, val)
             \/ \E n \in Num : Update(s, n, size, val)
      PROVE  StoreInv'
  BY <1>1, CreateKeeps, ReviveKeeps, UpdateKeeps
<1>2. ASSUME NEW s \in Session, NEW n \in Num, Destroy(s, n)
      PROVE  StoreInv'
  BY <1>2, DestroyInTxKeeps, DestroyPlainKeeps DEF Destroy
<1>3. ASSUME NEW s \in Session, NEW n \in Num, StartRead(s, n)
      PROVE  StoreInv'
  BY <1>3, CallStepsKeep
<1>4. ASSUME NEW s \in Session,
             \/ FinishStore(s) \/ FetchPage(s) \/ NextPage(s) \/ ReadPage(s) \/ FinishRead(s)
      PROVE  StoreInv'
  BY <1>4, CallStepsKeep
<1>5. ASSUME NEW s \in Session, FinishWrite(s)
      PROVE  StoreInv'
  BY <1>5, FinishWriteKeeps
<1>6. ASSUME NEW s \in Session,
             TransactionStart(s) \/ CommitInner(s) \/ CommitBegin(s) \/ RollbackBegin(s)
      PROVE  StoreInv'
  BY <1>6, LevelStepsKeep
<1>7. ASSUME NEW s \in Session, HolderStep(s)
      PROVE  StoreInv'
  BY <1>7, CommitOpKeeps, RollbackOpKeeps, EndsKeep DEF HolderStep
<1>8. CASE Quiescent \/ UNCHANGED vars
  <2>1. UNCHANGED vars
    BY <1>8 DEF Quiescent
  <2>2. SessionInv /\ write \in [Session -> Write]
    BY DEF StoreInv, IndexInv, HeaderOK
  <2>3. SessionsOK'
    BY <2>1, <2>2 DEF SessionInv, SessionsOK, vars, tranVars
  <2>4. SessionInv'
    BY <2>1, <2>2, <2>3, TileFrame DEF SessionInv, vars, tranVars
  <2> QED BY <2>1, <2>2, <2>4, IndexFrame DEF vars, tranVars
<1> QED BY <1>1, <1>2, <1>3, <1>4, <1>5, <1>6, <1>7, <1>8 DEF Next

-----------------------------------------------------------------------------
(* The invariant, of every behaviour in which no caller uses an id of an object
   that is gone. *)
LEMMA Invariant == ASSUME ~StaleIds PROVE Spec => []StoreInv
<1>1. Init => StoreInv
  BY InitInv
<1>2. StoreInv /\ [Next]_vars => StoreInv'
  BY NextInv
<1> QED BY <1>1, <1>2, PTL DEF Spec

(* Type correctness: every entry, level, operation and write in progress keeps *)
(* the fields that the structures of src/src/ods.cpp give it, with any nesting *)
(* of transactions, and no offset or count of a level is ever negative.        *)
THEOREM TypeCorrect == ASSUME ~StaleIds PROVE Spec => []TypeOK
<1>1. StoreInv => TypeOK
  BY DEF StoreInv, IndexInv, HeaderOK, SessionInv, SessionsOK, PC, TypeOK
<1> QED BY <1>1, Invariant, PTL

(* The free list stays a list: no two links to one entry, none to an entry     *)
(* that is not free, so that "operator <<" never revives an object (7049-7066),*)
(* whatever order destroys, commits and rollbacks come in.                     *)
THEOREM FreeListSound == ASSUME ~StaleIds PROVE Spec => []FreeListLinks
<1>1. StoreInv => FreeListLinks
  BY DEF StoreInv, IndexInv, ListOK
<1> QED BY <1>1, Invariant, PTL

(* No freed entry is lost: from its head the list comes to every free entry,   *)
(* each once, and ends, so that "operator <<" (7049-7066) can revive them all  *)
(* before it takes a new entry.                                                *)
THEOREM FreeListComplete == ASSUME ~StaleIds PROVE Spec => []FreeListReachesAll
<1>1. StoreInv => FreeListReachesAll
  BY WholeReachesAll DEF StoreInv, IndexInv, ListOK
<1> QED BY <1>1, Invariant, PTL

(* A locked entry has one writer, and it is the entry that this writer holds   *)
(* and writes back when it has put its last page (7273-7305).                  *)
THEOREM WritersLocked == ASSUME ~StaleIds PROVE Spec => []LockedByWriter
<1>1. StoreInv => LockedByWriter
  <2> SUFFICES ASSUME StoreInv, NEW n \in Num, index[n].lock = "entry"
               PROVE  \E s \in Session :
                        /\ pc[s] = "writing" /\ write[s].num = n /\ write[s].entry = index[n]
                        /\ \A t \in Session : pc[t] = "writing" /\ write[t].num = n => t = s
    BY DEF LockedByWriter
  <2>1. LockInv
    BY DEF StoreInv, IndexInv
  <2>2. PICK s \in Session : pc[s] = "writing" /\ write[s].num = n
    BY <2>1 DEF LockInv
  <2>3. write[s].entry = index[n]
    BY <2>1, <2>2 DEF LockInv
  <2>4. \A t \in Session : pc[t] = "writing" /\ write[t].num = n => t = s
    BY <2>1, <2>2 DEF LockInv
  <2> QED BY <2>2, <2>3, <2>4
<1> QED BY <1>1, Invariant, PTL

(* The data of a store in a transaction goes to the place that its operation   *)
(* was logged with, through any nesting of starts, commits and rollbacks.      *)
THEOREM StoresLogged == ASSUME ~StaleIds PROVE Spec => []StoredWhereLogged
<1>1. StoreInv => StoredWhereLogged
  BY DEF StoreInv
<1> QED BY <1>1, Invariant, PTL

-----------------------------------------------------------------------------
(* The marks on the entries and the operations behind them.                   *)
HasMark(n) == index[n].trans \in {"change", "delete"}

(* The session that holds the mutex is the one in a commit or a rollback, and *)
(* a commit begins with the first operation of its transaction.               *)
OneHolder ==
  \A s \in Session : pc[s] \in {"committing", "rolling back"} =>
    /\ rp_impl_lock = s
    /\ pc[s] = "committing" => work[s].op_offset = 0

(* Every open transaction has an id of its own, handed out before. *)
OwnIds ==
  /\ transaction_id > 0
  /\ \A s \in Session : Active(s) => tran_id[s] < transaction_id /\ tran_id[s] > 0
  /\ \A s, t \in Session : Active(s) /\ Active(t) /\ tran_id[s] = tran_id[t] => s = t

(* An entry without a mark names no operation, and one not yet in use has none. *)
Unnamed ==
  \A n \in Num : /\ ~HasMark(n) => index[n].tran_op = 0
                 /\ n >= total_entries => index[n].trans = "none"

(* The operation that an entry marked by a session names is its last there. *)
Names(s, n, i) ==
  /\ LastOp(s, n, i)
  /\ IF index[n].trans = "delete"
     THEN ops[s][i].type = "destroy" /\ index[n].tran_op = 0
     ELSE ops[s][i].type # "destroy" /\ index[n].tran_op = i

MarksNamed ==
  \A n \in Num : HasMark(n) =>
    \E s \in Session : /\ Active(s) /\ tran_id[s] = index[n].tran_id
                       /\ \E i \in 1 .. Live(s) : Names(s, n, i)

(* An operation not dealt with yet has its entry marked for its transaction,  *)
(* unless a commit has dealt with a later one of the same entry.              *)
OpsMarked ==
  \A s \in Session : \A i \in 1 .. Live(s) :
    LET n == ops[s][i].id
    IN \/ HasMark(n) /\ index[n].tran_id = tran_id[s]
       \/ pc[s] = "committing" /\ ~HasMark(n)

(* What an operation kept of its entry: nothing if it is the first of its     *)
(* transaction, else the number of the one before it, which was no destroy.   *)
Kept(q, id, i) ==
  LET op == q[i]
      j == op.old_tran_op
  IN \/ j = 0 /\ \A k \in 1 .. i - 1 : q[k].id # op.id
     \/ /\ j \in 1 .. i - 1 /\ q[j].id = op.id /\ q[j].type # "destroy"
        /\ \A k \in j + 1 .. i - 1 : q[k].id # op.id
        /\ op.old_tran_id \in {0, id}

OpsLinked == \A s \in Session : \A i \in 1 .. Len(ops[s]) : Kept(ops[s], tran_id[s], i)

MarkInv == OneHolder /\ OwnIds /\ Unnamed /\ MarksNamed /\ OpsMarked /\ OpsLinked

(* The operations that are not dealt with yet are operations that were logged, *)
(* and only an open transaction has any.                                       *)
LEMMA LiveOps ==
  ASSUME StoreInv, OneHolder, NEW s \in Session
  PROVE  /\ ops[s] \in Seq(Op) /\ Len(ops[s]) \in Nat /\ Live(s) \in Nat /\ Live(s) <= Len(ops[s])
         /\ \A i \in 1 .. Len(ops[s]) : ops[s][i] \in Op /\ ops[s][i].id \in Num
         /\ Live(s) > 0 => Active(s)
         /\ pc[s] \notin {"committing", "rolling back"} => Live(s) = Len(ops[s])
         /\ pc[s] = "committing" => Live(s) = work[s].cursor
         /\ pc[s] = "rolling back" => Live(s) = work[s].op_offset + work[s].cursor
         /\ work[s].cursor \in Nat /\ work[s].op_count \in Nat /\ work[s].op_offset \in Nat
<1>1. ops[s] \in Seq(Op) /\ work[s] \in Work /\ Tile(s)
  BY DEF StoreInv, SessionInv, SessionsOK
<1>2. Len(ops[s]) \in Nat
  BY <1>1, LenProperties
<1>3. \A i \in 1 .. Len(ops[s]) : ops[s][i] \in Op /\ ops[s][i].id \in Num
  <2>1. \A i \in 1 .. Len(ops[s]) : ops[s][i] \in Op
    BY <1>1, ElementOfSeq
  <2>2. \A op \in Op : op.id \in Num
    BY DEF Op
  <2> QED BY <2>1, <2>2
<1>4. work[s].cursor \in Nat /\ work[s].op_count \in Nat /\ work[s].op_offset \in Nat
  BY <1>1 DEF Work
<1> DEFINE Within == Live(s) \in Nat /\ Live(s) <= Len(ops[s]) /\ (Live(s) > 0 => Active(s))
<1>5. CASE pc[s] = "committing"
  <2>1. work[s].op_offset = 0 /\ Len(ops[s]) = work[s].op_count
        /\ work[s].cursor <= work[s].op_count
    BY <1>1, <1>5 DEF OneHolder, Tile
  <2>2. Live(s) = work[s].op_offset + work[s].cursor /\ Active(s)
    BY <1>5 DEF Live, Active
  <2>3. Within
    BY <1>2, <1>4, <2>1, <2>2
  <2>4. Live(s) = work[s].cursor
    BY <1>4, <2>1, <2>2
  <2> QED BY <1>1, <1>2, <1>3, <1>4, <1>5, <2>3, <2>4
<1>6. CASE pc[s] = "rolling back"
  <2>1. /\ Len(ops[s]) = work[s].op_offset + work[s].op_count
        /\ work[s].cursor <= work[s].op_count
    BY <1>1, <1>6 DEF Tile
  <2>2. Live(s) = work[s].op_offset + work[s].cursor /\ Active(s)
    BY <1>6 DEF Live, Active
  <2>3. Within
    BY <1>2, <1>4, <2>1, <2>2
  <2> QED BY <1>1, <1>2, <1>3, <1>4, <1>6, <2>2, <2>3
<1>7. CASE pc[s] \notin {"committing", "rolling back"}
  <2>1. Live(s) = Len(ops[s]) /\ Len(ops[s]) = OpsEnd(s)
    BY <1>1, <1>7 DEF Live, Tile
  <2>2. Live(s) > 0 => Active(s)
    <3>1. Live(s) > 0 => InTx(s)
      BY <2>1 DEF OpsEnd
    <3> QED BY <3>1 DEF Active
  <2>3. Within
    BY <1>2, <2>1, <2>2
  <2> QED BY <1>1, <1>2, <1>3, <1>4, <1>7, <2>1, <2>3
<1> QED BY <1>5, <1>6, <1>7

(* An entry that is free of other sessions' changes: their operations have    *)
(* nothing to do with it.                                                     *)
LEMMA NotTheirs ==
  ASSUME StoreInv, MarkInv, NEW s \in Session, NEW n \in Num,
         HasMark(n) => index[n].tran_id = tran_id[s] /\ Active(s),
         NEW t \in Session, t # s, pc[t] # "committing"
  PROVE  \A i \in 1 .. Live(t) : ops[t][i].id # n
<1> SUFFICES ASSUME NEW i \in 1 .. Live(t), ops[t][i].id = n PROVE FALSE
  OBVIOUS
<1>1. Live(t) \in Nat /\ (Live(t) > 0 => Active(t))
  BY LiveOps DEF MarkInv
<1>2. Active(t)
  BY <1>1
<1>3. HasMark(n) /\ index[n].tran_id = tran_id[t]
  BY DEF MarkInv, OpsMarked
<1> QED BY <1>2, <1>3 DEF MarkInv, OwnIds

(* Neither has any session's, while it has no mark and nobody commits. *)
LEMMA NobodysOps ==
  ASSUME MarkInv, NEW n \in Num, ~HasMark(n), NEW t \in Session, pc[t] # "committing"
  PROVE  \A i \in 1 .. Live(t) : ops[t][i].id # n
BY DEF MarkInv, OpsMarked

(* One entry and the operations of one session change: the marks of the other *)
(* entries and the operations of the other sessions stay together.            *)
LEMMA MarksMoved ==
  ASSUME HeaderOK, MarksNamed, OpsMarked, \A t \in Session : \A i \in 1 .. Live(t) : ops[t][i].id \in Num,
         NEW s \in Session, NEW n \in Num, NEW x, index' = [index EXCEPT ![n] = x],
         tran_id' = tran_id,
         \A t \in Session \ {s} :
           /\ ops'[t] = ops[t] /\ Live(t)' = Live(t) /\ (Active(t) => Active(t)')
           /\ pc[t] = "committing" => pc'[t] = "committing"
           /\ \A i \in 1 .. Live(t) : ops[t][i].id # n,
         Active(s) => Active(s)', pc[s] = "committing" => pc'[s] = "committing",
         \A m \in Num \ {n} : \A i \in 1 .. Live(s) :
           LastOp(s, m, i) => i \in 1 .. Live(s)' /\ LastOp(s, m, i)' /\ ops'[s][i] = ops[s][i],
         \A i \in 1 .. Live(s)' : ops'[s][i].id # n => i \in 1 .. Live(s) /\ ops'[s][i] = ops[s][i],
         HasMark(n)' => /\ Active(s)' /\ x.tran_id = tran_id[s]
                        /\ (\E i \in 1 .. Live(s) : Names(s, n, i))',
         \A i \in 1 .. Live(s)' : ops'[s][i].id = n => HasMark(n)' \/ pc'[s] = "committing"
  PROVE  MarksNamed' /\ OpsMarked'
<1>1. index'[n] = x /\ \A m \in Num \ {n} : index'[m] = index[m]
  BY DEF HeaderOK
<1>2. \A m \in Num \ {n} : HasMark(m)' = HasMark(m)
  BY <1>1 DEF HasMark
<1>3. MarksNamed'
  <2> SUFFICES ASSUME NEW m \in Num, HasMark(m)'
               PROVE  \E t \in Session : /\ Active(t)' /\ tran_id'[t] = index'[m].tran_id
                                         /\ (\E i \in 1 .. Live(t) : Names(t, m, i))'
    BY DEF MarksNamed
  <2>1. CASE m = n
    BY <2>1, <1>1
  <2>2. CASE m # n
    <3>1. index'[m] = index[m] /\ HasMark(m)
      BY <2>2, <1>1, <1>2
    <3>2. PICK t \in Session : /\ Active(t) /\ tran_id[t] = index[m].tran_id
                               /\ \E i \in 1 .. Live(t) : Names(t, m, i)
      BY <3>1 DEF MarksNamed
    <3>3. PICK i \in 1 .. Live(t) : Names(t, m, i)
      BY <3>2
    <3>4. Active(t)' /\ tran_id'[t] = index'[m].tran_id
      BY <3>1, <3>2
    <3>5. i \in 1 .. Live(t)' /\ LastOp(t, m, i)' /\ ops'[t][i] = ops[t][i]
      <4>1. CASE t = s
        BY <4>1, <3>3, <2>2 DEF Names
      <4>2. CASE t # s
        BY <4>2, <3>3 DEF Names, LastOp
      <4> QED BY <4>1, <4>2
    <3>6. Names(t, m, i)'
      BY <3>1, <3>3, <3>5 DEF Names
    <3> QED BY <3>4, <3>5, <3>6
  <2> QED BY <2>1, <2>2
<1>4. OpsMarked'
  <2> SUFFICES ASSUME NEW t \in Session, NEW i \in Nat, i \in 1 .. Live(t)'
               PROVE  \/ HasMark(ops[t][i].id)' /\ index'[ops'[t][i].id].tran_id = tran_id'[t]
                      \/ pc'[t] = "committing" /\ ~HasMark(ops[t][i].id)'
    BY DEF OpsMarked
  <2> DEFINE m == ops'[t][i].id
  <2>1. CASE t = s /\ m = n
    BY <2>1, <1>1
  <2>2. CASE t # s \/ m # n
    <3>1. i \in 1 .. Live(t) /\ ops'[t][i] = ops[t][i]
      BY <2>2
    <3>2. m \in Num /\ m # n
      BY <2>2, <3>1
    <3>3. \/ HasMark(m) /\ index[m].tran_id = tran_id[t]
          \/ pc[t] = "committing" /\ ~HasMark(m)
      BY <3>1 DEF OpsMarked
    <3>4. pc[t] = "committing" => pc'[t] = "committing"
      OBVIOUS
    <3>5. index'[m] = index[m]
      <4> HIDE DEF m
      <4> QED BY <3>2, <1>1
    <3>6. HasMark(ops[t][i].id)' <=> HasMark(m)
      BY <3>5 DEF HasMark
    <3> QED BY <3>1, <3>3, <3>4, <3>5, <3>6
  <2> QED BY <2>1, <2>2
<1> QED BY <1>3, <1>4

(* While nobody holds the mutex, nobody commits or rolls back. *)
LEMMA NoHolder ==
  ASSUME OneHolder, rp_impl_lock = NoSession
  PROVE  \A t \in Session : pc[t] \notin {"committing", "rolling back"}
BY StoreAssumption DEF OneHolder

LEMMA AtLeast == \A a, b, m \in Nat : b >= a /\ m >= b => m >= a
OBVIOUS

(* The ids of the open transactions, by a step that opens none. *)
LEMMA IdsKept ==
  ASSUME SessionsOK, HeaderOK, OwnIds, tran_id' = tran_id,
         transaction_id' \in {transaction_id, transaction_id + 1},
         \A t \in Session : Active(t)' => Active(t)
  PROVE  OwnIds'
<1>1. transaction_id \in Nat /\ \A t \in Session : tran_id[t] \in Nat
  BY DEF SessionsOK, HeaderOK
<1>2. ASSUME NEW t \in Session, Active(t)'
      PROVE  tran_id'[t] < transaction_id' /\ tran_id'[t] > 0
  <2>1. tran_id[t] < transaction_id /\ tran_id[t] > 0
    BY <1>2 DEF OwnIds
  <2>2. tran_id[t] \in Nat /\ (transaction_id' = transaction_id \/ transaction_id' = transaction_id + 1)
    BY <1>1
  <2> QED BY <1>1, <2>1, <2>2
<1>3. \A t, u \in Session : Active(t)' /\ Active(u)' /\ tran_id'[t] = tran_id'[u] => t = u
  BY DEF OwnIds
<1>4. transaction_id' > 0
  BY <1>1 DEF OwnIds
<1> QED BY <1>2, <1>3, <1>4 DEF OwnIds

(* What an operation kept is about the operations before it. *)
LEMMA KeptBefore ==
  ASSUME NEW q, NEW r, NEW id, NEW i \in Nat, \A k \in 1 .. i : r[k] = q[k], i > 0, Kept(q, id, i),
         q[i].old_tran_op \in Nat
  PROVE  Kept(r, id, i)
<1>1. r[i] = q[i]
  OBVIOUS
<1>2. \A k \in 1 .. i - 1 : r[k] = q[k]
  OBVIOUS
<1> DEFINE j == q[i].old_tran_op
<1>3. \A k \in j + 1 .. i - 1 : k \in 1 .. i - 1
  OBVIOUS
<1> QED BY <1>1, <1>2, <1>3 DEF Kept

(* The operations that are left name entries of the index. *)
LEMMA LiveIds ==
  ASSUME StoreInv, OneHolder
  PROVE  \A t \in Session : \A i \in 1 .. Live(t) : ops[t][i].id \in Num
<1> SUFFICES ASSUME NEW t \in Session, NEW i \in 1 .. Live(t) PROVE ops[t][i].id \in Num
  OBVIOUS
<1>1. /\ Len(ops[t]) \in Nat /\ Live(t) \in Nat /\ Live(t) <= Len(ops[t])
      /\ \A k \in 1 .. Len(ops[t]) : ops[t][k].id \in Num
  BY LiveOps
<1> QED BY <1>1

(* An entry named by no mark of others, as a store or a destroy finds it. *)
Found(s, n, op) ==
  \/ ~HasMark(n) /\ op.old_tran_op = 0
  \/ /\ index[n].trans = "change" /\ index[n].tran_id = tran_id[s]
     /\ op.old_tran_op = index[n].tran_op /\ op.old_tran_id \in {0, tran_id[s]}

(* An operation is logged and the entry marked for it. *)
LEMMA LoggedMarks ==
  ASSUME StoreInv, SessionInv', MarkInv, NEW s \in Session, NEW n \in Num, NEW op \in Op, op.id = n,
         Section(s), InTx(s), LogOp(s, op), Found(s, n, op),
         NEW x \in Entry, index' = [index EXCEPT ![n] = x], x.tran_id = tran_id[s],
         x.trans \in {"change", "delete"},
         IF x.trans = "delete" THEN op.type = "destroy" /\ x.tran_op = 0
         ELSE op.type # "destroy" /\ x.tran_op = Len(ops[s]) + 1,
         pc'[s] \in {"idle", "storing"}, \A t \in Session \ {s} : pc'[t] = pc[t],
         UNCHANGED << work, tran_id, transaction_id, rp_impl_lock >>,
         total_entries' \in Nat, total_entries' >= total_entries, n < total_entries'
  PROVE  MarkInv'
<1> DEFINE top == Len(ops[s])
<1>1. SessionInv /\ SessionsOK /\ HeaderOK /\ OneHolder /\ OwnIds /\ Unnamed /\ MarksNamed
      /\ OpsMarked /\ OpsLinked
  BY DEF StoreInv, SessionInv, IndexInv, MarkInv
<1>2. \A t \in Session : pc[t] \notin {"committing", "rolling back"}
  BY <1>1, NoHolder DEF Section
<1>3. /\ ops[s] \in Seq(Op) /\ top \in Nat /\ Live(s) = top
      /\ \A i \in 1 .. top : ops[s][i] \in Op
  BY <1>1, <1>2, LiveOps
<1>4. /\ ops'[s] = Append(ops[s], op) /\ Len(ops'[s]) = top + 1
      /\ ops'[s][top + 1] = op /\ \A i \in 1 .. top : ops'[s][i] = ops[s][i]
      /\ \A t \in Session \ {s} : ops'[t] = ops[t] /\ levels'[t] = levels[t]
  <2>1. ops'[s] = Append(ops[s], op) /\ \A t \in Session \ {s} : ops'[t] = ops[t] /\ levels'[t] = levels[t]
    BY <1>1 DEF LogOp, SessionsOK
  <2>2. /\ Len(Append(ops[s], op)) = top + 1 /\ Append(ops[s], op)[top + 1] = op
        /\ \A i \in 1 .. top : Append(ops[s], op)[i] = ops[s][i]
    BY <1>3, AppendProperties
  <2> QED BY <2>1, <2>2
<1>5. Live(s)' = top + 1
  BY <1>4 DEF Live
<1>6. Active(s) /\ Active(s)'
  <2>1. Len(ops'[s]) = OpsEnd(s)'
    BY DEF SessionInv, Tile
  <2>2. OpsEnd(s)' # 0
    BY <2>1, <1>3, <1>4
  <2>3. InTx(s)'
    BY <2>2 DEF OpsEnd
  <2> QED BY <2>3 DEF Active
<1>7. \A t \in Session \ {s} : Live(t)' = Live(t) /\ Active(t)' = Active(t)
  BY <1>4 DEF Live, Active, InTx
<1>8. \A t \in Session \ {s} : \A i \in 1 .. Live(t) : ops[t][i].id # n
  <2>1. HasMark(n) => index[n].tran_id = tran_id[s] /\ Active(s)
    BY <1>6 DEF Found
  <2> QED BY <1>2, <2>1, NotTheirs
<1>9. index'[n] = x /\ HasMark(n)'
  BY <1>1 DEF HeaderOK, HasMark
<1> HIDE DEF top
<1>10. MarksNamed' /\ OpsMarked'
  <2>1. \A t \in Session : \A i \in 1 .. Live(t) : ops[t][i].id \in Num
    BY <1>1, LiveIds
  <2>2. ASSUME NEW m \in Num \ {n}, NEW i \in 1 .. Live(s), LastOp(s, m, i)
        PROVE  i \in 1 .. Live(s)' /\ LastOp(s, m, i)' /\ ops'[s][i] = ops[s][i]
    <3>1. i \in 1 .. top /\ i \in 1 .. Live(s)' /\ ops'[s][i] = ops[s][i]
      BY <1>3, <1>4, <1>5
    <3>2. \A j \in i + 1 .. Live(s)' : ops'[s][j].id # m
      <4> SUFFICES ASSUME NEW j \in i + 1 .. top + 1 PROVE ops'[s][j].id # m
        BY <1>5
      <4>1. CASE j = top + 1
        BY <4>1, <1>4
      <4>2. CASE j # top + 1
        <5>1. j \in i + 1 .. Live(s) /\ j \in 1 .. top
          BY <4>2, <1>3, <3>1
        <5> QED BY <5>1, <1>4, <2>2 DEF LastOp
      <4> QED BY <4>1, <4>2
    <3> QED BY <3>1, <3>2, <2>2 DEF LastOp
  <2>3. \A i \in 1 .. Live(s)' : ops'[s][i].id # n => i \in 1 .. Live(s) /\ ops'[s][i] = ops[s][i]
    <3> SUFFICES ASSUME NEW i \in 1 .. top + 1, ops'[s][i].id # n
                 PROVE  i \in 1 .. top /\ ops'[s][i] = ops[s][i]
      BY <1>3, <1>5
    <3>1. i # top + 1
      BY <1>4
    <3>2. i \in 1 .. top
      BY <3>1, <1>3
    <3> QED BY <3>2, <1>4
  <2>4. (\E i \in 1 .. Live(s) : Names(s, n, i))'
    <3>1. top + 1 \in 1 .. Live(s)'
      BY <1>3, <1>5
    <3>2. ops'[s][top + 1].id = n /\ \A j \in (top + 1) + 1 .. Live(s)' : ops'[s][j].id # n
      BY <1>3, <1>4, <1>5
    <3>3. IF index'[n].trans = "delete"
          THEN ops'[s][top + 1].type = "destroy" /\ index'[n].tran_op = 0
          ELSE ops'[s][top + 1].type # "destroy" /\ index'[n].tran_op = top + 1
      BY <1>4, <1>9 DEF top
    <3> QED BY <3>1, <3>2, <3>3 DEF Names, LastOp
  <2>5. ASSUME NEW t \in Session \ {s}
        PROVE  /\ ops'[t] = ops[t] /\ Live(t)' = Live(t) /\ (Active(t) => Active(t)')
               /\ pc[t] = "committing" => pc'[t] = "committing"
               /\ \A i \in 1 .. Live(t) : ops[t][i].id # n
    BY <1>4, <1>7, <1>8
  <2>6. HasMark(n)' => /\ Active(s)' /\ x.tran_id = tran_id[s]
                       /\ (\E i \in 1 .. Live(s) : Names(s, n, i))'
    BY <1>6, <2>4
  <2>7. \A i \in 1 .. Live(s)' : ops'[s][i].id = n => HasMark(n)' \/ pc'[s] = "committing"
    BY <1>9
  <2>8. tran_id' = tran_id /\ (Active(s) => Active(s)') /\ (pc[s] = "committing" => pc'[s] = "committing")
    BY <1>2, <1>6
  <2> HIDE DEF HasMark
  <2> QED BY <1>1, <2>1, <2>2, <2>3, <2>5, <2>6, <2>7, <2>8, MarksMoved
<1>11. OneHolder'
  BY <1>1, <1>2 DEF OneHolder
<1>12. OwnIds'
  <2>1. \A t \in Session : Active(t)' => Active(t)
    BY <1>6, <1>7
  <2> QED BY <2>1, <1>1, IdsKept
<1>13. Unnamed'
  <2> SUFFICES ASSUME NEW m \in Num
               PROVE  /\ ~HasMark(m)' => index'[m].tran_op = 0
                      /\ m >= total_entries' => index'[m].trans = "none"
    BY DEF Unnamed
  <2>1. CASE m = n
    <3>1. m \in Nat /\ ~(m >= total_entries')
      BY <2>1, <1>1, NumFacts
    <3>2. HasMark(m)'
      BY <2>1, <1>9 DEF HasMark
    <3> QED BY <3>1, <3>2
  <2>2. CASE m # n
    <3>1. index'[m] = index[m]
      BY <2>2, <1>1 DEF HeaderOK
    <3>2. m >= total_entries' => m >= total_entries
      BY <1>1, NumFacts
    <3> QED BY <3>1, <3>2, <1>1 DEF Unnamed, HasMark
  <2> QED BY <2>1, <2>2
<1>14. Kept(ops'[s], tran_id[s], top + 1)
  <2>1. CASE ~HasMark(n)
    <3>1. \A k \in 1 .. top : ops[s][k].id # n
      BY <2>1, <1>2, <1>3, NobodysOps
    <3>2. op.old_tran_op = 0
      BY <2>1 DEF Found, HasMark
    <3> QED BY <3>1, <3>2, <1>3, <1>4 DEF Kept
  <2>2. CASE HasMark(n)
    <3>1. /\ index[n].trans = "change" /\ index[n].tran_id = tran_id[s]
          /\ op.old_tran_op = index[n].tran_op /\ op.old_tran_id \in {0, tran_id[s]}
      BY <2>2 DEF Found
    <3>2. PICK t \in Session : Active(t) /\ tran_id[t] = index[n].tran_id
                               /\ \E i \in 1 .. Live(t) : Names(t, n, i)
      BY <1>1, <2>2 DEF MarksNamed
    <3>3. t = s
      BY <3>1, <3>2, <1>1, <1>6 DEF OwnIds
    <3>4. PICK i \in 1 .. top : Names(s, n, i)
      BY <3>2, <3>3, <1>3
    <3>5. /\ op.old_tran_op = i /\ ops[s][i].id = n /\ ops[s][i].type # "destroy"
          /\ \A j \in i + 1 .. top : ops[s][j].id # n
      BY <3>1, <3>4, <1>3 DEF Names, LastOp
    <3>6. \A j \in i + 1 .. top : ops'[s][j] = ops[s][j]
      BY <1>3, <1>4
    <3>7. (top + 1) - 1 = top /\ ops'[s][i] = ops[s][i]
      BY <1>3, <1>4
    <3> QED BY <3>1, <3>5, <3>6, <3>7, <1>4 DEF Kept
  <2> QED BY <2>1, <2>2
<1>15. OpsLinked'
  <2> SUFFICES ASSUME NEW t \in Session, NEW i \in 1 .. Len(ops'[t]) PROVE Kept(ops'[t], tran_id'[t], i)
    BY DEF OpsLinked
  <2>1. CASE t # s
    BY <2>1, <1>1, <1>4 DEF OpsLinked
  <2>2. CASE t = s /\ i = top + 1
    BY <2>2, <1>14
  <2>3. CASE t = s /\ i # top + 1
    <3>1. i \in 1 .. top /\ i \in Nat /\ i > 0
      BY <2>3, <1>3, <1>4
    <3>2. Kept(ops[s], tran_id[s], i)
      BY <3>1, <1>1 DEF OpsLinked, top
    <3>3. \A k \in 1 .. i : ops'[s][k] = ops[s][k]
      BY <3>1, <1>3, <1>4
    <3>4. ops[s][i].old_tran_op \in Nat
      BY <3>1, <1>3 DEF Op
    <3>5. Kept(ops'[s], tran_id[s], i)
      BY <3>1, <3>2, <3>3, <3>4, KeptBefore
    <3> QED BY <3>5, <2>3
  <2> QED BY <2>1, <2>2, <2>3
<1> QED BY <1>10, <1>11, <1>12, <1>13, <1>15 DEF MarkInv

(* An entry without a mark changes and gets none: outside a transaction. *)
LEMMA PlainMarks ==
  ASSUME StoreInv, MarkInv, NEW n \in Num, ~HasMark(n), rp_impl_lock = NoSession,
         NEW x \in Entry, index' = [index EXCEPT ![n] = x], x.trans \in {"none", "free_list"},
         x.tran_op = 0, n >= total_entries' => x.trans = "none",
         UNCHANGED << tranVars, work, rp_impl_lock >>,
         transaction_id' \in {transaction_id, transaction_id + 1},
         \A t \in Session : pc'[t] \notin {"committing", "rolling back"},
         total_entries' \in Nat, total_entries' >= total_entries
  PROVE  MarkInv'
<1>1. SessionInv /\ SessionsOK /\ HeaderOK /\ OneHolder /\ OwnIds /\ Unnamed /\ MarksNamed
      /\ OpsMarked /\ OpsLinked
  BY DEF StoreInv, SessionInv, IndexInv, MarkInv
<1>2. \A t \in Session : pc[t] \notin {"committing", "rolling back"}
  BY <1>1, NoHolder
<1>3. UNCHANGED << tran_id, levels, ops >>
  BY DEF tranVars
<1>4. \A t \in Session : Live(t)' = Live(t) /\ (Active(t)' <=> Active(t))
  BY <1>2, <1>3 DEF Live, Active, InTx
<1>5. \A t \in Session : \A i \in 1 .. Live(t) : ops[t][i].id # n
  BY <1>2, NobodysOps
<1>6. index'[n] = x /\ ~HasMark(n)'
  BY <1>1 DEF HeaderOK, HasMark
<1>7. MarksNamed' /\ OpsMarked'
  <2> SUFFICES ASSUME NEW s \in Session PROVE MarksNamed' /\ OpsMarked'
    <3>1. CASE Session = {}
      <4>1. ASSUME NEW m \in Num PROVE ~HasMark(m)'
        <5>1. ~HasMark(m)
          BY <3>1, <1>1 DEF MarksNamed
        <5>2. CASE m = n
          BY <5>2, <1>6 DEF HasMark
        <5>3. CASE m # n
          BY <5>1, <5>3, <1>1 DEF HasMark, HeaderOK
        <5> QED BY <5>2, <5>3
      <4>2. MarksNamed'
        BY <4>1 DEF MarksNamed
      <4>3. OpsMarked'
        BY <3>1 DEF OpsMarked
      <4> QED BY <4>2, <4>3
    <3> QED BY <3>1
  <2>1. \A t \in Session : \A i \in 1 .. Live(t) : ops[t][i].id \in Num
    BY <1>1, LiveIds
  <2>2. ASSUME NEW m \in Num \ {n}, NEW i \in 1 .. Live(s), LastOp(s, m, i)
        PROVE  i \in 1 .. Live(s)' /\ LastOp(s, m, i)' /\ ops'[s][i] = ops[s][i]
    BY <2>2, <1>3, <1>4 DEF LastOp
  <2>3. \A i \in 1 .. Live(s)' : ops'[s][i].id # n => i \in 1 .. Live(s) /\ ops'[s][i] = ops[s][i]
    BY <1>3, <1>4
  <2>4. HasMark(n)' => /\ Active(s)' /\ x.tran_id = tran_id[s]
                       /\ (\E i \in 1 .. Live(s) : Names(s, n, i))'
    BY <1>6
  <2>5. \A i \in 1 .. Live(s)' : ops'[s][i].id = n => HasMark(n)' \/ pc'[s] = "committing"
    BY <1>3, <1>4, <1>5
  <2>6. ASSUME NEW t \in Session \ {s}
        PROVE  /\ ops'[t] = ops[t] /\ Live(t)' = Live(t) /\ (Active(t) => Active(t)')
               /\ pc[t] = "committing" => pc'[t] = "committing"
               /\ \A i \in 1 .. Live(t) : ops[t][i].id # n
    BY <1>2, <1>3, <1>4, <1>5
  <2>7. tran_id' = tran_id /\ (Active(s) => Active(s)') /\ (pc[s] = "committing" => pc'[s] = "committing")
    BY <1>2, <1>3, <1>4
  <2> QED BY <1>1, <2>1, <2>2, <2>3, <2>4, <2>5, <2>6, <2>7, MarksMoved
<1>8. OneHolder'
  BY DEF OneHolder
<1>9. OwnIds'
  BY <1>1, <1>3, <1>4, IdsKept
<1>10. Unnamed'
  <2> SUFFICES ASSUME NEW m \in Num
               PROVE  /\ ~HasMark(m)' => index'[m].tran_op = 0
                      /\ m >= total_entries' => index'[m].trans = "none"
    BY DEF Unnamed
  <2>1. CASE m = n
    BY <2>1, <1>6
  <2>2. CASE m # n
    <3>1. index'[m] = index[m]
      BY <2>2, <1>1 DEF HeaderOK
    <3>2. m \in Nat /\ total_entries \in Nat
      BY <1>1, NumFacts
    <3>3. m >= total_entries' => m >= total_entries
      BY <3>2, AtLeast
    <3> QED BY <3>1, <3>3, <1>1 DEF Unnamed, HasMark
  <2> QED BY <2>1, <2>2
<1>11. OpsLinked'
  BY <1>1, <1>3 DEF OpsLinked
<1> QED BY <1>7, <1>8, <1>9, <1>10, <1>11 DEF MarkInv

(* A step that leaves the entries and the operations alone. *)
LEMMA MarksFrame ==
  ASSUME StoreInv, MarkInv, UNCHANGED << index, total_entries, ops, tran_id >>,
         transaction_id' \in {transaction_id, transaction_id + 1},
         \A t \in Session : /\ Live(t)' = Live(t) /\ (Active(t)' <=> Active(t))
                            /\ pc[t] = "committing" => pc'[t] = "committing",
         OneHolder'
  PROVE  MarkInv'
<1>1. SessionsOK /\ HeaderOK /\ OneHolder /\ OwnIds /\ Unnamed /\ MarksNamed
      /\ OpsMarked /\ OpsLinked
  BY DEF StoreInv, SessionInv, IndexInv, MarkInv
<1>2. OwnIds'
  BY <1>1, IdsKept
<1>3. Unnamed'
  BY <1>1 DEF Unnamed, HasMark
<1>4. MarksNamed'
  <2> SUFFICES ASSUME NEW m \in Num, HasMark(m)'
               PROVE  \E t \in Session : /\ Active(t)' /\ tran_id'[t] = index'[m].tran_id
                                         /\ (\E i \in 1 .. Live(t) : Names(t, m, i))'
    BY DEF MarksNamed
  <2>1. HasMark(m)
    BY DEF HasMark
  <2>2. PICK t \in Session : /\ Active(t) /\ tran_id[t] = index[m].tran_id
                             /\ \E i \in 1 .. Live(t) : Names(t, m, i)
    BY <2>1, <1>1 DEF MarksNamed
  <2>3. PICK i \in 1 .. Live(t) : Names(t, m, i)
    BY <2>2
  <2>4. i \in 1 .. Live(t)' /\ Names(t, m, i)'
    BY <2>3 DEF Names, LastOp
  <2> QED BY <2>2, <2>4
<1>5. OpsMarked'
  BY <1>1 DEF OpsMarked, HasMark
<1>6. OpsLinked'
  BY <1>1 DEF OpsLinked
<1> QED BY <1>2, <1>3, <1>4, <1>5, <1>6 DEF MarkInv

(* A transaction begins: it has no operation yet, and an id of its own. *)
LEMMA StartMarks ==
  ASSUME StoreInv, SessionInv', MarkInv, NEW s \in Session, TransactionStart(s)
  PROVE  MarkInv'
<1>1. SessionInv /\ SessionsOK /\ HeaderOK /\ OneHolder /\ OwnIds /\ Unnamed /\ MarksNamed
      /\ OpsMarked /\ OpsLinked /\ transaction_id \in Nat /\ tran_id \in [Session -> Nat]
      /\ levels \in [Session -> Seq(Level)]
  BY DEF StoreInv, SessionInv, SessionsOK, IndexInv, HeaderOK, MarkInv
<1>2. /\ UNCHANGED << index, total_entries, ops, pc, work, rp_impl_lock >>
      /\ pc[s] = "idle" /\ rp_impl_lock = NoSession
      /\ \A t \in Session \ {s} : levels'[t] = levels[t]
  BY <1>1 DEF TransactionStart, Section
<1>3. \A t \in Session : pc[t] \notin {"committing", "rolling back"}
  BY <1>1, <1>2, NoHolder
<1>4. OneHolder'
  BY <1>2, <1>3 DEF OneHolder
<1>5. \A t \in Session : Live(t)' = Live(t)
  BY <1>2, <1>3 DEF Live
<1>6. \A t \in Session \ {s} : (Active(t)' <=> Active(t))
  BY <1>2, <1>3 DEF Active, InTx
<1>7. InTx(s)'
  <2> DEFINE new == [size |-> 0, offset |-> total_trans_size[s], op_count |-> 0, op_offset |-> Len(ops[s])]
  <2>1. levels'[s] = Append(levels[s], new)
    BY <1>1 DEF TransactionStart
  <2> HIDE DEF new
  <2>2. levels[s] \in Seq(Level)
    BY <1>1
  <2>3. Append(levels[s], new) # << >>
    BY <2>2
  <2> QED BY <2>1, <2>3 DEF InTx
<1>8. CASE InTx(s)
  <2>1. transaction_id' = transaction_id /\ tran_id' = tran_id
    BY <1>8 DEF TransactionStart
  <2>2. Active(s) /\ Active(s)'
    BY <1>7, <1>8 DEF Active
  <2>3. \A t \in Session : (Active(t)' <=> Active(t))
    BY <2>2, <1>6
  <2> QED BY <2>1, <2>3, <1>2, <1>4, <1>5, MarksFrame
<1>9. CASE ~InTx(s)
  <2>1. /\ transaction_id' = transaction_id + 1 /\ tran_id'[s] = transaction_id
        /\ \A t \in Session \ {s} : tran_id'[t] = tran_id[t]
    BY <1>1, <1>9 DEF TransactionStart
  <2>2. Live(s) = 0 /\ Len(ops[s]) = 0 /\ ~Active(s)
    <3>1. Len(ops[s]) = OpsEnd(s)
      BY <1>1, <1>2 DEF SessionInv, Tile
    <3>2. OpsEnd(s) = 0
      BY <1>9 DEF OpsEnd
    <3> QED BY <3>1, <3>2, <1>2, <1>9 DEF Live, Active
  <2>3. OwnIds'
    <3>1. \A t \in Session : Active(t)' /\ t # s => Active(t)
      BY <1>6
    <3>2. \A t \in Session : Active(t) => tran_id[t] < transaction_id /\ tran_id[t] > 0 /\ tran_id[t] \in Nat
      BY <1>1 DEF OwnIds
    <3>3. transaction_id > 0
      BY <1>1 DEF OwnIds
    <3>4. \A t \in Session : Active(t)' => tran_id'[t] < transaction_id' /\ tran_id'[t] > 0
      BY <2>1, <3>1, <3>2, <3>3, <1>1
    <3>5. ASSUME NEW t \in Session, NEW u \in Session, Active(t)', Active(u)', tran_id'[t] = tran_id'[u]
          PROVE  t = u
      <4>1. \A v \in Session : Active(v)' /\ v # s => tran_id'[v] # transaction_id
        BY <2>1, <3>1, <3>2, <1>1
      <4>2. CASE t # s /\ u # s
        BY <4>2, <3>5, <3>1, <2>1, <1>1 DEF OwnIds
      <4>3. CASE t = s \/ u = s
        BY <4>3, <4>1, <2>1, <3>5
      <4> QED BY <4>2, <4>3
    <3>6. transaction_id' > 0
      BY <2>1, <3>3, <1>1
    <3> QED BY <3>4, <3>5, <3>6 DEF OwnIds
  <2>4. Unnamed'
    BY <1>1, <1>2 DEF Unnamed, HasMark
  <2>5. MarksNamed'
    <3> SUFFICES ASSUME NEW m \in Num, HasMark(m)'
                 PROVE  \E t \in Session : /\ Active(t)' /\ tran_id'[t] = index'[m].tran_id
                                           /\ (\E i \in 1 .. Live(t) : Names(t, m, i))'
      BY DEF MarksNamed
    <3>1. HasMark(m)
      BY <1>2 DEF HasMark
    <3>2. PICK t \in Session : /\ Active(t) /\ tran_id[t] = index[m].tran_id
                               /\ \E i \in 1 .. Live(t) : Names(t, m, i)
      BY <3>1, <1>1 DEF MarksNamed
    <3>3. PICK i \in 1 .. Live(t) : Names(t, m, i)
      BY <3>2
    <3>4. i \in 1 .. Live(t)' /\ Names(t, m, i)'
      BY <3>3, <1>2, <1>5 DEF Names, LastOp
    <3>5. t # s
      BY <3>2, <2>2
    <3> QED BY <3>2, <3>4, <3>5, <2>1, <1>2, <1>6
  <2>6. OpsMarked'
    <3>1. \A i \in 1 .. Live(s)' : FALSE
      BY <2>2, <1>5
    <3> QED BY <3>1, <2>1, <1>1, <1>2, <1>5 DEF OpsMarked, HasMark
  <2>7. OpsLinked'
    <3>1. \A i \in 1 .. Len(ops'[s]) : FALSE
      BY <2>2, <1>2
    <3> QED BY <3>1, <2>1, <1>1, <1>2 DEF OpsLinked
  <2> QED BY <2>3, <2>4, <2>5, <2>6, <2>7, <1>4 DEF MarkInv
<1> QED BY <1>8, <1>9

(* The steps with which a commit or a rollback begins. *)
LEMMA BeginMarks ==
  ASSUME StoreInv, MarkInv, NEW s \in Session, CommitBegin(s) \/ RollbackBegin(s)
  PROVE  MarkInv'
<1>1. SessionInv /\ SessionsOK /\ OneHolder /\ work \in [Session -> Work] /\ pc \in [Session -> PC]
  BY DEF StoreInv, SessionInv, SessionsOK, MarkInv
<1>2. /\ UNCHANGED << headerVars, index, ops, tran_id >>
      /\ pc[s] = "idle" /\ rp_impl_lock = NoSession /\ rp_impl_lock' = s
      /\ \A t \in Session \ {s} : /\ levels'[t] = levels[t] /\ work'[t] = work[t] /\ pc'[t] = pc[t]
  BY <1>1 DEF CommitBegin, RollbackBegin, Section, SessionsOK
<1>3. \A t \in Session : pc[t] \notin {"committing", "rolling back"}
  BY <1>1, <1>2, NoHolder
<1>4. InTx(s) /\ Top(s) \in Level
  <2>1. InTx(s) \/ Depth(s) = 1
    BY DEF CommitBegin, RollbackBegin
  <2>2. levels[s] \in Seq(Level)
    BY <1>1 DEF SessionsOK
  <2>3. InTx(s) <=> Depth(s) > 0
    BY <2>2, SeqFacts DEF InTx, Depth
  <2> QED BY <2>1, <2>3, <1>1, PopIsPopped
<1>5. pc'[s] \in {"committing", "rolling back"}
  BY <1>1 DEF CommitBegin, RollbackBegin
<1>6. /\ pc'[s] = "committing" => work'[s].op_offset = 0
      /\ work'[s].op_offset + work'[s].cursor = Len(ops[s])
  <2>1. Len(ops[s]) = Top(s).op_offset + Top(s).op_count
    BY <1>1, <1>2, <1>4 DEF SessionInv, Tile, OpsEnd
  <2>2. CASE CommitBegin(s)
    <3>1. work'[s].op_offset = 0 /\ work'[s].cursor = Top(s).op_count
      BY <2>2, <1>1 DEF CommitBegin, NoWork
    <3>2. Depth(s) = 1
      BY <2>2 DEF CommitBegin
    <3>3. Top(s).op_offset = 0
      BY <3>2, <1>1, <1>4 DEF SessionInv, Tile, LevelsTouch, Top
    <3> QED BY <2>1, <3>1, <3>3
  <2>3. CASE RollbackBegin(s)
    <3>1. work'[s].op_offset = Top(s).op_offset /\ work'[s].cursor = Top(s).op_count
      BY <2>3, <1>1 DEF RollbackBegin, NoWork
    <3>2. pc'[s] # "committing"
      BY <2>3, <1>1 DEF RollbackBegin
    <3> QED BY <2>1, <3>1, <3>2
  <2> QED BY <2>2, <2>3
<1>7. Live(s) = Len(ops[s]) /\ Live(s)' = work'[s].op_offset + work'[s].cursor
  BY <1>2, <1>5 DEF Live
<1>8. \A t \in Session : Live(t)' = Live(t)
  <2>1. \A t \in Session \ {s} : Live(t)' = Live(t)
    BY <1>2, <1>3 DEF Live
  <2> QED BY <2>1, <1>6, <1>7
<1>9. \A t \in Session : Active(t)' <=> Active(t)
  <2>1. Active(s) /\ Active(s)'
    BY <1>4, <1>5 DEF Active
  <2>2. \A t \in Session \ {s} : Active(t)' <=> Active(t)
    BY <1>2 DEF Active, InTx
  <2> QED BY <2>1, <2>2
<1>10. OneHolder'
  BY <1>2, <1>3, <1>6 DEF OneHolder
<1> QED BY <1>2, <1>3, <1>8, <1>9, <1>10, MarksFrame DEF headerVars

(* An inner commit moves operations from one level to another. *)
LEMMA InnerMarks ==
  ASSUME StoreInv, MarkInv, NEW s \in Session, CommitInner(s)
  PROVE  MarkInv'
<1>1. SessionInv /\ SessionsOK /\ OneHolder /\ levels \in [Session -> Seq(Level)]
  BY DEF StoreInv, SessionInv, SessionsOK, MarkInv
<1>2. /\ UNCHANGED << headerVars, index, ops, tran_id, pc, work, rp_impl_lock >>
      /\ \A t \in Session \ {s} : levels'[t] = levels[t]
      /\ Depth(s) > 1 /\ pc[s] = "idle"
  BY <1>1 DEF CommitInner, Section
<1>3. InTx(s)
  BY <1>1, <1>2, SeqFacts DEF InTx, Depth
<1>4. InTx(s)'
  <2>1. /\ Pop(s) \in Seq(Level) /\ Len(Pop(s)) = Depth(s) - 1 /\ Depth(s) \in Nat
    BY <1>1, <1>3, PopIsPopped
  <2> DEFINE d == Depth(s) - 1
             z == Pop(s)[d].size + Top(s).size
             c == Pop(s)[d].op_count + Top(s).op_count
  <2>2. levels'[s] = [Pop(s) EXCEPT ![d].size = z, ![d].op_count = c]
    BY <1>1 DEF CommitInner
  <2> HIDE DEF z, c
  <2>3. 1 \in DOMAIN Pop(s)
    BY <2>1, <1>2
  <2>4. 1 \in DOMAIN levels'[s]
    BY <2>2, <2>3
  <2>5. DOMAIN << >> = {}
    OBVIOUS
  <2> QED BY <2>4, <2>5 DEF InTx
<1>5. \A t \in Session : Live(t)' = Live(t)
  BY <1>2 DEF Live
<1>6. \A t \in Session : Active(t)' <=> Active(t)
  <2>1. Active(s) /\ Active(s)'
    BY <1>3, <1>4 DEF Active
  <2>2. \A t \in Session \ {s} : Active(t)' <=> Active(t)
    BY <1>2 DEF Active, InTx
  <2> QED BY <2>1, <2>2
<1>7. OneHolder'
  BY <1>1, <1>2 DEF OneHolder
<1> QED BY <1>2, <1>5, <1>6, <1>7, MarksFrame DEF headerVars

(* The steps of reads and writes that change no entry. *)
LEMMA CallMarks ==
  ASSUME StoreInv, MarkInv, NEW s \in Session,
         \/ FinishStore(s) \/ FetchPage(s) \/ NextPage(s) \/ ReadPage(s) \/ FinishRead(s)
         \/ \E n \in Num : StartRead(s, n)
  PROVE  MarkInv'
<1>1. /\ OneHolder /\ pc \in [Session -> PC]
      /\ UNCHANGED << headerVars, index, tranVars, work, rp_impl_lock >>
  BY DEF StoreInv, SessionInv, SessionsOK, MarkInv, FinishStore, FetchPage, NextPage,
         ReadPage, FinishRead, StartRead
<1>2. /\ \A t \in Session \ {s} : pc'[t] = pc[t]
      /\ pc[s] \notin {"committing", "rolling back"}
      /\ pc'[s] \notin {"committing", "rolling back"}
  BY <1>1 DEF FinishStore, FetchPage, NextPage, ReadPage, FinishRead, ReadDone, StartRead, Section, PC
<1>3. /\ \A t \in Session : Live(t)' = Live(t)
      /\ \A t \in Session : Active(t)' <=> Active(t)
  <2>1. \A t \in Session : pc'[t] \in {"committing", "rolling back"} <=> pc[t] \in {"committing", "rolling back"}
    BY <1>2
  <2>2. UNCHANGED << levels, ops >>
    BY <1>1 DEF tranVars
  <2> QED BY <1>1, <2>1, <2>2 DEF Live, Active, InTx
<1>4. OneHolder' /\ \A t \in Session : pc[t] = "committing" => pc'[t] = "committing"
  BY <1>1, <1>2 DEF OneHolder
<1>5. UNCHANGED << index, total_entries, ops, tran_id, transaction_id >>
  BY <1>1 DEF headerVars, tranVars
<1> QED BY <1>3, <1>4, <1>5, MarksFrame

(* The last section of a write outside a transaction. *)
LEMMA FinishWriteMarks ==
  ASSUME StoreInv, MarkInv, NEW s \in Session, FinishWrite(s)
  PROVE  MarkInv'
<1> DEFINE n == write[s].num
           entry == write[s].entry
           x == [entry EXCEPT !.lock = "none"]
<1>1. /\ HeaderOK /\ LockInv /\ write \in [Session -> Write] /\ OneHolder /\ Unnamed
      /\ pc \in [Session -> PC]
  BY DEF StoreInv, IndexInv, HeaderOK, MarkInv, SessionInv, SessionsOK
<1>2. /\ pc[s] = "writing" /\ pc' = [pc EXCEPT ![s] = "idle"] /\ index' = [index EXCEPT ![n] = x]
      /\ UNCHANGED << headerVars, tranVars, work, rp_impl_lock >> /\ rp_impl_lock = NoSession
  BY DEF FinishWrite
<1>3. n \in 0 .. total_entries - 1 /\ entry = index[n] /\ entry.lock = "entry" /\ n \in Num
  BY <1>1, <1>2, NumFacts DEF LockInv
<1>4. entry \in Entry /\ index[n].trans = "none"
  BY <1>1, <1>3 DEF HeaderOK, LockInv
<1>5. ~HasMark(n) /\ index[n].tran_op = 0
  BY <1>1, <1>3, <1>4 DEF HasMark, Unnamed
<1> HIDE DEF n, entry
<1>6. x \in Entry /\ x.trans = entry.trans /\ x.tran_op = entry.tran_op
  BY <1>4 DEF Entry
<1>7. x.trans = "none" /\ x.tran_op = 0
  BY <1>3, <1>4, <1>5, <1>6
<1> HIDE DEF x
<1>8. \A t \in Session : pc'[t] \notin {"committing", "rolling back"}
  BY <1>1, <1>2, NoHolder
<1>9. /\ total_entries' \in Nat /\ total_entries' >= total_entries
      /\ transaction_id' = transaction_id
  BY <1>1, <1>2, NumFacts DEF headerVars
<1> QED BY <1>2, <1>3, <1>5, <1>6, <1>7, <1>8, <1>9, PlainMarks

(* A store finds its entry without a mark, or with one of its own that is no   *)
(* destroy.                                                                    *)
LEMMA StoreMarks ==
  ASSUME StoreInv, SessionInv', MarkInv, NEW s \in Session, NEW n \in Num, NEW e \in Entry,
         NEW isNew \in BOOLEAN, NEW size \in Size, NEW val \in Value, Section(s),
         Store(s, n, e, isNew, size, val),
         total_entries' \in Nat, total_entries' >= total_entries, n < total_entries',
         \/ isNew /\ ~HasMark(n) /\ e.trans = "none" /\ e.tran_op = 0
         \/ ~isNew /\ e = index[n] /\ Writable(s, e) /\ e.trans # "free_list"
  PROVE  MarkInv'
<1>1. SessionInv /\ SessionsOK /\ HeaderOK /\ OneHolder /\ OwnIds /\ Unnamed
      /\ pc \in [Session -> PC] /\ pc[s] = "idle" /\ rp_impl_lock = NoSession
      /\ UNCHANGED << work, rp_impl_lock >>
  BY DEF StoreInv, SessionInv, SessionsOK, IndexInv, MarkInv, Section, Store
<1>2. e.trans \in {"none", "change", "delete", "free_list"} /\ e.tran_op \in Nat
  BY DEF Entry
<1>3. e.trans = "none" => ~HasMark(n) /\ e.tran_op = 0
  BY <1>1 DEF HasMark, Unnamed
<1>4. e.trans # "none" => /\ ~isNew /\ e = index[n] /\ InTx(s) /\ e.trans = "change"
                          /\ e.tran_id = tran_id[s]
  BY <1>2 DEF Writable
<1>5. CASE StoreInTx(s, n, e, isNew, size, val)
  <2> DEFINE op == StoreOp(s, n, e, isNew, size)
             at == Top(s).op_offset + Top(s).op_count + 1
             id == tran_id[s]
             trans == "change"
             x == Marked(e, id, at, trans)
  <2>1. /\ InTx(s) /\ LogOp(s, op) /\ index' = [index EXCEPT ![n] = x]
        /\ pc' = [pc EXCEPT ![s] = "storing"] /\ UNCHANGED << transaction_id, tran_id >>
    BY <1>5 DEF StoreInTx, Marked
  <2>2. op \in Op /\ op.id = n /\ at \in Nat
    BY <1>1, <2>1, StoreOpFits
  <2>3. at = Len(ops[s]) + 1
    BY <1>1, <2>1 DEF SessionInv, Tile, OpsEnd
  <2>4. op.type # "destroy"
    BY DEF StoreOp
  <2>5. Found(s, n, op)
    <3>1. CASE e.trans = "none"
      <4>1. op.old_tran_op = 0
        BY <3>1 DEF StoreOp
      <4> QED BY <4>1, <3>1, <1>3 DEF Found
    <3>2. CASE e.trans # "none"
      <4>1. op.old_tran_op = e.tran_op /\ op.old_tran_id = e.tran_id
        BY <3>2, <1>4 DEF StoreOp
      <4> HIDE DEF op
      <4> QED BY <4>1, <3>2, <1>4 DEF Found
    <3> QED BY <3>1, <3>2
  <2>6. x \in Entry /\ x.tran_id = id /\ x.tran_op = at /\ x.trans = trans
    <3>1. id \in Nat /\ trans \in {"none", "change", "delete", "free_list"}
      BY <1>1 DEF SessionsOK
    <3> HIDE DEF id, trans, at
    <3> QED BY <2>2, <3>1 DEF Marked, Entry
  <2>7. pc'[s] \in {"idle", "storing"} /\ \A t \in Session \ {s} : pc'[t] = pc[t]
    BY <1>1, <2>1
  <2> HIDE DEF x, op, at
  <2> QED BY <1>1, <2>1, <2>2, <2>3, <2>4, <2>5, <2>6, <2>7, LoggedMarks
<1>6. CASE StorePlain(s, n, e, isNew, size, val)
  <2> DEFINE inPlace == ~isNew /\ size <= e.size
             pos == IF inPlace THEN e.pos ELSE total_size_of_data
             lock == "entry"
             x == Placed(e, pos, size, transaction_id, lock)
  <2>1. /\ ~InTx(s) /\ index' = [index EXCEPT ![n] = x] /\ pc' = [pc EXCEPT ![s] = "writing"]
        /\ transaction_id' = transaction_id + 1 /\ UNCHANGED tranVars
    BY <1>6 DEF StorePlain, Placed
  <2>2. e.trans = "none" /\ ~HasMark(n) /\ e.tran_op = 0
    BY <2>1, <1>3, <1>4
  <2>3. x \in Entry /\ x.tran_op = e.tran_op /\ x.trans = e.trans
    <3>1. lock \in {"none", "entry"} /\ size \in Nat /\ transaction_id \in Nat /\ pos \in Int
      BY <1>1, StoreAssumption DEF HeaderOK, Entry
    <3> HIDE DEF lock, pos
    <3> QED BY <3>1 DEF Placed, Entry
  <2> HIDE DEF x
  <2>4. \A t \in Session : pc'[t] \notin {"committing", "rolling back"}
    BY <1>1, <2>1, NoHolder
  <2> QED BY <1>1, <2>1, <2>2, <2>3, <2>4, PlainMarks
<1> QED BY <1>5, <1>6 DEF Store

(* A store of an object that has no id yet. *)
LEMMA CreateMarks ==
  ASSUME StoreInv, SessionInv', MarkInv, NEW s \in Session, NEW size \in Size, NEW val \in Value,
         Create(s, size, val) \/ Revive(s, size, val)
  PROVE  MarkInv'
<1>1. HeaderOK /\ ListOK /\ Unnamed
  BY DEF StoreInv, IndexInv, MarkInv
<1>2. total_entries \in Nat /\ MaxEntries \in Nat /\ total_entries <= MaxEntries
  BY <1>1, NumFacts
<1>3. CASE Create(s, size, val)
  <2> DEFINE n == total_entries
  <2>1. /\ Section(s) /\ n < MaxEntries /\ total_entries' = n + 1
        /\ Store(s, n, Blank, TRUE, size, val)
    BY <1>3 DEF Create
  <2>2. n \in Num /\ total_entries' \in Nat /\ total_entries' >= total_entries /\ n < total_entries'
    BY <1>2, <2>1 DEF Num
  <2> HIDE DEF n
  <2>3. index[n].trans = "none"
    BY <1>1, <1>2, <2>2 DEF Unnamed, n
  <2>4. ~HasMark(n) /\ Blank \in Entry /\ Blank.trans = "none" /\ Blank.tran_op = 0
    BY <2>3, NoWriteOK DEF HasMark, Blank
  <2>5. TRUE \in BOOLEAN
    OBVIOUS
  <2> QED BY <2>1, <2>2, <2>4, <2>5, StoreMarks
<1>4. CASE Revive(s, size, val)
  <2> DEFINE n == index_free_list - 1
             was == index[n]
             trans == "none"
             pos == 0
             e == [was EXCEPT !.trans = trans, !.pos = pos]
  <2>1. /\ Section(s) /\ index_free_list # 0 /\ Store(s, n, e, TRUE, size, val)
        /\ UNCHANGED total_entries
    BY <1>4 DEF Revive
  <2>2. n \in Free
    BY <1>1, <2>1 DEF ListOK, FreeListLinks
  <2>3. n \in Num /\ n \in 0 .. total_entries - 1
    BY <1>1, <2>2, NumFacts
  <2>4. was \in Entry /\ was.trans = "free_list"
    BY <1>1, <2>2, <2>3 DEF HeaderOK, Free
  <2>5. ~HasMark(n) /\ was.tran_op = 0
    BY <1>1, <2>3, <2>4 DEF HasMark, Unnamed
  <2>6. e \in Entry /\ e.trans = "none" /\ e.tran_op = 0
    <3>1. trans \in {"none", "change", "delete", "free_list"} /\ pos \in Int
      OBVIOUS
    <3> HIDE DEF was, trans, pos
    <3>2. e \in Entry /\ e.trans = trans /\ e.tran_op = was.tran_op
      BY <2>4, <3>1 DEF Entry
    <3> QED BY <2>5, <3>2 DEF trans
  <2>7. total_entries' \in Nat /\ total_entries' >= total_entries /\ n < total_entries'
    BY <1>2, <2>1, <2>3
  <2>8. TRUE \in BOOLEAN
    OBVIOUS
  <2> HIDE DEF e, n
  <2> QED BY <2>1, <2>3, <2>5, <2>6, <2>7, <2>8, StoreMarks
<1> QED BY <1>3, <1>4

(* A store of an object that exists. *)
LEMMA UpdateMarks ==
  ASSUME ~StaleIds, StoreInv, SessionInv', MarkInv, NEW s \in Session, NEW n \in Num,
         NEW size \in Size, NEW val \in Value, Update(s, n, size, val)
  PROVE  MarkInv'
<1>1. /\ Section(s) /\ Known(n) /\ Writable(s, index[n])
      /\ Store(s, n, index[n], FALSE, size, val) /\ UNCHANGED total_entries
  BY DEF Update
<1>2. HeaderOK
  BY DEF StoreInv, IndexInv
<1>3. index[n] \in Entry /\ index[n].trans # "free_list" /\ n < total_entries
  BY <1>1, <1>2, KnownIsStored
<1>4. total_entries' \in Nat /\ total_entries' >= total_entries /\ n < total_entries'
  BY <1>1, <1>2, <1>3, NumFacts
<1>5. FALSE \in BOOLEAN
  OBVIOUS
<1> QED BY <1>1, <1>3, <1>4, <1>5, StoreMarks

(* A destroy marks its entry, or frees it outside a transaction. *)
LEMMA DestroyMarks ==
  ASSUME ~StaleIds, StoreInv, SessionInv', MarkInv, NEW s \in Session, NEW n \in Num, Destroy(s, n)
  PROVE  MarkInv'
<1> DEFINE e == index[n]
<1>1. /\ Section(s) /\ Known(n) /\ Writable(s, e) /\ rp_impl_lock = NoSession
      /\ UNCHANGED << rp_impl_lock, pc, work >> /\ pc[s] = "idle"
  BY DEF Destroy, Section
<1>2. HeaderOK /\ SessionInv /\ SessionsOK /\ Unnamed /\ OneHolder
  BY DEF StoreInv, SessionInv, IndexInv, MarkInv
<1>3. e \in Entry /\ e.trans # "free_list" /\ n < total_entries
  BY <1>1, <1>2, KnownIsStored
<1>4. e.trans \in {"none", "change", "delete", "free_list"} /\ e.tran_op \in Nat
  BY <1>3 DEF Entry
<1>5. total_entries \in Nat
  BY <1>2, NumFacts
<1>6. ~HasMark(n) => e.trans = "none" /\ e.tran_op = 0
  BY <1>2, <1>3, <1>4 DEF HasMark, Unnamed
<1>7. HasMark(n) => e.trans = "change" /\ e.tran_id = tran_id[s] /\ InTx(s)
  BY <1>1 DEF HasMark, Writable
<1>8. CASE DestroyInTx(s, n)
  <2> DEFINE op == [id |-> n, type |-> "destroy", pos |-> 0, size |-> 0,
                    old_tran_id |-> 0, old_tran_op |-> e.tran_op]
             id == tran_id[s]
             zero == 0
             trans == "delete"
             x == Marked(e, id, zero, trans)
  <2>1. /\ InTx(s) /\ LogOp(s, op) /\ index' = [index EXCEPT ![n] = x]
        /\ UNCHANGED << headerVars, tran_id >>
    BY <1>8 DEF DestroyInTx, Marked
  <2>2. op \in Op /\ op.id = n /\ op.type = "destroy"
    <3>1. 0 \in Nat /\ 0 \in Nat \cup {-1} /\ "destroy" \in {"update", "append", "destroy"}
      OBVIOUS
    <3> HIDE DEF e
    <3> QED BY <3>1, <1>4 DEF Op
  <2>3. Found(s, n, op)
    BY <1>6, <1>7 DEF Found
  <2>4. x \in Entry /\ x.tran_id = id /\ x.tran_op = 0 /\ x.trans = trans
    <3>1. id \in Nat /\ trans \in {"none", "change", "delete", "free_list"} /\ zero \in Nat
      BY <1>2 DEF SessionsOK
    <3>2. zero = 0
      OBVIOUS
    <3> HIDE DEF id, trans, zero, e
    <3> QED BY <1>3, <3>1, <3>2 DEF Marked, Entry
  <2>5. /\ total_entries' \in Nat /\ total_entries' >= total_entries /\ n < total_entries'
        /\ UNCHANGED transaction_id
    BY <1>3, <1>5, <2>1 DEF headerVars
  <2>6. pc'[s] \in {"idle", "storing"} /\ \A t \in Session \ {s} : pc'[t] = pc[t]
    BY <1>1
  <2> HIDE DEF x, op
  <2> QED BY <1>1, <2>1, <2>2, <2>3, <2>4, <2>5, <2>6, LoggedMarks
<1>9. CASE DestroyPlain(s, n)
  <2> DEFINE zero == 0
             was == [e EXCEPT !.tran_id = transaction_id, !.tran_op = zero]
             free == "free_list"
             x == [was EXCEPT !.pos = index_free_list, !.size = zero, !.trans = free]
  <2>1. /\ ~InTx(s) /\ index' = [index EXCEPT ![n] = x] /\ transaction_id' = transaction_id + 1
        /\ UNCHANGED << total_entries, tranVars >>
    BY <1>9 DEF DestroyPlain, Freed
  <2>2. x \in Entry /\ x.trans = free /\ x.tran_op = zero
    <3>1. zero \in Nat /\ free \in {"none", "change", "delete", "free_list"}
          /\ transaction_id \in Nat /\ index_free_list \in Int
      BY <1>2 DEF HeaderOK
    <3> HIDE DEF zero, free, e
    <3>2. was \in Entry /\ was.tran_op = zero
      BY <1>3, <3>1 DEF Entry
    <3> HIDE DEF was
    <3> QED BY <3>1, <3>2 DEF Entry
  <2>3. ~HasMark(n)
    BY <1>7, <2>1
  <2>4. \A t \in Session : pc'[t] \notin {"committing", "rolling back"}
    BY <1>1, <1>2, NoHolder
  <2>5. /\ total_entries' \in Nat /\ total_entries' >= total_entries
        /\ n >= total_entries' => x.trans = "none"
    <3>1. n \in Nat
      BY <1>2, NumFacts
    <3> HIDE DEF x
    <3> QED BY <3>1, <1>3, <1>5, <2>1
  <2>6. x.trans \in {"none", "free_list"} /\ x.tran_op = 0
    BY <2>2
  <2> HIDE DEF x
  <2> QED BY <1>1, <2>1, <2>2, <2>3, <2>4, <2>5, <2>6, PlainMarks
<1> QED BY <1>8, <1>9 DEF Destroy

(* Numbers up to the last operation. *)
LEMMA UpTo ==
  \A t \in Nat :
    /\ t > 0 => t \in 1 .. t
    /\ \A i \in 1 .. t - 1 : i \in 1 .. t /\ i \in Nat
    /\ \A i \in 1 .. t : i \in Nat /\ (i # t => i \in 1 .. t - 1)
OBVIOUS

LEMMA Beyond == \A t, i \in Nat : \A j \in i + 1 .. t - 1 : j \in i + 1 .. t
OBVIOUS

LEMMA Below == \A a, m \in Nat : m < a => ~(m >= a)
OBVIOUS

(* The session that holds the mutex has dealt with its last operation: its     *)
(* entry gets the mark that it had before, or none.                            *)
LEMMA HolderMarks ==
  ASSUME StoreInv, MarkInv, NEW s \in Session, pc[s] \in {"committing", "rolling back"},
         Live(s) > 0, NEW n \in Num, n = ops[s][Live(s)].id, Live(s)' = Live(s) - 1,
         work'[s].op_offset = work[s].op_offset, n < total_entries,
         NEW x \in Entry, index' = [index EXCEPT ![n] = x],
         \/ /\ x.trans \in {"none", "free_list"} /\ x.tran_op = 0
            /\ \/ pc[s] = "committing"
               \/ \A k \in 1 .. Live(s) - 1 : ops[s][k].id # n
         \/ /\ x.trans = "change" /\ x.tran_op \in 1 .. Live(s) - 1 /\ x.tran_id = tran_id[s]
            /\ LET i == x.tran_op
               IN /\ ops[s][i].id = n /\ ops[s][i].type # "destroy"
                  /\ \A k \in i + 1 .. Live(s) - 1 : ops[s][k].id # n,
         \A t \in Session \ {s} : work'[t] = work[t],
         UNCHANGED << total_entries, transaction_id, rp_impl_lock, pc, tranVars >>
  PROVE  MarkInv'
<1> DEFINE top == Live(s)
<1>1. SessionInv /\ SessionsOK /\ HeaderOK /\ OneHolder /\ OwnIds /\ Unnamed /\ MarksNamed
      /\ OpsMarked /\ OpsLinked
  BY DEF StoreInv, SessionInv, IndexInv, MarkInv
<1>2. UNCHANGED << tran_id, levels, ops >>
  BY DEF tranVars
<1>3. \A t \in Session \ {s} : pc[t] \notin {"committing", "rolling back"}
  BY <1>1 DEF OneHolder
<1>4. top \in Nat /\ top > 0 /\ Active(s)
  <2>1. top \in Nat /\ (top > 0 => Active(s))
    BY <1>1, LiveOps
  <2> QED BY <2>1
<1>5. \A t \in Session : Active(t)' <=> Active(t)
  BY <1>2 DEF Active, InTx
<1>6. \A t \in Session \ {s} : Live(t)' = Live(t)
  BY <1>2 DEF Live
<1>7. HasMark(n) => index[n].tran_id = tran_id[s]
  <2>1. Live(s) \in 1 .. Live(s)
    <3> HIDE DEF top
    <3>1. Live(s) \in Nat /\ Live(s) > 0
      BY <1>4 DEF top
    <3> QED BY <3>1, UpTo
  <2> QED BY <2>1, <1>1 DEF OpsMarked
<1>8. \A t \in Session \ {s} : \A i \in 1 .. Live(t) : ops[t][i].id # n
  BY <1>3, <1>4, <1>7, NotTheirs
<1>9. index'[n] = x /\ (HasMark(n)' <=> x.trans = "change")
  BY <1>1 DEF HeaderOK, HasMark
<1> HIDE DEF top
<1>10. MarksNamed' /\ OpsMarked'
  <2>1. \A t \in Session : \A i \in 1 .. Live(t) : ops[t][i].id \in Num
    BY <1>1, LiveIds
  <2>2. ASSUME NEW m \in Num \ {n}, NEW i \in 1 .. Live(s), LastOp(s, m, i)
        PROVE  i \in 1 .. Live(s)' /\ LastOp(s, m, i)' /\ ops'[s][i] = ops[s][i]
    <3>1. i # top /\ ops[s][i].id = m /\ \A j \in i + 1 .. top : ops[s][j].id # m
      BY <2>2 DEF LastOp, top
    <3>2. Live(s)' = top - 1 /\ i \in 1 .. top
      BY DEF top
    <3>3. i \in Nat /\ i \in 1 .. top - 1
      BY <3>1, <3>2, <1>4, UpTo
    <3>4. \A j \in i + 1 .. top - 1 : ops[s][j].id # m
      BY <3>1, <3>3, <1>4, Beyond
    <3> QED BY <3>1, <3>2, <3>3, <3>4, <1>2 DEF LastOp
  <2>3. \A i \in 1 .. Live(s)' : ops'[s][i].id # n => i \in 1 .. Live(s) /\ ops'[s][i] = ops[s][i]
    <3>1. \A i \in 1 .. top - 1 : i \in 1 .. top
      BY <1>4, UpTo
    <3> QED BY <3>1, <1>2 DEF top
  <2>4. HasMark(n)' => /\ Active(s)' /\ x.tran_id = tran_id[s]
                       /\ (\E i \in 1 .. Live(s) : Names(s, n, i))'
    <3> SUFFICES ASSUME x.trans = "change"
                 PROVE  Active(s)' /\ x.tran_id = tran_id[s] /\ (\E i \in 1 .. Live(s) : Names(s, n, i))'
      BY <1>9
    <3> DEFINE i == x.tran_op
    <3>1. /\ i \in 1 .. top - 1 /\ x.tran_id = tran_id[s]
          /\ ops[s][i].id = n /\ ops[s][i].type # "destroy"
          /\ \A k \in i + 1 .. top - 1 : ops[s][k].id # n
      BY DEF top
    <3>2. Live(s)' = top - 1
      BY DEF top
    <3>3. index'[n].trans # "delete" /\ index'[n].tran_op = i
      BY <1>9
    <3> HIDE DEF i
    <3>4. i \in 1 .. Live(s)' /\ Names(s, n, i)'
      BY <3>1, <3>2, <3>3, <1>2 DEF Names, LastOp
    <3>5. (\E k \in 1 .. Live(s) : Names(s, n, k))'
      BY <3>4
    <3> QED BY <3>1, <3>5, <1>4, <1>5
  <2>5. \A i \in 1 .. Live(s)' : ops'[s][i].id = n => HasMark(n)' \/ pc'[s] = "committing"
    <3> SUFFICES ASSUME NEW i \in 1 .. top - 1, ops[s][i].id = n, x.trans # "change",
                        pc[s] # "committing"
                 PROVE  FALSE
      BY <1>2, <1>9 DEF top
    <3> QED BY DEF top
  <2>6. ASSUME NEW t \in Session \ {s}
        PROVE  /\ ops'[t] = ops[t] /\ Live(t)' = Live(t) /\ (Active(t) => Active(t)')
               /\ pc[t] = "committing" => pc'[t] = "committing"
               /\ \A i \in 1 .. Live(t) : ops[t][i].id # n
    BY <1>2, <1>5, <1>6, <1>8
  <2>7. tran_id' = tran_id /\ (Active(s) => Active(s)') /\ (pc[s] = "committing" => pc'[s] = "committing")
    BY <1>2, <1>5
  <2> QED BY <1>1, <2>1, <2>2, <2>3, <2>4, <2>5, <2>6, <2>7, MarksMoved
<1>11. OneHolder'
  BY <1>1 DEF OneHolder
<1>12. OwnIds'
  BY <1>1, <1>2, <1>5, IdsKept
<1>13. Unnamed'
  <2> SUFFICES ASSUME NEW m \in Num
               PROVE  /\ ~HasMark(m)' => index'[m].tran_op = 0
                      /\ m >= total_entries' => index'[m].trans = "none"
    BY DEF Unnamed
  <2>1. CASE m = n
    <3>1. ~HasMark(m)' => index'[m].tran_op = 0
      BY <2>1, <1>9
    <3>2. m \in Nat /\ total_entries \in Nat
      BY <1>1, NumFacts
    <3>3. m < total_entries
      BY <2>1
    <3>4. ~(m >= total_entries)
      BY <3>2, <3>3, Below
    <3> QED BY <3>1, <3>4
  <2>2. CASE m # n
    <3>1. index'[m] = index[m]
      BY <2>2, <1>1 DEF HeaderOK
    <3> QED BY <3>1, <1>1 DEF Unnamed, HasMark
  <2> QED BY <2>1, <2>2
<1>14. OpsLinked'
  BY <1>1, <1>2 DEF OpsLinked
<1> QED BY <1>10, <1>11, <1>12, <1>13, <1>14 DEF MarkInv

(* One operation of a commit: the last one of its entry takes the mark away,   *)
(* those before it find none.                                                  *)
LEMMA CommitOpMarks ==
  ASSUME StoreInv, MarkInv, NEW s \in Session, CommitOp(s)
  PROVE  MarkInv'
<1> DEFINE k == work[s]
           op == ops[s][k.cursor]
           n == op.id
           e == index[n]
<1>1. SessionInv /\ SessionsOK /\ HeaderOK /\ OneHolder /\ Unnamed /\ OpsMarked
      /\ work \in [Session -> Work] /\ index \in [Num -> Entry] /\ total_size_of_data \in Int
  BY DEF StoreInv, SessionInv, SessionsOK, IndexInv, HeaderOK, MarkInv
<1>2. /\ pc[s] = "committing" /\ k.cursor > 0 /\ n < total_entries
      /\ CommitDelete(s, n) \/ CommitChange(s, op) \/ CommitSkip(s, n)
      /\ UNCHANGED << total_entries, transaction_id, rp_impl_lock, pc, tranVars >>
  BY DEF CommitOp
<1>3. k \in Work /\ op \in Op
  BY <1>1, <1>2, CurrentOp
<1>4. n \in Num /\ op.size \in Nat
  BY <1>3 DEF Op
<1>5. e \in Entry
  BY <1>1, <1>4
<1>6. Live(s) = k.cursor /\ k.cursor \in Nat
  BY <1>1, <1>2, LiveOps
<1>7. ASSUME NEW w \in Work, work' = [work EXCEPT ![s] = w], w.cursor = k.cursor - 1,
             w.op_offset = k.op_offset
      PROVE  /\ Live(s)' = Live(s) - 1 /\ work'[s].op_offset = work[s].op_offset
             /\ \A t \in Session \ {s} : work'[t] = work[t]
  <2>1. work'[s] = w /\ \A t \in Session \ {s} : work'[t] = work[t]
    BY <1>1, <1>7
  <2>2. k.op_offset = 0
    BY <1>1, <1>2 DEF OneHolder
  <2>3. Live(s)' = work'[s].op_offset + work'[s].cursor
    BY <1>2 DEF Live
  <2> QED BY <1>6, <1>7, <2>1, <2>2, <2>3
<1>8. ASSUME NEW x \in Entry, index' = [index EXCEPT ![n] = x], x.trans \in {"none", "free_list"},
             x.tran_op = 0, NEW w \in Work, work' = [work EXCEPT ![s] = w],
             w.cursor = k.cursor - 1, w.op_offset = k.op_offset
      PROVE  MarkInv'
  <2>1. /\ Live(s)' = Live(s) - 1 /\ work'[s].op_offset = work[s].op_offset
        /\ \A t \in Session \ {s} : work'[t] = work[t]
    BY <1>7, <1>8
  <2>2. n = ops[s][Live(s)].id /\ Live(s) > 0
    BY <1>2, <1>6
  <2> HIDE DEF n, k
  <2> QED BY <1>2, <1>4, <1>8, <2>1, <2>2, HolderMarks
<1> DEFINE next == [k EXCEPT !.cursor = @ - 1]
<1>9. next \in Work /\ next.cursor = k.cursor - 1 /\ next.op_offset = k.op_offset
  <2> HIDE DEF k
  <2> QED BY <1>2, <1>3, CursorMoved
<1>10. CASE CommitDelete(s, n)
  <2> DEFINE tail == TailDeleted(k, e)
             was == tail.work
             w == [was EXCEPT !.cursor = @ - 1]
             freed == Freed(e)
             zero == 0
             x == [freed EXCEPT !.tran_op = zero]
  <2>1. work' = [work EXCEPT ![s] = w] /\ index' = [index EXCEPT ![n] = x]
    BY <1>10 DEF CommitDelete
  <2>2. was \in Work /\ was.cursor = k.cursor /\ was.op_offset = k.op_offset
    <3> HIDE DEF k, e
    <3> QED BY <1>3, <1>5, TailWork
  <2>3. w \in Work /\ w.cursor = k.cursor - 1 /\ w.op_offset = k.op_offset
    <3> HIDE DEF was, k
    <3> QED BY <1>2, <2>2, CursorMoved
  <2>4. freed \in Entry /\ freed.trans = "free_list"
    <3> HIDE DEF e
    <3> QED BY <1>1, <1>5, FreedEntry
  <2>5. x \in Entry /\ x.trans = "free_list" /\ x.tran_op = 0
    <3>1. zero \in Nat /\ zero = 0
      OBVIOUS
    <3> HIDE DEF zero, freed
    <3> QED BY <2>4, <3>1 DEF Entry
  <2> HIDE DEF w, x, k
  <2> QED BY <1>8, <2>1, <2>3, <2>5
<1>11. CASE CommitChange(s, op)
  <2> DEFINE pos == IF op.type = "append" THEN total_size_of_data ELSE e.pos
             size == op.size
             zero == 0
             none == "none"
             x == [e EXCEPT !.pos = pos, !.size = size, !.tran_op = zero, !.trans = none]
  <2>1. index' = [index EXCEPT ![n] = x] /\ work' = [work EXCEPT ![s] = next]
    BY <1>1, <1>11 DEF CommitChange
  <2>2. pos \in Int /\ size \in Nat /\ zero \in Nat /\ zero = 0
        /\ none \in {"none", "change", "delete", "free_list"}
    BY <1>1, <1>4, <1>5 DEF Entry
  <2>3. x \in Entry /\ x.trans = "none" /\ x.tran_op = 0
    <3> HIDE DEF pos, size, zero, none, e
    <3>1. x \in Entry
      BY <1>5, <2>2 DEF Entry
    <3>2. x.tran_op = zero /\ x.trans = none
      BY <1>5 DEF Entry
    <3> QED BY <2>2, <3>1, <3>2 DEF none
  <2> HIDE DEF x, next, k
  <2> QED BY <1>8, <1>9, <2>1, <2>3
<1>12. CASE CommitSkip(s, n)
  <2>1. /\ e.trans \in {"none", "free_list"} /\ index' = index /\ work' = [work EXCEPT ![s] = next]
    BY <1>1, <1>12 DEF CommitSkip
  <2>2. index' = [index EXCEPT ![n] = e] /\ e.tran_op = 0
    BY <1>1, <1>4, <2>1 DEF Unnamed, HasMark
  <2> HIDE DEF e, next, k
  <2> QED BY <1>5, <1>8, <1>9, <2>1, <2>2
<1> QED BY <1>2, <1>10, <1>11, <1>12

(* One operation of a rollback puts back the mark that the entry had before    *)
(* it, or frees the entry, or leaves it without one.                           *)
LEMMA RollbackOpMarks ==
  ASSUME StoreInv, MarkInv, NEW s \in Session, RollbackOp(s)
  PROVE  MarkInv'
<1> DEFINE k == work[s]
           op == ops[s][k.op_offset + k.cursor]
           n == op.id
           e == index[n]
           x == Undone(op, e)
           next == [k EXCEPT !.cursor = @ - 1]
<1>1. SessionInv /\ SessionsOK /\ HeaderOK /\ OneHolder /\ Unnamed /\ OpsMarked /\ OpsLinked
      /\ MarksNamed /\ OwnIds
      /\ work \in [Session -> Work] /\ index \in [Num -> Entry] /\ tran_id \in [Session -> Nat]
  BY DEF StoreInv, SessionInv, SessionsOK, IndexInv, HeaderOK, MarkInv
<1>2. /\ pc[s] = "rolling back" /\ k.cursor > 0 /\ n < total_entries
      /\ e.trans \in {"change", "delete"} => index' = [index EXCEPT ![n] = x]
      /\ work' = [work EXCEPT ![s] = next]
      /\ UNCHANGED << total_entries, transaction_id, rp_impl_lock, pc, tranVars >>
  BY <1>1 DEF RollbackOp
<1>3. k \in Work /\ op \in Op
  BY <1>1, <1>2, CurrentOp
<1>4. n \in Num
  BY <1>3 DEF Op
<1>5. e \in Entry
  BY <1>1, <1>4
<1>6. next \in Work /\ next.cursor = k.cursor - 1 /\ next.op_offset = k.op_offset
  <2> HIDE DEF k
  <2> QED BY <1>2, <1>3, CursorMoved
<1> DEFINE top == Live(s)
<1>7. /\ top = k.op_offset + k.cursor /\ k.cursor \in Nat /\ k.op_offset \in Nat /\ top \in Nat
      /\ top <= Len(ops[s]) /\ Len(ops[s]) \in Nat
  BY <1>1, <1>2, LiveOps
<1>8. /\ Live(s)' = Live(s) - 1 /\ work'[s].op_offset = work[s].op_offset
      /\ \A t \in Session \ {s} : work'[t] = work[t]
  <2>1. work'[s] = next /\ \A t \in Session \ {s} : work'[t] = work[t]
    BY <1>1, <1>2
  <2>2. Live(s)' = work'[s].op_offset + work'[s].cursor
    BY <1>2 DEF Live
  <2>3. Live(s)' = k.op_offset + (k.cursor - 1)
    BY <1>6, <2>1, <2>2
  <2>4. k.op_offset + (k.cursor - 1) = (k.op_offset + k.cursor) - 1
    BY <1>7
  <2> QED BY <1>6, <1>7, <2>1, <2>3, <2>4
<1>9. top > 0 /\ top \in 1 .. Len(ops[s]) /\ op = ops[s][top]
  <2>1. k.cursor > 0
    BY <1>2
  <2> DEFINE a == k.op_offset
             b == k.cursor
             c == Len(ops[s])
  <2>2. op = ops[s][top]
    BY <1>7
  <2> HIDE DEF op, top, a, b, c
  <2>3. top = a + b /\ a \in Nat /\ b \in Nat /\ b > 0 /\ top <= c /\ c \in Nat
    BY <1>7, <2>1 DEF a, b, c
  <2>4. top > 0 /\ top \in 1 .. c
    BY <2>3
  <2> QED BY <2>2, <2>4 DEF c
<1>10. HasMark(n) /\ index[n].tran_id = tran_id[s]
  <2>1. top \in 1 .. Live(s)
    BY <1>7, <1>9
  <2> QED BY <2>1, <1>1, <1>2, <1>9 DEF OpsMarked
<1>11. index' = [index EXCEPT ![n] = x]
  BY <1>2, <1>10 DEF HasMark
<1>12. Kept(ops[s], tran_id[s], top)
  BY <1>1, <1>9 DEF OpsLinked
<1> DEFINE created == op.old_tran_op = 0 /\ op.old_tran_id = -1
           old == op.old_tran_op
           id == IF op.old_tran_id > 0 THEN op.old_tran_id ELSE e.tran_id
           was == [e EXCEPT !.tran_op = old, !.tran_id = id]
           mark == IF op.old_tran_op = 0 THEN "none" ELSE "change"
           free == "free_list"
           zero == 0
           freed == [was EXCEPT !.pos = index_free_list, !.size = zero, !.trans = free]
           back == [was EXCEPT !.trans = mark]
<1>13. old \in Nat /\ id \in Nat /\ mark \in {"none", "change", "delete", "free_list"}
       /\ free \in {"none", "change", "delete", "free_list"} /\ zero \in Nat
       /\ index_free_list \in Int
  BY <1>1, <1>3, <1>5 DEF Op, Entry, HeaderOK
<1>14. x = IF created THEN freed ELSE back
  BY DEF Undone, Freed
<1>15. /\ was \in Entry /\ was.tran_op = old /\ was.tran_id = id
  <2> HIDE DEF e, old, id
  <2> QED BY <1>5, <1>13 DEF Entry
<1>16. /\ freed \in Entry /\ freed.trans = "free_list" /\ freed.tran_op = old
       /\ back \in Entry /\ back.trans = mark /\ back.tran_op = old /\ back.tran_id = id
  <2>1. free = "free_list"
    OBVIOUS
  <2> HIDE DEF was, mark, free, zero, old, id
  <2> QED BY <1>13, <1>15, <2>1 DEF Entry
<1>17. x \in Entry
  BY <1>14, <1>16
<1>18. CASE old = 0
  <2>1. \A j \in 1 .. top - 1 : ops[s][j].id # n
    BY <1>9, <1>12, <1>18 DEF Kept
  <2>2. x.trans \in {"none", "free_list"} /\ x.tran_op = 0
    <3> HIDE DEF freed, back
    <3> QED BY <1>14, <1>16, <1>18
  <2> HIDE DEF x, op, k, n
  <2> QED BY <1>2, <1>4, <1>8, <1>9, <1>11, <1>17, <2>1, <2>2, HolderMarks DEF n
<1>19. CASE old # 0
  <2>1. /\ old \in 1 .. top - 1 /\ ops[s][old].id = n /\ ops[s][old].type # "destroy"
        /\ \A j \in old + 1 .. top - 1 : ops[s][j].id # n
        /\ op.old_tran_id \in {0, tran_id[s]}
    BY <1>9, <1>12, <1>19 DEF Kept
  <2>2. id = tran_id[s]
    <3>1. e.tran_id = tran_id[s] /\ tran_id[s] \in Nat
      BY <1>1, <1>10
    <3>2. CASE op.old_tran_id = 0
      <4>1. ~(op.old_tran_id > 0)
        BY <3>2
      <4> QED BY <3>1, <4>1
    <3>3. CASE op.old_tran_id = tran_id[s]
      <4> HIDE DEF e
      <4> QED BY <3>1, <3>3
    <3> QED BY <2>1, <3>2, <3>3
  <2>3. x.trans = "change" /\ x.tran_op = old /\ x.tran_id = tran_id[s]
    <3>1. ~created /\ mark = "change"
      BY <1>19
    <3> HIDE DEF freed, back, created, mark
    <3> QED BY <1>14, <1>16, <2>2, <3>1
  <2> HIDE DEF x, op, k, n, old
  <2> QED BY <1>2, <1>4, <1>8, <1>9, <1>11, <1>17, <2>1, <2>3, HolderMarks DEF n
<1> QED BY <1>18, <1>19

(* Numbers of operations, once more. *)
LEMMA Onward == \A l \in Nat : \A i \in 1 .. l : i \in Nat /\ \A j \in i + 1 .. l : j \in 1 .. l
OBVIOUS

LEMMA Within ==
  \A l, m \in Nat : l <= m => \A i \in 1 .. l : i \in 1 .. m /\ i \in Nat /\ i > 0
                                               /\ \A k \in 1 .. i : k \in 1 .. l
OBVIOUS

LEMMA NoneMore == \A a \in Nat : a + 0 = a
OBVIOUS

LEMMA NoneUpToZero == \A l : l = 0 => \A i \in 1 .. l : FALSE
OBVIOUS

LEMMA LiveKept ==
  ASSUME NEW t, pc[t] \notin {"committing", "rolling back"},
         pc'[t] \notin {"committing", "rolling back"}, ops'[t] = ops[t]
  PROVE  Live(t)' = Live(t)
BY DEF Live

(* The session that holds the mutex lets it go: it keeps the operations that   *)
(* are not dealt with, and they are those of its open levels.                  *)
LEMMA EndMarks ==
  ASSUME StoreInv, MarkInv, NEW s \in Session, pc[s] \in {"committing", "rolling back"},
         NEW q, ops' = [ops EXCEPT ![s] = q], Len(q) = Live(s),
         \A i \in 1 .. Live(s) : q[i] = ops[s][i],
         pc[s] = "committing" => Live(s) = 0, ~InTx(s) => Live(s) = 0,
         pc' = [pc EXCEPT ![s] = "idle"], rp_impl_lock' = NoSession,
         \A t \in Session \ {s} : work'[t] = work[t],
         UNCHANGED << headerVars, index, tran_id, levels >>
  PROVE  MarkInv'
<1>1. SessionInv /\ SessionsOK /\ HeaderOK /\ OneHolder /\ OwnIds /\ Unnamed /\ MarksNamed
      /\ OpsMarked /\ OpsLinked
  BY DEF StoreInv, SessionInv, IndexInv, MarkInv
<1>2. /\ pc'[s] = "idle" /\ ops'[s] = q /\ UNCHANGED << total_entries, transaction_id >>
      /\ \A t \in Session \ {s} : pc'[t] = pc[t] /\ ops'[t] = ops[t]
  BY <1>1 DEF SessionsOK, headerVars
<1>3. \A t \in Session \ {s} : pc[t] \notin {"committing", "rolling back"}
  BY <1>1 DEF OneHolder
<1>4. /\ \A i \in 1 .. Len(ops[s]) : ops[s][i] \in Op
      /\ Live(s) \in Nat /\ Live(s) <= Len(ops[s]) /\ Len(ops[s]) \in Nat
  BY <1>1, LiveOps
<1>5. \A t \in Session : Live(t)' = Live(t)
  <2>1. Live(s)' = Live(s)
    BY <1>2 DEF Live
  <2>2. ASSUME NEW t \in Session \ {s} PROVE Live(t)' = Live(t)
    <3>1. /\ pc'[t] \notin {"committing", "rolling back"} /\ ops'[t] = ops[t]
          /\ pc[t] \notin {"committing", "rolling back"}
      BY <1>2, <1>3
    <3> QED BY <3>1, LiveKept
  <2> QED BY <2>1, <2>2
<1>6. \A t \in Session \ {s} : Active(t)' <=> Active(t)
  BY <1>2 DEF Active, InTx
<1>7. Active(s)' \/ Live(s) = 0
  BY DEF Active, InTx
<1>8. \A t \in Session : \A i \in 1 .. Live(t) : ops'[t][i] = ops[t][i]
  <2>1. \A i \in 1 .. Live(s) : ops'[s][i] = ops[s][i]
    BY <1>2
  <2>2. \A t \in Session \ {s} : ops'[t] = ops[t]
    BY <1>2
  <2> QED BY <2>1, <2>2
<1>9. OneHolder'
  BY <1>2, <1>3 DEF OneHolder
<1>10. OwnIds'
  <2>1. \A t \in Session : Active(t)' => Active(t)
    BY <1>6 DEF Active
  <2> QED BY <2>1, <1>1, <1>2, IdsKept
<1>11. Unnamed'
  BY <1>1, <1>2 DEF Unnamed, HasMark
<1>12. MarksNamed'
  <2> SUFFICES ASSUME NEW m \in Num, HasMark(m)'
               PROVE  \E t \in Session : /\ Active(t)' /\ tran_id'[t] = index'[m].tran_id
                                         /\ (\E i \in 1 .. Live(t) : Names(t, m, i))'
    BY DEF MarksNamed
  <2>1. HasMark(m)
    BY DEF HasMark
  <2>2. PICK t \in Session : /\ Active(t) /\ tran_id[t] = index[m].tran_id
                             /\ \E i \in 1 .. Live(t) : Names(t, m, i)
    BY <2>1, <1>1 DEF MarksNamed
  <2>3. PICK i \in 1 .. Live(t) : Names(t, m, i)
    BY <2>2
  <2>4. i \in 1 .. Live(t)' /\ Names(t, m, i)'
    <3>1. Live(t) \in Nat
      BY <1>1, LiveOps
    <3>2. i \in Nat /\ \A j \in i + 1 .. Live(t) : j \in 1 .. Live(t)
      BY <3>1, Onward
    <3>3. ops'[t][i] = ops[t][i] /\ \A j \in i + 1 .. Live(t) : ops'[t][j] = ops[t][j]
      BY <3>2, <1>8
    <3> QED BY <2>3, <3>3, <1>5 DEF Names, LastOp
  <2>5. Active(t)'
    <3>1. CASE t = s
      <4>1. Live(s) # 0
        BY <2>3, <3>1, NoneUpToZero
      <4> QED BY <3>1, <4>1, <1>7
    <3>2. CASE t # s
      BY <3>2, <2>2, <1>6
    <3> QED BY <3>1, <3>2
  <2> QED BY <2>2, <2>4, <2>5
<1>13. OpsMarked'
  <2> SUFFICES ASSUME NEW t \in Session, NEW i \in 1 .. Live(t)
               PROVE  \/ HasMark(ops[t][i].id)' /\ index'[ops'[t][i].id].tran_id = tran_id'[t]
                      \/ pc'[t] = "committing" /\ ~HasMark(ops[t][i].id)'
    BY <1>5 DEF OpsMarked
  <2>1. pc[t] # "committing"
    BY <1>3, NoneUpToZero
  <2>2. HasMark(ops[t][i].id) /\ index[ops[t][i].id].tran_id = tran_id[t]
    BY <2>1, <1>1 DEF OpsMarked
  <2>3. ops'[t][i] = ops[t][i]
    BY <1>8
  <2> QED BY <2>2, <2>3 DEF HasMark
<1>14. OpsLinked'
  <2> SUFFICES ASSUME NEW t \in Session, NEW i \in 1 .. Len(ops'[t]) PROVE Kept(ops'[t], tran_id[t], i)
    BY DEF OpsLinked
  <2>1. CASE t # s
    BY <2>1, <1>1, <1>2 DEF OpsLinked
  <2>2. CASE t = s
    <3>1. i \in 1 .. Live(s)
      BY <2>2, <1>2
    <3>2. i \in 1 .. Len(ops[s]) /\ i \in Nat /\ i > 0 /\ \A k \in 1 .. i : k \in 1 .. Live(s)
      BY <3>1, <1>4, Within
    <3>3. Kept(ops[s], tran_id[s], i)
      BY <3>2, <1>1 DEF OpsLinked
    <3>4. \A k \in 1 .. i : q[k] = ops[s][k]
      BY <3>2
    <3>5. ops[s][i].old_tran_op \in Nat
      BY <3>2, <1>4 DEF Op
    <3> QED BY <2>2, <1>2, <3>2, <3>3, <3>4, <3>5, KeptBefore
  <2> QED BY <2>1, <2>2
<1> QED BY <1>9, <1>10, <1>11, <1>12, <1>13, <1>14 DEF MarkInv

(* The end of a commit leaves no operation, the end of a rollback those of the *)
(* levels that are still open.                                                 *)
LEMMA EndsMarks ==
  ASSUME StoreInv, MarkInv, NEW s \in Session, CommitEnd(s) \/ RollbackEnd(s)
  PROVE  MarkInv'
<1>1. /\ SessionInv /\ SessionsOK /\ OneHolder /\ ops[s] \in Seq(Op) /\ work[s] \in Work /\ Tile(s)
      /\ work \in [Session -> Work]
  BY DEF StoreInv, SessionInv, SessionsOK, MarkInv
<1>2. /\ pc' = [pc EXCEPT ![s] = "idle"] /\ rp_impl_lock' = NoSession
      /\ work[s].cursor = 0 /\ UNCHANGED << headerVars, index, tran_id, levels >>
      /\ \A t \in Session \ {s} : work'[t] = work[t]
  BY <1>1 DEF CommitEnd, RollbackEnd
<1>3. /\ Live(s) \in Nat /\ Live(s) <= Len(ops[s]) /\ Len(ops[s]) \in Nat
      /\ pc[s] = "committing" => Live(s) = work[s].cursor
      /\ pc[s] = "rolling back" => Live(s) = work[s].op_offset + work[s].cursor
      /\ work[s].op_count \in Nat /\ work[s].op_offset \in Nat
  BY <1>1, LiveOps
<1>4. CASE CommitEnd(s)
  <2>1. pc[s] = "committing" /\ ops' = [ops EXCEPT ![s] = << >>]
    BY <1>4 DEF CommitEnd
  <2>2. Live(s) = 0 /\ Len(<< >>) = Live(s)
    BY <2>1, <1>2, <1>3
  <2>3. \A i \in 1 .. Live(s) : << >>[i] = ops[s][i]
    BY <2>2
  <2> QED BY <2>1, <2>2, <2>3, <1>2, EndMarks
<1>5. CASE RollbackEnd(s)
  <2> DEFINE m == Len(ops[s]) - work[s].op_count
             q == [i \in 1 .. m |-> ops[s][i]]
  <2>1. pc[s] = "rolling back" /\ ops' = [ops EXCEPT ![s] = q]
    BY <1>5 DEF RollbackEnd
  <2>2. Live(s) = work[s].op_offset
    <3>1. Live(s) = work[s].op_offset + 0
      BY <2>1, <1>2, <1>3
    <3> QED BY <3>1, <1>3, NoneMore
  <2>3. work[s].op_offset = OpsEnd(s) /\ Len(ops[s]) = OpsEnd(s) + work[s].op_count
    BY <2>1, <1>1 DEF Tile
  <2>4. m = Live(s)
    <3> DEFINE l == Live(s)
               c == work[s].op_count
    <3>1. l \in Nat /\ c \in Nat /\ Len(ops[s]) = l + c
      BY <2>2, <2>3, <1>3
    <3> HIDE DEF l, c
    <3>2. (l + c) - c = l
      BY <3>1
    <3> QED BY <3>1, <3>2 DEF l, c
  <2>5. ~InTx(s) => Live(s) = 0
    BY <2>2, <2>3 DEF OpsEnd
  <2> HIDE DEF m
  <2>6. Len(q) = Live(s) /\ \A i \in 1 .. Live(s) : q[i] = ops[s][i]
    <3>1. m \in Nat
      BY <2>4, <1>3
    <3>2. Len(q) = m /\ \A i \in 1 .. m : q[i] = ops[s][i]
      BY <3>1
    <3> QED BY <2>4, <3>2
  <2> HIDE DEF q
  <2> QED BY <2>1, <2>5, <2>6, <1>2, EndMarks
<1> QED BY <1>4, <1>5

(* The empty store has no mark. *)
LEMMA InitMarks == Init => MarkInv
<1> SUFFICES ASSUME Init PROVE MarkInv
  OBVIOUS
<1>1. \A n \in Num : index[n] = Blank
  BY DEF Init
<1>2. /\ \A s \in Session : pc[s] = "idle" /\ Len(ops[s]) = 0 /\ levels[s] = << >>
      /\ transaction_id = 1
  BY EmptySeq DEF Init
<1>3. \A n \in Num : ~HasMark(n) /\ index[n].tran_op = 0 /\ index[n].trans = "none"
  BY <1>1 DEF HasMark, Blank
<1>4. \A s \in Session : ~Active(s) /\ Live(s) = 0
  BY <1>2 DEF Active, InTx, Live
<1>5. OneHolder
  BY <1>2 DEF OneHolder
<1>6. OwnIds
  BY <1>2, <1>4 DEF OwnIds
<1>7. Unnamed /\ MarksNamed
  BY <1>3 DEF Unnamed, MarksNamed
<1>8. OpsMarked
  BY <1>4 DEF OpsMarked
<1>9. OpsLinked
  BY <1>2 DEF OpsLinked
<1> QED BY <1>5, <1>6, <1>7, <1>8, <1>9 DEF MarkInv

(* Every step keeps the marks and the operations together. *)
LEMMA NextMarks ==
  ASSUME ~StaleIds, StoreInv, StoreInv', MarkInv, [Next]_vars
  PROVE  MarkInv'
<1> SessionInv'
  BY DEF StoreInv
<1>1. ASSUME NEW s \in Session, NEW size \in Size, NEW val \in Value,
             \/ Create(s, size, val) \/ Revive(s, size, val)
             \/ \E n \in Num : Update(s, n, size, val)
      PROVE  MarkInv'
  BY <1>1, CreateMarks, UpdateMarks
<1>2. ASSUME NEW s \in Session, NEW n \in Num, Destroy(s, n)
      PROVE  MarkInv'
  BY <1>2, DestroyMarks
<1>3. ASSUME NEW s \in Session, NEW n \in Num, StartRead(s, n)
      PROVE  MarkInv'
  BY <1>3, CallMarks
<1>4. ASSUME NEW s \in Session,
             \/ FinishStore(s) \/ FetchPage(s) \/ NextPage(s) \/ ReadPage(s) \/ FinishRead(s)
      PROVE  MarkInv'
  BY <1>4, CallMarks
<1>5. ASSUME NEW s \in Session, FinishWrite(s)
      PROVE  MarkInv'
  BY <1>5, FinishWriteMarks
<1>6. ASSUME NEW s \in Session,
             TransactionStart(s) \/ CommitInner(s) \/ CommitBegin(s) \/ RollbackBegin(s)
      PROVE  MarkInv'
  BY <1>6, StartMarks, InnerMarks, BeginMarks
<1>7. ASSUME NEW s \in Session, HolderStep(s)
      PROVE  MarkInv'
  BY <1>7, CommitOpMarks, RollbackOpMarks, EndsMarks DEF HolderStep
<1>8. CASE Quiescent \/ UNCHANGED vars
  <2>1. UNCHANGED << headerVars, index, ops, tran_id, pc, work, rp_impl_lock, levels >>
    BY <1>8 DEF Quiescent, vars, tranVars
  <2>2. \A t \in Session : Live(t)' = Live(t) /\ (Active(t)' <=> Active(t))
    BY <2>1 DEF Live, Active, InTx
  <2>3. OneHolder'
    BY <2>1 DEF OneHolder, MarkInv
  <2>4. transaction_id' \in {transaction_id, transaction_id + 1} /\ total_entries' = total_entries
    BY <2>1 DEF headerVars
  <2> QED BY <2>1, <2>2, <2>3, <2>4, MarksFrame
<1> QED BY <1>1, <1>2, <1>3, <1>4, <1>5, <1>6, <1>7, <1>8 DEF Next

(* The invariant says what the property says. *)
LEMMA MarkInvNames ==
  ASSUME MarkInv PROVE EntryNamesLastOp
<1>1. OwnIds /\ MarksNamed /\ OpsMarked
  BY DEF MarkInv
<1>2. ASSUME NEW n \in Num, HasMark(n)
      PROVE  \E s \in Session :
               /\ \A t \in Session : Active(t) /\ tran_id[t] = index[n].tran_id <=> t = s
               /\ \E i \in 1 .. Live(s) : Names(s, n, i)
  <2>1. PICK s \in Session : /\ Active(s) /\ tran_id[s] = index[n].tran_id
                             /\ \E i \in 1 .. Live(s) : Names(s, n, i)
    BY <1>1, <1>2 DEF MarksNamed
  <2>2. \A t \in Session : Active(t) /\ tran_id[t] = index[n].tran_id <=> t = s
    BY <2>1, <1>1 DEF OwnIds
  <2> QED BY <2>1, <2>2
<1>3. ASSUME NEW s \in Session, pc[s] # "committing", NEW i \in 1 .. Live(s)
      PROVE  HasMark(ops[s][i].id) /\ index[ops[s][i].id].tran_id = tran_id[s]
  BY <1>1, <1>3 DEF OpsMarked
<1> QED BY <1>2, <1>3 DEF EntryNamesLastOp, Names, HasMark

LEMMA StoreMarked == ASSUME ~StaleIds PROVE Spec => []MarkInv
<1>1. Init => MarkInv
  BY InitMarks
<1>2. StoreInv /\ StoreInv' /\ MarkInv /\ [Next]_vars => MarkInv'
  BY NextMarks
<1>3. Spec => []StoreInv
  BY Invariant
<1> QED BY <1>1, <1>2, <1>3, PTL DEF Spec

(* A changed or deleted entry belongs to exactly one open transaction and      *)
(* names the last operation that this transaction still has for it; an         *)
(* operation that is not undone yet keeps its entry marked.  So a rollback     *)
(* (transaction_rollback, 5587-5796) undoes the operations of an entry in the  *)
(* order in which they were made and a commit (5307-5583) takes the last one,  *)
(* whatever nested transactions were committed into or undone before.          *)
THEOREM LastOpNamed == ASSUME ~StaleIds PROVE Spec => []EntryNamesLastOp
<1>1. Spec => []MarkInv
  BY StoreMarked
<1>2. MarkInv => EntryNamesLastOp
  BY MarkInvNames
<1> QED BY <1>1, <1>2, PTL

-----------------------------------------------------------------------------
(* The extents of the objects in the data file.                               *)

(* An extent lies within the data, and an object without one is at its start. *)
InData(e, total) == /\ 0 <= e.pos /\ e.pos + e.size <= total
                    /\ e.size = 0 => e.pos = 0

Apart(e, f) == e.pos + e.size <= f.pos \/ f.pos + f.size <= e.pos

(* The entry "e" can take the place of the one with number n. *)
FitsFor(n, e, total) == InData(e, total) /\ \A m \in Stored \ {n} : Apart(index[m], e)

ExtentsApart ==
  /\ total_size_of_data >= 0
  /\ \A n \in Stored : FitsFor(n, index[n], total_size_of_data)

(* A free entry has no extent, and so a store that revives it gets a new one. *)
FreeEmpty == \A n \in Num : index[n].trans = "free_list" => index[n].size = 0

(* An update that is logged still fits the extent that it will be written to. *)
Fitting(op) ==
  /\ op.type # "destroy" => op.size > 0
  /\ op.type = "update" /\ HasMark(op.id) => op.size <= index[op.id].size

UpdatesFit == \A s \in Session : \A i \in 1 .. Len(ops[s]) : Fitting(ops[s][i])

(* The bytes that a commit may give back besides the extent it is at: those   *)
(* of the extents deleted just before, which no object lies in any more.      *)
Deleted(k) == k.last_delete_pos - k.prior_deleted_bytes
DeletedEnd(k) == k.last_delete_pos + k.last_delete_size
DeletedApart(k) ==
  /\ 0 <= Deleted(k) /\ DeletedEnd(k) <= total_size_of_data
  /\ k.last_delete_size = 0 => k.prior_deleted_bytes = 0
  /\ \A n \in Stored : \/ index[n].pos + index[n].size <= Deleted(k)
                       \/ DeletedEnd(k) <= index[n].pos

DeletesApart == \A s \in Session : pc[s] = "committing" => DeletedApart(work[s])

ExtentInv == ExtentsApart /\ FreeEmpty /\ UpdatesFit /\ DeletesApart

(* Where an extent that ends the data begins, nothing lies beyond. *)
LEMMA BelowTail ==
  ASSUME NEW a \in Int, NEW z \in Nat, NEW b \in Int, NEW y \in Nat, NEW t \in Int,
         0 <= a, 0 <= b, a + z <= t, b + y = t, z = 0 => a = 0,
         a + z <= b \/ b + y <= a
  PROVE  a + z <= b
OBVIOUS

LEMMA NewNumber == \A a, b \in Nat : \A m \in 0 .. b - 1 : m \in 0 .. a - 1 \/ m \in a .. b - 1
OBVIOUS

(* One entry gets another extent, or none: the extents stay apart.            *)
LEMMA ExtentMoved ==
  ASSUME HeaderOK, ExtentsApart, FreeEmpty, NEW n \in Num, NEW x \in Entry,
         index' = [index EXCEPT ![n] = x], total_size_of_data' \in Int, total_size_of_data' >= 0,
         total_entries' \in Nat, total_entries' >= total_entries,
         \A m \in total_entries .. total_entries' - 1 : m = n,
         \A m \in Stored \ {n} : index[m].pos + index[m].size <= total_size_of_data',
         IF x.trans = "free_list" THEN x.size = 0 ELSE FitsFor(n, x, total_size_of_data')
  PROVE  ExtentsApart' /\ FreeEmpty' /\ Stored' \subseteq Stored \cup {n}
         /\ (x.trans = "free_list" => n \notin Stored')
<1>1. index \in [Num -> Entry] /\ total_entries \in Nat
  BY NumFacts DEF HeaderOK
<1>2. index'[n] = x /\ \A m \in Num \ {n} : index'[m] = index[m]
  BY <1>1
<1>3. ASSUME NEW m \in Stored' PROVE m \in Num /\ (m # n => m \in Stored) /\ index'[m].trans # "free_list"
  <2>1. m \in 0 .. total_entries' - 1 /\ index'[m].trans # "free_list"
    BY DEF Stored
  <2>2. m # n => m \in 0 .. total_entries - 1
    BY <2>1, <1>1, NewNumber
  <2>3. m # n => m \in Num
    BY <2>2, NumFacts
  <2>4. m # n => m \in Stored
    BY <2>1, <2>2, <2>3, <1>2 DEF Stored
  <2> QED BY <2>1, <2>3, <2>4
<1>4. Stored' \subseteq Stored \cup {n} /\ (x.trans = "free_list" => n \notin Stored')
  BY <1>2, <1>3
<1>5. FreeEmpty'
  BY <1>2 DEF FreeEmpty
<1>6. \A m \in Stored : m \in Num /\ FitsFor(m, index[m], total_size_of_data)
  BY NumFacts DEF ExtentsApart, Stored
<1>7. ASSUME NEW m \in Stored'
      PROVE  FitsFor(m, index[m], total_size_of_data)'
  <2>1. CASE m = n
    <3>1. FitsFor(n, x, total_size_of_data') /\ index'[m] = x
      BY <2>1, <1>2, <1>3
    <3>2. InData(x, total_size_of_data')
      BY <3>1 DEF FitsFor
    <3>3. ASSUME NEW l \in Stored', l # n PROVE Apart(index'[l], x)
      <4>1. l \in Stored \ {n} /\ index'[l] = index[l]
        BY <3>3, <1>2, <1>3
      <4> QED BY <4>1, <3>1 DEF FitsFor
    <3> QED BY <2>1, <3>1, <3>2, <3>3 DEF FitsFor, InData, Apart
  <2>2. CASE m # n
    <3>1. m \in Stored \ {n} /\ index'[m] = index[m] /\ FitsFor(m, index[m], total_size_of_data)
      BY <2>2, <1>2, <1>3, <1>6
    <3>2. InData(index[m], total_size_of_data')
      BY <3>1 DEF FitsFor, InData
    <3>3. ASSUME NEW l \in Stored', l # m PROVE Apart(index'[l], index[m])
      <4>1. CASE l = n
        <5>1. FitsFor(n, x, total_size_of_data') /\ index'[l] = x
          BY <4>1, <1>2, <1>3
        <5>2. Apart(index[m], x)
          BY <3>1, <5>1 DEF FitsFor
        <5> QED BY <5>1, <5>2 DEF Apart
      <4>2. CASE l # n
        <5>1. l \in Stored \ {m} /\ index'[l] = index[l]
          BY <4>2, <3>3, <1>2, <1>3
        <5> QED BY <5>1, <3>1 DEF FitsFor
      <4> QED BY <4>1, <4>2
    <3> QED BY <3>1, <3>2, <3>3 DEF FitsFor, InData, Apart
  <2> QED BY <2>1, <2>2
<1>8. ExtentsApart'
  BY <1>7 DEF ExtentsApart
<1> QED BY <1>4, <1>5, <1>8

(* One entry that a logged operation may name changes: the operations fit,    *)
(* with the one logged.                                                       *)
LEMMA FitKept ==
  ASSUME HeaderOK, UpdatesFit, NEW n \in Num, NEW x \in Entry,
         index' = [index EXCEPT ![n] = x],
         \A t \in Session : \A i \in 1 .. Len(ops[t]) :
           /\ ops[t][i].id \in Num /\ ops[t][i].size \in Nat
           /\ ops[t][i].id = n =>
                \/ x.trans \notin {"change", "delete"}
                \/ HasMark(n) /\ index[n].size <= x.size,
         \A t \in Session : \A i \in 1 .. Len(ops'[t]) :
           \/ i \in 1 .. Len(ops[t]) /\ ops'[t][i] = ops[t][i]
           \/ /\ ops'[t][i].type # "destroy" => ops'[t][i].size > 0
              /\ ops'[t][i].type = "update" =>
                   ops'[t][i].id = n /\ ops'[t][i].size <= x.size
  PROVE  UpdatesFit'
<1>1. index'[n] = x /\ \A m \in Num \ {n} : index'[m] = index[m]
  BY DEF HeaderOK
<1>2. index[n].size \in Nat /\ x.size \in Nat
  BY DEF HeaderOK, Entry
<1> SUFFICES ASSUME NEW t \in Session, NEW i \in 1 .. Len(ops'[t])
             PROVE  /\ ops'[t][i].type # "destroy" => ops'[t][i].size > 0
                    /\ ops'[t][i].type = "update" /\ index'[ops'[t][i].id].trans \in {"change", "delete"} =>
                         ops'[t][i].size <= index'[ops'[t][i].id].size
  BY DEF UpdatesFit, Fitting, HasMark
<1>3. CASE i \in 1 .. Len(ops[t]) /\ ops'[t][i] = ops[t][i]
  <2> DEFINE o == ops[t][i]
             m == o.id
  <2>1. /\ Fitting(o) /\ m \in Num /\ o.size \in Nat
        /\ m = n => \/ x.trans \notin {"change", "delete"}
                    \/ HasMark(n) /\ index[n].size <= x.size
    BY <1>3 DEF UpdatesFit
  <2>2. ops'[t][i] = o
    BY <1>3
  <2> HIDE DEF o
  <2>3. CASE m = n
    <3>1. index'[m] = x
      BY <2>3, <1>1
    <3>2. o.type = "update" /\ x.trans \in {"change", "delete"} => o.size <= index[n].size /\ index[n].size <= x.size
      BY <2>1, <2>3 DEF Fitting
    <3>3. o.size <= index[n].size /\ index[n].size <= x.size => o.size <= x.size
      BY <1>2, <2>1
    <3> QED BY <2>1, <2>2, <3>1, <3>2, <3>3 DEF Fitting
  <2>4. CASE m # n
    <3>1. index'[m] = index[m]
      BY <2>1, <2>4, <1>1
    <3> QED BY <2>1, <2>2, <3>1 DEF Fitting, HasMark
  <2> QED BY <2>3, <2>4
<1>4. CASE ~(i \in 1 .. Len(ops[t]) /\ ops'[t][i] = ops[t][i])
  BY <1>1, <1>4
<1> QED BY <1>3, <1>4

(* The operations of the sessions, while nobody commits or rolls back: those  *)
(* of an entry without a mark do not exist.                                   *)
LEMMA OpsKnown ==
  ASSUME StoreInv, OneHolder
  PROVE  \A t \in Session : \A i \in 1 .. Len(ops[t]) :
           ops[t][i] \in Op /\ ops[t][i].id \in Num /\ ops[t][i].size \in Nat
<1> SUFFICES ASSUME NEW t \in Session, NEW i \in 1 .. Len(ops[t])
             PROVE  ops[t][i] \in Op /\ ops[t][i].id \in Num /\ ops[t][i].size \in Nat
  OBVIOUS
<1>1. ops[t][i] \in Op /\ ops[t][i].id \in Num
  BY LiveOps
<1> QED BY <1>1 DEF Op

LEMMA UnmarkedUnknown ==
  ASSUME StoreInv, MarkInv, NEW t \in Session, pc[t] \notin {"committing", "rolling back"},
         NEW n \in Num, ~HasMark(n)
  PROVE  \A i \in 1 .. Len(ops[t]) : ops[t][i].id # n
<1>1. Live(t) = Len(ops[t])
  BY LiveOps DEF MarkInv
<1>2. \A i \in 1 .. Live(t) : ops[t][i].id # n
  BY NobodysOps
<1> QED BY <1>1, <1>2

(* An entry loses its mark, if it had one, and no operation is logged. *)
LEMMA FitUnmarked ==
  ASSUME StoreInv, OneHolder, UpdatesFit, NEW n \in Num, NEW x \in Entry,
         index' = [index EXCEPT ![n] = x], x.trans \notin {"change", "delete"}, ops' = ops
  PROVE  UpdatesFit'
<1>1. HeaderOK
  BY DEF StoreInv, IndexInv
<1>2. \A t \in Session : \A i \in 1 .. Len(ops[t]) :
        /\ ops[t][i].id \in Num /\ ops[t][i].size \in Nat
        /\ ops[t][i].id = n =>
             \/ x.trans \notin {"change", "delete"}
             \/ HasMark(n) /\ index[n].size <= x.size
  BY OpsKnown
<1>3. \A t \in Session : \A i \in 1 .. Len(ops'[t]) :
        \/ i \in 1 .. Len(ops[t]) /\ ops'[t][i] = ops[t][i]
        \/ /\ ops'[t][i].type # "destroy" => ops'[t][i].size > 0
           /\ ops'[t][i].type = "update" =>
                ops'[t][i].id = n /\ ops'[t][i].size <= x.size
  OBVIOUS
<1> QED BY <1>1, <1>2, <1>3, FitKept

(* An entry keeps its extent, whatever else of it changes. *)
LEMMA ExtentKept ==
  ASSUME HeaderOK, ExtentsApart, FreeEmpty, NEW n \in Stored, NEW x \in Entry,
         index' = [index EXCEPT ![n] = x], UNCHANGED << total_entries, total_size_of_data >>,
         x.pos = index[n].pos, x.size = index[n].size, x.trans # "free_list"
  PROVE  ExtentsApart' /\ FreeEmpty' /\ Stored' \subseteq Stored \cup {n}
<1>1. /\ n \in Num /\ total_size_of_data \in Int /\ total_size_of_data >= 0
      /\ total_entries \in Nat
  BY NumFacts DEF Stored, HeaderOK, ExtentsApart
<1>2. FitsFor(n, index[n], total_size_of_data)
  BY DEF ExtentsApart
<1>3. FitsFor(n, x, total_size_of_data')
  BY <1>2 DEF FitsFor, InData, Apart
<1>4. \A m \in Stored \ {n} : index[m].pos + index[m].size <= total_size_of_data'
  BY DEF ExtentsApart, FitsFor, InData
<1>5. total_entries' \in Nat /\ total_entries' >= total_entries
      /\ \A m \in total_entries .. total_entries' - 1 : m = n
  BY <1>1
<1> QED BY <1>1, <1>3, <1>4, <1>5, ExtentMoved

(* An entry is freed: what is left of the data holds the other extents. *)
LEMMA ExtentFreed ==
  ASSUME HeaderOK, ExtentsApart, FreeEmpty, NEW n \in Stored, NEW x \in Entry,
         index' = [index EXCEPT ![n] = x], UNCHANGED total_entries,
         x.trans = "free_list", x.size = 0,
         total_size_of_data' \in Int, total_size_of_data' >= 0,
         \A m \in Stored \ {n} : index[m].pos + index[m].size <= total_size_of_data'
  PROVE  ExtentsApart' /\ FreeEmpty' /\ Stored' \subseteq Stored \ {n}
<1>1. n \in Num /\ total_entries \in Nat
  BY NumFacts DEF Stored, HeaderOK
<1>2. total_entries' \in Nat /\ total_entries' >= total_entries
      /\ \A m \in total_entries .. total_entries' - 1 : m = n
  BY <1>1
<1>3. /\ ExtentsApart' /\ FreeEmpty' /\ Stored' \subseteq Stored \cup {n} /\ n \notin Stored'
  BY <1>1, <1>2, ExtentMoved
<1> QED BY <1>3

(* The extent at the tail of the data is given back. *)
LEMMA TailGiven ==
  ASSUME HeaderOK, ExtentsApart, NEW n \in Stored, NEW total \in Int,
         \/ total = total_size_of_data
         \/ AtTail(index[n]) /\ total = total_size_of_data - index[n].size
  PROVE  /\ total >= 0
         /\ \A m \in Stored \ {n} : index[m].pos + index[m].size <= total
<1>1. \A m \in Stored : /\ FitsFor(m, index[m], total_size_of_data)
                        /\ index[m].pos \in Int /\ index[m].size \in Nat
  BY NumFacts DEF ExtentsApart, Stored, HeaderOK, Entry
<1>2. total_size_of_data \in Int /\ total_size_of_data >= 0
  BY DEF HeaderOK, ExtentsApart
<1>3. CASE total = total_size_of_data
  BY <1>1, <1>2, <1>3 DEF FitsFor, InData
<1>4. CASE AtTail(index[n]) /\ total = total_size_of_data - index[n].size
  <2> DEFINE b == index[n].pos
             y == index[n].size
  <2>1. b \in Int /\ y \in Nat /\ 0 <= b /\ b + y = total_size_of_data
    BY <1>1, <1>4 DEF FitsFor, InData, AtTail
  <2>2. total = total_size_of_data - y
    BY <1>4
  <2> HIDE DEF b, y
  <2>3. total = b
    BY <1>2, <2>1, <2>2
  <2>4. ASSUME NEW m \in Stored \ {n} PROVE index[m].pos + index[m].size <= b
    <3> DEFINE a == index[m].pos
               z == index[m].size
    <3>1. a \in Int /\ z \in Nat /\ 0 <= a /\ a + z <= total_size_of_data /\ (z = 0 => a = 0)
      BY <1>1 DEF FitsFor, InData
    <3>2. FitsFor(n, index[n], total_size_of_data)
      BY <1>1
    <3>3. Apart(index[m], index[n])
      BY <3>2 DEF FitsFor
    <3>4. a + z <= b \/ b + y <= a
      BY <3>3 DEF Apart, b, y
    <3> HIDE DEF a, z
    <3>5. a + z <= b
      BY <3>1, <3>4, <2>1, <1>2, BelowTail
    <3> QED BY <3>5 DEF a, z
  <2> QED BY <2>1, <2>3, <2>4
<1> QED BY <1>3, <1>4

(* A store in a transaction leaves the extent of its entry as it finds it, and *)
(* what it logs fits it or is to be appended.                                  *)
LEMMA StoreInTxExtents ==
  ASSUME StoreInv, MarkInv, ExtentInv, 0 \notin Size, NEW s \in Session, NEW n \in Num,
         NEW e \in Entry, NEW isNew \in BOOLEAN, NEW size \in Size, NEW val \in Value, Section(s),
         StoreInTx(s, n, e, isNew, size, val),
         total_entries' \in Nat, total_entries' >= total_entries,
         \A m \in total_entries .. total_entries' - 1 : m = n,
         FitsFor(n, e, total_size_of_data), isNew => ~HasMark(n), ~isNew => e = index[n]
  PROVE  ExtentsApart' /\ FreeEmpty' /\ UpdatesFit'
<1> DEFINE op == StoreOp(s, n, e, isNew, size)
           at == Top(s).op_offset + Top(s).op_count + 1
           id == tran_id[s]
           trans == "change"
           x == Marked(e, id, at, trans)
<1>1. /\ SessionInv /\ SessionsOK /\ HeaderOK /\ OneHolder /\ pc[s] = "idle"
      /\ rp_impl_lock = NoSession /\ ops \in [Session -> Seq(Op)]
      /\ ExtentsApart /\ FreeEmpty /\ UpdatesFit /\ total_size_of_data \in Int
      /\ total_size_of_data >= 0
  BY DEF StoreInv, SessionInv, SessionsOK, IndexInv, HeaderOK, MarkInv, Section, ExtentInv, ExtentsApart
<1>2. /\ InTx(s) /\ LogOp(s, op) /\ index' = [index EXCEPT ![n] = x]
      /\ total_size_of_data' = total_size_of_data
  BY DEF StoreInTx, Marked
<1>3. op \in Op /\ op.id = n /\ op.size = size /\ at \in Nat /\ size \in Nat
  BY <1>1, <1>2, StoreOpFits, StoreAssumption
<1>4. size > 0 /\ (op.type = "update" => ~isNew /\ size <= e.size)
  BY <1>3 DEF StoreOp
<1>5. x \in Entry /\ x.pos = e.pos /\ x.size = e.size /\ x.trans = trans
  <2>1. id \in Nat /\ trans \in {"none", "change", "delete", "free_list"}
    BY <1>1 DEF SessionsOK
  <2> HIDE DEF id, trans, at
  <2> QED BY <1>3, <2>1 DEF Marked, Entry
<1> HIDE DEF x
<1>6. ExtentsApart' /\ FreeEmpty'
  <2>1. \A m \in Stored \ {n} : index[m].pos + index[m].size <= total_size_of_data'
    BY <1>1, <1>2 DEF ExtentsApart, FitsFor, InData
  <2>2. FitsFor(n, x, total_size_of_data')
    BY <1>2, <1>5 DEF FitsFor, InData, Apart
  <2>3. x.trans # "free_list"
    BY <1>5
  <2>4. total_size_of_data' \in Int /\ total_size_of_data' >= 0
    BY <1>1, <1>2
  <2> QED BY <1>1, <1>2, <1>5, <2>1, <2>2, <2>3, <2>4, ExtentMoved
<1> HIDE DEF op
<1>7. \A t \in Session : pc[t] \notin {"committing", "rolling back"}
  BY <1>1, NoHolder
<1>8. \A t \in Session : \A i \in 1 .. Len(ops[t]) :
        /\ ops[t][i].id \in Num /\ ops[t][i].size \in Nat
        /\ ops[t][i].id = n => HasMark(n) /\ index[n].size <= x.size
  <2> SUFFICES ASSUME NEW t \in Session, NEW i \in 1 .. Len(ops[t])
               PROVE  /\ ops[t][i].id \in Num /\ ops[t][i].size \in Nat
                      /\ ops[t][i].id = n => HasMark(n) /\ index[n].size <= x.size
    OBVIOUS
  <2>1. ops[t][i].id \in Num /\ ops[t][i].size \in Nat
    BY <1>1, OpsKnown
  <2>2. ops[t][i].id = n => HasMark(n)
    BY <1>7, UnmarkedUnknown
  <2>3. HasMark(n) => x.size = index[n].size
    BY <1>5
  <2>4. index[n].size \in Nat
    BY <1>1 DEF HeaderOK, Entry
  <2> QED BY <2>1, <2>2, <2>3, <2>4
<1>9. \A t \in Session : \A i \in 1 .. Len(ops'[t]) :
        \/ i \in 1 .. Len(ops[t]) /\ ops'[t][i] = ops[t][i]
        \/ ops'[t][i] = op
  <2>1. /\ ops'[s] = Append(ops[s], op) /\ ops[s] \in Seq(Op)
        /\ \A t \in Session \ {s} : ops'[t] = ops[t]
    BY <1>1, <1>2 DEF LogOp
  <2>2. /\ Len(ops'[s]) = Len(ops[s]) + 1 /\ Len(ops[s]) \in Nat /\ ops'[s][Len(ops[s]) + 1] = op
        /\ \A i \in 1 .. Len(ops[s]) : ops'[s][i] = ops[s][i]
    BY <2>1, <1>3, AppendProperties, LenProperties
  <2>3. \A i \in 1 .. Len(ops'[s]) : i \in 1 .. Len(ops[s]) \/ i = Len(ops[s]) + 1
    BY <2>2
  <2> QED BY <2>1, <2>2, <2>3
<1>10. UpdatesFit'
  <2>1. /\ op.type # "destroy" => op.size > 0
        /\ op.type = "update" => op.id = n /\ op.size <= x.size
    BY <1>3, <1>4, <1>5
  <2>2. \A t \in Session : \A i \in 1 .. Len(ops'[t]) :
          \/ i \in 1 .. Len(ops[t]) /\ ops'[t][i] = ops[t][i]
          \/ /\ ops'[t][i].type # "destroy" => ops'[t][i].size > 0
             /\ ops'[t][i].type = "update" =>
                  ops'[t][i].id = n /\ ops'[t][i].size <= x.size
    BY <1>9, <2>1
  <2>3. \A t \in Session : \A i \in 1 .. Len(ops[t]) :
          /\ ops[t][i].id \in Num /\ ops[t][i].size \in Nat
          /\ ops[t][i].id = n =>
               \/ x.trans \notin {"change", "delete"}
               \/ HasMark(n) /\ index[n].size <= x.size
    BY <1>8
  <2>4. HeaderOK /\ UpdatesFit /\ x \in Entry
    BY <1>1, <1>5
  <2> HIDE DEF at, id, trans
  <2> QED BY <1>2, <2>2, <2>3, <2>4, FitKept
<1> QED BY <1>6, <1>10

LEMMA InFront ==
  ASSUME NEW a \in Int, NEW z \in Nat, NEW p \in Int, NEW y \in Nat, NEW w \in Nat, w <= y,
         a + z <= p \/ p + y <= a
  PROVE  a + z <= p \/ p + w <= a
OBVIOUS

(* A store outside a transaction keeps its entry's extent or the front of it, *)
(* or takes a new one at the end of the data.                                 *)
LEMMA Placing ==
  ASSUME HeaderOK, ExtentsApart, NEW n \in Num, NEW e \in Entry, NEW size \in Nat, size > 0,
         FitsFor(n, e, total_size_of_data), NEW x \in Entry, NEW inPlace \in BOOLEAN,
         x.size = size, x.pos = (IF inPlace THEN e.pos ELSE total_size_of_data),
         inPlace => size <= e.size, x.trans # "free_list",
         total_size_of_data' =
           (IF inPlace THEN total_size_of_data ELSE total_size_of_data + size)
  PROVE  /\ FitsFor(n, x, total_size_of_data')
         /\ total_size_of_data' \in Int /\ total_size_of_data' >= total_size_of_data
         /\ total_size_of_data' >= 0
         /\ \A m \in Stored \ {n} : index[m].pos + index[m].size <= total_size_of_data'
<1>1. /\ total_size_of_data \in Int /\ total_size_of_data >= 0 /\ e.pos \in Int /\ e.size \in Nat
      /\ InData(e, total_size_of_data)
  BY DEF HeaderOK, ExtentsApart, Entry, FitsFor
<1>2. ASSUME NEW m \in Stored \ {n}
      PROVE  /\ index[m].pos + index[m].size <= total_size_of_data
             /\ index[m].pos \in Int /\ index[m].size \in Nat /\ Apart(index[m], e)
  <2>1. m \in Num /\ FitsFor(m, index[m], total_size_of_data)
    BY NumFacts DEF ExtentsApart, Stored, HeaderOK
  <2>2. index[m].pos \in Int /\ index[m].size \in Nat
    BY <2>1 DEF HeaderOK, Entry
  <2> QED BY <2>1, <2>2, <1>2 DEF FitsFor, InData
<1>3. CASE inPlace
  <2>1. x.pos = e.pos /\ x.size = size /\ size <= e.size /\ total_size_of_data' = total_size_of_data
    BY <1>3
  <2>2. InData(x, total_size_of_data')
    BY <1>1, <2>1 DEF InData
  <2>3. ASSUME NEW m \in Stored \ {n} PROVE Apart(index[m], x)
    <3> DEFINE a == index[m].pos
               z == index[m].size
    <3>1. a \in Int /\ z \in Nat /\ (a + z <= e.pos \/ e.pos + e.size <= a)
      BY <2>3, <1>2 DEF Apart
    <3> HIDE DEF a, z
    <3>2. a + z <= e.pos \/ e.pos + size <= a
      BY <3>1, <2>1, <1>1, InFront
    <3>3. a + z <= x.pos \/ x.pos + x.size <= a
      BY <3>2, <2>1
    <3> QED BY <3>3 DEF Apart, a, z
  <2> QED BY <1>1, <1>2, <2>1, <2>2, <2>3 DEF FitsFor
<1>4. CASE ~inPlace
  <2>1. /\ x.pos = total_size_of_data /\ x.size = size
        /\ total_size_of_data' = total_size_of_data + size
    BY <1>4
  <2>2. /\ InData(x, total_size_of_data') /\ total_size_of_data' \in Int
        /\ total_size_of_data' >= total_size_of_data /\ total_size_of_data' >= 0
    BY <1>1, <2>1 DEF InData
  <2>3. ASSUME NEW m \in Stored \ {n}
        PROVE Apart(index[m], x) /\ index[m].pos + index[m].size <= total_size_of_data'
    <3> DEFINE a == index[m].pos
               z == index[m].size
    <3>1. a \in Int /\ z \in Nat /\ a + z <= total_size_of_data
      BY <2>3, <1>2
    <3> HIDE DEF a, z
    <3>2. a + z <= x.pos /\ a + z <= total_size_of_data'
      BY <3>1, <2>1, <2>2, <1>1
    <3> QED BY <3>2 DEF Apart, a, z
  <2> QED BY <2>2, <2>3 DEF FitsFor
<1> QED BY <1>3, <1>4

LEMMA StorePlainExtents ==
  ASSUME StoreInv, MarkInv, ExtentInv, 0 \notin Size, NEW s \in Session, NEW n \in Num,
         NEW e \in Entry, NEW isNew \in BOOLEAN, NEW size \in Size, NEW val \in Value, Section(s),
         StorePlain(s, n, e, isNew, size, val), e.trans = "none",
         total_entries' \in Nat, total_entries' >= total_entries,
         \A m \in total_entries .. total_entries' - 1 : m = n,
         FitsFor(n, e, total_size_of_data)
  PROVE  ExtentsApart' /\ FreeEmpty' /\ UpdatesFit'
<1> DEFINE inPlace == ~isNew /\ size <= e.size
           pos == IF inPlace THEN e.pos ELSE total_size_of_data
           lock == "entry"
           x == Placed(e, pos, size, transaction_id, lock)
<1>1. /\ HeaderOK /\ OneHolder /\ ExtentsApart /\ FreeEmpty /\ UpdatesFit
      /\ total_size_of_data \in Int /\ transaction_id \in Nat
  BY DEF StoreInv, IndexInv, HeaderOK, MarkInv, ExtentInv
<1>2. /\ index' = [index EXCEPT ![n] = x] /\ UNCHANGED ops
      /\ total_size_of_data' = IF inPlace THEN total_size_of_data ELSE total_size_of_data + size
  BY DEF StorePlain, Placed, tranVars
<1>3. size \in Nat /\ size > 0
  BY StoreAssumption
<1>4. x \in Entry /\ x.pos = pos /\ x.size = size /\ x.trans = "none"
  <2>1. lock \in {"none", "entry"} /\ pos \in Int
    BY <1>1 DEF Entry
  <2> HIDE DEF lock, pos
  <2> QED BY <1>1, <1>3, <2>1 DEF Placed, Entry
<1> HIDE DEF x
<1>5. inPlace \in BOOLEAN /\ (inPlace => size <= e.size) /\ x.trans # "free_list"
      /\ x.pos = IF inPlace THEN e.pos ELSE total_size_of_data
  BY <1>4
<1> HIDE DEF inPlace
<1>6. /\ FitsFor(n, x, total_size_of_data')
      /\ total_size_of_data' \in Int /\ total_size_of_data' >= 0
      /\ \A m \in Stored \ {n} : index[m].pos + index[m].size <= total_size_of_data'
  BY <1>1, <1>2, <1>3, <1>4, <1>5, Placing
<1>7. ExtentsApart' /\ FreeEmpty'
  BY <1>1, <1>2, <1>4, <1>5, <1>6, ExtentMoved
<1>8. UpdatesFit'
  BY <1>1, <1>2, <1>4, FitUnmarked
<1> QED BY <1>7, <1>8

(* While nobody holds the mutex, no commit has bytes to give back. *)
LEMMA NobodyDeletes ==
  ASSUME OneHolder, SessionsOK, rp_impl_lock = NoSession, NEW s \in Session, pc'[s] # "committing",
         \A t \in Session \ {s} : pc'[t] = pc[t]
  PROVE  DeletesApart'
<1>1. \A t \in Session : pc[t] \notin {"committing", "rolling back"}
  BY NoHolder
<1> QED BY <1>1 DEF DeletesApart

LEMMA StoreExtents ==
  ASSUME StoreInv, MarkInv, ExtentInv, 0 \notin Size, NEW s \in Session, NEW n \in Num,
         NEW e \in Entry, NEW isNew \in BOOLEAN, NEW size \in Size, NEW val \in Value, Section(s),
         Store(s, n, e, isNew, size, val),
         total_entries' \in Nat, total_entries' >= total_entries,
         \A m \in total_entries .. total_entries' - 1 : m = n,
         FitsFor(n, e, total_size_of_data),
         \/ isNew /\ ~HasMark(n) /\ e.trans = "none"
         \/ ~isNew /\ e = index[n] /\ Writable(s, e)
  PROVE  ExtentInv'
<1>1. OneHolder /\ SessionsOK /\ rp_impl_lock = NoSession /\ pc \in [Session -> PC]
  BY DEF StoreInv, SessionInv, SessionsOK, MarkInv, Section
<1>2. (isNew => ~HasMark(n)) /\ (~isNew => e = index[n])
  OBVIOUS
<1>3. CASE StoreInTx(s, n, e, isNew, size, val)
  <2>1. ExtentsApart' /\ FreeEmpty' /\ UpdatesFit'
    BY <1>2, <1>3, StoreInTxExtents
  <2>2. pc' = [pc EXCEPT ![s] = "storing"]
    BY <1>3 DEF StoreInTx
  <2>3. DeletesApart'
    BY <1>1, <2>2, NobodyDeletes
  <2> QED BY <2>1, <2>3 DEF ExtentInv
<1>4. CASE StorePlain(s, n, e, isNew, size, val)
  <2>1. ~InTx(s) /\ pc' = [pc EXCEPT ![s] = "writing"]
    BY <1>4 DEF StorePlain
  <2>2. e.trans = "none"
    BY <2>1 DEF Writable
  <2>3. ExtentsApart' /\ FreeEmpty' /\ UpdatesFit'
    BY <1>4, <2>2, StorePlainExtents
  <2>4. DeletesApart'
    BY <1>1, <2>1, NobodyDeletes
  <2> QED BY <2>3, <2>4 DEF ExtentInv
<1> QED BY <1>3, <1>4 DEF Store

(* An entry without an extent fits anywhere. *)
LEMMA EmptyFits ==
  ASSUME HeaderOK, ExtentsApart, NEW n \in Num, NEW e, e.pos = 0, e.size = 0
  PROVE  FitsFor(n, e, total_size_of_data)
<1>1. total_size_of_data \in Int /\ total_size_of_data >= 0
  BY DEF HeaderOK, ExtentsApart
<1>2. InData(e, total_size_of_data)
  BY <1>1 DEF InData
<1>3. ASSUME NEW m \in Stored \ {n} PROVE Apart(index[m], e)
  <2>1. InData(index[m], total_size_of_data)
    BY DEF ExtentsApart, FitsFor
  <2> QED BY <2>1 DEF InData, Apart
<1> QED BY <1>2, <1>3 DEF FitsFor

(* A store of an object that has no id yet. *)
LEMMA CreateExtents ==
  ASSUME StoreInv, MarkInv, ExtentInv, 0 \notin Size, NEW s \in Session, NEW size \in Size,
         NEW val \in Value, Create(s, size, val) \/ Revive(s, size, val)
  PROVE  ExtentInv'
<1>1. HeaderOK /\ ListOK /\ Unnamed /\ ExtentsApart /\ FreeEmpty
  BY DEF StoreInv, IndexInv, MarkInv, ExtentInv
<1>2. total_entries \in Nat /\ MaxEntries \in Nat /\ total_entries <= MaxEntries
  BY <1>1, NumFacts
<1>3. CASE Create(s, size, val)
  <2> DEFINE n == total_entries
  <2>1. /\ Section(s) /\ n < MaxEntries /\ total_entries' = n + 1
        /\ Store(s, n, Blank, TRUE, size, val)
    BY <1>3 DEF Create
  <2>2. n \in Num /\ total_entries' \in Nat /\ total_entries' >= total_entries
        /\ \A m \in total_entries .. total_entries' - 1 : m = n
    BY <1>2, <2>1 DEF Num
  <2> HIDE DEF n
  <2>3. index[n].trans = "none"
    BY <1>1, <1>2, <2>2 DEF Unnamed, n
  <2>4. ~HasMark(n) /\ Blank \in Entry /\ Blank.trans = "none"
    BY <2>3, NoWriteOK DEF HasMark, Blank
  <2>5. FitsFor(n, Blank, total_size_of_data)
    <3>1. Blank.pos = 0 /\ Blank.size = 0
      BY DEF Blank
    <3> QED BY <3>1, <1>1, <2>2, EmptyFits
  <2>6. TRUE \in BOOLEAN
    OBVIOUS
  <2> QED BY <2>1, <2>2, <2>4, <2>5, <2>6, StoreExtents
<1>4. CASE Revive(s, size, val)
  <2> DEFINE n == index_free_list - 1
             was == index[n]
             trans == "none"
             pos == 0
             e == [was EXCEPT !.trans = trans, !.pos = pos]
  <2>1. /\ Section(s) /\ index_free_list # 0 /\ Store(s, n, e, TRUE, size, val)
        /\ UNCHANGED total_entries
    BY <1>4 DEF Revive
  <2>2. n \in Free
    BY <1>1, <2>1 DEF ListOK, FreeListLinks
  <2>3. n \in Num
    BY <1>1, <2>2, NumFacts
  <2>4. was \in Entry /\ was.trans = "free_list" /\ was.size = 0
    BY <1>1, <2>2, <2>3 DEF HeaderOK, Free, FreeEmpty
  <2>5. ~HasMark(n)
    BY <2>4 DEF HasMark
  <2>6. e \in Entry /\ e.trans = "none" /\ e.pos = 0 /\ e.size = 0
    <3>1. trans \in {"none", "change", "delete", "free_list"} /\ pos \in Int /\ pos = 0
      OBVIOUS
    <3> HIDE DEF was, trans, pos
    <3>2. e \in Entry /\ e.trans = trans /\ e.pos = pos /\ e.size = was.size
      BY <2>4, <3>1 DEF Entry
    <3> QED BY <2>4, <3>1, <3>2 DEF trans
  <2>7. total_entries' \in Nat /\ total_entries' >= total_entries
        /\ \A m \in total_entries .. total_entries' - 1 : m = n
    BY <1>2, <2>1
  <2>8. TRUE \in BOOLEAN
    OBVIOUS
  <2> HIDE DEF e, n
  <2>9. FitsFor(n, e, total_size_of_data)
    BY <1>1, <2>3, <2>6, EmptyFits
  <2> QED BY <2>1, <2>3, <2>5, <2>6, <2>7, <2>8, <2>9, StoreExtents
<1> QED BY <1>3, <1>4

(* A store of an object that exists. *)
LEMMA UpdateExtents ==
  ASSUME ~StaleIds, StoreInv, MarkInv, ExtentInv, 0 \notin Size, NEW s \in Session,
         NEW n \in Num, NEW size \in Size, NEW val \in Value, Update(s, n, size, val)
  PROVE  ExtentInv'
<1>1. /\ Section(s) /\ Known(n) /\ Writable(s, index[n])
      /\ Store(s, n, index[n], FALSE, size, val) /\ UNCHANGED total_entries
  BY DEF Update
<1>2. HeaderOK /\ ExtentsApart
  BY DEF StoreInv, IndexInv, ExtentInv
<1>3. index[n] \in Entry /\ n \in Stored
  BY <1>1, <1>2, KnownIsStored DEF Stored
<1>4. total_entries' \in Nat /\ total_entries' >= total_entries
      /\ \A m \in total_entries .. total_entries' - 1 : m = n
  BY <1>1, <1>2, NumFacts
<1>5. FALSE \in BOOLEAN
  OBVIOUS
<1>6. FitsFor(n, index[n], total_size_of_data)
  BY <1>2, <1>3 DEF ExtentsApart
<1> QED BY <1>1, <1>3, <1>4, <1>5, <1>6, StoreExtents

(* The last section of a write outside a transaction keeps the extent. *)
LEMMA FinishWriteExtents ==
  ASSUME StoreInv, MarkInv, ExtentInv, NEW s \in Session, FinishWrite(s)
  PROVE  ExtentInv'
<1> DEFINE n == write[s].num
           entry == write[s].entry
           x == [entry EXCEPT !.lock = "none"]
<1>1. /\ HeaderOK /\ LockInv /\ OneHolder /\ SessionsOK /\ pc \in [Session -> PC]
      /\ ExtentsApart /\ FreeEmpty /\ UpdatesFit /\ total_size_of_data \in Int
      /\ total_size_of_data >= 0
  BY DEF StoreInv, IndexInv, HeaderOK, MarkInv, SessionInv, SessionsOK, ExtentInv, ExtentsApart
<1>2. /\ pc[s] = "writing" /\ pc' = [pc EXCEPT ![s] = "idle"] /\ index' = [index EXCEPT ![n] = x]
      /\ UNCHANGED << total_entries, total_size_of_data, ops >> /\ rp_impl_lock = NoSession
  BY DEF FinishWrite, headerVars, tranVars
<1>3. n \in 0 .. total_entries - 1 /\ entry = index[n] /\ entry.lock = "entry" /\ n \in Num
  BY <1>1, <1>2, NumFacts DEF LockInv
<1>4. entry \in Entry /\ index[n].trans = "none" /\ n \in Stored
  BY <1>1, <1>3 DEF HeaderOK, LockInv, Stored
<1> HIDE DEF n, entry
<1>5. x \in Entry /\ x.trans = entry.trans /\ x.pos = entry.pos /\ x.size = entry.size
  BY <1>4 DEF Entry
<1>6. x.trans = "none"
  BY <1>3, <1>4, <1>5
<1> HIDE DEF x
<1>7. ExtentsApart' /\ FreeEmpty'
  <2>1. x.trans # "free_list" /\ x.pos = index[n].pos /\ x.size = index[n].size
    BY <1>3, <1>5, <1>6
  <2> QED BY <1>1, <1>2, <1>4, <1>5, <2>1, ExtentKept
<1>8. UpdatesFit'
  BY <1>1, <1>2, <1>3, <1>5, <1>6, FitUnmarked
<1>9. DeletesApart'
  <2>1. pc'[s] # "committing" /\ \A t \in Session \ {s} : pc'[t] = pc[t]
    BY <1>1, <1>2
  <2> QED BY <1>1, <1>2, <2>1, NobodyDeletes
<1> QED BY <1>7, <1>8, <1>9 DEF ExtentInv

(* A destroy marks its entry, or frees it outside a transaction. *)
LEMMA DestroyExtents ==
  ASSUME ~StaleIds, StoreInv, MarkInv, ExtentInv, NEW s \in Session, NEW n \in Num, Destroy(s, n)
  PROVE  ExtentInv'
<1> DEFINE e == index[n]
<1>1. /\ Section(s) /\ Known(n) /\ Writable(s, e) /\ rp_impl_lock = NoSession
      /\ UNCHANGED << rp_impl_lock, pc, work >> /\ pc[s] = "idle"
  BY DEF Destroy, Section
<1>2. /\ HeaderOK /\ SessionsOK /\ OneHolder /\ ExtentsApart /\ FreeEmpty /\ UpdatesFit
      /\ total_size_of_data \in Int /\ transaction_id \in Nat /\ index_free_list \in Int
      /\ tran_id \in [Session -> Nat] /\ ops \in [Session -> Seq(Op)]
  BY DEF StoreInv, SessionInv, SessionsOK, IndexInv, HeaderOK, MarkInv, ExtentInv
<1>3. e \in Entry /\ n \in Stored
  BY <1>1, <1>2, KnownIsStored DEF Stored
<1>4. e.size \in Nat /\ e.tran_op \in Nat
  BY <1>3 DEF Entry
<1>5. DeletesApart'
  BY <1>1, <1>2, NobodyDeletes
<1>6. CASE DestroyInTx(s, n)
  <2> DEFINE op == [id |-> n, type |-> "destroy", pos |-> 0, size |-> 0,
                    old_tran_id |-> 0, old_tran_op |-> e.tran_op]
             id == tran_id[s]
             zero == 0
             trans == "delete"
             x == Marked(e, id, zero, trans)
  <2>1. /\ LogOp(s, op) /\ index' = [index EXCEPT ![n] = x]
        /\ UNCHANGED << total_entries, total_size_of_data >>
    BY <1>6 DEF DestroyInTx, Marked, headerVars
  <2>2. op \in Op /\ op.type = "destroy"
    <3>1. 0 \in Nat /\ 0 \in Nat \cup {-1} /\ "destroy" \in {"update", "append", "destroy"}
      OBVIOUS
    <3> HIDE DEF e
    <3> QED BY <3>1, <1>4 DEF Op
  <2>3. x \in Entry /\ x.pos = e.pos /\ x.size = e.size /\ x.trans = trans
    <3>1. id \in Nat /\ trans \in {"none", "change", "delete", "free_list"} /\ zero \in Nat
      BY <1>2
    <3> HIDE DEF id, trans, zero, e
    <3> QED BY <1>3, <3>1 DEF Marked, Entry
  <2> HIDE DEF x, op
  <2>4. ExtentsApart' /\ FreeEmpty'
    <3>1. x.trans # "free_list"
      BY <2>3
    <3> QED BY <1>2, <1>3, <2>1, <2>3, <3>1, ExtentKept
  <2>5. \A t \in Session : \A i \in 1 .. Len(ops[t]) :
          /\ ops[t][i].id \in Num /\ ops[t][i].size \in Nat
          /\ ops[t][i].id = n =>
               \/ x.trans \notin {"change", "delete"}
               \/ HasMark(n) /\ index[n].size <= x.size
    <3> SUFFICES ASSUME NEW t \in Session, NEW i \in 1 .. Len(ops[t])
                 PROVE  /\ ops[t][i].id \in Num /\ ops[t][i].size \in Nat
                        /\ ops[t][i].id = n => HasMark(n) /\ index[n].size <= x.size
      OBVIOUS
    <3>1. pc[t] \notin {"committing", "rolling back"}
      BY <1>1, <1>2, NoHolder
    <3>2. ops[t][i].id \in Num /\ ops[t][i].size \in Nat
      BY <1>2, OpsKnown
    <3>3. ops[t][i].id = n => HasMark(n)
      BY <3>1, UnmarkedUnknown
    <3>4. index[n].size <= x.size
      BY <1>4, <2>3
    <3> QED BY <3>2, <3>3, <3>4
  <2>6. \A t \in Session : \A i \in 1 .. Len(ops'[t]) :
          \/ i \in 1 .. Len(ops[t]) /\ ops'[t][i] = ops[t][i]
          \/ ops'[t][i] = op
    <3>1. /\ ops'[s] = Append(ops[s], op) /\ ops[s] \in Seq(Op)
          /\ \A t \in Session \ {s} : ops'[t] = ops[t]
      BY <1>2, <2>1 DEF LogOp
    <3>2. /\ Len(ops'[s]) = Len(ops[s]) + 1 /\ Len(ops[s]) \in Nat /\ ops'[s][Len(ops[s]) + 1] = op
          /\ \A i \in 1 .. Len(ops[s]) : ops'[s][i] = ops[s][i]
      BY <3>1, <2>2, AppendProperties, LenProperties
    <3>3. \A i \in 1 .. Len(ops'[s]) : i \in 1 .. Len(ops[s]) \/ i = Len(ops[s]) + 1
      BY <3>2
    <3> QED BY <3>1, <3>2, <3>3
  <2>7. \A t \in Session : \A i \in 1 .. Len(ops'[t]) :
          \/ i \in 1 .. Len(ops[t]) /\ ops'[t][i] = ops[t][i]
          \/ /\ ops'[t][i].type # "destroy" => ops'[t][i].size > 0
             /\ ops'[t][i].type = "update" =>
                  ops'[t][i].id = n /\ ops'[t][i].size <= x.size
    BY <2>2, <2>6
  <2>8. UpdatesFit'
    <3> HIDE DEF id, zero, trans
    <3> QED BY <1>2, <2>1, <2>3, <2>5, <2>7, FitKept
  <2> QED BY <1>5, <2>4, <2>8 DEF ExtentInv
<1>7. CASE DestroyPlain(s, n)
  <2> DEFINE zero == 0
             was == [e EXCEPT !.tran_id = transaction_id, !.tran_op = zero]
             free == "free_list"
             x == [was EXCEPT !.pos = index_free_list, !.size = zero, !.trans = free]
  <2>1. /\ index' = [index EXCEPT ![n] = x] /\ ops' = ops /\ UNCHANGED total_entries
        /\ \/ total_size_of_data' = total_size_of_data
           \/ AtTail(e) /\ total_size_of_data' = total_size_of_data - e.size
    BY <1>7 DEF DestroyPlain, Freed, tranVars
  <2>2. x \in Entry /\ x.trans = "free_list" /\ x.size = 0
    <3>1. zero \in Nat /\ free \in {"none", "change", "delete", "free_list"} /\ zero = 0
      OBVIOUS
    <3>2. free = "free_list"
      OBVIOUS
    <3> HIDE DEF zero, free, e
    <3>3. was \in Entry
      BY <1>2, <1>3, <3>1 DEF Entry
    <3> HIDE DEF was
    <3> QED BY <1>2, <3>1, <3>2, <3>3 DEF Entry
  <2> HIDE DEF x
  <2>3. total_size_of_data' \in Int
    BY <1>2, <1>4, <2>1
  <2>4. ExtentsApart' /\ FreeEmpty'
    <3>1. /\ total_size_of_data' >= 0
          /\ \A m \in Stored \ {n} : index[m].pos + index[m].size <= total_size_of_data'
      BY <1>2, <1>3, <2>1, <2>3, TailGiven
    <3> QED BY <1>2, <1>3, <2>1, <2>2, <2>3, <3>1, ExtentFreed
  <2>5. UpdatesFit'
    <3>1. x.trans \notin {"change", "delete"}
      BY <2>2
    <3> QED BY <1>2, <2>1, <2>2, <3>1, FitUnmarked
  <2> QED BY <1>5, <2>4, <2>5 DEF ExtentInv
<1> QED BY <1>6, <1>7 DEF Destroy

(* The fields of what giving back an extent leaves of the locals of a commit. *)
LEMMA TailFields ==
  ASSUME NEW k \in Work, NEW e \in Entry,
         NEW prior \in Nat,
         prior = (IF k.last_delete_size = 0 THEN k.prior_deleted_bytes
                  ELSE IF k.last_delete_pos + k.last_delete_size = e.pos
                       THEN k.prior_deleted_bytes + k.last_delete_size ELSE 0)
  PROVE  LET w == TailDeleted(k, e).work
         IN /\ TailDeleted(k, e).given_back = (IF AtTail(e) THEN e.size + prior ELSE 0)
            /\ \/ w.last_delete_pos = 0 /\ w.last_delete_size = 0 /\ w.prior_deleted_bytes = 0
               \/ /\ ~AtTail(e) /\ w.last_delete_pos = e.pos /\ w.last_delete_size = e.size
                  /\ w.prior_deleted_bytes = prior
                  /\ k.last_delete_size = 0 \/ k.last_delete_pos + k.last_delete_size = e.pos
<1> DEFINE touching == k.last_delete_pos + k.last_delete_size = e.pos
           was == IF k.last_delete_size = 0 THEN k.prior_deleted_bytes
                  ELSE IF touching THEN k.prior_deleted_bytes + k.last_delete_size ELSE 0
           clear == (k.last_delete_size # 0 /\ ~touching) \/ AtTail(e)
           pos == e.pos
           size == e.size
           zero == 0
           cleared == [k EXCEPT !.last_delete_pos = zero, !.last_delete_size = zero,
                                !.prior_deleted_bytes = zero]
           kept == [k EXCEPT !.last_delete_pos = pos, !.last_delete_size = size,
                             !.prior_deleted_bytes = prior]
<1>1. was = prior
  OBVIOUS
<1>2. /\ TailDeleted(k, e).work = (IF clear THEN cleared ELSE kept)
      /\ TailDeleted(k, e).given_back = IF AtTail(e) THEN e.size + prior ELSE 0
  BY <1>1 DEF TailDeleted
<1>3. ~clear => ~AtTail(e) /\ (k.last_delete_size = 0 \/ touching)
  OBVIOUS
<1>4. zero = 0 /\ pos = e.pos /\ size = e.size
  OBVIOUS
<1> HIDE DEF zero, pos, size, clear, was
<1>5. cleared.last_delete_pos = zero /\ cleared.last_delete_size = zero /\ cleared.prior_deleted_bytes = zero
  BY DEF Work
<1>6. kept.last_delete_pos = pos /\ kept.last_delete_size = size /\ kept.prior_deleted_bytes = prior
  BY DEF Work
<1> HIDE DEF cleared, kept
<1>7. CASE clear
  BY <1>2, <1>4, <1>5, <1>7
<1>8. CASE ~clear
  BY <1>2, <1>3, <1>4, <1>6, <1>8
<1> QED BY <1>7, <1>8

(* One other extent, when the one at [b, b + y) is deleted next to the bytes   *)
(* from lo to hi that were deleted just before.                                *)
LEMMA BesideDeleted ==
  ASSUME NEW a \in Int, NEW z \in Nat, NEW b \in Int, NEW y \in Nat, NEW lo \in Int,
         0 <= a, 0 <= b, z = 0 => a = 0, 0 <= lo, lo <= b,
         a + z <= b \/ b + y <= a, a + z <= lo \/ b <= a
  PROVE  a + z <= lo \/ b + y <= a
OBVIOUS

(* A commit deletes: it gives back bytes that no other object lies in, and    *)
(* keeps bytes of the kind to give back later.                                *)
LEMMA DeleteGives ==
  ASSUME HeaderOK, ExtentsApart, NEW k \in Work, DeletedApart(k), NEW n \in Stored,
         NEW tail, tail = TailDeleted(k, index[n]),
         NEW total, total = total_size_of_data - tail.given_back
  PROVE  /\ total \in Int /\ total >= 0
         /\ \A m \in Stored \ {n} : index[m].pos + index[m].size <= total
         /\ LET w == tail.work
            IN /\ 0 <= Deleted(w) /\ DeletedEnd(w) <= total
               /\ w.last_delete_size = 0 => w.prior_deleted_bytes = 0
               /\ \A m \in Stored \ {n} : \/ index[m].pos + index[m].size <= Deleted(w)
                                          \/ DeletedEnd(w) <= index[m].pos
<1> DEFINE e == index[n]
           b == e.pos
           y == e.size
           T == total_size_of_data
           p == k.last_delete_pos
           l == k.last_delete_size
           r == k.prior_deleted_bytes
           prior == IF l = 0 THEN r ELSE IF p + l = b THEN r + l ELSE 0
           w == tail.work
<1>1. ASSUME NEW m \in Stored
      PROVE  /\ index[m] \in Entry /\ index[m].pos \in Int /\ index[m].size \in Nat
             /\ 0 <= index[m].pos /\ index[m].pos + index[m].size <= T
             /\ index[m].size = 0 => index[m].pos = 0
             /\ \A o \in Stored \ {m} : Apart(index[o], index[m])
  <2>1. m \in Num /\ FitsFor(m, index[m], T)
    BY NumFacts DEF ExtentsApart, Stored, HeaderOK
  <2>2. index[m] \in Entry
    BY <2>1 DEF HeaderOK
  <2> QED BY <2>1, <2>2 DEF FitsFor, InData, Entry
<1>2. /\ e \in Entry /\ b \in Int /\ y \in Nat /\ 0 <= b /\ b + y <= T /\ (y = 0 => b = 0)
      /\ T \in Int /\ T >= 0
  BY <1>1 DEF HeaderOK, ExtentsApart
<1>3. p \in Int /\ l \in Nat /\ r \in Nat
  BY DEF Work
<1>4. /\ 0 <= p - r /\ p + l <= T /\ (l = 0 => r = 0)
      /\ \A m \in Stored : index[m].pos + index[m].size <= p - r \/ p + l <= index[m].pos
  BY DEF DeletedApart, Deleted, DeletedEnd
<1>5. prior \in Nat
  BY <1>3
<1>6. /\ tail.given_back = (IF AtTail(e) THEN y + prior ELSE 0)
      /\ \/ w.last_delete_pos = 0 /\ w.last_delete_size = 0 /\ w.prior_deleted_bytes = 0
         \/ /\ ~AtTail(e) /\ w.last_delete_pos = b /\ w.last_delete_size = y
            /\ w.prior_deleted_bytes = prior /\ (l = 0 \/ p + l = b)
  <2>1. prior = (IF k.last_delete_size = 0 THEN k.prior_deleted_bytes
                 ELSE IF k.last_delete_pos + k.last_delete_size = e.pos
                      THEN k.prior_deleted_bytes + k.last_delete_size ELSE 0)
    OBVIOUS
  <2> HIDE DEF prior, e
  <2>2. LET v == TailDeleted(k, e).work
        IN /\ TailDeleted(k, e).given_back = (IF AtTail(e) THEN e.size + prior ELSE 0)
           /\ \/ v.last_delete_pos = 0 /\ v.last_delete_size = 0 /\ v.prior_deleted_bytes = 0
              \/ /\ ~AtTail(e) /\ v.last_delete_pos = e.pos /\ v.last_delete_size = e.size
                 /\ v.prior_deleted_bytes = prior
                 /\ k.last_delete_size = 0 \/ k.last_delete_pos + k.last_delete_size = e.pos
    BY <1>2, <1>5, <2>1, TailFields
  <2>3. tail = TailDeleted(k, e)
    BY DEF e
  <2> QED BY <2>2, <2>3
<1>7. AtTail(e) <=> b + y = T
  BY DEF AtTail
<1>8. /\ (l = 0 \/ p + l # b) => prior = 0
      /\ l # 0 /\ p + l = b => b - prior = p - r /\ b - prior <= b
      /\ 0 <= b - prior
  BY <1>2, <1>3, <1>4
<1>9. ASSUME NEW m \in Stored \ {n}
      PROVE  index[m].pos + index[m].size <= b - prior \/ b + y <= index[m].pos
  <2> DEFINE a == index[m].pos
             z == index[m].size
             lo == b - prior
  <2>1. /\ a \in Int /\ z \in Nat /\ 0 <= a /\ (z = 0 => a = 0) /\ (a + z <= b \/ b + y <= a)
        /\ a + z <= p - r \/ p + l <= a
    <3>1. Apart(index[m], e)
      BY <1>1
    <3>2. a + z <= b \/ b + y <= a
      BY <3>1 DEF Apart
    <3> QED BY <3>2, <1>1, <1>4
  <2>2. CASE l = 0 \/ p + l # b
    <3>1. b - prior = b
      BY <2>2, <1>2, <1>8
    <3> QED BY <3>1, <2>1
  <2>3. CASE l # 0 /\ p + l = b
    <3>1. lo = p - r /\ lo \in Int /\ 0 <= lo /\ lo <= b
      BY <2>3, <1>2, <1>3, <1>5, <1>8
    <3>2. a + z <= lo \/ b <= a
      BY <2>1, <2>3, <3>1
    <3> HIDE DEF a, z, lo, b, y
    <3>3. a + z <= lo \/ b + y <= a
      BY <2>1, <3>1, <3>2, <1>2, BesideDeleted
    <3> QED BY <3>3 DEF a, z, lo
  <2> QED BY <2>2, <2>3
<1> HIDE DEF prior, b, y, T, p, l, r, e, w
<1>10. CASE AtTail(e)
  <2>1. total = b - prior
    <3>1. total = T - (y + prior) /\ b + y = T
      BY <1>6, <1>7, <1>10 DEF T
    <3> QED BY <3>1, <1>2, <1>5
  <2>2. total \in Int /\ total >= 0
    BY <2>1, <1>2, <1>5, <1>8
  <2>3. ASSUME NEW m \in Stored \ {n} PROVE index[m].pos + index[m].size <= total
    <3> DEFINE a == index[m].pos
               z == index[m].size
    <3>1. /\ a \in Int /\ z \in Nat /\ 0 <= a /\ a + z <= T /\ (z = 0 => a = 0)
          /\ a + z <= total \/ b + y <= a
      BY <1>1, <1>9, <2>1
    <3>2. b + y = T
      BY <1>7, <1>10
    <3> HIDE DEF a, z
    <3>3. a + z <= total
      BY <3>1, <3>2, <2>2, <1>2
    <3> QED BY <3>3 DEF a, z
  <2>4. w.last_delete_pos = 0 /\ w.last_delete_size = 0 /\ w.prior_deleted_bytes = 0
    BY <1>6, <1>10
  <2>5. Deleted(w) = 0 /\ DeletedEnd(w) = 0
    BY <2>4 DEF Deleted, DeletedEnd
  <2>6. \A m \in Stored \ {n} : DeletedEnd(w) <= index[m].pos
    BY <2>5, <1>1
  <2> QED BY <2>2, <2>3, <2>4, <2>5, <2>6 DEF w
<1>11. CASE ~AtTail(e)
  <2>1. total = T /\ total \in Int /\ total >= 0
    BY <1>2, <1>6, <1>11 DEF T
  <2>2. \A m \in Stored \ {n} : index[m].pos + index[m].size <= total
    BY <1>1, <2>1
  <2>3. CASE w.last_delete_pos = 0 /\ w.last_delete_size = 0 /\ w.prior_deleted_bytes = 0
    <3>1. Deleted(w) = 0 /\ DeletedEnd(w) = 0
      BY <2>3 DEF Deleted, DeletedEnd
    <3>2. \A m \in Stored \ {n} : DeletedEnd(w) <= index[m].pos
      BY <3>1, <1>1
    <3> QED BY <2>1, <2>2, <2>3, <3>1, <3>2 DEF w
  <2>4. CASE /\ w.last_delete_pos = b /\ w.last_delete_size = y /\ w.prior_deleted_bytes = prior
             /\ l = 0 \/ p + l = b
    <3>1. Deleted(w) = b - prior /\ DeletedEnd(w) = b + y
      BY <2>4 DEF Deleted, DeletedEnd
    <3>2. DeletedEnd(w) <= total /\ 0 <= Deleted(w)
      BY <3>1, <2>1, <1>2, <1>8
    <3>3. y = 0 => prior = 0
      BY <2>4, <1>2, <1>3, <1>4, <1>8
    <3>4. \A m \in Stored \ {n} : \/ index[m].pos + index[m].size <= Deleted(w)
                                  \/ DeletedEnd(w) <= index[m].pos
      BY <1>9, <3>1
    <3> QED BY <2>1, <2>2, <2>4, <3>2, <3>3, <3>4 DEF w
  <2> QED BY <2>3, <2>4, <1>6
<1> QED BY <1>10, <1>11

(* The session in a commit is the only one with bytes to give back. *)
LEMMA DeletesMoved ==
  ASSUME OneHolder, NEW s \in Session, pc[s] = "committing", pc' = pc, DeletedApart(work[s])'
  PROVE  DeletesApart'
BY DEF OneHolder, DeletesApart

(* The loop goes on: the bytes to give back are as they were. *)
LEMMA CursorOnly ==
  ASSUME NEW k \in Work, NEW w, w = [k EXCEPT !.cursor = @ - 1]
  PROVE  /\ Deleted(w) = Deleted(k) /\ DeletedEnd(w) = DeletedEnd(k)
         /\ w.last_delete_size = k.last_delete_size
         /\ w.prior_deleted_bytes = k.prior_deleted_bytes
<1> DEFINE c == k.cursor - 1
<1>1. w = [k EXCEPT !.cursor = c]
  OBVIOUS
<1> HIDE DEF c
<1>2. /\ w.last_delete_size = k.last_delete_size
      /\ w.prior_deleted_bytes = k.prior_deleted_bytes /\ w.last_delete_pos = k.last_delete_pos
  BY <1>1 DEF Work
<1> QED BY <1>2 DEF Deleted, DeletedEnd

(* An entry still marked when its commit comes to an operation names it. *)
LEMMA LastIsNamed ==
  ASSUME StoreInv, MarkInv, NEW s \in Session, Live(s) > 0, NEW n \in Num,
         ops[s][Live(s)].id = n, HasMark(n)
  PROVE  Names(s, n, Live(s))
<1> DEFINE l == Live(s)
<1>1. l \in Nat /\ l \in 1 .. l /\ Active(s)
  BY LiveOps, UpTo DEF MarkInv
<1>2. index[n].tran_id = tran_id[s]
  BY <1>1 DEF MarkInv, OpsMarked
<1>3. PICK t \in Session : /\ Active(t) /\ tran_id[t] = index[n].tran_id
                           /\ \E i \in 1 .. Live(t) : Names(t, n, i)
  BY DEF MarkInv, MarksNamed
<1>4. t = s
  BY <1>1, <1>2, <1>3 DEF MarkInv, OwnIds
<1>5. PICK i \in 1 .. l : Names(s, n, i)
  BY <1>3, <1>4
<1>6. i = l
  <2>1. \A j \in i + 1 .. l : ops[s][j].id # n
    BY <1>5 DEF Names, LastOp
  <2> HIDE DEF l
  <2>2. i # l => l \in i + 1 .. l
    BY <1>1
  <2> QED BY <2>1, <2>2 DEF l
<1> QED BY <1>5, <1>6

(* One operation of a commit: a deleted extent is given back when it is at the *)
(* tail, a changed object gets its new one or stays within the old.            *)
LEMMA CommitOpExtents ==
  ASSUME StoreInv, MarkInv, ExtentInv, NEW s \in Session, CommitOp(s)
  PROVE  ExtentInv'
<1> DEFINE k == work[s]
           op == ops[s][k.cursor]
           n == op.id
           e == index[n]
<1>1. /\ SessionInv /\ HeaderOK /\ OneHolder /\ ExtentsApart /\ FreeEmpty /\ UpdatesFit
      /\ work \in [Session -> Work] /\ index \in [Num -> Entry] /\ total_size_of_data \in Int
      /\ index_free_list \in Int /\ total_entries \in Nat /\ total_size_of_data >= 0
  BY NumFacts DEF StoreInv, SessionInv, SessionsOK, IndexInv, HeaderOK, MarkInv, ExtentInv, ExtentsApart
<1>2. /\ pc[s] = "committing" /\ k.cursor > 0 /\ n < total_entries
      /\ CommitDelete(s, n) \/ CommitChange(s, op) \/ CommitSkip(s, n)
      /\ pc' = pc /\ ops' = ops /\ UNCHANGED total_entries
  BY DEF CommitOp, tranVars
<1>3. k \in Work /\ op \in Op
  BY <1>1, <1>2, CurrentOp
<1>4. n \in Num /\ op.size \in Nat
  BY <1>3 DEF Op
<1>5. e \in Entry /\ DeletedApart(k)
  BY <1>1, <1>2, <1>4 DEF ExtentInv, DeletesApart
<1>6. Live(s) = k.cursor /\ k.cursor \in Nat /\ k.cursor \in 1 .. Len(ops[s])
  <2>1. Live(s) = k.cursor /\ k.cursor \in Nat /\ Live(s) <= Len(ops[s]) /\ Len(ops[s]) \in Nat
    BY <1>1, <1>2, LiveOps
  <2> QED BY <2>1, <1>2
<1>7. e.trans # "free_list" => n \in Stored
  <2>1. n \in 0 .. total_entries - 1
    BY <1>1, <1>2, <1>4 DEF Num
  <2> QED BY <2>1 DEF Stored
<1> DEFINE next == [k EXCEPT !.cursor = @ - 1]
<1>8. /\ Deleted(next) = Deleted(k) /\ DeletedEnd(next) = DeletedEnd(k)
      /\ next.last_delete_size = k.last_delete_size
      /\ next.prior_deleted_bytes = k.prior_deleted_bytes
  <2> HIDE DEF k
  <2> QED BY <1>3, CursorOnly
<1>9. CASE CommitDelete(s, n)
  <2> DEFINE tail == TailDeleted(k, e)
             was == tail.work
             w == [was EXCEPT !.cursor = @ - 1]
             freed == Freed(e)
             zero == 0
             x == [freed EXCEPT !.tran_op = zero]
  <2>1. /\ e.trans = "delete" /\ total_size_of_data' = total_size_of_data - tail.given_back
        /\ work' = [work EXCEPT ![s] = w] /\ index' = [index EXCEPT ![n] = x]
    BY <1>9 DEF CommitDelete
  <2>2. n \in Stored
    BY <1>7, <2>1
  <2>3. was \in Work
    <3> HIDE DEF k, e
    <3> QED BY <1>3, <1>5, TailWork
  <2>4. x \in Entry /\ x.trans = "free_list" /\ x.size = 0
    <3>1. zero \in Nat /\ zero = 0
      OBVIOUS
    <3> HIDE DEF zero, e
    <3>2. freed \in Entry /\ freed.trans = "free_list"
      BY <1>1, <1>5, FreedEntry
    <3>3. freed.size = 0
      BY <1>5 DEF Freed, Entry
    <3> HIDE DEF freed
    <3> QED BY <3>1, <3>2, <3>3 DEF Entry
  <2>5. /\ total_size_of_data' \in Int /\ total_size_of_data' >= 0
        /\ \A m \in Stored \ {n} : index[m].pos + index[m].size <= total_size_of_data'
        /\ 0 <= Deleted(was) /\ DeletedEnd(was) <= total_size_of_data'
        /\ was.last_delete_size = 0 => was.prior_deleted_bytes = 0
        /\ \A m \in Stored \ {n} : \/ index[m].pos + index[m].size <= Deleted(was)
                                   \/ DeletedEnd(was) <= index[m].pos
    <3> HIDE DEF k, n
    <3> QED BY <1>1, <1>3, <1>5, <2>1, <2>2, DeleteGives
  <2> HIDE DEF x
  <2>6. ExtentsApart' /\ FreeEmpty' /\ Stored' \subseteq Stored \ {n}
    <3> HIDE DEF n, tail
    <3> QED BY <1>1, <1>2, <2>1, <2>2, <2>4, <2>5, ExtentFreed
  <2>7. UpdatesFit'
    <3>1. x.trans \notin {"change", "delete"}
      BY <2>4
    <3> HIDE DEF n
    <3> QED BY <1>1, <1>2, <1>4, <2>1, <2>4, <3>1, FitUnmarked
  <2>8. DeletesApart'
    <3>1. /\ Deleted(w) = Deleted(was) /\ DeletedEnd(w) = DeletedEnd(was)
          /\ w.last_delete_size = was.last_delete_size
          /\ w.prior_deleted_bytes = was.prior_deleted_bytes
      <4> HIDE DEF was
      <4> QED BY <2>3, CursorOnly
    <3>2. work'[s] = w
      BY <1>1, <2>1
    <3> HIDE DEF w, was, n
    <3>3. ASSUME NEW m \in Stored'
          PROVE  \/ index'[m].pos + index'[m].size <= Deleted(w)
                 \/ DeletedEnd(w) <= index'[m].pos
      <4>1. m \in Stored \ {n} /\ m \in Num
        BY <2>6, <1>1, NumFacts DEF Stored
      <4>2. index'[m] = index[m]
        BY <4>1, <2>1, <1>1
      <4> QED BY <4>1, <4>2, <2>5, <3>1
    <3>4. DeletedApart(work[s])'
      <4>1. DeletedApart(work[s])' <=> /\ 0 <= Deleted(w) /\ DeletedEnd(w) <= total_size_of_data'
                                       /\ w.last_delete_size = 0 => w.prior_deleted_bytes = 0
                                       /\ \A m \in Stored' : \/ index'[m].pos + index'[m].size <= Deleted(w)
                                                             \/ DeletedEnd(w) <= index'[m].pos
        BY <3>2 DEF DeletedApart, Deleted, DeletedEnd
      <4> QED BY <4>1, <3>1, <3>3, <2>5
    <3> QED BY <3>4, <1>1, <1>2, DeletesMoved
  <2> QED BY <2>6, <2>7, <2>8 DEF ExtentInv
<1>10. CASE CommitChange(s, op)
  <2> DEFINE inPlace == op.type # "append"
             pos == IF op.type = "append" THEN total_size_of_data ELSE e.pos
             size == op.size
             zero == 0
             none == "none"
             x == [e EXCEPT !.pos = pos, !.size = size, !.tran_op = zero, !.trans = none]
  <2>1. /\ e.trans = "change" /\ index' = [index EXCEPT ![n] = x]
        /\ total_size_of_data' = IF op.type = "append" THEN total_size_of_data + op.size
                                 ELSE total_size_of_data
        /\ work' = [work EXCEPT ![s] = next]
    BY <1>1, <1>10 DEF CommitChange
  <2>2. n \in Stored /\ HasMark(n)
    BY <1>7, <2>1 DEF HasMark
  <2>3. op.type # "destroy" /\ op.type \in {"update", "append", "destroy"}
    <3>1. Names(s, n, Live(s))
      <4> HIDE DEF k
      <4> QED BY <1>2, <1>4, <1>6, <2>2, LastIsNamed
    <3>2. ops[s][Live(s)].type # "destroy"
      BY <3>1, <2>1 DEF Names
    <3> QED BY <3>2, <1>3, <1>6 DEF Op
  <2>4. op.size > 0 /\ (op.type # "append" => op.size <= e.size)
    <3>1. Fitting(op)
      BY <1>1, <1>6 DEF UpdatesFit
    <3> QED BY <3>1, <2>2, <2>3 DEF Fitting
  <2>5. pos \in Int /\ size \in Nat /\ zero \in Nat
        /\ none \in {"none", "change", "delete", "free_list"}
    BY <1>1, <1>4, <1>5 DEF Entry
  <2>6. x \in Entry /\ x.trans = "none" /\ x.pos = pos /\ x.size = size
    <3> HIDE DEF pos, size, zero, none, e
    <3>1. x \in Entry
      BY <1>5, <2>5 DEF Entry
    <3>2. x.pos = pos /\ x.size = size /\ x.trans = none
      BY <1>5 DEF Entry
    <3> QED BY <3>1, <3>2 DEF none
  <2>7. FitsFor(n, e, total_size_of_data)
    BY <1>1, <2>2 DEF ExtentsApart
  <2>8. /\ x.pos = (IF inPlace THEN e.pos ELSE total_size_of_data) /\ x.size = size
        /\ total_size_of_data' = (IF inPlace THEN total_size_of_data ELSE total_size_of_data + size)
        /\ inPlace \in BOOLEAN /\ (inPlace => size <= e.size) /\ x.trans # "free_list"
        /\ size \in Nat /\ size > 0
    BY <1>4, <2>1, <2>4, <2>6
  <2> HIDE DEF x, inPlace, size, pos
  <2>9. /\ FitsFor(n, x, total_size_of_data')
        /\ total_size_of_data' \in Int /\ total_size_of_data' >= total_size_of_data
        /\ total_size_of_data' >= 0
        /\ \A m \in Stored \ {n} : index[m].pos + index[m].size <= total_size_of_data'
    <3> HIDE DEF n
    <3> QED BY <1>1, <1>4, <1>5, <2>6, <2>7, <2>8, Placing
  <2>10. ExtentsApart' /\ FreeEmpty' /\ Stored' \subseteq Stored \cup {n}
    <3>1. total_entries' \in Nat /\ total_entries' >= total_entries
          /\ \A m \in total_entries .. total_entries' - 1 : m = n
      BY <1>1, <1>2
    <3> HIDE DEF n
    <3> QED BY <1>1, <1>4, <2>1, <2>6, <2>8, <2>9, <3>1, ExtentMoved
  <2>11. UpdatesFit'
    <3>1. x.trans \notin {"change", "delete"}
      BY <2>6
    <3> HIDE DEF n
    <3> QED BY <1>1, <1>2, <1>4, <2>1, <2>6, <3>1, FitUnmarked
  <2>12. DeletesApart'
    <3>1. work'[s] = next
      BY <1>1, <2>1
    <3> DEFINE lo == Deleted(k)
               hi == DeletedEnd(k)
    <3>2. /\ 0 <= lo /\ hi <= total_size_of_data /\ lo \in Int /\ hi \in Int
          /\ k.last_delete_size = 0 => k.prior_deleted_bytes = 0
          /\ \A m \in Stored : index[m].pos + index[m].size <= lo \/ hi <= index[m].pos
      BY <1>3, <1>5 DEF DeletedApart, Deleted, DeletedEnd, Work
    <3> HIDE DEF lo, hi, n, next
    <3>3. ASSUME NEW m \in Stored'
          PROVE  index'[m].pos + index'[m].size <= lo \/ hi <= index'[m].pos
      <4>1. CASE m # n
        <5>1. m \in Stored /\ m \in Num
          BY <4>1, <2>10, <1>1, NumFacts DEF Stored
        <5>2. index'[m] = index[m]
          BY <4>1, <5>1, <2>1, <1>1
        <5> QED BY <5>1, <5>2, <3>2
      <4>2. CASE m = n
        <5>1. index'[m] = x
          BY <4>2, <2>1, <1>1, <1>4
        <5>2. CASE inPlace
          <6>1. x.pos = e.pos /\ x.size = size /\ size <= e.size
            BY <5>2, <2>8
          <6>2. e.pos \in Int /\ e.size \in Nat /\ (e.pos + e.size <= lo \/ hi <= e.pos)
            BY <1>5, <2>2, <3>2 DEF Entry, n
          <6> HIDE DEF e
          <6> QED BY <5>1, <6>1, <6>2, <2>8, <3>2
        <5>3. CASE ~inPlace
          <6>1. x.pos = total_size_of_data
            BY <5>3, <2>8
          <6> QED BY <5>1, <6>1, <3>2
        <5> QED BY <5>2, <5>3
      <4> QED BY <4>1, <4>2
    <3>4. hi <= total_size_of_data'
      BY <1>1, <2>9, <3>2
    <3>5. DeletedApart(work[s])'
      <4>1. DeletedApart(work[s])' <=>
              /\ 0 <= Deleted(next) /\ DeletedEnd(next) <= total_size_of_data'
              /\ next.last_delete_size = 0 => next.prior_deleted_bytes = 0
              /\ \A m \in Stored' : \/ index'[m].pos + index'[m].size <= Deleted(next)
                                    \/ DeletedEnd(next) <= index'[m].pos
        BY <3>1 DEF DeletedApart, Deleted, DeletedEnd
      <4> QED BY <4>1, <1>8, <3>2, <3>3, <3>4 DEF lo, hi
    <3> QED BY <3>5, <1>1, <1>2, DeletesMoved
  <2> QED BY <2>10, <2>11, <2>12 DEF ExtentInv
<1>11. CASE CommitSkip(s, n)
  <2>1. /\ UNCHANGED << total_size_of_data, index, total_entries, ops, pc >>
        /\ work' = [work EXCEPT ![s] = next]
    BY <1>2, <1>11, <1>1 DEF CommitSkip
  <2>2. Stored' = Stored
    BY <2>1 DEF Stored
  <2>3. ExtentsApart' /\ FreeEmpty' /\ UpdatesFit'
    BY <1>1, <2>1, <2>2 DEF ExtentsApart, FitsFor, InData, Apart, FreeEmpty, UpdatesFit, Fitting, HasMark
  <2>4. DeletedApart(work[s])'
    <3>1. work'[s] = next
      BY <1>1, <2>1
    <3> HIDE DEF next
    <3> QED BY <1>5, <1>8, <2>1, <2>2, <3>1 DEF DeletedApart, Deleted, DeletedEnd
  <2>5. DeletesApart'
    BY <2>1, <2>4, <1>1, <1>2, DeletesMoved
  <2> QED BY <2>3, <2>5 DEF ExtentInv
<1> QED BY <1>2, <1>9, <1>10, <1>11

(* One operation of a rollback keeps the extent of its entry or frees it. *)
LEMMA RollbackOpExtents ==
  ASSUME StoreInv, MarkInv, ExtentInv, NEW s \in Session, RollbackOp(s)
  PROVE  ExtentInv'
<1> DEFINE k == work[s]
           op == ops[s][k.op_offset + k.cursor]
           n == op.id
           e == index[n]
           x == Undone(op, e)
           undo == e.trans \in {"change", "delete"}
<1>1. /\ SessionInv /\ HeaderOK /\ OneHolder /\ ExtentsApart /\ FreeEmpty /\ UpdatesFit
      /\ index \in [Num -> Entry] /\ total_size_of_data \in Int
      /\ index_free_list \in Int /\ total_entries \in Nat /\ total_size_of_data >= 0
  BY NumFacts DEF StoreInv, SessionInv, SessionsOK, IndexInv, HeaderOK, MarkInv, ExtentInv, ExtentsApart
<1>2. /\ pc[s] = "rolling back" /\ k.cursor > 0 /\ n < total_entries
      /\ index' = IF undo THEN [index EXCEPT ![n] = x] ELSE index
      /\ total_size_of_data' = IF undo /\ x.trans = "free_list" /\ AtTail(e)
                               THEN total_size_of_data - e.size ELSE total_size_of_data
      /\ pc' = pc /\ ops' = ops /\ UNCHANGED total_entries
  BY <1>1 DEF RollbackOp, tranVars
<1>3. k \in Work /\ op \in Op
  BY <1>1, <1>2, CurrentOp
<1>4. n \in Num
  BY <1>3 DEF Op
<1>5. e \in Entry /\ e.size \in Nat
  BY <1>1, <1>4 DEF Entry
<1>6. DeletesApart'
  <2>1. \A t \in Session : pc'[t] # "committing"
    BY <1>1, <1>2 DEF OneHolder
  <2> QED BY <2>1 DEF DeletesApart
<1>7. e.trans # "free_list" => n \in Stored
  <2>1. n \in Nat /\ n < total_entries /\ total_entries \in Nat
    BY <1>1, <1>2, <1>4, NumFacts
  <2> HIDE DEF n
  <2>2. n \in 0 .. total_entries - 1
    BY <2>1
  <2> QED BY <2>2 DEF Stored, n
<1>8. CASE undo
  <2> DEFINE created == op.old_tran_op = 0 /\ op.old_tran_id = -1
             old == op.old_tran_op
             id == IF op.old_tran_id > 0 THEN op.old_tran_id ELSE e.tran_id
             was == [e EXCEPT !.tran_op = old, !.tran_id = id]
             mark == IF op.old_tran_op = 0 THEN "none" ELSE "change"
             back == [was EXCEPT !.trans = mark]
  <2>1. n \in Stored /\ HasMark(n) /\ index' = [index EXCEPT ![n] = x]
    BY <1>2, <1>7, <1>8 DEF HasMark
  <2>2. x = IF created THEN Freed(was) ELSE back
    BY DEF Undone
  <2>3. was \in Entry /\ was.pos = e.pos /\ was.size = e.size
    <3>1. old \in Nat /\ id \in Nat
      BY <1>3, <1>5 DEF Op, Entry
    <3> HIDE DEF old, id, e
    <3> QED BY <1>5, <3>1 DEF Entry
  <2>4. mark \in {"none", "change", "delete", "free_list"} /\ mark # "free_list"
    OBVIOUS
  <2> HIDE DEF was, mark
  <2>5. back \in Entry /\ back.pos = e.pos /\ back.size = e.size /\ back.trans # "free_list"
    <3>1. back \in Entry /\ back.pos = was.pos /\ back.size = was.size /\ back.trans = mark
      BY <2>3, <2>4 DEF Entry
    <3> QED BY <2>3, <2>4, <3>1
  <2>6. Freed(was) \in Entry /\ Freed(was).trans = "free_list" /\ Freed(was).size = 0
    <3>1. Freed(was) \in Entry /\ Freed(was).trans = "free_list"
      BY <1>1, <2>3, FreedEntry
    <3>2. Freed(was).size = 0
      BY <2>3 DEF Freed, Entry
    <3> QED BY <3>1, <3>2
  <2> HIDE DEF back, created, x
  <2>7. CASE created
    <3>1. x \in Entry /\ x.trans = "free_list" /\ x.size = 0
      BY <2>2, <2>6, <2>7
    <3>2. /\ total_size_of_data' \in Int
          /\ \/ total_size_of_data' = total_size_of_data
             \/ AtTail(index[n]) /\ total_size_of_data' = total_size_of_data - index[n].size
      <4>1. \/ total_size_of_data' = total_size_of_data
            \/ AtTail(e) /\ total_size_of_data' = total_size_of_data - e.size
        BY <1>2
      <4> DEFINE z == e.size
      <4>2. z \in Nat
        BY <1>5
      <4> HIDE DEF z
      <4>3. total_size_of_data' \in Int
        BY <4>1, <4>2, <1>1 DEF z
      <4> QED BY <4>1, <4>3
    <3> HIDE DEF n
    <3>3. /\ total_size_of_data' >= 0
          /\ \A m \in Stored \ {n} : index[m].pos + index[m].size <= total_size_of_data'
      BY <1>1, <2>1, <3>2, TailGiven
    <3>4. ExtentsApart' /\ FreeEmpty'
      BY <1>1, <1>2, <2>1, <3>1, <3>2, <3>3, ExtentFreed
    <3>5. x.trans \notin {"change", "delete"}
      BY <3>1
    <3>6. UpdatesFit'
      BY <1>1, <1>2, <1>4, <2>1, <3>1, <3>5, FitUnmarked
    <3> QED BY <3>4, <3>6, <1>6 DEF ExtentInv
  <2>8. CASE ~created
    <3>1. x \in Entry /\ x.pos = e.pos /\ x.size = e.size /\ x.trans # "free_list"
      BY <2>2, <2>5, <2>8
    <3>2. UNCHANGED << total_entries, total_size_of_data >>
      BY <1>2, <3>1
    <3>3. x.pos = index[n].pos /\ x.size = index[n].size
      BY <3>1
    <3> HIDE DEF n
    <3>4. ExtentsApart' /\ FreeEmpty'
      BY <1>1, <2>1, <3>1, <3>2, <3>3, ExtentKept
    <3>5. \A t \in Session : \A i \in 1 .. Len(ops[t]) :
            /\ ops[t][i].id \in Num /\ ops[t][i].size \in Nat
            /\ ops[t][i].id = n =>
                 \/ x.trans \notin {"change", "delete"}
                 \/ HasMark(n) /\ index[n].size <= x.size
      <4>1. index[n].size <= x.size
        BY <1>5, <3>1, <3>3
      <4> QED BY <4>1, <2>1, <1>1, OpsKnown
    <3>6. \A t \in Session : \A i \in 1 .. Len(ops'[t]) :
            \/ i \in 1 .. Len(ops[t]) /\ ops'[t][i] = ops[t][i]
            \/ /\ ops'[t][i].type # "destroy" => ops'[t][i].size > 0
               /\ ops'[t][i].type = "update" =>
                    ops'[t][i].id = n /\ ops'[t][i].size <= x.size
      BY <1>2
    <3>7. UpdatesFit'
      BY <1>1, <1>4, <2>1, <3>1, <3>5, <3>6, FitKept
    <3> QED BY <3>4, <3>7, <1>6 DEF ExtentInv
  <2> QED BY <2>7, <2>8
<1>9. CASE ~undo
  <2>1. UNCHANGED << total_size_of_data, index, total_entries, ops >>
    BY <1>2, <1>9
  <2>2. Stored' = Stored
    BY <2>1 DEF Stored
  <2>3. ExtentsApart' /\ FreeEmpty' /\ UpdatesFit'
    BY <1>1, <2>1, <2>2 DEF ExtentsApart, FitsFor, InData, Apart, FreeEmpty, UpdatesFit, Fitting, HasMark
  <2> QED BY <2>3, <1>6 DEF ExtentInv
<1> QED BY <1>8, <1>9

(* A step that leaves the entries and the data's end alone, logs nothing and  *)
(* begins no commit.                                                          *)
LEMMA ExtentsFrame ==
  ASSUME ExtentInv, UNCHANGED << index, total_entries, total_size_of_data >>,
         \A t \in Session : \A i \in 1 .. Len(ops'[t]) :
           i \in 1 .. Len(ops[t]) /\ ops'[t][i] = ops[t][i],
         \A t \in Session : pc'[t] = "committing" =>
           pc[t] = "committing" /\ work'[t] = work[t]
  PROVE  ExtentInv'
<1>1. Stored' = Stored
  BY DEF Stored
<1>2. ExtentsApart'
  BY <1>1 DEF ExtentInv, ExtentsApart, FitsFor, InData, Apart
<1>3. FreeEmpty'
  BY DEF ExtentInv, FreeEmpty
<1>4. UpdatesFit'
  BY DEF ExtentInv, UpdatesFit, Fitting, HasMark
<1>5. DeletesApart'
  <2> SUFFICES ASSUME NEW t \in Session, pc'[t] = "committing"
               PROVE  DeletedApart(work[t])'
    BY DEF DeletesApart
  <2>1. DeletedApart(work[t]) /\ work'[t] = work[t]
    BY DEF ExtentInv, DeletesApart
  <2> QED BY <1>1, <2>1 DEF DeletedApart, Deleted, DeletedEnd
<1> QED BY <1>2, <1>3, <1>4, <1>5 DEF ExtentInv

(* The steps that change no entry. *)
LEMMA CallExtents ==
  ASSUME StoreInv, MarkInv, ExtentInv, NEW s \in Session,
         \/ FinishStore(s) \/ FetchPage(s) \/ NextPage(s) \/ ReadPage(s) \/ FinishRead(s)
         \/ \E n \in Num : StartRead(s, n)
         \/ TransactionStart(s) \/ CommitInner(s) \/ RollbackBegin(s)
  PROVE  ExtentInv'
<1>1. pc \in [Session -> PC] /\ work \in [Session -> Work]
  BY DEF StoreInv, SessionInv, SessionsOK
<1>2. UNCHANGED << index, total_entries, total_size_of_data, ops >>
  BY DEF FinishStore, FetchPage, NextPage, ReadPage, FinishRead, StartRead, TransactionStart,
         CommitInner, RollbackBegin, headerVars, tranVars
<1>3. \A t \in Session : pc'[t] = "committing" => pc[t] = "committing" /\ work'[t] = work[t]
  BY <1>1 DEF FinishStore, FetchPage, NextPage, ReadPage, FinishRead, StartRead, TransactionStart,
         CommitInner, RollbackBegin
<1> QED BY <1>2, <1>3, ExtentsFrame

(* A commit begins with no bytes to give back. *)
LEMMA BeginExtents ==
  ASSUME StoreInv, MarkInv, ExtentInv, NEW s \in Session, CommitBegin(s)
  PROVE  ExtentInv'
<1>1. /\ pc \in [Session -> PC] /\ work \in [Session -> Work] /\ HeaderOK /\ ExtentsApart
      /\ OneHolder /\ rp_impl_lock = NoSession
  BY DEF StoreInv, SessionInv, SessionsOK, IndexInv, MarkInv, ExtentInv, CommitBegin, Section
<1> DEFINE count == Top(s).op_count
           k == [NoWork EXCEPT !.cursor = count, !.op_count = count]
<1>2. /\ UNCHANGED << index, total_entries, total_size_of_data, ops >>
      /\ pc' = [pc EXCEPT ![s] = "committing"] /\ work' = [work EXCEPT ![s] = k]
  BY DEF CommitBegin, headerVars
<1>3. Stored' = Stored
  BY <1>2 DEF Stored
<1>4. ExtentsApart' /\ FreeEmpty' /\ UpdatesFit'
  BY <1>2, <1>3 DEF ExtentInv, ExtentsApart, FitsFor, InData, Apart, FreeEmpty, UpdatesFit,
     Fitting, HasMark
<1>5. k.last_delete_pos = 0 /\ k.last_delete_size = 0 /\ k.prior_deleted_bytes = 0
  BY DEF NoWork
<1> HIDE DEF k
<1>6. Deleted(k) = 0 /\ DeletedEnd(k) = 0
  BY <1>5 DEF Deleted, DeletedEnd
<1>7. total_size_of_data >= 0 /\ \A m \in Stored : 0 <= index[m].pos
  BY <1>1 DEF ExtentsApart, FitsFor, InData
<1>8. DeletedApart(k)
  BY <1>5, <1>6, <1>7 DEF DeletedApart
<1>9. work'[s] = k
  BY <1>1, <1>2
<1>10. DeletedApart(work[s])'
  BY <1>2, <1>3, <1>8, <1>9 DEF DeletedApart, Deleted, DeletedEnd
<1>11. \A t \in Session \ {s} : pc'[t] # "committing"
  BY <1>1, <1>2, NoHolder
<1>12. DeletesApart'
  BY <1>10, <1>11 DEF DeletesApart
<1> QED BY <1>4, <1>12 DEF ExtentInv

(* The end of a commit or of a rollback takes operations away. *)
LEMMA EndsExtents ==
  ASSUME StoreInv, MarkInv, ExtentInv, NEW s \in Session, CommitEnd(s) \/ RollbackEnd(s)
  PROVE  ExtentInv'
<1>1. /\ pc \in [Session -> PC] /\ work \in [Session -> Work] /\ ops \in [Session -> Seq(Op)]
      /\ Tile(s) /\ OneHolder
  BY DEF StoreInv, SessionInv, SessionsOK, MarkInv
<1>2. /\ pc' = [pc EXCEPT ![s] = "idle"] /\ work' = [work EXCEPT ![s] = NoWork]
      /\ UNCHANGED << index, total_entries, total_size_of_data >>
  BY DEF CommitEnd, RollbackEnd, headerVars
<1>3. \A t \in Session : pc'[t] = "committing" => pc[t] = "committing" /\ work'[t] = work[t]
  BY <1>1, <1>2
<1>4. \A i \in 1 .. Len(ops'[s]) : i \in 1 .. Len(ops[s]) /\ ops'[s][i] = ops[s][i]
  <2>1. CASE CommitEnd(s)
    <3>1. ops'[s] = << >>
      BY <2>1, <1>1 DEF CommitEnd
    <3> QED BY <3>1, EmptySeq
  <2>2. CASE RollbackEnd(s)
    <3> DEFINE m == Len(ops[s]) - work[s].op_count
               q == [i \in 1 .. m |-> ops[s][i]]
    <3>1. pc[s] = "rolling back" /\ ops'[s] = q
      BY <2>2, <1>1 DEF RollbackEnd
    <3>2. /\ Len(ops[s]) \in Nat /\ work[s].op_count \in Nat /\ work[s].op_offset \in Nat
      BY <1>1, LiveOps
    <3>3. Len(ops[s]) = work[s].op_offset + work[s].op_count
      BY <3>1, <1>1 DEF Tile
    <3>4. m \in Nat /\ m <= Len(ops[s])
      BY <3>2, <3>3
    <3> HIDE DEF m
    <3>5. Len(q) = m /\ \A i \in 1 .. m : q[i] = ops[s][i]
      BY <3>4
    <3> HIDE DEF q
    <3>6. ASSUME NEW i \in 1 .. m PROVE i \in 1 .. Len(ops[s]) /\ q[i] = ops[s][i]
      BY <3>2, <3>4, <3>5
    <3> QED BY <3>1, <3>5, <3>6
  <2> QED BY <2>1, <2>2
<1>5. \A t \in Session \ {s} : ops'[t] = ops[t]
  BY <1>1 DEF CommitEnd, RollbackEnd
<1>6. \A t \in Session : \A i \in 1 .. Len(ops'[t]) :
        i \in 1 .. Len(ops[t]) /\ ops'[t][i] = ops[t][i]
  BY <1>4, <1>5
<1> QED BY <1>2, <1>3, <1>6, ExtentsFrame

(* The empty store has no extent. *)
LEMMA InitExtents == Init => ExtentInv
<1> SUFFICES ASSUME Init PROVE ExtentInv
  OBVIOUS
<1>1. /\ total_entries = 0 /\ total_size_of_data = 0
      /\ \A n \in Num : index[n].trans = "none"
      /\ \A s \in Session : pc[s] = "idle" /\ Len(ops[s]) = 0
  BY EmptySeq DEF Init, Blank
<1>2. Stored = {}
  BY <1>1 DEF Stored
<1> QED BY <1>1, <1>2 DEF ExtentInv, ExtentsApart, FreeEmpty, UpdatesFit, DeletesApart

(* Every step keeps the extents apart. *)
LEMMA NextExtents ==
  ASSUME ~StaleIds, 0 \notin Size, StoreInv, MarkInv, ExtentInv, [Next]_vars
  PROVE  ExtentInv'
<1>1. ASSUME NEW s \in Session, NEW size \in Size, NEW val \in Value,
             \/ Create(s, size, val) \/ Revive(s, size, val)
             \/ \E n \in Num : Update(s, n, size, val)
      PROVE  ExtentInv'
  BY <1>1, CreateExtents, UpdateExtents
<1>2. ASSUME NEW s \in Session, NEW n \in Num, Destroy(s, n)
      PROVE  ExtentInv'
  BY <1>2, DestroyExtents
<1>3. ASSUME NEW s \in Session, NEW n \in Num, StartRead(s, n)
      PROVE  ExtentInv'
  BY <1>3, CallExtents
<1>4. ASSUME NEW s \in Session,
             \/ FinishStore(s) \/ FetchPage(s) \/ NextPage(s) \/ ReadPage(s) \/ FinishRead(s)
             \/ TransactionStart(s) \/ CommitInner(s) \/ RollbackBegin(s)
      PROVE  ExtentInv'
  BY <1>4, CallExtents
<1>5. ASSUME NEW s \in Session, FinishWrite(s) \/ CommitBegin(s)
      PROVE  ExtentInv'
  BY <1>5, FinishWriteExtents, BeginExtents
<1>6. ASSUME NEW s \in Session, HolderStep(s)
      PROVE  ExtentInv'
  BY <1>6, CommitOpExtents, RollbackOpExtents, EndsExtents DEF HolderStep
<1>7. CASE Quiescent \/ UNCHANGED vars
  <2>1. UNCHANGED << index, total_entries, total_size_of_data, ops, pc, work >>
    BY <1>7 DEF Quiescent, vars, headerVars, tranVars
  <2> QED BY <2>1, ExtentsFrame
<1> QED BY <1>1, <1>2, <1>3, <1>4, <1>5, <1>6, <1>7 DEF Next

(* Extents that lie apart within the data share no cell of it. *)
LEMMA ApartShareNone ==
  ASSUME NEW a \in Int, NEW z \in Nat, NEW b \in Int, NEW y \in Nat,
         a + z <= b \/ b + y <= a
  PROVE  (a .. a + z - 1) \cap (b .. b + y - 1) = {}
OBVIOUS

LEMMA ApartDisjoint ==
  ASSUME StoreInv, ExtentInv PROVE ExtentsDisjoint
<1>1. ASSUME NEW m \in Stored
      PROVE  /\ FitsFor(m, index[m], total_size_of_data)
             /\ index[m].pos \in Int /\ index[m].size \in Nat
  BY NumFacts DEF StoreInv, IndexInv, ExtentInv, ExtentsApart, Stored, HeaderOK, Entry
<1>2. total_size_of_data \in Int
  BY DEF StoreInv, IndexInv, HeaderOK
<1> SUFFICES ASSUME NEW n \in Stored
             PROVE  /\ Extent(n) \subseteq 0 .. total_size_of_data - 1
                    /\ \A m \in Stored : n # m => Extent(n) \cap Extent(m) = {}
  BY DEF ExtentsDisjoint
<1>3. Extent(n) \subseteq 0 .. total_size_of_data - 1
  <2> DEFINE a == index[n].pos
             z == index[n].size
  <2>1. a \in Int /\ z \in Nat /\ 0 <= a /\ a + z <= total_size_of_data
    BY <1>1 DEF FitsFor, InData
  <2> HIDE DEF a, z
  <2>2. a .. a + z - 1 \subseteq 0 .. total_size_of_data - 1
    BY <1>2, <2>1
  <2> QED BY <2>2 DEF Extent, a, z
<1>4. ASSUME NEW m \in Stored, n # m PROVE Extent(n) \cap Extent(m) = {}
  <2> DEFINE a == index[n].pos
             z == index[n].size
             b == index[m].pos
             y == index[m].size
  <2>1. a \in Int /\ z \in Nat /\ b \in Int /\ y \in Nat
    BY <1>1
  <2>2. Apart(index[n], index[m])
    BY <1>1, <1>4 DEF FitsFor
  <2>3. a + z <= b \/ b + y <= a
    BY <2>2 DEF Apart
  <2> HIDE DEF a, z, b, y
  <2>4. (a .. a + z - 1) \cap (b .. b + y - 1) = {}
    BY <2>1, <2>3, ApartShareNone
  <2> QED BY <2>4 DEF Extent, a, z, b, y
<1> QED BY <1>3, <1>4

(* Two objects never share a cell of the data file, and none lies beyond the   *)
(* end of the data, through updates in place, appends, extents given back at   *)
(* the tail by a destroy, a rollback or a whole run of deletes in a commit     *)
(* (last_delete_pos, last_delete_size and prior_deleted_bytes, 5377-5462), and *)
(* entries revived from the free list: as long as no caller uses an id of an   *)
(* object that is gone, and no object is empty.  A commit only compares a      *)
(* deleted extent with the one before it when that one had a size, so an empty *)
(* object in a run of deletes lets it give back bytes that are in use.         *)
THEOREM ExtentsNeverShared ==
  ASSUME ~StaleIds, 0 \notin Size PROVE Spec => []ExtentsDisjoint
<1>1. Init => ExtentInv
  BY InitExtents
<1>2. StoreInv /\ MarkInv /\ ExtentInv /\ [Next]_vars => ExtentInv'
  BY NextExtents
<1>3. Spec => []StoreInv
  BY Invariant
<1>4. StoreInv /\ ExtentInv => ExtentsDisjoint
  BY ApartDisjoint
<1>5. Spec => []MarkInv
  BY StoreMarked
<1> QED BY <1>1, <1>2, <1>3, <1>4, <1>5, PTL DEF Spec

-----------------------------------------------------------------------------
(* A page is written by one session at a time: pages have one cell, or nobody *)
(* writes outside a transaction, or there is one session.                     *)
WholePages ==
  PageSize = 1 \/ PlainSession = {} \/ \A s, t \in Session : s = t

-----------------------------------------------------------------------------
(* The invariant, on top of StoreInv, MarkInv and ExtentInv.                  *)

Changes(op) == op.type # "destroy"
EndOf(op)   == op.pos + op.size

(* The first m operations of q stored their cells before the cell b. *)
OpsBefore(q, m, b) == \A i \in 1 .. Len(q) : i <= m /\ Changes(q[i]) => EndOf(q[i]) <= b

(* Each operation stored its cells behind those of the ones before it. *)
OpsApart(q) == \A i \in 1 .. Len(q) : Changes(q[i]) => OpsBefore(q, i - 1, q[i].pos)

(* Outer levels end before inner ones begin. *)
LevelsOrdered(v) ==
  \A k, l \in 1 .. Len(v) : k < l => v[k].op_offset + v[k].op_count <= v[l].op_offset

(* The cells that the operations of a session stored lie one behind the other, *)
(* and those of an outer level before those of an inner one.                   *)
InOrder(s) ==
  /\ total_trans_size[s] <= MaxTransData
  /\ OpsBefore(ops[s], Len(ops[s]), total_trans_size[s])
  /\ OpsApart(ops[s])
  /\ LevelsOrdered(levels[s])
  /\ \A l \in 1 .. Len(levels[s]) : OpsBefore(ops[s], levels[s][l].op_offset, levels[s][l].offset)
  /\ pc[s] = "rolling back" =>
       OpsBefore(ops[s], work[s].op_offset, total_trans_size[s] - work[s].size)

(* The ids of the transactions that have ended, each of which has filled       *)
(* MaxTransData cells at most.                                                 *)
Ended == {i \in 1 .. transaction_id - 1 : \A s \in Session : Active(s) => tran_id[s] # i}

Filled(k) == k * MaxTransData

Commits(s) == pc[s] = "committing"

RoomLeft ==
  /\ transaction_id - 1 <= MaxTran
  /\ \/ /\ \A s \in Session : ~Commits(s)
        /\ total_size_of_data <= Filled(Cardinality(Ended))
     \/ \E s \in Session, b \in 0 .. MaxTransData :
          /\ Commits(s) /\ OpsBefore(ops[s], work[s].cursor, b)
          /\ total_size_of_data + b <= Filled(Cardinality(Ended) + 1)

CellsOK == /\ data \in [Cell -> Fill]
           /\ trans_data \in [Session -> [0 .. MaxTransData - 1 -> Fill]]
           /\ DOMAIN page_copy = Session /\ DOMAIN read = Session

(* A plain writer has a copy of the page it is at, as it will put it back, and *)
(* has written the cells of its object before that page.                       *)
PageHeld(s) ==
  LET w == write[s]
      p == page_copy[s].page
  IN page_copy[s] # NoPage =>
       /\ p \in PageOf(w.pos) .. LastPage(w) /\ page_copy[s] = Copied(w, p)
       /\ \A c \in w.pos .. w.pos + w.size - 1 : PageOf(c) < p => data[c] = w.val

Writing(s) == /\ s \in PlainSession /\ write[s].size > 0
              /\ write[s].pos = write[s].entry.pos /\ write[s].size = write[s].entry.size
              /\ write[s].val \in Value

Storing(s) == /\ InTx(s) /\ Len(ops[s]) > 0 /\ Changes(ops[s][Len(ops[s])])
              /\ write[s].val \in Value

WriterOK(s) ==
  /\ pc[s] = "writing" => Writing(s) /\ PageHeld(s)
  /\ pc[s] = "storing" => Storing(s)
  /\ pc[s] # "writing" => page_copy[s] = NoPage
  /\ pc[s] \notin {"writing", "storing"} => write[s].num = -1

WritersOK == \A s \in Session : WriterOK(s)

OrderOK == \A s \in Session : InOrder(s)

CellInv == CellsOK /\ RoomLeft /\ WritersOK /\ OrderOK

-----------------------------------------------------------------------------
(* The operations of a session stay in the order of the cells they stored.    *)

LEMMA ConstFacts ==
  /\ MaxTransData \in Nat /\ MaxTran \in Nat /\ MaxData \in Nat /\ PageSize \in Nat \ {0}
  /\ PlainSession \subseteq Session /\ Size \subseteq Nat /\ 0 \notin Value
  /\ \A z \in Size : z \in Nat /\ z <= MaxTransData
BY StoreAssumption

(* A prefix of the operations lies where it lay. *)
LEMMA BeforeKept ==
  ASSUME NEW q, NEW r, NEW m, NEW k, NEW b \in Int, NEW c \in Int, b <= c, Len(q) \in Nat,
         Len(r) \in Nat, m \in Int, k \in Int, k <= m, OpsBefore(q, m, b),
         \A i \in 1 .. Len(q) : q[i] \in Op,
         \A i \in 1 .. Len(r) : i <= k => i <= Len(q) /\ r[i] = q[i]
  PROVE  OpsBefore(r, k, c)
<1> SUFFICES ASSUME NEW i \in 1 .. Len(r), i <= k, Changes(r[i]) PROVE EndOf(r[i]) <= c
  BY DEF OpsBefore
<1>1. i \in 1 .. Len(q) /\ r[i] = q[i] /\ i <= m
  OBVIOUS
<1>2. EndOf(q[i]) <= b
  BY <1>1 DEF OpsBefore
<1>3. EndOf(q[i]) \in Int
  BY <1>1 DEF EndOf, Op
<1> QED BY <1>1, <1>2, <1>3

(* A prefix of operations is in order if the whole is. *)
LEMMA ApartKept ==
  ASSUME NEW q, NEW r, Len(q) \in Nat, Len(r) \in Nat, OpsApart(q),
         \A i \in 1 .. Len(q) : q[i] \in Op,
         Len(r) <= Len(q), \A i \in 1 .. Len(r) : r[i] = q[i]
  PROVE  OpsApart(r)
<1> SUFFICES ASSUME NEW i \in 1 .. Len(r), Changes(r[i]) PROVE OpsBefore(r, i - 1, r[i].pos)
  BY DEF OpsApart
<1>1. i \in 1 .. Len(q) /\ r[i] = q[i] /\ r[i].pos \in Int
  BY DEF Op
<1>2. OpsBefore(q, i - 1, q[i].pos)
  BY <1>1 DEF OpsApart
<1> QED BY <1>1, <1>2, BeforeKept

(* A session that a step leaves alone, but for its call, keeps the order. *)
LEMMA OrderFrame ==
  ASSUME NEW t \in Session, InOrder(t), levels'[t] = levels[t], ops'[t] = ops[t],
         total_trans_size'[t] = total_trans_size[t],
         pc'[t] = "rolling back" => pc[t] = "rolling back" /\ work'[t].op_offset = work[t].op_offset
                                    /\ work'[t].size = work[t].size
  PROVE  InOrder(t)'
BY DEF InOrder

(* What the invariant gives of one session. *)
LEMMA SessionFacts ==
  ASSUME StoreInv, NEW s \in Session
  PROVE  /\ ops[s] \in Seq(Op) /\ Len(ops[s]) \in Nat
         /\ \A i \in 1 .. Len(ops[s]) :
              /\ ops[s][i] \in Op /\ ops[s][i].id \in Num /\ ops[s][i].pos \in Nat
              /\ ops[s][i].size \in Nat /\ EndOf(ops[s][i]) \in Nat
         /\ levels[s] \in Seq(Level) /\ Len(levels[s]) \in Nat /\ Depth(s) = Len(levels[s])
         /\ (InTx(s) <=> Depth(s) > 0)
         /\ \A l \in 1 .. Len(levels[s]) :
              /\ levels[s][l] \in Level /\ levels[s][l].op_offset \in Nat
              /\ levels[s][l].op_count \in Nat /\ levels[s][l].offset \in Nat
              /\ levels[s][l].size \in Nat
         /\ total_trans_size[s] \in Nat /\ work[s] \in Work /\ work[s].size \in Nat
         /\ work[s].cursor \in Nat /\ work[s].op_count \in Nat /\ work[s].op_offset \in Nat
         /\ tran_id[s] \in Nat /\ transaction_id \in Nat /\ Tile(s)
<1>1. /\ ops[s] \in Seq(Op) /\ levels[s] \in Seq(Level) /\ total_trans_size[s] \in Nat
      /\ work[s] \in Work /\ tran_id[s] \in Nat /\ transaction_id \in Nat /\ Tile(s)
  BY DEF StoreInv, SessionInv, SessionsOK, IndexInv, HeaderOK
<1>2. Len(ops[s]) \in Nat
  BY <1>1, LenProperties
<1>3. \A i \in 1 .. Len(ops[s]) : ops[s][i] \in Op
  BY <1>1, ElementOfSeq
<1>4. \A op \in Op : op.id \in Num /\ op.pos \in Nat /\ op.size \in Nat /\ EndOf(op) \in Nat
  BY DEF Op, EndOf
<1>5. Len(levels[s]) \in Nat /\ (levels[s] # << >> <=> Len(levels[s]) > 0)
      /\ \A i \in 1 .. Len(levels[s]) : levels[s][i] \in Level
  BY <1>1, SeqFacts
<1>6. \A v \in Level : v.op_offset \in Nat /\ v.op_count \in Nat /\ v.offset \in Nat /\ v.size \in Nat
  BY DEF Level
<1>7. \A w \in Work : w.size \in Nat /\ w.cursor \in Nat /\ w.op_count \in Nat /\ w.op_offset \in Nat
  BY DEF Work
<1> QED BY <1>1, <1>2, <1>3, <1>4, <1>5, <1>6, <1>7 DEF Depth, InTx

(* Every level ends where the innermost one does, or before. *)
LEMMA LevelsWithin ==
  ASSUME StoreInv, NEW s \in Session, LevelsOrdered(levels[s]), NEW l \in 1 .. Len(levels[s])
  PROVE  /\ OpsEnd(s) \in Nat /\ OpsEnd(s) <= Len(ops[s])
         /\ levels[s][l].op_offset + levels[s][l].op_count <= OpsEnd(s)
<1>1. /\ Len(levels[s]) \in Nat /\ Depth(s) = Len(levels[s]) /\ InTx(s) /\ Len(ops[s]) \in Nat
      /\ \A k \in 1 .. Len(levels[s]) :
           levels[s][k].op_offset \in Nat /\ levels[s][k].op_count \in Nat
      /\ work[s].op_count \in Nat /\ Tile(s)
  BY SessionFacts
<1>2. OpsEnd(s) = levels[s][Len(levels[s])].op_offset + levels[s][Len(levels[s])].op_count
  BY <1>1 DEF OpsEnd, Top
<1>3. OpsEnd(s) \in Nat
  BY <1>1, <1>2
<1>4. levels[s][l].op_offset + levels[s][l].op_count <= OpsEnd(s)
  <2>1. CASE l = Len(levels[s])
    BY <2>1, <1>2, <1>3
  <2>2. CASE l # Len(levels[s])
    <3>1. levels[s][l].op_offset + levels[s][l].op_count <= levels[s][Len(levels[s])].op_offset
      BY <2>2, <1>1 DEF LevelsOrdered
    <3>2. Len(levels[s]) \in 1 .. Len(levels[s])
      BY <1>1
    <3>3. levels[s][Len(levels[s])].op_offset \in Nat /\ levels[s][Len(levels[s])].op_count \in Nat
      BY <1>1, <3>2
    <3>4. levels[s][l].op_offset \in Nat /\ levels[s][l].op_count \in Nat
      BY <1>1
    <3> QED BY <3>1, <3>3, <3>4, <1>2
  <2> QED BY <2>1, <2>2
<1>5. OpsEnd(s) <= Len(ops[s])
  <2>1. Len(ops[s]) = OpsEnd(s) \/ Len(ops[s]) = OpsEnd(s) + work[s].op_count
    <3>1. pc[s] # "committing"
      BY <1>1 DEF Tile
    <3> QED BY <3>1, <1>1 DEF Tile
  <2> QED BY <2>1, <1>1, <1>3
<1> QED BY <1>3, <1>4, <1>5

(* Every level begins within the operations logged. *)
LEMMA LevelBegins ==
  ASSUME StoreInv, NEW s \in Session, LevelsOrdered(levels[s]), NEW l \in 1 .. Len(levels[s])
  PROVE  levels[s][l].op_offset \in Nat /\ levels[s][l].op_offset <= Len(ops[s])
<1>1. /\ Len(ops[s]) \in Nat /\ levels[s][l].op_offset \in Nat /\ levels[s][l].op_count \in Nat
  BY SessionFacts
<1>2. OpsEnd(s) \in Nat /\ OpsEnd(s) <= Len(ops[s])
      /\ levels[s][l].op_offset + levels[s][l].op_count <= OpsEnd(s)
  BY LevelsWithin
<1> QED BY <1>1, <1>2

(* The levels after an operation is logged. *)
LEMMA LoggedLevels ==
  ASSUME StoreInv, NEW s \in Session, InTx(s), NEW op \in Op, LogOp(s, op)
  PROVE  /\ Len(levels'[s]) = Len(levels[s])
         /\ \A l \in 1 .. Len(levels[s]) :
              /\ levels'[s][l].op_offset = levels[s][l].op_offset
              /\ levels'[s][l].offset = levels[s][l].offset
              /\ levels'[s][l].op_count =
                   IF l = Len(levels[s]) THEN levels[s][l].op_count + 1 ELSE levels[s][l].op_count
         /\ \A t \in Session \ {s} : levels'[t] = levels[t] /\ ops'[t] = ops[t]
                                     /\ total_trans_size'[t] = total_trans_size[t]
         /\ Len(ops'[s]) = Len(ops[s]) + 1 /\ ops'[s][Len(ops[s]) + 1] = op
         /\ \A i \in 1 .. Len(ops[s]) : ops'[s][i] = ops[s][i]
         /\ total_trans_size'[s] = total_trans_size[s] + op.size
<1> DEFINE d == Depth(s)
           c == Top(s).op_count + 1
           z == Top(s).size + op.size
           top == Counted(Top(s), c, z)
<1>1. /\ levels[s] \in Seq(Level) /\ d \in Nat /\ d > 0 /\ d = Len(levels[s])
      /\ levels \in [Session -> Seq(Level)] /\ ops \in [Session -> Seq(Op)]
      /\ total_trans_size \in [Session -> Nat] /\ d \in 1 .. Len(levels[s])
      /\ levels[s][d].op_count \in Nat /\ levels[s][d].size \in Nat /\ levels[s][d] \in Level
  BY SessionFacts DEF StoreInv, SessionInv, SessionsOK
<1>2. Top(s) = levels[s][d]
  BY DEF Top
<1>3. c \in Nat /\ z \in Nat
  BY <1>1, <1>2 DEF Op
<1>4. /\ levels' = [levels EXCEPT ![s] = [levels[s] EXCEPT ![d] = top]]
      /\ ops' = [ops EXCEPT ![s] = Append(ops[s], op)]
      /\ total_trans_size' = [total_trans_size EXCEPT ![s] = total_trans_size[s] + op.size]
  BY <1>1, <1>2 DEF Counted, LogOp, Level
<1> HIDE DEF c, z, top
<1>5. top \in Level /\ top.op_offset = Top(s).op_offset /\ top.offset = Top(s).offset
      /\ top.op_count = c /\ top.size = z
  <2>1. Top(s) \in Level
    BY <1>1, <1>2
  <2>2. /\ Counted(Top(s), c, z) \in Level
        /\ Counted(Top(s), c, z).op_offset = Top(s).op_offset
        /\ Counted(Top(s), c, z).offset = Top(s).offset
        /\ Counted(Top(s), c, z).op_count = c /\ Counted(Top(s), c, z).size = z
    BY <2>1, <1>3, CountedLevel
  <2> QED BY <2>2 DEF top
<1>6. /\ Len([levels[s] EXCEPT ![d] = top]) = Len(levels[s])
      /\ \A i \in 1 .. Len(levels[s]) :
           [levels[s] EXCEPT ![d] = top][i] = IF i = d THEN top ELSE levels[s][i]
  BY <1>1, <1>5, ExceptSeq
<1>7. levels'[s] = [levels[s] EXCEPT ![d] = top]
  BY <1>1, <1>4
<1>8. ops'[s] = Append(ops[s], op)
  BY <1>1, <1>4
<1>9. /\ Len(ops'[s]) = Len(ops[s]) + 1 /\ ops'[s][Len(ops[s]) + 1] = op
      /\ \A i \in 1 .. Len(ops[s]) : ops'[s][i] = ops[s][i]
  BY <1>1, <1>8, AppendProperties
<1>10. ASSUME NEW l \in 1 .. Len(levels[s])
       PROVE  /\ levels'[s][l].op_offset = levels[s][l].op_offset
              /\ levels'[s][l].offset = levels[s][l].offset
              /\ levels'[s][l].op_count =
                   IF l = Len(levels[s]) THEN levels[s][l].op_count + 1 ELSE levels[s][l].op_count
  <2>1. levels'[s][l] = IF l = d THEN top ELSE levels[s][l]
    BY <1>6, <1>7
  <2>2. c = levels[s][d].op_count + 1
    BY <1>2 DEF c
  <2> QED BY <2>1, <2>2, <1>1, <1>2, <1>5
<1> QED BY <1>1, <1>4, <1>6, <1>7, <1>9, <1>10

(* An operation that is logged stores its cells behind all others. *)
LEMMA LogOrder ==
  ASSUME StoreInv, StoreInv', OrderOK, NEW s \in Session, InTx(s), NEW op \in Op, LogOp(s, op),
         pc[s] = "idle", pc'[s] \in {"idle", "storing"}, \A t \in Session \ {s} : pc'[t] = pc[t],
         work' = work, total_trans_size[s] + op.size <= MaxTransData,
         Changes(op) => op.pos = total_trans_size[s]
  PROVE  OrderOK'
<1> DEFINE m == Len(ops[s])
           b == total_trans_size[s]
<1>1. /\ m \in Nat /\ b \in Nat /\ Len(levels[s]) \in Nat /\ op.size \in Nat /\ op.pos \in Nat
      /\ \A i \in 1 .. m : ops[s][i] \in Op /\ ops[s][i].pos \in Nat /\ EndOf(ops[s][i]) \in Nat
      /\ \A l \in 1 .. Len(levels[s]) : /\ levels[s][l].op_offset \in Nat
                                        /\ levels[s][l].op_count \in Nat
                                        /\ levels[s][l].offset \in Nat
  BY SessionFacts DEF Op
<1>2. InOrder(s)
  BY DEF OrderOK
<1>3. /\ Len(levels'[s]) = Len(levels[s])
      /\ \A l \in 1 .. Len(levels[s]) :
              /\ levels'[s][l].op_offset = levels[s][l].op_offset
              /\ levels'[s][l].offset = levels[s][l].offset
              /\ levels'[s][l].op_count =
                   IF l = Len(levels[s]) THEN levels[s][l].op_count + 1 ELSE levels[s][l].op_count
      /\ \A t \in Session \ {s} : levels'[t] = levels[t] /\ ops'[t] = ops[t]
                                  /\ total_trans_size'[t] = total_trans_size[t]
      /\ Len(ops'[s]) = m + 1 /\ ops'[s][m + 1] = op
      /\ \A i \in 1 .. m : ops'[s][i] = ops[s][i]
      /\ total_trans_size'[s] = b + op.size
  BY LoggedLevels
<1>4. /\ OpsBefore(ops[s], m, b) /\ OpsApart(ops[s]) /\ LevelsOrdered(levels[s])
      /\ \A l \in 1 .. Len(levels[s]) : OpsBefore(ops[s], levels[s][l].op_offset, levels[s][l].offset)
  BY <1>2 DEF InOrder
<1>5. \A l \in 1 .. Len(levels[s]) : levels[s][l].op_offset <= m
  BY <1>4, LevelBegins
<1> HIDE DEF m, b
<1>6. ASSUME NEW k \in Int, NEW c \in Int, NEW d \in Int, k <= m, c <= d, OpsBefore(ops[s], k, c)
      PROVE  OpsBefore(ops'[s], k, d)
  <2>1. \A i \in 1 .. Len(ops'[s]) : i <= k => i <= Len(ops[s]) /\ ops'[s][i] = ops[s][i]
    BY <1>1, <1>3, <1>6 DEF m
  <2>2. Len(ops'[s]) \in Nat /\ Len(ops[s]) \in Nat /\ \A i \in 1 .. Len(ops[s]) : ops[s][i] \in Op
    BY <1>1, <1>3 DEF m
  <2> QED BY <2>1, <2>2, <1>6, BeforeKept
<1>7. OpsBefore(ops'[s], m + 1, b + op.size)
  <2> SUFFICES ASSUME NEW i \in 1 .. m + 1, Changes(ops'[s][i])
               PROVE  EndOf(ops'[s][i]) <= b + op.size
    BY <1>3 DEF OpsBefore
  <2>1. CASE i = m + 1
    BY <2>1, <1>1, <1>3 DEF EndOf, b
  <2>2. CASE i # m + 1
    <3>1. i \in 1 .. m
      BY <2>2, <1>1
    <3>2. EndOf(ops[s][i]) <= b
      BY <3>1, <1>3, <1>4 DEF OpsBefore, m
    <3> QED BY <3>1, <3>2, <1>1, <1>3
  <2> QED BY <2>1, <2>2
<1>8. OpsApart(ops'[s])
  <2> SUFFICES ASSUME NEW i \in 1 .. m + 1, Changes(ops'[s][i])
               PROVE  OpsBefore(ops'[s], i - 1, ops'[s][i].pos)
    BY <1>3 DEF OpsApart
  <2>1. CASE i = m + 1
    <3>1. OpsBefore(ops'[s], m, b)
      BY <1>1, <1>4, <1>6
    <3>2. ops'[s][i].pos = b /\ i - 1 = m
      BY <2>1, <1>1, <1>3 DEF b
    <3> QED BY <3>1, <3>2
  <2>2. CASE i # m + 1
    <3>1. i \in 1 .. m /\ i - 1 \in Int /\ i - 1 <= m
      BY <2>2, <1>1
    <3>2. OpsBefore(ops[s], i - 1, ops[s][i].pos)
      BY <3>1, <1>3, <1>4 DEF OpsApart, m
    <3>3. ops[s][i].pos \in Int /\ ops[s][i].pos <= ops[s][i].pos
      BY <3>1, <1>1
    <3> QED BY <3>1, <3>2, <3>3, <1>3, <1>6
  <2> QED BY <2>1, <2>2
<1>9. LevelsOrdered(levels'[s])
  <2> SUFFICES ASSUME NEW k \in 1 .. Len(levels[s]), NEW l \in 1 .. Len(levels[s]), k < l
               PROVE  levels'[s][k].op_offset + levels'[s][k].op_count <= levels'[s][l].op_offset
    BY <1>3 DEF LevelsOrdered
  <2>1. levels[s][k].op_offset + levels[s][k].op_count <= levels[s][l].op_offset
    BY <1>4 DEF LevelsOrdered
  <2>2. k # Len(levels[s])
    BY <1>1
  <2> QED BY <2>1, <2>2, <1>3
<1>10. ASSUME NEW l \in 1 .. Len(levels[s])
       PROVE  OpsBefore(ops'[s], levels'[s][l].op_offset, levels'[s][l].offset)
  <2>1. levels[s][l].op_offset \in Int /\ levels[s][l].offset \in Int
        /\ levels[s][l].op_offset <= m /\ levels[s][l].offset <= levels[s][l].offset
    BY <1>1, <1>5
  <2>2. OpsBefore(ops'[s], levels[s][l].op_offset, levels[s][l].offset)
    BY <2>1, <1>4, <1>6
  <2> QED BY <2>2, <1>3
<1>11. InOrder(s)'
  BY <1>3, <1>7, <1>8, <1>9, <1>10 DEF InOrder, b
<1>12. ASSUME NEW t \in Session \ {s} PROVE InOrder(t)'
  BY <1>3, OrderFrame DEF OrderOK
<1> QED BY <1>11, <1>12 DEF OrderOK

(* transaction_start: the new level begins behind all operations. *)
LEMMA StartedLevels ==
  ASSUME StoreInv, NEW s \in Session, TransactionStart(s)
  PROVE  LET d == Len(levels[s])
         IN /\ Len(levels'[s]) = d + 1
            /\ \A l \in 1 .. d : levels'[s][l] = levels[s][l]
            /\ levels'[s][d + 1].op_offset = Len(ops[s])
            /\ levels'[s][d + 1].offset = total_trans_size[s]
            /\ levels'[s][d + 1].op_count = 0
            /\ \A t \in Session \ {s} : levels'[t] = levels[t]
<1> DEFINE new == [size |-> 0, offset |-> total_trans_size[s], op_count |-> 0, op_offset |-> Len(ops[s])]
<1>1. levels[s] \in Seq(Level) /\ levels \in [Session -> Seq(Level)] /\ new \in Level
      /\ total_trans_size[s] \in Nat /\ Len(ops[s]) \in Nat
  BY SessionFacts DEF StoreInv, SessionInv, SessionsOK, Level
<1>2. levels' = [levels EXCEPT ![s] = Append(levels[s], new)]
  BY DEF TransactionStart
<1>3. new.op_offset = Len(ops[s]) /\ new.offset = total_trans_size[s] /\ new.op_count = 0
  OBVIOUS
<1> HIDE DEF new
<1>4. levels'[s] = Append(levels[s], new) /\ \A t \in Session \ {s} : levels'[t] = levels[t]
  BY <1>1, <1>2
<1> QED BY <1>1, <1>3, <1>4, AppendProperties

LEMMA StartOrder ==
  ASSUME StoreInv, OrderOK, NEW s \in Session, TransactionStart(s)
  PROVE  OrderOK'
<1> DEFINE d == Len(levels[s])
           m == Len(ops[s])
           b == total_trans_size[s]
<1>1. /\ m \in Nat /\ b \in Nat /\ d \in Nat /\ pc[s] = "idle"
      /\ \A l \in 1 .. d : /\ levels[s][l].op_offset \in Nat /\ levels[s][l].op_count \in Nat
      /\ UNCHANGED << ops, total_trans_size, pc, work >>
  BY SessionFacts DEF TransactionStart, Section
<1>2. /\ Len(levels'[s]) = d + 1
      /\ \A l \in 1 .. d : levels'[s][l] = levels[s][l]
      /\ levels'[s][d + 1].op_offset = m /\ levels'[s][d + 1].offset = b
      /\ levels'[s][d + 1].op_count = 0
      /\ \A t \in Session \ {s} : levels'[t] = levels[t]
  BY StartedLevels
<1>3. /\ InOrder(s) /\ OpsBefore(ops[s], m, b) /\ LevelsOrdered(levels[s])
      /\ \A l \in 1 .. d : OpsBefore(ops[s], levels[s][l].op_offset, levels[s][l].offset)
  BY DEF InOrder, OrderOK
<1>4. \A l \in 1 .. d : levels[s][l].op_offset + levels[s][l].op_count <= m
  <2> SUFFICES ASSUME NEW l \in 1 .. d PROVE levels[s][l].op_offset + levels[s][l].op_count <= m
    OBVIOUS
  <2>1. OpsEnd(s) \in Nat /\ OpsEnd(s) <= m /\ levels[s][l].op_offset + levels[s][l].op_count <= OpsEnd(s)
    BY <1>3, LevelsWithin
  <2>2. levels[s][l].op_offset \in Nat /\ levels[s][l].op_count \in Nat
    BY <1>1
  <2> QED BY <2>1, <2>2, <1>1
<1> HIDE DEF d, m, b
<1>5. LevelsOrdered(levels'[s])
  <2> SUFFICES ASSUME NEW k \in 1 .. d + 1, NEW l \in 1 .. d + 1, k < l
               PROVE  levels'[s][k].op_offset + levels'[s][k].op_count <= levels'[s][l].op_offset
    BY <1>2 DEF LevelsOrdered
  <2>1. k \in 1 .. d
    BY <1>1
  <2>2. CASE l = d + 1
    BY <2>1, <2>2, <1>2, <1>4
  <2>3. CASE l # d + 1
    <3>1. l \in 1 .. d
      BY <2>3, <1>1
    <3>2. levels[s][k].op_offset + levels[s][k].op_count <= levels[s][l].op_offset
      BY <2>1, <3>1, <1>3 DEF LevelsOrdered, d
    <3> QED BY <2>1, <3>1, <3>2, <1>2
  <2> QED BY <2>2, <2>3
<1>6. ASSUME NEW l \in 1 .. d + 1
      PROVE  OpsBefore(ops[s], levels'[s][l].op_offset, levels'[s][l].offset)
  <2>1. CASE l = d + 1
    BY <2>1, <1>2, <1>3
  <2>2. CASE l # d + 1
    <3>1. l \in 1 .. d
      BY <2>2, <1>1
    <3> QED BY <3>1, <1>2, <1>3
  <2> QED BY <2>1, <2>2
<1>7. InOrder(s)'
  BY <1>1, <1>2, <1>3, <1>5, <1>6 DEF InOrder
<1>8. ASSUME NEW t \in Session \ {s} PROVE InOrder(t)'
  BY <1>1, <1>2, OrderFrame DEF OrderOK
<1> QED BY <1>7, <1>8 DEF OrderOK

(* The levels after the innermost transaction is committed into the next. *)
LEMMA InnerLevels ==
  ASSUME StoreInv, NEW s \in Session, CommitInner(s)
  PROVE  LET d == Len(levels[s])
         IN /\ d > 1 /\ Len(levels'[s]) = d - 1
            /\ \A l \in 1 .. d - 1 :
                 /\ levels'[s][l].op_offset = levels[s][l].op_offset
                 /\ levels'[s][l].offset = levels[s][l].offset
                 /\ levels'[s][l].op_count =
                      IF l = d - 1 THEN levels[s][l].op_count + levels[s][d].op_count
                      ELSE levels[s][l].op_count
            /\ \A t \in Session \ {s} : levels'[t] = levels[t]
<1> DEFINE d == Len(levels[s]) - 1
           q == Pop(s)
           c == q[d].op_count + Top(s).op_count
           z == q[d].size + Top(s).size
           y == Counted(q[d], c, z)
<1>1. Depth(s) > 1 /\ Depth(s) = Len(levels[s]) /\ Depth(s) \in Nat /\ InTx(s) /\ SessionInv
      /\ levels \in [Session -> Seq(Level)]
      /\ \A l \in 1 .. Len(levels[s]) :
           levels[s][l] \in Level /\ levels[s][l].op_count \in Nat /\ levels[s][l].size \in Nat
  BY SessionFacts DEF CommitInner, StoreInv, SessionInv, SessionsOK
<1>2. /\ q \in Seq(Level) /\ Len(q) = d
      /\ \A l \in 1 .. d : q[l] = levels[s][l]
  BY <1>1, PopIsPopped
<1>3. d \in 1 .. Len(levels[s]) /\ d \in 1 .. Len(q) /\ d \in Nat
      /\ Len(levels[s]) \in 1 .. Len(levels[s]) /\ Top(s) = levels[s][Len(levels[s])]
  BY <1>1, <1>2 DEF Top
<1>4. q[d] = levels[s][d]
  BY <1>2, <1>3
<1>5. c \in Nat /\ z \in Nat
  BY <1>1, <1>3, <1>4
<1>6. levels' = [levels EXCEPT ![s] = [q EXCEPT ![d] = y]]
  BY <1>1, <1>2, <1>3, <1>4 DEF Counted, CommitInner, Level
<1> HIDE DEF c, z, q
<1>7. /\ y \in Level /\ y.op_offset = q[d].op_offset /\ y.offset = q[d].offset /\ y.op_count = c
  <2> HIDE DEF d
  <2>1. q[d] \in Level
    BY <1>1, <1>3, <1>4
  <2>2. /\ Counted(q[d], c, z) \in Level
        /\ Counted(q[d], c, z).op_offset = q[d].op_offset
        /\ Counted(q[d], c, z).offset = q[d].offset
        /\ Counted(q[d], c, z).op_count = c /\ Counted(q[d], c, z).size = z
    BY <2>1, <1>5, CountedLevel
  <2> QED BY <2>2
<1> HIDE DEF y
<1>8. levels'[s] = [q EXCEPT ![d] = y] /\ \A t \in Session \ {s} : levels'[t] = levels[t]
  BY <1>1, <1>6
<1>9. Len(levels'[s]) = d /\ \A l \in 1 .. d : levels'[s][l] = IF l = d THEN y ELSE q[l]
  <2> HIDE DEF d
  <2> QED BY <1>2, <1>3, <1>7, <1>8, ExceptSeq
<1>10. ASSUME NEW l \in 1 .. d
       PROVE  /\ levels'[s][l].op_offset = levels[s][l].op_offset
              /\ levels'[s][l].offset = levels[s][l].offset
              /\ levels'[s][l].op_count = IF l = d
                   THEN levels[s][l].op_count + levels[s][Len(levels[s])].op_count
                   ELSE levels[s][l].op_count
  <2> HIDE DEF d
  <2>1. levels'[s][l] = (IF l = d THEN y ELSE q[l]) /\ q[l] = levels[s][l]
    BY <1>2, <1>9
  <2>2. c = levels[s][d].op_count + levels[s][Len(levels[s])].op_count
    BY <1>3, <1>4 DEF c
  <2> QED BY <2>1, <2>2, <1>7
<1> QED BY <1>1, <1>8, <1>9, <1>10

LEMMA InnerOrder ==
  ASSUME StoreInv, OrderOK, NEW s \in Session, CommitInner(s)
  PROVE  OrderOK'
<1> DEFINE d == Len(levels[s])
<1>1. /\ d \in Nat /\ UNCHANGED << ops, total_trans_size, pc, work >> /\ pc[s] = "idle"
      /\ \A l \in 1 .. d : levels[s][l].op_offset \in Nat /\ levels[s][l].op_count \in Nat
  BY SessionFacts DEF CommitInner, Section
<1>2. /\ d > 1 /\ Len(levels'[s]) = d - 1
      /\ \A l \in 1 .. d - 1 :
           /\ levels'[s][l].op_offset = levels[s][l].op_offset
           /\ levels'[s][l].offset = levels[s][l].offset
           /\ levels'[s][l].op_count =
                IF l = d - 1 THEN levels[s][l].op_count + levels[s][d].op_count
                ELSE levels[s][l].op_count
      /\ \A t \in Session \ {s} : levels'[t] = levels[t]
  BY InnerLevels
<1>3. /\ InOrder(s) /\ LevelsOrdered(levels[s])
      /\ \A l \in 1 .. d : OpsBefore(ops[s], levels[s][l].op_offset, levels[s][l].offset)
  BY DEF InOrder, OrderOK
<1>4. LevelsOrdered(levels'[s])
  <2> SUFFICES ASSUME NEW k \in 1 .. d - 1, NEW l \in 1 .. d - 1, k < l
               PROVE  levels'[s][k].op_offset + levels'[s][k].op_count <= levels'[s][l].op_offset
    BY <1>2 DEF LevelsOrdered
  <2>1. k # d - 1 /\ k \in 1 .. d /\ l \in 1 .. d
    BY <1>1
  <2>2. levels[s][k].op_offset + levels[s][k].op_count <= levels[s][l].op_offset
    BY <2>1, <1>3 DEF LevelsOrdered
  <2> QED BY <2>1, <2>2, <1>2
<1>5. ASSUME NEW l \in 1 .. d - 1
      PROVE  OpsBefore(ops[s], levels'[s][l].op_offset, levels'[s][l].offset)
  <2>1. l \in 1 .. d
    BY <1>1
  <2> QED BY <2>1, <1>2, <1>3
<1>6. InOrder(s)'
  BY <1>1, <1>2, <1>3, <1>4, <1>5 DEF InOrder
<1>7. ASSUME NEW t \in Session \ {s} PROVE InOrder(t)'
  BY <1>1, <1>2, OrderFrame DEF OrderOK
<1> QED BY <1>6, <1>7 DEF OrderOK

(* The levels after the innermost transaction is taken away, and the locals of *)
(* the commit or rollback that begins.                                         *)
LEMMA BegunLevels ==
  ASSUME StoreInv, NEW s \in Session, CommitBegin(s) \/ RollbackBegin(s)
  PROVE  LET d == Len(levels[s])
         IN /\ d > 0 /\ InTx(s) /\ Len(levels'[s]) = d - 1
            /\ \A l \in 1 .. d - 1 : levels'[s][l] = levels[s][l]
            /\ \A t \in Session \ {s} : levels'[t] = levels[t] /\ work'[t] = work[t] /\ pc'[t] = pc[t]
            /\ work'[s].cursor = levels[s][d].op_count
            /\ CommitBegin(s) => d = 1 /\ pc'[s] = "committing" /\ work'[s].op_offset = 0
            /\ RollbackBegin(s) => /\ pc'[s] = "rolling back"
                                   /\ work'[s].op_offset = levels[s][d].op_offset
                                   /\ work'[s].size = levels[s][d].size
<1>1. /\ Depth(s) = Len(levels[s]) /\ Depth(s) \in Nat /\ (InTx(s) <=> Depth(s) > 0) /\ SessionInv
      /\ levels \in [Session -> Seq(Level)] /\ work \in [Session -> Work] /\ pc \in [Session -> PC]
  BY SessionFacts DEF StoreInv, SessionInv, SessionsOK
<1>2. InTx(s) /\ (CommitBegin(s) => Depth(s) = 1)
  <2>1. CommitBegin(s) => Depth(s) = 1
    BY DEF CommitBegin
  <2>2. RollbackBegin(s) => InTx(s)
    BY DEF RollbackBegin
  <2> QED BY <2>1, <2>2, <1>1
<1>3. /\ Len(Pop(s)) = Depth(s) - 1 /\ \A l \in 1 .. Depth(s) - 1 : Pop(s)[l] = levels[s][l]
  BY <1>1, <1>2, PopIsPopped
<1>4. levels' = [levels EXCEPT ![s] = Pop(s)]
  BY DEF CommitBegin, RollbackBegin
<1>5. levels'[s] = Pop(s) /\ \A t \in Session \ {s} : levels'[t] = levels[t]
  BY <1>1, <1>4
<1>6. \A t \in Session \ {s} : work'[t] = work[t] /\ pc'[t] = pc[t]
  BY <1>1 DEF CommitBegin, RollbackBegin
<1>7. Top(s) = levels[s][Len(levels[s])]
  BY <1>1 DEF Top
<1>8. CASE CommitBegin(s)
  <2>1. work'[s] = [NoWork EXCEPT !.cursor = Top(s).op_count, !.op_count = Top(s).op_count]
        /\ pc'[s] = "committing"
    BY <1>1, <1>8 DEF CommitBegin
  <2>2. work'[s].cursor = Top(s).op_count /\ work'[s].op_offset = 0
    BY <2>1 DEF NoWork
  <2>3. ~RollbackBegin(s)
    BY <2>1, <1>1 DEF RollbackBegin
  <2> QED BY <2>1, <2>2, <2>3, <1>1, <1>2, <1>3, <1>5, <1>6, <1>7
<1>9. CASE RollbackBegin(s)
  <2>1. work'[s] = [NoWork EXCEPT !.cursor = Top(s).op_count, !.op_count = Top(s).op_count,
                                  !.op_offset = Top(s).op_offset, !.size = Top(s).size]
        /\ pc'[s] = "rolling back"
    BY <1>1, <1>9 DEF RollbackBegin
  <2>2. work'[s].cursor = Top(s).op_count /\ work'[s].op_offset = Top(s).op_offset
        /\ work'[s].size = Top(s).size
    BY <2>1 DEF NoWork
  <2>3. ~CommitBegin(s)
    BY <2>1, <1>1 DEF CommitBegin
  <2> QED BY <2>1, <2>2, <2>3, <1>1, <1>2, <1>3, <1>5, <1>6, <1>7
<1> QED BY <1>8, <1>9

LEMMA BeginOrder ==
  ASSUME StoreInv, OrderOK, NEW s \in Session, CommitBegin(s) \/ RollbackBegin(s)
  PROVE  OrderOK'
<1> DEFINE d == Len(levels[s])
<1>1. /\ d \in Nat /\ UNCHANGED << ops, total_trans_size >> /\ pc[s] = "idle"
      /\ Depth(s) = d /\ Tile(s) /\ total_trans_size[s] \in Nat
      /\ \A l \in 1 .. d : levels[s][l].offset \in Nat /\ levels[s][l].size \in Nat
  BY SessionFacts DEF CommitBegin, RollbackBegin, Section
<1>2. /\ d > 0 /\ InTx(s) /\ Len(levels'[s]) = d - 1
      /\ \A l \in 1 .. d - 1 : levels'[s][l] = levels[s][l]
      /\ \A t \in Session \ {s} : levels'[t] = levels[t] /\ work'[t] = work[t] /\ pc'[t] = pc[t]
      /\ CommitBegin(s) => pc'[s] = "committing"
      /\ RollbackBegin(s) => /\ work'[s].op_offset = levels[s][d].op_offset
                             /\ work'[s].size = levels[s][d].size
  BY BegunLevels
<1>3. /\ InOrder(s) /\ LevelsOrdered(levels[s])
      /\ \A l \in 1 .. d : OpsBefore(ops[s], levels[s][l].op_offset, levels[s][l].offset)
  BY DEF InOrder, OrderOK
<1>4. LevelsOrdered(levels'[s])
  <2> SUFFICES ASSUME NEW k \in 1 .. d - 1, NEW l \in 1 .. d - 1, k < l
               PROVE  levels'[s][k].op_offset + levels'[s][k].op_count <= levels'[s][l].op_offset
    BY <1>2 DEF LevelsOrdered
  <2>1. k \in 1 .. d /\ l \in 1 .. d
    BY <1>1
  <2> QED BY <2>1, <1>2, <1>3 DEF LevelsOrdered
<1>5. \A l \in 1 .. d - 1 : OpsBefore(ops[s], levels'[s][l].op_offset, levels'[s][l].offset)
  <2>1. \A l \in 1 .. d - 1 : l \in 1 .. d
    BY <1>1
  <2> QED BY <2>1, <1>2, <1>3
<1>6. RollbackBegin(s) => OpsBefore(ops[s], work'[s].op_offset, total_trans_size[s] - work'[s].size)
  <2> SUFFICES ASSUME RollbackBegin(s)
               PROVE  OpsBefore(ops[s], work'[s].op_offset, total_trans_size[s] - work'[s].size)
    OBVIOUS
  <2>1. d \in 1 .. d /\ Top(s) = levels[s][d]
    BY <1>1, <1>2 DEF Top
  <2>2. total_trans_size[s] = levels[s][d].offset + levels[s][d].size
    BY <2>1, <1>1, <1>2 DEF Tile, DataEnd
  <2>3. levels[s][d].offset \in Nat /\ levels[s][d].size \in Nat
    BY <2>1, <1>1
  <2>4. total_trans_size[s] - work'[s].size = levels[s][d].offset
    BY <2>2, <2>3, <1>2
  <2> QED BY <2>1, <2>4, <1>2, <1>3
<1>7. InOrder(s)'
  BY <1>1, <1>2, <1>3, <1>4, <1>5, <1>6 DEF InOrder
<1>8. ASSUME NEW t \in Session \ {s} PROVE InOrder(t)'
  BY <1>1, <1>2, OrderFrame DEF OrderOK
<1> QED BY <1>7, <1>8 DEF OrderOK

-----------------------------------------------------------------------------
(* The forms that a store or a destroy takes.                                 *)

(* An entry taken for an object that has no id yet. *)
Fresh(n, e) ==
  /\ n >= total_entries \/ index[n].trans = "free_list"
  /\ ~HasMark(n) /\ e.trans = "none" /\ e.tran_op = 0 /\ e.pos = 0 /\ e.size = 0

(* An entry of an object that the session may change. *)
Present(s, n, e) ==
  /\ e = index[n] /\ n < total_entries /\ Writable(s, e)
  /\ e.trans # "free_list"

NewTotal(n) ==
  /\ total_entries \in Nat /\ total_entries' \in Nat /\ total_entries' >= total_entries
  /\ n < total_entries' /\ \A m \in total_entries .. total_entries' - 1 : m = n

StoreForm(s, n, e, isNew, size, val) ==
  /\ Section(s) /\ Store(s, n, e, isNew, size, val)
  /\ index[n].lock = "none" /\ e.lock = "none" /\ NewTotal(n)
  /\ \/ isNew = TRUE /\ Fresh(n, e)
     \/ isNew = FALSE /\ Present(s, n, e) /\ ~CurrentlyReading(n) /\ ~CurrentlyWriting(n)

LEMMA StoreForms ==
  ASSUME ~StaleIds, StoreInv, MarkInv, ExtentInv, NEW s \in Session, NEW size \in Size,
         NEW val \in Value,
         Create(s, size, val) \/ Revive(s, size, val) \/ \E n \in Num : Update(s, n, size, val)
  PROVE  \E n \in Num, e \in Entry, isNew \in BOOLEAN : StoreForm(s, n, e, isNew, size, val)
<1>1. HeaderOK /\ ListOK /\ Unnamed /\ FreeEmpty
  BY DEF StoreInv, IndexInv, MarkInv, ExtentInv
<1>2. total_entries \in Nat /\ MaxEntries \in Nat /\ total_entries <= MaxEntries
  BY <1>1, NumFacts
<1>3. CASE Create(s, size, val)
  <2> DEFINE n == total_entries
  <2>1. /\ Section(s) /\ n < MaxEntries /\ total_entries' = n + 1
        /\ Store(s, n, Blank, TRUE, size, val)
    BY <1>3 DEF Create
  <2>2. n \in Num /\ total_entries' \in Nat /\ total_entries' >= total_entries /\ n < total_entries'
        /\ (\A m \in total_entries .. total_entries' - 1 : m = n) /\ n >= total_entries
    BY <1>2, <2>1 DEF Num
  <2> HIDE DEF n
  <2>3. index[n].trans = "none" /\ index[n].lock = "none"
    BY <1>1, <1>2, <2>2, NotLocked DEF Unnamed, n
  <2>4. ~HasMark(n) /\ Blank \in Entry /\ Blank.trans = "none" /\ Blank.tran_op = 0
        /\ Blank.pos = 0 /\ Blank.size = 0 /\ Blank.lock = "none"
    BY <2>3, NoWriteOK DEF HasMark, Blank
  <2>5. NewTotal(n) /\ Fresh(n, Blank)
    BY <1>2, <2>2, <2>4 DEF NewTotal, Fresh
  <2>6. StoreForm(s, n, Blank, TRUE, size, val)
    BY <2>1, <2>3, <2>4, <2>5 DEF StoreForm
  <2> QED BY <2>2, <2>4, <2>6
<1>4. CASE Revive(s, size, val)
  <2> DEFINE n == index_free_list - 1
             was == index[n]
             trans == "none"
             pos == 0
             e == [was EXCEPT !.trans = trans, !.pos = pos]
  <2>1. /\ Section(s) /\ index_free_list # 0 /\ Store(s, n, e, TRUE, size, val)
        /\ UNCHANGED total_entries /\ was.lock = "none"
    BY <1>4 DEF Revive
  <2>2. n \in Free
    BY <1>1, <2>1 DEF ListOK, FreeListLinks
  <2>3. n \in Num /\ n \in 0 .. total_entries - 1
    BY <1>1, <2>2, NumFacts
  <2>4. was \in Entry /\ was.trans = "free_list" /\ was.size = 0
    BY <1>1, <2>2, <2>3 DEF HeaderOK, Free, FreeEmpty
  <2>5. ~HasMark(n) /\ was.tran_op = 0
    BY <1>1, <2>3, <2>4 DEF HasMark, Unnamed
  <2>6. e \in Entry /\ e.trans = "none" /\ e.tran_op = 0 /\ e.lock = "none" /\ e.pos = 0 /\ e.size = 0
    <3>1. trans \in {"none", "change", "delete", "free_list"} /\ pos \in Int
      OBVIOUS
    <3> HIDE DEF was, trans, pos
    <3>2. e \in Entry /\ e.trans = trans /\ e.tran_op = was.tran_op /\ e.lock = was.lock
          /\ e.pos = pos /\ e.size = was.size
      BY <2>4, <3>1 DEF Entry
    <3> QED BY <2>1, <2>4, <2>5, <3>2 DEF trans, pos
  <2>7. NewTotal(n)
    <3>1. /\ total_entries' = total_entries /\ n < total_entries'
      BY <1>2, <2>1, <2>3
    <3>2. \A m \in total_entries .. total_entries - 1 : FALSE
      BY <1>2
    <3> QED BY <1>2, <3>1, <3>2 DEF NewTotal
  <2>8. index[n].trans = "free_list"
    BY <2>4
  <2> HIDE DEF e, n
  <2>9. Fresh(n, e)
    BY <2>5, <2>6, <2>8 DEF Fresh
  <2>10. StoreForm(s, n, e, TRUE, size, val)
    BY <2>1, <2>6, <2>7, <2>9 DEF StoreForm
  <2> QED BY <2>3, <2>6, <2>10
<1>5. ASSUME NEW n \in Num, Update(s, n, size, val)
      PROVE  \E m \in Num, e \in Entry, isNew \in BOOLEAN : StoreForm(s, m, e, isNew, size, val)
  <2>1. /\ Section(s) /\ Known(n) /\ Writable(s, index[n])
        /\ Store(s, n, index[n], FALSE, size, val) /\ UNCHANGED total_entries
        /\ ~CurrentlyReading(n) /\ ~CurrentlyWriting(n)
    BY <1>5 DEF Update
  <2>2. index[n] \in Entry /\ index[n].trans # "free_list" /\ n < total_entries
    BY <1>1, <2>1, KnownIsStored
  <2>3. NewTotal(n)
    <3>1. \A m \in total_entries .. total_entries - 1 : FALSE
      BY <1>2
    <3> QED BY <1>2, <2>1, <2>2, <3>1 DEF NewTotal
  <2>4. index[n].lock = "none"
    BY <2>1 DEF Writable
  <2>5. StoreForm(s, n, index[n], FALSE, size, val)
    BY <2>1, <2>2, <2>3, <2>4 DEF StoreForm, Present
  <2> QED BY <2>2, <2>5
<1> QED BY <1>3, <1>4, <1>5

(* What an operation logged for an entry does. *)
LoggedOp(s, n, op) ==
  /\ op \in Op /\ op.id = n /\ LogOp(s, op) /\ total_trans_size[s] + op.size <= MaxTransData
  /\ Changes(op) => op.pos = total_trans_size[s]

LoggedEntry(s, n, op, x) ==
  /\ index' = [index EXCEPT ![n] = x] /\ x \in Entry
  /\ x.tran_id = tran_id[s] /\ x.lock = "none" /\ index[n].lock = "none"
  /\ IF Changes(op) THEN x.trans = "change" /\ x.tran_op = Len(ops[s]) + 1 ELSE x.trans = "delete"

LoggedFor(s, n, op, x) ==
  \/ /\ n >= total_entries \/ index[n].trans = "free_list"
     /\ ~HasMark(n) /\ op.old_tran_id = -1 /\ Changes(op)
  \/ /\ op.old_tran_id # -1 /\ x.pos = index[n].pos /\ x.size = index[n].size
     /\ Present(s, n, index[n])

LoggedCall(s, op) ==
  /\ \A t \in Session \ {s} : pc'[t] = pc[t] /\ write'[t] = write[t]
  /\ pc'[s] \in {"idle", "storing"} /\ (pc'[s] = "storing" <=> Changes(op))
  /\ Changes(op) => write'[s].val \in Value
  /\ ~Changes(op) => write'[s] = write[s]
  /\ UNCHANGED << data, rp_impl_lock, trans_data, page_copy, read, work, total_size_of_data,
                  transaction_id, tran_id >>

LoggedForm(s, n, op, x) ==
  /\ Section(s) /\ InTx(s) /\ NewTotal(n) /\ LoggedOp(s, n, op) /\ LoggedEntry(s, n, op, x)
  /\ LoggedFor(s, n, op, x) /\ LoggedCall(s, op)

LEMMA StoreLogs ==
  ASSUME StoreInv, MarkInv, NEW s \in Session, NEW n \in Num, NEW e \in Entry,
         NEW isNew \in BOOLEAN, NEW size \in Size, NEW val \in Value,
         StoreForm(s, n, e, isNew, size, val), StoreInTx(s, n, e, isNew, size, val)
  PROVE  \E op \in Op, x \in Entry :
           /\ LoggedForm(s, n, op, x) /\ Changes(op) /\ op.size = size
           /\ write'[s].val = val
<1> DEFINE op == StoreOp(s, n, e, isNew, size)
           at == Top(s).op_offset + Top(s).op_count + 1
           id == tran_id[s]
           trans == "change"
           x == Marked(e, id, at, trans)
<1>1. /\ Section(s) /\ InTx(s) /\ pc[s] = "idle" /\ SessionInv /\ SessionsOK /\ NewTotal(n)
      /\ index[n].lock = "none" /\ e.lock = "none"
      /\ UNCHANGED << data, rp_impl_lock, trans_data, page_copy, read, work >>
      /\ write \in [Session -> Write]
  BY DEF StoreForm, Section, StoreInTx, StoreInv, SessionInv, Store, IndexInv, HeaderOK
<1>2. /\ op \in Op /\ op.id = n /\ op.pos = total_trans_size[s] /\ op.size = size /\ at \in Nat
  BY <1>1, StoreOpFits
<1>3. op.type \in {"update", "append"} /\ op.old_tran_id = IF isNew THEN -1 ELSE e.tran_id
  BY DEF StoreOp
<1>4. Changes(op)
  BY <1>3 DEF Changes
<1>5. /\ LogOp(s, op) /\ total_trans_size[s] + size <= MaxTransData
      /\ index' = [index EXCEPT ![n] = x] /\ pc' = [pc EXCEPT ![s] = "storing"]
      /\ UNCHANGED << total_size_of_data, transaction_id, tran_id >>
  BY DEF StoreInTx, Marked
<1>6. at = Len(ops[s]) + 1
  BY <1>1 DEF SessionInv, Tile, OpsEnd
<1>7. id \in Nat /\ trans \in {"none", "change", "delete", "free_list"}
  BY <1>1 DEF SessionsOK
<1>8. write'[s].val = val /\ \A t \in Session \ {s} : write'[t] = write[t]
  BY <1>1 DEF StoreInTx, NoWrite
<1>9. \A t \in Session \ {s} : pc'[t] = pc[t]
  BY <1>1, <1>5 DEF SessionsOK
<1>10. pc'[s] = "storing"
  BY <1>1, <1>5 DEF SessionsOK
<1> HIDE DEF op, at, id, trans
<1>11. x \in Entry /\ x.tran_id = id /\ x.lock = e.lock /\ x.trans = trans /\ x.tran_op = at
       /\ x.pos = e.pos /\ x.size = e.size
  BY <1>2, <1>7 DEF Marked, Entry
<1> HIDE DEF x
<1>12. LoggedOp(s, n, op) /\ LoggedEntry(s, n, op, x)
  BY <1>1, <1>2, <1>4, <1>5, <1>6, <1>11 DEF LoggedOp, LoggedEntry, id, trans
<1>13. LoggedFor(s, n, op, x)
  <2>1. CASE isNew = TRUE
    <3>1. Fresh(n, e)
      BY <2>1 DEF StoreForm
    <3> QED BY <2>1, <3>1, <1>3, <1>4 DEF Fresh, LoggedFor
  <2>2. CASE isNew = FALSE
    <3>1. Present(s, n, e)
      BY <2>2 DEF StoreForm
    <3>2. e.tran_id \in Nat
      BY DEF Entry
    <3> QED BY <2>2, <3>1, <3>2, <1>3, <1>11 DEF Present, LoggedFor
  <2> QED BY <2>1, <2>2
<1>14. LoggedCall(s, op)
  BY <1>1, <1>4, <1>5, <1>8, <1>9, <1>10 DEF LoggedCall
<1>15. LoggedForm(s, n, op, x)
  BY <1>1, <1>12, <1>13, <1>14 DEF LoggedForm
<1> QED BY <1>2, <1>4, <1>8, <1>11, <1>15

LEMMA DestroyLogs ==
  ASSUME ~StaleIds, StoreInv, MarkInv, OrderOK, NEW s \in Session, NEW n \in Num, Destroy(s, n),
         DestroyInTx(s, n)
  PROVE  \E op \in Op, x \in Entry : LoggedForm(s, n, op, x) /\ ~Changes(op)
<1> DEFINE e == index[n]
           op == [id |-> n, type |-> "destroy", pos |-> 0, size |-> 0,
                  old_tran_id |-> 0, old_tran_op |-> e.tran_op]
           id == tran_id[s]
           zero == 0
           trans == "delete"
           x == Marked(e, id, zero, trans)
<1>1. /\ Section(s) /\ InTx(s) /\ pc[s] = "idle" /\ SessionInv /\ SessionsOK /\ HeaderOK
      /\ Known(n) /\ Writable(s, e) /\ LogOp(s, op) /\ index' = [index EXCEPT ![n] = x]
      /\ UNCHANGED << data, rp_impl_lock, pc, trans_data, write, page_copy, work, total_size_of_data,
                      total_entries, transaction_id, tran_id, read >>
      /\ id \in Nat /\ total_trans_size[s] \in Nat
  BY DEF Destroy, Section, DestroyInTx, StoreInv, SessionInv, SessionsOK, IndexInv, headerVars, Marked
<1>2. e \in Entry /\ e.trans # "free_list" /\ n < total_entries /\ e.lock = "none" /\ e.tran_op \in Nat
  BY <1>1, KnownIsStored DEF Writable, Entry
<1>3. op \in Op /\ op.id = n /\ op.size = 0 /\ op.type = "destroy" /\ op.old_tran_id = 0
  BY <1>2 DEF Op
<1>4. ~Changes(op)
  BY <1>3 DEF Changes
<1>5. zero \in Nat /\ trans \in {"none", "change", "delete", "free_list"}
  OBVIOUS
<1>6. total_trans_size[s] <= MaxTransData /\ MaxTransData \in Int
  <2>1. InOrder(s)
    BY DEF OrderOK
  <2>2. total_trans_size[s] <= MaxTransData
    BY <2>1 DEF InOrder
  <2> QED BY <2>2, ConstFacts
<1>7. total_trans_size[s] + op.size <= MaxTransData
  BY <1>1, <1>3, <1>6
<1>8. NewTotal(n)
  <2>1. total_entries \in Nat
    BY <1>1, NumFacts
  <2>2. \A m \in total_entries .. total_entries - 1 : FALSE
    BY <2>1
  <2> QED BY <1>1, <1>2, <2>1, <2>2 DEF NewTotal
<1>9. LoggedCall(s, op)
  BY <1>1, <1>4 DEF LoggedCall
<1> HIDE DEF op, id, zero, trans
<1>10. x \in Entry /\ x.tran_id = id /\ x.lock = e.lock /\ x.trans = trans
       /\ x.pos = e.pos /\ x.size = e.size
  BY <1>1, <1>2, <1>5 DEF Marked, Entry
<1> HIDE DEF x
<1>11. LoggedOp(s, n, op) /\ LoggedEntry(s, n, op, x)
  BY <1>1, <1>2, <1>3, <1>4, <1>7, <1>10 DEF LoggedOp, LoggedEntry, id, trans
<1>12. LoggedFor(s, n, op, x)
  BY <1>1, <1>2, <1>3, <1>10 DEF Present, LoggedFor
<1>13. LoggedForm(s, n, op, x)
  BY <1>1, <1>8, <1>9, <1>11, <1>12 DEF LoggedForm
<1> QED BY <1>3, <1>4, <1>10, <1>13

(* A store outside a transaction locks the entry, where its extent will be. *)
PlainForm(s, n, x, size, val) ==
  /\ Section(s) /\ ~InTx(s) /\ s \in PlainSession /\ NewTotal(n)
  /\ index' = [index EXCEPT ![n] = x] /\ x \in Entry /\ index[n].lock = "none"
  /\ x.lock = "entry" /\ x.trans = "none" /\ x.size = size
  /\ transaction_id < MaxTran /\ transaction_id' = transaction_id + 1
  /\ total_size_of_data' \in {total_size_of_data, total_size_of_data + size}
  /\ pc' = [pc EXCEPT ![s] = "writing"] /\ \A t \in Session \ {s} : write'[t] = write[t]
  /\ write'[s].num = n /\ write'[s].pos = x.pos /\ write'[s].size = size /\ write'[s].val = val
  /\ write'[s].entry = x
  /\ ~HasMark(n)
  /\ UNCHANGED << tran_id, levels, ops, total_trans_size, data, rp_impl_lock, trans_data, page_copy,
                  read, work >>

LEMMA StorePlaces ==
  ASSUME StoreInv, MarkInv, NEW s \in Session, NEW n \in Num, NEW e \in Entry,
         NEW isNew \in BOOLEAN, NEW size \in Size, NEW val \in Value,
         StoreForm(s, n, e, isNew, size, val), StorePlain(s, n, e, isNew, size, val)
  PROVE  \E x \in Entry : PlainForm(s, n, x, size, val)
<1> DEFINE inPlace == ~isNew /\ size <= e.size
           pos == IF inPlace THEN e.pos ELSE total_size_of_data
           id == transaction_id
           lock == "entry"
           x == Placed(e, pos, size, id, lock)
<1>1. /\ Section(s) /\ ~InTx(s) /\ HeaderOK /\ NewTotal(n) /\ index[n].lock = "none"
      /\ UNCHANGED << data, rp_impl_lock, trans_data, page_copy, read, work >>
      /\ s \in PlainSession /\ transaction_id < MaxTran
      /\ write \in [Session -> Write]
  BY DEF StoreForm, StorePlain, StoreInv, IndexInv, HeaderOK, Store
<1>2. /\ pos \in Int /\ size \in Nat /\ id \in Nat /\ lock \in {"none", "entry"} /\ e.pos \in Int
  BY <1>1, StoreAssumption DEF HeaderOK, Entry
<1>3. x = [e EXCEPT !.pos = IF inPlace THEN @ ELSE total_size_of_data,
                    !.size = size, !.tran_id = transaction_id, !.lock = "entry"]
  BY DEF Placed
<1>4. /\ index' = [index EXCEPT ![n] = x] /\ transaction_id' = transaction_id + 1
      /\ total_size_of_data' \in {total_size_of_data, total_size_of_data + size}
      /\ write' = [write EXCEPT ![s] = [NoWrite EXCEPT !.num = n, !.pos = x.pos, !.size = size,
                                                       !.val = val, !.entry = x]]
      /\ pc' = [pc EXCEPT ![s] = "writing"]
      /\ UNCHANGED << tran_id, levels, ops, total_trans_size >>
  BY <1>3 DEF StorePlain, tranVars
<1> HIDE DEF pos, id, lock, inPlace
<1>5. x \in Entry /\ x.lock = lock /\ x.trans = e.trans /\ x.size = size
  BY <1>2 DEF Placed, Entry
<1> HIDE DEF x
<1>6. /\ write'[s].num = n /\ write'[s].pos = x.pos /\ write'[s].size = size /\ write'[s].val = val
      /\ write'[s].entry = x /\ \A t \in Session \ {s} : write'[t] = write[t]
  BY <1>1, <1>4 DEF NoWrite
<1>7. e.trans = "none" /\ ~HasMark(n)
  BY <1>1 DEF StoreForm, Fresh, Present, Writable, HasMark
<1>8. PlainForm(s, n, x, size, val)
  BY <1>1, <1>4, <1>5, <1>6, <1>7 DEF PlainForm, lock
<1> QED BY <1>5, <1>8

-----------------------------------------------------------------------------
(* The order of the operations, at the end of a commit or a rollback and by   *)
(* every step.                                                                *)

(* What is left of the operations when a commit or a rollback ends. *)
LEMMA EndedOps ==
  ASSUME StoreInv, MarkInv, NEW s \in Session, CommitEnd(s) \/ RollbackEnd(s)
  PROVE  /\ pc[s] \in {"committing", "rolling back"} /\ pc'[s] = "idle" /\ work[s].cursor = 0
         /\ \A t \in Session \ {s} : /\ ops'[t] = ops[t] /\ total_trans_size'[t] = total_trans_size[t]
                                     /\ pc'[t] = pc[t] /\ work'[t] = work[t]
         /\ Len(ops'[s]) = OpsEnd(s) /\ OpsEnd(s) \in Nat /\ OpsEnd(s) <= Len(ops[s])
         /\ Live(s) = OpsEnd(s)
         /\ \A i \in 1 .. OpsEnd(s) : ops'[s][i] = ops[s][i]
         /\ CommitEnd(s) => pc[s] = "committing" /\ ~InTx(s) /\ OpsEnd(s) = 0 /\ total_trans_size'[s] = 0
         /\ RollbackEnd(s) => /\ pc[s] = "rolling back" /\ work[s].op_offset = OpsEnd(s)
                              /\ total_trans_size'[s] = total_trans_size[s] - work[s].size
                              /\ total_trans_size'[s] \in Nat
<1>1. /\ Len(ops[s]) \in Nat /\ Tile(s) /\ work[s].op_count \in Nat /\ work[s].op_offset \in Nat
      /\ total_trans_size \in [Session -> Nat] /\ ops \in [Session -> Seq(Op)]
      /\ pc \in [Session -> PC] /\ work \in [Session -> Work]
      /\ total_trans_size[s] \in Nat /\ work[s].size \in Nat /\ SessionInv
  BY SessionFacts DEF StoreInv, SessionInv, SessionsOK
<1>2. \A t \in Session \ {s} : /\ ops'[t] = ops[t] /\ total_trans_size'[t] = total_trans_size[t]
                               /\ pc'[t] = pc[t] /\ work'[t] = work[t]
  BY <1>1 DEF CommitEnd, RollbackEnd
<1>3. pc'[s] = "idle" /\ work[s].cursor = 0
  BY <1>1 DEF CommitEnd, RollbackEnd
<1>4. CASE CommitEnd(s)
  <2>1. pc[s] = "committing" /\ ops'[s] = << >> /\ total_trans_size'[s] = 0 /\ ~InTx(s)
    BY <1>1, <1>4 DEF CommitEnd, Tile
  <2>2. ~RollbackEnd(s)
    BY <2>1 DEF RollbackEnd
  <2>3. OpsEnd(s) = 0 /\ Len(ops'[s]) = 0
    BY <2>1, EmptySeq DEF OpsEnd
  <2>4. Live(s) = 0
    BY <2>1, <1>3, LiveOps DEF MarkInv
  <2> QED BY <2>1, <2>2, <2>3, <2>4, <1>1, <1>2, <1>3
<1>5. CASE RollbackEnd(s)
  <2> DEFINE m == Len(ops[s]) - work[s].op_count
  <2>1. /\ pc[s] = "rolling back"
        /\ total_trans_size'[s] = total_trans_size[s] - work[s].size
    BY <1>1, <1>5 DEF RollbackEnd
  <2>8. ops'[s] = [i \in 1 .. m |-> ops[s][i]]
    BY <1>1, <1>5 DEF RollbackEnd
  <2>2. /\ work[s].op_offset = OpsEnd(s) /\ Len(ops[s]) = OpsEnd(s) + work[s].op_count
        /\ total_trans_size[s] = DataEnd(s) + work[s].size
    BY <2>1, <1>1 DEF Tile
  <2>3. OpsEnd(s) \in Nat /\ m = OpsEnd(s) /\ OpsEnd(s) <= Len(ops[s])
    BY <2>2, <1>1
  <2>4. Len(ops'[s]) = m /\ \A i \in 1 .. m : ops'[s][i] = ops[s][i]
    <3> HIDE DEF m
    <3>1. m \in Nat
      BY <2>3
    <3> QED BY <3>1, <2>8
  <2>5. Live(s) = OpsEnd(s)
    <3>1. Live(s) = work[s].op_offset + work[s].cursor
      BY <2>1, LiveOps DEF MarkInv
    <3> QED BY <3>1, <2>2, <2>3, <1>3
  <2>6. total_trans_size'[s] \in Nat
    <3>1. SessionInv'
      BY <1>1, <1>5, RollbackEndKeepsTile
    <3> QED BY <3>1 DEF SessionInv, SessionsOK
  <2>7. ~CommitEnd(s)
    BY <2>1 DEF CommitEnd
  <2> QED BY <2>1, <2>2, <2>3, <2>4, <2>5, <2>6, <2>7, <1>1, <1>2, <1>3
<1> QED BY <1>4, <1>5

LEMMA EndsOrder ==
  ASSUME StoreInv, MarkInv, OrderOK, NEW s \in Session, CommitEnd(s) \/ RollbackEnd(s)
  PROVE  OrderOK'
<1> DEFINE m == OpsEnd(s)
           b == total_trans_size'[s]
<1>1. /\ Len(ops'[s]) = m /\ m \in Nat /\ m <= Len(ops[s])
      /\ \A i \in 1 .. m : ops'[s][i] = ops[s][i]
      /\ CommitEnd(s) => ~InTx(s) /\ m = 0 /\ b = 0
      /\ RollbackEnd(s) => /\ work[s].op_offset = m
                           /\ b = total_trans_size[s] - work[s].size /\ b \in Nat
  BY EndedOps
<1>10. /\ pc'[s] = "idle" /\ levels' = levels
       /\ \A t \in Session \ {s} : /\ ops'[t] = ops[t] /\ total_trans_size'[t] = total_trans_size[t]
                                   /\ pc'[t] = pc[t] /\ work'[t] = work[t]
       /\ RollbackEnd(s) => pc[s] = "rolling back"
  BY EndedOps DEF CommitEnd, RollbackEnd
<1>2. /\ Len(ops[s]) \in Nat /\ \A i \in 1 .. Len(ops[s]) : ops[s][i] \in Op /\ ops[s][i].pos \in Nat
      /\ Len(levels[s]) \in Nat /\ (InTx(s) <=> Len(levels[s]) > 0)
      /\ \A l \in 1 .. Len(levels[s]) : /\ levels[s][l].op_offset \in Nat
                                        /\ levels[s][l].op_count \in Nat
                                        /\ levels[s][l].offset \in Nat
      /\ total_trans_size[s] \in Nat /\ work[s].size \in Nat
  BY SessionFacts
<1>3. /\ InOrder(s) /\ OpsApart(ops[s]) /\ LevelsOrdered(levels[s])
      /\ \A l \in 1 .. Len(levels[s]) : OpsBefore(ops[s], levels[s][l].op_offset, levels[s][l].offset)
      /\ total_trans_size[s] <= MaxTransData
  BY DEF InOrder, OrderOK
<1>11. RollbackEnd(s) => OpsBefore(ops[s], work[s].op_offset, total_trans_size[s] - work[s].size)
  BY <1>3, <1>10 DEF InOrder
<1> HIDE DEF m, b
<1>4. OpsApart(ops'[s])
  <2>1. Len(ops'[s]) \in Nat /\ Len(ops'[s]) <= Len(ops[s])
        /\ \A i \in 1 .. Len(ops'[s]) : ops'[s][i] = ops[s][i]
    BY <1>1
  <2> QED BY <2>1, <1>2, <1>3, ApartKept
<1>5. b <= MaxTransData
  <2>1. CASE CommitEnd(s)
    BY <2>1, <1>1, ConstFacts
  <2>2. CASE RollbackEnd(s)
    BY <2>2, <1>1, <1>2, <1>3, ConstFacts
  <2> QED BY <2>1, <2>2
<1>6. OpsBefore(ops'[s], m, b)
  <2>1. CASE CommitEnd(s)
    <3>1. \A i \in 1 .. Len(ops'[s]) : FALSE
      BY <2>1, <1>1
    <3> QED BY <3>1 DEF OpsBefore
  <2>2. CASE RollbackEnd(s)
    <3>1. OpsBefore(ops[s], m, b) /\ b \in Int /\ b <= b
      BY <2>2, <1>1, <1>11
    <3>2. Len(ops'[s]) \in Nat /\ \A i \in 1 .. Len(ops'[s]) : i <= m => i <= Len(ops[s]) /\ ops'[s][i] = ops[s][i]
      BY <1>1, <1>2
    <3> QED BY <3>1, <3>2, <1>1, <1>2, BeforeKept
  <2> QED BY <2>1, <2>2
<1>7. ASSUME NEW l \in 1 .. Len(levels[s])
      PROVE  OpsBefore(ops'[s], levels[s][l].op_offset, levels[s][l].offset)
  <2>1. /\ levels[s][l].op_offset \in Int /\ levels[s][l].offset \in Int
        /\ levels[s][l].offset <= levels[s][l].offset
    BY <1>2
  <2>2. Len(ops'[s]) \in Nat
        /\ \A i \in 1 .. Len(ops'[s]) : i <= levels[s][l].op_offset => i <= Len(ops[s]) /\ ops'[s][i] = ops[s][i]
    BY <1>1, <1>2
  <2>3. levels[s][l].op_offset <= levels[s][l].op_offset
    BY <2>1
  <2>4. OpsBefore(ops[s], levels[s][l].op_offset, levels[s][l].offset)
    BY <1>3
  <2>5. Len(ops[s]) \in Nat /\ \A i \in 1 .. Len(ops[s]) : ops[s][i] \in Op
    BY <1>2
  <2> DEFINE k == levels[s][l].op_offset
             c == levels[s][l].offset
  <2>6. k \in Int /\ c \in Int /\ k <= k /\ c <= c /\ OpsBefore(ops[s], k, c)
        /\ \A i \in 1 .. Len(ops'[s]) : i <= k => i <= Len(ops[s]) /\ ops'[s][i] = ops[s][i]
    BY <2>1, <2>2, <2>3, <2>4
  <2> HIDE DEF k, c
  <2>7. OpsBefore(ops'[s], k, c)
    BY <2>2, <2>5, <2>6, BeforeKept
  <2> QED BY <2>7 DEF k, c
<1>8. InOrder(s)'
  BY <1>1, <1>3, <1>4, <1>5, <1>6, <1>7, <1>10 DEF InOrder, b
<1>9. ASSUME NEW t \in Session \ {s} PROVE InOrder(t)'
  BY <1>10, OrderFrame DEF OrderOK
<1> QED BY <1>8, <1>9 DEF OrderOK

(* The steps that log nothing and leave the levels alone. *)
LEMMA OrderUnchanged ==
  ASSUME OrderOK, UNCHANGED << levels, ops, total_trans_size >>,
         \A t \in Session : pc'[t] = "rolling back" =>
           pc[t] = "rolling back" /\ work'[t].op_offset = work[t].op_offset
           /\ work'[t].size = work[t].size
  PROVE  OrderOK'
<1> SUFFICES ASSUME NEW t \in Session PROVE InOrder(t)'
  BY DEF OrderOK
<1> QED BY OrderFrame DEF OrderOK

LEMMA OrderCalls ==
  ASSUME StoreInv, OrderOK, UNCHANGED << levels, ops, total_trans_size, work >>, NEW s \in Session,
         NEW call \in {"idle", "reading", "writing", "storing"},
         pc' = [pc EXCEPT ![s] = call] \/ pc' = pc
  PROVE  OrderOK'
<1>1. pc \in [Session -> PC]
  BY DEF StoreInv, SessionInv, SessionsOK
<1>2. ASSUME NEW t \in Session, pc'[t] = "rolling back"
      PROVE  pc[t] = "rolling back" /\ work'[t].op_offset = work[t].op_offset
             /\ work'[t].size = work[t].size
  <2>1. CASE t = s
    BY <2>1, <1>1, <1>2
  <2>2. CASE t # s
    BY <2>2, <1>1, <1>2
  <2> QED BY <2>1, <2>2
<1> QED BY <1>2, OrderUnchanged

(* The locals of a commit or a rollback that goes on. *)
LEMMA HolderWork ==
  ASSUME StoreInv, NEW s \in Session, CommitOp(s) \/ RollbackOp(s)
  PROVE  /\ work'[s].cursor = work[s].cursor - 1 /\ work[s].cursor > 0
         /\ work'[s].op_offset = work[s].op_offset /\ work'[s].size = work[s].size
         /\ \A t \in Session \ {s} : work'[t] = work[t]
         /\ UNCHANGED << pc, levels, ops, total_trans_size, tran_id, transaction_id, total_entries,
                         trans_data, write, page_copy, rp_impl_lock >>
<1>1. work \in [Session -> Work] /\ work[s] \in Work
  BY DEF StoreInv, SessionInv, SessionsOK
<1>2. /\ work[s].cursor > 0
      /\ UNCHANGED << pc, levels, ops, total_trans_size, tran_id, transaction_id, total_entries,
                      trans_data, write, page_copy, rp_impl_lock >>
  BY DEF CommitOp, RollbackOp, tranVars
<1>3. CASE work' = [work EXCEPT ![s].cursor = @ - 1]
  <2>1. work'[s] = [work[s] EXCEPT !.cursor = @ - 1] /\ \A t \in Session \ {s} : work'[t] = work[t]
    BY <1>1, <1>3
  <2>2. work'[s].cursor = work[s].cursor - 1 /\ work'[s].op_offset = work[s].op_offset
        /\ work'[s].size = work[s].size
    BY <2>1, <1>1 DEF Work
  <2> QED BY <2>1, <2>2, <1>2
<1>4. CASE \E n \in Num : CommitDelete(s, n)
  <2>1. PICK n \in Num : CommitDelete(s, n)
    BY <1>4
  <2> DEFINE k == TailDeleted(work[s], index[n]).work
  <2>2. work' = [work EXCEPT ![s] = [k EXCEPT !.cursor = @ - 1]]
    BY <2>1 DEF CommitDelete
  <2>3. k \in Work /\ k.cursor = work[s].cursor /\ k.op_offset = work[s].op_offset /\ k.size = work[s].size
    <3>1. index[n] \in Entry
      BY DEF StoreInv, IndexInv, HeaderOK
    <3> QED BY <3>1, <1>1, TailWork
  <2> HIDE DEF k
  <2>4. work'[s] = [k EXCEPT !.cursor = @ - 1] /\ \A t \in Session \ {s} : work'[t] = work[t]
    BY <2>2, <1>1
  <2>5. work'[s].cursor = k.cursor - 1 /\ work'[s].op_offset = k.op_offset /\ work'[s].size = k.size
    BY <2>3, <2>4 DEF Work
  <2> QED BY <2>3, <2>4, <2>5, <1>2
<1>5. work' = [work EXCEPT ![s].cursor = @ - 1] \/ \E n \in Num : CommitDelete(s, n)
  <2>1. CASE CommitOp(s)
    <3> DEFINE op == ops[s][work[s].cursor]
    <3>1. \/ CommitDelete(s, op.id) \/ CommitChange(s, op) \/ CommitSkip(s, op.id)
      BY <2>1 DEF CommitOp
    <3>2. op.id \in Num
      <4>1. pc[s] = "committing" /\ work[s].cursor > 0 /\ SessionInv
        BY <2>1 DEF CommitOp, StoreInv
      <4>2. op \in Op
        BY <4>1, CurrentOp
      <4> QED BY <4>2 DEF Op
    <3> QED BY <3>1, <3>2 DEF CommitChange, CommitSkip
  <2>2. CASE RollbackOp(s)
    BY <2>2 DEF RollbackOp
  <2> QED BY <2>1, <2>2
<1> QED BY <1>3, <1>4, <1>5

LEMMA NextOrder ==
  ASSUME ~StaleIds, StoreInv, StoreInv', MarkInv, ExtentInv, OrderOK, [Next]_vars
  PROVE  OrderOK'
<1>1. ASSUME NEW s \in Session, NEW n \in Num, NEW op \in Op, NEW x \in Entry, LoggedForm(s, n, op, x)
      PROVE  OrderOK'
  BY <1>1, LogOrder DEF LoggedForm, LoggedOp, LoggedCall, Section
<1>2. ASSUME NEW s \in Session, NEW size \in Size, NEW val \in Value,
             \/ Create(s, size, val) \/ Revive(s, size, val)
             \/ \E n \in Num : Update(s, n, size, val)
      PROVE  OrderOK'
  <2>1. PICK n \in Num, e \in Entry, isNew \in BOOLEAN : StoreForm(s, n, e, isNew, size, val)
    BY <1>2, StoreForms
  <2>2. CASE StoreInTx(s, n, e, isNew, size, val)
    <3>1. PICK op \in Op, x \in Entry : LoggedForm(s, n, op, x)
      BY <2>1, <2>2, StoreLogs
    <3> QED BY <3>1, <1>1
  <2>3. CASE StorePlain(s, n, e, isNew, size, val)
    <3>1. PICK x \in Entry : PlainForm(s, n, x, size, val)
      BY <2>1, <2>3, StorePlaces
    <3>2. UNCHANGED << levels, ops, total_trans_size, work >> /\ pc' = [pc EXCEPT ![s] = "writing"]
      BY <3>1 DEF PlainForm
    <3> QED BY <3>2, OrderCalls
  <2> QED BY <2>1, <2>2, <2>3 DEF StoreForm, Store
<1>3. ASSUME NEW s \in Session, NEW n \in Num, Destroy(s, n)
      PROVE  OrderOK'
  <2>1. CASE DestroyInTx(s, n)
    <3>1. PICK op \in Op, x \in Entry : LoggedForm(s, n, op, x)
      BY <1>3, <2>1, DestroyLogs
    <3> QED BY <3>1, <1>1
  <2>2. CASE DestroyPlain(s, n)
    <3>1. UNCHANGED << levels, ops, total_trans_size, work >> /\ pc' = pc
      BY <1>3, <2>2 DEF Destroy, DestroyPlain, tranVars
    <3> QED BY <3>1, OrderCalls
  <2> QED BY <1>3, <2>1, <2>2 DEF Destroy
<1>4. ASSUME NEW s \in Session, NEW n \in Num, StartRead(s, n)
      PROVE  OrderOK'
  <2>1. UNCHANGED << levels, ops, total_trans_size, work >> /\ pc' = [pc EXCEPT ![s] = "reading"]
    BY <1>4 DEF StartRead, tranVars
  <2> QED BY <2>1, OrderCalls
<1>5. ASSUME NEW s \in Session,
             \/ FinishStore(s) \/ FetchPage(s) \/ NextPage(s) \/ FinishWrite(s)
             \/ ReadPage(s) \/ FinishRead(s)
      PROVE  OrderOK'
  <2>1. /\ UNCHANGED << levels, ops, total_trans_size, work >>
        /\ pc' = [pc EXCEPT ![s] = "idle"] \/ pc' = pc
    BY <1>5 DEF FinishStore, FetchPage, NextPage, FinishWrite, ReadPage, FinishRead, tranVars
  <2> QED BY <2>1, OrderCalls
<1>6. ASSUME NEW s \in Session,
             \/ TransactionStart(s) \/ CommitInner(s) \/ CommitBegin(s) \/ RollbackBegin(s)
             \/ CommitEnd(s) \/ RollbackEnd(s)
      PROVE  OrderOK'
  BY <1>6, StartOrder, InnerOrder, BeginOrder, EndsOrder
<1>7. ASSUME NEW s \in Session, CommitOp(s) \/ RollbackOp(s)
      PROVE  OrderOK'
  <2>1. /\ UNCHANGED << pc, levels, ops, total_trans_size >>
        /\ work'[s].op_offset = work[s].op_offset /\ work'[s].size = work[s].size
        /\ \A t \in Session \ {s} : work'[t] = work[t]
    BY <1>7, HolderWork
  <2> QED BY <2>1, OrderUnchanged
<1>8. CASE Quiescent \/ UNCHANGED vars
  BY <1>8, OrderUnchanged DEF Quiescent, vars, tranVars
<1> QED BY <1>2, <1>3, <1>4, <1>5, <1>6, <1>7, <1>8 DEF Next, HolderStep

-----------------------------------------------------------------------------
(* The cells that the transactions handed out so far can have filled.         *)

LEMMA FilledFacts ==
  /\ \A k \in Nat : Filled(k) \in Nat /\ Filled(k + 1) = Filled(k) + MaxTransData
  /\ \A j, k \in Nat : j <= k => Filled(j) <= Filled(k)
  /\ Filled(MaxTran) <= MaxData
<1> DEFINE m == MaxTransData
<1>1. m \in Nat
  BY ConstFacts
<1>2. Filled(MaxTran) <= MaxData
  BY StoreAssumption DEF Filled
<1> HIDE DEF m
<1>3. ASSUME NEW k \in Nat PROVE k * m \in Nat /\ (k + 1) * m = k * m + m
  BY <1>1
<1>4. ASSUME NEW j \in Nat, NEW k \in Nat, j <= k PROVE j * m <= k * m
  <2>1. k - j \in Nat /\ j + (k - j) = k
    BY <1>4
  <2>2. PICK d \in Nat : k = j + d
    BY <2>1
  <2>3. (j + d) * m = j * m + d * m
    BY <1>1
  <2>4. j * m \in Nat /\ d * m \in Nat
    BY <1>1
  <2> QED BY <2>2, <2>3, <2>4
<1> QED BY <1>2, <1>3, <1>4 DEF Filled, m

(* There are fewer transactions that have ended than ids, and fewer by one if *)
(* one is open.                                                               *)
LEMMA EndedFacts ==
  ASSUME StoreInv, OwnIds
  PROVE  /\ IsFiniteSet(Ended) /\ Cardinality(Ended) \in Nat
         /\ transaction_id \in Nat /\ transaction_id > 0 /\ total_size_of_data \in Int
         /\ Cardinality(Ended) <= transaction_id - 1
         /\ \A s \in Session : Active(s) => /\ tran_id[s] \notin Ended
                                            /\ tran_id[s] \in 1 .. transaction_id - 1
                                            /\ Cardinality(Ended) + 1 <= transaction_id - 1
<1>1. transaction_id \in Nat /\ transaction_id > 0 /\ total_size_of_data \in Int
      /\ \A s \in Session : tran_id[s] \in Nat
  BY DEF StoreInv, IndexInv, HeaderOK, OwnIds, SessionInv, SessionsOK
<1> DEFINE I == 1 .. transaction_id - 1
<1>2. IsFiniteSet(I) /\ Cardinality(I) = transaction_id - 1
  <2>1. transaction_id - 1 \in Nat /\ 1 \in Int /\ transaction_id - 1 \in Int
    BY <1>1
  <2>2. IsFiniteSet(I) /\ Cardinality(I) = IF 1 > transaction_id - 1 THEN 0 ELSE transaction_id - 1 - 1 + 1
    BY <2>1, FS_Interval
  <2> QED BY <2>1, <2>2
<1>3. Ended \subseteq I
  BY DEF Ended
<1>4. IsFiniteSet(Ended) /\ Cardinality(Ended) <= Cardinality(I)
  BY <1>2, <1>3, FS_Subset
<1>5. Cardinality(Ended) \in Nat
  BY <1>4, FS_CardinalityType
<1>6. ASSUME NEW s \in Session, Active(s)
      PROVE  /\ tran_id[s] \notin Ended /\ tran_id[s] \in I
             /\ Cardinality(Ended) + 1 <= transaction_id - 1
  <2>1. tran_id[s] < transaction_id /\ tran_id[s] > 0
    BY <1>6 DEF OwnIds
  <2>2. tran_id[s] \in I
    BY <2>1, <1>1
  <2>3. tran_id[s] \notin Ended
    BY <1>6 DEF Ended
  <2> DEFINE E == Ended \cup {tran_id[s]}
  <2>4. IsFiniteSet(E) /\ Cardinality(E) = Cardinality(Ended) + 1
    BY <2>3, <1>4, FS_AddElement
  <2>5. E \subseteq I
    BY <2>2, <1>3
  <2>6. Cardinality(E) <= Cardinality(I)
    BY <2>5, <1>2, FS_Subset
  <2> QED BY <2>2, <2>3, <2>4, <2>6, <1>2
<1> QED BY <1>1, <1>2, <1>4, <1>5, <1>6

(* What has been stored has room in the data file. *)
LEMMA RoomFits ==
  ASSUME StoreInv, MarkInv, RoomLeft
  PROVE  total_size_of_data <= MaxData
<1> DEFINE c == Cardinality(Ended)
<1>1. OwnIds /\ MaxTran \in Nat /\ MaxData \in Nat /\ MaxTransData \in Nat
  BY ConstFacts DEF MarkInv
<1>2. c \in Nat /\ transaction_id \in Nat /\ transaction_id > 0 /\ total_size_of_data \in Int
      /\ c <= transaction_id - 1
  BY <1>1, EndedFacts
<1>3. transaction_id - 1 <= MaxTran
  BY DEF RoomLeft
<1>4. CASE /\ \A s \in Session : ~Commits(s)
           /\ total_size_of_data <= Filled(Cardinality(Ended))
  <2>1. c <= MaxTran
    BY <1>1, <1>2, <1>3
  <2>2. total_size_of_data <= Filled(c)
    BY <1>4
  <2> HIDE DEF c
  <2>3. Filled(c) <= Filled(MaxTran) /\ Filled(c) \in Nat /\ Filled(MaxTran) \in Nat
        /\ Filled(MaxTran) <= MaxData
    BY <2>1, <1>1, <1>2, FilledFacts
  <2> QED BY <2>2, <2>3, <1>1, <1>2
<1>5. CASE \E s \in Session, b \in 0 .. MaxTransData :
             /\ Commits(s) /\ OpsBefore(ops[s], work[s].cursor, b)
             /\ total_size_of_data + b <= Filled(Cardinality(Ended) + 1)
  <2>1. PICK s \in Session, b \in 0 .. MaxTransData :
             /\ Commits(s) /\ total_size_of_data + b <= Filled(c + 1)
    BY <1>5
  <2>2. Active(s)
    BY <2>1 DEF Commits, Active
  <2>3. c + 1 <= transaction_id - 1
    BY <2>2, <1>1, EndedFacts
  <2> HIDE DEF c
  <2>4. c + 1 <= MaxTran /\ c + 1 \in Nat
    BY <2>3, <1>1, <1>2, <1>3
  <2>5. Filled(c + 1) <= Filled(MaxTran) /\ Filled(c + 1) \in Nat /\ Filled(MaxTran) \in Nat
        /\ Filled(MaxTran) <= MaxData
    BY <2>4, <1>1, FilledFacts
  <2>6. b \in Nat /\ total_size_of_data + b <= Filled(c + 1)
    BY <2>1
  <2> QED BY <2>5, <2>6, <1>1, <1>2
<1> QED BY <1>4, <1>5 DEF RoomLeft

(* Nobody commits before or after, and as many transactions have ended as the *)
(* cells that are stored need.                                                *)
LEMMA RoomQuiet ==
  ASSUME \A t \in Session : ~Commits(t)', transaction_id' - 1 <= MaxTran,
         total_size_of_data' <= Filled(Cardinality(Ended'))
  PROVE  RoomLeft'
BY DEF RoomLeft

(* While nobody commits, the cells are those of the ended transactions. *)
LEMMA QuietRoom ==
  ASSUME RoomLeft, \A t \in Session : ~Commits(t)
  PROVE  transaction_id - 1 <= MaxTran /\ total_size_of_data <= Filled(Cardinality(Ended))
BY DEF RoomLeft

LEMMA EndedSame ==
  ASSUME transaction_id' = transaction_id, tran_id' = tran_id,
         \A t \in Session : Active(t)' <=> Active(t)
  PROVE  Ended' = Ended
BY DEF Ended

(* A step that neither ends a transaction nor stores another cell. *)
LEMMA RoomKept ==
  ASSUME StoreInv, StoreInv', OwnIds, RoomLeft, transaction_id' = transaction_id, tran_id' = tran_id,
         total_size_of_data' <= total_size_of_data,
         \A t \in Session : /\ (Active(t)' <=> Active(t)) /\ (Commits(t)' <=> Commits(t))
                            /\ Commits(t) => ops'[t] = ops[t] /\ work'[t].cursor = work[t].cursor
  PROVE  RoomLeft'
<1> DEFINE c == Cardinality(Ended)
<1>1. Ended' = Ended
  BY EndedSame
<1>2. c \in Nat /\ total_size_of_data \in Int /\ total_size_of_data' \in Int
  BY EndedFacts DEF StoreInv, IndexInv, HeaderOK
<1>3. Filled(c) \in Nat /\ Filled(c + 1) \in Nat
  <2> HIDE DEF c
  <2>1. c + 1 \in Nat
    BY <1>2
  <2> QED BY <2>1, <1>2, FilledFacts
<1>4. transaction_id' - 1 <= MaxTran
  BY DEF RoomLeft
<1>5. CASE /\ \A s \in Session : ~Commits(s)
           /\ total_size_of_data <= Filled(c)
  <2>1. total_size_of_data' <= Filled(c)
    BY <1>2, <1>3, <1>5
  <2> QED BY <2>1, <1>1, <1>4, <1>5, RoomQuiet
<1>6. CASE \E s \in Session, b \in 0 .. MaxTransData :
             /\ Commits(s) /\ OpsBefore(ops[s], work[s].cursor, b)
             /\ total_size_of_data + b <= Filled(c + 1)
  <2>1. PICK s \in Session, b \in 0 .. MaxTransData :
             /\ Commits(s) /\ OpsBefore(ops[s], work[s].cursor, b)
             /\ total_size_of_data + b <= Filled(c + 1)
    BY <1>6
  <2>2. b \in Int
    BY <2>1, ConstFacts
  <2>3. total_size_of_data' + b <= Filled(c + 1)
    <3> HIDE DEF c
    <3> QED BY <2>1, <2>2, <1>2, <1>3
  <2>4. Commits(s)' /\ OpsBefore(ops'[s], work'[s].cursor, b)
    BY <2>1
  <2> QED BY <2>1, <2>3, <2>4, <1>1, <1>4 DEF RoomLeft
<1> QED BY <1>5, <1>6 DEF RoomLeft

(* One more transaction has ended. *)
LEMMA OneMoreEnded ==
  ASSUME StoreInv, OwnIds, NEW i, i \notin Ended, Ended' = Ended \cup {i}
  PROVE  Cardinality(Ended)' = Cardinality(Ended) + 1
BY EndedFacts, FS_AddElement


(* A commit that is under way is that of the session that has the mutex. *)
LEMMA OneCommits ==
  ASSUME OneHolder, NEW s \in Session, pc[s] \in {"committing", "rolling back"},
         NEW t \in Session, Commits(t)
  PROVE  t = s /\ pc[s] = "committing"
BY DEF OneHolder, Commits

(* One more id is handed out, for a call outside a transaction. *)
LEMMA RoomForOne ==
  ASSUME StoreInv, StoreInv', OwnIds, RoomLeft, transaction_id < MaxTran,
         transaction_id' = transaction_id + 1, tran_id' = tran_id,
         \A t \in Session : (Active(t)' <=> Active(t)) /\ ~Commits(t) /\ ~Commits(t)',
         total_size_of_data' <= total_size_of_data + MaxTransData
  PROVE  RoomLeft'
<1> DEFINE c == Cardinality(Ended)
           i == transaction_id
           m == MaxTransData
<1>1. /\ c \in Nat /\ i \in Nat /\ i > 0 /\ total_size_of_data \in Int /\ total_size_of_data' \in Int
      /\ m \in Nat /\ MaxTran \in Nat /\ \A t \in Session : Active(t) => tran_id[t] < i
      /\ \A t \in Session : tran_id[t] \in Nat
  BY EndedFacts, ConstFacts DEF StoreInv, IndexInv, HeaderOK, OwnIds, SessionInv, SessionsOK
<1>2. i \notin Ended
  <2>1. i \notin 1 .. i - 1
    BY <1>1
  <2> QED BY <2>1 DEF Ended
<1>3. Ended' = Ended \cup {i}
  <2>1. 1 .. transaction_id' - 1 = (1 .. i - 1) \cup {i}
    BY <1>1
  <2>2. \A t \in Session : Active(t) => tran_id[t] # i
    BY <1>1
  <2>3. Ended' = {j \in 1 .. transaction_id' - 1 : \A t \in Session : Active(t) => tran_id[t] # j}
    BY DEF Ended
  <2>4. Ended = {j \in 1 .. i - 1 : \A t \in Session : Active(t) => tran_id[t] # j}
    BY DEF Ended
  <2> HIDE DEF i
  <2> QED BY <2>1, <2>2, <2>3, <2>4
<1>4. Cardinality(Ended)' = c + 1
  BY <1>2, <1>3, OneMoreEnded
<1>5. total_size_of_data <= Filled(c)
  BY QuietRoom
<1>6. Filled(c) \in Nat /\ Filled(c + 1) = Filled(c) + m
  BY <1>1, FilledFacts
<1>7. total_size_of_data' <= Filled(c + 1)
  <2> HIDE DEF c, m
  <2>1. total_size_of_data' <= total_size_of_data + m
    BY DEF m
  <2> QED BY <2>1, <1>1, <1>5, <1>6
<1>8. transaction_id' - 1 <= MaxTran
  BY <1>1
<1> QED BY <1>4, <1>7, <1>8, RoomQuiet

(* A transaction opened for the first id not handed out yet ends none. *)
LEMMA StartRoom ==
  ASSUME StoreInv, StoreInv', MarkInv, RoomLeft, NEW s \in Session, TransactionStart(s)
  PROVE  RoomLeft'
<1> DEFINE i == transaction_id
<1>1. /\ pc[s] = "idle" /\ pc' = pc /\ UNCHANGED << ops, work, total_size_of_data >>
      /\ rp_impl_lock = NoSession /\ OneHolder /\ OwnIds
      /\ tran_id \in [Session -> Nat] /\ i \in Nat /\ total_size_of_data \in Int
  BY DEF TransactionStart, Section, MarkInv, StoreInv, SessionInv, SessionsOK, IndexInv, HeaderOK
<1>2. \A t \in Session : pc[t] \notin {"committing", "rolling back"}
  BY <1>1, NoHolder
<1>3. \A t \in Session \ {s} : levels'[t] = levels[t]
  BY StartedLevels
<1>4. InTx(s)'
  <2>1. Len(levels'[s]) = Len(levels[s]) + 1 /\ Len(levels[s]) \in Nat
    BY StartedLevels, SessionFacts
  <2>2. Len(levels'[s]) # 0
    BY <2>1
  <2>3. levels'[s] # << >>
    BY <2>2, EmptySeq
  <2> QED BY <2>3 DEF InTx
<1>5. \A t \in Session \ {s} : Active(t)' <=> Active(t)
  BY <1>1, <1>3 DEF Active, InTx
<1>6. Active(s)' /\ (Active(s) <=> InTx(s)) /\ \A t \in Session : ~Commits(t) /\ ~Commits(t)'
  BY <1>1, <1>2, <1>4 DEF Active, Commits
<1>7. CASE InTx(s)
  <2>1. tran_id' = tran_id /\ transaction_id' = transaction_id
    BY <1>7 DEF TransactionStart
  <2>2. \A t \in Session : Active(t)' <=> Active(t)
    BY <1>5, <1>6, <1>7
  <2>3. Ended' = Ended
    BY <2>1, <2>2, EndedSame
  <2> QED BY <1>1, <1>6, <2>1, <2>3, QuietRoom, RoomQuiet
<1>8. CASE ~InTx(s)
  <2>1. /\ tran_id' = [tran_id EXCEPT ![s] = i] /\ transaction_id' = i + 1 /\ i < MaxTran
    BY <1>8 DEF TransactionStart
  <2>2. tran_id'[s] = i /\ \A t \in Session \ {s} : tran_id'[t] = tran_id[t]
    BY <2>1, <1>1
  <2>3. i > 0 /\ \A t \in Session : Active(t) => tran_id[t] < i
    BY <1>1 DEF OwnIds
  <2>4. Ended' = {j \in 1 .. transaction_id' - 1 : \A t \in Session : Active(t)' => tran_id'[t] # j}
    BY DEF Ended
  <2>5. Ended = {j \in 1 .. i - 1 : \A t \in Session : Active(t) => tran_id[t] # j}
    BY DEF Ended
  <2>6. 1 .. transaction_id' - 1 = (1 .. i - 1) \cup {i} /\ i \notin 1 .. i - 1
    BY <1>1, <2>1, <2>3
  <2>7. ~Active(s)
    BY <1>6, <1>8
  <2>8. Ended' = Ended
    <3> HIDE DEF i
    <3>1. \A j : j \in Ended' <=> j \in (1 .. i - 1) \cup {i}
                                  /\ \A t \in Session : Active(t)' => tran_id'[t] # j
      BY <2>4, <2>6
    <3>2. \A j : (\A t \in Session : Active(t)' => tran_id'[t] # j)
                 <=> j # i /\ \A t \in Session : Active(t) => tran_id[t] # j
      BY <1>5, <1>6, <2>2, <2>7
    <3> QED BY <3>1, <3>2, <2>5, <2>6
  <2>9. transaction_id' - 1 <= MaxTran
    BY <1>1, <2>1, ConstFacts
  <2> QED BY <1>1, <1>6, <2>8, <2>9, QuietRoom, RoomQuiet
<1> QED BY <1>7, <1>8

(* When a commit begins, what it will append is what its operations stored. *)
LEMMA CommitRoom ==
  ASSUME StoreInv, StoreInv', MarkInv, OrderOK, RoomLeft, NEW s \in Session, CommitBegin(s)
  PROVE  RoomLeft'
<1> DEFINE c == Cardinality(Ended)
           b == total_trans_size[s]
<1>1. /\ pc[s] = "idle" /\ OwnIds /\ OneHolder /\ rp_impl_lock = NoSession
      /\ UNCHANGED << ops, total_size_of_data, tran_id, transaction_id >>
      /\ total_size_of_data \in Int /\ Len(ops[s]) \in Nat
  BY SessionFacts DEF CommitBegin, Section, MarkInv, headerVars, StoreInv, IndexInv, HeaderOK
<1>2. \A t \in Session : pc[t] \notin {"committing", "rolling back"}
  BY <1>1, NoHolder
<1>3. /\ InTx(s) /\ pc'[s] = "committing" /\ Len(levels[s]) = 1
      /\ \A t \in Session \ {s} : levels'[t] = levels[t] /\ work'[t] = work[t] /\ pc'[t] = pc[t]
  <2> DEFINE d == Len(levels[s])
  <2>1. /\ d > 0 /\ InTx(s) /\ d = 1 /\ pc'[s] = "committing"
        /\ \A t \in Session \ {s} : levels'[t] = levels[t] /\ work'[t] = work[t] /\ pc'[t] = pc[t]
    BY BegunLevels
  <2> QED BY <2>1
<1>4. \A t \in Session : Active(t)' <=> Active(t)
  <2>1. Active(s)' /\ Active(s)
    BY <1>3 DEF Active
  <2> QED BY <2>1, <1>3 DEF Active, InTx
<1>5. Ended' = Ended
  BY <1>1, <1>4, EndedSame
<1>6. \A t \in Session : ~Commits(t)
  BY <1>2 DEF Commits
<1>7. total_size_of_data <= Filled(c) /\ transaction_id - 1 <= MaxTran
  BY <1>6, QuietRoom
<1>8. b \in Nat /\ b <= MaxTransData /\ OpsBefore(ops[s], Len(ops[s]), b)
  BY SessionFacts DEF OrderOK, InOrder
<1>9. b \in 0 .. MaxTransData
  BY <1>8, ConstFacts
<1>10. OpsBefore(ops'[s], work'[s].cursor, b)
  <2>1. \A i \in 1 .. Len(ops[s]) : i <= Len(ops[s])
    BY <1>1
  <2> QED BY <2>1, <1>1, <1>8 DEF OpsBefore
<1>11. c \in Nat
  BY <1>1, EndedFacts
<1>12. total_size_of_data + b <= Filled(c + 1)
  <2> HIDE DEF c, b
  <2>1. Filled(c + 1) = Filled(c) + MaxTransData /\ Filled(c) \in Nat /\ MaxTransData \in Nat
    BY <1>11, FilledFacts, ConstFacts
  <2> QED BY <2>1, <1>1, <1>7, <1>8
<1>13. Commits(s)'
  BY <1>3 DEF Commits
<1> QED BY <1>1, <1>5, <1>7, <1>9, <1>10, <1>12, <1>13 DEF RoomLeft

(* The end of a transaction leaves its share of the data file behind. *)
LEMMA EndRoom ==
  ASSUME StoreInv, StoreInv', MarkInv, RoomLeft, NEW s \in Session, CommitEnd(s) \/ RollbackEnd(s)
  PROVE  RoomLeft'
<1> DEFINE c == Cardinality(Ended)
           i == tran_id[s]
<1>1. /\ OwnIds /\ OneHolder /\ total_size_of_data \in Int /\ c \in Nat /\ MaxTransData \in Nat
      /\ UNCHANGED << levels, total_size_of_data, tran_id, transaction_id >>
  BY EndedFacts, ConstFacts
     DEF CommitEnd, RollbackEnd, MarkInv, StoreInv, IndexInv, HeaderOK, headerVars
<1>2. /\ pc[s] \in {"committing", "rolling back"} /\ pc'[s] = "idle"
      /\ \A t \in Session \ {s} : pc'[t] = pc[t]
  BY EndedOps
<1>3. \A t \in Session : ~Commits(t)'
  <2>1. \A t \in Session \ {s} : ~Commits(t)
    BY <1>1, <1>2, OneCommits
  <2> QED BY <2>1, <1>2 DEF Commits
<1>4. \A t \in Session \ {s} : Active(t)' <=> Active(t)
  BY <1>1, <1>2 DEF Active, InTx
<1>5. Active(s) /\ (Active(s)' <=> InTx(s))
  BY <1>1, <1>2 DEF Active, InTx
<1>6. /\ i \notin Ended /\ i \in 1 .. transaction_id - 1
      /\ \A t \in Session \ {s} : Active(t) => tran_id[t] # i
  BY <1>1, <1>5, EndedFacts DEF OwnIds
<1>7. total_size_of_data <= Filled(IF InTx(s) THEN c ELSE c + 1) /\ transaction_id - 1 <= MaxTran
  <2>1. Filled(c) \in Nat /\ Filled(c + 1) = Filled(c) + MaxTransData
    BY <1>1, FilledFacts
  <2>2. CASE \A t \in Session : ~Commits(t)
    <3>1. total_size_of_data <= Filled(c) /\ transaction_id - 1 <= MaxTran
      BY <2>2, QuietRoom
    <3> HIDE DEF c
    <3> QED BY <1>1, <2>1, <3>1
  <2>3. CASE \E t \in Session : Commits(t)
    <3>1. Commits(s) /\ pc[s] = "committing"
      BY <1>1, <1>2, <2>3, OneCommits
    <3>2. ~InTx(s)
      BY <3>1 DEF StoreInv, SessionInv, Tile
    <3>3. PICK t \in Session, b \in 0 .. MaxTransData : total_size_of_data + b <= Filled(c + 1)
      BY <2>3 DEF RoomLeft
    <3>4. transaction_id - 1 <= MaxTran /\ b \in Nat
      BY <1>1 DEF RoomLeft
    <3> HIDE DEF c
    <3>5. total_size_of_data <= Filled(c + 1)
      BY <1>1, <2>1, <3>3, <3>4
    <3> QED BY <3>2, <3>4, <3>5
  <2> QED BY <2>2, <2>3
<1>8. CASE InTx(s)
  <2>1. Ended' = Ended
    BY <1>1, <1>4, <1>5, <1>8, EndedSame
  <2> QED BY <2>1, <1>1, <1>3, <1>7, <1>8, RoomQuiet
<1>9. CASE ~InTx(s)
  <2>1. Ended' = {j \in 1 .. transaction_id - 1 : \A t \in Session : Active(t)' => tran_id[t] # j}
    BY <1>1 DEF Ended
  <2>2. Ended = {j \in 1 .. transaction_id - 1 : \A t \in Session : Active(t) => tran_id[t] # j}
    BY DEF Ended
  <2>3. ~Active(s)'
    BY <1>5, <1>9
  <2>4. Ended' = Ended \cup {i}
    <3>1. \A j : (\A t \in Session : Active(t)' => tran_id[t] # j)
                 <=> \A t \in Session \ {s} : Active(t) => tran_id[t] # j
      BY <1>4, <2>3
    <3>2. \A j : (\A t \in Session : Active(t) => tran_id[t] # j)
                 <=> j # i /\ \A t \in Session \ {s} : Active(t) => tran_id[t] # j
      BY <1>5
    <3> HIDE DEF i
    <3> QED BY <2>1, <2>2, <3>1, <3>2, <1>6
  <2>5. Cardinality(Ended)' = c + 1
    BY <1>1, <1>6, <2>4, OneMoreEnded
  <2> QED BY <2>5, <1>1, <1>3, <1>7, <1>9, RoomQuiet
<1> QED BY <1>8, <1>9

(* One operation of a commit appends what was left room for. *)
LEMMA CommitOpRoom ==
  ASSUME StoreInv, StoreInv', MarkInv, OrderOK, RoomLeft, NEW s \in Session, CommitOp(s)
  PROVE  RoomLeft'
<1> DEFINE c == Cardinality(Ended)
           k == work[s].cursor
           op == ops[s][k]
           T == total_size_of_data
<1>1. /\ OwnIds /\ OneHolder /\ T \in Int /\ T' \in Int /\ c \in Nat /\ pc[s] = "committing"
      /\ MaxTransData \in Nat
  BY EndedFacts, ConstFacts DEF CommitOp, MarkInv, StoreInv, IndexInv, HeaderOK
<1>2. /\ work'[s].cursor = k - 1 /\ k > 0
      /\ UNCHANGED << pc, levels, ops, tran_id, transaction_id >>
  BY HolderWork
<1>3. Ended' = Ended
  BY <1>2, EndedSame DEF Active, InTx
<1>4. Commits(s) /\ Commits(s)' /\ \A t \in Session : Commits(t) => t = s
  BY <1>1, <1>2, OneCommits DEF Commits
<1>5. PICK b \in 0 .. MaxTransData : OpsBefore(ops[s], k, b) /\ T + b <= Filled(c + 1)
  BY <1>4 DEF RoomLeft
<1>6. /\ k \in Nat /\ k \in 1 .. Len(ops[s]) /\ op \in Op /\ op.size \in Nat /\ op.pos \in Nat
      /\ Len(ops[s]) \in Nat /\ \A i \in 1 .. Len(ops[s]) : ops[s][i] \in Op
  <2>1. Live(s) = k /\ k \in Nat /\ Live(s) <= Len(ops[s]) /\ Len(ops[s]) \in Nat
    BY <1>1, LiveOps
  <2>2. k \in 1 .. Len(ops[s])
    BY <2>1, <1>2
  <2> HIDE DEF k
  <2> QED BY <2>1, <2>2, SessionFacts
<1>7. OpsApart(ops[s]) /\ b \in Nat
  <2>1. OpsApart(ops[s])
    BY DEF OrderOK, InOrder
  <2>2. b \in Nat
    BY <1>1
  <2> QED BY <2>1, <2>2
<1>8. ASSUME NEW a \in 0 .. MaxTransData, OpsBefore(ops[s], k - 1, a), T' + a <= Filled(c + 1)
      PROVE  RoomLeft'
  <2>1. transaction_id' - 1 <= MaxTran
    BY <1>2 DEF RoomLeft
  <2> QED BY <2>1, <1>2, <1>3, <1>4, <1>8 DEF RoomLeft
<1>9. c + 1 \in Nat /\ Filled(c + 1) \in Nat
  <2> HIDE DEF c
  <2>1. c + 1 \in Nat
    BY <1>1
  <2> QED BY <2>1, FilledFacts
<1>10. CASE T' <= T
  <2>1. OpsBefore(ops[s], k - 1, b)
    <3> HIDE DEF k
    <3>1. \A i \in 1 .. Len(ops[s]) : i <= k - 1 => i <= k
      BY <1>6
    <3> QED BY <3>1, <1>5 DEF OpsBefore
  <2>2. T' + b <= Filled(c + 1)
    <3> HIDE DEF c, T
    <3> QED BY <1>1, <1>5, <1>7, <1>9, <1>10 DEF T
  <2> QED BY <1>8, <2>1, <2>2
<1>11. CASE CommitChange(s, op) /\ op.type = "append"
  <2>1. T' = T + op.size /\ Changes(op)
    BY <1>11 DEF CommitChange, Changes
  <2>2. OpsBefore(ops[s], k - 1, op.pos)
    <3> HIDE DEF k
    <3> QED BY <1>6, <1>7, <2>1 DEF OpsApart
  <2>3. EndOf(op) <= b
    <3>1. k <= k
      BY <1>6
    <3> HIDE DEF k
    <3> QED BY <1>5, <1>6, <2>1, <3>1 DEF OpsBefore
  <2> DEFINE a == op.pos
             z == op.size
  <2>4. a + z <= b /\ a \in Nat /\ z \in Nat /\ T' = T + z
    BY <1>6, <2>1, <2>3 DEF EndOf
  <2>5. a \in 0 .. MaxTransData /\ T' + a <= Filled(c + 1)
    <3> HIDE DEF a, z, c, T
    <3> QED BY <1>1, <1>5, <1>7, <1>9, <2>4 DEF T
  <2> QED BY <1>8, <2>2, <2>5
<1>12. \/ CommitDelete(s, op.id) \/ CommitChange(s, op) \/ CommitSkip(s, op.id)
  BY DEF CommitOp
<1>13. CASE CommitDelete(s, op.id)
  <2> DEFINE g == TailDeleted(work[s], index[op.id]).given_back
  <2>1. T' = T - g
    BY <1>13 DEF CommitDelete
  <2>2. g \in Nat
    <3>1. op.id \in Num
      <4> HIDE DEF op
      <4> QED BY <1>6 DEF Op
    <3>2. index[op.id] \in Entry /\ work[s] \in Work
      BY <3>1 DEF StoreInv, IndexInv, HeaderOK, SessionInv, SessionsOK
    <3> QED BY <3>2, TailWork
  <2>3. T' <= T
    <3> HIDE DEF g
    <3> QED BY <1>1, <2>1, <2>2
  <2> QED BY <2>3, <1>10
<1>14. CASE CommitSkip(s, op.id) \/ (CommitChange(s, op) /\ op.type # "append")
  <2>1. T' = T
    BY <1>14 DEF CommitSkip, CommitChange
  <2>2. T' <= T
    BY <2>1, <1>1
  <2> QED BY <2>2, <1>10
<1> QED BY <1>11, <1>12, <1>13, <1>14

LEMMA SameAtMost == \A a, b \in Int : b = a => b <= a
OBVIOUS

(* The calls that leave the levels alone, and the data as long as it was. *)
LEMMA RoomCalls ==
  ASSUME StoreInv, StoreInv', OwnIds, RoomLeft,
         UNCHANGED << levels, ops, work, tran_id, transaction_id, total_size_of_data >>,
         NEW s \in Session, pc[s] \notin {"committing", "rolling back"},
         NEW call \in {"idle", "reading", "writing", "storing"},
         pc' = [pc EXCEPT ![s] = call] \/ pc' = pc
  PROVE  RoomLeft'
<1>1. pc \in [Session -> PC] /\ total_size_of_data \in Int
  BY DEF StoreInv, SessionInv, SessionsOK, IndexInv, HeaderOK
<1>2. pc'[s] \notin {"committing", "rolling back"} /\ \A t \in Session \ {s} : pc'[t] = pc[t]
  BY <1>1
<1>3. \A t \in Session : (Active(t)' <=> Active(t)) /\ (Commits(t)' <=> Commits(t))
  BY <1>2 DEF Active, Commits, InTx
<1>4. total_size_of_data' <= total_size_of_data
  <2>1. total_size_of_data' = total_size_of_data /\ total_size_of_data \in Int /\ total_size_of_data' \in Int
    BY <1>1
  <2> QED BY <2>1, SameAtMost
<1> QED BY <1>3, <1>4, RoomKept

(* An operation that is logged stores nothing in the data file yet. *)
LEMMA RoomLogged ==
  ASSUME StoreInv, StoreInv', MarkInv, RoomLeft, NEW s \in Session, NEW n \in Num, NEW op \in Op,
         NEW x \in Entry, LoggedForm(s, n, op, x)
  PROVE  RoomLeft'
<1>1. /\ Section(s) /\ InTx(s) /\ LogOp(s, op) /\ pc[s] = "idle" /\ OneHolder /\ OwnIds
      /\ pc'[s] \in {"idle", "storing"} /\ \A t \in Session \ {s} : pc'[t] = pc[t]
      /\ UNCHANGED << work, tran_id, transaction_id, total_size_of_data >>
      /\ total_size_of_data \in Int
  BY DEF LoggedForm, LoggedOp, LoggedCall, Section, MarkInv, StoreInv, IndexInv, HeaderOK
<1>2. \A t \in Session : pc[t] \notin {"committing", "rolling back"}
  BY <1>1, NoHolder DEF Section
<1>3. Len(levels'[s]) = Len(levels[s]) /\ \A t \in Session \ {s} : levels'[t] = levels[t]
  BY <1>1, LoggedLevels
<1>4. InTx(s)'
  <2>1. Len(levels[s]) # 0
    BY <1>1, SessionFacts
  <2>2. levels'[s] # << >>
    BY <1>3, <2>1, EmptySeq
  <2> QED BY <2>2 DEF InTx
<1>5. \A t \in Session : Active(t)' <=> Active(t)
  BY <1>1, <1>3, <1>4 DEF Active, InTx
<1>6. \A t \in Session : ~Commits(t) /\ ~Commits(t)'
  BY <1>1, <1>2 DEF Commits
<1>7. total_size_of_data' <= total_size_of_data
  BY <1>1
<1> QED BY <1>1, <1>5, <1>6, <1>7, RoomKept

LEMMA NextRoom ==
  ASSUME ~StaleIds, StoreInv, StoreInv', MarkInv, ExtentInv, OrderOK, RoomLeft, [Next]_vars
  PROVE  RoomLeft'
<1>1. OneHolder /\ OwnIds /\ HeaderOK /\ total_size_of_data \in Int /\ SessionsOK
  BY DEF MarkInv, StoreInv, IndexInv, HeaderOK, SessionInv
<1>2. ASSUME NEW s \in Session, NEW size \in Size, NEW val \in Value,
             \/ Create(s, size, val) \/ Revive(s, size, val)
             \/ \E n \in Num : Update(s, n, size, val)
      PROVE  RoomLeft'
  <2>1. PICK n \in Num, e \in Entry, isNew \in BOOLEAN : StoreForm(s, n, e, isNew, size, val)
    BY <1>2, StoreForms
  <2>2. CASE StoreInTx(s, n, e, isNew, size, val)
    <3>1. PICK op \in Op, x \in Entry : LoggedForm(s, n, op, x)
      BY <2>1, <2>2, StoreLogs
    <3> QED BY <3>1, RoomLogged
  <2>3. CASE StorePlain(s, n, e, isNew, size, val)
    <3>1. PICK x \in Entry : PlainForm(s, n, x, size, val)
      BY <2>1, <2>3, StorePlaces
    <3>2. /\ rp_impl_lock = NoSession /\ pc[s] = "idle" /\ levels' = levels /\ tran_id' = tran_id
          /\ pc' = [pc EXCEPT ![s] = "writing"] /\ transaction_id < MaxTran
          /\ transaction_id' = transaction_id + 1
          /\ total_size_of_data' \in {total_size_of_data, total_size_of_data + size}
      BY <3>1 DEF PlainForm, Section
    <3>3. \A t \in Session : pc[t] \notin {"committing", "rolling back"}
      BY <1>1, <3>2, NoHolder
    <3>4. \A t \in Session : pc'[t] \notin {"committing", "rolling back"}
      BY <1>1, <3>2, <3>3 DEF SessionsOK
    <3>5. \A t \in Session : (Active(t)' <=> Active(t)) /\ ~Commits(t) /\ ~Commits(t)'
      BY <3>2, <3>3, <3>4 DEF Active, Commits, InTx
    <3>6. total_size_of_data' <= total_size_of_data + MaxTransData
      BY <1>1, <3>2, ConstFacts
    <3> QED BY <1>1, <3>2, <3>5, <3>6, RoomForOne
  <2> QED BY <2>1, <2>2, <2>3 DEF StoreForm, Store
<1>3. ASSUME NEW s \in Session, NEW n \in Num, Destroy(s, n)
      PROVE  RoomLeft'
  <2>1. CASE DestroyInTx(s, n)
    <3>1. PICK op \in Op, x \in Entry : LoggedForm(s, n, op, x)
      BY <1>3, <2>1, DestroyLogs
    <3> QED BY <3>1, RoomLogged
  <2>2. CASE DestroyPlain(s, n)
    <3>1. /\ rp_impl_lock = NoSession /\ pc' = pc /\ UNCHANGED << levels, tran_id >>
          /\ transaction_id < MaxTran /\ transaction_id' = transaction_id + 1
          /\ total_size_of_data' \in {total_size_of_data, total_size_of_data - index[n].size}
      BY <1>3, <2>2 DEF Destroy, DestroyPlain, Section, tranVars
    <3>2. index[n].size \in Nat
      BY <1>1 DEF HeaderOK, Entry
    <3>3. \A t \in Session : pc[t] \notin {"committing", "rolling back"}
      BY <1>1, <3>1, NoHolder
    <3>4. \A t \in Session : (Active(t)' <=> Active(t)) /\ ~Commits(t) /\ ~Commits(t)'
      BY <3>1, <3>3 DEF Active, Commits, InTx
    <3>5. total_size_of_data' <= total_size_of_data + MaxTransData
      <4> DEFINE z == index[n].size
      <4>1. z \in Nat /\ total_size_of_data' \in {total_size_of_data, total_size_of_data - z}
        BY <3>1, <3>2
      <4> HIDE DEF z
      <4> QED BY <1>1, <4>1, ConstFacts
    <3> QED BY <1>1, <3>1, <3>4, <3>5, RoomForOne
  <2> QED BY <1>3, <2>1, <2>2 DEF Destroy
<1>4. ASSUME NEW s \in Session, NEW n \in Num, StartRead(s, n)
      PROVE  RoomLeft'
  <2>1. UNCHANGED << levels, ops, work, tran_id, transaction_id, total_size_of_data >>
        /\ pc[s] = "idle" /\ pc' = [pc EXCEPT ![s] = "reading"]
    BY <1>4 DEF StartRead, Section, tranVars, headerVars
  <2> QED BY <1>1, <2>1, RoomCalls
<1>5. ASSUME NEW s \in Session,
             \/ FinishStore(s) \/ FetchPage(s) \/ NextPage(s) \/ FinishWrite(s)
             \/ ReadPage(s) \/ FinishRead(s)
      PROVE  RoomLeft'
  <2>1. /\ UNCHANGED << levels, ops, work, tran_id, transaction_id, total_size_of_data >>
        /\ pc' = [pc EXCEPT ![s] = "idle"] \/ pc' = pc
        /\ pc[s] \in {"storing", "writing", "reading"}
    BY <1>5 DEF FinishStore, FetchPage, NextPage, FinishWrite, ReadPage, FinishRead, ReadDone, tranVars, headerVars
  <2> QED BY <1>1, <2>1, RoomCalls
<1>6. ASSUME NEW s \in Session,
             \/ TransactionStart(s) \/ CommitBegin(s) \/ CommitOp(s) \/ CommitEnd(s) \/ RollbackEnd(s)
      PROVE  RoomLeft'
  BY <1>6, StartRoom, CommitRoom, CommitOpRoom, EndRoom
<1>7. ASSUME NEW s \in Session, CommitInner(s)
      PROVE  RoomLeft'
  <2>1. UNCHANGED << ops, work, tran_id, transaction_id, total_size_of_data, pc >>
    BY <1>7 DEF CommitInner, headerVars
  <2>2. /\ \A t \in Session \ {s} : levels'[t] = levels[t]
        /\ Len(levels[s]) > 1 /\ Len(levels'[s]) = Len(levels[s]) - 1
    BY <1>7, InnerLevels
  <2>3. InTx(s) /\ InTx(s)' 
    <3>1. Len(levels[s]) # 0 /\ Len(levels'[s]) # 0
      BY <2>2, SessionFacts
    <3> QED BY <3>1, EmptySeq DEF InTx
  <2>4. \A t \in Session : (Active(t)' <=> Active(t)) /\ (Commits(t)' <=> Commits(t))
    BY <2>1, <2>2, <2>3 DEF Active, Commits, InTx
  <2>5. total_size_of_data' <= total_size_of_data
    BY <1>1, <2>1
  <2> QED BY <1>1, <2>1, <2>4, <2>5, RoomKept
<1>8. ASSUME NEW s \in Session, RollbackBegin(s)
      PROVE  RoomLeft'
  <2>1. /\ UNCHANGED << ops, tran_id, transaction_id, total_size_of_data >>
        /\ rp_impl_lock = NoSession
    BY <1>8 DEF RollbackBegin, Section, headerVars
  <2>2. /\ InTx(s) /\ pc'[s] = "rolling back"
        /\ \A t \in Session \ {s} : levels'[t] = levels[t] /\ work'[t] = work[t] /\ pc'[t] = pc[t]
    BY <1>8, BegunLevels
  <2>3. \A t \in Session : pc[t] \notin {"committing", "rolling back"}
    BY <1>1, <2>1, NoHolder
  <2>4. \A t \in Session : (Active(t)' <=> Active(t)) /\ ~Commits(t) /\ ~Commits(t)'
    BY <2>2, <2>3 DEF Active, Commits, InTx
  <2>5. total_size_of_data' <= total_size_of_data
    BY <1>1, <2>1
  <2> QED BY <1>1, <2>1, <2>4, <2>5, RoomKept
<1>9. ASSUME NEW s \in Session, RollbackOp(s)
      PROVE  RoomLeft'
  <2>1. UNCHANGED << pc, levels, ops, tran_id, transaction_id >> /\ pc[s] = "rolling back"
    BY <1>9, HolderWork DEF RollbackOp
  <2>2. \A t \in Session : ~Commits(t)
    BY <1>1, <2>1, OneCommits
  <2>3. \A t \in Session : (Active(t)' <=> Active(t)) /\ ~Commits(t)'
    BY <2>1, <2>2 DEF Active, Commits, InTx
  <2>4. total_size_of_data' <= total_size_of_data
    <3> DEFINE z == index[ops[s][work[s].op_offset + work[s].cursor].id].size
    <3>1. total_size_of_data' \in {total_size_of_data, total_size_of_data - z}
      BY <1>9 DEF RollbackOp
    <3>2. z \in Nat
      <4> DEFINE n == ops[s][work[s].op_offset + work[s].cursor].id
      <4>1. n \in Num
        <5>1. Live(s) = work[s].op_offset + work[s].cursor /\ Live(s) \in Nat /\ Live(s) <= Len(ops[s])
              /\ work[s].cursor \in Nat /\ work[s].op_offset \in Nat
          BY <1>1, <2>1, LiveOps
        <5>2. Live(s) > 0
          <6>1. work[s].cursor > 0
            BY <1>9, HolderWork
          <6> QED BY <5>1, <6>1
        <5>3. Live(s) \in 1 .. Live(s)
          BY <5>1, <5>2
        <5>4. ops[s][Live(s)].id \in Num
          BY <1>1, <5>3, LiveIds
        <5> QED BY <5>1, <5>4
      <4> HIDE DEF n
      <4>2. index[n].size \in Nat
        BY <4>1, <1>1 DEF HeaderOK, Entry
      <4> QED BY <4>2 DEF n
    <3> HIDE DEF z
    <3> QED BY <1>1, <3>1, <3>2
  <2> QED BY <1>1, <2>1, <2>2, <2>3, <2>4, RoomKept
<1>10. CASE Quiescent \/ UNCHANGED vars
  <2>1. UNCHANGED << levels, ops, work, tran_id, transaction_id, total_size_of_data, pc >>
    BY <1>10 DEF Quiescent, vars, tranVars, headerVars
  <2>2. \A t \in Session : (Active(t)' <=> Active(t)) /\ (Commits(t)' <=> Commits(t))
    BY <2>1 DEF Active, Commits, InTx
  <2>3. total_size_of_data' <= total_size_of_data
    BY <1>1, <2>1
  <2> QED BY <1>1, <2>1, <2>2, <2>3, RoomKept
<1> QED BY <1>2, <1>3, <1>4, <1>5, <1>6, <1>7, <1>8, <1>9, <1>10 DEF Next, HolderStep

-----------------------------------------------------------------------------
(* The cells of the files, and the writers on their way through the pages.    *)

LEMMA PageFacts ==
  /\ \A c \in Nat : /\ PageOf(c) \in Nat /\ c % PageSize \in 0 .. PageSize - 1
                    /\ c = PageOf(c) * PageSize + (c % PageSize)
  /\ \A c, d \in Nat : c <= d => PageOf(c) <= PageOf(d)
  /\ \A p \in Nat, i \in 0 .. PageSize - 1 :
       p * PageSize + i \in Nat /\ PageOf(p * PageSize + i) = p
<1>1. PageSize \in Nat \ {0}
  BY ConstFacts
<1>2. \A c \in Nat : PageOf(c) \in Nat /\ c % PageSize \in 0 .. PageSize - 1
  BY <1>1 DEF PageOf
<1>3. \A c \in Nat : c = PageOf(c) * PageSize + (c % PageSize)
  BY <1>1 DEF PageOf
<1>4. \A c, d \in Nat : c <= d => PageOf(c) <= PageOf(d)
  BY <1>1 DEF PageOf
<1>5. \A p \in Nat, i \in 0 .. PageSize - 1 : p * PageSize + i \in Nat
  BY <1>1
<1>6. \A p \in Nat, i \in 0 .. PageSize - 1 : PageOf(p * PageSize + i) = p
  BY <1>1 DEF PageOf
<1> QED BY <1>2, <1>3, <1>4, <1>5, <1>6

(* The steps of one session. *)
StepOf(s) ==
  \/ \E size \in Size, val \in Value :
       \/ Create(s, size, val)
       \/ Revive(s, size, val)
       \/ \E n \in Num : Update(s, n, size, val)
  \/ \E n \in Num : Destroy(s, n) \/ StartRead(s, n)
  \/ FinishStore(s) \/ FetchPage(s) \/ NextPage(s) \/ FinishWrite(s)
  \/ ReadPage(s) \/ FinishRead(s)
  \/ TransactionStart(s) \/ CommitInner(s) \/ CommitBegin(s) \/ RollbackBegin(s) \/ HolderStep(s)

LEMMA NextSteps ==
  ASSUME [Next]_vars
  PROVE  UNCHANGED vars \/ \E s \in Session : StepOf(s)
BY DEF Next, StepOf, Quiescent

(* A step of a session leaves what the others are doing alone. *)
Alone(t) ==
  /\ pc'[t] = pc[t] /\ levels'[t] = levels[t] /\ ops'[t] = ops[t] /\ tran_id'[t] = tran_id[t]
  /\ total_trans_size'[t] = total_trans_size[t] /\ trans_data'[t] = trans_data[t]
  /\ write'[t] = write[t] /\ page_copy'[t] = page_copy[t] /\ work'[t] = work[t]

LEMMA OthersAlone ==
  ASSUME StoreInv, CellsOK, NEW s \in Session, StepOf(s), NEW t \in Session \ {s}
  PROVE  Alone(t)
<1>1. /\ pc \in [Session -> PC] /\ tran_id \in [Session -> Nat]
      /\ levels \in [Session -> Seq(Level)] /\ ops \in [Session -> Seq(Op)]
      /\ total_trans_size \in [Session -> Nat] /\ work \in [Session -> Work]
      /\ write \in [Session -> Write] /\ DOMAIN trans_data = Session /\ DOMAIN page_copy = Session
  BY DEF StoreInv, SessionInv, SessionsOK, IndexInv, HeaderOK, CellsOK
<1>2. ASSUME NEW n, NEW e, NEW isNew, NEW size, NEW val, Store(s, n, e, isNew, size, val)
      PROVE  Alone(t)
  BY <1>1, <1>2 DEF Store, StoreInTx, StorePlain, LogOp, tranVars, Alone
<1>3. ASSUME NEW size \in Size, NEW val \in Value,
             Create(s, size, val) \/ Revive(s, size, val) \/ \E n \in Num : Update(s, n, size, val)
      PROVE  Alone(t)
  BY <1>2, <1>3 DEF Create, Revive, Update
<1>4. ASSUME NEW n \in Num, Destroy(s, n) \/ StartRead(s, n)
      PROVE  Alone(t)
  BY <1>1, <1>4 DEF Destroy, DestroyInTx, DestroyPlain, LogOp, StartRead, tranVars, Alone
<1>5. CASE \/ FinishStore(s) \/ FetchPage(s) \/ NextPage(s) \/ FinishWrite(s)
           \/ ReadPage(s) \/ FinishRead(s)
  BY <1>1, <1>5 DEF FinishStore, FetchPage, NextPage, FinishWrite, ReadPage, FinishRead, tranVars, Alone
<1>6. CASE \/ TransactionStart(s) \/ CommitInner(s) \/ CommitBegin(s) \/ RollbackBegin(s)
           \/ CommitEnd(s) \/ RollbackEnd(s)
  BY <1>1, <1>6 DEF TransactionStart, CommitInner, CommitBegin, RollbackBegin, CommitEnd, RollbackEnd,
                    tranVars, Alone
<1>7. CASE CommitOp(s) \/ RollbackOp(s)
  BY <1>1, <1>7, HolderWork DEF Alone
<1> QED BY <1>3, <1>4, <1>5, <1>6, <1>7 DEF StepOf, HolderStep

(* A plain writer is at the extent of the entry that it has locked. *)
LEMMA WriterAt ==
  ASSUME StoreInv, MarkInv, ExtentInv, RoomLeft, NEW t \in Session, pc[t] = "writing", Writing(t)
  PROVE  LET n == write[t].num
             w == write[t]
         IN /\ n \in Stored /\ n \in Num /\ n < total_entries
            /\ index[n].pos = w.pos /\ index[n].size = w.size
            /\ index[n].lock = "entry" /\ index[n].trans = "none" /\ w.entry = index[n]
            /\ w.pos \in Nat /\ w.size \in Nat /\ w.size > 0 /\ w.val \in Fill
            /\ w.pos + w.size <= total_size_of_data /\ total_size_of_data <= MaxData
            /\ w.pos .. w.pos + w.size - 1 \subseteq Cell
<1> DEFINE n == write[t].num
           w == write[t]
<1>1. /\ n \in 0 .. total_entries - 1 /\ w.entry = index[n] /\ w.entry.lock = "entry"
      /\ HeaderOK /\ total_entries \in Nat
  BY NumFacts DEF StoreInv, IndexInv, LockInv
<1>2. n \in Num /\ n < total_entries
  BY <1>1, NumFacts
<1>3. index[n].trans = "none"
  BY <1>1, <1>2 DEF StoreInv, IndexInv, LockInv
<1>4. n \in Stored
  BY <1>1, <1>3 DEF Stored
<1>5. index[n].pos = w.pos /\ index[n].size = w.size /\ w.size > 0 /\ w.val \in Fill
  BY <1>1 DEF Writing, Fill
<1>6. w.pos \in Int /\ w.size \in Nat
  BY <1>1 DEF HeaderOK, Write
<1>7. FitsFor(n, index[n], total_size_of_data)
  BY <1>4 DEF ExtentInv, ExtentsApart
<1>8. 0 <= index[n].pos /\ index[n].pos + index[n].size <= total_size_of_data
  BY <1>7 DEF FitsFor, InData
<1>9. total_size_of_data <= MaxData /\ MaxData \in Nat /\ PageSize \in Nat \ {0}
      /\ total_size_of_data \in Int
  BY RoomFits, ConstFacts, <1>1 DEF HeaderOK
<1>10. w.pos \in Nat /\ w.pos + w.size <= total_size_of_data
  BY <1>5, <1>6, <1>8
<1>11. w.pos .. w.pos + w.size - 1 \subseteq Cell
  <2> DEFINE a == w.pos
             z == w.size
  <2>1. a \in Nat /\ z \in Nat /\ a + z <= total_size_of_data
    BY <1>6, <1>10
  <2> HIDE DEF a, z
  <2>2. a .. a + z - 1 \subseteq 0 .. MaxData + PageSize - 1
    BY <2>1, <1>9
  <2> QED BY <2>2 DEF Cell, a, z
<1> QED BY <1>1, <1>2, <1>3, <1>4, <1>5, <1>6, <1>9, <1>10, <1>11

LEMMA CellNat == \A c \in Cell : c \in Nat
BY ConstFacts DEF Cell

(* The pages that a write goes through. *)
LEMMA PagesOf ==
  ASSUME NEW w, w.pos \in Nat, w.size \in Nat, w.size > 0
  PROVE  /\ PageOf(w.pos) \in Nat /\ LastPage(w) \in Nat /\ PageOf(w.pos) <= LastPage(w)
         /\ \A c \in w.pos .. w.pos + w.size - 1 : PageOf(w.pos) <= PageOf(c) /\ PageOf(c) <= LastPage(w)
<1> DEFINE a == w.pos
           b == w.pos + w.size - 1
<1>1. a \in Nat /\ b \in Nat /\ a <= b
  OBVIOUS
<1>2. LastPage(w) = PageOf(b)
  BY DEF LastPage
<1> HIDE DEF a, b
<1>3. \A c \in a .. b : c \in Nat /\ a <= c /\ c <= b
  BY <1>1
<1>4. /\ PageOf(a) \in Nat /\ PageOf(b) \in Nat /\ PageOf(a) <= PageOf(b)
      /\ \A c \in a .. b : PageOf(a) <= PageOf(c) /\ PageOf(c) <= PageOf(b)
  BY <1>1, <1>3, PageFacts
<1> QED BY <1>2, <1>4 DEF a, b

(* A copy put back changes no cell but those of its object on that page. *)
LEMMA PutCells ==
  ASSUME NEW s \in Session, page_copy[s] # NoPage, PageHeld(s)
  PROVE  Put(page_copy[s]) =
           [c \in Cell |-> IF PageOf(c) = page_copy[s].page
                              /\ c \in write[s].pos .. write[s].pos + write[s].size - 1
                           THEN write[s].val ELSE data[c]]
<1> DEFINE w == write[s]
           p == page_copy[s].page
           R == w.pos .. w.pos + w.size - 1
<1>1. page_copy[s] = Copied(w, p)
  BY DEF PageHeld
<1>2. page_copy[s].cells = [i \in 0 .. PageSize - 1 |->
                              IF p * PageSize + i \in R THEN w.val ELSE data[p * PageSize + i]]
  <2> HIDE DEF p, w
  <2> QED BY <1>1 DEF Copied
<1>3. ASSUME NEW c \in Cell, PageOf(c) = p
      PROVE  page_copy[s].cells[c % PageSize] = IF c \in R THEN w.val ELSE data[c]
  <2>1. c % PageSize \in 0 .. PageSize - 1 /\ c = p * PageSize + (c % PageSize)
    BY <1>3, CellNat, PageFacts
  <2> HIDE DEF p, w, R
  <2> QED BY <2>1, <1>2
<1>4. ASSUME NEW c \in Cell
      PROVE  (IF PageOf(c) = p THEN page_copy[s].cells[c % PageSize] ELSE data[c])
             = (IF PageOf(c) = p /\ c \in R THEN w.val ELSE data[c])
  <2> HIDE DEF p, w, R
  <2> QED BY <1>3
<1> QED BY <1>4 DEF Put

(* The step of a session on its way through the pages, and what it writes. *)
LEMMA CellsFrame ==
  ASSUME CellsOK, UNCHANGED << data, trans_data >>, DOMAIN page_copy' = Session, DOMAIN read' = Session
  PROVE  CellsOK'
BY DEF CellsOK, Cell, Fill

LEMMA CellsPut ==
  ASSUME StoreInv, MarkInv, ExtentInv, CellsOK, RoomLeft, NEW s \in Session, pc[s] = "writing",
         WriterOK(s), page_copy[s] # NoPage, data' = Put(page_copy[s]), UNCHANGED trans_data,
         DOMAIN page_copy' = Session, DOMAIN read' = Session
  PROVE  CellsOK'
<1>1. Writing(s) /\ PageHeld(s)
  BY DEF WriterOK
<1>2. write[s].val \in Fill
  BY <1>1 DEF Writing, Fill
<1>3. data' = [c \in Cell |-> IF PageOf(c) = page_copy[s].page
                              /\ c \in write[s].pos .. write[s].pos + write[s].size - 1
                           THEN write[s].val ELSE data[c]]
  BY <1>1, PutCells
<1>4. data' \in [Cell -> Fill]
  BY <1>2, <1>3 DEF CellsOK
<1> QED BY <1>4 DEF CellsOK, Cell, Fill

LEMMA CommitCells ==
  ASSUME StoreInv, MarkInv, CellsOK, OrderOK, NEW s \in Session, CommitOp(s),
         DOMAIN page_copy' = Session, DOMAIN read' = Session
  PROVE  CellsOK'
<1> DEFINE k == work[s].cursor
           op == ops[s][k]
<1>1. UNCHANGED trans_data
  BY HolderWork
<1>2. CASE UNCHANGED data
  BY <1>1, <1>2, CellsFrame
<1>3. CASE CommitChange(s, op)
  <2> DEFINE e == index[op.id]
             pos == IF op.type = "append" THEN total_size_of_data ELSE e.pos
             a == op.pos
             z == op.size
             M == MaxTransData
  <2>1. k \in 1 .. Len(ops[s]) /\ pc[s] = "committing" /\ k \in Nat
    <3>1. OneHolder /\ pc[s] = "committing" /\ k > 0
      BY DEF MarkInv, CommitOp
    <3>2. k \in Nat /\ k <= Len(ops[s]) /\ Len(ops[s]) \in Nat
      BY <3>1, LiveOps
    <3> HIDE DEF k
    <3> QED BY <3>1, <3>2
  <2>2. op \in Op /\ a \in Nat /\ z \in Nat /\ op.id \in Num
    BY <2>1, SessionFacts
  <2>3. LastOp(s, op.id, k) /\ Changes(op)
    <3>1. HasMark(op.id) /\ index[op.id].trans = "change"
      BY <1>3 DEF CommitChange, HasMark
    <3>2. Live(s) = k /\ Live(s) > 0
      <4>1. Live(s) = k
        BY <2>1, LiveOps DEF MarkInv
      <4> HIDE DEF k
      <4> QED BY <2>1, <4>1
    <3>3. Names(s, op.id, k)
      BY <2>2, <3>1, <3>2, LastIsNamed
    <3> QED BY <3>1, <3>3 DEF Names, Changes
  <2>4. a + z <= M /\ M \in Nat
    <3>1. EndOf(op) <= total_trans_size[s] /\ total_trans_size[s] <= M
      <4>1. OpsBefore(ops[s], Len(ops[s]), total_trans_size[s]) /\ total_trans_size[s] <= M
        BY DEF OrderOK, InOrder
      <4>2. k <= Len(ops[s])
        BY <2>1
      <4> QED BY <4>1, <4>2, <2>1, <2>3 DEF OpsBefore
    <3>2. EndOf(op) \in Nat /\ total_trans_size[s] \in Nat /\ M \in Nat
      BY <2>1, SessionFacts, ConstFacts
    <3> QED BY <3>1, <3>2 DEF EndOf
  <2>5. data' = [c \in Cell |-> IF c \in pos .. pos + z - 1 THEN trans_data[s][a + (c - pos)] ELSE data[c]]
    BY <1>3 DEF CommitChange
  <2>6. trans_data[s] \in [0 .. M - 1 -> Fill] /\ data \in [Cell -> Fill]
    BY DEF CellsOK
  <2>7. pos \in Int
    <3>1. index[op.id].pos \in Int /\ total_size_of_data \in Int
      <4> HIDE DEF op
      <4> QED BY <2>2 DEF StoreInv, IndexInv, HeaderOK, Entry
    <3> QED BY <3>1
  <2> HIDE DEF pos, a, z, M
  <2>8. ASSUME NEW c \in Cell, c \in pos .. pos + z - 1 PROVE trans_data[s][a + (c - pos)] \in Fill
    <3>1. a + (c - pos) \in 0 .. M - 1
      BY <2>2, <2>4, <2>7, <2>8
    <3> QED BY <3>1, <2>6
  <2>9. data' \in [Cell -> Fill]
    BY <2>5, <2>6, <2>8
  <2> QED BY <1>1, <2>9 DEF CellsOK, Cell, Fill
<1> QED BY <1>2, <1>3 DEF CommitOp, CommitDelete, CommitSkip

LEMMA CellsStep ==
  ASSUME StoreInv, MarkInv, ExtentInv, CellsOK, RoomLeft, WritersOK, OrderOK, NEW s \in Session, StepOf(s)
  PROVE  CellsOK'
<1>1. DOMAIN page_copy = Session /\ DOMAIN read = Session /\ DOMAIN trans_data = Session
      /\ trans_data \in [Session -> [0 .. MaxTransData - 1 -> Fill]]
  BY DEF CellsOK
<1>2. ASSUME NEW n, NEW e, NEW isNew, NEW size, NEW val, Store(s, n, e, isNew, size, val)
      PROVE  CellsOK'
  <2>1. UNCHANGED << data, trans_data, page_copy, read >>
    BY <1>2 DEF Store
  <2> QED BY <1>1, <2>1, CellsFrame
<1>3. ASSUME NEW size \in Size, NEW val \in Value,
             Create(s, size, val) \/ Revive(s, size, val) \/ \E n \in Num : Update(s, n, size, val)
      PROVE  CellsOK'
  BY <1>2, <1>3 DEF Create, Revive, Update
<1>4. ASSUME NEW n \in Num, Destroy(s, n) \/ StartRead(s, n)
      PROVE  CellsOK'
  <2>1. UNCHANGED << data, trans_data, page_copy >> /\ DOMAIN read' = Session
    BY <1>1, <1>4 DEF Destroy, DestroyInTx, DestroyPlain, Outdated, StartRead
  <2> QED BY <1>1, <2>1, CellsFrame
<1>5. CASE FetchPage(s) \/ ReadPage(s) \/ FinishRead(s)
  <2>1. UNCHANGED << data, trans_data >> /\ DOMAIN page_copy' = Session /\ DOMAIN read' = Session
    BY <1>1, <1>5 DEF FetchPage, ReadPage, FinishRead
  <2> QED BY <2>1, CellsFrame
<1>6. CASE NextPage(s) \/ FinishWrite(s)
  <2>1. /\ pc[s] = "writing" /\ data' = Put(page_copy[s]) /\ UNCHANGED trans_data
        /\ DOMAIN page_copy' = Session /\ DOMAIN read' = Session
    BY <1>1, <1>6 DEF NextPage, FinishWrite
  <2>2. WriterOK(s)
    BY DEF WritersOK
  <2>3. page_copy[s] # NoPage
    <3>1. CASE NextPage(s)
      BY <3>1 DEF NextPage
    <3>2. CASE FinishWrite(s)
      <4>1. page_copy[s].page = LastPage(write[s])
        BY <3>2 DEF FinishWrite
      <4>2. LastPage(write[s]) \in Nat
        <5>1. Writing(s)
          BY <2>1, <2>2 DEF WriterOK
        <5>2. write[s].pos \in Nat /\ write[s].size \in Nat /\ write[s].size > 0
          BY <2>1, <5>1, WriterAt
        <5> QED BY <5>2, PagesOf
      <4>3. NoPage.page = -1
        BY DEF NoPage
      <4> QED BY <4>1, <4>2, <4>3
    <3> QED BY <1>6, <3>1, <3>2
  <2> QED BY <2>1, <2>2, <2>3, CellsPut
<1>7. CASE FinishStore(s)
  <2> DEFINE q == trans_data[s]
             a == write[s].pos
             z == write[s].size
             v == write[s].val
             r == [c \in DOMAIN q |-> IF c \in a .. a + z - 1 THEN v ELSE q[c]]
  <2>1. /\ trans_data' = [trans_data EXCEPT ![s] = r] /\ pc[s] = "storing"
        /\ UNCHANGED << data, page_copy, read >>
    BY <1>7 DEF FinishStore
  <2>2. v \in Fill
    BY <2>1 DEF WritersOK, WriterOK, Storing, Fill
  <2>3. q \in [0 .. MaxTransData - 1 -> Fill]
    BY <1>1
  <2> HIDE DEF a, z, v, q
  <2>4. r \in [0 .. MaxTransData - 1 -> Fill]
    BY <2>2, <2>3
  <2> HIDE DEF r
  <2>5. trans_data' \in [Session -> [0 .. MaxTransData - 1 -> Fill]]
    BY <1>1, <2>1, <2>4
  <2> QED BY <1>1, <2>1, <2>5 DEF CellsOK, Cell, Fill
<1>8. CASE TransactionStart(s) \/ CommitInner(s) \/ CommitBegin(s) \/ RollbackBegin(s)
  <2>1. UNCHANGED << data, trans_data, page_copy, read >>
    BY <1>8 DEF TransactionStart, CommitInner, CommitBegin, RollbackBegin
  <2> QED BY <1>1, <2>1, CellsFrame
<1>9. CASE CommitOp(s) \/ RollbackOp(s)
  <2>1. UNCHANGED << page_copy, trans_data >>
    BY <1>9, HolderWork
  <2>2. DOMAIN read' = Session
    BY <1>1, <1>9 DEF CommitOp, CommitDelete, CommitChange, CommitSkip, RollbackOp, Outdated
  <2>3. RollbackOp(s) => UNCHANGED data
    BY DEF RollbackOp
  <2> QED BY <1>1, <1>9, <2>1, <2>2, <2>3, CellsFrame, CommitCells
<1>10. CASE CommitEnd(s) \/ RollbackEnd(s)
  <2>1. /\ UNCHANGED << data, page_copy, read >>
        /\ trans_data' = [trans_data EXCEPT ![s] = NoTransData] \/ trans_data' = trans_data
    BY <1>10 DEF CommitEnd, RollbackEnd
  <2>2. NoTransData \in [0 .. MaxTransData - 1 -> Fill]
    BY DEF NoTransData, Fill
  <2>3. trans_data' \in [Session -> [0 .. MaxTransData - 1 -> Fill]]
    BY <1>1, <2>1, <2>2
  <2>4. data' \in [Cell -> Fill] /\ DOMAIN page_copy' = Session /\ DOMAIN read' = Session
    <3>1. data' = data /\ page_copy' = page_copy /\ read' = read
      BY <2>1
    <3>2. data \in [Cell -> Fill] /\ DOMAIN page_copy = Session /\ DOMAIN read = Session
      BY DEF CellsOK
    <3> QED BY <3>1, <3>2
  <2> QED BY <2>3, <2>4 DEF CellsOK, Cell, Fill
<1> QED BY <1>3, <1>4, <1>5, <1>6, <1>7, <1>8, <1>9, <1>10 DEF StepOf, HolderStep

(* What a step writes into the data file lies apart from the extents that     *)
(* other sessions write to.                                                   *)
Elsewhere(t) ==
  \A c \in Cell : c \in write[t].pos .. write[t].pos + write[t].size - 1 => data'[c] = data[c]

LEMMA HeldElsewhere ==
  ASSUME WholePages, StoreInv, MarkInv, ExtentInv, RoomLeft, NEW s \in Session,
         NEW t \in Session \ {s}, pc[t] = "writing", Writing(t), PageHeld(t),
         page_copy'[t] = page_copy[t], write'[t] = write[t], Elsewhere(t)
  PROVE  PageHeld(t)'
<1> DEFINE w == write[t]
           p == page_copy[t].page
           R == w.pos .. w.pos + w.size - 1
<1>1. t \in PlainSession /\ s # t
  BY DEF Writing
<1>2. w.pos \in Nat /\ w.size \in Nat /\ w.size > 0 /\ R \subseteq Cell
  BY WriterAt
<1>3. PageSize = 1
  BY <1>1 DEF WholePages
<1> SUFFICES ASSUME page_copy[t] # NoPage PROVE PageHeld(t)'
  BY DEF PageHeld
<1>4. /\ p \in PageOf(w.pos) .. LastPage(w) /\ page_copy[t] = Copied(w, p)
      /\ \A c \in R : PageOf(c) < p => data[c] = w.val
  BY DEF PageHeld
<1>5. \A c \in R : PageOf(c) < p => data'[c] = w.val
  BY <1>2, <1>4 DEF Elsewhere
<1>6. p * PageSize + 0 \in R
  <2> DEFINE a == w.pos
             z == w.size
  <2>1. PageOf(a) = a /\ LastPage(w) = a + z - 1 /\ a \in Nat /\ z \in Nat
    BY <1>2, <1>3 DEF PageOf, LastPage
  <2>2. p \in a .. a + z - 1
    BY <1>4, <2>1
  <2> HIDE DEF a, z, p
  <2>3. p * PageSize + 0 = p
    BY <1>3, <2>1, <2>2
  <2> QED BY <2>2, <2>3 DEF a, z
<1>7. \A i \in 0 .. PageSize - 1 : i = 0
  BY <1>3
<1>8. Copied(w, p)' = Copied(w, p)
  <2>1. [i \in 0 .. PageSize - 1 |-> IF p * PageSize + i \in R THEN w.val ELSE data'[p * PageSize + i]]
        = [i \in 0 .. PageSize - 1 |-> IF p * PageSize + i \in R THEN w.val ELSE data[p * PageSize + i]]
    <3> HIDE DEF p, R, w
    <3> QED BY <1>6, <1>7
  <2> QED BY <2>1 DEF Copied
<1> QED BY <1>4, <1>5, <1>8 DEF PageHeld

(* The extents of two objects share no cell. *)
LEMMA TwoExtents ==
  ASSUME StoreInv, ExtentInv, NEW n \in Stored, NEW m \in Stored, n # m
  PROVE  \A c \in index[n].pos .. index[n].pos + index[n].size - 1 :
           c \notin index[m].pos .. index[m].pos + index[m].size - 1
<1>1. ExtentsDisjoint
  BY ApartDisjoint
<1>2. Extent(n) \cap Extent(m) = {}
  BY <1>1 DEF ExtentsDisjoint
<1> QED BY <1>2 DEF Extent

(* Where a commit puts what an operation stored: behind all that is stored, or *)
(* within the extent of its entry.                                             *)
CommitPos(op) == IF op.type = "append" THEN total_size_of_data ELSE index[op.id].pos

LEMMA ChangePlaced ==
  ASSUME StoreInv, MarkInv, ExtentInv, NEW s \in Session, CommitOp(s),
         NEW op, op = ops[s][work[s].cursor], CommitChange(s, op)
  PROVE  /\ work[s].cursor \in 1 .. Len(ops[s]) /\ Live(s) = work[s].cursor
         /\ op \in Op /\ op.id \in Num /\ op.id \in Stored /\ index[op.id].lock = "none"
         /\ Names(s, op.id, work[s].cursor)
         /\ Changes(op) /\ op.pos \in Nat /\ op.size \in Nat /\ CommitPos(op) \in Nat
         /\ \A n \in Stored \ {op.id} :
              \A c \in index[n].pos .. index[n].pos + index[n].size - 1 :
                c \notin CommitPos(op) .. CommitPos(op) + op.size - 1
         /\ data' = [c \in Cell |-> IF c \in CommitPos(op) .. CommitPos(op) + op.size - 1
                                    THEN trans_data[s][op.pos + (c - CommitPos(op))] ELSE data[c]]
<1> DEFINE k == work[s].cursor
           pos == CommitPos(op)
<1>1. k \in 1 .. Len(ops[s]) /\ pc[s] = "committing" /\ k \in Nat /\ k > 0
  <2>1. OneHolder /\ pc[s] = "committing" /\ k > 0
    BY DEF MarkInv, CommitOp
  <2>2. k \in Nat /\ k <= Len(ops[s]) /\ Len(ops[s]) \in Nat
    BY <2>1, LiveOps
  <2> HIDE DEF k
  <2> QED BY <2>1, <2>2
<1>2. op \in Op /\ op.pos \in Nat /\ op.size \in Nat /\ op.id \in Num
  BY <1>1, SessionFacts
<1>3. Live(s) = k /\ Live(s) > 0
  BY <1>1, LiveOps DEF MarkInv
<1>4. HasMark(op.id) /\ index[op.id].trans = "change"
  BY DEF CommitChange, HasMark
<1>5. Names(s, op.id, k)
  BY <1>2, <1>3, <1>4, LastIsNamed
<1>6. op.type # "destroy"
  BY <1>4, <1>5 DEF Names
<1>7. op.id < total_entries /\ index[op.id].lock = "none"
  BY DEF CommitOp
<1>8. op.id \in Stored
  <2>1. op.id \in 0 .. total_entries - 1
    <3>1. HeaderOK
      BY DEF StoreInv, IndexInv
    <3> QED BY <3>1, <1>2, <1>7, NumFacts
  <2> QED BY <2>1, <1>4 DEF Stored
<1>9. data' = [c \in Cell |-> IF c \in pos .. pos + op.size - 1
                              THEN trans_data[s][op.pos + (c - pos)] ELSE data[c]]
  BY DEF CommitChange, CommitPos
<1>10. /\ total_size_of_data \in Nat /\ HeaderOK
       /\ \A n \in Stored : /\ index[n].pos \in Nat /\ index[n].size \in Nat
                            /\ index[n].pos + index[n].size <= total_size_of_data
  <2>1. total_size_of_data \in Int /\ HeaderOK /\ total_size_of_data >= 0
    BY DEF StoreInv, IndexInv, HeaderOK, ExtentInv, ExtentsApart
  <2>2. ASSUME NEW n \in Stored
        PROVE  index[n].pos \in Nat /\ index[n].size \in Nat
               /\ index[n].pos + index[n].size <= total_size_of_data
    <3>1. index[n].pos \in Int /\ index[n].size \in Nat
      BY <2>1, NumFacts DEF Stored, HeaderOK, Entry
    <3>2. FitsFor(n, index[n], total_size_of_data)
      BY DEF ExtentInv, ExtentsApart
    <3>3. 0 <= index[n].pos /\ index[n].pos + index[n].size <= total_size_of_data
      BY <3>2 DEF FitsFor, InData
    <3> QED BY <3>1, <3>3
  <2> QED BY <2>1, <2>2
<1>11. pos \in Nat
  BY <1>8, <1>10 DEF CommitPos
<1>12. ASSUME NEW n \in Stored \ {op.id}, NEW c \in index[n].pos .. index[n].pos + index[n].size - 1
       PROVE  c \notin pos .. pos + op.size - 1
  <2>1. CASE op.type = "append"
    <3> DEFINE a == index[n].pos
               z == index[n].size
    <3>1. a \in Nat /\ z \in Nat /\ a + z <= total_size_of_data /\ c \in a .. a + z - 1
          /\ pos = total_size_of_data
      BY <2>1, <1>10 DEF CommitPos
    <3> HIDE DEF a, z
    <3>2. c < total_size_of_data /\ c \in Int
      BY <3>1, <1>10
    <3> QED BY <3>1, <3>2, <1>2, <1>10
  <2>2. CASE op.type # "append"
    <3>1. op.type = "update"
      BY <1>2, <1>6, <2>2 DEF Op
    <3>2. Fitting(op)
      BY <1>1 DEF ExtentInv, UpdatesFit
    <3>3. op.size <= index[op.id].size
      BY <3>1, <3>2, <1>4 DEF Fitting
    <3>4. c \notin index[op.id].pos .. index[op.id].pos + index[op.id].size - 1
      BY <1>8, TwoExtents
    <3>5. pos = index[op.id].pos
      BY <2>2 DEF CommitPos
    <3> DEFINE z == op.size
               y == index[op.id].size
    <3>6. z \in Nat /\ y \in Nat /\ z <= y /\ c \notin pos .. pos + y - 1
      BY <3>3, <3>4, <3>5, <1>2, <1>8, <1>10
    <3> HIDE DEF pos, z, y
    <3>7. c \notin pos .. pos + z - 1
      BY <3>6, <1>11
    <3> QED BY <3>7 DEF z
  <2> QED BY <2>1, <2>2
<1> QED BY <1>1, <1>2, <1>3, <1>5, <1>6, <1>7, <1>8, <1>9, <1>11, <1>12 DEF Changes

(* The cells that a step changes are not those that another session writes to. *)
LEMMA StepElsewhere ==
  ASSUME StoreInv, MarkInv, ExtentInv, CellsOK, RoomLeft, WritersOK, NEW s \in Session, StepOf(s),
         NEW t \in Session \ {s}, pc[t] = "writing"
  PROVE  Elsewhere(t)
<1>1. Writing(t) /\ t \in Session
  BY DEF WritersOK, WriterOK
<1>2. /\ write[t].num \in Stored /\ index[write[t].num].pos = write[t].pos
      /\ index[write[t].num].size = write[t].size /\ index[write[t].num].lock = "entry"
  BY <1>1, WriterAt
<1>3. CASE UNCHANGED data
  BY <1>3 DEF Elsewhere
<1>4. CASE NextPage(s) \/ FinishWrite(s)
  <2>1. pc[s] = "writing" /\ data' = Put(page_copy[s])
    BY <1>4 DEF NextPage, FinishWrite
  <2>2. Writing(s) /\ PageHeld(s)
    BY <2>1 DEF WritersOK, WriterOK
  <2>3. /\ write[s].num \in Stored /\ index[write[s].num].pos = write[s].pos
        /\ index[write[s].num].size = write[s].size
    BY <2>1, <2>2, WriterAt
  <2>4. write[s].num # write[t].num
    BY <2>1 DEF StoreInv, IndexInv, LockInv
  <2>5. \A c \in write[t].pos .. write[t].pos + write[t].size - 1 :
          c \notin write[s].pos .. write[s].pos + write[s].size - 1
    BY <1>2, <2>3, <2>4, TwoExtents
  <2>6. page_copy[s] # NoPage
    <3>1. CASE NextPage(s)
      BY <3>1 DEF NextPage
    <3>2. CASE FinishWrite(s)
      <4>1. page_copy[s].page = LastPage(write[s])
        BY <3>2 DEF FinishWrite
      <4>2. LastPage(write[s]) \in Nat
        <5>1. write[s].pos \in Nat /\ write[s].size \in Nat /\ write[s].size > 0
          BY <2>1, <2>2, WriterAt
        <5> QED BY <5>1, PagesOf
      <4>3. NoPage.page = -1
        BY DEF NoPage
      <4> QED BY <4>1, <4>2, <4>3
    <3> QED BY <1>4, <3>1, <3>2
  <2>7. data' = [c \in Cell |-> IF PageOf(c) = page_copy[s].page
                                   /\ c \in write[s].pos .. write[s].pos + write[s].size - 1
                                THEN write[s].val ELSE data[c]]
    BY <2>1, <2>2, <2>6, PutCells
  <2> QED BY <2>5, <2>7 DEF Elsewhere
<1>5. CASE CommitOp(s)
  <2> DEFINE op == ops[s][work[s].cursor]
  <2>1. UNCHANGED data \/ CommitChange(s, op)
    BY <1>5 DEF CommitOp, CommitDelete, CommitSkip
  <2>2. CASE CommitChange(s, op)
    <3>1. /\ index[op.id].lock = "none"
          /\ \A n \in Stored \ {op.id} :
              \A c \in index[n].pos .. index[n].pos + index[n].size - 1 :
                c \notin CommitPos(op) .. CommitPos(op) + op.size - 1
          /\ data' = [c \in Cell |-> IF c \in CommitPos(op) .. CommitPos(op) + op.size - 1
                                    THEN trans_data[s][op.pos + (c - CommitPos(op))] ELSE data[c]]
      <4> HIDE DEF op
      <4> QED BY <1>5, <2>2, ChangePlaced DEF op
    <3> HIDE DEF op
    <3>2. write[t].num # op.id
      BY <1>2, <3>1
    <3>3. \A c \in write[t].pos .. write[t].pos + write[t].size - 1 :
            c \notin CommitPos(op) .. CommitPos(op) + op.size - 1
      BY <1>2, <3>1, <3>2
    <3> QED BY <3>1, <3>3 DEF Elsewhere
  <2> QED BY <1>3, <2>1, <2>2
<1>6. \/ NextPage(s) \/ FinishWrite(s) \/ CommitOp(s) \/ UNCHANGED data
  BY DEF StepOf, HolderStep, Create, Revive, Update, Store, Destroy, StartRead, FinishStore, FetchPage,
         ReadPage, FinishRead, TransactionStart, CommitInner, CommitBegin, RollbackBegin, CommitEnd,
         RollbackOp, RollbackEnd
<1> QED BY <1>3, <1>4, <1>5, <1>6

LEMMA OthersWrite ==
  ASSUME WholePages, StoreInv, MarkInv, ExtentInv, CellsOK, RoomLeft, WritersOK,
         NEW s \in Session, StepOf(s), NEW t \in Session \ {s}
  PROVE  WriterOK(t)'
<1>1. Alone(t) /\ WriterOK(t)
  BY OthersAlone DEF WritersOK
<1>2. pc[t] = "writing" => Writing(t)' /\ PageHeld(t)'
  <2> SUFFICES ASSUME pc[t] = "writing" PROVE Writing(t)' /\ PageHeld(t)'
    OBVIOUS
  <2>1. Writing(t) /\ PageHeld(t)
    BY <1>1 DEF WriterOK
  <2>2. Elsewhere(t)
    BY StepElsewhere
  <2>3. PageHeld(t)'
    BY <1>1, <2>1, <2>2, HeldElsewhere DEF Alone
  <2>4. Writing(t)'
    BY <1>1, <2>1 DEF Writing, Alone
  <2> QED BY <2>3, <2>4
<1>3. pc[t] = "storing" => Storing(t)'
  BY <1>1 DEF WriterOK, Storing, InTx, Changes, Alone
<1> QED BY <1>1, <1>2, <1>3 DEF WriterOK, Alone

(* A copy of a page, as a write changes it. *)
CopyFrom(d, w, p) ==
  [page |-> p,
   cells |-> [i \in 0 .. PageSize - 1 |->
                IF p * PageSize + i \in w.pos .. w.pos + w.size - 1 THEN w.val
                ELSE d[p * PageSize + i]]]

LEMMA HeldIf ==
  ASSUME NEW s \in Session, NEW w, NEW p, write'[s] = w, page_copy'[s] = CopyFrom(data', w, p),
         p \in PageOf(w.pos) .. LastPage(w),
         \A c \in w.pos .. w.pos + w.size - 1 : PageOf(c) < p => data'[c] = w.val
  PROVE  PageHeld(s)'
<1>1. page_copy'[s].page = p
  BY DEF CopyFrom
<1>2. page_copy'[s] = Copied(write[s], page_copy[s].page)'
  BY <1>1 DEF Copied, CopyFrom
<1> QED BY <1>1, <1>2 DEF PageHeld, PageOf, LastPage

LEMMA PageEnds ==
  ASSUME NEW l \in Nat, NEW p \in Nat, p <= PageOf(l), NEW i \in 0 .. PageSize - 1
  PROVE  p * PageSize + i <= l + PageSize - 1
<1> DEFINE P == PageSize
           q == PageOf(l)
           j == l % PageSize
<1>1. P \in Nat \ {0} /\ q \in Nat /\ j \in Nat /\ l = q * P + j
  BY ConstFacts, PageFacts
<1> HIDE DEF P, q, j
<1>2. PICK d \in Nat : q = p + d
  <2>1. q - p \in Nat /\ q = p + (q - p)
    BY <1>1 DEF q
  <2> QED BY <2>1
<1>3. (p + d) * P = p * P + d * P /\ d * P \in Nat /\ p * P \in Nat
  BY <1>1
<1>4. i \in Nat /\ i <= P - 1
  BY <1>1 DEF P
<1>5. p * P + i <= l + P - 1
  BY <1>1, <1>2, <1>3, <1>4
<1> QED BY <1>5 DEF P

(* The page that a writer takes first, and the next one. *)
LEMMA FetchHeld ==
  ASSUME StoreInv, MarkInv, ExtentInv, CellsOK, RoomLeft, NEW s \in Session, WriterOK(s), FetchPage(s)
  PROVE  WriterOK(s)'
<1> DEFINE w == write[s]
           p == PageOf(w.pos)
           R == w.pos .. w.pos + w.size - 1
<1>1. /\ pc[s] = "writing" /\ page_copy' = [page_copy EXCEPT ![s] = Copied(w, p)]
      /\ UNCHANGED << pc, write, data >>
  BY DEF FetchPage
<1>2. page_copy'[s] = CopyFrom(data', w, p) /\ write'[s] = w
  <2>1. page_copy'[s] = Copied(w, p)
    BY <1>1 DEF CellsOK
  <2> HIDE DEF p
  <2> QED BY <1>1, <2>1 DEF Copied, CopyFrom
<1>3. Writing(s)
  BY <1>1 DEF WriterOK
<1>4. w.pos \in Nat /\ w.size \in Nat /\ w.size > 0
  BY <1>1, <1>3, WriterAt
<1>5. /\ p \in Nat /\ LastPage(w) \in Nat /\ p <= LastPage(w)
      /\ \A c \in R : p <= PageOf(c)
  BY <1>4, PagesOf
<1>6. p \in p .. LastPage(w) /\ \A c \in R : ~(PageOf(c) < p)
  <2>1. \A c \in R : c \in Nat
    BY <1>4
  <2>2. \A c \in R : PageOf(c) \in Nat
    BY <2>1, PageFacts
  <2> HIDE DEF p, R
  <2> QED BY <1>5, <2>2
<1>7. PageHeld(s)'
  <2> HIDE DEF w
  <2> QED BY <1>2, <1>6, HeldIf
<1>8. Writing(s)'
  BY <1>1, <1>3 DEF Writing
<1>9. pc'[s] = "writing"
  BY <1>1
<1> QED BY <1>7, <1>8, <1>9 DEF WriterOK

LEMMA NextHeld ==
  ASSUME StoreInv, MarkInv, ExtentInv, CellsOK, RoomLeft, NEW s \in Session, WriterOK(s), NextPage(s)
  PROVE  WriterOK(s)'
<1> DEFINE w == write[s]
           p == page_copy[s].page
           R == w.pos .. w.pos + w.size - 1
           next == p + 1
<1>1. /\ pc[s] = "writing" /\ page_copy[s] # NoPage /\ p < LastPage(w)
      /\ data' = Put(page_copy[s])
      /\ page_copy' = [page_copy EXCEPT ![s] = Copied(w, @.page + 1)]
      /\ UNCHANGED << pc, write >>
  BY DEF NextPage
<1>2. page_copy'[s] = Copied(w, next) /\ write'[s] = w
  BY <1>1 DEF CellsOK
<1>3. Writing(s) /\ PageHeld(s)
  BY <1>1 DEF WriterOK
<1>4. w.pos \in Nat /\ w.size \in Nat /\ w.size > 0 /\ R \subseteq Cell
  BY <1>1, <1>3, WriterAt
<1>5. /\ p \in PageOf(w.pos) .. LastPage(w) /\ \A c \in R : PageOf(c) < p => data[c] = w.val
  BY <1>1, <1>3 DEF PageHeld
<1>6. PageOf(w.pos) \in Nat /\ LastPage(w) \in Nat
  BY <1>4, PagesOf
<1>7. p \in Nat /\ next \in PageOf(w.pos) .. LastPage(w) /\ next \in Nat /\ next # p
  <2> DEFINE a == PageOf(w.pos)
             b == LastPage(w)
  <2>1. a \in Nat /\ b \in Nat /\ p \in a .. b /\ p < b
    BY <1>1, <1>5, <1>6
  <2> HIDE DEF a, b, p
  <2> QED BY <2>1 DEF a, b
<1>8. data' = [c \in Cell |-> IF PageOf(c) = p /\ c \in R THEN w.val ELSE data[c]]
  BY <1>1, <1>3, PutCells
<1>9. \A c \in R : PageOf(c) < next => data'[c] = w.val
  <2> SUFFICES ASSUME NEW c \in R, PageOf(c) < next PROVE data'[c] = w.val
    OBVIOUS
  <2>1. c \in Cell /\ PageOf(c) \in Nat
    BY <1>4, CellNat, PageFacts
  <2>2. PageOf(c) < p \/ PageOf(c) = p
    <3> HIDE DEF p, R
    <3> QED BY <1>7, <2>1
  <2>3. PageOf(c) < p => data[c] = w.val
    BY <1>5
  <2> HIDE DEF p, R
  <2> QED BY <1>8, <2>1, <2>2, <2>3
<1>10. ASSUME NEW i \in 0 .. PageSize - 1
       PROVE  data'[next * PageSize + i] = data[next * PageSize + i]
  <2> DEFINE c == next * PageSize + i
             l == w.pos + w.size - 1
  <2>1. PageOf(c) = next /\ c \in Nat
    <3> HIDE DEF next
    <3> QED BY <1>7, PageFacts
  <2>2. l \in Cell /\ l \in Nat /\ LastPage(w) = PageOf(l)
    <3>1. LastPage(w) = PageOf(l)
      BY <1>4 DEF LastPage
    <3>2. l \in R
      BY <1>4
    <3> HIDE DEF l, R
    <3> QED BY <1>4, <3>1, <3>2, CellNat
  <2>3. next <= PageOf(l)
    BY <1>6, <1>7, <2>2
  <2>4. l <= MaxData - 1 /\ MaxData \in Nat /\ PageSize \in Nat \ {0}
    <3>1. w.pos + w.size <= total_size_of_data /\ total_size_of_data <= MaxData
          /\ total_size_of_data \in Int
      BY <1>1, <1>3, WriterAt DEF StoreInv, IndexInv, HeaderOK
    <3> QED BY <1>4, <3>1, ConstFacts
  <2>5. c <= l + PageSize - 1
    <3> HIDE DEF next, l
    <3> QED BY <1>7, <2>2, <2>3, PageEnds
  <2>6. c \in Cell
    <3> HIDE DEF c, l
    <3> QED BY <2>1, <2>2, <2>4, <2>5 DEF Cell
  <2> HIDE DEF c, next, p, R
  <2>7. data'[c] = data[c]
    BY <1>7, <1>8, <2>1, <2>6
  <2> QED BY <2>7 DEF c
<1>11. page_copy'[s] = CopyFrom(data', w, next)
  <2> HIDE DEF next, w
  <2>1. [i \in 0 .. PageSize - 1 |->
           IF next * PageSize + i \in w.pos .. w.pos + w.size - 1 THEN w.val ELSE data[next * PageSize + i]]
        = [i \in 0 .. PageSize - 1 |->
             IF next * PageSize + i \in w.pos .. w.pos + w.size - 1 THEN w.val ELSE data'[next * PageSize + i]]
    BY <1>10
  <2> QED BY <1>2, <2>1 DEF Copied, CopyFrom
<1>12. PageHeld(s)'
  <2> HIDE DEF w, next
  <2> QED BY <1>2, <1>7, <1>9, <1>11, HeldIf
<1>13. Writing(s)'
  BY <1>1, <1>3 DEF Writing
<1>14. pc'[s] = "writing"
  BY <1>1
<1> QED BY <1>12, <1>13, <1>14 DEF WriterOK

(* A session that is in no write has neither a page nor an object to write. *)
LEMMA NotWriting ==
  ASSUME NEW s \in Session, pc'[s] \notin {"writing", "storing"}, page_copy'[s] = NoPage,
         write'[s].num = -1
  PROVE  WriterOK(s)'
BY DEF WriterOK

LEMMA StillIdle ==
  ASSUME NEW s \in Session, WriterOK(s), pc[s] \notin {"writing", "storing"},
         pc'[s] \notin {"writing", "storing"}, UNCHANGED << page_copy, write >>
  PROVE  WriterOK(s)'
BY DEF WriterOK

LEMMA LoggedWriter ==
  ASSUME StoreInv, CellsOK, NEW s \in Session, WriterOK(s), NEW n \in Num, NEW op \in Op, NEW x \in Entry,
         LoggedForm(s, n, op, x)
  PROVE  WriterOK(s)'
<1>1. /\ InTx(s) /\ LogOp(s, op) /\ pc[s] = "idle" /\ pc'[s] \in {"idle", "storing"}
      /\ (pc'[s] = "storing" <=> Changes(op)) /\ page_copy' = page_copy
      /\ Changes(op) => write'[s].val \in Value
      /\ ~Changes(op) => write'[s] = write[s]
  BY DEF LoggedForm, LoggedOp, LoggedCall, Section
<1>2. page_copy[s] = NoPage /\ write[s].num = -1
  BY <1>1 DEF WriterOK
<1>3. CASE ~Changes(op)
  <2>1. pc'[s] = "idle" /\ write'[s] = write[s]
    BY <1>1, <1>3
  <2> QED BY <1>1, <1>2, <2>1, NotWriting
<1>4. CASE Changes(op)
  <2>1. pc'[s] = "storing"
    BY <1>1, <1>4
  <2>2. InTx(s)'
    <3>1. Len(levels'[s]) = Len(levels[s])
      BY <1>1, LoggedLevels
    <3>2. Len(levels[s]) # 0
      BY <1>1, SessionFacts
    <3>3. levels'[s] # << >>
      BY <3>1, <3>2, EmptySeq
    <3> QED BY <3>3 DEF InTx
  <2>3. Len(ops'[s]) > 0 /\ ops'[s][Len(ops'[s])] = op
    <3>1. ops[s] \in Seq(Op) /\ ops'[s] = Append(ops[s], op) /\ Len(ops[s]) \in Nat
      BY <1>1, SessionFacts DEF LogOp, StoreInv, SessionInv, SessionsOK
    <3>2. Len(ops'[s]) = Len(ops[s]) + 1 /\ ops'[s][Len(ops[s]) + 1] = op
      BY <3>1, AppendProperties
    <3> QED BY <3>1, <3>2
  <2>4. Storing(s)'
    BY <1>1, <1>4, <2>2, <2>3 DEF Storing, Changes
  <2> QED BY <1>1, <1>2, <2>1, <2>4 DEF WriterOK
<1> QED BY <1>3, <1>4

LEMMA WriterFrame ==
  ASSUME NEW t \in Session, WriterOK(t), pc'[t] = pc[t], page_copy'[t] = page_copy[t],
         write'[t] = write[t], pc[t] = "writing" => Writing(t)' /\ PageHeld(t)',
         pc[t] = "storing" => Storing(t)'
  PROVE  WriterOK(t)'
BY DEF WriterOK

LEMMA OwnWrite ==
  ASSUME ~StaleIds, 0 \notin Size, StoreInv, MarkInv, ExtentInv, CellsOK, RoomLeft, WritersOK, OrderOK,
         NEW s \in Session, StepOf(s)
  PROVE  WriterOK(s)'
<1>1. WriterOK(s) /\ pc \in [Session -> PC] /\ write \in [Session -> Write]
      /\ DOMAIN page_copy = Session
  BY DEF WritersOK, StoreInv, SessionInv, SessionsOK, IndexInv, HeaderOK, CellsOK
<1>2. ASSUME NEW size \in Size, NEW val \in Value,
             Create(s, size, val) \/ Revive(s, size, val) \/ \E n \in Num : Update(s, n, size, val)
      PROVE  WriterOK(s)'
  <2>1. PICK n \in Num, e \in Entry, isNew \in BOOLEAN : StoreForm(s, n, e, isNew, size, val)
    BY <1>2, StoreForms
  <2>2. CASE StoreInTx(s, n, e, isNew, size, val)
    <3>1. PICK op \in Op, x \in Entry : LoggedForm(s, n, op, x)
      BY <2>1, <2>2, StoreLogs
    <3> QED BY <1>1, <3>1, LoggedWriter
  <2>3. CASE StorePlain(s, n, e, isNew, size, val)
    <3>1. PICK x \in Entry : PlainForm(s, n, x, size, val)
      BY <2>1, <2>3, StorePlaces
    <3>2. /\ s \in PlainSession /\ pc[s] = "idle" /\ pc' = [pc EXCEPT ![s] = "writing"]
          /\ x.size = size /\ write'[s].pos = x.pos /\ write'[s].size = size
          /\ write'[s].val = val /\ write'[s].entry = x /\ page_copy' = page_copy
      BY <3>1 DEF PlainForm, Section
    <3>3. pc'[s] = "writing" /\ page_copy[s] = NoPage
      BY <1>1, <3>2 DEF WriterOK
    <3>4. size > 0
      BY ConstFacts
    <3>5. Writing(s)'
      BY <3>2, <3>4 DEF Writing
    <3>6. PageHeld(s)'
      BY <3>2, <3>3 DEF PageHeld
    <3> QED BY <3>3, <3>5, <3>6 DEF WriterOK
  <2> QED BY <2>1, <2>2, <2>3 DEF StoreForm, Store
<1>3. ASSUME NEW n \in Num, Destroy(s, n) PROVE WriterOK(s)'
  <2>1. /\ UNCHANGED << page_copy, write, pc >> /\ pc[s] = "idle"
    BY <1>3 DEF Destroy, Section
  <2>2. pc[s] \notin {"writing", "storing"} /\ pc'[s] \notin {"writing", "storing"}
    BY <2>1
  <2> QED BY <1>1, <2>1, <2>2, StillIdle
<1>4. ASSUME NEW n \in Num, StartRead(s, n) PROVE WriterOK(s)'
  <2>1. UNCHANGED << page_copy, write >> /\ pc[s] = "idle" /\ pc' = [pc EXCEPT ![s] = "reading"]
    BY <1>4 DEF StartRead, Section
  <2>2. pc[s] \notin {"writing", "storing"} /\ pc'[s] \notin {"writing", "storing"}
    BY <1>1, <2>1
  <2> QED BY <1>1, <2>1, <2>2, StillIdle
<1>5. CASE FinishStore(s)
  <2>1. /\ pc[s] = "storing" /\ pc' = [pc EXCEPT ![s] = "idle"] /\ page_copy' = page_copy
        /\ write' = [write EXCEPT ![s] = NoWrite]
    BY <1>5 DEF FinishStore
  <2>2. pc'[s] = "idle" /\ page_copy'[s] = NoPage /\ write'[s].num = -1
    BY <1>1, <2>1 DEF WriterOK, NoWrite
  <2> QED BY <2>2, NotWriting
<1>6. CASE FinishWrite(s)
  <2>1. /\ pc' = [pc EXCEPT ![s] = "idle"] /\ page_copy' = [page_copy EXCEPT ![s] = NoPage]
        /\ write' = [write EXCEPT ![s] = NoWrite]
    BY <1>6 DEF FinishWrite
  <2>2. pc'[s] = "idle" /\ page_copy'[s] = NoPage /\ write'[s].num = -1
    BY <1>1, <2>1 DEF NoWrite
  <2> QED BY <2>2, NotWriting
<1>7. CASE FetchPage(s) \/ NextPage(s)
  BY <1>1, <1>7, FetchHeld, NextHeld
<1>8. CASE ReadPage(s) \/ FinishRead(s)
  <2>1. /\ UNCHANGED << page_copy, write >> /\ pc[s] = "reading"
        /\ pc' = [pc EXCEPT ![s] = "idle"] \/ pc' = pc
    BY <1>8 DEF ReadPage, FinishRead, ReadDone
  <2>2. pc[s] \notin {"writing", "storing"} /\ pc'[s] \notin {"writing", "storing"}
    BY <1>1, <2>1
  <2> QED BY <1>1, <2>1, <2>2, StillIdle
<1>9. CASE TransactionStart(s) \/ CommitInner(s)
  <2>1. UNCHANGED << page_copy, write, pc >> /\ pc[s] = "idle"
    BY <1>9 DEF TransactionStart, CommitInner, Section
  <2>2. pc[s] \notin {"writing", "storing"} /\ pc'[s] \notin {"writing", "storing"}
    BY <2>1
  <2> QED BY <1>1, <2>1, <2>2, StillIdle
<1>10. CASE CommitBegin(s) \/ RollbackBegin(s)
  <2>1. /\ UNCHANGED << page_copy, write >> /\ pc[s] = "idle"
        /\ pc' = [pc EXCEPT ![s] = "committing"] \/ pc' = [pc EXCEPT ![s] = "rolling back"]
    BY <1>10 DEF CommitBegin, RollbackBegin, Section
  <2>2. pc[s] \notin {"writing", "storing"} /\ pc'[s] \notin {"writing", "storing"}
    BY <1>1, <2>1
  <2> QED BY <1>1, <2>1, <2>2, StillIdle
<1>11. CASE CommitOp(s) \/ RollbackOp(s)
  <2>1. UNCHANGED << page_copy, write, pc >>
    BY <1>11, HolderWork
  <2>2. pc[s] \in {"committing", "rolling back"}
    BY <1>11 DEF CommitOp, RollbackOp
  <2>3. pc[s] \notin {"writing", "storing"} /\ pc'[s] \notin {"writing", "storing"}
    BY <2>1, <2>2
  <2> QED BY <1>1, <2>1, <2>3, StillIdle
<1>12. CASE CommitEnd(s) \/ RollbackEnd(s)
  <2>1. /\ UNCHANGED << page_copy, write >> /\ pc[s] \in {"committing", "rolling back"}
        /\ pc' = [pc EXCEPT ![s] = "idle"]
    BY <1>12 DEF CommitEnd, RollbackEnd
  <2>2. pc[s] \notin {"writing", "storing"} /\ pc'[s] \notin {"writing", "storing"}
    BY <1>1, <2>1
  <2> QED BY <1>1, <2>1, <2>2, StillIdle
<1> QED BY <1>2, <1>3, <1>4, <1>5, <1>6, <1>7, <1>8, <1>9, <1>10, <1>11, <1>12 DEF StepOf, HolderStep

LEMMA NextCellInv ==
  ASSUME ~StaleIds, 0 \notin Size, WholePages, StoreInv, StoreInv', MarkInv, ExtentInv, CellInv, [Next]_vars
  PROVE  CellInv'
<1>1. CellsOK /\ RoomLeft /\ WritersOK /\ OrderOK
  BY DEF CellInv
<1>2. OrderOK'
  BY <1>1, NextOrder
<1>3. RoomLeft'
  BY <1>1, NextRoom
<1>4. ASSUME NEW s \in Session, StepOf(s)
      PROVE  CellsOK' /\ WritersOK'
  <2>1. CellsOK'
    BY <1>1, <1>4, CellsStep
  <2>2. WriterOK(s)' /\ \A t \in Session \ {s} : WriterOK(t)'
    BY <1>1, <1>4, OwnWrite, OthersWrite
  <2> QED BY <2>1, <2>2 DEF WritersOK
<1>5. CASE UNCHANGED vars
  <2>1. UNCHANGED << data, trans_data, page_copy, read, pc, write, levels, ops >>
    BY <1>5 DEF vars, tranVars
  <2>2. CellsOK'
    BY <1>1, <2>1 DEF CellsOK, Cell, Fill
  <2>3. ASSUME NEW t \in Session PROVE WriterOK(t)'
    <3>1. WriterOK(t)
      BY <1>1 DEF WritersOK
    <3>2. (Writing(t) => Writing(t)') /\ (Storing(t) => Storing(t)')
      BY <2>1 DEF Writing, Storing, InTx, Changes
    <3>3. PageHeld(t) => PageHeld(t)'
      BY <2>1 DEF PageHeld, Copied, PageOf, LastPage
    <3>4. pc' = pc /\ page_copy' = page_copy /\ write' = write
      BY <2>1
    <3>5. pc'[t] = pc[t] /\ page_copy'[t] = page_copy[t] /\ write'[t] = write[t]
      BY <3>4
    <3>6. pc[t] = "writing" => Writing(t)' /\ PageHeld(t)'
      BY <3>1, <3>2, <3>3 DEF WriterOK
    <3>7. pc[t] = "storing" => Storing(t)'
      BY <3>1, <3>2 DEF WriterOK
    <3> QED BY <3>1, <3>5, <3>6, <3>7, WriterFrame
  <2> QED BY <1>2, <1>3, <2>2, <2>3 DEF WritersOK, CellInv
<1> QED BY <1>2, <1>3, <1>4, <1>5, NextSteps DEF CellInv

LEMMA InitCellInv ==
  ASSUME Init
  PROVE  CellInv
<1>1. \A s \in Session : /\ ops[s] = << >> /\ levels[s] = << >> /\ total_trans_size[s] = 0
                         /\ pc[s] = "idle" /\ page_copy[s] = NoPage /\ write[s].num = -1
  BY DEF Init, NoWrite
<1>2. Len(<< >>) = 0
  BY EmptySeq
<1>3. CellsOK
  BY ConstFacts DEF Init, CellsOK, Fill, NoTransData
<1>4. WritersOK
  BY <1>1 DEF WritersOK, WriterOK
<1>5. ASSUME NEW s \in Session PROVE InOrder(s)
  <2>1. ops[s] = << >> /\ levels[s] = << >> /\ total_trans_size[s] = 0 /\ pc[s] # "rolling back"
    BY <1>1
  <2>2. 0 <= MaxTransData
    BY ConstFacts
  <2>6. Len(ops[s]) = 0 /\ Len(levels[s]) = 0
    BY <1>2, <2>1
  <2>5. (\A l \in 1 .. Len(levels[s]) : FALSE) /\ \A i \in 1 .. Len(ops[s]) : FALSE
    BY <2>6
  <2>3. OpsBefore(ops[s], Len(ops[s]), 0) /\ OpsApart(ops[s])
    BY <2>5 DEF OpsBefore, OpsApart
  <2>4. LevelsOrdered(levels[s])
    BY <2>5 DEF LevelsOrdered
  <2> QED BY <2>1, <2>2, <2>3, <2>4, <2>5 DEF InOrder
<1>6. RoomLeft
  <2>1. Ended = {} /\ transaction_id = 1 /\ total_size_of_data = 0
    BY DEF Init, Ended
  <2>2. Cardinality(Ended) = 0
    BY <2>1, FS_EmptySet
  <2>3. Filled(0) \in Nat /\ MaxTran \in Nat
    BY ConstFacts, FilledFacts
  <2>4. transaction_id - 1 <= MaxTran /\ total_size_of_data <= Filled(Cardinality(Ended))
    BY <2>1, <2>2, <2>3
  <2>5. \A s \in Session : ~Commits(s)
    BY <1>1 DEF Commits
  <2> QED BY <2>4, <2>5 DEF RoomLeft
<1> QED BY <1>3, <1>4, <1>5, <1>6 DEF CellInv, OrderOK

LEMMA ExtentsKept ==
  ASSUME ~StaleIds, 0 \notin Size
  PROVE  Spec => []ExtentInv
<1>1. Init => ExtentInv
  BY InitExtents
<1>2. StoreInv /\ MarkInv /\ ExtentInv /\ [Next]_vars => ExtentInv'
  BY NextExtents
<1> QED BY <1>1, <1>2, Invariant, StoreMarked, PTL DEF Spec

(* What the proofs of this module need of every state. *)
AllInv == StoreInv /\ MarkInv /\ ExtentInv /\ CellInv

LEMMA AlwaysAll ==
  ASSUME ~StaleIds, 0 \notin Size, WholePages
  PROVE  Spec => []AllInv
<1>1. Init => CellInv
  BY InitCellInv
<1>2. StoreInv /\ StoreInv' /\ MarkInv /\ ExtentInv /\ CellInv /\ [Next]_vars => CellInv'
  BY NextCellInv
<1>3. StoreInv /\ MarkInv /\ ExtentInv /\ CellInv => AllInv
  BY DEF AllInv
<1> QED BY <1>1, <1>2, <1>3, Invariant, StoreMarked, ExtentsKept, PTL DEF Spec
=============================================================================
