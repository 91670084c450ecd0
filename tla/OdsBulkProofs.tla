--------------------------- MODULE OdsBulkProofs ---------------------------
(* Proofs, for any number of threads and instances and any nesting depth, of  *)
(* the invariants of OdsBulk.  LockInv is inductive: the exclusion of the     *)
(* threads, the count of the level and the meaning of mode and ids only hold  *)
(* together, since the constructors test the mode and the ids but the promise *)
(* is about scopes and what is left of them.                                  *)
EXTENDS OdsBulk, SequenceTheorems, TLAPS

LockInv == TypeOK /\ OneBulkThread /\ LevelCountsScopes /\ ModeNamesScopes

(* What the stacks of scopes look like after a push and after a pop.          *)
LEMMA PushPop ==
  ASSUME NEW q \in Seq(Kind), NEW kind \in Kind
  PROVE  /\ Append(q, kind) \in Seq(Kind)
         /\ Append(q, kind) # << >>
         /\ Len(Append(q, kind)) = Len(q) + 1
         /\ \A i \in 1 .. Len(q) + 1 :
              Append(q, kind)[i] = IF i = Len(q) + 1 THEN kind ELSE q[i]
         /\ q # << >> => /\ Front(q) \in Seq(Kind)
                         /\ Len(q) \in Nat \ {0}
                         /\ Len(Front(q)) = Len(q) - 1
                         /\ \A i \in 1 .. Len(q) - 1 : Front(q)[i] = q[i]
                         /\ Front(q) = << >> <=> Len(q) = 1
<1>1. /\ Append(q, kind) \in Seq(Kind)
      /\ Len(Append(q, kind)) = Len(q) + 1
      /\ \A i \in 1 .. Len(q) + 1 :
           Append(q, kind)[i] = IF i = Len(q) + 1 THEN kind ELSE q[i]
  BY AppendProperties
<1>2. Append(q, kind) # << >>
  BY <1>1, EmptySeq, LenProperties
<1>3. ASSUME q # << >>
      PROVE  /\ Front(q) \in Seq(Kind)
             /\ Len(q) \in Nat \ {0}
             /\ Len(Front(q)) = Len(q) - 1
             /\ \A i \in 1 .. Len(q) - 1 : Front(q)[i] = q[i]
             /\ Front(q) = << >> <=> Len(q) = 1
  <2>1. Len(q) \in Nat \ {0}
    BY <1>3, EmptySeq, LenProperties
  <2>2. /\ Front(q) \in Seq(Kind)
        /\ Len(Front(q)) = Len(q) - 1
        /\ \A i \in 1 .. Len(q) - 1 : Front(q)[i] = q[i]
    BY <2>1 DEF Front
  <2>3. Front(q) = << >> <=> Len(q) = 1
    BY <2>1, <2>2, EmptySeq
  <2> QED BY <2>1, <2>2, <2>3
<1> QED BY <1>1, <1>2, <1>3

(* A thread holds the lock exactly when its share of the level is above zero. *)
LEMMA HoldsCounts ==
  ASSUME NEW sc \in [Thread -> Seq(Kind)], NEW lf \in [Thread -> Nat], NEW t \in Thread
  PROVE  /\ Len(sc[t]) \in Nat /\ lf[t] \in Nat
         /\ (sc[t] # << >> \/ lf[t] > 0) <=> Len(sc[t]) + lf[t] > 0
<1>1. sc[t] \in Seq(Kind) /\ lf[t] \in Nat
  OBVIOUS
<1>2. Len(sc[t]) \in Nat /\ (sc[t] = << >> <=> Len(sc[t]) = 0)
  BY <1>1, EmptySeq, LenProperties
<1> QED BY <1>1, <1>2

LEMMA HoldsNot ==
  ASSUME NEW q, NEW n, q = << >>, n = 0
  PROVE  ~(q # << >> \/ n > 0)
OBVIOUS

(* The level is zero exactly when no thread holds the lock.                   *)
LEMMA FreeLock ==
  ASSUME LockInv
  PROVE  /\ bulk_level = 0 <=> \A u \in Thread : ~Holds(u)
         /\ \A u \in Thread : Holds(u) <=> Len(scopes[u]) + left[u] > 0
         /\ \A u \in Thread : Len(scopes[u]) \in Nat /\ left[u] \in Nat
<1>1. \A u \in Thread : /\ Len(scopes[u]) \in Nat /\ left[u] \in Nat
                        /\ Holds(u) <=> Len(scopes[u]) + left[u] > 0
  BY HoldsCounts DEF LockInv, TypeOK, Holds
<1> HIDE DEF Holds
<1>2. bulk_level = 0 <=> \A u \in Thread : ~Holds(u)
  BY <1>1 DEF LockInv, TypeOK, LevelCountsScopes
<1> QED BY <1>1, <1>2

(* A bulk scope that starts keeps the lock invariant: it starts either on a   *)
(* free lock or on one that its own thread holds for the same kind.           *)
LEMMA StartKeepsLockInv ==
  ASSUME LockInv, NEW t \in Thread, BulkDump(t) \/ BulkRead(t) \/ BulkWrite(t)
  PROVE  LockInv'
<1> USE BulkAssumption
<1>1. PICK kind \in Kind : /\ BulkOperationStart(t, kind)
                           /\ \/ bulk_mode = "none"
                              \/ bulk_mode = kind /\ Holds(t)
                           /\ bulk_read_thread_id'  = IF kind = "read"  THEN t ELSE bulk_read_thread_id
                           /\ bulk_write_thread_id' = IF kind = "write" THEN t ELSE bulk_write_thread_id
  BY DEF LockInv, ModeNamesScopes, BulkDump, BulkRead, BulkWrite, Kind
<1>2. /\ scopes[t] \in Seq(Kind)
      /\ scopes' = [scopes EXCEPT ![t] = Append(@, kind)]
      /\ bulk_level' = bulk_level + 1 /\ bulk_mode' = kind
      /\ UNCHANGED << is_in_bulk_pause, asleep, permitted, content, okay, left >>
  BY <1>1 DEF BulkOperationStart, LockInv, TypeOK, pauseVars, opVars
<1>3. \A u \in Thread \ {t} : ~Holds(u)
  <2>1. CASE bulk_mode = "none"
    <3>1. bulk_level = 0
      BY <2>1 DEF LockInv, ModeNamesScopes
    <3> QED BY <3>1, FreeLock
  <2>2. CASE Holds(t)
    BY <2>2 DEF LockInv, OneBulkThread
  <2> QED BY <1>1, <2>1, <2>2
<1>4. bulk_level = Len(scopes[t]) + left[t]
  <2>1. CASE Holds(t)
    BY <2>1 DEF LockInv, LevelCountsScopes
  <2>2. CASE ~Holds(t)
    <3>1. bulk_level = 0
      BY <1>1, <2>2 DEF LockInv, ModeNamesScopes
    <3>2. Len(scopes[t]) \in Nat /\ left[t] \in Nat /\ ~(Len(scopes[t]) + left[t] > 0)
      BY <2>2, FreeLock
    <3> QED BY <3>1, <3>2
  <2> QED BY <2>1, <2>2
<1>5. TypeOK'
  <2>1. scopes' \in [Thread -> Seq(Kind)]
    BY <1>2, PushPop DEF LockInv, TypeOK
  <2>2. /\ open_store_ref_count' \in Int /\ header_lock' \in {"free", "us", "other"}
        /\ caches' \in {"clean", "dirty"} /\ failed_opens' \in Nat
    BY <1>1 DEF BulkOperationStart, BulkOperationOpen, storeVars, LockInv, TypeOK
  <2>3. is_in_bulk_pause' \in BOOLEAN /\ okay' \in [Instance -> BOOLEAN]
    BY <1>2, Zenon DEF LockInv, TypeOK
  <2>4. /\ asleep' \in Thread \cup {NoThread} /\ permitted' \subseteq Thread
        /\ content' \in {0, 1} /\ left' \in [Thread -> Nat] /\ bulk_level' \in Nat
        /\ bulk_mode' \in Kind \cup {"none"}
        /\ bulk_read_thread_id' \in Thread \cup {NoThread}
        /\ bulk_write_thread_id' \in Thread \cup {NoThread}
    BY <1>1, <1>2 DEF LockInv, TypeOK
  <2> QED BY <2>1, <2>2, <2>3, <2>4, Zenon DEF TypeOK
<1>6. /\ \A u \in Thread \ {t} : scopes'[u] = scopes[u]
      /\ scopes'[t] = Append(scopes[t], kind)
      /\ left' = left
  BY <1>2 DEF LockInv, TypeOK
<1>7. /\ Append(scopes[t], kind) # << >>
      /\ Len(Append(scopes[t], kind)) = Len(scopes[t]) + 1
      /\ \A i \in 1 .. Len(scopes[t]) + 1 : Append(scopes[t], kind)[i] = kind
  <2>1. \A i \in 1 .. Len(scopes[t]) : scopes[t][i] = kind
    <3>1. CASE bulk_mode = "none"
      <4>1. bulk_level = 0 /\ Len(scopes[t]) \in Nat /\ left[t] \in Nat
        BY <3>1, FreeLock DEF LockInv, ModeNamesScopes
      <4> QED BY <1>4, <4>1
    <3>2. CASE bulk_mode = kind
      BY <3>2 DEF LockInv, ModeNamesScopes
    <3> QED BY <1>1, <3>1, <3>2
  <2> QED BY <1>2, <2>1, PushPop
<1>8. Holds(t)' /\ \A u \in Thread \ {t} : ~Holds(u)' /\ scopes'[u] = << >>
  BY <1>3, <1>6, <1>7 DEF Holds
<1>9. OneBulkThread'
  BY <1>8 DEF OneBulkThread
<1>10. LevelCountsScopes'
  <2>1. bulk_level' = Len(scopes'[t]) + left'[t]
    <3>1. Len(scopes[t]) \in Nat /\ left[t] \in Nat
      BY FreeLock
    <3> QED BY <1>2, <1>4, <1>6, <1>7, <3>1
  <2> QED BY <2>1, <1>8 DEF LevelCountsScopes
<1>11. ModeNamesScopes'
  <2>1. bulk_mode' = "none" <=> bulk_level' = 0
    BY <1>2 DEF LockInv, TypeOK, Kind
  <2>2. \A u \in Thread : \A i \in 1 .. Len(scopes'[u]) : scopes'[u][i] = bulk_mode'
    <3>1. \A u \in Thread \ {t} : Len(scopes'[u]) = 0
      BY <1>8, EmptySeq
    <3> QED BY <1>2, <1>6, <1>7, <3>1
  <2>3. \A u \in Thread : /\ bulk_read_thread_id' = u  <=> bulk_mode' = "read"  /\ Holds(u)'
                          /\ bulk_write_thread_id' = u <=> bulk_mode' = "write" /\ Holds(u)'
    BY <1>1, <1>2, <1>3, <1>8 DEF LockInv, ModeNamesScopes, Kind
  <2> QED BY <2>1, <2>2, <2>3 DEF ModeNamesScopes
<1> QED BY <1>5, <1>9, <1>10, <1>11 DEF LockInv

(* The destructor of the innermost scope keeps it too, when it finishes that  *)
(* scope and when, in a bad state, it leaves it.                              *)
LEMMA EndKeepsLockInv ==
  ASSUME LockInv, NEW t \in Thread, EndBulk(t)
  PROVE  LockInv'
<1> USE BulkAssumption
<1>1. /\ scopes[t] \in Seq(Kind) /\ scopes[t] # << >>
      /\ scopes' = [scopes EXCEPT ![t] = Front(@)]
      /\ UNCHANGED << is_in_bulk_pause, asleep, permitted, content, okay >>
  BY DEF EndBulk, LockInv, TypeOK, pauseVars, opVars
<1>2. /\ Holds(t) /\ bulk_level = Len(scopes[t]) + left[t]
      /\ \A u \in Thread \ {t} : ~Holds(u)
  BY <1>1 DEF LockInv, LevelCountsScopes, OneBulkThread, Holds
<1>3. /\ Len(scopes[t]) \in Nat \ {0} /\ Front(scopes[t]) \in Seq(Kind)
      /\ Len(Front(scopes[t])) = Len(scopes[t]) - 1
      /\ Front(scopes[t]) = << >> <=> Len(scopes[t]) = 1
      /\ \A i \in 1 .. Len(scopes[t]) - 1 : Front(scopes[t])[i] = scopes[t][i]
      /\ left[t] \in Nat
  BY <1>1, PushPop DEF Kind, LockInv, TypeOK
<1>4. /\ \A u \in Thread \ {t} : scopes'[u] = scopes[u] /\ scopes[u] = << >> /\ left[u] = 0
      /\ scopes'[t] = Front(scopes[t])
  BY <1>1, <1>2 DEF LockInv, TypeOK, Holds
<1>5. scopes[t][Len(scopes[t])] = bulk_mode /\ bulk_mode \in Kind
  BY <1>1, <1>2, <1>3 DEF LockInv, TypeOK, ModeNamesScopes
<1>6. /\ open_store_ref_count' \in Int /\ header_lock' \in {"free", "us", "other"}
      /\ caches' \in {"clean", "dirty"} /\ failed_opens' \in Nat
  BY DEF EndBulk, BulkOperationClose, FlushedBy, storeVars, LockInv, TypeOK
<1>7. \/ /\ bulk_level' = bulk_level - 1 /\ left' = left
         /\ bulk_mode' = IF bulk_level = 1 THEN "none" ELSE bulk_mode
         /\ bulk_read_thread_id' =
              IF bulk_level = 1 /\ bulk_mode = "read" THEN NoThread ELSE bulk_read_thread_id
         /\ bulk_write_thread_id' =
              IF bulk_level = 1 /\ bulk_mode = "write" THEN NoThread ELSE bulk_write_thread_id
      \/ /\ bulk_level' = bulk_level /\ bulk_mode' = bulk_mode
         /\ left' = [left EXCEPT ![t] = @ + 1]
         /\ bulk_read_thread_id' = bulk_read_thread_id
         /\ bulk_write_thread_id' = bulk_write_thread_id
  BY <1>5 DEF EndBulk
<1>8. TypeOK'
  <2>1. scopes' \in [Thread -> Seq(Kind)]
    BY <1>1, <1>3 DEF LockInv, TypeOK
  <2>4. left' \in [Thread -> Nat]
    <3>1. left \in [Thread -> Nat] /\ left[t] + 1 \in Nat
      BY <1>3 DEF LockInv, TypeOK
    <3> QED BY <1>7, <3>1
  <2>5. bulk_level' \in Nat
    BY <1>2, <1>3, <1>7 DEF LockInv, TypeOK
  <2>2. is_in_bulk_pause' \in BOOLEAN /\ okay' \in [Instance -> BOOLEAN]
    BY <1>1, Zenon DEF LockInv, TypeOK
  <2>3. /\ asleep' \in Thread \cup {NoThread} /\ permitted' \subseteq Thread
        /\ content' \in {0, 1}
        /\ bulk_mode' \in Kind \cup {"none"}
        /\ bulk_read_thread_id' \in Thread \cup {NoThread}
        /\ bulk_write_thread_id' \in Thread \cup {NoThread}
    BY <1>1, <1>7 DEF LockInv, TypeOK
  <2> QED BY <1>6, <2>1, <2>2, <2>3, <2>4, <2>5, Zenon DEF TypeOK
<1>9. \A u \in Thread \ {t} : ~Holds(u)' /\ scopes'[u] = << >>
  <2>1. \A u \in Thread \ {t} : left'[u] = left[u]
    BY <1>7 DEF LockInv, TypeOK
  <2> QED BY <1>4, <2>1 DEF Holds
<1>10. /\ Len(scopes'[t]) = Len(scopes[t]) - 1
       /\ left'[t] = left[t] \/ left'[t] = left[t] + 1
       /\ bulk_level' = Len(scopes'[t]) + left'[t]
       /\ Holds(t)' <=> bulk_level' > 0
  <2>1. /\ Len(scopes'[t]) = Len(scopes[t]) - 1
        /\ left'[t] = left[t] \/ left'[t] = left[t] + 1
        /\ bulk_level' = Len(scopes'[t]) + left'[t]
    <3>1. Len(scopes'[t]) = Len(scopes[t]) - 1
      BY <1>3, <1>4
    <3>2. left \in [Thread -> Nat]
      BY DEF LockInv, TypeOK
    <3>3. \/ bulk_level' = bulk_level - 1 /\ left'[t] = left[t]
          \/ bulk_level' = bulk_level /\ left'[t] = left[t] + 1
      BY <1>7, <3>2
    <3> QED BY <1>2, <1>3, <3>1, <3>3
  <2>2. Holds(t)' <=> Len(scopes'[t]) + left'[t] > 0
    BY <1>8, HoldsCounts DEF TypeOK, Holds
  <2> QED BY <2>1, <2>2
<1>11. OneBulkThread'
  BY <1>9 DEF OneBulkThread
<1>12. LevelCountsScopes'
  BY <1>9, <1>10 DEF LevelCountsScopes
<1>13. ModeNamesScopes'
  <2>1. bulk_mode' = "none" <=> bulk_level' = 0
    BY <1>2, <1>3, <1>5, <1>7 DEF Kind
  <2>2. \A u \in Thread : \A i \in 1 .. Len(scopes'[u]) : scopes'[u][i] = bulk_mode'
    <3>1. \A u \in Thread \ {t} : Len(scopes'[u]) = 0
      BY <1>9, EmptySeq
    <3>2. \A i \in 1 .. Len(scopes'[t]) : scopes'[t][i] = bulk_mode
      BY <1>3, <1>4 DEF LockInv, ModeNamesScopes
    <3>3. bulk_mode' = bulk_mode \/ Len(scopes'[t]) = 0
      BY <1>2, <1>3, <1>7, <1>10
    <3> QED BY <3>1, <3>2, <3>3
  <2>3. \A u \in Thread : /\ bulk_read_thread_id' = u  <=> bulk_mode' = "read"  /\ Holds(u)'
                          /\ bulk_write_thread_id' = u <=> bulk_mode' = "write" /\ Holds(u)'
    <3>1. \A u \in Thread : /\ bulk_read_thread_id = u  <=> bulk_mode = "read"  /\ u = t
                            /\ bulk_write_thread_id = u <=> bulk_mode = "write" /\ u = t
      BY <1>2 DEF LockInv, ModeNamesScopes
    <3>2. CASE bulk_level' = 0
      <4>1. bulk_level = 1 /\ bulk_mode' = "none"
        BY <1>2, <1>3, <1>7, <3>2
      <4>2. \A u \in Thread : bulk_read_thread_id' # u /\ bulk_write_thread_id' # u
        BY <1>2, <1>3, <1>7, <3>1, <3>2, <4>1
      <4> QED BY <4>1, <4>2
    <3>3. CASE bulk_level' # 0
      <4>1. Holds(t)' /\ bulk_mode' = bulk_mode
        BY <1>2, <1>3, <1>7, <1>10, <3>3
      <4>2. /\ bulk_read_thread_id' = bulk_read_thread_id
            /\ bulk_write_thread_id' = bulk_write_thread_id
        BY <1>2, <1>3, <1>7, <3>3
      <4> QED BY <1>9, <3>1, <4>1, <4>2
    <3> QED BY <3>2, <3>3
  <2> QED BY <2>1, <2>2, <2>3 DEF ModeNamesScopes
<1> QED BY <1>8, <1>11, <1>12, <1>13 DEF LockInv

(* A commit or rollback that fails and leaves its scope takes a free lock.    *)
LeavesScope(t) ==
  /\ bulk_level = 0
  /\ bulk_level' = 1 /\ bulk_mode' = "write" /\ bulk_write_thread_id' = t
  /\ left' = [left EXCEPT ![t] = @ + 1]
  /\ UNCHANGED << bulk_read_thread_id, scopes, is_in_bulk_pause, asleep >>

LEMMA FailsOneWay ==
  ASSUME NEW t \in Thread, OperationFails(t)
  PROVE  UNCHANGED lockVars \/ LeavesScope(t)
BY DEF OperationFails, LeavesScope, pauseVars

LEMMA LeftKeepsLockInv ==
  ASSUME LockInv, NEW t \in Thread, OperationFails(t), LeavesScope(t)
  PROVE  LockInv'
<1> USE BulkAssumption
<1>1. \A u \in Thread : ~Holds(u) /\ left[u] = 0 /\ scopes[u] = << >> /\ Len(scopes[u]) = 0
  <2>1. bulk_level = 0
    BY DEF LeavesScope
  <2>2. \A u \in Thread : ~Holds(u) /\ left[u] \in Nat
    BY <2>1, FreeLock
  <2>3. ASSUME NEW u \in Thread PROVE left[u] = 0 /\ scopes[u] = << >>
    <3>1. left[u] \in Nat /\ ~(scopes[u] # << >> \/ left[u] > 0)
      BY <2>2 DEF Holds
    <3> QED BY <3>1
  <2>4. Len(<< >>) = 0
    BY EmptySeq
  <2> QED BY <2>2, <2>3, <2>4
<1>2. /\ \A u \in Thread : left'[u] = IF u = t THEN 1 ELSE 0
      /\ scopes' = scopes
  BY <1>1 DEF LeavesScope, LockInv, TypeOK
<1>3. \A u \in Thread : Holds(u)' <=> u = t
  BY <1>1, <1>2 DEF Holds
<1>4. TypeOK'
  <2>1. scopes' \in [Thread -> Seq(Kind)] /\ left' \in [Thread -> Nat] /\ bulk_level' \in Nat
    BY DEF LeavesScope, LockInv, TypeOK
  <2>2. is_in_bulk_pause' \in BOOLEAN
    BY Zenon DEF LeavesScope, LockInv, TypeOK
  <2>3. okay' \in [Instance -> BOOLEAN]
    BY Zenon DEF OperationFails, LockInv, TypeOK
  <2>4. /\ asleep' \in Thread \cup {NoThread} /\ bulk_mode' \in Kind \cup {"none"}
        /\ bulk_read_thread_id' \in Thread \cup {NoThread}
        /\ bulk_write_thread_id' \in Thread \cup {NoThread}
    BY DEF LeavesScope, LockInv, TypeOK, Kind
  <2>5. /\ permitted' \subseteq Thread /\ content' \in {0, 1}
        /\ header_lock' \in {"free", "us", "other"} /\ open_store_ref_count' \in Int
        /\ caches' \in {"clean", "dirty"} /\ failed_opens' \in Nat
    BY DEF OperationFails, Mutation, BulkOperationOpenFails, OpenStoreFails, LockInv, TypeOK,
           storeVars
  <2> QED BY <2>1, <2>2, <2>3, <2>4, <2>5, Zenon DEF TypeOK
<1>5. OneBulkThread'
  BY <1>3 DEF OneBulkThread
<1>6. LevelCountsScopes'
  BY <1>1, <1>2, <1>3 DEF LevelCountsScopes, LeavesScope
<1>7. ModeNamesScopes'
  <2>1. bulk_mode' = "write" /\ bulk_level' = 1 /\ bulk_write_thread_id' = t
    BY DEF LeavesScope
  <2>2. \A u \in Thread : bulk_read_thread_id' # u
    BY <1>1 DEF LeavesScope, LockInv, ModeNamesScopes
  <2>3. \A u \in Thread : \A i \in 1 .. Len(scopes'[u]) : scopes'[u][i] = bulk_mode'
    BY <1>1, <1>2
  <2> QED BY <1>3, <2>1, <2>2, <2>3 DEF ModeNamesScopes
<1> QED BY <1>4, <1>5, <1>6, <1>7 DEF LockInv

(* No other action touches the lock, its level, its mode or its owner.        *)
LEMMA RestKeepsLockInv ==
  ASSUME LockInv, Next, UNCHANGED lockVars
  PROVE  LockInv'
<1> USE BulkAssumption DEF LockInv, lockVars, storeVars, pauseVars, opVars
<1>1. Holds(0)' = Holds(0) /\ \A t \in Thread : Holds(t)' = Holds(t)
  BY DEF Holds
<1>2. OneBulkThread' /\ LevelCountsScopes' /\ ModeNamesScopes'
  BY <1>1 DEF OneBulkThread, LevelCountsScopes, ModeNamesScopes, Holds
<1>3. TypeOK'
  <2>0. /\ bulk_mode' \in Kind \cup {"none"} /\ bulk_level' \in Nat
        /\ bulk_read_thread_id' \in Thread \cup {NoThread}
        /\ bulk_write_thread_id' \in Thread \cup {NoThread}
        /\ scopes' \in [Thread -> Seq(Kind)] /\ left' \in [Thread -> Nat]
    BY DEF TypeOK
  <2>1. is_in_bulk_pause' \in BOOLEAN /\ okay' \in [Instance -> BOOLEAN]
    <3>1. ASSUME NEW t \in Thread, OperationFails(t)
          PROVE  is_in_bulk_pause' \in BOOLEAN /\ okay' \in [Instance -> BOOLEAN]
      BY <3>1, Zenon DEF OperationFails, TypeOK
    <3>2. ASSUME NEW i \in Instance, NewInstance(i)
          PROVE  is_in_bulk_pause' \in BOOLEAN /\ okay' \in [Instance -> BOOLEAN]
      BY <3>2, Zenon DEF NewInstance, TypeOK
    <3>3. ASSUME NEW t \in Thread, PauseSleep(t) \/ PauseReopen(t) \/ PauseThrow(t)
          PROVE  is_in_bulk_pause' \in BOOLEAN /\ okay' \in [Instance -> BOOLEAN]
      BY <3>3, Zenon DEF PauseSleep, PauseReopen, PauseThrow, TypeOK
    <3>4. ASSUME NEW t \in Thread, \/ BulkDump(t) \/ BulkRead(t) \/ BulkWrite(t) \/ BulkFails(t)
                                   \/ EndBulk(t) \/ BulkOperationNoneOrWrite(t)
                                   \/ Mutate(t) \/ OpenThrows(t)
          PROVE  is_in_bulk_pause' \in BOOLEAN /\ okay' \in [Instance -> BOOLEAN]
      <4>1. okay' = okay /\ is_in_bulk_pause' = is_in_bulk_pause
        BY <3>4 DEF BulkDump, BulkRead, BulkWrite, BulkOperationStart, BulkFails, EndBulk,
                    BulkOperationNoneOrWrite, Mutate, OpenThrows
      <4> QED BY <4>1, Zenon DEF TypeOK
    <3>5. ASSUME OtherProcessLocks \/ OtherProcessUnlocks
          PROVE  is_in_bulk_pause' \in BOOLEAN /\ okay' \in [Instance -> BOOLEAN]
      BY <3>5, Zenon DEF OtherProcessLocks, OtherProcessUnlocks, TypeOK
    <3> QED BY <3>1, <3>2, <3>3, <3>4, <3>5, Zenon DEF Next
  <2>2. /\ asleep' \in Thread \cup {NoThread} /\ permitted' \subseteq Thread
        /\ content' \in {0, 1}
    BY DEF TypeOK, Next, BulkDump, BulkRead, BulkWrite, BulkOperationStart, BulkFails, EndBulk,
           PauseSleep, PauseReopen, PauseThrow, BulkOperationNoneOrWrite, Mutate, Mutation,
           OpenThrows, OperationFails, NewInstance, OtherProcessLocks, OtherProcessUnlocks
  <2>3. /\ open_store_ref_count' \in Int /\ header_lock' \in {"free", "us", "other"}
        /\ caches' \in {"clean", "dirty"} /\ failed_opens' \in Nat
    BY DEF TypeOK, Next, BulkDump, BulkRead, BulkWrite, BulkOperationStart, BulkFails, EndBulk,
           PauseSleep, PauseReopen, PauseThrow, BulkOperationNoneOrWrite, Mutate, Mutation,
           OpenThrows, OperationFails, NewInstance, OtherProcessLocks, OtherProcessUnlocks,
           BulkOperationOpen, BulkOperationOpenFails, OpenStoreFails, BulkOperationClose,
           FlushedBy
  <2> QED BY <2>0, <2>1, <2>2, <2>3, Zenon DEF TypeOK
<1> QED BY <1>2, <1>3

(* What a step does to the lock.                                              *)
LEMMA LockSteps ==
  ASSUME Next
  PROVE  \/ UNCHANGED lockVars
         \/ \E t \in Thread : \/ BulkDump(t) \/ BulkRead(t) \/ BulkWrite(t) \/ EndBulk(t)
                              \/ OperationFails(t) /\ LeavesScope(t)
BY FailsOneWay
   DEF Next, BulkFails, PauseSleep, PauseReopen, PauseThrow, BulkOperationNoneOrWrite, Mutate,
       OpenThrows, NewInstance, OtherProcessLocks, OtherProcessUnlocks

(* Type correctness, the exclusion of the threads, the count of the bulk      *)
(* level and the meaning of mode and ids hold in every reachable state, also  *)
(* after opens, pauses, commits and rollbacks that failed: what a bad state   *)
(* leaves of the level belongs to the thread that was in it.                  *)
THEOREM LockCorrect == Spec => [](TypeOK /\ OneBulkThread /\ LevelCountsScopes /\ ModeNamesScopes)
<1>1. Init => LockInv
  <2> SUFFICES ASSUME Init PROVE LockInv
    OBVIOUS
  <2>1. TypeOK
    <3>1. << >> \in Seq(Kind)
      BY EmptySeq
    <3>2. scopes \in [Thread -> Seq(Kind)] /\ left \in [Thread -> Nat]
      BY <3>1 DEF Init
    <3>3. is_in_bulk_pause \in BOOLEAN /\ okay \in [Instance -> BOOLEAN]
      BY Zenon DEF Init
    <3>4. /\ bulk_mode \in Kind \cup {"none"} /\ bulk_level \in Nat
          /\ bulk_read_thread_id \in Thread \cup {NoThread}
          /\ bulk_write_thread_id \in Thread \cup {NoThread}
          /\ asleep \in Thread \cup {NoThread} /\ permitted \subseteq Thread
      BY DEF Init
    <3>5. /\ open_store_ref_count \in Int /\ header_lock \in {"free", "us", "other"}
          /\ caches \in {"clean", "dirty"} /\ content \in {0, 1} /\ failed_opens \in Nat
      BY DEF Init
    <3> QED BY <3>2, <3>3, <3>4, <3>5, Zenon DEF TypeOK
  <2>2. \A t \in Thread : scopes[t] = << >> /\ Len(scopes[t]) = 0 /\ left[t] = 0 /\ t # NoThread
    BY BulkAssumption, EmptySeq DEF Init
  <2>3. \A t \in Thread : ~Holds(t)
    BY <2>2, HoldsNot DEF Holds
  <2>4. OneBulkThread /\ LevelCountsScopes /\ ModeNamesScopes
    BY <2>2, <2>3 DEF Init, OneBulkThread, LevelCountsScopes, ModeNamesScopes
  <2> QED BY <2>1, <2>4 DEF LockInv
<1>2. LockInv /\ [Next]_vars => LockInv'
  <2> SUFFICES ASSUME LockInv, [Next]_vars PROVE LockInv'
    OBVIOUS
  <2>1. CASE UNCHANGED vars
    BY <2>1 DEF LockInv, TypeOK, OneBulkThread, LevelCountsScopes, ModeNamesScopes, Holds, vars,
                lockVars, storeVars, pauseVars, opVars
  <2>2. CASE Next
    BY <2>2, LockSteps, StartKeepsLockInv, EndKeepsLockInv, LeftKeepsLockInv, RestKeepsLockInv
  <2> QED BY <2>1, <2>2
<1>3. LockInv => TypeOK /\ OneBulkThread /\ LevelCountsScopes /\ ModeNamesScopes
  BY DEF LockInv
<1> QED BY <1>1, <1>2, <1>3, PTL DEF Spec

(* The fields that "bulk_base" keeps (bulk_level, the two thread ids, the mode *)
(* and the pause flag) keep their ranges: a level never goes below zero, and    *)
(* no failure leaves an id that is no thread's.                                 *)
THEOREM BulkTyped == Spec => []TypeOK
BY LockCorrect, PTL

-----------------------------------------------------------------------------
(* The state of the files.  A thread sleeps only with the pause flag set;     *)
(* while no open has failed with the count left wrong, the files are open     *)
(* exactly while a bulk scope is live, or left, and not paused.               *)
SleepInv == asleep # NoThread => is_in_bulk_pause

HeaderInv == SleepInv /\ HeaderHeldInBulk

(* Every step keeps the header held in a bulk scope. *)
LEMMA HeaderStep ==
  ASSUME LockInv, HeaderInv, [Next]_vars
  PROVE  HeaderInv'
<1> USE BulkAssumption DEF HeaderInv, SleepInv, HeaderHeldInBulk, LockInv, lockVars, storeVars,
                           pauseVars, opVars
<1>1. CASE UNCHANGED vars
  BY <1>1 DEF vars
<1>2. ASSUME NEW t \in Thread, BulkDump(t) \/ BulkRead(t) \/ BulkWrite(t) PROVE HeaderInv'
  BY <1>2 DEF BulkDump, BulkRead, BulkWrite, BulkOperationStart, BulkOperationOpen, TypeOK
<1>3. ASSUME NEW t \in Thread, EndBulk(t) PROVE HeaderInv'
  BY <1>3 DEF EndBulk, BulkOperationClose, TypeOK
<1>4. ASSUME NEW t \in Thread, PauseSleep(t) \/ PauseReopen(t) \/ PauseThrow(t) PROVE HeaderInv'
  BY <1>4 DEF PauseSleep, PauseReopen, PauseThrow, BulkOperationOpen, BulkOperationClose,
              BulkOperationOpenFails, OpenStoreFails, TypeOK
<1>5. ASSUME NEW t \in Thread, BulkOperationNoneOrWrite(t) \/ Mutate(t) PROVE HeaderInv'
  BY <1>5 DEF BulkOperationNoneOrWrite, Mutate, Mutation, TypeOK
<1>6. ASSUME NEW t \in Thread, BulkFails(t) PROVE HeaderInv'
  <2>1. bulk_level = 0
    BY <1>6 DEF BulkFails, ModeNamesScopes
  <2> QED BY <1>6, <2>1 DEF BulkFails
<1>7. ASSUME NEW t \in Thread, OpenThrows(t) PROVE HeaderInv'
  BY <1>7 DEF OpenThrows
<1>8. ASSUME NEW t \in Thread, OperationFails(t) PROVE HeaderInv'
  BY <1>8 DEF OperationFails, Mutation, TypeOK
<1>9. ASSUME NEW i \in Instance, NewInstance(i) PROVE HeaderInv'
  BY <1>9 DEF NewInstance
<1>10. ASSUME OtherProcessLocks \/ OtherProcessUnlocks PROVE HeaderInv'
  BY <1>10 DEF OtherProcessLocks, OtherProcessUnlocks, TypeOK
<1> QED BY <1>1, <1>2, <1>3, <1>4, <1>5, <1>6, <1>7, <1>8, <1>9, <1>10 DEF Next

(* Outside of a pause a bulk scope always has the header lock, so no other    *)
(* process gets at the files between its first and its last section.          *)
THEOREM HeaderHeld == Spec => []HeaderHeldInBulk
<1>1. Init => HeaderInv
  BY DEF Init, HeaderInv, SleepInv, HeaderHeldInBulk
<1>2. Spec => []LockInv
  BY LockCorrect, PTL DEF LockInv
<1>3. LockInv /\ HeaderInv /\ [Next]_vars => HeaderInv'
  BY HeaderStep
<1>4. HeaderInv => HeaderHeldInBulk
  BY DEF HeaderInv
<1> QED BY <1>1, <1>2, <1>3, <1>4, PTL DEF Spec

StoreInv == /\ asleep # NoThread => bulk_level > 0 /\ is_in_bulk_pause
            /\ is_in_bulk_pause => asleep # NoThread
            /\ open_store_ref_count = IF bulk_level > 0 /\ asleep = NoThread THEN 1 ELSE 0
            /\ FlushedBeforeRelease

NoOpenFailed == failed_opens = 0

(* An open that left the count wrong is never taken back. *)
LEMMA NoOpenLeft ==
  ASSUME LockInv, [Next]_vars, NoOpenFailed'
  PROVE  NoOpenFailed /\ failed_opens' = failed_opens
<1> USE DEF NoOpenFailed, pauseVars, storeVars, LockInv, TypeOK
<1>1. CASE UNCHANGED vars
  BY <1>1 DEF vars
<1>2. CASE Next
  <2>1. failed_opens' = failed_opens \/ failed_opens' = failed_opens + 1
    BY <1>2 DEF Next, BulkDump, BulkRead, BulkWrite, BulkOperationStart, BulkFails, EndBulk,
           PauseSleep, PauseReopen, PauseThrow, BulkOperationNoneOrWrite, Mutate, Mutation,
           OpenThrows, OperationFails, NewInstance, OtherProcessLocks, OtherProcessUnlocks,
           BulkOperationOpen, BulkOperationOpenFails, OpenStoreFails, BulkOperationClose
  <2> QED BY <2>1
<1> QED BY <1>1, <1>2

(* Outside of a pause a mutation leaves what it wrote in the caches only      *)
(* under the header lock.                                                     *)
LEMMA MutationFlushed ==
  ASSUME LockInv, HeaderInv, StoreInv, NoOpenFailed, Mutation, asleep = NoThread
  PROVE  /\ open_store_ref_count' = open_store_ref_count
         /\ header_lock' # "us" => caches' = "clean"
<1>1. open_store_ref_count' = open_store_ref_count
  BY DEF Mutation
<1>2. CASE bulk_level = 0
  <2>1. open_store_ref_count = 0
    BY <1>2 DEF StoreInv
  <2>2. caches' = "clean"
    BY <1>2, <2>1 DEF Mutation
  <2> QED BY <1>1, <2>2
<1>3. CASE bulk_level > 0
  <2>1. ~is_in_bulk_pause
    BY DEF StoreInv
  <2>2. header_lock = "us"
    BY <1>3, <2>1 DEF HeaderInv, HeaderHeldInBulk
  <2>3. header_lock' = "us"
    BY <1>3, <2>1, <2>2 DEF Mutation
  <2> QED BY <1>1, <2>3
<1> QED BY <1>2, <1>3 DEF LockInv, TypeOK

(* Every step keeps the store flushed before the header is let go. *)
LEMMA StoreStep ==
  ASSUME LockInv, HeaderInv, StoreInv, NoOpenFailed, NoOpenFailed', [Next]_vars
  PROVE  StoreInv'
<1> USE BulkAssumption DEF StoreInv, NoOpenFailed, FlushedBeforeRelease, HeaderInv, HeaderHeldInBulk, LockInv,
                           lockVars, storeVars, pauseVars, opVars
<1>0. failed_opens' = failed_opens
  BY NoOpenLeft
<1>1. CASE UNCHANGED vars
  BY <1>1 DEF vars
<1>2. ASSUME NEW t \in Thread, BulkDump(t) \/ BulkRead(t) \/ BulkWrite(t) PROVE StoreInv'
  BY <1>2 DEF BulkDump, BulkRead, BulkWrite, BulkOperationStart, BulkOperationOpen, Enters, TypeOK
<1>3. ASSUME NEW t \in Thread, EndBulk(t) PROVE StoreInv'
  <2>1. bulk_level \in Nat \ {0}
    <3>1. ~(bulk_level = 0)
      BY <1>3, FreeLock DEF EndBulk, Holds
    <3> QED BY <3>1 DEF TypeOK
  <2>2. asleep = NoThread
    BY <1>3 DEF EndBulk, Enters
  <2> QED BY <1>3, <2>1, <2>2 DEF EndBulk, BulkOperationClose, FlushedBy, TypeOK
<1>4. ASSUME NEW t \in Thread, PauseSleep(t) PROVE StoreInv'
  <2>1. bulk_level \in Nat \ {0}
    <3>1. ~(bulk_level = 0)
      BY <1>4, FreeLock DEF PauseSleep, Holds
    <3> QED BY <3>1 DEF TypeOK
  <2>2. asleep = NoThread /\ open_store_ref_count = 1 /\ t # NoThread
    BY <1>4, <2>1 DEF PauseSleep, Enters, TypeOK
  <2>3. /\ open_store_ref_count' = 0 /\ caches' = "clean"
        /\ asleep' = t /\ is_in_bulk_pause' /\ bulk_level' = bulk_level /\ failed_opens' = 0
    BY <1>4, <2>2 DEF PauseSleep, BulkOperationClose, FlushedBy
  <2> QED BY <2>1, <2>2, <2>3
<1>5. ASSUME NEW t \in Thread, PauseReopen(t) PROVE StoreInv'
  BY <1>5 DEF PauseReopen, BulkOperationOpen, TypeOK
<1>6. ASSUME NEW t \in Thread, BulkOperationNoneOrWrite(t) PROVE StoreInv'
  BY <1>6 DEF BulkOperationNoneOrWrite, TypeOK
<1>7. ASSUME NEW t \in Thread, Mutate(t) PROVE StoreInv'
  <2>1. UNCHANGED << lockVars, pauseVars >> /\ Mutation /\ asleep = NoThread
    BY <1>7 DEF Mutate
  <2>2. /\ open_store_ref_count' = open_store_ref_count
        /\ header_lock' # "us" => caches' = "clean"
    BY <2>1, MutationFlushed
  <2> QED BY <2>1, <2>2
<1>8. ASSUME NEW t \in Thread, BulkFails(t) \/ OpenThrows(t) \/ PauseThrow(t) PROVE StoreInv'
  <2>1. failed_opens' = failed_opens + 1
    BY <1>8 DEF BulkFails, OpenThrows, PauseThrow, BulkOperationOpenFails, OpenStoreFails
  <2> QED BY <1>0, <2>1
<1>9. ASSUME NEW t \in Thread, OperationFails(t) PROVE StoreInv'
  <2>1. asleep = NoThread /\ UNCHANGED pauseVars
    BY <1>9 DEF OperationFails
  <2>2. ~BulkOperationOpenFails("write")
    BY <1>0 DEF BulkOperationOpenFails, OpenStoreFails
  <2>3. CASE UNCHANGED storeVars /\ UNCHANGED lockVars
    BY <2>1, <2>3
  <2>4. CASE Mutation /\ UNCHANGED lockVars
    <3>1. /\ open_store_ref_count' = open_store_ref_count
          /\ header_lock' # "us" => caches' = "clean"
      BY <2>1, <2>4, MutationFlushed
    <3> QED BY <2>1, <2>4, <3>1
  <2>5. CASE /\ bulk_level = 0 /\ bulk_level' = 1
             /\ header_lock' = IF is_in_bulk_pause THEN "free" ELSE "us"
             /\ open_store_ref_count' = open_store_ref_count + 1
    BY <2>1, <2>5
  <2> QED BY <1>9, <2>2, <2>3, <2>4, <2>5 DEF OperationFails
<1>10. ASSUME NEW i \in Instance, NewInstance(i) PROVE StoreInv'
  BY <1>10 DEF NewInstance
<1>11. ASSUME OtherProcessLocks \/ OtherProcessUnlocks PROVE StoreInv'
  BY <1>11 DEF OtherProcessLocks, OtherProcessUnlocks, TypeOK
<1> QED BY <1>1, <1>2, <1>3, <1>4, <1>5, <1>6, <1>7, <1>8, <1>9, <1>10, <1>11 DEF Next

(* As long as no open throws after it has counted, and no pause fails to get  *)
(* the header lock back, nothing is left in the caches of this process        *)
(* whenever it does not have the header lock, whichever commits and rollbacks *)
(* fail and whatever bad states they leave.                                   *)
THEOREM Flushed == Spec => []FlushedBeforeRelease
<1>1. Init => HeaderInv /\ (NoOpenFailed => StoreInv)
  BY DEF Init, HeaderInv, SleepInv, HeaderHeldInBulk, StoreInv, FlushedBeforeRelease
<1>2. Spec => []LockInv
  BY LockCorrect, PTL DEF LockInv
<1>3. LockInv /\ HeaderInv /\ (NoOpenFailed => StoreInv) /\ [Next]_vars
        => HeaderInv' /\ (NoOpenFailed' => StoreInv')
  <2> SUFFICES ASSUME LockInv, HeaderInv, NoOpenFailed => StoreInv, [Next]_vars
               PROVE  HeaderInv' /\ (NoOpenFailed' => StoreInv')
    OBVIOUS
  <2>1. NoOpenFailed' => NoOpenFailed
    BY NoOpenLeft
  <2> QED BY <2>1, HeaderStep, StoreStep
<1>4. (NoOpenFailed => StoreInv) => FlushedBeforeRelease
  BY DEF StoreInv, NoOpenFailed, FlushedBeforeRelease
<1> QED BY <1>1, <1>2, <1>3, <1>4, PTL DEF Spec

-----------------------------------------------------------------------------
(* The refinement.  The owner of the abstract lock is the only thread that    *)
(* holds it, in this state and in the next one.                               *)

LEMMA OwnerIs ==
  ASSUME LockInv, NEW t \in Thread
  PROVE  /\ Holds(t) => BulkOwner = t
         /\ bulk_level = 0 <=> BulkOwner = NoThread
<1> USE BulkAssumption DEF LockInv, OneBulkThread
<1>1. \A u \in Thread : Holds(u) => BulkOwner = u
  BY DEF BulkOwner
<1>2. bulk_level = 0 <=> \A u \in Thread : ~Holds(u)
  BY FreeLock
<1>3. BulkOwner = NoThread <=> \A u \in Thread : ~Holds(u)
  BY <1>1 DEF BulkOwner
<1> QED BY <1>1, <1>2, <1>3

(* The next owner, from the invariant of the next state.                      *)
LEMMA NextOwnerIs ==
  ASSUME LockInv', NEW t \in Thread
  PROVE  /\ Holds(t)' => BulkOwner' = t
         /\ (bulk_level = 0)' <=> BulkOwner' = NoThread
<1> USE BulkAssumption DEF LockInv, OneBulkThread
<1>1. \A u \in Thread : Holds(u)' => BulkOwner' = u
  BY DEF BulkOwner
<1>2. bulk_level' = 0 <=> \A u \in Thread : ~Holds(u)'
  <2>1. \A u \in Thread : Holds(u)' <=> Len(scopes'[u]) + left'[u] > 0
    BY HoldsCounts DEF TypeOK, Holds
  <2> HIDE DEF Holds
  <2> QED BY <2>1 DEF LevelCountsScopes, TypeOK
<1>3. BulkOwner' = NoThread <=> \A u \in Thread : ~Holds(u)'
  BY <1>1 DEF BulkOwner
<1> QED BY <1>1, <1>2, <1>3

(* What the abstract lock has lost, with and without an owner.                *)
Lost == IF BulkOwner = NoThread THEN 0 ELSE left[BulkOwner]

(* A constructor acquires the abstract lock.                                  *)
LEMMA StartAcquires ==
  ASSUME LockInv, LockInv', NEW t \in Thread, BulkDump(t) \/ BulkRead(t) \/ BulkWrite(t)
  PROVE  \E kind \in Kind : BulkLock!Acquire(t, kind)
<1> USE BulkAssumption
<1>1. PICK kind \in Kind :
        /\ BulkOperationStart(t, kind)
        /\ \/ bulk_mode = "none"
           \/ bulk_mode = kind /\ kind = "read" /\ bulk_read_thread_id = t
           \/ bulk_mode = kind /\ kind = "write" /\ bulk_write_thread_id = t
  BY DEF BulkDump, BulkRead, BulkWrite, Kind
<1>2. /\ scopes[t] \in Seq(Kind) /\ scopes' = [scopes EXCEPT ![t] = Append(@, kind)]
      /\ bulk_level' = bulk_level + 1 /\ bulk_mode' = kind /\ bulk_level < MaxLevel
      /\ left' = left
  BY <1>1 DEF BulkOperationStart, LockInv, TypeOK
<1>3. Holds(t)'
  BY <1>2, PushPop DEF LockInv, TypeOK, Holds
<1>4. BulkOwner' = t
  BY <1>3, NextOwnerIs
<1>5. \/ BulkOwner = NoThread
      \/ BulkOwner = t /\ bulk_mode = kind /\ kind # "dump"
  BY <1>1, OwnerIs DEF LockInv, ModeNamesScopes
<1>6. Lost' = Lost
  <2>1. CASE BulkOwner = NoThread
    <3>1. left[t] = 0
      <4>1. bulk_level = 0
        BY <2>1, OwnerIs
      <4>2. ~Holds(t) /\ left[t] \in Nat
        BY <4>1, FreeLock
      <4> QED BY <4>2 DEF Holds
    <3> QED BY <1>2, <1>4, <2>1, <3>1 DEF Lost
  <2>2. CASE BulkOwner = t
    BY <1>2, <1>4, <2>2 DEF Lost
  <2> QED BY <1>5, <2>1, <2>2
<1> QED BY <1>2, <1>4, <1>5, <1>6 DEF BulkLock!Acquire, Lost

(* A destructor releases it once, or, in a bad state, abandons one release.   *)
LEMMA EndReleases ==
  ASSUME LockInv, LockInv', NEW t \in Thread, EndBulk(t)
  PROVE  BulkLock!Release \/ BulkLock!Abandon
<1> USE BulkAssumption
<1>1. /\ scopes[t] \in Seq(Kind) /\ scopes[t] # << >> /\ scopes' = [scopes EXCEPT ![t] = Front(@)]
      /\ scopes'[t] = Front(scopes[t])
  BY DEF EndBulk, LockInv, TypeOK
<1>2. BulkOwner = t /\ bulk_level = Len(scopes[t]) + left[t] /\ left[t] \in Nat
  BY <1>1, OwnerIs DEF LockInv, LevelCountsScopes, TypeOK, Holds
<1>3. Len(scopes[t]) \in Nat \ {0} /\ (scopes'[t] = << >> <=> Len(scopes[t]) = 1)
  BY <1>1, PushPop DEF Kind
<1>4. bulk_level > left[t] /\ Lost = left[t]
  BY <1>2, <1>3 DEF Lost
<1>5. CASE /\ bulk_level' = bulk_level - 1 /\ left' = left
           /\ bulk_mode' = IF bulk_level = 1 THEN "none" ELSE bulk_mode
  <2>1. Holds(t)' <=> bulk_level # 1
    <3>1. left'[t] = left[t]
      BY <1>5
    <3>2. bulk_level # 1 <=> (Len(scopes[t]) # 1 \/ left[t] > 0)
      <4> DEFINE len == Len(scopes[t])
                 lost == left[t]
      <4>1. len \in Nat /\ len > 0 /\ lost \in Nat /\ bulk_level = len + lost
        BY <1>2, <1>3
      <4> HIDE DEF len, lost
      <4>2. bulk_level # 1 <=> (len # 1 \/ lost > 0)
        BY <4>1
      <4> QED BY <4>2 DEF len, lost
    <3> QED BY <1>3, <3>1, <3>2 DEF Holds
  <2>2. CASE bulk_level = 1
    <3>1. BulkOwner' = NoThread /\ left[t] = 0
      BY <1>2, <1>3, <1>5, <2>2, NextOwnerIs
    <3>2. Lost' = Lost
      BY <1>4, <3>1 DEF Lost
    <3> QED BY <1>2, <1>4, <1>5, <2>2, <3>1, <3>2 DEF BulkLock!Release, Lost
  <2>3. CASE bulk_level # 1
    <3>1. BulkOwner' = t
      BY <2>1, <2>3, NextOwnerIs
    <3>2. Lost' = Lost
      BY <1>2, <1>5, <3>1 DEF Lost
    <3> QED BY <1>2, <1>4, <1>5, <2>3, <3>1, <3>2 DEF BulkLock!Release, Lost
  <2> QED BY <2>2, <2>3
<1>6. CASE /\ bulk_level' = bulk_level /\ bulk_mode' = bulk_mode
           /\ left' = [left EXCEPT ![t] = @ + 1]
  <2>1. left'[t] = left[t] + 1 /\ Holds(t)'
    BY <1>2, <1>6 DEF LockInv, TypeOK, Holds
  <2>2. BulkOwner' = t
    BY <2>1, NextOwnerIs
  <2>3. Lost' = Lost + 1
    BY <1>2, <2>1, <2>2 DEF Lost
  <2> QED BY <1>2, <1>4, <1>6, <2>2, <2>3 DEF BulkLock!Abandon, Lost
<1>7. \/ /\ bulk_level' = bulk_level - 1 /\ left' = left
         /\ bulk_mode' = IF bulk_level = 1 THEN "none" ELSE bulk_mode
      \/ /\ bulk_level' = bulk_level /\ bulk_mode' = bulk_mode
         /\ left' = [left EXCEPT ![t] = @ + 1]
  BY DEF EndBulk
<1> QED BY <1>5, <1>6, <1>7

(* A failed commit or rollback that leaves its scope acquires it for good.    *)
LEMMA LeavesForGood ==
  ASSUME LockInv, LockInv', NEW t \in Thread, LeavesScope(t)
  PROVE  BulkLock!AcquireForGood(t)
<1>1. BulkOwner = NoThread
  BY OwnerIs DEF LeavesScope
<1>2. ~Holds(t) /\ left[t] \in Nat
  BY FreeLock DEF LeavesScope
<1>3. left[t] = 0 /\ left'[t] = 1
  BY <1>2 DEF LeavesScope, LockInv, TypeOK, Holds
<1>4. BulkOwner' = t
  BY <1>3, NextOwnerIs DEF Holds
<1>5. Lost' = 1
  BY <1>3, <1>4, BulkAssumption DEF Lost
<1> QED BY <1>1, <1>4, <1>5 DEF BulkLock!AcquireForGood, LeavesScope, Lost

(* The shared mode, level and thread ids are one exclusive, recursive lock:   *)
(* every constructor acquires it, every destructor releases it or, in a bad   *)
(* state, leaves it with its thread for good, as a failed commit or rollback  *)
(* may; nothing else - failed opens, pauses, mutations, new instances, other  *)
(* processes - has an effect on it.                                           *)
THEOREM Refinement == Spec => ImplementsBulkLock
<1>1. Init => BulkLock!Init
  <2> SUFFICES ASSUME Init PROVE BulkLock!Init
    OBVIOUS
  <2>1. \A t \in Thread : ~Holds(t)
    <3>1. \A t \in Thread : scopes[t] = << >> /\ left[t] = 0
      BY DEF Init
    <3> QED BY <3>1, HoldsNot DEF Holds
  <2>2. BulkOwner = NoThread
    BY <2>1 DEF BulkOwner
  <2> QED BY <2>2 DEF Init, BulkLock!Init
<1>2. LockInv /\ LockInv' /\ [Next]_vars => [BulkLock!Next]_(BulkLock!lockVars)
  <2> SUFFICES ASSUME LockInv, LockInv', [Next]_vars
               PROVE  [BulkLock!Next]_(BulkLock!lockVars)
    OBVIOUS
  <2>1. CASE UNCHANGED lockVars
    BY <2>1 DEF lockVars, BulkOwner, Holds, BulkLock!lockVars
  <2>2. ASSUME NEW t \in Thread, BulkDump(t) \/ BulkRead(t) \/ BulkWrite(t)
        PROVE  BulkLock!Next
    BY <2>2, StartAcquires DEF BulkLock!Next, Kind
  <2>3. ASSUME NEW t \in Thread, EndBulk(t)
        PROVE  BulkLock!Next
    BY <2>3, EndReleases DEF BulkLock!Next
  <2>4. ASSUME NEW t \in Thread, LeavesScope(t)
        PROVE  BulkLock!Next
    BY <2>4, LeavesForGood DEF BulkLock!Next
  <2>5. CASE UNCHANGED vars
    BY <2>1, <2>5 DEF vars
  <2>6. CASE Next
    BY <2>1, <2>2, <2>3, <2>4, <2>6, LockSteps
  <2> QED BY <2>5, <2>6
<1>3. Spec => []LockInv
  BY LockCorrect, PTL DEF LockInv
<1> QED BY <1>1, <1>2, <1>3, PTL DEF Spec, ImplementsBulkLock, BulkLock!Spec
=============================================================================
