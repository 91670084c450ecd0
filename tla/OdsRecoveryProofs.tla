-------------------------- MODULE OdsRecoveryProofs -------------------------
(* Proof that the walk of restore_from_transaction_log through the log goes   *)
(* forward to the last entry, for any log that has an entry and any number of *)
(* crashes, also crashes in the windows in which the store itself is not      *)
(* recovered; only a crash that leaves an uncommitted entry with a link back  *)
(* (StaleLink) is left out.  A repair that finds the last entries uncommitted *)
(* leaves them in the log, a new entry inherits the link of the last one, and *)
(* so entries that no repair reads any more may name any others.  What makes  *)
(* it inductive is that the entries that are read, from the first to the last *)
(* of log_info, form a chain, without gaps behind the good point.             *)
EXTENDS OdsRecovery, SequenceTheorems, TLAPS

(* The entry that each entry names as the next, 0 for none. *)
Links(q) == [k \in DOMAIN q |-> q[k].next]

(* The good point in the header file. *)
Good == disk.hdr.tranlog_offset

Down == session.pc \in {"down", "restoring", "restored"}

(* The entries of the log that a repair reads: a chain to the last one.       *)
Live(L, f, e, g) ==
  /\ L \subseteq 1 .. e /\ 1 \in L /\ e \in L
  /\ \A k \in L : k # e =>
       /\ f[k] \in L /\ k < f[k] /\ (k > g => f[k] = k + 1)
       /\ \A j \in L : j <= k \/ f[k] <= j

LogInv ==
  /\ log \in Seq({log[k] : k \in DOMAIN log})
  /\ \A k \in DOMAIN log : "next" \in DOMAIN log[k] /\ log[k].next \in Nat
  /\ 1 \in DOMAIN log /\ log[1].committed

(* The next entry is written after the last one, and the good point before    *)
(* it; a last entry that names one that comes later was left by a repair.     *)
InfoIs(n, f, com, e, a, g) ==
  /\ e \in 1 .. n /\ a \in 2 .. n + 1 /\ g \in Nat /\ 1 <= g /\ e < a /\ g < a
  /\ f[e] <= a /\ (f[e] > e => e \in com)

Committed(q) == {k \in DOMAIN q : q[k].committed}

InfoInv ==
  /\ info = [entry |-> info.entry, append |-> info.append]
  /\ InfoIs(Len(log), Links(log), Committed(log), info.entry, info.append, Good)

(* A header that tells of writers is behind the last entry, or that entry     *)
(* does not lead back.                                                        *)
Dirty == disk.hdr.num_trans # 0 \/ disk.hdr.num_writers # 0
DirtyInv == Dirty /\ info.entry <= Good => Links(log)[info.entry] \notin 1 .. info.entry

DownInv ==
  /\ session.pc = "down" => mem = disk
  /\ Down => session.levels = <<>> /\ session.tranlog_offset = 0
  /\ Down /\ info.entry > Good => Links(log)[info.entry] \notin 1 .. info.entry - 1

(* A store as the files or the process have it, with the counts in its header. *)
Shape(m) == /\ "hdr" \in DOMAIN m
            /\ {"tranlog_offset", "num_trans", "num_writers"} \subseteq DOMAIN m.hdr

SessionInv ==
  /\ {"pc", "then", "bulk", "has_changed", "levels", "tranlog_offset", "ops"}
       \subseteq DOMAIN session
  /\ session.then \in {"idle", "writing"} /\ session.has_changed \in BOOLEAN
  /\ session.tranlog_offset \in Nat

(* A transaction is open, or is being started or ended. *)
Trans(s) ==
  s.levels # <<>> \/ s.pc \in {"starting", "committing", "rolling back", "completing"}

(* What the header of the process counts: the session as a writer as long as  *)
(* it has changed something since it opened the store.                        *)
Accounted(m, s) ==
  /\ Shape(m) /\ m.hdr.tranlog_offset = Good /\ m.hdr.num_trans \in Nat
  /\ m.hdr.num_writers = (IF s.has_changed THEN 1 ELSE 0)
  /\ Trans(s) => m.hdr.num_trans # 0
  /\ m.hdr.num_trans # 0 => info.entry > Good
  /\ ~s.has_changed => /\ disk.hdr.num_writers = 0
                       /\ disk.hdr.num_trans = m.hdr.num_trans

Flags(s) ==
  /\ s.pc \in {"idle", "writing"} /\ ~s.bulk => ~s.has_changed
  /\ s.pc = "starting" => s.has_changed

HeaderInv ==
  ~Down => /\ Accounted(mem, session) /\ Flags(session)
           /\ session.tranlog_offset <= info.entry
           /\ info.append = info.entry + 1 \/ info.entry <= Good

(* The repair reads an entry of the chain; the last committed one that it has *)
(* come by is on the chain as well.                                           *)
WalkInv(L) ==
  LET l == work.last
      o == l.offset
      e == info.entry
  IN
  session.pc = "restoring" =>
    /\ IsCorrupt
    /\ {"next", "good", "last", "any"} \subseteq DOMAIN work
    /\ {"offset", "append"} \subseteq DOMAIN l
    /\ work.next \in L \cup {0} /\ work.any \in BOOLEAN
    /\ work.good \in Nat /\ work.good >= Good
    /\ \/ o = 0 /\ work.next = 1 /\ ~work.any
       \/ o \in L /\ o \in Committed(log)
    /\ ~work.any => work.good = Good /\ mem.hdr.tranlog_offset = Good
    /\ work.any => e > Good
    /\ work.any /\ work.next # 0 => work.good < work.next
    /\ work.any /\ work.next = 0 =>
         \/ l.append = info.append
         \/ o = e /\ l.append = Links(log)[e] /\ Links(log)[e] > e
    /\ ~work.any /\ work.next = 0 => e <= Good

RestoredInv ==
  session.pc = "restored" =>
    IF work.any THEN work.last.offset = info.entry
    ELSE info.entry <= Good /\ mem.hdr.tranlog_offset = Good

ChainInv == \E L : Live(L, Links(log), info.entry, Good) /\ WalkInv(L)

RepairInv ==
  /\ LogInv /\ InfoInv /\ DirtyInv /\ DownInv /\ SessionInv /\ HeaderInv
  /\ ChainInv /\ RestoredInv /\ Shape(disk)

-----------------------------------------------------------------------------
(* Sequences.                                                                 *)

LEMMA IsSeq ==
  ASSUME NEW S, NEW q \in Seq(S)
  PROVE  /\ Len(q) \in Nat /\ DOMAIN q = 1 .. Len(q)
         /\ q \in Seq({q[k] : k \in DOMAIN q})
<1>1. Len(q) \in Nat /\ DOMAIN q = 1 .. Len(q) /\ q \in [1 .. Len(q) -> S]
  BY LenProperties
<1> DEFINE T == {q[k] : k \in DOMAIN q}
<1>2. q \in [1 .. Len(q) -> T]
  BY <1>1
<1>3. q \in Seq(T)
  BY <1>1, <1>2, SeqDef
<1> QED BY <1>1, <1>3

LEMMA FunctionIsSeq ==
  ASSUME NEW S, NEW n \in Nat, NEW q \in [1 .. n -> S]
  PROVE  q \in Seq(S) /\ Len(q) = n
<1>1. q \in Seq(S)
  BY SeqDef
<1> QED BY <1>1, LenProperties

LEMMA LogFacts ==
  ASSUME LogInv
  PROVE  /\ Len(log) \in Nat /\ DOMAIN log = 1 .. Len(log) /\ 1 \in DOMAIN log
         /\ DOMAIN Links(log) = DOMAIN log /\ 1 \in Committed(log)
         /\ \A k \in 1 .. Len(log) : Links(log)[k] = log[k].next /\ Links(log)[k] \in Nat
<1>1. Len(log) \in Nat /\ DOMAIN log = 1 .. Len(log)
  BY IsSeq DEF LogInv
<1> QED BY <1>1 DEF LogInv, Links, Committed

-----------------------------------------------------------------------------
(* Steps on the log.                                                          *)

(* The log names its entries as before, and none is less than committed. *)
LinksStay ==
  /\ LogInv' /\ Len(log') = Len(log)
  /\ Links(log') = Links(log) /\ Committed(log) \subseteq Committed(log')

Adds == \E entry : /\ "next" \in DOMAIN entry
                   /\ log' = WithEntry(entry) /\ EntryAdded

LEMMA LogSame ==
  ASSUME LogInv, log' = log
  PROVE  LinksStay
BY DEF LogInv, LinksStay

(* Entries are completed and marked committed, but keep what they name. *)
Completes(f, x) == f # "next" /\ (f = "committed" => x = TRUE)

(* A step that writes a part of an entry. *)
LEMMA PartWritten ==
  ASSUME LogInv, NEW f, NEW x, Completes(f, x), NEW o,
         log' = [log EXCEPT ![o] = [@ EXCEPT ![f] = x]]
  PROVE  LinksStay
<1>1. Len(log) \in Nat /\ DOMAIN log = 1 .. Len(log)
  BY IsSeq DEF LogInv
<1>2. DOMAIN log' = 1 .. Len(log)
  BY <1>1
<1>3. \A k \in 1 .. Len(log) : log'[k] = IF k = o THEN [log[k] EXCEPT ![f] = x] ELSE log[k]
  BY <1>1
<1>4. \A k \in 1 .. Len(log) :
        /\ "next" \in DOMAIN log'[k] /\ log'[k].next = log[k].next
        /\ log[k].committed => log'[k].committed
  <2> SUFFICES ASSUME NEW k \in 1 .. Len(log)
               PROVE  /\ "next" \in DOMAIN log'[k] /\ log'[k].next = log[k].next
                      /\ log[k].committed => log'[k].committed
    OBVIOUS
  <2>1. "next" \in DOMAIN log[k]
    BY <1>1 DEF LogInv
  <2>2. log'[k] = log[k] \/ log'[k] = [log[k] EXCEPT ![f] = x]
    BY <1>3
  <2>3. CASE log'[k] = log[k]
    BY <2>1, <2>3
  <2>4. CASE log'[k] = [log[k] EXCEPT ![f] = x]
    <3>1. "next" \in DOMAIN log'[k] /\ log'[k].next = log[k].next
      BY <2>1, <2>4 DEF Completes
    <3>2. log[k].committed => log'[k].committed
      BY <2>4 DEF Completes
    <3> QED BY <3>1, <3>2
  <2> QED BY <2>2, <2>3, <2>4
<1> DEFINE S == {log'[k] : k \in 1 .. Len(log)}
<1>5. log' \in [1 .. Len(log) -> S]
  BY <1>1, <1>2
<1>6. log' \in Seq(S) /\ Len(log') = Len(log)
  <2> DEFINE n == Len(log)
             q == log'
  <2>1. n \in Nat /\ q \in [1 .. n -> S]
    BY <1>1, <1>5
  <2> HIDE DEF S, n, q
  <2>2. q \in Seq(S) /\ Len(q) = n
    BY <2>1, FunctionIsSeq
  <2> QED BY <2>2 DEF n, q
<1>8. log' \in Seq({log'[k] : k \in DOMAIN log'})
  BY <1>2, <1>6
<1>9. Links(log') = Links(log)
  BY <1>1, <1>2, <1>4 DEF Links
<1>10. Committed(log) \subseteq Committed(log')
  BY <1>1, <1>2, <1>4 DEF Committed
<1>11. LogInv'
  BY <1>1, <1>2, <1>4, <1>8 DEF LogInv
<1> QED BY <1>6, <1>9, <1>10, <1>11 DEF LinksStay

LEMMA ItemWritten ==
  ASSUME LogInv, NEW item, log' = WithItem(item)
  PROVE  LinksStay
<1> DEFINE o == session.tranlog_offset
           x == Append(log[o].items, item)
<1>1. log' = [log EXCEPT ![o] = [@ EXCEPT !["items"] = x]]
  BY DEF WithItem
<1> HIDE DEF o, x
<1> QED BY <1>1, PartWritten DEF Completes

(* What append_log_entry makes of the links. *)
WithLink(f, e, a) ==
  [k \in 1 .. a |-> IF k = a THEN f[e] ELSE IF k = e THEN a ELSE f[k]]

LEMMA LinkAdded ==
  ASSUME NEW n \in Nat, NEW f, NEW com, NEW e, NEW a, NEW g, NEW L,
         InfoIs(n, f, com, e, a, g), f[e] \in Nat, Live(L, f, e, g),
         a = e + 1 \/ e <= g, NEW com2
  PROVE  LET h == WithLink(f, e, a)
         IN InfoIs(a, h, com2, a, a + 1, g) /\ Live(L \cup {a}, h, a, g)
<1> DEFINE h == WithLink(f, e, a)
           M == L \cup {a}
<1>1. e \in 1 .. n /\ a \in 2 .. n + 1 /\ e < a /\ g \in Nat /\ 1 <= g /\ g < a /\ f[e] <= a
  BY DEF InfoIs
<1>2. DOMAIN h = 1 .. a /\ h[a] = f[e]
  BY <1>1 DEF WithLink
<1>3. \A k \in 1 .. a : k # a => h[k] = IF k = e THEN a ELSE f[k]
  BY DEF WithLink
<1> HIDE DEF h
<1>4. InfoIs(a, h, com2, a, a + 1, g)
  BY <1>1, <1>2 DEF InfoIs
<1>5. M \subseteq 1 .. a /\ 1 \in M /\ a \in M
  BY <1>1 DEF Live
<1>6. ASSUME NEW k \in M, k # a
      PROVE  /\ h[k] \in M /\ k < h[k] /\ (k > g => h[k] = k + 1)
             /\ \A j \in M : j <= k \/ h[k] <= j
  <2>1. k \in L /\ k \in 1 .. e /\ k \in 1 .. a
    BY <1>1, <1>6 DEF Live
  <2>2. CASE k = e
    <3>1. h[k] = a
      BY <1>3, <1>6, <2>1, <2>2
    <3>2. \A j \in M : j <= k \/ a <= j
      BY <1>1, <2>2 DEF Live
    <3> QED BY <1>1, <2>1, <2>2, <3>1, <3>2
  <2>3. CASE k # e
    <3>1. h[k] = f[k]
      BY <1>3, <1>6, <2>1, <2>3
    <3>2. /\ f[k] \in L /\ k < f[k] /\ (k > g => f[k] = k + 1)
          /\ \A j \in L : j <= k \/ f[k] <= j
      BY <2>1, <2>3 DEF Live
    <3>3. f[k] \in 1 .. e
      BY <3>2 DEF Live
    <3>4. f[k] <= a
      BY <1>1, <3>3
    <3> QED BY <3>1, <3>2, <3>4
  <2> QED BY <2>2, <2>3
<1>7. Live(M, h, a, g)
  BY <1>5, <1>6 DEF Live
<1> QED BY <1>4, <1>7 DEF h

LEMMA EntryWritten ==
  ASSUME LogInv, InfoInv, NEW L, Live(L, Links(log), info.entry, Good), Adds, disk' = disk,
         info.append = info.entry + 1 \/ info.entry <= Good
  PROVE  /\ LogInv' /\ InfoInv' /\ info'.entry = info.append /\ info'.append = info.append + 1
         /\ info.append \in Nat /\ info.entry < info.append /\ Good < info.append
         /\ Live(L \cup {info.append}, Links(log'), info.append, Good)
<1> PICK entry : "next" \in DOMAIN entry /\ log' = WithEntry(entry) /\ EntryAdded
  BY DEF Adds
<1> DEFINE n == Len(log)
           e == info.entry
           a == info.append
           f == Links(log)
           link == [entry EXCEPT !["next"] = f[e]]
           old(k) == IF k = e THEN [log[k] EXCEPT !["next"] = a] ELSE log[k]
           q == [k \in 1 .. a - 1 |-> old(k)]
           S == {old(k) : k \in 1 .. a - 1} \cup {link}
<1>1. n \in Nat /\ DOMAIN log = 1 .. n /\ \A k \in 1 .. n : f[k] = log[k].next /\ f[k] \in Nat
  BY LogFacts
<1>2. /\ e \in 1 .. n /\ a \in 2 .. n + 1 /\ e < a /\ Good < a
      /\ InfoIs(n, f, Committed(log), e, a, Good)
  BY DEF InfoInv, InfoIs
<1>3. a - 1 \in 1 .. n
  BY <1>1, <1>2
<1>31. f[e] = log[e].next /\ e # 0
  BY <1>1, <1>2
<1>4. log' = Append(q, link)
  BY <1>31 DEF WithEntry, Inherited
<1>5. /\ q \in [1 .. a - 1 -> S] /\ link \in S /\ \A k \in 1 .. a - 1 : q[k] = old(k)
      /\ "next" \in DOMAIN link /\ link.next = f[e]
  OBVIOUS
<1>6. /\ log' \in Seq(S) /\ Len(log') = a /\ log'[a] = link
      /\ \A k \in 1 .. a - 1 : log'[k] = q[k]
  <2>1. a \in Nat /\ a - 1 \in Nat /\ (a - 1) + 1 = a
    BY <1>2, <1>3
  <2> HIDE DEF q, S, a, link
  <2>2. q \in Seq(S) /\ Len(q) = a - 1
    BY <1>5, <2>1, FunctionIsSeq
  <2> QED BY <1>4, <1>5, <2>1, <2>2, AppendProperties
<1> HIDE DEF q, S, link
<1>7. log' \in Seq({log'[k] : k \in DOMAIN log'}) /\ DOMAIN log' = 1 .. a
  BY <1>6, IsSeq
<1>8. ASSUME NEW k \in 1 .. a, k # a
      PROVE  /\ "next" \in DOMAIN log'[k] /\ log'[k].committed = log[k].committed
             /\ log'[k].next = IF k = e THEN a ELSE f[k]
             /\ f[k] \in Nat
  <2>1. k \in 1 .. a - 1 /\ k \in 1 .. n
    BY <1>1, <1>2, <1>3, <1>8
  <2>2. log'[k] = old(k) /\ "next" \in DOMAIN log[k] /\ f[k] = log[k].next /\ f[k] \in Nat
    BY <1>1, <1>5, <1>6, <2>1 DEF LogInv
  <2> QED BY <2>2
<1>9. \A k \in DOMAIN log' : "next" \in DOMAIN log'[k] /\ log'[k].next \in Nat
  <2> SUFFICES ASSUME NEW k \in 1 .. a
               PROVE  "next" \in DOMAIN log'[k] /\ log'[k].next \in Nat
    BY <1>7
  <2>1. CASE k = a
    BY <1>1, <1>2, <1>5, <1>6, <2>1
  <2>2. CASE k # a
    BY <1>2, <1>8, <2>2
  <2> QED BY <2>1, <2>2
<1>10. Links(log') = WithLink(f, e, a)
  <2>1. \A k \in 1 .. a : log'[k].next = IF k = a THEN f[e] ELSE IF k = e THEN a ELSE f[k]
    <3> HIDE DEF e, a, f
    <3> QED BY <1>5, <1>6, <1>8
  <2> HIDE DEF e, a, f
  <2> QED BY <1>7, <2>1 DEF Links, WithLink
<1>11. /\ InfoIs(a, Links(log'), Committed(log'), a, a + 1, Good)
       /\ Live(L \cup {a}, Links(log'), a, Good)
  <2> DEFINE g == Good
             com == Committed(log)
             com2 == Committed(log')
  <2>1. /\ n \in Nat /\ InfoIs(n, f, com, e, a, g) /\ f[e] \in Nat /\ Live(L, f, e, g)
        /\ a = e + 1 \/ e <= g
    BY <1>1, <1>2
  <2> HIDE DEF n, e, a, f, g, com, com2
  <2>2. /\ InfoIs(a, WithLink(f, e, a), com2, a, a + 1, g)
        /\ Live(L \cup {a}, WithLink(f, e, a), a, g)
    BY <2>1, LinkAdded
  <2> QED BY <1>10, <2>2 DEF g, com2
<1>12. info' = [entry |-> a, append |-> a + 1] /\ Good' = Good
  BY DEF EntryAdded, Good
<1>13. 1 \in DOMAIN log' /\ log'[1].committed
  <2> HIDE DEF n, e, a, f
  <2>1. 1 \in 1 .. a /\ 1 # a
    BY <1>1, <1>2
  <2> QED BY <1>7, <1>8, <2>1 DEF LogInv
<1>14. LogInv'
  BY <1>7, <1>9, <1>13 DEF LogInv
<1>15. info'.entry = a /\ info'.append = a + 1
  BY <1>12
<1>16. InfoInv'
  BY <1>6, <1>11, <1>12, <1>15 DEF InfoInv
<1> QED BY <1>2, <1>11, <1>14, <1>15, <1>16

-----------------------------------------------------------------------------
(* Steps of a store that is at work.                                          *)

LEMMA InfoFacts ==
  ASSUME RepairInv
  PROVE  /\ info.entry \in Nat /\ info.append \in Nat /\ Good \in Nat /\ 1 <= Good
         /\ info.entry < info.append /\ Good < info.append /\ Len(log) \in Nat
         /\ info.entry \in 1 .. Len(log)
<1>1. Len(log) \in Nat
  BY LogFacts DEF RepairInv
<1> QED BY <1>1 DEF RepairInv, InfoInv, InfoIs

(* The session goes on working, and the good point moves ahead, if at all. *)
LEMMA WorkKeeps ==
  ASSUME RepairInv, Down' = FALSE, LinksStay, info' = info, Shape(disk'),
         Good' \in Nat, Good <= Good', Good' < info.append,
         DirtyInv', SessionInv', HeaderInv'
  PROVE  RepairInv'
<1> DEFINE n == Len(log)
           f == Links(log)
           e == info.entry
           a == info.append
           g == Good
           h == Good'
           com == Committed(log)
           com2 == Committed(log')
<1>1. LogInv'
  BY DEF LinksStay
<1>2. InfoIs(n, f, com2, e, a, h)
  <2>1. /\ InfoIs(n, f, com, e, a, g) /\ com \subseteq com2
        /\ h \in Nat /\ g <= h /\ h < a
    BY DEF RepairInv, InfoInv, LinksStay
  <2> HIDE DEF n, f, e, a, g, h, com, com2
  <2> QED BY <2>1 DEF InfoIs
<1>3. InfoInv'
  BY <1>2 DEF RepairInv, InfoInv, LinksStay
<1>4. PICK L : Live(L, f, e, g)
  BY DEF RepairInv, ChainInv
<1>5. Live(L, f, e, h)
  <2>1. e \in Nat /\ g \in Nat /\ h \in Nat /\ g <= h /\ L \subseteq Nat
    BY <1>4, InfoFacts DEF Live
  <2> HIDE DEF f, e, g, h
  <2>2. \A k \in L : k > h => k > g
    BY <2>1
  <2> QED BY <1>4, <2>2 DEF Live
<1>6. session'.pc \notin {"down", "restoring", "restored"}
  BY DEF Down
<1>7. WalkInv(L)' /\ RestoredInv' /\ DownInv'
  BY <1>6 DEF WalkInv, RestoredInv, DownInv, Down
<1>8. Live(L, Links(log'), info'.entry, Good')
  BY <1>5 DEF LinksStay
<1>9. ChainInv'
  BY <1>7, <1>8 DEF ChainInv
<1> QED BY <1>1, <1>3, <1>7, <1>9 DEF RepairInv

(* The counts in the header m are those of the session. *)
Known(m, changed) ==
  /\ Shape(m) /\ m.hdr.tranlog_offset = Good /\ m.hdr.num_trans = mem.hdr.num_trans
  /\ m.hdr.num_writers = IF changed THEN 1 ELSE 0

SameCounts(m, x) ==
  Shape(m) => /\ Shape(x) /\ x.hdr.tranlog_offset = m.hdr.tranlog_offset
              /\ x.hdr.num_trans = m.hdr.num_trans /\ x.hdr.num_writers = m.hdr.num_writers

LEMMA EditKnown ==
  ASSUME NEW m, NEW x, NEW b, Known(m, b), SameCounts(m, x)
  PROVE  Known(x, b)
BY DEF Known, SameCounts

LEMMA MemKnown ==
  ASSUME RepairInv, ~Down
  PROVE  /\ Known(mem, session.has_changed) /\ session.has_changed \in BOOLEAN
         /\ mem.hdr.num_trans \in Nat
BY DEF RepairInv, HeaderInv, Accounted, Known, SessionInv

LEMMA OpenedKnown ==
  ASSUME RepairInv, session.pc \in {"idle", "writing"}
  PROVE  Known(Opened, session.has_changed) /\ ~Down
<1>1. ~Down
  BY DEF Down
<1>2. Known(mem, session.has_changed)
  BY <1>1, MemKnown
<1>3. CASE session.bulk
  BY <1>1, <1>2, <1>3 DEF Opened
<1>4. CASE ~session.bulk
  <2>1. ~session.has_changed
    BY <1>1, <1>4 DEF RepairInv, HeaderInv, Flags
  <2>2. /\ disk.hdr.num_writers = 0 /\ disk.hdr.num_trans = mem.hdr.num_trans
        /\ Shape(disk) /\ Shape(mem)
    BY <1>1, <2>1 DEF RepairInv, HeaderInv, Accounted
  <2>3. Opened = [mem EXCEPT !.hdr = disk.hdr]
    BY <1>4 DEF Opened
  <2>4. Opened.hdr = disk.hdr /\ "hdr" \in DOMAIN Opened
    BY <2>2, <2>3 DEF Shape
  <2> QED BY <1>1, <2>1, <2>2, <2>4 DEF Known, Shape, Good
<1> QED BY <1>3, <1>4

LEMMA ChangedKnown ==
  ASSUME NEW m, Known(m, session.has_changed), session.has_changed \in BOOLEAN
  PROVE  Known(Changed(m), TRUE)
<1>1. CASE session.has_changed
  BY <1>1 DEF Changed, Known
<1>2. CASE ~session.has_changed
  BY <1>2 DEF Changed, Known, Shape
<1> QED BY <1>1, <1>2

LEMMA EditsSame ==
  ASSUME NEW m, NEW i, NEW d, NEW t
  PROVE  /\ SameCounts(m, m)
         /\ SameCounts(m, [m EXCEPT !.index = i])
         /\ SameCounts(m, [m EXCEPT !.index = i, !.hdr.total_size = t])
         /\ SameCounts(m, [m EXCEPT !.index = i, !.hdr.free_list = t])
         /\ SameCounts(m, [m EXCEPT !.data = d, !.index = i])
         /\ SameCounts(m, [m EXCEPT !.data = d, !.index = i, !.hdr.total_size = t])
         /\ SameCounts(m, [m EXCEPT !.hdr.total_size = t])
         /\ SameCounts(m, [m EXCEPT !.hdr.total_entries = t])
         /\ SameCounts(m, [m EXCEPT !.hdr.free_list = t])
BY DEF SameCounts, Shape

LEMMA FreedSame ==
  ASSUME NEW m, NEW n
  PROVE  SameCounts(m, Freed(m, n))
<1> DEFINE i == [m.index EXCEPT ![n] = [@ EXCEPT !.pos = m.hdr.free_list, !.size = 0,
                                                 !.tran_op = 0, !.trans = "free_list"]]
<1>1. CASE "index" \in DOMAIN m
  <2>1. Freed(m, n) = [m EXCEPT !.index = i, !.hdr.free_list = n + 1]
    BY <1>1 DEF Freed
  <2> HIDE DEF i
  <2> QED BY <2>1 DEF SameCounts, Shape
<1>2. CASE "index" \notin DOMAIN m
  BY <1>2 DEF Freed, SameCounts, Shape
<1> QED BY <1>1, <1>2

LEMMA SameTwice ==
  ASSUME NEW m, NEW x, NEW y, SameCounts(m, x), SameCounts(x, y)
  PROVE  SameCounts(m, y)
BY DEF SameCounts

(* A step of the session that does not write the header file. *)
LEMMA StepKeeps ==
  ASSUME RepairInv, ~Down, Down' = FALSE, LinksStay, info' = info,
         disk'.hdr = disk.hdr, Shape(disk'), SessionInv',
         Known(mem', session'.has_changed), Flags(session'),
         session.has_changed => session'.has_changed, Trans(session') => Trans(session),
         session'.tranlog_offset = session.tranlog_offset
  PROVE  RepairInv'
<1>1. Good' = Good /\ DirtyInv'
  BY DEF RepairInv, DirtyInv, Dirty, Good, LinksStay
<1>2. HeaderInv
  BY DEF RepairInv
<1>3. /\ Accounted(mem, session) /\ session.tranlog_offset <= info.entry
      /\ info.append = info.entry + 1 \/ info.entry <= Good
  BY <1>2 DEF HeaderInv
<1>4. Accounted(mem, session)'
  BY <1>1, <1>3 DEF Accounted, Known
<1>5. HeaderInv'
  BY <1>1, <1>3, <1>4 DEF HeaderInv
<1>6. Good' \in Nat /\ Good <= Good' /\ Good' < info.append
  BY <1>1, InfoFacts
<1> QED BY <1>1, <1>5, <1>6, WorkKeeps

(* A step of the session that adds an entry to the log. *)
LEMMA AddKeeps ==
  ASSUME RepairInv, ~Down, Down' = FALSE, Adds, disk' = disk, SessionInv',
         Shape(mem'), mem'.hdr.tranlog_offset = Good, mem'.hdr.num_trans \in Nat,
         mem'.hdr.num_writers = 1, session'.has_changed, Flags(session'),
         Trans(session') => mem'.hdr.num_trans # 0,
         session'.tranlog_offset = info.append
  PROVE  RepairInv'
<1>1. PICK L : Live(L, Links(log), info.entry, Good)
  BY DEF RepairInv, ChainInv
<1>2. info.append = info.entry + 1 \/ info.entry <= Good
  BY DEF RepairInv, HeaderInv
<1>3. /\ LogInv' /\ InfoInv' /\ info'.entry = info.append /\ info'.append = info.append + 1
      /\ info.append \in Nat /\ info.entry < info.append /\ Good < info.append
      /\ Live(L \cup {info.append}, Links(log'), info.append, Good)
  BY <1>1, <1>2, EntryWritten DEF RepairInv
<1>4. Good' = Good /\ Good \in Nat
  BY InfoFacts DEF Good
<1>5. DirtyInv'
  BY <1>3, <1>4 DEF DirtyInv
<1>6. HeaderInv'
  BY <1>3, <1>4 DEF HeaderInv, Accounted
<1>7. session'.pc \notin {"down", "restoring", "restored"}
  BY DEF Down
<1>8. DownInv' /\ RestoredInv'
  BY <1>7 DEF DownInv, RestoredInv, Down
<1>9. ChainInv'
  <2>1. PICK M : M = L \cup {info.append}
    OBVIOUS
  <2>2. Live(M, Links(log'), info'.entry, Good')
    BY <1>3, <1>4, <2>1
  <2>3. WalkInv(M)'
    BY <1>7 DEF WalkInv
  <2> QED BY <2>2, <2>3 DEF ChainInv
<1> QED BY <1>3, <1>5, <1>6, <1>8, <1>9 DEF RepairInv

-----------------------------------------------------------------------------
(* The actions.                                                               *)

Fields == {"pc", "then", "bulk", "has_changed", "levels", "tranlog_offset", "ops"}

LEMMA ClosingWorks ==
  ASSUME NEW s, Fields \subseteq DOMAIN s, s.tranlog_offset \in Nat,
         NEW then \in {"idle", "writing"}, session' = Closing(s, then)
  PROVE  /\ SessionInv' /\ Flags(session') /\ session'.has_changed = TRUE /\ Down' = FALSE
         /\ session'.tranlog_offset = s.tranlog_offset
         /\ Trans(session') => s.levels # <<>>
<1>1. DOMAIN session' = DOMAIN s
  BY DEF Closing
<1>2. /\ session'.then = then /\ session'.pc \in {then, "closing"}
      /\ session'.has_changed = TRUE /\ session'.bulk = s.bulk
      /\ session'.pc = (IF s.bulk THEN then ELSE "closing")
      /\ session'.levels = s.levels /\ session'.tranlog_offset = s.tranlog_offset
  BY DEF Closing, Fields
<1>3. SessionInv'
  BY <1>1, <1>2 DEF SessionInv, Fields
<1>4. Flags(session') /\ Down' = FALSE
  BY <1>2 DEF Flags, Down
<1>5. Trans(session') => s.levels # <<>>
  BY <1>2 DEF Trans
<1> QED BY <1>2, <1>3, <1>4, <1>5

LEMMA OpCloses ==
  ASSUME SessionInv, NEW op, LogOp(op)
  PROVE  /\ SessionInv' /\ Flags(session') /\ session'.has_changed = TRUE /\ Down' = FALSE
         /\ session'.tranlog_offset = session.tranlog_offset
<1> DEFINE s == [session EXCEPT !.ops = Append(@, op), !.levels[Depth].op_count = @ + 1]
<1>1. DOMAIN s = DOMAIN session /\ s.tranlog_offset = session.tranlog_offset
  OBVIOUS
<1>2. session' = Closing(s, "idle")
  BY DEF LogOp
<1> HIDE DEF s
<1> QED BY <1>1, <1>2, ClosingWorks DEF SessionInv, Fields

LEMMA LogCloses ==
  ASSUME SessionInv, NEW then \in {"idle", "writing"}, NEW x \in Nat,
         session' = Closing([session EXCEPT !.tranlog_offset = x], then)
  PROVE  /\ SessionInv' /\ Flags(session') /\ session'.has_changed = TRUE /\ Down' = FALSE
         /\ session'.tranlog_offset = x
         /\ Trans(session') => session.levels # <<>>
<1> DEFINE s == [session EXCEPT !.tranlog_offset = x]
<1>1. DOMAIN s = DOMAIN session /\ s.tranlog_offset = x /\ s.levels = session.levels
  BY DEF SessionInv
<1> HIDE DEF s
<1> QED BY <1>1, ClosingWorks DEF SessionInv, Fields, s

LEMMA NewAdds ==
  ASSUME NEW tx, NEW x, NEW c,
         log' = WithEntry([NewEntry(tx) EXCEPT !.items = x, !.committed = c]) \/ log' = WithEntry(NewEntry(tx)),
         EntryAdded
  PROVE  Adds
<1>1. /\ "next" \in DOMAIN NewEntry(tx)
      /\ "next" \in DOMAIN [NewEntry(tx) EXCEPT !.items = x, !.committed = c]
  BY DEF NewEntry
<1> QED BY <1>1 DEF Adds

(* What an entry with a plain write or destroy makes of the header. *)
LEMMA Stamped ==
  ASSUME RepairInv, NEW m, Known(m, TRUE), NEW i, NEW t, NEW tx,
         mem' = [m EXCEPT !.index = i, !.hdr.total_size = t,
                          !.hdr.tranlog_offset = IF @ = 0 THEN info.append ELSE @,
                          !.hdr.transaction_id = tx]
  PROVE  Known(mem', TRUE)
<1>1. Shape(m) /\ m.hdr.tranlog_offset = Good /\ Good # 0
  BY InfoFacts DEF Known
<1>2. Shape(mem') /\ mem'.hdr.tranlog_offset = m.hdr.tranlog_offset
      /\ mem'.hdr.num_trans = m.hdr.num_trans /\ mem'.hdr.num_writers = m.hdr.num_writers
  BY <1>1 DEF Shape
<1> QED BY <1>2 DEF Known

LEMMA StoreKeeps ==
  ASSUME RepairInv, Idle, NEW m, Known(m, session.has_changed), NEW n, NEW e,
         NEW isNew \in BOOLEAN, NEW link, NEW size, NEW val,
         Store(m, n, e, isNew, link, size, val)
  PROVE  RepairInv'
<1>1. ~Down /\ session.has_changed \in BOOLEAN /\ mem.hdr.num_trans \in Nat
  BY MemKnown DEF Down, Idle
<1>2. Known(Changed(m), TRUE)
  BY <1>1, ChangedKnown
<1>3. disk' = disk /\ Shape(disk)
  BY DEF Store, RepairInv
<1>4. CASE TxStore(m, n, e, isNew, link, size, val)
  <2>1. InTx /\ info' = info /\ Trans(session)
    BY <1>4 DEF TxStore, InTx, Trans
  <2>2. /\ SessionInv' /\ Flags(session') /\ session'.has_changed = TRUE /\ Down' = FALSE
        /\ session'.tranlog_offset = session.tranlog_offset
    BY <1>4, OpCloses DEF TxStore, RepairInv
  <2>3. LinksStay
    <3>1. \/ log' = WithItem(CreateItem(n, link)) \/ log' = WithItem(PreItem("update", n, e))
          \/ log' = log
      BY <1>4 DEF TxStore
    <3> QED BY <3>1, ItemWritten, LogSame DEF RepairInv
  <2>4. Known(mem', TRUE)
    <3>1. \E x : mem' = [Changed(m) EXCEPT !.index[n] = x]
      BY <1>4 DEF TxStore
    <3>2. PICK x : mem' = [Changed(m) EXCEPT !.index[n] = x]
      BY <3>1
    <3> DEFINE c == Changed(m)
    <3>3. SameCounts(c, mem')
      <4> HIDE DEF c
      <4>1. mem' = [c EXCEPT !.index[n] = x]
        BY <3>2 DEF c
      <4> QED BY <4>1 DEF SameCounts, Shape
    <3> QED BY <1>2, <3>3, EditKnown
  <2> QED BY <1>1, <1>3, <2>1, <2>2, <2>3, <2>4, StepKeeps
<1>5. CASE PlainStore(m, n, e, isNew, link, size, val)
  <2>1. ~InTx /\ session.levels = <<>>
    BY <1>5 DEF PlainStore, InTx
  <2>2. /\ SessionInv' /\ Flags(session') /\ session'.has_changed = TRUE /\ Down' = FALSE
        /\ session'.tranlog_offset = info.append
        /\ Trans(session') => session.levels # <<>>
    BY <1>5, LogCloses, InfoFacts DEF PlainStore, RepairInv
  <2>3. Adds
    BY <1>5, NewAdds DEF PlainStore
  <2>4. Known(mem', TRUE)
    <3> DEFINE c == Changed(m)
    <3>1. \E x, t, tx : mem' = [c EXCEPT !.index[n] = x, !.hdr.total_size = t,
                          !.hdr.tranlog_offset = IF @ = 0 THEN info.append ELSE @,
                          !.hdr.transaction_id = tx]
      BY <1>5 DEF PlainStore
    <3> HIDE DEF c
    <3>2. \E i, t, tx : mem' = [c EXCEPT !.index = i, !.hdr.total_size = t,
                          !.hdr.tranlog_offset = IF @ = 0 THEN info.append ELSE @,
                          !.hdr.transaction_id = tx]
      BY <3>1
    <3>3. Known(c, TRUE)
      BY <1>2 DEF c
    <3> QED BY <3>2, <3>3, Stamped
  <2>5. /\ Shape(mem') /\ mem'.hdr.tranlog_offset = Good
        /\ mem'.hdr.num_trans \in Nat /\ mem'.hdr.num_writers = 1
    BY <1>1, <2>4 DEF Known
  <2> QED BY <1>1, <1>3, <2>1, <2>2, <2>3, <2>5, AddKeeps
<1> QED BY <1>4, <1>5 DEF Store

LEMMA DestroyKeeps ==
  ASSUME RepairInv, NEW n, Destroy(n)
  PROVE  RepairInv'
<1>1. Idle /\ disk' = disk /\ Shape(disk)
  BY DEF Destroy, RepairInv
<1>2. ~Down /\ session.has_changed \in BOOLEAN /\ mem.hdr.num_trans \in Nat
  BY <1>1, MemKnown DEF Down, Idle
<1>3. Known(Changed(Opened), TRUE)
  BY <1>1, <1>2, OpenedKnown, ChangedKnown DEF Idle
<1> DEFINE c == Changed(Opened)
<1>4. CASE DestroyInTx(n)
  <2>1. InTx /\ info' = info /\ Trans(session)
    BY <1>4 DEF DestroyInTx, InTx, Trans
  <2>2. /\ SessionInv' /\ Flags(session') /\ session'.has_changed = TRUE /\ Down' = FALSE
        /\ session'.tranlog_offset = session.tranlog_offset
    BY <1>4, OpCloses DEF DestroyInTx, RepairInv
  <2>3. LinksStay
    BY <1>4, ItemWritten, LogSame DEF DestroyInTx, RepairInv
  <2>4. Known(mem', TRUE)
    <3>1. \E x : mem' = [c EXCEPT !.index[n] = x]
      BY <1>4 DEF DestroyInTx
    <3> HIDE DEF c
    <3>2. SameCounts(c, mem')
      BY <3>1 DEF SameCounts, Shape
    <3> QED BY <1>3, <3>2, EditKnown DEF c
  <2> QED BY <1>1, <1>2, <2>1, <2>2, <2>3, <2>4, StepKeeps
<1>5. CASE DestroyPlain(n)
  <2>1. session.levels = <<>>
    BY <1>5 DEF DestroyPlain, InTx
  <2>2. /\ SessionInv' /\ Flags(session') /\ session'.has_changed = TRUE /\ Down' = FALSE
        /\ session'.tranlog_offset = info.append
        /\ Trans(session') => session.levels # <<>>
    BY <1>5, LogCloses, InfoFacts DEF DestroyPlain, RepairInv
  <2>3. Adds
    BY <1>5, NewAdds DEF DestroyPlain
  <2>4. Known(mem', TRUE)
    <3> DEFINE m == Freed(c, n)
    <3>1. \E x, t, tx : mem' = [m EXCEPT !.index[n].tran_id = x, !.hdr.total_size = t,
                          !.hdr.tranlog_offset = IF @ = 0 THEN info.append ELSE @,
                          !.hdr.transaction_id = tx]
      BY <1>5 DEF DestroyPlain
    <3>2. Known(m, TRUE)
      <4>1. Known(c, TRUE)
        BY <1>3
      <4> HIDE DEF c
      <4>2. SameCounts(c, m)
        BY FreedSame
      <4> HIDE DEF m
      <4> QED BY <4>1, <4>2, EditKnown
    <3> HIDE DEF m
    <3>3. PICK x, t, tx : mem' = [m EXCEPT !.index[n].tran_id = x, !.hdr.total_size = t,
                          !.hdr.tranlog_offset = IF @ = 0 THEN info.append ELSE @,
                          !.hdr.transaction_id = tx]
      BY <3>1
    <3> DEFINE i == [m.index EXCEPT ![n].tran_id = x]
    <3>4. mem' = [m EXCEPT !.index = i, !.hdr.total_size = t,
                          !.hdr.tranlog_offset = IF @ = 0 THEN info.append ELSE @,
                          !.hdr.transaction_id = tx]
      BY <3>3
    <3> HIDE DEF c, i
    <3> QED BY <3>2, <3>4, Stamped
  <2>5. /\ Shape(mem') /\ mem'.hdr.tranlog_offset = Good
        /\ mem'.hdr.num_trans \in Nat /\ mem'.hdr.num_writers = 1
    BY <1>2, <2>4 DEF Known
  <2> QED BY <1>1, <1>2, <2>1, <2>2, <2>3, <2>5, AddKeeps
<1> QED BY <1>4, <1>5 DEF Destroy

LEMMA CallsKeep ==
  ASSUME RepairInv,
         \/ \E size \in Size, val \in Value :
              Create(size, val) \/ Revive(size, val) \/ \E n \in Num : Update(n, size, val)
         \/ \E n \in Num : Destroy(n)
  PROVE  RepairInv'
<1> DEFINE o == Opened
<1>1. ASSUME Idle, NEW x, SameCounts(o, x) PROVE Known(x, session.has_changed)
  <2>1. Known(o, session.has_changed)
    BY <1>1, OpenedKnown DEF Idle
  <2> HIDE DEF o
  <2> QED BY <1>1, <2>1, EditKnown
<1>2. ASSUME NEW size, NEW val, Create(size, val) PROVE RepairInv'
  <2> DEFINE x == [o EXCEPT !.hdr.total_entries = @ + 1]
  <2>1. Idle /\ Store(x, o.hdr.total_entries, Blank, TRUE, 0, size, val)
    BY <1>2 DEF Create
  <2>2. SameCounts(o, x)
    <3> HIDE DEF o
    <3> QED BY DEF SameCounts, Shape
  <2>3. Known(x, session.has_changed)
    BY <1>1, <2>1, <2>2
  <2> HIDE DEF o, x
  <2> QED BY <2>1, <2>3, StoreKeeps
<1>3. ASSUME NEW size, NEW val, Revive(size, val) PROVE RepairInv'
  <2> DEFINE n == o.hdr.free_list - 1
             e == mem.index[n]
             x == [o EXCEPT !.hdr.free_list = e.pos]
             y == [e EXCEPT !.trans = "none", !.pos = 0]
  <2>1. Idle /\ Store(x, n, y, TRUE, e.pos, size, val)
    BY <1>3 DEF Revive
  <2>2. SameCounts(o, x)
    <3> HIDE DEF o, e
    <3> QED BY DEF SameCounts, Shape
  <2>3. Known(x, session.has_changed)
    BY <1>1, <2>1, <2>2
  <2> HIDE DEF o, x, n, e, y
  <2> QED BY <2>1, <2>3, StoreKeeps
<1>4. ASSUME NEW size, NEW val, NEW n, Update(n, size, val) PROVE RepairInv'
  <2>1. Idle /\ Store(o, n, mem.index[n], FALSE, 0, size, val)
    BY <1>4 DEF Update
  <2>2. Known(o, session.has_changed)
    BY <2>1, OpenedKnown DEF Idle
  <2> HIDE DEF o
  <2> QED BY <2>1, <2>2, StoreKeeps
<1> QED BY <1>2, <1>3, <1>4, DestroyKeeps

(* A step that writes neither file nor header and keeps working. *)
LEMMA QuietKeeps ==
  ASSUME RepairInv, ~Down, LinksStay, info' = info, disk' = disk,
         mem' = mem \/ (session.pc \in {"idle", "writing"} /\ mem' = Opened),
         DOMAIN session' = DOMAIN session, session'.then \in {"idle", "writing"},
         session'.pc \notin {"down", "restoring", "restored", "starting"},
         session'.has_changed = session.has_changed,
         session'.tranlog_offset = session.tranlog_offset,
         session'.pc \in {"idle", "writing"} /\ ~session'.bulk => ~session'.has_changed,
         Trans(session') => Trans(session)
  PROVE  RepairInv'
<1>1. SessionInv'
  BY DEF RepairInv, SessionInv
<1>2. Known(mem', session.has_changed)
  BY MemKnown, OpenedKnown DEF Known
<1>3. Flags(session') /\ Down' = FALSE
  BY DEF Flags, Down
<1>4. disk'.hdr = disk.hdr /\ Shape(disk')
  BY DEF RepairInv
<1> QED BY <1>1, <1>2, <1>3, <1>4, StepKeeps

LEMMA SessionFacts ==
  ASSUME RepairInv
  PROVE  /\ SessionInv /\ LogInv /\ Shape(disk)
         /\ ~Down => Flags(session)
BY DEF RepairInv, HeaderInv

LEMMA LevelsKeep ==
  ASSUME RepairInv, TransactionStart \/ NestedStart \/ NestedCommit \/ CommitBegin \/ RollbackBegin
  PROVE  RepairInv'
<1>0. SessionInv /\ LogInv /\ Shape(disk) /\ (~Down => Flags(session))
  BY SessionFacts
<1>1. CASE TransactionStart
  <2> DEFINE tx == Opened.hdr.transaction_id
             c == Changed(Opened)
  <2>1. /\ session' = [session EXCEPT !.pc = "starting", !.tran_id = tx,
                        !.tranlog_offset = info.append, !.has_changed = TRUE,
                        !.levels = <<[op_count |-> 0, op_offset |-> 0]>>]
        /\ session.pc = "idle" /\ disk' = disk
        /\ mem' = [c EXCEPT !.hdr.transaction_id = tx + 1,
                            !.hdr.tranlog_offset = IF @ = 0 THEN info.append ELSE @,
                            !.hdr.num_trans = @ + 1]
    BY <1>1 DEF TransactionStart, Idle
  <2>2. Adds
    BY <1>1, NewAdds DEF TransactionStart
  <2>3. ~Down /\ session.has_changed \in BOOLEAN /\ mem.hdr.num_trans \in Nat
    BY <2>1, MemKnown DEF Down
  <2>4. Known(c, TRUE)
    BY <2>1, <2>3, OpenedKnown, ChangedKnown
  <2> HIDE DEF c, tx
  <2>5. Good # 0
    BY InfoFacts
  <2>6. /\ Shape(mem') /\ mem'.hdr.tranlog_offset = c.hdr.tranlog_offset
        /\ mem'.hdr.num_writers = c.hdr.num_writers
        /\ mem'.hdr.num_trans = c.hdr.num_trans + 1
    BY <2>1, <2>4, <2>5 DEF Known, Shape
  <2>7. /\ mem'.hdr.tranlog_offset = Good /\ mem'.hdr.num_writers = 1
        /\ mem'.hdr.num_trans \in Nat /\ mem'.hdr.num_trans # 0
    BY <2>3, <2>4, <2>6 DEF Known
  <2>8. /\ SessionInv' /\ Flags(session') /\ Down' = FALSE /\ session'.has_changed = TRUE
        /\ session'.tranlog_offset = info.append
    BY <1>0, <2>1, InfoFacts DEF SessionInv, Flags, Down
  <2> QED BY <2>1, <2>2, <2>3, <2>6, <2>7, <2>8, AddKeeps
<1>2. CASE NestedStart
  <2>1. LinksStay /\ info' = info /\ mem' = mem /\ disk' = disk
    BY <1>0, <1>2, ItemWritten DEF NestedStart
  <2>2. session.pc = "idle" /\ session.levels # <<>>
    BY <1>2 DEF NestedStart, Idle, InTx
  <2>3. PICK l : session' = [session EXCEPT !.levels = l]
    BY <1>2 DEF NestedStart
  <2> QED BY <1>0, <2>1, <2>2, <2>3, QuietKeeps DEF SessionInv, Down, Flags, Trans
<1>3. CASE NestedCommit
  <2>1. LinksStay /\ info' = info /\ mem' = mem /\ disk' = disk
    BY <1>0, <1>3, ItemWritten DEF NestedCommit
  <2>0. session.pc = "idle" /\ Len(session.levels) > 1
    BY <1>3 DEF NestedCommit, Idle, Depth
  <2>2. session.pc = "idle" /\ session.levels # <<>>
    BY <2>0, EmptySeq
  <2>3. PICK l : session' = [session EXCEPT !.levels = l]
    BY <1>3 DEF NestedCommit
  <2> QED BY <1>0, <2>1, <2>2, <2>3, QuietKeeps DEF SessionInv, Down, Flags, Trans
<1>4. CASE CommitBegin
  <2>1. LinksStay /\ info' = info /\ disk' = disk
    BY <1>0, <1>4, LogSame DEF CommitBegin
  <2>2. session.pc = "idle" /\ session.levels # <<>> /\ mem' = Opened
    BY <1>4 DEF CommitBegin, Idle, Depth
  <2>3. session' = [session EXCEPT !.pc = "committing"]
    BY <1>4 DEF CommitBegin
  <2> QED BY <1>0, <2>1, <2>2, <2>3, QuietKeeps DEF SessionInv, Down, Trans
<1>5. CASE RollbackBegin
  <2>1. LinksStay /\ info' = info /\ disk' = disk
    BY <1>0, <1>5, LogSame, ItemWritten DEF RollbackBegin
  <2>2. session.pc = "idle" /\ session.levels # <<>> /\ mem' = Opened
    BY <1>5 DEF RollbackBegin, Idle, InTx
  <2>3. session' = [session EXCEPT !.pc = "rolling back"]
    BY <1>5 DEF RollbackBegin
  <2> QED BY <1>0, <2>1, <2>2, <2>3, QuietKeeps DEF SessionInv, Down, Trans
<1> QED BY <1>1, <1>2, <1>3, <1>4, <1>5

(* The session changes something: what the step does to the header m counts   *)
(* it as a writer, if it does not yet.                                        *)
LEMMA ChangeKeeps ==
  ASSUME RepairInv, ~Down, LinksStay, info' = info, disk' = disk,
         \/ mem' = mem /\ session'.has_changed = session.has_changed
         \/ Known(mem', TRUE) /\ session'.has_changed = TRUE,
         DOMAIN session' = DOMAIN session, session'.then = session.then,
         session'.pc = session.pc, session.pc \notin {"idle", "writing", "starting"},
         session'.levels = session.levels, session'.tranlog_offset = session.tranlog_offset
  PROVE  RepairInv'
<1>1. SessionInv /\ Shape(disk)
  BY DEF RepairInv
<1>2. SessionInv' /\ (session.has_changed => session'.has_changed)
  BY <1>1 DEF SessionInv
<1>3. Known(mem', session'.has_changed)
  BY MemKnown DEF Known
<1>4. session'.pc \notin {"idle", "writing", "starting"}
  OBVIOUS
<1>5. Flags(session')
  BY <1>4 DEF Flags
<1>6. Down' = FALSE
  BY DEF Down
<1>7. Trans(session') => Trans(session)
  BY Zenon DEF Trans
<1> QED BY <1>1, <1>2, <1>3, <1>5, <1>6, <1>7, StepKeeps

LEMMA CommitKeeps ==
  ASSUME RepairInv, CommitOp
  PROVE  RepairInv'
<1>1. /\ session.pc = "committing" /\ info' = info /\ disk' = disk
      /\ session' = [session EXCEPT !.has_changed = @ \/ mem' # mem]
  BY DEF CommitOp
<1>2. PICK op : CommitDelete(op.id) \/ CommitChange(op) \/ CommitSkip(op.id)
  BY DEF CommitOp
<1>3. ~Down
  BY <1>1 DEF Down
<1>4. /\ Known(mem, session.has_changed) /\ session.has_changed \in BOOLEAN
      /\ SessionInv /\ LogInv
  BY <1>3, MemKnown DEF RepairInv
<1> DEFINE c == Changed(mem)
<1>5. Known(c, TRUE)
  BY <1>4, ChangedKnown
<1>6. LinksStay
  <2>1. log' = log \/ \E item : log' = WithItem(item)
    BY <1>2 DEF CommitDelete, CommitChange, CommitSkip
  <2> QED BY <1>4, <2>1, LogSame, ItemWritten
<1>7. mem' = mem \/ Known(mem', TRUE)
  <2>1. CASE CommitDelete(op.id)
    <3> DEFINE m == Freed(c, op.id)
    <3>1. PICK t : mem' = [m EXCEPT !.hdr.total_size = @ - t]
      BY <2>1 DEF CommitDelete
    <3>2. SameCounts(c, m)
      <4> HIDE DEF c
      <4> QED BY FreedSame
    <3>3. Known(m, TRUE)
      <4> HIDE DEF c, m
      <4> QED BY <1>5, <3>2, EditKnown
    <3>4. SameCounts(m, mem')
      <4> HIDE DEF m
      <4> QED BY <3>1 DEF SameCounts, Shape
    <3> HIDE DEF m
    <3> QED BY <3>3, <3>4, EditKnown
  <2>2. CASE CommitChange(op)
    <3>1. \E d, x, t : mem' = [c EXCEPT !.data = d, !.index[op.id] = x, !.hdr.total_size = t]
      BY <2>2 DEF CommitChange
    <3>2. SameCounts(c, mem')
      <4> HIDE DEF c
      <4> QED BY <3>1 DEF SameCounts, Shape
    <3> HIDE DEF c
    <3> QED BY <1>5, <3>2, EditKnown
  <2>3. CASE CommitSkip(op.id)
    BY <2>3 DEF CommitSkip
  <2> QED BY <1>2, <2>1, <2>2, <2>3
<1>8. /\ DOMAIN session' = DOMAIN session /\ session'.then = session.then
      /\ session'.pc = session.pc /\ session'.levels = session.levels
      /\ session'.tranlog_offset = session.tranlog_offset
      /\ session'.has_changed = (session.has_changed \/ mem' # mem)
  BY <1>1, <1>4 DEF SessionInv
<1>9. \/ mem' = mem /\ session'.has_changed = session.has_changed
      \/ Known(mem', TRUE) /\ session'.has_changed = TRUE
  BY <1>4, <1>7, <1>8
<1>10. session.pc \notin {"idle", "writing", "starting"}
  BY <1>1
<1> QED BY <1>1, <1>3, <1>6, <1>8, <1>9, <1>10, ChangeKeeps

LEMMA RollbackKeeps ==
  ASSUME RepairInv, RollbackOp
  PROVE  RepairInv'
<1>1. /\ session.pc = "rolling back" /\ info' = info /\ disk' = disk /\ log' = log
  BY DEF RollbackOp
<1>3. ~Down
  BY <1>1 DEF Down
<1>4. /\ Known(mem, session.has_changed) /\ session.has_changed \in BOOLEAN
      /\ SessionInv /\ LogInv
  BY <1>3, MemKnown DEF RepairInv
<1>6. LinksStay
  BY <1>1, <1>4, LogSame
<1>7. \/ mem' = mem /\ session' = session
      \/ Known(mem', TRUE) /\ session' = [session EXCEPT !.has_changed = TRUE]
  <2> DEFINE id == session.ops[work.offset + work.cursor].id
             f == Freed(mem, id)
  <2>1. \/ mem' = mem /\ session' = session
        \/ /\ session' = [session EXCEPT !.has_changed = TRUE]
           /\ \E t, m, x : /\ m = mem \/ m = [f EXCEPT !.hdr.total_size = t]
                           /\ mem' = [Changed(m) EXCEPT !.index[id] = x]
    <3> DEFINE op == session.ops[work.offset + work.cursor]
               e  == mem.index[op.id]
               created == op.old_tran_op = 0 /\ op.old_tran_id = -1
               t  == IF AtTail(mem, e) THEN f.hdr.total_size - e.size ELSE f.hdr.total_size
               m  == IF ~created THEN mem ELSE [f EXCEPT !.hdr.total_size = t]
    <3>1. m = mem \/ m = [f EXCEPT !.hdr.total_size = t]
      OBVIOUS
    <3>2. \/ mem' = mem /\ session' = session
          \/ /\ session' = [session EXCEPT !.has_changed = TRUE]
             /\ \E x : mem' = [Changed(m) EXCEPT !.index[id] = x]
      BY Zenon DEF RollbackOp
    <3> HIDE DEF t, m, f, id
    <3> QED BY <3>1, <3>2
  <2>2. ASSUME NEW m, NEW t, m = mem \/ m = [f EXCEPT !.hdr.total_size = t]
        PROVE  Known(m, session.has_changed)
    <3>1. SameCounts(mem, f)
      BY FreedSame
    <3>2. SameCounts(f, [f EXCEPT !.hdr.total_size = t])
      <4> HIDE DEF f
      <4> QED BY DEF SameCounts, Shape
    <3>3. CASE m = mem
      BY <1>4, <3>3
    <3>4. CASE m = [f EXCEPT !.hdr.total_size = t]
      <4>1. Known(f, session.has_changed)
        <5> HIDE DEF f
        <5> QED BY <1>4, <3>1, EditKnown
      <4>2. SameCounts(f, m)
        BY <3>2, <3>4
      <4> HIDE DEF f
      <4> QED BY <4>1, <4>2, EditKnown
    <3> QED BY <2>2, <3>3, <3>4
  <2>3. ASSUME NEW m, Known(m, session.has_changed), NEW x,
               mem' = [Changed(m) EXCEPT !.index[id] = x]
        PROVE  Known(mem', TRUE)
    <3> DEFINE c == Changed(m)
    <3>1. Known(c, TRUE)
      BY <1>4, <2>3, ChangedKnown
    <3>2. SameCounts(c, mem')
      <4>1. mem' = [c EXCEPT !.index[id] = x]
        BY <2>3
      <4> HIDE DEF c, id
      <4> QED BY <4>1 DEF SameCounts, Shape
    <3> HIDE DEF c
    <3> QED BY <3>1, <3>2, EditKnown
  <2> HIDE DEF f, id
  <2> QED BY <2>1, <2>2, <2>3
<1>8. /\ DOMAIN session' = DOMAIN session /\ session'.then = session.then
      /\ session'.pc = session.pc /\ session'.levels = session.levels
      /\ session'.tranlog_offset = session.tranlog_offset
  BY <1>7, <1>4 DEF SessionInv
<1>9. \/ mem' = mem /\ session'.has_changed = session.has_changed
      \/ Known(mem', TRUE) /\ session'.has_changed = TRUE
  BY <1>4, <1>7 DEF SessionInv
<1>10. session.pc \notin {"idle", "writing", "starting"}
  BY <1>1
<1> QED BY <1>1, <1>3, <1>6, <1>8, <1>9, <1>10, ChangeKeeps

LEMMA EndsKeep ==
  ASSUME RepairInv, LogCommit \/ RollbackEnd
  PROVE  RepairInv'
<1>0. SessionInv /\ LogInv
  BY DEF RepairInv
<1>1. CASE LogCommit
  <2>1. /\ session.pc = "committing" /\ session' = [session EXCEPT !.pc = "completing"]
        /\ mem' = mem /\ disk' = disk /\ info' = info
    BY <1>1 DEF LogCommit
  <2>2. log' = log \/ log' = [log EXCEPT ![session.tranlog_offset] = [@ EXCEPT !["committed"] = TRUE]]
    BY <1>1 DEF LogCommit
  <2>3. LinksStay
    BY <1>0, <2>2, LogSame, PartWritten DEF Completes
  <2> QED BY <1>0, <2>1, <2>3, QuietKeeps DEF SessionInv, Down, Trans
<1>2. CASE RollbackEnd
  <2>1. /\ session.pc = "rolling back" /\ mem' = mem /\ disk' = disk /\ info' = info
        /\ log' = log
    BY <1>2 DEF RollbackEnd
  <2>2. LinksStay
    BY <1>0, <2>1, LogSame
  <2> DEFINE s == [session EXCEPT !.ops = SubSeq(@, 1, work.offset)]
  <2>3. /\ DOMAIN s = DOMAIN session /\ s.then = session.then /\ s.bulk = session.bulk
        /\ s.has_changed = session.has_changed /\ s.tranlog_offset = session.tranlog_offset
    BY <1>0 DEF SessionInv
  <2>4. \/ session' = [s EXCEPT !.pc = "completing"]
        \/ session' = [s EXCEPT !.levels = Front(@), !.then = "idle",
                                 !.pc = IF s.bulk THEN "idle" ELSE "closing"]
    BY <1>2 DEF RollbackEnd
  <2> HIDE DEF s
  <2>5. /\ DOMAIN session' = DOMAIN session /\ session'.then \in {"idle", "writing"}
        /\ session'.pc \in {"completing", "idle", "closing"}
        /\ session'.pc = "idle" => session'.bulk
        /\ session'.has_changed = session.has_changed
        /\ session'.tranlog_offset = session.tranlog_offset
    BY <1>0, <2>3, <2>4 DEF SessionInv
  <2> QED BY <2>1, <2>2, <2>5, QuietKeeps DEF Down, Trans
<1> QED BY <1>1, <1>2

LEMMA CompletedKeeps ==
  ASSUME RepairInv, CompletedHeader
  PROVE  RepairInv'
<1> DEFINE c == Changed(mem)
           s == [session EXCEPT !.levels = <<>>, !.ops = <<>>]
<1>1. /\ session.pc = "completing" /\ info' = info /\ log' = log
      /\ mem' = [c EXCEPT !.hdr.num_trans = @ - 1]
      /\ disk' = [disk EXCEPT !.hdr = [c EXCEPT !.hdr.num_trans = @ - 1].hdr]
      /\ session' = Closing(s, "idle")
  BY DEF CompletedHeader
<1>2. ~Down /\ Trans(session)
  BY <1>1 DEF Down, Trans
<1>3. /\ Known(mem, session.has_changed) /\ session.has_changed \in BOOLEAN
      /\ mem.hdr.num_trans \in Nat
      /\ SessionInv /\ LogInv /\ Shape(disk)
  BY <1>2, MemKnown DEF RepairInv
<1>4. /\ mem.hdr.num_trans # 0 /\ info.entry > Good
      /\ info.append = info.entry + 1 \/ info.entry <= Good
      /\ session.tranlog_offset <= info.entry
  BY <1>2 DEF RepairInv, HeaderInv, Accounted
<1>5. Known(c, TRUE)
  BY <1>3, ChangedKnown
<1>6. /\ DOMAIN s = DOMAIN session /\ s.tranlog_offset = session.tranlog_offset
      /\ s.levels = <<>>
  BY <1>3 DEF SessionInv
<1> HIDE DEF c, s
<1>7. /\ SessionInv' /\ Flags(session') /\ session'.has_changed = TRUE /\ Down' = FALSE
      /\ session'.tranlog_offset = session.tranlog_offset /\ ~Trans(session')
  BY <1>1, <1>3, <1>6, ClosingWorks DEF SessionInv, Fields
<1>8. Shape(mem') /\ disk'.hdr = mem'.hdr /\ Shape(disk')
  BY <1>1, <1>3, <1>5 DEF Known, Shape
<1>9. /\ mem'.hdr.tranlog_offset = Good /\ mem'.hdr.num_writers = 1
      /\ mem'.hdr.num_trans \in Nat
  BY <1>1, <1>3, <1>4, <1>5 DEF Known, Shape
<1>10. Good' = Good
  BY <1>8, <1>9 DEF Good
<1>11. LinksStay
  BY <1>1, <1>3, LogSame
<1>12. DirtyInv'
  BY <1>1, <1>4, <1>10, InfoFacts DEF DirtyInv
<1>13. HeaderInv'
  BY <1>1, <1>4, <1>7, <1>8, <1>9, <1>10 DEF HeaderInv, Accounted
<1>14. Good' \in Nat /\ Good <= Good' /\ Good' < info.append
  BY <1>10, InfoFacts
<1> QED BY <1>1, <1>7, <1>8, <1>11, <1>12, <1>13, <1>14, WorkKeeps

LEMMA StartKeeps ==
  ASSUME RepairInv, StartHeader
  PROVE  RepairInv'
<1>1. /\ session.pc = "starting" /\ info' = info /\ log' = log /\ mem' = mem
      /\ disk' = [disk EXCEPT !.hdr = mem.hdr]
      /\ session' = Closing(session, "idle")
  BY DEF StartHeader
<1>2. ~Down /\ Trans(session)
  BY <1>1 DEF Down, Trans
<1>3. /\ Accounted(mem, session) /\ Flags(session)
      /\ info.append = info.entry + 1 \/ info.entry <= Good
      /\ session.tranlog_offset <= info.entry
      /\ SessionInv /\ LogInv /\ Shape(disk)
  BY <1>2 DEF RepairInv, HeaderInv
<1>4. session.has_changed = TRUE /\ mem.hdr.num_writers = 1
  BY <1>1, <1>3 DEF Flags, Accounted, SessionInv
<1>5. mem.hdr.num_trans # 0 /\ info.entry > Good
  BY <1>2, <1>3 DEF Accounted
<1>6. /\ SessionInv' /\ Flags(session') /\ session'.has_changed = TRUE /\ Down' = FALSE
      /\ session'.tranlog_offset = session.tranlog_offset
  BY <1>1, <1>3, ClosingWorks DEF SessionInv, Fields
<1>7. disk'.hdr = mem.hdr /\ Shape(disk') /\ Good' = Good
  BY <1>1, <1>3 DEF Accounted, Shape, Good
<1>8. LinksStay
  BY <1>1, <1>3, LogSame
<1>9. DirtyInv'
  BY <1>1, <1>5, <1>7, InfoFacts DEF DirtyInv
<1>10. HeaderInv'
  BY <1>1, <1>3, <1>4, <1>5, <1>6, <1>7 DEF HeaderInv, Accounted
<1>11. Good' \in Nat /\ Good <= Good' /\ Good' < info.append
  BY <1>7, InfoFacts
<1> QED BY <1>1, <1>6, <1>7, <1>8, <1>9, <1>10, <1>11, WorkKeeps

(* The header that a close writes: the good point is at the end of the last   *)
(* transaction, if none is open, and the session is no writer any more.       *)
LEMMA CloseKeeps ==
  ASSUME RepairInv, Close
  PROVE  RepairInv'
<1> DEFINE h == [GoodPoint(mem.hdr) EXCEPT !.num_writers = @ - 1]
<1>1. /\ session.pc = "closing" /\ info' = info /\ log' = log
      /\ IF session.has_changed
         THEN mem' = [mem EXCEPT !.hdr = h] /\ disk' = [disk EXCEPT !.hdr = h]
         ELSE mem' = mem /\ disk' = disk
      /\ session' = [session EXCEPT !.pc = session.then, !.has_changed = FALSE]
  BY DEF Close
<1>2. ~Down
  BY <1>1 DEF Down
<1>3. /\ Accounted(mem, session)
      /\ info.append = info.entry + 1 \/ info.entry <= Good
      /\ session.tranlog_offset <= info.entry
      /\ SessionInv /\ LogInv /\ Shape(disk)
  BY <1>2 DEF RepairInv, HeaderInv
<1>4. /\ DOMAIN session' = DOMAIN session /\ session'.then = session.then
      /\ session'.pc \in {"idle", "writing"} /\ session'.has_changed = FALSE
      /\ session'.levels = session.levels /\ session'.tranlog_offset = session.tranlog_offset
      /\ SessionInv'
  BY <1>1, <1>3 DEF SessionInv
<1>41. Flags(session') /\ Down' = FALSE
  BY <1>4 DEF Flags, Down
<1>42. session'.pc \notin {"starting", "committing", "rolling back", "completing"}
  BY <1>4
<1>5. Flags(session') /\ Down' = FALSE /\ (Trans(session') => Trans(session))
  BY <1>4, <1>41, <1>42, Zenon DEF Trans
<1>6. LinksStay
  BY <1>1, <1>3, LogSame
<1>7. /\ Good \in Nat /\ info.entry \in Nat /\ info.append \in Nat /\ Good < info.append
      /\ info.entry < info.append /\ session.tranlog_offset \in Nat
  BY <1>3, InfoFacts DEF SessionInv
<1>8. CASE ~session.has_changed
  <2>1. mem' = mem /\ disk' = disk
    BY <1>1, <1>8
  <2>2. Known(mem', session'.has_changed)
    BY <1>2, <1>4, <1>8, <2>1, MemKnown DEF Known
  <2> QED BY <1>1, <1>2, <1>3, <1>4, <1>5, <1>6, <1>8, <2>1, <2>2, StepKeeps
<1>9. CASE session.has_changed
  <2> DEFINE ahead == /\ session.tranlog_offset > Good /\ mem.hdr.num_trans = 0
                      /\ mem.hdr.num_writers = 1
  <2>1. /\ Shape(mem) /\ mem.hdr.tranlog_offset = Good /\ mem.hdr.num_writers = 1
        /\ mem.hdr.num_trans \in Nat
        /\ Trans(session) => mem.hdr.num_trans # 0
        /\ mem.hdr.num_trans # 0 => info.entry > Good
    BY <1>3, <1>9 DEF Accounted
  <2>2. /\ {"tranlog_offset", "num_trans", "num_writers"} \subseteq DOMAIN h
        /\ h.num_writers = 0 /\ h.num_trans = mem.hdr.num_trans
        /\ h.tranlog_offset = IF ahead THEN session.tranlog_offset ELSE Good
    BY <2>1 DEF GoodPoint, Shape
  <2> HIDE DEF h
  <2>3. mem'.hdr = h /\ disk'.hdr = h /\ Shape(mem') /\ Shape(disk')
    BY <1>1, <1>3, <1>9, <2>1, <2>2 DEF Shape
  <2>4. Good' = IF ahead THEN session.tranlog_offset ELSE Good
    BY <2>2, <2>3 DEF Good
  <2>5. Good' \in Nat /\ Good <= Good' /\ Good' < info.append
    BY <1>3, <1>7, <2>4
  <2>6. h.num_trans # 0 => info.entry > Good'
    BY <2>1, <2>2, <2>4
  <2>7. DirtyInv'
    BY <1>1, <1>7, <2>2, <2>3, <2>5, <2>6 DEF DirtyInv, Dirty
  <2>9. HeaderInv'
    <3>1. info.append = info.entry + 1 \/ info.entry <= Good'
      BY <1>3, <1>7, <2>5
    <3>2. Accounted(mem, session)'
      BY <1>1, <1>4, <1>5, <2>1, <2>2, <2>3, <2>6 DEF Accounted, Good
    <3> QED BY <1>1, <1>3, <1>4, <1>5, <3>1, <3>2 DEF HeaderInv
  <2> QED BY <1>1, <1>4, <1>5, <1>6, <2>3, <2>5, <2>7, <2>9, WorkKeeps
<1> QED BY <1>8, <1>9

LEMMA ClosesKeep ==
  ASSUME RepairInv, Flush \/ FinishWrite \/ BulkBegin \/ BulkEnd
  PROVE  RepairInv'
<1>0. SessionInv /\ LogInv /\ Shape(disk) /\ (~Down => Flags(session))
  BY SessionFacts
<1>1. CASE Flush
  <2>1. /\ session.pc = "closing" /\ info' = info /\ log' = log /\ session' = session
        /\ mem' = mem /\ disk' = [mem EXCEPT !.hdr = disk.hdr]
    BY <1>1 DEF Flush
  <2>2. ~Down
    BY <2>1 DEF Down
  <2>3. Known(mem, session.has_changed) /\ LinksStay
    BY <1>0, <2>1, <2>2, MemKnown, LogSame
  <2>4. disk'.hdr = disk.hdr /\ Shape(disk')
    BY <1>0, <2>1, <2>3 DEF Known, Shape
  <2>5. Down' = FALSE /\ SessionInv'
    BY <1>0, <2>1 DEF SessionInv, Down
  <2> QED BY <1>0, <2>1, <2>2, <2>3, <2>4, <2>5, StepKeeps
<1>2. CASE FinishWrite
  <2> DEFINE c == Changed(Opened)
  <2>1. /\ session.pc = "writing" /\ info' = info /\ disk' = disk
        /\ session' = Closing(session, "idle")
    BY <1>2 DEF FinishWrite
  <2>2. LinksStay
    BY <1>0, <1>2, ItemWritten DEF FinishWrite
  <2>3. ~Down /\ session.has_changed \in BOOLEAN
    BY <1>0, <2>1 DEF Down, SessionInv
  <2>4. Known(c, TRUE)
    BY <2>1, <2>3, OpenedKnown, ChangedKnown
  <2>5. \E d, x : mem' = [c EXCEPT !.data = d, !.index[work.num] = x]
    BY <1>2 DEF FinishWrite
  <2> HIDE DEF c
  <2>6. SameCounts(c, mem')
    BY <2>5 DEF SameCounts, Shape
  <2>7. Known(mem', TRUE)
    BY <2>4, <2>6, EditKnown
  <2>8. /\ SessionInv' /\ Flags(session') /\ session'.has_changed = TRUE /\ Down' = FALSE
        /\ session'.tranlog_offset = session.tranlog_offset
        /\ Trans(session') => session.levels # <<>>
    BY <1>0, <2>1, ClosingWorks DEF SessionInv, Fields
  <2>9. Trans(session') => Trans(session)
    BY <2>8 DEF Trans
  <2> QED BY <1>0, <2>1, <2>2, <2>3, <2>7, <2>8, <2>9, StepKeeps
<1>3. CASE BulkBegin
  <2>1. /\ session.pc = "idle" /\ mem' = Opened /\ disk' = disk /\ info' = info /\ log' = log
        /\ session' = [session EXCEPT !.bulk = TRUE]
    BY <1>3 DEF BulkBegin, Idle
  <2>2. LinksStay
    BY <1>0, <2>1, LogSame
  <2> QED BY <1>0, <2>1, <2>2, QuietKeeps DEF SessionInv, Down, Trans
<1>4. CASE BulkEnd
  <2>1. /\ session.pc = "idle" /\ mem' = mem /\ disk' = disk /\ info' = info /\ log' = log
        /\ session' = [session EXCEPT !.bulk = FALSE, !.pc = "closing", !.then = "idle"]
    BY <1>4 DEF BulkEnd, Idle
  <2>2. LinksStay
    BY <1>0, <2>1, LogSame
  <2> QED BY <1>0, <2>1, <2>2, QuietKeeps DEF SessionInv, Down, Trans
<1> QED BY <1>1, <1>2, <1>3, <1>4

(* The cache writes a page, or nothing happens. *)
LEMMA NothingKeeps ==
  ASSUME RepairInv, UNCHANGED <<mem, log, info, session, work>>,
         disk' = disk \/ (session.pc # "down" /\ disk'.hdr = disk.hdr /\ Shape(disk'))
  PROVE  RepairInv'
<1>1. Shape(disk') /\ disk'.hdr = disk.hdr /\ Good' = Good
  BY DEF RepairInv, Good
<1>2. LogInv' /\ InfoInv' /\ SessionInv'
  BY <1>1 DEF RepairInv, LogInv, InfoInv, SessionInv
<1>3. DirtyInv' /\ HeaderInv' /\ RestoredInv'
  BY <1>1 DEF RepairInv, DirtyInv, Dirty, HeaderInv, Down, Accounted, RestoredInv
<1>4. DownInv'
  BY <1>1 DEF RepairInv, DownInv, Down
<1>5. PICK L : Live(L, Links(log), info.entry, Good) /\ WalkInv(L)
  BY DEF RepairInv, ChainInv
<1>6. WalkInv(L)'
  BY <1>1, <1>5 DEF WalkInv, IsCorrupt
<1>7. ChainInv'
  BY <1>1, <1>5, <1>6 DEF ChainInv
<1> QED BY <1>1, <1>2, <1>3, <1>4, <1>7 DEF RepairInv

LEMMA EvictKeeps ==
  ASSUME RepairInv, NEW p, EvictIndex(p) \/ EvictData(p)
  PROVE  RepairInv'
<1>1. session.pc # "down" /\ UNCHANGED <<mem, log, info, session, work>>
  BY DEF EvictIndex, EvictData
<1>2. \E x : disk' = [disk EXCEPT !.index = x] \/ disk' = [disk EXCEPT !.data = x]
  BY DEF EvictIndex, EvictData
<1>3. disk'.hdr = disk.hdr /\ Shape(disk')
  BY <1>2 DEF RepairInv, Shape
<1> QED BY <1>1, <1>3, NothingKeeps

-----------------------------------------------------------------------------
(* Crash and repair.                                                          *)

LEMMA StartedFacts ==
  ASSUME NEW p
  PROVE  /\ Fields \subseteq DOMAIN Started(p)
         /\ Started(p).pc = p /\ Started(p).then = "idle" /\ Started(p).bulk = FALSE
         /\ Started(p).has_changed = FALSE /\ Started(p).levels = <<>>
         /\ Started(p).tranlog_offset = 0
BY DEF Started, Fields

LEMMA SessionStarts ==
  ASSUME NEW p, session' = Started(p)
  PROVE  /\ SessionInv' /\ session'.pc = p /\ session'.bulk = FALSE
         /\ session'.has_changed = FALSE /\ session'.levels = <<>>
         /\ session'.tranlog_offset = 0
<1>1. /\ Fields \subseteq DOMAIN session'
      /\ session'.pc = p /\ session'.then = "idle" /\ session'.bulk = FALSE
      /\ session'.has_changed = FALSE /\ session'.levels = <<>>
      /\ session'.tranlog_offset = 0
  BY StartedFacts
<1>2. session'.has_changed \in BOOLEAN
  BY <1>1
<1>3. session'.tranlog_offset \in Nat
  BY <1>1
<1>4. session'.then \in {"idle", "writing"}
  BY <1>1
<1> QED BY <1>1, <1>2, <1>3, <1>4 DEF SessionInv, Fields

LEMMA CrashKeeps ==
  ASSUME "links" \notin CrashIn, RepairInv, Crash
  PROVE  RepairInv'
<1>1. /\ session' = Started("down") /\ mem' = disk
      /\ disk' = disk /\ log' = log /\ info' = info
  BY DEF Crash
<1>2. ~StaleLink
  <2>1. {w \in {"links"} : StaleLink} \subseteq CrashIn
    BY Zenon DEF Crash
  <2> HIDE DEF StaleLink
  <2> QED BY <2>1
<1>3. /\ SessionInv' /\ Down' /\ session'.pc = "down"
      /\ session'.levels = <<>> /\ session'.tranlog_offset = 0
  BY <1>1, SessionStarts DEF Down
<1>4. Good' = Good /\ LogInv' /\ InfoInv' /\ DirtyInv' /\ Shape(disk')
  BY <1>1 DEF RepairInv, LogInv, InfoInv, DirtyInv, Dirty, Good
<1>5. HeaderInv' /\ RestoredInv'
  BY <1>3 DEF HeaderInv, RestoredInv
<1>6. Links(log)[info.entry] = log[info.entry].next
  BY InfoFacts, LogFacts DEF RepairInv
<1>7. DownInv'
  BY <1>1, <1>2, <1>3, <1>4, <1>6 DEF DownInv, StaleLink, Good
<1>8. PICK L : Live(L, Links(log), info.entry, Good)
  BY DEF RepairInv, ChainInv
<1>9. WalkInv(L)'
  BY <1>3 DEF WalkInv
<1>10. ChainInv'
  BY <1>1, <1>4, <1>8, <1>9 DEF ChainInv
<1> QED BY <1>3, <1>4, <1>5, <1>7, <1>10 DEF RepairInv

LEMMA ReopenKeeps ==
  ASSUME RepairInv, Reopen
  PROVE  RepairInv'
<1> DEFINE p == IF IsCorrupt THEN "restoring" ELSE "idle"
<1>1. /\ session.pc = "down" /\ session' = Started(p)
      /\ mem' = mem /\ disk' = disk /\ log' = log /\ info' = info
      /\ work' = IF IsCorrupt THEN NothingRestored ELSE NoWork
  BY DEF Reopen
<1>2. /\ Down /\ mem = disk /\ Shape(disk)
      /\ info.entry > Good => Links(log)[info.entry] \notin 1 .. info.entry - 1
  BY <1>1 DEF RepairInv, DownInv, Down
<1>3. /\ session'.pc = p /\ session'.bulk = FALSE
      /\ session'.has_changed = FALSE /\ session'.levels = <<>>
      /\ session'.tranlog_offset = 0 /\ SessionInv'
  <2> HIDE DEF p
  <2> QED BY <1>1, SessionStarts
<1>4. SessionInv'
  BY <1>3
<1>5. Good' = Good /\ LogInv' /\ InfoInv' /\ DirtyInv' /\ Shape(disk')
  BY <1>1, <1>2 DEF RepairInv, LogInv, InfoInv, DirtyInv, Dirty, Good
<1>6. RestoredInv'
  BY <1>3 DEF RestoredInv
<1>7. DownInv'
  BY <1>1, <1>2, <1>3, <1>5 DEF DownInv
<1>8. HeaderInv'
  <2>1. CASE IsCorrupt
    BY <1>3, <2>1 DEF HeaderInv, Down
  <2>2. CASE ~IsCorrupt
    <3>1. disk.hdr.num_trans = 0 /\ disk.hdr.num_writers = 0 /\ ~(info.entry > Good)
      BY <2>2 DEF IsCorrupt, Good
    <3>2. info.entry <= Good /\ 0 <= info.entry
      BY <3>1, InfoFacts
    <3>3. session'.pc = "idle"
      BY <1>3, <2>2
    <3>4. Flags(session') /\ ~Trans(session')
      BY <1>3, <3>3 DEF Flags, Trans
    <3>5. Accounted(mem, session)'
      BY <1>1, <1>2, <1>3, <1>5, <3>1, <3>4 DEF Accounted, Good
    <3> QED BY <1>1, <1>3, <1>5, <3>2, <3>4, <3>5 DEF HeaderInv
  <2> QED BY <2>1, <2>2
<1>9. PICK L : Live(L, Links(log), info.entry, Good)
  BY DEF RepairInv, ChainInv
<1>10. WalkInv(L)'
  <2>1. CASE IsCorrupt
    <3>1. work' = NothingRestored
      BY <1>1, <2>1
    <3>2. log # <<>>
      BY LogFacts, EmptySeq DEF RepairInv
    <3>3. /\ {"next", "good", "last", "any"} \subseteq DOMAIN work'
          /\ {"offset", "append"} \subseteq DOMAIN work'.last
          /\ work'.any = FALSE /\ work'.last.offset = 0
          /\ work'.next = 1 /\ work'.good = Good
      BY <3>1, <3>2 DEF NothingRestored, Good
    <3>4. IsCorrupt'
      BY <1>1, <2>1 DEF IsCorrupt
    <3>5. 1 \in L /\ Good \in Nat /\ Good >= Good
      BY <1>9, InfoFacts DEF Live
    <3>6. mem'.hdr.tranlog_offset = Good
      BY <1>1, <1>2 DEF Good
    <3>7. work'.next \in L \cup {0} /\ work'.any \in BOOLEAN
          /\ work'.good \in Nat /\ work'.good >= Good' /\ Good' = Good
      BY <1>5, <3>3, <3>5
    <3>8. /\ ~work'.any /\ work'.next # 0
          /\ work'.good = Good' /\ mem'.hdr.tranlog_offset = Good'
      BY <3>3, <3>6, <3>7
    <3>9. work'.last.offset = 0 /\ work'.next = 1
      BY <3>3
    <3> QED BY <3>3, <3>4, <3>7, <3>8, <3>9, Zenon DEF WalkInv
  <2>2. CASE ~IsCorrupt
    BY <1>3, <2>2 DEF WalkInv
  <2> QED BY <2>1, <2>2
<1>11. ChainInv'
  BY <1>1, <1>5, <1>9, <1>10 DEF ChainInv
<1> QED BY <1>4, <1>5, <1>6, <1>7, <1>8, <1>11 DEF RepairInv

(* What the repair finds at the entry that it reads. *)
AtEntry(L, k, e, f) ==
  /\ Live(L, f, e, Good) /\ WalkInv(L) /\ k = work.next /\ e = info.entry
  /\ f = Links(log) /\ session.pc = "restoring" /\ k # 0

LEMMA EntryFacts ==
  ASSUME RepairInv, NEW L, NEW k, NEW e, NEW f, AtEntry(L, k, e, f)
  PROVE  /\ k \in L /\ k \in 1 .. e /\ e \in 1 .. Len(log) /\ Len(log) \in Nat /\ L \subseteq 1 .. e
         /\ f[k] = log[k].next /\ f[k] \in Nat /\ work.good \in Nat /\ work.good >= Good
         /\ Good \in Nat
         /\ k # e => f[k] \in L /\ k < f[k] /\ f[k] <= e /\ (k > Good => f[k] = k + 1)
         /\ work.any => AfterGoodPoint(k)
         /\ ~AfterGoodPoint(k) => ~work.any /\ work.good = Good /\ k <= Good
         /\ AfterGoodPoint(k) => k > Good
         /\ k = e /\ ~AfterGoodPoint(k) => f[e] \notin 1 .. e
         /\ k = e /\ AfterGoodPoint(k) => f[e] \in {0, e} \/ (f[e] > e /\ e \in Committed(log))
<1>1. /\ k \in L /\ work.good \in Nat /\ work.good >= Good
      /\ ~work.any => work.good = Good
      /\ work.any => work.good < k
      /\ IsCorrupt
  BY DEF AtEntry, WalkInv
<1>2. L \subseteq 1 .. e /\ e \in 1 .. Len(log) /\ Len(log) \in Nat /\ Good \in Nat
  BY InfoFacts DEF AtEntry, Live
<1>3. k \in 1 .. e /\ k \in 1 .. Len(log)
  BY <1>1, <1>2
<1>4. f[k] = log[k].next /\ f[k] \in Nat
  BY <1>3, LogFacts DEF AtEntry, RepairInv
<1>5. k # e => f[k] \in L /\ k < f[k] /\ (k > Good => f[k] = k + 1)
  BY <1>1 DEF AtEntry, Live
<1>6. ASSUME k # e PROVE f[k] <= e
  <2>1. f[k] \in L
    BY <1>5, <1>6
  <2>2. f[k] \in 1 .. e
    BY <1>2, <2>1
  <2> QED BY <1>2, <2>2
<1>7. /\ work.any => AfterGoodPoint(k)
      /\ ~AfterGoodPoint(k) => ~work.any /\ work.good = Good /\ k <= Good
      /\ AfterGoodPoint(k) => k > Good
  BY <1>1, <1>2, <1>3 DEF AfterGoodPoint
<1>8. ASSUME k = e, ~AfterGoodPoint(k) PROVE f[e] \notin 1 .. e
  <2>1. info.entry <= Good
    BY <1>7, <1>8 DEF AtEntry
  <2>2. ~(info.entry > disk.hdr.tranlog_offset)
    BY <1>2, <2>1 DEF AtEntry, Good
  <2>3. Dirty
    BY <1>1, <2>2 DEF IsCorrupt, Dirty
  <2> QED BY <2>1, <2>3 DEF RepairInv, DirtyInv, AtEntry
<1>9. ASSUME k = e, AfterGoodPoint(k)
      PROVE  f[e] \in {0, e} \/ (f[e] > e /\ e \in Committed(log))
  <2>1. info.entry > Good /\ Down
    BY <1>7, <1>9 DEF AtEntry, Down
  <2>2. f[e] \notin 1 .. e - 1
    BY <2>1 DEF RepairInv, DownInv, AtEntry
  <2>3. f[e] > e => e \in Committed(log)
    BY DEF RepairInv, InfoInv, InfoIs, AtEntry
  <2>4. f[e] \in Nat /\ e \in Nat
    BY <1>2, <1>4, <1>9
  <2> QED BY <2>2, <2>3, <2>4
<1> QED BY <1>1, <1>2, <1>3, <1>4, <1>5, <1>6, <1>7, <1>8, <1>9

(* An entry is read: it becomes the last one, if it was committed. *)
LastRead(k, entry, last) ==
  IF entry.committed THEN [offset |-> k, tx_id |-> entry.tx_id, append |-> entry.next] ELSE last

LEMMA EntryRead ==
  ASSUME RepairInv, RestoreEntry
  PROVE  LET k     == work.next
             after == AfterGoodPoint(k)
             last  == LastRead(k, log[k], work.last)
             ends  == EndsLog(k) /\ after
             next  == IF ends THEN info.append ELSE log[k].next
         IN /\ session.pc = "restoring" /\ k # 0
            /\ {"next", "good", "last", "any"} \subseteq DOMAIN work'
            /\ work'.good = (IF after THEN k ELSE work.good)
            /\ work'.any = (work.any \/ after)
            /\ work'.last = (IF ends THEN [last EXCEPT !.append = info.append] ELSE last)
            /\ work'.next = (IF next > info.entry \/ (k = info.entry /\ after) THEN 0 ELSE next)
            /\ ~after => mem' = mem
            /\ disk' = disk /\ log' = log /\ info' = info
            /\ session' = [session EXCEPT !.has_changed = @ \/ after]
<1>1. session.pc = "restoring" /\ work.next # 0
  BY DEF RestoreEntry
<1>2. {"next", "good", "last", "any"} \subseteq DOMAIN work
  BY <1>1 DEF RepairInv, ChainInv, WalkInv
<1> QED BY <1>1, <1>2 DEF RestoreEntry, LastRead, NextEntry

(* The walk goes on along the chain, or ends with the last entry. *)
LEMMA EntryAdvances ==
  ASSUME RepairInv, RestoreEntry, NEW L, NEW k, NEW e, NEW f, AtEntry(L, k, e, f)
  PROVE  /\ k = e => work'.next = 0
         /\ k # e => work'.next = f[k]
<1> DEFINE after == AfterGoodPoint(k)
           ends == EndsLog(k) /\ after
           next == IF ends THEN info.append ELSE log[k].next
<1>1. work'.next = IF next > e \/ (k = e /\ after) THEN 0 ELSE next
  BY EntryRead DEF AtEntry
<1>2. /\ f[k] = log[k].next /\ f[k] \in Nat /\ k \in Nat /\ e \in Nat
      /\ k # e => k < f[k] /\ f[k] <= e
      /\ k = e /\ ~after => f[e] \notin 1 .. e
  BY EntryFacts
<1>3. EndsLog(k) <=> f[k] \in {0, k}
  BY <1>2 DEF EndsLog
<1> HIDE DEF after
<1>4. CASE k = e
  <2>1. CASE after
    BY <1>1, <1>4, <2>1
  <2>2. CASE ~after
    <3>1. next = f[k]
      BY <1>2, <2>2
    <3>2. f[k] = 0 \/ f[k] > e
      BY <1>2, <1>4, <2>2
    <3> HIDE DEF next
    <3> QED BY <1>1, <1>2, <1>4, <2>2, <3>1, <3>2
  <2> QED BY <1>4, <2>1, <2>2
<1>5. CASE k # e
  <2>1. ~EndsLog(k)
    BY <1>2, <1>3, <1>5
  <2>2. next = f[k]
    BY <1>2, <2>1
  <2> HIDE DEF next
  <2> QED BY <1>1, <1>2, <1>5, <2>2
<1> QED BY <1>4, <1>5

(* The last committed entry that the repair has come by. *)
LEMMA LastKept ==
  ASSUME RepairInv, RestoreEntry, NEW L, NEW k, NEW e, NEW f, AtEntry(L, k, e, f)
  PROVE  LET l == work'.last IN
         /\ {"offset", "append"} \subseteq DOMAIN l
         /\ l.offset \in L /\ l.offset \in Committed(log)
         /\ k = e /\ AfterGoodPoint(k) =>
              \/ l.append = info.append
              \/ l.offset = e /\ l.append = f[e] /\ f[e] > e
<1> DEFINE last == LastRead(k, log[k], work.last)
           after == AfterGoodPoint(k)
<1>1. work'.last = IF EndsLog(k) /\ after THEN [last EXCEPT !.append = info.append] ELSE last
  BY EntryRead DEF AtEntry
<1>2. /\ k \in L /\ f[k] = log[k].next /\ f[k] \in Nat /\ k \in 1 .. Len(log)
      /\ k = e /\ after => f[e] \in {0, e} \/ (f[e] > e /\ e \in Committed(log))
  BY EntryFacts
<1>3. DOMAIN log = 1 .. Len(log) /\ 1 \in Committed(log)
  BY LogFacts DEF RepairInv
<1>4. k \in Committed(log) <=> log[k].committed
  BY <1>2, <1>3 DEF Committed
<1>5. /\ {"offset", "append"} \subseteq DOMAIN last
      /\ last.offset \in L /\ last.offset \in Committed(log)
      /\ log[k].committed => last.offset = k /\ last.append = f[k]
  <2>1. CASE log[k].committed
    <3>1. /\ {"offset", "append"} \subseteq DOMAIN last
          /\ last.offset = k /\ last.append = f[k]
      BY <1>2, <2>1 DEF LastRead
    <3> HIDE DEF last
    <3> QED BY <1>2, <1>4, <2>1, <3>1
  <2>2. CASE ~log[k].committed
    <3>1. last = work.last
      BY <2>2 DEF LastRead
    <3>2. k # 1
      BY <1>3, <1>4, <2>2
    <3>3. /\ {"offset", "append"} \subseteq DOMAIN work.last
          /\ work.last.offset \in L /\ work.last.offset \in Committed(log)
      BY <3>2 DEF AtEntry, WalkInv
    <3> HIDE DEF last
    <3> QED BY <2>2, <3>1, <3>3
  <2> QED BY <2>1, <2>2
<1> HIDE DEF last, after
<1>6. CASE EndsLog(k) /\ after
  <2>1. work'.last = [last EXCEPT !.append = info.append]
    BY <1>1, <1>6
  <2>2. /\ {"offset", "append"} \subseteq DOMAIN work'.last
        /\ work'.last.offset = last.offset /\ work'.last.append = info.append
    BY <1>5, <2>1
  <2> QED BY <1>5, <2>2
<1>7. CASE ~(EndsLog(k) /\ after)
  <2>1. work'.last = last
    BY <1>1, <1>7
  <2>2. ASSUME k = e, after PROVE last.offset = e /\ last.append = f[e] /\ f[e] > e
    <3>1. f[e] \notin {0, e}
      BY <1>2, <1>7, <2>2 DEF EndsLog
    <3>2. f[e] > e /\ e \in Committed(log)
      BY <1>2, <2>2, <3>1
    <3> QED BY <1>4, <1>5, <2>2, <3>2
  <2> QED BY <1>5, <2>1, <2>2 DEF after
<1> QED BY <1>6, <1>7

LEMMA EntryKeeps ==
  ASSUME RepairInv, RestoreEntry
  PROVE  RepairInv'
<1>1. PICK L : Live(L, Links(log), info.entry, Good) /\ WalkInv(L)
  BY DEF RepairInv, ChainInv
<1>2. PICK k, e, f : k = work.next /\ e = info.entry /\ f = Links(log)
  OBVIOUS
<1> DEFINE after == AfterGoodPoint(k)
<1>3. /\ session.pc = "restoring" /\ k # 0
      /\ {"next", "good", "last", "any"} \subseteq DOMAIN work'
      /\ work'.good = (IF after THEN k ELSE work.good)
      /\ work'.any = (work.any \/ after)
      /\ ~after => mem' = mem
      /\ disk' = disk /\ log' = log /\ info' = info
      /\ session' = [session EXCEPT !.has_changed = @ \/ after]
  BY <1>2, EntryRead
<1>4. AtEntry(L, k, e, f)
  BY <1>1, <1>2, <1>3 DEF AtEntry
<1>5. /\ k \in L /\ k \in 1 .. e /\ e \in Nat /\ work.good \in Nat /\ work.good >= Good
      /\ Good \in Nat /\ 0 \notin L
      /\ k # e => f[k] \in L /\ k < f[k]
      /\ work.any => after
      /\ ~after => ~work.any /\ work.good = Good /\ k <= Good
      /\ after => k > Good
  BY <1>4, EntryFacts
<1>6. /\ k = e => work'.next = 0
      /\ k # e => work'.next = f[k]
  BY <1>4, EntryAdvances
<1>7. /\ {"offset", "append"} \subseteq DOMAIN work'.last
      /\ work'.last.offset \in L /\ work'.last.offset \in Committed(log)
      /\ k = e /\ after =>
              \/ work'.last.append = info.append
              \/ work'.last.offset = e /\ work'.last.append = f[e] /\ f[e] > e
  BY <1>4, LastKept
<1>8. SessionInv /\ IsCorrupt /\ (~work.any => mem.hdr.tranlog_offset = Good)
  BY <1>1, <1>3 DEF RepairInv, WalkInv
<1>9. /\ session'.pc = "restoring" /\ session'.levels = session.levels
      /\ session'.tranlog_offset = session.tranlog_offset /\ SessionInv'
  <2> HIDE DEF after
  <2> QED BY <1>3, <1>8 DEF SessionInv
<1>10. Good' = Good /\ LogInv' /\ InfoInv' /\ DirtyInv' /\ Shape(disk')
  BY <1>3 DEF RepairInv, LogInv, InfoInv, DirtyInv, Dirty, Good
<1>11. HeaderInv' /\ RestoredInv'
  BY <1>9 DEF HeaderInv, RestoredInv, Down
<1>12. DownInv'
  BY <1>3, <1>9, <1>10 DEF RepairInv, DownInv, Down
<1> HIDE DEF after
<1>13. WalkInv(L)'
  <2>1. IsCorrupt'
    BY <1>3, <1>8 DEF IsCorrupt
  <2>2. work'.next \in L \cup {0} /\ work'.any \in BOOLEAN
    BY <1>3, <1>5, <1>6
  <2>3. work'.good \in Nat /\ work'.good >= Good
    BY <1>3, <1>5
  <2>4. ~work'.any => ~after /\ work'.good = Good /\ mem'.hdr.tranlog_offset = Good
    BY <1>3, <1>5, <1>8
  <2>5. work'.any => after
    BY <1>3, <1>5
  <2>6. after => e > Good
    BY <1>5
  <2>7. after /\ work'.next # 0 => work'.good < work'.next
    BY <1>3, <1>5, <1>6
  <2>8. work'.next = 0 => k = e
    BY <1>5, <1>6
  <2>9. k = e /\ ~after => e <= Good
    BY <1>5
  <2>10. work'.last.offset \in L /\ work'.last.offset \in Committed(log)
    BY <1>7
  <2>11. work'.any /\ work'.next = 0 =>
           \/ work'.last.append = info.append
           \/ work'.last.offset = e /\ work'.last.append = f[e] /\ f[e] > e
    BY <1>7, <2>5, <2>8
  <2>12. work'.any => e > Good
    BY <2>5, <2>6
  <2>13. work'.any /\ work'.next # 0 => work'.good < work'.next
    BY <2>5, <2>7
  <2>14. ~work'.any /\ work'.next = 0 => e <= Good
    BY <2>4, <2>8, <2>9
  <2> QED BY <1>2, <1>3, <1>7, <1>10, <2>1, <2>2, <2>3, <2>4, <2>10, <2>11, <2>12,
             <2>13, <2>14, Zenon DEF WalkInv
<1>14. ChainInv'
  BY <1>1, <1>3, <1>10, <1>13 DEF ChainInv
<1> QED BY <1>9, <1>10, <1>11, <1>12, <1>14 DEF RepairInv

(* The log ends after the last committed entry that was found. *)
LEMMA InfoKeeps ==
  ASSUME RepairInv, RestoreInfo
  PROVE  RepairInv'
<1>1. /\ session.pc = "restoring" /\ work.next = 0 /\ work' = work
      /\ session' = [session EXCEPT !.pc = "restored"]
      /\ info' = IF work.any THEN [entry |-> work.last.offset, append |-> work.last.append]
                             ELSE info
      /\ mem' = mem /\ disk' = disk /\ log' = log
  BY DEF RestoreInfo
<1>2. PICK L : Live(L, Links(log), info.entry, Good) /\ WalkInv(L)
  BY DEF RepairInv, ChainInv
<1>3. SessionInv /\ Down
  BY <1>1 DEF RepairInv, Down
<1>4. /\ session'.pc = "restored" /\ session'.levels = session.levels
      /\ session'.tranlog_offset = session.tranlog_offset /\ SessionInv'
  BY <1>1, <1>3 DEF SessionInv
<1>5. Good' = Good /\ LogInv' /\ Shape(disk') /\ Dirty' = Dirty
  BY <1>1 DEF RepairInv, LogInv, Good, Dirty
<1>6. HeaderInv' /\ \A M : WalkInv(M)'
  BY <1>4 DEF HeaderInv, Down, WalkInv
<1>7. session'.levels = <<>> /\ session'.tranlog_offset = 0
  BY <1>3, <1>4 DEF RepairInv, DownInv
<1>8. CASE ~work.any
  <2>1. info' = info /\ info.entry <= Good /\ mem'.hdr.tranlog_offset = Good
    BY <1>1, <1>2, <1>8 DEF WalkInv
  <2>2. InfoInv' /\ DirtyInv'
    BY <1>1, <1>5, <2>1 DEF RepairInv, InfoInv, DirtyInv
  <2>3. DownInv'
    BY <1>1, <1>3, <1>4, <1>5, <1>7, <2>1 DEF RepairInv, DownInv
  <2>4. RestoredInv'
    BY <1>1, <1>5, <1>8, <2>1 DEF RestoredInv
  <2>5. ChainInv'
    BY <1>1, <1>2, <1>5, <1>6, <2>1 DEF ChainInv
  <2> QED BY <1>4, <1>5, <1>6, <2>2, <2>3, <2>4, <2>5 DEF RepairInv
<1>9. CASE work.any
  <2>1. PICK o, b, e, a, f, g, n, com :
          /\ o = work.last.offset /\ b = work.last.append /\ e = info.entry
          /\ a = info.append /\ f = Links(log) /\ g = Good /\ n = Len(log)
          /\ com = Committed(log)
    OBVIOUS
  <2>2. info' = [entry |-> o, append |-> b]
    BY <1>1, <1>9, <2>1
  <2>3. info'.entry = o /\ info'.append = b
    BY <2>2
  <2>4. /\ o \in L /\ o \in com /\ e > g
        /\ b = a \/ (o = e /\ b = f[e] /\ f[e] > e)
    BY <1>1, <1>2, <1>9, <2>1 DEF WalkInv
  <2>5. InfoIs(n, f, com, e, a, g) /\ Live(L, f, e, g) /\ n \in Nat
    BY <1>2, <2>1, InfoFacts DEF RepairInv, InfoInv
  <2>6. L \subseteq 1 .. e /\ e \in 1 .. n
    BY <2>5 DEF Live, InfoIs
  <2>7. o \in 1 .. e /\ (o # e => f[o] \in L /\ o < f[o])
    BY <2>4, <2>5, <2>6 DEF Live
  <2>8. o # e => f[o] \in 1 .. e
    BY <2>6, <2>7
  <2>9. f[e] \in Nat
    BY <2>1, <2>6, LogFacts DEF RepairInv
  <2>10. InfoIs(n, f, com, o, b, g)
    BY <2>4, <2>5, <2>6, <2>7, <2>8, <2>9 DEF InfoIs
  <2>11. PICK M : M = {j \in L : j <= o}
    OBVIOUS
  <2>12. Live(M, f, o, g)
    <3>1. M \subseteq 1 .. o /\ 1 \in M /\ o \in M
      <4>1. 1 \in L /\ o \in L
        BY <2>4, <2>5 DEF Live
      <4>2. \A j \in L : j \in 1 .. e
        BY <2>6
      <4>3. o \in Nat /\ 1 <= o
        BY <2>6, <2>7
      <4>4. ASSUME NEW j \in M PROVE j \in 1 .. o
        <5>1. j \in L /\ j <= o
          BY <2>11, <4>4
        <5>2. j \in Nat /\ 1 <= j
          BY <2>6, <4>2, <5>1
        <5> QED BY <4>3, <5>1, <5>2
      <4>5. 1 \in M /\ o \in M
        BY <2>11, <4>1, <4>3
      <4> QED BY <4>4, <4>5
    <3>2. ASSUME NEW k \in M, k # o
          PROVE  /\ f[k] \in M /\ k < f[k] /\ (k > g => f[k] = k + 1)
                 /\ \A j \in M : j <= k \/ f[k] <= j
      <4>1. k \in L /\ k \in 1 .. o /\ k < o
        BY <2>7, <2>11, <3>1, <3>2
      <4>2. k # e
        BY <2>6, <2>7, <4>1
      <4>3. /\ f[k] \in L /\ k < f[k] /\ (k > g => f[k] = k + 1)
            /\ \A j \in L : j <= k \/ f[k] <= j
        BY <2>5, <4>1, <4>2 DEF Live
      <4>4. f[k] \in 1 .. e
        BY <2>6, <4>3
      <4>5. f[k] <= o
        BY <2>4, <2>6, <2>7, <4>1, <4>3, <4>4
      <4> QED BY <2>11, <4>3, <4>5
    <3> QED BY <3>1, <3>2 DEF Live
  <2>13. InfoInv'
    BY <1>1, <1>5, <2>1, <2>2, <2>3, <2>10 DEF InfoInv
  <2>14. o = e \/ f[o] \notin 1 .. o
    BY <2>7, <2>8
  <2>15. DirtyInv'
    BY <1>1, <1>5, <2>1, <2>3, <2>14 DEF RepairInv, DirtyInv
  <2>16. o = e \/ f[o] \notin 1 .. o - 1
    BY <2>7, <2>8
  <2>17. DownInv'
    BY <1>1, <1>3, <1>4, <1>5, <1>7, <2>1, <2>3, <2>16 DEF RepairInv, DownInv
  <2>18. RestoredInv'
    BY <1>1, <1>9, <2>1, <2>3 DEF RestoredInv
  <2>19. ChainInv'
    BY <1>1, <1>5, <1>6, <2>1, <2>3, <2>12 DEF ChainInv
  <2> QED BY <1>4, <1>5, <1>6, <2>13, <2>15, <2>17, <2>18, <2>19 DEF RepairInv
<1> QED BY <1>8, <1>9

(* The header is clean after a repair, and its good point at the last entry   *)
(* or behind it.                                                              *)
LEMMA HeaderKeeps ==
  ASSUME RepairInv, RestoreHeader
  PROVE  RepairInv'
<1> DEFINE h == disk'.hdr
<1> DEFINE x == [total_entries |-> mem.hdr.total_entries, total_size |-> mem.hdr.total_size,
                 free_list |-> mem.hdr.free_list, num_trans |-> 0, num_writers |-> 0,
                 tranlog_offset |-> IF work.any THEN work.last.offset
                                                ELSE mem.hdr.tranlog_offset,
                 transaction_id |-> IF work.any THEN work.last.tx_id + 1
                                                ELSE mem.hdr.transaction_id]
<1>0. /\ session.pc = "restored" /\ log' = log /\ info' = info
      /\ session' = [session EXCEPT !.pc = "closing", !.then = "idle", !.has_changed = FALSE]
      /\ mem' = [hdr |-> x, index |-> mem.index, data |-> mem.data]
      /\ disk' = [disk EXCEPT !.hdr = x]
  BY DEF RestoreHeader
<1>20. /\ {"tranlog_offset", "num_trans", "num_writers"} \subseteq DOMAIN x
       /\ x.num_trans = 0 /\ x.num_writers = 0
       /\ x.tranlog_offset = (IF work.any THEN work.last.offset ELSE mem.hdr.tranlog_offset)
  OBVIOUS
<1> HIDE DEF x
<1>1. /\ session.pc = "restored" /\ log' = log /\ info' = info
      /\ session' = [session EXCEPT !.pc = "closing", !.then = "idle", !.has_changed = FALSE]
      /\ mem'.hdr = x /\ "hdr" \in DOMAIN mem'
      /\ disk' = [disk EXCEPT !.hdr = x]
  BY <1>0
<1>2. /\ SessionInv /\ Down /\ Shape(disk)
      /\ session.levels = <<>> /\ session.tranlog_offset = 0
  BY <1>1 DEF RepairInv, DownInv, Down
<1>3. /\ Shape(mem') /\ Shape(disk') /\ mem'.hdr = h
      /\ h.num_trans = 0 /\ h.num_writers = 0
      /\ h.tranlog_offset = (IF work.any THEN work.last.offset ELSE mem.hdr.tranlog_offset)
  BY <1>1, <1>20, <1>2 DEF Shape
<1> HIDE DEF h
<1>4. \/ Good' = info.entry
      \/ Good' = Good /\ info.entry <= Good
  BY <1>1, <1>3 DEF RepairInv, RestoredInv, Good, h
<1>5. /\ session'.pc = "closing" /\ session'.has_changed = FALSE
      /\ session'.levels = <<>> /\ session'.tranlog_offset = 0
      /\ SessionInv'
  BY <1>1, <1>2 DEF SessionInv
<1>6. LogInv'
  BY <1>1 DEF RepairInv, LogInv
<1>7. PICK L, e, a, f, g, n, com, p :
          /\ Live(L, f, e, g) /\ e = info.entry /\ p = Good'
          /\ a = info.append /\ f = Links(log) /\ g = Good /\ n = Len(log)
          /\ com = Committed(log)
  BY DEF RepairInv, ChainInv
<1>8. /\ InfoIs(n, f, com, e, a, g) /\ n \in Nat /\ e \in 1 .. n /\ a \in Nat /\ g \in Nat
      /\ L \subseteq 1 .. e /\ e <= p /\ (p = e \/ p = g)
  BY <1>4, <1>7, InfoFacts DEF RepairInv, InfoInv, Live
<1>9. InfoIs(n, f, com, e, a, p)
  BY <1>8 DEF InfoIs
<1>10. InfoInv'
  BY <1>1, <1>7, <1>9 DEF RepairInv, InfoInv
<1>11. DirtyInv'
  BY <1>3 DEF DirtyInv, Dirty, h
<1>12. DownInv' /\ RestoredInv' /\ WalkInv(L)'
  BY <1>5 DEF DownInv, RestoredInv, WalkInv, Down
<1>13. Live(L, f, e, p)
  <2>1. \A k \in L : ~(k > p)
    BY <1>8
  <2> QED BY <1>7, <2>1 DEF Live
<1>14. ChainInv'
  BY <1>1, <1>7, <1>12, <1>13 DEF ChainInv
<1>15. HeaderInv'
  <2>1. ~Trans(session') /\ Flags(session')
    BY <1>5 DEF Trans, Flags
  <2>2. Accounted(mem, session)'
    BY <1>3, <1>5, <2>1 DEF Accounted, Good, h
  <2>3. 0 <= info.entry /\ info.entry <= Good'
    BY <1>7, <1>8
  <2> QED BY <1>1, <1>5, <2>1, <2>2, <2>3 DEF HeaderInv
<1> QED BY <1>3, <1>5, <1>6, <1>10, <1>11, <1>12, <1>14, <1>15 DEF RepairInv

-----------------------------------------------------------------------------
(* The invariant and the theorem.                                             *)

LEMMA InitRepairs ==
  ASSUME ~FreshLog, Init
  PROVE  RepairInv
<1> DEFINE entry == [NewEntry(1) EXCEPT !.committed = TRUE]
<1>1. /\ log = <<entry>> /\ info = [entry |-> Len(log), append |-> Len(log) + 1]
      /\ mem = Store0 /\ disk = Store0 /\ session = Started("idle")
  BY DEF Init
<1>2. "next" \in DOMAIN entry /\ entry.next = 0 /\ entry.committed
  BY DEF NewEntry
<1> HIDE DEF entry
<1>3. Len(log) = 1 /\ DOMAIN log = 1 .. 1 /\ log[1] = entry
  BY <1>1
<1>4. log \in Seq({log[k] : k \in DOMAIN log})
  <2>1. log \in Seq({entry})
    BY <1>1
  <2> QED BY <2>1, IsSeq
<1>5. DOMAIN Links(log) = 1 .. 1 /\ Links(log)[1] = 0
  BY <1>2, <1>3 DEF Links
<1>6. LogInv
  BY <1>2, <1>3, <1>4 DEF LogInv
<1>7. /\ Shape(Store0) /\ Store0.hdr.tranlog_offset = 1
      /\ Store0.hdr.num_trans = 0 /\ Store0.hdr.num_writers = 0
  BY DEF Store0, Shape
<1>8. Good = 1 /\ ~Dirty /\ Shape(disk)
  BY <1>1, <1>7 DEF Good, Dirty
<1>9. info.entry = 1 /\ info.append = 2
  BY <1>1, <1>3
<1>10. InfoInv /\ DirtyInv
  BY <1>1, <1>3, <1>5, <1>8, <1>9 DEF InfoInv, InfoIs, DirtyInv
<1>11. /\ Fields \subseteq DOMAIN session /\ session.pc = "idle" /\ session.then = "idle"
       /\ session.bulk = FALSE /\ session.has_changed = FALSE /\ session.levels = <<>>
       /\ session.tranlog_offset = 0
  BY <1>1, StartedFacts
<1>12. SessionInv
  <2>1. session.has_changed \in BOOLEAN
    BY <1>11
  <2>2. session.tranlog_offset \in Nat
    BY <1>11
  <2>3. session.then \in {"idle", "writing"}
    BY <1>11
  <2> QED BY <1>11, <2>1, <2>2, <2>3 DEF SessionInv, Fields
<1>13. DownInv /\ RestoredInv /\ WalkInv({1})
  BY <1>11 DEF DownInv, Down, RestoredInv, WalkInv
<1>14. Live({1}, Links(log), info.entry, Good)
  BY <1>9 DEF Live
<1>15. ChainInv
  BY <1>13, <1>14 DEF ChainInv
<1>16. HeaderInv
  <2>1. ~Trans(session) /\ Flags(session)
    BY <1>11 DEF Trans, Flags
  <2>2. Accounted(mem, session)
    BY <1>1, <1>7, <1>8, <1>11, <2>1 DEF Accounted
  <2> QED BY <1>9, <1>11, <2>1, <2>2 DEF HeaderInv
<1> QED BY <1>6, <1>8, <1>10, <1>12, <1>13, <1>15, <1>16 DEF RepairInv

LEMMA StepRepairs ==
  ASSUME "links" \notin CrashIn, RepairInv, [Next]_vars
  PROVE  RepairInv'
<1>1. CASE UNCHANGED vars
  BY <1>1, NothingKeeps DEF vars
<1>2. CASE SystemStep
  BY <1>2, ClosesKeep, CloseKeeps, StartKeeps, CompletedKeeps, CommitKeeps, RollbackKeeps,
     EndsKeep, ReopenKeeps, EntryKeeps, InfoKeeps, HeaderKeeps DEF SystemStep
<1>3. CASE Next
  BY <1>1, <1>2, <1>3, EvictKeeps, CallsKeep, ClosesKeep, LevelsKeep, CrashKeeps
     DEF Next, Quiescent
<1> QED BY <1>1, <1>3

(* Only reading an entry changes what the repair is doing while it reads. *)
LEMMA OnlyReading ==
  ASSUME RepairInv, [Next]_vars, session.pc = "restoring", session'.pc = "restoring",
         work' # work
  PROVE  RestoreEntry
<1>1. ~Idle
  BY DEF Idle
<1>2. ~UNCHANGED vars
  BY DEF vars
<1>3. ~Crash
  BY StartedFacts DEF Crash
<1>4. ASSUME NEW p, EvictIndex(p) \/ EvictData(p) PROVE FALSE
  BY <1>4 DEF EvictIndex, EvictData
<1>5. ASSUME NEW n, Destroy(n) PROVE FALSE
  BY <1>1, <1>5 DEF Destroy
<1>6. ASSUME NEW size, NEW val, Create(size, val) \/ Revive(size, val) PROVE FALSE
  BY <1>1, <1>6 DEF Create, Revive
<1>7. ASSUME NEW size, NEW val, NEW n, Update(n, size, val) PROVE FALSE
  BY <1>1, <1>7 DEF Update
<1>8. ~(BulkBegin \/ BulkEnd \/ TransactionStart \/ CommitBegin \/ Quiescent)
  BY <1>1 DEF BulkBegin, BulkEnd, TransactionStart, CommitBegin, Quiescent
<1>9. ~NestedStart
  BY <1>1, Zenon DEF NestedStart
<1>10. ~NestedCommit
  BY <1>1, Zenon DEF NestedCommit
<1>11. ~RollbackBegin
  BY <1>1, Zenon DEF RollbackBegin
<1>12. ~(Flush \/ Close \/ StartHeader \/ FinishWrite \/ Reopen \/ RestoreHeader)
  BY DEF Flush, Close, StartHeader, FinishWrite, Reopen, RestoreHeader
<1>13. session.pc \notin {"committing", "rolling back", "completing"}
  OBVIOUS
<1>14. ~CommitOp /\ ~LogCommit
  BY <1>13 DEF CommitOp, LogCommit
<1>15. ~RollbackOp
  BY <1>13 DEF RollbackOp
<1>16. ~RollbackEnd
  BY <1>13 DEF RollbackEnd
<1>17. ~CompletedHeader
  BY <1>13 DEF CompletedHeader
<1>18. ~RestoreInfo
  <2>1. ASSUME RestoreInfo PROVE FALSE
    <3>1. session' = [session EXCEPT !.pc = "restored"]
      BY <2>1 DEF RestoreInfo
    <3> QED BY <3>1 DEF RepairInv, SessionInv
  <2> QED BY <2>1
<1> QED
  BY <1>2, <1>3, <1>4, <1>5, <1>6, <1>7, <1>8, <1>9,
     <1>10, <1>11, <1>12, <1>13, <1>14, <1>15, <1>16, <1>17, <1>18
     DEF Next, SystemStep

(* A repair comes to the last entry of the log and ends there, and goes       *)
(* forward without leaving out an entry from the first that it restores       *)
(* (RestoreAdvances): for a log that has an entry, any number of              *)
(* transactions, crashes and repairs, and crashes in every window but the one *)
(* of a link back in an uncommitted last entry, where the code fails.         *)
THEOREM RestoreForward ==
  ASSUME ~FreshLog, "links" \notin CrashIn
  PROVE  Spec => RestoreAdvances
<1>1. Init => RepairInv
  BY InitRepairs
<1>2. RepairInv /\ [Next]_vars => RepairInv'
  BY StepRepairs
<1>3. RepairInv /\ [Next]_vars =>
        [session.pc = "restoring" /\ session'.pc = "restoring" /\ work' # work =>
           LET k == work.next IN
           IF k = info.entry THEN work'.next = 0
           ELSE /\ work'.next \in k + 1 .. info.entry
                /\ AfterGoodPoint(k) => work'.next = k + 1]_vars
  <2> SUFFICES ASSUME RepairInv, [Next]_vars, session.pc = "restoring",
                      session'.pc = "restoring", work' # work
               PROVE  LET k == work.next IN
                      IF k = info.entry THEN work'.next = 0
                      ELSE /\ work'.next \in k + 1 .. info.entry
                           /\ AfterGoodPoint(k) => work'.next = k + 1
    OBVIOUS
  <2>1. RestoreEntry
    BY OnlyReading
  <2>2. PICK L : Live(L, Links(log), info.entry, Good) /\ WalkInv(L)
    BY DEF RepairInv, ChainInv
  <2>3. PICK k, e, f : k = work.next /\ e = info.entry /\ f = Links(log)
    OBVIOUS
  <2>4. AtEntry(L, k, e, f)
    BY <2>1, <2>2, <2>3, EntryRead DEF AtEntry
  <2>5. /\ k \in Nat /\ e \in Nat /\ f[k] \in Nat
        /\ k # e => k < f[k] /\ f[k] <= e /\ (k > Good => f[k] = k + 1)
        /\ AfterGoodPoint(k) => k > Good
    BY <2>4, EntryFacts
  <2>6. /\ k = e => work'.next = 0
        /\ k # e => work'.next = f[k]
    BY <2>1, <2>4, EntryAdvances
  <2>7. CASE k = e
    BY <2>3, <2>6, <2>7
  <2>8. CASE k # e
    <3>1. work'.next = f[k] /\ f[k] \in k + 1 .. e
      BY <2>5, <2>6, <2>8
    <3>2. AfterGoodPoint(k) => work'.next = k + 1
      BY <2>5, <2>8, <3>1
    <3> QED BY <2>3, <2>8, <3>1, <3>2
  <2> QED BY <2>7, <2>8
<1> QED BY <1>1, <1>2, <1>3, PTL DEF Spec, RestoreAdvances

=============================================================================
