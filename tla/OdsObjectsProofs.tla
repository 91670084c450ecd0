-------------------------- MODULE OdsObjectsProofs --------------------------
(* OdsStore implements OdsObjects, and reads give what OdsObjects shows, for   *)
(* any number of sessions, objects and values and any nesting of transactions. *)
(* A read takes a section for each page, and in between other sessions store,  *)
(* destroy, commit and roll back: it goes on as it began, from the data file   *)
(* or from the session's own file, until the object is committed anew or freed.*)
EXTENDS OdsStoreObjects, OdsStoreProofs

-----------------------------------------------------------------------------
(* What the operations have made of the objects.                              *)

(* Operation i is the last one that q has for the object n from a to b. *)
LastIn(q, a, b, n, i) == i \in a .. b /\ q[i].id = n /\ \A j \in i + 1 .. b : q[j].id # n

(* The value that the last operation from a to b in the log g gave to n. *)
Made(g, a, b, n) ==
  LET mine == {i \in a .. b : g[i].id = n}
      i    == CHOOSE i \in mine : \A j \in mine : j <= i
  IN IF mine = {} THEN Unset ELSE g[i].val

LEMMA MadeNone ==
  ASSUME NEW g, NEW a, NEW b, NEW n, \A i \in a .. b : g[i].id # n
  PROVE  Made(g, a, b, n) = Unset
BY DEF Made

LEMMA MadeLast ==
  ASSUME NEW g, NEW a \in Int, NEW b \in Int, NEW n, NEW i, LastIn(g, a, b, n, i)
  PROVE  Made(g, a, b, n) = g[i].val
<1> DEFINE mine == {k \in a .. b : g[k].id = n}
           c == CHOOSE k \in mine : \A j \in mine : j <= k
<1>1. i \in mine /\ i \in Int /\ \A j \in mine : j \in Int
  BY DEF LastIn
<1>2. ASSUME NEW j \in mine PROVE j <= i
  <2>1. j \in a .. b /\ g[j].id = n
    OBVIOUS
  <2>2. j \notin i + 1 .. b
    BY <2>1 DEF LastIn
  <2> QED BY <1>1, <2>1, <2>2
<1> HIDE DEF mine
<1>3. c \in mine /\ \A j \in mine : j <= c
  BY <1>1, <1>2
<1>4. c = i
  <2>1. c <= i /\ i <= c /\ c \in Int
    BY <1>1, <1>2, <1>3
  <2> HIDE DEF c
  <2> QED BY <1>1, <2>1
<1>5. Made(g, a, b, n) = IF mine = {} THEN Unset ELSE g[c].val
  BY DEF Made, mine
<1>6. mine # {}
  BY <1>1
<1> HIDE DEF c
<1> QED BY <1>4, <1>5, <1>6

(* Either no operation is for the object, or one of them is the last. *)
LEMMA LastExists ==
  ASSUME NEW g, NEW a \in Nat, NEW b \in Nat, NEW n, NEW j \in a .. b, g[j].id = n
  PROVE  \E i \in a .. b : LastIn(g, a, b, n, i)
<1> DEFINE P(k) == b - k \in a .. b /\ g[b - k].id = n
           K == {k \in Nat : P(k)}
<1>1. b - j \in Nat /\ P(b - j)
  <2>1. b - (b - j) = j /\ b - j \in Nat
    OBVIOUS
  <2> QED BY <2>1
<1>2. \E k \in K : \A l \in K : k <= l
  <2>1. K # {} /\ K \subseteq Nat
    BY <1>1
  <2> HIDE DEF K
  <2> QED BY <2>1, LeastExists
<1>3. PICK k \in K : \A l \in K : k <= l
  BY <1>2
<1> DEFINE i == b - k
<1>4. i \in a .. b /\ g[i].id = n
  OBVIOUS
<1>5. ASSUME NEW m \in i + 1 .. b PROVE g[m].id # n
  <2> SUFFICES ASSUME g[m].id = n PROVE FALSE
    OBVIOUS
  <2>1. m \in Int /\ m > b - k /\ m <= b /\ k \in Nat
    OBVIOUS
  <2>2. b - m \in Nat /\ b - m < k /\ b - (b - m) = m /\ m \in a .. b
    BY <2>1, <1>4
  <2>3. b - m \in K
    BY <2>2
  <2>4. k <= b - m
    BY <1>3, <2>3
  <2> QED BY <2>1, <2>2, <2>4
<1> HIDE DEF i
<1> QED BY <1>4, <1>5 DEF LastIn

(* Logs that agree from a to b have made the same. *)
LEMMA MadeSame ==
  ASSUME NEW g, NEW h, NEW a \in Nat, NEW b \in Nat, NEW n, \A i \in a .. b : h[i] = g[i]
  PROVE  Made(h, a, b, n) = Made(g, a, b, n)
<1>1. CASE \A i \in a .. b : g[i].id # n
  <2>1. \A i \in a .. b : h[i].id # n
    BY <1>1
  <2> QED BY <1>1, <2>1, MadeNone
<1>2. CASE \E j \in a .. b : g[j].id = n
  <2>1. PICK i \in a .. b : LastIn(g, a, b, n, i)
    BY <1>2, LastExists
  <2>2. \A j \in i + 1 .. b : j \in a .. b
    OBVIOUS
  <2>3. LastIn(h, a, b, n, i)
    BY <2>1, <2>2 DEF LastIn
  <2> QED BY <2>1, <2>3, MadeLast
<1> QED BY <1>1, <1>2

(* Operations a to c have given their objects values. *)
Valued(g, a, c) == \A i \in a .. c : g[i].val # Unset

MadeJoined(g, a, b, c, n) ==
  Made(g, a, c, n) = IF Made(g, b + 1, c, n) = Unset THEN Made(g, a, b, n) ELSE Made(g, b + 1, c, n)

(* What operations a to c have made is what those after b have, else those up *)
(* to b.                                                                      *)
LEMMA MadeJoin ==
  ASSUME NEW g, NEW a \in Nat, NEW b \in Nat, NEW c \in Nat, NEW n, a <= b + 1, b <= c,
         Valued(g, a, c)
  PROVE  MadeJoined(g, a, b, c, n)
<1> SUFFICES Made(g, a, c, n) = IF Made(g, b + 1, c, n) = Unset THEN Made(g, a, b, n)
                                ELSE Made(g, b + 1, c, n)
  BY DEF MadeJoined
<1>0. b + 1 \in Nat /\ \A i \in b + 1 .. c : i \in a .. c
  OBVIOUS
<1>1. CASE \E j \in b + 1 .. c : g[j].id = n
  <2>1. PICK i \in b + 1 .. c : LastIn(g, b + 1, c, n, i)
    BY <1>0, <1>1, LastExists
  <2>2. i \in a .. c
    BY <1>0
  <2>3. LastIn(g, a, c, n, i)
    BY <2>1, <2>2 DEF LastIn
  <2>4. Made(g, b + 1, c, n) = g[i].val /\ Made(g, a, c, n) = g[i].val
    BY <1>0, <2>1, <2>3, MadeLast
  <2> QED BY <2>2, <2>4 DEF Valued
<1>2. CASE \A j \in b + 1 .. c : g[j].id # n
  <2>1. Made(g, b + 1, c, n) = Unset
    BY <1>2, MadeNone
  <2>2. CASE \E j \in a .. b : g[j].id = n
    <3>1. PICK i \in a .. b : LastIn(g, a, b, n, i)
      BY <2>2, LastExists
    <3>2. \A j \in i + 1 .. c : j \in i + 1 .. b \/ j \in b + 1 .. c
      OBVIOUS
    <3>3. i \in a .. c
      OBVIOUS
    <3>4. LastIn(g, a, c, n, i)
      BY <1>2, <3>1, <3>2, <3>3 DEF LastIn
    <3>5. Made(g, a, b, n) = g[i].val /\ Made(g, a, c, n) = g[i].val
      BY <3>1, <3>4, MadeLast
    <3> QED BY <2>1, <3>5
  <2>3. CASE \A j \in a .. b : g[j].id # n
    <3>1. \A j \in a .. c : j \in a .. b \/ j \in b + 1 .. c
      OBVIOUS
    <3>2. \A j \in a .. c : g[j].id # n
      BY <1>2, <2>3, <3>1
    <3>3. Made(g, a, b, n) = Unset /\ Made(g, a, c, n) = Unset
      BY <2>3, <3>2, MadeNone
    <3> QED BY <2>1, <3>3
  <2> QED BY <2>2, <2>3
<1> QED BY <1>1, <1>2

(* What the levels v of a log have made. *)
MadeAt(g, level) == [n \in Num |-> Made(g, level.op_offset + 1, level.op_offset + level.op_count, n)]
OverlayOf(g, v) == [l \in 1 .. Len(v) |-> MadeAt(g, v[l])]

(* The log of a session: the objects of its operations and what became of them. *)
OpVal(s, i) == IF ops[s][i].type = "destroy" THEN Absent ELSE OpValue(s, i)
Log(s) == [i \in 1 .. Len(ops[s]) |-> [id |-> ops[s][i].id, val |-> OpVal(s, i)]]

LEMMA LevelIn == \A s \in Session : StoreInv /\ OrderOK =>
  \A l \in 1 .. Len(levels[s]) :
    /\ levels[s][l].op_offset \in Nat /\ levels[s][l].op_count \in Nat
    /\ levels[s][l].op_offset + levels[s][l].op_count <= Len(ops[s])
    /\ Len(ops[s]) \in Nat
<1> SUFFICES ASSUME NEW s \in Session, StoreInv, OrderOK, NEW l \in 1 .. Len(levels[s])
             PROVE  /\ levels[s][l].op_offset \in Nat /\ levels[s][l].op_count \in Nat
                    /\ levels[s][l].op_offset + levels[s][l].op_count <= Len(ops[s])
                    /\ Len(ops[s]) \in Nat
  OBVIOUS
<1>1. levels[s][l].op_offset \in Nat /\ levels[s][l].op_count \in Nat /\ Len(ops[s]) \in Nat
  BY SessionFacts
<1>2. LevelsOrdered(levels[s])
  BY DEF OrderOK, InOrder
<1>3. /\ OpsEnd(s) \in Nat /\ OpsEnd(s) <= Len(ops[s])
      /\ levels[s][l].op_offset + levels[s][l].op_count <= OpsEnd(s)
  BY <1>2, LevelsWithin
<1> DEFINE a == levels[s][l].op_offset
           b == levels[s][l].op_count
           c == Len(ops[s])
<1> HIDE DEF a, b, c
<1>4. a + b <= c
  BY <1>1, <1>3 DEF a, b, c
<1> QED BY <1>1, <1>4 DEF a, b, c

LEMMA OverlayIs == \A s \in Session :
  StoreInv /\ OrderOK => Overlay(s) = OverlayOf(Log(s), levels[s])
<1> SUFFICES ASSUME NEW s \in Session, StoreInv, OrderOK
             PROVE  Overlay(s) = OverlayOf(Log(s), levels[s])
  OBVIOUS
<1>1. ASSUME NEW a \in Nat, NEW b \in Nat, b <= Len(ops[s]), NEW n
      PROVE  Change(s, a + 1, b, n) = Made(Log(s), a + 1, b, n)
  <2> DEFINE mine == {i \in a + 1 .. b : ops[s][i].id = n}
             c == CHOOSE i \in mine : \A j \in mine : j <= i
  <2>1. \A i \in a + 1 .. b : i \in 1 .. Len(ops[s])
    <3>1. Len(ops[s]) \in Nat
      BY SessionFacts
    <3> QED BY <3>1, <1>1
  <2>2. mine = {i \in a + 1 .. b : Log(s)[i].id = n}
    BY <2>1 DEF Log
  <2>3. Change(s, a + 1, b, n) = IF mine = {} THEN Unset ELSE OpVal(s, c)
    BY DEF Change, OpVal
  <2>4. Made(Log(s), a + 1, b, n) = IF mine = {} THEN Unset ELSE Log(s)[c].val
    <3> DEFINE same == {i \in a + 1 .. b : Log(s)[i].id = n}
               d == CHOOSE i \in same : \A j \in same : j <= i
    <3>1. Made(Log(s), a + 1, b, n) = IF same = {} THEN Unset ELSE Log(s)[d].val
      BY DEF Made
    <3>2. mine = same
      BY <2>2
    <3>3. c = d
      <4> HIDE DEF mine, same
      <4> QED BY <3>2
    <3> HIDE DEF mine, same, c, d
    <3> QED BY <3>1, <3>2, <3>3
  <2>5. mine # {} => c \in 1 .. Len(ops[s])
    <3> SUFFICES ASSUME NEW k \in mine PROVE c \in 1 .. Len(ops[s])
      OBVIOUS
    <3>1. \E i \in mine : \A j \in mine : j <= i
      <4>1. a + 1 \in Nat /\ k \in a + 1 .. b /\ ops[s][k].id = n
        OBVIOUS
      <4>2. PICK i \in a + 1 .. b : LastIn(ops[s], a + 1, b, n, i)
        BY <4>1, LastExists
      <4>3. i \in mine
        BY <4>2 DEF LastIn
      <4>4. ASSUME NEW j \in mine PROVE j <= i
        <5>1. j \in a + 1 .. b /\ ops[s][j].id = n
          OBVIOUS
        <5>2. j \notin i + 1 .. b
          BY <4>2, <5>1 DEF LastIn
        <5> QED BY <5>1, <5>2
      <4> QED BY <4>3, <4>4
    <3> HIDE DEF mine
    <3>2. c \in mine
      BY <3>1
    <3> QED BY <2>1, <3>2 DEF mine
  <2> HIDE DEF c, mine
  <2>6. c \in 1 .. Len(ops[s]) => Log(s)[c].val = OpVal(s, c)
    BY DEF Log
  <2> QED BY <2>3, <2>4, <2>5, <2>6
<1>2. levels[s] \in Seq(Level) /\ DOMAIN levels[s] = 1 .. Len(levels[s])
  <2>1. levels[s] \in Seq(Level)
    BY SessionFacts
  <2> QED BY <2>1, LenProperties
<1>3. ASSUME NEW l \in 1 .. Len(levels[s])
      PROVE  [n \in Num |-> Change(s, levels[s][l].op_offset + 1,
                                      levels[s][l].op_offset + levels[s][l].op_count, n)]
             = MadeAt(Log(s), levels[s][l])
  <2> DEFINE a == levels[s][l].op_offset
             b == levels[s][l].op_offset + levels[s][l].op_count
  <2>1. a \in Nat /\ b \in Nat /\ b <= Len(ops[s])
    BY LevelIn
  <2>2. MadeAt(Log(s), levels[s][l]) = [n \in Num |-> Made(Log(s), a + 1, b, n)]
    BY DEF MadeAt
  <2> HIDE DEF a, b
  <2>3. \A n \in Num : Change(s, a + 1, b, n) = Made(Log(s), a + 1, b, n)
    BY <1>1, <2>1
  <2>4. [n \in Num |-> Change(s, a + 1, b, n)] = [n \in Num |-> Made(Log(s), a + 1, b, n)]
    BY <2>3
  <2> QED BY <2>2, <2>4 DEF a, b
<1> QED BY <1>2, <1>3 DEF Overlay, OverlayOf

-----------------------------------------------------------------------------
(* How the overlays of a session change with its levels and its log.          *)

LEMMA OverlayShape ==
  ASSUME NEW g, NEW v \in Seq(Level)
  PROVE  /\ Len(v) \in Nat /\ Len(OverlayOf(g, v)) = Len(v) /\ DOMAIN OverlayOf(g, v) = 1 .. Len(v)
         /\ \A l \in 1 .. Len(v) : OverlayOf(g, v)[l] = MadeAt(g, v[l])
         /\ OverlayOf(g, v) = << >> <=> Len(v) = 0
         /\ OverlayOf(g, v) \in Seq({OverlayOf(g, v)[l] : l \in 1 .. Len(v)})
<1>1. Len(v) \in Nat
  BY LenProperties
<1>2. DOMAIN OverlayOf(g, v) = 1 .. Len(v) /\ \A l \in 1 .. Len(v) : OverlayOf(g, v)[l] = MadeAt(g, v[l])
  BY DEF OverlayOf
<1> DEFINE V == OverlayOf(g, v)
           S == {V[l] : l \in 1 .. Len(v)}
<1>3. V \in Seq(S)
  <2>1. V \in [1 .. Len(v) -> S]
    <3>1. V = [l \in 1 .. Len(v) |-> MadeAt(g, v[l])]
      BY DEF OverlayOf
    <3>2. \A l \in 1 .. Len(v) : MadeAt(g, v[l]) \in S
      BY <1>2
    <3> HIDE DEF V, S
    <3> QED BY <3>1, <3>2
  <2> HIDE DEF V, S
  <2> QED BY <1>1, <2>1, SeqDef
<1>4. Len(V) = Len(v)
  <2> HIDE DEF S
  <2>1. Len(V) \in Nat /\ DOMAIN V = 1 .. Len(V)
    BY <1>3, LenProperties
  <2> HIDE DEF V
  <2> QED BY <1>1, <1>2, <2>1 DEF V
<1>5. V = << >> <=> Len(V) = 0
  <2> HIDE DEF S, V
  <2> QED BY <1>3, EmptySeq
<1> QED BY <1>1, <1>2, <1>3, <1>4, <1>5

(* What appending gives, place by place. *)
LEMMA AppendIs ==
  ASSUME NEW S, NEW q \in Seq(S), NEW e
  PROVE  Append(q, e) = [l \in 1 .. Len(q) + 1 |-> IF l = Len(q) + 1 THEN e ELSE q[l]]
<1> DEFINE T == S \cup {e}
           r == Append(q, e)
<1>1. q \in Seq(T) /\ e \in T /\ Len(q) \in Nat
  <2>1. Len(q) \in Nat /\ q \in [1 .. Len(q) -> S]
    BY LenProperties
  <2>2. q \in [1 .. Len(q) -> T]
    BY <2>1
  <2> HIDE DEF T
  <2>3. q \in Seq(T)
    BY <2>1, <2>2, SeqDef
  <2> QED BY <2>1, <2>3 DEF T
<1> HIDE DEF T
<1>2. /\ r \in Seq(T) /\ Len(r) = Len(q) + 1 /\ r[Len(q) + 1] = e
      /\ \A i \in 1 .. Len(q) : r[i] = q[i]
  BY <1>1, AppendProperties
<1> HIDE DEF r
<1>3. r \in [1 .. Len(q) + 1 -> T]
  BY <1>2, LenProperties
<1>4. \A l \in 1 .. Len(q) + 1 : r[l] = IF l = Len(q) + 1 THEN e ELSE q[l]
  <2>1. \A l \in 1 .. Len(q) + 1 : l = Len(q) + 1 \/ l \in 1 .. Len(q)
    BY <1>1
  <2>2. Len(q) + 1 \notin 1 .. Len(q)
    BY <1>1
  <2> QED BY <1>2, <2>1, <2>2
<1> QED BY <1>3, <1>4 DEF r

LEMMA LevelFields ==
  ASSUME NEW v \in Seq(Level), NEW l \in 1 .. Len(v)
  PROVE  v[l] \in Level /\ v[l].op_offset \in Nat /\ v[l].op_count \in Nat
<1>1. v[l] \in Level
  BY ElementOfSeq
<1> QED BY <1>1 DEF Level

(* Levels that end where the logs still agree. *)
LEMMA MadeAtSame ==
  ASSUME NEW g, NEW h, NEW level \in Level, NEW m \in Nat, level.op_offset + level.op_count <= m,
         \A i \in 1 .. m : h[i] = g[i]
  PROVE  MadeAt(h, level) = MadeAt(g, level)
<1> DEFINE a == level.op_offset + 1
           b == level.op_offset + level.op_count
<1>1. a \in Nat /\ b \in Nat /\ \A i \in a .. b : i \in 1 .. m
  BY DEF Level
<1> HIDE DEF a, b
<1>3. \A i \in a .. b : h[i] = g[i]
  BY <1>1
<1>2. ASSUME NEW n \in Num PROVE Made(h, a, b, n) = Made(g, a, b, n)
  <2>1. a \in Nat /\ b \in Nat
    BY <1>1
  <2> QED BY <2>1, <1>3, MadeSame
<1> QED BY <1>2 DEF MadeAt, a, b

LEMMA OverlaySame ==
  ASSUME NEW g, NEW h, NEW v \in Seq(Level), NEW m \in Nat,
         \A l \in 1 .. Len(v) : v[l].op_offset + v[l].op_count <= m,
         \A i \in 1 .. m : h[i] = g[i]
  PROVE  OverlayOf(h, v) = OverlayOf(g, v)
<1>1. \A l \in 1 .. Len(v) : MadeAt(h, v[l]) = MadeAt(g, v[l])
  BY LevelFields, MadeAtSame
<1> QED BY <1>1 DEF OverlayOf

(* An operation is logged in the innermost level. *)
OneMore(g, h, v, w, m) ==
  /\ Len(v) > 0 /\ Len(w) = Len(v)
  /\ \A l \in 1 .. Len(v) - 1 : w[l] = v[l] /\ v[l].op_offset + v[l].op_count <= m
  /\ w[Len(v)].op_offset = v[Len(v)].op_offset
  /\ w[Len(v)].op_count = v[Len(v)].op_count + 1
  /\ v[Len(v)].op_offset + v[Len(v)].op_count = m
  /\ \A i \in 1 .. m : h[i] = g[i]

LEMMA OverlayLogged ==
  ASSUME NEW g, NEW h, NEW v \in Seq(Level), NEW w \in Seq(Level), NEW m \in Nat, NEW n \in Num,
         OneMore(g, h, v, w, m), h[m + 1].id = n
  PROVE  OverlayOf(h, w) = [OverlayOf(g, v) EXCEPT ![Len(v)][n] = h[m + 1].val]
<1>0. \A i \in 1 .. m : h[i] = g[i]
  BY DEF OneMore
<1> USE DEF OneMore
<1> DEFINE d == Len(v)
           a == v[d].op_offset
           c == v[d].op_count
<1>1. d \in Nat /\ d \in 1 .. d
  BY LenProperties
<1>2. a \in Nat /\ c \in Nat /\ a + c = m /\ w[d].op_offset = a /\ w[d].op_count = c + 1
  BY <1>1, LevelFields
<1>3. \A l \in 1 .. d - 1 : MadeAt(h, w[l]) = MadeAt(g, v[l])
  <2> SUFFICES ASSUME NEW l \in 1 .. d - 1 PROVE MadeAt(h, v[l]) = MadeAt(g, v[l])
    OBVIOUS
  <2>1. l \in 1 .. Len(v)
    BY <1>1
  <2>2. v[l] \in Level
    BY <2>1, LevelFields
  <2> QED BY <2>2, MadeAtSame
<1>4. ASSUME NEW k \in Num
      PROVE  Made(h, a + 1, m + 1, k) = IF k = n THEN h[m + 1].val ELSE Made(g, a + 1, m, k)
  <2> HIDE DEF a, c
  <2>1. CASE k = n
    <3>1. m + 1 \in a + 1 .. m + 1 /\ \A j \in m + 1 + 1 .. m + 1 : FALSE
      BY <1>2
    <3>2. LastIn(h, a + 1, m + 1, k, m + 1)
      BY <2>1, <3>1 DEF LastIn
    <3> QED BY <1>2, <2>1, <3>2, MadeLast
  <2>2. CASE k # n
    <3>1. a + 1 \in Nat /\ m + 1 \in Nat /\ \A i \in a + 1 .. m : i \in 1 .. m
      BY <1>2
    <3>2. Made(h, a + 1, m, k) = Made(g, a + 1, m, k)
      <4> HIDE DEF OneMore
      <4>1. \A i \in a + 1 .. m : h[i] = g[i]
        BY <1>0, <3>1
      <4> QED BY <3>1, <4>1, MadeSame
    <3>3. Made(h, a + 1, m + 1, k) = Made(h, a + 1, m, k)
      <4>1. CASE \A i \in a + 1 .. m : h[i].id # k
        <5>1. \A i \in a + 1 .. m + 1 : i \in a + 1 .. m \/ i = m + 1
          BY <1>2
        <5>2. \A i \in a + 1 .. m + 1 : h[i].id # k
          BY <4>1, <2>2, <5>1
        <5> QED BY <4>1, <5>2, MadeNone
      <4>2. CASE \E i \in a + 1 .. m : h[i].id = k
        <5>1. PICK i \in a + 1 .. m : LastIn(h, a + 1, m, k, i)
          BY <3>1, <4>2, LastExists
        <5>2. i \in a + 1 .. m + 1 /\ \A j \in i + 1 .. m + 1 : j \in i + 1 .. m \/ j = m + 1
          BY <1>2
        <5>3. LastIn(h, a + 1, m + 1, k, i)
          BY <2>2, <5>1, <5>2 DEF LastIn
        <5> QED BY <3>1, <5>1, <5>3, MadeLast
      <4> QED BY <4>1, <4>2
    <3> QED BY <2>2, <3>2, <3>3
  <2> QED BY <2>1, <2>2
<1>5. MadeAt(h, w[d]) = [MadeAt(g, v[d]) EXCEPT ![n] = h[m + 1].val]
  <2>1. MadeAt(g, v[d]) = [k \in Num |-> Made(g, a + 1, m, k)]
    BY <1>2 DEF MadeAt
  <2>2. MadeAt(h, w[d]) = [k \in Num |-> Made(h, a + 1, m + 1, k)]
    <3>1. w[d].op_offset = a /\ w[d].op_offset + w[d].op_count = m + 1
      <4> HIDE DEF a, c, d
      <4> QED BY <1>2
    <3> QED BY <3>1 DEF MadeAt
  <2> HIDE DEF a, c, d
  <2> QED BY <1>4, <2>1, <2>2
<1>6. OverlayOf(h, w) = [l \in 1 .. d |-> MadeAt(h, w[l])] /\ OverlayOf(g, v) = [l \in 1 .. d |-> MadeAt(g, v[l])]
  BY DEF OverlayOf
<1>7. \A l \in 1 .. d : l = d \/ l \in 1 .. d - 1
  BY <1>1
<1> HIDE DEF a, c, d
<1>8. \A l \in 1 .. d : MadeAt(h, w[l]) = IF l = d THEN [MadeAt(g, v[d]) EXCEPT ![n] = h[m + 1].val]
                                          ELSE MadeAt(g, v[l])
  BY <1>1, <1>3, <1>5, <1>7
<1> DEFINE top == [MadeAt(g, v[d]) EXCEPT ![n] = h[m + 1].val]
           V == OverlayOf(g, v)
<1>9. V[d] = MadeAt(g, v[d])
  BY <1>1, <1>6
<1>10. OverlayOf(h, w) = [V EXCEPT ![d] = top]
  <2>1. V = [l \in 1 .. d |-> MadeAt(g, v[l])] /\ OverlayOf(h, w) = [l \in 1 .. d |-> MadeAt(h, w[l])]
    BY <1>6
  <2>2. \A l \in 1 .. d : MadeAt(h, w[l]) = IF l = d THEN top ELSE MadeAt(g, v[l])
    BY <1>8
  <2> HIDE DEF top, V
  <2>3. [V EXCEPT ![d] = top] = [l \in 1 .. d |-> IF l = d THEN top ELSE MadeAt(g, v[l])]
    BY <1>1, <2>1
  <2> QED BY <2>1, <2>2, <2>3
<1>11. [V EXCEPT ![d][n] = h[m + 1].val] = [V EXCEPT ![d] = [V[d] EXCEPT ![n] = h[m + 1].val]]
  OBVIOUS
<1> QED BY <1>9, <1>10, <1>11 DEF d

(* A level is opened, with no operations yet. *)
LEMMA OverlayBegun ==
  ASSUME NEW g, NEW v \in Seq(Level), NEW w \in Seq(Level), NEW level \in Level,
         w = Append(v, level), level.op_count = 0
  PROVE  OverlayOf(g, w) = Append(OverlayOf(g, v), [n \in Num |-> Unset])
<1> DEFINE d == Len(v)
           new == [n \in Num |-> Unset]
<1>1. /\ d \in Nat /\ Len(w) = d + 1 /\ w[d + 1] = level /\ \A l \in 1 .. d : w[l] = v[l]
  BY LenProperties, AppendProperties
<1>2. MadeAt(g, level) = new
  <2>1. level.op_offset \in Nat
    BY DEF Level
  <2>2. \A i \in level.op_offset + 1 .. level.op_offset + level.op_count : FALSE
    BY <2>1
  <2>3. \A n \in Num : Made(g, level.op_offset + 1, level.op_offset + level.op_count, n) = Unset
    BY <2>2, MadeNone
  <2> QED BY <2>3 DEF MadeAt
<1>3. /\ Len(OverlayOf(g, v)) = d /\ Len(OverlayOf(g, w)) = d + 1
      /\ \A l \in 1 .. d : OverlayOf(g, v)[l] = MadeAt(g, v[l])
  BY <1>1, OverlayShape
<1>8. OverlayOf(g, v) \in Seq({OverlayOf(g, v)[l] : l \in 1 .. Len(v)})
  BY OverlayShape
<1>4. OverlayOf(g, w) = [l \in 1 .. d + 1 |-> MadeAt(g, w[l])]
  BY <1>1 DEF OverlayOf
<1>5. \A l \in 1 .. d + 1 : l = d + 1 \/ l \in 1 .. d
  BY <1>1
<1> HIDE DEF d, new
<1>6. \A l \in 1 .. d + 1 : MadeAt(g, w[l]) = IF l = d + 1 THEN new ELSE OverlayOf(g, v)[l]
  BY <1>1, <1>2, <1>3, <1>5
<1>7. Append(OverlayOf(g, v), new) = [l \in 1 .. d + 1 |-> IF l = d + 1 THEN new ELSE OverlayOf(g, v)[l]]
  <2> DEFINE S == {OverlayOf(g, v)[l] : l \in 1 .. Len(v)}
  <2>1. OverlayOf(g, v) \in Seq(S)
    BY <1>8
  <2> HIDE DEF S
  <2> QED BY <1>3, <2>1, AppendIs
<1> QED BY <1>4, <1>6, <1>7 DEF new

(* The innermost level is given up. *)
LEMMA OverlayDropped ==
  ASSUME NEW g, NEW v \in Seq(Level), NEW w \in Seq(Level), Len(v) > 0, Len(w) = Len(v) - 1,
         \A l \in 1 .. Len(w) : w[l] = v[l]
  PROVE  OverlayOf(g, w) = [l \in 1 .. Len(OverlayOf(g, v)) - 1 |-> OverlayOf(g, v)[l]]
<1>1. Len(v) \in Nat /\ Len(OverlayOf(g, v)) = Len(v) /\ \A l \in 1 .. Len(v) : OverlayOf(g, v)[l] = MadeAt(g, v[l])
  BY OverlayShape
<1>2. \A l \in 1 .. Len(w) : MadeAt(g, w[l]) = OverlayOf(g, v)[l]
  <2> SUFFICES ASSUME NEW l \in 1 .. Len(w) PROVE MadeAt(g, w[l]) = OverlayOf(g, v)[l]
    OBVIOUS
  <2>1. l \in 1 .. Len(v) /\ w[l] = v[l]
    BY <1>1
  <2> QED BY <2>1, <1>1
<1>3. OverlayOf(g, w) = [l \in 1 .. Len(w) |-> OverlayOf(g, v)[l]]
  BY <1>2 DEF OverlayOf
<1> QED BY <1>1, <1>3

(* The last level goes into the one outside it. *)
Joined(V, W) ==
  W = [[l \in 1 .. Len(V) - 1 |-> V[l]] EXCEPT ![Len(V) - 1] =
         [n \in Num |-> IF V[Len(V)][n] = Unset THEN @[n] ELSE V[Len(V)][n]]]

(* An inner level hands its operations to the one outside it. *)
LEMMA OverlayJoined ==
  ASSUME NEW g, NEW v \in Seq(Level), NEW w \in Seq(Level), NEW m \in Nat,
         Len(v) > 1, Len(w) = Len(v) - 1, \A l \in 1 .. Len(v) - 2 : w[l] = v[l],
         w[Len(v) - 1].op_offset = v[Len(v) - 1].op_offset,
         w[Len(v) - 1].op_count = v[Len(v) - 1].op_count + v[Len(v)].op_count,
         v[Len(v)].op_offset = v[Len(v) - 1].op_offset + v[Len(v) - 1].op_count,
         v[Len(v)].op_offset + v[Len(v)].op_count <= m,
         \A i \in 1 .. m : g[i].val # Unset
  PROVE  Joined(OverlayOf(g, v), OverlayOf(g, w))
<1> DEFINE V == OverlayOf(g, v)
           d == Len(v)
           e == d - 1
           a == v[e].op_offset
           b == a + v[e].op_count
           c == v[d].op_offset + v[d].op_count
           join == [n \in Num |-> IF V[d][n] = Unset THEN V[e][n] ELSE V[d][n]]
<1>1. d \in Nat /\ e \in Nat /\ e \in 1 .. d /\ d \in 1 .. d /\ e + 1 = d /\ e \in 1 .. Len(w)
  BY LenProperties
<1>2. /\ v[e].op_offset \in Nat /\ v[e].op_count \in Nat /\ v[d].op_offset \in Nat /\ v[d].op_count \in Nat
  BY <1>1, LevelFields
<1>3. Len(V) = d /\ \A l \in 1 .. d : V[l] = MadeAt(g, v[l])
  BY <1>1, OverlayShape
<1>4. a \in Nat /\ b \in Nat /\ c \in Nat /\ a <= b /\ b <= c /\ c <= m /\ v[d].op_offset = b
  BY <1>2
<1>5. w[e].op_offset = a /\ w[e].op_offset + w[e].op_count = c
  <2> DEFINE x == v[e].op_count
             y == v[d].op_count
             o == v[d].op_offset
  <2>1. w[e].op_offset = a /\ w[e].op_count = x + y /\ o = a + x /\ c = o + y
    OBVIOUS
  <2> HIDE DEF a, c, e, d, x, y, o
  <2> QED BY <1>2, <1>4, <2>1 DEF x, y, o, a
<1>6. /\ MadeAt(g, w[e]) = [n \in Num |-> Made(g, a + 1, c, n)]
      /\ V[e] = [n \in Num |-> Made(g, a + 1, b, n)]
      /\ V[d] = [n \in Num |-> Made(g, b + 1, c, n)]
  <2>1. V[e] = MadeAt(g, v[e]) /\ V[d] = MadeAt(g, v[d])
    BY <1>1, <1>3
  <2>2. MadeAt(g, v[e]) = [n \in Num |-> Made(g, a + 1, b, n)]
    BY DEF MadeAt
  <2>3. MadeAt(g, v[d]) = [n \in Num |-> Made(g, b + 1, c, n)]
    BY <1>4 DEF MadeAt
  <2>4. MadeAt(g, w[e]) = [n \in Num |-> Made(g, a + 1, c, n)]
    BY <1>5 DEF MadeAt
  <2> HIDE DEF V, a, b, c, d, e
  <2> QED BY <2>1, <2>2, <2>3, <2>4
<1> HIDE DEF V, a, b, c
<1>7. ASSUME NEW n \in Num
      PROVE  Made(g, a + 1, c, n) = IF Made(g, b + 1, c, n) = Unset THEN Made(g, a + 1, b, n)
                                    ELSE Made(g, b + 1, c, n)
  <2>1. a + 1 \in Nat /\ a + 1 <= b + 1
    BY <1>4
  <2>2. \A i \in a + 1 .. c : i \in 1 .. m
    BY <1>4
  <2>3. \A i \in a + 1 .. c : g[i].val # Unset
    BY <2>2
  <2> DEFINE p == a + 1
  <2>4. p \in Nat /\ p <= b + 1 /\ \A i \in p .. c : g[i].val # Unset
    BY <2>1, <2>3
  <2> HIDE DEF p
  <2>6. p \in Nat
    BY <2>4
  <2>7. p <= b + 1
    BY <2>4
  <2>8. Valued(g, p, c)
    BY <2>4 DEF Valued
  <2>9. b \in Nat
    BY <1>4
  <2>10. c \in Nat
    BY <1>4
  <2>11. b <= c
    BY <1>4
  <2>5. MadeJoined(g, p, b, c, n)
    BY <2>6, <2>7, <2>8, <2>9, <2>10, <2>11, MadeJoin
  <2> QED BY <2>5 DEF p, MadeJoined
<1>8. MadeAt(g, w[e]) = join
  BY <1>6, <1>7
<1>9. \A l \in 1 .. e : l # e => w[l] = v[l] /\ l \in 1 .. d
  <2> SUFFICES ASSUME NEW l \in 1 .. e, l # e PROVE w[l] = v[l] /\ l \in 1 .. d
    OBVIOUS
  <2>1. l \in 1 .. Len(v) - 2 /\ l \in 1 .. d
    BY <1>1
  <2> QED BY <2>1
<1>10. OverlayOf(g, w) = [l \in 1 .. e |-> MadeAt(g, w[l])]
  BY DEF OverlayOf
<1>11. Len(V) - 1 = e
  BY <1>3
<1> HIDE DEF e, d, join
<1>12. \A l \in 1 .. e : MadeAt(g, w[l]) = IF l = e THEN join ELSE V[l]
  BY <1>3, <1>8, <1>9
<1>13. OverlayOf(g, w) = [[l \in 1 .. e |-> V[l]] EXCEPT ![e] = join]
  BY <1>1, <1>10, <1>12
<1>14. [[l \in 1 .. e |-> V[l]] EXCEPT ![e] = [n \in Num |-> IF V[d][n] = Unset THEN @[n] ELSE V[d][n]]]
       = [[l \in 1 .. e |-> V[l]] EXCEPT ![e] = join]
  <2>1. e \in 1 .. e
    BY <1>1
  <2> QED BY <2>1 DEF join
<1>15. OverlayOf(g, w) =
         [[l \in 1 .. e |-> V[l]] EXCEPT ![e] = [n \in Num |-> IF V[d][n] = Unset THEN @[n] ELSE V[d][n]]]
  BY <1>13, <1>14
<1>16. OverlayOf(g, w) =
         [[l \in 1 .. Len(V) - 1 |-> V[l]] EXCEPT ![Len(V) - 1] =
            [n \in Num |-> IF V[Len(V)][n] = Unset THEN @[n] ELSE V[Len(V)][n]]]
  <2>1. e = Len(V) - 1 /\ d = Len(V)
    BY <1>3, <1>11
  <2> QED BY <1>15, <2>1, Zenon
<1> QED BY <1>16 DEF V, Joined

-----------------------------------------------------------------------------
(* What a session sees.                                                       *)

(* The innermost level with a value for the object. *)
Shown(V, c, n) ==
  LET over == {l \in DOMAIN V : V[l][n] # Unset}
  IN IF over = {} THEN c ELSE V[CHOOSE l \in over : \A k \in over : k <= l][n]

EndsBy(v, m) == \A l \in 1 .. Len(v) : v[l].op_offset + v[l].op_count <= m
NoneIn(g, m, n) == \A i \in 1 .. m : g[i].id # n
InLevel(v, i, l) ==
  /\ v[l].op_offset < i /\ i <= v[l].op_offset + v[l].op_count
  /\ \A k \in 1 .. Len(v) : k > l => v[k].op_offset >= i

LEMMA ShownNone ==
  ASSUME NEW g, NEW v \in Seq(Level), NEW m \in Nat, NEW c, NEW n \in Num,
         EndsBy(v, m), NoneIn(g, m, n)
  PROVE  /\ {l \in DOMAIN OverlayOf(g, v) : OverlayOf(g, v)[l][n] # Unset} = {}
         /\ Shown(OverlayOf(g, v), c, n) = c
<1> DEFINE V == OverlayOf(g, v)
<1>1. ASSUME NEW l \in 1 .. Len(v) PROVE V[l][n] = Unset
  <2> DEFINE a == v[l].op_offset
             b == v[l].op_offset + v[l].op_count
  <2>1. a \in Nat /\ b \in Nat /\ b <= m
    BY LevelFields DEF EndsBy
  <2>4. V[l] = MadeAt(g, v[l])
    BY OverlayShape
  <2>2. V[l][n] = Made(g, a + 1, b, n)
    BY <2>4 DEF MadeAt
  <2> HIDE DEF a, b
  <2>3. \A i \in a + 1 .. b : i \in 1 .. m
    BY <2>1
  <2> QED BY <2>2, <2>3, MadeNone DEF NoneIn
<1>2. DOMAIN V = 1 .. Len(v)
  BY OverlayShape
<1>3. {l \in DOMAIN V : V[l][n] # Unset} = {}
  BY <1>1, <1>2
<1> QED BY <1>3 DEF Shown

LEMMA ShownLast ==
  ASSUME NEW g, NEW v \in Seq(Level), NEW m \in Nat, NEW c, NEW n \in Num, NEW i, NEW l \in 1 .. Len(v),
         LastIn(g, 1, m, n, i), g[i].val # Unset,
         EndsBy(v, m), InLevel(v, i, l)
  PROVE  Shown(OverlayOf(g, v), c, n) = g[i].val
<1> DEFINE V == OverlayOf(g, v)
           over == {k \in DOMAIN V : V[k][n] # Unset}
           top == CHOOSE k \in over : \A j \in over : j <= k
<1>1. DOMAIN V = 1 .. Len(v) /\ Len(v) \in Nat
  BY OverlayShape
<1>2. i \in 1 .. m /\ i \in Nat /\ g[i].id = n /\ \A j \in i + 1 .. m : g[j].id # n
  BY DEF LastIn
<1>3. ASSUME NEW k \in 1 .. Len(v)
      PROVE  /\ v[k].op_offset \in Nat /\ v[k].op_offset + v[k].op_count \in Nat
             /\ V[k][n] = Made(g, v[k].op_offset + 1, v[k].op_offset + v[k].op_count, n)
  <2>1. v[k].op_offset \in Nat /\ v[k].op_count \in Nat
    BY LevelFields
  <2>3. V[k] = MadeAt(g, v[k])
    BY OverlayShape
  <2> HIDE DEF V
  <2>2. V[k][n] = Made(g, v[k].op_offset + 1, v[k].op_offset + v[k].op_count, n)
    BY <2>3 DEF MadeAt
  <2> QED BY <2>1, <2>2
<1>4. V[l][n] = g[i].val
  <2> DEFINE a == v[l].op_offset
             b == v[l].op_offset + v[l].op_count
  <2>1. a \in Nat /\ b \in Nat /\ b <= m /\ a < i /\ i <= b /\ V[l][n] = Made(g, a + 1, b, n)
    BY <1>3 DEF EndsBy, InLevel
  <2> HIDE DEF a, b
  <2>2. i \in a + 1 .. b /\ \A j \in i + 1 .. b : j \in i + 1 .. m
    BY <1>2, <2>1
  <2>3. LastIn(g, a + 1, b, n, i)
    BY <1>2, <2>2 DEF LastIn
  <2> QED BY <2>1, <2>3, MadeLast
<1>5. ASSUME NEW k \in 1 .. Len(v), k > l PROVE V[k][n] = Unset
  <2> DEFINE a == v[k].op_offset
             b == v[k].op_offset + v[k].op_count
  <2>1. a \in Nat /\ b \in Nat /\ b <= m /\ a >= i /\ V[k][n] = Made(g, a + 1, b, n)
    BY <1>3, <1>5 DEF EndsBy, InLevel
  <2> HIDE DEF a, b
  <2>2. \A j \in a + 1 .. b : j \in i + 1 .. m
    BY <1>2, <2>1
  <2>3. \A j \in a + 1 .. b : g[j].id # n
    BY <1>2, <2>2
  <2> QED BY <2>1, <2>3, MadeNone
<1>6. l \in over /\ \A k \in over : k \in 1 .. Len(v)
  BY <1>1, <1>4
<1>7. \A k \in over : k <= l
  BY <1>1, <1>5, <1>6
<1> HIDE DEF over
<1>8. top \in over /\ \A j \in over : j <= top
  BY <1>6, <1>7
<1>9. top = l
  <2>1. top <= l /\ l <= top /\ top \in 1 .. Len(v)
    BY <1>6, <1>7, <1>8
  <2> HIDE DEF top
  <2> QED BY <1>1, <2>1
<1>10. Shown(V, c, n) = IF over = {} THEN c ELSE V[top][n]
  BY DEF Shown, over
<1> HIDE DEF top, V
<1> QED BY <1>4, <1>6, <1>9, <1>10 DEF V

(* The level that an operation was logged in. *)
LEMMA LevelOf ==
  ASSUME StoreInv, OrderOK, NEW s \in Session, Len(ops[s]) = OpsEnd(s), NEW i \in 1 .. Len(ops[s])
  PROVE  \E l \in 1 .. Len(levels[s]) :
           /\ levels[s][l].op_offset < i /\ i <= levels[s][l].op_offset + levels[s][l].op_count
           /\ \A k \in 1 .. Len(levels[s]) : k > l => levels[s][k].op_offset >= i
<1> DEFINE v == levels[s]
           d == Len(v)
           m == Len(ops[s])
           K == {k \in Nat : d - k \in 1 .. d /\ v[d - k].op_offset < i}
<1>1. /\ LevelsTouch(s) /\ d \in Nat /\ m \in Nat /\ (InTx(s) <=> d > 0)
      /\ Depth(s) = d
      /\ \A l \in 1 .. d : v[l].op_offset \in Nat /\ v[l].op_count \in Nat
  BY SessionFacts DEF Tile
<1>2. i \in Nat /\ i > 0 /\ i <= m
  BY <1>1
<1>3. InTx(s) /\ d > 0
  BY <1>1, <1>2 DEF OpsEnd
<1>4. m = v[d].op_offset + v[d].op_count
  BY <1>1, <1>3 DEF OpsEnd, Top
<1>5. v[1].op_offset = 0
  BY <1>1, <1>3 DEF LevelsTouch
<1>6. \A l \in 1 .. d - 1 : v[l + 1].op_offset = v[l].op_offset + v[l].op_count
  BY <1>1 DEF LevelsTouch
<1> HIDE DEF v, d, m
<1>7. d - 1 \in K
  <2>1. d - 1 \in Nat /\ d - (d - 1) = 1 /\ 1 \in 1 .. d
    BY <1>1, <1>3
  <2> QED BY <2>1, <1>2, <1>5
<1>8. PICK j \in K : \A k \in K : j <= k
  <2>1. K \in SUBSET Nat /\ K # {}
    BY <1>7
  <2> HIDE DEF K
  <2> QED BY <2>1, LeastExists
<1> DEFINE l == d - j
<1>9. j \in Nat /\ l \in 1 .. d /\ l \in Nat /\ v[l].op_offset < i
  BY <1>1
<1>10. ASSUME NEW k \in 1 .. d, k > l PROVE v[k].op_offset >= i
  <2> SUFFICES ASSUME v[k].op_offset < i PROVE FALSE
    BY <1>1, <1>2
  <2>1. d - k \in Nat /\ d - (d - k) = k /\ d - k < j
    BY <1>1, <1>9, <1>10
  <2>2. d - k \in K
    BY <2>1
  <2> QED BY <1>8, <1>9, <2>1, <2>2
<1> HIDE DEF l
<1>11. i <= v[l].op_offset + v[l].op_count
  <2>1. CASE l = d
    BY <2>1, <1>2, <1>4
  <2>2. CASE l # d
    <3>1. l \in 1 .. d - 1 /\ l + 1 \in 1 .. d /\ l + 1 > l
      BY <2>2, <1>1, <1>9
    <3>2. v[l + 1].op_offset = v[l].op_offset + v[l].op_count
      BY <3>1, <1>6
    <3>3. v[l + 1].op_offset >= i
      BY <3>1, <1>10
    <3> QED BY <3>2, <3>3
  <2> QED BY <2>1, <2>2
<1> QED BY <1>9, <1>10, <1>11 DEF v, d

(* What an operation stored is a sequence of cells. *)
LEMMA LogValues == \A s \in Session : AllInv =>
  \A i \in 1 .. Len(ops[s]) :
    /\ Log(s)[i].id = ops[s][i].id /\ Log(s)[i].val = OpVal(s, i) /\ OpVal(s, i) # Unset
    /\ Changes(ops[s][i]) => OpVal(s, i) = OpValue(s, i) /\ OpValue(s, i) # Absent
    /\ ~Changes(ops[s][i]) => OpVal(s, i) = Absent
<1> SUFFICES ASSUME AllInv, NEW s \in Session, NEW i \in 1 .. Len(ops[s])
             PROVE  /\ Log(s)[i].id = ops[s][i].id /\ Log(s)[i].val = OpVal(s, i) /\ OpVal(s, i) # Unset
                    /\ Changes(ops[s][i]) => OpVal(s, i) = OpValue(s, i) /\ OpValue(s, i) # Absent
                    /\ ~Changes(ops[s][i]) => OpVal(s, i) = Absent
  OBVIOUS
<1>1. StoreInv /\ CellsOK /\ WriterOK(s) /\ InOrder(s)
  BY DEF AllInv, CellInv, WritersOK, OrderOK
<1>2. Log(s)[i].id = ops[s][i].id /\ Log(s)[i].val = OpVal(s, i)
  BY DEF Log
<1>3. ASSUME NEW x \in Seq(Fill) PROVE x # Absent /\ x # Unset
  BY <1>3, ObjectsAssumption DEF Fill
<1>4. Absent # Unset
  BY ObjectsAssumption
<1>5. ASSUME Changes(ops[s][i]) PROVE OpValue(s, i) \in Seq(Fill)
  <2> DEFINE op == ops[s][i]
             z == op.size
             p == op.pos
             m == total_trans_size[s]
  <2>1. z \in Nat /\ p \in Nat /\ m \in Nat /\ Len(ops[s]) \in Nat /\ i <= Len(ops[s])
    BY <1>1, SessionFacts
  <2>2. p + z <= m /\ m <= MaxTransData
    BY <1>1, <1>5, <2>1 DEF InOrder, OpsBefore, EndOf
  <2>3. CASE pc[s] = "storing" /\ i = Len(ops[s])
    <3>1. write[s].val \in Fill
      BY <1>1, <2>3 DEF WriterOK, Storing, Fill
    <3>2. OpValue(s, i) = [c \in 1 .. z |-> write[s].val]
      BY <2>3 DEF OpValue
    <3> HIDE DEF z
    <3>3. [c \in 1 .. z |-> write[s].val] \in [1 .. z -> Fill]
      BY <3>1
    <3> QED BY <2>1, <3>2, <3>3, SeqDef
  <2>4. CASE ~(pc[s] = "storing" /\ i = Len(ops[s]))
    <3>1. OpValue(s, i) = [c \in 1 .. z |-> trans_data[s][p + c - 1]]
      BY <2>4 DEF OpValue
    <3>2. trans_data[s] \in [0 .. MaxTransData - 1 -> Fill]
      BY <1>1 DEF CellsOK
    <3> HIDE DEF z, p, m
    <3>3. \A c \in 1 .. z : p + c - 1 \in 0 .. MaxTransData - 1
      BY <2>1, <2>2, ConstFacts
    <3>4. [c \in 1 .. z |-> trans_data[s][p + c - 1]] \in [1 .. z -> Fill]
      BY <3>2, <3>3
    <3>5. OpValue(s, i) \in [1 .. z -> Fill]
      BY <3>1, <3>4
    <3> QED BY <2>1, <3>5, SeqDef
  <2> QED BY <2>3, <2>4
<1>6. CASE Changes(ops[s][i])
  <2>1. OpVal(s, i) = OpValue(s, i)
    BY <1>6 DEF OpVal, Changes
  <2> QED BY <1>2, <1>3, <1>5, <1>6, <2>1
<1>7. CASE ~Changes(ops[s][i])
  <2>1. OpVal(s, i) = Absent
    BY <1>7 DEF OpVal, Changes
  <2> QED BY <1>2, <1>4, <1>7, <2>1
<1> QED BY <1>6, <1>7

LEMMA ViewShown ==
  ASSUME NEW s \in Session, NEW n \in Num
  PROVE  Objects!View(s, n) = Shown(Overlay(s), Committed(n), n)
BY DEF Objects!View, Objects!Overlaid, Shown

(* An object that no operation of the session is for. *)
LEMMA ViewNone == \A s \in Session, n \in Num :
  AllInv /\ (\A i \in 1 .. Len(ops[s]) : ops[s][i].id # n) =>
    Objects!Overlaid(s, n) = {} /\ Objects!View(s, n) = Committed(n)
<1> SUFFICES ASSUME NEW s \in Session, NEW n \in Num, AllInv,
                    \A i \in 1 .. Len(ops[s]) : ops[s][i].id # n
             PROVE  Objects!Overlaid(s, n) = {} /\ Objects!View(s, n) = Committed(n)
  OBVIOUS
<1> DEFINE g == Log(s)
           v == levels[s]
           m == Len(ops[s])
<1>1. StoreInv /\ OrderOK
  BY DEF AllInv, CellInv
<1>2. Overlay(s) = OverlayOf(g, v) /\ v \in Seq(Level) /\ m \in Nat
  BY <1>1, OverlayIs, SessionFacts
<1>3. EndsBy(v, m)
  BY <1>1, LevelIn DEF EndsBy
<1>4. NoneIn(g, m, n)
  BY LogValues DEF NoneIn
<1> HIDE DEF g, v, m
<1>5. /\ {l \in DOMAIN OverlayOf(g, v) : OverlayOf(g, v)[l][n] # Unset} = {}
      /\ Shown(OverlayOf(g, v), Committed(n), n) = Committed(n)
  BY <1>2, <1>3, <1>4, ShownNone
<1>6. Objects!Overlaid(s, n) = {l \in DOMAIN Overlay(s) : Overlay(s)[l][n] # Unset}
  BY DEF Objects!Overlaid
<1> QED BY <1>2, <1>5, <1>6, ViewShown

(* The session is in no commit and no rollback. *)
Calm(s) == pc[s] \notin {"committing", "rolling back"}

LEMMA CalmOps ==
  ASSUME StoreInv, NEW s \in Session, Calm(s)
  PROVE  Len(ops[s]) = OpsEnd(s)
BY SessionFacts DEF Calm, Tile

(* ... and one that the session has stored or destroyed in its transactions. *)
LEMMA ViewLast == \A s \in Session, n \in Num :
  AllInv /\ Calm(s) =>
    \A i \in 1 .. Len(ops[s]) : LastIn(ops[s], 1, Len(ops[s]), n, i) => Objects!View(s, n) = OpVal(s, i)
<1> SUFFICES ASSUME NEW s \in Session, NEW n \in Num, AllInv, Calm(s),
                    NEW i \in 1 .. Len(ops[s]), LastIn(ops[s], 1, Len(ops[s]), n, i)
             PROVE  Objects!View(s, n) = OpVal(s, i)
  OBVIOUS
<1> DEFINE g == Log(s)
           v == levels[s]
           m == Len(ops[s])
<1>1. StoreInv /\ OrderOK
  BY DEF AllInv, CellInv
<1>2. Overlay(s) = OverlayOf(g, v) /\ v \in Seq(Level) /\ m \in Nat
  BY <1>1, OverlayIs, SessionFacts
<1>3. EndsBy(v, m)
  BY <1>1, LevelIn DEF EndsBy
<1>4. PICK l \in 1 .. Len(v) : InLevel(v, i, l)
  BY <1>1, CalmOps, LevelOf DEF InLevel
<1>5. LastIn(g, 1, m, n, i) /\ g[i].val = OpVal(s, i) /\ g[i].val # Unset
  <2>1. \A j \in 1 .. m : g[j].id = ops[s][j].id
    BY LogValues
  <2>2. \A j \in i + 1 .. m : j \in 1 .. m
    OBVIOUS
  <2>3. LastIn(g, 1, m, n, i)
    BY <2>1, <2>2 DEF LastIn
  <2> QED BY <2>3, LogValues
<1> HIDE DEF g, v, m
<1>6. Shown(OverlayOf(g, v), Committed(n), n) = g[i].val
  BY <1>2, <1>3, <1>4, <1>5, ShownLast
<1> QED BY <1>2, <1>5, <1>6, ViewShown

-----------------------------------------------------------------------------
(* What an entry stands for.                                                  *)

LEMMA StandsForNone == \A k \in Num :
  k >= total_entries \/ index[k].trans = "free_list" => Committed(k) = Absent
BY DEF Committed

(* The session that has marked an entry. *)
MarkOf(s, n) == HasMark(n) /\ Active(s) /\ tran_id[s] = index[n].tran_id

(* An entry that is in use and that nobody has locked or marked. *)
Settled(n) == n < total_entries /\ index[n].lock = "none" /\ index[n].trans = "none"

Writes(s, n) == pc[s] = "writing" /\ write[s].num = n

LEMMA StandsSettled == \A k \in Num : AllInv /\ Settled(k) => Committed(k) = CellsOf(index[k])
<1> SUFFICES ASSUME NEW n \in Num, AllInv, Settled(n) PROVE Committed(n) = CellsOf(index[n])
  OBVIOUS
<1>1. ~(n >= total_entries)
  <2>1. HeaderOK
    BY DEF AllInv, StoreInv, IndexInv
  <2> QED BY <2>1, NumFacts DEF Settled
<1> QED BY <1>1 DEF Committed, Settled

LEMMA StandsWritten == \A k \in Num, u \in Session : AllInv /\ Writes(u, k) =>
  Committed(k) = [c \in 1 .. index[k].size |-> write[u].val] /\ index[k].lock = "entry" /\ k \in Stored
<1> SUFFICES ASSUME NEW n \in Num, NEW s \in Session, AllInv, Writes(s, n)
             PROVE  /\ Committed(n) = [c \in 1 .. index[n].size |-> write[s].val]
                    /\ index[n].lock = "entry" /\ n \in Stored
  OBVIOUS
<1>1. StoreInv /\ HeaderOK /\ LockInv /\ WritersOK /\ MarkInv /\ ExtentInv /\ RoomLeft /\ StoredWhereLogged
  BY DEF AllInv, CellInv, StoreInv, IndexInv
<1>2. pc[s] = "writing" /\ write[s].num = n /\ Writing(s)
  BY <1>1 DEF Writes, WritersOK, WriterOK
<1>3. n \in Stored /\ n < total_entries /\ index[n].lock = "entry" /\ index[n].trans = "none"
  BY <1>1, <1>2, WriterAt
<1>4. ~(n >= total_entries)
  BY <1>1, <1>3, NumFacts
<1>5. ASSUME NEW t \in Session, write[t].num = n PROVE t = s
  <2>1. CASE pc[t] = "writing"
    BY <1>1, <1>2, <1>5, <2>1 DEF LockInv
  <2>2. CASE pc[t] = "storing"
    <3>1. ops[t][Len(ops[t])].id = n /\ Storing(t) /\ pc[t] # "committing" /\ Calm(t)
      BY <1>1, <1>5, <2>2 DEF StoredWhereLogged, WritersOK, WriterOK, Calm
    <3>2. Len(ops[t]) > 0 /\ Len(ops[t]) \in Nat /\ Live(t) = Len(ops[t])
      BY <1>1, <3>1, LiveOps DEF Storing, Calm, MarkInv
    <3>3. Len(ops[t]) \in 1 .. Live(t)
      BY <3>2
    <3>4. HasMark(n)
      BY <1>1, <3>1, <3>3 DEF MarkInv, OpsMarked
    <3> QED BY <1>3, <3>4 DEF HasMark
  <2>3. CASE pc[t] \notin {"writing", "storing"}
    <3>1. write[t].num = -1
      BY <1>1, <2>3 DEF WritersOK, WriterOK
    <3>2. n >= 0
      BY DEF Num
    <3> QED BY <1>5, <3>1, <3>2
  <2> QED BY <2>1, <2>2, <2>3
<1>6. (CHOOSE t \in Session : write[t].num = n) = s
  BY <1>2, <1>5
<1>7. Committed(n) = [c \in 1 .. index[n].size |-> write[CHOOSE t \in Session : write[t].num = n].val]
  BY <1>3, <1>4 DEF Committed
<1> QED BY <1>3, <1>6, <1>7

LEMMA StandsMarked == \A k \in Num, u \in Session : AllInv /\ MarkOf(u, k) =>
  Committed(k) = ChangedBy(u, k) /\ index[k].lock = "none" /\ k \in Stored /\ k < total_entries
<1> SUFFICES ASSUME NEW n \in Num, NEW s \in Session, AllInv, MarkOf(s, n)
             PROVE  Committed(n) = ChangedBy(s, n) /\ index[n].lock = "none" /\ n \in Stored /\ n < total_entries
  OBVIOUS
<1>1. HeaderOK /\ LockInv /\ MarkInv /\ index \in [Num -> Entry]
  BY DEF AllInv, StoreInv, IndexInv, HeaderOK
<1>2. /\ index[n].trans \in {"change", "delete"} /\ Active(s) /\ tran_id[s] = index[n].tran_id
  BY DEF MarkOf, HasMark
<1>3. index[n].lock = "none"
  <2>1. index[n].lock \in {"none", "entry"}
    BY <1>1 DEF Entry
  <2> QED BY <1>1, <1>2, <2>1 DEF LockInv
<1>4. total_entries \in Nat /\ n \in Nat /\ n < total_entries /\ n \in 0 .. total_entries - 1
  <2>1. total_entries \in Nat /\ n \in Nat
    BY <1>1, NumFacts DEF Num
  <2>2. ~(n >= total_entries)
    BY <1>1, <1>2 DEF MarkInv, Unnamed
  <2> QED BY <2>1, <2>2
<1>5. n \in Stored
  BY <1>2, <1>4 DEF Stored
<1>6. \A t \in Session : Active(t) /\ tran_id[t] = index[n].tran_id => t = s
  BY <1>1, <1>2 DEF MarkInv, OwnIds
<1>7. (CHOOSE t \in Session : Active(t) /\ tran_id[t] = index[n].tran_id) = s
  BY <1>2, <1>6
<1>8. Committed(n) = ChangedBy(CHOOSE t \in Session : Active(t) /\ tran_id[t] = index[n].tran_id, n)
  <2>1. ~(n >= total_entries) /\ index[n].trans # "free_list" /\ index[n].lock # "entry" /\ index[n].trans # "none"
    BY <1>2, <1>3, <1>4
  <2> QED BY <2>1 DEF Committed
<1> QED BY <1>3, <1>4, <1>5, <1>7, <1>8

(* There is nothing else an entry can be. *)
LEMMA EntryCases == \A n \in Num : AllInv =>
    \/ n >= total_entries \/ index[n].trans = "free_list"
    \/ Settled(n)
    \/ \E s \in Session : Writes(s, n)
    \/ \E s \in Session : MarkOf(s, n)
<1> SUFFICES ASSUME NEW n \in Num, AllInv
             PROVE  \/ n >= total_entries \/ index[n].trans = "free_list"
                    \/ Settled(n)
                    \/ \E s \in Session : Writes(s, n)
                    \/ \E s \in Session : MarkOf(s, n)
  OBVIOUS
<1> SUFFICES ASSUME n < total_entries, index[n].trans # "free_list"
             PROVE  \/ Settled(n)
                    \/ \E s \in Session : Writes(s, n)
                    \/ \E s \in Session : MarkOf(s, n)
  <2>1. HeaderOK
    BY DEF AllInv, StoreInv, IndexInv
  <2>2. n >= total_entries \/ n < total_entries
    BY <2>1, NumFacts DEF Num
  <2> QED BY <2>2
<1>1. LockInv /\ MarksNamed /\ index \in [Num -> Entry]
  BY DEF AllInv, StoreInv, IndexInv, HeaderOK, MarkInv
<1>2. index[n].lock \in {"none", "entry"} /\ index[n].trans \in {"none", "change", "delete"}
  BY <1>1 DEF Entry
<1>3. CASE index[n].lock = "entry"
  BY <1>1, <1>3 DEF LockInv, Writes
<1>4. CASE HasMark(n)
  BY <1>1, <1>4 DEF MarksNamed, MarkOf
<1> QED BY <1>2, <1>3, <1>4 DEF Settled, HasMark

(* An entry that a session may change has a value. *)
LEMMA SettledThere == \A n \in Num : AllInv /\ Settled(n) => Committed(n) # Absent
<1> SUFFICES ASSUME NEW n \in Num, AllInv, Settled(n) PROVE Committed(n) # Absent
  OBVIOUS
<1>1. StoreInv /\ HeaderOK /\ CellsOK /\ ExtentInv /\ total_size_of_data <= MaxData
  BY RoomFits DEF AllInv, CellInv, StoreInv, IndexInv
<1>2. n \in Stored
  <2>1. n \in 0 .. total_entries - 1
    BY <1>1, NumFacts DEF Settled, Num
  <2> QED BY <2>1 DEF Stored, Settled
<1> DEFINE z == index[n].size
           p == index[n].pos
           m == total_size_of_data
<1>3. z \in Nat /\ p \in Int /\ m \in Int
  BY <1>1 DEF HeaderOK, Entry
<1>4. 0 <= p /\ p + z <= m /\ m <= MaxData
  BY <1>1, <1>2 DEF ExtentInv, ExtentsApart, FitsFor, InData
<1>5. CellsOf(index[n]) = [c \in 1 .. z |-> data[p + c - 1]]
  BY DEF CellsOf
<1>6. data \in [Cell -> Fill]
  BY <1>1 DEF CellsOK
<1> HIDE DEF z, p, m
<1>7. \A c \in 1 .. z : p + c - 1 \in Cell
  BY <1>3, <1>4, ConstFacts DEF Cell
<1>8. CellsOf(index[n]) \in [1 .. z -> Fill]
  BY <1>5, <1>6, <1>7
<1>9. CellsOf(index[n]) \in Seq(Fill)
  BY <1>3, <1>8, SeqDef
<1>10. CellsOf(index[n]) # Absent
  BY <1>9, ObjectsAssumption DEF Fill
<1> QED BY <1>10, StandsSettled

-----------------------------------------------------------------------------
(* What a step leaves of it.                                                  *)

LEMMA ExtentIn ==
  ASSUME AllInv, NEW n \in Stored
  PROVE  /\ n \in Num /\ index[n].pos \in Nat /\ index[n].size \in Nat
         /\ \A c \in index[n].pos .. index[n].pos + index[n].size - 1 : c \in Cell
         /\ \A c \in 1 .. index[n].size :
              index[n].pos + c - 1 \in index[n].pos .. index[n].pos + index[n].size - 1
<1>1. StoreInv /\ HeaderOK /\ ExtentInv /\ total_size_of_data <= MaxData
  BY RoomFits DEF AllInv, CellInv, StoreInv, IndexInv
<1>2. n \in Num
  BY <1>1, NumFacts DEF Stored
<1> DEFINE z == index[n].size
           p == index[n].pos
           m == total_size_of_data
<1>3. z \in Nat /\ p \in Int /\ m \in Int
  BY <1>1, <1>2 DEF HeaderOK, Entry
<1>4. 0 <= p /\ p + z <= m /\ m <= MaxData
  BY <1>1, <1>2 DEF ExtentInv, ExtentsApart, FitsFor, InData
<1> HIDE DEF z, p, m
<1>5. p \in Nat /\ \A c \in p .. p + z - 1 : c \in Cell
  BY <1>3, <1>4, ConstFacts DEF Cell
<1>6. \A c \in 1 .. z : p + c - 1 \in p .. p + z - 1
  BY <1>3, <1>5
<1> QED BY <1>2, <1>3, <1>5, <1>6 DEF z, p

(* The cells that a step changes are those of an entry it changes. *)
LEMMA DataKept ==
  ASSUME AllInv, NEW s \in Session, StepOf(s), NEW n \in Stored, index[n].lock = "none",
         index'[n] = index[n]
  PROVE  \A c \in index[n].pos .. index[n].pos + index[n].size - 1 : data'[c] = data[c]
<1>1. StoreInv /\ MarkInv /\ ExtentInv /\ CellsOK /\ RoomLeft /\ WritersOK /\ HeaderOK
  BY DEF AllInv, CellInv, StoreInv, IndexInv
<1>2. /\ n \in Num
      /\ \A c \in index[n].pos .. index[n].pos + index[n].size - 1 : c \in Cell
  BY ExtentIn
<1>3. CASE UNCHANGED data
  BY <1>3
<1>4. CASE NextPage(s) \/ FinishWrite(s)
  <2>1. pc[s] = "writing" /\ data' = Put(page_copy[s])
    BY <1>4 DEF NextPage, FinishWrite
  <2>2. Writing(s) /\ PageHeld(s)
    BY <1>1, <2>1 DEF WritersOK, WriterOK
  <2>3. /\ write[s].num \in Stored /\ index[write[s].num].pos = write[s].pos
        /\ index[write[s].num].size = write[s].size /\ index[write[s].num].lock = "entry"
    BY <1>1, <2>1, <2>2, WriterAt
  <2>4. write[s].num # n
    BY <2>3
  <2>5. \A c \in index[n].pos .. index[n].pos + index[n].size - 1 :
          c \notin write[s].pos .. write[s].pos + write[s].size - 1
    BY <1>1, <2>3, <2>4, TwoExtents
  <2>6. page_copy[s] # NoPage
    <3>1. CASE NextPage(s)
      BY <3>1 DEF NextPage
    <3>2. CASE FinishWrite(s)
      <4>1. page_copy[s].page = LastPage(write[s])
        BY <3>2 DEF FinishWrite
      <4>2. LastPage(write[s]) \in Nat
        <5>1. write[s].pos \in Nat /\ write[s].size \in Nat /\ write[s].size > 0
          BY <1>1, <2>1, <2>2, WriterAt
        <5> QED BY <5>1, PagesOf
      <4>3. NoPage.page = -1
        BY DEF NoPage
      <4> QED BY <4>1, <4>2, <4>3
    <3> QED BY <1>4, <3>1, <3>2
  <2>7. data' = [c \in Cell |-> IF PageOf(c) = page_copy[s].page
                                   /\ c \in write[s].pos .. write[s].pos + write[s].size - 1
                                THEN write[s].val ELSE data[c]]
    BY <2>1, <2>2, <2>6, PutCells
  <2> QED BY <1>2, <2>5, <2>7
<1>5. CASE CommitOp(s)
  <2> DEFINE op == ops[s][work[s].cursor]
  <2>1. UNCHANGED data \/ CommitChange(s, op)
    BY <1>5 DEF CommitOp, CommitDelete, CommitSkip
  <2>2. CASE CommitChange(s, op)
    <3> HIDE DEF op
    <3>1. /\ op.id \in Num
          /\ \A m \in Stored \ {op.id} :
              \A c \in index[m].pos .. index[m].pos + index[m].size - 1 :
                c \notin CommitPos(op) .. CommitPos(op) + op.size - 1
          /\ data' = [c \in Cell |-> IF c \in CommitPos(op) .. CommitPos(op) + op.size - 1
                                    THEN trans_data[s][op.pos + (c - CommitPos(op))] ELSE data[c]]
      BY <1>1, <1>5, <2>2, ChangePlaced DEF op
    <3>2. n # op.id
      <4>1. index[op.id].trans = "change" /\ index'[op.id].trans = "none"
        BY <1>1, <2>2, <3>1 DEF CommitChange, HeaderOK, Entry
      <4> QED BY <4>1
    <3> QED BY <1>2, <3>1, <3>2
  <2> QED BY <1>3, <2>1, <2>2
<1>6. \/ NextPage(s) \/ FinishWrite(s) \/ CommitOp(s) \/ UNCHANGED data
  BY DEF StepOf, HolderStep, Create, Revive, Update, Store, Destroy, StartRead, FinishStore, FetchPage,
         ReadPage, FinishRead, TransactionStart, CommitInner, CommitBegin, RollbackBegin, CommitEnd,
         RollbackOp, RollbackEnd
<1> QED BY <1>3, <1>4, <1>5, <1>6

(* The same after a step. *)
LEMMA StandsForNoneLater == (\A k \in Num : k >= total_entries \/ index[k].trans = "free_list" => Committed(k) = Absent)'
BY StandsForNone, PTL

LEMMA StandsSettledLater == (\A k \in Num : AllInv /\ Settled(k) => Committed(k) = CellsOf(index[k]))'
BY StandsSettled, PTL

LEMMA StandsWrittenLater == (\A k \in Num, u \in Session : AllInv /\ Writes(u, k) =>
  Committed(k) = [c \in 1 .. index[k].size |-> write[u].val] /\ index[k].lock = "entry" /\ k \in Stored)'
BY StandsWritten, PTL

LEMMA StandsMarkedLater == (\A k \in Num, u \in Session : AllInv /\ MarkOf(u, k) =>
  Committed(k) = ChangedBy(u, k) /\ index[k].lock = "none" /\ k \in Stored /\ k < total_entries)'
BY StandsMarked, PTL

(* What an entry with a mark stands for depends on. *)
ChangeKept(t, n) ==
  /\ pc'[t] = "committing" <=> pc[t] = "committing"
  /\ pc[t] # "committing" => (CreatedIn(t, n)' <=> CreatedIn(t, n))
  /\ pc[t] = "committing" /\ index[n].trans = "change" =>
       OpValue(t, index[n].tran_op)' = OpValue(t, index[n].tran_op)

LEMMA ChangeAlone ==
  ASSUME NEW t \in Session, Alone(t), NEW n \in Num, index'[n] = index[n]
  PROVE  /\ ChangeKept(t, n) /\ (MarkOf(t, n) => MarkOf(t, n)')
         /\ Writes(t, n) => Writes(t, n)' /\ write'[t] = write[t]
<1>1. pc'[t] = pc[t] /\ ops'[t] = ops[t] /\ write'[t] = write[t] /\ trans_data'[t] = trans_data[t]
      /\ levels'[t] = levels[t] /\ tran_id'[t] = tran_id[t]
  BY DEF Alone
<1>2. CreatedIn(t, n)' <=> CreatedIn(t, n)
  BY <1>1 DEF CreatedIn
<1>3. OpValue(t, index[n].tran_op)' = OpValue(t, index[n].tran_op)
  BY <1>1 DEF OpValue
<1>4. MarkOf(t, n) => MarkOf(t, n)'
  BY <1>1 DEF MarkOf, HasMark, Active, InTx
<1> QED BY <1>1, <1>2, <1>3, <1>4 DEF ChangeKept, Writes

LEMMA CommittedKept ==
  ASSUME AllInv, AllInv', NEW s \in Session, StepOf(s), NEW n \in Num, index'[n] = index[n],
         n < total_entries' <=> n < total_entries,
         Writes(s, n) => Writes(s, n)' /\ write'[s] = write[s],
         MarkOf(s, n) => MarkOf(s, n)' /\ ChangeKept(s, n)
  PROVE  Committed(n)' = Committed(n)
<1>1. StoreInv /\ CellsOK /\ total_entries \in Nat /\ total_entries' \in Nat /\ n \in Nat
  <2>1. HeaderOK /\ HeaderOK' /\ StoreInv /\ CellsOK
    BY DEF AllInv, CellInv, StoreInv, IndexInv
  <2>2. MaxEntries \in Nat
    BY StoreAssumption
  <2>3. total_entries \in 0 .. MaxEntries /\ total_entries' \in 0 .. MaxEntries
    BY <2>1 DEF HeaderOK
  <2> QED BY <2>1, <2>2, <2>3 DEF Num
<1>2. ASSUME NEW t \in Session
      PROVE  /\ Writes(t, n) => Writes(t, n)' /\ write'[t] = write[t]
             /\ MarkOf(t, n) => MarkOf(t, n)' /\ ChangeKept(t, n)
  <2>1. CASE t = s
    BY <2>1
  <2>2. CASE t # s
    BY <1>1, <2>2, OthersAlone, ChangeAlone
  <2> QED BY <2>1, <2>2
<1>3. CASE n >= total_entries \/ index[n].trans = "free_list"
  <2>1. n >= total_entries' \/ index'[n].trans = "free_list"
    BY <1>1, <1>3
  <2>2. (\A k \in Num : k >= total_entries \/ index[k].trans = "free_list" => Committed(k) = Absent)'
    BY StandsForNoneLater
  <2> QED BY <1>3, <2>1, <2>2, StandsForNone
<1>4. n \in Stored /\ index[n].lock = "none" => CellsOf(index[n])' = CellsOf(index[n])
  <2> SUFFICES ASSUME n \in Stored, index[n].lock = "none" PROVE CellsOf(index[n])' = CellsOf(index[n])
    OBVIOUS
  <2>1. \A c \in 1 .. index[n].size : data'[index[n].pos + c - 1] = data[index[n].pos + c - 1]
    BY DataKept, ExtentIn
  <2> QED BY <2>1 DEF CellsOf
<1>5. CASE Settled(n)
  <2>1. n \in Stored /\ index[n].lock = "none"
    <3>1. n \in 0 .. total_entries - 1
      BY <1>1, <1>5 DEF Settled
    <3> QED BY <1>5, <3>1 DEF Settled, Stored
  <2>2. Settled(n)'
    BY <1>5 DEF Settled
  <2>3. (\A k \in Num : AllInv /\ Settled(k) => Committed(k) = CellsOf(index[k]))'
    BY StandsSettledLater
  <2>4. Committed(n)' = CellsOf(index[n])'
    BY <2>2, <2>3
  <2>5. Committed(n) = CellsOf(index[n])
    BY <1>5, StandsSettled
  <2> QED BY <1>4, <2>1, <2>4, <2>5
<1>6. ASSUME NEW t \in Session, Writes(t, n) PROVE Committed(n)' = Committed(n)
  <2>1. Writes(t, n)' /\ write'[t] = write[t]
    BY <1>2, <1>6
  <2>2. (\A k \in Num, u \in Session : AllInv /\ Writes(u, k) =>
           Committed(k) = [c \in 1 .. index[k].size |-> write[u].val] /\ index[k].lock = "entry" /\ k \in Stored)'
    BY StandsWrittenLater
  <2>3. Committed(n)' = [c \in 1 .. index'[n].size |-> write'[t].val]
    BY <2>1, <2>2
  <2>4. Committed(n) = [c \in 1 .. index[n].size |-> write[t].val]
    BY <1>6, StandsWritten
  <2> QED BY <2>1, <2>3, <2>4
<1>7. ASSUME NEW t \in Session, MarkOf(t, n) PROVE Committed(n)' = Committed(n)
  <2>1. MarkOf(t, n)' /\ ChangeKept(t, n)
    BY <1>2, <1>7
  <2>2. (\A k \in Num, u \in Session : AllInv /\ MarkOf(u, k) =>
           Committed(k) = ChangedBy(u, k) /\ index[k].lock = "none" /\ k \in Stored /\ k < total_entries)'
    BY StandsMarkedLater
  <2>3. Committed(n)' = ChangedBy(t, n)'
    BY <2>1, <2>2
  <2>4. Committed(n) = ChangedBy(t, n) /\ index[n].lock = "none" /\ n \in Stored
    BY <1>7, StandsMarked
  <2>5. index[n].trans \in {"change", "delete"}
    BY <1>7 DEF MarkOf, HasMark
  <2>6. ChangedBy(t, n)' = ChangedBy(t, n)
    BY <1>4, <2>1, <2>4, <2>5 DEF ChangedBy, ChangeKept
  <2> QED BY <2>3, <2>4, <2>6
<1> QED BY <1>3, <1>5, <1>6, <1>7, EntryCases

-----------------------------------------------------------------------------
(* A step of OdsObjects, from what a step of the store does to the objects    *)
(* and to the changes of the transactions.                                    *)

SameObjects == \A n \in Num : Committed(n)' = Committed(n)
SameChanges == \A t \in Session : Overlay(t)' = Overlay(t)
OthersChanges(s) == \A t \in Session \ {s} : Overlay(t)' = Overlay(t)
NobodyElse(s, n) == \A t \in Session \ {s} : Objects!Overlaid(t, n) = {}

Abstract == << [n \in Num |-> Committed(n)], [s \in Session |-> Overlay(s)] >>

LEMMA Stutters ==
  ASSUME SameObjects, SameChanges
  PROVE  UNCHANGED Abstract
<1>1. [n \in Num |-> Committed(n)]' = [n \in Num |-> Committed(n)]
  BY DEF SameObjects
<1>2. [s \in Session |-> Overlay(s)]' = [s \in Session |-> Overlay(s)]
  BY DEF SameChanges
<1> QED BY <1>1, <1>2 DEF Abstract

LEMMA SetsInside ==
  ASSUME NEW s \in Session, NEW n \in Num, NEW v \in Object \cup {Absent},
         NobodyElse(s, n), v = Absent => Objects!View(s, n) # Absent, Overlay(s) # << >>,
         Overlay(s)' = [Overlay(s) EXCEPT ![Len(Overlay(s))][n] = v],
         OthersChanges(s), SameObjects
  PROVE  Objects!Next
<1>1. [m \in Num |-> Committed(m)]' = [m \in Num |-> Committed(m)]
  BY DEF SameObjects
<1> DEFINE O == [t \in Session |-> Overlay(t)]
<1>2. O' = [t \in Session |-> IF t = s THEN Overlay(s)' ELSE Overlay(t)]
  BY DEF OthersChanges
<1>3. O' = [O EXCEPT ![s] = [Overlay(s) EXCEPT ![Len(Overlay(s))][n] = v]]
  BY <1>2
<1>4. O' = [O EXCEPT ![s][Len(O[s])][n] = v]
  BY <1>3
<1>5. Objects!Set(s, n, v)
  BY <1>1, <1>4 DEF Objects!Set, NobodyElse
<1> QED BY <1>5 DEF Objects!Next

LEMMA SetsOutside ==
  ASSUME NEW s \in Session, NEW n \in Num, NEW v \in Object \cup {Absent},
         NobodyElse(s, n), v = Absent => Objects!View(s, n) # Absent, Overlay(s) = << >>,
         s \in PlainSession, SameChanges, Committed(n)' = v,
         \A m \in Num \ {n} : Committed(m)' = Committed(m)
  PROVE  Objects!Next
<1> DEFINE O == [t \in Session |-> Overlay(t)]
           C == [m \in Num |-> Committed(m)]
<1>1. O' = O
  BY DEF SameChanges
<1>2. C' = [C EXCEPT ![n] = v]
  OBVIOUS
<1>3. Objects!Set(s, n, v)
  BY <1>1, <1>2 DEF Objects!Set, NobodyElse
<1> QED BY <1>3 DEF Objects!Next

LEMMA BeginsOne ==
  ASSUME NEW s \in Session, SameObjects, OthersChanges(s),
         Overlay(s)' = Append(Overlay(s), [n \in Num |-> Unset])
  PROVE  Objects!Next
<1> DEFINE O == [t \in Session |-> Overlay(t)]
<1>1. [m \in Num |-> Committed(m)]' = [m \in Num |-> Committed(m)]
  BY DEF SameObjects
<1>2. O' = [O EXCEPT ![s] = Append(O[s], [n \in Num |-> Unset])]
  BY DEF OthersChanges
<1>3. Objects!Begin(s)
  BY <1>1, <1>2 DEF Objects!Begin
<1> QED BY <1>3 DEF Objects!Next

LEMMA RollsBack ==
  ASSUME NEW s \in Session, SameObjects, OthersChanges(s), Overlay(s) # << >>,
         Overlay(s)' = [l \in 1 .. Len(Overlay(s)) - 1 |-> Overlay(s)[l]]
  PROVE  Objects!Next
<1> DEFINE O == [t \in Session |-> Overlay(t)]
<1>1. [m \in Num |-> Committed(m)]' = [m \in Num |-> Committed(m)]
  BY DEF SameObjects
<1>2. O' = [O EXCEPT ![s] = [l \in 1 .. Len(O[s]) - 1 |-> O[s][l]]]
  BY DEF OthersChanges
<1>3. Objects!Rollback(s)
  BY <1>1, <1>2 DEF Objects!Rollback, Objects!Dropped
<1> QED BY <1>3 DEF Objects!Next

LEMMA CommitsInner ==
  ASSUME NEW s \in Session, SameObjects, OthersChanges(s), Len(Overlay(s)) \in Nat,
         Len(Overlay(s)) > 1, Joined(Overlay(s), Overlay(s)')
  PROVE  Objects!Next
<1> DEFINE O == [t \in Session |-> Overlay(t)]
           V == O[s]
<1>1. [m \in Num |-> Committed(m)]' = [m \in Num |-> Committed(m)]
  BY DEF SameObjects
<1>2. V = Overlay(s) /\ Len(V) > 0 /\ Len(V) # 1
  <2>1. V = Overlay(s)
    OBVIOUS
  <2> HIDE DEF V
  <2> QED BY <2>1
<1>3. O' = [O EXCEPT ![s] = Overlay(s)']
  BY DEF OthersChanges
<1>4. Overlay(s)' = [[l \in 1 .. Len(V) - 1 |-> V[l]] EXCEPT ![Len(V) - 1] =
                 [n \in Num |-> IF V[Len(V)][n] = Unset THEN @[n] ELSE V[Len(V)][n]]]
  BY <1>2 DEF Joined
<1>5. Overlay(s)' = [Objects!Dropped(s) EXCEPT ![Len(V) - 1] = Objects!Over(V[Len(V)], @)]
  BY <1>4 DEF Objects!Dropped, Objects!Over
<1>6. Objects!Commit(s)
  BY <1>1, <1>2, <1>3, <1>5 DEF Objects!Commit
<1> QED BY <1>6 DEF Objects!Next

LEMMA CommitsLast ==
  ASSUME NEW s \in Session, OthersChanges(s), Len(Overlay(s)) = 1,
         Overlay(s)' = [l \in 1 .. Len(Overlay(s)) - 1 |-> Overlay(s)[l]],
         \A n \in Num : Committed(n)' =
           IF Overlay(s)[1][n] = Unset THEN Committed(n) ELSE Overlay(s)[1][n]
  PROVE  Objects!Next
<1> DEFINE O == [t \in Session |-> Overlay(t)]
           C == [m \in Num |-> Committed(m)]
<1>1. C' = [n \in Num |-> IF Overlay(s)[1][n] = Unset THEN C[n] ELSE Overlay(s)[1][n]]
  OBVIOUS
<1>2. O' = [O EXCEPT ![s] = [l \in 1 .. Len(O[s]) - 1 |-> O[s][l]]]
  BY DEF OthersChanges
<1>3. O[s] = Overlay(s) /\ Len(O[s]) = 1
  OBVIOUS
<1>4. C' = Objects!Over(O[s][Len(O[s])], C)
  BY <1>1, <1>3 DEF Objects!Over
<1>5. O' = [O EXCEPT ![s] = Objects!Dropped(s)]
  BY <1>2 DEF Objects!Dropped
<1>6. Len(O[s]) > 0
  BY <1>3
<1>7. Objects!Commit(s)
  BY <1>3, <1>4, <1>5, <1>6 DEF Objects!Commit
<1> QED BY <1>7 DEF Objects!Next

-----------------------------------------------------------------------------
(* What a step leaves of the logs and of what they make of the objects.       *)

LEMMA OverlayIsLater == (\A s \in Session :
  StoreInv /\ OrderOK => Overlay(s) = OverlayOf(Log(s), levels[s]))'
BY OverlayIs, PTL

LEMMA LevelInLater == (\A s \in Session : StoreInv /\ OrderOK =>
  \A l \in 1 .. Len(levels[s]) :
    /\ levels[s][l].op_offset \in Nat /\ levels[s][l].op_count \in Nat
    /\ levels[s][l].op_offset + levels[s][l].op_count <= Len(ops[s])
    /\ Len(ops[s]) \in Nat)'
BY LevelIn, PTL

(* The log of a session and what its operations stored stay as they are. *)
ValuesKept(t) ==
  /\ ops'[t] = ops[t] /\ trans_data'[t] = trans_data[t]
  /\ pc'[t] = "storing" <=> pc[t] = "storing"
  /\ pc[t] = "storing" => write'[t] = write[t]

LEMMA LogKept ==
  ASSUME NEW t \in Session, ValuesKept(t)
  PROVE  Log(t)' = Log(t)
<1>1. ops'[t] = ops[t]
  BY DEF ValuesKept
<1>2. ASSUME NEW i \in 1 .. Len(ops[t]) PROVE OpVal(t, i)' = OpVal(t, i)
  <2>1. OpValue(t, i)' = OpValue(t, i)
    BY DEF OpValue, ValuesKept
  <2> QED BY <1>1, <2>1 DEF OpVal
<1> QED BY <1>1, <1>2 DEF Log

LEMMA AllParts ==
  ASSUME AllInv
  PROVE  StoreInv /\ OrderOK /\ CellsOK /\ WritersOK /\ RoomLeft /\ MarkInv /\ ExtentInv /\ HeaderOK
         /\ StoredWhereLogged /\ OneHolder /\ CellInv /\ SessionInv /\ OwnIds
BY DEF AllInv, CellInv, StoreInv, IndexInv, MarkInv

LEMMA AllPartsLater ==
  ASSUME AllInv'
  PROVE  StoreInv' /\ OrderOK' /\ CellsOK' /\ WritersOK' /\ RoomLeft' /\ MarkInv' /\ ExtentInv'
         /\ HeaderOK' /\ SessionInv'
BY DEF AllInv, CellInv, StoreInv, IndexInv, MarkInv

LEMMA OverlayKept ==
  ASSUME AllInv, AllInv', NEW t \in Session, ValuesKept(t), levels'[t] = levels[t]
  PROVE  Overlay(t)' = Overlay(t)
<1>1. Overlay(t) = OverlayOf(Log(t), levels[t])
  BY AllParts, OverlayIs
<1>2. Overlay(t)' = OverlayOf(Log(t)', levels'[t])
  <2>1. Overlay(t)' = OverlayOf(Log(t), levels[t])'
    BY AllPartsLater, OverlayIsLater
  <2>2. OverlayOf(Log(t), levels[t])' = OverlayOf(Log(t)', levels'[t])
    BY DEF OverlayOf, MadeAt, Made
  <2> QED BY <2>1, <2>2
<1> QED BY <1>1, <1>2, LogKept

LEMMA OthersOverlay ==
  ASSUME AllInv, AllInv', NEW s \in Session, StepOf(s)
  PROVE  OthersChanges(s)
<1> SUFFICES ASSUME NEW t \in Session \ {s} PROVE Overlay(t)' = Overlay(t)
  BY DEF OthersChanges
<1>1. Alone(t)
  BY AllParts, OthersAlone
<1>2. ValuesKept(t) /\ levels'[t] = levels[t]
  BY <1>1 DEF Alone, ValuesKept
<1> QED BY <1>2, OverlayKept

(* The end of a commit or a rollback drops the operations that no level has. *)
LEMMA EndsOverlay ==
  ASSUME AllInv, AllInv', NEW s \in Session, CommitEnd(s) \/ RollbackEnd(s)
  PROVE  Overlay(s)' = Overlay(s)
<1> DEFINE m == OpsEnd(s)
           v == levels[s]
           g == Log(s)
           h == Log(s)'
<1>1. /\ Len(ops'[s]) = m /\ m \in Nat /\ m <= Len(ops[s])
      /\ \A i \in 1 .. m : ops'[s][i] = ops[s][i]
      /\ CommitEnd(s) => ~InTx(s) /\ m = 0
      /\ pc[s] \in {"committing", "rolling back"} /\ pc'[s] = "idle"
  BY AllParts, EndedOps
<1>2. levels' = levels /\ v \in Seq(Level) /\ StoreInv /\ LevelsOrdered(v)
  <2>1. levels' = levels
    BY DEF CommitEnd, RollbackEnd
  <2>2. StoreInv /\ InOrder(s)
    BY AllParts DEF OrderOK
  <2> QED BY <2>1, <2>2, SessionFacts DEF InOrder
<1>3. \A l \in 1 .. Len(v) : v[l].op_offset + v[l].op_count <= m
  BY <1>2, LevelsWithin
<1>4. InTx(s) => trans_data' = trans_data
  BY <1>1 DEF CommitEnd, RollbackEnd
<1>5. ~InTx(s) => m = 0
  BY DEF OpsEnd
<1>6. ASSUME NEW i \in 1 .. m PROVE h[i] = g[i]
  <2>0. InTx(s) /\ i \in 1 .. Len(ops[s])
    <3>1. m \in Nat /\ Len(ops[s]) \in Nat /\ m <= Len(ops[s]) /\ m > 0
      <4>1. m \in Nat /\ m <= Len(ops[s])
        BY <1>1
      <4>2. m > 0
        <5> HIDE DEF m
        <5> QED BY <4>1
      <4> QED BY <1>2, <4>1, <4>2, SessionFacts
    <3>2. InTx(s)
      BY <1>5, <3>1
    <3> HIDE DEF m
    <3>3. i \in 1 .. Len(ops[s])
      BY <3>1
    <3> QED BY <3>2, <3>3
  <2>1. InTx(s) /\ trans_data' = trans_data /\ ops'[s][i] = ops[s][i]
    BY <1>1, <1>4, <2>0
  <2>2. pc'[s] # "storing" /\ pc[s] # "storing"
    BY <1>1
  <2>3. OpValue(s, i)' = OpValue(s, i)
    BY <2>1, <2>2 DEF OpValue
  <2>4. OpVal(s, i)' = OpVal(s, i)
    BY <2>1, <2>3 DEF OpVal
  <2>5. i \in 1 .. Len(ops[s])
    BY <2>0
  <2>6. g[i] = [id |-> ops[s][i].id, val |-> OpVal(s, i)]
    BY <2>5 DEF Log
  <2>7. h[i] = [id |-> ops'[s][i].id, val |-> OpVal(s, i)']
    BY <1>1 DEF Log
  <2> QED BY <2>1, <2>4, <2>6, <2>7
<1>7. OverlayOf(h, v) = OverlayOf(g, v)
  <2> HIDE DEF g, h, v, m
  <2> QED BY <1>1, <1>2, <1>3, <1>6, OverlaySame
<1>8. Overlay(s) = OverlayOf(g, v)
  BY AllParts, OverlayIs
<1>9. Overlay(s)' = OverlayOf(h, v)
  <2>1. Overlay(s)' = OverlayOf(Log(s), levels[s])'
    BY AllPartsLater, OverlayIsLater
  <2>2. OverlayOf(Log(s), levels[s])' = OverlayOf(h, levels'[s])
    BY DEF OverlayOf, MadeAt, Made
  <2> QED BY <1>2, <2>1, <2>2
<1> QED BY <1>7, <1>8, <1>9

LEMMA OverlayAfter ==
  ASSUME AllInv', NEW s \in Session
  PROVE  Overlay(s)' = OverlayOf(Log(s)', levels'[s])
<1>1. Overlay(s)' = OverlayOf(Log(s), levels[s])'
  BY AllPartsLater, OverlayIsLater
<1>2. OverlayOf(Log(s), levels[s])' = OverlayOf(Log(s)', levels'[s])
  BY DEF OverlayOf, MadeAt, Made
<1> QED BY <1>1, <1>2

LEMMA LevelsAfter ==
  ASSUME AllInv, AllInv', NEW s \in Session
  PROVE  levels[s] \in Seq(Level) /\ levels'[s] \in Seq(Level) /\ Len(levels[s]) \in Nat
         /\ (InTx(s) <=> Len(levels[s]) > 0)
<1>1. StoreInv /\ SessionInv'
  BY AllParts, AllPartsLater
<1> QED BY <1>1, SessionFacts DEF SessionInv, SessionsOK

LEMMA BeginOverlay ==
  ASSUME AllInv, AllInv', NEW s \in Session, TransactionStart(s)
  PROVE  Overlay(s)' = Append(Overlay(s), [n \in Num |-> Unset])
<1> DEFINE level == [size |-> 0, offset |-> total_trans_size[s], op_count |-> 0, op_offset |-> Len(ops[s])]
<1>1. levels'[s] = Append(levels[s], level) /\ UNCHANGED << ops, trans_data, pc, write >>
  BY AllParts DEF TransactionStart, SessionInv, SessionsOK
<1>2. level \in Level /\ level.op_count = 0
  BY AllParts, SessionFacts DEF Level
<1>3. Log(s)' = Log(s)
  BY <1>1, LogKept DEF ValuesKept
<1> HIDE DEF level
<1>4. OverlayOf(Log(s), levels'[s]) = Append(OverlayOf(Log(s), levels[s]), [n \in Num |-> Unset])
  BY <1>1, <1>2, LevelsAfter, OverlayBegun
<1>5. Overlay(s) = OverlayOf(Log(s), levels[s]) /\ Overlay(s)' = OverlayOf(Log(s)', levels'[s])
  BY AllParts, OverlayIs, OverlayAfter
<1> QED BY <1>3, <1>4, <1>5

LEMMA DropOverlay ==
  ASSUME AllInv, AllInv', NEW s \in Session, CommitBegin(s) \/ RollbackBegin(s)
  PROVE  /\ Overlay(s)' = [l \in 1 .. Len(Overlay(s)) - 1 |-> Overlay(s)[l]]
         /\ Len(Overlay(s)) = Len(levels[s]) /\ Overlay(s) # << >>
<1> DEFINE v == levels[s]
           w == levels'[s]
<1>1. Len(v) > 0 /\ Len(w) = Len(v) - 1 /\ \A l \in 1 .. Len(v) - 1 : w[l] = v[l]
  BY AllParts, BegunLevels
<1>2. v \in Seq(Level) /\ w \in Seq(Level) /\ Len(v) \in Nat
  BY LevelsAfter
<1>3. Log(s)' = Log(s)
  <2>1. UNCHANGED << ops, trans_data, write >> /\ pc[s] # "storing"
    BY DEF CommitBegin, RollbackBegin, Section
  <2>2. pc'[s] # "storing"
    BY AllParts DEF CommitBegin, RollbackBegin, SessionInv, SessionsOK
  <2> QED BY <2>1, <2>2, LogKept DEF ValuesKept
<1>4. Overlay(s) = OverlayOf(Log(s), v) /\ Overlay(s)' = OverlayOf(Log(s), w)
  BY <1>3, AllParts, OverlayIs, OverlayAfter
<1> HIDE DEF v, w
<1>5. \A l \in 1 .. Len(w) : w[l] = v[l]
  BY <1>1, <1>2
<1>6. OverlayOf(Log(s), w) = [l \in 1 .. Len(OverlayOf(Log(s), v)) - 1 |-> OverlayOf(Log(s), v)[l]]
  BY <1>1, <1>2, <1>5, OverlayDropped
<1>7. Len(OverlayOf(Log(s), v)) = Len(v) /\ OverlayOf(Log(s), v) # << >>
  <2>1. Len(v) # 0
    BY <1>1
  <2> QED BY <1>2, <2>1, OverlayShape
<1> QED BY <1>4, <1>6, <1>7 DEF v

LEMMA InnerOverlay ==
  ASSUME AllInv, AllInv', NEW s \in Session, CommitInner(s)
  PROVE  /\ Len(Overlay(s)) \in Nat /\ Len(Overlay(s)) > 1
         /\ Joined(Overlay(s), Overlay(s)')
<1> DEFINE v == levels[s]
           w == levels'[s]
           m == Len(ops[s])
           g == Log(s)
<1>1. /\ Len(v) > 1 /\ Len(w) = Len(v) - 1
      /\ \A l \in 1 .. Len(v) - 1 :
           /\ w[l].op_offset = v[l].op_offset
           /\ w[l].op_count = IF l = Len(v) - 1 THEN v[l].op_count + v[Len(v)].op_count ELSE v[l].op_count
  BY AllParts, InnerLevels
<1>2. v \in Seq(Level) /\ w \in Seq(Level) /\ Len(v) \in Nat /\ m \in Nat /\ Tile(s) /\ Depth(s) = Len(v)
  BY LevelsAfter, AllParts, SessionFacts
<1>3. Log(s)' = g
  <2>1. UNCHANGED << ops, trans_data, write, pc >>
    BY DEF CommitInner
  <2> QED BY <2>1, LogKept DEF ValuesKept
<1>4. \A l \in 1 .. Len(v) - 2 : w[l] = v[l]
  <2>1. w = [Pop(s) EXCEPT ![Len(v) - 1].size = @ + Top(s).size,
                           ![Len(v) - 1].op_count = @ + Top(s).op_count]
    BY AllParts DEF CommitInner, SessionInv, SessionsOK, Depth
  <2>2. \A l \in 1 .. Len(v) - 1 : Pop(s)[l] = v[l]
    BY DEF Pop, Depth
  <2>3. DOMAIN Pop(s) = 1 .. Len(v) - 1
    BY DEF Pop, Depth
  <2> HIDE DEF v, w
  <2>4. \A l \in 1 .. Len(v) - 2 : l \in 1 .. Len(v) - 1 /\ l # Len(v) - 1
    BY <1>2
  <2> QED BY <2>1, <2>2, <2>3, <2>4
<1>5. /\ v[Len(v)].op_offset = v[Len(v) - 1].op_offset + v[Len(v) - 1].op_count
  <2>1. Len(v) - 1 \in 1 .. Len(v) - 1 /\ (Len(v) - 1) + 1 = Len(v)
    <3> HIDE DEF v, w
    <3> QED BY <1>1, <1>2
  <2> QED BY <1>2, <2>1 DEF Tile, LevelsTouch
<1>6. v[Len(v)].op_offset + v[Len(v)].op_count <= m
  <2>1. Len(v) \in 1 .. Len(v)
    <3> HIDE DEF v, w
    <3> QED BY <1>1, <1>2
  <2> QED BY <2>1, AllParts, LevelIn
<1>7. \A i \in 1 .. m : g[i].val # Unset
  BY LogValues
<1>8. w[Len(v) - 1].op_offset = v[Len(v) - 1].op_offset
      /\ w[Len(v) - 1].op_count = v[Len(v) - 1].op_count + v[Len(v)].op_count
  <2> HIDE DEF v, w
  <2>1. Len(v) - 1 \in 1 .. Len(v) - 1
    BY <1>1, <1>2
  <2> QED BY <1>1, <2>1
<1>9. Overlay(s) = OverlayOf(g, v) /\ Overlay(s)' = OverlayOf(g, w)
  BY <1>3, AllParts, OverlayIs, OverlayAfter
<1> HIDE DEF v, w, m, g
<1>10. Joined(OverlayOf(g, v), OverlayOf(g, w))
  BY <1>1, <1>2, <1>4, <1>5, <1>6, <1>7, <1>8, OverlayJoined
<1>11. Len(OverlayOf(g, v)) = Len(v)
  BY <1>2, OverlayShape
<1> QED BY <1>1, <1>2, <1>9, <1>10, <1>11

(* What an operation that is being logged will have stored. *)
LoggedVal(s, op) == IF Changes(op) THEN [c \in 1 .. op.size |-> write'[s].val] ELSE Absent

LEMMA LoggedLog ==
  ASSUME AllInv, AllInv', NEW s \in Session, NEW n \in Num, NEW op \in Op, NEW x \in Entry,
         LoggedForm(s, n, op, x)
  PROVE  LET m == Len(ops[s])
         IN /\ \A i \in 1 .. m : Log(s)'[i] = Log(s)[i]
            /\ Log(s)'[m + 1].id = n /\ Log(s)'[m + 1].val = LoggedVal(s, op)
<1> DEFINE m == Len(ops[s])
<1>1. /\ InTx(s) /\ LogOp(s, op) /\ op.id = n /\ pc[s] = "idle" /\ trans_data' = trans_data
      /\ pc'[s] \in {"idle", "storing"} /\ (pc'[s] = "storing" <=> Changes(op))
  BY DEF LoggedForm, LoggedOp, LoggedCall, Section
<1>2. /\ Len(ops'[s]) = m + 1 /\ ops'[s][m + 1] = op /\ \A i \in 1 .. m : ops'[s][i] = ops[s][i]
  BY <1>1, AllParts, LoggedLevels
<1>3. m \in Nat
  BY AllParts, SessionFacts
<1>4. ASSUME NEW i \in 1 .. m PROVE Log(s)'[i] = Log(s)[i]
  <2>1. i # m + 1 /\ i \in 1 .. m + 1
    <3> HIDE DEF m
    <3> QED BY <1>3
  <2>2. OpValue(s, i)' = OpValue(s, i)
    <3>1. ops'[s][i] = ops[s][i] /\ i # Len(ops'[s])
      BY <1>2, <2>1
    <3> QED BY <1>1, <3>1 DEF OpValue
  <2>3. OpVal(s, i)' = OpVal(s, i)
    BY <1>2, <2>2 DEF OpVal
  <2>4. Log(s)[i] = [id |-> ops[s][i].id, val |-> OpVal(s, i)]
    BY DEF Log
  <2>5. Log(s)'[i] = [id |-> ops'[s][i].id, val |-> OpVal(s, i)']
    BY <1>2, <2>1 DEF Log
  <2> QED BY <1>2, <2>3, <2>4, <2>5
<1>5. ASSUME NEW j, j = m + 1
      PROVE  Len(ops'[s]) = j /\ ops'[s][j] = op /\ op.id = n /\ j \in 1 .. j
  <2>1. j \in 1 .. j
    <3> HIDE DEF m
    <3> QED BY <1>3, <1>5
  <2> QED BY <1>1, <1>2, <1>5, <2>1
<1>6. ASSUME NEW j, j = m + 1
      PROVE  Log(s)'[j].id = n /\ Log(s)'[j].val = LoggedVal(s, op)
  <2>0. Len(ops'[s]) = j /\ ops'[s][j] = op /\ op.id = n /\ j \in 1 .. j
    BY <1>5, <1>6
  <2>1. Log(s)' = [i \in 1 .. j |-> [id |-> ops'[s][i].id, val |-> OpVal(s, i)']]
    BY <2>0 DEF Log
  <2>2. Log(s)'[j] = [id |-> n, val |-> OpVal(s, j)']
    BY <2>0, <2>1
  <2>3. OpVal(s, j)' = LoggedVal(s, op)
    <3>1. OpVal(s, j)' = IF op.type = "destroy" THEN Absent ELSE OpValue(s, j)'
      BY <2>0 DEF OpVal
    <3>2. pc'[s] = "storing" => OpValue(s, j)' = [c \in 1 .. op.size |-> write'[s].val]
      BY <2>0 DEF OpValue
    <3> QED BY <1>1, <3>1, <3>2 DEF LoggedVal, Changes
  <2> QED BY <2>2, <2>3
<1> QED BY <1>4, <1>6

LEMMA LoggedOverlay ==
  ASSUME AllInv, AllInv', NEW s \in Session, NEW n \in Num, NEW op \in Op, NEW x \in Entry,
         LoggedForm(s, n, op, x)
  PROVE  /\ Overlay(s) # << >>
         /\ Overlay(s)' = [Overlay(s) EXCEPT ![Len(Overlay(s))][n] = LoggedVal(s, op)]
<1> DEFINE v == levels[s]
           w == levels'[s]
           m == Len(ops[s])
           g == Log(s)
           h == Log(s)'
<1>1. InTx(s) /\ LogOp(s, op) /\ pc[s] = "idle"
  BY DEF LoggedForm, LoggedOp, Section
<1>2. v \in Seq(Level) /\ w \in Seq(Level) /\ Len(v) \in Nat /\ Len(v) > 0 /\ m \in Nat
  BY <1>1, LevelsAfter, AllParts, SessionFacts
<1>3. /\ Len(w) = Len(v)
      /\ \A l \in 1 .. Len(v) : /\ w[l].op_offset = v[l].op_offset
                                /\ w[l].op_count = IF l = Len(v) THEN v[l].op_count + 1 ELSE v[l].op_count
  BY <1>1, AllParts, LoggedLevels
<1>4. \A l \in 1 .. Len(v) : v[l].op_offset + v[l].op_count <= m
  BY AllParts, LevelIn
<1>5. v[Len(v)].op_offset + v[Len(v)].op_count = m
  <2>1. Len(ops[s]) = OpsEnd(s)
    BY <1>1, AllParts, SessionFacts DEF Tile
  <2> QED BY <1>1, <2>1 DEF OpsEnd, Top, Depth
<1>6. \A l \in 1 .. Len(v) - 1 : w[l] = v[l]
  <2>1. w = [v EXCEPT ![Len(v)].op_count = @ + 1, ![Len(v)].size = @ + op.size]
    BY <1>1, AllParts DEF LogOp, SessionInv, SessionsOK, Depth
  <2>2. \A l \in 1 .. Len(v) - 1 : l \in 1 .. Len(v) /\ l # Len(v)
    <3> HIDE DEF v, w
    <3> QED BY <1>2
  <2>3. DOMAIN v = 1 .. Len(v)
    BY <1>2, LenProperties
  <2> HIDE DEF v, w
  <2> QED BY <2>1, <2>2, <2>3
<1>7. (\A i \in 1 .. m : h[i] = g[i]) /\ h[m + 1].id = n /\ h[m + 1].val = LoggedVal(s, op)
  BY LoggedLog
<1>8. Overlay(s) = OverlayOf(g, v) /\ Overlay(s)' = OverlayOf(h, w)
  BY AllParts, OverlayIs, OverlayAfter
<1> HIDE DEF v, w, m, g, h
<1>9. /\ \A l \in 1 .. Len(v) - 1 : w[l] = v[l] /\ v[l].op_offset + v[l].op_count <= m
      /\ w[Len(v)].op_offset = v[Len(v)].op_offset
      /\ w[Len(v)].op_count = v[Len(v)].op_count + 1
  <2>1. \A l \in 1 .. Len(v) - 1 : l \in 1 .. Len(v)
    BY <1>2
  <2>2. Len(v) \in 1 .. Len(v)
    BY <1>2
  <2> QED BY <1>3, <1>4, <1>6, <2>1, <2>2
<1>10. OverlayOf(h, w) = [OverlayOf(g, v) EXCEPT ![Len(v)][n] = h[m + 1].val]
  <2>1. Len(w) = Len(v)
    BY <1>3
  <2>2. \A l \in 1 .. Len(v) - 1 : w[l] = v[l] /\ v[l].op_offset + v[l].op_count <= m
    BY <1>9
  <2>3. w[Len(v)].op_offset = v[Len(v)].op_offset /\ w[Len(v)].op_count = v[Len(v)].op_count + 1
    BY <1>9
  <2>4. OneMore(g, h, v, w, m)
    BY <1>2, <1>5, <1>7, <2>1, <2>2, <2>3 DEF OneMore
  <2> QED BY <1>2, <1>7, <2>4, OverlayLogged
<1>11. Len(OverlayOf(g, v)) = Len(v) /\ OverlayOf(g, v) # << >>
  <2>1. Len(v) # 0
    BY <1>2
  <2> QED BY <1>2, <2>1, OverlayShape
<1> QED BY <1>7, <1>8, <1>10, <1>11

(* A store that has been written is what its operation had stored. *)
LEMMA FinishLog ==
  ASSUME AllInv, NEW s \in Session, FinishStore(s)
  PROVE  Log(s)' = Log(s)
<1> DEFINE m == Len(ops[s])
           q == ops[s]
           a == write[s].pos
           z == write[s].size
           d == trans_data[s]
           val == write[s].val
           W == a .. a + z - 1
<1>1. /\ pc[s] = "storing" /\ pc'[s] = "idle" /\ ops' = ops
      /\ trans_data'[s] = [c \in 0 .. MaxTransData - 1 |-> IF c \in W THEN val ELSE d[c]]
  <2>1. /\ pc[s] = "storing" /\ pc' = [pc EXCEPT ![s] = "idle"] /\ ops' = ops
        /\ trans_data' = [trans_data EXCEPT ![s] = [c \in DOMAIN @ |-> IF c \in W THEN val ELSE @[c]]]
    BY DEF FinishStore, tranVars
  <2>2. DOMAIN pc = Session /\ DOMAIN trans_data = Session /\ DOMAIN d = 0 .. MaxTransData - 1
    BY AllParts DEF SessionInv, SessionsOK, CellsOK
  <2> QED BY <2>1, <2>2
<1>2. m > 0 /\ Changes(q[m]) /\ q[m].pos = a /\ q[m].size = z
  BY <1>1, AllParts DEF StoredWhereLogged, WritersOK, WriterOK, Storing
<1>3. /\ m \in Nat /\ m \in 1 .. m
      /\ \A i \in 1 .. m : q[i].pos \in Nat /\ q[i].size \in Nat
  <2>1. m \in Nat /\ \A i \in 1 .. m : q[i].pos \in Nat /\ q[i].size \in Nat
    BY AllParts, SessionFacts
  <2> HIDE DEF m, q
  <2> QED BY <1>2, <2>1
<1>4. /\ \A i \in 1 .. m : Changes(q[i]) => EndOf(q[i]) <= MaxTransData
      /\ \A i \in 1 .. m : i <= m - 1 /\ Changes(q[i]) => EndOf(q[i]) <= a
  <2>1. /\ total_trans_size[s] <= MaxTransData /\ OpsBefore(q, m, total_trans_size[s]) /\ OpsApart(q)
        /\ total_trans_size[s] \in Nat /\ MaxTransData \in Nat
    BY AllParts, SessionFacts, ConstFacts DEF OrderOK, InOrder
  <2>2. OpsBefore(q, m - 1, a)
    BY <1>2, <1>3, <2>1 DEF OpsApart
  <2>3. \A i \in 1 .. m : Changes(q[i]) => EndOf(q[i]) <= total_trans_size[s] /\ EndOf(q[i]) \in Nat
    BY <1>3, <2>1 DEF OpsBefore, EndOf
  <2> QED BY <1>3, <2>1, <2>2, <2>3 DEF OpsBefore
<1>5. ASSUME NEW i \in 1 .. m, Changes(q[i]) PROVE OpValue(s, i)' = OpValue(s, i)
  <2>1. OpValue(s, i)' = [c \in 1 .. q[i].size |-> trans_data'[s][q[i].pos + c - 1]]
    BY <1>1 DEF OpValue
  <2>2. \A c \in 1 .. q[i].size : q[i].pos + c - 1 \in 0 .. MaxTransData - 1
    <3>1. EndOf(q[i]) <= MaxTransData /\ q[i].pos \in Nat /\ q[i].size \in Nat
      BY <1>3, <1>4, <1>5
    <3> HIDE DEF q, m
    <3> QED BY <3>1, ConstFacts DEF EndOf
  <2>3. CASE i = m
    <3>1. OpValue(s, i) = [c \in 1 .. z |-> val]
      BY <1>1, <1>2, <2>3 DEF OpValue
    <3>2. \A c \in 1 .. z : a + c - 1 \in W
      <4>1. a \in Nat /\ z \in Nat
        BY <1>2, <1>3
      <4> HIDE DEF a, z
      <4> QED BY <4>1
    <3>3. q[i].pos = a /\ q[i].size = z
      BY <1>2, <2>3
    <3> QED BY <1>1, <2>1, <2>2, <3>1, <3>2, <3>3
  <2>4. CASE i # m
    <3>1. OpValue(s, i) = [c \in 1 .. q[i].size |-> d[q[i].pos + c - 1]]
      BY <1>1, <2>4 DEF OpValue
    <3>2. \A c \in 1 .. q[i].size : q[i].pos + c - 1 \notin W
      <4>1. i <= m - 1 /\ q[i].pos \in Nat /\ q[i].size \in Nat
        <5>1. i \in 1 .. m /\ i # m /\ m \in Nat
          BY <1>3, <2>4
        <5> HIDE DEF m
        <5> QED BY <1>3, <5>1
      <4>2. EndOf(q[i]) <= a /\ a \in Nat
        BY <1>2, <1>3, <1>4, <1>5, <4>1
      <4> HIDE DEF q, a, z, m
      <4> QED BY <4>1, <4>2 DEF EndOf
    <3> QED BY <1>1, <2>1, <2>2, <3>1, <3>2
  <2> QED BY <2>3, <2>4
<1>6. ASSUME NEW i \in 1 .. m PROVE OpVal(s, i)' = OpVal(s, i)
  BY <1>1, <1>5 DEF OpVal, Changes
<1> QED BY <1>1, <1>6 DEF Log

LEMMA FinishOverlay ==
  ASSUME AllInv, AllInv', NEW s \in Session, FinishStore(s)
  PROVE  Overlay(s)' = Overlay(s)
<1>1. Log(s)' = Log(s) /\ levels'[s] = levels[s]
  BY FinishLog DEF FinishStore, tranVars
<1>2. Overlay(s) = OverlayOf(Log(s), levels[s]) /\ Overlay(s)' = OverlayOf(Log(s)', levels'[s])
  BY AllParts, OverlayIs, OverlayAfter
<1> QED BY <1>1, <1>2

-----------------------------------------------------------------------------
(* The steps, one by one.                                                     *)

LEMMA MarkStays ==
  ASSUME NEW t \in Session, NEW n \in Num, index'[n] = index[n],
         Active(t) => Active(t)' /\ tran_id'[t] = tran_id[t],
         pc'[t] = "committing" <=> pc[t] = "committing",
         pc[t] = "committing" => ops'[t] = ops[t] /\ trans_data'[t] = trans_data[t],
         pc[t] # "committing" => (CreatedIn(t, n)' <=> CreatedIn(t, n))
  PROVE  MarkOf(t, n) => MarkOf(t, n)' /\ ChangeKept(t, n)
<1>1. MarkOf(t, n) => MarkOf(t, n)'
  BY DEF MarkOf, HasMark
<1>2. ChangeKept(t, n)
  <2>1. pc[t] = "committing" => OpValue(t, index[n].tran_op)' = OpValue(t, index[n].tran_op)
    BY DEF OpValue
  <2> QED BY <2>1 DEF ChangeKept
<1> QED BY <1>1, <1>2

(* The parts of a transaction that are in the variables. *)
SameTran(s) ==
  /\ UNCHANGED << ops, levels, tran_id, trans_data >>
  /\ pc'[s] = pc[s] \/ {pc[s], pc'[s]} \cap {"committing", "rolling back"} = {}

LEMMA SameTranMark ==
  ASSUME NEW s \in Session, SameTran(s), NEW n \in Num, index'[n] = index[n]
  PROVE  MarkOf(s, n) => MarkOf(s, n)' /\ ChangeKept(s, n)
<1>1. Active(s) => Active(s)' /\ tran_id'[s] = tran_id[s]
  BY DEF SameTran, Active, InTx
<1>2. pc'[s] = "committing" <=> pc[s] = "committing"
  BY DEF SameTran
<1>3. ops'[s] = ops[s] /\ trans_data'[s] = trans_data[s]
  BY DEF SameTran
<1>4. CreatedIn(s, n)' <=> CreatedIn(s, n)
  BY <1>3 DEF CreatedIn
<1> QED BY <1>1, <1>2, <1>3, <1>4, MarkStays

(* A step that changes neither an entry nor what the session has in it. *)
LEMMA QuietObjects ==
  ASSUME AllInv, AllInv', NEW s \in Session, StepOf(s), SameTran(s), UNCHANGED << index, total_entries >>,
         pc[s] = "writing" => pc'[s] = pc[s] /\ write'[s] = write[s]
  PROVE  SameObjects
<1> SUFFICES ASSUME NEW n \in Num PROVE Committed(n)' = Committed(n)
  BY DEF SameObjects
<1>1. index'[n] = index[n]
  OBVIOUS
<1>2. Writes(s, n) => Writes(s, n)' /\ write'[s] = write[s]
  BY DEF Writes
<1>3. MarkOf(s, n) => MarkOf(s, n)' /\ ChangeKept(s, n)
  BY <1>1, SameTranMark
<1>4. n < total_entries' <=> n < total_entries
  OBVIOUS
<1> QED BY <1>1, <1>2, <1>3, <1>4, CommittedKept

LEMMA QuietStep ==
  ASSUME AllInv, AllInv', NEW s \in Session, StepOf(s), SameTran(s), UNCHANGED << index, total_entries >>,
         pc[s] = "writing" => pc'[s] = pc[s] /\ write'[s] = write[s],
         pc'[s] = "storing" <=> pc[s] = "storing", pc[s] = "storing" => write'[s] = write[s]
  PROVE  UNCHANGED Abstract
<1>1. SameObjects
  BY QuietObjects
<1>2. ValuesKept(s) /\ levels'[s] = levels[s]
  BY DEF SameTran, ValuesKept
<1>3. Overlay(s)' = Overlay(s)
  BY <1>2, OverlayKept
<1>4. SameChanges
  BY <1>3, OthersOverlay DEF SameChanges, OthersChanges
<1> QED BY <1>1, <1>4, Stutters

LEMMA ReadSteps ==
  ASSUME AllInv, AllInv', NEW s \in Session, StepOf(s),
         (\E n \in Num : StartRead(s, n)) \/ FetchPage(s) \/ NextPage(s) \/ ReadPage(s) \/ FinishRead(s)
  PROVE  UNCHANGED Abstract
<1>1. UNCHANGED << index, total_entries, ops, levels, tran_id, trans_data, write >>
  BY DEF StartRead, FetchPage, NextPage, ReadPage, FinishRead, headerVars, tranVars
<1>2. pc'[s] = pc[s] \/ {pc[s], pc'[s]} \subseteq {"idle", "reading"}
  <2>1. DOMAIN pc = Session
    BY AllParts DEF SessionInv, SessionsOK
  <2> QED BY <2>1 DEF StartRead, FetchPage, NextPage, ReadPage, FinishRead, ReadDone, Section
<1>3. SameTran(s)
  BY <1>1, <1>2 DEF SameTran
<1> QED BY <1>1, <1>2, <1>3, QuietStep

LEMMA FinishStoreStep ==
  ASSUME AllInv, AllInv', NEW s \in Session, StepOf(s), FinishStore(s)
  PROVE  UNCHANGED Abstract
<1>1. UNCHANGED << index, total_entries, ops, levels, tran_id >> /\ pc[s] = "storing" /\ pc'[s] = "idle"
  BY AllParts DEF FinishStore, headerVars, tranVars, SessionInv, SessionsOK
<1>2. SameObjects
  <2> SUFFICES ASSUME NEW n \in Num PROVE Committed(n)' = Committed(n)
    BY DEF SameObjects
  <2>1. index'[n] = index[n] /\ (n < total_entries' <=> n < total_entries)
    BY <1>1
  <2>2. ~Writes(s, n)
    BY <1>1 DEF Writes
  <2>3. CreatedIn(s, n)' <=> CreatedIn(s, n)
    BY <1>1 DEF CreatedIn
  <2>4. Active(s) => Active(s)' /\ tran_id'[s] = tran_id[s]
    BY <1>1 DEF Active, InTx
  <2>5. MarkOf(s, n) => MarkOf(s, n)' /\ ChangeKept(s, n)
    BY <1>1, <2>1, <2>3, <2>4, MarkStays
  <2> QED BY <2>1, <2>2, <2>5, CommittedKept
<1>3. SameChanges
  BY FinishOverlay, OthersOverlay DEF SameChanges, OthersChanges
<1> QED BY <1>2, <1>3, Stutters

(* A plain write has put back every page when it ends. *)
LEMMA WrittenCells ==
  ASSUME AllInv, NEW s \in Session, FinishWrite(s)
  PROVE  \A c \in write[s].pos .. write[s].pos + write[s].size - 1 : data'[c] = write[s].val
<1> DEFINE w == write[s]
           p == page_copy[s].page
<1>1. pc[s] = "writing" /\ p = LastPage(w) /\ data' = Put(page_copy[s]) /\ Writing(s) /\ PageHeld(s)
  BY AllParts DEF FinishWrite, WritersOK, WriterOK
<1>2. /\ w.pos \in Nat /\ w.size \in Nat /\ w.size > 0
      /\ w.pos .. w.pos + w.size - 1 \subseteq Cell
  BY <1>1, AllParts, WriterAt
<1>3. /\ LastPage(w) \in Nat
      /\ \A c \in w.pos .. w.pos + w.size - 1 : PageOf(c) <= LastPage(w)
  BY <1>2, PagesOf
<1>4. page_copy[s] # NoPage
  <2>1. NoPage.page = -1
    BY DEF NoPage
  <2> QED BY <1>1, <1>3, <2>1
<1>5. data' = [c \in Cell |-> IF PageOf(c) = p /\ c \in w.pos .. w.pos + w.size - 1 THEN w.val ELSE data[c]]
  BY <1>1, <1>4, PutCells
<1>6. \A c \in w.pos .. w.pos + w.size - 1 : PageOf(c) < p => data[c] = w.val
  BY <1>1, <1>4 DEF PageHeld
<1>7. ASSUME NEW c \in w.pos .. w.pos + w.size - 1 PROVE PageOf(c) < p \/ PageOf(c) = p
  <2>1. PageOf(c) \in Nat
    BY <1>2, CellNat, PageFacts
  <2> QED BY <1>1, <1>3, <2>1
<1> HIDE DEF p, w
<1>8. ASSUME NEW c \in w.pos .. w.pos + w.size - 1 PROVE data'[c] = w.val
  <2>1. c \in Cell
    BY <1>2
  <2>2. data'[c] = IF PageOf(c) = p THEN w.val ELSE data[c]
    BY <1>5, <2>1
  <2> QED BY <1>6, <1>7, <2>2
<1> QED BY <1>8 DEF w

LEMMA WrittenEntry ==
  ASSUME AllInv, AllInv', NEW s \in Session, FinishWrite(s), NEW n \in Num, n = write[s].num
  PROVE  Committed(n)' = Committed(n)
<1> DEFINE w == write[s]
           lock == "none"
           x == [index[n] EXCEPT !.lock = lock]
<1>1. pc[s] = "writing" /\ Writing(s) /\ UNCHANGED total_entries
  BY AllParts DEF FinishWrite, WritersOK, WriterOK, headerVars
<1>2. /\ n < total_entries /\ index[n].pos = w.pos /\ index[n].size = w.size
      /\ index[n].lock = "entry" /\ index[n].trans = "none" /\ w.entry = index[n]
      /\ w.pos \in Nat /\ w.size \in Nat
  BY <1>1, AllParts, WriterAt
<1>3. index' = [index EXCEPT ![n] = x] /\ index \in [Num -> Entry]
  BY <1>2, AllParts DEF FinishWrite, HeaderOK
<1>4. index'[n] = x /\ x.pos = w.pos /\ x.size = w.size /\ x.lock = "none" /\ x.trans = "none"
  BY <1>2, <1>3 DEF Entry
<1> HIDE DEF x
<1>5. Committed(n) = [c \in 1 .. w.size |-> w.val]
  <2>1. Writes(s, n)
    BY <1>1 DEF Writes
  <2> QED BY <1>2, <2>1, StandsWritten
<1>6. Committed(n)' = CellsOf(index[n])'
  <2>1. Settled(n)'
    BY <1>1, <1>2, <1>4 DEF Settled
  <2> QED BY <2>1, StandsSettledLater
<1>7. CellsOf(index[n])' = [c \in 1 .. w.size |-> data'[w.pos + c - 1]]
  BY <1>4 DEF CellsOf
<1>8. \A c \in 1 .. w.size : data'[w.pos + c - 1] = w.val
  <2>1. \A c \in 1 .. w.size : w.pos + c - 1 \in w.pos .. w.pos + w.size - 1
    <3> HIDE DEF w
    <3> QED BY <1>2
  <2> QED BY <2>1, WrittenCells
<1>9. Committed(n)' = [c \in 1 .. w.size |-> w.val]
  BY <1>6, <1>7, <1>8
<1> QED BY <1>5, <1>9

LEMMA FinishWriteStep ==
  ASSUME AllInv, AllInv', NEW s \in Session, StepOf(s), FinishWrite(s)
  PROVE  UNCHANGED Abstract
<1>1. /\ pc[s] = "writing" /\ pc'[s] = "idle"
      /\ UNCHANGED << ops, levels, tran_id, trans_data, total_entries >>
  BY AllParts DEF FinishWrite, headerVars, tranVars, SessionInv, SessionsOK
<1>2. SameTran(s)
  BY <1>1 DEF SameTran
<1>3. SameObjects
  <2> SUFFICES ASSUME NEW n \in Num, n # write[s].num PROVE Committed(n)' = Committed(n)
    BY WrittenEntry DEF SameObjects
  <2>1. index'[n] = index[n]
    BY AllParts DEF FinishWrite, HeaderOK
  <2>2. ~Writes(s, n)
    BY DEF Writes
  <2>3. MarkOf(s, n) => MarkOf(s, n)' /\ ChangeKept(s, n)
    BY <1>2, <2>1, SameTranMark
  <2>4. n < total_entries' <=> n < total_entries
    BY <1>1
  <2> QED BY <2>1, <2>2, <2>3, <2>4, CommittedKept
<1>4. ValuesKept(s) /\ levels'[s] = levels[s]
  BY <1>1 DEF ValuesKept
<1>5. SameChanges
  BY <1>4, OverlayKept, OthersOverlay DEF SameChanges, OthersChanges
<1> QED BY <1>3, <1>5, Stutters

(* A step of a transaction that stays open and logs nothing. *)
LEMMA OpenObjects ==
  ASSUME AllInv, AllInv', NEW s \in Session, StepOf(s), UNCHANGED << index, total_entries, ops >>,
         Active(s) => Active(s)' /\ tran_id'[s] = tran_id[s],
         pc[s] \notin {"writing", "committing"}, pc'[s] # "committing"
  PROVE  SameObjects
<1> SUFFICES ASSUME NEW n \in Num PROVE Committed(n)' = Committed(n)
  BY DEF SameObjects
<1>1. index'[n] = index[n] /\ (n < total_entries' <=> n < total_entries)
  OBVIOUS
<1>2. ~Writes(s, n)
  BY DEF Writes
<1>3. CreatedIn(s, n)' <=> CreatedIn(s, n)
  BY DEF CreatedIn
<1>4. pc[s] # "committing" /\ (pc'[s] = "committing" <=> pc[s] = "committing")
  OBVIOUS
<1>5. MarkOf(s, n) => MarkOf(s, n)' /\ ChangeKept(s, n)
  BY <1>1, <1>3, <1>4, MarkStays
<1> QED BY <1>1, <1>2, <1>5, CommittedKept

LEMMA LevelsOpen ==
  ASSUME AllInv, AllInv', NEW s \in Session, Len(levels'[s]) > 0
  PROVE  InTx(s)'
<1>1. levels'[s] # << >>
  BY EmptySeq
<1> QED BY <1>1 DEF InTx

LEMMA StartStep ==
  ASSUME AllInv, AllInv', NEW s \in Session, StepOf(s), TransactionStart(s)
  PROVE  Objects!Next
<1>1. UNCHANGED << index, total_entries, ops, pc >> /\ pc[s] = "idle"
  BY DEF TransactionStart, Section
<1>2. InTx(s)'
  <2>1. Len(levels'[s]) = Len(levels[s]) + 1
    BY AllParts, StartedLevels
  <2>2. Len(levels'[s]) > 0
    <3>1. Len(levels[s]) \in Nat
      BY LevelsAfter
    <3> QED BY <2>1, <3>1
  <2> QED BY <2>2, LevelsOpen
<1>3. Active(s) => Active(s)' /\ tran_id'[s] = tran_id[s]
  BY <1>1, <1>2 DEF Active, TransactionStart
<1>4. pc[s] \notin {"writing", "committing"} /\ pc'[s] # "committing"
  BY <1>1
<1>5. SameObjects
  BY <1>1, <1>3, <1>4, OpenObjects
<1> QED BY <1>5, BeginOverlay, OthersOverlay, BeginsOne

LEMMA InnerStep ==
  ASSUME AllInv, AllInv', NEW s \in Session, StepOf(s), CommitInner(s)
  PROVE  Objects!Next
<1>1. UNCHANGED << index, total_entries, ops, pc, tran_id >> /\ pc[s] = "idle"
  BY DEF CommitInner, Section, headerVars
<1>2. InTx(s)'
  <2>1. Len(levels'[s]) = Len(levels[s]) - 1 /\ Len(levels[s]) > 1
    BY AllParts, InnerLevels
  <2>2. Len(levels'[s]) > 0
    <3>1. Len(levels[s]) \in Nat
      BY LevelsAfter
    <3> QED BY <2>1, <3>1
  <2> QED BY <2>2, LevelsOpen
<1>3. Active(s) => Active(s)' /\ tran_id'[s] = tran_id[s]
  BY <1>1, <1>2 DEF Active
<1>4. pc[s] \notin {"writing", "committing"} /\ pc'[s] # "committing"
  BY <1>1
<1>5. SameObjects
  BY <1>1, <1>3, <1>4, OpenObjects
<1>6. /\ Len(Overlay(s)) \in Nat /\ Len(Overlay(s)) > 1
      /\ Joined(Overlay(s), Overlay(s)')
  BY InnerOverlay
<1>7. OthersChanges(s)
  BY OthersOverlay
<1> QED BY <1>5, <1>6, <1>7, CommitsInner

LEMMA RollbackStep ==
  ASSUME AllInv, AllInv', NEW s \in Session, StepOf(s), RollbackBegin(s)
  PROVE  Objects!Next
<1>1. UNCHANGED << index, total_entries, ops, tran_id >> /\ pc[s] = "idle" /\ pc'[s] = "rolling back"
  BY AllParts DEF RollbackBegin, Section, headerVars, SessionInv, SessionsOK
<1>2. Active(s) => Active(s)' /\ tran_id'[s] = tran_id[s]
  BY <1>1 DEF Active
<1>3. pc[s] \notin {"writing", "committing"} /\ pc'[s] # "committing"
  BY <1>1
<1>4. SameObjects
  BY <1>1, <1>2, <1>3, OpenObjects
<1>5. Overlay(s)' = [l \in 1 .. Len(Overlay(s)) - 1 |-> Overlay(s)[l]] /\ Overlay(s) # << >>
  BY DropOverlay
<1> QED BY <1>4, <1>5, OthersOverlay, RollsBack

(* The operation that created an object is the first one for it. *)
LEMMA CreatedFirst ==
  ASSUME StoreInv, MarkInv, NEW s \in Session, NEW i \in 1 .. Len(ops[s]), ops[s][i].old_tran_id = -1
  PROVE  /\ ops[s][i].old_tran_op = 0
         /\ \A j \in 1 .. Len(ops[s]) : ops[s][j].id = ops[s][i].id =>
              i <= j /\ (ops[s][j].old_tran_op = 0 => i = j)
<1>1. Len(ops[s]) \in Nat /\ tran_id[s] \in Nat
  BY SessionFacts
<1>2. ops[s][i].old_tran_op = 0 /\ \A k \in 1 .. i - 1 : ops[s][k].id # ops[s][i].id
  <2>1. Kept(ops[s], tran_id[s], i)
    BY DEF MarkInv, OpsLinked
  <2>2. ops[s][i].old_tran_id \notin {0, tran_id[s]}
    BY <1>1
  <2> QED BY <2>1, <2>2 DEF Kept
<1>3. ASSUME NEW j \in 1 .. Len(ops[s]), ops[s][j].id = ops[s][i].id
      PROVE  i <= j /\ (ops[s][j].old_tran_op = 0 => i = j)
  <2>1. i <= j
    <3>1. j \notin 1 .. i - 1
      BY <1>2, <1>3
    <3> QED BY <1>1, <3>1
  <2>2. ASSUME ops[s][j].old_tran_op = 0 PROVE i = j
    <3>1. Kept(ops[s], tran_id[s], j)
      BY DEF MarkInv, OpsLinked
    <3>2. \A k \in 1 .. j - 1 : ops[s][k].id # ops[s][j].id
      <4>1. 0 \notin 1 .. j - 1
        OBVIOUS
      <4> QED BY <2>2, <3>1, <4>1 DEF Kept
    <3>3. i \notin 1 .. j - 1
      BY <1>3, <3>2
    <3> QED BY <1>1, <2>1, <3>3
  <2> QED BY <2>1, <2>2
<1> QED BY <1>2, <1>3

(* An entry with a mark has an operation of the session that is not undone. *)
LEMMA MarkHasOp ==
  ASSUME AllInv, NEW s \in Session, NEW n \in Num, MarkOf(s, n)
  PROVE  \E i \in 1 .. Live(s) : ops[s][i].id = n /\ Names(s, n, i)
<1>1. PICK t \in Session : /\ Active(t) /\ tran_id[t] = index[n].tran_id
                           /\ \E i \in 1 .. Live(t) : Names(t, n, i)
  BY AllParts DEF MarkOf, MarkInv, MarksNamed
<1>2. t = s
  BY <1>1, AllParts DEF MarkOf, OwnIds
<1> QED BY <1>1, <1>2 DEF Names, LastOp

(* A rollback step, at the entry of its operation. *)
LEMMA UndoneObject ==
  ASSUME AllInv, AllInv', NEW s \in Session, RollbackOp(s), NEW op, NEW n \in Num,
         op = ops[s][work[s].op_offset + work[s].cursor], n = op.id
  PROVE  Committed(n)' = Committed(n)
<1> DEFINE k == work[s].op_offset + work[s].cursor
           e == index[n]
           x == Undone(op, e)
<1>1. /\ pc[s] = "rolling back" /\ UNCHANGED << pc, ops, levels, tran_id, data, total_entries >>
      /\ work[s].cursor > 0 /\ n < total_entries
  BY AllParts DEF RollbackOp, tranVars
<1>2. k \in 1 .. Live(s) /\ k \in 1 .. Len(ops[s]) /\ op \in Op /\ op = ops[s][k]
  <2>1. /\ Live(s) = k /\ Live(s) \in Nat /\ Live(s) <= Len(ops[s]) /\ Len(ops[s]) \in Nat
        /\ work[s].cursor \in Nat /\ work[s].op_offset \in Nat
        /\ \A i \in 1 .. Len(ops[s]) : ops[s][i] \in Op
    BY <1>1, AllParts, LiveOps
  <2>2. work[s].cursor > 0
    BY <1>1
  <2>3. k > 0
    BY <2>1, <2>2
  <2> HIDE DEF k
  <2>4. k \in 1 .. Live(s) /\ k \in 1 .. Len(ops[s])
    BY <2>1, <2>3
  <2> QED BY <2>1, <2>4 DEF k
<1>3. MarkOf(s, n)
  <2>1. HasMark(n) /\ e.tran_id = tran_id[s]
    BY <1>1, <1>2, AllParts DEF MarkInv, OpsMarked
  <2> QED BY <1>1, <2>1 DEF MarkOf, Active
<1>4. /\ Committed(n) = IF CreatedIn(s, n) THEN Absent ELSE CellsOf(e)
      /\ e.lock = "none" /\ e \in Entry
  <2>1. Committed(n) = ChangedBy(s, n) /\ e.lock = "none"
    BY <1>3, StandsMarked
  <2> QED BY <1>1, <2>1, AllParts DEF ChangedBy, HeaderOK
<1>5. index'[n] = x
  BY <1>3, <1>4, AllParts DEF RollbackOp, MarkOf, HasMark, HeaderOK
<1>6. CreatedIn(s, n)' <=> CreatedIn(s, n)
  BY <1>1 DEF CreatedIn
<1> DEFINE created == op.old_tran_op = 0 /\ op.old_tran_id = -1
<1>7. /\ ~created => x.pos = e.pos /\ x.size = e.size /\ x.lock = "none"
      /\ ~created => x.trans = IF op.old_tran_op = 0 THEN "none" ELSE "change"
      /\ ~created => x.tran_id = IF op.old_tran_id > 0 THEN op.old_tran_id ELSE e.tran_id
      /\ created => x.trans = "free_list"
  BY <1>4 DEF Undone, Freed, Entry
<1>8. created => CreatedIn(s, n)
  BY <1>2 DEF CreatedIn
<1>9. op.old_tran_op = 0 /\ ~created => ~CreatedIn(s, n)
  <2> SUFFICES ASSUME op.old_tran_op = 0, ~created, NEW i \in 1 .. Len(ops[s]), ops[s][i].id = n,
                      ops[s][i].old_tran_id = -1
               PROVE  FALSE
    <3>1. DOMAIN ops[s] = 1 .. Len(ops[s])
      BY AllParts, SessionFacts, LenProperties
    <3> QED BY <3>1 DEF CreatedIn
  <2>1. \A j \in 1 .. Len(ops[s]) : ops[s][j].id = ops[s][i].id => (ops[s][j].old_tran_op = 0 => i = j)
    BY AllParts, CreatedFirst
  <2>2. i = k
    BY <1>2, <2>1
  <2> QED BY <1>2, <2>2
<1>10. ~created => CellsOf(index[n])' = CellsOf(e)
  BY <1>1, <1>5, <1>7 DEF CellsOf
<1> HIDE DEF x, created
<1>11. CASE created
  <2>1. index'[n].trans = "free_list"
    BY <1>5, <1>7, <1>11
  <2>2. Committed(n)' = Absent
    BY <2>1, StandsForNoneLater
  <2> QED BY <1>4, <1>8, <1>11, <2>2
<1>12. CASE ~created /\ op.old_tran_op = 0
  <2>1. Settled(n)'
    BY <1>1, <1>5, <1>7, <1>12 DEF Settled
  <2>2. Committed(n)' = CellsOf(index[n])'
    BY <2>1, StandsSettledLater
  <2> QED BY <1>4, <1>9, <1>10, <1>12, <2>2
<1>13. CASE op.old_tran_op # 0
  <2>1. ~created /\ x.trans = "change"
    BY <1>7, <1>13 DEF created
  <2>2. x.tran_id = tran_id[s]
    <3>1. Kept(ops[s], tran_id[s], k)
      BY <1>2, AllParts DEF MarkInv, OpsLinked
    <3>2. op.old_tran_id \in {0, tran_id[s]}
      BY <1>2, <1>13, <3>1 DEF Kept
    <3>3. e.tran_id = tran_id[s]
      BY <1>3 DEF MarkOf
    <3>4. op.old_tran_id > 0 => op.old_tran_id = tran_id[s]
      BY <3>2
    <3> QED BY <1>7, <2>1, <3>3, <3>4
  <2>3. MarkOf(s, n)'
    BY <1>1, <1>5, <2>1, <2>2 DEF MarkOf, HasMark, Active
  <2>4. Committed(n)' = ChangedBy(s, n)'
    BY <2>3, StandsMarkedLater
  <2>5. ChangedBy(s, n)' = IF CreatedIn(s, n)' THEN Absent ELSE CellsOf(index[n])'
    BY <1>1 DEF ChangedBy
  <2> QED BY <1>4, <1>6, <1>10, <2>1, <2>4, <2>5
<1> QED BY <1>11, <1>12, <1>13

LEMMA RollbackOpStep ==
  ASSUME AllInv, AllInv', NEW s \in Session, StepOf(s), RollbackOp(s)
  PROVE  UNCHANGED Abstract
<1> DEFINE op == ops[s][work[s].op_offset + work[s].cursor]
<1>1. /\ pc[s] = "rolling back"
      /\ UNCHANGED << pc, ops, levels, tran_id, trans_data, total_entries, write >>
      /\ op.id < total_entries
  BY DEF RollbackOp, tranVars
<1>2. SameTran(s)
  BY <1>1 DEF SameTran
<1>3. op.id \in Num
  <2>1. work[s].cursor > 0
    BY DEF RollbackOp
  <2>2. op \in Op
    BY <1>1, <2>1, AllParts, CurrentOp
  <2> QED BY <2>2 DEF Op
<1>4. SameObjects
  <2> SUFFICES ASSUME NEW n \in Num, n # op.id PROVE Committed(n)' = Committed(n)
    BY UndoneObject DEF SameObjects
  <2>1. index'[n] = index[n]
    <3> HIDE DEF op
    <3> QED BY AllParts DEF RollbackOp, HeaderOK, op
  <2>2. ~Writes(s, n)
    BY <1>1 DEF Writes
  <2>3. MarkOf(s, n) => MarkOf(s, n)' /\ ChangeKept(s, n)
    BY <1>2, <2>1, SameTranMark
  <2>4. n < total_entries' <=> n < total_entries
    BY <1>1
  <2> QED BY <2>1, <2>2, <2>3, <2>4, CommittedKept
<1>5. ValuesKept(s) /\ levels'[s] = levels[s]
  BY <1>1 DEF ValuesKept
<1>6. SameChanges
  BY <1>5, OverlayKept, OthersOverlay DEF SameChanges, OthersChanges
<1> QED BY <1>4, <1>6, Stutters

(* A session that has dealt with all of its operations has no mark left. *)
LEMMA CommitEndStep ==
  ASSUME AllInv, AllInv', NEW s \in Session, StepOf(s), CommitEnd(s)
  PROVE  UNCHANGED Abstract
<1>1. pc[s] = "committing" /\ work[s].cursor = 0 /\ UNCHANGED << index, total_entries >>
  BY DEF CommitEnd, headerVars
<1>2. Live(s) = 0
  BY <1>1, AllParts, LiveOps
<1>3. SameObjects
  <2> SUFFICES ASSUME NEW n \in Num PROVE Committed(n)' = Committed(n)
    BY DEF SameObjects
  <2>1. index'[n] = index[n] /\ (n < total_entries' <=> n < total_entries)
    BY <1>1
  <2>2. ~Writes(s, n)
    BY <1>1 DEF Writes
  <2>3. ~MarkOf(s, n)
    <3>1. 1 .. Live(s) = {}
      BY <1>2
    <3> QED BY <3>1, MarkHasOp
  <2> QED BY <2>1, <2>2, <2>3, CommittedKept
<1>4. SameChanges
  BY EndsOverlay, OthersOverlay DEF SameChanges, OthersChanges
<1> QED BY <1>3, <1>4, Stutters

LEMMA RollbackEndStep ==
  ASSUME AllInv, AllInv', NEW s \in Session, StepOf(s), RollbackEnd(s)
  PROVE  UNCHANGED Abstract
<1>1. /\ pc[s] = "rolling back" /\ pc'[s] = "idle"
      /\ UNCHANGED << index, total_entries, levels, tran_id >>
  BY AllParts DEF RollbackEnd, headerVars, SessionInv, SessionsOK
<1>2. /\ Len(ops'[s]) = OpsEnd(s) /\ OpsEnd(s) \in Nat /\ OpsEnd(s) <= Len(ops[s]) /\ Live(s) = OpsEnd(s)
      /\ \A i \in 1 .. OpsEnd(s) : ops'[s][i] = ops[s][i]
  BY AllParts, EndedOps
<1>3. Len(ops[s]) \in Nat /\ DOMAIN ops[s] = 1 .. Len(ops[s]) /\ DOMAIN ops'[s] = 1 .. OpsEnd(s)
  <2>1. ops[s] \in Seq(Op) /\ ops'[s] \in Seq(Op)
    BY AllParts, AllPartsLater DEF SessionInv, SessionsOK
  <2> QED BY <1>2, <2>1, LenProperties
<1>4. SameObjects
  <2> SUFFICES ASSUME NEW n \in Num PROVE Committed(n)' = Committed(n)
    BY DEF SameObjects
  <2>1. index'[n] = index[n] /\ (n < total_entries' <=> n < total_entries)
    BY <1>1
  <2>2. ~Writes(s, n)
    BY <1>1 DEF Writes
  <2>3. ASSUME MarkOf(s, n) PROVE MarkOf(s, n)' /\ ChangeKept(s, n)
    <3>1. PICK j \in 1 .. Live(s) : ops[s][j].id = n
      BY <2>3, MarkHasOp
    <3>2. InTx(s) /\ OpsEnd(s) > 0
      <4>1. OpsEnd(s) > 0
        BY <1>2, <3>1
      <4> QED BY <4>1 DEF OpsEnd
    <3>3. Active(s) => Active(s)' /\ tran_id'[s] = tran_id[s]
      BY <1>1, <3>2 DEF Active, InTx
    <3>4. CreatedIn(s, n) => CreatedIn(s, n)'
      <4> SUFFICES ASSUME NEW i \in 1 .. Len(ops[s]), ops[s][i].id = n, ops[s][i].old_tran_id = -1
                   PROVE  CreatedIn(s, n)'
        BY <1>3 DEF CreatedIn
      <4>1. j \in 1 .. Len(ops[s])
        BY <1>2, <1>3
      <4>2. i <= j
        BY <3>1, <4>1, AllParts, CreatedFirst
      <4>3. i \in 1 .. OpsEnd(s)
        BY <1>2, <4>2
      <4>4. ops'[s][i] = ops[s][i]
        BY <1>2, <4>3
      <4> QED BY <1>3, <4>3, <4>4 DEF CreatedIn
    <3>5. CreatedIn(s, n)' => CreatedIn(s, n)
      <4> SUFFICES ASSUME NEW i \in 1 .. OpsEnd(s), ops'[s][i].id = n, ops'[s][i].old_tran_id = -1
                   PROVE  CreatedIn(s, n)
        BY <1>3 DEF CreatedIn
      <4>1. i \in 1 .. Len(ops[s])
        BY <1>2, <1>3
      <4>2. ops'[s][i] = ops[s][i]
        BY <1>2
      <4> QED BY <1>3, <4>1, <4>2 DEF CreatedIn
    <3>6. pc[s] # "committing" /\ (pc'[s] = "committing" <=> pc[s] = "committing")
      BY <1>1
    <3> QED BY <2>1, <2>3, <3>3, <3>4, <3>5, <3>6, MarkStays
  <2> QED BY <2>1, <2>2, <2>3, CommittedKept
<1>5. SameChanges
  BY EndsOverlay, OthersOverlay DEF SameChanges, OthersChanges
<1> QED BY <1>4, <1>5, Stutters

LEMMA ExtentCells == \A k \in Num : AllInv /\ k \in Stored =>
  \A c \in 1 .. index[k].size : index[k].pos + c - 1 \in Cell
BY ExtentIn

LEMMA ExtentCellsLater == (\A k \in Num : AllInv /\ k \in Stored =>
  \A c \in 1 .. index[k].size : index[k].pos + c - 1 \in Cell)'
BY ExtentCells, PTL

(* A commit step that puts what an operation stored into the data file. *)
LEMMA ChangedObject ==
  ASSUME AllInv, AllInv', NEW s \in Session, CommitOp(s), NEW op, op = ops[s][work[s].cursor],
         CommitChange(s, op), NEW n \in Num, n = op.id
  PROVE  Committed(n)' = Committed(n)
<1> DEFINE e == index[n]
           k == work[s].cursor
           pos == CommitPos(op)
           zero == 0
           trans == "none"
           x == [e EXCEPT !.pos = pos, !.size = op.size, !.tran_op = zero, !.trans = trans]
<1>1. /\ pc[s] = "committing" /\ UNCHANGED << pc, ops, tran_id, total_entries >>
      /\ e.trans = "change" /\ index' = [index EXCEPT ![n] = x] /\ n < total_entries /\ e.lock = "none"
  BY DEF CommitOp, CommitChange, CommitPos, tranVars
<1>2. /\ Names(s, n, k) /\ Live(s) = k /\ k \in 1 .. Len(ops[s])
      /\ op \in Op /\ op.pos \in Nat /\ op.size \in Nat /\ pos \in Nat
      /\ data' = [c \in Cell |-> IF c \in pos .. pos + op.size - 1
                                 THEN trans_data[s][op.pos + (c - pos)] ELSE data[c]]
  <2>1. StoreInv /\ MarkInv /\ ExtentInv
    BY AllParts
  <2>2. Names(s, op.id, k) /\ Live(s) = k /\ k \in 1 .. Len(ops[s])
    BY <2>1, ChangePlaced
  <2>3. op \in Op /\ op.pos \in Nat /\ op.size \in Nat /\ pos \in Nat
    BY <2>1, ChangePlaced
  <2>4. data' = [c \in Cell |-> IF c \in pos .. pos + op.size - 1
                                 THEN trans_data[s][op.pos + (c - pos)] ELSE data[c]]
    BY DEF CommitChange, CommitPos
  <2> QED BY <2>2, <2>3, <2>4
<1>3. MarkOf(s, n)
  <2>1. k \in 1 .. Live(s)
    <3> HIDE DEF k
    <3>1. k \in 1 .. k
      <4>1. Len(ops[s]) \in Nat
        BY AllParts, SessionFacts
      <4> QED BY <1>2, <4>1
    <3> QED BY <1>2, <3>1
  <2>2. HasMark(n) /\ e.tran_id = tran_id[s]
    BY <1>1, <2>1, AllParts DEF MarkInv, OpsMarked, HasMark
  <2> QED BY <1>1, <2>2 DEF MarkOf, Active
<1>4. Committed(n) = [c \in 1 .. op.size |-> trans_data[s][op.pos + c - 1]]
  <2>1. Committed(n) = ChangedBy(s, n)
    BY <1>3, StandsMarked
  <2>2. e.tran_op = k
    BY <1>1, <1>2 DEF Names
  <2>3. OpValue(s, k) = [c \in 1 .. op.size |-> trans_data[s][op.pos + c - 1]]
    BY <1>1 DEF OpValue
  <2> QED BY <1>1, <2>1, <2>2, <2>3 DEF ChangedBy
<1>5. index'[n] = x /\ x.pos = pos /\ x.size = op.size /\ x.lock = "none" /\ x.trans = "none"
  <2>1. index \in [Num -> Entry]
    BY AllParts DEF HeaderOK
  <2> QED BY <1>1, <2>1 DEF Entry
<1> HIDE DEF x, pos
<1>6. Settled(n)'
  BY <1>1, <1>5 DEF Settled
<1>7. Committed(n)' = CellsOf(index[n])'
  BY <1>6, StandsSettledLater
<1>8. CellsOf(index[n])' = [c \in 1 .. op.size |-> data'[pos + c - 1]]
  BY <1>5 DEF CellsOf
<1>9. \A c \in 1 .. op.size : pos + c - 1 \in Cell
  <2>1. n \in Stored'
    <3>1. total_entries' \in Nat /\ n \in Nat /\ n < total_entries'
      BY <1>1, AllParts, NumFacts
    <3> QED BY <1>5, <3>1 DEF Stored
  <2>2. \A c \in 1 .. index'[n].size : index'[n].pos + c - 1 \in Cell
    BY <2>1, ExtentCellsLater DEF Cell
  <2> QED BY <1>5, <2>2
<1>10. \A c \in 1 .. op.size : data'[pos + c - 1] = trans_data[s][op.pos + c - 1]
  <2> SUFFICES ASSUME NEW c \in 1 .. op.size PROVE data'[pos + c - 1] = trans_data[s][op.pos + c - 1]
    OBVIOUS
  <2>1. pos + c - 1 \in pos .. pos + op.size - 1 /\ op.pos + ((pos + c - 1) - pos) = op.pos + c - 1
    BY <1>2
  <2> QED BY <1>2, <1>9, <2>1
<1> QED BY <1>4, <1>7, <1>8, <1>10

LEMMA CommitOpStep ==
  ASSUME AllInv, AllInv', NEW s \in Session, StepOf(s), CommitOp(s)
  PROVE  UNCHANGED Abstract
<1> DEFINE op == ops[s][work[s].cursor]
<1>1. /\ pc[s] = "committing" /\ op.id < total_entries
      /\ UNCHANGED << pc, ops, levels, tran_id, trans_data, total_entries, write >>
  BY DEF CommitOp, tranVars
<1>2. SameTran(s)
  BY <1>1 DEF SameTran
<1>3. \/ CommitDelete(s, op.id) \/ CommitChange(s, op) \/ UNCHANGED index
  BY DEF CommitOp, CommitSkip
<1>4. ASSUME NEW n \in Num, index'[n] = index[n] PROVE Committed(n)' = Committed(n)
  <2>1. ~Writes(s, n)
    BY <1>1 DEF Writes
  <2>2. MarkOf(s, n) => MarkOf(s, n)' /\ ChangeKept(s, n)
    BY <1>2, <1>4, SameTranMark
  <2>3. n < total_entries' <=> n < total_entries
    BY <1>1
  <2> QED BY <1>4, <2>1, <2>2, <2>3, CommittedKept
<1>5. ASSUME CommitDelete(s, op.id), NEW n \in Num, n = op.id PROVE Committed(n)' = Committed(n)
  <2>1. index[n].trans = "delete" /\ index'[n].trans = "free_list"
    <3>1. index[n] \in Entry /\ index \in [Num -> Entry] /\ HeaderOK
      BY AllParts DEF HeaderOK
    <3>2. index' = [index EXCEPT ![n] = [Freed(index[n]) EXCEPT !.tran_op = 0]] /\ index[n].trans = "delete"
      BY <1>5 DEF CommitDelete
    <3>3. Freed(index[n]) \in Entry /\ Freed(index[n]).trans = "free_list"
      BY <3>1, FreedEntry
    <3> DEFINE f == Freed(index[n])
               zero == 0
    <3>4. [f EXCEPT !.tran_op = zero].trans = "free_list"
      <4> HIDE DEF f, zero
      <4>1. f \in Entry /\ f.trans = "free_list"
        BY <3>3 DEF f
      <4> QED BY <4>1 DEF Entry
    <3> QED BY <3>1, <3>2, <3>4
  <2>2. MarkOf(s, n)
    <3>1. work[s].cursor \in 1 .. Live(s)
      <4>1. work[s].cursor > 0
        BY DEF CommitOp
      <4>2. Live(s) = work[s].cursor /\ work[s].cursor \in Nat
        BY <1>1, AllParts, LiveOps
      <4> QED BY <4>1, <4>2
    <3>2. HasMark(n) /\ index[n].tran_id = tran_id[s]
      BY <1>5, <2>1, <3>1, AllParts DEF MarkInv, OpsMarked, HasMark
    <3> QED BY <1>1, <3>2 DEF MarkOf, Active
  <2>3. Committed(n) = Absent
    BY <1>1, <2>1, <2>2, StandsMarked DEF ChangedBy
  <2> QED BY <2>1, <2>3, StandsForNoneLater
<1>6. SameObjects
  <2> SUFFICES ASSUME NEW n \in Num PROVE Committed(n)' = Committed(n)
    BY DEF SameObjects
  <2>1. CASE index'[n] = index[n]
    BY <1>4, <2>1
  <2>2. CASE CommitDelete(s, op.id) /\ n = op.id
    BY <1>5, <2>2
  <2>3. CASE CommitChange(s, op) /\ n = op.id
    BY <2>3, ChangedObject
  <2>4. n = op.id \/ index'[n] = index[n]
    <3> HIDE DEF op
    <3> QED BY <1>3, AllParts DEF CommitDelete, CommitChange, HeaderOK
  <2> QED BY <1>3, <2>1, <2>2, <2>3, <2>4
<1>7. ValuesKept(s) /\ levels'[s] = levels[s]
  BY <1>1 DEF ValuesKept
<1>8. SameChanges
  BY <1>7, OverlayKept, OthersOverlay DEF SameChanges, OthersChanges
<1> QED BY <1>6, <1>8, Stutters

(* Nobody has operations for an object whose entry has no mark ... *)
LEMMA Untouched ==
  ASSUME AllInv, rp_impl_lock = NoSession, NEW n \in Num, ~HasMark(n), NEW t \in Session
  PROVE  Objects!Overlaid(t, n) = {} /\ Objects!View(t, n) = Committed(n)
<1>1. pc[t] \notin {"committing", "rolling back"}
  BY AllParts, NoHolder
<1>2. \A i \in 1 .. Len(ops[t]) : ops[t][i].id # n
  BY <1>1, AllParts, UnmarkedUnknown
<1> QED BY <1>2, ViewNone

(* ... and nobody else if it has the session's own. *)
LEMMA OthersUntouched ==
  ASSUME AllInv, rp_impl_lock = NoSession, NEW s \in Session, NEW n \in Num,
         HasMark(n) => index[n].tran_id = tran_id[s] /\ Active(s)
  PROVE  NobodyElse(s, n)
<1> SUFFICES ASSUME NEW t \in Session \ {s} PROVE Objects!Overlaid(t, n) = {}
  BY DEF NobodyElse
<1>1. pc[t] \notin {"committing", "rolling back"}
  BY AllParts, NoHolder
<1>2. \A i \in 1 .. Live(t) : ops[t][i].id # n
  BY <1>1, AllParts, NotTheirs
<1>3. Live(t) = Len(ops[t])
  BY <1>1, AllParts, LiveOps
<1> QED BY <1>2, <1>3, ViewNone

(* The cases of an entry that a session may change. *)
LEMMA PresentCases ==
  ASSUME AllInv, NEW s \in Session, NEW n \in Num, Present(s, n, index[n])
  PROVE  \/ Settled(n) /\ ~HasMark(n)
         \/ MarkOf(s, n) /\ index[n].trans = "change" /\ InTx(s)
<1>1. index[n].lock = "none" /\ n < total_entries /\ index[n].trans # "free_list"
  BY DEF Present, Writable
<1>2. CASE index[n].trans = "none"
  BY <1>1, <1>2 DEF Settled, HasMark
<1>3. CASE index[n].trans # "none"
  <2>1. InTx(s) /\ index[n].tran_id = tran_id[s] /\ index[n].trans # "delete"
    BY <1>3 DEF Present, Writable
  <2>2. index[n].trans \in {"none", "change", "delete", "free_list"}
    BY AllParts DEF HeaderOK, Entry
  <2> QED BY <1>1, <1>3, <2>1, <2>2 DEF MarkOf, HasMark, Active
<1> QED BY <1>2, <1>3

(* The session sees an object that it may change. *)
LEMMA SeenThere ==
  ASSUME AllInv, NEW s \in Session, Section(s), NEW n \in Num, Present(s, n, index[n])
  PROVE  Objects!View(s, n) # Absent
<1>1. rp_impl_lock = NoSession /\ Calm(s) /\ pc[s] \notin {"committing", "rolling back"}
  BY DEF Section, Calm
<1>2. CASE Settled(n) /\ ~HasMark(n)
  BY <1>1, <1>2, Untouched, SettledThere
<1>3. CASE MarkOf(s, n) /\ index[n].trans = "change"
  <2>1. PICK i \in 1 .. Live(s) : ops[s][i].id = n /\ Names(s, n, i)
    BY <1>3, MarkHasOp
  <2>2. Live(s) = Len(ops[s])
    BY <1>1, AllParts, LiveOps
  <2>3. i \in 1 .. Len(ops[s]) /\ LastIn(ops[s], 1, Len(ops[s]), n, i)
    BY <2>1, <2>2 DEF Names, LastOp, LastIn
  <2>4. Changes(ops[s][i])
    BY <1>3, <2>1 DEF Names, Changes
  <2>5. OpVal(s, i) # Absent
    BY <2>3, <2>4, LogValues
  <2>6. Objects!View(s, n) = OpVal(s, i)
    BY <1>1, <2>3, ViewLast
  <2> QED BY <2>5, <2>6
<1> QED BY <1>2, <1>3, PresentCases

(* What a session stores is an object. *)
LEMMA FilledObject ==
  ASSUME NEW size \in Size, NEW val \in Value
  PROVE  [c \in 1 .. size |-> val] \in Object /\ [c \in 1 .. size |-> val] # Absent
<1> DEFINE v == [c \in 1 .. size |-> val]
<1>1. size \in Nat
  BY ConstFacts
<1>2. v \in [1 .. size -> Value]
  OBVIOUS
<1>3. v \in Object
  BY <1>2 DEF Object
<1>4. v \in Seq(Value \cup {0})
  <2>1. v \in [1 .. size -> Value \cup {0}]
    OBVIOUS
  <2> QED BY <1>1, <2>1, SeqDef
<1> HIDE DEF v
<1>5. v # Absent
  BY <1>4, ObjectsAssumption
<1> QED BY <1>3, <1>5 DEF v

LEMMA NotBetween == \A a, b, m \in Nat : b >= a /\ m \notin a .. b - 1 => (m < b <=> m < a)
OBVIOUS

(* The objects that a session has created are the same, but for a new one. *)
LEMMA LoggedCreated ==
  ASSUME AllInv, AllInv', NEW s \in Session, NEW n \in Num, NEW op \in Op, NEW x \in Entry,
         LoggedForm(s, n, op, x), NEW m \in Num
  PROVE  CreatedIn(s, m)' <=> CreatedIn(s, m) \/ (m = n /\ op.old_tran_id = -1)
<1> DEFINE k == Len(ops[s])
<1>1. InTx(s) /\ LogOp(s, op) /\ op.id = n
  BY DEF LoggedForm, LoggedOp
<1>2. Len(ops'[s]) = k + 1 /\ ops'[s][k + 1] = op /\ \A i \in 1 .. k : ops'[s][i] = ops[s][i]
  BY <1>1, AllParts, LoggedLevels
<1>3. k \in Nat /\ DOMAIN ops[s] = 1 .. k /\ DOMAIN ops'[s] = 1 .. Len(ops'[s])
  <2>1. ops[s] \in Seq(Op) /\ ops'[s] \in Seq(Op)
    BY AllParts, AllPartsLater DEF SessionInv, SessionsOK
  <2> QED BY <2>1, LenProperties
<1> HIDE DEF k
<1>4. DOMAIN ops'[s] = 1 .. k + 1
  BY <1>2, <1>3
<1>5. ASSUME CreatedIn(s, m)' PROVE CreatedIn(s, m) \/ (m = n /\ op.old_tran_id = -1)
  <2>1. PICK i \in 1 .. k + 1 : ops'[s][i].id = m /\ ops'[s][i].old_tran_id = -1
    BY <1>4, <1>5 DEF CreatedIn
  <2>2. CASE i = k + 1
    BY <1>1, <1>2, <2>1, <2>2
  <2>3. CASE i # k + 1
    <3>1. i \in 1 .. k
      BY <1>3, <2>3
    <3> QED BY <1>2, <1>3, <2>1, <3>1 DEF CreatedIn
  <2> QED BY <2>2, <2>3
<1>6. ASSUME CreatedIn(s, m) PROVE CreatedIn(s, m)'
  <2>1. PICK i \in 1 .. k : ops[s][i].id = m /\ ops[s][i].old_tran_id = -1
    BY <1>3, <1>6 DEF CreatedIn
  <2>2. i \in 1 .. k + 1
    BY <1>3
  <2> QED BY <1>2, <1>4, <2>1, <2>2 DEF CreatedIn
<1>7. ASSUME m = n, op.old_tran_id = -1 PROVE CreatedIn(s, m)'
  <2>1. k + 1 \in 1 .. k + 1
    BY <1>3
  <2> QED BY <1>1, <1>2, <1>4, <1>7, <2>1 DEF CreatedIn
<1> QED BY <1>5, <1>6, <1>7

(* The entry that a session marks stands for what it stood for. *)
LEMMA LoggedObject ==
  ASSUME AllInv, AllInv', NEW s \in Session, NEW n \in Num, NEW op \in Op, NEW x \in Entry,
         LoggedForm(s, n, op, x)
  PROVE  Committed(n)' = Committed(n)
<1>1. /\ Section(s) /\ InTx(s) /\ NewTotal(n) /\ LoggedEntry(s, n, op, x) /\ LoggedFor(s, n, op, x)
      /\ LoggedCall(s, op) /\ pc[s] = "idle"
  BY DEF LoggedForm, Section
<1>2. pc'[s] # "committing" /\ pc[s] # "committing" /\ UNCHANGED << tran_id, data >>
  BY <1>1 DEF LoggedCall
<1>3. index'[n] = x /\ x.tran_id = tran_id[s] /\ x.trans \in {"change", "delete"}
  BY <1>1, AllParts DEF LoggedEntry, HeaderOK
<1>4. MarkOf(s, n)'
  <2>1. InTx(s)'
    <3>1. Len(levels'[s]) = Len(levels[s]) /\ Len(levels[s]) > 0
      BY <1>1, AllParts, LevelsAfter, LoggedLevels DEF LoggedForm, LoggedOp
    <3>2. Len(levels'[s]) > 0
      BY <3>1
    <3> QED BY <3>2, LevelsOpen
  <2>2. Active(s)'
    BY <2>1 DEF Active
  <2> QED BY <1>2, <1>3, <2>2 DEF MarkOf, HasMark
<1>5. Committed(n)' = ChangedBy(s, n)'
  BY <1>4, StandsMarkedLater
<1>6. Committed(n)' = IF CreatedIn(s, n)' THEN Absent ELSE CellsOf(index[n])'
  BY <1>2, <1>5 DEF ChangedBy
<1>7. CASE /\ n >= total_entries \/ index[n].trans = "free_list"
           /\ op.old_tran_id = -1
  <2>1. CreatedIn(s, n)'
    BY <1>7, LoggedCreated
  <2> QED BY <1>6, <1>7, <2>1, StandsForNone
<1>8. CASE /\ op.old_tran_id # -1 /\ x.pos = index[n].pos /\ x.size = index[n].size
           /\ Present(s, n, index[n])
  <2>1. CreatedIn(s, n)' <=> CreatedIn(s, n)
    BY <1>8, LoggedCreated
  <2>2. CellsOf(index[n])' = CellsOf(index[n])
    BY <1>2, <1>3, <1>8 DEF CellsOf
  <2>3. CASE Settled(n) /\ ~HasMark(n)
    <3>1. \A i \in 1 .. Len(ops[s]) : ops[s][i].id # n
      <4>1. pc[s] \notin {"committing", "rolling back"}
        BY <1>1
      <4> QED BY <2>3, <4>1, AllParts, UnmarkedUnknown
    <3>2. DOMAIN ops[s] = 1 .. Len(ops[s])
      BY AllParts, SessionFacts, LenProperties
    <3>3. ~CreatedIn(s, n)
      BY <3>1, <3>2 DEF CreatedIn
    <3>4. Committed(n) = CellsOf(index[n])
      BY <2>3, StandsSettled
    <3> QED BY <1>6, <2>1, <2>2, <3>3, <3>4
  <2>4. CASE MarkOf(s, n)
    <3>1. Committed(n) = ChangedBy(s, n)
      BY <2>4, StandsMarked
    <3>2. Committed(n) = IF CreatedIn(s, n) THEN Absent ELSE CellsOf(index[n])
      BY <1>2, <3>1 DEF ChangedBy
    <3> QED BY <1>6, <2>1, <2>2, <3>2
  <2> QED BY <1>8, <2>3, <2>4, PresentCases
<1> QED BY <1>1, <1>7, <1>8 DEF LoggedFor

LEMMA LoggedObjects ==
  ASSUME AllInv, AllInv', NEW s \in Session, StepOf(s), NEW n \in Num, NEW op \in Op, NEW x \in Entry,
         LoggedForm(s, n, op, x)
  PROVE  SameObjects
<1> SUFFICES ASSUME NEW m \in Num, m # n PROVE Committed(m)' = Committed(m)
  BY LoggedObject DEF SameObjects
<1>1. /\ InTx(s) /\ NewTotal(n) /\ LoggedEntry(s, n, op, x) /\ LoggedCall(s, op) /\ pc[s] = "idle"
  BY DEF LoggedForm, Section
<1>2. index'[m] = index[m]
  BY <1>1, AllParts DEF LoggedEntry, HeaderOK
<1>3. m < total_entries' <=> m < total_entries
  <2>1. m \in Nat
    BY AllParts, NumFacts DEF Num
  <2>2. m \notin total_entries .. total_entries' - 1
    BY <1>1 DEF NewTotal
  <2>3. total_entries \in Nat /\ total_entries' \in Nat /\ total_entries' >= total_entries
    BY <1>1 DEF NewTotal
  <2> QED BY <2>1, <2>2, <2>3, NotBetween
<1>4. ~Writes(s, m)
  BY <1>1 DEF Writes
<1>5. MarkOf(s, m) => MarkOf(s, m)' /\ ChangeKept(s, m)
  <2>1. CreatedIn(s, m)' <=> CreatedIn(s, m)
    BY LoggedCreated
  <2>2. InTx(s)'
    <3>1. Len(levels'[s]) = Len(levels[s]) /\ Len(levels[s]) > 0
      BY <1>1, AllParts, LevelsAfter, LoggedLevels DEF LoggedForm, LoggedOp
    <3>2. Len(levels'[s]) > 0
      BY <3>1
    <3> QED BY <3>2, LevelsOpen
  <2>3. Active(s) => Active(s)' /\ tran_id'[s] = tran_id[s]
    BY <1>1, <2>2 DEF Active, LoggedCall
  <2>4. pc[s] # "committing" /\ (pc'[s] = "committing" <=> pc[s] = "committing")
    BY <1>1 DEF LoggedCall
  <2> QED BY <1>2, <2>1, <2>3, <2>4, MarkStays
<1> QED BY <1>2, <1>3, <1>4, <1>5, CommittedKept

(* A store or a destroy inside a transaction. *)
LEMMA LoggedStep ==
  ASSUME AllInv, AllInv', NEW s \in Session, StepOf(s), NEW n \in Num, NEW op \in Op, NEW x \in Entry,
         LoggedForm(s, n, op, x), Changes(op) => op.size \in Size,
         ~Changes(op) => Present(s, n, index[n])
  PROVE  Objects!Next
<1> DEFINE v == LoggedVal(s, op)
<1>1. Section(s) /\ rp_impl_lock = NoSession /\ LoggedFor(s, n, op, x) /\ LoggedCall(s, op)
  BY DEF LoggedForm, Section
<1>2. v \in Object \cup {Absent} /\ (v = Absent => ~Changes(op))
  <2>1. CASE Changes(op)
    <3>1. op.size \in Size /\ write'[s].val \in Value
      BY <1>1, <2>1 DEF LoggedCall
    <3>2. [c \in 1 .. op.size |-> write'[s].val] \in Object
          /\ [c \in 1 .. op.size |-> write'[s].val] # Absent
      BY <3>1, FilledObject
    <3>3. v = [c \in 1 .. op.size |-> write'[s].val]
      BY <2>1 DEF LoggedVal
    <3> QED BY <3>2, <3>3
  <2>2. CASE ~Changes(op)
    <3>1. v = Absent
      BY <2>2 DEF LoggedVal
    <3> QED BY <2>2, <3>1
  <2> QED BY <2>1, <2>2
<1>3. v = Absent => Objects!View(s, n) # Absent
  BY <1>1, <1>2, SeenThere
<1>4. NobodyElse(s, n)
  <2>1. HasMark(n) => index[n].tran_id = tran_id[s] /\ Active(s)
    <3>1. ~HasMark(n) \/ Present(s, n, index[n])
      BY <1>1 DEF LoggedFor
    <3>2. Present(s, n, index[n]) => ~HasMark(n) \/ MarkOf(s, n)
      BY PresentCases
    <3> QED BY <3>1, <3>2 DEF MarkOf
  <2> QED BY <1>1, <2>1, OthersUntouched
<1>5. Overlay(s) # << >> /\ Overlay(s)' = [Overlay(s) EXCEPT ![Len(Overlay(s))][n] = v]
  BY LoggedOverlay
<1>6. OthersChanges(s) /\ SameObjects
  BY OthersOverlay, LoggedObjects
<1> HIDE DEF v
<1> QED BY <1>2, <1>3, <1>4, <1>5, <1>6, SetsInside

(* An entry that has no mark is changed outside every transaction. *)
LEMMA PlainOverlay ==
  ASSUME AllInv, AllInv', NEW s \in Session, StepOf(s), ~InTx(s), UNCHANGED << ops, levels, trans_data >>,
         pc[s] = "idle", pc'[s] # "storing"
  PROVE  Overlay(s) = << >> /\ SameChanges
<1>1. Overlay(s) = << >>
  <2>1. Overlay(s) = OverlayOf(Log(s), levels[s])
    BY AllParts, OverlayIs
  <2>2. levels[s] \in Seq(Level) /\ levels[s] = << >> /\ Len(levels[s]) = 0
    BY LevelsAfter, EmptySeq DEF InTx
  <2>3. OverlayOf(Log(s), levels[s]) = << >> <=> Len(levels[s]) = 0
    BY <2>2, OverlayShape
  <2> QED BY <2>1, <2>2, <2>3
<1>2. ValuesKept(s) /\ levels'[s] = levels[s]
  BY DEF ValuesKept
<1>3. SameChanges
  BY <1>2, OverlayKept, OthersOverlay DEF SameChanges, OthersChanges
<1> QED BY <1>1, <1>3

LEMMA PlainOthers ==
  ASSUME AllInv, AllInv', NEW s \in Session, StepOf(s), ~InTx(s), pc[s] = "idle", NEW n \in Num,
         NewTotal(n), NEW m \in Num \ {n}, index'[m] = index[m]
  PROVE  Committed(m)' = Committed(m)
<1>1. m < total_entries' <=> m < total_entries
  <2>1. m \in Nat
    BY AllParts, NumFacts DEF Num
  <2>2. m \notin total_entries .. total_entries' - 1
    BY DEF NewTotal
  <2>3. total_entries \in Nat /\ total_entries' \in Nat /\ total_entries' >= total_entries
    BY DEF NewTotal
  <2> QED BY <2>1, <2>2, <2>3, NotBetween
<1>2. ~Writes(s, m)
  BY DEF Writes
<1>3. ~MarkOf(s, m)
  BY DEF MarkOf, Active
<1> QED BY <1>1, <1>2, <1>3, CommittedKept

(* A store outside a transaction. *)
LEMMA PlainStep ==
  ASSUME AllInv, AllInv', NEW s \in Session, StepOf(s), NEW n \in Num, NEW size \in Size,
         NEW val \in Value, NEW x \in Entry, PlainForm(s, n, x, size, val)
  PROVE  Objects!Next
<1> DEFINE v == [c \in 1 .. size |-> val]
<1>1. /\ ~InTx(s) /\ s \in PlainSession /\ NewTotal(n) /\ pc[s] = "idle" /\ rp_impl_lock = NoSession
      /\ pc'[s] = "writing" /\ UNCHANGED << ops, levels, trans_data >> /\ ~HasMark(n)
      /\ index' = [index EXCEPT ![n] = x] /\ x.size = size /\ index \in [Num -> Entry]
      /\ write'[s].num = n /\ write'[s].val = val
  BY AllParts DEF PlainForm, Section, HeaderOK, SessionInv, SessionsOK
<1>2. Overlay(s) = << >> /\ SameChanges
  BY <1>1, PlainOverlay
<1>3. NobodyElse(s, n)
  BY <1>1, OthersUntouched
<1>4. v \in Object /\ v # Absent
  BY FilledObject
<1>5. Committed(n)' = v
  <2>1. Writes(s, n)'
    BY <1>1 DEF Writes
  <2>2. Committed(n)' = [c \in 1 .. index'[n].size |-> write'[s].val]
    BY <2>1, StandsWrittenLater
  <2> QED BY <1>1, <2>2
<1>6. ASSUME NEW m \in Num \ {n} PROVE Committed(m)' = Committed(m)
  <2>1. index'[m] = index[m]
    BY <1>1
  <2> QED BY <1>1, <2>1, PlainOthers
<1> HIDE DEF v
<1> QED BY <1>1, <1>2, <1>3, <1>4, <1>5, <1>6, SetsOutside

(* A destroy outside a transaction. *)
LEMMA DestroyPlainStep ==
  ASSUME ~StaleIds, AllInv, AllInv', NEW s \in Session, StepOf(s), NEW n \in Num, Destroy(s, n),
         DestroyPlain(s, n)
  PROVE  Objects!Next
<1>1. /\ Section(s) /\ ~InTx(s) /\ s \in PlainSession /\ pc[s] = "idle" /\ rp_impl_lock = NoSession
      /\ pc'[s] = "idle" /\ UNCHANGED << ops, levels, trans_data, total_entries >>
      /\ Known(n) /\ Writable(s, index[n])
  BY DEF Destroy, DestroyPlain, Section, tranVars
<1>2. n < total_entries /\ index[n].trans # "free_list" /\ index[n] \in Entry
  BY <1>1, AllParts, KnownIsStored
<1>3. Present(s, n, index[n]) /\ ~HasMark(n) /\ NewTotal(n)
  <2>1. Present(s, n, index[n])
    BY <1>1, <1>2 DEF Present
  <2>2. ~HasMark(n)
    BY <1>1, <2>1, PresentCases
  <2>3. total_entries \in Nat
    BY AllParts, NumFacts
  <2>4. total_entries' = total_entries
    BY <1>1
  <2>5. total_entries .. total_entries - 1 = {}
    BY <2>3
  <2>6. NewTotal(n)
    BY <1>2, <2>3, <2>4, <2>5 DEF NewTotal
  <2> QED BY <2>1, <2>2, <2>6
<1>4. Overlay(s) = << >> /\ SameChanges
  BY <1>1, PlainOverlay
<1>5. NobodyElse(s, n)
  BY <1>1, <1>3, OthersUntouched
<1>6. Objects!View(s, n) # Absent
  BY <1>1, <1>3, SeenThere
<1>7. index' = [index EXCEPT ![n] = index'[n]] /\ index'[n].trans = "free_list"
  <2> DEFINE id == transaction_id
             zero == 0
             e == [index[n] EXCEPT !.tran_id = id, !.tran_op = zero]
             f == Freed(e)
  <2>1. index' = [index EXCEPT ![n] = f] /\ index \in [Num -> Entry] /\ HeaderOK
    BY AllParts DEF DestroyPlain, HeaderOK
  <2>2. index'[n] = f
    BY <2>1
  <2>3. e \in Entry
    <3>1. id \in Nat /\ zero \in Nat
      BY <2>1 DEF HeaderOK
    <3> HIDE DEF id, zero
    <3> QED BY <1>2, <3>1 DEF Entry
  <2> HIDE DEF e
  <2>4. f.trans = "free_list"
    BY <2>1, <2>3, FreedEntry
  <2> HIDE DEF f
  <2> QED BY <2>1, <2>2, <2>4
<1>8. Committed(n)' = Absent
  BY <1>7, StandsForNoneLater
<1>9. ASSUME NEW m \in Num \ {n} PROVE Committed(m)' = Committed(m)
  <2>1. index'[m] = index[m]
    BY <1>7, AllParts DEF HeaderOK
  <2> QED BY <1>1, <1>3, <2>1, PlainOthers
<1> QED BY <1>1, <1>4, <1>5, <1>6, <1>8, <1>9, SetsOutside

LEMMA StoreStep ==
  ASSUME ~StaleIds, AllInv, AllInv', NEW s \in Session, StepOf(s), NEW size \in Size, NEW val \in Value,
         Create(s, size, val) \/ Revive(s, size, val) \/ \E n \in Num : Update(s, n, size, val)
  PROVE  Objects!Next
<1>1. PICK n \in Num, e \in Entry, isNew \in BOOLEAN : StoreForm(s, n, e, isNew, size, val)
  BY AllParts, StoreForms
<1>2. StoreInTx(s, n, e, isNew, size, val) \/ StorePlain(s, n, e, isNew, size, val)
  BY <1>1 DEF StoreForm, Store
<1>3. CASE StoreInTx(s, n, e, isNew, size, val)
  <2>1. PICK op \in Op, x \in Entry :
           LoggedForm(s, n, op, x) /\ Changes(op) /\ op.size = size
    BY <1>1, <1>3, AllParts, StoreLogs
  <2> QED BY <2>1, LoggedStep
<1>4. CASE StorePlain(s, n, e, isNew, size, val)
  <2>1. PICK x \in Entry : PlainForm(s, n, x, size, val)
    BY <1>1, <1>4, AllParts, StorePlaces
  <2> QED BY <2>1, PlainStep
<1> QED BY <1>2, <1>3, <1>4

LEMMA DestroyStep ==
  ASSUME ~StaleIds, AllInv, AllInv', NEW s \in Session, StepOf(s), NEW n \in Num, Destroy(s, n)
  PROVE  Objects!Next
<1>1. DestroyInTx(s, n) \/ DestroyPlain(s, n)
  BY DEF Destroy
<1>2. CASE DestroyInTx(s, n)
  <2>1. PICK op \in Op, x \in Entry : LoggedForm(s, n, op, x) /\ ~Changes(op)
    BY <1>2, AllParts, DestroyLogs
  <2>2. Known(n) /\ Writable(s, index[n])
    BY DEF Destroy
  <2>3. Present(s, n, index[n])
    <3>1. n < total_entries /\ index[n].trans # "free_list"
      BY <2>2, AllParts, KnownIsStored
    <3> QED BY <2>2, <3>1 DEF Present
  <2> QED BY <2>1, <2>3, LoggedStep
<1>3. CASE DestroyPlain(s, n)
  BY <1>3, DestroyPlainStep
<1> QED BY <1>1, <1>2, <1>3

(* What the outermost transaction makes of an object when it is committed. *)
LEMMA CommitMade ==
  ASSUME AllInv, NEW s \in Session, CommitBegin(s), NEW n \in Num
  PROVE  Overlay(s)[1][n] = Made(Log(s), 1, Len(ops[s]), n)
<1> DEFINE level == levels[s][1]
<1>1. /\ InTx(s) /\ Len(levels[s]) = 1 /\ levels[s] \in Seq(Level) /\ pc[s] = "idle"
  <2>1. Len(levels[s]) = 1 /\ pc[s] = "idle"
    BY DEF CommitBegin, Depth, Section
  <2>2. levels[s] \in Seq(Level) /\ (InTx(s) <=> Len(levels[s]) > 0)
    BY AllParts, SessionFacts
  <2> QED BY <2>1, <2>2
<1>2. level.op_offset = 0 /\ Len(ops[s]) = level.op_offset + level.op_count
  <2>1. Tile(s)
    BY AllParts, SessionFacts
  <2>2. level.op_offset = 0
    BY <1>1, <2>1 DEF Tile, LevelsTouch
  <2>3. Len(ops[s]) = OpsEnd(s)
    BY <1>1, <2>1 DEF Tile
  <2>4. OpsEnd(s) = level.op_offset + level.op_count
    BY <1>1 DEF OpsEnd, Top, Depth
  <2> QED BY <2>2, <2>3, <2>4
<1>3. Overlay(s)[1] = MadeAt(Log(s), level)
  <2>1. Overlay(s) = OverlayOf(Log(s), levels[s])
    BY AllParts, OverlayIs
  <2>2. 1 \in 1 .. Len(levels[s])
    BY <1>1
  <2>3. OverlayOf(Log(s), levels[s])[1] = MadeAt(Log(s), level)
    BY <1>1, <2>2, OverlayShape
  <2> QED BY <2>1, <2>3
<1>4. MadeAt(Log(s), level)[n] = Made(Log(s), level.op_offset + 1, level.op_offset + level.op_count, n)
  BY DEF MadeAt
<1> HIDE DEF level
<1>5. level.op_offset + 1 = 1
  BY <1>2
<1> QED BY <1>2, <1>3, <1>4, <1>5

(* An object that the transaction has not changed stays as it is ... *)
LEMMA UncommittedObject ==
  ASSUME AllInv, AllInv', NEW s \in Session, StepOf(s), CommitBegin(s), NEW n \in Num, ~MarkOf(s, n)
  PROVE  Overlay(s)[1][n] = Unset /\ Committed(n)' = Committed(n)
<1>1. pc[s] = "idle" /\ UNCHANGED << index, total_entries >>
  BY DEF CommitBegin, Section, headerVars
<1>2. Committed(n)' = Committed(n)
  <2>1. index'[n] = index[n] /\ (n < total_entries' <=> n < total_entries)
    BY <1>1
  <2>2. ~Writes(s, n)
    BY <1>1 DEF Writes
  <2> QED BY <2>1, <2>2, CommittedKept
<1>3. \A i \in 1 .. Len(ops[s]) : Log(s)[i].id # n
  <2> SUFFICES ASSUME NEW i \in 1 .. Len(ops[s]), ops[s][i].id = n PROVE FALSE
    BY LogValues
  <2>1. Live(s) = Len(ops[s])
    BY <1>1, AllParts, LiveOps
  <2>2. InTx(s)
    BY DEF CommitBegin, InTx, Depth, EmptySeq
  <2>3. MarkOf(s, n)
    BY <1>1, <2>1, <2>2, AllParts DEF MarkInv, OpsMarked, MarkOf, Active
  <2> QED BY <2>3
<1> QED BY <1>2, <1>3, CommitMade, MadeNone

(* ... and one that it has changed becomes what its last operation stored. *)
LEMMA CommittedObject ==
  ASSUME AllInv, AllInv', NEW s \in Session, StepOf(s), CommitBegin(s), NEW n \in Num, MarkOf(s, n)
  PROVE  Overlay(s)[1][n] # Unset /\ Committed(n)' = Overlay(s)[1][n]
<1>1. /\ pc[s] = "idle" /\ pc'[s] = "committing"
      /\ UNCHANGED << index, total_entries, ops, tran_id, trans_data >>
  BY AllParts DEF CommitBegin, Section, headerVars, SessionInv, SessionsOK
<1>2. Live(s) = Len(ops[s]) /\ Len(ops[s]) \in Nat
  BY <1>1, AllParts, LiveOps, SessionFacts
<1>3. PICK i \in 1 .. Len(ops[s]) : ops[s][i].id = n /\ Names(s, n, i)
  BY <1>2, MarkHasOp
<1>4. Log(s)[i].val = OpVal(s, i) /\ OpVal(s, i) # Unset
  BY LogValues
<1>5. LastIn(Log(s), 1, Len(ops[s]), n, i)
  <2>1. \A j \in 1 .. Len(ops[s]) : Log(s)[j].id = ops[s][j].id
    BY LogValues
  <2>2. \A j \in i + 1 .. Len(ops[s]) : j \in 1 .. Len(ops[s]) /\ ops[s][j].id # n
    BY <1>2, <1>3 DEF Names, LastOp
  <2> QED BY <1>3, <2>1, <2>2 DEF LastIn
<1>6. Overlay(s)[1][n] = OpVal(s, i)
  <2>1. Made(Log(s), 1, Len(ops[s]), n) = Log(s)[i].val
    BY <1>2, <1>5, MadeLast
  <2> QED BY <1>4, <2>1, CommitMade
<1>7. MarkOf(s, n)'
  BY <1>1 DEF MarkOf, HasMark, Active
<1>8. Committed(n)' = ChangedBy(s, n)'
  BY <1>7, StandsMarkedLater
<1>9. OpValue(s, i)' = OpValue(s, i)
  BY <1>1 DEF OpValue
<1>10. index[n].trans = "delete" => ChangedBy(s, n)' = Absent
  BY <1>1 DEF ChangedBy
<1>11. index[n].trans # "delete" /\ index[n].tran_op = i => ChangedBy(s, n)' = OpValue(s, i)'
  BY <1>1 DEF ChangedBy, OpValue
<1>12. ChangedBy(s, n)' = OpVal(s, i)
  BY <1>3, <1>9, <1>10, <1>11 DEF Names, OpVal
<1> QED BY <1>4, <1>6, <1>8, <1>12

LEMMA CommitStep ==
  ASSUME AllInv, AllInv', NEW s \in Session, StepOf(s), CommitBegin(s)
  PROVE  Objects!Next
<1>1. \A n \in Num : Committed(n)' =
        IF Overlay(s)[1][n] = Unset THEN Committed(n) ELSE Overlay(s)[1][n]
  BY UncommittedObject, CommittedObject
<1>2. Overlay(s)' = [l \in 1 .. Len(Overlay(s)) - 1 |-> Overlay(s)[l]] /\ Len(Overlay(s)) = 1
  BY DropOverlay DEF CommitBegin, Depth
<1>3. OthersChanges(s)
  BY OthersOverlay
<1> QED BY <1>1, <1>2, <1>3, CommitsLast

-----------------------------------------------------------------------------
(* The store does nothing that its objects could not do.                      *)

LEMMA StoreSteps ==
  ASSUME ~StaleIds, AllInv, AllInv', NEW s \in Session, StepOf(s)
  PROVE  Objects!Next \/ UNCHANGED Abstract
<1>1. ASSUME NEW size \in Size, NEW val \in Value,
             Create(s, size, val) \/ Revive(s, size, val) \/ \E n \in Num : Update(s, n, size, val)
      PROVE  Objects!Next
  BY <1>1, StoreStep
<1>2. ASSUME NEW n \in Num, Destroy(s, n) PROVE Objects!Next
  BY <1>2, DestroyStep
<1>3. CASE (\E n \in Num : StartRead(s, n)) \/ FetchPage(s) \/ NextPage(s) \/ ReadPage(s) \/ FinishRead(s)
  BY <1>3, ReadSteps
<1>4. CASE FinishStore(s)
  BY <1>4, FinishStoreStep
<1>5. CASE FinishWrite(s)
  BY <1>5, FinishWriteStep
<1>6. CASE TransactionStart(s)
  BY <1>6, StartStep
<1>7. CASE CommitInner(s)
  BY <1>7, InnerStep
<1>8. CASE CommitBegin(s)
  BY <1>8, CommitStep
<1>9. CASE RollbackBegin(s)
  BY <1>9, RollbackStep
<1>10. CASE CommitOp(s)
  BY <1>10, CommitOpStep
<1>11. CASE CommitEnd(s)
  BY <1>11, CommitEndStep
<1>12. CASE RollbackOp(s)
  BY <1>12, RollbackOpStep
<1>13. CASE RollbackEnd(s)
  BY <1>13, RollbackEndStep
<1> QED BY <1>1, <1>2, <1>3, <1>4, <1>5, <1>6, <1>7, <1>8, <1>9, <1>10, <1>11, <1>12, <1>13
       DEF StepOf, HolderStep

LEMMA InitObjects == Init => Objects!Init
<1> SUFFICES ASSUME Init PROVE Objects!Init
  OBVIOUS
<1>1. \A n \in Num : Committed(n) = Absent
  <2> SUFFICES ASSUME NEW n \in Num PROVE n >= total_entries
    BY StandsForNone
  <2> QED BY DEF Init, Num
<1>2. \A s \in Session : Overlay(s) = << >>
  <2> SUFFICES ASSUME NEW s \in Session PROVE Overlay(s) = << >>
    OBVIOUS
  <2>1. StoreInv /\ CellInv
    BY InitInv, InitCellInv
  <2>2. Overlay(s) = OverlayOf(Log(s), levels[s])
    BY <2>1, OverlayIs DEF CellInv
  <2>3. levels[s] = << >> /\ levels[s] \in Seq(Level) /\ Len(levels[s]) = 0
    BY EmptySeq DEF Init
  <2>4. OverlayOf(Log(s), levels[s]) = << >> <=> Len(levels[s]) = 0
    BY <2>3, OverlayShape
  <2> QED BY <2>2, <2>3, <2>4
<1> QED BY <1>1, <1>2 DEF Objects!Init

LEMMA NothingMoves ==
  ASSUME UNCHANGED vars
  PROVE  UNCHANGED Abstract
<1>1. UNCHANGED << index, data, total_entries, pc, tran_id, levels, ops, trans_data, write, work >>
  BY DEF vars, headerVars, tranVars
<1>2. \A t \in Session, i \in Nat : OpValue(t, i)' = OpValue(t, i)
  BY <1>1 DEF OpValue
<1>3. SameObjects
  BY <1>1 DEF SameObjects, Committed, CellsOf, ChangedBy, CreatedIn, OpValue, Active, InTx
<1>4. SameChanges
  BY <1>1 DEF SameChanges, Overlay, Change, OpValue
<1> QED BY <1>3, <1>4, Stutters

(* The store, with its index entries and their free list, the extents and      *)
(* pages of its data file and the operations its transactions log, does        *)
(* nothing that committed objects and stacks of nested transactions could not  *)
(* do: a commit takes effect at once, where "transaction_commit" (5318 to 5582) *)
(* begins, although its operations are dealt with one by one; a rollback (5598 *)
(* to 5738) leaves no trace of what it undoes; and nobody else changes an      *)
(* object that a transaction has changed, which "destroy" (3435 to 3567) and   *)
(* "operator <<" (6954 to 7332) refuse.  For callers that keep no id of an     *)
(* object that is gone, objects of at least one cell, and pages that one       *)
(* session writes at a time.                                                   *)
THEOREM ObjectsImplemented ==
  ASSUME ~StaleIds, 0 \notin Size, WholePages
  PROVE  Spec => ImplementsObjects
<1>1. Init => Objects!Init
  BY InitObjects
<1>2. AllInv /\ AllInv' /\ [Next]_vars =>
        [Objects!Next]_<< [n \in Num |-> Committed(n)], [s \in Session |-> Overlay(s)] >>
  <2> SUFFICES ASSUME AllInv, AllInv', [Next]_vars PROVE Objects!Next \/ UNCHANGED Abstract
    BY DEF Abstract
  <2>1. CASE UNCHANGED vars
    BY <2>1, NothingMoves
  <2>2. CASE \E s \in Session : StepOf(s)
    BY <2>2, StoreSteps
  <2> QED BY <2>1, <2>2, NextSteps
<1> QED BY <1>1, <1>2, AlwaysAll, PTL DEF Spec, ImplementsObjects, Objects!Spec

-----------------------------------------------------------------------------
(* The reads.                                                                 *)

(* A read from the data file goes on as it began: the entry is in use, has the *)
(* same extent, and holds the cells that were read; and the session has no     *)
(* operation of its own for the object.                                        *)
FromData(s) ==
  LET r == read[s]
      e == index[r.num]
  IN /\ e.pos = r.pos /\ e.size = r.size /\ e.trans # "free_list" /\ e.lock = "none"
     /\ \A c \in 1 .. Len(r.got) : r.got[c] = data[r.pos + c - 1]
     /\ \A i \in 1 .. Len(ops[s]) : ops[s][i].id # r.num

(* A read of what the session itself has stored in its transactions. *)
FromTrans(s) ==
  LET r == read[s]
      e == index[r.num]
  IN /\ InTx(s) /\ e.trans = "change" /\ e.tran_id = tran_id[s]
     /\ r.pos = ops[s][e.tran_op].pos /\ r.size = ops[s][e.tran_op].size
     /\ \A c \in 1 .. Len(r.got) : r.got[c] = trans_data[s][r.pos + c - 1]

ReadRec == [num : Num \cup {-1}, from : {"none", "data", "trans", "undefined"}, pos : Nat, size : Nat,
            outdated : BOOLEAN, got : Seq(Fill)]

Fetched(r) ==
  /\ r \in ReadRec /\ Len(r.got) <= r.size /\ r.from # "none"
  /\ r.from = "data" => r.pos + r.size <= MaxData
  /\ r.from = "undefined" => r.size = 0

ReadOK(s) ==
  /\ read[s].num \in Num /\ read[s].num < total_entries /\ Fetched(read[s])
  /\ read[s].from = "data" /\ ~read[s].outdated => FromData(s)
  /\ read[s].from = "trans" => FromTrans(s)

ReadsOK == \A s \in Session : IF pc[s] = "reading" THEN ReadOK(s) ELSE read[s] = NoRead

(* Nobody keeps the id of a transaction that somebody else has open. *)
IdsApart == \A s, t \in Session : Active(t) /\ tran_id[s] = tran_id[t] => s = t
IdsBelow == \A s \in Session : tran_id[s] < transaction_id

ReadInv == ReadsOK /\ IdsApart /\ IdsBelow
AllReads == AllInv /\ ReadInv

-----------------------------------------------------------------------------
(* The ids of transactions.                                                   *)

Opens(s) == TransactionStart(s) /\ ~InTx(s)

LEMMA NoneOpened ==
  ASSUME StoreInv, CellsOK, NEW s \in Session, StepOf(s), ~Opens(s)
  PROVE  /\ tran_id' = tran_id /\ transaction_id' \in {transaction_id, transaction_id + 1}
         /\ \A t \in Session : Active(t)' => Active(t)
<1>1. /\ pc \in [Session -> PC] /\ levels \in [Session -> Seq(Level)] /\ levels[s] \in Seq(Level)
      /\ Len(<< >>) = 0
  BY EmptySeq DEF StoreInv, SessionInv, SessionsOK
<1> DEFINE Done == /\ tran_id' = tran_id /\ transaction_id' \in {transaction_id, transaction_id + 1}
                   /\ Active(s)' => Active(s)
<1>2. ASSUME NEW n, NEW e, NEW isNew, NEW size, NEW val, Store(s, n, e, isNew, size, val)
      PROVE  Done
  <2>1. CASE StoreInTx(s, n, e, isNew, size, val)
    BY <2>1 DEF StoreInTx, Active
  <2>2. CASE StorePlain(s, n, e, isNew, size, val)
    BY <1>1, <2>2 DEF StorePlain, tranVars, Active, InTx
  <2> QED BY <1>2, <2>1, <2>2 DEF Store
<1>3. ASSUME NEW size \in Size, NEW val \in Value,
             Create(s, size, val) \/ Revive(s, size, val) \/ \E n \in Num : Update(s, n, size, val)
      PROVE  Done
  BY <1>2, <1>3 DEF Create, Revive, Update
<1>4. ASSUME NEW n \in Num, Destroy(s, n) \/ StartRead(s, n)
      PROVE  Done
  BY <1>1, <1>4 DEF Destroy, DestroyInTx, DestroyPlain, StartRead, tranVars, headerVars, Active, InTx
<1>5. ASSUME \/ FinishStore(s) \/ FetchPage(s) \/ NextPage(s) \/ FinishWrite(s)
             \/ ReadPage(s) \/ FinishRead(s)
      PROVE  Done
  BY <1>1, <1>5 DEF FinishStore, FetchPage, NextPage, FinishWrite, ReadPage, FinishRead, tranVars,
                    headerVars, Active, InTx
<1>6. ASSUME TransactionStart(s) PROVE Done
  <2>1. levels[s] # << >> /\ Active(s)
    BY <1>6 DEF Opens, Active, InTx
  <2>2. tran_id' = tran_id /\ transaction_id' = transaction_id
    BY <1>6, <2>1 DEF TransactionStart, InTx
  <2> QED BY <2>1, <2>2
<1>7. ASSUME CommitInner(s) \/ CommitBegin(s) \/ RollbackBegin(s) PROVE Done
  <2>1. tran_id' = tran_id /\ transaction_id' = transaction_id
    BY <1>7 DEF CommitInner, CommitBegin, RollbackBegin, headerVars
  <2>2. CASE Depth(s) >= 1
    <3>1. levels[s] # << >>
      BY <1>1, <2>2 DEF Depth
    <3> QED BY <2>1, <3>1 DEF Active, InTx
  <2>3. CASE InTx(s)
    BY <2>1, <2>3 DEF Active
  <2>4. Depth(s) = 1 \/ Depth(s) > 1 \/ InTx(s)
    BY <1>7 DEF CommitInner, CommitBegin, RollbackBegin
  <2>5. Depth(s) \in Nat
    BY <1>1, LenProperties DEF Depth
  <2> QED BY <2>2, <2>3, <2>4, <2>5
<1>8. ASSUME CommitOp(s) \/ RollbackOp(s) \/ CommitEnd(s) \/ RollbackEnd(s) PROVE Done
  <2>1. Active(s)
    BY <1>8 DEF CommitOp, RollbackOp, CommitEnd, RollbackEnd, Active
  <2>2. tran_id' = tran_id /\ transaction_id' = transaction_id
    <3>1. CASE CommitOp(s) \/ RollbackOp(s)
      BY <3>1, HolderWork
    <3>2. CASE CommitEnd(s) \/ RollbackEnd(s)
      BY <3>2 DEF CommitEnd, RollbackEnd, headerVars
    <3> QED BY <1>8, <3>1, <3>2
  <2> QED BY <2>1, <2>2
<1>9. Done
  BY <1>3, <1>4, <1>5, <1>6, <1>7, <1>8 DEF StepOf, HolderStep
<1>10. ASSUME NEW t \in Session \ {s} PROVE Active(t)' => Active(t)
  BY OthersAlone DEF Alone, Active, InTx
<1> QED BY <1>9, <1>10

LEMMA IdsStep ==
  ASSUME AllInv, IdsApart, IdsBelow, NEW s \in Session, StepOf(s)
  PROVE  IdsApart' /\ IdsBelow'
<1>1. /\ StoreInv /\ CellsOK /\ tran_id \in [Session -> Nat] /\ transaction_id \in Nat
  BY AllParts DEF SessionInv, SessionsOK, HeaderOK
<1>2. CASE Opens(s)
  <2>1. /\ tran_id' = [tran_id EXCEPT ![s] = transaction_id] /\ transaction_id' = transaction_id + 1
    BY <1>2 DEF Opens, TransactionStart
  <2>2. ASSUME NEW t \in Session \ {s} PROVE Active(t)' => Active(t)
    BY <1>1, <1>2, OthersAlone DEF Alone, Active, InTx
  <2>3. ASSUME NEW t \in Session PROVE tran_id'[t] < transaction_id' /\ tran_id[t] # transaction_id
    BY <1>1, <2>1 DEF IdsBelow
  <2>4. ASSUME NEW u \in Session, NEW t \in Session, Active(t)', tran_id'[u] = tran_id'[t]
        PROVE  u = t
    <3>1. CASE t = s
      BY <1>1, <2>1, <2>3, <2>4, <3>1
    <3>2. CASE t # s /\ u = s
      BY <1>1, <2>1, <2>3, <2>4, <3>2
    <3>3. CASE t # s /\ u # s
      BY <1>1, <2>1, <2>2, <2>4, <3>3 DEF IdsApart
    <3> QED BY <3>1, <3>2, <3>3
  <2> QED BY <2>3, <2>4 DEF IdsApart, IdsBelow
<1>3. CASE ~Opens(s)
  <2>1. /\ tran_id' = tran_id /\ transaction_id' \in {transaction_id, transaction_id + 1}
        /\ \A t \in Session : Active(t)' => Active(t)
    BY <1>1, <1>3, NoneOpened
  <2>2. IdsApart'
    BY <2>1 DEF IdsApart
  <2>3. IdsBelow'
    BY <1>1, <2>1 DEF IdsBelow
  <2> QED BY <2>2, <2>3
<1> QED BY <1>2, <1>3

-----------------------------------------------------------------------------
(* What a step leaves of the reads of others.                                 *)

AsOutdated(r) == [r EXCEPT !.outdated = TRUE]

LEMMA OutdatedFields ==
  ASSUME NEW r \in ReadRec
  PROVE  /\ AsOutdated(r) \in ReadRec /\ AsOutdated(r).outdated
         /\ AsOutdated(r).num = r.num /\ AsOutdated(r).from = r.from /\ AsOutdated(r).pos = r.pos
         /\ AsOutdated(r).size = r.size /\ AsOutdated(r).got = r.got
<1>1. TRUE \in BOOLEAN
  OBVIOUS
<1> QED BY <1>1 DEF ReadRec, AsOutdated

LEMMA TotalGrows ==
  ASSUME AllInv, NEW s \in Session, StepOf(s)
  PROVE  total_entries \in Nat /\ total_entries' \in Nat /\ total_entries' >= total_entries
<1>1. total_entries \in Nat
  BY AllParts, NumFacts
<1>2. ASSUME NEW size \in Size, NEW val \in Value,
             Create(s, size, val) \/ Revive(s, size, val) \/ \E n \in Num : Update(s, n, size, val)
      PROVE  total_entries' \in {total_entries, total_entries + 1}
  BY <1>2 DEF Create, Revive, Update
<1>3. ASSUME NEW n \in Num, Destroy(s, n) \/ StartRead(s, n)
      PROVE  total_entries' = total_entries
  BY <1>3 DEF Destroy, DestroyInTx, DestroyPlain, StartRead, headerVars
<1>4. ASSUME \/ FinishStore(s) \/ FetchPage(s) \/ NextPage(s) \/ FinishWrite(s)
             \/ ReadPage(s) \/ FinishRead(s)
      PROVE  total_entries' = total_entries
  BY <1>4 DEF FinishStore, FetchPage, NextPage, FinishWrite, ReadPage, FinishRead, headerVars
<1>5. ASSUME \/ TransactionStart(s) \/ CommitInner(s) \/ CommitBegin(s) \/ RollbackBegin(s)
             \/ CommitEnd(s) \/ RollbackEnd(s)
      PROVE  total_entries' = total_entries
  BY <1>5 DEF TransactionStart, CommitInner, CommitBegin, RollbackBegin, CommitEnd, RollbackEnd, headerVars
<1>6. ASSUME CommitOp(s) \/ RollbackOp(s) PROVE total_entries' = total_entries
  BY <1>6, AllParts, HolderWork
<1>7. total_entries' \in {total_entries, total_entries + 1}
  BY <1>2, <1>3, <1>4, <1>5, <1>6 DEF StepOf, HolderStep
<1> QED BY <1>1, <1>7

(* A step that reads nothing. *)
ReadsNothing(s) == ~ReadPage(s) /\ ~FinishRead(s) /\ \A n \in Num : ~StartRead(s, n)

LEMMA ReadsAlone ==
  ASSUME AllInv, NEW s \in Session, StepOf(s), NEW t \in Session, t # s \/ ReadsNothing(s)
  PROVE  \/ read'[t] = read[t]
         \/ read[t].num \in Num /\ read'[t] = AsOutdated(read[t])
<1>1. StoreInv /\ SessionInv /\ DOMAIN read = Session
  BY AllParts DEF CellsOK
<1> DEFINE Done == \/ read'[t] = read[t]
                   \/ read[t].num \in Num /\ read'[t] = AsOutdated(read[t])
<1>2. ASSUME NEW n \in Num, read' = Outdated(n) PROVE Done
  BY <1>2 DEF Outdated, AsOutdated
<1>3. ASSUME NEW size \in Size, NEW val \in Value,
             Create(s, size, val) \/ Revive(s, size, val) \/ \E n \in Num : Update(s, n, size, val)
      PROVE  read' = read
  BY <1>3 DEF Create, Revive, Update, Store
<1>4. ASSUME NEW n \in Num, Destroy(s, n) PROVE Done
  <2>1. read' = read \/ read' = Outdated(n)
    BY <1>4 DEF Destroy, DestroyInTx, DestroyPlain
  <2> QED BY <1>2, <2>1
<1>5. ASSUME (\E n \in Num : StartRead(s, n)) \/ ReadPage(s) \/ FinishRead(s) PROVE Done
  <2>1. t # s
    BY <1>5 DEF ReadsNothing
  <2>2. read'[t] = read[t]
    BY <1>1, <1>5, <2>1 DEF StartRead, ReadPage, FinishRead
  <2> QED BY <2>2
<1>6. ASSUME FinishStore(s) \/ FetchPage(s) \/ NextPage(s) \/ FinishWrite(s) PROVE read' = read
  BY <1>6 DEF FinishStore, FetchPage, NextPage, FinishWrite
<1>7. ASSUME \/ TransactionStart(s) \/ CommitInner(s) \/ CommitBegin(s) \/ RollbackBegin(s)
             \/ CommitEnd(s) \/ RollbackEnd(s)
      PROVE  read' = read
  BY <1>7 DEF TransactionStart, CommitInner, CommitBegin, RollbackBegin, CommitEnd, RollbackEnd
<1>8. ASSUME CommitOp(s) PROVE Done
  <2> DEFINE op == ops[s][work[s].cursor]
  <2>1. op.id \in Num
    BY <1>1, <1>8, CurrentOp DEF CommitOp, Op
  <2> HIDE DEF op
  <2>2. CommitDelete(s, op.id) \/ CommitChange(s, op) \/ CommitSkip(s, op.id)
    BY <1>8 DEF CommitOp, op
  <2>3. read' = read \/ read' = Outdated(op.id)
    BY <2>2 DEF CommitDelete, CommitChange, CommitSkip
  <2> QED BY <1>2, <2>1, <2>3
<1>9. ASSUME RollbackOp(s) PROVE Done
  <2> DEFINE op == ops[s][work[s].op_offset + work[s].cursor]
  <2>1. op.id \in Num
    BY <1>1, <1>9, CurrentOp DEF RollbackOp, Op
  <2>2. read' = read \/ read' = Outdated(op.id)
    BY <1>9 DEF RollbackOp
  <2> HIDE DEF op
  <2> QED BY <1>2, <2>1, <2>2
<1> QED BY <1>3, <1>4, <1>5, <1>6, <1>7, <1>8, <1>9 DEF StepOf, HolderStep

-----------------------------------------------------------------------------
(* The steps that change an index entry.                                      *)

Taken(s, n) ==
  \E e \in Entry, isNew \in BOOLEAN, size \in Size, val \in Value :
    StoreForm(s, n, e, isNew, size, val) /\ StorePlain(s, n, e, isNew, size, val)

Processed(s, n) ==
  LET op == ops[s][work[s].cursor]
  IN CommitOp(s) /\ op.id = n /\ (CommitDelete(s, n) \/ CommitChange(s, op))

UndoneAt(s, n) == RollbackOp(s) /\ ops[s][work[s].op_offset + work[s].cursor].id = n

EntryMoves(s, n) ==
  \/ \E op \in Op, x \in Entry : LoggedForm(s, n, op, x)
  \/ Taken(s, n)
  \/ Destroy(s, n) /\ DestroyPlain(s, n)
  \/ FinishWrite(s) /\ write[s].num = n
  \/ Processed(s, n) \/ UndoneAt(s, n)

LEMMA IndexSteps ==
  ASSUME ~StaleIds, AllInv, NEW s \in Session, StepOf(s), NEW n \in Num, index'[n] # index[n]
  PROVE  EntryMoves(s, n)
<1>1. StoreInv /\ MarkInv /\ ExtentInv /\ OrderOK /\ SessionInv /\ index \in [Num -> Entry]
  BY AllParts DEF HeaderOK
<1>2. ASSUME NEW m, NEW x, index' = [index EXCEPT ![m] = x] PROVE m = n
  BY <1>1, <1>2
<1>3. ASSUME NEW size \in Size, NEW val \in Value,
             Create(s, size, val) \/ Revive(s, size, val) \/ \E m \in Num : Update(s, m, size, val)
      PROVE  EntryMoves(s, n)
  <2>1. PICK m \in Num, e \in Entry, isNew \in BOOLEAN : StoreForm(s, m, e, isNew, size, val)
    BY <1>1, <1>3, StoreForms
  <2>2. CASE StoreInTx(s, m, e, isNew, size, val)
    <3>1. PICK op \in Op, x \in Entry : LoggedForm(s, m, op, x)
      BY <1>1, <2>1, <2>2, StoreLogs
    <3>2. m = n
      BY <1>2, <3>1 DEF LoggedForm, LoggedEntry
    <3> QED BY <3>1, <3>2 DEF EntryMoves
  <2>3. CASE StorePlain(s, m, e, isNew, size, val)
    <3>1. m = n
      BY <1>2, <2>3 DEF StorePlain
    <3>2. Taken(s, n)
      BY <2>1, <2>3, <3>1 DEF Taken
    <3> QED BY <3>2 DEF EntryMoves
  <2> QED BY <2>1, <2>2, <2>3 DEF StoreForm, Store
<1>4. ASSUME NEW m \in Num, Destroy(s, m) PROVE EntryMoves(s, n)
  <2>1. CASE DestroyInTx(s, m)
    <3>1. PICK op \in Op, x \in Entry : LoggedForm(s, m, op, x)
      BY <1>1, <1>4, <2>1, DestroyLogs
    <3>2. m = n
      BY <1>2, <3>1 DEF LoggedForm, LoggedEntry
    <3> QED BY <3>1, <3>2 DEF EntryMoves
  <2>2. CASE DestroyPlain(s, m)
    <3>1. m = n
      BY <1>2, <2>2 DEF DestroyPlain
    <3> QED BY <1>4, <2>2, <3>1 DEF EntryMoves
  <2> QED BY <1>4, <2>1, <2>2 DEF Destroy
<1>5. ASSUME \/ \E m \in Num : StartRead(s, m)
             \/ FinishStore(s) \/ FetchPage(s) \/ NextPage(s) \/ ReadPage(s) \/ FinishRead(s)
      PROVE  index' = index
  BY <1>5 DEF StartRead, FinishStore, FetchPage, NextPage, ReadPage, FinishRead
<1>6. ASSUME \/ TransactionStart(s) \/ CommitInner(s) \/ CommitBegin(s) \/ RollbackBegin(s)
             \/ CommitEnd(s) \/ RollbackEnd(s)
      PROVE  index' = index
  BY <1>6 DEF TransactionStart, CommitInner, CommitBegin, RollbackBegin, CommitEnd, RollbackEnd
<1>7. ASSUME FinishWrite(s) PROVE EntryMoves(s, n)
  <2>1. write[s].num = n
    BY <1>2, <1>7 DEF FinishWrite
  <2> QED BY <1>7, <2>1 DEF EntryMoves
<1>8. ASSUME CommitOp(s) PROVE EntryMoves(s, n)
  <2> DEFINE op == ops[s][work[s].cursor]
  <2> HIDE DEF op
  <2>1. CommitDelete(s, op.id) \/ CommitChange(s, op) \/ CommitSkip(s, op.id)
    BY <1>8 DEF CommitOp, op
  <2>2. CommitDelete(s, op.id) => op.id = n
    BY <1>2 DEF CommitDelete
  <2>3. CommitChange(s, op) => op.id = n
    BY <1>2 DEF CommitChange
  <2>4. ~CommitSkip(s, op.id)
    BY DEF CommitSkip
  <2>5. op.id = n /\ (CommitDelete(s, n) \/ CommitChange(s, op))
    BY <2>1, <2>2, <2>3, <2>4
  <2>6. Processed(s, n)
    BY <1>8, <2>5 DEF Processed, op
  <2> QED BY <2>6 DEF EntryMoves
<1>9. ASSUME RollbackOp(s) PROVE EntryMoves(s, n)
  <2> DEFINE op == ops[s][work[s].op_offset + work[s].cursor]
             x == Undone(op, index[op.id])
  <2>1. index' = index \/ index' = [index EXCEPT ![op.id] = x]
    BY <1>9 DEF RollbackOp
  <2> HIDE DEF op, x
  <2>2. op.id = n
    BY <1>2, <2>1
  <2>3. UndoneAt(s, n)
    BY <1>9, <2>2 DEF UndoneAt, op
  <2> QED BY <2>3 DEF EntryMoves
<1> QED BY <1>3, <1>4, <1>5, <1>6, <1>7, <1>8, <1>9 DEF StepOf, HolderStep

LEMMA HolderMark ==
  ASSUME AllInv, NEW s \in Session, NEW n \in Num, Processed(s, n) \/ UndoneAt(s, n), HasMark(n)
  PROVE  Active(s) /\ index[n].tran_id = tran_id[s]
<1>1. StoreInv /\ MarkInv /\ OneHolder
  BY AllParts
<1>2. pc[s] \in {"committing", "rolling back"} /\ work[s].cursor > 0
  BY DEF Processed, UndoneAt, CommitOp, RollbackOp
<1>3. /\ Live(s) \in Nat /\ work[s].cursor \in Nat /\ work[s].op_offset \in Nat
      /\ pc[s] = "committing" => Live(s) = work[s].cursor
      /\ pc[s] = "rolling back" => Live(s) = work[s].op_offset + work[s].cursor
  BY <1>1, LiveOps
<1>4. ops[s][Live(s)].id = n
  BY <1>3 DEF Processed, UndoneAt, CommitOp, RollbackOp
<1>5. Live(s) \in 1 .. Live(s)
  <2>1. Live(s) > 0 /\ Live(s) \in Nat
    <3>1. Live(s) = work[s].cursor \/ Live(s) = work[s].op_offset + work[s].cursor
      BY <1>2, <1>3
    <3>2. /\ Live(s) \in Nat /\ work[s].cursor \in Nat /\ work[s].op_offset \in Nat
          /\ work[s].cursor > 0
      BY <1>2, <1>3
    <3> QED BY <3>1, <3>2
  <2> QED BY <2>1
<1>6. HasMark(n) /\ index[n].tran_id = tran_id[s]
  BY <1>1, <1>4, <1>5 DEF MarkInv, OpsMarked
<1> QED BY <1>2, <1>6 DEF Active

(* Nobody else moves an entry with a change of a session. *)
LEMMA MarkedEntry ==
  ASSUME AllInv, NEW s \in Session, NEW n \in Num, EntryMoves(s, n), NEW t \in Session \ {s},
         read[t].num = n, MarkOf(t, n)
  PROVE  FALSE
<1>1. MarkInv /\ OwnIds /\ StoreInv /\ LockInv /\ index \in [Num -> Entry]
  BY AllParts DEF StoreInv, IndexInv, HeaderOK
<1>2. HasMark(n) /\ Active(t) /\ tran_id[t] = index[n].tran_id /\ index[n].trans \notin {"none", "free_list"}
  BY DEF MarkOf, HasMark
<1>3. ~(Active(s) /\ index[n].tran_id = tran_id[s])
  BY <1>1, <1>2 DEF OwnIds
<1>4. ~Writable(s, index[n])
  BY <1>2, <1>3 DEF Writable, Active
<1>5. ASSUME NEW op \in Op, NEW x \in Entry, LoggedForm(s, n, op, x) PROVE FALSE
  BY <1>2, <1>4, <1>5 DEF LoggedForm, LoggedFor, Present
<1>6. ~Taken(s, n)
  BY <1>2, <1>4 DEF Taken, StoreForm, Fresh, Present
<1>7. ~Destroy(s, n)
  BY <1>4 DEF Destroy
<1>8. ~(FinishWrite(s) /\ write[s].num = n)
  <2> SUFFICES ASSUME pc[s] = "writing", write[s].num = n PROVE FALSE
    BY DEF FinishWrite
  <2>1. index[n].lock = "entry"
    BY <1>1 DEF LockInv
  <2> QED BY <1>1, <1>2, <2>1 DEF LockInv
<1>9. ~Processed(s, n) /\ ~UndoneAt(s, n)
  BY <1>2, <1>3, HolderMark
<1> QED BY <1>5, <1>6, <1>7, <1>8, <1>9 DEF EntryMoves

(* An entry that a step moves keeps its extent, unless the reads of the object *)
(* become outdated.                                                            *)
LEMMA MovedEntry ==
  ASSUME AllInv, NEW s \in Session, NEW n \in Num, EntryMoves(s, n), NEW t \in Session,
         n < total_entries, index[n].lock = "none", index[n].trans # "free_list",
         read[t] \in ReadRec, read[t].num = n, ~read'[t].outdated
  PROVE  /\ index'[n].pos = index[n].pos /\ index'[n].size = index[n].size
         /\ index'[n].trans # "free_list" /\ index'[n].lock = "none" /\ data' = data
<1>1. StoreInv /\ SessionInv /\ LockInv /\ HeaderOK /\ index \in [Num -> Entry]
      /\ n \in Nat /\ total_entries \in Nat
  BY AllParts, NumFacts DEF StoreInv, IndexInv, HeaderOK
<1>2. ~(n >= total_entries)
  BY <1>1
<1>3. read' # Outdated(n)
  <2>1. read' = Outdated(n) => read'[t] = AsOutdated(read[t])
    BY DEF Outdated, AsOutdated
  <2> QED BY <2>1, OutdatedFields
<1>4. ASSUME NEW op \in Op, NEW x \in Entry, LoggedForm(s, n, op, x)
      PROVE  /\ index'[n].pos = index[n].pos /\ index'[n].size = index[n].size
             /\ index'[n].trans # "free_list" /\ index'[n].lock = "none" /\ data' = data
  <2>1. index'[n] = x /\ x.lock = "none" /\ x.trans \in {"change", "delete"}
    BY <1>1, <1>4 DEF LoggedForm, LoggedEntry
  <2>2. x.pos = index[n].pos /\ x.size = index[n].size
    BY <1>2, <1>4 DEF LoggedForm, LoggedFor
  <2>3. data' = data
    BY <1>4 DEF LoggedForm, LoggedCall
  <2> QED BY <2>1, <2>2, <2>3
<1>5. ~Taken(s, n)
  BY <1>2 DEF Taken, StoreForm, Fresh, CurrentlyReading
<1>6. ~DestroyPlain(s, n)
  BY <1>3 DEF DestroyPlain
<1>7. ~(FinishWrite(s) /\ write[s].num = n)
  BY <1>1 DEF FinishWrite, LockInv
<1>8. ~Processed(s, n)
  BY <1>3 DEF Processed, CommitDelete, CommitChange
<1>9. ASSUME UndoneAt(s, n)
      PROVE  /\ index'[n].pos = index[n].pos /\ index'[n].size = index[n].size
             /\ index'[n].trans # "free_list" /\ index'[n].lock = "none" /\ data' = data
  <2> DEFINE op == ops[s][work[s].op_offset + work[s].cursor]
             x == Undone(op, index[n])
  <2>1. op \in Op /\ op.id = n
    BY <1>1, <1>9, CurrentOp DEF UndoneAt, RollbackOp
  <2>2. /\ data' = data
        /\ index' = index \/ index' = [index EXCEPT ![n] = x]
        /\ index' # index /\ x.trans = "free_list" => read' = Outdated(n)
    BY <1>9 DEF UndoneAt, RollbackOp
  <2>3. x \in Entry /\ x.lock = index[n].lock
    BY <1>1, <2>1, UndoneEntry
  <2>4. x.trans = "free_list" \/ (x.pos = index[n].pos /\ x.size = index[n].size)
    BY <1>1, <2>1 DEF Undone, Freed, Entry, Op
  <2> HIDE DEF op, x
  <2>5. CASE index' = index
    BY <2>2, <2>5
  <2>6. CASE index' # index
    BY <1>1, <1>3, <2>2, <2>3, <2>4, <2>6
  <2> QED BY <2>5, <2>6
<1> QED BY <1>4, <1>5, <1>6, <1>7, <1>8, <1>9 DEF EntryMoves

-----------------------------------------------------------------------------
(* A read goes on as it began, whatever other sessions do.                    *)

LEMMA FetchedStays ==
  ASSUME NEW t \in Session, Fetched(read[t]), read'[t] \in {read[t], AsOutdated(read[t])}
  PROVE  /\ Fetched(read'[t]) /\ read'[t].num = read[t].num /\ read'[t].from = read[t].from
         /\ read'[t].pos = read[t].pos /\ read'[t].size = read[t].size /\ read'[t].got = read[t].got
         /\ read'[t].outdated \/ read'[t] = read[t]
<1>1. read[t] \in ReadRec
  BY DEF Fetched
<1> QED BY <1>1, OutdatedFields DEF Fetched

LEMMA DataReadStays ==
  ASSUME ~StaleIds, AllInv, NEW s \in Session, StepOf(s), NEW t \in Session \ {s}, ReadOK(t),
         read'[t] = read[t], read[t].from = "data", ~read[t].outdated
  PROVE  FromData(t)'
<1> DEFINE n == read[t].num
<1>1. /\ n \in Num /\ n < total_entries /\ FromData(t) /\ read[t] \in ReadRec
      /\ Len(read[t].got) <= read[t].size
  BY DEF ReadOK, Fetched
<1>2. /\ index[n].lock = "none" /\ index[n].trans # "free_list"
      /\ index[n].pos = read[t].pos /\ index[n].size = read[t].size
  BY <1>1 DEF FromData
<1>3. n \in Stored
  BY <1>1, <1>2, AllParts, NumFacts DEF Stored, Num
<1>4. /\ index'[n].pos = index[n].pos /\ index'[n].size = index[n].size
      /\ index'[n].trans # "free_list" /\ index'[n].lock = "none"
      /\ \A c \in index[n].pos .. index[n].pos + index[n].size - 1 : data'[c] = data[c]
  <2>1. CASE index'[n] = index[n]
    BY <1>2, <1>3, <2>1, DataKept
  <2>2. CASE index'[n] # index[n]
    <3>1. EntryMoves(s, n)
      BY <1>1, <2>2, IndexSteps
    <3> QED BY <1>1, <1>2, <3>1, MovedEntry
  <2> QED BY <2>1, <2>2
<1>5. \A c \in 1 .. Len(read[t].got) : data'[read[t].pos + c - 1] = data[read[t].pos + c - 1]
  <2>1. read[t].size \in Nat /\ read[t].pos \in Nat /\ Len(read[t].got) \in Nat
    BY <1>1, LenProperties DEF ReadRec
  <2> SUFFICES ASSUME NEW c \in 1 .. Len(read[t].got)
               PROVE  read[t].pos + c - 1 \in read[t].pos .. read[t].pos + read[t].size - 1
    BY <1>2, <1>4
  <2> QED BY <1>1, <2>1
<1>6. ops'[t] = ops[t]
  BY AllParts, OthersAlone DEF Alone
<1> QED BY <1>1, <1>2, <1>4, <1>5, <1>6 DEF FromData

LEMMA OwnMark ==
  ASSUME NEW t \in Session, FromTrans(t)
  PROVE  MarkOf(t, read[t].num)
BY DEF FromTrans, MarkOf, HasMark, Active

LEMMA TransReadStays ==
  ASSUME ~StaleIds, AllInv, NEW s \in Session, StepOf(s), NEW t \in Session \ {s}, ReadOK(t),
         read'[t].num = read[t].num, read'[t].pos = read[t].pos, read'[t].size = read[t].size,
         read'[t].got = read[t].got, read[t].from = "trans"
  PROVE  FromTrans(t)'
<1>1. read[t].num \in Num /\ FromTrans(t) /\ MarkOf(t, read[t].num)
  BY OwnMark DEF ReadOK
<1>2. index'[read[t].num] = index[read[t].num]
  BY <1>1, IndexSteps, MarkedEntry
<1>3. levels'[t] = levels[t] /\ tran_id'[t] = tran_id[t] /\ ops'[t] = ops[t] /\ trans_data'[t] = trans_data[t]
  BY AllParts, OthersAlone DEF Alone
<1> QED BY <1>1, <1>2, <1>3 DEF FromTrans, InTx

LEMMA OthersRead ==
  ASSUME ~StaleIds, AllInv, NEW s \in Session, StepOf(s), NEW t \in Session \ {s}, ReadOK(t)
  PROVE  ReadOK(t)'
<1>1. read[t].num \in Num /\ read[t].num < total_entries /\ Fetched(read[t])
  BY DEF ReadOK
<1>2. read'[t] \in {read[t], AsOutdated(read[t])}
  BY ReadsAlone
<1>3. /\ Fetched(read'[t]) /\ read'[t].num = read[t].num /\ read'[t].from = read[t].from
      /\ read'[t].pos = read[t].pos /\ read'[t].size = read[t].size /\ read'[t].got = read[t].got
      /\ read'[t].outdated \/ read'[t] = read[t]
  BY <1>1, <1>2, FetchedStays
<1>4. read'[t].num < total_entries'
  BY <1>1, <1>3, TotalGrows, AllParts, NumFacts
<1>5. Fetched(read[t])'
  BY <1>3 DEF Fetched
<1>6. read'[t].from = "data" /\ ~read'[t].outdated => FromData(t)'
  BY <1>3, DataReadStays
<1>7. read'[t].from = "trans" => FromTrans(t)'
  BY <1>3, TransReadStays
<1> QED BY <1>1, <1>3, <1>4, <1>5, <1>6, <1>7 DEF ReadOK

-----------------------------------------------------------------------------
(* A read begins.                                                             *)

LEMMA StartedFrom ==
  ASSUME ~StaleIds, AllReads, NEW s \in Session, NEW n \in Num, StartRead(s, n)
  PROVE  LET at == ReadFrom(s, index[n])
         IN /\ at.pos \in Nat /\ at.size \in Nat /\ at.from \in {"data", "trans", "undefined"}
            /\ n < total_entries /\ index[n].lock = "none" /\ index[n].trans # "free_list"
            /\ at.from = "data" => /\ at.pos = index[n].pos /\ at.size = index[n].size
                                   /\ at.pos + at.size <= MaxData
                                   /\ \A i \in 1 .. Len(ops[s]) : ops[s][i].id # n
            /\ at.from = "undefined" => at.size = 0
            /\ at.from = "trans" => /\ InTx(s) /\ index[n].trans = "change"
                                    /\ index[n].tran_id = tran_id[s]
                                    /\ at.pos = ops[s][index[n].tran_op].pos
                                    /\ at.size = ops[s][index[n].tran_op].size
<1> DEFINE at == ReadFrom(s, index[n])
           e == index[n]
<1>1. /\ AllInv /\ IdsApart /\ StoreInv /\ MarkInv /\ ExtentInv /\ RoomLeft /\ HeaderOK /\ OneHolder
      /\ index \in [Num -> Entry]
  BY AllParts DEF AllReads, ReadInv, HeaderOK
<1>2. pc[s] = "idle" /\ Known(n) /\ e.lock = "none"
  BY DEF StartRead, Section
<1>3. /\ n < total_entries /\ e.trans # "free_list" /\ e \in Entry /\ n \in 0 .. total_entries - 1
  BY <1>1, <1>2, KnownIsStored
<1>4. n \in Stored /\ e.pos \in Nat /\ e.size \in Nat
  BY <1>1, <1>3, ExtentIn DEF Stored
<1>5. e.pos + e.size <= MaxData
  <2>1. e.pos + e.size <= total_size_of_data
    BY <1>1, <1>4 DEF ExtentInv, ExtentsApart, FitsFor, InData
  <2>2. total_size_of_data <= MaxData /\ total_size_of_data \in Int
    BY <1>1, RoomFits DEF HeaderOK
  <2> QED BY <1>4, <2>1, <2>2, ConstFacts
<1>6. Live(s) = Len(ops[s]) /\ Len(ops[s]) \in Nat /\ (Active(s) => InTx(s))
  BY <1>1, <1>2, LiveOps DEF Active
<1>7. CASE e.trans = "none" \/ e.tran_id # tran_id[s]
  <2>1. at = [from |-> "data", pos |-> e.pos, size |-> e.size]
    BY <1>7 DEF ReadFrom
  <2>2. at.from = "data" /\ at.pos = e.pos /\ at.size = e.size
    BY <2>1
  <2>3. \A i \in 1 .. Len(ops[s]) : ops[s][i].id # n
    <3>1. CASE ~HasMark(n)
      BY <1>1, <1>2, <3>1, UnmarkedUnknown
    <3>2. CASE HasMark(n)
      <4>1. PICK u \in Session : Active(u) /\ tran_id[u] = e.tran_id
        BY <1>1, <3>2 DEF MarkInv, MarksNamed
      <4>2. u # s
        BY <1>7, <3>2, <4>1 DEF HasMark
      <4>3. \A i \in 1 .. Live(s) : ops[s][i].id # n
        BY <1>1, <1>2, <4>1, <4>2, NotTheirs
      <4> QED BY <1>6, <4>3
    <3> QED BY <3>1, <3>2
  <2> HIDE DEF at
  <2>4. at.pos \in Nat /\ at.size \in Nat /\ at.pos + at.size <= MaxData
    BY <1>4, <1>5, <2>2
  <2> QED BY <1>2, <1>3, <2>2, <2>3, <2>4 DEF at
<1>8. CASE e.trans # "none" /\ e.tran_id = tran_id[s]
  <2>1. HasMark(n)
    BY <1>3, <1>8 DEF HasMark, Entry
  <2>2. PICK u \in Session : Active(u) /\ tran_id[u] = e.tran_id
    BY <1>1, <2>1 DEF MarkInv, MarksNamed
  <2>3. u = s
    BY <1>1, <1>8, <2>2 DEF IdsApart
  <2>4. MarkOf(s, n) /\ InTx(s)
    BY <1>6, <1>8, <2>1, <2>2, <2>3 DEF MarkOf
  <2>5. PICK i \in 1 .. Live(s) : ops[s][i].id = n /\ Names(s, n, i)
    BY <1>1, <2>4, MarkHasOp
  <2>6. CASE e.tran_op = 0
    <3>1. at = [from |-> "undefined", pos |-> 0, size |-> 0]
      BY <1>8, <2>6 DEF ReadFrom
    <3>2. at.from = "undefined" /\ at.pos = 0 /\ at.size = 0
      BY <3>1
    <3> HIDE DEF at
    <3> QED BY <1>2, <1>3, <3>2 DEF at
  <2>7. CASE e.tran_op # 0
    <3>1. at = [from |-> "trans", pos |-> ops[s][e.tran_op].pos, size |-> ops[s][e.tran_op].size]
      BY <1>8, <2>7 DEF ReadFrom
    <3>2. at.from = "trans" /\ at.pos = ops[s][e.tran_op].pos /\ at.size = ops[s][e.tran_op].size
      BY <3>1
    <3>3. e.trans = "change" /\ e.tran_op = i
      BY <2>1, <2>5, <2>7 DEF Names, HasMark
    <3>4. i \in 1 .. Len(ops[s])
      BY <1>6, <2>5
    <3>5. at.pos \in Nat /\ at.size \in Nat
      BY <1>1, <3>2, <3>3, <3>4, SessionFacts
    <3> HIDE DEF at
    <3> QED BY <1>2, <1>3, <1>8, <2>4, <3>2, <3>3, <3>5 DEF at
  <2> QED BY <2>6, <2>7
<1> QED BY <1>7, <1>8

LEMMA ReadStarts ==
  ASSUME ~StaleIds, AllReads, NEW s \in Session, NEW n \in Num, StartRead(s, n)
  PROVE  ReadOK(s)'
<1> DEFINE at == ReadFrom(s, index[n])
           r == [num |-> n, from |-> at.from, pos |-> at.pos, size |-> at.size,
                 outdated |-> FALSE, got |-> << >>]
<1>1. DOMAIN read = Session
  BY AllParts DEF AllReads, CellsOK
<1>2. read'[s] = r /\ UNCHANGED << total_entries, index, ops, levels, tran_id >>
  BY <1>1 DEF StartRead, headerVars, tranVars
<1>3. /\ at.pos \in Nat /\ at.size \in Nat /\ at.from \in {"data", "trans", "undefined"}
      /\ n < total_entries /\ index[n].lock = "none" /\ index[n].trans # "free_list"
      /\ at.from = "data" => /\ at.pos = index[n].pos /\ at.size = index[n].size
                             /\ at.pos + at.size <= MaxData
                             /\ \A i \in 1 .. Len(ops[s]) : ops[s][i].id # n
      /\ at.from = "undefined" => at.size = 0
      /\ at.from = "trans" => /\ InTx(s) /\ index[n].trans = "change"
                              /\ index[n].tran_id = tran_id[s]
                              /\ at.pos = ops[s][index[n].tran_op].pos
                              /\ at.size = ops[s][index[n].tran_op].size
  BY StartedFrom
<1> HIDE DEF at
<1>4. << >> \in Seq(Fill) /\ Len(<< >>) = 0
  BY EmptySeq
<1>5. /\ r.num = n /\ r.from = at.from /\ r.pos = at.pos /\ r.size = at.size /\ r.got = << >>
      /\ r.outdated = FALSE /\ r \in ReadRec
  BY <1>3, <1>4 DEF ReadRec
<1> HIDE DEF r
<1>6. \A c \in 1 .. Len(r.got) : FALSE
  BY <1>4, <1>5
<1>7. Fetched(r)
  BY <1>3, <1>4, <1>5 DEF Fetched
<1>8. r.from = "data" => FromData(s)'
  BY <1>2, <1>3, <1>5, <1>6 DEF FromData
<1>9. r.from = "trans" => FromTrans(s)'
  BY <1>2, <1>3, <1>5, <1>6 DEF FromTrans, InTx
<1>10. Fetched(read[s])'
  BY <1>2, <1>7 DEF Fetched
<1> QED BY <1>2, <1>3, <1>5, <1>8, <1>9, <1>10 DEF ReadOK

-----------------------------------------------------------------------------
(* A read goes on.                                                            *)

(* The next page ends behind where it begins and within the object. *)
LEMMA PageStops ==
  ASSUME NEW next \in Nat, NEW end \in Nat, next < end,
         NEW stop, stop = IF (PageOf(next) + 1) * PageSize < end
                          THEN (PageOf(next) + 1) * PageSize ELSE end
  PROVE  stop \in Nat /\ next < stop /\ stop <= end
<1>1. /\ PageOf(next) \in Nat /\ next % PageSize \in 0 .. PageSize - 1
      /\ next = PageOf(next) * PageSize + (next % PageSize)
  BY PageFacts
<1>2. PageSize \in Nat
  BY ConstFacts
<1> DEFINE p == PageOf(next)
           k == p * PageSize
           i == next % PageSize
<1>3. k \in Nat /\ (p + 1) * PageSize = k + PageSize
  <2> HIDE DEF p
  <2>1. p \in Nat
    BY <1>1 DEF p
  <2> QED BY <1>2, <2>1
<1>4. i \in 0 .. PageSize - 1 /\ next = k + i
  BY <1>1
<1>5. stop = IF k + PageSize < end THEN k + PageSize ELSE end
  BY <1>3
<1> HIDE DEF k, i
<1> QED BY <1>2, <1>3, <1>4, <1>5

CellsAt(f, at, k) == [c \in 1 .. k |-> f[at + c - 1]]
CellsIn(f, at, k) == \A c \in 1 .. k : f[at + c - 1] \in Fill
HasCells(q, f, at) == \A c \in 1 .. Len(q) : q[c] = f[at + c - 1]
ReadMore(q, f, at, k) == q \o CellsAt(f, at + Len(q), k)

LEMMA CellsJoined ==
  ASSUME NEW q \in Seq(Fill), NEW p \in Seq(Fill), NEW r, r = q \o p
  PROVE  /\ r \in Seq(Fill) /\ Len(r) = Len(q) + Len(p)
         /\ \A c \in 1 .. Len(q) + Len(p) : r[c] = IF c <= Len(q) THEN q[c] ELSE p[c - Len(q)]
BY ConcatProperties

(* Reading on in a file keeps what was read the cells of the file. *)
LEMMA ReadOn ==
  ASSUME NEW q \in Seq(Fill), NEW at \in Nat, NEW k \in Nat, NEW f,
         CellsIn(f, at + Len(q), k), NEW r, r = ReadMore(q, f, at, k)
  PROVE  /\ r \in Seq(Fill) /\ Len(r) = Len(q) + k
         /\ HasCells(q, f, at) => HasCells(r, f, at)
<1> DEFINE p == CellsAt(f, at + Len(q), k)
<1>1. p \in Seq(Fill) /\ Len(p) = k /\ \A c \in 1 .. k : p[c] = f[at + Len(q) + c - 1]
  <2>1. p \in [1 .. k -> Fill] /\ \A c \in 1 .. k : p[c] = f[at + Len(q) + c - 1]
    BY DEF CellsAt, CellsIn
  <2> HIDE DEF p
  <2> QED BY <2>1, SeqDef
<1>2. Len(q) \in Nat
  BY LenProperties
<1>3. r = q \o p
  BY DEF ReadMore
<1> HIDE DEF p
<1>4. /\ r \in Seq(Fill) /\ Len(r) = Len(q) + k
      /\ \A c \in 1 .. Len(q) + k : r[c] = IF c <= Len(q) THEN q[c] ELSE p[c - Len(q)]
  BY <1>1, <1>3, CellsJoined
<1>5. ASSUME HasCells(q, f, at), NEW c \in 1 .. Len(r)
      PROVE  r[c] = f[at + c - 1]
  <2>1. CASE c <= Len(q)
    BY <1>2, <1>4, <1>5, <2>1 DEF HasCells
  <2>2. CASE c > Len(q)
    <3> DEFINE d == c - Len(q)
    <3>1. d \in 1 .. k /\ at + Len(q) + d - 1 = at + c - 1
      BY <1>2, <1>4, <2>2
    <3>2. r[c] = p[d]
      BY <1>2, <1>4, <2>2
    <3> QED BY <1>1, <3>1, <3>2
  <2> QED BY <1>2, <2>1, <2>2
<1> QED BY <1>4, <1>5 DEF HasCells

(* What a session has stored lies within its transaction's data. *)
LEMMA StoredWithin ==
  ASSUME AllInv, NEW s \in Session, NEW n \in Num, MarkOf(s, n), index[n].trans = "change", pc[s] = "reading"
  PROVE  LET op == ops[s][index[n].tran_op]
         IN /\ index[n].tran_op \in 1 .. Len(ops[s]) /\ Changes(op) /\ op.id = n
            /\ LastIn(ops[s], 1, Len(ops[s]), n, index[n].tran_op)
            /\ op.pos \in Nat /\ op.size \in Nat /\ op.pos + op.size <= MaxTransData
<1>1. StoreInv /\ OneHolder /\ OrderOK
  BY AllParts
<1>2. PICK i \in 1 .. Live(s) : ops[s][i].id = n /\ Names(s, n, i)
  BY MarkHasOp
<1>3. Live(s) = Len(ops[s]) /\ Len(ops[s]) \in Nat
  BY <1>1, LiveOps
<1>4. index[n].tran_op = i /\ Changes(ops[s][i]) /\ LastOp(s, n, i)
  BY <1>2 DEF Names, Changes
<1>5. i \in 1 .. Len(ops[s]) /\ i <= Len(ops[s])
  BY <1>2, <1>3
<1>6. LastIn(ops[s], 1, Len(ops[s]), n, i)
  BY <1>3, <1>4, <1>5 DEF LastOp, LastIn
<1>7. /\ ops[s][i].pos \in Nat /\ ops[s][i].size \in Nat /\ total_trans_size[s] \in Nat
  BY <1>1, <1>5, SessionFacts
<1>8. /\ ops[s][i].pos + ops[s][i].size <= total_trans_size[s]
      /\ total_trans_size[s] <= MaxTransData
  BY <1>1, <1>4, <1>5 DEF OrderOK, InOrder, OpsBefore, EndOf
<1>9. ops[s][i].pos + ops[s][i].size <= MaxTransData
  BY <1>7, <1>8, ConstFacts
<1> QED BY <1>2, <1>4, <1>5, <1>6, <1>7, <1>9

WithCells(r, q) == [r EXCEPT !.got = q]

LEMMA CellsRead ==
  ASSUME NEW r \in ReadRec, NEW q \in Seq(Fill)
  PROVE  /\ WithCells(r, q) \in ReadRec /\ WithCells(r, q).got = q
         /\ WithCells(r, q).num = r.num /\ WithCells(r, q).from = r.from /\ WithCells(r, q).pos = r.pos
         /\ WithCells(r, q).size = r.size /\ WithCells(r, q).outdated = r.outdated
BY DEF ReadRec, WithCells

ReadFile(s) == IF read[s].from = "data" THEN data ELSE trans_data[s]

LEMMA PageOn ==
  ASSUME AllInv, NEW s \in Session, ReadPage(s), ReadOK(s)
  PROVE  LET r == read[s]
             q == r.got
             x == read'[s].got
         IN /\ read'[s] = WithCells(r, x) /\ x \in Seq(Fill) /\ Len(x) <= r.size
            /\ HasCells(q, ReadFile(s), r.pos) => HasCells(x, ReadFile(s), r.pos)
            /\ r.from \in {"data", "trans"}
<1> DEFINE r == read[s]
           next == r.pos + Len(r.got)
           end == r.pos + r.size
           stop == IF (PageOf(next) + 1) * PageSize < end
                   THEN (PageOf(next) + 1) * PageSize ELSE end
           page == [i \in 1 .. stop - next |->
                      IF r.from = "data" THEN data[next + i - 1] ELSE trans_data[s][next + i - 1]]
           f == ReadFile(s)
<1>1. /\ data \in [Cell -> Fill] /\ trans_data[s] \in [0 .. MaxTransData - 1 -> Fill]
      /\ DOMAIN read = Session
  BY AllParts DEF CellsOK
<1>2. Fetched(r) /\ r.num \in Num /\ (r.from = "trans" => FromTrans(s))
  BY DEF ReadOK
<1>3. r \in ReadRec /\ r.got \in Seq(Fill) /\ r.pos \in Nat /\ r.size \in Nat /\ Len(r.got) \in Nat
  BY <1>2, LenProperties DEF Fetched, ReadRec
<1>4. Len(r.got) < r.size /\ pc[s] = "reading"
  BY DEF ReadPage
<1>5. r.from \in {"data", "trans"}
  <2>1. r.from # "undefined"
    BY <1>2, <1>3, <1>4 DEF Fetched
  <2> QED BY <1>2, <2>1 DEF Fetched, ReadRec
<1>6. next \in Nat /\ end \in Nat /\ next < end
  <2>1. Len(r.got) < r.size
    BY <1>4
  <2>2. Len(r.got) \in Nat /\ r.pos \in Nat /\ r.size \in Nat
    BY <1>3
  <2> HIDE DEF r
  <2> QED BY <2>1, <2>2
<1>7. stop \in Nat /\ next < stop /\ stop <= end
  BY <1>6, PageStops
<1>8. read'[s] = WithCells(r, r.got \o page)
  BY <1>1 DEF ReadPage, WithCells
<1> DEFINE k == stop - next
<1>9. k \in Nat /\ Len(r.got) + k <= r.size /\ \A c \in 1 .. k : next + c - 1 \in next .. end - 1
  <2> HIDE DEF stop
  <2>1. stop - next \in Nat /\ Len(r.got) + (stop - next) <= r.size
    BY <1>3, <1>7
  <2>2. \A c \in 1 .. stop - next : next + c - 1 \in next .. end - 1
    <3> HIDE DEF next, end
    <3> QED BY <1>6, <1>7
  <2> QED BY <2>1, <2>2
<1>10. \A c \in next .. end - 1 : f[c] \in Fill
  <2>1. CASE r.from = "data"
    <3>1. end <= MaxData
      BY <1>2, <2>1 DEF Fetched
    <3>2. \A c \in next .. end - 1 : c \in Cell
      <4> HIDE DEF next, end
      <4> QED BY <1>6, <3>1, ConstFacts DEF Cell
    <3> QED BY <1>1, <2>1, <3>2 DEF ReadFile
  <2>2. CASE r.from = "trans"
    <3>1. FromTrans(s) /\ MarkOf(s, r.num)
      BY <1>2, <2>2, OwnMark
    <3>2. end <= MaxTransData
      BY <1>2, <1>4, <3>1, StoredWithin DEF FromTrans
    <3>3. \A c \in next .. end - 1 : c \in 0 .. MaxTransData - 1
      <4> HIDE DEF next, end
      <4> QED BY <1>6, <3>2, ConstFacts
    <3>4. f = trans_data[s]
      BY <2>2 DEF ReadFile
    <3> HIDE DEF f, next, end
    <3> QED BY <1>1, <3>3, <3>4
  <2> QED BY <1>5, <2>1, <2>2
<1>11. page = CellsAt(f, next, k)
  BY DEF ReadFile, CellsAt
<1>12. CellsIn(f, next, k)
  <2> HIDE DEF next, end, k, f
  <2> QED BY <1>9, <1>10 DEF CellsIn
<1> DEFINE x == r.got \o page
<1>13. /\ x \in Seq(Fill) /\ Len(x) = Len(r.got) + k
       /\ HasCells(r.got, f, r.pos) => HasCells(x, f, r.pos)
  <2> HIDE DEF k, f, page
  <2>1. x = ReadMore(r.got, f, r.pos, k)
    BY <1>11 DEF ReadMore
  <2>2. CellsIn(f, r.pos + Len(r.got), k)
    BY <1>12
  <2> HIDE DEF x
  <2>3. k \in Nat /\ r.got \in Seq(Fill) /\ r.pos \in Nat
    BY <1>3, <1>9
  <2> HIDE DEF r
  <2> QED BY <2>1, <2>2, <2>3, ReadOn
<1> HIDE DEF page, k, x
<1>14. read'[s].got = x
  <2>1. read'[s] = WithCells(r, x)
    BY <1>8 DEF x
  <2> QED BY <1>3, <1>13, <2>1, CellsRead
<1> QED BY <1>5, <1>8, <1>9, <1>13, <1>14 DEF x

LEMMA ReadGoesOn ==
  ASSUME AllInv, NEW s \in Session, ReadPage(s), ReadOK(s)
  PROVE  ReadOK(s)'
<1> DEFINE r == read[s]
           x == read'[s].got
           f == ReadFile(s)
<1>1. /\ read'[s] = WithCells(r, x) /\ x \in Seq(Fill) /\ Len(x) <= r.size
      /\ HasCells(r.got, f, r.pos) => HasCells(x, f, r.pos)
      /\ r.from \in {"data", "trans"}
  BY PageOn
<1>2. /\ r.num \in Num /\ r.num < total_entries /\ Fetched(r)
      /\ r.from = "data" /\ ~r.outdated => FromData(s)
      /\ r.from = "trans" => FromTrans(s)
  BY DEF ReadOK
<1>3. UNCHANGED << total_entries, index, data, ops, levels, tran_id, trans_data >>
  BY DEF ReadPage, headerVars, tranVars
<1> DEFINE y == read'[s]
<1>4. /\ y \in ReadRec /\ y.num = r.num /\ y.from = r.from /\ y.pos = r.pos
      /\ y.size = r.size /\ y.outdated = r.outdated
  BY <1>1, <1>2, CellsRead DEF Fetched
<1> HIDE DEF y
<1>5. Fetched(y)
  BY <1>1, <1>2, <1>4 DEF Fetched, y
<1>6. Fetched(read[s])'
  BY <1>5 DEF Fetched, y
<1>7. r.from = "data" /\ ~r.outdated => FromData(s)'
  <2> SUFFICES ASSUME r.from = "data", ~r.outdated PROVE FromData(s)'
    OBVIOUS
  <2>1. FromData(s) /\ f = data
    BY <1>2 DEF ReadFile
  <2>2. \A c \in 1 .. Len(x) : x[c] = data[y.pos + c - 1]
    BY <1>1, <1>4, <2>1 DEF FromData, HasCells
  <2> HIDE DEF r
  <2> QED BY <1>3, <1>4, <2>1, <2>2 DEF FromData, y, r
<1>8. r.from = "trans" => FromTrans(s)'
  <2> SUFFICES ASSUME r.from = "trans" PROVE FromTrans(s)'
    OBVIOUS
  <2>1. FromTrans(s) /\ f = trans_data[s]
    BY <1>2 DEF ReadFile
  <2>2. \A c \in 1 .. Len(x) : x[c] = trans_data[s][y.pos + c - 1]
    BY <1>1, <1>4, <2>1 DEF FromTrans, HasCells
  <2> QED BY <1>3, <1>4, <2>1, <2>2 DEF FromTrans, y, InTx
<1> QED BY <1>2, <1>3, <1>4, <1>6, <1>7, <1>8 DEF ReadOK, y

-----------------------------------------------------------------------------
(* The reads of all sessions.                                                 *)

LEMMA NotReading ==
  ASSUME StoreInv, NEW s \in Session, StepOf(s), ReadsNothing(s)
  PROVE  pc[s] # "reading" /\ pc'[s] # "reading"
<1>1. pc \in [Session -> PC]
  BY DEF StoreInv, SessionInv, SessionsOK
<1> DEFINE Done == pc[s] # "reading" /\ pc'[s] # "reading"
<1>2. ASSUME NEW n, NEW e, NEW isNew, NEW size, NEW val, Section(s), Store(s, n, e, isNew, size, val)
      PROVE  Done
  BY <1>1, <1>2 DEF Section, Store, StoreInTx, StorePlain
<1>3. ASSUME NEW size \in Size, NEW val \in Value,
             Create(s, size, val) \/ Revive(s, size, val) \/ \E n \in Num : Update(s, n, size, val)
      PROVE  Done
  BY <1>2, <1>3 DEF Create, Revive, Update
<1>4. ASSUME NEW n \in Num, Destroy(s, n) PROVE Done
  BY <1>4 DEF Destroy, Section
<1>5. ASSUME FinishStore(s) \/ FetchPage(s) \/ NextPage(s) \/ FinishWrite(s) PROVE Done
  BY <1>1, <1>5 DEF FinishStore, FetchPage, NextPage, FinishWrite
<1>6. ASSUME TransactionStart(s) \/ CommitInner(s) \/ CommitBegin(s) \/ RollbackBegin(s) PROVE Done
  BY <1>1, <1>6 DEF TransactionStart, CommitInner, CommitBegin, RollbackBegin, Section
<1>7. ASSUME CommitOp(s) \/ RollbackOp(s) \/ CommitEnd(s) \/ RollbackEnd(s) PROVE Done
  BY <1>1, <1>7 DEF CommitOp, RollbackOp, CommitEnd, RollbackEnd
<1> QED BY <1>3, <1>4, <1>5, <1>6, <1>7 DEF StepOf, HolderStep, ReadsNothing

ReadAt(s) == IF pc[s] = "reading" THEN ReadOK(s) ELSE read[s] = NoRead

LEMMA NoReadStays ==
  ASSUME AllInv, NEW s \in Session, StepOf(s), NEW t \in Session, t # s \/ ReadsNothing(s),
         read[t] = NoRead
  PROVE  read'[t] = NoRead
<1>1. read[t].num = -1 /\ -1 \notin Num
  BY DEF NoRead, Num
<1> QED BY <1>1, ReadsAlone

LEMMA ReadStep ==
  ASSUME ~StaleIds, AllReads, NEW s \in Session, StepOf(s), NEW t \in Session
  PROVE  ReadAt(t)'
<1>1. AllInv /\ StoreInv /\ CellsOK /\ ReadAt(t) /\ pc \in [Session -> PC] /\ DOMAIN read = Session
  BY AllParts DEF AllReads, ReadInv, ReadsOK, ReadAt, StoreInv, SessionInv, SessionsOK, CellsOK
<1>2. CASE t # s
  <2>1. pc'[t] = pc[t]
    BY <1>1, <1>2, OthersAlone DEF Alone
  <2>2. CASE pc[t] = "reading"
    <3>1. ReadOK(t)'
      BY <1>1, <1>2, <2>2, OthersRead DEF ReadAt
    <3> QED BY <2>1, <2>2, <3>1 DEF ReadAt
  <2>3. CASE pc[t] # "reading"
    <3>1. read'[t] = NoRead
      BY <1>1, <1>2, <2>3, NoReadStays DEF ReadAt
    <3> QED BY <2>1, <2>3, <3>1 DEF ReadAt
  <2> QED BY <2>2, <2>3
<1>3. ASSUME t = s, NEW n \in Num, StartRead(s, n) PROVE ReadAt(t)'
  <2>1. pc'[s] = "reading" /\ ReadOK(s)'
    BY <1>1, <1>3, ReadStarts DEF StartRead
  <2> QED BY <1>3, <2>1 DEF ReadAt
<1>4. CASE t = s /\ ReadPage(s)
  <2>1. pc[s] = "reading" /\ pc'[s] = "reading"
    BY <1>4 DEF ReadPage
  <2>2. ReadOK(s)'
    BY <1>1, <1>4, <2>1, ReadGoesOn DEF ReadAt
  <2> QED BY <1>4, <2>1, <2>2 DEF ReadAt
<1>5. CASE t = s /\ FinishRead(s)
  <2>1. pc'[s] = "idle" /\ read'[s] = NoRead
    BY <1>1, <1>5 DEF FinishRead
  <2> QED BY <1>5, <2>1 DEF ReadAt
<1>6. CASE t = s /\ ReadsNothing(s)
  <2>1. pc[s] # "reading" /\ pc'[s] # "reading"
    BY <1>1, <1>6, NotReading
  <2>2. read'[s] = NoRead
    BY <1>1, <1>6, <2>1, NoReadStays DEF ReadAt
  <2> QED BY <1>6, <2>1, <2>2 DEF ReadAt
<1> QED BY <1>2, <1>3, <1>4, <1>5, <1>6 DEF ReadsNothing

LEMMA UnchangedReads ==
  ASSUME ReadInv, UNCHANGED vars
  PROVE  ReadInv'
BY DEF vars, headerVars, tranVars, ReadInv, ReadsOK, ReadOK, Fetched, FromData, FromTrans, IdsApart,
       IdsBelow, Active, InTx

LEMMA NextReadInv ==
  ASSUME ~StaleIds, AllReads, [Next]_vars
  PROVE  ReadInv'
<1>1. CASE UNCHANGED vars
  BY <1>1, UnchangedReads DEF AllReads
<1>2. ASSUME NEW s \in Session, StepOf(s) PROVE ReadInv'
  <2>1. IdsApart' /\ IdsBelow'
    BY <1>2, IdsStep DEF AllReads, ReadInv
  <2>2. \A t \in Session : ReadAt(t)'
    BY <1>2, ReadStep
  <2> QED BY <2>1, <2>2 DEF ReadInv, ReadsOK, ReadAt
<1> QED BY <1>1, <1>2, NextSteps

LEMMA InitReadInv == Init => ReadInv
<1> SUFFICES ASSUME Init PROVE ReadInv
  OBVIOUS
<1>1. ReadsOK
  BY DEF Init, ReadsOK
<1>2. \A s \in Session : ~Active(s) /\ tran_id[s] = 0
  BY DEF Init, Active, InTx
<1>3. IdsApart /\ IdsBelow
  BY <1>2 DEF Init, IdsApart, IdsBelow
<1> QED BY <1>1, <1>3 DEF ReadInv

-----------------------------------------------------------------------------
(* What a read gives when it ends.                                            *)

LEMMA WholeRead ==
  ASSUME NEW q \in Seq(Fill), NEW f, NEW at, NEW size, HasCells(q, f, at), Len(q) = size
  PROVE  q = CellsAt(f, at, size)
<1>1. q = [c \in 1 .. Len(q) |-> q[c]]
  BY LenProperties
<1> QED BY <1>1 DEF HasCells, CellsAt

LEMMA DataReadShown ==
  ASSUME AllInv, NEW s \in Session, ReadOK(s), ReadDone(s), read[s].from = "data", ~read[s].outdated,
         rp_impl_lock = NoSession, Objects!View(s, read[s].num) # Absent
  PROVE  read[s].got = Objects!View(s, read[s].num)
<1> DEFINE r == read[s]
           n == r.num
<1>1. n \in Num /\ n < total_entries /\ FromData(s) /\ r.got \in Seq(Fill) /\ Len(r.got) = r.size
  BY DEF ReadOK, ReadDone, Fetched, ReadRec
<1>2. /\ index[n].pos = r.pos /\ index[n].size = r.size /\ index[n].trans # "free_list"
      /\ index[n].lock = "none" /\ HasCells(r.got, data, r.pos)
      /\ \A i \in 1 .. Len(ops[s]) : ops[s][i].id # n
  BY <1>1 DEF FromData, HasCells
<1>3. Objects!View(s, n) = Committed(n)
  BY <1>1, <1>2, ViewNone
<1>4. r.got = CellsOf(index[n])
  <2>1. r.got = CellsAt(data, r.pos, r.size)
    BY <1>1, <1>2, WholeRead
  <2> QED BY <1>2, <2>1 DEF CellsOf, CellsAt
<1>5. Committed(n) = CellsOf(index[n])
  <2>1. ~(n >= total_entries)
    BY <1>1, AllParts, NumFacts
  <2>2. CASE Settled(n)
    BY <1>1, <2>2, StandsSettled
  <2>3. ASSUME NEW u \in Session, Writes(u, n) PROVE FALSE
    BY <1>1, <1>2, <2>3, StandsWritten
  <2>4. ASSUME NEW u \in Session, MarkOf(u, n) PROVE Committed(n) = CellsOf(index[n])
    <3>1. Committed(n) = ChangedBy(u, n)
      BY <1>1, <2>4, StandsMarked
    <3>2. pc[u] # "committing"
      BY AllParts, NoHolder
    <3>3. ~CreatedIn(u, n)
      BY <1>3, <3>1, <3>2 DEF ChangedBy
    <3> QED BY <3>1, <3>2, <3>3 DEF ChangedBy
  <2> QED BY <1>1, <1>2, <2>1, <2>2, <2>3, <2>4, EntryCases
<1> QED BY <1>3, <1>4, <1>5

LEMMA TransReadShown ==
  ASSUME AllInv, NEW s \in Session, ReadOK(s), ReadDone(s), read[s].from = "trans"
  PROVE  read[s].got = Objects!View(s, read[s].num)
<1> DEFINE r == read[s]
           n == r.num
           i == index[n].tran_op
           op == ops[s][i]
<1>1. n \in Num /\ FromTrans(s) /\ r.got \in Seq(Fill) /\ Len(r.got) = r.size /\ pc[s] = "reading"
  BY DEF ReadOK, ReadDone, Fetched, ReadRec
<1>2. /\ index[n].trans = "change" /\ MarkOf(s, n) /\ r.pos = op.pos /\ r.size = op.size
      /\ HasCells(r.got, trans_data[s], r.pos)
  BY <1>1, OwnMark DEF FromTrans, HasCells
<1>3. i \in 1 .. Len(ops[s]) /\ Changes(op) /\ LastIn(ops[s], 1, Len(ops[s]), n, i)
  BY <1>1, <1>2, StoredWithin
<1>4. Objects!View(s, n) = OpVal(s, i)
  BY <1>1, <1>3, ViewLast DEF Calm
<1>5. OpVal(s, i) = OpValue(s, i)
  BY <1>3, LogValues
<1>6. OpValue(s, i) = CellsAt(trans_data[s], op.pos, op.size)
  BY <1>1 DEF OpValue, CellsAt
<1>7. r.got = CellsAt(trans_data[s], r.pos, r.size)
  <2>1. r.got \in Seq(Fill) /\ Len(r.got) = r.size /\ HasCells(r.got, trans_data[s], r.pos)
    BY <1>1, <1>2
  <2> HIDE DEF r
  <2> QED BY <2>1, WholeRead
<1> QED BY <1>2, <1>4, <1>5, <1>6, <1>7

LEMMA ReadsShow == AllReads => ReadsView
<1> SUFFICES ASSUME AllReads, NEW s \in Session, ReadDone(s), read[s].from # "undefined",
                    rp_impl_lock = NoSession, ~read[s].outdated, Objects!View(s, read[s].num) # Absent
             PROVE  read[s].got = Objects!View(s, read[s].num)
  BY DEF ReadsView
<1>1. AllInv /\ ReadOK(s)
  BY DEF AllReads, ReadInv, ReadsOK, ReadDone
<1>2. read[s].from \in {"data", "trans"}
  BY <1>1 DEF ReadOK, Fetched, ReadRec
<1> QED BY <1>1, <1>2, DataReadShown, TransReadShown

LEMMA AlwaysReads ==
  ASSUME ~StaleIds, 0 \notin Size, WholePages
  PROVE  Spec => []AllReads
<1>1. Init => ReadInv
  BY InitReadInv
<1>2. AllInv /\ ReadInv /\ [Next]_vars => ReadInv'
  BY NextReadInv DEF AllReads
<1>3. AllInv /\ ReadInv => AllReads
  BY DEF AllReads
<1> QED BY <1>1, <1>2, <1>3, AlwaysAll, PTL DEF Spec

(* A read gives the object as the session may see it when the read ends: what  *)
(* its own transactions stored last, at any nesting and after any inner        *)
(* rollbacks, else what was committed last.  Nobody else's open transaction,   *)
(* and no write, destroy or rollback between two pages of the read, shows in   *)
(* it, unless the object was committed anew or freed meanwhile: "operator >>"  *)
(* (6786 to 6952) looks at the entry once and then reads page by page, without *)
(* the lock, what "operator <<" (6954 to 7332) and the commits of others leave. *)
THEOREM ReadsShown ==
  ASSUME ~StaleIds, 0 \notin Size, WholePages
  PROVE  Spec => []ReadsView
<1> QED BY AlwaysReads, ReadsShow, PTL
=============================================================================
