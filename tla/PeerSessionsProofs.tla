-------------------------- MODULE PeerSessionsProofs --------------------------
(***************************************************************************)
(* Theorems about PeerSessions, for any table, tree and bounds: its types, *)
(* that the hash a session works on stays at the front of its deque, that  *)
(* no file named by a list is forgotten between the deques, and that the   *)
(* zenith is not set before every file has been looked for.                *)
(***************************************************************************)
EXTENDS PeerSessions, TLAPS, FiniteSetTheorems, WellFoundedInduction, NaturalsInduction

-----------------------------------------------------------------------------
(* Lemmas about numbers, slots and deques.                                 *)

\* A set of naturals that is not empty has a least number.
LEMMA LeastExists ==
  ASSUME NEW T \in SUBSET Nat, T # {}
  PROVE  \E n \in T : \A k \in T : n <= k
<1>1. PICK x \in T : \A y \in T : ~ (<<y, x>> \in OpToRel(<, Nat))
  BY NatLessThanWellFounded, WFMin
<1>2. \A m, n \in Nat : m < n => <<m, n>> \in OpToRel(<, Nat)
  BY Zenon DEF OpToRel
<1>3. \A y \in T : ~(y < x)
  BY <1>1, <1>2, Zenon
<1> QED BY <1>3

\* The first of some slots is one of them.
LEMMA FirstIsOne ==
  ASSUME NEW slots \in SUBSET Slot, slots # {}, PeerAssumption
  PROVE  First(slots) \in slots
<1>1. \E i \in slots : \A j \in slots : i <= j
  BY LeastExists DEF Slot, PeerAssumption
<1> QED BY <1>1 DEF First

\* Of some slots there is one that weighs most, the first of several such.
LEMMA HeaviestExists ==
  ASSUME NEW slots \in SUBSET Slot, slots # {}, PeerAssumption, NEW w \in [Slot -> Int]
  PROVE  \E i \in slots : \A j \in slots : w[i] > w[j] \/ (w[i] = w[j] /\ i <= j)
<1> DEFINE Better(i, j) == w[i] > w[j] \/ (w[i] = w[j] /\ i <= j)
           UpTo(n)   == slots \intersect (1 .. n)
           HasBest(n) == \E i \in UpTo(n) : \A j \in UpTo(n) : Better(i, j)
           Bad       == {n \in Nat : UpTo(n) # {} /\ ~HasBest(n)}
<1>1. \A i \in slots : i \in Nat /\ 1 <= i /\ i <= MaxSessions /\ w[i] \in Int
  BY DEF Slot, PeerAssumption
<1>2. Bad = {}
  <2> SUFFICES ASSUME Bad # {} PROVE FALSE
    OBVIOUS
  <2>1. PICK n \in Bad : \A k \in Bad : n <= k
    <3>1. Bad \in SUBSET Nat
      OBVIOUS
    <3> HIDE DEF Bad
    <3> QED BY <3>1, LeastExists
  <2>2. n \in Nat /\ UpTo(n) # {} /\ ~HasBest(n)
    OBVIOUS
  <2>3. n >= 1 /\ n - 1 \in Nat
    BY <2>2
  <2>4. n - 1 \notin Bad
    <3> HIDE DEF Bad
    <3> QED BY <2>1, <2>2, <2>3
  <2>5. UpTo(n - 1) = {} \/ HasBest(n - 1)
    <3> HIDE DEF UpTo, HasBest
    <3> QED BY <2>3, <2>4
  <2>6. UpTo(n) = IF n \in slots THEN UpTo(n - 1) \union {n} ELSE UpTo(n - 1)
    <3>1. 1 .. n = (1 .. n - 1) \union {n}
      <4> HIDE DEF Bad, UpTo, HasBest, Better
      <4>1. \A k : k \in 1 .. n <=> k \in 1 .. n - 1 \/ k = n
        BY <2>2, <2>3
      <4> QED BY <4>1, Zenon
    <3>2. \A A, B : A = B \union {n} =>
            slots \intersect A = IF n \in slots THEN (slots \intersect B) \union {n}
                                 ELSE slots \intersect B
      OBVIOUS
    <3> QED BY <3>1, <3>2
  <2>7. \A i \in UpTo(n - 1) : i \in slots /\ i < n
    BY <2>2, <2>3, <1>1
  <2> HIDE DEF UpTo, Bad
  <2>8. n \in slots
    BY <2>2, <2>5, <2>6
  <2>9. Better(n, n)
    BY <1>1, <2>8
  <2>10. UpTo(n - 1) # {}
    <3> HIDE DEF Better
    <3>1. UpTo(n - 1) = {} => UpTo(n) = {n}
      BY <2>6, <2>8
    <3>2. UpTo(n) = {n} => HasBest(n)
      BY <2>9
    <3> QED BY <2>2, <3>1, <3>2
  <2>11. PICK i \in UpTo(n - 1) : \A j \in UpTo(n - 1) : Better(i, j)
    BY <2>5, <2>10
  <2>12. i \in slots /\ i < n
    BY <2>7, <2>11
  <2>13. CASE Better(i, n)
    <3> HIDE DEF Better
    <3> QED BY <2>2, <2>6, <2>8, <2>11, <2>13
  <2>14. CASE ~Better(i, n)
    <3>1. w[n] > w[i]
      BY <2>14, <2>12, <2>8, <1>1
    <3>2. ASSUME NEW j \in UpTo(n - 1) PROVE Better(n, j)
      <4>1. Better(i, j) /\ j \in slots
        BY <2>11, <2>7
      <4> QED BY <3>1, <4>1, <2>12, <2>8, <1>1
    <3> HIDE DEF Better
    <3> QED BY <3>2, <2>2, <2>6, <2>8, <2>9
  <2> QED BY <2>13, <2>14
<1>3. UpTo(MaxSessions) = slots
  BY <1>1
<1>4. HasBest(MaxSessions)
  BY <1>2, <1>3 DEF PeerAssumption
<1> QED BY <1>3, <1>4

\* Of some slots one has the longest deque, one the shortest, and one is the last.
LEMMA FullestIsOne ==
  ASSUME NEW slots \in SUBSET Slot, slots # {}, PeerAssumption,
         queue \in [Slot -> Seq(Hash)]
  PROVE  Fullest(slots) \in slots
<1> DEFINE w == [i \in Slot |-> Len(queue[i])]
<1>1. w \in [Slot -> Int] /\ \A i \in slots : w[i] = Len(queue[i])
  OBVIOUS
<1> HIDE DEF w
<1>2. \E i \in slots : \A j \in slots : w[i] > w[j] \/ (w[i] = w[j] /\ i <= j)
  BY <1>1, HeaviestExists
<1> QED BY <1>1, <1>2 DEF Fullest

LEMMA LeastIsOne ==
  ASSUME NEW slots \in SUBSET Slot, slots # {}, PeerAssumption,
         queue \in [Slot -> Seq(Hash)]
  PROVE  Least(slots) \in slots
<1> DEFINE w == [i \in Slot |-> 0 - Len(queue[i])]
<1>1. w \in [Slot -> Int] /\ \A i \in slots : w[i] = 0 - Len(queue[i])
  OBVIOUS
<1>2. \A i \in slots : Len(queue[i]) \in Nat
  OBVIOUS
<1> HIDE DEF w
<1>3. PICK i \in slots : \A j \in slots : w[i] > w[j] \/ (w[i] = w[j] /\ i <= j)
  BY <1>1, HeaviestExists
<1>4. ASSUME NEW j \in slots
      PROVE  \/ Len(queue[i]) < Len(queue[j])
             \/ Len(queue[i]) = Len(queue[j]) /\ i <= j
  <2>1. w[i] > w[j] \/ (w[i] = w[j] /\ i <= j)
    BY <1>3
  <2>2. w[i] = 0 - Len(queue[i]) /\ w[j] = 0 - Len(queue[j])
    BY <1>1
  <2> QED BY <1>2, <2>1, <2>2
<1> QED BY <1>4 DEF Least

LEMMA FinalIsOne ==
  ASSUME NEW slots \in SUBSET Slot, slots # {}, PeerAssumption
  PROVE  Final(slots) \in slots
<1> DEFINE w == [i \in Slot |-> i]
<1>1. w \in [Slot -> Int] /\ \A i \in slots : w[i] = i /\ i \in Int
  BY DEF Slot, PeerAssumption
<1> HIDE DEF w
<1>2. \E i \in slots : \A j \in slots : w[i] > w[j] \/ (w[i] = w[j] /\ i <= j)
  BY <1>1, HeaviestExists
<1>3. \E i \in slots : \A j \in slots : j <= i
  BY <1>1, <1>2
<1> QED BY <1>3 DEF Final

\* A deque of two or more, when some hashes are taken from behind its front.
LEMMA TakingFromBehind ==
  ASSUME NEW S, NEW q \in Seq(S), NEW n \in Nat, n >= 1, n < Len(q)
  PROVE  /\ SubSeq(q, 2, n + 1) \in Seq(S) /\ SubSeq(q, 2, n + 1) # <<>>
         /\ <<q[1]>> \o SubSeq(q, n + 2, Len(q)) \in Seq(S)
         /\ <<q[1]>> \o SubSeq(q, n + 2, Len(q)) # <<>>
         /\ (<<q[1]>> \o SubSeq(q, n + 2, Len(q)))[1] = q[1]
OBVIOUS

\* What is appended to a deque leaves its front as it is.
LEMMA FrontOfAppended ==
  ASSUME NEW S, NEW q \in Seq(S), NEW r \in Seq(S), NEW h \in S
  PROVE  /\ q \o r \in Seq(S) /\ Append(q, h) \in Seq(S)
         /\ q # <<>> => /\ q \o r # <<>> /\ (q \o r)[1] = q[1]
                        /\ Append(q, h) # <<>> /\ Append(q, h)[1] = q[1]
OBVIOUS

LEMMA TakesSome ==
  ASSUME NEW S, NEW q \in Seq(S), Len(q) > 1
  PROVE  NumToTake(q) \in Nat /\ NumToTake(q) >= 1 /\ NumToTake(q) < Len(q)
<1> DEFINE l == Len(q)
<1>1. l \in Nat /\ l > 1
  OBVIOUS
<1>2. NumToTake(q) = IF l < 20 THEN 1 ELSE l \div 10
  BY DEF NumToTake
<1> HIDE DEF l
<1>3. l >= 20 => l \div 10 \in Nat /\ l \div 10 >= 1 /\ l \div 10 < l
  BY <1>1
<1>4. NumToTake(q) \in Nat /\ NumToTake(q) >= 1 /\ NumToTake(q) < l
  BY <1>1, <1>2, <1>3
<1> QED BY <1>4 DEF l

LEMMA Quotient ==
  ASSUME NEW n \in Nat \ {0}, NEW a \in Nat
  PROVE  a \div n \in Nat /\ (a \div n) * n <= a
OBVIOUS

LEMMA UpToQuotient ==
  ASSUME NEW n \in Nat \ {0}, NEW a \in Nat, NEW p \in Int, p <= a \div n
  PROVE  p * n <= a
<1> DEFINE q == a \div n
<1>1. q \in Nat /\ q * n <= a /\ p <= q
  BY Quotient
<1> HIDE DEF q
<1>2. p * n <= q * n
  BY <1>1
<1> QED BY <1>1, <1>2

\* A share of a deque is a deque.
LEMMA ShareIsDeque ==
  ASSUME NEW S, NEW q \in Seq(S), NEW n \in Nat \ {0}, NEW k \in 1 .. n
  PROVE  Share(q, n, k) \in Seq(S)
<1> DEFINE a == Len(q) + n - k
           m == a \div n
<1>1. a \in Nat
  OBVIOUS
<1>2. m \in Nat
  <2> HIDE DEF a
  <2> QED BY <1>1, Quotient
<1>3. ASSUME NEW p \in 1 .. m PROVE q[(p - 1) * n + k] \in S
  <2>1. p * n <= a
    <3> HIDE DEF a
    <3>1. p \in Int /\ p <= a \div n
      BY <1>2, <1>3
    <3> QED BY <3>1, <1>1, UpToQuotient
  <2> HIDE DEF m
  <2>2. (p - 1) * n = p * n - n /\ p * n \in Int /\ (p - 1) * n >= 0
    BY <1>2
  <2> QED BY <2>1, <2>2
<1> HIDE DEF m
<1>4. [p \in 1 .. m |-> q[(p - 1) * n + k]] \in [1 .. m -> S]
  BY <1>3
<1>5. [1 .. m -> S] \subseteq Seq(S)
  BY <1>2
<1> QED BY <1>4, <1>5 DEF m, Share

-----------------------------------------------------------------------------
(* The invariant.                                                          *)

\* Sessions that fetch a block, or that are alone, have not come to their end:
\* without it the slot of a session that has ended could keep its marks.
\* And a session that processes a file knows its hash.
AtWork ==
  /\ \A i \in fetching \union alone : phase[i] \notin {"ended", "waiting", "leaving"}
  /\ \A i \in Slot : phase[i] = "working" => hash[i] \in Hash

PeerInv == TypeOK /\ AtWork /\ HeldAtFront

\* Popping the hash that a session works on.
LEMMA PopKeepsOthers ==
  ASSUME NEW i \in Slot, queue \in [Slot -> Seq(Hash)], queue[i] # <<>>
  PROVE  /\ Popped(i) \in [Slot -> Seq(Hash)]
         /\ \A j \in Slot \ {i} : Popped(i)[j] = queue[j]
BY DEF Popped

LEMMA InitMainKeeps ==
  ASSUME PeerInv, InitMain, PeerAssumption
  PROVE  PeerInv'
<1>1. CASE FreeSlots # {}
  <2> DEFINE k == First(FreeSlots)
  <2>1. k \in Slot /\ phase[k] = "free"
    BY <1>1, FirstIsOne DEF FreeSlots, Used
  <2> HIDE DEF k
  <2>2. /\ phase' = [phase EXCEPT ![k] = "ready"] /\ support' = support
        /\ alone' = IF Mains = {} THEN alone \union {k} ELSE alone \ Mains
    BY <1>1 DEF InitMain, Enter, k
  <2>3. Used' = Used \union {k} /\ k \notin Used /\ Mains' = Mains \union {k}
    BY <2>1, <2>2 DEF Used, Mains, PeerInv, TypeOK
  <2>4. TypeOK'
    BY <2>1, <2>2, <2>3 DEF InitMain, PeerInv, TypeOK, Mains, Phases, work
  <2>5. AtWork' /\ HeldAtFront'
    BY <2>1, <2>2, <2>3 DEF InitMain, PeerInv, TypeOK, AtWork, HeldAtFront, work, Mains
  <2> QED BY <2>4, <2>5 DEF PeerInv
<1>2. CASE FreeSlots = {}
  <2>1. UNCHANGED <<phase, support, alone>>
    BY <1>2 DEF InitMain
  <2>2. TypeOK'
    BY <2>1 DEF InitMain, PeerInv, TypeOK, Used, Mains, work
  <2>3. AtWork' /\ HeldAtFront'
    BY <2>1 DEF InitMain, PeerInv, AtWork, HeldAtFront, work
  <2> QED BY <2>2, <2>3 DEF PeerInv
<1> QED BY <1>1, <1>2

LEMMA StartSupportKeeps ==
  ASSUME NEW i \in Slot, PeerInv, StartSupport(i), PeerAssumption
  PROVE  PeerInv'
<1>1. TypeOK'
  BY DEF StartSupport, PeerInv, TypeOK, Used, Mains, Phases, table, work, ghosts
<1>2. AtWork' /\ HeldAtFront'
  BY DEF StartSupport, PeerInv, TypeOK, AtWork, HeldAtFront, table, work, ghosts
<1> QED BY <1>1, <1>2 DEF PeerInv

LEMMA InitSupportKeeps ==
  ASSUME PeerInv, InitSupport, PeerAssumption
  PROVE  PeerInv'
<1>1. starting' \in Nat
  BY DEF InitSupport, PeerInv, TypeOK
<1>2. CASE FreeSlots # {}
  <2> DEFINE k == First(FreeSlots)
  <2>1. k \in Slot /\ phase[k] = "free"
    BY <1>2, FirstIsOne DEF FreeSlots, Used
  <2> HIDE DEF k
  <2>2. phase' = [phase EXCEPT ![k] = "ready"] /\ support' = support \union {k}
    BY <1>2 DEF InitSupport, Enter, k
  <2>3. Used' = Used \union {k} /\ k \notin Used /\ Mains' = Mains
    BY <2>1, <2>2 DEF Used, Mains, PeerInv, TypeOK
  <2>4. TypeOK'
    BY <1>1, <2>1, <2>2, <2>3 DEF InitSupport, PeerInv, TypeOK, Phases, work, ghosts
  <2>5. AtWork' /\ HeldAtFront'
    BY <2>1, <2>2 DEF InitSupport, PeerInv, TypeOK, AtWork, HeldAtFront, work, ghosts
  <2> QED BY <2>4, <2>5 DEF PeerInv
<1>3. CASE FreeSlots = {}
  <2>1. UNCHANGED <<phase, support>>
    BY <1>3 DEF InitSupport
  <2>2. TypeOK'
    BY <1>1, <2>1 DEF InitSupport, PeerInv, TypeOK, Used, Mains, work, ghosts
  <2>3. AtWork' /\ HeldAtFront'
    BY <2>1 DEF InitSupport, PeerInv, AtWork, HeldAtFront, work, ghosts
  <2> QED BY <2>2, <2>3 DEF PeerInv
<1> QED BY <1>2, <1>3

\* The shares of the hashes that are handed over are deques, and are appended.
LEMMA HandOverAppends ==
  ASSUME NEW i \in Slot, PeerInv, PeerAssumption
  PROVE  /\ HandedOver(i) \in [Slot -> Seq(Hash)]
         /\ \A j \in Slot \ {i} : queue[j] # <<>> =>
              HandedOver(i)[j] # <<>> /\ HandedOver(i)[j][1] = queue[j][1]
<1> DEFINE others  == Supporters \ {i}
           rank(j) == Cardinality({k \in others : k <= j})
           gets(j) == IF others # {}
                      THEN IF j \in others
                           THEN Share(queue[i], Cardinality(others), rank(j))
                           ELSE <<>>
                      ELSE IF Mains # {} /\ j = Final(Mains) THEN queue[i] ELSE <<>>
<1>1. queue \in [Slot -> Seq(Hash)]
  BY DEF PeerInv, TypeOK
<1>2. IsFiniteSet(others) /\ others \subseteq Slot
  <2>1. IsFiniteSet(Slot)
    BY FS_Interval DEF Slot, PeerAssumption
  <2> QED BY <2>1, FS_Subset DEF Supporters, Used
<1>3. ASSUME NEW j \in others
      PROVE  /\ Cardinality(others) \in Nat \ {0}
             /\ rank(j) \in 1 .. Cardinality(others)
  <2> DEFINE upTo == {k \in others : k <= j}
  <2>1. IsFiniteSet(upTo) /\ Cardinality(upTo) <= Cardinality(others)
    BY <1>2, FS_Subset
  <2>2. j \in upTo
    BY <1>2, <1>3 DEF Slot
  <2> HIDE DEF upTo
  <2>3. Cardinality(upTo) \in Nat \ {0} /\ Cardinality(others) \in Nat
    BY <1>2, <2>1, <2>2, FS_CardinalityType, FS_EmptySet
  <2> QED BY <2>1, <2>3 DEF upTo
<1>4. ASSUME NEW j \in Slot PROVE gets(j) \in Seq(Hash)
  <2>1. CASE j \in others
    <3> HIDE DEF others, rank
    <3> QED BY <1>1, <1>3, <2>1, ShareIsDeque
  <2>2. CASE j \notin others
    BY <1>1, <2>2
  <2> QED BY <2>1, <2>2
<1>5. HandedOver(i) = [j \in Slot |-> IF j = i THEN <<>> ELSE queue[j] \o gets(j)]
  BY DEF HandedOver
<1> HIDE DEF gets
<1>6. ASSUME NEW j \in Slot
      PROVE  /\ queue[j] \o gets(j) \in Seq(Hash)
             /\ queue[j] # <<>> => /\ queue[j] \o gets(j) # <<>>
                                   /\ (queue[j] \o gets(j))[1] = queue[j][1]
  BY <1>1, <1>4
<1> QED BY <1>5, <1>6

LEMMA TermKeeps ==
  ASSUME NEW i \in Slot, PeerInv, Term(i), PeerAssumption
  PROVE  PeerInv'
<1>1. /\ queue' \in [Slot -> Seq(Hash)]
      /\ \A j \in Slot \ {i} : queue[j] # <<>> => queue'[j] # <<>> /\ queue'[j][1] = queue[j][1]
  <2>1. CASE i \in support
    BY <2>1, HandOverAppends DEF Term
  <2>2. CASE i \notin support
    BY <2>2 DEF Term, PeerInv, TypeOK
  <2> QED BY <2>1, <2>2
<1>2. Used' = Used \ {i} /\ Mains' = Mains \ {i}
  BY DEF Term, Used, Mains, PeerInv, TypeOK
<1>3. i \notin fetching \union alone
  BY DEF Term, PeerInv, TypeOK, AtWork, Mains
<1>4. TypeOK'
  BY <1>1, <1>2, <1>3 DEF Term, PeerInv, TypeOK, Phases, ghosts, server
<1>5. AtWork'
  BY <1>3 DEF Term, PeerInv, TypeOK, AtWork, Mains, Used, ghosts
<1>6. HeldAtFront'
  BY <1>1 DEF Term, PeerInv, TypeOK, HeldAtFront
<1> QED BY <1>4, <1>5, <1>6 DEF PeerInv

\* A hash is found: it is the front of the session's deque then, and the fronts
\* of the other deques are as they were.
LEMMA TopFoundKeeps ==
  ASSUME NEW i \in Slot, PeerInv, phase[i] \in {"ready", "again"}, HasTop(i), TopFound(i),
         PeerAssumption
  PROVE  PeerInv'
<1>1. queue \in [Slot -> Seq(Hash)] /\ hash \in [Slot -> Hash \union {NoHash}]
  BY DEF PeerInv, TypeOK
<1>2. /\ queue' \in [Slot -> Seq(Hash)] /\ queue'[i] # <<>>
      /\ \A j \in Slot \ {i} : queue[j] # <<>> => queue'[j] # <<>> /\ queue'[j][1] = queue[j][1]
  <2>1. CASE queue[i] # <<>>
    BY <1>1, <2>1 DEF TopFound
  <2>2. CASE queue[i] = <<>>
    <3> DEFINE j == Fullest(Sources(i))
    <3>1. j \in Slot \ {i} /\ Len(queue[j]) > 1
      <4>1. Sources(i) \subseteq Slot \ {i} /\ Sources(i) # {}
        BY <2>2 DEF HasTop, Sources, Others, Supporters, Used
      <4>2. j \in Sources(i)
        BY <4>1, <1>1, FullestIsOne
      <4> QED BY <4>1, <4>2 DEF Sources
    <3>2. queue' = Taken(i, j)
      BY <2>2 DEF TopFound
    <3> HIDE DEF j
    <3> DEFINE q == queue[j]
               n == NumToTake(q)
    <3>3. q \in Seq(Hash)
      BY <1>1, <3>1
    <3>4. n \in Nat /\ n >= 1 /\ n < Len(q)
      BY <3>1, <3>3, TakesSome
    <3>5. queue' = [queue EXCEPT ![i] = SubSeq(q, 2, n + 1),
                                 ![j] = <<q[1]>> \o SubSeq(q, n + 2, Len(q))]
      BY <3>2 DEF Taken
    <3> HIDE DEF q, n
    <3>6. /\ SubSeq(q, 2, n + 1) \in Seq(Hash) /\ SubSeq(q, 2, n + 1) # <<>>
          /\ <<q[1]>> \o SubSeq(q, n + 2, Len(q)) \in Seq(Hash)
          /\ <<q[1]>> \o SubSeq(q, n + 2, Len(q)) # <<>>
          /\ (<<q[1]>> \o SubSeq(q, n + 2, Len(q)))[1] = q[1]
      BY <3>3, <3>4, TakingFromBehind
    <3>7. q[1] = queue[j][1]
      BY DEF q
    <3> HIDE DEF q
    <3> DEFINE taken == SubSeq(q, 2, n + 1)
               left  == <<q[1]>> \o SubSeq(q, n + 2, Len(q))
    <3>8. /\ queue' = [queue EXCEPT ![i] = taken, ![j] = left]
          /\ taken \in Seq(Hash) /\ taken # <<>> /\ left \in Seq(Hash) /\ left # <<>>
          /\ left[1] = queue[j][1]
      BY <3>5, <3>6, <3>7
    <3> HIDE DEF taken, left
    <3> QED BY <1>1, <3>1, <3>8
  <2> QED BY <2>1, <2>2
<1>3. Head(queue'[i]) \in Hash /\ Head(queue'[i]) = queue'[i][1]
  BY <1>2
<1>4. phase' = [phase EXCEPT ![i] = "next"] /\ hash' = [hash EXCEPT ![i] = queue'[i][1]]
  BY <1>3 DEF TopFound
<1>5. Used' = Used /\ Mains' = Mains
  BY <1>4 DEF TopFound, Used, Mains, PeerInv, TypeOK
<1>6. TypeOK'
  BY <1>1, <1>2, <1>3, <1>4, <1>5 DEF TopFound, PeerInv, TypeOK, Phases, ghosts, server
<1>7. AtWork'
  BY <1>4 DEF TopFound, PeerInv, TypeOK, AtWork, ghosts
<1>8. HeldAtFront'
  BY <1>1, <1>2, <1>4 DEF TopFound, PeerInv, TypeOK, HeldAtFront
<1> QED BY <1>6, <1>7, <1>8 DEF PeerInv

LEMMA TopZenithKeeps ==
  ASSUME NEW i \in Slot, PeerInv, TopZenith(i), PeerAssumption
  PROVE  PeerInv'
<1>1. TypeOK'
  BY DEF TopZenith, PeerInv, TypeOK, Used, Mains, Phases, work, ghosts, server
<1>2. AtWork' /\ HeldAtFront'
  BY DEF TopZenith, PeerInv, TypeOK, AtWork, HeldAtFront, work, ghosts, server
<1> QED BY <1>1, <1>2 DEF PeerInv

LEMMA NewBlockKeeps ==
  ASSUME NEW i \in Slot, PeerInv, NewBlock(i), PeerAssumption
  PROVE  PeerInv'
<1>1. CASE Root \in files
  <2>1. Used' = Used /\ Mains' = Mains
    BY <1>1 DEF NewBlock, Used, Mains, PeerInv, TypeOK
  <2>2. Items[Root] \subseteq Hash
    BY DEF Hash, PeerAssumption
  <2>3. /\ todo' = [todo EXCEPT ![i] = Items[Root]]
        /\ phase' = [phase EXCEPT ![i] = "resuming"]
        /\ fetching' = fetching \union {i} /\ i \in Mains
        /\ UNCHANGED <<queue, support, captured, condemned, hash, ignored, files,
                       zenith, ghosts, server>>
    BY <1>1 DEF NewBlock
  <2>4. /\ todo' \in [Slot -> SUBSET Hash] /\ phase' \in [Slot -> Phases]
        /\ phase'[i] = "resuming" /\ \A j \in Slot \ {i} : phase'[j] = phase[j]
    BY <2>2, <2>3 DEF PeerInv, TypeOK, Phases
  <2>5. TypeOK'
    BY <2>1, <2>3, <2>4 DEF PeerInv, TypeOK, ghosts, server
  <2>6. AtWork'
    BY <2>3, <2>4 DEF PeerInv, AtWork, ghosts
  <2>7. HeldAtFront'
    BY <2>3, <2>4 DEF PeerInv, HeldAtFront
  <2> QED BY <2>5, <2>6, <2>7 DEF PeerInv
<1>2. CASE Root \notin files
  <2>1. queue' = [queue EXCEPT ![i] = Append(@, Root)] /\ UNCHANGED <<todo, phase>>
    BY <1>2 DEF NewBlock
  <2>2. Root \in Hash
    BY DEF PeerAssumption, Hash
  <2>3. TypeOK'
    BY <2>1, <2>2 DEF NewBlock, PeerInv, TypeOK, Used, Mains, ghosts, server
  <2>4. AtWork' /\ HeldAtFront'
    BY <2>1 DEF NewBlock, PeerInv, TypeOK, AtWork, HeldAtFront, ghosts
  <2> QED BY <2>3, <2>4 DEF PeerInv
<1> QED BY <1>1, <1>2

LEMMA SkipKeeps ==
  ASSUME NEW i \in Slot, PeerInv, Skip(i), PeerAssumption
  PROVE  PeerInv'
<1>1. /\ queue' \in [Slot -> Seq(Hash)]
      /\ \A j \in Slot \ {i} : queue'[j] = queue[j]
  BY PopKeepsOthers DEF Skip, PeerInv, TypeOK, HeldAtFront
<1>2. Used' = Used /\ Mains' = Mains
  BY DEF Skip, Used, Mains, PeerInv, TypeOK
<1>3. TypeOK'
  BY <1>1, <1>2 DEF Skip, PeerInv, TypeOK, Phases, ghosts, server
<1>4. AtWork'
  BY DEF Skip, PeerInv, TypeOK, AtWork, ghosts
<1>5. HeldAtFront'
  BY <1>1 DEF Skip, PeerInv, TypeOK, HeldAtFront
<1> QED BY <1>3, <1>4, <1>5 DEF PeerInv

LEMMA SkipDoneKeeps ==
  ASSUME NEW i \in Slot, PeerInv, SkipDone(i), PeerAssumption
  PROVE  PeerInv'
<1>1. TypeOK'
  BY DEF SkipDone, PeerInv, TypeOK, Used, Mains, Phases, work, ghosts, server
<1>2. AtWork' /\ HeldAtFront'
  BY DEF SkipDone, PeerInv, TypeOK, AtWork, HeldAtFront, work, ghosts, server
<1> QED BY <1>1, <1>2 DEF PeerInv

LEMMA GotListKeeps ==
  ASSUME NEW i \in Slot, PeerInv, GotList(i), PeerAssumption
  PROVE  PeerInv'
<1>1. TypeOK'
  BY DEF GotList, PeerInv, TypeOK, Used, Mains, Phases, ghosts, server, Hash, PeerAssumption
<1>2. AtWork' /\ HeldAtFront'
  BY DEF GotList, PeerInv, TypeOK, AtWork, HeldAtFront, ghosts, server, Hash, PeerAssumption
<1> QED BY <1>1, <1>2 DEF PeerInv

LEMMA GotBlobKeeps ==
  ASSUME NEW i \in Slot, PeerInv, GotBlob(i), PeerAssumption
  PROVE  PeerInv'
<1>1. /\ queue' \in [Slot -> Seq(Hash)]
      /\ \A j \in Slot \ {i} : queue'[j] = queue[j]
      /\ i \in support => queue'[i] = queue[i]
  BY PopKeepsOthers DEF GotBlob, PeerInv, TypeOK, HeldAtFront
<1>2. Used' = Used /\ Mains' = Mains
  BY DEF GotBlob, Used, Mains, PeerInv, TypeOK
<1>3. TypeOK'
  BY <1>1, <1>2 DEF GotBlob, PeerInv, TypeOK, Phases, ghosts, server
<1>4. AtWork'
  BY DEF GotBlob, PeerInv, TypeOK, AtWork, ghosts, Hash
<1>5. HeldAtFront'
  BY <1>1 DEF GotBlob, PeerInv, TypeOK, HeldAtFront
<1> QED BY <1>3, <1>4, <1>5 DEF PeerInv

LEMMA GetFailsKeeps ==
  ASSUME NEW i \in Slot, PeerInv, GetFails(i), PeerAssumption
  PROVE  PeerInv'
<1>1. Used' = Used /\ Mains' = Mains /\ i \in Used
  BY DEF GetFails, Ends, Used, Mains, PeerInv, TypeOK
<1>2. TypeOK'
  BY <1>1 DEF GetFails, Ends, PeerInv, TypeOK, Phases, server
<1>3. AtWork' /\ HeldAtFront'
  BY DEF GetFails, Ends, PeerInv, TypeOK, AtWork, HeldAtFront, server
<1> QED BY <1>2, <1>3 DEF PeerInv

LEMMA AddItemKeeps ==
  ASSUME NEW i \in Slot, PeerInv, AddItem(i), PeerAssumption
  PROVE  PeerInv'
<1>1. PICK h \in todo[i] :
        /\ todo' = [todo EXCEPT ![i] = (@ \ {h}) \union
                      (IF h \in files \ ignored[i] THEN Items[h] ELSE {})]
        /\ IF h \in files \union ignored[i]
             THEN UNCHANGED <<queue, ignored>>
             ELSE /\ queue' = [queue EXCEPT ![Receiver(i, h)] = Append(@, h)]
                  /\ ignored' = [ignored EXCEPT ![i] = @ \union {h}]
  BY DEF AddItem
<1>2. h \in Hash
  BY DEF PeerInv, TypeOK
<1>3. todo' \in [Slot -> SUBSET Hash] /\ ignored' \in [Slot -> SUBSET Hash]
  <2>1. Items[h] \subseteq Hash
    BY <1>2 DEF PeerAssumption
  <2>2. todo \in [Slot -> SUBSET Hash] /\ ignored \in [Slot -> SUBSET Hash]
    BY DEF PeerInv, TypeOK
  <2>3. todo' \in [Slot -> SUBSET Hash]
    <3> DEFINE more == IF h \in files \ ignored[i] THEN Items[h] ELSE {}
    <3>1. more \subseteq Hash /\ todo' = [todo EXCEPT ![i] = (@ \ {h}) \union more]
      BY <1>1, <2>1
    <3> HIDE DEF more
    <3> QED BY <2>2, <3>1
  <2>4. ignored' = ignored \/ ignored' = [ignored EXCEPT ![i] = @ \union {h}]
    BY <1>1
  <2>5. ignored' \in [Slot -> SUBSET Hash]
    BY <1>2, <2>2, <2>4
  <2> QED BY <2>3, <2>5
<1>4. /\ queue' \in [Slot -> Seq(Hash)]
      /\ \A j \in Slot : queue[j] # <<>> => queue'[j] # <<>> /\ queue'[j][1] = queue[j][1]
  <2> DEFINE k == Receiver(i, h)
  <2>1. queue \in [Slot -> Seq(Hash)]
    BY DEF PeerInv, TypeOK
  <2>2. queue' = queue \/ queue' = [queue EXCEPT ![k] = Append(@, h)]
    BY <1>1
  <2> HIDE DEF k
  <2>3. CASE queue' = queue
    BY <2>1, <2>3
  <2>4. CASE queue' = [queue EXCEPT ![k] = Append(@, h)]
    <3>1. \A q \in Seq(Hash) : /\ Append(q, h) \in Seq(Hash)
                               /\ q # <<>> => Append(q, h) # <<>> /\ Append(q, h)[1] = q[1]
      BY <1>2
    <3> QED BY <2>1, <2>4, <3>1
  <2> QED BY <2>2, <2>3, <2>4
<1>5. UNCHANGED <<table, hash, fetching, files, zenith, ghosts, server>>
  BY DEF AddItem
<1>6. TypeOK'
  BY <1>3, <1>4, <1>5 DEF PeerInv, TypeOK, Used, Mains, table, ghosts, server
<1>7. AtWork'
  BY <1>5 DEF PeerInv, AtWork, table, ghosts
<1>8. HeldAtFront'
  BY <1>4, <1>5 DEF PeerInv, HeldAtFront, table
<1> QED BY <1>6, <1>7, <1>8 DEF PeerInv

LEMMA ListFailsKeeps ==
  ASSUME NEW i \in Slot, PeerInv, ListFails(i), PeerAssumption
  PROVE  PeerInv'
<1>1. Used' = Used /\ Mains' = Mains /\ i \in Used
  BY DEF ListFails, Ends, Used, Mains, PeerInv, TypeOK
<1>2. TypeOK'
  BY <1>1 DEF ListFails, Ends, PeerInv, TypeOK, Phases, server
<1>3. AtWork' /\ HeldAtFront'
  BY DEF ListFails, Ends, PeerInv, TypeOK, AtWork, HeldAtFront, server
<1> QED BY <1>2, <1>3 DEF PeerInv

LEMMA ListDoneKeeps ==
  ASSUME NEW i \in Slot, PeerInv, ListDone(i), PeerAssumption
  PROVE  PeerInv'
<1>1. /\ queue' \in [Slot -> Seq(Hash)]
      /\ \A j \in Slot \ {i} : queue'[j] = queue[j]
  BY PopKeepsOthers DEF ListDone, PeerInv, TypeOK, HeldAtFront
<1>2. Used' = Used /\ Mains' = Mains
  BY DEF ListDone, Used, Mains, PeerInv, TypeOK
<1>3. TypeOK'
  BY <1>1, <1>2 DEF ListDone, PeerInv, TypeOK, Phases, ghosts, server
<1>4. AtWork'
  BY DEF ListDone, PeerInv, TypeOK, AtWork, ghosts
<1>5. HeldAtFront'
  BY <1>1 DEF ListDone, PeerInv, TypeOK, HeldAtFront
<1> QED BY <1>3, <1>4, <1>5 DEF PeerInv

LEMMA ProcessKeeps ==
  ASSUME NEW i \in Slot, PeerInv, Process(i), PeerAssumption
  PROVE  PeerInv'
<1>1. /\ queue' \in [Slot -> Seq(Hash)]
      /\ \A j \in Slot \ {i} : queue'[j] = queue[j]
  BY PopKeepsOthers DEF Process, PeerInv, TypeOK, HeldAtFront, PopAtEnd
<1>2. Used' = Used /\ Mains' = Mains
  BY DEF Process, Used, Mains, PeerInv, TypeOK
<1>3. TypeOK'
  <2>1. files' \subseteq Hash
    BY DEF Process, PeerInv, TypeOK, AtWork
  <2> QED BY <1>1, <1>2, <2>1 DEF Process, PeerInv, TypeOK, Phases, ghosts, server
<1>4. AtWork'
  BY DEF Process, PeerInv, TypeOK, AtWork, ghosts
<1>5. HeldAtFront'
  BY <1>1 DEF Process, PeerInv, TypeOK, HeldAtFront
<1> QED BY <1>3, <1>4, <1>5 DEF PeerInv

LEMMA ProcessFailsKeeps ==
  ASSUME NEW i \in Slot, PeerInv, ProcessFails(i), PeerAssumption
  PROVE  PeerInv'
<1>1. /\ queue' \in [Slot -> Seq(Hash)]
      /\ \A j \in Slot \ {i} : queue'[j] = queue[j]
  BY PopKeepsOthers DEF ProcessFails, PeerInv, TypeOK, HeldAtFront, PopAtEnd
<1>2. Used' = Used /\ Mains' = Mains
  BY DEF ProcessFails, Used, Mains, PeerInv, TypeOK, Ends
<1>3. TypeOK'
  <2>1. lost' \subseteq Hash /\ i \notin fetching' \union alone'
    BY DEF ProcessFails, PeerInv, TypeOK, AtWork, Ends
  <2> QED BY <1>1, <1>2, <2>1 DEF ProcessFails, PeerInv, TypeOK, Phases, server, Ends
<1>4. AtWork'
  BY DEF ProcessFails, PeerInv, TypeOK, AtWork, ghosts, Ends
<1>5. HeldAtFront'
  BY <1>1 DEF ProcessFails, PeerInv, TypeOK, HeldAtFront, Ends
<1> QED BY <1>3, <1>4, <1>5 DEF PeerInv

LEMMA SetZenithKeeps ==
  ASSUME NEW i \in Slot, PeerInv, SetZenith(i), PeerAssumption
  PROVE  PeerInv'
<1>1. Used' = Used /\ Mains' = Mains /\ i \in Used
  BY DEF SetZenith, Ends, Used, Mains, PeerInv, TypeOK
<1>2. /\ phase' \in [Slot -> Phases] /\ hash' \in [Slot -> Hash \union {NoHash}]
      /\ todo' \in [Slot -> SUBSET Hash] /\ ignored' \in [Slot -> SUBSET Hash]
      /\ fetching' = fetching \ {i} /\ alone' \subseteq alone /\ zenith' \in BOOLEAN
      /\ \A j \in Slot \ {i} : phase'[j] = phase[j] /\ hash'[j] = hash[j]
      /\ \/ phase'[i] = "ready"
         \/ phase'[i] = "ended" /\ i \notin alone'
      /\ UNCHANGED <<support, captured, condemned, queue, files, lost, server>>
  BY DEF SetZenith, Ends, PeerInv, TypeOK, Phases
<1> HIDE DEF SetZenith
<1>3. TypeOK'
  BY <1>1, <1>2 DEF PeerInv, TypeOK, server
<1>4. AtWork'
  <2>1. fetching \subseteq Slot /\ alone \subseteq Slot
    BY DEF PeerInv, TypeOK, Mains, Used
  <2> QED BY <1>2, <2>1 DEF PeerInv, AtWork
<1>5. HeldAtFront'
  BY <1>2 DEF PeerInv, HeldAtFront
<1> QED BY <1>3, <1>4, <1>5 DEF PeerInv

LEMMA EndAtByeKeeps ==
  ASSUME NEW i \in Slot, PeerInv, EndAtBye(i), events' \in Nat
  PROVE  PeerInv'
<1>1. Used' = Used /\ Mains' = Mains /\ i \in Used
  BY DEF EndAtBye, Ends, Used, Mains, PeerInv, TypeOK
<1>2. TypeOK'
  BY <1>1 DEF EndAtBye, Ends, PeerInv, TypeOK, Phases
<1>3. AtWork' /\ HeldAtFront'
  BY DEF EndAtBye, Ends, PeerInv, TypeOK, AtWork, HeldAtFront
<1> QED BY <1>2, <1>3 DEF PeerInv

LEMMA ByeKeeps ==
  ASSUME NEW i \in Slot, PeerInv, Bye(i)
  PROVE  PeerInv'
<1>1. events' \in Nat /\ EndAtBye(i)
  BY DEF Bye, PeerInv, TypeOK
<1> QED BY <1>1, EndAtByeKeeps

LEMMA SelfCondemnKeeps ==
  ASSUME NEW i \in Slot, PeerInv, SelfCondemn(i), PeerAssumption
  PROVE  PeerInv'
<1>1. TypeOK'
  BY DEF SelfCondemn, PeerInv, TypeOK, Used, Mains, Phases, work, ghosts, server
<1>2. AtWork' /\ HeldAtFront'
  BY DEF SelfCondemn, PeerInv, TypeOK, AtWork, HeldAtFront, work, ghosts, server
<1> QED BY <1>1, <1>2 DEF PeerInv

LEMMA TerminateKeeps ==
  ASSUME NEW i \in Slot, PeerInv, Terminate(i), PeerAssumption
  PROVE  PeerInv'
<1>1. TypeOK'
  BY DEF Terminate, PeerInv, TypeOK, Used, Mains, Phases, work, ghosts, server, CondemnsMatching
<1>2. AtWork' /\ HeldAtFront'
  BY DEF Terminate, PeerInv, TypeOK, AtWork, HeldAtFront, work, ghosts, server, CondemnsMatching
<1> QED BY <1>1, <1>2 DEF PeerInv

LEMMA WaitOverKeeps ==
  ASSUME NEW i \in Slot, PeerInv, WaitOver(i), PeerAssumption
  PROVE  PeerInv'
<1>1. TypeOK'
  BY DEF WaitOver, PeerInv, TypeOK, Used, Mains, Phases, work, ghosts, server
<1>2. AtWork' /\ HeldAtFront'
  BY DEF WaitOver, PeerInv, TypeOK, AtWork, HeldAtFront, work, ghosts, server
<1> QED BY <1>1, <1>2 DEF PeerInv

LEMMA KillKeeps ==
  ASSUME NEW i \in Slot, PeerInv, Kill(i), PeerAssumption
  PROVE  PeerInv'
<1>1. TypeOK'
  BY DEF Kill, PeerInv, TypeOK, Used, Mains, Phases, work, ghosts
<1>2. AtWork' /\ HeldAtFront'
  BY DEF Kill, PeerInv, TypeOK, AtWork, HeldAtFront, work, ghosts
<1> QED BY <1>1, <1>2 DEF PeerInv

LEMMA ShutdownKeeps ==
  ASSUME PeerInv, Shutdown, PeerAssumption
  PROVE  PeerInv'
<1>1. TypeOK'
  BY DEF Shutdown, PeerInv, TypeOK, Used, Mains, Phases, table, work, ghosts
<1>2. AtWork' /\ HeldAtFront'
  BY DEF Shutdown, PeerInv, TypeOK, AtWork, HeldAtFront, table, work, ghosts
<1> QED BY <1>1, <1>2 DEF PeerInv

-----------------------------------------------------------------------------
(* The first theorems.                                                     *)

LEMMA InitEstablishes ==
  ASSUME Init, PeerAssumption
  PROVE  PeerInv
<1>1. TypeOK
  <2>1. /\ phase \in [Slot -> Phases] /\ Used = {} /\ Mains = {}
    BY DEF Init, Phases, Used, Mains
  <2>2. /\ queue \in [Slot -> Seq(Hash)] /\ hash \in [Slot -> Hash \union {NoHash}]
        /\ todo \in [Slot -> SUBSET Hash] /\ ignored \in [Slot -> SUBSET Hash]
    BY DEF Init
  <2> QED BY <2>1, <2>2 DEF Init, TypeOK
<1>2. AtWork /\ HeldAtFront
  BY DEF Init, AtWork, HeldAtFront
<1> QED BY <1>1, <1>2 DEF PeerInv

LEMMA StepKeeps ==
  ASSUME NEW i \in Slot, PeerInv, Step(i), PeerAssumption
  PROVE  PeerInv'
<1>1. CASE Top(i) \/ SkipAgain(i)
  BY <1>1, TopFoundKeeps DEF Top, SkipAgain
<1>2. CASE TopZenith(i) \/ NewBlock(i) \/ Skip(i) \/ SkipDone(i)
  BY <1>2, TopZenithKeeps, NewBlockKeeps, SkipKeeps, SkipDoneKeeps
<1>3. CASE GotList(i) \/ GotBlob(i) \/ GetFails(i)
  BY <1>3, GotListKeeps, GotBlobKeeps, GetFailsKeeps
<1>4. CASE AddItem(i) \/ ListFails(i) \/ ListDone(i)
  BY <1>4, AddItemKeeps, ListFailsKeeps, ListDoneKeeps
<1>5. CASE Process(i) \/ ProcessFails(i) \/ SetZenith(i)
  BY <1>5, ProcessKeeps, ProcessFailsKeeps, SetZenithKeeps
<1>6. CASE PeerLeaves(i) \/ Leave(i)
  <2>1. EndAtBye(i) /\ UNCHANGED events
    BY <1>6 DEF PeerLeaves, Leave
  <2> QED BY <2>1, EndAtByeKeeps DEF PeerInv, TypeOK
<1>7. CASE SelfCondemn(i) \/ Terminate(i) \/ WaitOver(i) \/ Term(i)
  BY <1>7, SelfCondemnKeeps, TerminateKeeps, WaitOverKeeps, TermKeeps
<1> QED BY <1>1, <1>2, <1>3, <1>4, <1>5, <1>6, <1>7 DEF Step

LEMMA NextKeeps ==
  ASSUME PeerInv, [Next]_vars, PeerAssumption
  PROVE  PeerInv'
<1>1. CASE Environment
  <2>1. CASE InitMain \/ Shutdown
    BY <2>1, InitMainKeeps, ShutdownKeeps
  <2>2. CASE \E i \in Slot : StartSupport(i) \/ Bye(i) \/ Kill(i)
    BY <2>2, StartSupportKeeps, ByeKeeps, KillKeeps
  <2> QED BY <1>1, <2>1, <2>2 DEF Environment
<1>2. CASE InitSupport
  BY <1>2, InitSupportKeeps
<1>3. CASE \E i \in Slot : Step(i)
  BY <1>3, StepKeeps
<1>4. CASE UNCHANGED vars
  BY <1>4 DEF vars, table, work, ghosts, server, PeerInv, TypeOK, AtWork, HeldAtFront,
     Used, Mains
<1> QED BY <1>1, <1>2, <1>3, <1>4 DEF Next, Quiescent

LEMMA Invariant == Spec => []PeerInv
<1>1. Init => PeerInv
  BY InitEstablishes, PeerAssumption
<1>2. PeerInv /\ [Next]_vars => PeerInv'
  BY NextKeeps, PeerAssumption
<1> QED BY <1>1, <1>2, PTL DEF Spec

\* Type correctness, in which no slot is marked that holds no session: a session
\* that takes a slot over starts afresh (init_session and term_session,
\* ciyam_base.cpp:8345).
THEOREM SessionsTyped == Spec => []TypeOK
<1>1. PeerInv => TypeOK
  BY DEF PeerInv
<1> QED BY <1>1, Invariant, PTL

\* The hash that a session works on stays at the front of its deque, however
\* many sessions take from it, append to it or end meanwhile, so that
\* pop_next_peer_file_hash_to_get removes that hash (ciyam_base.cpp:9701).
THEOREM FrontHeld == Spec => []HeldAtFront
<1>1. PeerInv => HeldAtFront
  BY DEF PeerInv
<1> QED BY <1>1, Invariant, PTL

-----------------------------------------------------------------------------
(* What the lists that have been gone through reach.                       *)

\* A path of n steps from the root, each of which stays or goes from a file
\* that has been gone through to an item of it.
Path(by, n) ==
  {s \in [0 .. n -> Hash] :
     /\ s[0] = Root
     /\ \A k \in 0 .. n - 1 : \/ s[k + 1] = s[k]
                              \/ s[k] \in by /\ s[k + 1] \in Items[s[k]]}

Arrivals(by, n) == {s[n] : s \in Path(by, n)}

LEMMA PathGrows ==
  ASSUME NEW by, NEW n \in Nat, PeerAssumption
  PROVE  Arrivals(by, n + 1) =
           Arrivals(by, n) \union UNION {Items[h] : h \in Arrivals(by, n) \intersect by}
<1> DEFINE before == Arrivals(by, n)
<1>1. ASSUME NEW x \in Arrivals(by, n + 1)
      PROVE  \/ x \in before
             \/ \E h \in before \intersect by : x \in Items[h]
  <2>1. PICK s \in Path(by, n + 1) : x = s[n + 1]
    BY <1>1 DEF Arrivals
  <2> DEFINE t == [k \in 0 .. n |-> s[k]]
  <2>2. t \in Path(by, n) /\ t[n] = s[n]
    BY <2>1 DEF Path
  <2>3. s[n] \in before
    BY <2>2 DEF Arrivals
  <2>4. \/ s[n + 1] = s[n]
        \/ s[n] \in by /\ s[n + 1] \in Items[s[n]]
    BY <2>1 DEF Path
  <2> HIDE DEF before
  <2> QED BY <2>1, <2>3, <2>4
<1>2. ASSUME NEW h \in before, NEW x \in Hash,
             (x = h) \/ (h \in by /\ x \in Items[h])
      PROVE  x \in Arrivals(by, n + 1)
  <2>1. PICK s \in Path(by, n) : h = s[n]
    BY <1>2 DEF Arrivals
  <2> DEFINE t == [k \in 0 .. n + 1 |-> IF k <= n THEN s[k] ELSE x]
  <2>2. t \in [0 .. n + 1 -> Hash] /\ t[0] = Root /\ t[n + 1] = x
    BY <1>2, <2>1 DEF Path
  <2>3. ASSUME NEW k \in 0 .. n
        PROVE  \/ t[k + 1] = t[k]
               \/ t[k] \in by /\ t[k + 1] \in Items[t[k]]
    <3>1. CASE k = n
      BY <1>2, <2>1, <3>1
    <3>2. CASE k < n
      BY <2>1, <3>2 DEF Path
    <3> QED BY <3>1, <3>2
  <2> HIDE DEF t
  <2>4. t \in Path(by, n + 1)
    BY <2>2, <2>3 DEF Path
  <2> QED BY <2>2, <2>4 DEF Arrivals
<1>3. \A h \in before : h \in Hash
  BY DEF Arrivals, Path
<1>4. \A h \in Hash : \A x \in Items[h] : x \in Hash
  BY DEF PeerAssumption
<1> HIDE DEF before
<1>5. \A x : x \in Arrivals(by, n + 1)
             <=> x \in before \union UNION {Items[h] : h \in before \intersect by}
  BY <1>1, <1>2, <1>3, <1>4
<1> QED BY <1>5, Zenon DEF before

\* What is reached lies in every set that holds the root and, with a file that has
\* been gone through, its items.
LEMMA ReachedWithin ==
  ASSUME NEW by, NEW T, PeerAssumption, Root \in T,
         \A h \in T \intersect by : Items[h] \subseteq T
  PROVE  Reached(by) \subseteq T
<1> DEFINE G(g) == [n \in Nat |-> IF n = 0 THEN {Root}
                     ELSE g[n - 1] \union UNION {Items[h] : h \in g[n - 1] \intersect by}]
           e == [n \in Nat |-> Arrivals(by, n)]
           grow == CHOOSE g : g = G(g)
<1>1. e = G(e)
  <2>1. Arrivals(by, 0) = {Root}
    <3>1. Root \in Hash
      BY DEF PeerAssumption, Hash
    <3>2. ASSUME NEW x \in Arrivals(by, 0) PROVE x = Root
      BY <3>2 DEF Arrivals, Path
    <3>3. [k \in 0 .. 0 |-> Root] \in Path(by, 0)
      BY <3>1 DEF Path
    <3>4. Root \in Arrivals(by, 0)
      BY <3>3 DEF Arrivals
    <3> QED BY <3>2, <3>4
  <2>2. ASSUME NEW n \in Nat \ {0}
        PROVE  e[n] = e[n - 1] \union UNION {Items[h] : h \in e[n - 1] \intersect by}
    BY PathGrows, n - 1 \in Nat, (n - 1) + 1 = n
  <2> QED BY <2>1, <2>2
<1>2. grow = G(grow)
  <2> HIDE DEF G, e
  <2> QED BY <1>1
<1>3. Reached(by) = grow[Cardinality(Lists)]
  BY DEF Reached
<1> HIDE DEF grow
<1>4. \A n \in Nat : grow[n] = IF n = 0 THEN {Root} ELSE
        grow[n - 1] \union UNION {Items[h] : h \in grow[n - 1] \intersect by}
  BY <1>2
<1> DEFINE Bad == {n \in Nat : ~(grow[n] \subseteq T)}
<1>5. Bad = {}
  <2> SUFFICES ASSUME Bad # {} PROVE FALSE
    OBVIOUS
  <2>1. PICK n \in Bad : \A k \in Bad : n <= k
    <3>1. Bad \in SUBSET Nat
      OBVIOUS
    <3> HIDE DEF Bad
    <3> QED BY <3>1, LeastExists
  <2>2. n \in Nat /\ ~(grow[n] \subseteq T)
    OBVIOUS
  <2>3. n # 0
    BY <1>4, <2>2
  <2>4. n - 1 \in Nat /\ n - 1 \notin Bad
    <3> HIDE DEF Bad
    <3> QED BY <2>1, <2>2, <2>3
  <2>5. grow[n - 1] \subseteq T
    BY <2>4
  <2>6. grow[n] = grow[n - 1] \union UNION {Items[h] : h \in grow[n - 1] \intersect by}
    BY <1>4, <2>2, <2>3
  <2>7. grow[n] \subseteq T
    BY <2>5, <2>6
  <2> QED BY <2>2, <2>7
<1>6. Cardinality(Lists) \in Nat
  BY FS_CardinalityType DEF PeerAssumption
<1> QED BY <1>3, <1>5, <1>6

-----------------------------------------------------------------------------
(* What is in a deque.                                                     *)

Of(q) == {q[n] : n \in DOMAIN q}

LEMMA OfJoined ==
  ASSUME NEW S, NEW q \in Seq(S), NEW r \in Seq(S)
  PROVE  Of(q \o r) = Of(q) \union Of(r)
<1>1. ASSUME NEW n \in DOMAIN q PROVE q[n] \in Of(q \o r)
  <2>1. n \in DOMAIN (q \o r) /\ (q \o r)[n] = q[n]
    OBVIOUS
  <2> QED BY <2>1 DEF Of
<1>2. ASSUME NEW n \in DOMAIN r PROVE r[n] \in Of(q \o r)
  <2>1. Len(q) + n \in DOMAIN (q \o r) /\ (q \o r)[Len(q) + n] = r[n]
    OBVIOUS
  <2> QED BY <2>1 DEF Of
<1>3. ASSUME NEW n \in DOMAIN (q \o r) PROVE (q \o r)[n] \in Of(q) \union Of(r)
  <2>1. CASE n <= Len(q)
    <3>1. n \in DOMAIN q /\ (q \o r)[n] = q[n]
      BY <2>1
    <3> QED BY <3>1 DEF Of
  <2>2. CASE n > Len(q)
    <3>1. n - Len(q) \in DOMAIN r /\ (q \o r)[n] = r[n - Len(q)]
      BY <2>2
    <3> QED BY <3>1 DEF Of
  <2> QED BY <2>1, <2>2
<1>4. \A x : x \in Of(q \o r) <=> x \in Of(q) \union Of(r)
  BY <1>1, <1>2, <1>3, Zenon DEF Of
<1> QED BY <1>4, Zenon

LEMMA OfAppended ==
  ASSUME NEW S, NEW q \in Seq(S), NEW h \in S
  PROVE  Of(Append(q, h)) = Of(q) \union {h}
<1>1. <<h>> \in Seq(S) /\ Append(q, h) = q \o <<h>>
  OBVIOUS
<1>2. Of(<<h>>) = {h}
  BY DEF Of
<1>3. Of(q \o <<h>>) = Of(q) \union Of(<<h>>)
  BY <1>1, OfJoined
<1> QED BY <1>1, <1>2, <1>3

LEMMA OfTail ==
  ASSUME NEW S, NEW q \in Seq(S), q # <<>>
  PROVE  Of(q) = {q[1]} \union Of(Tail(q))
<1>1. <<q[1]>> \in Seq(S) /\ Tail(q) \in Seq(S) /\ q = <<q[1]>> \o Tail(q)
  OBVIOUS
<1>2. Of(<<q[1]>>) = {q[1]}
  BY DEF Of
<1>3. Of(<<q[1]>> \o Tail(q)) = Of(<<q[1]>>) \union Of(Tail(q))
  BY <1>1, OfJoined
<1> QED BY <1>1, <1>2, <1>3

LEMMA OfTaken ==
  ASSUME NEW S, NEW q \in Seq(S), NEW n \in Nat, n >= 1, n < Len(q)
  PROVE  Of(q) =
           Of(SubSeq(q, 2, n + 1)) \union Of(<<q[1]>> \o SubSeq(q, n + 2, Len(q)))
<1> DEFINE a == SubSeq(q, 2, n + 1)
           b == <<q[1]>> \o SubSeq(q, n + 2, Len(q))
<1>1. ASSUME NEW p \in DOMAIN q
      PROVE  \/ \E k \in DOMAIN a : a[k] = q[p]
             \/ \E k \in DOMAIN b : b[k] = q[p]
  <2>1. CASE p = 1
    <3>1. 1 \in DOMAIN b /\ b[1] = q[p]
      BY <2>1
    <3> HIDE DEF a, b
    <3> QED BY <3>1
  <2>2. CASE p \in 2 .. n + 1
    <3>1. p - 1 \in DOMAIN a /\ a[p - 1] = q[p]
      BY <2>2
    <3> HIDE DEF a, b
    <3> QED BY <3>1
  <2>3. CASE p > n + 1
    <3>1. p - n \in DOMAIN b /\ b[p - n] = q[p]
      BY <2>3
    <3> HIDE DEF a, b
    <3> QED BY <3>1
  <2> HIDE DEF a, b
  <2>4. p \in Nat /\ p >= 1
    OBVIOUS
  <2> QED BY <2>1, <2>2, <2>3, <2>4
<1>2. ASSUME NEW k \in DOMAIN a PROVE \E p \in DOMAIN q : q[p] = a[k]
  <2>1. k + 1 \in DOMAIN q /\ q[k + 1] = a[k]
    OBVIOUS
  <2> HIDE DEF a
  <2> QED BY <2>1
<1>3. ASSUME NEW k \in DOMAIN b PROVE \E p \in DOMAIN q : q[p] = b[k]
  <2>1. CASE k = 1
    <3>1. 1 \in DOMAIN q /\ q[1] = b[k]
      BY <2>1
    <3> HIDE DEF b
    <3> QED BY <3>1
  <2>2. CASE k > 1
    <3>1. k \in Nat /\ k - 1 \in 1 .. Len(q) - n - 1
      BY <2>2
    <3>2. b[k] = SubSeq(q, n + 2, Len(q))[k - 1]
      BY <2>2
    <3>3. SubSeq(q, n + 2, Len(q))[k - 1] = q[k - 1 + n + 2 - 1]
      BY <3>1
    <3>4. k - 1 + n + 2 - 1 = k + n /\ k + n \in 1 .. Len(q)
      BY <3>1
    <3>5. DOMAIN q = 1 .. Len(q)
      OBVIOUS
    <3>6. k + n \in DOMAIN q /\ q[k + n] = b[k]
      <4> HIDE DEF b
      <4> QED BY <3>2, <3>3, <3>4, <3>5, Zenon
    <3> HIDE DEF b
    <3> QED BY <3>6
  <2>3. k \in Nat /\ k >= 1
    OBVIOUS
  <2> HIDE DEF b
  <2> QED BY <2>1, <2>2, <2>3
<1> HIDE DEF a, b
<1>4. Of(q) \subseteq Of(a) \union Of(b)
  BY <1>1 DEF Of
<1>5. Of(a) \union Of(b) \subseteq Of(q)
  BY <1>2, <1>3 DEF Of
<1> QED BY <1>4, <1>5 DEF a, b

\* The k-th share of a deque holds every n-th hash from the k-th on.
LEMMA InShare ==
  ASSUME NEW S, NEW q \in Seq(S), NEW n \in Nat \ {0}, NEW p \in 1 .. Len(q)
  PROVE  \E k \in 1 .. n : q[p] \in Of(Share(q, n, k))
<1> DEFINE d == (p - 1) \div n
           k == ((p - 1) % n) + 1
<1>1. d \in Nat /\ k \in 1 .. n /\ p - 1 = d * n + (k - 1)
  OBVIOUS
<1> HIDE DEF d, k
<1> DEFINE a == Len(q) + n - k
<1>2. a \in Nat
  BY <1>1
<1>3. (d + 1) * n = d * n + n /\ d * n \in Nat
  BY <1>1
<1>4. (d + 1) * n <= a
  BY <1>1, <1>3
<1>5. d + 1 <= a \div n /\ a \div n \in Nat
  <2> HIDE DEF a
  <2> DEFINE m == a \div n
             r == a % n
  <2>1. m \in Nat /\ r \in 0 .. n - 1 /\ a = m * n + r
    BY <1>2
  <2> HIDE DEF m, r
  <2>2. CASE m < d + 1
    <3>1. m + 1 <= d + 1
      BY <1>1, <2>1, <2>2
    <3>2. (m + 1) * n <= (d + 1) * n
      BY <1>1, <2>1, <3>1
    <3>3. (m + 1) * n = m * n + n /\ m * n \in Nat
      BY <2>1
    <3> QED BY <1>2, <1>3, <1>4, <2>1, <3>2, <3>3
  <2> QED BY <1>1, <2>1, <2>2 DEF m
<1> DEFINE s == Share(q, n, k)
<1>6. s = [x \in 1 .. (a \div n) |-> q[(x - 1) * n + k]]
  BY DEF Share
<1>7. d + 1 \in 1 .. (a \div n)
  BY <1>1, <1>5
<1> DEFINE m == a \div n
           y == d + 1
<1>8. s = [x \in 1 .. m |-> q[(x - 1) * n + k]] /\ y \in 1 .. m
  BY <1>6, <1>7
<1>9. (y - 1) * n + k = p
  <2>1. y - 1 = d
    BY <1>1
  <2> HIDE DEF y
  <2> QED BY <1>1, <2>1
<1> HIDE DEF s, m, y
<1>10. s[y] = q[(y - 1) * n + k] /\ y \in DOMAIN s
  <2> HIDE DEF a
  <2> QED BY <1>8, Zenon
<1>11. q[p] \in Of(s)
  BY <1>9, <1>10, Zenon DEF Of
<1> QED BY <1>1, <1>11 DEF s

\* A share holds nothing else than hashes of the deque.
LEMMA OfShare ==
  ASSUME NEW S, NEW q \in Seq(S), NEW n \in Nat \ {0}, NEW k \in 1 .. n
  PROVE  Of(Share(q, n, k)) \subseteq Of(q)
<1> DEFINE a == Len(q) + n - k
           m == a \div n
<1>1. a \in Nat
  OBVIOUS
<1>2. m \in Nat
  <2> HIDE DEF a
  <2> QED BY <1>1, Quotient
<1>3. ASSUME NEW p \in 1 .. m PROVE (p - 1) * n + k \in DOMAIN q
  <2>1. p * n <= a
    <3> HIDE DEF a
    <3>1. p \in Int /\ p <= a \div n
      BY <1>2, <1>3
    <3> QED BY <3>1, <1>1, UpToQuotient
  <2> HIDE DEF m
  <2>2. (p - 1) * n = p * n - n /\ p * n \in Int /\ (p - 1) * n >= 0
    BY <1>2
  <2> QED BY <2>1, <2>2
<1> HIDE DEF m
<1>4. Share(q, n, k) = [p \in 1 .. m |-> q[(p - 1) * n + k]]
  BY DEF m, Share
<1> QED BY <1>3, <1>4, Zenon DEF Of

\* The first k of some slots are those up to one of them.
LEMMA RankReaches ==
  ASSUME NEW A \in SUBSET Slot, NEW k \in 1 .. Cardinality(A), PeerAssumption
  PROVE  \E j \in A : Cardinality({x \in A : x <= j}) = k
<1> DEFINE upTo == [j \in Nat |-> {x \in A : x <= j}]
           n == [j \in Nat |-> Cardinality(upTo[j])]
           Enough == {j \in Nat : n[j] >= k}
<1>1. IsFiniteSet(A) /\ \A x \in A : x \in Nat /\ 1 <= x /\ x <= MaxSessions
  <2>1. IsFiniteSet(Slot) /\ \A x \in Slot : x \in Nat /\ 1 <= x /\ x <= MaxSessions
    BY FS_Interval DEF Slot, PeerAssumption
  <2>2. IsFiniteSet(A)
    BY <2>1, FS_Subset
  <2> QED BY <2>1, <2>2
<1>2. \A j \in Nat : IsFiniteSet(upTo[j]) /\ n[j] \in Nat
  <2>1. \A j \in Nat : upTo[j] \subseteq A
    OBVIOUS
  <2> HIDE DEF upTo
  <2> QED BY <1>1, <2>1, FS_Subset, FS_CardinalityType
<1>3. Cardinality(A) \in Nat /\ k \in Nat /\ k >= 1 /\ k <= Cardinality(A)
  BY <1>1, FS_CardinalityType
<1>4. Enough # {}
  <2>1. MaxSessions \in Nat
    BY DEF PeerAssumption
  <2>2. upTo[MaxSessions] = A
    BY <1>1, <2>1
  <2>3. n[MaxSessions] = Cardinality(A)
    BY <2>1, <2>2
  <2>4. n[MaxSessions] >= k
    BY <1>3, <2>3
  <2> QED BY <2>1, <2>4
<1>5. PICK j \in Enough : \A i \in Enough : j <= i
  <2>1. Enough \in SUBSET Nat
    OBVIOUS
  <2> HIDE DEF Enough
  <2> QED BY <1>4, <2>1, LeastExists
<1>6. j \in Nat /\ n[j] >= k
  OBVIOUS
<1>7. j # 0
  <2>1. upTo[0] = {}
    BY <1>1
  <2>2. n[0] = 0
    BY <2>1, FS_EmptySet
  <2> HIDE DEF n, Enough
  <2> QED BY <1>3, <1>6, <2>2
<1>8. j - 1 \in Nat /\ n[j - 1] < k
  <2>1. j - 1 \in Nat /\ j - 1 \notin Enough
    <3> HIDE DEF Enough
    <3> QED BY <1>5, <1>6, <1>7
  <2>2. ~(n[j - 1] >= k)
    BY <2>1
  <2> HIDE DEF n, Enough
  <2>3. n[j - 1] \in Nat
    BY <1>2, <2>1
  <2> QED BY <1>3, <2>1, <2>2, <2>3
<1>9. j \in A
  <2> SUFFICES ASSUME j \notin A PROVE FALSE
    OBVIOUS
  <2>1. upTo[j] = upTo[j - 1]
    BY <1>1, <1>6, <1>8
  <2>2. n[j] = n[j - 1]
    BY <1>6, <1>8, <2>1
  <2> HIDE DEF n, Enough
  <2>3. n[j - 1] \in Nat
    BY <1>2, <1>8
  <2> QED BY <1>3, <1>6, <1>8, <2>2, <2>3
<1>10. n[j] = n[j - 1] + 1
  <2>1. \A x \in A : x <= j <=> x <= j - 1 \/ x = j
    BY <1>1, <1>6
  <2>2. upTo[j] = {x \in A : x <= j} /\ upTo[j - 1] = {x \in A : x <= j - 1}
    BY <1>6, <1>8
  <2>3. j \notin upTo[j - 1]
    BY <1>6, <2>2
  <2>4. upTo[j] = upTo[j - 1] \union {j}
    <3> HIDE DEF upTo
    <3> QED BY <1>9, <2>1, <2>2
  <2> HIDE DEF upTo, Enough
  <2> QED BY <1>2, <1>6, <1>8, <2>3, <2>4, FS_AddElement
<1>11. n[j] = k
  <2> HIDE DEF n, Enough
  <2>1. n[j - 1] \in Nat
    BY <1>2, <1>8
  <2> QED BY <1>3, <1>6, <1>8, <1>10, <2>1
<1> QED BY <1>6, <1>9, <1>11

-----------------------------------------------------------------------------
(* The invariant behind the search.                                        *)

Gone == {"ended", "waiting", "leaving"}

\* A main session that was alone when it came is the only one while it stays alone.
OneMain == \A m \in alone : \A i \in Mains : i = m

\* What a session has in hand in each phase; a session that fetches no block
\* goes through no list and ignores no item.
Paced ==
  /\ \A i \in Slot : phase[i] = "free" => Of(queue[i]) = {}
  /\ \A i \in Slot : phase[i] \notin {"listing", "resuming"} => todo[i] = {}
  /\ \A i \in Slot : phase[i] = "working" => hash[i] \in Blobs
  /\ \A i \in Slot : phase[i] = "listing" => hash[i] \in files
  /\ \A i \in Slot \ fetching :
       ignored[i] = {} /\ phase[i] \notin {"listing", "resuming", "zenith"}

\* Only a main session that fetches a block, or one that has come to its end,
\* has lists in its deque: support sessions pass on nothing but blobs.
OnlyBlobs ==
  \A i \in Slot :
    (\/ i \notin fetching /\ (i \in support \/ phase[i] \notin Gone)
     \/ phase[i] = "zenith")
     => Of(queue[i]) \subseteq Blobs

\* A session that was alone finds every deque empty before the zenith, and no
\* deque is filled from then on.
AllDone == \A m \in alone : phase[m] = "zenith" => \A i \in Slot : Of(queue[i]) = {}

\* The files that are accounted for.
Known == files \union InQueues \union InWork \union lost

\* T holds the root and, with a list that m has gone through, its items; what is in
\* T is accounted for, or is still to be looked at.
Accounts(m, T) ==
  /\ Root \in T
  /\ T \subseteq Known \union todo[m]
  /\ ignored[m] \subseteq Known
  /\ \A h \in T \intersect (files \ todo[m]) : Items[h] \subseteq T
  /\ \A h \in ignored[m] \intersect files : Items[h] \subseteq T

Accounted == \A m \in fetching \intersect alone : \E T : Accounts(m, T)

SearchInv == OneMain /\ Paced /\ OnlyBlobs /\ AllDone /\ Accounted

LEMMA InKnown ==
  /\ files \subseteq Known /\ lost \subseteq Known
  /\ \A i \in Slot : Of(queue[i]) \subseteq Known
  /\ \A i \in Slot : phase[i] = "working" => hash[i] \in Known
  /\ files' \subseteq Known' /\ lost' \subseteq Known'
  /\ \A i \in Slot : Of(queue'[i]) \subseteq Known'
  /\ \A i \in Slot : phase'[i] = "working" => hash'[i] \in Known'
BY DEF Known, InQueues, InWork, Of

\* What was accounted for still is, when it is so for every deque and every
\* session at work.
LEMMA KnownStays ==
  ASSUME files \subseteq Known', lost \subseteq Known',
         \A i \in Slot : Of(queue[i]) \subseteq Known',
         \A i \in Slot : phase[i] = "working" => hash[i] \in Known'
  PROVE  Known \subseteq Known'
BY DEF Known, InQueues, InWork, Of

\* The search of a session that goes on as before is still accounted for.
LEMMA AccountedStays ==
  ASSUME Accounted, files \subseteq files',
         \A h \in files' \ files : Items[h] = {},
         \A m \in fetching' \intersect alone' :
           /\ m \in fetching \intersect alone
           /\ todo'[m] = todo[m] /\ ignored'[m] = ignored[m]
           /\ Known \subseteq Known'
  PROVE  Accounted'
<1> SUFFICES ASSUME NEW m \in fetching' \intersect alone' PROVE \E T : Accounts(m, T)'
  BY DEF Accounted
<1>1. PICK T : Accounts(m, T)
  BY DEF Accounted
<1>2. todo'[m] = todo[m] /\ ignored'[m] = ignored[m] /\ Known \subseteq Known'
  OBVIOUS
<1>3. Root \in T /\ T \subseteq Known' \union todo'[m] /\ ignored'[m] \subseteq Known'
  BY <1>1, <1>2 DEF Accounts
<1>4. ASSUME NEW h \in T \intersect (files' \ todo'[m]) PROVE Items[h] \subseteq T
  BY <1>1, <1>2 DEF Accounts
<1>5. ASSUME NEW h \in ignored'[m] \intersect files' PROVE Items[h] \subseteq T
  BY <1>1, <1>2 DEF Accounts
<1>6. Accounts(m, T)'
  BY <1>3, <1>4, <1>5 DEF Accounts
<1> QED BY <1>6

LEMMA AloneFacts ==
  ASSUME PeerInv, SearchInv
  PROVE  /\ fetching \subseteq Mains /\ alone \subseteq Mains /\ Mains \subseteq Slot
         /\ \A m \in alone : \A i \in Mains : i = m
         /\ \A i \in Slot : phase[i] \in {"listing", "resuming", "zenith"} => i \in fetching
         /\ \A i \in fetching \union alone : phase[i] \notin Gone /\ phase[i] # "free"
BY DEF PeerInv, TypeOK, AtWork, SearchInv, OneMain, Paced, Mains, Used, Gone

\* A step after which the sessions are where they were, with the same work.
LEMMA UnmovedSearch ==
  ASSUME SearchInv, UNCHANGED <<phase, support, work, fetching, files, lost, alone>>
  PROVE  SearchInv'
<1>1. Known' = Known
  BY DEF work, Known, InQueues, InWork
<1>2. Accounted'
  BY <1>1, AccountedStays DEF SearchInv, work
<1>3. OneMain' /\ Paced' /\ OnlyBlobs' /\ AllDone'
  BY DEF SearchInv, OneMain, Paced, OnlyBlobs, AllDone, Mains, Used, work
<1> QED BY <1>2, <1>3 DEF SearchInv

\* A step in which a session only goes on to another phase, with nothing in hand.
LEMMA PhaseSearch ==
  ASSUME NEW i \in Slot, PeerInv, SearchInv,
         UNCHANGED <<support, work, fetching, files, lost, alone>>,
         \/ phase[i] = "again" /\ phase' = [phase EXCEPT ![i] = "ready"]
         \/ phase[i] = "ended" /\ phase' = [phase EXCEPT ![i] = "waiting"]
         \/ phase[i] = "waiting" /\ phase' = [phase EXCEPT ![i] = "leaving"]
  PROVE  SearchInv'
<1>1. /\ phase'[i] \in {"ready", "waiting", "leaving"} /\ phase[i] \in {"again", "ended", "waiting"}
      /\ \A j \in Slot \ {i} : phase'[j] = phase[j]
      /\ phase[i] \in Gone <=> phase'[i] \in Gone
  BY DEF PeerInv, TypeOK, Gone
<1>2. Mains' = Mains
  BY <1>1 DEF Mains, Used
<1>3. Known \subseteq Known'
  <2>1. \A j \in Slot : phase[j] = "working" => phase'[j] = "working"
    BY <1>1
  <2> QED BY <2>1, InKnown, KnownStays DEF work
<1>4. Accounted'
  BY <1>3, AccountedStays DEF SearchInv, work
<1>5. OneMain'
  BY <1>2 DEF SearchInv, OneMain
<1>6. Paced' /\ OnlyBlobs'
  BY <1>1 DEF SearchInv, Paced, OnlyBlobs, work
<1>7. AllDone'
  BY <1>1, AloneFacts DEF SearchInv, AllDone, work
<1> QED BY <1>4, <1>5, <1>6, <1>7 DEF SearchInv

\* A session ends: nothing but what it was searching for is given up, and then
\* it is a main session, whose search is over.
LEMMA EndsSearch ==
  ASSUME NEW i \in Slot, PeerInv, SearchInv, Ends(i), phase[i] # "free",
         support' = support, files' = files, lost \subseteq lost',
         \A j \in Slot \ {i} : queue'[j] = queue[j],
         Of(queue'[i]) \subseteq Of(queue[i]),
         Of(queue[i]) \subseteq Of(queue'[i]) \union lost',
         phase[i] = "working" => hash[i] \in lost'
  PROVE  SearchInv'
<1>1. /\ phase'[i] = "ended" /\ hash'[i] = NoHash /\ todo'[i] = {} /\ ignored'[i] = {}
      /\ \A j \in Slot \ {i} : /\ phase'[j] = phase[j] /\ hash'[j] = hash[j]
                               /\ todo'[j] = todo[j] /\ ignored'[j] = ignored[j]
      /\ fetching' = fetching \ {i} /\ alone' = alone \ {i}
  BY DEF Ends, PeerInv, TypeOK
<1>2. Mains' = Mains
  BY <1>1 DEF Mains, Used
<1>3. Known \subseteq Known'
  <2>1. files \subseteq Known' /\ lost \subseteq Known'
    BY InKnown
  <2>2. \A j \in Slot : Of(queue[j]) \subseteq Known'
    BY InKnown
  <2>3. \A j \in Slot : phase[j] = "working" => hash[j] \in Known'
    BY <1>1, InKnown
  <2> QED BY <2>1, <2>2, <2>3, KnownStays
<1>4. Accounted'
  <2>1. \A m \in fetching' \intersect alone' :
          /\ m \in fetching \intersect alone
          /\ todo'[m] = todo[m] /\ ignored'[m] = ignored[m]
    BY <1>1, AloneFacts
  <2> QED BY <1>3, <2>1, AccountedStays DEF SearchInv
<1>5. OneMain'
  BY <1>1, <1>2 DEF SearchInv, OneMain
<1>6. Paced'
  BY <1>1 DEF SearchInv, Paced
<1>7. OnlyBlobs'
  BY <1>1, AloneFacts DEF SearchInv, OnlyBlobs, Gone, Mains
<1>8. AllDone'
  BY <1>1, AloneFacts DEF SearchInv, AllDone
<1> QED BY <1>4, <1>5, <1>6, <1>7, <1>8 DEF SearchInv

LEMMA InitMainSearch ==
  ASSUME PeerInv, SearchInv, InitMain, PeerAssumption
  PROVE  SearchInv'
<1>1. CASE FreeSlots # {}
  <2> DEFINE k == First(FreeSlots)
  <2>1. k \in Slot /\ phase[k] = "free"
    BY <1>1, FirstIsOne DEF FreeSlots, Used
  <2> HIDE DEF k
  <2>2. /\ phase' = [phase EXCEPT ![k] = "ready"] /\ support' = support
        /\ alone' = IF Mains = {} THEN alone \union {k} ELSE alone \ Mains
        /\ UNCHANGED <<work, fetching, files, lost>>
    BY <1>1 DEF InitMain, Enter, k
  <2>3. k \notin Used /\ k \notin support /\ Mains' = Mains \union {k}
    BY <2>1, <2>2 DEF Used, Mains, PeerInv, TypeOK
  <2>4. OneMain'
    BY <2>2, <2>3, AloneFacts DEF OneMain
  <2>5. /\ phase'[k] = "ready" /\ \A j \in Slot \ {k} : phase'[j] = phase[j]
    BY <2>1, <2>2 DEF PeerInv, TypeOK
  <2>6. Paced' /\ OnlyBlobs'
    BY <2>1, <2>2, <2>3, <2>5 DEF SearchInv, Paced, OnlyBlobs, work
  <2>7. \A m \in alone' : m = k
    BY <2>2, AloneFacts
  <2>8. AllDone'
    BY <2>5, <2>7 DEF AllDone
  <2>9. Accounted'
    BY <2>2, <2>3, <2>7, AloneFacts DEF Accounted, Mains
  <2> QED BY <2>4, <2>6, <2>8, <2>9 DEF SearchInv
<1>2. CASE FreeSlots = {}
  BY <1>2, UnmovedSearch DEF InitMain
<1> QED BY <1>1, <1>2

LEMMA InitSupportSearch ==
  ASSUME PeerInv, SearchInv, InitSupport, PeerAssumption
  PROVE  SearchInv'
<1>1. CASE FreeSlots # {}
  <2> DEFINE k == First(FreeSlots)
  <2>1. k \in Slot /\ phase[k] = "free"
    BY <1>1, FirstIsOne DEF FreeSlots, Used
  <2> HIDE DEF k
  <2>2. /\ phase' = [phase EXCEPT ![k] = "ready"] /\ support' = support \union {k}
        /\ UNCHANGED <<work, fetching, files, lost, alone>>
    BY <1>1 DEF InitSupport, Enter, k, ghosts
  <2>3. Mains' = Mains
    BY <2>1, <2>2 DEF Used, Mains, PeerInv, TypeOK
  <2>4. OneMain'
    BY <2>2, <2>3 DEF SearchInv, OneMain
  <2>5. /\ phase'[k] = "ready" /\ \A j \in Slot \ {k} : phase'[j] = phase[j]
    BY <2>1, <2>2 DEF PeerInv, TypeOK
  <2>6. Paced' /\ OnlyBlobs'
    BY <2>1, <2>2, <2>5 DEF SearchInv, Paced, OnlyBlobs, work
  <2>7. AllDone'
    BY <2>2, <2>5, AloneFacts DEF SearchInv, AllDone, work
  <2>8. Known \subseteq Known'
    <3>1. \A j \in Slot : phase[j] = "working" => phase'[j] = "working"
      BY <2>1, <2>5
    <3> QED BY <2>2, <3>1, InKnown, KnownStays DEF work
  <2>9. Accounted'
    BY <2>2, <2>8, AccountedStays DEF SearchInv, work
  <2> QED BY <2>4, <2>6, <2>7, <2>9 DEF SearchInv
<1>2. CASE FreeSlots = {}
  BY <1>2, UnmovedSearch DEF InitSupport, ghosts
<1> QED BY <1>1, <1>2

\* A support session that ends hands over every hash that it had, and no other:
\* to the other supporters, or else to the main session.
LEMMA AllHandedOver ==
  ASSUME NEW i \in support, PeerInv, PeerAssumption
  PROVE  /\ Of(HandedOver(i)[i]) = {}
         /\ \A j \in Slot \ {i} :
              /\ Of(queue[j]) \subseteq Of(HandedOver(i)[j])
              /\ Of(HandedOver(i)[j]) \subseteq Of(queue[j]) \union Of(queue[i])
              /\ j \notin Used => Of(HandedOver(i)[j]) = Of(queue[j])
         /\ Mains # {} => \A h \in Of(queue[i]) :
              \E j \in Slot : h \in Of(HandedOver(i)[j])
<1> DEFINE others  == Supporters \ {i}
           n       == Cardinality(others)
           rank(j) == Cardinality({k \in others : k <= j})
           gets(j) == IF others # {}
                      THEN IF j \in others THEN Share(queue[i], n, rank(j)) ELSE <<>>
                      ELSE IF Mains # {} /\ j = Final(Mains) THEN queue[i] ELSE <<>>
<1>1. queue \in [Slot -> Seq(Hash)] /\ Mains \in SUBSET Slot /\ i \in Slot /\ i \notin Mains
  BY DEF PeerInv, TypeOK, Mains, Used
<1>2. IsFiniteSet(others) /\ others \in SUBSET Slot /\ n \in Nat
  <2>1. IsFiniteSet(Slot)
    BY FS_Interval DEF Slot, PeerAssumption
  <2>2. others \in SUBSET Slot
    BY DEF Supporters, Used
  <2> HIDE DEF others
  <2> QED BY <2>1, <2>2, FS_Subset, FS_CardinalityType
<1>3. ASSUME NEW j \in others PROVE n \in Nat \ {0} /\ rank(j) \in 1 .. n
  <2> DEFINE upTo == {k \in others : k <= j}
  <2>1. IsFiniteSet(upTo) /\ Cardinality(upTo) <= n
    <3>1. upTo \subseteq others
      OBVIOUS
    <3> HIDE DEF others, upTo
    <3> QED BY <1>2, <3>1, FS_Subset
  <2>2. j \in upTo
    BY <1>2, <1>3 DEF Slot
  <2> HIDE DEF upTo
  <2>3. Cardinality(upTo) \in Nat \ {0} /\ n \in Nat
    BY <1>2, <2>1, <2>2, FS_CardinalityType, FS_EmptySet
  <2> QED BY <2>1, <2>3 DEF upTo
<1>4. Mains # {} => Final(Mains) \in Mains /\ Final(Mains) \in Slot \ {i}
  BY <1>1, FinalIsOne, PeerAssumption
<1>5. ASSUME NEW j \in Slot \ {i}
      PROVE  /\ gets(j) \in Seq(Hash) /\ Of(gets(j)) \subseteq Of(queue[i])
             /\ j \notin Used => Of(gets(j)) = {}
  <2>1. CASE j \in others
    <3> DEFINE r == rank(j)
    <3>1. gets(j) = Share(queue[i], n, r) /\ j \in Used
      BY <2>1 DEF Supporters
    <3>2. n \in Nat \ {0} /\ r \in 1 .. n /\ queue[i] \in Seq(Hash)
      BY <1>1, <1>3, <2>1
    <3> HIDE DEF n, r, others
    <3>3. Share(queue[i], n, r) \in Seq(Hash) /\ Of(Share(queue[i], n, r)) \subseteq Of(queue[i])
      BY <3>2, ShareIsDeque, OfShare
    <3> HIDE DEF gets
    <3> QED BY <3>1, <3>3
  <2>2. CASE j \notin others
    <3>1. gets(j) = <<>> \/ (gets(j) = queue[i] /\ j \in Used)
      BY <1>4, <2>2 DEF Mains
    <3>2. Of(<<>>) = {}
      BY DEF Of
    <3>3. <<>> \in Seq(Hash) /\ queue[i] \in Seq(Hash)
      BY <1>1
    <3> HIDE DEF gets, others
    <3>4. CASE gets(j) = <<>>
      BY <3>2, <3>3, <3>4, Zenon
    <3>5. CASE gets(j) = queue[i] /\ j \in Used
      BY <3>3, <3>5, Zenon
    <3> QED BY <3>1, <3>4, <3>5, Zenon
  <2> QED BY <2>1, <2>2
<1>6. HandedOver(i) = [j \in Slot |-> IF j = i THEN <<>> ELSE queue[j] \o gets(j)]
  BY DEF HandedOver
<1>7. Mains # {} => \A h \in Of(queue[i]) : \E j \in Slot \ {i} : h \in Of(gets(j))
  <2> SUFFICES ASSUME Mains # {}, NEW h \in Of(queue[i])
               PROVE  \E j \in Slot \ {i} : h \in Of(gets(j))
    OBVIOUS
  <2>1. CASE others # {}
    <3>1. PICK p \in 1 .. Len(queue[i]) : h = queue[i][p]
      BY <1>1 DEF Of
    <3>2. n \in Nat \ {0}
      BY <1>3, <2>1
    <3>3. PICK k \in 1 .. n : h \in Of(Share(queue[i], n, k))
      <4> HIDE DEF n
      <4> QED BY <1>1, <3>1, <3>2, InShare
    <3>4. PICK j \in others : rank(j) = k
      <4> HIDE DEF others
      <4>1. k \in 1 .. Cardinality(others) /\ others \in SUBSET Slot
        BY <1>2, <3>3
      <4> HIDE DEF n, rank, gets
      <4>2. \E j \in others : Cardinality({x \in others : x <= j}) = k
        BY <4>1, RankReaches
      <4> QED BY <4>2, Zenon DEF rank
    <3>5. gets(j) = Share(queue[i], n, k) /\ j \in Slot \ {i}
      BY <1>2, <2>1, <3>4
    <3> HIDE DEF gets
    <3> QED BY <3>3, <3>5
  <2>2. CASE others = {}
    <3>1. Final(Mains) \in Slot \ {i}
      BY <1>4
    <3> QED BY <2>2, <3>1
  <2> QED BY <2>1, <2>2
<1> HIDE DEF gets, others
<1>8. \A j \in Slot \ {i} :
        /\ HandedOver(i)[j] = queue[j] \o gets(j)
        /\ Of(queue[j] \o gets(j)) = Of(queue[j]) \union Of(gets(j))
  BY <1>1, <1>5, <1>6, OfJoined
<1>9. HandedOver(i)[i] = <<>>
  BY <1>1, <1>6
<1>10. Of(<<>>) = {}
  BY DEF Of
<1> QED BY <1>5, <1>7, <1>8, <1>9, <1>10

LEMMA TermSearch ==
  ASSUME NEW i \in Slot, PeerInv, SearchInv, Term(i), PeerAssumption
  PROVE  SearchInv'
<1>1. /\ i \notin fetching \union alone /\ phase[i] \in Gone
      /\ phase'[i] = "free" /\ \A j \in Slot \ {i} : phase'[j] = phase[j]
      /\ support' = support \ {i} /\ Used' = Used \ {i} /\ Mains' = Mains \ {i} /\ i \in Used
      /\ UNCHANGED <<hash, todo, ignored, fetching, files, lost, alone>>
  BY AloneFacts DEF Term, PeerInv, TypeOK, Used, Mains, Gone, ghosts
<1>2. /\ Of(queue'[i]) = {}
      /\ \A j \in Slot \ {i} : j \notin Used => Of(queue'[j]) = {}
  <2>1. \A j \in Slot : j \notin Used => Of(queue[j]) = {}
    BY DEF SearchInv, Paced, Used
  <2>2. CASE i \in support
    BY <2>1, <2>2, AllHandedOver DEF Term
  <2>3. CASE i \notin support
    <3>1. Of(<<>>) = {}
      BY DEF Of
    <3>2. queue' = [queue EXCEPT ![i] = <<>>] /\ queue \in [Slot -> Seq(Hash)]
      BY <2>3 DEF Term, PeerInv, TypeOK
    <3> QED BY <2>1, <3>1, <3>2
  <2> QED BY <2>2, <2>3
<1>3. \A j \in Slot \ {i} :
        Of(queue'[j]) \subseteq Of(queue[j]) \union IF i \in support THEN Of(queue[i]) ELSE {}
  <2>1. CASE i \in support
    BY <2>1, AllHandedOver DEF Term
  <2>2. CASE i \notin support
    BY <2>2 DEF Term, PeerInv, TypeOK
  <2> QED BY <2>1, <2>2
<1>4. i \in support => Of(queue[i]) \subseteq Blobs
  BY <1>1 DEF SearchInv, OnlyBlobs
<1>5. OneMain'
  BY <1>1 DEF SearchInv, OneMain
<1>6. Paced'
  <2>1. \A j \in Slot : phase'[j] = "free" => Of(queue'[j]) = {}
    BY <1>1, <1>2 DEF Used
  <2>2. todo[i] = {}
    BY <1>1 DEF SearchInv, Paced, Gone
  <2> QED BY <1>1, <2>1, <2>2 DEF SearchInv, Paced
<1>7. OnlyBlobs'
  <2>1. ASSUME NEW j \in Slot \ {i},
               (\/ j \notin fetching /\ (j \in support \/ phase[j] \notin Gone)
                \/ phase[j] = "zenith")
        PROVE  Of(queue'[j]) \subseteq Blobs
    BY <1>3, <1>4, <2>1 DEF SearchInv, OnlyBlobs
  <2> QED BY <1>1, <1>2, <2>1 DEF OnlyBlobs
<1>8. AllDone'
  BY <1>1, <1>2, <1>3, AloneFacts DEF SearchInv, AllDone
<1>9. ASSUME NEW m \in fetching' \intersect alone' PROVE Known \subseteq Known'
  <2>1. m \in Mains /\ \A j \in Mains : j = m
    BY <1>1, AloneFacts
  <2>2. i \in support
    BY <1>1, <2>1 DEF Mains
  <2>3. /\ \A j \in Slot \ {i} : Of(queue[j]) \subseteq Of(queue'[j])
        /\ \A h \in Of(queue[i]) : \E j \in Slot : h \in Of(queue'[j])
    BY <2>1, <2>2, AllHandedOver DEF Term
  <2>4. \A j \in Slot : Of(queue[j]) \subseteq Known'
    BY <2>3, InKnown
  <2>5. \A j \in Slot : phase[j] = "working" => hash[j] \in Known'
    <3>1. \A j \in Slot : phase[j] = "working" => phase'[j] = "working" /\ hash'[j] = hash[j]
      BY <1>1 DEF Gone
    <3> QED BY <3>1, InKnown
  <2>6. files \subseteq Known' /\ lost \subseteq Known'
    BY <1>1, InKnown
  <2> QED BY <2>4, <2>5, <2>6, KnownStays
<1>10. Accounted'
  BY <1>1, <1>9, AccountedStays DEF SearchInv
<1> QED BY <1>5, <1>6, <1>7, <1>8, <1>10 DEF SearchInv

\* A hash that is found was in the session's own deque, or in that of a supporter,
\* where what is not taken stays.
LEMMA TopFoundSearch ==
  ASSUME NEW i \in Slot, PeerInv, SearchInv, PeerInv', phase[i] \in {"ready", "again"}, HasTop(i),
         TopFound(i), PeerAssumption
  PROVE  SearchInv'
<1>1. /\ phase'[i] = "next" /\ \A j \in Slot \ {i} : phase'[j] = phase[j]
      /\ \A j \in Slot \ {i} : hash'[j] = hash[j]
      /\ Mains' = Mains
      /\ UNCHANGED <<support, todo, ignored, fetching, files, lost, alone>>
  BY DEF TopFound, PeerInv, TypeOK, Mains, Used, ghosts
<1>2. \/ queue' = queue
      \/ \E j \in Supporters \ {i} :
           /\ Of(queue[i]) = {} /\ Of(queue[j]) # {}
           /\ Of(queue[j]) = Of(queue'[i]) \union Of(queue'[j])
           /\ \A k \in Slot \ {i, j} : queue'[k] = queue[k]
  <2>1. CASE queue[i] # <<>>
    BY <2>1 DEF TopFound
  <2>2. CASE queue[i] = <<>>
    <3> DEFINE j == Fullest(Sources(i))
    <3>1. queue \in [Slot -> Seq(Hash)]
      BY DEF PeerInv, TypeOK
    <3>2. j \in Supporters \ {i} /\ j \in Slot \ {i} /\ Len(queue[j]) > 1
      <4>1. Sources(i) \subseteq Slot \ {i} /\ Sources(i) # {}
        BY <2>2 DEF HasTop, Sources, Others, Supporters, Used
      <4>2. j \in Sources(i)
        BY <3>1, <4>1, FullestIsOne
      <4> QED BY <4>1, <4>2 DEF Sources, Others
    <3>3. queue' = Taken(i, j)
      BY <2>2 DEF TopFound
    <3> HIDE DEF j
    <3> DEFINE q == queue[j]
               n == NumToTake(q)
               taken == SubSeq(q, 2, n + 1)
               left  == <<q[1]>> \o SubSeq(q, n + 2, Len(q))
    <3>4. q \in Seq(Hash) /\ Len(q) > 1
      BY <3>1, <3>2
    <3>5. n \in Nat /\ n >= 1 /\ n < Len(q)
      <4> HIDE DEF q
      <4> QED BY <3>4, TakesSome
    <3>6. Of(q) = Of(taken) \union Of(left)
      <4> HIDE DEF q, n
      <4> QED BY <3>4, <3>5, OfTaken
    <3>7. queue' = [queue EXCEPT ![i] = taken, ![j] = left]
      BY <3>3 DEF Taken
    <3> HIDE DEF taken, left
    <3>8. /\ queue'[i] = taken /\ queue'[j] = left
          /\ \A k \in Slot \ {i, j} : queue'[k] = queue[k]
      BY <3>1, <3>2, <3>7
    <3>9. Of(queue[i]) = {}
      BY <2>2 DEF Of
    <3>10. Of(queue[j]) # {}
      <4>1. q[1] \in Of(q)
        BY <3>4 DEF Of
      <4> QED BY <4>1
    <3> QED BY <3>2, <3>6, <3>8, <3>9, <3>10
  <2> QED BY <2>1, <2>2
<1>3. \E j \in Slot : Of(queue[j]) # {}
  <2>1. CASE queue[i] # <<>>
    <3>1. queue[i] \in Seq(Hash)
      BY DEF PeerInv, TypeOK
    <3>2. queue[i][1] \in Of(queue[i])
      BY <2>1, <3>1 DEF Of
    <3> QED BY <3>2
  <2>2. CASE queue[i] = <<>>
    <3>1. PICK j \in Sources(i) : TRUE
      BY <2>2 DEF HasTop
    <3>2. j \in Slot /\ queue[j] \in Seq(Hash) /\ Len(queue[j]) > 1
      BY <3>1 DEF Sources, Others, Supporters, Used, PeerInv, TypeOK
    <3>3. queue[j][1] \in Of(queue[j])
      BY <3>2 DEF Of
    <3> QED BY <3>2, <3>3
  <2> QED BY <2>1, <2>2
<1>4. OneMain'
  BY <1>1 DEF SearchInv, OneMain
<1>5. Paced'
  <2>1. \A j \in Slot : phase'[j] = "free" => Of(queue'[j]) = {}
    BY <1>1, <1>2 DEF SearchInv, Paced, Supporters, Used
  <2>2. todo[i] = {}
    BY DEF SearchInv, Paced
  <2>3. \A j \in Slot : phase'[j] = "working" => hash'[j] \in Blobs
    BY <1>1 DEF SearchInv, Paced
  <2> QED BY <1>1, <2>1, <2>2, <2>3 DEF SearchInv, Paced
<1>6. OnlyBlobs'
  <2>1. ASSUME NEW j \in Supporters PROVE j \notin fetching /\ Of(queue[j]) \subseteq Blobs
    BY <2>1 DEF SearchInv, OnlyBlobs, Supporters, Used, PeerInv, TypeOK, Mains
  <2>2. i \notin fetching => Of(queue[i]) \subseteq Blobs
    BY DEF SearchInv, OnlyBlobs, Gone
  <2>3. CASE queue' = queue
    BY <1>1, <2>2, <2>3 DEF SearchInv, OnlyBlobs, Gone
  <2>4. CASE queue' # queue
    <3>1. PICK j \in Supporters \ {i} :
            /\ Of(queue[j]) = Of(queue'[i]) \union Of(queue'[j])
            /\ \A k \in Slot \ {i, j} : queue'[k] = queue[k]
      BY <1>2, <2>4
    <3>2. Of(queue'[i]) \subseteq Blobs /\ Of(queue'[j]) \subseteq Blobs
      BY <2>1, <3>1
    <3> QED BY <1>1, <3>1, <3>2 DEF SearchInv, OnlyBlobs
  <2> QED BY <2>3, <2>4
<1>7. AllDone'
  BY <1>1, <1>3, AloneFacts DEF SearchInv, AllDone
<1>8. Known \subseteq Known'
  <2>1. \A j \in Slot : Of(queue[j]) \subseteq Known'
    <3>1. \A k \in Slot : \A h \in Of(queue[k]) : \E j \in Slot : h \in Of(queue'[j])
      BY <1>2 DEF Supporters, Used
    <3> QED BY <3>1, InKnown
  <2>2. \A j \in Slot : phase[j] = "working" => hash[j] \in Known'
    <3>1. \A j \in Slot : phase[j] = "working" => phase'[j] = "working" /\ hash'[j] = hash[j]
      BY <1>1
    <3> QED BY <3>1, InKnown
  <2>3. files \subseteq Known' /\ lost \subseteq Known'
    BY <1>1, InKnown
  <2> QED BY <2>1, <2>2, <2>3, KnownStays
<1>9. Accounted'
  BY <1>1, <1>8, AccountedStays DEF SearchInv
<1> QED BY <1>4, <1>5, <1>6, <1>7, <1>9 DEF SearchInv

\* Before the zenith every deque has been found empty.
LEMMA TopZenithSearch ==
  ASSUME NEW i \in Slot, PeerInv, SearchInv, TopZenith(i), PeerAssumption
  PROVE  SearchInv'
<1>1. /\ phase[i] = "ready" /\ i \in fetching /\ i \in Mains
      /\ phase'[i] = "zenith" /\ \A j \in Slot \ {i} : phase'[j] = phase[j]
      /\ Mains' = Mains
      /\ UNCHANGED <<support, work, fetching, files, lost, alone>>
  BY AloneFacts DEF TopZenith, PeerInv, TypeOK, Mains, Used, ghosts
<1>2. Of(<<>>) = {}
  BY DEF Of
<1>3. Of(queue[i]) = {}
  BY <1>2 DEF TopZenith, HasTop
<1>4. i \in alone => \A j \in Slot : Of(queue[j]) = {}
  <2> SUFFICES ASSUME i \in alone, NEW j \in Slot PROVE Of(queue[j]) = {}
    OBVIOUS
  <2>1. CASE j \in Supporters \ {i}
    BY <1>2, <2>1 DEF TopZenith, NoneHas, Others
  <2>2. CASE j \in Mains
    BY <1>3, <2>2, AloneFacts
  <2>3. CASE phase[j] = "free"
    BY <2>3 DEF SearchInv, Paced
  <2> QED BY <1>3, <2>1, <2>2, <2>3 DEF Supporters, Mains, Used
<1>5. OneMain' /\ Paced'
  BY <1>1 DEF SearchInv, OneMain, Paced, work
<1>6. OnlyBlobs'
  BY <1>1, <1>3 DEF SearchInv, OnlyBlobs, work
<1>7. AllDone'
  BY <1>1, <1>4, AloneFacts DEF SearchInv, AllDone, work
<1>8. Known \subseteq Known'
  <2>1. \A j \in Slot : phase[j] = "working" => phase'[j] = "working"
    BY <1>1
  <2> QED BY <1>1, <2>1, InKnown, KnownStays DEF work
<1>9. Accounted'
  BY <1>1, <1>8, AccountedStays DEF SearchInv, work
<1> QED BY <1>5, <1>6, <1>7, <1>9 DEF SearchInv

\* The main session begins with a block: the root is queued, or its items are to
\* be looked at.
LEMMA NewBlockSearch ==
  ASSUME NEW i \in Slot, PeerInv, SearchInv, NewBlock(i), PeerAssumption
  PROVE  SearchInv'
<1>1. /\ phase[i] = "ready" /\ i \in Mains \ fetching /\ fetching' = fetching \union {i}
      /\ UNCHANGED <<support, hash, ignored, files, lost, alone>>
      /\ \A j \in Slot \ {i} : /\ phase'[j] = phase[j] /\ todo'[j] = todo[j]
                               /\ queue'[j] = queue[j]
      /\ phase'[i] \in {"ready", "resuming"}
      /\ IF Root \in files
           THEN todo'[i] = Items[Root] /\ phase'[i] = "resuming" /\ queue' = queue
           ELSE todo'[i] = todo[i] /\ phase'[i] = "ready" /\ Root \in Of(queue'[i])
  <2>1. queue \in [Slot -> Seq(Hash)] /\ Root \in Hash
    BY DEF PeerInv, TypeOK, PeerAssumption, Hash
  <2>2. Root \in Of(Append(queue[i], Root))
    BY <2>1, OfAppended
  <2>3. CASE Root \in files
    BY <2>3 DEF NewBlock, PeerInv, TypeOK, ghosts
  <2>4. CASE Root \notin files
    BY <2>1, <2>2, <2>4 DEF NewBlock, PeerInv, TypeOK, ghosts
  <2> QED BY <2>3, <2>4
<1>2. Mains' = Mains
  BY <1>1 DEF Mains, Used
<1>3. OneMain'
  BY <1>1, <1>2 DEF SearchInv, OneMain
<1>4. Paced'
  BY <1>1 DEF SearchInv, Paced
<1>5. OnlyBlobs'
  BY <1>1 DEF SearchInv, OnlyBlobs, Gone
<1>6. AllDone'
  BY <1>1, AloneFacts DEF SearchInv, AllDone
<1>7. ASSUME NEW m \in fetching' \intersect alone' PROVE \E T : Accounts(m, T)'
  <2>1. m = i /\ ignored'[m] = {} /\ todo[i] = {}
    BY <1>1, AloneFacts DEF SearchInv, Paced
  <2>2. CASE Root \in files
    <3> DEFINE T == {Root} \union Items[Root]
    <3>1. Root \in Known'
      BY <1>1, <2>2, InKnown
    <3>2. Accounts(m, T)'
      BY <1>1, <2>1, <2>2, <3>1 DEF Accounts
    <3> QED BY <3>2
  <2>3. CASE Root \notin files
    <3>1. Root \in Known'
      BY <1>1, <2>3, InKnown
    <3>2. Accounts(m, {Root})'
      BY <1>1, <2>1, <2>3, <3>1 DEF Accounts
    <3> QED BY <3>2
  <2> QED BY <2>2, <2>3
<1>8. Accounted'
  BY <1>7 DEF Accounted
<1> QED BY <1>3, <1>4, <1>5, <1>6, <1>8 DEF SearchInv

\* A session pops the front of its deque.
LEMMA PoppedFront ==
  ASSUME NEW i \in Slot, PeerInv, queue[i] # <<>>, queue[i][1] = hash[i]
  PROVE  /\ \A j \in Slot \ {i} : Popped(i)[j] = queue[j]
         /\ Of(queue[i]) = {hash[i]} \union Of(Popped(i)[i])
<1>1. queue \in [Slot -> Seq(Hash)]
  BY DEF PeerInv, TypeOK
<1>2. Popped(i)[i] = Tail(queue[i]) /\ \A j \in Slot \ {i} : Popped(i)[j] = queue[j]
  BY <1>1 DEF Popped
<1>3. Of(queue[i]) = {queue[i][1]} \union Of(Tail(queue[i]))
  BY <1>1, OfTail
<1> QED BY <1>2, <1>3

\* A session pops the hash it worked on, whose file is there or is worked on, and
\* goes on to another phase.
LEMMA PopSearch ==
  ASSUME NEW i \in Slot, PeerInv, SearchInv,
         phase[i] \in {"next", "listing", "resuming", "working"},
         phase'[i] \in {"ready", "again", "working"},
         \A j \in Slot \ {i} : /\ phase'[j] = phase[j] /\ hash'[j] = hash[j]
                               /\ queue'[j] = queue[j],
         queue'[i] = queue[i] \/ Of(queue[i]) = {hash[i]} \union Of(queue'[i]),
         queue'[i] = queue[i] \/ phase'[i] = "working" \/ hash[i] \in files',
         phase'[i] = "working" => hash'[i] = hash[i] /\ hash[i] \in Blobs,
         phase[i] = "working" => hash[i] \in files',
         todo[i] = {},
         files \subseteq files', \A h \in files' \ files : Items[h] = {},
         UNCHANGED <<support, todo, ignored, fetching, lost, alone>>
  PROVE  SearchInv'
<1>1. /\ Of(queue'[i]) \subseteq Of(queue[i])
      /\ Of(queue[i]) \subseteq Of(queue'[i]) \union {hash[i]}
  OBVIOUS
<1>2. Mains' = Mains
  BY DEF Mains, Used
<1>3. OneMain'
  BY <1>2 DEF SearchInv, OneMain
<1>4. Paced'
  BY DEF SearchInv, Paced
<1>5. OnlyBlobs'
  BY <1>1 DEF SearchInv, OnlyBlobs, Gone
<1>6. AllDone'
  BY <1>1, AloneFacts DEF SearchInv, AllDone
<1>7. Known \subseteq Known'
  <2>1. files \subseteq Known' /\ lost \subseteq Known' /\ files' \subseteq Known'
    BY InKnown
  <2>2. \A j \in Slot : Of(queue'[j]) \subseteq Known'
    BY InKnown
  <2>3. phase'[i] = "working" => hash[i] \in Known'
    BY InKnown
  <2>4. \A j \in Slot : Of(queue[j]) \subseteq Known'
    <3>1. Of(queue[i]) \subseteq Known'
      <4>1. CASE queue'[i] = queue[i]
        BY <2>2, <4>1
      <4>2. CASE queue'[i] # queue[i]
        BY <1>1, <2>1, <2>2, <2>3, <4>2
      <4> QED BY <4>1, <4>2
    <3> QED BY <2>2, <3>1
  <2>5. \A j \in Slot : phase[j] = "working" => hash[j] \in Known'
    <3>1. \A j \in Slot \ {i} : phase[j] = "working" => hash[j] \in Known'
      BY InKnown
    <3> QED BY <2>1, <3>1
  <2> QED BY <2>1, <2>4, <2>5, KnownStays
<1>8. Accounted'
  BY <1>7, AccountedStays DEF SearchInv
<1> QED BY <1>3, <1>4, <1>5, <1>6, <1>8 DEF SearchInv

LEMMA SkipSearch ==
  ASSUME NEW i \in Slot, PeerInv, SearchInv, Skip(i)
  PROVE  SearchInv'
<1>1. queue[i] # <<>> /\ queue[i][1] = hash[i] /\ todo[i] = {}
  BY DEF Skip, PeerInv, HeldAtFront, SearchInv, Paced
<1>2. /\ Of(queue[i]) = {hash[i]} \union Of(queue'[i])
      /\ \A j \in Slot \ {i} : queue'[j] = queue[j]
  BY <1>1, PoppedFront DEF Skip
<1>3. /\ phase[i] = "next" /\ phase'[i] = "again" /\ hash[i] \in files /\ files' = files
      /\ \A j \in Slot \ {i} : phase'[j] = phase[j] /\ hash'[j] = hash[j]
      /\ UNCHANGED <<support, todo, ignored, fetching, lost, alone>>
  BY DEF Skip, PeerInv, TypeOK, ghosts
<1> QED BY <1>1, <1>2, <1>3, PopSearch

LEMMA GotBlobSearch ==
  ASSUME NEW i \in Slot, PeerInv, SearchInv, GotBlob(i)
  PROVE  SearchInv'
<1>1. queue[i] # <<>> /\ queue[i][1] = hash[i] /\ todo[i] = {}
  BY DEF GotBlob, PeerInv, HeldAtFront, SearchInv, Paced
<1>2. /\ queue'[i] = queue[i] \/ Of(queue[i]) = {hash[i]} \union Of(queue'[i])
      /\ \A j \in Slot \ {i} : queue'[j] = queue[j]
  BY <1>1, PoppedFront DEF GotBlob
<1>3. /\ phase[i] = "next" /\ phase'[i] = "working" /\ hash[i] \in Blobs
      /\ hash' = hash /\ files' = files
      /\ \A j \in Slot \ {i} : phase'[j] = phase[j]
      /\ UNCHANGED <<support, todo, ignored, fetching, lost, alone>>
  BY DEF GotBlob, PeerInv, TypeOK, ghosts
<1> QED BY <1>1, <1>2, <1>3, PopSearch

LEMMA ListDoneSearch ==
  ASSUME NEW i \in Slot, PeerInv, SearchInv, ListDone(i)
  PROVE  SearchInv'
<1>1. /\ phase[i] \in {"listing", "resuming"} /\ phase'[i] = "ready" /\ files' = files
      /\ todo[i] = {}
      /\ \A j \in Slot \ {i} : phase'[j] = phase[j] /\ hash'[j] = hash[j]
      /\ UNCHANGED <<support, todo, ignored, fetching, lost, alone>>
  BY DEF ListDone, PeerInv, TypeOK, ghosts
<1>2. phase[i] = "listing" => queue[i] # <<>> /\ queue[i][1] = hash[i] /\ hash[i] \in files
  BY DEF PeerInv, HeldAtFront, SearchInv, Paced
<1>3. /\ queue'[i] = queue[i]
         \/ (Of(queue[i]) = {hash[i]} \union Of(queue'[i]) /\ hash[i] \in files)
      /\ \A j \in Slot \ {i} : queue'[j] = queue[j]
  BY <1>2, PoppedFront DEF ListDone
<1> QED BY <1>1, <1>3, PopSearch

LEMMA ProcessSearch ==
  ASSUME NEW i \in Slot, PeerInv, SearchInv, Process(i), PeerAssumption
  PROVE  SearchInv'
<1>1. /\ phase[i] = "working" /\ phase'[i] = "ready" /\ files' = files \union {hash[i]}
      /\ \A j \in Slot \ {i} : phase'[j] = phase[j] /\ hash'[j] = hash[j]
      /\ UNCHANGED <<support, todo, ignored, fetching, lost, alone>>
  BY DEF Process, PeerInv, TypeOK, ghosts
<1>2. todo[i] = {} /\ Items[hash[i]] = {}
  BY <1>1 DEF SearchInv, Paced, PeerAssumption
<1>3. i \in support => queue[i] # <<>> /\ queue[i][1] = hash[i]
  BY <1>1 DEF PeerInv, HeldAtFront
<1>4. /\ queue'[i] = queue[i] \/ Of(queue[i]) = {hash[i]} \union Of(queue'[i])
      /\ \A j \in Slot \ {i} : queue'[j] = queue[j]
  BY <1>3, PoppedFront DEF Process, PopAtEnd
<1> QED BY <1>1, <1>2, <1>4, PopSearch

LEMMA ProcessFailsSearch ==
  ASSUME NEW i \in Slot, PeerInv, SearchInv, ProcessFails(i)
  PROVE  SearchInv'
<1>1. i \in support => queue[i] # <<>> /\ queue[i][1] = hash[i]
  BY DEF ProcessFails, PeerInv, HeldAtFront
<1>2. /\ queue'[i] = queue[i] \/ Of(queue[i]) = {hash[i]} \union Of(queue'[i])
      /\ \A j \in Slot \ {i} : queue'[j] = queue[j]
  BY <1>1, PoppedFront DEF ProcessFails, PopAtEnd
<1>3. /\ phase[i] = "working" /\ lost' = lost \union {hash[i]} /\ Ends(i)
      /\ support' = support /\ files' = files
  BY DEF ProcessFails
<1> QED BY <1>2, <1>3, EndsSearch

LEMMA FailsSearch ==
  ASSUME NEW i \in Slot, PeerInv, SearchInv, GetFails(i) \/ ListFails(i) \/ EndAtBye(i)
  PROVE  SearchInv'
<1>1. /\ phase[i] \notin {"free", "working"} /\ Ends(i)
      /\ support' = support /\ files' = files /\ queue' = queue /\ lost' = lost
  BY DEF GetFails, ListFails, EndAtBye
<1> QED BY <1>1, EndsSearch

\* A list that has been stored: its items are to be looked at from now on.
LEMMA GotListSearch ==
  ASSUME NEW i \in Slot, PeerInv, SearchInv, GotList(i), PeerAssumption
  PROVE  SearchInv'
<1>1. /\ phase[i] = "next" /\ phase'[i] = "listing"
      /\ hash[i] \in Lists /\ hash[i] \notin files /\ files' = files \union {hash[i]}
      /\ todo'[i] = Items[hash[i]]
      /\ \A j \in Slot \ {i} : phase'[j] = phase[j] /\ todo'[j] = todo[j]
      /\ UNCHANGED <<support, queue, hash, ignored, fetching, lost, alone>>
  BY DEF GotList, PeerInv, TypeOK, ghosts
<1>2. hash[i] \in Of(queue[i])
  <2>1. queue[i] # <<>> /\ queue[i][1] = hash[i] /\ queue[i] \in Seq(Hash)
    BY <1>1 DEF PeerInv, HeldAtFront, TypeOK
  <2> QED BY <2>1 DEF Of
<1>3. i \in fetching /\ i \in Mains
  <2>1. hash[i] \notin Blobs
    BY <1>1 DEF PeerAssumption
  <2>2. i \in fetching
    BY <1>1, <1>2, <2>1 DEF SearchInv, OnlyBlobs, Gone
  <2> QED BY <2>2, AloneFacts
<1>4. Mains' = Mains
  BY <1>1 DEF Mains, Used
<1>5. OneMain'
  BY <1>1, <1>4 DEF SearchInv, OneMain
<1>6. Paced'
  BY <1>1, <1>3 DEF SearchInv, Paced
<1>7. OnlyBlobs'
  BY <1>1, <1>3, AloneFacts DEF SearchInv, OnlyBlobs, Mains
<1>8. AllDone'
  BY <1>1, AloneFacts DEF SearchInv, AllDone
<1>9. Known \subseteq Known'
  <2>1. files \subseteq Known' /\ lost \subseteq Known'
    BY <1>1, InKnown
  <2>2. \A j \in Slot : Of(queue[j]) \subseteq Known'
    BY <1>1, InKnown
  <2>3. \A j \in Slot : phase[j] = "working" => hash[j] \in Known'
    BY <1>1, InKnown
  <2> QED BY <2>1, <2>2, <2>3, KnownStays
<1>10. ASSUME NEW m \in fetching' \intersect alone' PROVE \E T : Accounts(m, T)'
  <2>1. m = i /\ m \in fetching \intersect alone /\ todo[i] = {}
    BY <1>1, <1>3, AloneFacts DEF SearchInv, Paced
  <2>2. PICK T : Accounts(m, T)
    BY <2>1 DEF SearchInv, Accounted
  <2> DEFINE U == T \union Items[hash[i]]
  <2>3. Root \in U /\ U \subseteq Known' \union todo'[m] /\ ignored'[m] \subseteq Known'
    BY <1>1, <1>9, <2>1, <2>2 DEF Accounts
  <2>4. ASSUME NEW h \in U \intersect (files' \ todo'[m]) PROVE Items[h] \subseteq U
    BY <1>1, <2>1, <2>2 DEF Accounts
  <2>5. ASSUME NEW h \in ignored'[m] \intersect files' PROVE Items[h] \subseteq U
    BY <1>1, <2>1, <2>2 DEF Accounts
  <2>6. Accounts(m, U)'
    BY <1>1, <2>3, <2>4, <2>5 DEF Accounts
  <2> QED BY <2>6
<1>11. Accounted'
  BY <1>10 DEF Accounted
<1> QED BY <1>5, <1>6, <1>7, <1>8, <1>11 DEF SearchInv

\* One item of a list: it is stored, and its own items are to be looked at unless it
\* was queued before; or it has been queued; or it is queued now.
LEMMA AddItemSearch ==
  ASSUME NEW i \in Slot, PeerInv, SearchInv, AddItem(i), PeerAssumption
  PROVE  SearchInv'
<1>1. PICK h \in todo[i] :
        /\ todo' = [todo EXCEPT ![i] = (@ \ {h}) \union
                      (IF h \in files \ ignored[i] THEN Items[h] ELSE {})]
        /\ IF h \in files \union ignored[i]
             THEN UNCHANGED <<queue, ignored>>
             ELSE /\ queue' = [queue EXCEPT ![Receiver(i, h)] = Append(@, h)]
                  /\ ignored' = [ignored EXCEPT ![i] = @ \union {h}]
  BY DEF AddItem
<1>2. /\ phase[i] \in {"listing", "resuming"} /\ h \in Hash
      /\ UNCHANGED <<phase, support, hash, fetching, files, lost, alone>>
      /\ queue \in [Slot -> Seq(Hash)]
  BY DEF AddItem, table, ghosts, PeerInv, TypeOK
<1>3. /\ \A j \in Slot \ {i} : todo'[j] = todo[j] /\ ignored'[j] = ignored[j]
      /\ todo'[i] = (todo[i] \ {h}) \union (IF h \in files \ ignored[i] THEN Items[h] ELSE {})
      /\ ignored'[i] = IF h \in files \union ignored[i] THEN ignored[i]
                       ELSE ignored[i] \union {h}
  BY <1>1 DEF PeerInv, TypeOK
<1>4. i \in fetching /\ i \in Mains
  BY <1>2, AloneFacts
<1> DEFINE k == Receiver(i, h)
<1>5. k \in Slot /\ (k = i \/ h \in Blobs)
  <2>1. Supporters # {} => Least(Supporters) \in Slot
    <3>1. Supporters \in SUBSET Slot
      BY DEF Supporters, Used
    <3> QED BY <1>2, <3>1, LeastIsOne
  <2> QED BY <2>1 DEF Receiver
<1>6. \/ h \in files \union ignored[i] /\ queue' = queue
      \/ /\ h \notin files \union ignored[i]
         /\ Of(queue'[k]) = Of(queue[k]) \union {h}
         /\ \A j \in Slot \ {k} : queue'[j] = queue[j]
  <2>1. CASE h \in files \union ignored[i]
    BY <1>1, <2>1
  <2>2. CASE h \notin files \union ignored[i]
    <3>1. queue' = [queue EXCEPT ![k] = Append(@, h)]
      BY <1>1, <2>2
    <3> HIDE DEF k
    <3>2. queue'[k] = Append(queue[k], h) /\ \A j \in Slot \ {k} : queue'[j] = queue[j]
      BY <1>2, <1>5, <3>1
    <3>3. Of(Append(queue[k], h)) = Of(queue[k]) \union {h}
      BY <1>2, <1>5, OfAppended
    <3> QED BY <2>2, <3>2, <3>3
  <2> QED BY <2>1, <2>2
<1> HIDE DEF k
<1>7. Mains' = Mains
  BY <1>2 DEF Mains, Used
<1>8. OneMain'
  BY <1>2, <1>7 DEF SearchInv, OneMain
<1>9. Paced'
  <2>1. k = i \/ k \in Supporters
    <3>1. queue \in [Slot -> Seq(Hash)] /\ Supporters \in SUBSET Slot
      BY <1>2 DEF Supporters, Used
    <3> QED BY <3>1, LeastIsOne, PeerAssumption DEF k, Receiver
  <2>2. \A j \in Slot : phase'[j] = "free" => Of(queue'[j]) = {}
    BY <1>2, <1>6, <2>1 DEF SearchInv, Paced, Supporters, Used
  <2> QED BY <1>2, <1>3, <1>4, <2>2 DEF SearchInv, Paced
<1>10. OnlyBlobs'
  BY <1>2, <1>4, <1>5, <1>6, AloneFacts DEF SearchInv, OnlyBlobs, Mains
<1>11. AllDone'
  BY <1>2, <1>4, AloneFacts DEF AllDone
<1>12. Known \subseteq Known'
  <2>1. files \subseteq Known' /\ lost \subseteq Known'
    BY <1>2, InKnown
  <2>2. \A j \in Slot : Of(queue[j]) \subseteq Known'
    <3>1. \A j \in Slot : Of(queue[j]) \subseteq Of(queue'[j])
      BY <1>5, <1>6
    <3> QED BY <3>1, InKnown
  <2>3. \A j \in Slot : phase[j] = "working" => hash[j] \in Known'
    BY <1>2, InKnown
  <2> QED BY <2>1, <2>2, <2>3, KnownStays
<1>13. h \notin files \union ignored[i] => h \in Known'
  BY <1>5, <1>6, InKnown
<1>14. ASSUME NEW m \in fetching' \intersect alone' PROVE \E T : Accounts(m, T)'
  <2>1. m = i /\ m \in fetching \intersect alone
    BY <1>2, <1>4, AloneFacts
  <2>2. PICK T : Accounts(m, T)
    BY <2>1 DEF SearchInv, Accounted
  <2>3. ignored'[m] \subseteq Known' /\ h \in Known'
    <3>1. ignored[m] \subseteq Known' /\ files \subseteq Known'
      BY <1>2, <1>12, <2>2, InKnown DEF Accounts
    <3> QED BY <1>3, <1>13, <2>1, <3>1
  <2>4. CASE h \in files \ ignored[i]
    <3> DEFINE U == T \union Items[h]
    <3>1. todo'[m] = (todo[m] \ {h}) \union Items[h] /\ ignored'[m] = ignored[m]
      BY <1>3, <2>1, <2>4
    <3>2. Root \in U /\ U \subseteq Known' \union todo'[m]
      BY <1>12, <2>2, <2>3, <3>1 DEF Accounts
    <3>3. ASSUME NEW x \in U \intersect (files' \ todo'[m]) PROVE Items[x] \subseteq U
      BY <1>2, <2>2, <3>1 DEF Accounts
    <3>4. ASSUME NEW x \in ignored'[m] \intersect files' PROVE Items[x] \subseteq U
      BY <1>2, <2>2, <3>1 DEF Accounts
    <3>5. Accounts(m, U)'
      BY <2>3, <3>2, <3>3, <3>4 DEF Accounts
    <3> QED BY <3>5
  <2>5. CASE h \notin files \ ignored[i]
    <3>1. todo'[m] = todo[m] \ {h} /\ ignored'[m] \subseteq ignored[m] \union {h}
      BY <1>3, <2>1, <2>5
    <3>2. h \in files => h \in ignored[m]
      BY <2>1, <2>5
    <3>3. T \subseteq Known' \union todo'[m]
      BY <1>12, <2>2, <2>3, <3>1 DEF Accounts
    <3>4. ASSUME NEW x \in T \intersect (files' \ todo'[m]) PROVE Items[x] \subseteq T
      BY <1>2, <2>2, <3>1, <3>2 DEF Accounts
    <3>5. ASSUME NEW x \in ignored'[m] \intersect files' PROVE Items[x] \subseteq T
      BY <1>2, <2>2, <3>1, <3>2 DEF Accounts
    <3>6. Accounts(m, T)'
      BY <2>2, <2>3, <3>3, <3>4, <3>5 DEF Accounts
    <3> QED BY <3>6
  <2> QED BY <2>4, <2>5
<1>15. Accounted'
  BY <1>14 DEF Accounted
<1> QED BY <1>8, <1>9, <1>10, <1>11, <1>15 DEF SearchInv

\* The zenith is set, and the search is over; or the session ends.
LEMMA SetZenithSearch ==
  ASSUME NEW i \in Slot, PeerInv, SearchInv, SetZenith(i)
  PROVE  SearchInv'
<1>1. CASE Reached(files) \subseteq files
  <2>1. /\ phase[i] = "zenith" /\ phase'[i] = "ready"
        /\ fetching' = fetching \ {i} /\ ignored'[i] = {}
        /\ \A j \in Slot \ {i} : phase'[j] = phase[j] /\ ignored'[j] = ignored[j]
        /\ UNCHANGED <<support, queue, hash, todo, files, lost, alone>>
    BY <1>1 DEF SetZenith, PeerInv, TypeOK
  <2>2. Mains' = Mains
    BY <2>1 DEF Mains, Used
  <2>3. OneMain'
    BY <2>1, <2>2 DEF SearchInv, OneMain
  <2>4. Paced'
    BY <2>1 DEF SearchInv, Paced
  <2>5. OnlyBlobs'
    BY <2>1 DEF SearchInv, OnlyBlobs
  <2>6. AllDone'
    BY <2>1, AloneFacts DEF SearchInv, AllDone
  <2>7. fetching' \intersect alone' = {}
    BY <2>1, AloneFacts
  <2>8. Accounted'
    BY <2>7 DEF Accounted
  <2> QED BY <2>3, <2>4, <2>5, <2>6, <2>8 DEF SearchInv
<1>2. CASE ~(Reached(files) \subseteq files)
  <2>1. /\ phase[i] = "zenith" /\ Ends(i)
        /\ UNCHANGED <<support, files, queue, lost>>
    BY <1>2 DEF SetZenith
  <2> QED BY <2>1, EndsSearch
<1> QED BY <1>1, <1>2

LEMMA InitSearch ==
  ASSUME Init, PeerAssumption
  PROVE  SearchInv
<1>1. \A i \in Slot : Of(queue[i]) = {}
  BY DEF Init, Of
<1>2. Mains = {} /\ alone = {}
  BY DEF Init, Mains, Used
<1> QED BY <1>1, <1>2 DEF Init, SearchInv, OneMain, Paced, OnlyBlobs, AllDone, Accounted

LEMMA StepSearch ==
  ASSUME NEW i \in Slot, PeerInv, SearchInv, PeerInv', Step(i), PeerAssumption
  PROVE  SearchInv'
<1>1. CASE Top(i) \/ SkipAgain(i)
  BY <1>1, TopFoundSearch DEF Top, SkipAgain
<1>2. CASE TopZenith(i) \/ NewBlock(i) \/ Skip(i)
  BY <1>2, TopZenithSearch, NewBlockSearch, SkipSearch
<1>3. CASE GotList(i) \/ GotBlob(i) \/ GetFails(i)
  BY <1>3, GotListSearch, GotBlobSearch, FailsSearch
<1>4. CASE AddItem(i) \/ ListFails(i) \/ ListDone(i)
  BY <1>4, AddItemSearch, FailsSearch, ListDoneSearch
<1>5. CASE Process(i) \/ ProcessFails(i) \/ SetZenith(i)
  BY <1>5, ProcessSearch, ProcessFailsSearch, SetZenithSearch
<1>6. CASE PeerLeaves(i) \/ Leave(i)
  BY <1>6, FailsSearch DEF PeerLeaves, Leave
<1>7. CASE SelfCondemn(i)
  BY <1>7, UnmovedSearch DEF SelfCondemn, ghosts
<1>8. CASE SkipDone(i) \/ Terminate(i) \/ WaitOver(i)
  BY <1>8, PhaseSearch DEF SkipDone, Terminate, WaitOver, ghosts
<1>9. CASE Term(i)
  BY <1>9, TermSearch
<1> QED BY <1>1, <1>2, <1>3, <1>4, <1>5, <1>6, <1>7, <1>8, <1>9 DEF Step

LEMMA NextSearch ==
  ASSUME PeerInv, SearchInv, [Next]_vars, PeerAssumption
  PROVE  SearchInv'
<1>1. PeerInv'
  BY NextKeeps
<1>2. CASE InitMain
  BY <1>2, InitMainSearch
<1>3. CASE Shutdown \/ \E i \in Slot : StartSupport(i) \/ Kill(i)
  BY <1>3, UnmovedSearch DEF Shutdown, StartSupport, Kill, table, ghosts
<1>4. CASE \E i \in Slot : Bye(i)
  BY <1>4, FailsSearch DEF Bye
<1>5. CASE InitSupport
  BY <1>5, InitSupportSearch
<1>6. CASE \E i \in Slot : Step(i)
  BY <1>1, <1>6, StepSearch
<1>7. CASE UNCHANGED vars
  BY <1>7, UnmovedSearch DEF vars, table, ghosts
<1> QED BY <1>2, <1>3, <1>4, <1>5, <1>6, <1>7 DEF Next, Environment, Quiescent

LEMMA SearchInvariant == Spec => [](PeerInv /\ SearchInv)
<1>1. Init => PeerInv /\ SearchInv
  BY InitEstablishes, InitSearch, PeerAssumption
<1>2. (PeerInv /\ SearchInv) /\ [Next]_vars => (PeerInv /\ SearchInv)'
  BY NextKeeps, NextSearch, PeerAssumption
<1> QED BY <1>1, <1>2, PTL DEF Spec

\* No file that the lists name is forgotten while it is handed from deque to deque
\* (pop_next_peer_file_hash_to_get, add_peer_file_hash_for_get and term_session,
\* ciyam_base.cpp), for any tree of lists and any number of sessions.
THEOREM NothingForgotten == Spec => []NoneForgotten
<1>1. PeerInv /\ SearchInv => NoneForgotten
  <2> SUFFICES ASSUME PeerInv, SearchInv, NEW m \in fetching \intersect alone
               PROVE  Reached(files \ todo[m]) \subseteq Known \union todo[m]
    BY DEF NoneForgotten, Known
  <2>1. PICK T : Accounts(m, T)
    BY DEF SearchInv, Accounted
  <2>2. Reached(files \ todo[m]) \subseteq T
    BY <2>1, ReachedWithin, PeerAssumption DEF Accounts
  <2> QED BY <2>1, <2>2 DEF Accounts
<1> QED BY <1>1, SearchInvariant, PTL

\* A main session that finds the deques empty, and so goes on to set the zenith,
\* has every file of the tree but those that could not be processed
\* (any_supporter_has_top_next_peer_file_hash_to_get, ciyam_base.cpp).
THEOREM ZenithComplete == Spec => []ZenithFindsAll
<1>1. PeerInv /\ SearchInv => ZenithFindsAll
  <2> SUFFICES ASSUME PeerInv, SearchInv, NEW m \in Mains \intersect alone, phase[m] = "zenith"
               PROVE  Reached(files) \subseteq files \union lost
    BY DEF ZenithFindsAll
  <2>1. m \in Slot /\ m \in fetching /\ todo[m] = {}
    BY AloneFacts DEF SearchInv, Paced
  <2>2. \A i \in Slot : Of(queue[i]) = {}
    BY DEF SearchInv, AllDone
  <2>3. InQueues = {}
    BY <2>2 DEF InQueues, Of
  <2>4. \A i \in Slot : phase[i] # "working"
    <3> SUFFICES ASSUME NEW i \in Slot, phase[i] = "working" PROVE FALSE
      OBVIOUS
    <3>1. i \in support
      BY AloneFacts DEF Mains, Used
    <3>2. queue[i] # <<>> /\ queue[i] \in Seq(Hash)
      BY <3>1 DEF PeerInv, HeldAtFront, TypeOK
    <3>3. queue[i][1] \in Of(queue[i])
      BY <3>2 DEF Of
    <3> QED BY <2>2, <3>3
  <2>5. InWork = {}
    BY <2>4 DEF InWork
  <2>6. PICK T : Accounts(m, T)
    BY <2>1 DEF SearchInv, Accounted
  <2>7. Reached(files) \subseteq T
    BY <2>1, <2>6, ReachedWithin, PeerAssumption DEF Accounts
  <2> QED BY <2>1, <2>3, <2>5, <2>6, <2>7 DEF Accounts, Known
<1> QED BY <1>1, SearchInvariant, PTL
=============================================================================
