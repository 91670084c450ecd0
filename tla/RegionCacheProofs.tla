------------------------- MODULE RegionCacheProofs -------------------------
(***************************************************************************)
(* What the region cache keeps for every file, value and size of cache:    *)
(* the counts agree with the slots, nothing put is lost, and callers see   *)
(* pages as if there was no cache.  None of this depends on what the lists *)
(* of a slot link, only on their links staying inside the slot.            *)
(***************************************************************************)
EXTENDS RegionCache, FiniteSetTheorems, NaturalsInduction, WellFoundedInduction, TLAPS

-----------------------------------------------------------------------------
(* Numbers, and the folds over them.                                       *)

\* A set of naturals that is not empty has a least number.
LEMMA LeastExists ==
  ASSUME NEW T \in SUBSET Nat, T # {}
  PROVE  \E n \in T : \A k \in T : n <= k
<1>1. PICK x \in T : \A y \in T : ~ (<<y, x>> \in OpToRel(<, Nat))
  BY NatLessThanWellFounded, WFMin
<1>2. \A m, n \in Nat : m < n => <<m, n>> \in OpToRel(<, Nat)
  BY Zenon DEF OpToRel
<1>3. \A y \in T : ~(y < x)
  BY <1>1, <1>2, Zenon
<1> QED BY <1>3

\* A fold over 1 .. m takes the last number first.
LEMMA MaxOfNumbers ==
  ASSUME NEW m \in Nat, m > 0
  PROVE  Max(1 .. m) = m /\ (1 .. m) \ {m} = 1 .. m - 1
<1>1. m \in 1 .. m /\ \A y \in 1 .. m : m >= y
  OBVIOUS
<1>2. \A x \in 1 .. m : (\A y \in 1 .. m : x >= y) => x = m
  OBVIOUS
<1> QED BY <1>1, <1>2 DEF Max

LEMMA FromIs ==
  ASSUME NEW first \in Int, NEW last \in Int
  PROVE  /\ DOMAIN From(first, last) = 1 .. last - first + 1
         /\ \A k \in 1 .. last - first + 1 : From(first, last)[k] = first + k - 1
BY DEF From

\* The constants, without the rest of the assumption.
LEMMA Sizes == /\ PerRegion \in Nat /\ PerRegion > 0 /\ MaxItems \in Nat /\ MaxItems > 0
               /\ MaxCost \in Nat /\ Page \subseteq Nat
               /\ \A n \in SlotCounts : n \in Nat /\ n > 0
BY CacheAssumption

\* A page is the page of one offset of one region.
LEMMA Quotients ==
  ASSUME NEW d \in Nat, d > 0, NEW a \in Nat, NEW b \in Nat, b < d
  PROVE  (a * d + b) \div d = a /\ (a * d + b) % d = b
<1>1. (a * d + b) \div d = a
  OBVIOUS
<1>2. (a * d + b) % d = b
  OBVIOUS
<1> QED BY <1>1, <1>2

LEMMA Division ==
  ASSUME NEW q \in Nat
  PROVE  \E a \in Nat, b \in Offset :
           q = a * PerRegion + b /\ q \div PerRegion = a /\ q % PerRegion = b
<1> DEFINE d == PerRegion
           Above == {k \in Nat : q < (k + 1) * d}
<1>1. d \in Nat /\ d > 0
  BY Sizes
<1>2. q \in Above
  <2>1. (q + 1) * d >= q + 1
    BY <1>1
  <2> QED BY <1>1, <2>1
<1>3. PICK a \in Above : \A k \in Above : a <= k
  <2>1. Above \in SUBSET Nat /\ Above # {}
    BY <1>2
  <2> HIDE DEF Above
  <2> QED BY <2>1, LeastExists
<1>4. a \in Nat /\ q < (a + 1) * d
  OBVIOUS
<1>5. a * d <= q
  <2>1. CASE a = 0
    BY <1>1, <2>1
  <2>2. CASE a # 0
    <3>1. a - 1 \in Nat /\ a - 1 \notin Above
      BY <1>3, <1>4, <2>2
    <3>2. ~(q < (a - 1 + 1) * d) /\ a - 1 + 1 = a
      BY <1>4, <3>1
    <3>3. a * d \in Int
      BY <1>1, <1>4
    <3> QED BY <3>2, <3>3
  <2> QED BY <2>1, <2>2
<1> DEFINE b == q - a * d
<1>6. b \in Nat /\ b < d /\ a * d + b = q
  <2>1. (a + 1) * d = a * d + d /\ a * d \in Int
    BY <1>1, <1>4
  <2> QED BY <1>1, <1>4, <1>5, <2>1
<1> HIDE DEF b, d, Above
<1>7. q \div d = a /\ q % d = b
  BY <1>1, <1>4, <1>6, Quotients
<1>8. b \in 0 .. d - 1
  BY <1>1, <1>6
<1> QED BY <1>4, <1>6, <1>7, <1>8 DEF d, Offset

LEMMA PageOfIs ==
  ASSUME NEW r \in Nat, NEW o \in Offset, NEW q \in Nat
  PROVE  r * PerRegion + o = q <=> r = q \div PerRegion /\ o = q % PerRegion
<1>1. PICK a \in Nat, b \in Offset :
        q = a * PerRegion + b /\ q \div PerRegion = a /\ q % PerRegion = b
  BY Division
<1>2. (r * PerRegion + o) \div PerRegion = r /\ (r * PerRegion + o) % PerRegion = o
  <2>1. o \in Nat /\ o < PerRegion
    BY Sizes DEF Offset
  <2>2. PerRegion \in Nat /\ PerRegion > 0
    BY Sizes
  <2> QED BY <2>1, <2>2, Quotients
<1>3. r = a /\ o = b => r * PerRegion + o = q
  BY <1>1
<1> QED BY <1>1, <1>2, <1>3

-----------------------------------------------------------------------------
(* Items and the links of a slot.                                          *)

\* A slot without the bound on what it has to flush.
AnySlot == [region : Nat \cup {None}, flush_cost : Nat,
            items : [Offset -> Item \cup {NoItem}], most : [List -> Link],
            least : [List -> Link]]

LEMMA ItemIsNot == \A x \in Item : x # NoItem
BY DEF Item, NoItem

LEMMA InSlot ==
  ASSUME NEW s \in AnySlot, NEW o \in Offset
  PROVE  /\ Has(s, o) <=> s.items[o] \in Item
         /\ ~Has(s, o) <=> s.items[o] = NoItem
         /\ Has(s, o) => /\ s.items[o].data \in Value /\ s.items[o].changed \in BOOLEAN
                         /\ s.items[o].prev \in [List -> Link]
                         /\ s.items[o].next \in [List -> Link]
<1>1. o # None
  BY Sizes DEF Offset, None
<1>2. s.items[o] \in Item \cup {NoItem}
  BY DEF AnySlot
<1>3. Has(s, o) <=> s.items[o] \in Item
  BY <1>1, <1>2, ItemIsNot DEF Has
<1>4. s.items[o] \in Item =>
        /\ s.items[o].data \in Value /\ s.items[o].changed \in BOOLEAN
        /\ s.items[o].prev \in [List -> Link] /\ s.items[o].next \in [List -> Link]
  BY DEF Item
<1> QED BY <1>1, <1>2, <1>3, <1>4 DEF Has

\* The same items as far as their data goes, and the same slot but for links.
SameItem(x, y) == /\ x = NoItem <=> y = NoItem
                  /\ x # NoItem => x.data = y.data /\ x.changed = y.changed

SameSlot(s, t) ==
  /\ t \in AnySlot /\ t.region = s.region /\ t.flush_cost = s.flush_cost
  /\ \A o \in Offset : SameItem(s.items[o], t.items[o])

LEMMA SameAgain ==
  ASSUME NEW s, NEW t, NEW u, SameSlot(s, t), SameSlot(t, u)
  PROVE  SameSlot(s, u)
BY DEF SameSlot, SameItem

LEMMA SameHas ==
  ASSUME NEW s \in AnySlot, NEW t, SameSlot(s, t), NEW o \in Offset
  PROVE  Has(t, o) <=> Has(s, o)
BY DEF SameSlot, SameItem, Has

\* A link of an item, and one of the two ends of a list, may be set.
LEMMA LinkSet ==
  ASSUME NEW s \in AnySlot, NEW o \in Offset, Has(s, o), NEW l \in List, NEW k \in Link
  PROVE  /\ SameSlot(s, [s EXCEPT !.items[o].next[l] = k])
         /\ SameSlot(s, [s EXCEPT !.items[o].prev[l] = k])
<1>1. s.items[o] \in Item /\ s.items \in [Offset -> Item \cup {NoItem}]
  BY InSlot DEF AnySlot
<1> DEFINE x == [s.items[o] EXCEPT !.next[l] = k]
           y == [s.items[o] EXCEPT !.prev[l] = k]
<1>2. /\ x \in Item /\ x.data = s.items[o].data /\ x.changed = s.items[o].changed
      /\ y \in Item /\ y.data = s.items[o].data /\ y.changed = s.items[o].changed
  BY <1>1 DEF Item
<1>3. [s EXCEPT !.items[o].next[l] = k] = [s EXCEPT !.items[o] = x]
  OBVIOUS
<1>4. [s EXCEPT !.items[o].prev[l] = k] = [s EXCEPT !.items[o] = y]
  OBVIOUS
<1> HIDE DEF x, y
<1>5. ASSUME NEW z \in Item, z.data = s.items[o].data, z.changed = s.items[o].changed
      PROVE  SameSlot(s, [s EXCEPT !.items[o] = z])
  <2> DEFINE t == [s EXCEPT !.items[o] = z]
  <2>1. t \in AnySlot
    BY <1>5 DEF AnySlot
  <2>2. t.region = s.region /\ t.flush_cost = s.flush_cost
    BY DEF AnySlot
  <2>3. \A p \in Offset : t.items[p] = IF p = o THEN z ELSE s.items[p]
    BY <1>1 DEF AnySlot
  <2>4. z # NoItem /\ s.items[o] # NoItem
    BY <1>1, ItemIsNot
  <2> HIDE DEF t
  <2>5. \A p \in Offset : SameItem(s.items[p], t.items[p])
    BY <2>3, <2>4, <1>5 DEF SameItem
  <2>6. SameSlot(s, t)
    BY <2>1, <2>2, <2>5 DEF SameSlot
  <2> QED BY <2>6 DEF t
<1> QED BY <1>2, <1>3, <1>4, <1>5

LEMMA LinksAre ==
  ASSUME NEW s \in AnySlot, NEW l \in List
  PROVE  /\ s.most[l] \in Link /\ s.least[l] \in Link
         /\ \A o \in Offset : Has(s, o) => s.items[o].prev[l] \in Link /\ s.items[o].next[l] \in Link
<1>1. s.most[l] \in Link /\ s.least[l] \in Link
  BY DEF AnySlot
<1>2. ASSUME NEW o \in Offset, Has(s, o)
      PROVE  s.items[o].prev[l] \in Link /\ s.items[o].next[l] \in Link
  BY <1>2, InSlot
<1> QED BY <1>1, <1>2

LEMMA LinkIs ==
  /\ None \in Link /\ \A o \in Offset : o \in Link
  /\ \A s : \A k \in Link : Has(s, k) => k \in Offset
BY DEF Link, Has

LEMMA SameSelf == \A s \in AnySlot : SameSlot(s, s)
BY DEF SameSlot, SameItem

LEMMA NextSetSame ==
  ASSUME NEW s \in AnySlot, NEW t \in AnySlot, SameSlot(s, t),
         NEW o \in Link, NEW l \in List, NEW k \in Link
  PROVE  SameSlot(s, NextSet(t, o, l, k)) /\ NextSet(t, o, l, k) \in AnySlot
<1>1. SameSlot(t, NextSet(t, o, l, k))
  BY SameSelf, LinkIs, LinkSet DEF NextSet
<1>2. SameSlot(s, NextSet(t, o, l, k))
  BY <1>1, SameAgain
<1> QED BY <1>2 DEF SameSlot

LEMMA PrevSetSame ==
  ASSUME NEW s \in AnySlot, NEW t \in AnySlot, SameSlot(s, t),
         NEW o \in Link, NEW l \in List, NEW k \in Link
  PROVE  SameSlot(s, PrevSet(t, o, l, k)) /\ PrevSet(t, o, l, k) \in AnySlot
<1>1. SameSlot(t, PrevSet(t, o, l, k))
  BY SameSelf, LinkIs, LinkSet DEF PrevSet
<1>2. SameSlot(s, PrevSet(t, o, l, k))
  BY <1>1, SameAgain
<1> QED BY <1>2 DEF SameSlot

LEMMA EndsSetSame ==
  ASSUME NEW s \in AnySlot, NEW t \in AnySlot, SameSlot(s, t),
         NEW l \in List, NEW j \in Link, NEW k \in Link
  PROVE  SameSlot(s, EndsSet(t, l, j, k))
<1> DEFINE u == EndsSet(t, l, j, k)
<1>1. /\ u \in AnySlot /\ u.region = t.region /\ u.flush_cost = t.flush_cost
      /\ u.items = t.items
  BY DEF AnySlot, EndsSet
<1> HIDE DEF u
<1>2. SameSlot(t, u)
  BY <1>1 DEF SameSlot, SameItem
<1>3. SameSlot(s, u)
  BY <1>2, SameAgain
<1> QED BY <1>3 DEF u

\* unlink_cached_item changes nothing but links.
LEMMA UnlinkedSame ==
  ASSUME NEW s \in AnySlot, NEW o \in Offset, Has(s, o), NEW l \in List
  PROVE  SameSlot(s, UnlinkedFrom(s, o, l))
<1> DEFINE before == s.items[o].prev[l]
           after  == s.items[o].next[l]
           m == IF s.most[l] = o THEN before ELSE s.most[l]
           e == IF s.least[l] = o THEN after ELSE s.least[l]
           s1 == NextSet(s, before, l, after)
           s2 == PrevSet(s1, after, l, before)
           s3 == NextSet(s2, o, l, None)
           s4 == PrevSet(s3, o, l, None)
<1>1. before \in Link /\ after \in Link /\ o \in Link /\ None \in Link
  BY LinksAre, LinkIs
<1>2. m \in Link /\ e \in Link
  BY <1>1, LinksAre
<1>3. UnlinkedFrom(s, o, l) = EndsSet(s4, l, m, e)
  BY DEF UnlinkedFrom
<1> HIDE DEF before, after, m, e, s1, s2, s3, s4
<1>4. SameSlot(s, s1) /\ s1 \in AnySlot
  BY <1>1, SameSelf, NextSetSame DEF s1
<1>5. SameSlot(s, s2) /\ s2 \in AnySlot
  BY <1>1, <1>4, PrevSetSame DEF s2
<1>6. SameSlot(s, s3) /\ s3 \in AnySlot
  BY <1>1, <1>5, NextSetSame DEF s3
<1>7. SameSlot(s, s4) /\ s4 \in AnySlot
  BY <1>1, <1>6, PrevSetSame DEF s4
<1> QED BY <1>2, <1>3, <1>7, EndsSetSame

LEMMA UnlinkedAll ==
  ASSUME NEW s \in AnySlot, NEW o \in Offset, Has(s, o)
  PROVE  SameSlot(s, Unlinked(s, o))
<1> DEFINE s1 == UnlinkedFrom(s, o, "used")
           s2 == UnlinkedFrom(s1, o, "changed")
           s3 == UnlinkedFrom(s2, o, "unchanged")
<1>1. SameSlot(s, s1) /\ s1 \in AnySlot
  BY UnlinkedSame DEF SameSlot, List
<1>2. Has(s1, o)
  BY <1>1, SameHas
<1> HIDE DEF s1
<1>3. SameSlot(s1, s2) /\ s2 \in AnySlot
  BY <1>1, <1>2, UnlinkedSame DEF SameSlot, List
<1>4. Has(s2, o)
  BY <1>1, <1>2, <1>3, SameHas
<1> HIDE DEF s2
<1>5. SameSlot(s2, s3)
  BY <1>3, <1>4, UnlinkedSame DEF List
<1>6. Unlinked(s, o) = s3
  BY DEF Unlinked, s1, s2
<1> QED BY <1>1, <1>3, <1>5, <1>6, SameAgain

LEMMA LinkedSame ==
  ASSUME NEW s \in AnySlot, NEW o \in Offset, Has(s, o), NEW l \in List
  PROVE  SameSlot(s, LinkedMostRecent(s, o, l))
<1> DEFINE head == s.most[l]
           e == IF s.least[l] = None THEN o ELSE s.least[l]
           s1 == NextSet(s, head, l, o)
           s2 == PrevSet(s1, o, l, head)
<1>1. head \in Link /\ e \in Link /\ o \in Link
  BY LinksAre, LinkIs
<1>2. LinkedMostRecent(s, o, l) = EndsSet(s2, l, o, e)
  BY DEF LinkedMostRecent
<1> HIDE DEF head, e, s1, s2
<1>3. SameSlot(s, s1) /\ s1 \in AnySlot
  BY <1>1, SameSelf, NextSetSame DEF s1
<1>4. SameSlot(s, s2) /\ s2 \in AnySlot
  BY <1>1, <1>3, PrevSetSame DEF s2
<1> QED BY <1>1, <1>2, <1>4, EndsSetSame

-----------------------------------------------------------------------------
(* What holds of a slot.                                                   *)

Unflushed(s) == {o \in Offset : Has(s, o) /\ s.items[o].changed}

\* flush_cost covers what has to be flushed, and what is cached is a page of the slot's region.
SlotInv(s) ==
  /\ s \in AnySlot
  /\ Cardinality(Unflushed(s)) <= s.flush_cost
  /\ \A o \in Offset : Has(s, o) => s.region \in Nat /\ PageOf(s, o) \in Page

LEMMA FiniteUnflushed ==
  ASSUME NEW s
  PROVE  IsFiniteSet(Unflushed(s)) /\ Cardinality(Unflushed(s)) \in Nat
<1>1. IsFiniteSet(Offset)
  BY Sizes, FS_Interval DEF Offset
<1>2. Unflushed(s) \in SUBSET Offset
  BY DEF Unflushed
<1> QED BY <1>1, <1>2, FS_Subset, FS_CardinalityType

LEMMA SameSlotInv ==
  ASSUME NEW s, SlotInv(s), NEW t, SameSlot(s, t)
  PROVE  SlotInv(t) /\ Unflushed(t) = Unflushed(s)
<1>1. s \in AnySlot /\ t \in AnySlot /\ t.region = s.region /\ t.flush_cost = s.flush_cost
  BY DEF SlotInv, SameSlot
<1>2. \A o \in Offset : Has(t, o) <=> Has(s, o)
  BY <1>1, SameHas
<1>3. \A o \in Offset : Has(s, o) => t.items[o].changed = s.items[o].changed
  BY DEF SameSlot, SameItem, Has
<1>4. Unflushed(t) = Unflushed(s)
  BY <1>2, <1>3 DEF Unflushed
<1>5. \A o \in Offset : PageOf(t, o) = PageOf(s, o)
  BY <1>1 DEF PageOf
<1> QED BY <1>1, <1>2, <1>4, <1>5 DEF SlotInv

\* An item that is changed counts.
Counts(x) == IF x # NoItem /\ x.changed THEN 1 ELSE 0

WithItem(s, o, x, c) == [s EXCEPT !.items[o] = x, !.flush_cost = c]
Cleaned(s, o, c) == [s EXCEPT !.items[o].changed = FALSE, !.flush_cost = c]

\* One item of a slot is replaced, and the cost moves with it or rises.
LEMMA ItemSet ==
  ASSUME NEW s, SlotInv(s), NEW o \in Offset, NEW x \in Item \cup {NoItem}, NEW c \in Nat,
         c >= s.flush_cost - Counts(s.items[o]) + Counts(x),
         x # NoItem => s.region \in Nat /\ PageOf(s, o) \in Page,
         NEW t, t = WithItem(s, o, x, c)
  PROVE  /\ SlotInv(t) /\ t.region = s.region /\ t.flush_cost = c
         /\ t.items[o] = x /\ \A p \in Offset \ {o} : t.items[p] = s.items[p]
<1>1. s \in AnySlot /\ s.items \in [Offset -> Item \cup {NoItem}] /\ s.flush_cost \in Nat
  BY DEF SlotInv, AnySlot
<1>2. /\ t \in AnySlot /\ t.region = s.region /\ t.flush_cost = c
      /\ t.items[o] = x /\ \A p \in Offset \ {o} : t.items[p] = s.items[p]
  BY <1>1 DEF AnySlot, WithItem
<1>3. \A p \in Offset : p # None
  BY Sizes DEF Offset, None
<1>4. \A p \in Offset \ {o} : Has(t, p) <=> Has(s, p)
  BY <1>2 DEF Has
<1>5. (Has(t, o) <=> x # NoItem) /\ (Has(s, o) <=> s.items[o] # NoItem)
  BY <1>2, <1>3 DEF Has
<1>6. \A p \in Offset \ {o} : p \in Unflushed(t) <=> p \in Unflushed(s)
  BY <1>2, <1>4 DEF Unflushed
<1>7. o \in Unflushed(t) <=> Counts(x) = 1
  BY <1>2, <1>5 DEF Unflushed, Counts
<1>8. o \in Unflushed(s) <=> Counts(s.items[o]) = 1
  BY <1>5 DEF Unflushed, Counts
<1>9. Counts(x) \in {0, 1} /\ Counts(s.items[o]) \in {0, 1}
  BY DEF Counts
<1>10. Unflushed(s) \subseteq Offset /\ Unflushed(t) \subseteq Offset
  BY DEF Unflushed
<1>11. Cardinality(Unflushed(s) \ {o}) = Cardinality(Unflushed(s)) - Counts(s.items[o])
  <2>1. /\ Cardinality(Unflushed(s)) \in Nat
        /\ Cardinality(Unflushed(s) \ {o})
             = IF o \in Unflushed(s) THEN Cardinality(Unflushed(s)) - 1 ELSE Cardinality(Unflushed(s))
    BY FiniteUnflushed, FS_RemoveElement, Zenon
  <2> QED BY <1>8, <1>9, <2>1
<1>12. Cardinality(Unflushed(t) \ {o}) = Cardinality(Unflushed(t)) - Counts(x)
  <2>1. /\ Cardinality(Unflushed(t)) \in Nat
        /\ Cardinality(Unflushed(t) \ {o})
             = IF o \in Unflushed(t) THEN Cardinality(Unflushed(t)) - 1 ELSE Cardinality(Unflushed(t))
    BY FiniteUnflushed, FS_RemoveElement, Zenon
  <2> QED BY <1>7, <1>9, <2>1
<1>13. Unflushed(t) \ {o} = Unflushed(s) \ {o}
  BY <1>6, <1>10
<1>14. Cardinality(Unflushed(t)) <= t.flush_cost
  <2>1. /\ Cardinality(Unflushed(s)) \in Nat /\ Cardinality(Unflushed(t)) \in Nat
        /\ Cardinality(Unflushed(s)) <= s.flush_cost
    BY FiniteUnflushed DEF SlotInv
  <2>2. Cardinality(Unflushed(t)) - Counts(x) = Cardinality(Unflushed(s)) - Counts(s.items[o])
    BY <1>11, <1>12, <1>13
  <2> QED BY <1>1, <1>2, <1>9, <2>1, <2>2
<1>15. \A p \in Offset : Has(t, p) => t.region \in Nat /\ PageOf(t, p) \in Page
  <2>1. \A p \in Offset : PageOf(t, p) = PageOf(s, p)
    BY <1>2 DEF PageOf
  <2> QED BY <1>2, <1>4, <1>5, <2>1 DEF SlotInv
<1> QED BY <1>2, <1>14, <1>15 DEF SlotInv

\* What a changed item counts is covered.
LEMMA CostCovers ==
  ASSUME NEW s, SlotInv(s), NEW o \in Offset
  PROVE  s.flush_cost \in Nat /\ s.flush_cost >= Counts(s.items[o])
<1>1. s.flush_cost \in Nat
  BY DEF SlotInv, AnySlot
<1>2. Counts(s.items[o]) = 1 => Cardinality(Unflushed(s)) >= 1
  <2> SUFFICES ASSUME Counts(s.items[o]) = 1 PROVE Cardinality(Unflushed(s)) >= 1
    OBVIOUS
  <2>1. o \in Unflushed(s)
    BY Sizes DEF Unflushed, Counts, Has, Offset, None
  <2> QED BY <2>1, FiniteUnflushed, FS_EmptySet
<1> QED BY <1>1, <1>2, FiniteUnflushed DEF Counts, SlotInv

\* An item is marked unchanged; what the slot has to flush is counted down or not.
CostAfter(s, o, c) == c = s.flush_cost \/ (s.items[o].changed /\ c = s.flush_cost - 1)

CleanedTo(s, t, o, c) ==
  /\ SlotInv(t) /\ t.region = s.region /\ t.flush_cost = c
  /\ t.items[o] # NoItem /\ t.items[o].data = s.items[o].data /\ ~t.items[o].changed
  /\ \A p \in Offset \ {o} : t.items[p] = s.items[p]

LEMMA ItemCleaned ==
  ASSUME NEW s, SlotInv(s), NEW o \in Offset, Has(s, o), NEW c \in Nat,
         CostAfter(s, o, c), NEW t, t = Cleaned(s, o, c)
  PROVE  CleanedTo(s, t, o, c)
<1> DEFINE x == [s.items[o] EXCEPT !.changed = FALSE]
<1>1. s \in AnySlot /\ s.items[o] \in Item /\ s.items[o] # NoItem
  BY InSlot, ItemIsNot DEF SlotInv
<1>2. x \in Item /\ x.data = s.items[o].data /\ x.changed = FALSE
  BY <1>1 DEF Item
<1>3. t = WithItem(s, o, x, c)
  BY DEF WithItem, Cleaned
<1> HIDE DEF x
<1>4. x # NoItem /\ Counts(x) = 0
  BY <1>2, ItemIsNot DEF Counts
<1>5. s.items[o].changed => Counts(s.items[o]) = 1
  BY <1>1 DEF Counts
<1>6. Counts(s.items[o]) \in {0, 1} /\ s.flush_cost \in Nat
  BY CostCovers DEF Counts
<1>7. c >= s.flush_cost - Counts(s.items[o]) + Counts(x)
  BY <1>4, <1>5, <1>6 DEF CostAfter
<1>8. s.region \in Nat /\ PageOf(s, o) \in Page
  BY DEF SlotInv
<1>9. /\ SlotInv(t) /\ t.region = s.region /\ t.flush_cost = c
      /\ t.items[o] = x /\ \A p \in Offset \ {o} : t.items[p] = s.items[p]
  <2>1. x \in Item \cup {NoItem} /\ (x # NoItem => s.region \in Nat /\ PageOf(s, o) \in Page)
    BY <1>2, <1>8
  <2> QED BY <1>3, <1>7, <2>1, ItemSet
<1> QED BY <1>2, <1>4, <1>9 DEF CleanedTo

\* free_cache_item, in its slot.
FreedIn(s, o) ==
  LET clean == IF ~(Has(s, o) /\ s.items[o].changed) THEN s
               ELSE [s EXCEPT !.items[o].changed = FALSE, !.flush_cost = @ - 1]
  IN [Unlinked(clean, o) EXCEPT !.items[o] = NoItem]

LEMMA ItemFreed ==
  ASSUME NEW s, SlotInv(s), NEW o \in Offset, Has(s, o), NEW t, t = FreedIn(s, o)
  PROVE  /\ SlotInv(t) /\ t.region = s.region /\ t.flush_cost <= s.flush_cost
         /\ t.items[o] = NoItem /\ \A p \in Offset \ {o} : SameItem(s.items[p], t.items[p])
<1> DEFINE c == IF s.items[o].changed THEN s.flush_cost - 1 ELSE s.flush_cost
           clean == IF ~(Has(s, o) /\ s.items[o].changed) THEN s
                    ELSE [s EXCEPT !.items[o].changed = FALSE, !.flush_cost = @ - 1]
           u == Unlinked(clean, o)
<1>1. s \in AnySlot /\ s.items[o] # NoItem
  BY DEF SlotInv, Has
<1>2. s.flush_cost \in Nat /\ c \in Nat /\ c <= s.flush_cost
  BY <1>1, CostCovers DEF Counts
<1>3. /\ SlotInv(clean) /\ clean.region = s.region /\ clean.flush_cost = c
      /\ clean.items[o] # NoItem /\ ~clean.items[o].changed
      /\ \A p \in Offset \ {o} : clean.items[p] = s.items[p]
  <2>1. CASE ~s.items[o].changed
    BY <1>1, <2>1
  <2>2. CASE s.items[o].changed
    <3>1. clean = Cleaned(s, o, c)
      BY <2>2 DEF Cleaned
    <3>2. c = s.flush_cost - 1
      BY <2>2
    <3>3. CostAfter(s, o, c)
      BY <2>2 DEF CostAfter
    <3> HIDE DEF clean, c
    <3>4. CleanedTo(s, clean, o, c)
      BY <1>2, <3>1, <3>3, ItemCleaned
    <3> QED BY <3>4 DEF CleanedTo
  <2> QED BY <2>1, <2>2
<1>4. t = [u EXCEPT !.items[o] = NoItem]
  BY DEF FreedIn
<1> HIDE DEF clean, u, c
<1>5. clean \in AnySlot /\ Has(clean, o)
  BY <1>3, Sizes DEF SlotInv, Has, Offset, None
<1>6. SameSlot(clean, u) /\ u \in AnySlot
  BY <1>5, UnlinkedAll DEF u, SameSlot
<1>7. SlotInv(u) /\ u.region = s.region /\ u.flush_cost = c
  BY <1>3, <1>6, SameSlotInv DEF SameSlot
<1>8. Counts(u.items[o]) = 0
  BY <1>3, <1>6 DEF SameSlot, SameItem, Counts
<1>9. Counts(NoItem) = 0
  BY DEF Counts
<1>10. t = WithItem(u, o, NoItem, c)
  BY <1>4, <1>6, <1>7 DEF AnySlot, WithItem
<1>11. c >= u.flush_cost - Counts(u.items[o]) + Counts(NoItem)
  BY <1>2, <1>7, <1>8, <1>9
<1>12. /\ SlotInv(t) /\ t.region = u.region /\ t.flush_cost = c
       /\ t.items[o] = NoItem /\ \A p \in Offset \ {o} : t.items[p] = u.items[p]
  <2>1. NoItem \in Item \cup {NoItem} /\ (NoItem # NoItem => u.region \in Nat /\ PageOf(u, o) \in Page)
    OBVIOUS
  <2> QED BY <1>2, <1>7, <1>10, <1>11, <2>1, ItemSet
<1>13. \A p \in Offset \ {o} : SameItem(s.items[p], t.items[p])
  BY <1>3, <1>6, <1>12 DEF SameSlot
<1> QED BY <1>2, <1>7, <1>12, <1>13

-----------------------------------------------------------------------------
(* The loop of free_cache_items.                                           *)

LEMMA MaxIs ==
  ASSUME NEW m \in Nat, NEW s \in SUBSET (1 .. m), s # {}
  PROVE  /\ Max(s) \in s /\ \A x \in s : x <= Max(s)
         /\ s \ {Max(s)} \in SUBSET (1 .. m - 1)
<1> DEFINE Above == {k \in Nat : \A x \in s : x <= k}
<1>1. m \in Above
  OBVIOUS
<1>2. PICK k \in Above : \A j \in Above : k <= j
  <2>1. Above \in SUBSET Nat /\ Above # {}
    BY <1>1
  <2> HIDE DEF Above
  <2> QED BY <2>1, LeastExists
<1>3. k \in Nat /\ k <= m /\ \A x \in s : x <= k
  BY <1>1, <1>2
<1>4. k \in s
  <2> SUFFICES ASSUME k \notin s PROVE FALSE
    OBVIOUS
  <2>1. PICK x \in s : TRUE
    OBVIOUS
  <2>2. x >= 1 /\ x <= k
    BY <1>3
  <2>3. k - 1 \in Nat
    BY <1>3, <2>2
  <2>4. \A y \in s : y <= k - 1
    BY <1>3
  <2>5. k - 1 \in Above
    BY <2>3, <2>4
  <2> HIDE DEF Above
  <2> QED BY <1>2, <1>3, <2>5
<1>5. \E x \in s : \A y \in s : x >= y
  BY <1>3, <1>4
<1>6. Max(s) \in s /\ \A y \in s : Max(s) >= y
  BY <1>5 DEF Max
<1>7. \A y \in s : y \in 1 .. m
  OBVIOUS
<1> HIDE DEF Above
<1>8. \A y \in s \ {Max(s)} : y \in 1 .. m - 1
  <2>1. PICK z : z = Max(s)
    OBVIOUS
  <2>2. z \in 1 .. m /\ \A y \in s : z >= y
    BY <1>6, <1>7, <2>1
  <2>3. \A y \in s : y \in 1 .. m /\ (y # z => y <= m - 1)
    BY <1>7, <2>2
  <2>4. \A y \in s \ {z} : y \in 1 .. m - 1
    BY <2>2, <2>3
  <2> QED BY <2>1, <2>4
<1>9. \A x \in s : x <= Max(s)
  <2>1. PICK z : z = Max(s)
    OBVIOUS
  <2>2. z \in 1 .. m /\ \A y \in s : y \in 1 .. m /\ z >= y
    BY <1>6, <1>7, <2>1
  <2>3. \A y \in s : y <= z
    BY <2>2
  <2> QED BY <2>1, <2>3
<1> QED BY <1>6, <1>8, <1>9

\* The fold exists, and its results lie in the sets G.
LEMMA FreedItemsFold ==
  ASSUME NEW st, NEW i, NEW first \in Offset, NEW discard, NEW G, st \in G[0],
         \A k \in 1 .. PerRegion - first : \A t \in G[k - 1] :
           FreedItem(t, i, first + k - 1, discard) \in G[k]
  PROVE  FreedItems(st, i, first, discard) \in G[PerRegion - first]
<1> DEFINE n == PerRegion - first
           seq == From(first, PerRegion - 1)
           op(t, k) == FreedItem(t, i, seq[k], discard)
           Fold(g, m) == g = [s \in SUBSET (1 .. m) |->
                                IF s = {} THEN st ELSE op(g[s \ {Max(s)}], Max(s))]
<1>1. n \in Nat /\ DOMAIN seq = 1 .. n /\ \A k \in 1 .. n : seq[k] = first + k - 1
  <2>1. n \in Nat /\ first \in Int /\ PerRegion - 1 \in Int /\ PerRegion - 1 - first + 1 = n
    BY Sizes DEF Offset
  <2> HIDE DEF n
  <2>2. /\ DOMAIN seq = 1 .. PerRegion - 1 - first + 1
        /\ \A k \in 1 .. PerRegion - 1 - first + 1 : seq[k] = first + k - 1
    BY <2>1, FromIs
  <2> QED BY <2>1, <2>2
<1>2. FreedItems(st, i, first, discard) = (CHOOSE g : Fold(g, n))[1 .. n]
  <2>1. FreedItems(st, i, first, discard) =
          (CHOOSE g : g = [s \in SUBSET (DOMAIN seq) |->
                             IF s = {} THEN st ELSE op(g[s \ {Max(s)}], Max(s))])[DOMAIN seq]
    BY DEF FreedItems, FoldLeft, MapThenFoldSet
  <2> QED BY <1>1, <2>1
<1> HIDE DEF n, seq
<1>3. \A k \in 1 .. n : \A t \in G[k - 1] : op(t, k) \in G[k]
  BY <1>1 DEF n
<1> HIDE DEF op
<1>4. ASSUME NEW m \in Nat, NEW g, Fold(g, m)
      PROVE  \E h : Fold(h, m + 1)
  <2> DEFINE h == [s \in SUBSET (1 .. m + 1) |->
                     IF s = {} THEN st ELSE op(g[s \ {Max(s)}], Max(s))]
  <2>1. \A s \in SUBSET (1 .. m) :
          g[s] = IF s = {} THEN st ELSE op(g[s \ {Max(s)}], Max(s))
    BY <1>4
  <2>2. \A s \in SUBSET (1 .. m) : h[s] = g[s]
    <3>1. \A s \in SUBSET (1 .. m) : s \in SUBSET (1 .. m + 1)
      OBVIOUS
    <3> QED BY <2>1, <3>1
  <2>3. \A s \in SUBSET (1 .. m + 1) : s # {} => s \ {Max(s)} \in SUBSET (1 .. m)
    <3>1. PICK k \in Nat : k = m + 1
      OBVIOUS
    <3>2. \A s \in SUBSET (1 .. k) : s # {} => s \ {Max(s)} \in SUBSET (1 .. k - 1)
      BY MaxIs
    <3>3. k - 1 = m
      BY <3>1
    <3> QED BY <3>1, <3>2, <3>3
  <2>4. \A s \in SUBSET (1 .. m + 1) :
          h[s] = IF s = {} THEN st ELSE op(h[s \ {Max(s)}], Max(s))
    BY <2>2, <2>3
  <2>5. Fold(h, m + 1)
    <3>1. h = [s \in SUBSET (1 .. m + 1) |-> h[s]]
      OBVIOUS
    <3> HIDE DEF h
    <3> QED BY <2>4, <3>1
  <2> QED BY <2>5
<1>5. \E g : Fold(g, 0)
  <2> DEFINE g == [s \in SUBSET (1 .. 0) |-> st]
  <2>1. Fold(g, 0)
    OBVIOUS
  <2> QED BY <2>1
<1> DEFINE Bad == {m \in Nat : ~\E g : Fold(g, m)}
<1>6. Bad = {}
  <2> SUFFICES ASSUME Bad # {} PROVE FALSE
    OBVIOUS
  <2>1. PICK m \in Bad : \A k \in Bad : m <= k
    <3>1. Bad \in SUBSET Nat
      OBVIOUS
    <3> HIDE DEF Bad
    <3> QED BY <3>1, LeastExists
  <2>2. m \in Nat /\ ~\E g : Fold(g, m)
    OBVIOUS
  <2> HIDE DEF Fold
  <2>3. m # 0
    BY <1>5, <2>2
  <2>4. m - 1 \in Nat /\ m - 1 \notin Bad
    BY <2>1, <2>2, <2>3
  <2>5. PICK g : Fold(g, m - 1)
    BY <2>4
  <2>6. \E h : Fold(h, m - 1 + 1)
    BY <1>4, <2>4, <2>5
  <2> QED BY <2>2, <2>6
<1>7. PICK g : g = (CHOOSE h : Fold(h, n)) /\ Fold(g, n)
  <2>1. n \notin Bad
    BY <1>6
  <2> HIDE DEF Fold
  <2>2. \E h : Fold(h, n)
    BY <1>1, <2>1
  <2> QED BY <2>2
<1>8. g[{}] = st
  BY <1>1, <1>7
<1>9. \A k \in 1 .. n : g[1 .. k] = op(g[1 .. k - 1], k)
  <2> TAKE k \in 1 .. n
  <2>1. 1 .. k \in SUBSET (1 .. n) /\ 1 .. k # {}
    <3>1. 1 \in 1 .. k /\ \A j \in 1 .. k : j \in 1 .. n
      BY <1>1
    <3> QED BY <3>1
  <2>2. Max(1 .. k) = k /\ (1 .. k) \ {k} = 1 .. k - 1
    BY <1>1, MaxOfNumbers
  <2> QED BY <1>7, <2>1, <2>2
<1> HIDE DEF Fold
<1> DEFINE Out == {k \in Nat : k <= n /\ g[1 .. k] \notin G[k]}
<1>10. Out = {}
  <2> SUFFICES ASSUME Out # {} PROVE FALSE
    OBVIOUS
  <2>1. PICK k \in Out : \A j \in Out : k <= j
    <3>1. Out \in SUBSET Nat
      OBVIOUS
    <3> HIDE DEF Out
    <3> QED BY <3>1, LeastExists
  <2>2. k \in Nat /\ k <= n /\ g[1 .. k] \notin G[k]
    OBVIOUS
  <2>3. k # 0
    <3>1. 1 .. 0 = {}
      OBVIOUS
    <3> QED BY <1>8, <2>2, <3>1
  <2>4. k - 1 \in Nat /\ k - 1 \notin Out /\ k - 1 <= n /\ k \in 1 .. n
    BY <1>1, <2>1, <2>2, <2>3
  <2>5. g[1 .. k - 1] \in G[k - 1]
    BY <2>4
  <2> HIDE DEF Out
  <2> QED BY <1>3, <1>9, <2>2, <2>4, <2>5
<1>11. n \notin Out
  BY <1>10
<1>12. g[1 .. n] \in G[n]
  BY <1>1, <1>11
<1> QED BY <1>2, <1>7, <1>12 DEF n

-----------------------------------------------------------------------------
(* Stores: a cache and its file.                                           *)

Stores(n) ==
  [cache : [slots : [0 .. n - 1 -> AnySlot], num_cached : Int, num_regions : Int],
   file : [Page -> Value]]

\* Where the items of a cache are.
Places(c) == {x \in Slots(c) \X Offset : Has(c.slots[x[1]], x[2])}

\* The slots are sound, no region has two, and the items are counted.
StoreOK(st, n) ==
  /\ st \in Stores(n)
  /\ \A i \in 0 .. n - 1 : SlotInv(st.cache.slots[i])
  /\ \A i, j \in 0 .. n - 1 :
       i # j /\ st.cache.slots[i].region = st.cache.slots[j].region =>
         st.cache.slots[i].region = None
  /\ st.cache.num_cached = Cardinality(Places(st.cache))

\* A slot has the page "q".
Shows(s, q) == s.region = q \div PerRegion /\ Has(s, q % PerRegion)
CachedIn(st, q) == \E i \in Slots(st.cache) : Shows(st.cache.slots[i], q)

\* Callers read "v" from the page, and if it is not in the file it will be written.
Fine(st, q, v) ==
  /\ \A i \in Slots(st.cache) : Shows(st.cache.slots[i], q) =>
       LET x == st.cache.slots[i].items[q % PerRegion]
       IN x.data = v /\ (x.changed \/ st.file[q] = v)
  /\ ~CachedIn(st, q) => st.file[q] = v

\* From "st" to "t" what callers read stays, except of the pages D; pages are
\* only written with what is read, and those not in the cache stay as they are.
KeepsPages(st, t, D) ==
  \A q \in Page :
    /\ \A v \in Value : Fine(st, q, v) /\ q \notin D =>
                          Fine(t, q, v) /\ t.file[q] \in {st.file[q], v}
    /\ ~CachedIn(st, q) => ~CachedIn(t, q) /\ t.file[q] = st.file[q]

LEMMA KeptAgain ==
  ASSUME NEW st, NEW t, NEW u, NEW D, NEW E, KeepsPages(st, t, D), KeepsPages(t, u, E)
  PROVE  KeepsPages(st, u, D \cup E)
<1> SUFFICES ASSUME NEW q \in Page
             PROVE  /\ \A v \in Value : Fine(st, q, v) /\ q \notin D \cup E =>
                                          Fine(u, q, v) /\ u.file[q] \in {st.file[q], v}
                    /\ ~CachedIn(st, q) => ~CachedIn(u, q) /\ u.file[q] = st.file[q]
  BY DEF KeepsPages
<1>1. ASSUME NEW v \in Value, Fine(st, q, v), q \notin D \cup E
      PROVE  Fine(u, q, v) /\ u.file[q] \in {st.file[q], v}
  <2>1. Fine(t, q, v) /\ t.file[q] \in {st.file[q], v}
    BY <1>1 DEF KeepsPages
  <2>2. Fine(u, q, v) /\ u.file[q] \in {t.file[q], v}
    BY <1>1, <2>1 DEF KeepsPages
  <2> QED BY <2>1, <2>2
<1>2. ASSUME ~CachedIn(st, q) PROVE ~CachedIn(u, q) /\ u.file[q] = st.file[q]
  BY <1>2 DEF KeepsPages
<1> QED BY <1>1, <1>2

LEMMA KeptSelf ==
  ASSUME NEW st, NEW D PROVE KeepsPages(st, st, D)
BY DEF KeepsPages

LEMMA KeptBy ==
  ASSUME NEW st, NEW t, NEW D, NEW E, D \subseteq E, KeepsPages(st, t, D)
  PROVE  KeepsPages(st, t, E)
BY DEF KeepsPages

LEMMA InStore ==
  ASSUME NEW n \in Nat, NEW st, StoreOK(st, n)
  PROVE  /\ Slots(st.cache) = 0 .. n - 1
         /\ st.cache.slots \in [0 .. n - 1 -> AnySlot]
         /\ st.cache.num_cached \in Nat /\ st.cache.num_regions \in Int
         /\ st.file \in [Page -> Value]
         /\ \A i \in 0 .. n - 1 : SlotInv(st.cache.slots[i]) /\ st.cache.slots[i] \in AnySlot
         /\ IsFiniteSet(Places(st.cache))
<1>1. /\ Slots(st.cache) = 0 .. n - 1
      /\ st.cache.slots \in [0 .. n - 1 -> AnySlot]
      /\ st.cache.num_regions \in Int /\ st.file \in [Page -> Value]
  BY DEF StoreOK, Stores, Slots
<1>2. \A i \in 0 .. n - 1 : SlotInv(st.cache.slots[i]) /\ st.cache.slots[i] \in AnySlot
  BY DEF StoreOK, SlotInv
<1>3. IsFiniteSet((0 .. n - 1) \X Offset)
  <2>1. IsFiniteSet(0 .. n - 1) /\ IsFiniteSet(Offset)
    BY Sizes, FS_Interval DEF Offset
  <2> QED BY <2>1, FS_Product
<1>4. Places(st.cache) \in SUBSET ((0 .. n - 1) \X Offset)
  BY <1>1 DEF Places
<1>5. IsFiniteSet(Places(st.cache)) /\ Cardinality(Places(st.cache)) \in Nat
  BY <1>3, <1>4, FS_Subset, FS_CardinalityType
<1> QED BY <1>1, <1>2, <1>5 DEF StoreOK

\* The fields of a cache of which some have changed.
CountedDown(d, r) == [d EXCEPT !.slots = r, !.num_cached = @ - 1]

LEMMA CacheWith ==
  ASSUME NEW N, NEW d \in [slots : N, num_cached : Int, num_regions : Int], NEW r \in N,
         NEW c, c = CountedDown(d, r)
  PROVE  /\ c \in [slots : N, num_cached : Int, num_regions : Int]
         /\ c.slots = r /\ c.num_cached = d.num_cached - 1 /\ c.num_regions = d.num_regions
<1>1. PICK k \in Int : k = d.num_cached - 1
  OBVIOUS
<1>2. c = [d EXCEPT !.slots = r, !.num_cached = k]
  BY <1>1 DEF CountedDown
<1>3. c.slots = r /\ c.num_cached = k /\ c.num_regions = d.num_regions
  BY <1>2
<1>4. c \in [slots : N, num_cached : Int, num_regions : Int]
  BY <1>2
<1> QED BY <1>1, <1>3, <1>4

\* free_cache_item, field by field.
LEMMA FreedItemIs ==
  ASSUME NEW n \in Nat, NEW st, StoreOK(st, n), NEW i \in 0 .. n - 1, NEW o \in Offset,
         NEW discard \in BOOLEAN, Has(st.cache.slots[i], o), NEW t,
         t = FreedItem(st, i, o, discard)
  PROVE  /\ t \in Stores(n)
         /\ t.cache.slots = [st.cache.slots EXCEPT ![i] = FreedIn(st.cache.slots[i], o)]
         /\ t.cache.num_cached = st.cache.num_cached - 1
         /\ t.cache.num_regions = st.cache.num_regions
         /\ t.file = IF st.cache.slots[i].items[o].changed /\ ~discard
                     THEN [st.file EXCEPT ![PageOf(st.cache.slots[i], o)]
                             = st.cache.slots[i].items[o].data]
                     ELSE st.file
<1>1. PICK s : s = st.cache.slots[i]
  OBVIOUS
<1>2. PICK f : f = FreedIn(s, o)
  OBVIOUS
<1>3. PICK b : b = IF s.items[o].changed /\ ~discard
                   THEN [st EXCEPT !.file[PageOf(s, o)] = s.items[o].data] ELSE st
  OBVIOUS
<1>4. t = [b EXCEPT !.cache.slots[i] = f, !.cache.num_cached = @ - 1]
  BY <1>1, <1>2, <1>3 DEF FreedItem, FreedIn, Stored
<1>5. st \in Stores(n)
  BY DEF StoreOK
<1>6. /\ b.cache = st.cache /\ b = [cache |-> b.cache, file |-> b.file]
      /\ b.file = IF s.items[o].changed /\ ~discard
                  THEN [st.file EXCEPT ![PageOf(s, o)] = s.items[o].data] ELSE st.file
  BY <1>3, <1>5 DEF Stores
<1>7. PICK c : c = [st.cache EXCEPT !.slots[i] = f, !.num_cached = @ - 1]
  OBVIOUS
<1>8. t = [cache |-> c, file |-> b.file]
  BY <1>4, <1>6, <1>7
<1>9. SlotInv(s) /\ s \in AnySlot /\ st.file \in [Page -> Value]
  BY <1>1, InStore
<1>10. f \in AnySlot
  BY <1>1, <1>2, <1>9, ItemFreed DEF SlotInv
<1>11. s.items[o].data \in Value /\ PageOf(s, o) \in Page
  BY <1>1, <1>9, InSlot DEF SlotInv
<1>12. b.file \in [Page -> Value]
  BY <1>6, <1>9, <1>11
<1>13. /\ c \in [slots : [0 .. n - 1 -> AnySlot], num_cached : Int, num_regions : Int]
       /\ c.slots = [st.cache.slots EXCEPT ![i] = f]
       /\ c.num_cached = st.cache.num_cached - 1
       /\ c.num_regions = st.cache.num_regions
  <2>1. /\ st.cache \in [slots : [0 .. n - 1 -> AnySlot], num_cached : Int, num_regions : Int]
        /\ st.cache.slots \in [0 .. n - 1 -> AnySlot]
    BY <1>5 DEF Stores
  <2>2. PICK r : r = [st.cache.slots EXCEPT ![i] = f]
    OBVIOUS
  <2>3. r \in [0 .. n - 1 -> AnySlot]
    BY <1>10, <2>1, <2>2
  <2>4. c = [st.cache EXCEPT !.slots = r, !.num_cached = @ - 1]
    BY <1>7, <2>2
  <2>5. PICK d : d = st.cache
    OBVIOUS
  <2>6. /\ d \in [slots : [0 .. n - 1 -> AnySlot], num_cached : Int, num_regions : Int]
        /\ c = CountedDown(d, r)
    BY <2>1, <2>4, <2>5 DEF CountedDown
  <2>7. /\ c \in [slots : [0 .. n - 1 -> AnySlot], num_cached : Int, num_regions : Int]
        /\ c.slots = r /\ c.num_cached = d.num_cached - 1 /\ c.num_regions = d.num_regions
    <3>1. PICK N : N = [0 .. n - 1 -> AnySlot]
      OBVIOUS
    <3>2. d \in [slots : N, num_cached : Int, num_regions : Int] /\ r \in N
      BY <2>3, <2>6, <3>1
    <3>3. /\ c \in [slots : N, num_cached : Int, num_regions : Int]
          /\ c.slots = r /\ c.num_cached = d.num_cached - 1 /\ c.num_regions = d.num_regions
      BY <2>6, <3>2, CacheWith
    <3> QED BY <3>1, <3>3
  <2> QED BY <2>2, <2>5, <2>7
<1>14. t \in Stores(n)
  BY <1>8, <1>12, <1>13 DEF Stores
<1>15. t.cache = c /\ t.file = b.file
  BY <1>8
<1>16. t.file = IF st.cache.slots[i].items[o].changed /\ ~discard
                THEN [st.file EXCEPT ![PageOf(st.cache.slots[i], o)]
                        = st.cache.slots[i].items[o].data]
                ELSE st.file
  BY <1>1, <1>6, <1>15
<1>17. /\ t.cache.slots = [st.cache.slots EXCEPT ![i] = FreedIn(st.cache.slots[i], o)]
       /\ t.cache.num_cached = st.cache.num_cached - 1
       /\ t.cache.num_regions = st.cache.num_regions
  BY <1>1, <1>2, <1>13, <1>15
<1> QED BY <1>14, <1>16, <1>17

\* Slots that show a page alike.
LEMMA FineSame ==
  ASSUME NEW st, NEW t, NEW q, Slots(t.cache) = Slots(st.cache), t.file[q] = st.file[q],
         \A j \in Slots(st.cache) :
           /\ Shows(t.cache.slots[j], q) <=> Shows(st.cache.slots[j], q)
           /\ Shows(st.cache.slots[j], q) =>
                SameItem(st.cache.slots[j].items[q % PerRegion],
                         t.cache.slots[j].items[q % PerRegion])
  PROVE  /\ \A v : Fine(st, q, v) <=> Fine(t, q, v)
         /\ CachedIn(st, q) <=> CachedIn(t, q)
<1>1. CachedIn(st, q) <=> CachedIn(t, q)
  BY DEF CachedIn
<1>2. \A j \in Slots(st.cache) : Shows(st.cache.slots[j], q) =>
        /\ st.cache.slots[j].items[q % PerRegion].data = t.cache.slots[j].items[q % PerRegion].data
        /\ st.cache.slots[j].items[q % PerRegion].changed = t.cache.slots[j].items[q % PerRegion].changed
  BY DEF SameItem, Shows, Has
<1>3. ASSUME NEW v PROVE Fine(st, q, v) <=> Fine(t, q, v)
  BY <1>1, <1>2 DEF Fine
<1> QED BY <1>1, <1>3

\* A slot shows the page of an item that it has.
LEMMA ShowsIs ==
  ASSUME NEW s, SlotInv(s), NEW q \in Page, NEW o \in Offset, Has(s, o)
  PROVE  PageOf(s, o) = q <=> (Shows(s, q) /\ q % PerRegion = o)
<1>1. q \in Nat /\ s.region \in Nat
  BY Sizes DEF SlotInv
<1>2. s.region * PerRegion + o = q <=> s.region = q \div PerRegion /\ o = q % PerRegion
  BY <1>1, PageOfIs
<1>3. ASSUME o = q % PerRegion PROVE Shows(s, q) <=> s.region = q \div PerRegion
  BY <1>3 DEF Shows
<1> QED BY <1>2, <1>3 DEF PageOf

LEMMA OffsetIs == \A q \in Page : /\ q % PerRegion \in Offset /\ q \in Nat
                                  /\ q \div PerRegion \in Nat /\ q \div PerRegion # None
<1> SUFFICES ASSUME NEW q \in Page
             PROVE  /\ q % PerRegion \in Offset /\ q \in Nat
                    /\ q \div PerRegion \in Nat /\ q \div PerRegion # None
  OBVIOUS
<1>1. q \in Nat
  BY Sizes
<1>2. PICK a \in Nat, b \in Offset : q \div PerRegion = a /\ q % PerRegion = b
  BY <1>1, Division
<1>3. a # None
  BY DEF None
<1> QED BY <1>1, <1>2, <1>3

\* Items of slot "i" at the offsets "os" are freed; the pages that may be lost by it.
LostPages(s, os, discard) == IF discard THEN {PageOf(s, o) : o \in os} ELSE {}

Freed(st, t, n, i, os, discard) ==
  /\ StoreOK(t, n)
  /\ t.cache.num_regions = st.cache.num_regions
  /\ \A j \in (0 .. n - 1) \ {i} : t.cache.slots[j] = st.cache.slots[j]
  /\ t.cache.slots[i].region = st.cache.slots[i].region
  /\ t.cache.slots[i].flush_cost <= st.cache.slots[i].flush_cost
  /\ \A p \in os : ~Has(t.cache.slots[i], p)
  /\ \A p \in Offset \ os : SameItem(st.cache.slots[i].items[p], t.cache.slots[i].items[p])
  /\ KeepsPages(st, t, LostPages(st.cache.slots[i], os, discard))
  /\ discard => t.file = st.file

LEMMA FreedItemKeeps ==
  ASSUME NEW n \in Nat, NEW st, StoreOK(st, n), NEW i \in 0 .. n - 1, NEW o \in Offset,
         NEW discard \in BOOLEAN, NEW t, t = FreedItem(st, i, o, discard)
  PROVE  /\ Freed(st, t, n, i, {o}, discard)
         /\ Has(st.cache.slots[i], o) => t.cache.num_cached = st.cache.num_cached - 1
<1>1. CASE ~Has(st.cache.slots[i], o)
  <2>1. t = st
    BY <1>1 DEF FreedItem
  <2>2. st.cache.slots[i].flush_cost \in Nat
    BY InStore DEF AnySlot
  <2>3. st.cache.slots[i].flush_cost <= st.cache.slots[i].flush_cost
    BY <2>2
  <2>4. \A p : SameItem(st.cache.slots[i].items[p], st.cache.slots[i].items[p])
    BY DEF SameItem
  <2> QED BY <1>1, <2>1, <2>3, <2>4, KeptSelf DEF Freed
<1>2. CASE Has(st.cache.slots[i], o)
  <2>1. PICK s : s = st.cache.slots[i]
    OBVIOUS
  <2>2. PICK f : f = FreedIn(s, o)
    OBVIOUS
  <2>3. /\ t \in Stores(n)
        /\ t.cache.slots = [st.cache.slots EXCEPT ![i] = f]
        /\ t.cache.num_cached = st.cache.num_cached - 1
        /\ t.cache.num_regions = st.cache.num_regions
        /\ t.file = IF s.items[o].changed /\ ~discard
                    THEN [st.file EXCEPT ![PageOf(s, o)] = s.items[o].data] ELSE st.file
    BY <1>2, <2>1, <2>2, FreedItemIs
  <2>4. /\ Slots(st.cache) = 0 .. n - 1 /\ st.cache.slots \in [0 .. n - 1 -> AnySlot]
        /\ SlotInv(s) /\ s \in AnySlot /\ st.file \in [Page -> Value]
        /\ IsFiniteSet(Places(st.cache))
        /\ \A j \in 0 .. n - 1 : SlotInv(st.cache.slots[j]) /\ st.cache.slots[j] \in AnySlot
    BY <2>1, InStore
  <2>5. /\ SlotInv(f) /\ f.region = s.region /\ f.flush_cost <= s.flush_cost
        /\ f.items[o] = NoItem /\ \A p \in Offset \ {o} : SameItem(s.items[p], f.items[p])
    BY <1>2, <2>1, <2>2, <2>4, ItemFreed
  <2>6. t.cache.slots[i] = f /\ \A j \in (0 .. n - 1) \ {i} : t.cache.slots[j] = st.cache.slots[j]
    BY <2>3, <2>4
  <2>7. ~Has(f, o) /\ \A p \in Offset \ {o} : Has(f, p) <=> Has(s, p)
    BY <2>5 DEF Has, SameItem
  <2>8. Slots(t.cache) = 0 .. n - 1
    BY <2>3 DEF Stores, Slots
  <2>9. StoreOK(t, n)
    <3>1. \A j \in 0 .. n - 1 : SlotInv(t.cache.slots[j])
      BY <2>4, <2>5, <2>6
    <3>2. \A j \in 0 .. n - 1 : t.cache.slots[j].region = st.cache.slots[j].region
      BY <2>1, <2>5, <2>6
    <3>3. \A j, k \in 0 .. n - 1 :
            j # k /\ t.cache.slots[j].region = t.cache.slots[k].region =>
              t.cache.slots[j].region = None
      BY <3>2 DEF StoreOK
    <3>4. Places(t.cache) = Places(st.cache) \ {<<i, o>>}
      <4>1. ASSUME NEW j \in 0 .. n - 1, NEW p \in Offset
            PROVE  Has(t.cache.slots[j], p) <=> Has(st.cache.slots[j], p) /\ <<j, p>> # <<i, o>>
        BY <2>1, <2>6, <2>7
      <4> QED BY <2>4, <2>8, <4>1 DEF Places
    <3>5. <<i, o>> \in Places(st.cache)
      BY <1>2, <2>4 DEF Places
    <3>6. Cardinality(Places(t.cache)) = Cardinality(Places(st.cache)) - 1
      <4>1. PICK S : S = Places(st.cache)
        OBVIOUS
      <4>2. PICK x : x = <<i, o>>
        OBVIOUS
      <4>3. IsFiniteSet(S) /\ x \in S
        BY <2>4, <3>5, <4>1, <4>2
      <4>4. Cardinality(S \ {x}) = Cardinality(S) - 1
        BY <4>3, FS_RemoveElement
      <4> QED BY <3>4, <4>1, <4>2, <4>4
    <3>7. t.cache.num_cached = Cardinality(Places(t.cache))
      BY <2>3, <3>6 DEF StoreOK
    <3> QED BY <2>3, <3>1, <3>3, <3>7 DEF StoreOK
  <2>10. KeepsPages(st, t, LostPages(s, {o}, discard))
    <3> SUFFICES ASSUME NEW q \in Page
                 PROVE  /\ \A v \in Value : Fine(st, q, v) /\ q \notin LostPages(s, {o}, discard) =>
                                              Fine(t, q, v) /\ t.file[q] \in {st.file[q], v}
                        /\ ~CachedIn(st, q) => ~CachedIn(t, q) /\ t.file[q] = st.file[q]
      BY DEF KeepsPages
    <3>1. PICK p \in Offset : p = q % PerRegion
      BY OffsetIs
    <3>2. CASE PageOf(s, o) # q
      <4>1. t.file[q] = st.file[q]
        BY <2>3, <2>4, <3>2
      <4>2. ASSUME NEW j \in 0 .. n - 1
            PROVE  /\ Shows(t.cache.slots[j], q) <=> Shows(st.cache.slots[j], q)
                   /\ Shows(st.cache.slots[j], q) =>
                        SameItem(st.cache.slots[j].items[q % PerRegion],
                                 t.cache.slots[j].items[q % PerRegion])
        <5>1. CASE j # i
          BY <2>6, <5>1 DEF SameItem
        <5>2. CASE j = i
          <6>1. Shows(s, q) => p # o
            BY <1>2, <2>1, <2>4, <3>1, <3>2, ShowsIs
          <6>2. Shows(f, q) => p # o
            BY <2>7, <3>1 DEF Shows
          <6>3. p # o => (Shows(f, q) <=> Shows(s, q)) /\ SameItem(s.items[p], f.items[p])
            BY <2>5, <2>7, <3>1 DEF Shows
          <6> QED BY <2>1, <2>6, <3>1, <5>2, <6>1, <6>2, <6>3
        <5> QED BY <5>1, <5>2
      <4>3. (\A v : Fine(st, q, v) <=> Fine(t, q, v)) /\ (CachedIn(st, q) <=> CachedIn(t, q))
        BY <2>4, <2>8, <4>1, <4>2, FineSame
      <4> QED BY <4>1, <4>3
    <3>3. CASE PageOf(s, o) = q
      <4>1. Shows(s, q) /\ p = o
        BY <1>2, <2>1, <2>4, <3>1, <3>3, ShowsIs
      <4>2. CachedIn(st, q)
        BY <2>1, <2>4, <4>1 DEF CachedIn
      <4>3. ~CachedIn(t, q)
        <5>1. ASSUME NEW j \in 0 .. n - 1, j # i PROVE ~Shows(t.cache.slots[j], q)
          <6>1. s.region = q \div PerRegion /\ s.region # None
            BY <4>1, OffsetIs DEF Shows
          <6>2. st.cache.slots[j].region # s.region
            BY <2>1, <5>1, <6>1 DEF StoreOK
          <6> QED BY <2>6, <5>1, <6>1, <6>2 DEF Shows
        <5>2. ~Shows(f, q)
          BY <2>7, <3>1, <4>1 DEF Shows
        <5> QED BY <2>6, <2>8, <5>1, <5>2 DEF CachedIn
      <4>4. ASSUME NEW v \in Value, Fine(st, q, v), ~discard
            PROVE  Fine(t, q, v) /\ t.file[q] = v
        <5>1. s.items[p].data = v /\ (s.items[p].changed \/ st.file[q] = v)
          BY <2>1, <2>4, <3>1, <4>1, <4>4 DEF Fine
        <5>2. t.file[q] = v
          BY <2>3, <2>4, <3>3, <4>1, <4>4, <5>1
        <5> QED BY <2>8, <4>3, <5>2 DEF Fine, CachedIn
      <4>5. discard => q \in LostPages(s, {o}, discard)
        BY <3>3 DEF LostPages
      <4> QED BY <4>2, <4>4, <4>5
    <3> QED BY <3>2, <3>3
  <2>11. discard => t.file = st.file
    BY <2>3
  <2> QED BY <2>1, <2>3, <2>5, <2>6, <2>7, <2>9, <2>10, <2>11 DEF Freed
<1> QED BY <1>1, <1>2

LEMMA SameItemAgain ==
  \A x, y, z : SameItem(x, y) /\ SameItem(y, z) => SameItem(x, z)
BY DEF SameItem

LEMMA FreedAgain ==
  ASSUME NEW n \in Nat, NEW i \in 0 .. n - 1, NEW os \in SUBSET Offset, NEW o \in Offset,
         NEW discard \in BOOLEAN, NEW st, NEW t, NEW u, StoreOK(st, n),
         Freed(st, t, n, i, os, discard), Freed(t, u, n, i, {o}, discard)
  PROVE  Freed(st, u, n, i, os \cup {o}, discard)
<1>1. /\ StoreOK(u, n) /\ u.cache.num_regions = st.cache.num_regions
      /\ \A j \in (0 .. n - 1) \ {i} : u.cache.slots[j] = st.cache.slots[j]
      /\ u.cache.slots[i].region = st.cache.slots[i].region
      /\ discard => u.file = st.file
  BY DEF Freed
<1>2. /\ st.cache.slots[i].flush_cost \in Nat /\ t.cache.slots[i].flush_cost \in Nat
      /\ u.cache.slots[i].flush_cost \in Nat
  BY InStore DEF AnySlot, Freed
<1>3. u.cache.slots[i].flush_cost <= st.cache.slots[i].flush_cost
  BY <1>2 DEF Freed
<1>4. ASSUME NEW p \in os \cup {o} PROVE ~Has(u.cache.slots[i], p)
  BY <1>4 DEF Freed, SameItem, Has
<1>5. ASSUME NEW p \in Offset \ (os \cup {o})
      PROVE  SameItem(st.cache.slots[i].items[p], u.cache.slots[i].items[p])
  <2>1. /\ SameItem(st.cache.slots[i].items[p], t.cache.slots[i].items[p])
        /\ SameItem(t.cache.slots[i].items[p], u.cache.slots[i].items[p])
    BY <1>5 DEF Freed
  <2> QED BY <2>1, SameItemAgain
<1>6. LostPages(st.cache.slots[i], os, discard) \cup LostPages(t.cache.slots[i], {o}, discard)
        = LostPages(st.cache.slots[i], os \cup {o}, discard)
  <2>1. \A p : PageOf(t.cache.slots[i], p) = PageOf(st.cache.slots[i], p)
    BY DEF PageOf, Freed
  <2> QED BY <2>1 DEF LostPages
<1>7. KeepsPages(st, u, LostPages(st.cache.slots[i], os \cup {o}, discard))
  <2>1. /\ KeepsPages(st, t, LostPages(st.cache.slots[i], os, discard))
        /\ KeepsPages(t, u, LostPages(t.cache.slots[i], {o}, discard))
    BY DEF Freed
  <2>2. KeepsPages(st, u, LostPages(st.cache.slots[i], os, discard)
                            \cup LostPages(t.cache.slots[i], {o}, discard))
    BY <2>1, KeptAgain
  <2> QED BY <1>6, <2>2
<1> QED BY <1>1, <1>3, <1>4, <1>5, <1>7 DEF Freed

LEMMA FreedNone ==
  ASSUME NEW n \in Nat, NEW st, StoreOK(st, n), NEW i \in 0 .. n - 1, NEW discard \in BOOLEAN
  PROVE  Freed(st, st, n, i, {}, discard)
<1>1. st.cache.slots[i].flush_cost <= st.cache.slots[i].flush_cost
  <2>1. st.cache.slots[i].flush_cost \in Nat
    BY InStore DEF AnySlot
  <2> QED BY <2>1
<1>2. \A p : SameItem(st.cache.slots[i].items[p], st.cache.slots[i].items[p])
  BY DEF SameItem
<1> QED BY <1>1, <1>2, KeptSelf DEF Freed

LEMMA NextNumber ==
  ASSUME NEW first \in Nat, NEW k \in Nat, k > 0
  PROVE  first .. first + k - 1 = (first .. first + (k - 1) - 1) \cup {first + k - 1}
OBVIOUS

LEMMA FreedItemsKeeps ==
  ASSUME NEW n \in Nat, NEW st, StoreOK(st, n), NEW i \in 0 .. n - 1, NEW first \in Offset,
         NEW discard \in BOOLEAN
  PROVE  Freed(st, FreedItems(st, i, first, discard), n, i, first .. PerRegion - 1, discard)
<1> DEFINE G == [k \in 0 .. PerRegion - first |->
                   {t \in Stores(n) : Freed(st, t, n, i, first .. first + k - 1, discard)}]
<1>1. first \in Nat /\ PerRegion - first \in Nat /\ first + (PerRegion - first) - 1 = PerRegion - 1
  BY Sizes DEF Offset
<1>2. st \in G[0]
  <2>1. first .. first + 0 - 1 = {}
    BY <1>1
  <2>2. st \in Stores(n) /\ Freed(st, st, n, i, {}, discard)
    BY FreedNone DEF StoreOK
  <2>3. 0 \in 0 .. PerRegion - first
    BY <1>1
  <2> QED BY <2>1, <2>2, <2>3
<1>3. ASSUME NEW k \in 1 .. PerRegion - first, NEW t \in G[k - 1]
      PROVE  FreedItem(t, i, first + k - 1, discard) \in G[k]
  <2>1. k \in Nat /\ k > 0 /\ k - 1 \in 0 .. PerRegion - first /\ k \in 0 .. PerRegion - first
    BY <1>1
  <2>2. t \in Stores(n) /\ Freed(st, t, n, i, first .. first + (k - 1) - 1, discard)
    BY <2>1
  <2>3. first + k - 1 \in Offset /\ first .. first + (k - 1) - 1 \in SUBSET Offset
    BY <1>1, <2>1 DEF Offset
  <2> DEFINE u == FreedItem(t, i, first + k - 1, discard)
  <2>4. StoreOK(t, n)
    BY <2>2 DEF Freed
  <2>5. Freed(t, u, n, i, {first + k - 1}, discard)
    BY <2>3, <2>4, FreedItemKeeps
  <2> HIDE DEF u
  <2>6. Freed(st, u, n, i, (first .. first + (k - 1) - 1) \cup {first + k - 1}, discard)
    BY <2>2, <2>3, <2>5, FreedAgain
  <2>7. Freed(st, u, n, i, first .. first + k - 1, discard)
    BY <1>1, <2>1, <2>6, NextNumber
  <2>8. u \in Stores(n)
    BY <2>7 DEF Freed, StoreOK
  <2> QED BY <2>1, <2>7, <2>8 DEF u
<1> HIDE DEF G
<1>4. FreedItems(st, i, first, discard) \in G[PerRegion - first]
  BY <1>2, <1>3, FreedItemsFold
<1>5. PerRegion - first \in 0 .. PerRegion - first
  BY <1>1
<1> QED BY <1>1, <1>4, <1>5 DEF G

\* Places and counts of caches.
LEMMA FewerPlaces ==
  ASSUME NEW n \in Nat, NEW st, NEW t, StoreOK(st, n), StoreOK(t, n),
         Places(t.cache) \subseteq Places(st.cache)
  PROVE  /\ t.cache.num_cached <= st.cache.num_cached
         /\ t.cache.num_cached = st.cache.num_cached => Places(t.cache) = Places(st.cache)
<1>1. IsFiniteSet(Places(st.cache)) /\ Places(t.cache) \in SUBSET Places(st.cache)
  BY InStore
<1> QED BY <1>1, FS_Subset DEF StoreOK

LEMMA EmptyIs ==
  /\ EmptySlot \in AnySlot /\ EmptySlot.region = None /\ EmptySlot.flush_cost = 0
  /\ \A o : ~Has(EmptySlot, o) \/ o \notin Offset
  /\ SlotInv(EmptySlot)
  /\ \A q \in Page : ~Shows(EmptySlot, q)
<1>1. /\ EmptySlot \in AnySlot /\ EmptySlot.region = None /\ EmptySlot.flush_cost = 0
      /\ EmptySlot.items = [o \in Offset |-> NoItem]
  BY DEF EmptySlot, AnySlot, Link, List
<1>2. \A o \in Offset : ~Has(EmptySlot, o)
  BY <1>1 DEF Has
<1>3. Unflushed(EmptySlot) = {}
  BY <1>2 DEF Unflushed
<1>4. SlotInv(EmptySlot)
  BY <1>1, <1>2, <1>3, FS_EmptySet DEF SlotInv
<1>5. \A q \in Page : ~Shows(EmptySlot, q)
  BY <1>2, OffsetIs DEF Shows
<1> QED BY <1>1, <1>2, <1>4, <1>5

\* free_cache_region, and what it leaves of a store.
Emptied(st, t, n, i, discard) ==
  /\ StoreOK(t, n)
  /\ t.cache.slots[i] = EmptySlot
  /\ \A j \in (0 .. n - 1) \ {i} : t.cache.slots[j] = st.cache.slots[j]
  /\ KeepsPages(st, t, LostPages(st.cache.slots[i], Offset, discard))
  /\ Places(t.cache) \subseteq Places(st.cache)
  /\ discard => t.file = st.file

LEMMA FreedRegionKeeps ==
  ASSUME NEW n \in Nat, NEW st, StoreOK(st, n), NEW i \in 0 .. n - 1,
         NEW reuse \in BOOLEAN, NEW discard \in BOOLEAN, NEW t,
         t = FreedRegion(st, i, reuse, discard)
  PROVE  /\ Emptied(st, t, n, i, discard)
         /\ t.cache.num_regions = IF ~reuse /\ i = st.cache.num_regions - 1
                                  THEN st.cache.num_regions - 1 ELSE st.cache.num_regions
<1>1. PICK u : u = FreedItems(st, i, 0, discard)
  OBVIOUS
<1>2. Freed(st, u, n, i, Offset, discard)
  <2>1. 0 \in Offset /\ Offset = 0 .. PerRegion - 1
    BY Sizes DEF Offset
  <2> QED BY <1>1, <2>1, FreedItemsKeeps
<1>3. PICK m : m = IF ~reuse /\ i = u.cache.num_regions - 1
                   THEN u.cache.num_regions - 1 ELSE u.cache.num_regions
  OBVIOUS
<1>4. t = [u EXCEPT !.cache.slots[i] = EmptySlot, !.cache.num_regions = m]
  BY <1>1, <1>3 DEF FreedRegion
<1>5. /\ StoreOK(u, n) /\ u \in Stores(n) /\ u.cache.num_regions = st.cache.num_regions
      /\ Slots(u.cache) = 0 .. n - 1 /\ u.cache.slots \in [0 .. n - 1 -> AnySlot]
      /\ u.cache.num_regions \in Int
      /\ \A j \in 0 .. n - 1 : SlotInv(u.cache.slots[j])
  BY <1>2, InStore DEF Freed, StoreOK
<1>6. m \in Int
  BY <1>3, <1>5
<1>7. /\ t \in Stores(n) /\ t.file = u.file
      /\ t.cache.slots = [u.cache.slots EXCEPT ![i] = EmptySlot]
      /\ t.cache.num_cached = u.cache.num_cached /\ t.cache.num_regions = m
  <2>1. PICK c : c = [u.cache EXCEPT !.slots[i] = EmptySlot, !.num_regions = m]
    OBVIOUS
  <2>2. PICK d : d = u.cache
    OBVIOUS
  <2>3. PICK r : r = [d.slots EXCEPT ![i] = EmptySlot]
    OBVIOUS
  <2>4. c = [d EXCEPT !.slots = r, !.num_regions = m]
    BY <2>1, <2>2, <2>3
  <2>5. d \in [slots : [0 .. n - 1 -> AnySlot], num_cached : Int, num_regions : Int]
    BY <1>5, <2>2 DEF Stores
  <2>6. r \in [0 .. n - 1 -> AnySlot]
    BY <1>5, <2>2, <2>3, EmptyIs
  <2>7. c.slots = r /\ c.num_cached = d.num_cached /\ c.num_regions = m
    BY <2>4, <2>5
  <2>8. c \in [slots : [0 .. n - 1 -> AnySlot], num_cached : Int, num_regions : Int]
    BY <1>6, <2>4, <2>5, <2>6
  <2>9. t = [u EXCEPT !.cache = c]
    BY <1>4, <2>1
  <2>10. t \in Stores(n) /\ t.file = u.file /\ t.cache = c
    BY <1>5, <2>8, <2>9 DEF Stores
  <2> QED BY <2>2, <2>3, <2>7, <2>10
<1>8. /\ t.cache.slots[i] = EmptySlot
      /\ \A j \in (0 .. n - 1) \ {i} : t.cache.slots[j] = u.cache.slots[j]
      /\ Slots(t.cache) = 0 .. n - 1
  BY <1>5, <1>7 DEF Slots
<1>9. \A p \in Offset : ~Has(u.cache.slots[i], p)
  BY <1>2 DEF Freed
<1>10. Places(t.cache) = Places(u.cache)
  <2>1. \A j \in 0 .. n - 1, p \in Offset :
          Has(t.cache.slots[j], p) <=> Has(u.cache.slots[j], p)
    BY <1>8, <1>9, EmptyIs
  <2> QED BY <1>5, <1>8, <2>1 DEF Places
<1>11. StoreOK(t, n)
  <2>1. \A j \in 0 .. n - 1 : SlotInv(t.cache.slots[j])
    BY <1>5, <1>8, EmptyIs
  <2>2. \A j, k \in 0 .. n - 1 :
          j # k /\ t.cache.slots[j].region = t.cache.slots[k].region =>
            t.cache.slots[j].region = None
    <3>1. \A j, k \in 0 .. n - 1 :
            j # k /\ u.cache.slots[j].region = u.cache.slots[k].region =>
              u.cache.slots[j].region = None
      BY <1>5 DEF StoreOK
    <3>2. t.cache.slots[i].region = None
      BY <1>8, EmptyIs
    <3>3. ASSUME NEW j \in 0 .. n - 1, NEW k \in 0 .. n - 1, j # k,
                 t.cache.slots[j].region = t.cache.slots[k].region
          PROVE  t.cache.slots[j].region = None
      <4>1. CASE j = i \/ k = i
        BY <3>2, <3>3, <4>1
      <4>2. CASE j # i /\ k # i
        BY <1>8, <3>1, <3>3, <4>2
      <4> QED BY <4>1, <4>2
    <3> QED BY <3>3
  <2> QED BY <1>5, <1>7, <1>10, <2>1, <2>2 DEF StoreOK
<1>12. KeepsPages(u, t, {})
  <2> SUFFICES ASSUME NEW q \in Page
               PROVE  /\ \A v \in Value : Fine(u, q, v) =>
                                            Fine(t, q, v) /\ t.file[q] \in {u.file[q], v}
                      /\ ~CachedIn(u, q) => ~CachedIn(t, q) /\ t.file[q] = u.file[q]
    BY DEF KeepsPages
  <2>1. ~Shows(u.cache.slots[i], q) /\ ~Shows(t.cache.slots[i], q)
    BY <1>8, <1>9, EmptyIs, OffsetIs DEF Shows
  <2>2. \A j \in Slots(u.cache) :
           /\ Shows(t.cache.slots[j], q) <=> Shows(u.cache.slots[j], q)
           /\ Shows(u.cache.slots[j], q) =>
                SameItem(u.cache.slots[j].items[q % PerRegion],
                         t.cache.slots[j].items[q % PerRegion])
    BY <1>5, <1>8, <2>1 DEF SameItem
  <2>3. t.file[q] = u.file[q] /\ Slots(t.cache) = Slots(u.cache)
    BY <1>5, <1>7, <1>8
  <2> QED BY <2>2, <2>3, FineSame
<1>13. KeepsPages(st, t, LostPages(st.cache.slots[i], Offset, discard))
  <2>1. KeepsPages(st, u, LostPages(st.cache.slots[i], Offset, discard))
    BY <1>2 DEF Freed
  <2>2. KeepsPages(st, t, LostPages(st.cache.slots[i], Offset, discard) \cup {})
    BY <1>12, <2>1, KeptAgain
  <2> QED BY <2>2, KeptBy
<1>14. Places(t.cache) \subseteq Places(st.cache)
  <2>1. \A j \in 0 .. n - 1, p \in Offset : Has(t.cache.slots[j], p) => Has(st.cache.slots[j], p)
    BY <1>2, <1>8, EmptyIs DEF Freed
  <2> QED BY <1>8, <2>1, InStore DEF Places
<1>15. \A j \in (0 .. n - 1) \ {i} : t.cache.slots[j] = st.cache.slots[j]
  BY <1>2, <1>8 DEF Freed
<1>16. discard => t.file = st.file
  BY <1>2, <1>7 DEF Freed
<1> QED BY <1>3, <1>5, <1>7, <1>8, <1>11, <1>13, <1>14, <1>15, <1>16 DEF Emptied

-----------------------------------------------------------------------------
(* Making room (retain_item_in_cache).                                     *)

\* The slots that hold a region are the first ones.
Prefix(c, n) ==
  /\ c.num_regions \in 0 .. n
  /\ \A i \in 0 .. n - 1 : c.slots[i].region # None <=> i < c.num_regions

CacheOK(st, n) == StoreOK(st, n) /\ Prefix(st.cache, n) /\ st.cache.num_cached <= MaxItems

LEMMA SlotOfIs ==
  ASSUME NEW n \in Nat, NEW st, StoreOK(st, n), NEW region \in Nat
  PROVE  LET i == SlotOf(st.cache, region)
         IN \/ i \in 0 .. n - 1 /\ st.cache.slots[i].region = region
            \/ i = None /\ \A j \in 0 .. n - 1 : st.cache.slots[j].region # region
<1>1. Slots(st.cache) = 0 .. n - 1
  BY InStore
<1>2. CASE \E i \in 0 .. n - 1 : st.cache.slots[i].region = region
  <2>1. PICK i \in 0 .. n - 1 : st.cache.slots[i].region = region
    BY <1>2
  <2>2. \A j \in 0 .. i - 1 : st.cache.slots[j].region # region
    <3>1. region # None
      BY DEF None
    <3>2. \A j \in 0 .. i - 1 : j \in 0 .. n - 1 /\ j # i
      OBVIOUS
    <3> QED BY <2>1, <3>1, <3>2 DEF StoreOK
  <2>3. \E k \in Slots(st.cache) : /\ st.cache.slots[k].region = region
                                   /\ \A j \in 0 .. k - 1 : st.cache.slots[j].region # region
    BY <1>1, <2>1, <2>2
  <2>4. SlotOf(st.cache, region)
          = CHOOSE k \in Slots(st.cache) : /\ st.cache.slots[k].region = region
                                           /\ \A j \in 0 .. k - 1 : st.cache.slots[j].region # region
    BY <1>1, <1>2 DEF SlotOf
  <2>5. /\ SlotOf(st.cache, region) \in Slots(st.cache)
        /\ st.cache.slots[SlotOf(st.cache, region)].region = region
    BY <2>3, <2>4
  <2> QED BY <1>1, <2>5
<1>3. CASE \A i \in 0 .. n - 1 : st.cache.slots[i].region # region
  BY <1>1, <1>3 DEF SlotOf
<1> QED BY <1>2, <1>3

LEMMA SlotOne ==
  ASSUME NEW n \in Nat, NEW st, StoreOK(st, n), NEW region \in Nat, NEW i \in 0 .. n - 1,
         st.cache.slots[i].region = region
  PROVE  SlotOf(st.cache, region) = i
<1>1. region # None
  BY DEF None
<1> QED BY <1>1, SlotOfIs DEF StoreOK

\* A slot without items gets a region that no slot has.
RegionGiven(st, i, region) == [st EXCEPT !.cache.slots[i].region = region]

RegionFits(st, n, i, region) ==
  /\ StoreOK(st, n) /\ i \in 0 .. n - 1
  /\ \A o \in Offset : ~Has(st.cache.slots[i], o)
  /\ \A j \in 0 .. n - 1 : st.cache.slots[j].region # region

RegionPut(st, t, n, i, region) ==
  /\ StoreOK(t, n) /\ t.cache.slots[i].region = region
  /\ t.cache.num_regions = st.cache.num_regions
  /\ \A j \in (0 .. n - 1) \ {i} : t.cache.slots[j] = st.cache.slots[j]
  /\ KeepsPages(st, t, {})
  /\ Places(t.cache) = Places(st.cache)

LEMMA RegionGivenKeeps ==
  ASSUME NEW n \in Nat, NEW st, NEW i, NEW region \in Nat, RegionFits(st, n, i, region),
         NEW t, t = RegionGiven(st, i, region)
  PROVE  RegionPut(st, t, n, i, region)
<1>0. /\ StoreOK(st, n) /\ i \in 0 .. n - 1
      /\ \A o \in Offset : ~Has(st.cache.slots[i], o)
      /\ \A j \in 0 .. n - 1 : st.cache.slots[j].region # region
  BY DEF RegionFits
<1> USE <1>0
<1>1. PICK s : s = [st.cache.slots[i] EXCEPT !.region = region]
  OBVIOUS
<1>2. /\ st \in Stores(n) /\ Slots(st.cache) = 0 .. n - 1
      /\ st.cache.slots \in [0 .. n - 1 -> AnySlot] /\ st.file \in [Page -> Value]
      /\ \A j \in 0 .. n - 1 : SlotInv(st.cache.slots[j]) /\ st.cache.slots[j] \in AnySlot
  BY InStore DEF StoreOK
<1>3. /\ s \in AnySlot /\ s.region = region /\ s.items = st.cache.slots[i].items
      /\ s.flush_cost = st.cache.slots[i].flush_cost /\ s.flush_cost \in Nat
  <2>1. PICK x : x = st.cache.slots[i]
    OBVIOUS
  <2>2. x \in AnySlot
    BY <1>2, <2>1
  <2>3. s = [x EXCEPT !.region = region]
    BY <1>1, <2>1
  <2>4. /\ s \in AnySlot /\ s.region = region /\ s.items = x.items
        /\ s.flush_cost = x.flush_cost /\ s.flush_cost \in Nat
    BY <2>2, <2>3 DEF AnySlot
  <2> QED BY <2>1, <2>4
<1>4. /\ t \in Stores(n) /\ t.file = st.file
      /\ t.cache.slots = [st.cache.slots EXCEPT ![i] = s]
      /\ t.cache.num_cached = st.cache.num_cached /\ t.cache.num_regions = st.cache.num_regions
  <2>1. PICK c : c = [st.cache EXCEPT !.slots[i] = s]
    OBVIOUS
  <2>2. PICK d : d = st.cache
    OBVIOUS
  <2>3. PICK r : r = [d.slots EXCEPT ![i] = s]
    OBVIOUS
  <2>4. c = [d EXCEPT !.slots = r]
    BY <2>1, <2>2, <2>3
  <2>5. d \in [slots : [0 .. n - 1 -> AnySlot], num_cached : Int, num_regions : Int]
    BY <1>2, <2>2 DEF Stores
  <2>6. r \in [0 .. n - 1 -> AnySlot]
    BY <1>2, <1>3, <2>2, <2>3
  <2>7. c.slots = r /\ c.num_cached = d.num_cached /\ c.num_regions = d.num_regions
    BY <2>4, <2>5
  <2>8. c \in [slots : [0 .. n - 1 -> AnySlot], num_cached : Int, num_regions : Int]
    BY <2>4, <2>5, <2>6
  <2>9. t = [st EXCEPT !.cache = c]
    BY <1>1, <2>1 DEF RegionGiven
  <2>10. t \in Stores(n) /\ t.file = st.file /\ t.cache = c
    BY <1>2, <2>8, <2>9 DEF Stores
  <2> QED BY <2>2, <2>3, <2>7, <2>10
<1>5. /\ t.cache.slots[i] = s /\ Slots(t.cache) = 0 .. n - 1
      /\ \A j \in (0 .. n - 1) \ {i} : t.cache.slots[j] = st.cache.slots[j]
  BY <1>2, <1>4 DEF Slots
<1>6. \A o \in Offset : ~Has(s, o)
  BY <1>3 DEF Has
<1>7. Unflushed(s) = {}
  BY <1>6 DEF Unflushed
<1>8. SlotInv(s)
  BY <1>3, <1>6, <1>7, FS_EmptySet DEF SlotInv
<1>9. Places(t.cache) = Places(st.cache)
  <2>1. \A j \in 0 .. n - 1, p \in Offset :
          Has(t.cache.slots[j], p) <=> Has(st.cache.slots[j], p)
    BY <1>5, <1>6
  <2> QED BY <1>2, <1>5, <2>1 DEF Places
<1>10. StoreOK(t, n)
  <2>1. \A j \in 0 .. n - 1 : SlotInv(t.cache.slots[j])
    BY <1>2, <1>5, <1>8
  <2>2. ASSUME NEW j \in 0 .. n - 1, NEW k \in 0 .. n - 1, j # k,
               t.cache.slots[j].region = t.cache.slots[k].region
        PROVE  t.cache.slots[j].region = None
    <3>1. CASE j # i /\ k # i
      BY <1>5, <2>2, <3>1 DEF StoreOK
    <3>2. CASE j = i \/ k = i
      BY <1>3, <1>5, <2>2, <3>2
    <3> QED BY <3>1, <3>2
  <2> QED BY <1>4, <1>9, <2>1, <2>2 DEF StoreOK
<1>11. KeepsPages(st, t, {})
  <2> SUFFICES ASSUME NEW q \in Page
               PROVE  /\ \A v \in Value : Fine(st, q, v) =>
                                            Fine(t, q, v) /\ t.file[q] \in {st.file[q], v}
                      /\ ~CachedIn(st, q) => ~CachedIn(t, q) /\ t.file[q] = st.file[q]
    BY DEF KeepsPages
  <2>1. ~Shows(st.cache.slots[i], q) /\ ~Shows(t.cache.slots[i], q)
    BY <1>5, <1>6, OffsetIs DEF Shows
  <2>2. \A j \in Slots(st.cache) :
           /\ Shows(t.cache.slots[j], q) <=> Shows(st.cache.slots[j], q)
           /\ Shows(st.cache.slots[j], q) =>
                SameItem(st.cache.slots[j].items[q % PerRegion],
                         t.cache.slots[j].items[q % PerRegion])
    BY <1>2, <1>5, <2>1 DEF SameItem
  <2>3. t.file[q] = st.file[q] /\ Slots(t.cache) = Slots(st.cache)
    BY <1>2, <1>4, <1>5
  <2> QED BY <2>2, <2>3, FineSame
<1> QED BY <1>3, <1>4, <1>5, <1>9, <1>10, <1>11 DEF RegionPut

\* One region more is counted.
LEMMA RegionCounted ==
  ASSUME NEW n \in Nat, NEW st, StoreOK(st, n), NEW t,
         t = [st EXCEPT !.cache.num_regions = @ + 1]
  PROVE  /\ StoreOK(t, n) /\ t.cache.slots = st.cache.slots
         /\ t.cache.num_regions = st.cache.num_regions + 1
         /\ KeepsPages(st, t, {}) /\ Places(t.cache) = Places(st.cache)
<1>1. st \in Stores(n)
  BY DEF StoreOK
<1>2. /\ t \in Stores(n) /\ t.cache.slots = st.cache.slots /\ t.file = st.file
      /\ t.cache.num_cached = st.cache.num_cached
      /\ t.cache.num_regions = st.cache.num_regions + 1
  <2>1. PICK d : d = st.cache
    OBVIOUS
  <2>2. PICK k : k = d.num_regions + 1
    OBVIOUS
  <2>3. PICK c : c = [d EXCEPT !.num_regions = k]
    OBVIOUS
  <2>4. d \in [slots : [0 .. n - 1 -> AnySlot], num_cached : Int, num_regions : Int] /\ k \in Int
    BY <1>1, <2>1, <2>2 DEF Stores
  <2>5. c.slots = d.slots /\ c.num_cached = d.num_cached /\ c.num_regions = k
    BY <2>3, <2>4
  <2>6. c \in [slots : [0 .. n - 1 -> AnySlot], num_cached : Int, num_regions : Int]
    BY <2>3, <2>4
  <2>7. t = [st EXCEPT !.cache = c]
    BY <2>1, <2>2, <2>3
  <2>8. t \in Stores(n) /\ t.file = st.file /\ t.cache = c
    BY <1>1, <2>6, <2>7 DEF Stores
  <2> QED BY <2>1, <2>2, <2>5, <2>8
<1>3. Places(t.cache) = Places(st.cache) /\ Slots(t.cache) = Slots(st.cache)
  BY <1>2 DEF Places, Slots
<1>4. StoreOK(t, n)
  BY <1>2, <1>3 DEF StoreOK
<1>5. KeepsPages(st, t, {})
  BY <1>2, <1>3 DEF KeepsPages, Fine, CachedIn
<1> QED BY <1>2, <1>3, <1>4, <1>5

LEMMA OccupiedKeeps ==
  ASSUME NEW n \in Nat, NEW st, StoreOK(st, n), Prefix(st.cache, n), NEW region \in Nat,
         \A j \in 0 .. n - 1 : st.cache.slots[j].region # region,
         NEW i \in SlotsFor(st.cache), NEW t, t = Occupied(st, i, region)
  PROVE  /\ i \in 0 .. n - 1
         /\ StoreOK(t, n) /\ Prefix(t.cache, n) /\ t.cache.slots[i].region = region
         /\ KeepsPages(st, t, {}) /\ Places(t.cache) \subseteq Places(st.cache)
<1>1. /\ Slots(st.cache) = 0 .. n - 1 /\ Cardinality(Slots(st.cache)) = n
      /\ st.cache.slots \in [0 .. n - 1 -> AnySlot]
      /\ \A j \in 0 .. n - 1 : SlotInv(st.cache.slots[j])
  <2>1. Cardinality(0 .. n - 1) = n
    <3>1. Cardinality(0 .. n - 1) = IF 0 > n - 1 THEN 0 ELSE n - 1 - 0 + 1
      BY FS_Interval
    <3> QED BY <3>1
  <2> QED BY <2>1, InStore
<1>2. st.cache.num_regions \in 0 .. n
  BY DEF Prefix
<1>3. CASE st.cache.num_regions = n
  <2>1. i \in 0 .. n - 1 /\ st.cache.slots[i].region # None
    <3>1. i \in Slots(st.cache)
      BY <1>1, <1>3 DEF SlotsFor
    <3>2. \A j \in 0 .. n - 1 : st.cache.slots[j].region # None
      BY <1>3 DEF Prefix
    <3> QED BY <1>1, <3>1, <3>2
  <2>2. PICK u : u = FreedRegion(st, i, TRUE, FALSE)
    OBVIOUS
  <2>3. t = RegionGiven(u, i, region)
    BY <2>1, <2>2 DEF Occupied, RegionGiven
  <2>4. Emptied(st, u, n, i, FALSE) /\ u.cache.num_regions = st.cache.num_regions
    <3>1. PICK reuse \in BOOLEAN, discard \in BOOLEAN : reuse = TRUE /\ discard = FALSE
      OBVIOUS
    <3>2. u = FreedRegion(st, i, reuse, discard)
      BY <2>2, <3>1
    <3>3. /\ Emptied(st, u, n, i, discard)
          /\ u.cache.num_regions = IF ~reuse /\ i = st.cache.num_regions - 1
                                   THEN st.cache.num_regions - 1 ELSE st.cache.num_regions
      BY <2>1, <3>2, FreedRegionKeeps
    <3> QED BY <3>1, <3>3
  <2>5. \A o \in Offset : ~Has(u.cache.slots[i], o)
    BY <2>4, EmptyIs DEF Emptied
  <2>6. \A j \in 0 .. n - 1 : u.cache.slots[j].region # region
    <3>1. EmptySlot.region # region
      BY EmptyIs DEF None
    <3> QED BY <2>4, <3>1 DEF Emptied
  <2>7. StoreOK(u, n)
    BY <2>4 DEF Emptied
  <2>8. /\ StoreOK(t, n) /\ t.cache.slots[i].region = region
        /\ t.cache.num_regions = u.cache.num_regions
        /\ \A j \in (0 .. n - 1) \ {i} : t.cache.slots[j] = u.cache.slots[j]
        /\ KeepsPages(u, t, {})
        /\ Places(t.cache) = Places(u.cache)
    <3>1. RegionFits(u, n, i, region)
      BY <2>1, <2>5, <2>6, <2>7 DEF RegionFits
    <3>2. RegionPut(u, t, n, i, region)
      BY <2>3, <3>1, RegionGivenKeeps
    <3> QED BY <3>2 DEF RegionPut
  <2>9. Prefix(t.cache, n)
    <3>1. \A j \in (0 .. n - 1) \ {i} : t.cache.slots[j] = st.cache.slots[j]
      BY <2>4, <2>8 DEF Emptied
    <3>2. region # None
      BY DEF None
    <3>3. t.cache.num_regions = st.cache.num_regions
      BY <2>4, <2>8
    <3> QED BY <1>3, <2>1, <2>8, <3>1, <3>2, <3>3 DEF Prefix
  <2>10. KeepsPages(st, t, {})
    <3>1. KeepsPages(st, u, {})
      BY <2>4 DEF Emptied, LostPages
    <3>2. KeepsPages(st, t, {} \cup {})
      BY <2>8, <3>1, KeptAgain
    <3> QED BY <3>2, KeptBy
  <2>11. Places(t.cache) \subseteq Places(st.cache)
    BY <2>4, <2>8 DEF Emptied
  <2> QED BY <2>1, <2>8, <2>9, <2>10, <2>11
<1>4. CASE st.cache.num_regions # n
  <2>1. i = st.cache.num_regions /\ i \in 0 .. n - 1 /\ st.cache.slots[i].region = None
    <3>1. st.cache.num_regions < n
      BY <1>2, <1>4
    <3>2. i = st.cache.num_regions
      BY <1>1, <1>4, <3>1 DEF SlotsFor
    <3>3. i \in 0 .. n - 1 /\ ~(i < st.cache.num_regions)
      BY <1>2, <3>1, <3>2
    <3> QED BY <3>2, <3>3 DEF Prefix
  <2>2. PICK u : u = [st EXCEPT !.cache.num_regions = @ + 1]
    OBVIOUS
  <2>3. t = RegionGiven(u, i, region)
    BY <2>1, <2>2 DEF Occupied, RegionGiven
  <2>4. /\ StoreOK(u, n) /\ u.cache.slots = st.cache.slots
        /\ u.cache.num_regions = st.cache.num_regions + 1
        /\ KeepsPages(st, u, {}) /\ Places(u.cache) = Places(st.cache)
    BY <2>2, RegionCounted
  <2>5. \A o \in Offset : ~Has(u.cache.slots[i], o)
    <3>1. None \notin Nat
      BY DEF None
    <3> QED BY <1>1, <2>1, <2>4, <3>1 DEF SlotInv
  <2>6. /\ StoreOK(t, n) /\ t.cache.slots[i].region = region
        /\ t.cache.num_regions = u.cache.num_regions
        /\ \A j \in (0 .. n - 1) \ {i} : t.cache.slots[j] = u.cache.slots[j]
        /\ KeepsPages(u, t, {})
        /\ Places(t.cache) = Places(u.cache)
    <3>1. \A j \in 0 .. n - 1 : u.cache.slots[j].region # region
      BY <2>4
    <3>2. StoreOK(u, n) /\ i \in 0 .. n - 1
      BY <2>1, <2>4
    <3>3. RegionFits(u, n, i, region)
      BY <2>5, <3>1, <3>2 DEF RegionFits
    <3>4. RegionPut(u, t, n, i, region)
      BY <2>3, <3>3, RegionGivenKeeps
    <3> QED BY <3>4 DEF RegionPut
  <2>7. Prefix(t.cache, n)
    <3>1. t.cache.num_regions = i + 1
      BY <2>1, <2>4, <2>6
    <3>2. region # None
      BY DEF None
    <3>3. ASSUME NEW j \in 0 .. n - 1
          PROVE  t.cache.slots[j].region # None <=> j < t.cache.num_regions
      <4>1. CASE j = i
        BY <2>6, <3>1, <3>2, <4>1
      <4>2. CASE j # i
        <5>1. t.cache.slots[j] = st.cache.slots[j]
          BY <2>4, <2>6, <4>2
        <5>2. st.cache.slots[j].region # None <=> j < i
          BY <2>1 DEF Prefix
        <5>3. j < i <=> j < i + 1
          BY <2>1, <4>2
        <5> QED BY <3>1, <5>1, <5>2, <5>3
      <4> QED BY <4>1, <4>2
    <3>4. t.cache.num_regions \in 0 .. n
      BY <2>1, <3>1
    <3> QED BY <3>3, <3>4 DEF Prefix
  <2>8. KeepsPages(st, t, {})
    <3>1. KeepsPages(st, t, {} \cup {})
      BY <2>4, <2>6, KeptAgain
    <3> QED BY <3>1, KeptBy
  <2> QED BY <2>1, <2>4, <2>6, <2>7, <2>8
<1> QED BY <1>3, <1>4

\* The store and the slot for a page that is not in the cache.
RoomFor(st, n, p, r) ==
  /\ CacheOK(r.st, n)
  /\ KeepsPages(st, r.st, {})
  /\ r.slot # None => /\ r.slot \in 0 .. n - 1
                      /\ r.st.cache.slots[r.slot].region = p \div PerRegion
                      /\ r.st.cache.num_cached < MaxItems
  /\ \A j \in 0 .. n - 1 : st.cache.slots[j].region = p \div PerRegion =>
                             r.st.cache.slots[j].region = p \div PerRegion

LEMMA FreedItemFewer ==
  ASSUME NEW n \in Nat, NEW st, StoreOK(st, n), NEW i \in 0 .. n - 1, NEW o \in Offset,
         NEW discard \in BOOLEAN, Has(st.cache.slots[i], o), NEW t, t = FreedItem(st, i, o, discard)
  PROVE  t.cache.num_cached < st.cache.num_cached
<1>1. /\ Freed(st, t, n, i, {o}, discard)
      /\ Has(st.cache.slots[i], o) => t.cache.num_cached = st.cache.num_cached - 1
  BY FreedItemKeeps
<1>2. st.cache.num_cached \in Nat
  BY InStore
<1> QED BY <1>1, <1>2

\* An item that gives way is there.
LEMMA VictimGone ==
  ASSUME NEW n \in Nat, NEW st, CacheOK(st, n), NEW t, CacheOK(t, n),
         Places(t.cache) \subseteq Places(st.cache), ~(t.cache.num_cached < MaxItems),
         st.cache.num_cached = MaxItems, ~NullHead(st.cache),
         NEW v \in Victims(st.cache), NEW discard \in BOOLEAN, ~discard,
         NEW u, u = FreedItem(t, v[1], v[2], discard)
  PROVE  /\ CacheOK(u, n) /\ u.cache.num_cached < MaxItems /\ KeepsPages(t, u, {})
         /\ \A j \in 0 .. n - 1 : u.cache.slots[j].region = t.cache.slots[j].region
<1>1. /\ Slots(st.cache) = 0 .. n - 1 /\ Slots(t.cache) = 0 .. n - 1
      /\ st.cache.num_cached \in Nat /\ t.cache.num_cached \in Nat /\ StoreOK(st, n) /\ StoreOK(t, n)
      /\ \A j \in 0 .. n - 1 : st.cache.slots[j] \in AnySlot
  BY InStore DEF CacheOK
<1>2. PICK l \in {"changed", "unchanged"} : \E j \in Heads(st.cache, l) :
        v = <<j, st.cache.slots[j].least[l]>>
  BY DEF Victims
<1>2a. PICK j \in Heads(st.cache, l) : v = <<j, st.cache.slots[j].least[l]>>
  BY <1>2
<1>3. PICK o : o = st.cache.slots[j].least[l]
  OBVIOUS
<1>4. j \in 0 .. n - 1 /\ o # None
  BY <1>1, <1>2a, <1>3 DEF Heads
<1>5. Has(st.cache.slots[j], o)
  BY <1>1, <1>3, <1>4 DEF NullHead
<1>6. o \in Offset
  <2>1. o \in Link
    BY <1>1, <1>3, <1>4, LinksAre DEF List
  <2> QED BY <1>5, <2>1, LinkIs
<1>7. t.cache.num_cached = MaxItems
  BY <1>1, Sizes DEF CacheOK
<1>8. Places(t.cache) = Places(st.cache)
  BY <1>1, <1>7, FewerPlaces
<1>9. Has(t.cache.slots[j], o)
  <2>1. <<j, o>> \in Places(st.cache)
    BY <1>1, <1>4, <1>5, <1>6 DEF Places
  <2> QED BY <1>8, <2>1 DEF Places
<1>11. u = FreedItem(t, j, o, discard)
  BY <1>2a, <1>3
<1>12. Freed(t, u, n, j, {o}, discard) /\ u.cache.num_cached < t.cache.num_cached
  <2>1. Freed(t, u, n, j, {o}, discard) /\ u.cache.num_cached < t.cache.num_cached
    <3>1. StoreOK(t, n) /\ j \in 0 .. n - 1
      BY <1>1, <1>4
    <3>2. Freed(t, u, n, j, {o}, discard)
      BY <1>6, <1>11, <3>1, FreedItemKeeps
    <3>3. u.cache.num_cached < t.cache.num_cached
      BY <1>6, <1>9, <1>11, <3>1, FreedItemFewer
    <3> QED BY <3>2, <3>3
  <2> QED BY <1>9, <2>1
<1>13. LostPages(t.cache.slots[j], {o}, discard) = {}
  BY DEF LostPages
<1>14. \A k \in 0 .. n - 1 : u.cache.slots[k].region = t.cache.slots[k].region
  BY <1>12 DEF Freed
<1>15. Prefix(u.cache, n)
  BY <1>12, <1>14 DEF Prefix, CacheOK, Freed
<1>16. u.cache.num_cached < MaxItems /\ u.cache.num_cached <= MaxItems
  <2>1. u.cache.num_cached < MaxItems
    BY <1>7, <1>12
  <2>2. u.cache.num_cached \in Nat
    BY <1>12, InStore DEF Freed
  <2> QED BY <2>1, <2>2, Sizes
<1> QED BY <1>12, <1>13, <1>14, <1>15, <1>16 DEF Freed, CacheOK

LEMMA RoomsAre ==
  ASSUME NEW n \in Nat, NEW st, CacheOK(st, n), NEW p \in Page,
         ~(Scanned(st.cache, p \div PerRegion) /\ NullHead(st.cache)),
         NEW r \in Rooms(st, p)
  PROVE  RoomFor(st, n, p, r)
<1>1. PICK region : region = p \div PerRegion
  OBVIOUS
<1>2. PICK known : known = SlotOf(st.cache, region)
  OBVIOUS
<1>3. PICK slots : slots = IF known # None THEN {known} ELSE SlotsFor(st.cache)
  OBVIOUS
<1>4. PICK victims : victims = IF st.cache.num_cached = MaxItems THEN Victims(st.cache) ELSE {}
  OBVIOUS
<1>5. PICK discard \in BOOLEAN : discard = FALSE
  OBVIOUS
<1>6. \/ r = [st |-> st, slot |-> None]
      \/ \E i \in slots : \E u :
           /\ u = IF known # None THEN st ELSE Occupied(st, i, region)
           /\ \/ u.cache.num_cached < MaxItems /\ r = [st |-> u, slot |-> i]
              \/ ~(u.cache.num_cached < MaxItems) /\ r = [st |-> u, slot |-> None]
              \/ /\ ~(u.cache.num_cached < MaxItems)
                 /\ \E v \in victims : r = [st |-> FreedItem(u, v[1], v[2], discard), slot |-> i]
  <2> DEFINE t(i) == IF known # None THEN st ELSE Occupied(st, i, region)
             gaveWay(i) ==
               IF t(i).cache.num_cached < MaxItems THEN {[st |-> t(i), slot |-> i]}
               ELSE IF victims = {} THEN {[st |-> t(i), slot |-> None]}
               ELSE {[st |-> FreedItem(t(i), v[1], v[2], FALSE), slot |-> i] : v \in victims}
  <2>1. Rooms(st, p) = IF slots = {} THEN {[st |-> st, slot |-> None]}
                       ELSE UNION {gaveWay(i) : i \in slots}
    BY <1>1, <1>2, <1>3, <1>4 DEF Rooms
  <2>2. ASSUME NEW i \in slots, r \in gaveWay(i)
        PROVE  \/ t(i).cache.num_cached < MaxItems /\ r = [st |-> t(i), slot |-> i]
               \/ ~(t(i).cache.num_cached < MaxItems) /\ r = [st |-> t(i), slot |-> None]
               \/ /\ ~(t(i).cache.num_cached < MaxItems)
                  /\ \E v \in victims : r = [st |-> FreedItem(t(i), v[1], v[2], discard), slot |-> i]
    <3> HIDE DEF t
    <3> QED BY <1>5, <2>2
  <2>3. slots # {} => \E i \in slots : r \in gaveWay(i)
    <3> HIDE DEF gaveWay
    <3> QED BY <2>1
  <2>4. slots = {} => r = [st |-> st, slot |-> None]
    BY <2>1
  <2> HIDE DEF gaveWay
  <2> QED BY <2>2, <2>3, <2>4
<1>7. region \in Nat /\ StoreOK(st, n) /\ Prefix(st.cache, n)
  BY <1>1, OffsetIs DEF CacheOK
<1>8. \/ known \in 0 .. n - 1 /\ st.cache.slots[known].region = region
      \/ known = None /\ \A j \in 0 .. n - 1 : st.cache.slots[j].region # region
  BY <1>2, <1>7, SlotOfIs
<1>9. known \in 0 .. n - 1 => known # None
  BY DEF None
<1>10. CASE r = [st |-> st, slot |-> None]
  <2>1. r.st = st /\ r.slot = None
    BY <1>10
  <2> QED BY <2>1, KeptSelf DEF RoomFor
<1>11. ASSUME NEW i \in slots, NEW u, u = IF known # None THEN st ELSE Occupied(st, i, region)
       PROVE  /\ i \in 0 .. n - 1 /\ CacheOK(u, n) /\ u.cache.slots[i].region = region
              /\ KeepsPages(st, u, {}) /\ Places(u.cache) \subseteq Places(st.cache)
              /\ \A j \in 0 .. n - 1 : st.cache.slots[j].region = region =>
                                         u.cache.slots[j].region = region
  <2>1. CASE known # None
    <3>1. u = st /\ i = known
      BY <1>3, <1>11, <2>1
    <3> QED BY <1>8, <2>1, <3>1, KeptSelf
  <2>2. CASE known = None
    <3>1. u = Occupied(st, i, region) /\ i \in SlotsFor(st.cache)
      BY <1>3, <1>11, <2>2
    <3>2. \A j \in 0 .. n - 1 : st.cache.slots[j].region # region
      BY <1>8, <1>9, <2>2
    <3>3. /\ i \in 0 .. n - 1
          /\ StoreOK(u, n) /\ Prefix(u.cache, n) /\ u.cache.slots[i].region = region
          /\ KeepsPages(st, u, {}) /\ Places(u.cache) \subseteq Places(st.cache)
      <4>1. i \in 0 .. n - 1
        BY <1>7, <3>1, <3>2, OccupiedKeeps
      <4>2. StoreOK(u, n) /\ Prefix(u.cache, n)
        BY <1>7, <3>1, <3>2, OccupiedKeeps
      <4>3. u.cache.slots[i].region = region /\ KeepsPages(st, u, {})
        BY <1>7, <3>1, <3>2, OccupiedKeeps
      <4>4. Places(u.cache) \subseteq Places(st.cache)
        BY <1>7, <3>1, <3>2, OccupiedKeeps
      <4> QED BY <4>1, <4>2, <4>3, <4>4
    <3>4. u.cache.num_cached <= MaxItems
      <4>1. u.cache.num_cached <= st.cache.num_cached
        BY <1>7, <3>3, FewerPlaces
      <4>2. u.cache.num_cached \in Nat /\ st.cache.num_cached \in Nat
        BY <1>7, <3>3, InStore
      <4> QED BY <4>1, <4>2, Sizes DEF CacheOK
    <3> QED BY <3>2, <3>3, <3>4 DEF CacheOK
  <2> QED BY <2>1, <2>2
<1>12. ASSUME NEW i \in slots, NEW u, u = IF known # None THEN st ELSE Occupied(st, i, region),
              \/ u.cache.num_cached < MaxItems /\ r = [st |-> u, slot |-> i]
              \/ r = [st |-> u, slot |-> None]
       PROVE  RoomFor(st, n, p, r)
  <2>1. /\ i \in 0 .. n - 1 /\ CacheOK(u, n) /\ u.cache.slots[i].region = region
        /\ KeepsPages(st, u, {})
        /\ \A j \in 0 .. n - 1 : st.cache.slots[j].region = region => u.cache.slots[j].region = region
    BY <1>11, <1>12
  <2>2. r.st = u /\ (r.slot = None \/ (r.slot = i /\ u.cache.num_cached < MaxItems))
    BY <1>12
  <2> QED BY <1>1, <2>1, <2>2 DEF RoomFor
<1>13. ASSUME NEW i \in slots, NEW u, u = IF known # None THEN st ELSE Occupied(st, i, region),
              ~(u.cache.num_cached < MaxItems), NEW v \in victims,
              r = [st |-> FreedItem(u, v[1], v[2], discard), slot |-> i]
       PROVE  RoomFor(st, n, p, r)
  <2>1. /\ i \in 0 .. n - 1 /\ CacheOK(u, n) /\ u.cache.slots[i].region = region
        /\ KeepsPages(st, u, {}) /\ Places(u.cache) \subseteq Places(st.cache)
        /\ \A j \in 0 .. n - 1 : st.cache.slots[j].region = region => u.cache.slots[j].region = region
    BY <1>11, <1>13
  <2>2. v \in Victims(st.cache) /\ st.cache.num_cached = MaxItems
    BY <1>4, <1>13
  <2>3. ~NullHead(st.cache)
    BY <2>2 DEF Scanned
  <2>4. PICK w : w = FreedItem(u, v[1], v[2], discard)
    OBVIOUS
  <2>5. ~discard
    BY <1>5
  <2>6. /\ CacheOK(w, n) /\ w.cache.num_cached < MaxItems /\ KeepsPages(u, w, {})
        /\ \A j \in 0 .. n - 1 : w.cache.slots[j].region = u.cache.slots[j].region
    BY <1>13, <2>1, <2>2, <2>3, <2>4, <2>5, VictimGone, SMTT(30)
  <2>7. KeepsPages(st, w, {})
    <3>1. KeepsPages(st, w, {} \cup {})
      BY <2>1, <2>6, KeptAgain
    <3> QED BY <3>1, KeptBy
  <2>8. r.st = w /\ r.slot = i
    BY <1>13, <2>4
  <2>9. /\ w.cache.slots[i].region = region
        /\ \A j \in 0 .. n - 1 : st.cache.slots[j].region = region => w.cache.slots[j].region = region
    BY <2>1, <2>6
  <2> QED BY <1>1, <2>1, <2>6, <2>7, <2>8, <2>9 DEF RoomFor
<1> QED BY <1>6, <1>10, <1>12, <1>13

-----------------------------------------------------------------------------
(* The end of retain_item_in_cache.                                        *)

ItemWith(x, d, b) == [x EXCEPT !.data = d, !.changed = b]

LEMMA ItemData ==
  ASSUME NEW x \in Item, NEW d \in Value, NEW b \in BOOLEAN, NEW y, y = ItemWith(x, d, b)
  PROVE  y \in Item /\ y.data = d /\ y.changed = b
BY DEF Item, ItemWith

LEMMA PutSlotKeeps ==
  ASSUME NEW s, SlotInv(s), NEW o \in Offset, NEW item \in Item,
         s.region \in Nat, PageOf(s, o) \in Page, NEW t, t = PutInSlot(s, o, item)
  PROVE  /\ SlotInv(t) /\ t.region = s.region /\ Has(t, o)
         /\ t.items[o].data = item.data
         /\ item.changed => t.items[o].changed
         /\ Has(s, o) /\ s.items[o].changed => t.items[o].changed
         /\ \A p \in Offset \ {o} : SameItem(s.items[p], t.items[p])
<1>1. s \in AnySlot /\ item.data \in Value /\ item.changed \in BOOLEAN
  BY DEF SlotInv, Item
<1>2. PICK b \in BOOLEAN : b = (item.changed \/ (Has(s, o) /\ s.items[o].changed))
  OBVIOUS
<1>3. PICK new : new = IF ~Has(s, o) THEN item
                       ELSE [s.items[o] EXCEPT !.data = item.data, !.changed = b]
  OBVIOUS
<1>4. PICK c : c = IF item.changed /\ ~(Has(s, o) /\ s.items[o].changed)
                   THEN s.flush_cost + 1 ELSE s.flush_cost
  OBVIOUS
<1>5. new \in Item /\ new.data = item.data /\ new.changed = b
  <2>1. CASE ~Has(s, o)
    <3>1. new = item
      BY <1>3, <2>1
    <3>2. b = item.changed
      BY <1>1, <1>2, <2>1
    <3> QED BY <3>1, <3>2
  <2>2. CASE Has(s, o)
    <3>1. s.items[o] \in Item
      BY <1>1, <2>2, InSlot
    <3>2. new = ItemWith(s.items[o], item.data, b)
      BY <1>3, <2>2 DEF ItemWith
    <3> QED BY <1>1, <3>1, <3>2, ItemData
  <2> QED BY <2>1, <2>2
<1>6. PICK s0 : s0 = WithItem(s, o, new, c)
  OBVIOUS
<1>7. /\ SlotInv(s0) /\ s0.region = s.region /\ s0.items[o] = new
      /\ \A p \in Offset \ {o} : s0.items[p] = s.items[p]
  <2>1. s.flush_cost \in Nat /\ s.flush_cost >= Counts(s.items[o])
    BY CostCovers
  <2>2. new # NoItem
    BY <1>5, ItemIsNot
  <2>3. o # None => (Has(s, o) <=> s.items[o] # NoItem)
    BY DEF Has
  <2>4. o # None
    BY Sizes DEF Offset, None
  <2>5. c \in Nat /\ c >= s.flush_cost - Counts(s.items[o]) + Counts(new)
    <3>1. Counts(new) = IF b THEN 1 ELSE 0
      BY <1>5, <2>2 DEF Counts
    <3>2. Counts(s.items[o]) = IF Has(s, o) /\ s.items[o].changed THEN 1 ELSE 0
      BY <2>3, <2>4 DEF Counts
    <3>3. PICK f \in Nat : f = s.flush_cost
      BY <2>1
    <3>4. CASE Has(s, o) /\ s.items[o].changed
      <4>1. c = f /\ Counts(s.items[o]) = 1 /\ Counts(new) = 1
        BY <1>2, <1>4, <3>1, <3>2, <3>3, <3>4
      <4>2. c \in Nat /\ c >= f - 1 + 1
        BY <4>1
      <4> QED BY <3>3, <4>1, <4>2
    <3>5. CASE ~(Has(s, o) /\ s.items[o].changed) /\ item.changed
      <4>1. c = f + 1 /\ Counts(s.items[o]) = 0 /\ Counts(new) = 1
        BY <1>2, <1>4, <3>1, <3>2, <3>3, <3>5
      <4>2. c \in Nat /\ c >= f - 0 + 1
        BY <4>1
      <4> QED BY <3>3, <4>1, <4>2
    <3>6. CASE ~(Has(s, o) /\ s.items[o].changed) /\ ~item.changed
      <4>1. c = f /\ Counts(s.items[o]) = 0 /\ Counts(new) = 0
        BY <1>2, <1>4, <3>1, <3>2, <3>3, <3>6
      <4>2. c \in Nat /\ c >= f - 0 + 0
        BY <4>1
      <4> QED BY <3>3, <4>1, <4>2
    <3> QED BY <3>4, <3>5, <3>6
  <2>6. new \in Item \cup {NoItem}
    BY <1>5
  <2> QED BY <1>6, <2>5, <2>6, ItemSet
<1>8. Has(s0, o) /\ s0 \in AnySlot
  BY <1>5, <1>7, ItemIsNot, Sizes DEF Has, Offset, None, SlotInv
<1>9. PICK s1 : s1 = Unlinked(s0, o)
  OBVIOUS
<1>10. SameSlot(s0, s1)
  BY <1>8, <1>9, UnlinkedAll
<1>11. s1 \in AnySlot /\ Has(s1, o)
  BY <1>8, <1>10, SameHas DEF SameSlot
<1>12. PICK s2 : s2 = LinkedMostRecent(s1, o, "used")
  OBVIOUS
<1>13. SameSlot(s1, s2)
  BY <1>11, <1>12, LinkedSame DEF List
<1>14. s2 \in AnySlot /\ Has(s2, o)
  BY <1>11, <1>13, SameHas DEF SameSlot
<1>15. t = LinkedMostRecent(s2, o, ChangeList(s1, o))
  <2>1. s0 = [s EXCEPT !.items[o] = new,
                       !.flush_cost = IF item.changed /\ ~(Has(s, o) /\ s.items[o].changed)
                                      THEN @ + 1 ELSE @]
    BY <1>4, <1>6 DEF WithItem
  <2>2. ~Has(s, o) \/ new = [s.items[o] EXCEPT !.data = item.data, !.changed = @ \/ item.changed]
    <3> SUFFICES ASSUME Has(s, o)
                 PROVE  new = [s.items[o] EXCEPT !.data = item.data, !.changed = @ \/ item.changed]
      OBVIOUS
    <3>1. s.items[o].changed \in BOOLEAN
      BY <1>1, InSlot
    <3>2. b = (s.items[o].changed \/ item.changed)
      BY <1>1, <1>2, <3>1
    <3> QED BY <1>3, <3>2
  <2>3. s1 = Unlinked([s EXCEPT !.items[o] = new,
                       !.flush_cost = IF item.changed /\ ~(Has(s, o) /\ s.items[o].changed)
                                      THEN @ + 1 ELSE @], o)
    BY <1>9, <2>1
  <2>4. new = IF ~Has(s, o) THEN item
              ELSE [s.items[o] EXCEPT !.data = item.data, !.changed = @ \/ item.changed]
    BY <1>3, <2>2
  <2> QED BY <1>12, <2>3, <2>4 DEF PutInSlot
<1>16. SameSlot(s2, t)
  <2>1. ChangeList(s1, o) \in List
    BY DEF ChangeList, List
  <2> QED BY <1>14, <1>15, <2>1, LinkedSame
<1>17. SameSlot(s0, t)
  BY <1>10, <1>13, <1>16, SameAgain
<1>18. SlotInv(t) /\ t.region = s.region /\ Has(t, o)
  BY <1>7, <1>8, <1>17, SameSlotInv, SameHas DEF SameSlot
<1>19. t.items[o].data = new.data /\ t.items[o].changed = new.changed
  BY <1>5, <1>7, <1>17, ItemIsNot DEF SameSlot, SameItem
<1>20. \A p \in Offset \ {o} : SameItem(s.items[p], t.items[p])
  BY <1>7, <1>17 DEF SameSlot
<1>21. /\ item.changed => b
       /\ Has(s, o) /\ s.items[o].changed => b
  BY <1>2
<1> QED BY <1>5, <1>18, <1>19, <1>20, <1>21

SlotPut(st, i, s, k) == [st EXCEPT !.cache.slots[i] = s, !.cache.num_cached = k]

LEMMA SlotPutIs ==
  ASSUME NEW n \in Nat, NEW st \in Stores(n), NEW i \in 0 .. n - 1, NEW s \in AnySlot,
         NEW k \in Int, NEW t, t = SlotPut(st, i, s, k)
  PROVE  /\ t \in Stores(n) /\ t.cache.slots = [st.cache.slots EXCEPT ![i] = s]
         /\ t.cache.num_cached = k /\ t.cache.num_regions = st.cache.num_regions
         /\ t.file = st.file
<1>1. PICK d : d = st.cache
  OBVIOUS
<1>2. PICK r : r = [d.slots EXCEPT ![i] = s]
  OBVIOUS
<1>3. PICK c : c = [d EXCEPT !.slots = r, !.num_cached = k]
  OBVIOUS
<1>4. d \in [slots : [0 .. n - 1 -> AnySlot], num_cached : Int, num_regions : Int]
  BY <1>1 DEF Stores
<1>5. r \in [0 .. n - 1 -> AnySlot]
  BY <1>2, <1>4
<1>6. c.slots = r /\ c.num_cached = k /\ c.num_regions = d.num_regions
  BY <1>3, <1>4
<1>7. c \in [slots : [0 .. n - 1 -> AnySlot], num_cached : Int, num_regions : Int]
  BY <1>3, <1>4, <1>5
<1>8. t = [st EXCEPT !.cache = c]
  BY <1>1, <1>2, <1>3 DEF SlotPut
<1>9. t \in Stores(n) /\ t.file = st.file /\ t.cache = c
  BY <1>7, <1>8 DEF Stores
<1> QED BY <1>1, <1>2, <1>6, <1>9

\* A store before and after the item of page "p" was put in its slot.
PutFine(st, u, n, p, item) ==
  /\ CacheOK(u, n) /\ u.file = st.file
  /\ \A q \in Page \ {p} : \A v : Fine(st, q, v) <=> Fine(u, q, v)
  /\ CachedIn(u, p)
  /\ \A j \in 0 .. n - 1 : Shows(u.cache.slots[j], p) =>
                             u.cache.slots[j].items[p % PerRegion].data = item.data
  /\ \A v : Fine(st, p, v) /\ item.data = v => Fine(u, p, v)
  /\ item.changed => Fine(u, p, item.data)
  /\ \A j \in 0 .. n - 1 : u.cache.slots[j].region = st.cache.slots[j].region

\* Of the slot of page "p" only the item of that page has changed.
SlotOnly(st, u, n, i, p) ==
  /\ Slots(st.cache) = 0 .. n - 1 /\ Slots(u.cache) = 0 .. n - 1
  /\ \A j \in (0 .. n - 1) \ {i} : u.cache.slots[j] = st.cache.slots[j]
  /\ st.cache.slots[i].region = p \div PerRegion /\ u.cache.slots[i].region = p \div PerRegion
  /\ \A x \in Offset \ {p % PerRegion} :
       SameItem(st.cache.slots[i].items[x], u.cache.slots[i].items[x])

SamePage(st, u, q) ==
  /\ \A v : Fine(st, q, v) <=> Fine(u, q, v)
  /\ CachedIn(st, q) <=> CachedIn(u, q)

LEMMA OtherPages ==
  ASSUME NEW n \in Nat, NEW st, NEW u, NEW i \in 0 .. n - 1, NEW p \in Page,
         SlotOnly(st, u, n, i, p), NEW q \in Page, q # p, u.file[q] = st.file[q]
  PROVE  SamePage(st, u, q)
<1> USE DEF SlotOnly
<1>1. PICK a \in Nat, b \in Offset : a = p \div PerRegion /\ b = p % PerRegion /\ p \in Nat
  BY OffsetIs
<1>2. PICK c \in Nat, d \in Offset : c = q \div PerRegion /\ d = q % PerRegion /\ q \in Nat
  BY OffsetIs
<1>3. a # c \/ b # d
  BY <1>1, <1>2, PageOfIs
<1>4. ASSUME NEW j \in 0 .. n - 1
      PROVE  /\ Shows(u.cache.slots[j], q) <=> Shows(st.cache.slots[j], q)
             /\ Shows(st.cache.slots[j], q) =>
                  SameItem(st.cache.slots[j].items[q % PerRegion],
                           u.cache.slots[j].items[q % PerRegion])
  <2>1. CASE j # i
    BY <2>1 DEF SameItem
  <2>2. CASE j = i /\ b # d
    <3>1. SameItem(st.cache.slots[j].items[d], u.cache.slots[j].items[d])
      BY <1>1, <2>2
    <3>2. Has(u.cache.slots[j], d) <=> Has(st.cache.slots[j], d)
      BY <3>1 DEF Has, SameItem
    <3>3. u.cache.slots[j].region = st.cache.slots[j].region
      BY <2>2
    <3> QED BY <1>2, <3>1, <3>2, <3>3 DEF Shows
  <2>3. CASE j = i /\ b = d
    <3>1. st.cache.slots[j].region # c /\ u.cache.slots[j].region # c
      BY <1>1, <1>3, <2>3
    <3> QED BY <1>2, <3>1 DEF Shows
  <2> QED BY <2>1, <2>2, <2>3
<1>5. Slots(u.cache) = Slots(st.cache)
  OBVIOUS
<1>6. \A j \in Slots(st.cache) :
        /\ Shows(u.cache.slots[j], q) <=> Shows(st.cache.slots[j], q)
        /\ Shows(st.cache.slots[j], q) =>
             SameItem(st.cache.slots[j].items[q % PerRegion],
                      u.cache.slots[j].items[q % PerRegion])
  BY <1>4
<1>7. /\ \A v : Fine(st, q, v) <=> Fine(u, q, v)
      /\ CachedIn(st, q) <=> CachedIn(u, q)
  BY <1>5, <1>6, FineSame
<1> QED BY <1>7 DEF SamePage

LEMMA PutKeeps ==
  ASSUME NEW n \in Nat, NEW st, CacheOK(st, n), NEW i \in 0 .. n - 1, NEW p \in Page,
         st.cache.slots[i].region = p \div PerRegion, NEW item \in Item,
         NEW k, k = IF Has(st.cache.slots[i], p % PerRegion) THEN st.cache.num_cached
                    ELSE st.cache.num_cached + 1, k <= MaxItems,
         NEW u, u = SlotPut(st, i, PutInSlot(st.cache.slots[i], p % PerRegion, item), k)
  PROVE  PutFine(st, u, n, p, item)
<1>1. PICK s, o : s = st.cache.slots[i] /\ o = p % PerRegion
  OBVIOUS
<1>2. PICK t : t = PutInSlot(s, o, item)
  OBVIOUS
<1>3. /\ Slots(st.cache) = 0 .. n - 1 /\ st.cache.slots \in [0 .. n - 1 -> AnySlot]
      /\ SlotInv(s) /\ s \in AnySlot /\ st.cache.num_cached \in Nat
      /\ IsFiniteSet(Places(st.cache)) /\ StoreOK(st, n) /\ st \in Stores(n)
      /\ \A j \in 0 .. n - 1 : SlotInv(st.cache.slots[j])
  BY <1>1, InStore DEF CacheOK, StoreOK
<1>4. p \in Nat /\ o \in Offset /\ s.region = p \div PerRegion /\ s.region \in Nat /\ s.region # None
  BY <1>1, OffsetIs
<1>5. PageOf(s, o) = p
  BY <1>1, <1>4, PageOfIs DEF PageOf
<1>6. /\ SlotInv(t) /\ t.region = s.region /\ Has(t, o)
      /\ t.items[o].data = item.data
      /\ item.changed => t.items[o].changed
      /\ Has(s, o) /\ s.items[o].changed => t.items[o].changed
      /\ \A x \in Offset \ {o} : SameItem(s.items[x], t.items[x])
  BY <1>2, <1>3, <1>4, <1>5, PutSlotKeeps
<1>7. k \in Int
  BY <1>3
<1>8. /\ u \in Stores(n) /\ u.cache.slots = [st.cache.slots EXCEPT ![i] = t]
      /\ u.cache.num_cached = k /\ u.cache.num_regions = st.cache.num_regions
      /\ u.file = st.file
  <2>1. u = SlotPut(st, i, t, k) /\ t \in AnySlot
    BY <1>1, <1>2, <1>6 DEF SlotInv
  <2> QED BY <1>3, <1>7, <2>1, SlotPutIs, SMTT(30)
<1>9. /\ u.cache.slots[i] = t /\ Slots(u.cache) = 0 .. n - 1
      /\ \A j \in (0 .. n - 1) \ {i} : u.cache.slots[j] = st.cache.slots[j]
  BY <1>3, <1>8 DEF Slots
<1>10. \A j \in 0 .. n - 1 : u.cache.slots[j].region = st.cache.slots[j].region
  BY <1>1, <1>6, <1>9
<1>11. \A x \in Offset \ {o} : Has(t, x) <=> Has(s, x)
  BY <1>6 DEF Has, SameItem
<1>12. Places(u.cache) = Places(st.cache) \cup {<<i, o>>}
  <2>1. ASSUME NEW j \in 0 .. n - 1, NEW x \in Offset
        PROVE  Has(u.cache.slots[j], x) <=> Has(st.cache.slots[j], x) \/ <<j, x>> = <<i, o>>
    BY <1>1, <1>6, <1>9, <1>11
  <2>2. ASSUME NEW x \in (0 .. n - 1) \X Offset
        PROVE  Has(u.cache.slots[x[1]], x[2]) <=> Has(st.cache.slots[x[1]], x[2]) \/ x = <<i, o>>
    <3>1. PICK j \in 0 .. n - 1, y \in Offset : x = <<j, y>>
      OBVIOUS
    <3>2. x[1] = j /\ x[2] = y
      BY <3>1
    <3> QED BY <2>1, <3>1, <3>2
  <2>3. Places(u.cache) = {x \in (0 .. n - 1) \X Offset : Has(u.cache.slots[x[1]], x[2])}
    BY <1>9 DEF Places
  <2>4. Places(st.cache) = {x \in (0 .. n - 1) \X Offset : Has(st.cache.slots[x[1]], x[2])}
    BY <1>3 DEF Places
  <2>5. <<i, o>> \in (0 .. n - 1) \X Offset
    BY <1>4
  <2> QED BY <2>2, <2>3, <2>4, <2>5
<1>13. Cardinality(Places(u.cache)) = k
  <2>1. st.cache.num_cached = Cardinality(Places(st.cache))
    BY <1>3 DEF StoreOK
  <2>2. <<i, o>> \in Places(st.cache) <=> Has(s, o)
    BY <1>1, <1>3, <1>4 DEF Places
  <2>3. CASE Has(s, o)
    BY <1>1, <1>12, <2>1, <2>2, <2>3
  <2>4. CASE ~Has(s, o)
    <3>1. Cardinality(Places(u.cache)) = Cardinality(Places(st.cache)) + 1
      BY <1>3, <1>12, <2>2, <2>4, FS_AddElement
    <3> QED BY <1>1, <2>1, <2>4, <3>1
  <2> QED BY <2>3, <2>4
<1>14. CacheOK(u, n)
  <2>1. \A j \in 0 .. n - 1 : SlotInv(u.cache.slots[j])
    BY <1>3, <1>6, <1>9
  <2>2. StoreOK(u, n)
    <3>1. u.cache.num_cached = Cardinality(Places(u.cache)) /\ u \in Stores(n)
      BY <1>8, <1>13
    <3>2. \A j, l \in 0 .. n - 1 :
            j # l /\ u.cache.slots[j].region = u.cache.slots[l].region =>
              u.cache.slots[j].region = None
      BY <1>3, <1>10 DEF StoreOK
    <3> QED BY <2>1, <3>1, <3>2 DEF StoreOK
  <2>3. Prefix(u.cache, n)
    BY <1>8, <1>10 DEF CacheOK, Prefix
  <2> QED BY <1>8, <2>2, <2>3 DEF CacheOK
<1>15. Shows(t, p)
  BY <1>1, <1>4, <1>6 DEF Shows
<1>16. \A j \in 0 .. n - 1 : Shows(u.cache.slots[j], p) => j = i
  BY <1>1, <1>3, <1>4, <1>10 DEF Shows, StoreOK
<1>17. \A j \in 0 .. n - 1 : Shows(st.cache.slots[j], p) => j = i
  BY <1>1, <1>3, <1>4 DEF Shows, StoreOK
<1>18. ASSUME NEW q \in Page \ {p}, NEW v PROVE Fine(st, q, v) <=> Fine(u, q, v)
  <2>1. SlotOnly(st, u, n, i, p)
    BY <1>1, <1>3, <1>6, <1>9 DEF SlotOnly
  <2>2. u.file[q] = st.file[q]
    BY <1>8
  <2>3. SamePage(st, u, q)
    BY <2>1, <2>2, OtherPages
  <2> QED BY <2>3 DEF SamePage
<1>19. CachedIn(u, p)
  BY <1>9, <1>15 DEF CachedIn
<1>20. ASSUME NEW v, Fine(st, p, v), item.data = v PROVE Fine(u, p, v)
  <2>1. t.items[o].changed \/ st.file[p] = v
    <3>1. CASE Has(s, o)
      <4>1. Shows(s, p)
        BY <1>1, <1>4, <3>1 DEF Shows
      <4>2. s.items[o].changed \/ st.file[p] = v
        BY <1>1, <1>3, <1>20, <4>1 DEF Fine
      <4> QED BY <1>6, <3>1, <4>2
    <3>2. CASE ~Has(s, o)
      <4>1. ~CachedIn(st, p)
        BY <1>1, <1>3, <1>17, <3>2 DEF CachedIn, Shows
      <4> QED BY <1>20, <4>1 DEF Fine
    <3> QED BY <3>1, <3>2
  <2> QED BY <1>1, <1>6, <1>8, <1>9, <1>16, <1>19, <1>20, <2>1 DEF Fine
<1>21. item.changed => Fine(u, p, item.data)
  BY <1>1, <1>6, <1>9, <1>16, <1>19 DEF Fine
<1>22. \A j \in 0 .. n - 1 : Shows(u.cache.slots[j], p) =>
                               u.cache.slots[j].items[p % PerRegion].data = item.data
  BY <1>1, <1>6, <1>9, <1>16
<1> QED BY <1>8, <1>10, <1>14, <1>18, <1>19, <1>20, <1>21, <1>22 DEF PutFine

\* retain_item_in_cache: what it leaves of a store.
RetainedFine(st, r, n, p, item) ==
  /\ CacheOK(r.st, n) /\ r.st.file[p] = st.file[p]
  /\ \A q \in Page \ {p}, v \in Value :
       Fine(st, q, v) => Fine(r.st, q, v) /\ r.st.file[q] \in {st.file[q], v}
  /\ \A v \in Value : Fine(st, p, v) /\ item.data = v => Fine(r.st, p, v)
  /\ r.retained => /\ CachedIn(r.st, p)
                   /\ \A j \in 0 .. n - 1 : Shows(r.st.cache.slots[j], p) =>
                        r.st.cache.slots[j].items[p % PerRegion].data = item.data
                   /\ item.changed => Fine(r.st, p, item.data)
  /\ ~r.retained => ~CachedIn(r.st, p)
  /\ \A j \in 0 .. n - 1 : st.cache.slots[j].region = p \div PerRegion =>
                             r.st.cache.slots[j].region = p \div PerRegion

\* Whether a page is in the cache, as the code looks it up.
LEMMA LookedUp ==
  ASSUME NEW n \in Nat, NEW st, StoreOK(st, n), NEW p \in Page,
         NEW i, i = SlotOf(st.cache, p \div PerRegion)
  PROVE  /\ CachedIn(st, p) <=> i # None /\ Has(st.cache.slots[i], p % PerRegion)
         /\ i # None => i \in 0 .. n - 1 /\ st.cache.slots[i].region = p \div PerRegion
         /\ i = None => \A j \in 0 .. n - 1 : st.cache.slots[j].region # p \div PerRegion
         /\ \A j \in 0 .. n - 1 : Shows(st.cache.slots[j], p) => j = i
<1>1. PICK region : region = p \div PerRegion
  OBVIOUS
<1>2. region \in Nat /\ Slots(st.cache) = 0 .. n - 1
  BY <1>1, OffsetIs, InStore
<1>3. \/ i \in 0 .. n - 1 /\ st.cache.slots[i].region = region
      \/ i = None /\ \A j \in 0 .. n - 1 : st.cache.slots[j].region # region
  BY <1>1, <1>2, SlotOfIs
<1>4. i \in 0 .. n - 1 => i # None
  BY DEF None
<1>5. \A j \in 0 .. n - 1 : Shows(st.cache.slots[j], p) => j = i
  <2>1. ASSUME NEW j \in 0 .. n - 1, st.cache.slots[j].region = region PROVE j = i
    BY <1>1, <1>2, <2>1, SlotOne
  <2> QED BY <1>1, <2>1 DEF Shows
<1>6. CachedIn(st, p) <=> i # None /\ Has(st.cache.slots[i], p % PerRegion)
  BY <1>1, <1>2, <1>3, <1>4, <1>5 DEF CachedIn, Shows
<1> QED BY <1>1, <1>3, <1>4, <1>5, <1>6

\* The item is put in a slot that there is room in.
LEMMA PutRetains ==
  ASSUME NEW n \in Nat, NEW st, CacheOK(st, n), NEW t, CacheOK(t, n), NEW i \in 0 .. n - 1,
         NEW p \in Page, t.cache.slots[i].region = p \div PerRegion, NEW item \in Item,
         KeepsPages(st, t, {}), t.file[p] = st.file[p],
         NEW r, PutFine(t, r.st, n, p, item), r.retained,
         \A j \in 0 .. n - 1 : st.cache.slots[j].region = p \div PerRegion =>
                                 t.cache.slots[j].region = p \div PerRegion
  PROVE  RetainedFine(st, r, n, p, item)
<1>1. PICK u : u = r.st
  OBVIOUS
<1>2. PutFine(t, u, n, p, item)
  BY <1>1
<1>3. ASSUME NEW q \in Page \ {p}, NEW v \in Value, Fine(st, q, v)
      PROVE  Fine(u, q, v) /\ u.file[q] \in {st.file[q], v}
  <2>1. Fine(t, q, v) /\ t.file[q] \in {st.file[q], v}
    BY <1>3 DEF KeepsPages
  <2> QED BY <1>2, <2>1 DEF PutFine
<1>4. ASSUME NEW v \in Value, Fine(st, p, v), item.data = v
      PROVE  Fine(u, p, v)
  <2>1. Fine(t, p, v)
    BY <1>4 DEF KeepsPages
  <2> QED BY <1>2, <1>4, <2>1 DEF PutFine
<1>5. \A j \in 0 .. n - 1 : st.cache.slots[j].region = p \div PerRegion =>
                              u.cache.slots[j].region = p \div PerRegion
  BY <1>2 DEF PutFine
<1>6. /\ CacheOK(u, n) /\ u.file = t.file /\ CachedIn(u, p)
      /\ \A j \in 0 .. n - 1 : Shows(u.cache.slots[j], p) =>
                                 u.cache.slots[j].items[p % PerRegion].data = item.data
      /\ item.changed => Fine(u, p, item.data)
  BY <1>2 DEF PutFine
<1> QED BY <1>1, <1>3, <1>4, <1>5, <1>6 DEF RetainedFine

LEMMA RetainedKeeps ==
  ASSUME NEW n \in Nat, NEW st, CacheOK(st, n), NEW p \in Page, NEW item \in Item,
         ~(~CachedIn(st, p) /\ Scanned(st.cache, p \div PerRegion) /\ NullHead(st.cache)),
         NEW r \in Retained(st, item, p)
  PROVE  RetainedFine(st, r, n, p, item)
<1>1. PICK o, i : o = p % PerRegion /\ i = SlotOf(st.cache, p \div PerRegion)
  OBVIOUS
<1>2. PICK cached \in BOOLEAN : cached = (i # None /\ Has(st.cache.slots[i], o))
  OBVIOUS
<1>3. PICK rooms : rooms = IF cached THEN {[st |-> st, slot |-> i]} ELSE Rooms(st, p)
  OBVIOUS
<1>4. PICK x \in rooms :
        r = [st |-> IF x.slot = None THEN x.st
                    ELSE [x.st EXCEPT !.cache.slots[x.slot] = PutInSlot(@, o, item),
                                      !.cache.num_cached = IF cached THEN @ ELSE @ + 1],
             retained |-> x.slot # None]
  BY <1>1, <1>2, <1>3 DEF Retained
<1>5. PICK k : k = IF cached THEN x.st.cache.num_cached ELSE x.st.cache.num_cached + 1
  OBVIOUS
<1>6. /\ x.slot = None => r.st = x.st /\ ~r.retained
      /\ x.slot # None =>
           /\ r.st = SlotPut(x.st, x.slot, PutInSlot(x.st.cache.slots[x.slot], o, item), k)
           /\ r.retained
  <2>1. r.retained <=> x.slot # None
    BY <1>4
  <2>2. x.slot = None => r.st = x.st
    BY <1>4
  <2>3. x.slot # None =>
          r.st = SlotPut(x.st, x.slot, PutInSlot(x.st.cache.slots[x.slot], o, item), k)
    BY <1>4, <1>5 DEF SlotPut
  <2> QED BY <2>1, <2>2, <2>3
<1>7. StoreOK(st, n)
  BY DEF CacheOK
<1>8. /\ CachedIn(st, p) <=> cached
      /\ i # None => i \in 0 .. n - 1 /\ st.cache.slots[i].region = p \div PerRegion
      /\ \A j \in 0 .. n - 1 : Shows(st.cache.slots[j], p) => j = i
  <2>1. i = SlotOf(st.cache, p \div PerRegion)
    BY <1>1
  <2>2. /\ CachedIn(st, p) <=> i # None /\ Has(st.cache.slots[i], p % PerRegion)
        /\ i # None => i \in 0 .. n - 1 /\ st.cache.slots[i].region = p \div PerRegion
        /\ i = None => \A j \in 0 .. n - 1 : st.cache.slots[j].region # p \div PerRegion
        /\ \A j \in 0 .. n - 1 : Shows(st.cache.slots[j], p) => j = i
    BY <1>7, <2>1, LookedUp
  <2> QED BY <1>1, <1>2, <2>2
<1>9. CASE cached
  <2>1. i # None /\ Has(st.cache.slots[i], o) /\ x.st = st /\ x.slot = i
    <3>1. i # None /\ Has(st.cache.slots[i], o)
      BY <1>2, <1>9
    <3>2. rooms = {[st |-> st, slot |-> i]}
      BY <1>3, <1>9
    <3>3. x = [st |-> st, slot |-> i]
      BY <3>2
    <3> QED BY <3>1, <3>3
  <2>2. k = IF Has(st.cache.slots[i], p % PerRegion) THEN st.cache.num_cached
            ELSE st.cache.num_cached + 1
    BY <1>1, <1>5, <1>9, <2>1
  <2>3. k <= MaxItems
    BY <1>5, <1>9, <2>1 DEF CacheOK
  <2>4. r.st = SlotPut(st, i, PutInSlot(st.cache.slots[i], p % PerRegion, item), k) /\ r.retained
    BY <1>1, <1>6, <2>1
  <2>5. PutFine(st, r.st, n, p, item)
    BY <1>8, <2>1, <2>2, <2>3, <2>4, PutKeeps
  <2>6. KeepsPages(st, st, {})
    BY KeptSelf
  <2> QED BY <1>8, <2>1, <2>4, <2>5, <2>6, PutRetains
<1>10. CASE ~cached
  <2>1. RoomFor(st, n, p, x) /\ ~CachedIn(st, p)
    <3>1. x \in Rooms(st, p) /\ ~CachedIn(st, p)
      BY <1>3, <1>8, <1>10
    <3>2. ~(Scanned(st.cache, p \div PerRegion) /\ NullHead(st.cache))
      BY <3>1
    <3> QED BY <3>1, <3>2, RoomsAre
  <2>2. PICK t : t = x.st
    OBVIOUS
  <2>3. /\ CacheOK(t, n) /\ KeepsPages(st, t, {})
        /\ \A j \in 0 .. n - 1 : st.cache.slots[j].region = p \div PerRegion =>
                                   t.cache.slots[j].region = p \div PerRegion
    BY <2>1, <2>2 DEF RoomFor
  <2>4. t.file[p] = st.file[p] /\ ~CachedIn(t, p)
    BY <2>1, <2>3 DEF KeepsPages
  <2>5. CASE x.slot = None
    <3>1. r.st = t /\ ~r.retained
      BY <1>6, <2>2, <2>5
    <3>2. ASSUME NEW q \in Page, NEW v \in Value, Fine(st, q, v)
          PROVE  Fine(t, q, v) /\ t.file[q] \in {st.file[q], v}
      BY <2>3, <3>2 DEF KeepsPages
    <3> QED BY <2>3, <2>4, <3>1, <3>2 DEF RetainedFine
  <2>6. CASE x.slot # None
    <3>1. PICK m : m = x.slot
      OBVIOUS
    <3>2. /\ m \in 0 .. n - 1 /\ t.cache.slots[m].region = p \div PerRegion
          /\ t.cache.num_cached < MaxItems
      BY <2>1, <2>2, <2>6, <3>1 DEF RoomFor
    <3>3. r.st = SlotPut(t, m, PutInSlot(t.cache.slots[m], p % PerRegion, item), k) /\ r.retained
      BY <1>1, <1>6, <2>2, <2>6, <3>1
    <3>4. ~Has(t.cache.slots[m], p % PerRegion)
      <4>1. Slots(t.cache) = 0 .. n - 1
        BY <2>3, InStore DEF CacheOK
      <4> QED BY <2>4, <3>2, <4>1 DEF CachedIn, Shows
    <3>5. k = IF Has(t.cache.slots[m], p % PerRegion) THEN t.cache.num_cached
              ELSE t.cache.num_cached + 1
      BY <1>5, <1>10, <2>2, <3>4
    <3>6. k <= MaxItems
      <4>1. t.cache.num_cached \in Nat
        BY <2>3, InStore DEF CacheOK
      <4>2. k = t.cache.num_cached + 1
        BY <3>4, <3>5
      <4> QED BY <3>2, <4>1, <4>2, Sizes
    <3>7. PutFine(t, r.st, n, p, item)
      BY <2>3, <3>2, <3>3, <3>5, <3>6, PutKeeps
    <3> QED BY <2>3, <2>4, <3>2, <3>3, <3>7, PutRetains
  <2> QED BY <2>5, <2>6
<1> QED BY <1>9, <1>10

\* A page that is written at once.
WrittenFine(st, u, n, p, val) ==
  /\ CacheOK(u, n) /\ u.file = [st.file EXCEPT ![p] = val]
  /\ \A q \in Page \ {p}, v \in Value : Fine(st, q, v) => Fine(u, q, v)
  /\ Fine(u, p, val)

LEMMA WrittenKeeps ==
  ASSUME NEW n \in Nat, NEW st, CacheOK(st, n), NEW p \in Page, NEW val \in Value,
         NEW i, i # None => i \in 0 .. n - 1 /\ st.cache.slots[i].region = p \div PerRegion,
         \A j \in 0 .. n - 1 : Shows(st.cache.slots[j], p) =>
                                 st.cache.slots[j].items[p % PerRegion].data = val,
         NEW u, u = WrittenAt(st, i, p % PerRegion, p, val)
  PROVE  WrittenFine(st, u, n, p, val)
<1>1. PICK o : o = p % PerRegion
  OBVIOUS
<1>2. /\ Slots(st.cache) = 0 .. n - 1 /\ st.cache.slots \in [0 .. n - 1 -> AnySlot]
      /\ StoreOK(st, n) /\ st \in Stores(n) /\ st.file \in [Page -> Value]
      /\ st.cache.num_cached \in Nat
      /\ \A j \in 0 .. n - 1 : SlotInv(st.cache.slots[j])
  BY InStore DEF CacheOK, StoreOK
<1>3. o \in Offset
  BY <1>1, OffsetIs
<1>4. PICK f : f = [st.file EXCEPT ![p] = val]
  OBVIOUS
<1>5. f \in [Page -> Value] /\ f[p] = val /\ \A q \in Page \ {p} : f[q] = st.file[q]
  BY <1>2, <1>4
<1>6. CASE i = None \/ ~Has(st.cache.slots[i], o)
  <2>1. u = [st EXCEPT !.file = f]
    <3>1. u = [st EXCEPT !.file[p] = val, !.cache.slots = @]
      BY <1>1, <1>6 DEF WrittenAt
    <3> QED BY <1>2, <1>4, <3>1 DEF Stores
  <2>2. u \in Stores(n) /\ u.cache = st.cache /\ u.file = f
    BY <1>2, <1>5, <2>1 DEF Stores
  <2>3. CacheOK(u, n)
    BY <1>2, <2>2 DEF CacheOK, StoreOK
  <2>4. \A q : CachedIn(u, q) <=> CachedIn(st, q)
    BY <2>2 DEF CachedIn
  <2>5. ASSUME NEW q \in Page \ {p}, NEW v \in Value, Fine(st, q, v) PROVE Fine(u, q, v)
    BY <1>5, <2>2, <2>4, <2>5 DEF Fine
  <2>6. Fine(u, p, val)
    BY <1>2, <1>5, <2>2 DEF Fine
  <2> QED BY <1>4, <2>2, <2>3, <2>5, <2>6 DEF WrittenFine
<1>7. CASE i # None /\ Has(st.cache.slots[i], o)
  <2>1. i \in 0 .. n - 1 /\ st.cache.slots[i].region = p \div PerRegion
    BY <1>7
  <2>2. PICK s, c : s = st.cache.slots[i] /\ c = s.flush_cost
    OBVIOUS
  <2>3. SlotInv(s) /\ s \in AnySlot /\ c \in Nat /\ Has(s, o)
    BY <1>2, <1>7, <2>1, <2>2 DEF AnySlot
  <2>4. PICK t : t = Cleaned(s, o, c)
    OBVIOUS
  <2>5. /\ SlotInv(t) /\ t.region = s.region /\ t.items[o] # NoItem
        /\ t.items[o].data = s.items[o].data /\ ~t.items[o].changed
        /\ \A x \in Offset \ {o} : t.items[x] = s.items[x]
    <3>1. CostAfter(s, o, c)
      BY <2>2 DEF CostAfter
    <3>2. CleanedTo(s, t, o, c)
      BY <1>3, <2>3, <2>4, <3>1, ItemCleaned
    <3> QED BY <3>2 DEF CleanedTo
  <2>6. t = [s EXCEPT !.items[o].changed = FALSE]
    BY <2>2, <2>3, <2>4 DEF Cleaned, AnySlot
  <2>7. /\ u \in Stores(n) /\ u.cache.slots = [st.cache.slots EXCEPT ![i] = t]
        /\ u.cache.num_cached = st.cache.num_cached
        /\ u.cache.num_regions = st.cache.num_regions /\ u.file = f
    <3>1. PICK d, r : d = st.cache /\ r = [d.slots EXCEPT ![i] = t]
      OBVIOUS
    <3>2. PICK g : g = [d EXCEPT !.slots = r]
      OBVIOUS
    <3>3. d \in [slots : [0 .. n - 1 -> AnySlot], num_cached : Int, num_regions : Int]
      BY <1>2, <3>1 DEF Stores
    <3>4. r \in [0 .. n - 1 -> AnySlot]
      BY <1>2, <2>1, <2>5, <3>1 DEF SlotInv
    <3>5. /\ g.slots = r /\ g.num_cached = d.num_cached /\ g.num_regions = d.num_regions
          /\ g \in [slots : [0 .. n - 1 -> AnySlot], num_cached : Int, num_regions : Int]
      BY <3>2, <3>3, <3>4
    <3>6. r = [d.slots EXCEPT ![i].items[o].changed = FALSE]
      BY <2>2, <2>6, <3>1
    <3>7. u = [st EXCEPT !.file = f, !.cache = g]
      <4>1. u = [st EXCEPT !.file[p] = val, !.cache.slots = [@ EXCEPT ![i].items[o].changed = FALSE]]
        BY <1>1, <1>7 DEF WrittenAt
      <4> QED BY <1>4, <3>1, <3>2, <3>6, <4>1
    <3>8. u \in Stores(n) /\ u.cache = g /\ u.file = f
      BY <1>2, <1>5, <3>5, <3>7 DEF Stores
    <3> QED BY <3>1, <3>5, <3>8
  <2>8. /\ u.cache.slots[i] = t /\ Slots(u.cache) = 0 .. n - 1
        /\ \A j \in (0 .. n - 1) \ {i} : u.cache.slots[j] = st.cache.slots[j]
    BY <1>2, <2>1, <2>7 DEF Slots
  <2>9. \A j \in 0 .. n - 1 : u.cache.slots[j].region = st.cache.slots[j].region
    BY <2>2, <2>5, <2>8
  <2>10. Places(u.cache) = Places(st.cache)
    <3>1. \A x \in Offset : Has(t, x) <=> Has(s, x)
      BY <2>3, <2>5 DEF Has
    <3>2. \A j \in 0 .. n - 1, x \in Offset : Has(u.cache.slots[j], x) <=> Has(st.cache.slots[j], x)
      BY <2>2, <2>8, <3>1
    <3> QED BY <1>2, <2>8, <3>2 DEF Places
  <2>11. CacheOK(u, n)
    <3>1. \A j \in 0 .. n - 1 : SlotInv(u.cache.slots[j])
      BY <1>2, <2>5, <2>8
    <3>2. StoreOK(u, n)
      BY <1>2, <2>7, <2>9, <2>10, <3>1 DEF StoreOK
    <3>3. Prefix(u.cache, n)
      BY <2>7, <2>9 DEF CacheOK, Prefix
    <3> QED BY <2>7, <3>2, <3>3 DEF CacheOK
  <2>12. SlotOnly(st, u, n, i, p)
    <3>1. \A x \in Offset \ {o} : SameItem(s.items[x], t.items[x])
      BY <2>5 DEF SameItem
    <3> QED BY <1>1, <1>2, <2>1, <2>2, <2>8, <2>9, <3>1 DEF SlotOnly
  <2>13. ASSUME NEW q \in Page \ {p}, NEW v \in Value, Fine(st, q, v) PROVE Fine(u, q, v)
    <3>1. u.file[q] = st.file[q]
      BY <1>5, <2>7
    <3>2. SamePage(st, u, q)
      BY <2>1, <2>12, <3>1, OtherPages
    <3> QED BY <2>13, <3>2 DEF SamePage
  <2>14. Fine(u, p, val)
    <3>1. Shows(s, p)
      BY <1>1, <2>1, <2>2, <2>3 DEF Shows
    <3>2. t.items[o].data = val
      BY <1>1, <2>1, <2>2, <2>5, <3>1
    <3>3. \A j \in 0 .. n - 1 : Shows(u.cache.slots[j], p) =>
            u.cache.slots[j].items[p % PerRegion].data = val
      <4>1. \A j \in 0 .. n - 1 : j # i => st.cache.slots[j].region # p \div PerRegion
        BY <1>2, <2>1, OffsetIs DEF StoreOK
      <4>2. \A j \in 0 .. n - 1 : Shows(u.cache.slots[j], p) => j = i
        BY <2>9, <4>1 DEF Shows
      <4> QED BY <1>1, <2>8, <3>2, <4>2
    <3> QED BY <1>5, <2>7, <2>8, <3>3 DEF Fine
  <2> QED BY <1>4, <2>7, <2>11, <2>13, <2>14 DEF WrittenFine
<1> QED BY <1>6, <1>7

-----------------------------------------------------------------------------
(* The other loops.                                                        *)

FoldOf(g, n, base, f) ==
  \A s \in SUBSET (1 .. n) :
    g[s] = IF s = {} THEN base ELSE f[<<g[s \ {Max(s)}], Max(s)>>]

\* Where a step from T to T is defined, the fold over 1 .. n exists.
LEMMA FoldExists ==
  ASSUME NEW n \in Nat, NEW T, NEW base \in T, NEW f \in [T \X (1 .. n) -> T]
  PROVE  \E g \in [SUBSET (1 .. n) -> T] : FoldOf(g, n, base, f)
<1> DEFINE Fold(g, m) == \A s \in SUBSET (1 .. m) :
                           g[s] = IF s = {} THEN base ELSE f[<<g[s \ {Max(s)}], Max(s)>>]
           Bad == {m \in Nat : m <= n /\ ~\E g \in [SUBSET (1 .. m) -> T] : Fold(g, m)}
<1>1. Bad = {}
  <2> SUFFICES ASSUME Bad # {} PROVE FALSE
    OBVIOUS
  <2>1. PICK m \in Bad : \A k \in Bad : m <= k
    <3>1. Bad \in SUBSET Nat
      OBVIOUS
    <3> HIDE DEF Bad
    <3> QED BY <3>1, LeastExists
  <2>2. m \in Nat /\ m <= n /\ ~\E g \in [SUBSET (1 .. m) -> T] : Fold(g, m)
    OBVIOUS
  <2>3. m # 0
    <3>1. \E g \in [SUBSET (1 .. 0) -> T] : Fold(g, 0)
      <4> DEFINE g == [s \in SUBSET (1 .. 0) |-> base]
      <4>1. g \in [SUBSET (1 .. 0) -> T]
        OBVIOUS
      <4>2. \A s \in SUBSET (1 .. 0) : s = {} /\ g[s] = base
        OBVIOUS
      <4> HIDE DEF g
      <4> QED BY <4>1, <4>2
    <3> QED BY <2>2, <3>1
  <2>4. m - 1 \in Nat /\ m - 1 <= n /\ m - 1 \notin Bad
    <3> HIDE DEF Bad
    <3>1. m - 1 \in Nat /\ m - 1 <= n /\ ~(m <= m - 1)
      BY <2>2, <2>3
    <3> QED BY <2>1, <3>1
  <2>5. PICK g \in [SUBSET (1 .. m - 1) -> T] : Fold(g, m - 1)
    <3> HIDE DEF Fold
    <3> QED BY <2>4
  <2> DEFINE h == [s \in SUBSET (1 .. m) |->
                     IF s = {} THEN base ELSE f[<<g[s \ {Max(s)}], Max(s)>>]]
  <2>6. \A s \in SUBSET (1 .. m) : s # {} =>
          Max(s) \in 1 .. n /\ s \ {Max(s)} \in SUBSET (1 .. m - 1)
    <3> SUFFICES ASSUME NEW s \in SUBSET (1 .. m), s # {}
                 PROVE  Max(s) \in 1 .. n /\ s \ {Max(s)} \in SUBSET (1 .. m - 1)
      OBVIOUS
    <3>1. Max(s) \in s /\ s \ {Max(s)} \in SUBSET (1 .. m - 1)
      BY <2>2, MaxIs
    <3>2. \A x \in s : x \in 1 .. n
      BY <2>2
    <3> QED BY <3>1, <3>2
  <2>7. h \in [SUBSET (1 .. m) -> T]
    <3>1. ASSUME NEW s \in SUBSET (1 .. m), s # {}
          PROVE  f[<<g[s \ {Max(s)}], Max(s)>>] \in T
      <4>1. g[s \ {Max(s)}] \in T /\ Max(s) \in 1 .. n
        BY <2>6, <3>1
      <4> QED BY <4>1
    <3> QED BY <3>1
  <2>8. \A s \in SUBSET (1 .. m - 1) : h[s] = g[s]
    <3>1. \A s \in SUBSET (1 .. m - 1) : s \in SUBSET (1 .. m)
      BY <2>2
    <3>2. \A s \in SUBSET (1 .. m - 1) :
            h[s] = IF s = {} THEN base ELSE f[<<g[s \ {Max(s)}], Max(s)>>]
      BY <3>1
    <3> HIDE DEF h
    <3> QED BY <2>5, <3>2
  <2>9. Fold(h, m)
    <3>1. \A s \in SUBSET (1 .. m) :
            h[s] = IF s = {} THEN base ELSE f[<<g[s \ {Max(s)}], Max(s)>>]
      OBVIOUS
    <3> HIDE DEF h
    <3> QED BY <2>6, <2>8, <3>1
  <2> HIDE DEF h, Fold
  <2> QED BY <2>2, <2>7, <2>9
<1>2. \E g \in [SUBSET (1 .. n) -> T] : Fold(g, n)
  <2> HIDE DEF Fold
  <2>1. n <= n
    OBVIOUS
  <2>2. ~(n \in Bad)
    <3> HIDE DEF Bad
    <3> QED BY <1>1
  <2> QED BY <2>1, <2>2
<1>3. PICK g \in [SUBSET (1 .. n) -> T] : Fold(g, n)
  <2> HIDE DEF Fold
  <2> QED BY <1>2
<1> QED BY <1>3 DEF FoldOf

\* Its results lie in the sets G.
LEMMA FoldReaches ==
  ASSUME NEW n \in Nat, NEW G, NEW g, g[{}] \in G[0],
         \A k \in 1 .. n : g[1 .. k - 1] \in G[k - 1] => g[1 .. k] \in G[k]
  PROVE  g[1 .. n] \in G[n]
<1> DEFINE Out == {k \in Nat : k <= n /\ g[1 .. k] \notin G[k]}
<1>1. Out = {}
  <2> SUFFICES ASSUME Out # {} PROVE FALSE
    OBVIOUS
  <2>1. PICK k \in Out : \A j \in Out : k <= j
    <3>1. Out \in SUBSET Nat
      OBVIOUS
    <3> HIDE DEF Out
    <3> QED BY <3>1, LeastExists
  <2>2. k \in Nat /\ k <= n /\ g[1 .. k] \notin G[k]
    OBVIOUS
  <2>3. k # 0
    <3>1. 1 .. 0 = {}
      OBVIOUS
    <3> QED BY <2>2, <3>1
  <2>4. k - 1 \in Nat /\ k - 1 \notin Out /\ k - 1 <= n /\ k \in 1 .. n
    BY <2>1, <2>2, <2>3
  <2>5. g[1 .. k - 1] \in G[k - 1]
    BY <2>4
  <2> HIDE DEF Out
  <2> QED BY <2>2, <2>4, <2>5
<1>2. n \notin Out
  BY <1>1
<1> QED BY <1>2

\* The last number of 1 .. k.
LEMMA LastOf ==
  ASSUME NEW n \in Nat, NEW k \in 1 .. n
  PROVE  /\ 1 .. k \in SUBSET (1 .. n) /\ 1 .. k # {}
         /\ Max(1 .. k) = k /\ (1 .. k) \ {k} = 1 .. k - 1
<1>1. 1 \in 1 .. k /\ \A j \in 1 .. k : j \in 1 .. n
  OBVIOUS
<1>2. k \in Nat /\ k > 0
  OBVIOUS
<1> QED BY <1>1, <1>2, MaxOfNumbers

\* flush, for a slot: everything stays but what was changed.
SlotFlushed(s, t, os) ==
  /\ SlotInv(t) /\ t.region = s.region /\ t.flush_cost <= s.flush_cost
  /\ \A o \in Offset : /\ Has(t, o) <=> Has(s, o)
                       /\ Has(s, o) => /\ t.items[o].data = s.items[o].data
                                       /\ o \in os => ~t.items[o].changed

LEMMA FlushedNone ==
  ASSUME NEW s, SlotInv(s) PROVE SlotFlushed(s, s, {})
<1>1. s.flush_cost \in Nat
  BY DEF SlotInv, AnySlot
<1> QED BY <1>1 DEF SlotFlushed

LEMMA FlushedItemIs ==
  ASSUME NEW s, SlotInv(s), NEW o \in Offset, NEW t, t = FlushedItem(s, o)
  PROVE  /\ SlotInv(t) /\ t.region = s.region /\ t.flush_cost <= s.flush_cost
         /\ \A x \in Offset : /\ Has(t, x) <=> Has(s, x)
                              /\ Has(s, x) => /\ t.items[x].data = s.items[x].data
                                              /\ t.items[x].changed => s.items[x].changed
         /\ Has(s, o) => ~t.items[o].changed
<1>1. s \in AnySlot /\ s.flush_cost \in Nat
  BY DEF SlotInv, AnySlot
<1>2. CASE ~(Has(s, o) /\ s.items[o].changed)
  <2>1. t = s
    BY <1>2 DEF FlushedItem
  <2> QED BY <1>1, <1>2, <2>1
<1>3. CASE Has(s, o) /\ s.items[o].changed
  <2>1. PICK s1, s2 : s1 = UnlinkedFrom(s, o, "changed") /\ s2 = UnlinkedFrom(s1, o, "unchanged")
    OBVIOUS
  <2>2. SameSlot(s, s1)
    BY <1>1, <1>3, <2>1, UnlinkedSame DEF List
  <2>3. s1 \in AnySlot /\ Has(s1, o)
    BY <1>1, <1>3, <2>2, SameHas DEF SameSlot
  <2>4. SameSlot(s1, s2)
    BY <2>1, <2>3, UnlinkedSame DEF List
  <2>5. SameSlot(s, s2)
    BY <2>2, <2>4, SameAgain
  <2>6. SlotInv(s2) /\ s2 \in AnySlot /\ Has(s2, o) /\ s2.items[o].changed
        /\ s2.flush_cost = s.flush_cost /\ s2.region = s.region
    <3>1. SlotInv(s2)
      BY <2>5, SameSlotInv
    <3>2. Has(s2, o)
      BY <1>1, <1>3, <2>5, SameHas
    <3> QED BY <1>3, <2>5, <3>1, <3>2 DEF SameSlot, SameItem, Has
  <2>7. PICK c : c = s2.flush_cost - 1
    OBVIOUS
  <2>8. c \in Nat
    <3>1. s2.flush_cost \in Nat /\ s2.flush_cost >= Counts(s2.items[o])
      BY <2>6, CostCovers
    <3>2. Counts(s2.items[o]) = 1
      BY <2>6 DEF Counts, Has
    <3> QED BY <2>7, <3>1, <3>2
  <2>9. PICK s3 : s3 = Cleaned(s2, o, c)
    OBVIOUS
  <2>10. /\ SlotInv(s3) /\ s3.region = s2.region /\ s3.flush_cost = c
         /\ s3.items[o] # NoItem /\ s3.items[o].data = s2.items[o].data /\ ~s3.items[o].changed
         /\ \A p \in Offset \ {o} : s3.items[p] = s2.items[p]
    <3>1. o \in Offset /\ CostAfter(s2, o, c)
      BY <2>6, <2>7 DEF CostAfter
    <3>2. CleanedTo(s2, s3, o, c)
      BY <2>6, <2>8, <2>9, <3>1, ItemCleaned
    <3> QED BY <3>2 DEF CleanedTo
  <2>11. s3 \in AnySlot /\ Has(s3, o)
    BY <2>6, <2>10 DEF Has, SlotInv
  <2>12. t = LinkedMostRecent(s3, o, "unchanged")
    <3>1. s3 = [s2 EXCEPT !.items[o].changed = FALSE, !.flush_cost = @ - 1]
      BY <2>7, <2>9 DEF Cleaned
    <3> QED BY <1>3, <2>1, <3>1 DEF FlushedItem
  <2>13. SameSlot(s3, t)
    BY <2>11, <2>12, LinkedSame DEF List
  <2>14. SlotInv(t) /\ t.region = s.region
    BY <2>6, <2>10, <2>13, SameSlotInv DEF SameSlot
  <2>15. t.flush_cost <= s.flush_cost
    <3>1. t.flush_cost = s.flush_cost - 1
      BY <2>6, <2>7, <2>10, <2>13 DEF SameSlot
    <3> QED BY <1>1, <3>1
  <2>16. ASSUME NEW x \in Offset
         PROVE  /\ Has(t, x) <=> Has(s, x)
                /\ Has(s, x) => /\ t.items[x].data = s.items[x].data
                                /\ t.items[x].changed => s.items[x].changed
    <3>1. SameItem(s.items[x], s2.items[x]) /\ SameItem(s3.items[x], t.items[x])
      BY <2>5, <2>13 DEF SameSlot
    <3>2. CASE x = o
      BY <1>3, <2>6, <2>10, <3>1, <3>2 DEF SameItem, Has
    <3>3. CASE x # o
      BY <2>10, <3>1, <3>3 DEF SameItem, Has
    <3> QED BY <3>2, <3>3
  <2>17. ~t.items[o].changed
    BY <2>10, <2>13 DEF SameSlot, SameItem
  <2> QED BY <2>14, <2>15, <2>16, <2>17
<1> QED BY <1>2, <1>3

LEMMA FlushedAgain ==
  ASSUME NEW s, SlotInv(s), NEW t, NEW u, NEW os \in SUBSET Offset, NEW o \in Offset,
         SlotFlushed(s, t, os), u = FlushedItem(t, o)
  PROVE  SlotFlushed(s, u, os \cup {o})
<1>1. SlotInv(t)
  BY DEF SlotFlushed
<1>2. /\ SlotInv(u) /\ u.region = t.region /\ u.flush_cost <= t.flush_cost
      /\ \A x \in Offset : /\ Has(u, x) <=> Has(t, x)
                           /\ Has(t, x) => /\ u.items[x].data = t.items[x].data
                                           /\ u.items[x].changed => t.items[x].changed
      /\ Has(t, o) => ~u.items[o].changed
  BY <1>1, FlushedItemIs
<1>3. s.flush_cost \in Nat /\ t.flush_cost \in Nat /\ u.flush_cost \in Nat
  BY <1>1, <1>2 DEF SlotInv, AnySlot
<1>4. u.region = s.region /\ u.flush_cost <= s.flush_cost
  BY <1>2, <1>3 DEF SlotFlushed
<1>5. ASSUME NEW x \in Offset
      PROVE  /\ Has(u, x) <=> Has(s, x)
             /\ Has(s, x) => /\ u.items[x].data = s.items[x].data
                             /\ x \in os \cup {o} => ~u.items[x].changed
  BY <1>2 DEF SlotFlushed
<1> QED BY <1>2, <1>4, <1>5 DEF SlotFlushed

LEMMA FlushedItemsFlush ==
  ASSUME NEW s, SlotInv(s)
  PROVE  SlotFlushed(s, FlushedItems(s), Offset)
<1> DEFINE T == {t \in AnySlot : SlotInv(t)}
           seq == From(0, PerRegion - 1)
           f == [x \in T \X (1 .. PerRegion) |-> FlushedItem(x[1], seq[x[2]])]
           Fold(g) == g = [os \in SUBSET (1 .. PerRegion) |->
                             IF os = {} THEN s ELSE FlushedItem(g[os \ {Max(os)}], seq[Max(os)])]
           G == [k \in 0 .. PerRegion |-> {t \in T : SlotFlushed(s, t, 0 .. k - 1)}]
<1>1. PerRegion \in Nat /\ PerRegion > 0 /\ Offset = 0 .. PerRegion - 1
  BY Sizes DEF Offset
<1>2. DOMAIN seq = 1 .. PerRegion /\ \A k \in 1 .. PerRegion : seq[k] = k - 1 /\ seq[k] \in Offset
  <2>1. 0 \in Int /\ PerRegion - 1 \in Int /\ PerRegion - 1 - 0 + 1 = PerRegion
    BY <1>1
  <2>2. /\ DOMAIN seq = 1 .. PerRegion - 1 - 0 + 1
        /\ \A k \in 1 .. PerRegion - 1 - 0 + 1 : seq[k] = 0 + k - 1
    BY <2>1, FromIs
  <2> HIDE DEF seq
  <2> QED BY <1>1, <2>1, <2>2
<1> HIDE DEF seq
<1>3. FlushedItems(s) = (CHOOSE g : Fold(g))[1 .. PerRegion]
  <2>1. FlushedItems(s) =
          (CHOOSE g : g = [os \in SUBSET (DOMAIN seq) |->
                             IF os = {} THEN s
                             ELSE FlushedItem(g[os \ {Max(os)}], seq[Max(os)])])[DOMAIN seq]
    BY DEF FlushedItems, FoldLeft, MapThenFoldSet, seq
  <2> QED BY <1>2, <2>1
<1>4. s \in T
  BY DEF SlotInv
<1>5. f \in [T \X (1 .. PerRegion) -> T]
  <2>1. ASSUME NEW t \in T, NEW k \in 1 .. PerRegion PROVE FlushedItem(t, seq[k]) \in T
    <3>1. SlotInv(t) /\ seq[k] \in Offset
      BY <1>2
    <3>2. SlotInv(FlushedItem(t, seq[k]))
      BY <3>1, FlushedItemIs
    <3> QED BY <3>2 DEF SlotInv
  <2>2. \A x \in T \X (1 .. PerRegion) : FlushedItem(x[1], seq[x[2]]) \in T
    BY <2>1
  <2> HIDE DEF T
  <2> QED BY <2>2
<1>6. \E g : Fold(g)
  <2>1. PICK g \in [SUBSET (1 .. PerRegion) -> T] : FoldOf(g, PerRegion, s, f)
    <3> HIDE DEF T, f
    <3>1. PerRegion \in Nat
      BY <1>1
    <3> QED BY <1>4, <1>5, <3>1, FoldExists
  <2>2. ASSUME NEW os \in SUBSET (1 .. PerRegion), os # {}
        PROVE  g[os] = FlushedItem(g[os \ {Max(os)}], seq[Max(os)])
    <3>1. Max(os) \in 1 .. PerRegion /\ os \ {Max(os)} \in SUBSET (1 .. PerRegion)
      BY <1>1, <2>2, MaxIs
    <3>2. g[os \ {Max(os)}] \in T
      BY <3>1
    <3>3. g[os] = f[<<g[os \ {Max(os)}], Max(os)>>]
      BY <2>1, <2>2 DEF FoldOf
    <3> HIDE DEF T
    <3> QED BY <3>1, <3>2, <3>3
  <2>3. \A os \in SUBSET (1 .. PerRegion) :
          g[os] = IF os = {} THEN s ELSE FlushedItem(g[os \ {Max(os)}], seq[Max(os)])
    BY <2>1, <2>2 DEF FoldOf
  <2>4. g = [os \in SUBSET (1 .. PerRegion) |-> g[os]]
    OBVIOUS
  <2>5. Fold(g)
    BY <2>3, <2>4
  <2> QED BY <2>5
<1>7. PICK g : g = (CHOOSE h : Fold(h)) /\ Fold(g)
  <2> HIDE DEF Fold
  <2> QED BY <1>6
<1>8. \A os \in SUBSET (1 .. PerRegion) :
        g[os] = IF os = {} THEN s ELSE FlushedItem(g[os \ {Max(os)}], seq[Max(os)])
  BY <1>7
<1>9. g[{}] \in G[0]
  <2>1. 0 .. 0 - 1 = {} /\ 0 \in 0 .. PerRegion
    BY <1>1
  <2>2. g[{}] = s
    BY <1>8
  <2>3. SlotFlushed(s, s, {})
    BY FlushedNone
  <2> HIDE DEF T
  <2> QED BY <1>4, <2>1, <2>2, <2>3
<1>10. ASSUME NEW k \in 1 .. PerRegion, g[1 .. k - 1] \in G[k - 1] PROVE g[1 .. k] \in G[k]
  <2>1. /\ 1 .. k \in SUBSET (1 .. PerRegion) /\ 1 .. k # {}
        /\ Max(1 .. k) = k /\ (1 .. k) \ {k} = 1 .. k - 1
    BY <1>1, LastOf
  <2>2. PICK t : t = g[1 .. k - 1]
    OBVIOUS
  <2>3. g[1 .. k] = FlushedItem(t, k - 1)
    BY <1>2, <1>8, <2>1, <2>2
  <2>4. k - 1 \in 0 .. PerRegion /\ k \in 0 .. PerRegion /\ k - 1 \in Offset
        /\ 0 .. k - 1 - 1 \in SUBSET Offset
        /\ 0 .. k - 1 = (0 .. k - 1 - 1) \cup {k - 1}
    BY <1>1
  <2>5. SlotFlushed(s, t, 0 .. k - 1 - 1)
    BY <1>10, <2>2, <2>4
  <2>6. PICK u : u = FlushedItem(t, k - 1)
    OBVIOUS
  <2>7. SlotFlushed(s, u, (0 .. k - 1 - 1) \cup {k - 1})
    BY <2>4, <2>5, <2>6, FlushedAgain
  <2>8. SlotFlushed(s, u, 0 .. k - 1)
    BY <2>4, <2>7
  <2>9. u \in T
    BY <2>8 DEF SlotFlushed, SlotInv
  <2> HIDE DEF T
  <2> QED BY <2>3, <2>4, <2>6, <2>8, <2>9
<1>11. g[1 .. PerRegion] \in G[PerRegion]
  <2> HIDE DEF G, T, f
  <2> QED BY <1>1, <1>9, <1>10, FoldReaches
<1>12. PerRegion \in 0 .. PerRegion
  BY <1>1
<1>13. SlotFlushed(s, g[1 .. PerRegion], 0 .. PerRegion - 1)
  <2> HIDE DEF T
  <2> QED BY <1>11, <1>12
<1> QED BY <1>1, <1>3, <1>7, <1>13

LEMMA SlotFlushes ==
  ASSUME NEW s, SlotInv(s), NEW u, u = FlushedSlot(s)
  PROVE  SlotFlushed(s, u, Offset)
<1>1. PICK t : t = FlushedItems(s)
  OBVIOUS
<1>2. SlotFlushed(s, t, Offset)
  BY <1>1, FlushedItemsFlush
<1>3. SlotInv(t) /\ t \in AnySlot
  BY <1>2 DEF SlotFlushed, SlotInv
<1>4. PICK items : items = [o \in Offset |-> IF ~Has(t, o) THEN NoItem
                     ELSE [t.items[o] EXCEPT !.prev["unchanged"] = t.items[o].prev["used"],
                                             !.next["unchanged"] = t.items[o].next["used"]]]
  OBVIOUS
<1>5. u = [t EXCEPT !.items = items, !.most["unchanged"] = t.most["used"],
                    !.least["unchanged"] = t.least["used"]]
  BY <1>1, <1>4 DEF FlushedSlot
<1>6. \A o \in Offset : SameItem(t.items[o], items[o]) /\ items[o] \in Item \cup {NoItem}
  <2> TAKE o \in Offset
  <2>1. CASE ~Has(t, o)
    BY <1>3, <1>4, <2>1, InSlot DEF SameItem
  <2>2. CASE Has(t, o)
    <3>1. PICK x : x = t.items[o]
      OBVIOUS
    <3>2. x \in Item
      BY <1>3, <2>2, <3>1, InSlot
    <3>3. x.prev \in [List -> Link] /\ x.next \in [List -> Link]
      BY <3>2 DEF Item
    <3>4. PICK a, b : a = [x.prev EXCEPT !["unchanged"] = x.prev["used"]]
                      /\ b = [x.next EXCEPT !["unchanged"] = x.next["used"]]
      OBVIOUS
    <3>5. a \in [List -> Link] /\ b \in [List -> Link]
      BY <3>3, <3>4 DEF List
    <3>6. items[o] = [x EXCEPT !.prev = a, !.next = b]
      BY <1>4, <2>2, <3>1, <3>4
    <3>7. items[o] \in Item /\ items[o].data = x.data /\ items[o].changed = x.changed
      BY <3>2, <3>5, <3>6 DEF Item
    <3> QED BY <3>1, <3>2, <3>7, ItemIsNot DEF SameItem
  <2> QED BY <2>1, <2>2
<1>7. PICK a, b : a = [t.most EXCEPT !["unchanged"] = t.most["used"]]
                  /\ b = [t.least EXCEPT !["unchanged"] = t.least["used"]]
  OBVIOUS
<1>8. a \in [List -> Link] /\ b \in [List -> Link]
  BY <1>3, <1>7 DEF AnySlot, List
<1>9. u = [t EXCEPT !.items = items, !.most = a, !.least = b]
  BY <1>5, <1>7
<1>10. items \in [Offset -> Item \cup {NoItem}]
  <2>1. items = [o \in Offset |-> items[o]]
    BY <1>4
  <2> QED BY <1>6, <2>1
<1>11. SameSlot(t, u)
  <2>1. u \in AnySlot /\ u.region = t.region /\ u.flush_cost = t.flush_cost /\ u.items = items
    BY <1>3, <1>8, <1>9, <1>10 DEF AnySlot
  <2> QED BY <1>6, <2>1 DEF SameSlot
<1>12. SlotInv(u)
  BY <1>3, <1>11, SameSlotInv
<1>13. ASSUME NEW o \in Offset
       PROVE  /\ Has(u, o) <=> Has(t, o)
              /\ Has(t, o) => u.items[o].data = t.items[o].data /\ u.items[o].changed = t.items[o].changed
  BY <1>11 DEF SameSlot, SameItem, Has
<1> QED BY <1>2, <1>11, <1>12, <1>13 DEF SlotFlushed, SameSlot

-----------------------------------------------------------------------------
(* clear and clear_from.                                                   *)

\* No slot has more to flush than before.
CostsLess(st, t, n) ==
  \A j \in 0 .. n - 1 : t.cache.slots[j].flush_cost <= st.cache.slots[j].flush_cost

LEMMA CostsLessAgain ==
  ASSUME NEW n \in Nat, NEW st, NEW t, NEW u, StoreOK(st, n), StoreOK(t, n), StoreOK(u, n),
         CostsLess(st, t, n), CostsLess(t, u, n)
  PROVE  CostsLess(st, u, n)
<1> SUFFICES ASSUME NEW j \in 0 .. n - 1
             PROVE  u.cache.slots[j].flush_cost <= st.cache.slots[j].flush_cost
  BY DEF CostsLess
<1>1. st.cache.slots[j].flush_cost \in Nat
  BY InStore DEF AnySlot
<1>2. t.cache.slots[j].flush_cost \in Nat
  BY InStore DEF AnySlot
<1>3. u.cache.slots[j].flush_cost \in Nat
  BY InStore DEF AnySlot
<1>4. /\ t.cache.slots[j].flush_cost <= st.cache.slots[j].flush_cost
      /\ u.cache.slots[j].flush_cost <= t.cache.slots[j].flush_cost
  BY DEF CostsLess
<1> QED BY <1>1, <1>2, <1>3, <1>4

LEMMA CostsLessSelf ==
  ASSUME NEW n \in Nat, NEW st, StoreOK(st, n)
  PROVE  CostsLess(st, st, n)
<1>1. ASSUME NEW j \in 0 .. n - 1
      PROVE  st.cache.slots[j].flush_cost <= st.cache.slots[j].flush_cost
  <2>1. st.cache.slots[j].flush_cost \in Nat
    BY InStore DEF AnySlot
  <2> QED BY <2>1
<1> QED BY <1>1 DEF CostsLess

LastFreed(t, k) == FreedRegion(t, k, FALSE, TRUE)

Discarded(st, u, n, i) ==
  /\ StoreOK(u, n) /\ u.cache.slots[i] = EmptySlot
  /\ \A j \in (0 .. n - 1) \ {i} : u.cache.slots[j] = st.cache.slots[j]
  /\ KeepsPages(st, u, {PageOf(st.cache.slots[i], o) : o \in Offset})
  /\ Places(u.cache) \subseteq Places(st.cache) /\ u.file = st.file
  /\ u.cache.num_regions = IF i = st.cache.num_regions - 1
                           THEN st.cache.num_regions - 1 ELSE st.cache.num_regions
  /\ CostsLess(st, u, n)

LEMMA LastFreedIs ==
  ASSUME NEW n \in Nat, NEW st, StoreOK(st, n), NEW i \in 0 .. n - 1, NEW u, u = LastFreed(st, i)
  PROVE  Discarded(st, u, n, i)
<1>1. PICK reuse \in BOOLEAN, discard \in BOOLEAN : reuse = FALSE /\ discard = TRUE
  OBVIOUS
<1>2. u = FreedRegion(st, i, reuse, discard)
  BY <1>1 DEF LastFreed
<1>3. /\ Emptied(st, u, n, i, discard)
      /\ u.cache.num_regions = IF ~reuse /\ i = st.cache.num_regions - 1
                               THEN st.cache.num_regions - 1 ELSE st.cache.num_regions
  BY <1>2, FreedRegionKeeps
<1>4. LostPages(st.cache.slots[i], Offset, discard) = {PageOf(st.cache.slots[i], o) : o \in Offset}
  BY <1>1 DEF LostPages
<1>5. CostsLess(st, u, n)
  <2>1. ASSUME NEW j \in 0 .. n - 1
        PROVE  u.cache.slots[j].flush_cost <= st.cache.slots[j].flush_cost
    <3>1. st.cache.slots[j].flush_cost \in Nat
      BY InStore DEF AnySlot
    <3>2. j # i => u.cache.slots[j] = st.cache.slots[j]
      BY <1>3 DEF Emptied
    <3>3. j = i => u.cache.slots[j].flush_cost = 0
      BY <1>3, EmptyIs DEF Emptied
    <3> QED BY <3>1, <3>2, <3>3
  <2> QED BY <2>1 DEF CostsLess
<1>6. u.cache.num_regions = IF i = st.cache.num_regions - 1
                            THEN st.cache.num_regions - 1 ELSE st.cache.num_regions
  BY <1>1, <1>3
<1> QED BY <1>1, <1>3, <1>4, <1>5, <1>6 DEF Emptied, Discarded

\* The last region is freed.
LEMMA LastFreedKeeps ==
  ASSUME NEW n \in Nat, NEW st, CacheOK(st, n), NEW i \in 0 .. n - 1,
         st.cache.num_regions = i + 1, NEW u, u = LastFreed(st, i)
  PROVE  CacheOK(u, n) /\ u.cache.num_regions = i
<1>1. StoreOK(st, n) /\ Prefix(st.cache, n) /\ st.cache.num_cached <= MaxItems
  BY DEF CacheOK
<1>2. /\ StoreOK(u, n) /\ u.cache.slots[i] = EmptySlot
      /\ \A j \in (0 .. n - 1) \ {i} : u.cache.slots[j] = st.cache.slots[j]
      /\ Places(u.cache) \subseteq Places(st.cache)
      /\ u.cache.num_regions = IF i = st.cache.num_regions - 1
                               THEN st.cache.num_regions - 1 ELSE st.cache.num_regions
  <2>1. Discarded(st, u, n, i)
    BY <1>1, LastFreedIs
  <2> QED BY <2>1 DEF Discarded
<1>3. u.cache.num_regions = i
  BY <1>2
<1>4. u.cache.num_cached <= MaxItems
  <2>1. u.cache.num_cached <= st.cache.num_cached
    BY <1>1, <1>2, FewerPlaces
  <2>2. u.cache.num_cached \in Nat /\ st.cache.num_cached \in Nat
    BY <1>1, <1>2, InStore
  <2> QED BY <1>1, <2>1, <2>2, Sizes
<1>5. ASSUME NEW j \in 0 .. n - 1 PROVE u.cache.slots[j].region # None <=> j < i
  <2>1. CASE j = i
    BY <1>2, <2>1, EmptyIs
  <2>2. CASE j # i
    <3>1. st.cache.slots[j].region # None <=> j < i + 1
      BY <1>1 DEF Prefix
    <3>2. j < i + 1 <=> j < i
      BY <2>2
    <3> QED BY <1>2, <2>2, <3>1, <3>2
  <2> QED BY <2>1, <2>2
<1>6. Prefix(u.cache, n)
  BY <1>3, <1>5 DEF Prefix
<1> QED BY <1>2, <1>3, <1>4, <1>6 DEF CacheOK

\* The loop of clear.
AllFreed(st, m) ==
  FoldLeft(LAMBDA t, i : FreedRegion(t, m - i, FALSE, TRUE), st, From(1, m))

AllGone(st, u, n) ==
  /\ CacheOK(u, n) /\ \A q \in Page : ~CachedIn(u, q)
  /\ CostsLess(st, u, n)

LEMMA AllFreedIs ==
  ASSUME NEW n \in Nat, NEW st, CacheOK(st, n), NEW m, m = st.cache.num_regions
  PROVE  AllGone(st, AllFreed(st, m), n)
<1> DEFINE T == {t \in Stores(n) : StoreOK(t, n)}
           seq == From(1, m)
           f == [x \in T \X (1 .. m) |-> LastFreed(x[1], m - x[2])]
           Fold(g) == g = [s \in SUBSET (1 .. m) |->
                             IF s = {} THEN st ELSE LastFreed(g[s \ {Max(s)}], m - seq[Max(s)])]
           G == [k \in 0 .. m |-> {t \in T : /\ CacheOK(t, n) /\ t.cache.num_regions = m - k
                                             /\ CostsLess(st, t, n)}]
<1>1. m \in 0 .. n /\ m \in Nat
  BY DEF CacheOK, Prefix
<1>2. DOMAIN seq = 1 .. m /\ \A k \in 1 .. m : seq[k] = k /\ m - k \in 0 .. n - 1
  <2>1. 1 \in Int /\ m \in Int /\ m - 1 + 1 = m
    BY <1>1
  <2>2. /\ DOMAIN seq = 1 .. m - 1 + 1
        /\ \A k \in 1 .. m - 1 + 1 : seq[k] = 1 + k - 1
    BY <2>1, FromIs
  <2>3. \A k \in 1 .. m : 1 + k - 1 = k /\ m - k \in 0 .. n - 1
    BY <1>1
  <2> HIDE DEF seq
  <2> QED BY <2>1, <2>2, <2>3
<1> HIDE DEF seq
<1>3. AllFreed(st, m) = (CHOOSE g : Fold(g))[1 .. m]
  <2>1. AllFreed(st, m) =
          (CHOOSE g : g = [s \in SUBSET (DOMAIN seq) |->
                             IF s = {} THEN st
                             ELSE LastFreed(g[s \ {Max(s)}], m - seq[Max(s)])])[DOMAIN seq]
    BY DEF AllFreed, FoldLeft, MapThenFoldSet, seq, LastFreed
  <2> QED BY <1>2, <2>1
<1>4. st \in T /\ StoreOK(st, n)
  BY DEF CacheOK, StoreOK
<1>5. f \in [T \X (1 .. m) -> T]
  <2>1. ASSUME NEW t \in T, NEW k \in 1 .. m PROVE LastFreed(t, m - k) \in T
    <3>1. StoreOK(t, n) /\ m - k \in 0 .. n - 1
      BY <1>2
    <3>2. StoreOK(LastFreed(t, m - k), n)
      BY <3>1, LastFreedIs DEF Discarded
    <3> QED BY <3>2 DEF StoreOK
  <2>2. \A x \in T \X (1 .. m) : LastFreed(x[1], m - x[2]) \in T
    BY <2>1
  <2> HIDE DEF T
  <2> QED BY <2>2
<1>6. \E g : Fold(g)
  <2>1. PICK g \in [SUBSET (1 .. m) -> T] : FoldOf(g, m, st, f)
    <3> HIDE DEF T, f
    <3> QED BY <1>1, <1>4, <1>5, FoldExists
  <2>2. ASSUME NEW s \in SUBSET (1 .. m), s # {}
        PROVE  g[s] = LastFreed(g[s \ {Max(s)}], m - seq[Max(s)])
    <3>1. Max(s) \in 1 .. m /\ s \ {Max(s)} \in SUBSET (1 .. m)
      BY <1>1, <2>2, MaxIs
    <3>2. g[s \ {Max(s)}] \in T
      BY <3>1
    <3>3. g[s] = f[<<g[s \ {Max(s)}], Max(s)>>]
      BY <2>1, <2>2 DEF FoldOf
    <3>4. seq[Max(s)] = Max(s)
      BY <1>2, <3>1
    <3> HIDE DEF T
    <3> QED BY <3>1, <3>2, <3>3, <3>4
  <2>3. \A s \in SUBSET (1 .. m) :
          g[s] = IF s = {} THEN st ELSE LastFreed(g[s \ {Max(s)}], m - seq[Max(s)])
    BY <2>1, <2>2 DEF FoldOf
  <2>4. g = [s \in SUBSET (1 .. m) |-> g[s]]
    OBVIOUS
  <2>5. Fold(g)
    BY <2>3, <2>4
  <2> QED BY <2>5
<1>7. PICK g : g = (CHOOSE h : Fold(h)) /\ Fold(g)
  <2> HIDE DEF Fold
  <2> QED BY <1>6
<1>8. \A s \in SUBSET (1 .. m) :
        g[s] = IF s = {} THEN st ELSE LastFreed(g[s \ {Max(s)}], m - seq[Max(s)])
  BY <1>7
<1>9. g[{}] \in G[0]
  <2>1. g[{}] = st
    BY <1>8
  <2>2. CostsLess(st, st, n)
    BY <1>4, CostsLessSelf
  <2>3. 0 \in 0 .. m /\ m - 0 = m
    BY <1>1
  <2> HIDE DEF T
  <2> QED BY <1>4, <2>1, <2>2, <2>3
<1>10. ASSUME NEW k \in 1 .. m, g[1 .. k - 1] \in G[k - 1] PROVE g[1 .. k] \in G[k]
  <2>1. /\ 1 .. k \in SUBSET (1 .. m) /\ 1 .. k # {}
        /\ Max(1 .. k) = k /\ (1 .. k) \ {k} = 1 .. k - 1
    BY <1>1, LastOf
  <2>2. PICK t : t = g[1 .. k - 1]
    OBVIOUS
  <2>3. g[1 .. k] = LastFreed(t, m - k)
    <3>1. g[1 .. k] = LastFreed(g[(1 .. k) \ {Max(1 .. k)}], m - seq[Max(1 .. k)])
      BY <1>8, <2>1
    <3>2. seq[k] = k
      BY <1>2
    <3> QED BY <2>1, <2>2, <3>1, <3>2
  <2>4. k - 1 \in 0 .. m /\ k \in 0 .. m /\ m - k \in 0 .. n - 1 /\ m - (k - 1) = m - k + 1
    BY <1>1
  <2>5. CacheOK(t, n) /\ t.cache.num_regions = m - (k - 1) /\ CostsLess(st, t, n)
    BY <1>10, <2>2, <2>4
  <2>6. PICK i \in 0 .. n - 1 : i = m - k
    BY <2>4
  <2>7. PICK u : u = LastFreed(t, i)
    OBVIOUS
  <2>8. t.cache.num_regions = i + 1 /\ StoreOK(t, n)
    BY <2>4, <2>5, <2>6 DEF CacheOK
  <2>9. CacheOK(u, n) /\ u.cache.num_regions = i
    BY <2>5, <2>7, <2>8, LastFreedKeeps
  <2>10. CostsLess(t, u, n)
    BY <2>7, <2>8, LastFreedIs DEF Discarded
  <2>11. CostsLess(st, u, n)
    BY <1>4, <2>5, <2>8, <2>9, <2>10, CostsLessAgain DEF CacheOK
  <2>12. u \in T
    BY <2>9 DEF CacheOK, StoreOK
  <2> HIDE DEF T
  <2> QED BY <2>3, <2>4, <2>6, <2>7, <2>9, <2>11, <2>12
<1>11. g[1 .. m] \in G[m]
  <2> HIDE DEF G, T, f
  <2> QED BY <1>1, <1>9, <1>10, FoldReaches
<1>12. PICK u : u = g[1 .. m]
  OBVIOUS
<1>13. CacheOK(u, n) /\ u.cache.num_regions = 0 /\ CostsLess(st, u, n)
  <2>1. m \in 0 .. m /\ m - m = 0
    BY <1>1
  <2> HIDE DEF T
  <2> QED BY <1>11, <1>12, <2>1
<1>14. ASSUME NEW q \in Page PROVE ~CachedIn(u, q)
  <2>1. Slots(u.cache) = 0 .. n - 1
    BY <1>13, InStore DEF CacheOK
  <2>2. \A j \in 0 .. n - 1 : u.cache.slots[j].region = None
    BY <1>13 DEF CacheOK, Prefix
  <2> QED BY <2>1, <2>2, OffsetIs DEF CachedIn, Shows
<1>15. AllFreed(st, m) = u
  BY <1>3, <1>7, <1>12
<1> QED BY <1>13, <1>14, <1>15 DEF AllGone

-----------------------------------------------------------------------------
(* The calls, on a store.                                                  *)

PutDone(st, u, n, p, val) ==
  /\ CacheOK(u, n) /\ Fine(u, p, val) /\ u.file[p] \in {st.file[p], val}
  /\ \A q \in Page \ {p}, v \in Value :
       Fine(st, q, v) => Fine(u, q, v) /\ u.file[q] \in {st.file[q], v}

LEMMA NewItemIs ==
  ASSUME NEW val \in Value, NEW b \in BOOLEAN
  PROVE  NewItem(val, b) \in Item /\ NewItem(val, b).data = val /\ NewItem(val, b).changed = b
BY LinkIs DEF NewItem, Item

LEMMA PutOnStore ==
  ASSUME NEW n \in Nat, NEW st, CacheOK(st, n), NEW p \in Page, NEW val \in Value,
         ~(~CachedIn(st, p) /\ Scanned(st.cache, p \div PerRegion) /\ NullHead(st.cache)),
         NEW item, item \in Item, item.data = val, item.changed, NEW r \in Retained(st, item, p),
         NEW i, i = SlotOf(st.cache, p \div PerRegion),
         NEW u, \/ r.retained /\ u = r.st
                \/ u = WrittenAt(r.st, i, p % PerRegion, p, val)
  PROVE  PutDone(st, u, n, p, val)
<1>1. RetainedFine(st, r, n, p, item)
  BY RetainedKeeps
<1>2. PICK t : t = r.st
  OBVIOUS
<1>3. /\ CacheOK(t, n) /\ t.file[p] = st.file[p]
      /\ \A q \in Page \ {p}, v \in Value :
           Fine(st, q, v) => Fine(t, q, v) /\ t.file[q] \in {st.file[q], v}
      /\ r.retained => /\ \A j \in 0 .. n - 1 : Shows(t.cache.slots[j], p) =>
                            t.cache.slots[j].items[p % PerRegion].data = val
                       /\ Fine(t, p, val)
      /\ ~r.retained => ~CachedIn(t, p)
      /\ \A j \in 0 .. n - 1 : st.cache.slots[j].region = p \div PerRegion =>
                                 t.cache.slots[j].region = p \div PerRegion
  BY <1>1, <1>2 DEF RetainedFine
<1>4. CASE r.retained /\ u = t
  <2>1. u.file[p] \in {st.file[p], val}
    BY <1>3, <1>4
  <2> QED BY <1>3, <1>4, <2>1 DEF PutDone
<1>5. CASE u = WrittenAt(t, i, p % PerRegion, p, val)
  <2>1. i # None => i \in 0 .. n - 1 /\ t.cache.slots[i].region = p \div PerRegion
    <3>1. StoreOK(st, n)
      BY DEF CacheOK
    <3>2. /\ CachedIn(st, p) <=> i # None /\ Has(st.cache.slots[i], p % PerRegion)
          /\ i # None => i \in 0 .. n - 1 /\ st.cache.slots[i].region = p \div PerRegion
          /\ i = None => \A j \in 0 .. n - 1 : st.cache.slots[j].region # p \div PerRegion
          /\ \A j \in 0 .. n - 1 : Shows(st.cache.slots[j], p) => j = i
      BY <3>1, LookedUp
    <3> QED BY <1>3, <3>2
  <2>2. \A j \in 0 .. n - 1 : Shows(t.cache.slots[j], p) =>
                                t.cache.slots[j].items[p % PerRegion].data = val
    <3>1. Slots(t.cache) = 0 .. n - 1
      BY <1>3, InStore DEF CacheOK
    <3>2. CASE r.retained
      BY <1>3, <3>2
    <3>3. CASE ~r.retained
      BY <1>3, <3>1, <3>3 DEF CachedIn
    <3> QED BY <3>2, <3>3
  <2>3. WrittenFine(t, u, n, p, val)
    BY <1>3, <1>5, <2>1, <2>2, WrittenKeeps
  <2>4. t.file \in [Page -> Value]
    BY <1>3, InStore DEF CacheOK
  <2>5. u.file[p] = val /\ \A q \in Page \ {p} : u.file[q] = t.file[q]
    BY <2>3, <2>4 DEF WrittenFine
  <2>6. ASSUME NEW q \in Page \ {p}, NEW v \in Value, Fine(st, q, v)
        PROVE  Fine(u, q, v) /\ u.file[q] \in {st.file[q], v}
    <3>1. Fine(t, q, v) /\ t.file[q] \in {st.file[q], v}
      BY <1>3, <2>6
    <3> QED BY <2>3, <2>5, <3>1 DEF WrittenFine
  <2> QED BY <2>3, <2>5, <2>6 DEF PutDone, WrittenFine
<1> QED BY <1>2, <1>4, <1>5

\* A page is in one slot at most, the one that its region is found in.
LEMMA ShownOnce ==
  ASSUME NEW n \in Nat, NEW st, StoreOK(st, n), NEW q \in Page, NEW j \in 0 .. n - 1,
         Shows(st.cache.slots[j], q)
  PROVE  j = SlotOf(st.cache, q \div PerRegion)
<1>1. PICK i : i = SlotOf(st.cache, q \div PerRegion)
  OBVIOUS
<1>2. /\ CachedIn(st, q) <=> i # None /\ Has(st.cache.slots[i], q % PerRegion)
      /\ i # None => i \in 0 .. n - 1 /\ st.cache.slots[i].region = q \div PerRegion
      /\ i = None => \A k \in 0 .. n - 1 : st.cache.slots[k].region # q \div PerRegion
      /\ \A k \in 0 .. n - 1 : Shows(st.cache.slots[k], q) => k = i
  BY <1>1, LookedUp
<1> QED BY <1>1, <1>2

\* flush, on a store.
FlushedTo(st, u) ==
  /\ u.file = [p \in Page |->
                 IF \E i \in Slots(st.cache) : Shows(st.cache.slots[i], p)
                                               /\ st.cache.slots[i].items[p % PerRegion].changed
                 THEN LET i == SlotOf(st.cache, p \div PerRegion)
                      IN st.cache.slots[i].items[p % PerRegion].data
                 ELSE st.file[p]]
  /\ u.cache = [st.cache EXCEPT !.slots = [i \in Slots(st.cache) |-> FlushedSlot(@[i])]]
  /\ u = [cache |-> u.cache, file |-> u.file]

FlushDone(st, u, n) ==
  /\ CacheOK(u, n) /\ CostsLess(st, u, n)
  /\ \A q \in Page, v \in Value : Fine(st, q, v) => Fine(u, q, v) /\ u.file[q] = v

LEMMA FlushOnStore ==
  ASSUME NEW n \in Nat, NEW st, CacheOK(st, n), NEW u, FlushedTo(st, u)
  PROVE  FlushDone(st, u, n)
<1>1. /\ Slots(st.cache) = 0 .. n - 1 /\ st.cache.slots \in [0 .. n - 1 -> AnySlot]
      /\ StoreOK(st, n) /\ st \in Stores(n) /\ st.file \in [Page -> Value]
      /\ \A j \in 0 .. n - 1 : SlotInv(st.cache.slots[j])
  BY InStore DEF CacheOK, StoreOK
<1>2. PICK slots : slots = [i \in 0 .. n - 1 |-> FlushedSlot(st.cache.slots[i])]
  OBVIOUS
<1>3. \A j \in 0 .. n - 1 : SlotFlushed(st.cache.slots[j], slots[j], Offset)
  BY <1>1, <1>2, SlotFlushes
<1>4. \A j \in 0 .. n - 1 : SlotInv(slots[j]) /\ slots[j] \in AnySlot
  BY <1>3 DEF SlotFlushed, SlotInv
<1>5. slots \in [0 .. n - 1 -> AnySlot]
  BY <1>2, <1>4
<1>6. /\ u.cache \in [slots : [0 .. n - 1 -> AnySlot], num_cached : Int, num_regions : Int]
      /\ u.cache.slots = slots /\ u.cache.num_cached = st.cache.num_cached
      /\ u.cache.num_regions = st.cache.num_regions
  <2>1. PICK d : d = st.cache
    OBVIOUS
  <2>2. d \in [slots : [0 .. n - 1 -> AnySlot], num_cached : Int, num_regions : Int]
    BY <1>1, <2>1 DEF Stores
  <2>3. u.cache = [d EXCEPT !.slots = slots]
    <3>1. u.cache = [d EXCEPT !.slots = [i \in 0 .. n - 1 |-> FlushedSlot(@[i])]]
      BY <1>1, <2>1 DEF FlushedTo
    <3> QED BY <1>2, <2>1, <2>2, <3>1
  <2> QED BY <1>5, <2>1, <2>2, <2>3
<1>7. Slots(u.cache) = 0 .. n - 1
  BY <1>5, <1>6 DEF Slots
<1>8. \A j \in 0 .. n - 1, x \in Offset : Has(slots[j], x) <=> Has(st.cache.slots[j], x)
  BY <1>3 DEF SlotFlushed
<1>9. \A j \in 0 .. n - 1 : slots[j].region = st.cache.slots[j].region
  BY <1>3 DEF SlotFlushed
<1>0. \A q \in Page, j \in 0 .. n - 1 :
        Shows(st.cache.slots[j], q) => j = SlotOf(st.cache, q \div PerRegion)
  BY <1>1, ShownOnce
<1>10. \A q \in Page, v \in Value : Fine(st, q, v) => u.file[q] = v
  <2> SUFFICES ASSUME NEW q \in Page, NEW v \in Value, Fine(st, q, v)
               PROVE  u.file[q] = v
    OBVIOUS
  <2>1. PICK i : i = SlotOf(st.cache, q \div PerRegion)
    OBVIOUS
  <2>2. \A j \in 0 .. n - 1 : Shows(st.cache.slots[j], q) => j = i
    BY <1>0, <2>1
  <2>3. u.file[q] = IF \E j \in 0 .. n - 1 : Shows(st.cache.slots[j], q)
                                            /\ st.cache.slots[j].items[q % PerRegion].changed
                    THEN st.cache.slots[i].items[q % PerRegion].data ELSE st.file[q]
    BY <1>1, <2>1 DEF FlushedTo
  <2>4. CASE \E j \in 0 .. n - 1 : Shows(st.cache.slots[j], q)
                                   /\ st.cache.slots[j].items[q % PerRegion].changed
    <3>1. PICK j \in 0 .. n - 1 : Shows(st.cache.slots[j], q)
      BY <2>4
    <3>2. st.cache.slots[j].items[q % PerRegion].data = v /\ j = i
      BY <1>1, <2>2, <3>1 DEF Fine
    <3> QED BY <2>3, <2>4, <3>2
  <2>5. CASE ~\E j \in 0 .. n - 1 : Shows(st.cache.slots[j], q)
                                    /\ st.cache.slots[j].items[q % PerRegion].changed
    <3>1. st.file[q] = v
      BY <1>1, <2>5 DEF Fine, CachedIn
    <3> QED BY <2>3, <2>5, <3>1
  <2> QED BY <2>4, <2>5
<1>11. u.file \in [Page -> Value]
  <2>1. u.file = [q \in Page |-> u.file[q]]
    BY DEF FlushedTo
  <2>2. ASSUME NEW q \in Page PROVE u.file[q] \in Value
    <3>1. PICK i : i = SlotOf(st.cache, q \div PerRegion)
      OBVIOUS
    <3>2. u.file[q] = IF \E j \in 0 .. n - 1 : Shows(st.cache.slots[j], q)
                                              /\ st.cache.slots[j].items[q % PerRegion].changed
                      THEN st.cache.slots[i].items[q % PerRegion].data ELSE st.file[q]
      BY <1>1, <3>1 DEF FlushedTo
    <3>3. \A j \in 0 .. n - 1 : Shows(st.cache.slots[j], q) => j = i
      BY <1>0, <3>1
    <3>4. ASSUME NEW j \in 0 .. n - 1, Shows(st.cache.slots[j], q)
          PROVE  st.cache.slots[j].items[q % PerRegion].data \in Value
      BY <1>1, <3>4, InSlot, OffsetIs DEF Shows
    <3> QED BY <1>1, <3>2, <3>3, <3>4
  <2> QED BY <2>1, <2>2
<1>12. u \in Stores(n)
  BY <1>6, <1>11 DEF FlushedTo, Stores
<1>13. Places(u.cache) = Places(st.cache)
  BY <1>1, <1>6, <1>7, <1>8 DEF Places
<1>14. CacheOK(u, n)
  <2>1. StoreOK(u, n)
    BY <1>1, <1>4, <1>6, <1>9, <1>12, <1>13 DEF StoreOK
  <2>2. Prefix(u.cache, n)
    BY <1>6, <1>9 DEF CacheOK, Prefix
  <2> QED BY <1>6, <2>1, <2>2 DEF CacheOK
<1>15. CostsLess(st, u, n)
  BY <1>3, <1>6 DEF CostsLess, SlotFlushed
<1>16. ASSUME NEW q \in Page, NEW v \in Value, Fine(st, q, v) PROVE Fine(u, q, v)
  <2>1. u.file[q] = v
    BY <1>10, <1>16
  <2>2. ASSUME NEW j \in 0 .. n - 1, Shows(u.cache.slots[j], q)
        PROVE  u.cache.slots[j].items[q % PerRegion].data = v
    <3>1. q % PerRegion \in Offset
      BY OffsetIs
    <3>2. Shows(st.cache.slots[j], q)
      BY <1>6, <1>8, <1>9, <2>2, <3>1 DEF Shows
    <3>3. slots[j].items[q % PerRegion].data = st.cache.slots[j].items[q % PerRegion].data
      BY <1>3, <3>1, <3>2 DEF SlotFlushed, Shows
    <3> QED BY <1>1, <1>6, <1>16, <3>2, <3>3 DEF Fine
  <2> QED BY <1>7, <2>1, <2>2 DEF Fine
<1> QED BY <1>10, <1>14, <1>15, <1>16 DEF FlushDone

\* clear_from, on a store with one slot.
Cleared(t, i, region, o) ==
  LET r == t.cache.slots[i].region IN
  CASE r = None \/ r < region -> t
    [] r = region /\ o # 0 -> FreedItems(t, i, o, TRUE)
    [] OTHER -> FreedRegion(t, i, FALSE, TRUE)

AllCleared(st, region, o) ==
  FoldLeft(LAMBDA t, i : Cleared(t, i, region, o), st, From(0, 0))

ClearDone(st, u, p) ==
  /\ CacheOK(u, 1) /\ CostsLess(st, u, 1) /\ u.file = st.file
  /\ \A q \in Page, v \in Value : q < p /\ Fine(st, q, v) => Fine(u, q, v)

LEMMA AllClearedIs ==
  ASSUME NEW st, NEW region, NEW o
  PROVE  AllCleared(st, region, o) = Cleared(st, 0, region, o)
<1> DEFINE seq == From(0, 0)
           f(t, k) == Cleared(t, seq[k], region, o)
           Fold(g) == g = [s \in SUBSET (1 .. 1) |->
                             IF s = {} THEN st ELSE f(g[s \ {Max(s)}], Max(s))]
<1>1. DOMAIN seq = 1 .. 1 /\ seq[1] = 0
  <2>1. PICK a \in Int : a = 0
    OBVIOUS
  <2>2. /\ DOMAIN From(a, a) = 1 .. a - a + 1
        /\ \A k \in 1 .. a - a + 1 : From(a, a)[k] = a + k - 1
    BY FromIs
  <2>3. a - a + 1 = 1 /\ 1 \in 1 .. 1 /\ a + 1 - 1 = a
    OBVIOUS
  <2>4. DOMAIN From(a, a) = 1 .. 1 /\ From(a, a)[1] = a
    BY <2>2, <2>3
  <2> QED BY <2>1, <2>4
<1> HIDE DEF seq
<1>2. AllCleared(st, region, o) = (CHOOSE g : Fold(g))[1 .. 1]
  <2>1. AllCleared(st, region, o) =
          (CHOOSE g : g = [s \in SUBSET (DOMAIN seq) |->
                             IF s = {} THEN st ELSE f(g[s \ {Max(s)}], Max(s))])[DOMAIN seq]
    BY DEF AllCleared, FoldLeft, MapThenFoldSet, seq
  <2> QED BY <1>1, <2>1
<1> HIDE DEF f
<1>3. \A s \in SUBSET (1 .. 1) : s # {} => s \ {Max(s)} = {} /\ Max(s) \in 1 .. 1
  <2> SUFFICES ASSUME NEW s \in SUBSET (1 .. 1), s # {}
               PROVE  s \ {Max(s)} = {} /\ Max(s) \in 1 .. 1
    OBVIOUS
  <2>1. Max(s) \in s /\ s \ {Max(s)} \in SUBSET (1 .. 1 - 1)
    BY MaxIs
  <2>2. SUBSET (1 .. 1 - 1) = {{}}
    <3>1. 1 .. 1 - 1 = {}
      OBVIOUS
    <3> QED BY <3>1
  <2>3. Max(s) \in 1 .. 1
    BY <2>1
  <2> QED BY <2>1, <2>2, <2>3
<1>4. \E g : Fold(g)
  <2> DEFINE h == [s \in SUBSET (1 .. 1) |-> IF s = {} THEN st ELSE f(st, Max(s))]
  <2>1. \A s \in SUBSET (1 .. 1) : h[s] = IF s = {} THEN st ELSE f(st, Max(s))
    OBVIOUS
  <2>2. h = [s \in SUBSET (1 .. 1) |-> h[s]]
    OBVIOUS
  <2> HIDE DEF h
  <2>3. h[{}] = st
    BY <2>1
  <2>4. \A s \in SUBSET (1 .. 1) :
          h[s] = IF s = {} THEN st ELSE f(h[s \ {Max(s)}], Max(s))
    BY <1>3, <2>1, <2>3
  <2>5. Fold(h)
    BY <2>2, <2>4
  <2> QED BY <2>5
<1>5. PICK g : g = (CHOOSE h : Fold(h)) /\ Fold(g)
  <2> HIDE DEF Fold
  <2> QED BY <1>4
<1>6. \A s \in SUBSET (1 .. 1) :
        g[s] = IF s = {} THEN st ELSE f(g[s \ {Max(s)}], Max(s))
  BY <1>5
<1>7. 1 .. 1 \in SUBSET (1 .. 1) /\ 1 .. 1 # {} /\ Max(1 .. 1) = 1
  BY LastOf
<1>8. g[1 .. 1] = f(g[{}], 1) /\ g[{}] = st
  BY <1>3, <1>6, <1>7
<1>9. f(st, 1) = Cleared(st, 0, region, o)
  BY <1>1 DEF f
<1> QED BY <1>2, <1>5, <1>8, <1>9

LEMMA ClearOnStore ==
  ASSUME NEW st, CacheOK(st, 1), NEW p \in Page, SlotOf(st.cache, p \div PerRegion) # None,
         NEW u, u = AllCleared(st, p \div PerRegion, p % PerRegion)
  PROVE  ClearDone(st, u, p)
<1>1. PICK region \in Nat : region = p \div PerRegion
  BY OffsetIs
<1>2. PICK o \in Offset : o = p % PerRegion
  BY OffsetIs
<1>3. PICK s : s = st.cache.slots[0]
  OBVIOUS
<1>4. /\ StoreOK(st, 1) /\ Prefix(st.cache, 1) /\ st.cache.num_cached \in Nat
      /\ st.cache.num_cached <= MaxItems /\ s \in AnySlot /\ 0 \in 0 .. 1 - 1
  <2>1. 0 \in 0 .. 1 - 1
    OBVIOUS
  <2>2. StoreOK(st, 1) /\ 1 \in Nat
    BY DEF CacheOK
  <2>3. st.cache.num_cached \in Nat /\ \A i \in 0 .. 1 - 1 : st.cache.slots[i] \in AnySlot
    BY <2>2, InStore
  <2> QED BY <1>3, <2>1, <2>2, <2>3 DEF CacheOK
<1>5. s.region = region
  <2>1. PICK i : i = SlotOf(st.cache, p \div PerRegion)
    OBVIOUS
  <2>2. /\ CachedIn(st, p) <=> i # None /\ Has(st.cache.slots[i], p % PerRegion)
        /\ i # None => i \in 0 .. 1 - 1 /\ st.cache.slots[i].region = p \div PerRegion
        /\ i = None => \A k \in 0 .. 1 - 1 : st.cache.slots[k].region # p \div PerRegion
        /\ \A k \in 0 .. 1 - 1 : Shows(st.cache.slots[k], p) => k = i
    BY <1>4, <2>1, LookedUp
  <2>3. \A k \in 0 .. 1 - 1 : k = 0
    OBVIOUS
  <2> QED BY <1>1, <1>3, <2>1, <2>2, <2>3
<1>6. region * PerRegion + o = p /\ region * PerRegion \in Int
  <2>1. region * PerRegion + o = p
    BY <1>1, <1>2, OffsetIs, PageOfIs
  <2> QED BY <2>1, Sizes
<1>7. ASSUME NEW x \in Offset, x >= o PROVE PageOf(s, x) >= p
  BY <1>5, <1>6, <1>7 DEF PageOf, Offset
<1>8. region # None
  BY DEF None
<1>9. u = IF o # 0 THEN FreedItems(st, 0, o, TRUE) ELSE LastFreed(st, 0)
  <2>1. u = Cleared(st, 0, region, o)
    BY <1>1, <1>2, AllClearedIs
  <2>2. ~(s.region = None \/ s.region < region)
    BY <1>5, <1>8
  <2> QED BY <1>3, <1>5, <2>1, <2>2 DEF Cleared, LastFreed
<1>10. CASE o # 0
  <2>1. PICK discard \in BOOLEAN : discard = TRUE
    OBVIOUS
  <2>2. u = FreedItems(st, 0, o, discard)
    BY <1>9, <1>10, <2>1
  <2>3. Freed(st, u, 1, 0, o .. PerRegion - 1, discard)
    BY <1>4, <2>2, FreedItemsKeeps
  <2>4. /\ StoreOK(u, 1) /\ u.cache.num_regions = st.cache.num_regions
        /\ u.cache.slots[0].region = st.cache.slots[0].region
        /\ u.cache.slots[0].flush_cost <= st.cache.slots[0].flush_cost
        /\ \A x \in Offset \ (o .. PerRegion - 1) :
             SameItem(st.cache.slots[0].items[x], u.cache.slots[0].items[x])
        /\ \A x \in o .. PerRegion - 1 : ~Has(u.cache.slots[0], x)
        /\ KeepsPages(st, u, LostPages(st.cache.slots[0], o .. PerRegion - 1, discard))
        /\ u.file = st.file
    BY <2>1, <2>3 DEF Freed
  <2>5. \A j \in 0 .. 1 - 1 : j = 0
    OBVIOUS
  <2>6. Slots(st.cache) = 0 .. 1 - 1 /\ Slots(u.cache) = 0 .. 1 - 1 /\ u.cache.num_cached \in Nat
    BY <1>4, <2>4, InStore
  <2>7. Places(u.cache) \subseteq Places(st.cache)
    <3>1. ASSUME NEW x \in Offset, Has(u.cache.slots[0], x) PROVE Has(st.cache.slots[0], x)
      <4>1. SameItem(st.cache.slots[0].items[x], u.cache.slots[0].items[x])
        BY <2>4, <3>1
      <4> QED BY <3>1, <4>1 DEF Has, SameItem
    <3> QED BY <2>5, <2>6, <3>1 DEF Places
  <2>8. u.cache.num_cached <= MaxItems
    <3>1. u.cache.num_cached <= st.cache.num_cached
      BY <1>4, <2>4, <2>7, FewerPlaces
    <3> QED BY <1>4, <2>6, <3>1, Sizes
  <2>9. Prefix(u.cache, 1)
    BY <1>4, <2>4, <2>5 DEF Prefix
  <2>10. CacheOK(u, 1)
    BY <2>4, <2>8, <2>9 DEF CacheOK
  <2>11. CostsLess(st, u, 1)
    BY <2>4, <2>5 DEF CostsLess
  <2>12. ASSUME NEW q \in Page, NEW v \in Value, q < p, Fine(st, q, v) PROVE Fine(u, q, v)
    <3>1. \A x \in o .. PerRegion - 1 : x \in Offset /\ x >= o
      BY Sizes DEF Offset
    <3>2. \A x \in o .. PerRegion - 1 : PageOf(s, x) # q
      BY <1>6, <1>7, <2>12, <3>1, OffsetIs DEF PageOf
    <3>3. q \notin LostPages(st.cache.slots[0], o .. PerRegion - 1, discard)
      BY <1>3, <3>2 DEF LostPages
    <3> QED BY <2>4, <2>12, <3>3 DEF KeepsPages
  <2> QED BY <2>4, <2>10, <2>11, <2>12 DEF ClearDone
<1>11. CASE o = 0
  <2>1. u = LastFreed(st, 0)
    BY <1>9, <1>11
  <2>2. Discarded(st, u, 1, 0)
    BY <1>4, <2>1, LastFreedIs
  <2>3. st.cache.num_regions = 0 + 1
    BY <1>3, <1>4, <1>5, <1>8 DEF Prefix
  <2>4. CacheOK(u, 1)
    BY <1>4, <2>1, <2>3, LastFreedKeeps
  <2>5. /\ CostsLess(st, u, 1) /\ u.file = st.file
        /\ KeepsPages(st, u, {PageOf(st.cache.slots[0], x) : x \in Offset})
    BY <2>2 DEF Discarded
  <2>6. ASSUME NEW q \in Page, NEW v \in Value, q < p, Fine(st, q, v) PROVE Fine(u, q, v)
    <3>1. \A x \in Offset : x >= o
      BY <1>11 DEF Offset
    <3>2. \A x \in Offset : PageOf(s, x) # q
      BY <1>6, <1>7, <2>6, <3>1, OffsetIs DEF PageOf
    <3>3. q \notin {PageOf(st.cache.slots[0], x) : x \in Offset}
      BY <1>3, <3>2
    <3> QED BY <2>5, <2>6, <3>3 DEF KeepsPages
  <2> QED BY <2>4, <2>5, <2>6 DEF ClearDone
<1> QED BY <1>10, <1>11

-----------------------------------------------------------------------------
(* What holds of every state.                                              *)

\* What callers read from a page is in the copies as well.
Reads(st, rd, wr, q, v) ==
  /\ Fine(st, q, v)
  /\ rd.num = q => rd.item.data = v
  /\ wr.num = q => wr.item.data = v

CopyOK(c) == c \in Copy /\ (c.num # None => c.item \in Item)

CostsIn(st, n) == \A i \in 0 .. n - 1 : st.cache.slots[i].flush_cost <= MaxCost

StateOK(n, st, rd, wr, gn) ==
  /\ CacheOK(st, n) /\ CostsIn(st, n)
  /\ CopyOK(rd) /\ CopyOK(wr) /\ gn \subseteq Page
  /\ \A q \in Page \ gn : \E v \in Value : Reads(st, rd, wr, q, v)

CacheInv == /\ \E n \in SlotCounts : StateOK(n, Store, read, write, gone)
            /\ halted \in BOOLEAN

\* What callers read from the pages Q stays, and they are only written with it.
Moved(st, rd, wr, t, rd2, wr2, Q) ==
  \A q \in Q, v \in Value :
    Reads(st, rd, wr, q, v) => Reads(t, rd2, wr2, q, v) /\ t.file[q] \in {st.file[q], v}

LEMMA CopyIs ==
  ASSUME NEW p \in Page, NEW item \in Item, NEW c, c = [num |-> p, item |-> item]
  PROVE  CopyOK(c) /\ c.num = p /\ c.item = item
BY DEF CopyOK, Copy

LEMMA NotNone == \A p \in Page : p # None
BY Sizes DEF None

LEMMA CostsStay ==
  ASSUME NEW n \in Nat, NEW st, NEW u, StoreOK(st, n), StoreOK(u, n), CostsIn(st, n),
         CostsLess(st, u, n)
  PROVE  CostsIn(u, n)
<1> SUFFICES ASSUME NEW j \in 0 .. n - 1 PROVE u.cache.slots[j].flush_cost <= MaxCost
  BY DEF CostsIn
<1>1. st.cache.slots[j].flush_cost \in Nat
  BY InStore DEF AnySlot
<1>2. u.cache.slots[j].flush_cost \in Nat
  BY InStore DEF AnySlot
<1>3. /\ st.cache.slots[j].flush_cost <= MaxCost
      /\ u.cache.slots[j].flush_cost <= st.cache.slots[j].flush_cost
  BY DEF CostsIn, CostsLess
<1> QED BY <1>1, <1>2, <1>3, Sizes

\* The pages known before are known after.
LEMMA KnownAfter ==
  ASSUME NEW st, NEW rd, NEW wr, NEW t, NEW rd2, NEW wr2, NEW gn,
         \A q \in Page \ gn : \E v \in Value : Reads(st, rd, wr, q, v),
         Moved(st, rd, wr, t, rd2, wr2, Page \ gn)
  PROVE  \A q \in Page \ gn : \E v \in Value : Reads(t, rd2, wr2, q, v)
BY DEF Moved

\* get: the page it returns is retained, and copied as read last.
LEMMA GetOn ==
  ASSUME NEW n \in Nat, NEW st, NEW rd, NEW wr, NEW gn, StateOK(n, st, rd, wr, gn),
         NEW p \in Page \ gn, NEW item \in Item,
         \A v \in Value : Reads(st, rd, wr, p, v) => item.data = v,
         NEW r, RetainedFine(st, r, n, p, item), CostsIn(r.st, n),
         NEW rd2, rd2 = rd \/ rd2 = [num |-> p, item |-> item]
  PROVE  StateOK(n, r.st, rd2, wr, gn) /\ Moved(st, rd, wr, r.st, rd2, wr, Page \ gn)
<1>1. PICK t : t = r.st
  OBVIOUS
<1>2. /\ CacheOK(t, n) /\ t.file[p] = st.file[p]
      /\ \A q \in Page \ {p}, v \in Value :
           Fine(st, q, v) => Fine(t, q, v) /\ t.file[q] \in {st.file[q], v}
      /\ \A v \in Value : Fine(st, p, v) /\ item.data = v => Fine(t, p, v)
  BY <1>1 DEF RetainedFine
<1>3. CopyOK(rd2)
  BY CopyIs DEF StateOK
<1>4. Moved(st, rd, wr, t, rd2, wr, Page \ gn)
  <2> SUFFICES ASSUME NEW q \in Page \ gn, NEW v \in Value, Reads(st, rd, wr, q, v)
               PROVE  Reads(t, rd2, wr, q, v) /\ t.file[q] \in {st.file[q], v}
    BY DEF Moved
  <2>1. Fine(t, q, v) /\ t.file[q] \in {st.file[q], v}
    BY <1>2 DEF Reads
  <2>2. rd2.num = q => rd2.item.data = v
    <3>1. CASE rd2 = rd
      BY <3>1 DEF Reads
    <3>2. CASE rd2 = [num |-> p, item |-> item]
      <4>1. rd2.num = p /\ rd2.item = item
        BY <3>2
      <4> QED BY <4>1
    <3> QED BY <3>1, <3>2
  <2> QED BY <2>1, <2>2 DEF Reads
<1>5. \A q \in Page \ gn : \E v \in Value : Reads(t, rd2, wr, q, v)
  BY <1>4, KnownAfter DEF StateOK
<1> QED BY <1>1, <1>2, <1>3, <1>4, <1>5 DEF StateOK

\* put
LEMMA PutOn ==
  ASSUME NEW n \in Nat, NEW st, NEW rd, NEW wr, NEW gn, StateOK(n, st, rd, wr, gn),
         NEW p \in Page, NEW val \in Value, NEW u, PutDone(st, u, n, p, val), CostsIn(u, n),
         NEW item \in Item, item.data = val, NEW wr2, wr2 = [num |-> p, item |-> item],
         NEW rd2, rd2 = IF rd.num = p THEN wr2 ELSE rd
  PROVE  /\ StateOK(n, u, rd2, wr2, gn \ {p})
         /\ Moved(st, rd, wr, u, rd2, wr2, Page \ {p})
         /\ Reads(u, rd2, wr2, p, val) /\ u.file[p] \in {st.file[p], val}
<1>1. CopyOK(wr2) /\ wr2.num = p /\ wr2.item = item
  BY CopyIs
<1>2. CopyOK(rd2)
  BY <1>1 DEF StateOK
<1>3. /\ CacheOK(u, n) /\ Fine(u, p, val) /\ u.file[p] \in {st.file[p], val}
      /\ \A q \in Page \ {p}, v \in Value :
           Fine(st, q, v) => Fine(u, q, v) /\ u.file[q] \in {st.file[q], v}
  BY DEF PutDone
<1>4. Moved(st, rd, wr, u, rd2, wr2, Page \ {p})
  BY <1>1, <1>3 DEF Moved, Reads
<1>5. Reads(u, rd2, wr2, p, val)
  BY <1>1, <1>3 DEF Reads
<1>6. \A q \in Page \ (gn \ {p}) : \E v \in Value : Reads(u, rd2, wr2, q, v)
  <2> SUFFICES ASSUME NEW q \in Page \ gn, q # p
               PROVE  \E v \in Value : Reads(u, rd2, wr2, q, v)
    BY <1>5
  <2>1. PICK v \in Value : Reads(st, rd, wr, q, v)
    BY DEF StateOK
  <2> QED BY <1>4, <2>1 DEF Moved
<1> QED BY <1>1, <1>2, <1>3, <1>4, <1>5, <1>6 DEF StateOK

\* flush
LEMMA FlushOn ==
  ASSUME NEW n \in Nat, NEW st, NEW rd, NEW wr, NEW gn, StateOK(n, st, rd, wr, gn),
         NEW u, FlushDone(st, u, n)
  PROVE  /\ StateOK(n, u, rd, wr, gn) /\ Moved(st, rd, wr, u, rd, wr, Page)
         /\ \A q \in Page, v \in Value : Reads(st, rd, wr, q, v) => u.file[q] = v
<1>1. /\ CacheOK(u, n) /\ CostsLess(st, u, n)
      /\ \A q \in Page, v \in Value : Fine(st, q, v) => Fine(u, q, v) /\ u.file[q] = v
  BY DEF FlushDone
<1>2. CostsIn(u, n)
  BY <1>1, CostsStay DEF StateOK, CacheOK
<1>3. Moved(st, rd, wr, u, rd, wr, Page)
  BY <1>1 DEF Moved, Reads
<1>4. \A q \in Page \ gn : \E v \in Value : Reads(u, rd, wr, q, v)
  BY <1>3 DEF StateOK, Moved
<1> QED BY <1>1, <1>2, <1>3, <1>4 DEF StateOK, Reads

\* clear, when the file has changed.
LEMMA ReloadOn ==
  ASSUME NEW n \in Nat, NEW st, NEW rd, NEW wr, NEW gn, StateOK(n, st, rd, wr, gn),
         NEW x, AllGone(st, x, n), NEW f \in [Page -> Value],
         NEW u, u = [cache |-> x.cache, file |-> f],
         NEW none, none = [num |-> None, item |-> NoItem]
  PROVE  /\ StateOK(n, u, none, none, {})
         /\ \A q \in Page : Reads(u, none, none, q, f[q])
<1>1. /\ CacheOK(x, n) /\ CostsLess(st, x, n)
      /\ \A q \in Page : ~CachedIn(x, q)
  BY DEF AllGone
<1>2. u.cache = x.cache /\ u.file = f
  OBVIOUS
<1>3. CacheOK(u, n)
  <2>1. StoreOK(x, n) /\ Prefix(x.cache, n) /\ x.cache.num_cached <= MaxItems
    BY <1>1 DEF CacheOK
  <2>2. u \in Stores(n)
    BY <2>1 DEF StoreOK, Stores
  <2>3. StoreOK(u, n)
    BY <1>2, <2>1, <2>2 DEF StoreOK
  <2> QED BY <1>2, <2>1, <2>3 DEF CacheOK
<1>4. CostsIn(u, n)
  <2>1. CostsIn(x, n)
    BY <1>1, CostsStay DEF StateOK, CacheOK
  <2> QED BY <1>2, <2>1 DEF CostsIn
<1>5. CopyOK(none) /\ none.num = None
  BY DEF CopyOK, Copy
<1>6. ASSUME NEW q \in Page PROVE Reads(u, none, none, q, f[q]) /\ f[q] \in Value
  <2>1. ~CachedIn(u, q)
    BY <1>1, <1>2 DEF CachedIn
  <2>2. Fine(u, q, f[q])
    BY <1>2, <2>1 DEF Fine, CachedIn
  <2> QED BY <1>5, <2>2, NotNone DEF Reads
<1> QED BY <1>3, <1>4, <1>5, <1>6 DEF StateOK

\* clear_from
LEMMA ClearOn ==
  ASSUME NEW n \in Nat, NEW st, NEW rd, NEW wr, NEW gn, StateOK(n, st, rd, wr, gn),
         NEW p \in Page, NEW u, u = st \/ (n = 1 /\ ClearDone(st, u, p)),
         NEW gn2, gn2 = gn \cup {q \in Page : q >= p}
  PROVE  /\ StateOK(n, u, rd, wr, gn2) /\ u.file = st.file
         /\ Moved(st, rd, wr, u, rd, wr, Page \ gn2)
<1>1. ASSUME NEW q \in Page \ gn2 PROVE q < p
  BY <1>1, OffsetIs
<1>2. CASE u = st
  <2>1. Moved(st, rd, wr, u, rd, wr, Page \ gn2)
    BY <1>2 DEF Moved
  <2> QED BY <1>2, <2>1 DEF StateOK
<1>3. CASE n = 1 /\ ClearDone(st, u, p)
  <2>1. /\ CacheOK(u, n) /\ CostsLess(st, u, n) /\ u.file = st.file
        /\ \A q \in Page, v \in Value : q < p /\ Fine(st, q, v) => Fine(u, q, v)
    BY <1>3 DEF ClearDone
  <2>2. CostsIn(u, n)
    BY <2>1, CostsStay DEF StateOK, CacheOK
  <2>3. Moved(st, rd, wr, u, rd, wr, Page \ gn2)
    BY <1>1, <2>1 DEF Moved, Reads
  <2>4. \A q \in Page \ gn2 : \E v \in Value : Reads(u, rd, wr, q, v)
    BY <2>3 DEF StateOK, Moved
  <2> QED BY <2>1, <2>2, <2>3, <2>4 DEF StateOK
<1> QED BY <1>2, <1>3

-----------------------------------------------------------------------------
(* The actions keep the invariant.                                         *)

\* The lookups of a call, and the lookups in a store.
LEMMA CachedIs ==
  ASSUME NEW n \in Nat, NEW st, st = Store, StoreOK(st, n), NEW p \in Page
  PROVE  /\ IsCached(p) <=> CachedIn(st, p)
         /\ IsCached(p) => Cached(p) \in Item
         /\ IsCached(p) => \E i \in 0 .. n - 1 : /\ Shows(st.cache.slots[i], p)
                                                 /\ Cached(p) = st.cache.slots[i].items[p % PerRegion]
<1>1. PICK i : i = SlotOf(st.cache, p \div PerRegion)
  OBVIOUS
<1>2. /\ CachedIn(st, p) <=> i # None /\ Has(st.cache.slots[i], p % PerRegion)
      /\ i # None => i \in 0 .. n - 1 /\ st.cache.slots[i].region = p \div PerRegion
      /\ i = None => \A k \in 0 .. n - 1 : st.cache.slots[k].region # p \div PerRegion
      /\ \A k \in 0 .. n - 1 : Shows(st.cache.slots[k], p) => k = i
  BY <1>1, LookedUp
<1>3. st.cache = cache
  BY DEF Store
<1>4. IsCached(p) <=> i # None /\ Has(st.cache.slots[i], p % PerRegion)
  BY <1>1, <1>3 DEF IsCached
<1>5. Cached(p) = st.cache.slots[i].items[p % PerRegion]
  BY <1>1, <1>3 DEF Cached
<1>6. IsCached(p) => i \in 0 .. n - 1 /\ Shows(st.cache.slots[i], p)
  BY <1>2, <1>4 DEF Shows
<1>7. ASSUME IsCached(p) PROVE Cached(p) \in Item
  <2>1. st.cache.slots[i] \in AnySlot
    BY <1>6, <1>7, InStore
  <2>2. Has(st.cache.slots[i], p % PerRegion) /\ p % PerRegion \in Offset
    BY <1>4, <1>7, OffsetIs
  <2> QED BY <1>5, <2>1, <2>2, InSlot
<1> QED BY <1>2, <1>4, <1>5, <1>6, <1>7

LEMMA FineIs ==
  ASSUME NEW n \in Nat, NEW st, st = Store, StoreOK(st, n), NEW p \in Page, NEW v, Fine(st, p, v)
  PROVE  /\ IsCached(p) => Cached(p).data = v /\ (Cached(p).changed \/ file[p] = v)
         /\ ~IsCached(p) => file[p] = v
<1>1. st.file = file /\ Slots(st.cache) = 0 .. n - 1
  BY InStore DEF Store
<1>2. /\ IsCached(p) <=> CachedIn(st, p)
      /\ IsCached(p) => Cached(p) \in Item
      /\ IsCached(p) => \E i \in 0 .. n - 1 : /\ Shows(st.cache.slots[i], p)
                                              /\ Cached(p) = st.cache.slots[i].items[p % PerRegion]
  BY CachedIs
<1> QED BY <1>1, <1>2 DEF Fine

\* What get returns.
LEMMA ReadItemIs ==
  ASSUME NEW n \in Nat, NEW st, st = Store, StoreOK(st, n), CopyOK(read), CopyOK(write),
         NEW p \in Page
  PROVE  /\ ReadItem(p) \in Item
         /\ \A v : Reads(st, read, write, p, v) => ReadItem(p).data = v /\ View(p) = v
<1>1. p # None
  BY NotNone
<1>2. st.file = file /\ file \in [Page -> Value]
  BY InStore DEF Store
<1>3. PICK b \in BOOLEAN : b = FALSE
  OBVIOUS
<1>4. NewItem(file[p], b) \in Item /\ NewItem(file[p], b).data = file[p]
  BY <1>2, NewItemIs
<1>5. /\ IsCached(p) <=> CachedIn(st, p)
      /\ IsCached(p) => Cached(p) \in Item
      /\ IsCached(p) => \E i \in 0 .. n - 1 : /\ Shows(st.cache.slots[i], p)
                                              /\ Cached(p) = st.cache.slots[i].items[p % PerRegion]
  BY CachedIs
<1>6. ReadItem(p) = IF read.num = p THEN read.item
                    ELSE IF IsCached(p) THEN Cached(p) ELSE NewItem(file[p], b)
  BY <1>3 DEF ReadItem
<1>7. ReadItem(p) \in Item
  BY <1>1, <1>4, <1>5, <1>6 DEF CopyOK
<1>8. ASSUME NEW v, Reads(st, read, write, p, v) PROVE ReadItem(p).data = v /\ View(p) = v
  <2>1. /\ IsCached(p) => Cached(p).data = v /\ (Cached(p).changed \/ file[p] = v)
        /\ ~IsCached(p) => file[p] = v
    BY <1>8, FineIs DEF Reads
  <2>2. ReadItem(p).data = v
    BY <1>4, <1>6, <1>8, <2>1 DEF Reads
  <2> QED BY <1>8, <2>2 DEF View, Reads
<1> QED BY <1>7, <1>8

\* The state after a step, as a store.
LEMMA StoreAfter ==
  ASSUME NEW n \in Nat, NEW u \in Stores(n), cache' = u.cache, file' = u.file
  PROVE  u = Store'
BY DEF Store, Stores

LEMMA CostsAfter ==
  ASSUME NEW n \in Nat, NEW u, StoreOK(u, n), cache' = u.cache, WithinCost
  PROVE  CostsIn(u, n)
BY InStore DEF WithinCost, CostsIn

LEMMA InvHolds ==
  ASSUME CacheInv
  PROVE  \E n \in SlotCounts : /\ StateOK(n, Store, read, write, gone) /\ n \in Nat
                               /\ CacheOK(Store, n) /\ StoreOK(Store, n)
                               /\ CopyOK(read) /\ CopyOK(write)
BY Sizes DEF CacheInv, StateOK, CacheOK

LEMMA InvAfter ==
  ASSUME NEW n \in SlotCounts, NEW u, u = Store', StateOK(n, u, read', write', gone'),
         halted' \in BOOLEAN
  PROVE  CacheInv'
BY DEF CacheInv

LEMMA MovedSelf ==
  ASSUME NEW st, NEW rd, NEW wr, NEW Q PROVE Moved(st, rd, wr, st, rd, wr, Q)
BY DEF Moved

LEMMA HaltStep ==
  ASSUME CacheInv, Halt
  PROVE  /\ CacheInv' /\ Store' = Store /\ file' = file
         /\ read' = read /\ write' = write /\ gone' = gone
<1>1. /\ Store' = Store /\ file' = file /\ read' = read /\ write' = write /\ gone' = gone
      /\ halted' \in BOOLEAN
  BY DEF Halt, Store
<1>2. PICK n \in SlotCounts : StateOK(n, Store, read, write, gone)
  BY InvHolds
<1>3. PICK u : u = Store'
  OBVIOUS
<1>4. StateOK(n, u, read', write', gone')
  BY <1>1, <1>2, <1>3
<1> QED BY <1>1, <1>3, <1>4, InvAfter

LEMMA GetStep ==
  ASSUME CacheInv, NEW p \in Page, Get(p)
  PROVE  /\ CacheInv' /\ gone' = gone
         /\ Moved(Store, read, write, Store', read', write', Page \ gone)
<1>1. PICK n \in SlotCounts : /\ StateOK(n, Store, read, write, gone) /\ n \in Nat
                              /\ CacheOK(Store, n) /\ StoreOK(Store, n)
                              /\ CopyOK(read) /\ CopyOK(write)
  BY InvHolds
<1>2. PICK st : st = Store
  OBVIOUS
<1>3. PICK item : item = IF write.num = p THEN write.item ELSE ReadItem(p)
  OBVIOUS
<1>4. /\ ReadItem(p) \in Item
      /\ \A v : Reads(st, read, write, p, v) => ReadItem(p).data = v /\ View(p) = v
  BY <1>1, <1>2, ReadItemIs
<1>5. item \in Item
  BY <1>1, <1>3, <1>4, NotNone DEF CopyOK
<1>6. \A v \in Value : Reads(st, read, write, p, v) => item.data = v
  BY <1>3, <1>4 DEF Reads
<1>7. p \in Page \ gone
  BY DEF Get
<1>8. CASE Faults(p)
  <2>1. Halt
    BY <1>8 DEF Get
  <2>2. /\ CacheInv' /\ Store' = Store /\ file' = file
        /\ read' = read /\ write' = write /\ gone' = gone
    BY <2>1, HaltStep
  <2> QED BY <2>2, MovedSelf
<1>9. CASE ~Faults(p)
  <2>1. PICK r \in Retained(Store, item, p) : cache' = r.st.cache /\ file' = r.st.file
    BY <1>3, <1>9 DEF Get
  <2>2. /\ WithinCost /\ write' = write /\ gone' = gone /\ halted' = halted
        /\ read' = read \/ read' = [num |-> p, item |-> item]
    BY <1>3, <1>9 DEF Get
  <2>3. ~(~CachedIn(st, p) /\ Scanned(st.cache, p \div PerRegion) /\ NullHead(st.cache))
    <3>1. /\ IsCached(p) <=> CachedIn(st, p)
          /\ IsCached(p) => Cached(p) \in Item
          /\ IsCached(p) => \E i \in 0 .. n - 1 : /\ Shows(st.cache.slots[i], p)
                                                  /\ Cached(p) = st.cache.slots[i].items[p % PerRegion]
      BY <1>1, <1>2, CachedIs
    <3>2. st.cache = cache
      BY <1>2 DEF Store
    <3> QED BY <1>9, <3>1, <3>2 DEF Faults
  <2>4. RetainedFine(st, r, n, p, item)
    BY <1>1, <1>2, <1>5, <2>1, <2>3, RetainedKeeps
  <2>5. PICK u : u = r.st
    OBVIOUS
  <2>6. CacheOK(u, n) /\ StoreOK(u, n) /\ u \in Stores(n)
    BY <2>4, <2>5 DEF RetainedFine, CacheOK, StoreOK
  <2>7. u = Store'
    BY <1>1, <2>1, <2>5, <2>6, StoreAfter
  <2>8. CostsIn(u, n)
    BY <1>1, <2>1, <2>2, <2>5, <2>6, CostsAfter
  <2>9. PICK rd2 : rd2 = read'
    OBVIOUS
  <2>10. StateOK(n, r.st, rd2, write, gone) /\ Moved(st, read, write, r.st, rd2, write, Page \ gone)
    BY <1>1, <1>2, <1>5, <1>6, <1>7, <2>2, <2>4, <2>5, <2>8, <2>9, GetOn
  <2>11. StateOK(n, u, read', write', gone')
    BY <2>2, <2>5, <2>9, <2>10
  <2>12. halted' \in BOOLEAN
    BY <2>2 DEF CacheInv
  <2>13. CacheInv'
    BY <2>7, <2>11, <2>12, InvAfter
  <2> QED BY <1>2, <2>2, <2>5, <2>7, <2>9, <2>10, <2>13
<1> QED BY <1>8, <1>9

LEMMA PutStep ==
  ASSUME CacheInv, NEW p \in Page, NEW val \in Value, NEW preventLazy \in BOOLEAN,
         Put(p, val, preventLazy)
  PROVE  /\ CacheInv'
         /\ \/ Store' = Store /\ read' = read /\ write' = write /\ gone' = gone
            \/ /\ gone' = gone \ {p}
               /\ Moved(Store, read, write, Store', read', write', Page \ {p})
               /\ Reads(Store', read', write', p, val) /\ file'[p] \in {file[p], val}
<1>1. PICK n \in SlotCounts : /\ StateOK(n, Store, read, write, gone) /\ n \in Nat
                              /\ CacheOK(Store, n) /\ StoreOK(Store, n)
                              /\ CopyOK(read) /\ CopyOK(write)
  BY InvHolds
<1>2. PICK st : st = Store
  OBVIOUS
<1>3. st.cache = cache /\ st.file = file
  BY <1>2 DEF Store
<1>4. PICK i : i = SlotOf(st.cache, p \div PerRegion)
  OBVIOUS
<1>5. PICK b \in BOOLEAN, c \in BOOLEAN : b = TRUE /\ c = FALSE
  OBVIOUS
<1>6. PICK item : item = NewItem(val, b)
  OBVIOUS
<1>7. PICK copied : copied = NewItem(val, c)
  OBVIOUS
<1>8. item \in Item /\ item.data = val /\ item.changed /\ copied \in Item /\ copied.data = val
  BY <1>5, <1>6, <1>7, NewItemIs
<1>9. CASE Faults(p)
  <2>1. Halt
    BY <1>9 DEF Put
  <2>2. /\ CacheInv' /\ Store' = Store /\ file' = file
        /\ read' = read /\ write' = write /\ gone' = gone
    BY <2>1, HaltStep
  <2> QED BY <2>2
<1>10. CASE ~Faults(p)
  <2>1. PICK r, u :
          /\ r \in Retained(Store, item, p)
          /\ u = IF r.retained /\ ~preventLazy THEN r.st
                 ELSE WrittenAt(r.st, i, p % PerRegion, p, val)
          /\ cache' = u.cache /\ file' = u.file
    BY <1>3, <1>4, <1>5, <1>6, <1>10 DEF Put
  <2>2. /\ WithinCost /\ gone' = gone \ {p} /\ halted' = halted
        /\ write' = [num |-> p, item |-> copied]
        /\ read' = IF read.num = p THEN write' ELSE read
    BY <1>5, <1>7, <1>10 DEF Put
  <2>3. ~(~CachedIn(st, p) /\ Scanned(st.cache, p \div PerRegion) /\ NullHead(st.cache))
    <3>1. /\ IsCached(p) <=> CachedIn(st, p)
          /\ IsCached(p) => Cached(p) \in Item
          /\ IsCached(p) => \E j \in 0 .. n - 1 : /\ Shows(st.cache.slots[j], p)
                                                  /\ Cached(p) = st.cache.slots[j].items[p % PerRegion]
      BY <1>1, <1>2, CachedIs
    <3> QED BY <1>3, <1>10, <3>1 DEF Faults
  <2>4. r \in Retained(st, item, p)
    BY <1>2, <2>1
  <2>5. \/ r.retained /\ u = r.st
        \/ u = WrittenAt(r.st, i, p % PerRegion, p, val)
    BY <2>1
  <2>6. PutDone(st, u, n, p, val)
    BY <1>1, <1>2, <1>4, <1>8, <2>3, <2>4, <2>5, PutOnStore
  <2>7. CacheOK(u, n) /\ StoreOK(u, n) /\ u \in Stores(n)
    BY <2>6 DEF PutDone, CacheOK, StoreOK
  <2>8. u = Store'
    BY <1>1, <2>1, <2>7, StoreAfter
  <2>9. CostsIn(u, n)
    BY <1>1, <2>1, <2>2, <2>7, CostsAfter
  <2>10. PICK rd2, wr2 : rd2 = read' /\ wr2 = write'
    OBVIOUS
  <2>11. wr2 = [num |-> p, item |-> copied] /\ rd2 = IF read.num = p THEN wr2 ELSE read
    BY <2>2, <2>10
  <2>12. /\ StateOK(n, u, rd2, wr2, gone \ {p})
         /\ Moved(st, read, write, u, rd2, wr2, Page \ {p})
         /\ Reads(u, rd2, wr2, p, val) /\ u.file[p] \in {st.file[p], val}
    <3>1. StateOK(n, st, read, write, gone) /\ n \in Nat
      BY <1>1, <1>2
    <3>2. copied \in Item /\ copied.data = val
      BY <1>8
    <3> QED BY <2>6, <2>9, <2>11, <3>1, <3>2, PutOn
  <2>13. StateOK(n, u, read', write', gone')
    BY <2>2, <2>10, <2>12
  <2>14. halted' \in BOOLEAN
    BY <2>2 DEF CacheInv
  <2>15. CacheInv'
    BY <2>8, <2>13, <2>14, InvAfter
  <2> QED BY <1>2, <1>3, <2>1, <2>2, <2>8, <2>10, <2>12, <2>15
<1> QED BY <1>9, <1>10

\* What is changed in a store, as flush finds it.
LEMMA ChangedIs ==
  ASSUME NEW n \in Nat, NEW st, st = Store, StoreOK(st, n), NEW p \in Page
  PROVE  IsChanged(p) <=> \E i \in Slots(st.cache) : Shows(st.cache.slots[i], p)
                            /\ st.cache.slots[i].items[p % PerRegion].changed
<1>1. Slots(st.cache) = 0 .. n - 1 /\ st.cache = cache
  BY InStore DEF Store
<1>2. /\ IsCached(p) <=> CachedIn(st, p)
      /\ IsCached(p) => Cached(p) \in Item
      /\ IsCached(p) => \E i \in 0 .. n - 1 : /\ Shows(st.cache.slots[i], p)
                                              /\ Cached(p) = st.cache.slots[i].items[p % PerRegion]
  BY CachedIs
<1>3. ASSUME NEW i \in 0 .. n - 1, Shows(st.cache.slots[i], p)
      PROVE  IsCached(p) /\ Cached(p) = st.cache.slots[i].items[p % PerRegion]
  <2>1. i = SlotOf(st.cache, p \div PerRegion)
    BY <1>3, ShownOnce
  <2> QED BY <1>1, <1>2, <1>3, <2>1 DEF Cached, CachedIn
<1> QED BY <1>1, <1>2, <1>3 DEF IsChanged

LEMMA FlushStep ==
  ASSUME CacheInv, Flush
  PROVE  /\ CacheInv' /\ gone' = gone
         /\ Moved(Store, read, write, Store', read', write', Page)
         /\ \A q \in Page, v \in Value : Reads(Store, read, write, q, v) => file'[q] = v
<1>1. PICK n \in SlotCounts : /\ StateOK(n, Store, read, write, gone) /\ n \in Nat
                              /\ CacheOK(Store, n) /\ StoreOK(Store, n)
                              /\ CopyOK(read) /\ CopyOK(write)
  BY InvHolds
<1>2. PICK st : st = Store
  OBVIOUS
<1>3. st.cache = cache /\ st.file = file
  BY <1>2 DEF Store
<1>4. /\ file' = [p \in Page |-> IF IsChanged(p) THEN Cached(p).data ELSE file[p]]
      /\ cache' = [cache EXCEPT !.slots = [i \in Slots(cache) |-> FlushedSlot(@[i])]]
      /\ read' = read /\ write' = write /\ gone' = gone /\ halted' = halted
  BY DEF Flush
<1>5. PICK u : u = Store'
  OBVIOUS
<1>6. u.cache = cache' /\ u.file = file' /\ u = [cache |-> u.cache, file |-> u.file]
  BY <1>5 DEF Store
<1>7. u.file = [p \in Page |->
                  IF \E i \in Slots(st.cache) : Shows(st.cache.slots[i], p)
                                                /\ st.cache.slots[i].items[p % PerRegion].changed
                  THEN LET i == SlotOf(st.cache, p \div PerRegion)
                       IN st.cache.slots[i].items[p % PerRegion].data
                  ELSE st.file[p]]
  <2>1. ASSUME NEW p \in Page
        PROVE  (IF IsChanged(p) THEN Cached(p).data ELSE file[p])
                 = IF \E i \in Slots(st.cache) : Shows(st.cache.slots[i], p)
                                                 /\ st.cache.slots[i].items[p % PerRegion].changed
                   THEN LET i == SlotOf(st.cache, p \div PerRegion)
                        IN st.cache.slots[i].items[p % PerRegion].data
                   ELSE st.file[p]
    <3>1. IsChanged(p) <=> \E i \in Slots(st.cache) : Shows(st.cache.slots[i], p)
                             /\ st.cache.slots[i].items[p % PerRegion].changed
      BY <1>1, <1>2, ChangedIs
    <3>2. Cached(p) = st.cache.slots[SlotOf(st.cache, p \div PerRegion)].items[p % PerRegion]
      BY <1>3 DEF Cached
    <3> QED BY <1>3, <3>1, <3>2
  <2> QED BY <1>4, <1>6, <2>1
<1>8. FlushedTo(st, u)
  BY <1>3, <1>4, <1>6, <1>7 DEF FlushedTo
<1>9. FlushDone(st, u, n)
  BY <1>1, <1>2, <1>8, FlushOnStore
<1>10. /\ StateOK(n, u, read, write, gone) /\ Moved(st, read, write, u, read, write, Page)
       /\ \A q \in Page, v \in Value : Reads(st, read, write, q, v) => u.file[q] = v
  BY <1>1, <1>2, <1>9, FlushOn
<1>11. StateOK(n, u, read', write', gone') /\ halted' \in BOOLEAN
  BY <1>4, <1>10 DEF CacheInv
<1>12. CacheInv'
  BY <1>5, <1>11, InvAfter
<1> QED BY <1>2, <1>4, <1>5, <1>6, <1>10, <1>12

LEMMA ReloadStep ==
  ASSUME CacheInv, NEW p \in Page, NEW val \in Value, Reload(p, val)
  PROVE  /\ CacheInv' /\ gone' = {} /\ file' = [file EXCEPT ![p] = val]
         /\ \A q \in Page : Reads(Store', read', write', q, file'[q])
<1>1. PICK n \in SlotCounts : /\ StateOK(n, Store, read, write, gone) /\ n \in Nat
                              /\ CacheOK(Store, n) /\ StoreOK(Store, n)
                              /\ CopyOK(read) /\ CopyOK(write)
  BY InvHolds
<1>2. PICK st : st = Store
  OBVIOUS
<1>3. st.cache = cache /\ st.file = file
  BY <1>2 DEF Store
<1>4. PICK m : m = st.cache.num_regions
  OBVIOUS
<1>5. PICK x : x = AllFreed(st, m)
  OBVIOUS
<1>6. cache' = x.cache
  <2>1. cache' = AllFreed(Store, cache.num_regions).cache
    BY DEF Reload, AllFreed
  <2> QED BY <1>2, <1>3, <1>4, <1>5, <2>1
<1>7. /\ file' = [file EXCEPT ![p] = val] /\ gone' = {} /\ halted' = halted
      /\ read' = [num |-> None, item |-> NoItem] /\ write' = read'
  BY DEF Reload, NoCopies
<1>8. file' \in [Page -> Value]
  BY <1>1, <1>2, <1>3, <1>7, InStore
<1>9. PICK f \in [Page -> Value] : f = file'
  BY <1>8
<1>10. PICK none : none = [num |-> None, item |-> NoItem]
  OBVIOUS
<1>11. PICK u : u = [cache |-> x.cache, file |-> f]
  OBVIOUS
<1>12. u = Store'
  BY <1>6, <1>9, <1>11 DEF Store
<1>13. AllGone(st, x, n)
  BY <1>1, <1>2, <1>4, <1>5, AllFreedIs
<1>14. /\ StateOK(n, u, none, none, {})
       /\ \A q \in Page : Reads(u, none, none, q, f[q])
  BY <1>1, <1>2, <1>10, <1>11, <1>13, ReloadOn
<1>15. StateOK(n, u, read', write', gone') /\ halted' \in BOOLEAN
  BY <1>7, <1>10, <1>14 DEF CacheInv
<1>16. CacheInv'
  BY <1>12, <1>15, InvAfter
<1> QED BY <1>7, <1>9, <1>10, <1>12, <1>14, <1>16

LEMMA ClearStep ==
  ASSUME CacheInv, NEW p \in Page, Slots(cache) = {0}, ClearFrom(p)
  PROVE  /\ CacheInv' /\ gone' = gone \cup {q \in Page : q >= p} /\ file' = file
         /\ Moved(Store, read, write, Store', read', write', Page \ gone')
<1>1. PICK n \in SlotCounts : /\ StateOK(n, Store, read, write, gone) /\ n \in Nat
                              /\ CacheOK(Store, n) /\ StoreOK(Store, n)
                              /\ CopyOK(read) /\ CopyOK(write)
  BY InvHolds
<1>2. PICK st : st = Store
  OBVIOUS
<1>3. st.cache = cache /\ st.file = file
  BY <1>2 DEF Store
<1>4. n = 1
  <2>1. 0 .. n - 1 = {0}
    BY <1>1, <1>2, <1>3, InStore
  <2>2. 0 \in 0 .. n - 1 /\ n - 1 \in 0 .. n - 1
    BY <1>1, <2>1
  <2>3. n - 1 = 0
    BY <2>1, <2>2
  <2> QED BY <1>1, <2>3
<1>5. Cardinality(Slots(cache)) - 1 = 0
  <2>1. Cardinality({0}) = 1
    BY FS_Singleton
  <2> QED BY <2>1
<1>6. PICK x : x = AllCleared(st, p \div PerRegion, p % PerRegion)
  OBVIOUS
<1>7. cache' = IF SlotOf(st.cache, p \div PerRegion) = None THEN st.cache ELSE x.cache
  BY <1>2, <1>3, <1>5, <1>6 DEF ClearFrom, AllCleared, Cleared
<1>8. /\ file' = file /\ read' = read /\ write' = write /\ halted' = halted
      /\ gone' = gone \cup {q \in Page : q >= p}
  BY DEF ClearFrom
<1>9. PICK u : u = IF SlotOf(st.cache, p \div PerRegion) = None THEN st ELSE x
  OBVIOUS
<1>10. u = st \/ (n = 1 /\ ClearDone(st, u, p))
  <2>1. CASE SlotOf(st.cache, p \div PerRegion) = None
    BY <1>9, <2>1
  <2>2. CASE SlotOf(st.cache, p \div PerRegion) # None
    <3>1. CacheOK(st, 1)
      BY <1>1, <1>2, <1>4
    <3>2. ClearDone(st, x, p)
      BY <1>6, <2>2, <3>1, ClearOnStore
    <3> QED BY <1>4, <1>9, <2>2, <3>2
  <2> QED BY <2>1, <2>2
<1>11. PICK gn2 : gn2 = gone'
  OBVIOUS
<1>12. /\ StateOK(n, u, read, write, gn2) /\ u.file = st.file
       /\ Moved(st, read, write, u, read, write, Page \ gn2)
  BY <1>1, <1>2, <1>8, <1>10, <1>11, ClearOn, SMTT(30)
<1>13. u = Store'
  <2>1. u \in Stores(n)
    BY <1>12 DEF StateOK, CacheOK, StoreOK
  <2>2. cache' = u.cache /\ file' = u.file
    BY <1>3, <1>7, <1>8, <1>9, <1>12
  <2> QED BY <1>1, <2>1, <2>2, StoreAfter
<1>14. StateOK(n, u, read', write', gone') /\ halted' \in BOOLEAN
  BY <1>8, <1>11, <1>12 DEF CacheInv
<1>15. CacheInv'
  BY <1>13, <1>14, InvAfter
<1> QED BY <1>2, <1>8, <1>11, <1>12, <1>13, <1>15

-----------------------------------------------------------------------------
(* Invariance.                                                             *)

LEMMA InitInv ==
  ASSUME Init
  PROVE  CacheInv /\ \A q \in Page : Reads(Store, read, write, q, file[q])
<1>1. PICK n \in SlotCounts :
        cache = [slots |-> [i \in 0 .. n - 1 |-> EmptySlot], num_cached |-> 0, num_regions |-> 0]
  BY DEF Init
<1>2. n \in Nat /\ n > 0
  BY Sizes
<1>3. /\ file \in [Page -> Value]
      /\ read = [num |-> None, item |-> NoItem] /\ write = [num |-> None, item |-> NoItem]
      /\ gone = {} /\ halted \in BOOLEAN
  BY DEF Init
<1>4. PICK st : st = Store
  OBVIOUS
<1>5. /\ st.cache = cache /\ st.file = file /\ st = [cache |-> st.cache, file |-> st.file]
  BY <1>4 DEF Store
<1>6. PICK e : e = EmptySlot
  OBVIOUS
<1>7. /\ e \in AnySlot /\ e.region = None /\ e.flush_cost = 0 /\ SlotInv(e)
      /\ \A o : ~Has(e, o) \/ o \notin Offset
      /\ \A q \in Page : ~Shows(e, q)
  BY <1>6, EmptyIs
<1>8. /\ st.cache.slots = [i \in 0 .. n - 1 |-> e]
      /\ st.cache.num_cached = 0 /\ st.cache.num_regions = 0
      /\ st.cache \in [slots : [0 .. n - 1 -> AnySlot], num_cached : Int, num_regions : Int]
  BY <1>1, <1>5, <1>6, <1>7
<1>9. Slots(st.cache) = 0 .. n - 1 /\ \A i \in 0 .. n - 1 : st.cache.slots[i] = e
  BY <1>8 DEF Slots
<1>10. st \in Stores(n)
  BY <1>3, <1>5, <1>8 DEF Stores
<1>11. Places(st.cache) = {}
  BY <1>7, <1>9 DEF Places
<1>12. StoreOK(st, n)
  BY <1>7, <1>8, <1>9, <1>10, <1>11, FS_EmptySet DEF StoreOK
<1>13. CacheOK(st, n)
  <2>1. Prefix(st.cache, n)
    BY <1>2, <1>7, <1>8, <1>9 DEF Prefix
  <2> QED BY <1>8, <1>12, <2>1, Sizes DEF CacheOK
<1>14. CostsIn(st, n)
  BY <1>7, <1>9, Sizes DEF CostsIn
<1>15. CopyOK(read) /\ CopyOK(write) /\ read.num = None /\ write.num = None
  BY <1>3 DEF CopyOK, Copy
<1>16. ASSUME NEW q \in Page PROVE Reads(st, read, write, q, file[q]) /\ file[q] \in Value
  <2>1. \A i \in Slots(st.cache) : ~Shows(st.cache.slots[i], q)
    BY <1>7, <1>9
  <2>2. Fine(st, q, file[q])
    BY <1>5, <2>1 DEF Fine
  <2> QED BY <1>3, <1>15, <2>2, NotNone DEF Reads
<1>17. StateOK(n, st, read, write, gone)
  BY <1>3, <1>13, <1>14, <1>15, <1>16 DEF StateOK
<1> QED BY <1>3, <1>4, <1>16, <1>17 DEF CacheInv

LEMMA NextInv ==
  ASSUME CacheInv, [Next]_vars
  PROVE  CacheInv'
<1>1. ASSUME NEW p \in Page, Get(p) PROVE CacheInv'
  BY <1>1, GetStep
<1>2. ASSUME NEW p \in Page, NEW val \in Value, NEW preventLazy \in BOOLEAN, Put(p, val, preventLazy)
      PROVE  CacheInv'
  BY <1>2, PutStep
<1>3. CASE Flush
  BY <1>3, FlushStep
<1>4. ASSUME NEW p \in Page, NEW val \in Value, Reload(p, val) PROVE CacheInv'
  BY <1>4, ReloadStep
<1>5. ASSUME NEW p \in Page, Slots(cache) = {0}, ClearFrom(p) PROVE CacheInv'
  BY <1>5, ClearStep
<1>6. CASE UNCHANGED vars
  <2>1. PICK n \in SlotCounts : StateOK(n, Store, read, write, gone)
    BY InvHolds
  <2>2. PICK u : u = Store'
    OBVIOUS
  <2>3. StateOK(n, u, read', write', gone') /\ halted' \in BOOLEAN
    BY <1>6, <2>1, <2>2 DEF vars, Store, CacheInv
  <2> QED BY <2>2, <2>3, InvAfter
<1> QED BY <1>1, <1>2, <1>3, <1>4, <1>5, <1>6 DEF Next

LEMMA AlwaysInv == Spec => []CacheInv
<1>1. Init => CacheInv
  BY InitInv
<1>2. CacheInv /\ [Next]_vars => CacheInv'
  BY NextInv
<1> QED BY <1>1, <1>2, PTL DEF Spec

LEMMA InvTyped ==
  ASSUME CacheInv
  PROVE  TypeOK
<1>1. PICK n \in SlotCounts : /\ StateOK(n, Store, read, write, gone) /\ n \in Nat
                              /\ CacheOK(Store, n) /\ StoreOK(Store, n)
                              /\ CopyOK(read) /\ CopyOK(write)
  BY InvHolds
<1>2. PICK st : st = Store
  OBVIOUS
<1>3. st.cache = cache /\ st.file = file
  BY <1>2 DEF Store
<1>4. /\ Slots(cache) = 0 .. n - 1 /\ cache.slots \in [0 .. n - 1 -> AnySlot]
      /\ cache.num_cached \in Nat /\ file \in [Page -> Value]
  BY <1>1, <1>2, <1>3, InStore
<1>5. cache.num_regions \in Nat
  BY <1>1, <1>2, <1>3 DEF CacheOK, Prefix
<1>6. Cardinality(Slots(cache)) \in SlotCounts
  <2>1. Cardinality(0 .. n - 1) = n
    <3>1. 0 \in Int /\ n - 1 \in Int
      BY <1>1
    <3>2. Cardinality(0 .. n - 1) = IF 0 > n - 1 THEN 0 ELSE n - 1 - 0 + 1
      BY <3>1, FS_Interval
    <3>3. n > 0
      BY Sizes
    <3> QED BY <1>1, <3>2, <3>3
  <2> QED BY <1>4, <2>1
<1>7. ASSUME NEW i \in 0 .. n - 1 PROVE cache.slots[i] \in SlotType
  <2>1. PICK s \in AnySlot : s = cache.slots[i]
    BY <1>4
  <2>2. s.flush_cost \in Nat /\ s.flush_cost <= MaxCost
    <3>1. s.flush_cost \in Nat
      BY DEF AnySlot
    <3>2. CostsIn(st, n)
      BY <1>1, <1>2 DEF StateOK
    <3> QED BY <1>3, <2>1, <3>1, <3>2 DEF CostsIn
  <2>3. s.flush_cost \in 0 .. MaxCost
    BY <2>2, Sizes
  <2> QED BY <2>1, <2>3 DEF AnySlot, SlotType
<1>8. cache.slots \in [Slots(cache) -> SlotType]
  BY <1>4, <1>7
<1>9. gone \subseteq Page /\ halted \in BOOLEAN /\ read \in Copy /\ write \in Copy
  BY <1>1 DEF StateOK, CacheInv, CopyOK
<1> QED BY <1>4, <1>5, <1>6, <1>8, <1>9 DEF TypeOK

LEMMA InvKeeps ==
  ASSUME CacheInv
  PROVE  NothingLost
<1>1. PICK n \in SlotCounts : /\ StateOK(n, Store, read, write, gone) /\ n \in Nat
                              /\ CacheOK(Store, n) /\ StoreOK(Store, n)
                              /\ CopyOK(read) /\ CopyOK(write)
  BY InvHolds
<1>2. PICK st : st = Store
  OBVIOUS
<1>3. ASSUME NEW p \in Page \ gone
      PROVE  file[p] = View(p) \/ (IsChanged(p) /\ Cached(p).data = View(p))
  <2>1. PICK v \in Value : Reads(st, read, write, p, v)
    BY <1>1, <1>2 DEF StateOK
  <2>2. View(p) = v
    <3>1. /\ ReadItem(p) \in Item
          /\ \A w : Reads(st, read, write, p, w) => ReadItem(p).data = w /\ View(p) = w
      BY <1>1, <1>2, ReadItemIs
    <3> QED BY <2>1, <3>1
  <2>3. /\ IsCached(p) => Cached(p).data = v /\ (Cached(p).changed \/ file[p] = v)
        /\ ~IsCached(p) => file[p] = v
    BY <1>1, <1>2, <2>1, FineIs DEF Reads
  <2> QED BY <2>2, <2>3 DEF IsChanged
<1> QED BY <1>3 DEF NothingLost

LEMMA InvCounts ==
  ASSUME CacheInv
  PROVE  CountsAgree
<1>1. PICK n \in SlotCounts : /\ StateOK(n, Store, read, write, gone) /\ n \in Nat
                              /\ CacheOK(Store, n) /\ StoreOK(Store, n)
                              /\ CopyOK(read) /\ CopyOK(write)
  BY InvHolds
<1>2. PICK st : st = Store
  OBVIOUS
<1>3. st.cache = cache
  BY <1>2 DEF Store
<1>4. /\ Slots(cache) = 0 .. n - 1 /\ IsFiniteSet(Places(st.cache))
      /\ \A i \in 0 .. n - 1 : SlotInv(st.cache.slots[i])
  BY <1>1, <1>2, <1>3, InStore
<1>5. PICK A, B : A = Places(st.cache) /\ B = {p \in Page : IsCached(p)}
  OBVIOUS
<1>6. Cardinality(A) = Cardinality(B)
  <2>1. PICK f : f = [x \in A |-> PageOf(st.cache.slots[x[1]], x[2])]
    OBVIOUS
  <2>2. \A x \in A : x = <<x[1], x[2]>> /\ x[1] \in 0 .. n - 1 /\ x[2] \in Offset
                     /\ Has(st.cache.slots[x[1]], x[2])
    BY <1>3, <1>4, <1>5 DEF Places
  <2>3. ASSUME NEW x \in A
        PROVE  /\ f[x] \in B /\ x[1] = SlotOf(st.cache, f[x] \div PerRegion)
               /\ x[2] = f[x] % PerRegion
    <3>1. PICK i \in 0 .. n - 1, o \in Offset : x[1] = i /\ x[2] = o /\ Has(st.cache.slots[i], o)
      BY <2>2
    <3>2. PICK q : q = PageOf(st.cache.slots[i], o)
      OBVIOUS
    <3>3. q \in Page
      BY <1>4, <3>1, <3>2 DEF SlotInv
    <3>4. Shows(st.cache.slots[i], q) /\ q % PerRegion = o
      BY <1>4, <3>1, <3>2, <3>3, ShowsIs
    <3>5. i = SlotOf(st.cache, q \div PerRegion)
      BY <1>1, <1>2, <3>3, <3>4, ShownOnce
    <3>6. IsCached(q)
      <4>1. CachedIn(st, q)
        BY <1>3, <1>4, <3>4 DEF CachedIn
      <4>2. /\ IsCached(q) <=> CachedIn(st, q)
            /\ IsCached(q) => Cached(q) \in Item
            /\ IsCached(q) => \E j \in 0 .. n - 1 : /\ Shows(st.cache.slots[j], q)
                                                    /\ Cached(q) = st.cache.slots[j].items[q % PerRegion]
        BY <1>1, <1>2, <3>3, CachedIs
      <4> QED BY <4>1, <4>2
    <3>7. f[x] = q
      BY <2>1, <3>1, <3>2
    <3> QED BY <1>5, <3>1, <3>3, <3>4, <3>5, <3>6, <3>7
  <2>4. ASSUME NEW q \in B PROVE \E x \in A : f[x] = q
    <3>1. q \in Page /\ IsCached(q)
      BY <1>5
    <3>2. /\ IsCached(q) <=> CachedIn(st, q)
          /\ IsCached(q) => Cached(q) \in Item
          /\ IsCached(q) => \E j \in 0 .. n - 1 : /\ Shows(st.cache.slots[j], q)
                                                  /\ Cached(q) = st.cache.slots[j].items[q % PerRegion]
      BY <1>1, <1>2, <3>1, CachedIs
    <3>3. PICK j \in 0 .. n - 1 : Shows(st.cache.slots[j], q)
      BY <3>1, <3>2
    <3>4. PICK o \in Offset : o = q % PerRegion
      BY <3>1, OffsetIs
    <3>5. Has(st.cache.slots[j], o)
      BY <3>3, <3>4 DEF Shows
    <3>6. <<j, o>> \in A
      BY <1>3, <1>4, <1>5, <3>5 DEF Places
    <3>7. PageOf(st.cache.slots[j], o) = q
      BY <1>4, <3>1, <3>3, <3>4, <3>5, ShowsIs
    <3>8. f[<<j, o>>] = q
      BY <2>1, <3>6, <3>7
    <3> QED BY <3>6, <3>8
  <2>5. f \in Bijection(A, B)
    <3>1. f \in [A -> B]
      BY <2>1, <2>3
    <3>2. \A x, y \in A : f[x] = f[y] => x = y
      BY <2>2, <2>3
    <3>3. f \in Injection(A, B)
      BY <3>1, <3>2 DEF Injection, IsInjective
    <3>4. f \in Surjection(A, B)
      BY <2>4, <3>1 DEF Surjection
    <3> QED BY <3>3, <3>4 DEF Bijection
  <2>6. ExistsBijection(A, B)
    BY <2>5 DEF ExistsBijection
  <2>7. IsFiniteSet(A)
    BY <1>4, <1>5
  <2> QED BY <2>6, <2>7, FS_Bijection
<1>7. cache.num_cached = Cardinality(A) /\ cache.num_cached <= MaxItems
  BY <1>1, <1>2, <1>3, <1>5 DEF CacheOK, StoreOK
<1>8. cache.num_regions = Cardinality({i \in Slots(cache) : cache.slots[i].region # None})
  <2>1. /\ cache.num_regions \in 0 .. n
        /\ \A i \in 0 .. n - 1 : cache.slots[i].region # None <=> i < cache.num_regions
    BY <1>1, <1>2, <1>3 DEF CacheOK, Prefix
  <2>2. PICK m \in 0 .. n : m = cache.num_regions
    BY <2>1
  <2>3. {i \in Slots(cache) : cache.slots[i].region # None} = 0 .. m - 1
    BY <1>1, <1>4, <2>1, <2>2
  <2>4. Cardinality(0 .. m - 1) = m
    <3>1. 0 \in Int /\ m - 1 \in Int
      BY <1>1
    <3>2. Cardinality(0 .. m - 1) = IF 0 > m - 1 THEN 0 ELSE m - 1 - 0 + 1
      BY <3>1, FS_Interval
    <3> QED BY <1>1, <3>2
  <2> QED BY <2>2, <2>3, <2>4
<1>9. \A i, j \in Slots(cache) : i # j /\ cache.slots[i].region = cache.slots[j].region =>
                                   cache.slots[i].region = None
  BY <1>1, <1>2, <1>3, <1>4 DEF StoreOK
<1> QED BY <1>5, <1>6, <1>7, <1>8, <1>9 DEF CountsAgree

\* The types hold: no count of the cache runs below zero, and no link leaves
\* its slot, however pages were read, put, flushed and cleared (cache_base and
\* the cache template of src/cache.h).
THEOREM AlwaysTyped == Spec => []TypeOK
<1>1. CacheInv => TypeOK
  BY InvTyped
<1> QED BY <1>1, AlwaysInv, PTL

\* Nothing that was put is lost: what get returns of a page is in the file, or
\* in the cache and marked to be written, through every free_cache_item that
\* makes room, every flush and every copy of what was read or written last.
THEOREM AlwaysKeeps == Spec => []NothingLost
<1>1. CacheInv => NothingLost
  BY InvKeeps
<1> QED BY <1>1, AlwaysInv, PTL

\* The cache keeps to max_cache_items, num_cached and num_regions count what the
\* slots hold, and no region is in two slots.
THEOREM AlwaysCounts == Spec => []CountsAgree
<1>1. CacheInv => CountsAgree
  BY InvCounts
<1> QED BY <1>1, AlwaysInv, PTL

-----------------------------------------------------------------------------
(* Callers see pages.                                                      *)

\* What the contents of the pages are, by what is read from them.
Seen ==
  /\ Contents = [p \in Page |-> Contents[p]]
  /\ \A p \in Page : p \in gone => Contents[p] = Dropped
  /\ \A p \in Page, v \in Value :
       p \notin gone /\ Reads(Store, read, write, p, v) => Contents[p] = v

LEMMA InvSeen ==
  ASSUME CacheInv
  PROVE  Seen
<1>1. PICK n \in SlotCounts : /\ StateOK(n, Store, read, write, gone) /\ n \in Nat
                              /\ CacheOK(Store, n) /\ StoreOK(Store, n)
                              /\ CopyOK(read) /\ CopyOK(write)
  BY InvHolds
<1>2. PICK st : st = Store
  OBVIOUS
<1>3. /\ Contents = [p \in Page |-> Contents[p]]
      /\ \A p \in Page : p \in gone => Contents[p] = Dropped
      /\ \A p \in Page : p \notin gone => Contents[p] = View(p)
  BY DEF Contents
<1>4. ASSUME NEW p \in Page, NEW v \in Value, p \notin gone, Reads(st, read, write, p, v)
      PROVE  Contents[p] = v
  <2>1. /\ ReadItem(p) \in Item
        /\ \A w : Reads(st, read, write, p, w) => ReadItem(p).data = w /\ View(p) = w
    BY <1>1, <1>2, ReadItemIs
  <2> QED BY <1>3, <1>4, <2>1
<1> QED BY <1>2, <1>3, <1>4 DEF Seen

\* A page that is known holds what is read from it.
LEMMA KnownPages ==
  ASSUME CacheInv, NEW q \in Page, q \notin gone
  PROVE  \E v \in Value : Reads(Store, read, write, q, v)
BY InvHolds DEF StateOK

\* What the contents are after a step that reads alike the pages Q.
LEMMA SeenAfter ==
  ASSUME CacheInv, Seen, Seen', NEW Q \in SUBSET Page,
         Moved(Store, read, write, Store', read', write', Q),
         NEW q \in Q, q \notin gone, q \notin gone'
  PROVE  Contents'[q] = Contents[q] /\ file'[q] \in {file[q], Contents'[q]}
<1>1. PICK v \in Value : Reads(Store, read, write, q, v)
  BY KnownPages
<1>2. /\ Reads(Store', read', write', q, v)
      /\ Store'.file[q] \in {Store.file[q], v}
  BY <1>1 DEF Moved
<1>3. Store.file = file /\ Store'.file = file'
  BY DEF Store
<1>4. Contents[q] = v
  BY <1>1 DEF Seen
<1>5. Contents'[q] = v
  BY <1>2 DEF Seen
<1> QED BY <1>2, <1>3, <1>4, <1>5

\* No page is given up or taken back: a step of get, of flush or none.
LEMMA AllSeenAfter ==
  ASSUME CacheInv, Seen, Seen', gone' = gone,
         Moved(Store, read, write, Store', read', write', Page \ gone)
  PROVE  /\ Contents' = Contents
         /\ \A q \in Page : file'[q] \in {file[q], Contents'[q]} \/ Contents'[q] = Dropped
<1>1. ASSUME NEW q \in Page
      PROVE  /\ Contents'[q] = Contents[q]
             /\ file'[q] \in {file[q], Contents'[q]} \/ Contents'[q] = Dropped
  <2>1. CASE q \in gone
    BY <2>1 DEF Seen
  <2>2. CASE q \notin gone
    <3>1. Page \ gone \in SUBSET Page /\ q \in Page \ gone /\ q \notin gone'
      BY <2>2
    <3> QED BY <2>2, <3>1, SeenAfter
  <2> QED BY <2>1, <2>2
<1>2. PICK C, D : C = Contents /\ D = Contents'
  OBVIOUS
<1>3. C = [p \in Page |-> C[p]] /\ D = [p \in Page |-> D[p]]
  BY <1>2 DEF Seen
<1>4. \A q \in Page : D[q] = C[q]
  BY <1>1, <1>2
<1>5. C = D
  BY <1>3, <1>4
<1> QED BY <1>1, <1>2, <1>5

LEMMA GetPages ==
  ASSUME CacheInv, Seen, Seen', NEW p \in Page, Get(p)
  PROVE  Abstract!Get
<1>1. /\ CacheInv' /\ gone' = gone
      /\ Moved(Store, read, write, Store', read', write', Page \ gone)
  BY GetStep
<1>2. /\ Contents' = Contents
      /\ \A q \in Page : file'[q] \in {file[q], Contents'[q]} \/ Contents'[q] = Dropped
  BY <1>1, AllSeenAfter
<1> QED BY <1>2 DEF Abstract!Get, Abstract!MayWriteBack

LEMMA SamePages ==
  ASSUME CacheInv, Seen, Seen', Store' = Store, read' = read, write' = write, gone' = gone
  PROVE  UNCHANGED Abstract!vars
<1>1. Moved(Store, read, write, Store', read', write', Page \ gone)
  BY MovedSelf
<1>2. Contents' = Contents
  BY <1>1, AllSeenAfter
<1>3. file' = file
  BY DEF Store
<1> QED BY <1>2, <1>3 DEF Abstract!vars

LEMMA PutPages ==
  ASSUME CacheInv, Seen, Seen', NEW p \in Page, NEW val \in Value, NEW preventLazy \in BOOLEAN,
         Put(p, val, preventLazy)
  PROVE  Abstract!Put(p, val) \/ UNCHANGED Abstract!vars
<1>1. /\ CacheInv'
      /\ \/ Store' = Store /\ read' = read /\ write' = write /\ gone' = gone
         \/ /\ gone' = gone \ {p}
            /\ Moved(Store, read, write, Store', read', write', Page \ {p})
            /\ Reads(Store', read', write', p, val) /\ file'[p] \in {file[p], val}
  BY PutStep
<1>2. CASE Store' = Store /\ read' = read /\ write' = write /\ gone' = gone
  BY <1>2, SamePages
<1>3. CASE /\ gone' = gone \ {p}
           /\ Moved(Store, read, write, Store', read', write', Page \ {p})
           /\ Reads(Store', read', write', p, val) /\ file'[p] \in {file[p], val}
  <2>1. Contents'[p] = val
    BY <1>3 DEF Seen
  <2>2. ASSUME NEW q \in Page \ {p}
        PROVE  /\ Contents'[q] = Contents[q]
               /\ file'[q] \in {file[q], Contents'[q]} \/ Contents'[q] = Dropped
    <3>1. CASE q \in gone
      BY <1>3, <3>1 DEF Seen
    <3>2. CASE q \notin gone
      <4>1. Page \ {p} \in SUBSET Page /\ q \notin gone'
        BY <1>3, <3>2
      <4> QED BY <1>3, <3>2, <4>1, SeenAfter
    <3> QED BY <3>1, <3>2
  <2>3. PICK C, D : C = Contents /\ D = Contents'
    OBVIOUS
  <2>4. C = [q \in Page |-> C[q]] /\ D = [q \in Page |-> D[q]]
    BY <2>3 DEF Seen
  <2>5. \A q \in Page : D[q] = IF q = p THEN val ELSE C[q]
    BY <2>1, <2>2, <2>3
  <2>6. D = [C EXCEPT ![p] = val]
    BY <2>4, <2>5
  <2>7. \A q \in Page : file'[q] \in {file[q], Contents'[q]} \/ Contents'[q] = Dropped
    BY <1>3, <2>1, <2>2
  <2> QED BY <2>3, <2>6, <2>7 DEF Abstract!Put, Abstract!MayWriteBack
<1> QED BY <1>1, <1>2, <1>3

LEMMA FlushPages ==
  ASSUME CacheInv, Seen, Seen', Flush
  PROVE  Abstract!Flush
<1>1. /\ CacheInv' /\ gone' = gone
      /\ Moved(Store, read, write, Store', read', write', Page)
      /\ \A q \in Page, v \in Value : Reads(Store, read, write, q, v) => file'[q] = v
  BY FlushStep
<1>2. Moved(Store, read, write, Store', read', write', Page \ gone)
  BY <1>1 DEF Moved
<1>3. Contents' = Contents
  BY <1>1, <1>2, AllSeenAfter
<1>4. ASSUME NEW q \in Page PROVE file'[q] = Contents[q] \/ Contents[q] = Dropped
  <2>1. CASE q \in gone
    BY <2>1 DEF Seen
  <2>2. CASE q \notin gone
    <3>1. PICK v \in Value : Reads(Store, read, write, q, v)
      BY <2>2, KnownPages
    <3>2. Contents[q] = v
      BY <2>2, <3>1 DEF Seen
    <3> QED BY <1>1, <3>1, <3>2
  <2> QED BY <2>1, <2>2
<1> QED BY <1>3, <1>4 DEF Abstract!Flush

LEMMA ReloadPages ==
  ASSUME CacheInv, Seen, Seen', NEW p \in Page, NEW val \in Value, Reload(p, val)
  PROVE  Abstract!Reload(p, val)
<1>1. /\ CacheInv' /\ gone' = {} /\ file' = [file EXCEPT ![p] = val]
      /\ \A q \in Page : Reads(Store', read', write', q, file'[q])
  BY ReloadStep
<1>2. file \in [Page -> Value]
  BY InvTyped DEF TypeOK
<1>3. file' \in [Page -> Value]
  BY <1>1, <1>2
<1>4. PICK f \in [Page -> Value] : f = file'
  BY <1>3
<1>5. PICK D : D = Contents'
  OBVIOUS
<1>6. D = [q \in Page |-> D[q]]
  BY <1>5 DEF Seen
<1>7. ASSUME NEW q \in Page PROVE D[q] = f[q]
  <2>1. f[q] \in Value /\ q \notin gone' /\ Reads(Store', read', write', q, f[q])
    BY <1>1, <1>4
  <2>2. Contents'[q] = f[q]
    BY <2>1 DEF Seen
  <2> QED BY <1>5, <2>2
<1>8. D = f
  BY <1>6, <1>7
<1> QED BY <1>1, <1>4, <1>5, <1>8 DEF Abstract!Reload

LEMMA ClearPages ==
  ASSUME CacheInv, Seen, Seen', NEW p \in Page, Slots(cache) = {0}, ClearFrom(p)
  PROVE  Abstract!DropFrom(p)
<1>1. /\ CacheInv' /\ gone' = gone \cup {q \in Page : q >= p} /\ file' = file
      /\ Moved(Store, read, write, Store', read', write', Page \ gone')
  BY ClearStep
<1>2. PICK C, D : C = Contents /\ D = Contents'
  OBVIOUS
<1>3. C = [q \in Page |-> C[q]] /\ D = [q \in Page |-> D[q]]
  BY <1>2 DEF Seen
<1>4. ASSUME NEW q \in Page PROVE D[q] = IF q >= p THEN Dropped ELSE C[q]
  <2>1. CASE q \in gone'
    <3>1. D[q] = Dropped
      BY <1>2, <2>1 DEF Seen
    <3>2. ~(q >= p) => q \in gone /\ C[q] = Dropped
      BY <1>1, <1>2, <2>1 DEF Seen
    <3> QED BY <3>1, <3>2
  <2>2. CASE q \notin gone'
    <3>1. Page \ gone' \in SUBSET Page /\ q \in Page \ gone' /\ q \notin gone /\ ~(q >= p)
      BY <1>1, <2>2
    <3>2. Contents'[q] = Contents[q]
      BY <1>1, <2>2, <3>1, SeenAfter
    <3> QED BY <1>2, <3>1, <3>2
  <2> QED BY <2>1, <2>2
<1>5. D = [q \in Page |-> IF q >= p THEN Dropped ELSE C[q]]
  BY <1>3, <1>4
<1> QED BY <1>1, <1>2, <1>5 DEF Abstract!DropFrom

LEMMA InitPages ==
  ASSUME Init
  PROVE  Abstract!Init
<1>1. CacheInv /\ \A q \in Page : Reads(Store, read, write, q, file[q])
  BY InitInv
<1>2. Seen
  BY <1>1, InvSeen
<1>3. file \in [Page -> Value] /\ gone = {}
  BY DEF Init
<1>4. PICK C : C = Contents
  OBVIOUS
<1>5. C = [q \in Page |-> C[q]]
  BY <1>2, <1>4 DEF Seen
<1>6. \A q \in Page : C[q] = file[q]
  BY <1>1, <1>2, <1>3, <1>4 DEF Seen
<1>7. C = file
  BY <1>3, <1>5, <1>6
<1> QED BY <1>3, <1>4, <1>7 DEF Abstract!Init

\* Callers see pages that hold what was last put there, whatever the cache makes
\* room for, writes back or drops; a flush leaves nothing behind, and only what
\* clear_from or a change of the file by another process gives up is given up.
THEOREM RefinesPages == Spec => ImplementsPages
<1>1. Init => Abstract!Init
  BY InitPages
<1>2. CacheInv => Seen
  BY InvSeen
<1>3. CacheInv /\ Seen /\ Seen' /\ [Next]_vars => [Abstract!Next]_(Abstract!vars)
  <2> SUFFICES ASSUME CacheInv, Seen, Seen', [Next]_vars
               PROVE  Abstract!Next \/ UNCHANGED Abstract!vars
    OBVIOUS
  <2>1. ASSUME NEW p \in Page, Get(p) PROVE Abstract!Next
    BY <2>1, GetPages DEF Abstract!Next
  <2>2. ASSUME NEW p \in Page, NEW val \in Value, NEW preventLazy \in BOOLEAN,
               Put(p, val, preventLazy)
        PROVE  Abstract!Next \/ UNCHANGED Abstract!vars
    BY <2>2, PutPages DEF Abstract!Next
  <2>3. CASE Flush
    BY <2>3, FlushPages DEF Abstract!Next
  <2>4. ASSUME NEW p \in Page, NEW val \in Value, Reload(p, val) PROVE Abstract!Next
    BY <2>4, ReloadPages DEF Abstract!Next
  <2>5. ASSUME NEW p \in Page, Slots(cache) = {0}, ClearFrom(p) PROVE Abstract!Next
    BY <2>5, ClearPages DEF Abstract!Next
  <2>6. CASE UNCHANGED vars
    <3>1. Store' = Store /\ read' = read /\ write' = write /\ gone' = gone
      BY <2>6 DEF vars, Store
    <3> QED BY <3>1, SamePages
  <2> QED BY <2>1, <2>2, <2>3, <2>4, <2>5, <2>6 DEF Next
<1> QED BY <1>1, <1>2, <1>3, AlwaysInv, PTL DEF Spec, ImplementsPages, Abstract!Spec
=============================================================================
