----------------------------- MODULE RegionCache -----------------------------
(***************************************************************************)
(* The page cache of src/cache.h, by which src/ods.cpp reads and writes    *)
(* its index, its data and what a transaction has pending.  Every public   *)
(* call holds the lock of the cache, so that each is one step.             *)
(*                                                                         *)
(* A page belongs to a region.  The cache has "slots" (up_cache_regions)   *)
(* that hold a region each, and a slot keeps its items on three linked     *)
(* lists, from least to most recent: those used, changed and unchanged.    *)
(* An item that has been read last and one that has been written last are  *)
(* also kept as copies (up_temp_read_item and up_temp_write_item).         *)
(*                                                                         *)
(* Counters only decide which of several slots gives way, and which list   *)
(* head of several: any of them may here.  A dereference of a null item    *)
(* ends the process (halted).                                              *)
(***************************************************************************)
EXTENDS Integers, FiniteSets, SequencesExt

CONSTANTS
  Page,      \* the pages there are: 0 .. n
  Value,     \* what a page may hold
  Dropped,   \* mark for a page that the caller has given up
  MaxItems,  \* max_cache_items
  PerRegion, \* items_per_region
  SlotCounts, \* regions_in_cache may be any of these
  MaxCost    \* bound: flush_cost of a slot

ASSUME CacheAssumption ==
  /\ Page \subseteq Nat /\ Dropped \notin Value
  /\ MaxItems \in Nat \ {0} /\ PerRegion \in Nat \ {0}
  /\ SlotCounts \subseteq Nat \ {0}
  /\ MaxCost \in Nat

VARIABLES
  cache,  \* the slots and the counts of items and regions
  file,   \* the pages of the file
  read,   \* temp_read_num and the item
  write,  \* temp_write_num and the item
  gone,   \* the pages that clear_from gave up (nothing in the code)
  halted  \* has a null item been dereferenced?

vars == <<cache, file, read, write, gone, halted>>

None   == -1
Offset == 0 .. PerRegion - 1
List   == {"used", "changed", "unchanged"}

NoItem == <<>>
NewItem(data, changed) ==
  [data |-> data, changed |-> changed, prev |-> [l \in List |-> None],
   next |-> [l \in List |-> None]]

EmptySlot == [region |-> None, flush_cost |-> 0, items |-> [o \in Offset |-> NoItem],
              most |-> [l \in List |-> None], least |-> [l \in List |-> None]]

Init ==
  /\ \E n \in SlotCounts :
       cache = [slots |-> [i \in 0 .. n - 1 |-> EmptySlot], num_cached |-> 0, num_regions |-> 0]
  /\ \E val \in Value : file = [p \in Page |-> val]
  /\ read = [num |-> None, item |-> NoItem]
  /\ write = [num |-> None, item |-> NoItem]
  /\ gone = {} /\ halted = FALSE

-----------------------------------------------------------------------------
(* The lists of a slot.                                                    *)

Has(s, o) == o # None /\ s.items[o] # NoItem

\* A link is set at an item, if that is there.
NextSet(s, o, l, link) == IF Has(s, o) THEN [s EXCEPT !.items[o].next[l] = link] ELSE s
PrevSet(s, o, l, link) == IF Has(s, o) THEN [s EXCEPT !.items[o].prev[l] = link] ELSE s

EndsSet(s, l, most, least) == [s EXCEPT !.most[l] = most, !.least[l] = least]

\* unlink_cached_item, for one of the lists.
UnlinkedFrom(s, o, l) ==
  LET before == s.items[o].prev[l]
      after  == s.items[o].next[l]
  IN EndsSet(PrevSet(NextSet(PrevSet(NextSet(s, before, l, after), after, l, before),
                             o, l, None), o, l, None), l,
             IF s.most[l] = o THEN before ELSE s.most[l],
             IF s.least[l] = o THEN after ELSE s.least[l])

LinkedMostRecent(s, o, l) ==
  LET head == s.most[l]
  IN EndsSet(PrevSet(NextSet(s, head, l, o), o, l, head), l,
             o, IF s.least[l] = None THEN o ELSE s.least[l])

Unlinked(s, o) ==
  UnlinkedFrom(UnlinkedFrom(UnlinkedFrom(s, o, "used"), o, "changed"), o, "unchanged")

\* the list that an item is linked to besides the one of those used
ChangeList(s, o) == IF s.items[o].changed THEN "changed" ELSE "unchanged"

-----------------------------------------------------------------------------
(* Making room.  A store is a cache and the file behind it.                *)

PageOf(s, o) == s.region * PerRegion + o
Stored(st, i, o) == [st EXCEPT !.file[PageOf(st.cache.slots[i], o)] =
                       st.cache.slots[i].items[o].data]

\* A faulty free_cache_item, that forgets to write what was changed.
FreedUnwritten(st, i, o, discard) ==
  LET s == st.cache.slots[i]
      clean == IF Has(s, o) /\ s.items[o].changed
               THEN [s EXCEPT !.items[o].changed = FALSE, !.flush_cost = @ - 1] ELSE s
  IN IF ~Has(s, o) THEN st
     ELSE [st EXCEPT !.cache.slots[i] = [Unlinked(clean, o) EXCEPT !.items[o] = NoItem],
                     !.cache.num_cached = @ - 1]

\* free_cache_item
FreedItem(st, i, o, discard) ==
  LET s == st.cache.slots[i]
      changed == Has(s, o) /\ s.items[o].changed
      clean == IF ~changed THEN s
               ELSE [s EXCEPT !.items[o].changed = FALSE, !.flush_cost = @ - 1]
  IN IF ~Has(s, o) THEN st
     ELSE [(IF changed /\ ~discard THEN Stored(st, i, o) ELSE st) EXCEPT
             !.cache.slots[i] = [Unlinked(clean, o) EXCEPT !.items[o] = NoItem],
             !.cache.num_cached = @ - 1]

\* a loop over numbers
From(first, last) == [k \in 1 .. last - first + 1 |-> first + k - 1]

FreedItems(st, i, first, discard) ==
  FoldLeft(LAMBDA t, o : FreedItem(t, i, o, discard), st, From(first, PerRegion - 1))

\* free_cache_region
FreedRegion(st, i, reuse, discard) ==
  [FreedItems(st, i, 0, discard) EXCEPT
     !.cache.slots[i] = EmptySlot,
     !.cache.num_regions = IF ~reuse /\ i = @ - 1 THEN @ - 1 ELSE @]

Slots(c) == DOMAIN c.slots

SlotOf(c, region) ==
  IF \E i \in Slots(c) : c.slots[i].region = region
  THEN CHOOSE i \in Slots(c) : /\ c.slots[i].region = region
                               /\ \A j \in 0 .. i - 1 : c.slots[j].region # region
  ELSE None

Heads(c, l) == {i \in Slots(c) : c.slots[i].least[l] # None}

\* The item that gives way: unchanged if there is one on a list.
Victims(c) ==
  LET l == IF Heads(c, "unchanged") # {} THEN "unchanged" ELSE "changed"
  IN {<<i, c.slots[i].least[l]>> : i \in Heads(c, l)}

\* The slot for a region that is not in the cache: of a full cache one with
\* nothing to flush, if there is one.
SlotsFor(c) ==
  LET clean == {i \in Slots(c) : c.slots[i].flush_cost = 0}
      full  == Cardinality(Slots(c))
  IN CASE c.num_regions = full -> IF clean # {} THEN clean ELSE Slots(c)
       [] c.num_regions < full -> {c.num_regions}
       [] OTHER -> {}

\* A faulty replacement, that counts a region again.
OccupiedAgain(st, i, region) ==
  LET t == IF st.cache.slots[i].region = None THEN st ELSE FreedRegion(st, i, TRUE, FALSE)
  IN [t EXCEPT !.cache.num_regions = @ + 1, !.cache.slots[i].region = region]

\* A region is put in the slot.
Occupied(st, i, region) ==
  LET taken == st.cache.slots[i].region # None
      t == IF taken THEN FreedRegion(st, i, TRUE, FALSE)
           ELSE [st EXCEPT !.cache.num_regions = @ + 1]
  IN [t EXCEPT !.cache.slots[i].region = region]

\* The heads of all lists are looked at when something has to give way.
Scanned(c, region) ==
  \/ c.num_cached = MaxItems
  \/ SlotOf(c, region) = None /\ c.num_regions = Cardinality(Slots(c))

NullHead(c) ==
  \E i \in Slots(c), l \in {"changed", "unchanged"} :
    /\ c.slots[i].least[l] # None /\ ~Has(c.slots[i], c.slots[i].least[l])

\* The ways to make room for a page that is not in the cache: the cache after
\* it and the slot of the page, or no slot if there was nothing to give way.
Rooms(st, p) ==
  LET c == st.cache
      region == p \div PerRegion
      known == SlotOf(c, region)
      slots == IF known # None THEN {known} ELSE SlotsFor(c)
      victims == IF c.num_cached = MaxItems THEN Victims(c) ELSE {}
      t(i) == IF known # None THEN st ELSE Occupied(st, i, region)
      gaveWay(i) ==
        IF t(i).cache.num_cached < MaxItems THEN {[st |-> t(i), slot |-> i]}
        ELSE IF victims = {} THEN {[st |-> t(i), slot |-> None]}
        ELSE {[st |-> FreedItem(t(i), v[1], v[2], FALSE), slot |-> i] : v \in victims}
  IN IF slots = {} THEN {[st |-> st, slot |-> None]} ELSE UNION {gaveWay(i) : i \in slots}

\* A faulty end of retain_item_in_cache, that does not count what has to be flushed.
PutUncounted(s, o, item) ==
  LET s1 == Unlinked([s EXCEPT !.items[o] = item], o)
  IN LinkedMostRecent(LinkedMostRecent(s1, o, "used"), o, ChangeList(s1, o))

\* The end of retain_item_in_cache: the item in its slot, and most recent.
\* A new item keeps the links that it was copied with.
PutInSlot(s, o, item) ==
  LET was == s.items[o]
      new == IF ~Has(s, o) THEN item
             ELSE [was EXCEPT !.data = item.data, !.changed = @ \/ item.changed]
      s1 == Unlinked([s EXCEPT !.items[o] = new,
                        !.flush_cost = IF item.changed /\ ~(Has(s, o) /\ was.changed)
                                       THEN @ + 1 ELSE @], o)
  IN LinkedMostRecent(LinkedMostRecent(s1, o, "used"), o, ChangeList(s1, o))

\* retain_item_in_cache: the stores it may leave, and whether it retained.
Retained(st, item, p) ==
  LET o == p % PerRegion
      i == SlotOf(st.cache, p \div PerRegion)
      cached == i # None /\ Has(st.cache.slots[i], o)
      rooms == IF cached THEN {[st |-> st, slot |-> i]} ELSE Rooms(st, p)
  IN {[st |-> IF r.slot = None THEN r.st
              ELSE [r.st EXCEPT !.cache.slots[r.slot] = PutInSlot(@, o, item),
                                !.cache.num_cached = IF cached THEN @ ELSE @ + 1],
       retained |-> r.slot # None] : r \in rooms}

-----------------------------------------------------------------------------
(* The calls.                                                              *)

Store == [cache |-> cache, file |-> file]
IsCached(p) == LET i == SlotOf(cache, p \div PerRegion)
               IN i # None /\ Has(cache.slots[i], p % PerRegion)
Cached(p) == cache.slots[SlotOf(cache, p \div PerRegion)].items[p % PerRegion]

\* does retaining page p look at the head of a list whose item is gone?
Faults(p) == ~IsCached(p) /\ Scanned(cache, p \div PerRegion) /\ NullHead(cache)

Halt == halted' = TRUE /\ UNCHANGED <<cache, file, read, write, gone>>

\* flush_cost counts a page again when it was written at once in between
WithinCost == \A i \in Slots(cache') : cache'.slots[i].flush_cost <= MaxCost

\* what get returns unless it was written last: the copy of what was read last,
\* the item in the cache, or what is in the file
ReadItem(p) ==
  CASE read.num = p -> read.item
    [] read.num # p /\ IsCached(p) -> Cached(p)
    [] OTHER -> NewItem(file[p], FALSE)

Get(p) ==
  /\ ~halted /\ p \notin gone
  /\ LET written == write.num = p
         item == IF written THEN write.item ELSE ReadItem(p)
     IN IF Faults(p) THEN Halt
        ELSE /\ \E r \in Retained(Store, item, p) :
                  cache' = r.st.cache /\ file' = r.st.file
             /\ WithinCost
             /\ read' = IF written THEN read ELSE [num |-> p, item |-> item]
             /\ UNCHANGED <<write, gone, halted>>

\* With what was not retained, or must not be lazy, the page is written at once;
\* the item in the cache is clean then, but stays where it was linked.
WrittenAt(st, i, o, p, val) ==
  [st EXCEPT !.file[p] = val,
             !.cache.slots = IF i = None \/ ~Has(@[i], o) THEN @
                             ELSE [@ EXCEPT ![i].items[o].changed = FALSE]]

Put(p, val, preventLazy) ==
  /\ ~halted
  /\ LET i == SlotOf(cache, p \div PerRegion)
         copy == [num |-> p, item |-> NewItem(val, FALSE)]
     IN IF Faults(p) THEN Halt
        ELSE /\ \E r \in Retained(Store, NewItem(val, TRUE), p) :
                  LET st == IF r.retained /\ ~preventLazy THEN r.st
                            ELSE WrittenAt(r.st, i, p % PerRegion, p, val)
                  IN cache' = st.cache /\ file' = st.file
             /\ WithinCost
             /\ write' = copy
             /\ read' = IF read.num = p THEN copy ELSE read
             /\ gone' = gone \ {p}
             /\ UNCHANGED halted

\* flush: what is changed is written and linked as unchanged, and after that
\* all items are linked as unchanged in the order of their use.
FlushedItem(s, o) ==
  LET clean == [UnlinkedFrom(UnlinkedFrom(s, o, "changed"), o, "unchanged") EXCEPT
                  !.items[o].changed = FALSE, !.flush_cost = @ - 1]
  IN IF Has(s, o) /\ s.items[o].changed THEN LinkedMostRecent(clean, o, "unchanged") ELSE s

FlushedItems(s) == FoldLeft(FlushedItem, s, From(0, PerRegion - 1))

FlushedSlot(s) ==
  LET t == FlushedItems(s)
  IN [t EXCEPT
        !.items = [o \in Offset |-> IF ~Has(t, o) THEN NoItem
                     ELSE [t.items[o] EXCEPT !.prev["unchanged"] = t.items[o].prev["used"],
                                             !.next["unchanged"] = t.items[o].next["used"]]],
        !.most["unchanged"] = t.most["used"], !.least["unchanged"] = t.least["used"]]

IsChanged(p) == IsCached(p) /\ Cached(p).changed

Flush ==
  /\ ~halted
  /\ file' = [p \in Page |-> IF IsChanged(p) THEN Cached(p).data ELSE file[p]]
  /\ cache' = [cache EXCEPT !.slots = [i \in Slots(cache) |-> FlushedSlot(@[i])]]
  /\ UNCHANGED <<read, write, gone, halted>>

\* A faulty clear, that keeps the copies.
KeptCopies == UNCHANGED <<read, write>>

\* clear forgets the copies as well.
NoCopies == read' = [num |-> None, item |-> NoItem] /\ write' = read'

\* open_store found that another process has changed a page: clear.
Reload(p, val) ==
  /\ ~halted
  /\ LET st == FoldLeft(LAMBDA t, i : FreedRegion(t, cache.num_regions - i, FALSE, TRUE),
                        Store, From(1, cache.num_regions))
     IN cache' = st.cache
  /\ file' = [file EXCEPT ![p] = val]
  /\ gone' = {}
  /\ NoCopies
  /\ UNCHANGED halted

\* clear_from, when a nested transaction is rolled back: pages are given up from
\* p on, if the region of p is there.  The copies stay.
ClearFrom(p) ==
  /\ ~halted
  /\ LET region == p \div PerRegion
         o == p % PerRegion
         cleared(t, i) ==
           LET r == t.cache.slots[i].region IN
           CASE r = None \/ r < region -> t
             [] r = region /\ o # 0 -> FreedItems(t, i, o, TRUE)
             [] OTHER -> FreedRegion(t, i, FALSE, TRUE)
     IN cache' = IF SlotOf(cache, region) = None THEN cache
                 ELSE FoldLeft(cleared, Store, From(0, Cardinality(Slots(cache)) - 1)).cache
  /\ gone' = gone \cup {q \in Page : q >= p}
  /\ UNCHANGED <<file, read, write, halted>>

\* What ods.cpp calls: it retains every page, and clears from a page on only the
\* caches of a transaction, which have one slot.
Next ==
  \/ \E p \in Page : Get(p)
  \/ \E p \in Page, val \in Value, preventLazy \in BOOLEAN : Put(p, val, preventLazy)
  \/ Flush
  \/ \E p \in Page, val \in Value : Reload(p, val)
  \/ Slots(cache) = {0} /\ \E p \in Page : ClearFrom(p)

Spec == Init /\ [][Next]_vars

-----------------------------------------------------------------------------
(* Properties.                                                             *)

Link == Offset \cup {None}
Item == [data : Value, changed : BOOLEAN, prev : [List -> Link], next : [List -> Link]]
SlotType == [region : Nat \cup {None}, flush_cost : 0 .. MaxCost,
             items : [Offset -> Item \cup {NoItem}], most : [List -> Link],
             least : [List -> Link]]
Copy == [num : Page \cup {None}, item : Item \cup {NoItem}]

\* Types: no count runs below zero, and no link leaves its slot.
TypeOK ==
  /\ cache.slots \in [Slots(cache) -> SlotType]
  /\ Cardinality(Slots(cache)) \in SlotCounts
  /\ cache.num_cached \in Nat /\ cache.num_regions \in Nat
  /\ file \in [Page -> Value] /\ read \in Copy /\ write \in Copy
  /\ gone \subseteq Page /\ halted \in BOOLEAN

\* what a get of the page returns
View(p) == IF write.num = p THEN write.item.data ELSE ReadItem(p).data

\* Nothing put is lost: what a page holds for the callers is in its file, or in
\* the cache and marked changed, so that it will be written.
NothingLost ==
  \A p \in Page \ gone : file[p] = View(p) \/ (IsChanged(p) /\ Cached(p).data = View(p))

\* The cache keeps to its size, and the counts agree with the slots.
CountsAgree ==
  /\ cache.num_cached = Cardinality({p \in Page : IsCached(p)})
  /\ cache.num_cached <= MaxItems
  /\ cache.num_regions = Cardinality({i \in Slots(cache) : cache.slots[i].region # None})
  /\ \A i, j \in Slots(cache) : i # j /\ cache.slots[i].region = cache.slots[j].region =>
                                  cache.slots[i].region = None

Contents == [p \in Page |-> IF p \in gone THEN Dropped ELSE View(p)]
Abstract == INSTANCE Pages WITH contents <- Contents, stored <- file

\* Callers see pages, whatever is cached, dropped or written back.
ImplementsPages == Abstract!Spec

\* Removing items does not disturb who uses the cache next: the item at the
\* head of a list is there.
NeverHalts == ~halted

=============================================================================
