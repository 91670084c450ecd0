--------------------------- MODULE OdsStoreObjects --------------------------
(* OdsStore implements OdsObjects.  A commit takes effect when it starts:    *)
(* from then on the entries it has still to process stand for what their     *)
(* last operation stored.                                                    *)
EXTENDS OdsStore

CONSTANTS Absent, Unset

\* neither is mistaken for the cells of an object
ASSUME ObjectsAssumption ==
  Absent # Unset /\ {Absent, Unset} \cap Seq(Value \cup {0}) = {}

\* the cells that an operation stored, also while they are still on their way
OpValue(s, i) ==
  LET op == ops[s][i]
  IN IF pc[s] = "storing" /\ i = Len(ops[s]) THEN [c \in 1 .. op.size |-> write[s].val]
     ELSE [c \in 1 .. op.size |-> trans_data[s][op.pos + c - 1]]

CellsOf(e) == [c \in 1 .. e.size |-> data[e.pos + c - 1]]

CreatedIn(s, n) == \E i \in DOMAIN ops[s] : ops[s][i].id = n /\ ops[s][i].old_tran_id = -1

\* the object that an entry with a change of session "s" stands for
ChangedBy(s, n) ==
  IF pc[s] # "committing" THEN IF CreatedIn(s, n) THEN Absent ELSE CellsOf(index[n])
  ELSE IF index[n].trans = "delete" THEN Absent
  ELSE OpValue(s, index[n].tran_op)

Committed(n) ==
  LET e == index[n]
  IN IF n >= total_entries \/ e.trans = "free_list" THEN Absent
     ELSE IF e.lock = "entry"
     THEN LET s == CHOOSE s \in Session : write[s].num = n
          IN [c \in 1 .. e.size |-> write[s].val]
     ELSE IF e.trans = "none" THEN CellsOf(e)
     ELSE ChangedBy(CHOOSE s \in Session : Active(s) /\ tran_id[s] = e.tran_id, n)

\* what the operations from the first to the last have made of an object
Change(s, first, last, n) ==
  LET mine == {i \in first .. last : ops[s][i].id = n}
      i    == CHOOSE i \in mine : \A j \in mine : j <= i
  IN IF mine = {} THEN Unset
     ELSE IF ops[s][i].type = "destroy" THEN Absent ELSE OpValue(s, i)

Overlay(s) ==
  [l \in DOMAIN levels[s] |->
     [n \in Num |-> Change(s, levels[s][l].op_offset + 1,
                           levels[s][l].op_offset + levels[s][l].op_count, n)]]

Object == UNION {[1 .. size -> Value] : size \in Size}

Objects == INSTANCE OdsObjects WITH committed <- [n \in Num |-> Committed(n)],
                                    overlay <- [s \in Session |-> Overlay(s)]

\* The store, with its index entries, extents, pages and logged operations, does
\* nothing that the objects and their nested transactions could not do.
ImplementsObjects == Objects!Spec

\* A read gives the object as the session may see it, which is what its own
\* transactions stored, else what was committed last: if the object was not
\* committed anew or freed meanwhile and no commit is under way.  (An object
\* that only another transaction has stored yet reads as an empty one.)
ReadsView ==
  \A s \in Session :
    LET r == read[s]
        seen == Objects!View(s, r.num)
    IN /\ ReadDone(s) /\ r.from # "undefined" /\ rp_impl_lock = NoSession
       /\ ~r.outdated /\ seen # Absent
       => r.got = seen
=============================================================================
