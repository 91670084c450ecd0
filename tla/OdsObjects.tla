----------------------------- MODULE OdsObjects -----------------------------
(* What the object store promises to the sessions that use it: committed     *)
(* objects, and for every session a stack of nested transactions, each with  *)
(* the objects it has changed.  The first session to change an object keeps  *)
(* every other one from changing it; nobody sees a change before it is       *)
(* committed; a rollback leaves no trace.                                    *)
EXTENDS Integers, Sequences

CONSTANTS Session, Num,
          PlainSession,  \* sessions that also change objects outside a transaction
          Object,  \* what an object can be
          Absent,  \* there is no such object
          Unset    \* a transaction has not changed the object

VARIABLES committed,  \* the objects outside every transaction
          overlay     \* per session, the changes of its transactions, outermost first

Overlaid(s, n) == {l \in DOMAIN overlay[s] : overlay[s][l][n] # Unset}

\* the object as the session itself sees it
View(s, n) ==
  IF Overlaid(s, n) = {} THEN committed[n]
  ELSE overlay[s][CHOOSE l \in Overlaid(s, n) : \A k \in Overlaid(s, n) : k <= l][n]

Init == /\ committed = [n \in Num |-> Absent]
        /\ overlay = [s \in Session |-> << >>]

Begin(s) ==
  /\ overlay' = [overlay EXCEPT ![s] = Append(@, [n \in Num |-> Unset])]
  /\ UNCHANGED committed

\* an object stored anew or changed to "v", or deleted
Set(s, n, v) ==
  /\ \A t \in Session \ {s} : Overlaid(t, n) = {}
  /\ v = Absent => View(s, n) # Absent
  /\ IF overlay[s] = << >>
     THEN /\ s \in PlainSession
          /\ committed' = [committed EXCEPT ![n] = v]
          /\ UNCHANGED overlay
     ELSE /\ overlay' = [overlay EXCEPT ![s][Len(overlay[s])][n] = v]
          /\ UNCHANGED committed

Dropped(s) == [l \in 1 .. Len(overlay[s]) - 1 |-> overlay[s][l]]
Over(top, under) == [n \in Num |-> IF top[n] = Unset THEN under[n] ELSE top[n]]

Commit(s) ==
  LET depth == Len(overlay[s])
      top   == overlay[s][depth]
  IN /\ depth > 0
     /\ IF depth = 1
        THEN /\ committed' = Over(top, committed)
             /\ overlay' = [overlay EXCEPT ![s] = Dropped(s)]
        ELSE /\ overlay' = [overlay EXCEPT ![s] =
                              [Dropped(s) EXCEPT ![depth - 1] = Over(top, @)]]
             /\ UNCHANGED committed

Rollback(s) ==
  /\ overlay[s] # << >>
  /\ overlay' = [overlay EXCEPT ![s] = Dropped(s)]
  /\ UNCHANGED committed

Next == \E s \in Session :
          \/ Begin(s) \/ Commit(s) \/ Rollback(s)
          \/ \E n \in Num, v \in Object \cup {Absent} : Set(s, n, v)

Spec == Init /\ [][Next]_<< committed, overlay >>
=============================================================================
