------------------------------ MODULE FilePut -------------------------------
(***************************************************************************)
(* What the user of a client may rely on when putting files: a file gets   *)
(* into the files area as a whole and only when it has been put, "okay" is *)
(* said only when it is there, and an error only when it is not, and then  *)
(* the put is over for the server too.  The last three hold as long as the *)
(* client and the server are sure of each other.  When an answer does not  *)
(* come in time the outcome is open: the server may still store the file,  *)
(* also while a later one is being put, and answers may be those of other  *)
(* puts.                                                                   *)
(***************************************************************************)
EXTENDS FiniteSets

CONSTANT Files

VARIABLES
  stored,   \* the files of the files area
  put,      \* the file being put and how far that is
  pending,  \* files that have been put and that the server may still store
  sure      \* an answer is one to the put in progress

vars == <<stored, put, pending, sure>>

Init ==
  /\ stored \in SUBSET Files
  /\ put.state = "none"
  /\ pending = {} /\ sure = TRUE

Begin(f) ==
  /\ put.state # "going"
  /\ put' = [file |-> f, state |-> "going"]
  /\ pending' = pending \cup {f}
  /\ UNCHANGED <<stored, sure>>

StoreFile ==
  /\ \E f \in pending : stored' = stored \cup {f}
  /\ pending' \subseteq pending
  /\ UNCHANGED <<put, sure>>

\* The server will not store some of the files, perhaps because a line of the
\* client did not come in time.
Drop ==
  /\ pending' \subseteq pending
  /\ sure' \in {sure, FALSE}
  /\ UNCHANGED <<stored, put>>

End(state) ==
  /\ put.state = "going"
  /\ put' = [put EXCEPT !.state = state]
  /\ UNCHANGED <<stored, pending>>

EndOkay ==
  /\ sure => put.file \in stored /\ pending = {}
  /\ End("okay") /\ UNCHANGED sure

EndFailed ==
  /\ sure => put.file \notin stored /\ pending = {}
  /\ End("failed") /\ UNCHANGED sure

EndLost == End("lost") /\ sure' \in {sure, FALSE}

Next ==
  \/ \E f \in Files : Begin(f)
  \/ StoreFile \/ Drop
  \/ EndOkay \/ EndFailed \/ EndLost

Spec == Init /\ [][Next]_vars

=============================================================================
