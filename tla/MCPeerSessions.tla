---------------------------- MODULE MCPeerSessions ----------------------------
(* A small tree for TLC: the root list names one list, which names blobs.    *)
EXTENDS PeerSessions

CONSTANTS r, l

TreeItems == [h \in Hash |-> IF h = r THEN {l} ELSE IF h = l THEN Blobs ELSE {}]
=============================================================================
