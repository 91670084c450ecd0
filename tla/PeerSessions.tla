---------------------------- MODULE PeerSessions ----------------------------
(***************************************************************************)
(* The sessions with which a server fetches the files of a block from one  *)
(* peer: a main session, which goes through the lists of the block's tree, *)
(* and support sessions, which help it with the items that the lists name. *)
(* Each has a deque of its own, file_hashes_to_get, and the sessions move  *)
(* hashes between these deques; all of it is in the session table of       *)
(* ciyam_base.cpp, and each call of it is one step under g_session_mutex.  *)
(*                                                                         *)
(* The slots hold the sessions of one peer, that is of one IP address and  *)
(* blockchain.  Only the get direction is modelled; the deque of hashes to *)
(* put has the same operations.                                            *)
(***************************************************************************)
EXTENDS Integers, Sequences, FiniteSets

CONSTANTS
  MaxSessions,    \* g_max_sessions: slots of the session table
  Lists, Blobs,   \* the files of the block's tree: lists, and what they name
  NoHash,         \* no file
  Root,           \* the tree's root list
  Items,          \* Items[h]: the files that h names, none for a blob
  NumForSupport,  \* support sessions that a main session wants
  MaxEvents       \* bound: starts, byes, kills and shutdowns in a behaviour

Slot == 1..MaxSessions
Hash == Lists \union Blobs

ASSUME PeerAssumption ==
  /\ MaxSessions \in Nat /\ NumForSupport \in Nat /\ MaxEvents \in Nat
  /\ Lists \intersect Blobs = {}
  /\ NoHash \notin Hash
  /\ IsFiniteSet(Lists) /\ Root \in Lists
  /\ Items \in [Hash -> SUBSET Hash]
  /\ \A h \in Blobs : Items[h] = {}

VARIABLES
  phase,      \* where each session is
  support,    \* slots of support sessions
  captured,   \* slots of captured sessions
  condemned,  \* slots of condemned sessions
  queue,      \* file_hashes_to_get of each session
  hash,       \* next_hash_to_get while a session works on it
  todo,       \* items of the list that a session has still to look at
  ignored,    \* list_items_to_ignore of each session
  fetching,   \* slots of main sessions that have a block in process
  files,      \* stored files
  zenith,     \* the block has become the zenith
  lost,       \* ghost: hashes that left the deques without their file
  alone,      \* ghost: main sessions that never had another beside them
  starting,   \* support sessions started but not yet in the table
  events,     \* what MaxEvents bounds, counted
  shutdown    \* g_server_shutdown

table  == <<phase, support, captured, condemned>>
work   == <<queue, hash, todo, ignored>>
server == <<starting, events, shutdown>>
ghosts == <<lost, alone>>
vars   == <<table, work, fetching, files, zenith, ghosts, server>>

Phases == {"free", "ready", "next", "again", "listing", "working",
           "resuming", "zenith", "ended", "waiting", "leaving"}

Used       == {i \in Slot : phase[i] # "free"}
Supporters == Used \intersect support
Mains      == Used \ support

\* The files of the tree that are reached by way of some files.
Reached(by) ==
  LET grow[n \in Nat] ==
        IF n = 0 THEN {Root}
        ELSE grow[n - 1] \union UNION {Items[h] : h \in grow[n - 1] \intersect by}
  IN grow[Cardinality(Lists)]

Init ==
  /\ phase = [i \in Slot |-> "free"]
  /\ support = {} /\ captured = {} /\ condemned = {}
  /\ queue = [i \in Slot |-> <<>>]
  /\ hash = [i \in Slot |-> NoHash]
  /\ todo = [i \in Slot |-> {}] /\ ignored = [i \in Slot |-> {}]
  /\ fetching = {}
  /\ files = {} /\ zenith = FALSE /\ lost = {} /\ alone = {}
  /\ starting = 0 /\ events = 0 /\ shutdown = FALSE

-----------------------------------------------------------------------------
(* The session table.                                                      *)

FreeSlots == Slot \ Used

First(slots) == CHOOSE i \in slots : \A j \in slots : i <= j
Final(slots) == CHOOSE i \in slots : \A j \in slots : j <= i

\* A session takes the first free slot.
Enter(isSupport) ==
  LET i == First(FreeSlots)
  IN /\ phase' = [phase EXCEPT ![i] = "ready"]
     /\ support' = IF isSupport THEN support \union {i} ELSE support

\* init_session of a main session.  Every main session that is there
\* already is condemned and released from its capture; this is also done
\* when there is no slot for the new one.
InitMain ==
  /\ events < MaxEvents /\ ~shutdown
  /\ events' = events + 1
  /\ condemned' = condemned \union Mains
  /\ captured' = captured \ Mains
  /\ IF FreeSlots # {}
       THEN /\ Enter(FALSE)
            /\ alone' = IF Mains = {} THEN alone \union {First(FreeSlots)}
                       ELSE alone \ Mains
       ELSE UNCHANGED <<phase, support, alone>>
  /\ UNCHANGED <<work, fetching, files, zenith, lost, starting, shutdown>>

\* check_for_missing_other_sessions: the main session starts one support
\* session if it finds fewer than it wants in the table.
StartSupport(i) ==
  /\ phase[i] = "ready" /\ i \notin support \union condemned /\ ~shutdown
  /\ Cardinality(Used \ {i}) < NumForSupport
  /\ events < MaxEvents
  /\ events' = events + 1 /\ starting' = starting + 1
  /\ UNCHANGED <<table, work, fetching, files, zenith, ghosts, shutdown>>

\* init_session of a support session, in its own thread; it fails when the
\* table is full.
InitSupport ==
  /\ starting > 0
  /\ starting' = starting - 1
  /\ IF FreeSlots # {} THEN Enter(TRUE) ELSE UNCHANGED <<phase, support>>
  /\ UNCHANGED <<captured, condemned, work, fetching, files, zenith, ghosts,
                 events, shutdown>>

\* A faulty hand-over: each of the other supporters gets one hash.
OneEach(i) ==
  LET others == Supporters \ {i}
  IN [j \in Slot |->
        IF j = i THEN <<>>
        ELSE IF j \in others /\ queue[i] # <<>>
             THEN Append(queue[j], Head(queue[i]))
        ELSE queue[j]]

\* Every n-th hash of a deque, from the k-th on.
Share(q, n, k) ==
  [p \in 1..((Len(q) + n - k) \div n) |-> q[(p - 1) * n + k]]

\* The deques after a support session has ended: its hashes go round the
\* other supporters, or else to the last of the main sessions.
HandedOver(i) ==
  LET others  == Supporters \ {i}
      rank(j) == Cardinality({k \in others : k <= j})
      gets(j) == IF others # {}
                 THEN IF j \in others
                      THEN Share(queue[i], Cardinality(others), rank(j))
                      ELSE <<>>
                 ELSE IF Mains # {} /\ j = Final(Mains) THEN queue[i] ELSE <<>>
  IN [j \in Slot |-> IF j = i THEN <<>> ELSE queue[j] \o gets(j)]

\* A faulty end: the marks of the session stay with its slot.
TermKeepingMarks(i) ==
  /\ phase[i] = IF i \in support THEN "ended" ELSE "leaving"
  /\ phase' = [phase EXCEPT ![i] = "free"]
  /\ support' = support \ {i}
  /\ queue' = IF i \in support THEN HandedOver(i) ELSE [queue EXCEPT ![i] = <<>>]
  /\ UNCHANGED <<captured, condemned, hash, todo, ignored, fetching, files, zenith,
                 ghosts, server>>

\* term_session.
Term(i) ==
  /\ phase[i] = IF i \in support THEN "ended" ELSE "leaving"
  /\ phase' = [phase EXCEPT ![i] = "free"]
  /\ support' = support \ {i}
  /\ captured' = captured \ {i} /\ condemned' = condemned \ {i}
  /\ queue' = IF i \in support THEN HandedOver(i) ELSE [queue EXCEPT ![i] = <<>>]
  /\ UNCHANGED <<hash, todo, ignored, fetching, files, zenith, ghosts, server>>

\* The thread of a session leaves its command loop; what it was working on is
\* gone, and only its deque is left.
Ends(i) ==
  /\ phase' = [phase EXCEPT ![i] = "ended"]
  /\ hash' = [hash EXCEPT ![i] = NoHash]
  /\ todo' = [todo EXCEPT ![i] = {}] /\ ignored' = [ignored EXCEPT ![i] = {}]
  /\ fetching' = fetching \ {i}
  /\ alone' = alone \ {i}

-----------------------------------------------------------------------------
(* A session at work: issue_cmd_for_peer.                                  *)

Least(slots) == CHOOSE i \in slots : \A j \in slots :
                  Len(queue[i]) < Len(queue[j]) \/ (Len(queue[i]) = Len(queue[j]) /\ i <= j)
Fullest(slots) == CHOOSE i \in slots : \A j \in slots :
                  Len(queue[i]) > Len(queue[j]) \/ (Len(queue[i]) = Len(queue[j]) /\ i <= j)

\* How many hashes are taken from a deque: a tenth, at least one.
NumToTake(q) == IF Len(q) < 20 THEN 1 ELSE Len(q) \div 10

\* A faulty taking: from the very front, where the session that owns the
\* deque works.
TakenFromFront(i, j) ==
  LET n == NumToTake(queue[j])
  IN [queue EXCEPT ![i] = SubSeq(queue[j], 1, n),
                   ![j] = SubSeq(queue[j], n + 1, Len(queue[j]))]

\* take_front_from_deque: i, whose deque is empty, takes hashes from behind
\* the front of j's.
Taken(i, j) ==
  LET n == NumToTake(queue[j])
  IN [queue EXCEPT ![i] = SubSeq(queue[j], 2, n + 1),
                   ![j] = <<queue[j][1]>> \o SubSeq(queue[j], n + 2, Len(queue[j]))]

Others(i) == Supporters \ {i}

\* Supporters from which i may take: the front one stays.
Sources(i) == {j \in Others(i) : Len(queue[j]) > 1}

\* top_next_peer_file_hash_to_get finds a hash: the session's own, or taken.
TopFound(i) ==
  /\ queue' = IF queue[i] = <<>> THEN Taken(i, Fullest(Sources(i))) ELSE queue
  /\ hash' = [hash EXCEPT ![i] = Head(queue'[i])]
  /\ phase' = [phase EXCEPT ![i] = "next"]
  /\ UNCHANGED <<support, captured, condemned, todo, ignored, fetching, files,
                 zenith, ghosts, server>>

HasTop(i) == queue[i] # <<>> \/ Sources(i) # {}

\* A faulty test: supporters are looked at only when there are several.
NoneHasUnlessSeveral(i) ==
  Cardinality(Others(i)) > 1 => \A j \in Others(i) : queue[j] = <<>>

\* ~any_supporter_has
NoneHas(i) == \A j \in Others(i) : queue[j] = <<>>

Top(i) ==
  /\ phase[i] = "ready" /\ i \notin condemned /\ ~shutdown
  /\ HasTop(i)
  /\ TopFound(i)

\* Nothing is left of a block: set_new_zenith.
TopZenith(i) ==
  /\ phase[i] = "ready" /\ i \in fetching \ condemned /\ ~shutdown
  /\ ~HasTop(i) /\ NoneHas(i)
  /\ phase' = [phase EXCEPT ![i] = "zenith"]
  /\ UNCHANGED <<support, captured, condemned, work, fetching, files, zenith,
                 ghosts, server>>

\* The main session hears of a block and processes it: its tree's root is to
\* be fetched, or the lists that are there are searched for what is missing.
NewBlock(i) ==
  /\ phase[i] = "ready" /\ i \in Mains \ (condemned \union fetching) /\ ~shutdown
  /\ ~zenith /\ ~HasTop(i) /\ NoneHas(i)
  /\ fetching' = fetching \union {i}
  /\ IF Root \in files
       THEN /\ todo' = [todo EXCEPT ![i] = Items[Root]]
            /\ phase' = [phase EXCEPT ![i] = "resuming"]
            /\ UNCHANGED queue
       ELSE /\ queue' = [queue EXCEPT ![i] = Append(@, Root)]
            /\ UNCHANGED <<todo, phase>>
  /\ UNCHANGED <<support, captured, condemned, hash, ignored, files, zenith,
                 ghosts, server>>

Popped(i) == [queue EXCEPT ![i] = Tail(@)]

\* The file is there already: the hash is popped, and the next one looked for.
Skip(i) ==
  /\ phase[i] = "next" /\ hash[i] \in files
  /\ queue' = Popped(i)
  /\ hash' = [hash EXCEPT ![i] = NoHash]
  /\ phase' = [phase EXCEPT ![i] = "again"]
  /\ UNCHANGED <<support, captured, condemned, todo, ignored, fetching, files,
                 zenith, ghosts, server>>

SkipAgain(i) ==
  /\ phase[i] = "again" /\ HasTop(i)
  /\ TopFound(i)

SkipDone(i) ==
  /\ phase[i] = "again" /\ ~HasTop(i)
  /\ phase' = [phase EXCEPT ![i] = "ready"]
  /\ UNCHANGED <<support, captured, condemned, work, fetching, files, zenith,
                 ghosts, server>>

\* get_file: a list is stored at once, and then its items are looked at.
GotList(i) ==
  /\ phase[i] = "next" /\ hash[i] \in Lists \ files
  /\ files' = files \union {hash[i]}
  /\ todo' = [todo EXCEPT ![i] = Items[hash[i]]]
  /\ phase' = [phase EXCEPT ![i] = "listing"]
  /\ UNCHANGED <<support, captured, condemned, queue, hash, ignored, fetching,
                 zenith, ghosts, server>>

\* A blob: a main session pops its hash now, a support session only when it
\* has processed the file.
GotBlob(i) ==
  /\ phase[i] = "next" /\ hash[i] \in Blobs \ files
  /\ queue' = IF i \in support THEN queue ELSE Popped(i)
  /\ phase' = [phase EXCEPT ![i] = "working"]
  /\ UNCHANGED <<support, captured, condemned, hash, todo, ignored, fetching,
                 files, zenith, ghosts, server>>

\* get_file fails: the peer does not answer, or another session has stored
\* the file since this one found it missing.  The session ends, and its deque
\* is as it was.
GetFails(i) ==
  /\ phase[i] = "next"
  /\ Ends(i)
  /\ UNCHANGED <<support, captured, condemned, queue, files, zenith, lost, server>>

\* add_peer_file_hash_for_get: a blob goes to the least busy supporter.
Receiver(i, h) ==
  IF h \in Blobs /\ Supporters # {} THEN Least(Supporters) ELSE i

\* process_list_items, one item: a stored list is gone through as well.
AddItem(i) ==
  /\ phase[i] \in {"listing", "resuming"} /\ i \notin condemned /\ ~shutdown
  /\ \E h \in todo[i] :
       /\ todo' = [todo EXCEPT ![i] = (@ \ {h}) \union
                     (IF h \in files \ ignored[i] THEN Items[h] ELSE {})]
       /\ IF h \in files \union ignored[i]
            THEN UNCHANGED <<queue, ignored>>
            ELSE /\ queue' = [queue EXCEPT ![Receiver(i, h)] = Append(@, h)]
                 /\ ignored' = [ignored EXCEPT ![i] = @ \union {h}]
  /\ UNCHANGED <<table, hash, fetching, files, zenith, ghosts, server>>

\* process_list_items throws in a session that is to end.
ListFails(i) ==
  /\ phase[i] \in {"listing", "resuming"} /\ todo[i] # {}
  /\ i \in condemned \/ shutdown
  /\ Ends(i)
  /\ UNCHANGED <<support, captured, condemned, queue, files, zenith, lost, server>>

ListDone(i) ==
  /\ phase[i] \in {"listing", "resuming"} /\ todo[i] = {}
  /\ queue' = IF phase[i] = "listing" THEN Popped(i) ELSE queue
  /\ hash' = [hash EXCEPT ![i] = NoHash]
  /\ phase' = [phase EXCEPT ![i] = "ready"]
  /\ UNCHANGED <<support, captured, condemned, todo, ignored, fetching, files,
                 zenith, ghosts, server>>

\* The end of scoped_pop_peer_get_hash.
PopAtEnd(i) == IF i \in support THEN Popped(i) ELSE queue

\* A blob has been processed and stored.
Process(i) ==
  /\ phase[i] = "working"
  /\ files' = files \union {hash[i]}
  /\ queue' = PopAtEnd(i)
  /\ hash' = [hash EXCEPT ![i] = NoHash]
  /\ phase' = [phase EXCEPT ![i] = "ready"]
  /\ UNCHANGED <<support, captured, condemned, todo, ignored, fetching, zenith,
                 ghosts, server>>

\* Processing throws: the session ends, and the hash is popped all the same.
ProcessFails(i) ==
  /\ phase[i] = "working"
  /\ lost' = lost \union {hash[i]}
  /\ queue' = PopAtEnd(i)
  /\ Ends(i)
  /\ UNCHANGED <<support, captured, condemned, files, zenith, server>>

\* The new zenith is set if has_all_list_items; the session throws if not.
SetZenith(i) ==
  /\ phase[i] = "zenith"
  /\ IF Reached(files) \subseteq files
       THEN /\ zenith' = TRUE
            /\ fetching' = fetching \ {i}
            /\ ignored' = [ignored EXCEPT ![i] = {}]
            /\ phase' = [phase EXCEPT ![i] = "ready"]
            /\ UNCHANGED <<hash, todo, alone>>
       ELSE Ends(i) /\ UNCHANGED zenith
  /\ UNCHANGED <<support, captured, condemned, queue, files, lost, server>>

-----------------------------------------------------------------------------
(* The end of sessions.                                                    *)

\* kill_session: a session that is not captured ends at a bye.
EndAtBye(i) ==
  /\ phase[i] = "ready"
  /\ condemned' = condemned \union {i}
  /\ Ends(i)
  /\ UNCHANGED <<support, captured, queue, files, zenith, lost, starting, shutdown>>

\* The peer says bye, or its socket is dead.
Bye(i) ==
  /\ events < MaxEvents
  /\ events' = events + 1
  /\ EndAtBye(i)

\* The main sessions have closed their sockets.  The peer's end of a main
\* session then ends as well and condemns the peer's support sessions, which
\* say bye: a support session that came too late to be condemned here.
PeerLeaves(i) ==
  /\ i \in support
  /\ \A m \in Mains : phase[m] \in {"waiting", "leaving"}
  /\ EndAtBye(i)
  /\ UNCHANGED events

\* A session that was condemned, or that sees the shutdown, says bye itself.
Leave(i) ==
  /\ i \in condemned \/ shutdown
  /\ EndAtBye(i)
  /\ UNCHANGED events

\* A late support session that finds no main session ends itself.
SelfCondemn(i) ==
  /\ phase[i] = "ready" /\ i \in support \ condemned
  /\ Mains \subseteq condemned
  /\ condemned' = condemned \union {i}
  /\ UNCHANGED <<phase, support, captured, work, fetching, files, zenith, ghosts,
                 server>>

\* A faulty end: the main session leaves its supporters alone.
CondemnsNobody(i) == condemned

\* condemn_matching_sessions: every other session of the peer.
CondemnsMatching(i) == condemned \union (Used \ {i})

\* terminate_peer_session of a main session: it captures itself and waits.
Terminate(i) ==
  /\ phase[i] = "ended" /\ i \notin support
  /\ condemned' = CondemnsMatching(i)
  /\ captured' = captured \union {i}
  /\ phase' = [phase EXCEPT ![i] = "waiting"]
  /\ UNCHANGED <<support, work, fetching, files, zenith, ghosts, server>>

\* No supporter is left, or the wait is cut short.
WaitOver(i) ==
  /\ phase[i] = "waiting"
  /\ Supporters = {} \/ shutdown \/ i \notin captured
  /\ phase' = [phase EXCEPT ![i] = "leaving"]
  /\ captured' = captured \ {i}
  /\ UNCHANGED <<support, condemned, work, fetching, files, zenith, ghosts, server>>

\* An operator's session_kill with force.
Kill(i) ==
  /\ phase[i] # "free"
  /\ events < MaxEvents
  /\ events' = events + 1
  /\ condemned' = condemned \union {i} /\ captured' = captured \ {i}
  /\ UNCHANGED <<phase, support, work, fetching, files, zenith, ghosts, starting,
                 shutdown>>

Shutdown ==
  /\ ~shutdown
  /\ events < MaxEvents
  /\ events' = events + 1
  /\ shutdown' = TRUE
  /\ UNCHANGED <<table, work, fetching, files, zenith, ghosts, starting>>

-----------------------------------------------------------------------------
\* What a session's own thread does without waiting for anybody but a peer
\* that answers or is timed out.
Step(i) ==
  \/ Top(i) \/ TopZenith(i) \/ NewBlock(i)
  \/ Skip(i) \/ SkipAgain(i) \/ SkipDone(i)
  \/ GotList(i) \/ GotBlob(i) \/ GetFails(i)
  \/ AddItem(i) \/ ListFails(i) \/ ListDone(i)
  \/ Process(i) \/ ProcessFails(i) \/ SetZenith(i)
  \/ SelfCondemn(i) \/ PeerLeaves(i) \/ Leave(i)
  \/ Terminate(i) \/ WaitOver(i) \/ Term(i)

Environment == \/ InitMain \/ Shutdown
               \/ \E i \in Slot : StartSupport(i) \/ Bye(i) \/ Kill(i)

\* Sessions with nothing to do go on waiting for the peer.
Quiescent ==
  /\ starting = 0
  /\ \A i \in Used : phase[i] = "ready" /\ queue[i] = <<>> /\ i \notin fetching
  /\ UNCHANGED vars

Next == Environment \/ InitSupport \/ (\E i \in Slot : Step(i)) \/ Quiescent

\* The least of schedulers: as long as some thread can go on, one does.
Fairness == WF_vars(InitSupport \/ \E i \in Slot : Step(i))

Spec == Init /\ [][Next]_vars /\ Fairness

-----------------------------------------------------------------------------
(* Properties.                                                             *)

\* Every variable has values of its kind, and only sessions are marked: a slot
\* that is used again starts afresh.
TypeOK ==
  /\ phase \in [Slot -> Phases]
  /\ support \subseteq Used /\ captured \subseteq Used /\ condemned \subseteq Used
  /\ queue \in [Slot -> Seq(Hash)]
  /\ hash \in [Slot -> Hash \union {NoHash}]
  /\ todo \in [Slot -> SUBSET Hash] /\ ignored \in [Slot -> SUBSET Hash]
  /\ files \subseteq Hash /\ lost \subseteq Hash 
  /\ fetching \subseteq Mains /\ alone \subseteq Mains
  /\ zenith \in BOOLEAN /\ shutdown \in BOOLEAN
  /\ starting \in Nat /\ events \in Nat

\* While a session works on a hash that it has still to pop, the hash is at
\* the front of its deque, whatever others take and append: the pop removes
\* the file that was worked on and no other.
HeldAtFront ==
  \A i \in Slot :
    (\/ phase[i] \in {"next", "listing"}
     \/ phase[i] = "working" /\ i \in support) =>
       queue[i] # <<>> /\ queue[i][1] = hash[i]

InQueues == UNION {{queue[i][n] : n \in DOMAIN queue[i]} : i \in Slot}
InWork   == {hash[i] : i \in {j \in Slot : phase[j] = "working"}}

\* While a main session that never had another beside it fetches a block,
\* every file named by the lists that it has gone through is stored, or waits in a
\* deque, or is being processed, or is still to be looked at by that session;
\* only a file whose processing threw is missing.  Hashes pass between the
\* deques, and sessions end at any time, without one being forgotten.
NoneForgotten ==
  \A m \in fetching \intersect alone :
    Reached(files \ todo[m])
      \subseteq files \union InQueues \union InWork \union todo[m] \union lost

\* When such a session is about to make the block the zenith, no file of the
\* tree is missing, except those whose processing threw: that support
\* sessions pop a hash only when its file is processed keeps the main session
\* from coming here too early.
ZenithFindsAll ==
  \A m \in Mains \intersect alone :
    phase[m] = "zenith" => Reached(files) \subseteq files \union lost

\* Once no session is started, killed or told bye any more, every session that
\* was condemned has ended, every main session that waited for its supporters
\* has ended, those that started late included, and every block in process has
\* become the zenith or its session has ended: none waits for ever for hashes
\* that nobody works on.
Settles == <>[](condemned = {} /\ captured = {} /\ fetching = {})
=============================================================================
