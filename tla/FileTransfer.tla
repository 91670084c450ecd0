---------------------------- MODULE FileTransfer ----------------------------
(***************************************************************************)
(* How a client puts files into the server's files area: file_transfer of  *)
(* sockets.cpp with the client as sender and the session of the server as  *)
(* receiver, the datagrams with which the client sends a file ahead, and   *)
(* the thread of the server that collects them.                            *)
(*                                                                         *)
(* The two ends talk over a TCP connection, two reliable queues of lines.  *)
(* Datagrams are lost, repeated, delayed and reordered: a datagram once    *)
(* sent stays in dgrams and may be delivered any number of times, also     *)
(* when a later file is being put.                                         *)
(*                                                                         *)
(* Each end waits only so long.  A client that gives up waiting for a      *)
(* reply of a transfer goes back to its prompt and uses the connection     *)
(* for the next put, whatever the session is doing and still going to say; *)
(* a session that gives up answers with an error and takes what then comes *)
(* for a command.  Nothing brings the two back into step.                  *)
(*                                                                         *)
(* What travels is the prefix character and then the content of a file;    *)
(* byte i of it is <<f, i>>, so that a byte in the receiver's buffer tells *)
(* where it came from.  Base64 and padding are left out: a line of data    *)
(* carries up to MaxUnencoded bytes.                                       *)
(***************************************************************************)
EXTENDS Integers, Sequences, FiniteSets

CONSTANTS
  Files,         \* the files that the client has (their hashes)
  NoFile,        \* no file
  Before,        \* bound: files that may be in the files area to begin with
  TotalSize,     \* TotalSize[f] is the size of f with its prefix character
  MaxSize,       \* get_files_area_item_max_size
  BufferSize,    \* size of the session's file buffer
  MaxUnencoded,  \* bytes of content that fit in a line
  PacketBytes,   \* c_udp_file_bytes_per_packet
  MinForUdp,     \* smallest file that is sent ahead
  MaxAppended,   \* largest file that travels in the header line
  MaxChunks,     \* chunk numbers have three digits: 1000
  MaxRetries,    \* how often recv_data waits for a chunk: 5
  FewSkips, ManySkips,  \* puts without datagrams after bad results: 10, 100
  LocalHost,     \* the server is the local host: all is sent twice
  Streaming,     \* the server has UDP streams
  MaxPuts        \* bound: puts in a behaviour

ASSUME TransferAssumption ==
  /\ NoFile \notin Files
  /\ Before \subseteq Files
  /\ TotalSize \in [Files -> Nat \ {0}]
  /\ MaxSize \in Nat /\ BufferSize \in Nat
  /\ \A f \in Files : TotalSize[f] <= BufferSize
  /\ MaxSize <= BufferSize
  /\ MaxUnencoded \in Nat \ {0} /\ PacketBytes \in Nat \ {0}
  /\ MinForUdp \in Nat /\ MaxAppended \in Nat /\ MaxChunks \in Nat
  /\ MaxRetries \in Nat \ {0}
  /\ FewSkips \in Nat /\ ManySkips \in Nat
  /\ LocalHost \in BOOLEAN /\ Streaming \in BOOLEAN
  /\ MaxPuts \in Nat

VARIABLES
  client,    \* the client's side of the put in progress, the sender
  server,    \* the session's side of it, the receiver
  toServer,  \* lines on their way to the server
  toClient,  \* lines on their way to the client
  buffer,    \* the receiver's buffer
  chunks,    \* udp_recv_file_chunks of the session
  dgrams,    \* datagrams sent so far
  cancels,   \* files for which the server has sent a cancel datagram
  stored,    \* files of the files area
  puts,      \* puts begun so far, to bound them
  intime     \* history, for the properties: no end has waited in vain for
             \* the other and gone on with the connection

vars == <<client, server, toServer, toClient, buffer, chunks, dgrams,
          cancels, stored, puts, intime>>

NoByte == <<>>
NoOffset == -1

LesserOf(m, n) == IF m <= n THEN m ELSE n

\* The bytes from .. to-1 of f.
Piece(f, from, to) == [file |-> f, from |-> from, to |-> to]

\* Writing a piece into the buffer at a position.
Written(buf, at, piece) ==
  [i \in DOMAIN buf |->
     IF at <= i /\ i < at + piece.to - piece.from
       THEN <<piece.file, piece.from + i - at>> ELSE buf[i]]

\* A faulty count: a loop up to and including the last number.
OnePacketMore(f) == TotalSize[f] \div PacketBytes + 2

\* How many datagrams carry a file.
Packets(f) == (TotalSize[f] + PacketBytes - 1) \div PacketBytes

Packet(f, n) ==
  Piece(f, n * PacketBytes, LesserOf((n + 1) * PacketBytes, TotalSize[f]))

Init ==
  /\ client = [phase |-> "prompt", file |-> NoFile, pos |-> 0, num |-> 0,
               again |-> FALSE, helper |-> FALSE, helped |-> NoOffset,
               usocket |-> TRUE, skips |-> 0, result |-> "none"]
  /\ server = [phase |-> "prompt", file |-> NoFile, total |-> 0,
               written |-> 0, chunk |-> 0, retries |-> 0, alive |-> TRUE]
  /\ toServer = <<>> /\ toClient = <<>>
  /\ buffer = [i \in 0..(BufferSize - 1) |-> NoByte]
  /\ chunks = <<>>
  /\ dgrams = {} /\ cancels = {}
  /\ stored \in SUBSET Before
  /\ puts = 0
  /\ intime = TRUE

-----------------------------------------------------------------------------
(* The client.                                                             *)

\* The user puts a file: the command, then perhaps datagrams, then the
\* transfer.
Put(f) ==
  /\ client.phase = "prompt" /\ puts < MaxPuts
  /\ puts' = puts + 1
  /\ LET withHelper == client.usocket /\ client.skips = 0
         ahead      == withHelper /\ TotalSize[f] > MinForUdp
     IN client' =
          [phase |-> IF ahead THEN "ahead" ELSE "header",
           file |-> f, pos |-> 0, num |-> 0, again |-> LocalHost,
           helper |-> withHelper, helped |-> NoOffset, usocket |-> client.usocket,
           skips |-> IF client.usocket /\ client.skips > 0 THEN client.skips - 1
                                                         ELSE client.skips,
           result |-> "none"]
  /\ toServer' = Append(toServer, [type |-> "put", file |-> f])
  /\ UNCHANGED <<server, toClient, buffer, chunks, dgrams, cancels, stored,
                 intime>>

\* The next datagram; after the last one all are sent again to a local
\* host.  The client looks for a cancel message now and then.
SendPacket ==
  /\ client.phase = "ahead"
  /\ LET f == client.file
         last == client.num + 1 = Packets(f)
     IN
     /\ dgrams' = dgrams \cup {[num |-> client.num, data |-> Packet(f, client.num)]}
     /\ \/ client' = [client EXCEPT
             !.num = IF last THEN 0 ELSE @ + 1,
             !.again = @ /\ ~last,
             !.phase = IF last /\ ~client.again THEN "header" ELSE @]
        \/ /\ f \in cancels
           /\ client' = [client EXCEPT !.phase = "header"]
  /\ UNCHANGED <<server, toServer, toClient, buffer, chunks, cancels, stored,
                 puts, intime>>

\* A datagram cannot be sent: the rest of this round is not sent.
SendPacketFails ==
  /\ client.phase = "ahead"
  /\ client' = [client EXCEPT !.phase = "header"]
  /\ UNCHANGED <<server, toServer, toClient, buffer, chunks, dgrams, cancels,
                 stored, puts, intime>>

\* What is left of the put when its transfer has ended without an error: the
\* socket for datagrams is closed if the server makes no use of it, and the
\* next puts do without when few of them arrived.
Transferred(c) ==
  [c EXCEPT !.phase = "response",
            !.usocket = @ /\ (c.helper => c.helped # NoOffset),
            !.skips = CASE ~c.helper \/ c.helped = NoOffset -> @
                        [] c.helped * 10 < TotalSize[c.file] -> ManySkips
                        [] c.helped * 2 < TotalSize[c.file] -> FewSkips
                        [] OTHER -> @]

\* An acknowledgement, with what has been received by datagrams if asked.
More(offset) == [type |-> "more", offset |-> offset]

\* The header line, with the content of a small file.  The reply to it is
\* awaited unless the content was in it.
SendHeader ==
  /\ client.phase = "header"
  /\ LET f == client.file
         appended == TotalSize[f] <= MaxAppended
     IN
     /\ toServer' = Append(toServer,
          [type |-> IF appended THEN "whole" ELSE "header",
           total |-> TotalSize[f],
           udp |-> client.helper,
           data |-> Piece(f, 0, TotalSize[f])])
     /\ client' = IF appended THEN Transferred(client)
                              ELSE [client EXCEPT !.phase = "first"]
  /\ UNCHANGED <<server, toClient, buffer, chunks, dgrams, cancels, stored,
                 puts, intime>>

\* A reply that was not expected ends the put with an error.
PutFails == client' = [client EXCEPT !.phase = "prompt", !.result = "failed"]

\* The reply to the header: skip, or the position to send from.
FirstReply ==
  /\ client.phase = "first" /\ toClient # <<>>
  /\ LET reply == Head(toClient) IN
       \/ /\ reply.type = "skip"
          /\ client' = Transferred(client)
       \/ /\ reply.type = "more"
          /\ LET c == [client EXCEPT !.helped = IF client.helper THEN reply.offset ELSE @,
                                     !.pos = IF reply.offset = NoOffset THEN 0
                                                                       ELSE reply.offset]
             IN client' = IF reply.offset = TotalSize[client.file] THEN Transferred(c)
                            ELSE [c EXCEPT !.phase = "send"]
       \/ /\ reply.type \notin {"skip", "more"}
          /\ PutFails
  /\ toClient' = Tail(toClient)
  /\ UNCHANGED <<server, toServer, buffer, chunks, dgrams, cancels, stored,
                 puts, intime>>

\* Reads up to a line of the file and sends it.  The end of the file is seen
\* only when less than a line can be read, nothing at all being no line; so is
\* a position behind the end, which an offset said of another file may give.
SendLine ==
  /\ client.phase = "send"
  /\ LET f    == client.file
         to   == LesserOf(client.pos + MaxUnencoded, TotalSize[f])
         eof  == client.pos + MaxUnencoded > TotalSize[f]
     IN
     /\ toServer' = IF to <= client.pos THEN toServer
                    ELSE Append(toServer, [type |-> "data", data |-> Piece(f, client.pos, to)])
     /\ client' = IF eof THEN Transferred([client EXCEPT !.pos = to])
                         ELSE [client EXCEPT !.pos = to, !.phase = "ack"]
  /\ UNCHANGED <<server, toClient, buffer, chunks, dgrams, cancels, stored,
                 puts, intime>>

\* The reply to a line of data, an acknowledgement without an offset.
LineReply ==
  /\ client.phase = "ack" /\ toClient # <<>>
  /\ IF Head(toClient) = More(NoOffset)
       THEN client' = [client EXCEPT !.phase = "send"]
       ELSE PutFails
  /\ toClient' = Tail(toClient)
  /\ UNCHANGED <<server, toServer, buffer, chunks, dgrams, cancels, stored,
                 puts, intime>>

\* A faulty client that takes any response for a success.
AnyResponse(reply) == "okay"

\* How the response ends the put: all but an error is taken for success.
Outcome(reply) == IF reply.type = "error" THEN "failed" ELSE "okay"

\* A line that is only shown or skipped, the response being still to come.
InPassing(reply) == reply.type = "noise" \/ reply = More(NoOffset)

\* The response to the command.
Response ==
  /\ client.phase = "response" /\ toClient # <<>>
  /\ LET reply == Head(toClient) IN
       client' = IF InPassing(reply) THEN client
                 ELSE [client EXCEPT !.phase = "prompt", !.result = Outcome(reply)]
  /\ toClient' = Tail(toClient)
  /\ UNCHANGED <<server, toServer, buffer, chunks, dgrams, cancels, stored,
                 puts, intime>>

\* No reply of the transfer comes in time, or the connection is closed: the
\* put ends with an error, and the client is at its prompt with the connection
\* as it is, perhaps with a session that is still at work on the put.
ReplyLost ==
  /\ client.phase \in {"first", "ack"} /\ toClient = <<>>
  /\ client' = [client EXCEPT !.phase = "prompt", !.result = "lost"]
  /\ intime' = FALSE
  /\ UNCHANGED <<server, toServer, toClient, buffer, chunks, dgrams, cancels,
                 stored, puts>>

\* No response to the command comes in time, or the connection is closed: the
\* exception ends the client.
ResponseLost ==
  /\ client.phase = "response" /\ toClient = <<>>
  /\ client' = [client EXCEPT !.phase = "gone", !.result = "lost"]
  /\ UNCHANGED <<server, toServer, toClient, buffer, chunks, dgrams, cancels,
                 stored, puts, intime>>

\* The client ends, at any step.
ClientDies ==
  /\ client.phase # "gone"
  /\ client' = [client EXCEPT !.phase = "gone",
                              !.result = IF client.phase = "prompt" THEN @ ELSE "lost"]
  /\ UNCHANGED <<server, toServer, toClient, buffer, chunks, dgrams, cancels,
                 stored, puts, intime>>

-----------------------------------------------------------------------------
(* The stream thread of the server.                                        *)

\* A datagram arrives, perhaps again or late.  For a file that exists the
\* thread tells the client to stop; otherwise the chunk is kept, unless there
\* is one of that number already.
Deliver(d) ==
  /\ Streaming /\ server.alive /\ d.num < MaxChunks
  /\ IF d.data.file \in stored
       THEN /\ cancels' = cancels \cup {d.data.file}
            /\ UNCHANGED chunks
       ELSE /\ chunks' = [n \in DOMAIN chunks \cup {d.num} |->
                            IF n \in DOMAIN chunks THEN chunks[n] ELSE d.data]
            /\ UNCHANGED cancels
  /\ UNCHANGED <<client, server, toServer, toClient, buffer, dgrams, stored,
                 puts, intime>>

-----------------------------------------------------------------------------
(* The session of the server.                                              *)

\* A put command: whether the file exists is looked up once.
ReadCommand ==
  /\ server.alive /\ server.phase = "prompt"
  /\ toServer # <<>> /\ Head(toServer).type = "put"
  /\ LET f == Head(toServer).file IN
       server' = [phase |-> IF f \in stored THEN "existing" ELSE "header",
                  file |-> f, total |-> 0, written |-> 0,
                  chunk |-> 0, retries |-> 0, alive |-> TRUE]
  /\ toServer' = Tail(toServer)
  /\ UNCHANGED <<client, toClient, buffer, chunks, dgrams, cancels, stored,
                 puts, intime>>

\* What ends without an end of line: a line of data has a fixed length, and
\* what is left of one when a part of it has been read with other lines.
Unended(l) == l.type \in {"data", "rest"}

\* Anything but a put is an unknown command.  Bytes without an end of line are
\* taken together with the line behind them, be it a put, or by themselves
\* when none comes in time.
ReadGarbage ==
  /\ server.alive /\ server.phase = "prompt"
  /\ \E k \in 1..Len(toServer) :
       /\ \A i \in 1..(k - 1) : Unended(toServer[i])
       /\ Unended(toServer[k]) => k = Len(toServer)
       /\ ~(k = 1 /\ toServer[1].type = "put")
       /\ toServer' = SubSeq(toServer, k + 1, Len(toServer))
  /\ toClient' = Append(toClient, [type |-> "error"])
  /\ UNCHANGED <<client, server, buffer, chunks, dgrams, cancels, stored, puts, intime>>

\* A faulty reply also to content that has come with the header.
SkipAlways(header) == <<[type |-> "skip"]>>

\* Content that came with the header line is not asked for.
SkipReply(header) == IF header.type = "whole" THEN <<>> ELSE <<[type |-> "skip"]>>

\* The header line for a file that exists: the transfer is skipped.
SkipTransfer ==
  /\ server.alive /\ server.phase = "existing" /\ toServer # <<>>
  /\ toServer' = Tail(toServer)
  /\ toClient' = toClient \o SkipReply(Head(toServer))
  /\ server' = [server EXCEPT !.phase = "clear"]
  /\ UNCHANGED <<client, buffer, chunks, dgrams, cancels, stored, puts, intime>>

\* The header line for a new file: with the content, with datagrams to look
\* for, or to be acknowledged at once.
ReadHeader ==
  /\ server.alive /\ server.phase = "header" /\ toServer # <<>>
  /\ LET h == Head(toServer)
         useUdp == h.udp /\ Streaming
     IN
     /\ toServer' = Tail(toServer)
     /\ \/ /\ h.type = "whole"
           /\ buffer' = Written(buffer, 0, h.data)
           /\ server' = [server EXCEPT !.total = h.total, !.written = h.total,
                !.phase = IF h.total > MaxSize THEN "refuse" ELSE "store"]
           /\ UNCHANGED toClient
        \/ /\ h.type = "header" /\ useUdp
           /\ server' = [server EXCEPT !.total = h.total, !.phase = "chunks"]
           /\ UNCHANGED <<buffer, toClient>>
        \/ /\ h.type = "header" /\ ~useUdp
           /\ server' = [server EXCEPT !.total = h.total, !.phase = "data"]
           /\ toClient' = Append(toClient, More(NoOffset))
           /\ UNCHANGED buffer
  /\ UNCHANGED <<client, chunks, dgrams, cancels, stored, puts, intime>>

\* The end of recv_data: the client is told where to go on.
StartFrom(offset) ==
  /\ toClient' = Append(toClient, More(offset))
  /\ server' = [server EXCEPT !.phase = IF offset = server.total THEN "store" ELSE "data"]

\* A faulty check that looks at the length of a chunk only.
AnyThatFits(d) == d.to - d.from <= BufferSize - server.written

\* A chunk of the file being put, with room for it.
Wanted(d) == d.file = server.file /\ d.to - d.from <= BufferSize - server.written

\* The first chunk of the map, if it is the one that is wanted, leaves it.  A
\* chunk of another file, or one too long, ends the search.
TakeChunk ==
  /\ server.alive /\ server.phase = "chunks"
  /\ server.chunk \in DOMAIN chunks
  /\ \A n \in DOMAIN chunks : server.chunk <= n
  /\ LET d == chunks[server.chunk]
         len == d.to - d.from
     IN
     /\ chunks' = [n \in DOMAIN chunks \ {server.chunk} |-> chunks[n]]
     /\ IF Wanted(d)
          THEN /\ buffer' = Written(buffer, server.written, d)
               /\ server' = [server EXCEPT !.chunk = @ + 1, !.written = @ + len]
               /\ UNCHANGED toClient
          ELSE StartFrom(server.written) /\ UNCHANGED buffer
  /\ UNCHANGED <<client, toServer, dgrams, cancels, stored, puts, intime>>

\* A faulty wait, not counted.
WaitedUncounted(s) == s

\* A wait for a chunk, counted.
WaitedFor(s) == [s EXCEPT !.retries = @ + 1]

\* The wanted chunk is not the first: wait and try again, so many times for
\* the whole file.  Without any chunk when it begins, recv_data gives up.
AwaitChunk ==
  /\ server.alive /\ server.phase = "chunks"
  /\ ~(/\ server.chunk \in DOMAIN chunks
       /\ \A n \in DOMAIN chunks : server.chunk <= n)
  /\ \/ /\ server.retries + 1 < MaxRetries
        /\ server' = WaitedFor(server)
        /\ UNCHANGED toClient
     \/ /\ \/ server.retries + 1 = MaxRetries
           \/ server.chunk = 0 /\ server.retries = 0 /\ chunks = <<>>
        /\ StartFrom(server.written)
  /\ UNCHANGED <<client, toServer, buffer, chunks, dgrams, cancels, stored,
                 puts, intime>>

\* All of the file is there.
AllReceived(n) == n >= server.total

\* A line of data: the transfer has ended when all has been received, and the
\* last line is not acknowledged.
ReceiveLine ==
  /\ server.alive /\ server.phase = "data"
  /\ toServer # <<>> /\ Head(toServer).type = "data"
  /\ LET d == Head(toServer).data
         len == d.to - d.from
     IN
     /\ toServer' = Tail(toServer)
     /\ \/ /\ server.written + len > MaxSize
           /\ server' = [server EXCEPT !.phase = "refuse"]
           /\ UNCHANGED <<buffer, toClient>>
        \/ /\ server.written + len <= MaxSize
           /\ buffer' = Written(buffer, server.written, d)
           /\ server' = [server EXCEPT !.written = @ + len,
                !.phase = IF AllReceived(server.written + len) THEN "store" ELSE @]
           /\ toClient' = IF AllReceived(server.written + len) THEN toClient
                          ELSE Append(toClient, More(NoOffset))
  /\ UNCHANGED <<client, chunks, dgrams, cancels, stored, puts, intime>>

\* Lines of a later put where a line of data is due.  With too few bytes for a
\* line the wait ends in a timeout; with part of the line of data behind them
\* they are not base64, and the error shows them, line ends included.
ReceiveMixed ==
  /\ server.alive /\ server.phase = "data"
  /\ \E k \in 1..Len(toServer) :
       LET after == SubSeq(toServer, k + 1, Len(toServer)) IN
       /\ toServer[1].type # "data"
       /\ \A i \in 1..(k - 1) : toServer[i].type # "data"
       /\ \/ /\ toServer[k].type = "data"
             /\ toServer' = <<[type |-> "rest"]>> \o after
             /\ toClient' = toClient \o <<[type |-> "error"], [type |-> "noise"]>>
             /\ server' = [server EXCEPT !.phase = "prompt"]
          \/ /\ toServer[k].type # "data" /\ k = Len(toServer)
             /\ toServer' = after
             /\ server' = [server EXCEPT !.phase = "refuse"]
             /\ UNCHANGED toClient
  /\ UNCHANGED <<client, buffer, chunks, dgrams, cancels, stored, puts, intime>>

\* The hash of the content is that of the file when all its bytes are there.
ContentIs(f) ==
  /\ server.total = TotalSize[f]
  /\ \A i \in 0..(server.total - 1) : buffer[i] = <<f, i>>

\* store_file checks the hash and writes the file.
Store ==
  /\ server.alive /\ server.phase = "store"
  /\ IF ContentIs(server.file)
       THEN /\ stored' = stored \cup {server.file}
            /\ server' = [server EXCEPT !.phase = "clear"]
       ELSE /\ server' = [server EXCEPT !.phase = "refuse"]
            /\ UNCHANGED stored
  /\ UNCHANGED <<client, toServer, toClient, buffer, chunks, dgrams, cancels,
                 puts, intime>>

\* After a put that succeeded the chunks left are dropped.
ClearChunks ==
  /\ server.alive /\ server.phase = "clear"
  /\ chunks' = IF Streaming THEN <<>> ELSE chunks
  /\ server' = [server EXCEPT !.phase = "prompt"]
  /\ toClient' = Append(toClient, [type |-> "okay"])
  /\ UNCHANGED <<client, toServer, buffer, dgrams, cancels, stored, puts, intime>>

\* An exception ends the command with an error; the chunks left stay.
Refuse ==
  /\ server.alive /\ server.phase = "refuse"
  /\ server' = [server EXCEPT !.phase = "prompt"]
  /\ toClient' = Append(toClient, [type |-> "error"])
  /\ UNCHANGED <<client, toServer, buffer, chunks, dgrams, cancels, stored,
                 puts, intime>>

\* No line of the transfer comes in time, be the client slow, back at its
\* prompt or gone: an exception as any other.
LineLost ==
  /\ server.alive /\ server.phase \in {"existing", "header", "data"}
  /\ toServer = <<>>
  /\ server' = [server EXCEPT !.phase = "refuse"]
  /\ intime' = (intime /\ client.phase = "gone")
  /\ UNCHANGED <<client, toServer, toClient, buffer, chunks, dgrams, cancels,
                 stored, puts>>

\* The server ends, at any step.
ServerDies ==
  /\ server.alive
  /\ server' = [server EXCEPT !.alive = FALSE]
  /\ UNCHANGED <<client, toServer, toClient, buffer, chunks, dgrams, cancels,
                 stored, puts, intime>>

-----------------------------------------------------------------------------

ClientStep ==
  \/ SendPacket \/ SendPacketFails \/ SendHeader \/ FirstReply \/ SendLine
  \/ LineReply \/ Response \/ ReplyLost \/ ResponseLost

ServerStep ==
  \/ ReadCommand \/ ReadGarbage \/ SkipTransfer \/ ReadHeader \/ TakeChunk
  \/ AwaitChunk \/ ReceiveLine \/ ReceiveMixed \/ Store \/ ClearChunks
  \/ Refuse \/ LineLost

\* No put in progress and none to come.
Quiescent ==
  /\ client.phase = "gone" \/ (client.phase = "prompt" /\ puts = MaxPuts)
  /\ UNCHANGED vars

Next ==
  \/ \E f \in Files : Put(f)
  \/ ClientStep
  \/ \E d \in dgrams : Deliver(d)
  \/ ServerStep
  \/ ClientDies \/ ServerDies
  \/ Quiescent

\* Each end goes on as long as it can: its reads return when there is
\* something to read, and its waits are bounded.
Fairness == WF_vars(ClientStep) /\ WF_vars(ServerStep)

Spec == Init /\ [][Next]_vars /\ Fairness

-----------------------------------------------------------------------------
(* Properties.                                                             *)

Busy == client.phase \notin {"prompt", "gone"}

\* Types of the state.
Piece_ == {p \in [file : Files, from : 0..BufferSize, to : 0..BufferSize] : p.from < p.to}

ClientType ==
  [phase : {"prompt", "ahead", "header", "first", "send", "ack", "response", "gone"},
   file : Files \cup {NoFile}, pos : 0..BufferSize, num : Nat, again : BOOLEAN,
   helper : BOOLEAN, helped : {NoOffset} \cup 0..BufferSize,
   usocket : BOOLEAN, skips : Nat, result : {"none", "okay", "failed", "lost"}]

ServerType ==
  [phase : {"prompt", "existing", "header", "chunks", "data", "store", "clear", "refuse"},
   file : Files \cup {NoFile}, total : 0..BufferSize, written : 0..BufferSize,
   chunk : Nat, retries : 0..MaxRetries, alive : BOOLEAN]

ToServerType ==
  UNION {[type : {"put"}, file : Files],
         [type : {"whole", "header"}, total : 0..BufferSize, udp : BOOLEAN, data : Piece_],
         [type : {"data"}, data : Piece_],
         [type : {"rest"}]}

ToClientType ==
  UNION {[type : {"more"}, offset : {NoOffset} \cup 0..BufferSize],
         [type : {"skip", "okay", "error", "noise"}]}

TypeOK ==
  /\ client \in ClientType
  /\ server \in ServerType
  /\ toServer \in Seq(ToServerType) /\ toClient \in Seq(ToClientType)
  /\ \A n \in DOMAIN chunks : n \in 0..MaxChunks /\ chunks[n] \in Piece_
  /\ buffer \in [0..(BufferSize - 1) -> {NoByte} \cup (Files \X (0..BufferSize))]
  /\ \A d \in dgrams : d.num \in Nat /\ d.data \in Piece_
  /\ cancels \subseteq Files /\ stored \subseteq Files
  /\ puts \in 0..MaxPuts
  /\ intime \in BOOLEAN

\* As long as no end has given up on the other, what the receiver has put into
\* its buffer, from late and repeated datagrams of this and earlier files and
\* from the lines that follow, is the beginning of the file being put and
\* nothing else.  After a timeout a stale reply can make the client begin at
\* the offset of another file.
ReceivedIsFile ==
  intime /\ server.phase \in {"chunks", "data", "store"} =>
    \A i \in 0..(server.written - 1) : buffer[i] = <<server.file, i>>

\* Only a timeout puts the two ends out of step: as long as no end has given up
\* on the other, a put that has ended for the client has left nothing under
\* way, no line that would be taken for the reply to a later command, and a
\* session that waits for a command.
InStep ==
  intime /\ client.phase = "prompt" =>
    /\ toServer = <<>> /\ toClient = <<>>
    /\ server.phase = "prompt"

\* A put that fails, with ends in step, has not stored its file.
ReportsStored ==
  intime /\ client.result = "failed" => client.file \notin stored

\* Every put ends for the client, whatever datagrams do, when the server ends
\* and how far the two are out of step, and the session comes back to its
\* prompt, also when the client ends or takes up something else.
PutEnds ==
  /\ Busy ~> ~Busy
  /\ (server.phase # "prompt") ~> (server.phase = "prompt" \/ ~server.alive)

\* The client stops using datagrams only with a server that does not use them
\* (ciyam_client.cpp:1433).
ClosedOnlyIfUnused == Streaming => client.usocket

\* The files that the session may still store.
Pending ==
  {toServer[i].file : i \in {j \in DOMAIN toServer : toServer[j].type = "put"}}
    \cup IF server.phase \in {"header", "chunks", "data", "store"}
           THEN {server.file} ELSE {}

Abstract == INSTANCE FilePut WITH
  put <- [file |-> client.file,
          state |-> IF Busy THEN "going" ELSE client.result],
  pending <- Pending,
  sure <- intime

\* With all its datagrams, offsets, replies and timeouts a put is what FilePut
\* says: nothing is stored that has not been put, the file whole or not at all;
\* and as long as no end has given up on the other, okay is only said of a
\* stored file and a failure only of one that is not, with nothing of the put
\* left to do.
ImplementsFilePut == Abstract!Spec

=============================================================================
