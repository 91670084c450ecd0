-------------------------- MODULE FileTransferProofs --------------------------
(***************************************************************************)
(* As long as no end gives up on the other, what the receiver of           *)
(* FileTransfer has in its buffer is the beginning of the file, and the    *)
(* two ends stay in step; with and without that a put is what FilePut      *)
(* says.  All for any files, sizes and bounds.                             *)
(***************************************************************************)
EXTENDS FileTransfer, TLAPS, SequenceTheorems

-----------------------------------------------------------------------------
(* The invariant.                                                          *)

\* What travels over the connection.
PutLine(f)       == [type |-> "put", file |-> f]
IsHeader(l, f)   == /\ l.type \in {"whole", "header"} /\ l.udp \in BOOLEAN
                    /\ l.total = TotalSize[f] /\ l.data = Piece(f, 0, TotalSize[f])
IsData(l, f, at) == /\ l.type = "data"
                    /\ l.data.file = f /\ l.data.from = at
                    /\ l.data.to \in Nat /\ at < l.data.to /\ l.data.to <= TotalSize[f]

Offset(n) == n * PacketBytes

IsPacket(d, n) ==
  /\ d.file \in Files /\ n \in Nat
  /\ d = Packet(d.file, n)
  /\ Offset(n) < TotalSize[d.file]

\* Datagrams and chunks have what their number says.
PacketInv ==
  /\ \A d \in dgrams : IsPacket(d.data, d.num)
  /\ \A n \in DOMAIN chunks : n \in 0..MaxChunks /\ IsPacket(chunks[n], n)
  /\ client.phase = "ahead" => client.num < Packets(client.file)

\* There is a file where one is being put.
NamedInv ==
  /\ Busy => client.file \in Files
  /\ server.phase # "prompt" => server.file \in Files

\* What holds also when the two ends are out of step.
Typed == TypeOK /\ PacketInv /\ NamedInv

\* How far the receiver is with the file.
ReceiverInv ==
  /\ server.phase # "prompt" => server.file \in Files /\ server.file = client.file
  /\ server.phase \in {"existing", "header"} => server.written = 0 /\ server.chunk = 0
  /\ server.phase \in {"chunks", "data", "store"} =>
       /\ server.total = TotalSize[server.file]
       /\ server.written <= server.total
  /\ server.phase = "chunks" =>
       server.written = LesserOf(Offset(server.chunk), server.total)
  /\ server.phase = "data"  => server.written < server.total
  /\ server.phase = "store" => server.written = server.total

\* The lines that the server has still to read are those it expects.
LinesInv ==
  \/ toServer = <<>>
  \/ server.phase = "prompt" /\ client.file \in Files /\
       \/ toServer = <<PutLine(client.file)>>
       \/ \E l : IsHeader(l, client.file) /\ toServer = <<PutLine(client.file), l>>
  \/ server.phase \in {"existing", "header"} /\
       \E l : IsHeader(l, server.file) /\ toServer = <<l>>
  \/ server.phase = "data" /\
       \E l : IsData(l, server.file, server.written) /\ toServer = <<l>>

Okay  == [type |-> "okay"]
Error == [type |-> "error"]
Skip  == [type |-> "skip"]

\* The server works on what it has been sent, and has not answered.
Working == toServer = <<>> /\ toClient = <<>> /\ server.phase \in {"store", "clear", "refuse"}

\* The server has come to the end of the command and said so.
Answered == /\ toServer = <<>> /\ server.phase = "prompt"
            /\ toClient = <<Okay>> \/ toClient = <<Error>>

\* The server has the last line of the command still to read, of this type.
Underway(type) ==
  /\ toClient = <<>>
  /\ \/ server.phase = "prompt" /\ Len(toServer) = 2 /\ toServer[2].type = type
     \/ server.phase \in {"existing", "header"} /\ Len(toServer) = 1 /\ toServer[1].type = type

\* An offset that tells the client how far the server is.
SaysWritten(offset) ==
  offset = server.written \/ (offset = NoOffset /\ server.written = 0)

\* The first reply is there.
FirstReplied ==
  \/ toServer = <<>> /\ toClient = <<Skip>> /\ server.phase = "clear"
  \/ toServer = <<>> /\ toClient = <<Skip, Okay>> /\ server.phase = "prompt"
  \/ /\ toServer = <<>> /\ server.phase = "data"
     /\ \E offset : toClient = <<More(offset)>> /\ SaysWritten(offset)
  \/ /\ toServer = <<>> /\ server.phase \in {"store", "clear", "refuse"}
     /\ toClient = <<More(TotalSize[client.file])>>
  \/ /\ toServer = <<>> /\ server.phase = "prompt"
     /\ \/ toClient = <<More(TotalSize[client.file]), Okay>>
        \/ toClient = <<More(TotalSize[client.file]), Error>>

\* Where the server can be when the client is at each of its phases.
ClientInv ==
  /\ client.phase # "prompt" => client.phase = "gone" \/ client.file \in Files
  /\ client.phase = "prompt" => toServer = <<>> /\ toClient = <<>> /\ server.phase = "prompt"
  /\ client.phase \in {"ahead", "header"} =>
       /\ toClient = <<>>
       /\ \/ server.phase = "prompt" /\ toServer = <<PutLine(client.file)>>
          \/ server.phase \in {"existing", "header"} /\ toServer = <<>>
  /\ client.phase = "first" =>
       \/ Underway("header")
       \/ toServer = <<>> /\ toClient = <<>> /\ server.phase = "chunks"
       \/ FirstReplied
  /\ client.phase = "send" =>
       /\ toServer = <<>> /\ toClient = <<>> /\ server.phase = "data"
       /\ client.pos = server.written
  /\ client.phase = "ack" =>
       \/ /\ toClient = <<>> /\ server.phase = "data"
          /\ Len(toServer) = 1 /\ toServer[1].data.to = client.pos
       \/ /\ toServer = <<>> /\ toClient = <<More(NoOffset)>> /\ server.phase = "data"
          /\ client.pos = server.written
       \/ Working \/ Answered
  /\ client.phase = "response" =>
       \/ Underway("whole")
       \/ /\ toClient = <<>> /\ server.phase = "data"
          /\ Len(toServer) = 1 /\ toServer[1].data.to = TotalSize[client.file]
       \/ Working \/ Answered

\* The receiver has the beginning of the file.
BeginningInv ==
  server.phase \in {"chunks", "data", "store"} =>
    \A i \in 0..(server.written - 1) : buffer[i] = <<server.file, i>>

\* The two ends are in step.
TransferInv == Typed /\ ReceiverInv /\ LinesInv /\ ClientInv /\ BeginningInv

Inv == Typed /\ (intime => TransferInv)

-----------------------------------------------------------------------------
(* Lemmas about short sequences, packets and the buffer.                   *)

LEMMA ShortSequences ==
  /\ \A a : /\ Append(<<>>, a) = <<a>> /\ Head(<<a>>) = a /\ Tail(<<a>>) = <<>>
            /\ Len(<<a>>) = 1 /\ <<a>>[1] = a /\ <<a>> # <<>>
  /\ \A a, b : /\ Append(<<a>>, b) = <<a, b>> /\ Head(<<a, b>>) = a /\ Tail(<<a, b>>) = <<b>>
               /\ Len(<<a, b>>) = 2 /\ <<a, b>>[1] = a /\ <<a, b>>[2] = b
               /\ <<a, b>> # <<>> /\ \A c : <<a, b>> # <<c>>
  /\ Len(<<>>) = 0
<1>1. \A a : /\ Append(<<>>, a) = <<a>> /\ Head(<<a>>) = a /\ Tail(<<a>>) = <<>>
            /\ Len(<<a>>) = 1 /\ <<a>>[1] = a /\ <<a>> # <<>>
  OBVIOUS
<1>2. ASSUME NEW a, NEW b
      PROVE  /\ Append(<<a>>, b) = <<a, b>> /\ Head(<<a, b>>) = a
             /\ Len(<<a, b>>) = 2 /\ <<a, b>>[1] = a /\ <<a, b>>[2] = b
             /\ <<a, b>> # <<>>
  <2>1. Len(<<a, b>>) = 2 /\ <<a, b>>[1] = a /\ <<a, b>>[2] = b
    OBVIOUS
  <2>2. Head(<<a, b>>) = a /\ <<a, b>> # <<>>
    OBVIOUS
  <2>3. Append(<<a>>, b) = <<a, b>>
    <3> DEFINE S == {a, b}
               q == Append(<<a>>, b)
    <3>1. <<a>> \in Seq(S) /\ b \in S /\ Len(<<a>>) = 1 /\ <<a>>[1] = a
      OBVIOUS
    <3>2. <<a, b>> \in Seq(S)
      OBVIOUS
    <3>3. q \in Seq(S) /\ Len(q) = 2 /\ q[1] = a /\ q[2] = b
      BY <3>1, AppendProperties
    <3> HIDE DEF q, S
    <3>4. \A i \in 1..2 : q[i] = <<a, b>>[i]
      BY <3>3
    <3>5. q = <<a, b>>
      BY <3>2, <3>3, <3>4, <2>1, SeqEqual
    <3> QED BY <3>5 DEF q
  <2> QED BY <2>1, <2>2, <2>3
<1>3. ASSUME NEW a, NEW b PROVE Tail(<<a, b>>) = <<b>>
  OBVIOUS
<1>4. ASSUME NEW a, NEW b, NEW c PROVE <<a, b>> # <<c>>
  BY <1>1, <1>2
<1> QED BY <1>1, <1>2, <1>3, <1>4

\* A packet that is counted begins within its file.
LEMMA QuotientBelow ==
  ASSUME NEW n \in Nat \ {0}, NEW a \in Nat, NEW p \in Nat, p < (a + n - 1) \div n
  PROVE  p * n < a
<1> DEFINE b == a + n - 1
           q == b \div n
<1>1. b \in Nat
  OBVIOUS
<1>2. q \in Nat /\ q * n <= b
  <2> HIDE DEF b
  <2> QED BY <1>1
<1> HIDE DEF q
<1>3. p + 1 <= q
  BY <1>2 DEF q
<1>4. (p + 1) * n <= q * n
  BY <1>2, <1>3
<1>5. (p + 1) * n = p * n + n /\ p * n \in Nat
  OBVIOUS
<1>6. p * n + n <= b
  BY <1>1, <1>2, <1>4, <1>5
<1> QED BY <1>5, <1>6

LEMMA OffsetType ==
  ASSUME NEW n \in Nat
  PROVE  /\ Offset(n) \in Nat /\ Offset(n + 1) = Offset(n) + PacketBytes
         /\ Offset(0) = 0 /\ PacketBytes \in Nat \ {0}
BY TransferAssumption DEF Offset

LEMMA CountedPacket ==
  ASSUME NEW f \in Files, NEW n \in Nat, n < Packets(f)
  PROVE  Offset(n) < TotalSize[f]
BY QuotientBelow, TransferAssumption DEF Packets, Offset

LEMMA PacketsType ==
  ASSUME NEW f \in Files
  PROVE  Packets(f) \in Nat /\ 0 < Packets(f)
<1> DEFINE t == TotalSize[f]
           b == PacketBytes
<1>1. t \in Nat /\ t >= 1 /\ b \in Nat \ {0} /\ Packets(f) = (t + b - 1) \div b
  BY TransferAssumption DEF Packets
<1> HIDE DEF t, b
<1> DEFINE a == t + b - 1
<1>2. a \in Nat /\ a >= b
  BY <1>1
<1> HIDE DEF a
<1>3. a \div b \in Nat /\ a \div b >= 1
  BY <1>1, <1>2
<1> QED BY <1>1, <1>3 DEF a

LEMMA SizeType ==
  ASSUME NEW f \in Files
  PROVE  TotalSize[f] \in Nat /\ TotalSize[f] >= 1 /\ TotalSize[f] <= BufferSize
BY TransferAssumption

\* A packet is a piece of its file.
LEMMA PacketIsPiece ==
  ASSUME NEW d, NEW n, IsPacket(d, n)
  PROVE  /\ d \in Piece_ /\ n \in Nat /\ d.file \in Files
         /\ d.from = Offset(n) /\ d.to = LesserOf(Offset(n + 1), TotalSize[d.file])
         /\ d.from < d.to /\ d.to <= TotalSize[d.file]
<1>1. /\ n \in Nat /\ d.file \in Files /\ Offset(n) < TotalSize[d.file]
      /\ d = Piece(d.file, Offset(n), LesserOf(Offset(n + 1), TotalSize[d.file]))
  BY DEF IsPacket, Packet, Offset
<1>2. d.from = Offset(n) /\ d.to = LesserOf(Offset(n + 1), TotalSize[d.file])
  BY <1>1 DEF Piece
<1>3. /\ d.from \in Nat /\ d.to \in Nat /\ d.from < d.to
      /\ d.to <= TotalSize[d.file] /\ d.to <= BufferSize
  <2> DEFINE x == Offset(n)
             y == Offset(n + 1)
             t == TotalSize[d.file]
  <2>1. x \in Nat /\ y = x + PacketBytes /\ PacketBytes \in Nat \ {0} /\ x < t
    BY <1>1, OffsetType
  <2>2. t \in Nat /\ t <= BufferSize /\ BufferSize \in Nat
    BY <1>1, SizeType, TransferAssumption
  <2> HIDE DEF x, y, t
  <2>3. LesserOf(y, t) = IF y <= t THEN y ELSE t
    BY DEF LesserOf
  <2>4. LesserOf(y, t) \in Nat /\ x < LesserOf(y, t) /\ LesserOf(y, t) <= t
    BY <2>1, <2>2, <2>3
  <2> QED BY <1>2, <2>1, <2>2, <2>4 DEF x, y, t
<1>4. d \in [file : Files, from : 0..BufferSize, to : 0..BufferSize]
  <2> DEFINE f == d.file
             x == Offset(n)
             y == LesserOf(Offset(n + 1), TotalSize[d.file])
  <2>1. f \in Files /\ x \in 0..BufferSize /\ y \in 0..BufferSize
    BY <1>1, <1>2, <1>3, TransferAssumption
  <2>2. d = [file |-> f, from |-> x, to |-> y]
    BY <1>1 DEF Piece
  <2> HIDE DEF f, x, y
  <2> QED BY <2>1, <2>2
<1> QED BY <1>1, <1>2, <1>3, <1>4 DEF Piece_

\* Writing a piece after what is there gives more of the file.
LEMMA WritingPiece ==
  ASSUME NEW f \in Files, NEW at \in Nat, NEW d,
         d.file = f, d.from = at, d.to \in Nat, at <= d.to, d.to <= BufferSize,
         buffer \in [0..(BufferSize - 1) -> {NoByte} \cup (Files \X (0..BufferSize))],
         \A i \in 0..(at - 1) : buffer[i] = <<f, i>>
  PROVE  /\ Written(buffer, at, d) \in
              [0..(BufferSize - 1) -> {NoByte} \cup (Files \X (0..BufferSize))]
         /\ \A i \in 0..(d.to - 1) : Written(buffer, at, d)[i] = <<f, i>>
<1>1. BufferSize \in Nat /\ DOMAIN buffer = 0..(BufferSize - 1)
  BY TransferAssumption
<1>2. ASSUME NEW i \in 0..(BufferSize - 1)
      PROVE  /\ Written(buffer, at, d)[i] = IF at <= i /\ i < d.to THEN <<f, i>> ELSE buffer[i]
             /\ Written(buffer, at, d)[i] \in {NoByte} \cup (Files \X (0..BufferSize))
  <2>1. Written(buffer, at, d)[i] = IF at <= i /\ i < at + d.to - d.from
                                    THEN <<d.file, d.from + i - at>> ELSE buffer[i]
    BY <1>1 DEF Written
  <2>2. at + d.to - d.from = d.to /\ d.from + i - at = i
    BY <1>1
  <2>3. Written(buffer, at, d)[i] = IF at <= i /\ i < d.to THEN <<f, i>> ELSE buffer[i]
    BY <2>1, <2>2
  <2>4. <<f, i>> \in Files \X (0..BufferSize)
    BY <1>1
  <2> DEFINE V == {NoByte} \cup (Files \X (0..BufferSize))
  <2>5. <<f, i>> \in V /\ buffer[i] \in V
    BY <2>4
  <2> HIDE DEF V
  <2>6. Written(buffer, at, d)[i] \in V
    BY <2>3, <2>5
  <2> QED BY <2>3, <2>6 DEF V
<1>3. Written(buffer, at, d) = [i \in 0..(BufferSize - 1) |-> Written(buffer, at, d)[i]]
  BY <1>1 DEF Written
<1>4. ASSUME NEW i \in 0..(d.to - 1) PROVE Written(buffer, at, d)[i] = <<f, i>>
  <2>1. i \in 0..(BufferSize - 1) /\ (i < at => i \in 0..(at - 1)) /\ i < d.to
    BY <1>1
  <2>2. Written(buffer, at, d)[i] = IF at <= i /\ i < d.to THEN <<f, i>> ELSE buffer[i]
    BY <1>2, <2>1
  <2>3. i < at => buffer[i] = <<f, i>>
    BY <2>1
  <2> QED BY <2>1, <2>2, <2>3
<1> QED BY <1>2, <1>3, <1>4

-----------------------------------------------------------------------------
(* Types.  Each action keeps them, be the ends in step or not.             *)

LEMMA ClientFields ==
  ASSUME client \in ClientType
  PROVE  /\ client.phase \in {"prompt", "ahead", "header", "first", "send", "ack",
                              "response", "gone"}
         /\ client.file \in Files \cup {NoFile} /\ client.pos \in 0..BufferSize
         /\ client.num \in Nat /\ client.again \in BOOLEAN /\ client.helper \in BOOLEAN
         /\ client.helped \in {NoOffset} \cup 0..BufferSize /\ client.usocket \in BOOLEAN
         /\ client.skips \in Nat /\ client.result \in {"none", "okay", "failed", "lost"}
BY DEF ClientType

LEMMA ServerFields ==
  ASSUME TypeOK
  PROVE  /\ server \in ServerType /\ server.file \in Files \cup {NoFile}
         /\ server.phase \in {"prompt", "existing", "header", "chunks", "data", "store",
                              "clear", "refuse"}
         /\ server.total \in 0..BufferSize /\ server.written \in 0..BufferSize
         /\ server.chunk \in Nat /\ server.retries \in 0..MaxRetries
BY DEF TypeOK, ServerType

\* What a line to the server has.
LEMMA ServerLine ==
  ASSUME NEW l \in ToServerType
  PROVE  /\ l.type \in {"put", "whole", "header", "data", "rest"}
         /\ l.type = "put" => l.file \in Files
         /\ l.type \in {"whole", "header"} =>
              l.total \in 0..BufferSize /\ l.udp \in BOOLEAN /\ l.data \in Piece_
         /\ l.type = "data" => l.data \in Piece_
<1>1. CASE l \in [type : {"put"}, file : Files]
  BY <1>1
<1>2. CASE l \in [type : {"whole", "header"}, total : 0..BufferSize, udp : BOOLEAN,
                  data : Piece_]
  BY <1>2
<1>3. CASE l \in [type : {"data"}, data : Piece_]
  BY <1>3
<1>4. CASE l \in [type : {"rest"}]
  BY <1>4
<1> QED BY <1>1, <1>2, <1>3, <1>4 DEF ToServerType

LEMMA LinesToServer ==
  /\ \A f \in Files : [type |-> "put", file |-> f] \in ToServerType
  /\ \A t \in {"whole", "header"}, n \in 0..BufferSize, u \in BOOLEAN, p \in Piece_ :
       [type |-> t, total |-> n, udp |-> u, data |-> p] \in ToServerType
  /\ \A p \in Piece_ : [type |-> "data", data |-> p] \in ToServerType
  /\ [type |-> "rest"] \in ToServerType
BY DEF ToServerType

\* What a line to the client has.
LEMMA ClientLine ==
  ASSUME NEW l \in ToClientType, l.type = "more"
  PROVE  l.offset \in {NoOffset} \cup 0..BufferSize
BY DEF ToClientType

LEMMA LinesToClient ==
  /\ \A n \in {NoOffset} \cup 0..BufferSize : More(n) \in ToClientType
  /\ \A t \in {"skip", "okay", "error", "noise"} : [type |-> t] \in ToClientType
BY DEF ToClientType, More

\* Whatever is written of a piece into the buffer are bytes.
LEMMA WrittenType ==
  ASSUME NEW at \in Nat, NEW d \in Piece_,
         buffer \in [0..(BufferSize - 1) -> {NoByte} \cup (Files \X (0..BufferSize))]
  PROVE  Written(buffer, at, d) \in
           [0..(BufferSize - 1) -> {NoByte} \cup (Files \X (0..BufferSize))]
<1> DEFINE V == {NoByte} \cup (Files \X (0..BufferSize))
<1>1. BufferSize \in Nat /\ DOMAIN buffer = 0..(BufferSize - 1)
  BY TransferAssumption
<1>2. d.file \in Files /\ d.from \in 0..BufferSize /\ d.to \in 0..BufferSize
  BY DEF Piece_
<1>3. ASSUME NEW i \in 0..(BufferSize - 1) PROVE Written(buffer, at, d)[i] \in V
  <2>1. Written(buffer, at, d)[i] = IF at <= i /\ i < at + d.to - d.from
                                    THEN <<d.file, d.from + i - at>> ELSE buffer[i]
    BY <1>1 DEF Written
  <2>2. at <= i /\ i < at + d.to - d.from => d.from + i - at \in 0..BufferSize
    BY <1>1, <1>2
  <2>3. at <= i /\ i < at + d.to - d.from =>
          <<d.file, d.from + i - at>> \in Files \X (0..BufferSize)
    BY <1>2, <2>2
  <2>4. buffer[i] \in V
    BY <1>1
  <2> QED BY <2>1, <2>3, <2>4
<1>4. Written(buffer, at, d) = [i \in 0..(BufferSize - 1) |-> Written(buffer, at, d)[i]]
  BY <1>1 DEF Written
<1> QED BY <1>3, <1>4

\* What a step of the client has to keep.
LEMMA ClientTyped ==
  ASSUME Typed, client' \in ClientType, Busy' => client'.file \in Files,
         client'.phase = "ahead" => client'.num < Packets(client'.file),
         toServer' \in Seq(ToServerType), toClient' \in Seq(ToClientType),
         \A d \in dgrams' : d \in dgrams \/ (d.num \in Nat /\ IsPacket(d.data, d.num)),
         puts' \in 0..MaxPuts, intime' \in BOOLEAN,
         UNCHANGED <<server, buffer, chunks, cancels, stored>>
  PROVE  Typed'
<1>1. \A d \in dgrams' : d.num \in Nat /\ IsPacket(d.data, d.num)
  BY DEF Typed, TypeOK, PacketInv
<1>2. \A d \in dgrams' : d.data \in Piece_
  BY <1>1, PacketIsPiece
<1>3. TypeOK'
  BY <1>1, <1>2 DEF Typed, TypeOK
<1>4. PacketInv'
  BY <1>1 DEF Typed, PacketInv
<1>5. NamedInv'
  BY DEF Typed, NamedInv
<1> QED BY <1>3, <1>4, <1>5 DEF Typed

\* What a step of the session has to keep.
LEMMA ServerTyped ==
  ASSUME Typed, server' \in ServerType, server'.phase # "prompt" => server'.file \in Files,
         toServer' \in Seq(ToServerType), toClient' \in Seq(ToClientType),
         buffer' \in [0..(BufferSize - 1) -> {NoByte} \cup (Files \X (0..BufferSize))],
         \A n \in DOMAIN chunks' : n \in DOMAIN chunks /\ chunks'[n] = chunks[n],
         stored' \subseteq Files, intime' \in BOOLEAN,
         UNCHANGED <<client, dgrams, cancels, puts>>
  PROVE  Typed'
<1>1. TypeOK'
  BY DEF Typed, TypeOK
<1>2. PacketInv'
  BY DEF Typed, PacketInv
<1>3. NamedInv'
  BY DEF Typed, NamedInv, Busy
<1> QED BY <1>1, <1>2, <1>3 DEF Typed

LEMMA PutTyped ==
  ASSUME NEW f \in Files, Typed, Put(f)
  PROVE  Typed' /\ client'.file = f /\ client'.phase \in {"ahead", "header"}
<1> DEFINE withHelper == client.usocket /\ client.skips = 0
           ahead      == withHelper /\ TotalSize[f] > MinForUdp
<1>1. /\ client \in ClientType /\ toServer \in Seq(ToServerType) /\ toClient \in Seq(ToClientType)
      /\ puts \in 0..MaxPuts /\ intime \in BOOLEAN
  BY DEF Typed, TypeOK
<1>2. /\ toServer' = Append(toServer, [type |-> "put", file |-> f])
      /\ puts < MaxPuts /\ puts' = puts + 1
      /\ UNCHANGED <<server, toClient, buffer, chunks, dgrams, cancels, stored, intime>>
  BY DEF Put
<1>3. /\ client' \in ClientType
      /\ client'.phase \in {"ahead", "header"} /\ client'.file = f /\ client'.num = 0
  <2>2. withHelper \in BOOLEAN
    BY <1>1, ClientFields
  <2>3. (IF client.usocket /\ client.skips > 0 THEN client.skips - 1 ELSE client.skips) \in Nat
    BY <1>1, ClientFields
  <2>4. (IF ahead THEN "ahead" ELSE "header") \in {"ahead", "header"}
    OBVIOUS
  <2>5. LocalHost \in BOOLEAN /\ BufferSize \in Nat /\ client.usocket \in BOOLEAN
    BY <1>1, ClientFields, TransferAssumption
  <2>6. PICK p \in {"ahead", "header"}, h \in BOOLEAN, k \in Nat :
          client' = [phase |-> p, file |-> f, pos |-> 0, num |-> 0, again |-> LocalHost,
                     helper |-> h, helped |-> NoOffset, usocket |-> client.usocket,
                     skips |-> k, result |-> "none"]
    <3>1. client' = [phase |-> IF ahead THEN "ahead" ELSE "header",
                     file |-> f, pos |-> 0, num |-> 0, again |-> LocalHost,
                     helper |-> withHelper, helped |-> NoOffset, usocket |-> client.usocket,
                     skips |-> IF client.usocket /\ client.skips > 0 THEN client.skips - 1
                                                                   ELSE client.skips,
                     result |-> "none"]
      BY DEF Put
    <3> HIDE DEF withHelper, ahead
    <3> QED BY <2>2, <2>3, <2>4, <3>1
  <2> QED BY <2>5, <2>6 DEF ClientType
<1>4. 0 < Packets(f)
  BY PacketsType
<1>5. toServer' \in Seq(ToServerType)
  BY <1>1, <1>2, LinesToServer, AppendProperties
<1>6. puts' \in 0..MaxPuts
  BY <1>1, <1>2, TransferAssumption
<1> QED BY <1>1, <1>2, <1>3, <1>4, <1>5, <1>6, ClientTyped

LEMMA SendPacketTyped ==
  ASSUME Typed, SendPacket
  PROVE  Typed' /\ client'.file = client.file /\ client'.phase \in {"ahead", "header"}
<1> DEFINE f    == client.file
           last == client.num + 1 = Packets(f)
           new  == [num |-> client.num, data |-> Packet(f, client.num)]
<1>1. /\ client.phase = "ahead" /\ f \in Files /\ client \in ClientType /\ client.num \in Nat
      /\ client.num < Packets(f) /\ client.again \in BOOLEAN
      /\ dgrams' = dgrams \cup {new}
      /\ UNCHANGED <<server, toServer, toClient, buffer, chunks, cancels, stored, puts, intime>>
  BY ClientFields DEF Typed, TypeOK, NamedInv, Busy, PacketInv, SendPacket
<1>2. /\ client' \in ClientType /\ client'.file = f
      /\ \/ client'.phase = "header"
         \/ client'.phase = "ahead" /\ client'.num < Packets(f)
  <2>1. CASE client' = [client EXCEPT
             !.num = IF last THEN 0 ELSE @ + 1,
             !.again = @ /\ ~last,
             !.phase = IF last /\ ~client.again THEN "header" ELSE @]
    <3> DEFINE n == IF last THEN 0 ELSE client.num + 1
               a == client.again /\ ~last
               p == IF last /\ ~client.again THEN "header" ELSE client.phase
    <3>1. n \in Nat /\ n < Packets(f)
      BY <1>1, PacketsType
    <3>2. a \in BOOLEAN /\ p \in {"header", "ahead"}
      BY <1>1
    <3>3. client' = [client EXCEPT !.num = n, !.again = a, !.phase = p]
      BY <2>1
    <3> HIDE DEF n, a, p
    <3>4. client' \in ClientType /\ client'.file = f /\ client'.num = n /\ client'.phase = p
      BY <1>1, <3>1, <3>2, <3>3 DEF ClientType
    <3> QED BY <3>1, <3>2, <3>4
  <2>2. CASE client' = [client EXCEPT !.phase = "header"]
    BY <1>1, <2>2 DEF ClientType
  <2> QED BY <2>1, <2>2 DEF SendPacket
<1>3. IsPacket(new.data, new.num) /\ new.num \in Nat
  BY <1>1, CountedPacket DEF IsPacket, Packet, Piece
<1> HIDE DEF new
<1>4. \A d \in dgrams' : d \in dgrams \/ (d.num \in Nat /\ IsPacket(d.data, d.num))
  BY <1>1, <1>3
<1>5. /\ toServer' \in Seq(ToServerType) /\ toClient' \in Seq(ToClientType)
      /\ puts' \in 0..MaxPuts /\ intime' \in BOOLEAN
  BY <1>1 DEF Typed, TypeOK
<1> QED BY <1>1, <1>2, <1>4, <1>5, ClientTyped

LEMMA SendPacketFailsTyped ==
  ASSUME Typed, SendPacketFails
  PROVE  Typed' /\ client'.file = client.file /\ client'.phase = "header"
<1>1. /\ client' \in ClientType /\ client'.phase = "header" /\ client'.file = client.file
      /\ client.phase = "ahead"
  BY DEF Typed, TypeOK, ClientType, SendPacketFails
<1>2. client.file \in Files
  BY <1>1 DEF Typed, NamedInv, Busy
<1>3. /\ toServer' \in Seq(ToServerType) /\ toClient' \in Seq(ToClientType)
      /\ puts' \in 0..MaxPuts /\ intime' \in BOOLEAN /\ dgrams' = dgrams
      /\ UNCHANGED <<server, buffer, chunks, cancels, stored>>
  BY DEF Typed, TypeOK, SendPacketFails
<1> QED BY <1>1, <1>2, <1>3, ClientTyped

LEMMA TransferredType ==
  ASSUME NEW c \in ClientType
  PROVE  /\ Transferred(c) \in ClientType /\ Transferred(c).phase = "response"
         /\ Transferred(c).file = c.file /\ Transferred(c).pos = c.pos
<1> DEFINE u == c.usocket /\ (c.helper => c.helped # NoOffset)
           k == CASE ~c.helper \/ c.helped = NoOffset -> c.skips
                  [] c.helped * 10 < TotalSize[c.file] -> ManySkips
                  [] c.helped * 2 < TotalSize[c.file] -> FewSkips
                  [] OTHER -> c.skips
<1>1. u \in BOOLEAN /\ c.skips \in Nat
  BY DEF ClientType
<1>2. k \in Nat
  BY <1>1, TransferAssumption
<1>3. Transferred(c) = [c EXCEPT !.phase = "response", !.usocket = u, !.skips = k]
  BY DEF Transferred
<1> HIDE DEF u, k
<1> QED BY <1>1, <1>2, <1>3 DEF ClientType

LEMMA WholeIsPiece ==
  ASSUME NEW f \in Files
  PROVE  Piece(f, 0, TotalSize[f]) \in Piece_ /\ TotalSize[f] \in 0..BufferSize
<1>1. TotalSize[f] \in 0..BufferSize /\ 0 \in 0..BufferSize /\ 0 < TotalSize[f]
  BY SizeType, TransferAssumption
<1> QED BY <1>1 DEF Piece, Piece_

LEMMA SendHeaderTyped ==
  ASSUME Typed, SendHeader
  PROVE  /\ Typed' /\ client'.file = client.file
         /\ client'.phase = IF TotalSize[client.file] <= MaxAppended THEN "response" ELSE "first"
<1> DEFINE f == client.file
           appended == TotalSize[f] <= MaxAppended
           t == IF appended THEN "whole" ELSE "header"
           l == [type |-> t, total |-> TotalSize[f], udp |-> client.helper,
                 data |-> Piece(f, 0, TotalSize[f])]
<1>1. /\ client.phase = "header" /\ f \in Files /\ client \in ClientType
      /\ client.helper \in BOOLEAN
  BY ClientFields DEF Typed, TypeOK, NamedInv, Busy, SendHeader
<1>2. /\ toServer' = Append(toServer, l)
      /\ client' = IF appended THEN Transferred(client) ELSE [client EXCEPT !.phase = "first"]
      /\ UNCHANGED <<server, toClient, buffer, chunks, dgrams, cancels, stored, puts, intime>>
  BY DEF SendHeader
<1>3. /\ client' \in ClientType /\ client'.file = f
      /\ client'.phase = IF appended THEN "response" ELSE "first"
  <2>1. CASE appended
    BY <1>1, <1>2, <2>1, TransferredType
  <2>2. CASE ~appended
    BY <1>1, <1>2, <2>2 DEF ClientType
  <2> QED BY <2>1, <2>2
<1>4. l \in ToServerType
  <2>1. t \in {"whole", "header"}
    OBVIOUS
  <2> HIDE DEF t
  <2> QED BY <1>1, <2>1, WholeIsPiece, LinesToServer
<1> HIDE DEF l
<1>5. toServer' \in Seq(ToServerType)
  BY <1>2, <1>4, AppendProperties DEF Typed, TypeOK
<1>6. toClient' \in Seq(ToClientType) /\ puts' \in 0..MaxPuts /\ intime' \in BOOLEAN
  BY <1>2 DEF Typed, TypeOK
<1> QED BY <1>1, <1>2, <1>3, <1>5, <1>6, ClientTyped

\* The first line is read.
LEMMA TailTyped ==
  ASSUME Typed
  PROVE  /\ toServer # <<>> => Head(toServer) \in ToServerType /\ Tail(toServer) \in Seq(ToServerType)
         /\ toClient # <<>> => Head(toClient) \in ToClientType /\ Tail(toClient) \in Seq(ToClientType)
BY HeadTailProperties DEF Typed, TypeOK

\* What the client makes of the offset in a reply.
WithOffset(o) == [client EXCEPT !.helped = IF client.helper THEN o ELSE @,
                                !.pos = IF o = NoOffset THEN 0 ELSE o]

LEMMA WithOffsetType ==
  ASSUME client \in ClientType, NEW o \in {NoOffset} \cup 0..BufferSize
  PROVE  /\ WithOffset(o) \in ClientType /\ WithOffset(o).file = client.file
         /\ WithOffset(o).pos = IF o = NoOffset THEN 0 ELSE o
<1> DEFINE h == IF client.helper THEN o ELSE client.helped
           p == IF o = NoOffset THEN 0 ELSE o
<1>1. h \in {NoOffset} \cup 0..BufferSize /\ p \in 0..BufferSize
  BY ClientFields, TransferAssumption DEF NoOffset
<1>2. WithOffset(o) = [client EXCEPT !.helped = h, !.pos = p]
  BY DEF WithOffset
<1>3. WithOffset(o) \in ClientType /\ WithOffset(o).file = client.file /\ WithOffset(o).pos = p
  <2> HIDE DEF h, p
  <2> QED BY <1>1, <1>2 DEF ClientType
<1> QED BY <1>3

\* What the first reply makes of the client.
AfterOffset(o) == IF o = TotalSize[client.file] THEN Transferred(WithOffset(o))
                  ELSE [WithOffset(o) EXCEPT !.phase = "send"]

LEMMA FirstReplyTyped ==
  ASSUME Typed, FirstReply
  PROVE  Typed' /\ client'.file = client.file /\ client'.phase \in {"send", "response", "prompt"}
<1>1. /\ client.phase = "first" /\ client.file \in Files /\ client \in ClientType
      /\ toClient # <<>> /\ toClient' = Tail(toClient)
      /\ UNCHANGED <<server, toServer, buffer, chunks, dgrams, cancels, stored, puts, intime>>
  BY DEF Typed, TypeOK, NamedInv, Busy, FirstReply
<1>2. /\ client' \in ClientType /\ client'.file = client.file
      /\ client'.phase \in {"send", "response", "prompt"}
  <2> DEFINE reply == Head(toClient)
  <2>1. CASE client' = Transferred(client)
    BY <1>1, <2>1, TransferredType
  <2>2. CASE reply.type = "more" /\ client' = AfterOffset(reply.offset)
    <3> DEFINE o == reply.offset
    <3>1. o \in {NoOffset} \cup 0..BufferSize
      BY <1>1, <2>2, TailTyped, ClientLine
    <3> HIDE DEF o
    <3>2. WithOffset(o) \in ClientType /\ WithOffset(o).file = client.file
      BY <1>1, <3>1, WithOffsetType
    <3>3. CASE client' = Transferred(WithOffset(o))
      BY <3>2, <3>3, TransferredType
    <3>4. CASE client' = [WithOffset(o) EXCEPT !.phase = "send"]
      BY <3>2, <3>4 DEF ClientType
    <3> QED BY <2>2, <3>3, <3>4 DEF AfterOffset, o
  <2>3. CASE PutFails
    BY <1>1, <2>3 DEF ClientType, PutFails
  <2> QED BY <2>1, <2>2, <2>3 DEF FirstReply, AfterOffset, WithOffset
<1>3. toClient' \in Seq(ToClientType)
  BY <1>1, TailTyped
<1>4. toServer' \in Seq(ToServerType) /\ puts' \in 0..MaxPuts /\ intime' \in BOOLEAN
  BY <1>1 DEF Typed, TypeOK
<1> QED BY <1>1, <1>2, <1>3, <1>4, ClientTyped

LEMMA SendLineTyped ==
  ASSUME Typed, SendLine
  PROVE  /\ Typed' /\ client'.file = client.file
         /\ client'.pos = LesserOf(client.pos + MaxUnencoded, TotalSize[client.file])
         /\ client'.phase = IF client.pos + MaxUnencoded > TotalSize[client.file]
                              THEN "response" ELSE "ack"
<1> DEFINE f   == client.file
           to  == LesserOf(client.pos + MaxUnencoded, TotalSize[f])
           eof == client.pos + MaxUnencoded > TotalSize[f]
           l   == [type |-> "data", data |-> Piece(f, client.pos, to)]
<1>1. /\ client.phase = "send" /\ f \in Files /\ client \in ClientType
      /\ client.pos \in 0..BufferSize
      /\ UNCHANGED <<server, toClient, buffer, chunks, dgrams, cancels, stored, puts, intime>>
  BY ClientFields DEF Typed, TypeOK, NamedInv, Busy, SendLine
<1>2. to \in 0..BufferSize
  <2>1. TotalSize[f] \in Nat /\ TotalSize[f] <= BufferSize /\ BufferSize \in Nat
        /\ MaxUnencoded \in Nat \ {0}
    BY <1>1, SizeType, TransferAssumption
  <2> QED BY <1>1, <2>1 DEF LesserOf
<1>3. /\ client' \in ClientType /\ client'.file = f /\ client'.pos = to
      /\ client'.phase = IF eof THEN "response" ELSE "ack"
  <2>1. CASE eof
    <3>1. client' = Transferred([client EXCEPT !.pos = to])
      BY <2>1 DEF SendLine
    <3>2. /\ [client EXCEPT !.pos = to] \in ClientType
          /\ [client EXCEPT !.pos = to].file = f /\ [client EXCEPT !.pos = to].pos = to
      BY <1>1, <1>2 DEF ClientType
    <3> QED BY <2>1, <3>1, <3>2, TransferredType
  <2>2. CASE ~eof
    <3>1. client' = [client EXCEPT !.pos = to, !.phase = "ack"]
      BY <2>2 DEF SendLine
    <3> HIDE DEF to, eof
    <3> QED BY <1>1, <1>2, <2>2, <3>1 DEF ClientType
  <2> QED BY <2>1, <2>2
<1>4. toServer' \in Seq(ToServerType)
  <2>1. CASE to <= client.pos
    BY <2>1 DEF SendLine, Typed, TypeOK
  <2>2. CASE ~(to <= client.pos)
    <3>1. toServer' = Append(toServer, l)
      BY <2>2 DEF SendLine
    <3>2. client.pos < to
      BY <1>1, <1>2, <2>2
    <3>3. l \in ToServerType
      <4> HIDE DEF to, f
      <4>1. Piece(f, client.pos, to) \in Piece_
        BY <1>1, <1>2, <3>2 DEF Piece, Piece_
      <4> QED BY <4>1, LinesToServer
    <3> HIDE DEF l
    <3> QED BY <3>1, <3>3, AppendProperties DEF Typed, TypeOK
  <2> QED BY <2>1, <2>2
<1>5. toClient' \in Seq(ToClientType) /\ puts' \in 0..MaxPuts /\ intime' \in BOOLEAN
  BY <1>1 DEF Typed, TypeOK
<1> QED BY <1>1, <1>3, <1>4, <1>5, ClientTyped

\* The client reads a line and goes on or comes to its prompt.
LEMMA ReplyTyped ==
  ASSUME Typed, LineReply \/ Response
  PROVE  /\ Typed' /\ client'.file = client.file /\ client'.pos = client.pos
         /\ client'.phase \in {client.phase, "send", "prompt"}
         /\ client.phase \in {"ack", "response"}
<1>1. /\ client \in ClientType /\ client.phase \in {"ack", "response"} /\ client.file \in Files
      /\ toClient # <<>> /\ toClient' = Tail(toClient)
      /\ UNCHANGED <<server, toServer, buffer, chunks, dgrams, cancels, stored, puts, intime>>
  BY DEF Typed, TypeOK, NamedInv, Busy, LineReply, Response
<1>2. PICK p \in {client.phase, "send", "prompt"}, r \in {client.result, "okay", "failed"} :
        client' = [client EXCEPT !.phase = p, !.result = r]
  <2>1. CASE client' = client
    <3>1. client = [client EXCEPT !.phase = client.phase, !.result = client.result]
      BY <1>1 DEF ClientType
    <3> QED BY <2>1, <3>1
  <2>2. CASE client' = [client EXCEPT !.phase = "send"]
    <3>1. client' = [client EXCEPT !.phase = "send", !.result = client.result]
      BY <1>1, <2>2 DEF ClientType
    <3> QED BY <3>1
  <2>3. CASE PutFails
    BY <2>3 DEF PutFails
  <2>4. CASE client' = [client EXCEPT !.phase = "prompt", !.result = Outcome(Head(toClient))]
    <3>1. Outcome(Head(toClient)) \in {"okay", "failed"}
      BY DEF Outcome
    <3> QED BY <2>4, <3>1
  <2> QED BY <2>1, <2>2, <2>3, <2>4 DEF LineReply, Response
<1>3. /\ client' \in ClientType /\ client'.file = client.file /\ client'.pos = client.pos
      /\ client'.phase = p
  BY <1>1, <1>2, ClientFields DEF ClientType
<1>4. toClient' \in Seq(ToClientType)
  BY <1>1, TailTyped
<1>5. toServer' \in Seq(ToServerType) /\ puts' \in 0..MaxPuts /\ intime' \in BOOLEAN
  BY <1>1 DEF Typed, TypeOK
<1>6. client'.phase # "ahead"
  BY <1>1, <1>2, <1>3
<1> QED BY <1>1, <1>2, <1>3, <1>4, <1>5, <1>6, ClientTyped

\* The client gives up or ends.
LEMMA LeavingTyped ==
  ASSUME Typed, ReplyLost \/ ResponseLost \/ ClientDies
  PROVE  /\ Typed' /\ client'.file = client.file
         /\ client'.phase = IF ReplyLost THEN "prompt" ELSE "gone"
<1>1. client \in ClientType
  BY DEF Typed, TypeOK
<1>2. PICK r \in {client.result, "lost"} :
        client' = [client EXCEPT !.phase = IF ReplyLost THEN "prompt" ELSE "gone", !.result = r]
  BY DEF ReplyLost, ResponseLost, ClientDies
<1>3. /\ client' \in ClientType /\ client'.file = client.file
      /\ client'.phase = IF ReplyLost THEN "prompt" ELSE "gone"
  <2> DEFINE p == IF ReplyLost THEN "prompt" ELSE "gone"
  <2>1. p \in {"prompt", "gone"} /\ client' = [client EXCEPT !.phase = p, !.result = r]
    BY <1>2
  <2> HIDE DEF p
  <2>2. client' \in ClientType /\ client'.file = client.file /\ client'.phase = p
    BY <1>1, <1>2, <2>1, ClientFields DEF ClientType
  <2> QED BY <2>2 DEF p
<1>4. /\ toServer' \in Seq(ToServerType) /\ toClient' \in Seq(ToClientType)
      /\ puts' \in 0..MaxPuts /\ intime' \in BOOLEAN /\ dgrams' = dgrams
      /\ UNCHANGED <<server, buffer, chunks, cancels, stored>>
  BY DEF Typed, TypeOK, ReplyLost, ResponseLost, ClientDies
<1>5. client'.phase \notin {"ahead"} /\ ~Busy'
  BY <1>3 DEF Busy
<1> QED BY <1>3, <1>4, <1>5, ClientTyped

LEMMA DeliverTyped ==
  ASSUME NEW d \in dgrams, Typed, Deliver(d)
  PROVE  Typed'
<1>1. /\ d.num \in Nat /\ d.num < MaxChunks /\ IsPacket(d.data, d.num)
      /\ UNCHANGED <<client, server, toServer, toClient, buffer, dgrams, stored, puts, intime>>
  BY DEF Typed, TypeOK, PacketInv, Deliver
<1>2. d.data.file \in Files
  BY <1>1 DEF IsPacket
<1>3. cancels' \subseteq Files
  BY <1>2 DEF Typed, TypeOK, Deliver
<1>4. ASSUME NEW n \in DOMAIN chunks'
      PROVE  n \in 0..MaxChunks /\ IsPacket(chunks'[n], n)
  <2>1. CASE chunks' = chunks
    BY <2>1, <1>4 DEF Typed, PacketInv
  <2>2. CASE chunks' = [m \in DOMAIN chunks \cup {d.num} |->
                          IF m \in DOMAIN chunks THEN chunks[m] ELSE d.data]
    <3>1. CASE n \in DOMAIN chunks
      BY <2>2, <3>1, <1>4 DEF Typed, PacketInv
    <3>2. CASE n \notin DOMAIN chunks
      <4>1. n = d.num /\ chunks'[n] = d.data
        BY <2>2, <3>2, <1>4
      <4> QED BY <1>1, <4>1, TransferAssumption
    <3> QED BY <3>1, <3>2
  <2> QED BY <2>1, <2>2 DEF Deliver
<1>5. PacketInv'
  BY <1>1, <1>4 DEF Typed, PacketInv
<1>6. TypeOK'
  <2>1. \A n \in DOMAIN chunks' : n \in 0..MaxChunks /\ chunks'[n] \in Piece_
    BY <1>4, PacketIsPiece
  <2> QED BY <1>1, <1>3, <2>1 DEF Typed, TypeOK
<1>7. NamedInv'
  BY <1>1 DEF Typed, NamedInv, Busy
<1> QED BY <1>5, <1>6, <1>7 DEF Typed

LEMMA ReadCommandTyped ==
  ASSUME Typed, ReadCommand
  PROVE  /\ Typed' /\ server'.file = Head(toServer).file /\ server'.written = 0
         /\ server'.chunk = 0 /\ server'.phase \in {"existing", "header"}
<1> DEFINE f == Head(toServer).file
<1>1. /\ toServer # <<>> /\ Head(toServer).type = "put" /\ toServer' = Tail(toServer)
      /\ UNCHANGED <<client, toClient, buffer, chunks, dgrams, cancels, stored, puts, intime>>
  BY DEF ReadCommand
<1>2. f \in Files
  BY <1>1, TailTyped, ServerLine
<1>3. PICK p \in {"existing", "header"} :
        server' = [phase |-> p, file |-> f, total |-> 0, written |-> 0,
                   chunk |-> 0, retries |-> 0, alive |-> TRUE]
  BY DEF ReadCommand
<1> HIDE DEF f
<1>4. /\ server' \in ServerType /\ server'.phase = p /\ server'.file = f
      /\ server'.written = 0 /\ server'.chunk = 0
  <2>1. 0 \in 0..BufferSize /\ 0 \in 0..MaxRetries
    BY TransferAssumption
  <2> QED BY <1>2, <1>3, <2>1 DEF ServerType
<1>5. toServer' \in Seq(ToServerType)
  BY <1>1, TailTyped
<1>6. /\ toClient' \in Seq(ToClientType) /\ stored' \subseteq Files /\ intime' \in BOOLEAN
      /\ buffer' \in [0..(BufferSize - 1) -> {NoByte} \cup (Files \X (0..BufferSize))]
  BY <1>1 DEF Typed, TypeOK
<1>7. Typed'
  BY <1>1, <1>2, <1>4, <1>5, <1>6, ServerTyped
<1> QED BY <1>4, <1>7 DEF f

\* What is left of the lines behind one of them.
LEMMA RestTyped ==
  ASSUME Typed, NEW k \in 1..Len(toServer)
  PROVE  /\ SubSeq(toServer, k + 1, Len(toServer)) \in Seq(ToServerType)
         /\ <<[type |-> "rest"]>> \o SubSeq(toServer, k + 1, Len(toServer))
              \in Seq(ToServerType)
<1> DEFINE rest == SubSeq(toServer, k + 1, Len(toServer))
<1>1. toServer \in Seq(ToServerType) /\ Len(toServer) \in Nat
  BY LenProperties DEF Typed, TypeOK
<1>2. \A i \in (k + 1)..Len(toServer) : toServer[i] \in ToServerType
  BY <1>1, ElementOfSeq
<1>3. rest \in Seq(ToServerType)
  BY <1>1, <1>2, SubSeqProperties
<1> HIDE DEF rest
<1>4. <<[type |-> "rest"]>> \in Seq(ToServerType)
  <2> DEFINE l == [type |-> "rest"]
  <2>1. l \in ToServerType
    BY LinesToServer
  <2> HIDE DEF l
  <2>2. <<l>> \in Seq(ToServerType)
    BY <2>1
  <2> QED BY <2>2 DEF l
<1>5. <<[type |-> "rest"]>> \o rest \in Seq(ToServerType)
  BY <1>3, <1>4, ConcatProperties
<1> QED BY <1>3, <1>5 DEF rest

LEMMA ReadGarbageTyped ==
  ASSUME Typed, ReadGarbage
  PROVE  Typed'
<1>1. PICK k \in 1..Len(toServer) : toServer' = SubSeq(toServer, k + 1, Len(toServer))
  BY DEF ReadGarbage
<1>2. toServer' \in Seq(ToServerType)
  BY <1>1, RestTyped
<1>3. toClient' \in Seq(ToClientType)
  BY LinesToClient, AppendProperties DEF ReadGarbage, Typed, TypeOK
<1>4. /\ server' \in ServerType
      /\ server'.phase # "prompt" => server'.file \in Files
      /\ buffer' \in [0..(BufferSize - 1) -> {NoByte} \cup (Files \X (0..BufferSize))]
      /\ stored' \subseteq Files /\ intime' \in BOOLEAN /\ chunks' = chunks
      /\ UNCHANGED <<client, dgrams, cancels, puts>>
  BY DEF ReadGarbage, Typed, TypeOK, NamedInv
<1>5. \A n \in DOMAIN chunks' : n \in DOMAIN chunks /\ chunks'[n] = chunks[n]
  BY <1>4
<1> QED BY <1>2, <1>3, <1>4, <1>5, ServerTyped

LEMMA SkipTransferTyped ==
  ASSUME Typed, SkipTransfer
  PROVE  Typed' /\ server'.phase = "clear" /\ server'.file = server.file
<1>1. /\ server.phase = "existing" /\ toServer # <<>> /\ toServer' = Tail(toServer)
      /\ toClient' = toClient \o SkipReply(Head(toServer))
      /\ server' = [server EXCEPT !.phase = "clear"]
      /\ UNCHANGED <<client, buffer, chunks, dgrams, cancels, stored, puts, intime>>
  BY DEF SkipTransfer
<1>2. server' \in ServerType /\ server'.phase = "clear" /\ server'.file = server.file
  BY <1>1 DEF Typed, TypeOK, ServerType
<1>3. server.file \in Files
  BY <1>1 DEF Typed, NamedInv
<1>4. toServer' \in Seq(ToServerType)
  BY <1>1, TailTyped
<1>5. SkipReply(Head(toServer)) \in Seq(ToClientType)
  <2>1. <<>> \in Seq(ToClientType)
    BY EmptySeq
  <2>2. <<[type |-> "skip"]>> \in Seq(ToClientType)
    <3> DEFINE l == [type |-> "skip"]
    <3>1. l \in ToClientType
      BY LinesToClient
    <3> HIDE DEF l
    <3>2. <<l>> \in Seq(ToClientType)
      BY <3>1
    <3> QED BY <3>2 DEF l
  <2> QED BY <2>1, <2>2 DEF SkipReply
<1>6. toClient' \in Seq(ToClientType)
  BY <1>1, <1>5, ConcatProperties DEF Typed, TypeOK
<1>7. /\ buffer' \in [0..(BufferSize - 1) -> {NoByte} \cup (Files \X (0..BufferSize))]
      /\ stored' \subseteq Files /\ intime' \in BOOLEAN
  BY <1>1 DEF Typed, TypeOK
<1> QED BY <1>1, <1>2, <1>3, <1>4, <1>6, <1>7, ServerTyped

LEMMA ReadHeaderTyped ==
  ASSUME Typed, ReadHeader
  PROVE  /\ Typed' /\ server'.file = server.file /\ server.phase = "header"
         /\ server'.phase \in {"refuse", "store", "chunks", "data"}
         /\ server'.total = Head(toServer).total
         /\ server'.phase \in {"chunks", "data"} =>
              server'.written = server.written /\ server'.chunk = server.chunk
<1> DEFINE h == Head(toServer)
<1>1. /\ server.phase = "header" /\ toServer # <<>> /\ toServer' = Tail(toServer)
      /\ server \in ServerType /\ h \in ToServerType /\ h.type \in {"whole", "header"}
      /\ UNCHANGED <<client, chunks, dgrams, cancels, stored, puts, intime>>
  BY TailTyped DEF ReadHeader, Typed, TypeOK
<1>2. h.total \in 0..BufferSize /\ h.data \in Piece_
  BY <1>1, ServerLine
<1>3. server.file \in Files
  BY <1>1 DEF Typed, NamedInv
<1> DEFINE p == IF h.total > MaxSize THEN "refuse" ELSE "store"
           t == h.total
<1>4. \/ server' = [server EXCEPT !.total = t, !.written = t, !.phase = p]
      \/ server' = [server EXCEPT !.total = t, !.phase = "chunks"]
      \/ server' = [server EXCEPT !.total = t, !.phase = "data"]
  BY DEF ReadHeader
<1>5. p \in {"refuse", "store"} /\ t \in 0..BufferSize
  BY <1>2
<1>6. \/ buffer' = Written(buffer, 0, h.data)
      \/ buffer' = buffer
  BY DEF ReadHeader
<1>7. toClient' = toClient \/ toClient' = Append(toClient, More(NoOffset))
  BY DEF ReadHeader
<1>9. More(NoOffset) \in ToClientType
  BY LinesToClient
<1> HIDE DEF p, t
<1>8. /\ server' \in ServerType /\ server'.file = server.file /\ server'.total = t
      /\ server'.phase \in {"refuse", "store", "chunks", "data"}
      /\ server'.phase \in {"chunks", "data"} =>
           server'.written = server.written /\ server'.chunk = server.chunk
  BY <1>1, <1>4, <1>5 DEF ServerType
<1>10. toServer' \in Seq(ToServerType)
  BY <1>1, TailTyped
<1>11. toClient' \in Seq(ToClientType)
  BY <1>7, <1>9, AppendProperties DEF Typed, TypeOK
<1>12. buffer' \in [0..(BufferSize - 1) -> {NoByte} \cup (Files \X (0..BufferSize))]
  BY <1>2, <1>6, WrittenType DEF Typed, TypeOK
<1>13. stored' \subseteq Files /\ intime' \in BOOLEAN
  BY <1>1 DEF Typed, TypeOK
<1>14. Typed'
  BY <1>1, <1>3, <1>8, <1>10, <1>11, <1>12, <1>13, ServerTyped
<1> QED BY <1>1, <1>8, <1>14 DEF t

\* The receiver looks for a chunk.
LEMMA ChunksTyped ==
  ASSUME Typed, TakeChunk \/ AwaitChunk
  PROVE  /\ Typed' /\ server'.file = server.file /\ server.phase = "chunks"
         /\ server'.total = server.total
         /\ server'.phase \in {"store", "data", "chunks"}
         /\ server'.phase = "chunks" \/ server'.written = server.written
<1>1. /\ server.phase = "chunks" /\ server \in ServerType
      /\ toClient \in Seq(ToClientType)
      /\ server.written \in 0..BufferSize /\ server.chunk \in Nat
      /\ server.retries \in 0..MaxRetries
      /\ UNCHANGED <<client, toServer, dgrams, cancels, stored, puts, intime>>
  BY ServerFields DEF Typed, TypeOK, TakeChunk, AwaitChunk
<1>2. server.file \in Files
  BY <1>1 DEF Typed, NamedInv
<1>3. \A n \in DOMAIN chunks' : n \in DOMAIN chunks /\ chunks'[n] = chunks[n]
  BY DEF TakeChunk, AwaitChunk
<1>4. /\ toServer' \in Seq(ToServerType) /\ stored' \subseteq Files /\ intime' \in BOOLEAN
      /\ buffer \in [0..(BufferSize - 1) -> {NoByte} \cup (Files \X (0..BufferSize))]
  BY <1>1 DEF Typed, TypeOK
<1>5. CASE StartFrom(server.written) /\ buffer' = buffer
  <2> DEFINE p == IF server.written = server.total THEN "store" ELSE "data"
  <2>1. server' = [server EXCEPT !.phase = p] /\ p \in {"store", "data"}
    BY <1>5 DEF StartFrom
  <2> HIDE DEF p
  <2>2. /\ server' \in ServerType /\ server'.file = server.file
        /\ server'.phase = p /\ server'.written = server.written
        /\ server'.total = server.total
    BY <1>1, <2>1 DEF ServerType
  <2>3. toClient' \in Seq(ToClientType)
    BY <1>1, <1>5, LinesToClient, AppendProperties DEF StartFrom
  <2>4. Typed'
    BY <1>1, <1>2, <1>3, <1>4, <1>5, <2>2, <2>3, ServerTyped
  <2> QED BY <1>1, <2>1, <2>2, <2>4
<1>6. CASE server.retries + 1 < MaxRetries /\ server' = WaitedFor(server)
           /\ UNCHANGED <<toClient, buffer>>
  <2> DEFINE r == server.retries + 1
  <2>1. r \in 0..MaxRetries
    <3>1. MaxRetries \in Nat /\ server.retries \in Nat /\ server.retries + 1 < MaxRetries
      BY <1>1, <1>6, TransferAssumption
    <3> QED BY <3>1
  <2>2. server' = [server EXCEPT !.retries = r]
    BY <1>6 DEF WaitedFor
  <2> HIDE DEF r
  <2>3. /\ server' \in ServerType /\ server'.file = server.file
        /\ server'.phase = "chunks" /\ server'.total = server.total
    BY <1>1, <2>1, <2>2 DEF ServerType
  <2>4. Typed'
    BY <1>1, <1>2, <1>3, <1>4, <1>6, <2>3, ServerTyped
  <2> QED BY <1>1, <2>3, <2>4
<1>7. CASE TakeChunk /\ ~(StartFrom(server.written) /\ buffer' = buffer)
  <2> DEFINE d == chunks[server.chunk]
             w == server.written + (d.to - d.from)
             k == server.chunk + 1
  <2>1. /\ Wanted(d) /\ buffer' = Written(buffer, server.written, d)
        /\ server' = [server EXCEPT !.chunk = k, !.written = w]
        /\ toClient' = toClient /\ server.chunk \in DOMAIN chunks
    BY <1>7 DEF TakeChunk
  <2>2. d \in Piece_
    BY <2>1 DEF Typed, TypeOK
  <2>3. w \in 0..BufferSize /\ k \in Nat
    <3> DEFINE from == d.from
               to   == d.to
    <3>1. to - from <= BufferSize - server.written
      BY <2>1 DEF Wanted
    <3>2. to \in Nat /\ from \in Nat /\ from < to
      BY <2>2, TransferAssumption DEF Piece_
    <3>3. server.written \in 0..BufferSize /\ BufferSize \in Nat
      BY <1>1, TransferAssumption
    <3> HIDE DEF from, to
    <3>4. server.written + (to - from) \in 0..BufferSize
      BY <3>1, <3>2, <3>3
    <3> QED BY <1>1, <3>4 DEF from, to
  <2> HIDE DEF w, k
  <2>4. /\ server' \in ServerType /\ server'.file = server.file
        /\ server'.phase = "chunks" /\ server'.total = server.total
    BY <1>1, <2>1, <2>3 DEF ServerType
  <2>5. server.written \in Nat
    BY <1>1, TransferAssumption
  <2>6. buffer' \in [0..(BufferSize - 1) -> {NoByte} \cup (Files \X (0..BufferSize))]
    <3> HIDE DEF d
    <3> QED BY <1>4, <2>1, <2>2, <2>5, WrittenType
  <2>7. Typed'
    BY <1>1, <1>2, <1>3, <1>4, <2>1, <2>4, <2>6, ServerTyped
  <2> QED BY <1>1, <2>4, <2>7
<1> QED BY <1>5, <1>6, <1>7 DEF AwaitChunk

LEMMA ReceiveLineTyped ==
  ASSUME Typed, ReceiveLine
  PROVE  /\ Typed' /\ server'.file = server.file /\ server.phase = "data"
         /\ server'.phase \in {"store", "data", "refuse"}
         /\ server'.total = server.total
<1> DEFINE d == Head(toServer).data
           w == server.written + (d.to - d.from)
           p == IF AllReceived(w) THEN "store" ELSE server.phase
<1>1. /\ server.phase = "data" /\ server \in ServerType
      /\ toServer # <<>> /\ toServer' = Tail(toServer) /\ Head(toServer).type = "data"
      /\ toClient \in Seq(ToClientType) /\ server.written \in 0..BufferSize
      /\ UNCHANGED <<client, chunks, dgrams, cancels, stored, puts, intime>>
  BY ServerFields DEF Typed, TypeOK, ReceiveLine
<1>2. server.file \in Files
  BY <1>1 DEF Typed, NamedInv
<1>3. d \in Piece_
  BY <1>1, TailTyped, ServerLine
<1>4. toServer' \in Seq(ToServerType)
  BY <1>1, TailTyped
<1>5. /\ stored' \subseteq Files /\ intime' \in BOOLEAN
      /\ buffer \in [0..(BufferSize - 1) -> {NoByte} \cup (Files \X (0..BufferSize))]
  BY <1>1 DEF Typed, TypeOK
<1>6. CASE server' = [server EXCEPT !.phase = "refuse"] /\ UNCHANGED <<buffer, toClient>>
  <2>1. /\ server' \in ServerType /\ server'.file = server.file
        /\ server'.phase = "refuse" /\ server'.total = server.total
    BY <1>1, <1>6 DEF ServerType
  <2>2. Typed'
    BY <1>1, <1>2, <1>4, <1>5, <1>6, <2>1, ServerTyped
  <2> QED BY <1>1, <2>1, <2>2
<1>7. CASE /\ w <= MaxSize /\ buffer' = Written(buffer, server.written, d)
           /\ server' = [server EXCEPT !.written = w, !.phase = p]
           /\ toClient' \in {toClient, Append(toClient, More(NoOffset))}
  <2>1. w \in 0..BufferSize /\ server.written \in Nat
    <3> DEFINE from == d.from
               to   == d.to
    <3>1. to \in Nat /\ from \in Nat /\ from < to
      BY <1>3, TransferAssumption DEF Piece_
    <3>2. server.written + (to - from) <= MaxSize
      BY <1>7
    <3>3. /\ server.written \in 0..BufferSize /\ BufferSize \in Nat /\ MaxSize \in Nat
          /\ MaxSize <= BufferSize
      BY <1>1, TransferAssumption
    <3> HIDE DEF from, to
    <3>4. server.written + (to - from) \in 0..BufferSize /\ server.written \in Nat
      BY <3>1, <3>2, <3>3
    <3> QED BY <3>4 DEF from, to
  <2>2. p \in {"store", "data"}
    BY <1>1
  <2> HIDE DEF w, p
  <2>3. /\ server' \in ServerType /\ server'.file = server.file
        /\ server'.phase = p /\ server'.total = server.total
    BY <1>1, <1>7, <2>1, <2>2 DEF ServerType
  <2>4. buffer' \in [0..(BufferSize - 1) -> {NoByte} \cup (Files \X (0..BufferSize))]
    <3> HIDE DEF d
    <3> QED BY <1>3, <1>5, <1>7, <2>1, WrittenType
  <2>5. toClient' \in Seq(ToClientType)
    <3>1. More(NoOffset) \in ToClientType
      BY LinesToClient
    <3> QED BY <1>1, <1>7, <3>1, AppendProperties
  <2>6. Typed'
    BY <1>1, <1>2, <1>4, <1>5, <2>3, <2>4, <2>5, ServerTyped
  <2> QED BY <1>1, <2>2, <2>3, <2>6
<1>8. \/ server' = [server EXCEPT !.phase = "refuse"] /\ UNCHANGED <<buffer, toClient>>
      \/ /\ w <= MaxSize /\ buffer' = Written(buffer, server.written, d)
         /\ server' = [server EXCEPT !.written = w, !.phase = p]
         /\ toClient' \in {toClient, Append(toClient, More(NoOffset))}
  BY DEF ReceiveLine
<1> QED BY <1>6, <1>7, <1>8

LEMMA ReceiveMixedTyped ==
  ASSUME Typed, ReceiveMixed
  PROVE  /\ Typed' /\ server'.file = server.file /\ server.phase = "data"
         /\ server'.phase \in {"prompt", "refuse"}
<1>1. /\ server.phase = "data" /\ server \in ServerType
      /\ UNCHANGED <<client, buffer, chunks, dgrams, cancels, stored, puts, intime>>
  BY DEF Typed, TypeOK, ReceiveMixed
<1>2. server.file \in Files
  BY <1>1 DEF Typed, NamedInv
<1>3. PICK k \in 1..Len(toServer) :
        \/ /\ toServer' = <<[type |-> "rest"]>> \o SubSeq(toServer, k + 1, Len(toServer))
           /\ toClient' = toClient \o <<[type |-> "error"], [type |-> "noise"]>>
        \/ /\ toServer' = SubSeq(toServer, k + 1, Len(toServer))
           /\ toClient' = toClient
  BY DEF ReceiveMixed
<1>4. toServer' \in Seq(ToServerType)
  BY <1>3, RestTyped
<1>5. toClient' \in Seq(ToClientType)
  <2> DEFINE e == [type |-> "error"]
             n == [type |-> "noise"]
  <2>1. e \in ToClientType /\ n \in ToClientType
    BY LinesToClient
  <2>2. toClient' = toClient \/ toClient' = toClient \o <<e, n>>
    BY <1>3
  <2> HIDE DEF e, n
  <2>3. <<e, n>> \in Seq(ToClientType)
    BY <2>1
  <2> QED BY <2>2, <2>3, ConcatProperties DEF Typed, TypeOK
<1>6. PICK p \in {"prompt", "refuse"} : server' = [server EXCEPT !.phase = p]
  BY DEF ReceiveMixed
<1>7. server' \in ServerType /\ server'.file = server.file /\ server'.phase = p
  BY <1>1, <1>6 DEF ServerType
<1>8. /\ buffer' \in [0..(BufferSize - 1) -> {NoByte} \cup (Files \X (0..BufferSize))]
      /\ stored' \subseteq Files /\ intime' \in BOOLEAN
  BY <1>1 DEF Typed, TypeOK
<1>9. Typed'
  BY <1>1, <1>2, <1>4, <1>5, <1>7, <1>8, ServerTyped
<1> QED BY <1>1, <1>7, <1>9

\* The end of a command, from the content on.
LEMMA EndTyped ==
  ASSUME Typed, Store \/ ClearChunks \/ Refuse
  PROVE  /\ Typed' /\ server'.file = server.file
         /\ server'.phase \in IF Store THEN {"clear", "refuse"} ELSE {"prompt"}
<1>1. /\ server.phase # "prompt" /\ server \in ServerType
      /\ UNCHANGED <<client, toServer, buffer, dgrams, cancels, puts, intime>>
      /\ stored' \in {stored, stored \cup {server.file}}
  BY DEF Typed, TypeOK, Store, ClearChunks, Refuse
<1>2. server.file \in Files
  BY <1>1 DEF Typed, NamedInv
<1>3. PICK p \in IF Store THEN {"clear", "refuse"} ELSE {"prompt"} :
        server' = [server EXCEPT !.phase = p]
  BY DEF Store, ClearChunks, Refuse
<1>4. p \in {"clear", "refuse", "prompt"}
  BY <1>3
<1>5. server' \in ServerType /\ server'.file = server.file /\ server'.phase = p
  BY <1>1, <1>3, <1>4 DEF ServerType
<1>6. \A n \in DOMAIN chunks' : n \in DOMAIN chunks /\ chunks'[n] = chunks[n]
  <2>1. chunks' = chunks \/ chunks' = <<>>
    BY DEF Store, ClearChunks, Refuse
  <2> QED BY <2>1
<1>7. toClient' \in Seq(ToClientType)
  <2>1. toClient \in Seq(ToClientType)
    BY DEF Typed, TypeOK
  <2>2. [type |-> "okay"] \in ToClientType /\ [type |-> "error"] \in ToClientType
    BY LinesToClient
  <2> QED BY <2>1, <2>2, AppendProperties DEF Store, ClearChunks, Refuse
<1>8. /\ toServer' \in Seq(ToServerType) /\ stored' \subseteq Files /\ intime' \in BOOLEAN
      /\ buffer' \in [0..(BufferSize - 1) -> {NoByte} \cup (Files \X (0..BufferSize))]
  BY <1>1, <1>2 DEF Typed, TypeOK
<1>9. Typed'
  BY <1>1, <1>2, <1>5, <1>6, <1>7, <1>8, ServerTyped
<1> QED BY <1>3, <1>5, <1>9

\* No line comes, or the server ends.
LEMMA LostTyped ==
  ASSUME Typed, LineLost \/ ServerDies
  PROVE  /\ Typed' /\ server'.file = server.file
         /\ server'.phase = IF LineLost THEN "refuse" ELSE server.phase
         /\ server'.total = server.total /\ server'.written = server.written
         /\ server'.chunk = server.chunk
<1>1. /\ server \in ServerType /\ intime \in BOOLEAN
      /\ UNCHANGED <<client, toServer, toClient, buffer, chunks, dgrams, cancels, stored, puts>>
  BY DEF Typed, TypeOK, LineLost, ServerDies
<1>2. /\ server' \in ServerType /\ server'.file = server.file
      /\ server'.phase = IF LineLost THEN "refuse" ELSE server.phase
      /\ server'.total = server.total /\ server'.written = server.written
      /\ server'.chunk = server.chunk
  <2>1. CASE LineLost
    BY <1>1, <2>1 DEF LineLost, ServerType
  <2>2. CASE ~LineLost
    BY <1>1, <2>2 DEF ServerDies, ServerType
  <2> QED BY <2>1, <2>2
<1>3. server'.phase # "prompt" => server.file \in Files
  <2>1. LineLost => server.phase # "prompt"
    BY DEF LineLost
  <2> QED BY <1>2, <2>1 DEF Typed, NamedInv
<1>4. intime' \in BOOLEAN
  <2>1. CASE LineLost
    <3>1. intime' = (intime /\ client.phase = "gone")
      BY <2>1 DEF LineLost
    <3> QED BY <3>1
  <2>2. CASE ServerDies
    BY <1>1, <2>2 DEF ServerDies
  <2> QED BY <2>1, <2>2
<1>5. /\ toServer' \in Seq(ToServerType) /\ toClient' \in Seq(ToClientType)
      /\ buffer' \in [0..(BufferSize - 1) -> {NoByte} \cup (Files \X (0..BufferSize))]
      /\ stored' \subseteq Files
  BY <1>1 DEF Typed, TypeOK
<1> QED BY <1>1, <1>2, <1>3, <1>4, <1>5, ServerTyped

LEMMA InitTyped == Init => Typed
<1> SUFFICES ASSUME Init PROVE Typed
  OBVIOUS
<1>1. client \in ClientType /\ client.phase = "prompt"
  BY TransferAssumption DEF Init, ClientType
<1>2. server \in ServerType /\ server.phase = "prompt"
  BY TransferAssumption DEF Init, ServerType
<1>3. toServer = <<>> /\ toClient = <<>> /\ DOMAIN chunks = {} /\ dgrams = {} /\ cancels = {}
  BY DEF Init
<1>4. toServer \in Seq(ToServerType) /\ toClient \in Seq(ToClientType)
  BY <1>3, EmptySeq
<1>5. buffer \in [0..(BufferSize - 1) -> {NoByte} \cup (Files \X (0..BufferSize))]
  BY DEF Init
<1>6. stored \subseteq Files /\ puts \in 0..MaxPuts /\ intime \in BOOLEAN
  BY TransferAssumption DEF Init
<1>7. TypeOK
  BY <1>1, <1>2, <1>3, <1>4, <1>5, <1>6 DEF TypeOK
<1> QED BY <1>1, <1>2, <1>3, <1>7 DEF Typed, PacketInv, NamedInv, Busy

LEMMA TypedKept ==
  ASSUME Typed, [Next]_vars
  PROVE  Typed'
<1>1. CASE \E f \in Files : Put(f)
  BY <1>1, PutTyped
<1>2. CASE ClientStep
  BY <1>2, SendPacketTyped, SendPacketFailsTyped, SendHeaderTyped, FirstReplyTyped,
     SendLineTyped, ReplyTyped, LeavingTyped DEF ClientStep
<1>3. CASE \E d \in dgrams : Deliver(d)
  BY <1>3, DeliverTyped
<1>4. CASE ServerStep
  BY <1>4, ReadCommandTyped, ReadGarbageTyped, SkipTransferTyped, ReadHeaderTyped, ChunksTyped,
     ReceiveLineTyped, ReceiveMixedTyped, EndTyped, LostTyped DEF ServerStep
<1>5. CASE ClientDies \/ ServerDies
  BY <1>5, LeavingTyped, LostTyped
<1>6. CASE UNCHANGED vars
  BY <1>6 DEF vars, Typed, TypeOK, PacketInv, NamedInv, Busy
<1> QED BY <1>1, <1>2, <1>3, <1>4, <1>5, <1>6 DEF Next, Quiescent

-----------------------------------------------------------------------------
(* Each action keeps the ends in step that are in step.                    *)

\* A step of the client, as far as the server sees it.
ClientMoves ==
  /\ client'.file = client.file
  /\ UNCHANGED <<server, buffer, chunks, cancels, stored, puts>>

LEMMA ClientMovesKeeps ==
  ASSUME TransferInv, ClientMoves, UNCHANGED toServer
  PROVE  ReceiverInv' /\ LinesInv' /\ BeginningInv'
<1>1. ReceiverInv'
  BY DEF TransferInv, ClientMoves, ReceiverInv
<1>2. LinesInv'
  BY DEF TransferInv, ClientMoves, LinesInv
<1>3. BeginningInv'
  BY DEF TransferInv, ClientMoves, BeginningInv
<1> QED BY <1>1, <1>2, <1>3

\* A client that is gone leaves all as it is.
LEMMA GoneKeeps ==
  ASSUME TransferInv, ResponseLost \/ ClientDies
  PROVE  TransferInv' /\ client'.phase = "gone"
<1>1. Typed' /\ client'.file = client.file
  BY LeavingTyped DEF TransferInv
<1>2. client'.phase = "gone"
  BY DEF ResponseLost, ClientDies, TransferInv, Typed, TypeOK, ClientType
<1>3. ClientMoves /\ UNCHANGED toServer
  BY <1>1 DEF ResponseLost, ClientDies, ClientMoves
<1>4. ClientInv'
  BY <1>2 DEF ClientInv
<1> QED BY <1>1, <1>2, <1>3, <1>4, ClientMovesKeeps DEF TransferInv

LEMMA Replies ==
  /\ Okay # Error /\ Okay # Skip /\ Error # Skip
  /\ \A n : More(n) # Okay /\ More(n) # Error /\ More(n) # Skip
  /\ \A n : More(n).type = "more" /\ More(n).offset = n
  /\ Skip.type = "skip" /\ Okay.type = "okay" /\ Error.type = "error"
BY DEF Okay, Error, Skip, More

LEMMA ResponseKeeps ==
  ASSUME TransferInv, Response
  PROVE  TransferInv' /\ client'.file = client.file /\ client'.phase = "prompt" /\ Answered
<1>1. Typed' /\ client'.file = client.file
  BY ReplyTyped DEF TransferInv
<1>2. Answered
  BY DEF TransferInv, ClientInv, Response, Underway, Working
<1>3. PICK x \in {Okay, Error} : toClient = <<x>>
  BY <1>2 DEF Answered
<1>4. ~InPassing(Head(toClient)) /\ toClient' = <<>>
  BY <1>3, Replies, ShortSequences DEF InPassing, Response
<1>5. client'.phase = "prompt"
  BY <1>4 DEF Response, TransferInv, Typed, TypeOK, ClientType
<1>6. ClientMoves /\ UNCHANGED toServer
  BY <1>1 DEF Response, ClientMoves
<1>7. ClientInv'
  BY <1>2, <1>4, <1>5, <1>6 DEF ClientInv, Answered, ClientMoves
<1> QED BY <1>1, <1>2, <1>5, <1>6, <1>7, ClientMovesKeeps DEF TransferInv

LEMMA LineReplyKeeps ==
  ASSUME TransferInv, LineReply
  PROVE  /\ TransferInv'
         /\ client'.file = client.file /\ client'.pos = client.pos
         /\ \/ client'.phase = "send"
            \/ client'.phase = "prompt" /\ Answered
<1>1. Typed' /\ client'.file = client.file /\ client'.pos = client.pos
  BY ReplyTyped DEF TransferInv
<1>2. client.phase = "ack" /\ client.file \in Files /\ toClient # <<>> /\ toClient' = Tail(toClient)
  BY DEF LineReply, TransferInv, ClientInv
<1>3. ClientMoves /\ UNCHANGED toServer
  BY <1>1 DEF LineReply, ClientMoves
<1>4. \/ /\ toServer = <<>> /\ toClient = <<More(NoOffset)>> /\ server.phase = "data"
         /\ client.pos = server.written
      \/ Answered
  BY <1>2 DEF TransferInv, ClientInv, Working
<1>5. CASE /\ toServer = <<>> /\ toClient = <<More(NoOffset)>> /\ server.phase = "data"
           /\ client.pos = server.written
  <2>1. Head(toClient) = More(NoOffset) /\ toClient' = <<>>
    BY <1>2, <1>5, ShortSequences
  <2>2. client'.phase = "send"
    BY <2>1 DEF LineReply, TransferInv, Typed, TypeOK, ClientType
  <2>4. ClientInv'
    BY <1>1, <1>2, <1>3, <1>5, <2>1, <2>2 DEF ClientInv, ClientMoves
  <2> QED BY <1>1, <1>3, <2>2, <2>4, ClientMovesKeeps DEF TransferInv
<1>6. CASE Answered
  <2>1. Head(toClient) # More(NoOffset) /\ toClient' = <<>>
    <3>1. PICK x \in {Okay, Error} : toClient = <<x>>
      BY <1>6 DEF Answered
    <3>2. x # More(NoOffset)
      BY Replies
    <3> QED BY <1>2, <3>1, <3>2, ShortSequences
  <2>2. client'.phase = "prompt"
    BY <2>1 DEF LineReply, PutFails, TransferInv, Typed, TypeOK, ClientType
  <2>3. ClientInv'
    BY <1>1, <1>3, <1>6, <2>1, <2>2 DEF ClientInv, ClientMoves, Answered
  <2> QED BY <1>1, <1>3, <1>6, <2>2, <2>3, ClientMovesKeeps DEF TransferInv
<1> QED BY <1>4, <1>5, <1>6

LEMMA PutKeeps ==
  ASSUME NEW f \in Files, TransferInv, Put(f)
  PROVE  TransferInv'
<1>1. /\ client.phase = "prompt" /\ toServer = <<>> /\ toClient = <<>> /\ server.phase = "prompt"
      /\ toServer' = <<PutLine(f)>>
      /\ UNCHANGED <<server, toClient, buffer, chunks, dgrams, cancels, stored>>
  BY ShortSequences DEF TransferInv, ClientInv, Put, PutLine
<1>2. Typed' /\ client'.phase \in {"ahead", "header"} /\ client'.file = f
  BY PutTyped DEF TransferInv
<1>3. ReceiverInv' /\ BeginningInv'
  BY <1>1 DEF ReceiverInv, BeginningInv
<1>4. LinesInv'
  BY <1>1, <1>2 DEF LinesInv
<1>5. ClientInv'
  BY <1>1, <1>2 DEF ClientInv
<1> QED BY <1>2, <1>3, <1>4, <1>5 DEF TransferInv

LEMMA SendPacketKeeps ==
  ASSUME TransferInv, SendPacket \/ SendPacketFails
  PROVE  TransferInv'
<1>1. Typed' /\ client'.file = client.file /\ client'.phase \in {"ahead", "header"}
  BY SendPacketTyped, SendPacketFailsTyped DEF TransferInv
<1>2. ClientMoves /\ UNCHANGED <<toServer, toClient>> /\ client.phase = "ahead"
  BY <1>1 DEF SendPacket, SendPacketFails, ClientMoves
<1>3. ClientInv'
  BY <1>1, <1>2 DEF TransferInv, ClientInv, ClientMoves
<1> QED BY <1>1, <1>2, <1>3, ClientMovesKeeps DEF TransferInv

LEMMA SendHeaderKeeps ==
  ASSUME TransferInv, SendHeader
  PROVE  TransferInv'
<1> DEFINE f == client.file
           appended == TotalSize[f] <= MaxAppended
           l == [type |-> IF appended THEN "whole" ELSE "header",
                 total |-> TotalSize[f], udp |-> client.helper,
                 data |-> Piece(f, 0, TotalSize[f])]
<1>1. /\ client.phase = "header" /\ f \in Files /\ client.helper \in BOOLEAN /\ toClient = <<>>
      /\ \/ server.phase = "prompt" /\ toServer = <<PutLine(f)>>
         \/ server.phase \in {"existing", "header"} /\ toServer = <<>>
  BY ClientFields DEF TransferInv, Typed, TypeOK, ClientInv, SendHeader
<1>2. /\ toServer' = Append(toServer, l)
      /\ UNCHANGED <<server, toClient, buffer, chunks, dgrams, cancels, stored, puts>>
  BY DEF SendHeader
<1>3. IsHeader(l, f) /\ l.type = IF appended THEN "whole" ELSE "header"
  BY <1>1 DEF IsHeader
<1>4. /\ Typed' /\ client'.file = f
      /\ client'.phase = IF appended THEN "response" ELSE "first"
  BY SendHeaderTyped DEF TransferInv
<1> HIDE DEF l, appended
<1>5. \/ server.phase = "prompt" /\ toServer' = <<PutLine(f), l>>
      \/ server.phase \in {"existing", "header"} /\ toServer' = <<l>>
  <2>1. CASE server.phase = "prompt" /\ toServer = <<PutLine(f)>>
    <3> HIDE DEF f
    <3> QED BY <1>2, <2>1, ShortSequences
  <2>2. CASE server.phase \in {"existing", "header"} /\ toServer = <<>>
    BY <1>2, <2>2, ShortSequences
  <2> QED BY <1>1, <2>1, <2>2
<1>6. ReceiverInv' /\ BeginningInv'
  BY <1>2, <1>4 DEF TransferInv, ReceiverInv, BeginningInv
<1>7. LinesInv'
  <2>1. server.phase # "prompt" => server.file = f
    BY DEF TransferInv, ReceiverInv
  <2> QED BY <1>1, <1>2, <1>3, <1>4, <1>5, <2>1 DEF LinesInv
<1>8. ASSUME NEW t, l.type = t PROVE Underway(t)'
  <2>1. toClient' = <<>> /\ server' = server
    BY <1>1, <1>2
  <2>2. CASE server.phase = "prompt" /\ toServer' = <<PutLine(f), l>>
    <3>1. Len(toServer') = 2 /\ toServer'[2] = l
      BY <2>2, ShortSequences
    <3> QED BY <1>8, <2>1, <2>2, <3>1 DEF Underway
  <2>3. CASE server.phase \in {"existing", "header"} /\ toServer' = <<l>>
    <3>1. Len(toServer') = 1 /\ toServer'[1] = l
      BY <2>3, ShortSequences
    <3> QED BY <1>8, <2>1, <2>3, <3>1 DEF Underway
  <2> QED BY <1>5, <2>2, <2>3
<1>9. ClientInv'
  BY <1>1, <1>3, <1>4, <1>8 DEF ClientInv
<1> QED BY <1>4, <1>6, <1>7, <1>9 DEF TransferInv

LEMMA FirstReplyKeeps ==
  ASSUME TransferInv, FirstReply
  PROVE  /\ TransferInv'
         /\ client'.file = client.file /\ client'.phase \in {"send", "response"}
<1>1. /\ client.phase = "first" /\ client.file \in Files /\ client \in ClientType
      /\ toClient # <<>> /\ toClient' = Tail(toClient) /\ FirstReplied
      /\ UNCHANGED <<server, toServer, buffer, chunks, dgrams, cancels, stored, puts>>
  BY DEF TransferInv, Typed, TypeOK, ClientInv, FirstReply, Underway
<1>2. Typed' /\ client'.file = client.file
  BY FirstReplyTyped DEF TransferInv
<1> DEFINE total == TotalSize[client.file]
<1>3. ASSUME Head(toClient) = Skip
      PROVE  client' = Transferred(client)
  <2>1. Head(toClient).type = "skip"
    BY <1>3 DEF Skip
  <2> QED BY <2>1 DEF FirstReply
<1>4. ASSUME NEW o, Head(toClient) = More(o)
      PROVE  client' = AfterOffset(o)
  <2>1. Head(toClient).type = "more" /\ Head(toClient).offset = o
    BY <1>4 DEF More
  <2> QED BY <2>1 DEF FirstReply, AfterOffset, WithOffset
<1>5. total \in Nat /\ total <= BufferSize /\ BufferSize \in Nat /\ total \in 0..BufferSize
  BY <1>1, SizeType, TransferAssumption
<1>6. CASE Head(toClient) = Skip /\ (Working' \/ Answered')
  <2>1. client'.phase = "response"
    BY <1>1, <1>3, <1>6, TransferredType
  <2>2. ClientInv'
    BY <1>1, <1>2, <1>6, <2>1 DEF ClientInv
  <2> QED BY <1>1, <1>2, <2>1, <2>2, ClientMovesKeeps DEF TransferInv, ClientMoves
<1>7. CASE Head(toClient) = More(total) /\ (Working' \/ Answered')
  <2>1. client'.phase = "response"
    <3>1. client' = Transferred(WithOffset(total))
      BY <1>4, <1>7 DEF AfterOffset
    <3> QED BY <1>1, <1>5, <3>1, WithOffsetType, TransferredType
  <2>2. ClientInv'
    BY <1>1, <1>2, <1>7, <2>1 DEF ClientInv
  <2> QED BY <1>1, <1>2, <2>1, <2>2, ClientMovesKeeps DEF TransferInv, ClientMoves
<1>8. CASE /\ toServer = <<>> /\ server.phase = "data"
           /\ \E o : toClient = <<More(o)>> /\ SaysWritten(o)
  <2>1. PICK o : toClient = <<More(o)>> /\ SaysWritten(o)
    BY <1>8
  <2>2. Head(toClient) = More(o) /\ toClient' = <<>>
    BY <1>1, <2>1, ShortSequences
  <2>3. server.written \in 0..BufferSize /\ server.written < total
    BY <1>8 DEF TransferInv, Typed, TypeOK, ServerType, ReceiverInv
  <2>4. /\ o \in {NoOffset} \cup 0..BufferSize /\ o # total
        /\ (IF o = NoOffset THEN 0 ELSE o) = server.written
    BY <1>5, <2>1, <2>3 DEF NoOffset, SaysWritten
  <2>5. client' = [WithOffset(o) EXCEPT !.phase = "send"]
    BY <1>4, <2>2, <2>4 DEF AfterOffset
  <2>6. client'.phase = "send" /\ client'.pos = server.written
    <3>1. WithOffset(o) \in ClientType /\ WithOffset(o).pos = server.written
      BY <1>1, <2>4, WithOffsetType
    <3> QED BY <2>5, <3>1 DEF ClientType
  <2>7. ClientInv'
    BY <1>1, <1>2, <1>8, <2>2, <2>6 DEF ClientInv
  <2> QED BY <1>1, <1>2, <2>6, <2>7, ClientMovesKeeps DEF TransferInv, ClientMoves
<1>9. CASE toServer = <<>> /\ toClient = <<Skip>> /\ server.phase = "clear"
  BY <1>1, <1>6, <1>9, ShortSequences DEF Working
<1>10. CASE toServer = <<>> /\ toClient = <<Skip, Okay>> /\ server.phase = "prompt"
  BY <1>1, <1>6, <1>10, ShortSequences DEF Answered
<1>11. CASE /\ toServer = <<>> /\ server.phase \in {"store", "clear", "refuse"}
            /\ toClient = <<More(total)>>
  BY <1>1, <1>7, <1>11, ShortSequences DEF Working
<1>12. CASE /\ toServer = <<>> /\ server.phase = "prompt"
            /\ \/ toClient = <<More(total), Okay>>
               \/ toClient = <<More(total), Error>>
  <2>1. PICK x \in {Okay, Error} : toClient = <<More(total), x>>
    BY <1>12
  <2>2. Head(toClient) = More(total) /\ toClient' = <<x>>
    BY <1>1, <2>1, ShortSequences
  <2>3. Answered'
    BY <1>1, <1>12, <2>2 DEF Answered
  <2> QED BY <1>7, <2>2, <2>3
<1> QED BY <1>1, <1>8, <1>9, <1>10, <1>11, <1>12 DEF FirstReplied

LEMMA SendLineKeeps ==
  ASSUME TransferInv, SendLine
  PROVE  /\ TransferInv'
         /\ client'.phase \in {"ack", "response"}
         /\ client'.phase = "ack" =>
              /\ client'.pos = client.pos + MaxUnencoded
              /\ client'.pos <= TotalSize[client.file]
<1> DEFINE f   == client.file
           to  == LesserOf(client.pos + MaxUnencoded, TotalSize[f])
           eof == client.pos + MaxUnencoded > TotalSize[f]
           l   == [type |-> "data", data |-> Piece(f, client.pos, to)]
<1>1. /\ client.phase = "send" /\ f \in Files /\ client \in ClientType /\ client.pos \in Nat
      /\ toServer = <<>> /\ toClient = <<>> /\ server.phase = "data"
      /\ client.pos = server.written /\ server.written < TotalSize[f] /\ server.file = f
  BY ClientFields DEF TransferInv, Typed, TypeOK, ClientInv, ReceiverInv, SendLine
<1>2. /\ to \in Nat /\ client.pos < to /\ to <= TotalSize[f] /\ ~(to <= client.pos)
      /\ IF eof THEN to = TotalSize[f] ELSE to = client.pos + MaxUnencoded
  <2>1. TotalSize[f] \in Nat /\ TotalSize[f] <= BufferSize /\ BufferSize \in Nat
        /\ MaxUnencoded \in Nat \ {0}
    BY <1>1, SizeType, TransferAssumption
  <2> QED BY <1>1, <2>1 DEF LesserOf
<1>3. /\ toServer' = <<l>>
      /\ UNCHANGED <<server, toClient, buffer, chunks, dgrams, cancels, stored, puts>>
  BY <1>1, <1>2, ShortSequences DEF SendLine
<1>4. IsData(l, f, server.written) /\ l.data.to = to
  BY <1>1, <1>2 DEF IsData, Piece
<1>5. /\ Typed' /\ client'.file = f /\ client'.pos = to
      /\ client'.phase = IF eof THEN "response" ELSE "ack"
  BY SendLineTyped DEF TransferInv
<1> HIDE DEF l, to, eof
<1>6. ReceiverInv' /\ BeginningInv'
  BY <1>3, <1>5 DEF TransferInv, ReceiverInv, BeginningInv
<1>7. LinesInv'
  BY <1>1, <1>3, <1>4 DEF LinesInv
<1>8. ClientInv'
  BY <1>1, <1>2, <1>3, <1>4, <1>5, ShortSequences DEF ClientInv
<1> QED BY <1>2, <1>5, <1>6, <1>7, <1>8 DEF TransferInv

LEMMA DeliverKeeps ==
  ASSUME NEW d \in dgrams, TransferInv, Deliver(d)
  PROVE  TransferInv'
<1>1. UNCHANGED <<client, server, toServer, toClient, buffer, dgrams, stored, puts>>
  BY DEF Deliver
<1>2. Typed'
  BY DeliverTyped DEF TransferInv
<1>3. ReceiverInv' /\ LinesInv' /\ BeginningInv'
  BY <1>1 DEF TransferInv, ReceiverInv, LinesInv, BeginningInv
<1>4. ClientInv'
  BY <1>1 DEF TransferInv, ClientInv, Underway, Working, Answered, FirstReplied, SaysWritten
<1> QED BY <1>2, <1>3, <1>4 DEF TransferInv

LEMMA ReadCommandKeeps ==
  ASSUME TransferInv, ReadCommand
  PROVE  TransferInv'
<1> DEFINE f == client.file
<1>1. /\ server.phase = "prompt" /\ toServer # <<>> /\ f \in Files /\ toServer' = Tail(toServer)
      /\ \/ toServer = <<PutLine(f)>>
         \/ \E l : IsHeader(l, f) /\ toServer = <<PutLine(f), l>>
      /\ UNCHANGED <<client, toClient, buffer, chunks, dgrams, cancels, stored, puts>>
  BY DEF TransferInv, LinesInv, ReadCommand
<1>2. Head(toServer).file = f
  BY <1>1, ShortSequences DEF PutLine
<1>3. /\ Typed' /\ server'.phase \in {"existing", "header"} /\ server'.file = f
      /\ server'.written = 0 /\ server'.chunk = 0
  BY <1>2, ReadCommandTyped DEF TransferInv
<1>4. ReceiverInv' /\ BeginningInv'
  BY <1>1, <1>3 DEF ReceiverInv, BeginningInv
<1>5. CASE toServer = <<PutLine(f)>>
  <2>1. toServer' = <<>> /\ Len(toServer) = 1
    BY <1>1, <1>5, ShortSequences
  <2>2. LinesInv'
    BY <2>1 DEF LinesInv
  <2>3. client.phase \in {"ahead", "header", "gone"} /\ (client.phase # "gone" => toClient = <<>>)
    BY <1>1, <2>1, ClientFields DEF TransferInv, Typed, TypeOK, ClientInv, Underway, Working,
       Answered, FirstReplied
  <2>4. ClientInv'
    BY <1>1, <1>3, <2>1, <2>3 DEF ClientInv
  <2> QED BY <1>3, <1>4, <2>2, <2>4 DEF TransferInv
<1>6. ASSUME NEW l, IsHeader(l, f), toServer = <<PutLine(f), l>>
      PROVE  LinesInv' /\ ClientInv'
  <2>1. toServer' = <<l>> /\ Len(toServer) = 2 /\ toServer[2] = l /\ toServer # <<PutLine(f)>>
    BY <1>1, <1>6, ShortSequences
  <2>2. LinesInv'
    BY <1>3, <1>6, <2>1 DEF LinesInv
  <2>3. /\ client.phase \in {"first", "response", "gone"}
        /\ client.phase = "first" => toClient = <<>> /\ l.type = "header"
        /\ client.phase = "response" => toClient = <<>> /\ l.type = "whole"
    BY <1>1, <2>1, ClientFields DEF TransferInv, Typed, TypeOK, ClientInv, Underway, Working,
       Answered, FirstReplied
  <2>4. Len(toServer') = 1 /\ toServer'[1] = l
    BY <2>1, ShortSequences
  <2>5. /\ client.phase = "first" => Underway("header")'
        /\ client.phase = "response" => Underway("whole")'
    BY <1>1, <1>3, <2>3, <2>4 DEF Underway
  <2>6. ClientInv'
    BY <1>1, <2>3, <2>5 DEF ClientInv
  <2> QED BY <2>2, <2>6
<1> QED BY <1>1, <1>3, <1>4, <1>5, <1>6 DEF TransferInv

\* What the server reads when it has looked up the file.
LEMMA HeaderRead ==
  ASSUME TransferInv, server.phase \in {"existing", "header"}, toServer # <<>>
  PROVE  /\ server.file \in Files /\ server.file = client.file
         /\ Tail(toServer) = <<>> /\ IsHeader(Head(toServer), server.file)
         /\ client.phase \in {"first", "response", "gone"}
         /\ client.phase # "gone" =>
              /\ toClient = <<>>
              /\ Head(toServer).type = IF client.phase = "first" THEN "header" ELSE "whole"
<1>1. server.file \in Files /\ server.file = client.file
  BY DEF TransferInv, ReceiverInv
<1>2. PICK l : IsHeader(l, server.file) /\ toServer = <<l>>
  BY DEF TransferInv, LinesInv
<1>3. Head(toServer) = l /\ Tail(toServer) = <<>> /\ toServer[1] = l /\ Len(toServer) = 1
  BY <1>2, ShortSequences
<1>4. client.phase \in {"first", "response", "gone"}
  BY ClientFields DEF TransferInv, Typed, TypeOK, ClientInv, Working, Answered
<1>5. CASE client.phase = "first"
  <2>1. Underway("header")
    BY <1>5 DEF TransferInv, ClientInv, FirstReplied
  <2> QED BY <1>1, <1>2, <1>3, <1>5, <2>1 DEF Underway
<1>6. CASE client.phase = "response"
  <2>1. Underway("whole")
    BY <1>6 DEF TransferInv, ClientInv, Working, Answered
  <2> QED BY <1>1, <1>2, <1>3, <1>6, <2>1 DEF Underway
<1> QED BY <1>1, <1>2, <1>3, <1>4, <1>5, <1>6

LEMMA SkipTransferKeeps ==
  ASSUME TransferInv, SkipTransfer
  PROVE  TransferInv'
<1>1. /\ server.phase = "existing" /\ toServer # <<>> /\ toServer' = <<>>
      /\ server.file \in Files /\ server.file = client.file
      /\ UNCHANGED <<client, buffer, chunks, dgrams, cancels, stored, puts>>
  BY HeaderRead DEF SkipTransfer
<1>2. Typed' /\ server'.phase = "clear" /\ server'.file = server.file
  BY SkipTransferTyped DEF TransferInv
<1>3. ReceiverInv' /\ BeginningInv'
  BY <1>1, <1>2 DEF TransferInv, ReceiverInv, BeginningInv
<1>4. LinesInv'
  BY <1>1 DEF LinesInv
<1>5. /\ client.phase \in {"first", "response", "gone"}
      /\ client.phase = "first" => toClient' = <<Skip>>
      /\ client.phase = "response" => toClient' = <<>>
  <2> DEFINE h == Head(toServer)
  <2>1. /\ client.phase \in {"first", "response", "gone"}
        /\ client.phase # "gone" =>
             toClient = <<>> /\ h.type = IF client.phase = "first" THEN "header" ELSE "whole"
    BY <1>1, HeaderRead
  <2>2. toClient' = toClient \o SkipReply(h)
    BY DEF SkipTransfer
  <2> HIDE DEF h
  <2>3. <<>> \o <<>> = <<>> /\ <<>> \o <<Skip>> = <<Skip>>
    <3>1. <<Skip>> \in Seq({Skip})
      <4> HIDE DEF Skip
      <4> QED OBVIOUS
    <3>2. <<>> \in Seq({Skip})
      BY EmptySeq
    <3> QED BY <3>1, <3>2, ConcatEmptySeq
  <2>4. SkipReply(h) = IF h.type = "whole" THEN <<>> ELSE <<Skip>>
    BY DEF SkipReply, Skip
  <2> HIDE DEF Skip
  <2> QED BY <2>1, <2>2, <2>3, <2>4
<1>6. client.phase = "first" => FirstReplied'
  BY <1>1, <1>2, <1>5 DEF FirstReplied
<1>7. ClientInv'
  BY <1>1, <1>2, <1>5, <1>6 DEF ClientInv, Working
<1> QED BY <1>2, <1>3, <1>4, <1>7 DEF TransferInv

LEMMA ReadHeaderKeeps ==
  ASSUME TransferInv, ReadHeader
  PROVE  TransferInv' /\ (server'.phase = "data" => server'.written = 0)
<1> DEFINE h == Head(toServer)
           f == server.file
<1>1. /\ server.phase = "header" /\ toServer # <<>> /\ toServer' = <<>>
      /\ f \in Files /\ f = client.file /\ IsHeader(h, f)
      /\ server.written = 0 /\ server.chunk = 0 /\ server \in ServerType
      /\ UNCHANGED <<client, chunks, dgrams, cancels, stored, puts>>
  BY HeaderRead, ServerFields DEF TransferInv, Typed, ReceiverInv, ReadHeader
<1>2. /\ client.phase \in {"first", "response", "gone"}
      /\ client.phase # "gone" =>
           toClient = <<>> /\ h.type = IF client.phase = "first" THEN "header" ELSE "whole"
  BY <1>1, HeaderRead
<1>3. h.total = TotalSize[f] /\ h.data = Piece(f, 0, TotalSize[f])
  BY <1>1 DEF IsHeader
<1>4. /\ TotalSize[f] \in 0..BufferSize /\ TotalSize[f] \in Nat /\ 0 < TotalSize[f]
      /\ TotalSize[f] <= BufferSize
  BY <1>1, SizeType, TransferAssumption
<1>5. LinesInv'
  BY <1>1 DEF LinesInv
<1>6. /\ Typed' /\ server'.file = f /\ server'.total = TotalSize[f]
      /\ server'.phase \in {"refuse", "store", "chunks", "data"}
      /\ server'.phase \in {"chunks", "data"} => server'.written = 0 /\ server'.chunk = 0
  BY <1>1, <1>3, ReadHeaderTyped DEF TransferInv
<1>7. CASE /\ h.type = "whole" /\ buffer' = Written(buffer, 0, h.data)
           /\ server' = [server EXCEPT !.total = h.total, !.written = h.total,
                !.phase = IF h.total > MaxSize THEN "refuse" ELSE "store"]
           /\ UNCHANGED toClient
  <2>1. server'.phase \in {"refuse", "store"} /\ server'.written = TotalSize[f]
    <3> DEFINE p == IF h.total > MaxSize THEN "refuse" ELSE "store"
    <3>1. p \in {"refuse", "store"}
      OBVIOUS
    <3>2. server' = [server EXCEPT !.total = TotalSize[f], !.written = TotalSize[f], !.phase = p]
      BY <1>3, <1>7
    <3> HIDE DEF p
    <3> QED BY <1>1, <1>4, <3>1, <3>2 DEF ServerType
  <2>2. \A i \in 0..(TotalSize[f] - 1) : buffer'[i] = <<f, i>>
    <3> DEFINE d == h.data
    <3>1. d.file = f /\ d.from = 0 /\ d.to = TotalSize[f]
      BY <1>3 DEF Piece
    <3>2. \A i \in 0..(0 - 1) : buffer[i] = <<f, i>>
      OBVIOUS
    <3>3. buffer \in [0..(BufferSize - 1) -> {NoByte} \cup (Files \X (0..BufferSize))]
      BY DEF TransferInv, Typed, TypeOK
    <3> HIDE DEF d
    <3>4. \A i \in 0..(d.to - 1) : Written(buffer, 0, d)[i] = <<f, i>>
      BY <1>1, <1>4, <3>1, <3>2, <3>3, WritingPiece
    <3> QED BY <1>7, <3>1, <3>4 DEF d
  <2>3. ReceiverInv'
    BY <1>1, <1>4, <1>6, <2>1 DEF ReceiverInv
  <2>4. BeginningInv'
    BY <1>6, <2>1, <2>2 DEF BeginningInv
  <2>5. ClientInv'
    BY <1>1, <1>2, <1>7, <2>1 DEF ClientInv, Working
  <2> QED BY <1>5, <1>6, <2>1, <2>3, <2>4, <2>5 DEF TransferInv
<1>8. CASE /\ h.type = "header" /\ UNCHANGED <<buffer, toClient>>
           /\ server' = [server EXCEPT !.total = h.total, !.phase = "chunks"]
  <2>1. server'.phase = "chunks" /\ server'.written = 0 /\ server'.chunk = 0
    BY <1>1, <1>6, <1>8 DEF ServerType
  <2>2. ReceiverInv'
    <3>1. LesserOf(Offset(0), TotalSize[f]) = 0
      BY <1>4, OffsetType DEF LesserOf
    <3>2. server'.written = LesserOf(Offset(server'.chunk), server'.total)
      BY <1>6, <2>1, <3>1
    <3> QED BY <1>1, <1>4, <1>6, <2>1, <3>2 DEF ReceiverInv
  <2>3. BeginningInv'
    BY <2>1 DEF BeginningInv
  <2>4. ClientInv'
    BY <1>1, <1>2, <1>8, <2>1 DEF ClientInv
  <2> QED BY <1>5, <1>6, <2>1, <2>2, <2>3, <2>4 DEF TransferInv
<1>9. CASE /\ h.type = "header" /\ UNCHANGED buffer
           /\ server' = [server EXCEPT !.total = h.total, !.phase = "data"]
           /\ toClient' = Append(toClient, More(NoOffset))
  <2>1. server'.phase = "data" /\ server'.written = 0
    BY <1>1, <1>6, <1>9 DEF ServerType
  <2>2. ReceiverInv'
    BY <1>1, <1>4, <1>6, <2>1 DEF ReceiverInv
  <2>3. BeginningInv'
    BY <2>1 DEF BeginningInv
  <2>4. client.phase = "first" => toClient' = <<More(NoOffset)>> /\ SaysWritten(NoOffset)'
    BY <1>2, <1>9, <2>1, ShortSequences DEF SaysWritten
  <2>5. client.phase = "first" => FirstReplied'
    BY <1>1, <2>1, <2>4 DEF FirstReplied
  <2>6. ClientInv'
    BY <1>1, <1>2, <1>9, <2>5 DEF ClientInv
  <2> QED BY <1>5, <1>6, <2>1, <2>2, <2>3, <2>6 DEF TransferInv
<1> QED BY <1>7, <1>8, <1>9 DEF ReadHeader

\* The receiver has looked for chunks long enough.
LEMMA StartFromKeeps ==
  ASSUME TransferInv, Typed', server.phase = "chunks", StartFrom(server.written),
         UNCHANGED <<client, toServer, buffer, dgrams, cancels, stored, puts>>
  PROVE  TransferInv'
<1> DEFINE w == server.written
           f == server.file
<1>1. /\ f \in Files /\ f = client.file /\ server.total = TotalSize[f] /\ toServer = <<>>
      /\ w <= server.total /\ w \in 0..BufferSize /\ server \in ServerType
      /\ TotalSize[f] \in Nat
      /\ \A i \in 0..(w - 1) : buffer[i] = <<f, i>>
  BY ServerFields, SizeType DEF TransferInv, Typed, ReceiverInv, LinesInv, BeginningInv
<1>2. client.phase \in {"first", "gone"} /\ (client.phase = "first" => toClient = <<>>)
  BY ClientFields DEF TransferInv, Typed, TypeOK, ClientInv, Underway, Working, Answered,
     FirstReplied
<1>3. /\ server'.file = f /\ server'.written = w /\ server'.total = server.total
      /\ server'.phase = IF w = server.total THEN "store" ELSE "data"
  <2> DEFINE p == IF w = server.total THEN "store" ELSE "data"
  <2>1. server' = [server EXCEPT !.phase = p] /\ p \in {"store", "data"}
    BY DEF StartFrom
  <2> HIDE DEF p
  <2>2. server'.file = f /\ server'.written = w /\ server'.total = server.total /\ server'.phase = p
    BY <1>1, <2>1 DEF ServerType
  <2> QED BY <2>2 DEF p
<1>4. ReceiverInv'
  BY <1>1, <1>3 DEF ReceiverInv
<1>5. LinesInv'
  BY <1>1 DEF LinesInv
<1>6. BeginningInv'
  BY <1>1, <1>3 DEF BeginningInv
<1>7. client.phase = "first" => toClient' = <<More(w)>>
  BY <1>2, ShortSequences DEF StartFrom
<1>8. client.phase = "first" => FirstReplied'
  <2>1. CASE w = server.total
    BY <1>1, <1>3, <1>7, <2>1 DEF FirstReplied
  <2>2. CASE w # server.total
    <3>1. PICK o : o = w
      OBVIOUS
    <3>2. SaysWritten(o)'
      BY <1>3, <3>1 DEF SaysWritten
    <3>3. client.phase = "first" => toClient' = <<More(o)>>
      BY <1>7, <3>1
    <3> QED BY <1>1, <1>3, <2>2, <3>2, <3>3 DEF FirstReplied
  <2> QED BY <2>1, <2>2
<1>9. ClientInv'
  BY <1>1, <1>2, <1>8 DEF ClientInv
<1> QED BY <1>4, <1>5, <1>6, <1>9 DEF TransferInv

LEMMA TakeChunkKeeps ==
  ASSUME TransferInv, TakeChunk
  PROVE  TransferInv'
<1> DEFINE f == server.file
           k == server.chunk
           d == chunks[k]
           w == server.written
<1>1. /\ server.phase = "chunks" /\ k \in DOMAIN chunks /\ k \in Nat /\ IsPacket(d, k)
      /\ f \in Files /\ f = client.file /\ server.total = TotalSize[f] /\ toServer = <<>>
      /\ w = LesserOf(Offset(k), TotalSize[f])
      /\ server \in ServerType
      /\ \A i \in 0..(w - 1) : buffer[i] = <<f, i>>
      /\ buffer \in [0..(BufferSize - 1) -> {NoByte} \cup (Files \X (0..BufferSize))]
      /\ UNCHANGED <<client, toServer, dgrams, cancels, stored, puts>>
  BY ServerFields DEF TransferInv, Typed, TypeOK, PacketInv, ReceiverInv, LinesInv, BeginningInv,
     TakeChunk
<1>2. Typed'
  BY ChunksTyped DEF TransferInv
<1>3. \/ /\ Wanted(d) /\ buffer' = Written(buffer, w, d)
         /\ server' = [server EXCEPT !.chunk = @ + 1, !.written = @ + (d.to - d.from)]
         /\ UNCHANGED toClient
      \/ ~Wanted(d) /\ StartFrom(w) /\ UNCHANGED buffer
  BY DEF TakeChunk
<1>4. CASE ~Wanted(d) /\ StartFrom(w) /\ UNCHANGED buffer
  BY <1>1, <1>2, <1>4, StartFromKeeps
<1>5. CASE /\ Wanted(d) /\ buffer' = Written(buffer, w, d)
           /\ server' = [server EXCEPT !.chunk = @ + 1, !.written = @ + (d.to - d.from)]
           /\ UNCHANGED toClient
  <2>1. d.file = f
    BY <1>5 DEF Wanted
  <2>2. /\ d.from = Offset(k) /\ d.to = LesserOf(Offset(k + 1), TotalSize[f])
        /\ d.from < d.to /\ d.to <= TotalSize[f] /\ Offset(k) < TotalSize[f]
    BY <1>1, <2>1, PacketIsPiece DEF IsPacket
  <2>3. /\ Offset(k) \in Nat /\ Offset(k + 1) \in Nat /\ TotalSize[f] \in Nat
        /\ TotalSize[f] <= BufferSize /\ BufferSize \in Nat
    <3> HIDE DEF f, k, d, w
    <3>1. Offset(k) \in Nat /\ Offset(k + 1) = Offset(k) + PacketBytes /\ PacketBytes \in Nat
      BY <1>1, OffsetType
    <3>2. TotalSize[f] \in Nat /\ TotalSize[f] <= BufferSize /\ BufferSize \in Nat
      BY <1>1, SizeType, TransferAssumption
    <3> QED BY <3>1, <3>2
  <2>4. /\ w = Offset(k) /\ w \in Nat /\ d.from = w /\ d.to \in Nat /\ w <= d.to
        /\ d.to <= BufferSize /\ w + (d.to - d.from) = d.to /\ d.to \in 0..BufferSize
    BY <1>1, <2>2, <2>3 DEF LesserOf
  <2>5. /\ server'.phase = "chunks" /\ server'.file = f
        /\ server'.total = TotalSize[f] /\ server'.written = d.to /\ server'.chunk = k + 1
    <3> DEFINE t == d.to
    <3>1. server' = [server EXCEPT !.chunk = k + 1, !.written = t]
      BY <1>5, <2>4
    <3> HIDE DEF t
    <3>2. /\ server'.phase = "chunks" /\ server'.file = f
          /\ server'.total = TotalSize[f] /\ server'.written = t /\ server'.chunk = k + 1
      BY <1>1, <3>1 DEF ServerType
    <3> QED BY <3>2 DEF t
  <2>6. \A i \in 0..(d.to - 1) : Written(buffer, w, d)[i] = <<f, i>>
    <3> HIDE DEF d, w, f
    <3> QED BY <1>1, <2>1, <2>4, WritingPiece
  <2>7. ReceiverInv'
    BY <1>1, <2>2, <2>5 DEF ReceiverInv
  <2>8. LinesInv'
    BY <1>1 DEF LinesInv
  <2>9. BeginningInv'
    BY <1>5, <2>5, <2>6 DEF BeginningInv
  <2>10. client.phase \in {"first", "gone"} /\ (client.phase = "first" => toClient = <<>>)
    BY <1>1, ClientFields DEF TransferInv, Typed, TypeOK, ClientInv, Underway, Working, Answered,
       FirstReplied
  <2>11. ClientInv'
    BY <1>1, <1>5, <2>5, <2>10 DEF ClientInv
  <2> QED BY <1>2, <2>7, <2>8, <2>9, <2>11 DEF TransferInv
<1> QED BY <1>3, <1>4, <1>5

LEMMA AwaitChunkKeeps ==
  ASSUME TransferInv, AwaitChunk
  PROVE  TransferInv'
<1>1. /\ server.phase = "chunks"
      /\ UNCHANGED <<client, toServer, buffer, chunks, dgrams, cancels, stored, puts>>
  BY DEF AwaitChunk
<1>2. Typed'
  BY ChunksTyped DEF TransferInv
<1>3. CASE StartFrom(server.written)
  BY <1>1, <1>2, <1>3, StartFromKeeps
<1>4. CASE server' = WaitedFor(server) /\ UNCHANGED toClient
  <2>1. /\ server'.phase = server.phase /\ server'.file = server.file
        /\ server'.total = server.total /\ server'.written = server.written
        /\ server'.chunk = server.chunk
    <3> DEFINE r == server.retries + 1
    <3>1. server \in ServerType /\ server' = [server EXCEPT !.retries = r]
      BY <1>4 DEF WaitedFor, TransferInv, Typed, TypeOK
    <3> HIDE DEF r
    <3> QED BY <3>1 DEF ServerType
  <2>2. ReceiverInv' /\ BeginningInv'
    BY <1>1, <2>1 DEF TransferInv, ReceiverInv, BeginningInv
  <2>3. LinesInv'
    BY <1>1, <2>1 DEF TransferInv, LinesInv
  <2>4. ClientInv'
    BY <1>1, <1>4, <2>1 DEF TransferInv, ClientInv, Underway, Working, Answered, FirstReplied
  <2> QED BY <1>2, <2>2, <2>3, <2>4 DEF TransferInv
<1> QED BY <1>3, <1>4 DEF AwaitChunk

LEMMA ReceiveLineKeeps ==
  ASSUME TransferInv, ReceiveLine
  PROVE  /\ TransferInv'
         /\ client.phase = "ack" /\ server'.phase = "store" =>
              client.pos = TotalSize[client.file]
<1> DEFINE f == server.file
           w == server.written
           d == Head(toServer).data
           n == w + (d.to - d.from)
<1>1. /\ server.phase = "data" /\ toServer # <<>> /\ toServer' = <<>>
      /\ Len(toServer) = 1 /\ toServer[1].data = d
      /\ IsData(Head(toServer), f, w)
      /\ f \in Files /\ f = client.file /\ server.total = TotalSize[f]
      /\ w \in Nat /\ server \in ServerType
      /\ \A i \in 0..(w - 1) : buffer[i] = <<f, i>>
      /\ buffer \in [0..(BufferSize - 1) -> {NoByte} \cup (Files \X (0..BufferSize))]
      /\ UNCHANGED <<client, chunks, dgrams, cancels, stored, puts>>
  <2>1. server.phase = "data" /\ toServer # <<>> /\ toServer' = Tail(toServer)
        /\ UNCHANGED <<client, chunks, dgrams, cancels, stored, puts>>
    BY DEF ReceiveLine
  <2>2. PICK l : IsData(l, f, w) /\ toServer = <<l>>
    BY <2>1 DEF TransferInv, LinesInv
  <2>3. Head(toServer) = l /\ Tail(toServer) = <<>> /\ toServer[1] = l /\ Len(toServer) = 1
    BY <2>2, ShortSequences
  <2>4. /\ f \in Files /\ f = client.file /\ server.total = TotalSize[f]
        /\ w \in Nat /\ server \in ServerType
        /\ \A i \in 0..(w - 1) : buffer[i] = <<f, i>>
        /\ buffer \in [0..(BufferSize - 1) -> {NoByte} \cup (Files \X (0..BufferSize))]
    BY <2>1, ServerFields DEF TransferInv, Typed, TypeOK, ReceiverInv, BeginningInv
  <2> HIDE DEF f, w
  <2> QED BY <2>1, <2>2, <2>3, <2>4
<1>2. /\ d.file = f /\ d.from = w /\ d.to \in Nat /\ w < d.to /\ d.to <= TotalSize[f]
      /\ TotalSize[f] \in Nat /\ TotalSize[f] <= BufferSize /\ BufferSize \in Nat
      /\ MaxSize \in Nat
  BY <1>1, SizeType, TransferAssumption DEF IsData
<1>3. n = d.to /\ w <= d.to /\ d.to <= BufferSize /\ d.to \in 0..BufferSize
  BY <1>1, <1>2
<1>4. /\ client.phase \in {"ack", "response", "gone"}
      /\ client.phase # "gone" => toClient = <<>>
      /\ client.phase = "ack" => client.pos = d.to
      /\ client.phase = "response" => d.to = TotalSize[f]
  BY <1>1, ClientFields DEF TransferInv, Typed, TypeOK, ClientInv, Underway, Working, Answered,
     FirstReplied
<1>5. LinesInv'
  BY <1>1 DEF LinesInv
<1>6. Typed' /\ server'.file = f /\ server'.total = TotalSize[f]
  BY <1>1, ReceiveLineTyped DEF TransferInv
<1>7. CASE server' = [server EXCEPT !.phase = "refuse"] /\ UNCHANGED <<buffer, toClient>>
  <2>1. server'.phase = "refuse"
    BY <1>1, <1>7 DEF ServerType
  <2>2. ReceiverInv' /\ BeginningInv'
    BY <1>1, <1>6, <2>1 DEF ReceiverInv, BeginningInv
  <2>3. ClientInv'
    BY <1>1, <1>4, <1>7, <2>1 DEF ClientInv, Working
  <2> QED BY <1>5, <1>6, <2>1, <2>2, <2>3 DEF TransferInv
<1>8. CASE /\ buffer' = Written(buffer, w, d)
           /\ server' = [server EXCEPT !.written = @ + (d.to - d.from),
                !.phase = IF AllReceived(n) THEN "store" ELSE @]
           /\ toClient' = IF AllReceived(n) THEN toClient ELSE Append(toClient, More(NoOffset))
  <2>1. AllReceived(n) <=> d.to = TotalSize[f]
    BY <1>1, <1>2, <1>3 DEF AllReceived
  <2>2. /\ server'.written = d.to
        /\ server'.phase = IF d.to = TotalSize[f] THEN "store" ELSE "data"
    <3> DEFINE t == d.to
               p == IF d.to = TotalSize[f] THEN "store" ELSE "data"
    <3>1. server' = [server EXCEPT !.written = t, !.phase = p]
      BY <1>1, <1>3, <1>8, <2>1
    <3> HIDE DEF t, p
    <3>2. server'.written = t /\ server'.phase = p
      BY <1>1, <3>1 DEF ServerType
    <3> QED BY <3>2 DEF t, p
  <2>3. \A i \in 0..(d.to - 1) : Written(buffer, w, d)[i] = <<f, i>>
    <3> HIDE DEF d, w, f, n
    <3>1. /\ f \in Files /\ w \in Nat /\ d.file = f /\ d.from = w /\ d.to \in Nat
          /\ w <= d.to /\ d.to <= BufferSize
      BY <1>1, <1>2, <1>3
    <3>2. /\ buffer \in [0..(BufferSize - 1) -> {NoByte} \cup (Files \X (0..BufferSize))]
          /\ \A i \in 0..(w - 1) : buffer[i] = <<f, i>>
      BY <1>1
    <3> QED BY <3>1, <3>2, WritingPiece
  <2>4. ReceiverInv'
    BY <1>1, <1>2, <1>6, <2>2 DEF ReceiverInv
  <2>5. BeginningInv'
    BY <1>6, <1>8, <2>2, <2>3 DEF BeginningInv
  <2>6. CASE d.to = TotalSize[f]
    <3>1. server'.phase = "store" /\ toClient' = toClient
      BY <1>8, <2>1, <2>2, <2>6
    <3>2. ClientInv'
      BY <1>1, <1>4, <3>1 DEF ClientInv, Working
    <3> QED BY <1>1, <1>4, <1>5, <1>6, <2>4, <2>5, <2>6, <3>2 DEF TransferInv
  <2>7. CASE d.to # TotalSize[f]
    <3>1. server'.phase = "data" /\ toClient' = Append(toClient, More(NoOffset))
      BY <1>8, <2>1, <2>2, <2>7
    <3>2. client.phase = "ack" => toClient' = <<More(NoOffset)>>
      BY <1>4, <3>1, ShortSequences
    <3>3. ClientInv'
      BY <1>1, <1>4, <2>2, <2>7, <3>1, <3>2 DEF ClientInv
    <3> QED BY <1>5, <1>6, <2>4, <2>5, <3>1, <3>3 DEF TransferInv
  <2> QED BY <2>6, <2>7
<1> QED BY <1>7, <1>8 DEF ReceiveLine

LEMMA StoreKeeps ==
  ASSUME TransferInv, Store
  PROVE  TransferInv'
<1>1. /\ server.phase = "store" /\ toServer = <<>>
      /\ UNCHANGED <<client, toServer, toClient, buffer, chunks, dgrams, cancels, puts>>
  BY DEF TransferInv, LinesInv, Store
<1>2. Typed' /\ server'.phase \in {"clear", "refuse"} /\ server'.file = server.file
  BY EndTyped DEF TransferInv
<1>3. ReceiverInv' /\ BeginningInv'
  BY <1>1, <1>2 DEF TransferInv, ReceiverInv, BeginningInv
<1>4. LinesInv'
  BY <1>1 DEF LinesInv
<1>5. ClientInv'
  BY <1>1, <1>2 DEF TransferInv, ClientInv, Underway, Working, Answered, FirstReplied
<1> QED BY <1>2, <1>3, <1>4, <1>5 DEF TransferInv

\* The end of a command, with one of two answers.
LEMMA AnswerKeeps ==
  ASSUME NEW x \in {Okay, Error}, TransferInv, Typed',
         server.phase = IF x = Okay THEN "clear" ELSE "refuse",
         server'.phase = "prompt",
         toClient' = Append(toClient, x),
         UNCHANGED <<client, toServer>>
  PROVE  TransferInv'
<1>1. /\ server.phase \in {"clear", "refuse"} /\ toServer = <<>> /\ toServer' = <<>>
      /\ client.file = client'.file
  BY DEF TransferInv, LinesInv
<1>2. ReceiverInv' /\ BeginningInv' /\ LinesInv'
  BY <1>1 DEF ReceiverInv, BeginningInv, LinesInv
<1>3. /\ client.phase \in {"first", "ack", "response", "gone"}
      /\ client.phase \in {"ack", "response"} => toClient = <<>>
      /\ client.phase = "first" =>
           \/ toClient = <<Skip>> /\ server.phase = "clear"
           \/ toClient = <<More(TotalSize[client.file])>>
  BY <1>1, ClientFields DEF TransferInv, Typed, TypeOK, ClientInv, Underway, Working, Answered,
     FirstReplied
<1>4. CASE client.phase \in {"ack", "response"}
  <2>1. toClient' = <<x>>
    BY <1>3, <1>4, ShortSequences
  <2>2. Answered'
    BY <1>1, <2>1 DEF Answered
  <2> QED BY <1>2, <1>4, <2>2 DEF TransferInv, ClientInv
<1>5. CASE client.phase = "first"
  <2>1. CASE toClient = <<Skip>> /\ server.phase = "clear"
    <3>1. x = Okay
      BY <2>1
    <3>2. toClient' = <<Skip, Okay>>
      BY <2>1, <3>1, ShortSequences
    <3> QED BY <1>1, <1>2, <1>5, <3>2 DEF TransferInv, ClientInv, FirstReplied
  <2>2. CASE toClient = <<More(TotalSize[client.file])>>
    <3> DEFINE m == More(TotalSize[client.file])
    <3>1. toClient' = <<m, x>>
      <4> HIDE DEF m
      <4>1. toClient = <<m>>
        BY <2>2 DEF m
      <4> QED BY <4>1, ShortSequences
    <3>2. FirstReplied'
      BY <1>1, <3>1 DEF FirstReplied
    <3> QED BY <1>2, <1>5, <3>2 DEF TransferInv, ClientInv
  <2> QED BY <1>3, <1>5, <2>1, <2>2
<1>6. CASE client.phase = "gone"
  BY <1>2, <1>6 DEF TransferInv, ClientInv
<1> QED BY <1>3, <1>4, <1>5, <1>6

LEMMA EndKeeps ==
  ASSUME TransferInv, ClearChunks \/ Refuse
  PROVE  TransferInv'
<1> DEFINE x == IF ClearChunks THEN Okay ELSE Error
<1>1. x \in {Okay, Error} /\ (x = Okay <=> ClearChunks)
  BY Replies
<1>2. /\ toClient' = Append(toClient, x) /\ UNCHANGED <<client, toServer>>
      /\ server.phase = IF ClearChunks THEN "clear" ELSE "refuse"
  BY DEF ClearChunks, Refuse, Okay, Error
<1>3. Typed' /\ server'.phase = "prompt"
  <2>1. ~Store
    BY DEF ClearChunks, Refuse, Store
  <2> QED BY <2>1, EndTyped DEF TransferInv
<1> HIDE DEF x
<1> QED BY <1>1, <1>2, <1>3, AnswerKeeps

\* The client has gone, and the session finds out.
LEMMA LineLostKeeps ==
  ASSUME TransferInv, LineLost, client.phase = "gone"
  PROVE  TransferInv'
<1>1. /\ toServer = <<>> /\ server.phase # "prompt"
      /\ UNCHANGED <<client, toServer, toClient, buffer, chunks, dgrams, cancels, stored, puts>>
  BY DEF LineLost
<1>2. Typed' /\ server'.phase = "refuse" /\ server'.file = server.file
  BY LostTyped DEF TransferInv
<1>3. ReceiverInv' /\ BeginningInv'
  BY <1>1, <1>2 DEF TransferInv, ReceiverInv, BeginningInv
<1>4. LinesInv' /\ ClientInv'
  BY <1>1 DEF LinesInv, ClientInv
<1> QED BY <1>2, <1>3, <1>4 DEF TransferInv

LEMMA ServerDiesKeeps ==
  ASSUME TransferInv, ServerDies
  PROVE  TransferInv'
<1>1. /\ UNCHANGED <<client, toServer, toClient, buffer, chunks, dgrams, cancels, stored, puts>>
      /\ ~LineLost
  BY DEF ServerDies, LineLost, TransferInv, Typed, TypeOK, ServerType
<1>2. /\ Typed' /\ server'.phase = server.phase /\ server'.file = server.file
      /\ server'.total = server.total /\ server'.written = server.written
      /\ server'.chunk = server.chunk
  BY <1>1, LostTyped DEF TransferInv
<1>3. ReceiverInv' /\ BeginningInv'
  BY <1>1, <1>2 DEF TransferInv, ReceiverInv, BeginningInv
<1>4. LinesInv'
  BY <1>1, <1>2 DEF TransferInv, LinesInv
<1>5. ClientInv'
  BY <1>1, <1>2 DEF TransferInv, ClientInv, Underway, Working, Answered, FirstReplied,
     SaysWritten
<1> QED BY <1>2, <1>3, <1>4, <1>5 DEF TransferInv

\* A session whose client is in step does not see what is out of place.
LEMMA NothingMixed ==
  ASSUME TransferInv
  PROVE  ~ReadGarbage /\ ~ReceiveMixed
<1>1. ~ReadGarbage
  <2> SUFFICES ASSUME ReadGarbage PROVE FALSE
    OBVIOUS
  <2>1. server.phase = "prompt"
    BY DEF ReadGarbage
  <2>2. PICK k \in 1..Len(toServer) :
          /\ \A i \in 1..(k - 1) : Unended(toServer[i])
          /\ ~(k = 1 /\ toServer[1].type = "put")
    BY DEF ReadGarbage
  <2>3. toServer # <<>>
    BY <2>2, ShortSequences
  <2>4. toServer[1] = PutLine(client.file)
    BY <2>1, <2>3, ShortSequences DEF TransferInv, LinesInv
  <2>5. toServer[1].type = "put"
    BY <2>4 DEF PutLine
  <2>6. 1 \in 1..(k - 1)
    BY <2>2, <2>5, LenProperties DEF TransferInv, Typed, TypeOK
  <2> QED BY <2>2, <2>5, <2>6 DEF Unended
<1>2. ~ReceiveMixed
  <2> SUFFICES ASSUME ReceiveMixed PROVE FALSE
    OBVIOUS
  <2>1. /\ server.phase = "data" /\ toServer[1].type # "data"
        /\ \E k : k \in 1..Len(toServer)
    BY DEF ReceiveMixed
  <2>2. toServer # <<>>
    BY <2>1, ShortSequences
  <2>3. toServer[1].type = "data"
    BY <2>1, <2>2, ShortSequences DEF TransferInv, LinesInv, IsData
  <2> QED BY <2>1, <2>3
<1> QED BY <1>1, <1>2

LEMMA InitEstablishes == Init => TransferInv
<1> SUFFICES ASSUME Init PROVE TransferInv
  OBVIOUS
<1>1. client.phase = "prompt" /\ server.phase = "prompt" /\ toServer = <<>> /\ toClient = <<>>
  BY DEF Init
<1>2. ReceiverInv /\ LinesInv /\ ClientInv /\ BeginningInv
  BY <1>1 DEF ReceiverInv, LinesInv, ClientInv, BeginningInv
<1> QED BY <1>2, InitTyped DEF TransferInv

\* Ends that are in step stay so, unless one gives up on the other.
LEMMA NextKeeps ==
  ASSUME TransferInv, [Next]_vars, intime'
  PROVE  TransferInv'
<1>1. CASE \E f \in Files : Put(f)
  BY <1>1, PutKeeps
<1>2. CASE ClientStep
  <2>1. ~ReplyLost
    BY DEF ReplyLost
  <2> QED BY <1>2, <2>1, SendPacketKeeps, SendHeaderKeeps, FirstReplyKeeps,
        SendLineKeeps, LineReplyKeeps, ResponseKeeps, GoneKeeps DEF ClientStep
<1>3. CASE \E d \in dgrams : Deliver(d)
  BY <1>3, DeliverKeeps
<1>4. CASE ServerStep
  <2>1. LineLost => client.phase = "gone"
    BY DEF LineLost
  <2> QED BY <1>4, <2>1, NothingMixed, ReadCommandKeeps, SkipTransferKeeps, ReadHeaderKeeps,
        TakeChunkKeeps, AwaitChunkKeeps, ReceiveLineKeeps, StoreKeeps, EndKeeps, LineLostKeeps
        DEF ServerStep
<1>5. CASE ClientDies \/ ServerDies
  BY <1>5, GoneKeeps, ServerDiesKeeps
<1>6. CASE UNCHANGED vars
  <2>1. UNCHANGED <<client, server, toServer, toClient, buffer, chunks, dgrams, cancels,
                    stored, puts>>
    BY <1>6 DEF vars
  <2>2. Typed'
    BY TypedKept DEF TransferInv
  <2>3. ReceiverInv' /\ BeginningInv' /\ LinesInv'
    BY <2>1 DEF TransferInv, ReceiverInv, BeginningInv, LinesInv
  <2>4. ClientInv'
    BY <2>1 DEF TransferInv, ClientInv, Underway, Working, Answered, FirstReplied, SaysWritten
  <2> QED BY <2>2, <2>3, <2>4 DEF TransferInv
<1> QED BY <1>1, <1>2, <1>3, <1>4, <1>5, <1>6 DEF Next, Quiescent

\* Nobody who has given up is in time again.
LEMMA IntimeFalls ==
  ASSUME Typed, [Next]_vars
  PROVE  intime' => intime
<1>1. CASE LineLost
  BY <1>1 DEF LineLost, Typed, TypeOK
<1>2. CASE ReplyLost
  BY <1>2 DEF ReplyLost
<1>3. CASE ~LineLost /\ ~ReplyLost
  BY <1>3 DEF Next, Put, ClientStep, SendPacket, SendPacketFails, SendHeader, FirstReply,
     SendLine, LineReply, Response, ResponseLost, Deliver, ServerStep, ReadCommand, ReadGarbage,
     SkipTransfer, ReadHeader, TakeChunk, AwaitChunk, ReceiveLine, ReceiveMixed, Store,
     ClearChunks, Refuse, ClientDies, ServerDies, Quiescent, vars
<1> QED BY <1>1, <1>2, <1>3

LEMMA Invariant == Spec => []Inv
<1>1. Init => Inv
  BY InitEstablishes, InitTyped DEF Inv
<1>2. Inv /\ [Next]_vars => Inv'
  BY TypedKept, NextKeeps, IntimeFalls DEF Inv
<1> QED BY <1>1, <1>2, PTL DEF Spec

-----------------------------------------------------------------------------
(* The theorems.                                                           *)

\* Type correctness: no chunk, line or offset leads outside the buffer, also
\* when the ends are out of step (file_transfer and recv_data, sockets.cpp).
THEOREM TransferTyped == Spec => []TypeOK
<1>1. Inv => TypeOK
  BY DEF Inv, Typed
<1> QED BY <1>1, Invariant, PTL

\* Whatever datagrams are lost, repeated or late, and as long as no end has
\* given up on the other, the session's buffer has the beginning of the file
\* that is being put, and nothing of another (udp_stream_socket recv_data and
\* file_transfer, sockets.cpp).
THEOREM BufferIsFile == Spec => []ReceivedIsFile
<1>1. Inv => ReceivedIsFile
  BY DEF Inv, TransferInv, BeginningInv, ReceivedIsFile
<1> QED BY <1>1, Invariant, PTL

\* Only a timeout puts the two ends out of step: until one has given up on the
\* other they agree on where a command ends, and no line is taken for the
\* beginning of the next (file_transfer, sockets.cpp).
THEOREM EndsInStep == Spec => []InStep
<1>1. Inv => InStep
  BY DEF Inv, TransferInv, ClientInv, InStep
<1> QED BY <1>1, Invariant, PTL

-----------------------------------------------------------------------------
(* FileTransfer implements FilePut when no file ends with a full line.  The *)
(* invariant of ends that are in step, on top of TransferInv.               *)

\* This is the last line on its way to the client.
Told(answer) == toClient = <<answer>> \/ \E reply : toClient = <<reply, answer>>

\* What is stored, and what the client has been or is being told of it.  What
\* a client that has gone has left behind ends as it likes.
OutcomeInv ==
  /\ server.phase \in {"existing", "clear"} => server.file \in stored
  /\ server.phase \in {"header", "chunks", "data", "store"} => server.file \notin stored
  /\ server.phase = "refuse" /\ client.phase # "gone" => server.file \notin stored
  /\ client.phase # "gone" =>
       /\ Told(Okay) => client.file \in stored
       /\ Told(Error) => client.file \notin stored

\* Where lines may begin and end: after some packets and some full lines.
Grid == {Offset(n) + k * MaxUnencoded : n \in Nat, k \in Nat}

\* The client awaits no acknowledgement of the last line.
GridInv ==
  /\ client.phase \in {"send", "ack"} => client.pos \in Grid
  /\ client.phase = "first" /\ server.phase = "data" => server.written \in Grid
  /\ client.phase = "ack" =>
       /\ client.pos # TotalSize[client.file]
       /\ server.phase \notin {"store", "clear"}
       /\ toClient # <<Okay>>

PutInv == Inv /\ (intime => OutcomeInv /\ GridInv)

\* No file ends with a line that is full, wherever the lines begin: such a
\* line is taken for one of the middle.
NoFullLastLine ==
  \A f \in Files, n \in Nat, k \in Nat \ {0} :
    Offset(n) + k * MaxUnencoded # TotalSize[f]

-----------------------------------------------------------------------------
(* What the server does, and OutcomeInv.                                   *)

LEMMA ToldOne ==
  ASSUME NEW x, NEW y, x # y
  PROVE  toClient = <<x>> => ~Told(y)
BY DEF Told

\* While the server is busy the client has no answer.
BusySilent ==
  server.phase # "prompt" /\ client.phase # "gone" => ~Told(Okay) /\ ~Told(Error)

LEMMA BusyNotTold == TransferInv => BusySilent
<1> SUFFICES ASSUME TransferInv, server.phase # "prompt", client.phase # "gone"
             PROVE  ~Told(Okay) /\ ~Told(Error)
  BY DEF BusySilent
<1>1. \/ toClient = <<>> \/ toClient = <<Skip>>
      \/ \E n : toClient = <<More(n)>>
  BY ClientFields DEF TransferInv, Typed, TypeOK, ClientInv, Underway, Working, Answered,
     FirstReplied
<1>2. CASE toClient = <<>>
  BY <1>2 DEF Told
<1>3. CASE toClient = <<Skip>>
  BY <1>3, Replies, ToldOne
<1>4. ASSUME NEW n, toClient = <<More(n)>> PROVE ~Told(Okay) /\ ~Told(Error)
  BY <1>4, Replies, ToldOne
<1> QED BY <1>1, <1>2, <1>3, <1>4

LEMMA BusyNotToldNext == TransferInv' => BusySilent'
BY BusyNotTold, PTL

\* A step of the server within a command.
LEMMA WithinCommand ==
  ASSUME TransferInv', OutcomeInv, client' = client, server'.phase # "prompt",
         server'.phase \in {"existing", "clear"} => server'.file \in stored',
         server'.phase \in {"header", "chunks", "data", "store"} => server'.file \notin stored',
         server'.phase = "refuse" /\ client.phase # "gone" => server'.file \notin stored'
  PROVE  OutcomeInv'
BY BusyNotToldNext DEF OutcomeInv, BusySilent

LEMMA ReadCommandOutcome ==
  ASSUME TransferInv, TransferInv', OutcomeInv, ReadCommand
  PROVE  OutcomeInv'
<1> DEFINE f == Head(toServer).file
<1>1. /\ toServer # <<>> /\ stored' = stored /\ client' = client
      /\ server' = [phase |-> IF f \in stored THEN "existing" ELSE "header",
                    file |-> f, total |-> 0, written |-> 0,
                    chunk |-> 0, retries |-> 0, alive |-> TRUE]
  BY DEF ReadCommand
<1>2. server'.file = f /\ server'.phase = IF f \in stored THEN "existing" ELSE "header"
  BY <1>1
<1> HIDE DEF f
<1> QED BY <1>1, <1>2, WithinCommand

LEMMA FileKept ==
  ASSUME Typed,
         SkipTransfer \/ ReadHeader \/ TakeChunk \/ AwaitChunk \/ ReceiveLine \/ LineLost
  PROVE  /\ server.phase # "prompt" /\ server'.file = server.file
         /\ client' = client /\ stored' = stored
         /\ IF server.phase = "existing" THEN server'.phase \in {"clear", "refuse"}
            ELSE server'.phase \in {"chunks", "data", "store", "refuse"}
         /\ server.phase \in {"existing", "header", "chunks", "data"}
         /\ server'.phase = "refuse" /\ server.phase = "existing" => LineLost
<1>1. client' = client /\ stored' = stored
  BY DEF SkipTransfer, ReadHeader, TakeChunk, AwaitChunk, ReceiveLine, LineLost
<1>2. CASE SkipTransfer
  BY <1>1, <1>2, SkipTransferTyped DEF SkipTransfer
<1>3. CASE LineLost
  BY <1>1, <1>3, LostTyped DEF LineLost
<1>4. CASE ReadHeader
  BY <1>1, <1>4, ReadHeaderTyped
<1>5. CASE TakeChunk \/ AwaitChunk
  BY <1>1, <1>5, ChunksTyped
<1>6. CASE ReceiveLine
  BY <1>1, <1>6, ReceiveLineTyped
<1> QED BY <1>2, <1>3, <1>4, <1>5, <1>6

LEMMA FileKeptOutcome ==
  ASSUME TransferInv, TransferInv', OutcomeInv, LineLost => client.phase = "gone",
         SkipTransfer \/ ReadHeader \/ TakeChunk \/ AwaitChunk \/ ReceiveLine \/ LineLost
  PROVE  OutcomeInv'
<1>1. Typed
  BY DEF TransferInv
<1>2. /\ server'.phase \in {"existing", "clear"} => server'.file \in stored'
      /\ server'.phase \in {"header", "chunks", "data", "store"} => server'.file \notin stored'
      /\ server'.phase = "refuse" /\ client.phase # "gone" => server'.file \notin stored'
  BY <1>1, FileKept DEF OutcomeInv
<1>3. server'.phase # "prompt" /\ client' = client
  BY <1>1, FileKept
<1> QED BY <1>2, <1>3, WithinCommand

LEMMA StoreOutcome ==
  ASSUME TransferInv, TransferInv', OutcomeInv, Store
  PROVE  OutcomeInv'
<1>1. server.phase = "store" /\ client' = client /\ server.file \notin stored
  BY DEF Store, OutcomeInv
<1>2. \/ stored' = stored \cup {server.file} /\ server' = [server EXCEPT !.phase = "clear"]
      \/ stored' = stored /\ server' = [server EXCEPT !.phase = "refuse"]
  BY DEF Store
<1>3. /\ server'.file = server.file
      /\ \/ server'.phase = "clear" /\ stored' = stored \cup {server.file}
         \/ server'.phase = "refuse" /\ stored' = stored
  BY <1>2 DEF TransferInv, Typed, TypeOK, ServerType
<1> QED BY <1>1, <1>3, WithinCommand

\* The client is told what is so.
LEMMA AnswerOutcome ==
  ASSUME TransferInv, OutcomeInv, ClearChunks \/ Refuse
  PROVE  OutcomeInv'
<1> DEFINE x == IF ClearChunks THEN Okay ELSE Error
<1>1. /\ client' = client /\ stored' = stored /\ toServer' = toServer
      /\ toClient' = Append(toClient, x)
      /\ server.phase = IF ClearChunks THEN "clear" ELSE "refuse"
      /\ server' = [server EXCEPT !.phase = "prompt"]
  BY DEF ClearChunks, Refuse, Okay, Error
<1>2. server'.phase = "prompt" /\ server.file = client.file
  BY <1>1 DEF TransferInv, Typed, TypeOK, ServerType, ReceiverInv
<1>3. client.phase # "gone" => client.file \in stored <=> x = Okay
  BY <1>1, <1>2, Replies DEF OutcomeInv
<1>4. x = Okay \/ x = Error
  OBVIOUS
<1> HIDE DEF x
<1>5. client.phase # "gone" => toClient' = <<x>> \/ \E m : toClient' = <<m, x>>
  <2> SUFFICES ASSUME client.phase # "gone"
               PROVE  toClient' = <<x>> \/ \E m : toClient' = <<m, x>>
    OBVIOUS
  <2>1. toClient = <<>> \/ \E m : toClient = <<m>>
    <3> HIDE DEF Skip, More
    <3> QED BY <1>1, ClientFields DEF TransferInv, Typed, TypeOK, ClientInv, Underway, Working,
            Answered, FirstReplied
  <2>2. CASE toClient = <<>>
    BY <1>1, <2>2, ShortSequences
  <2>3. ASSUME NEW m, toClient = <<m>> PROVE toClient' = <<m, x>>
    BY <1>1, <2>3, ShortSequences
  <2> QED BY <2>1, <2>2, <2>3
<1>6. client.phase # "gone" => /\ Told(Okay)' => x = Okay
                               /\ Told(Error)' => x = Error
  BY <1>5 DEF Told
<1> QED BY <1>1, <1>2, <1>3, <1>4, <1>6, Replies DEF OutcomeInv

-----------------------------------------------------------------------------
(* What the client does, and OutcomeInv.                                   *)

LEMMA TailTold ==
  ASSUME NEW a, NEW b, NEW y, toClient = <<a>> \/ toClient = <<a, b>>,
         toClient' = Tail(toClient), Told(y)'
  PROVE  Told(y)
<1>1. CASE toClient = <<a>>
  BY <1>1, ShortSequences DEF Told
<1>2. CASE toClient = <<a, b>>
  <2>1. toClient' = <<b>>
    BY <1>2, ShortSequences
  <2>2. b = y
    <3>1. toClient' = <<y>>
      BY <2>1, ShortSequences DEF Told
    <3> QED BY <2>1, <3>1
  <2> QED BY <1>2, <2>2 DEF Told
<1> QED BY <1>1, <1>2

\* There are one or two lines when the client reads one.
LEMMA ReadingTold ==
  ASSUME TransferInv, FirstReply \/ LineReply \/ Response
  PROVE  \E a, b : toClient = <<a>> \/ toClient = <<a, b>>
<1>1. CASE FirstReply
  <2>1. FirstReplied
    BY <1>1 DEF TransferInv, ClientInv, FirstReply, Underway
  <2> HIDE DEF Skip, Okay, Error, More
  <2>2. CASE \E offset : toClient = <<More(offset)>> /\ SaysWritten(offset)
    BY <2>2
  <2>3. CASE toClient = <<Skip>> \/ toClient = <<Skip, Okay>>
    BY <2>3
  <2>4. PICK m : m = More(TotalSize[client.file])
    OBVIOUS
  <2>5. CASE toClient = <<m>> \/ toClient = <<m, Okay>> \/ toClient = <<m, Error>>
    BY <2>5
  <2> QED BY <2>1, <2>2, <2>3, <2>4, <2>5 DEF FirstReplied
<1>2. CASE LineReply \/ Response
  <2> HIDE DEF Okay, Error, More
  <2>1. toClient = <<More(NoOffset)>> \/ toClient = <<Okay>> \/ toClient = <<Error>>
    BY <1>2 DEF TransferInv, ClientInv, LineReply, Response, Underway, Working, Answered
  <2> QED BY <2>1
<1> QED BY <1>1, <1>2

LEMMA ClientFileKept ==
  ASSUME Typed,
         \/ SendPacket \/ SendPacketFails \/ SendHeader \/ FirstReply \/ SendLine
         \/ LineReply \/ Response
  PROVE  client'.file = client.file /\ client.phase # "gone"
<1>1. client.phase # "gone"
  BY DEF SendPacket, SendPacketFails, SendHeader, FirstReply, SendLine, LineReply, Response
<1> QED BY <1>1, SendPacketTyped, SendPacketFailsTyped, SendHeaderTyped, FirstReplyTyped,
      SendLineTyped, ReplyTyped

LEMMA ClientStepOutcome ==
  ASSUME TransferInv, OutcomeInv,
         \/ SendPacket \/ SendPacketFails \/ SendHeader \/ FirstReply \/ SendLine
         \/ LineReply \/ Response
  PROVE  OutcomeInv'
<1>1. UNCHANGED <<server, stored>>
  BY DEF SendPacket, SendPacketFails, SendHeader, FirstReply, SendLine, LineReply, Response
<1>2. ASSUME NEW y, Told(y)' PROVE Told(y)
  <2>1. CASE FirstReply \/ LineReply \/ Response
    <3>1. toClient' = Tail(toClient)
      BY <2>1 DEF FirstReply, LineReply, Response
    <3>2. PICK a, b : toClient = <<a>> \/ toClient = <<a, b>>
      BY <2>1, ReadingTold
    <3> QED BY <1>2, <3>1, <3>2, TailTold
  <2>2. CASE SendPacket \/ SendPacketFails \/ SendHeader \/ SendLine
    <3>1. toClient' = toClient
      BY <2>2 DEF SendPacket, SendPacketFails, SendHeader, SendLine
    <3> QED BY <1>2, <3>1 DEF Told
  <2> QED BY <2>1, <2>2
<1>3. Told(Okay)' => Told(Okay)
  BY <1>2
<1>4. Told(Error)' => Told(Error)
  BY <1>2
<1>5. Typed
  BY DEF TransferInv
<1> QED BY <1>1, <1>3, <1>4, <1>5, ClientFileKept DEF OutcomeInv

LEMMA PutOutcome ==
  ASSUME NEW f \in Files, TransferInv, OutcomeInv, Put(f)
  PROVE  OutcomeInv'
<1>1. client.phase = "prompt" /\ toClient' = <<>> /\ server'.phase = "prompt"
  BY DEF TransferInv, ClientInv, Put
<1>2. ~Told(Okay)' /\ ~Told(Error)'
  BY <1>1, ShortSequences DEF Told
<1> QED BY <1>1, <1>2 DEF OutcomeInv

LEMMA GoneOutcome ==
  ASSUME TransferInv, OutcomeInv, ResponseLost \/ ClientDies
  PROVE  OutcomeInv'
<1>1. UNCHANGED <<server, toServer, toClient, stored>> /\ client'.phase = "gone"
  BY GoneKeeps DEF ResponseLost, ClientDies
<1>2. server.phase = "refuse" /\ client.phase # "gone" => server.file \notin stored
  BY DEF OutcomeInv
<1> QED BY <1>1, <1>2 DEF OutcomeInv

LEMMA ElseOutcome ==
  ASSUME OutcomeInv, UNCHANGED <<client, toServer, toClient, stored>>,
         server'.phase = server.phase, server'.file = server.file
  PROVE  OutcomeInv'
BY DEF OutcomeInv, Told

LEMMA OutcomeKept ==
  ASSUME TransferInv, TransferInv', OutcomeInv, [Next]_vars, intime'
  PROVE  OutcomeInv'
<1>1. CASE \E f \in Files : Put(f)
  BY <1>1, PutOutcome
<1>2. CASE ClientStep
  <2>1. ~ReplyLost
    BY DEF ReplyLost
  <2> QED BY <1>2, <2>1, ClientStepOutcome, GoneOutcome DEF ClientStep
<1>3. CASE \E d \in dgrams : Deliver(d)
  BY <1>3, ElseOutcome DEF Deliver
<1>4. CASE ServerStep
  <2>1. LineLost => client.phase = "gone"
    BY DEF LineLost
  <2> QED BY <1>4, <2>1, NothingMixed, ReadCommandOutcome, FileKeptOutcome, StoreOutcome,
        AnswerOutcome DEF ServerStep
<1>5. CASE ClientDies
  BY <1>5, GoneOutcome
<1>6. CASE ServerDies
  BY <1>6, ElseOutcome DEF ServerDies, TransferInv, Typed, TypeOK, ServerType
<1>7. CASE UNCHANGED vars
  BY <1>7, ElseOutcome DEF vars
<1> QED BY <1>1, <1>2, <1>3, <1>4, <1>5, <1>6, <1>7 DEF Next, Quiescent

-----------------------------------------------------------------------------
(* GridInv.                                                                *)

LEMMA GridPoints ==
  ASSUME NoFullLastLine
  PROVE  /\ 0 \in Grid
         /\ \A n \in Nat : Offset(n) \in Grid
         /\ \A p \in Grid : p + MaxUnencoded \in Grid
         /\ \A p \in Grid, f \in Files : p + MaxUnencoded # TotalSize[f]
<1>1. MaxUnencoded \in Nat
  BY TransferAssumption
<1>2. ASSUME NEW n \in Nat PROVE Offset(n) \in Grid
  <2>1. Offset(n) = Offset(n) + 0 * MaxUnencoded
    BY <1>1, OffsetType
  <2> QED BY <2>1 DEF Grid
<1>3. ASSUME NEW p \in Grid
      PROVE  /\ p + MaxUnencoded \in Grid
             /\ \A f \in Files : p + MaxUnencoded # TotalSize[f]
  <2>1. PICK n \in Nat, k \in Nat : p = Offset(n) + k * MaxUnencoded
    BY DEF Grid
  <2>2. (k + 1) * MaxUnencoded = k * MaxUnencoded + MaxUnencoded /\ k * MaxUnencoded \in Nat
    BY <1>1
  <2>3. p + MaxUnencoded = Offset(n) + (k + 1) * MaxUnencoded
    BY <1>1, <2>1, <2>2, OffsetType
  <2>4. k + 1 \in Nat \ {0}
    OBVIOUS
  <2> QED BY <2>3, <2>4 DEF Grid, NoFullLastLine
<1> QED BY <1>2, <1>3, OffsetType

\* An action that takes the client away from where GridInv says anything.
LEMMA ClientGrid ==
  ASSUME NoFullLastLine, TransferInv, GridInv,
         \/ \E f \in Files : Put(f)
         \/ SendPacket \/ SendPacketFails \/ SendHeader \/ FirstReply \/ SendLine
         \/ LineReply \/ Response \/ ResponseLost \/ ClientDies
  PROVE  GridInv'
<1>1. CASE \/ \E f \in Files : Put(f)
           \/ SendPacket \/ SendPacketFails \/ Response \/ ResponseLost \/ ClientDies
  <2>1. client'.phase \in {"ahead", "header", "prompt", "gone"}
    BY <1>1, PutTyped, SendPacketTyped, SendPacketFailsTyped, ResponseKeeps, GoneKeeps
       DEF TransferInv
  <2> QED BY <2>1 DEF GridInv
<1>2. CASE SendHeader
  <2>1. client'.phase \in {"first", "response"} /\ server' = server
    BY <1>2, SendHeaderTyped DEF SendHeader, TransferInv
  <2>2. server.phase # "data"
    BY <1>2 DEF SendHeader, TransferInv, ClientInv
  <2> QED BY <2>1, <2>2 DEF GridInv
<1>3. CASE FirstReply
  <2>1. TransferInv' /\ client'.phase \in {"send", "response"} /\ server' = server
        /\ client.phase = "first"
    BY <1>3, FirstReplyKeeps DEF FirstReply
  <2>2. client'.phase = "send" => client'.pos = server.written /\ server.phase = "data"
    BY <2>1 DEF TransferInv, ClientInv
  <2> QED BY <2>1, <2>2 DEF GridInv
<1>4. CASE SendLine
  <2>1. /\ client'.file = client.file /\ client'.phase \in {"ack", "response"}
        /\ client'.phase = "ack" => client'.pos = client.pos + MaxUnencoded
    BY <1>4, SendLineKeeps, SendLineTyped DEF TransferInv
  <2>2. /\ client.phase = "send" /\ client.file \in Files /\ server' = server
        /\ toClient' = toClient /\ toClient = <<>> /\ server.phase = "data"
        /\ client.pos \in Grid
    BY <1>4 DEF SendLine, TransferInv, ClientInv, GridInv
  <2>3. client'.phase = "ack" => client'.pos \in Grid /\ client'.pos # TotalSize[client'.file]
    BY <2>1, <2>2, GridPoints
  <2> QED BY <2>1, <2>2, <2>3, ShortSequences DEF GridInv
<1>5. CASE LineReply
  <2>1. client'.pos = client.pos /\ client'.phase \in {"send", "prompt"} /\ client.phase = "ack"
    BY <1>5, LineReplyKeeps DEF LineReply
  <2> QED BY <2>1 DEF GridInv
<1> QED BY <1>1, <1>2, <1>3, <1>4, <1>5

LEMMA ChunksGrid ==
  ASSUME NoFullLastLine, TransferInv, GridInv, TakeChunk \/ AwaitChunk
  PROVE  GridInv'
<1> DEFINE f == client.file
<1>1. /\ TransferInv' /\ client' = client /\ server.phase = "chunks"
      /\ server'.phase \in {"store", "data", "chunks"}
      /\ server'.phase = "data" => server'.written = server.written
  BY TakeChunkKeeps, AwaitChunkKeeps, ChunksTyped DEF TakeChunk, AwaitChunk, TransferInv
<1>2. /\ f \in Files /\ server.written = LesserOf(Offset(server.chunk), TotalSize[f])
      /\ server.chunk \in Nat
  BY <1>1, ServerFields DEF TransferInv, Typed, ReceiverInv
<1>3. server'.phase = "data" => server'.written < TotalSize[f]
  <2> SUFFICES ASSUME server'.phase = "data" PROVE server'.written < TotalSize[f]
    OBVIOUS
  <2>1. ReceiverInv'
    BY <1>1 DEF TransferInv
  <2>2. server'.file = f /\ server'.total = TotalSize[f] /\ server'.written < server'.total
    BY <1>1, <2>1 DEF ReceiverInv
  <2> QED BY <2>2
<1>4. server'.phase = "data" => server'.written = Offset(server.chunk)
  <2> DEFINE x == Offset(server.chunk)
             y == TotalSize[f]
  <2>1. x \in Nat /\ y \in Nat
    BY <1>2, OffsetType, SizeType
  <2>2. server'.phase = "data" => server'.written = LesserOf(x, y) /\ server'.written < y
    BY <1>1, <1>2, <1>3
  <2> HIDE DEF x, y
  <2>3. server'.phase = "data" => server'.written = x
    BY <2>1, <2>2 DEF LesserOf
  <2> QED BY <2>3 DEF x
<1>5. client.phase \in {"first", "gone"}
  BY <1>1, ClientFields DEF TransferInv, Typed, TypeOK, ClientInv, Underway, Working, Answered,
     FirstReplied
<1> QED BY <1>1, <1>2, <1>4, <1>5, GridPoints DEF GridInv

LEMMA ServerGrid ==
  ASSUME NoFullLastLine, TransferInv, TransferInv', GridInv, ServerStep, intime'
  PROVE  GridInv'
<1>1. client' = client /\ Typed
  <2>1. client' = client
    BY DEF ServerStep, ReadCommand, ReadGarbage, SkipTransfer, ReadHeader, TakeChunk, AwaitChunk,
       ReceiveLine, ReceiveMixed, Store, ClearChunks, Refuse, LineLost
  <2> QED BY <2>1 DEF TransferInv
<1>2. CASE ReadCommand \/ SkipTransfer \/ ReadHeader \/ LineLost
  <2>1. client.phase # "ack"
    <3>1. CASE ReadCommand
      BY <3>1 DEF ReadCommand, TransferInv, ClientInv, Working, Answered
    <3>2. CASE SkipTransfer \/ ReadHeader
      BY <3>2 DEF SkipTransfer, ReadHeader, TransferInv, ClientInv, Working, Answered
    <3>3. CASE LineLost
      BY <3>3 DEF LineLost
    <3> QED BY <1>2, <3>1, <3>2, <3>3
  <2>2. server'.phase = "data" => server'.written = 0
    <3>1. CASE ReadCommand
      BY <1>1, <3>1, ReadCommandTyped
    <3>2. CASE SkipTransfer
      BY <1>1, <3>2, SkipTransferTyped
    <3>3. CASE LineLost
      BY <1>1, <3>3, LostTyped
    <3> QED BY <1>2, <3>1, <3>2, <3>3, ReadHeaderKeeps
  <2> QED BY <1>1, <2>1, <2>2, GridPoints DEF GridInv
<1>3. CASE TakeChunk \/ AwaitChunk
  BY <1>3, ChunksGrid
<1>4. CASE ReceiveLine
  <2>1. server'.phase \in {"data", "store", "refuse"} /\ server.phase = "data"
    BY <1>1, <1>4, ReceiveLineTyped
  <2>2. client.phase # "first"
    <3>1. toServer # <<>>
      BY <1>4 DEF ReceiveLine
    <3> QED BY <2>1, <3>1 DEF TransferInv, ClientInv, Underway, FirstReplied
  <2>3. client.phase = "ack" => server'.phase # "store" /\ ~Told(Okay)'
    <3>1. client.phase = "ack" /\ server'.phase = "store" => client.pos = TotalSize[client.file]
      BY <1>4, ReceiveLineKeeps
    <3> QED BY <1>1, <2>1, <3>1, BusyNotToldNext DEF GridInv, BusySilent
  <2> QED BY <1>1, <2>1, <2>2, <2>3 DEF GridInv, Told
<1>5. CASE Store
  <2>1. client.phase \notin {"ack", "send"}
    BY <1>5 DEF Store, TransferInv, ClientInv, GridInv
  <2>2. server'.phase \in {"clear", "refuse"}
    BY <1>1, <1>5, EndTyped
  <2> QED BY <1>1, <2>1, <2>2 DEF GridInv
<1>6. CASE ClearChunks \/ Refuse
  <2>1. server'.phase = "prompt" /\ server.phase \in {"clear", "refuse"}
    BY <1>6 DEF ClearChunks, Refuse, TransferInv, Typed, TypeOK, ServerType
  <2>2. client.phase = "ack" => toClient' = <<Error>>
    <3> SUFFICES ASSUME client.phase = "ack" PROVE toClient' = <<Error>>
      OBVIOUS
    <3>1. server.phase = "refuse" /\ toClient = <<>>
      BY <2>1 DEF GridInv, TransferInv, ClientInv, Working, Answered
    <3> QED BY <1>6, <3>1, ShortSequences DEF ClearChunks, Refuse, Error
  <2>3. <<Error>> # <<Okay>>
    BY Replies
  <2> QED BY <1>1, <2>1, <2>2, <2>3 DEF GridInv
<1> QED BY <1>2, <1>3, <1>4, <1>5, <1>6, NothingMixed DEF ServerStep

LEMMA ElseGrid ==
  ASSUME GridInv, UNCHANGED <<client, toClient>>,
         server'.phase = server.phase, server'.written = server.written
  PROVE  GridInv'
BY DEF GridInv

LEMMA GridKept ==
  ASSUME NoFullLastLine, TransferInv, TransferInv', GridInv, [Next]_vars, intime'
  PROVE  GridInv'
<1>1. CASE \/ \E f \in Files : Put(f)
           \/ ClientStep
           \/ ClientDies
  <2>1. ~ReplyLost
    BY DEF ReplyLost
  <2> QED BY <1>1, <2>1, ClientGrid DEF ClientStep
<1>2. CASE \E d \in dgrams : Deliver(d)
  BY <1>2, ElseGrid DEF Deliver
<1>3. CASE ServerStep
  BY <1>3, ServerGrid
<1>4. CASE ServerDies
  BY <1>4, ElseGrid DEF ServerDies, TransferInv, Typed, TypeOK, ServerType
<1>5. CASE UNCHANGED vars
  BY <1>5, ElseGrid DEF vars
<1> QED BY <1>1, <1>2, <1>3, <1>4, <1>5 DEF Next, Quiescent

LEMMA PutInvHolds ==
  ASSUME NoFullLastLine
  PROVE  Spec => []PutInv
<1>1. Init => PutInv
  <2> SUFFICES ASSUME Init PROVE OutcomeInv /\ GridInv
    BY InitEstablishes, InitTyped DEF PutInv, Inv
  <2>1. /\ client.phase = "prompt" /\ server.phase = "prompt" /\ toClient = <<>>
        /\ toServer = <<>>
    BY DEF Init
  <2>2. ~Told(Okay) /\ ~Told(Error)
    BY <2>1, ShortSequences DEF Told
  <2> QED BY <2>1, <2>2 DEF OutcomeInv, GridInv
<1>2. PutInv /\ [Next]_vars => PutInv'
  <2> SUFFICES ASSUME PutInv, [Next]_vars PROVE PutInv'
    OBVIOUS
  <2>1. Inv /\ Typed
    BY DEF PutInv, Inv
  <2>2. Inv' /\ (intime' => intime)
    BY <2>1, TypedKept, NextKeeps, IntimeFalls DEF Inv
  <2>3. intime' => OutcomeInv' /\ GridInv'
    BY <2>1, <2>2, OutcomeKept, GridKept DEF PutInv, Inv
  <2> QED BY <2>2, <2>3 DEF PutInv
<1> QED BY <1>1, <1>2, PTL DEF Spec


-----------------------------------------------------------------------------
(* The files that the server may still store.                              *)

\* The files of the put commands among lines, and that of the put in progress.
PutFiles(lines) == {lines[i].file : i \in {j \in DOMAIN lines : lines[j].type = "put"}}
Receiving == IF server.phase \in {"header", "chunks", "data", "store"} THEN {server.file} ELSE {}

LEMMA PendingIs == Pending = PutFiles(toServer) \cup Receiving
BY DEF Pending, PutFiles, Receiving

LEMMA PendingIsNext == Pending' = PutFiles(toServer') \cup Receiving'
BY DEF Pending, PutFiles, Receiving

LEMMA NothingPending ==
  ASSUME toServer = <<>>, server.phase = "prompt"
  PROVE  Pending = {}
<1>1. DOMAIN toServer = {}
  OBVIOUS
<1>2. PutFiles(toServer) = {} /\ Receiving = {}
  BY <1>1 DEF PutFiles, Receiving
<1> QED BY <1>2, PendingIs

LEMMA FewerPutFiles ==
  ASSUME NEW q, NEW r,
         \A i \in DOMAIN r : r[i].type = "put" => \E j \in DOMAIN q : r[i] = q[j]
  PROVE  PutFiles(r) \subseteq PutFiles(q)
BY DEF PutFiles

LEMMA TailPutFiles ==
  ASSUME NEW q \in Seq(ToServerType), q # <<>>
  PROVE  PutFiles(Tail(q)) \subseteq PutFiles(q)
<1>1. \A i \in DOMAIN Tail(q) : i + 1 \in DOMAIN q /\ Tail(q)[i] = q[i + 1]
  OBVIOUS
<1> QED BY <1>1, FewerPutFiles

LEMMA LaterPutFiles ==
  ASSUME NEW q \in Seq(ToServerType), NEW k \in 1..Len(q)
  PROVE  /\ PutFiles(SubSeq(q, k + 1, Len(q))) \subseteq PutFiles(q)
         /\ PutFiles(<<[type |-> "rest"]>> \o SubSeq(q, k + 1, Len(q))) \subseteq PutFiles(q)
<1> DEFINE r == SubSeq(q, k + 1, Len(q))
           l == [type |-> "rest"]
           w == <<l>> \o r
<1>1. Len(q) \in Nat /\ DOMAIN q = 1..Len(q)
  BY LenProperties
<1>2. \A i \in (k + 1)..Len(q) : q[i] \in ToServerType
  BY <1>1, ElementOfSeq
<1>3. /\ r \in Seq(ToServerType) /\ Len(r) \in Nat /\ DOMAIN r = 1..Len(r)
      /\ \A i \in DOMAIN r : k + i \in DOMAIN q /\ r[i] = q[k + i]
  <2>1. /\ r \in Seq(ToServerType)
        /\ Len(r) = IF k + 1 <= Len(q) THEN Len(q) - (k + 1) + 1 ELSE 0
        /\ \A i \in 1..Len(r) : r[i] = q[(k + 1) + i - 1]
    BY <1>1, <1>2, SubSeqProperties
  <2> HIDE DEF r
  <2>2. Len(r) \in Nat /\ DOMAIN r = 1..Len(r)
    BY <2>1, LenProperties
  <2>3. \A i \in 1..Len(r) : k + i \in 1..Len(q) /\ (k + 1) + i - 1 = k + i
    <3> DEFINE n == Len(q)
               m == Len(r)
    <3>1. n \in Nat /\ k \in 1..n /\ m = IF k + 1 <= n THEN n - (k + 1) + 1 ELSE 0
      BY <1>1, <2>1
    <3> HIDE DEF n, m
    <3>2. \A i \in 1..m : k + i \in 1..n /\ (k + 1) + i - 1 = k + i
      BY <3>1
    <3> QED BY <3>2 DEF n, m
  <2> QED BY <1>1, <2>1, <2>2, <2>3
<1> HIDE DEF r
<1>4. PutFiles(r) \subseteq PutFiles(q)
  BY <1>3, FewerPutFiles
<1>5. l.type # "put" /\ l \in ToServerType
  BY LinesToServer
<1> HIDE DEF l
<1>6. /\ DOMAIN w = 1..(1 + Len(r)) /\ w[1] = l
      /\ \A i \in 2..(1 + Len(r)) : w[i] = r[i - 1]
  <2>1. <<l>> \in Seq(ToServerType) /\ Len(<<l>>) = 1 /\ <<l>>[1] = l
    BY <1>5
  <2>2. /\ w \in Seq(ToServerType) /\ Len(w) = 1 + Len(r)
        /\ \A i \in 1..(1 + Len(r)) : w[i] = IF i <= 1 THEN <<l>>[i] ELSE r[i - 1]
    BY <1>3, <2>1, ConcatProperties
  <2> HIDE DEF w
  <2>3. DOMAIN w = 1..(1 + Len(r))
    BY <2>2, LenProperties
  <2> QED BY <1>3, <2>1, <2>2, <2>3
<1> HIDE DEF w
<1>7. ASSUME NEW i \in DOMAIN w, w[i].type = "put"
      PROVE  \E j \in DOMAIN q : w[i] = q[j]
  <2>1. i # 1
    BY <1>5, <1>6, <1>7
  <2>2. i - 1 \in DOMAIN r /\ w[i] = r[i - 1]
    BY <1>3, <1>6, <2>1
  <2> QED BY <1>3, <2>2
<1>8. PutFiles(w) \subseteq PutFiles(q)
  BY <1>7, FewerPutFiles
<1> QED BY <1>4, <1>8 DEF r, w, l

LEMMA AppendedPutFiles ==
  ASSUME NEW q \in Seq(ToServerType), NEW l \in ToServerType
  PROVE  PutFiles(Append(q, l)) = PutFiles(q) \cup IF l.type = "put" THEN {l.file} ELSE {}
<1> DEFINE r == Append(q, l)
<1>1. /\ DOMAIN q = 1..Len(q) /\ Len(q) \in Nat /\ DOMAIN r = 1..(Len(q) + 1)
      /\ r[Len(q) + 1] = l /\ \A i \in 1..Len(q) : r[i] = q[i]
  BY AppendProperties, LenProperties
<1> HIDE DEF r
<1>2. \A i \in DOMAIN r : i \in DOMAIN q \/ i = Len(q) + 1
  BY <1>1
<1>3. PutFiles(r) \subseteq PutFiles(q) \cup IF l.type = "put" THEN {l.file} ELSE {}
  BY <1>1, <1>2 DEF PutFiles
<1>4. \A i \in DOMAIN q : i \in DOMAIN r /\ r[i] = q[i]
  BY <1>1
<1>5. PutFiles(q) \subseteq PutFiles(r)
  BY <1>4 DEF PutFiles
<1>6. Len(q) + 1 \in DOMAIN r
  BY <1>1
<1>7. l.type = "put" => l.file \in PutFiles(r)
  BY <1>1, <1>6 DEF PutFiles
<1> QED BY <1>3, <1>5, <1>7 DEF r

-----------------------------------------------------------------------------
(* The refinement.                                                         *)

\* The put goes on, or nothing is being put.
LEMMA Unseen ==
  ASSUME client'.file = client.file, UNCHANGED <<stored, intime, Pending>>, Busy' <=> Busy,
         ~Busy => client'.result = client.result
  PROVE  UNCHANGED Abstract!vars
BY DEF Abstract!vars, Busy

\* The put has ended for the client.
LEMMA PutOver ==
  ASSUME Busy, ~Busy', client'.file = client.file, UNCHANGED <<stored, Pending>>
  PROVE  Abstract!End(client'.result)
BY DEF Abstract!End, Busy

LEMMA PutBegins ==
  ASSUME NEW f \in Files, PutInv, Put(f)
  PROVE  Abstract!Begin(f)
<1>1. /\ client'.file = f /\ client'.phase \in {"ahead", "header"} /\ client.phase = "prompt"
      /\ client.result # "going" /\ toServer \in Seq(ToServerType)
      /\ toServer' = Append(toServer, PutLine(f))
      /\ UNCHANGED <<stored, intime, server>>
  BY PutTyped DEF PutInv, Inv, Typed, TypeOK, ClientType, Put, PutLine
<1>2. PutLine(f).type = "put" /\ PutLine(f).file = f /\ PutLine(f) \in ToServerType
  BY LinesToServer DEF PutLine
<1>3. PutFiles(toServer') = PutFiles(toServer) \cup {f}
  BY <1>1, <1>2, AppendedPutFiles
<1>4. Receiving' = Receiving
  BY <1>1 DEF Receiving
<1>5. Pending' = Pending \cup {f}
  BY <1>3, <1>4, PendingIs, PendingIsNext
<1> QED BY <1>1, <1>5 DEF Abstract!Begin, Busy

\* Lines that are no put commands leave what is pending.
LEMMA LineSent ==
  ASSUME Typed, SendHeader \/ SendLine
  PROVE  Pending' = Pending
<1>1. UNCHANGED server /\ toServer \in Seq(ToServerType) /\ toServer' \in Seq(ToServerType)
  BY SendHeaderTyped, SendLineTyped DEF SendHeader, SendLine, Typed, TypeOK
<1>2. toServer' = toServer \/ \E l : l.type # "put" /\ toServer' = Append(toServer, l)
  <2>1. CASE SendHeader
    <3> DEFINE t == IF TotalSize[client.file] <= MaxAppended THEN "whole" ELSE "header"
               l == [type |-> t, total |-> TotalSize[client.file], udp |-> client.helper,
                     data |-> Piece(client.file, 0, TotalSize[client.file])]
    <3>1. toServer' = Append(toServer, l)
      BY <2>1 DEF SendHeader
    <3>2. l.type = t /\ t # "put"
      OBVIOUS
    <3> HIDE DEF l, t
    <3> QED BY <3>1, <3>2
  <2>2. CASE SendLine
    <3> DEFINE d == Piece(client.file, client.pos,
                          LesserOf(client.pos + MaxUnencoded, TotalSize[client.file]))
               l == [type |-> "data", data |-> d]
    <3>1. toServer' = toServer \/ toServer' = Append(toServer, l)
      BY <2>2 DEF SendLine
    <3>2. l.type = "data"
      OBVIOUS
    <3>3. l.type # "put"
      BY <3>2
    <3> HIDE DEF l
    <3> QED BY <3>1, <3>3
  <2> QED BY <1>1, <2>1, <2>2
<1>3. ASSUME NEW l, l.type # "put", toServer' = Append(toServer, l)
      PROVE  PutFiles(toServer') = PutFiles(toServer)
  <2>1. l \in ToServerType
    <3> DEFINE r == Append(toServer, l)
               n == Len(toServer) + 1
    <3>1. r \in Seq(ToServerType) /\ n \in 1..Len(r) /\ r[n] = l
      BY <1>1, <1>3
    <3> HIDE DEF r, n
    <3> QED BY <3>1, ElementOfSeq
  <2> QED BY <1>1, <1>3, <2>1, AppendedPutFiles
<1>4. PutFiles(toServer') = PutFiles(toServer)
  BY <1>2, <1>3
<1>5. Receiving' = Receiving
  BY <1>1 DEF Receiving
<1> QED BY <1>4, <1>5, PendingIs, PendingIsNext

\* Every step of the client that is none of the following goes on with the
\* put.
LEMMA PutGoesOn ==
  ASSUME PutInv, SendPacket \/ SendPacketFails \/ SendHeader \/ SendLine
  PROVE  UNCHANGED Abstract!vars
<1>1. Typed
  BY DEF PutInv, Inv
<1>2. client.phase \in {"ahead", "header", "send"} /\ UNCHANGED <<stored, intime>>
  BY DEF SendPacket, SendPacketFails, SendHeader, SendLine
<1>3. /\ client'.file = client.file
      /\ client'.phase \in {"ahead", "header", "first", "send", "ack", "response"}
  BY <1>1, SendPacketTyped, SendPacketFailsTyped, SendHeaderTyped, SendLineTyped
<1>4. Pending' = Pending
  <2>1. CASE SendHeader \/ SendLine
    BY <1>1, <2>1, LineSent
  <2>2. CASE SendPacket \/ SendPacketFails
    BY <2>2 DEF SendPacket, SendPacketFails, Pending
  <2> QED BY <2>1, <2>2
<1> QED BY <1>2, <1>3, <1>4, Unseen DEF Busy

\* A reply tells the client to go on, or how the put has ended.
LEMMA PutResponds ==
  ASSUME PutInv, FirstReply \/ LineReply \/ Response
  PROVE  Abstract!Next \/ UNCHANGED Abstract!vars
<1> DEFINE f == client.file
<1>1. /\ Typed /\ client'.file = f /\ f \in Files /\ toClient # <<>>
      /\ client.phase \in {"first", "ack", "response"} /\ client \in ClientType
      /\ UNCHANGED <<stored, intime, Pending>>
  BY FirstReplyTyped, ReplyTyped
     DEF PutInv, Inv, FirstReply, LineReply, Response, Pending, Typed, TypeOK, NamedInv, Busy
<1>2. Busy
  BY <1>1 DEF Busy
<1>3. CASE Busy'
  BY <1>1, <1>2, <1>3, Unseen
<1>4. CASE ~Busy' /\ ~intime
  <2>1. PICK r \in {"okay", "failed"} : client'.result = r
    <3>1. CASE FirstReply
      <4>1. PutFails
        <5>1. ASSUME Head(toClient).type = "skip" PROVE FALSE
          <6>1. client' = Transferred(client)
            BY <3>1, <5>1 DEF FirstReply
          <6>2. client'.phase = "response"
            BY <1>1, <6>1, TransferredType
          <6> QED BY <1>4, <6>2 DEF Busy
        <5>2. ASSUME Head(toClient).type = "more" PROVE FALSE
          <6> DEFINE o == Head(toClient).offset
          <6>1. client' = AfterOffset(o)
            BY <3>1, <5>2 DEF FirstReply, AfterOffset, WithOffset
          <6>2. o \in {NoOffset} \cup 0..BufferSize
            BY <1>1, <5>2, TailTyped, ClientLine
          <6> HIDE DEF o
          <6>3. WithOffset(o) \in ClientType
            BY <1>1, <6>2, WithOffsetType
          <6>4. client'.phase \in {"response", "send"}
            BY <6>1, <6>3, TransferredType DEF AfterOffset, ClientType
          <6> QED BY <1>4, <6>4 DEF Busy
        <5> QED BY <3>1, <5>1, <5>2 DEF FirstReply
      <4> QED BY <1>1, <4>1 DEF PutFails, ClientType
    <3>2. CASE LineReply
      <4>1. client' # [client EXCEPT !.phase = "send"]
        BY <1>1, <1>4 DEF Busy, ClientType
      <4> QED BY <1>1, <3>2, <4>1 DEF LineReply, PutFails, ClientType
    <3>3. CASE Response
      <4>1. client' # client
        BY <1>2, <1>4 DEF Busy
      <4>2. client' = [client EXCEPT !.phase = "prompt", !.result = Outcome(Head(toClient))]
        BY <3>3, <4>1 DEF Response
      <4> QED BY <1>1, <4>2 DEF ClientType, Outcome
    <3> QED BY <3>1, <3>2, <3>3
  <2>2. Abstract!End(r)
    BY <1>1, <1>2, <1>4, <2>1, PutOver
  <2> QED BY <1>1, <1>4, <2>1, <2>2 DEF Abstract!Next, Abstract!EndOkay, Abstract!EndFailed
<1>5. CASE ~Busy' /\ intime
  <2>1. TransferInv /\ OutcomeInv /\ GridInv
    BY <1>5 DEF PutInv, Inv
  <2>2. ~FirstReply
    BY <1>5, <2>1, FirstReplyKeeps DEF Busy
  <2>3. Answered
    <3>1. CASE Response
      BY <2>1, <3>1, ResponseKeeps
    <3>2. CASE LineReply
      BY <1>5, <2>1, <3>2, LineReplyKeeps DEF Busy
    <3> QED BY <2>2, <3>1, <3>2
  <2>4. Pending = {}
    BY <2>3, NothingPending DEF Answered
  <2>5. CASE toClient = <<Okay>>
    <3>1. Response
      BY <2>1, <2>2, <2>5 DEF GridInv, LineReply
    <3>2. client'.result = "okay"
      <4>1. Head(toClient) = Okay
        BY <2>5, ShortSequences
      <4>2. Outcome(Okay) = "okay" /\ ~InPassing(Okay)
        BY Replies DEF Outcome, InPassing
      <4>3. client' = [client EXCEPT !.phase = "prompt", !.result = "okay"]
        BY <3>1, <4>1, <4>2 DEF Response
      <4> QED BY <1>1, <4>3 DEF ClientType
    <3>3. f \in stored
      BY <1>1, <2>1, <2>5 DEF OutcomeInv, Told
    <3>4. Abstract!End("okay")
      BY <1>1, <1>2, <1>5, <3>2, PutOver
    <3> QED BY <1>1, <2>4, <3>3, <3>4 DEF Abstract!Next, Abstract!EndOkay
  <2>6. CASE toClient = <<Error>>
    <3>1. client'.result = "failed"
      <4>1. Head(toClient) = Error
        BY <2>6, ShortSequences
      <4>2. Outcome(Error) = "failed" /\ ~InPassing(Error) /\ Error # More(NoOffset)
        BY Replies DEF Outcome, InPassing
      <4>3. client' = [client EXCEPT !.phase = "prompt", !.result = "failed"]
        BY <2>2, <4>1, <4>2 DEF Response, LineReply, PutFails
      <4> QED BY <1>1, <4>3 DEF ClientType
    <3>2. f \notin stored
      BY <1>1, <2>1, <2>6 DEF OutcomeInv, Told
    <3>3. Abstract!End("failed")
      BY <1>1, <1>2, <1>5, <3>1, PutOver
    <3> QED BY <1>1, <2>4, <3>2, <3>3 DEF Abstract!Next, Abstract!EndFailed
  <2> QED BY <2>3, <2>5, <2>6 DEF Answered
<1> QED BY <1>3, <1>4, <1>5

LEMMA PutLost ==
  ASSUME PutInv, ReplyLost \/ ResponseLost \/ ClientDies
  PROVE  Abstract!Next \/ UNCHANGED Abstract!vars
<1>1. /\ ~Busy' /\ client'.file = client.file
      /\ client'.result = IF client.phase = "prompt" THEN client.result ELSE "lost"
      /\ client.phase # "gone" /\ intime' \in {intime, FALSE} /\ UNCHANGED <<stored, Pending>>
      /\ client.phase = "prompt" => intime' = intime
  <2>1. Typed /\ client \in ClientType
    BY DEF PutInv, Inv, Typed, TypeOK
  <2>2. client'.file = client.file /\ ~Busy'
    BY <2>1, LeavingTyped DEF Busy
  <2>3. UNCHANGED <<stored, Pending>> /\ intime' \in {intime, FALSE} /\ client.phase # "gone"
        /\ (client.phase = "prompt" => intime' = intime)
    <3>1. UNCHANGED <<stored, toServer, server>>
      BY DEF ReplyLost, ResponseLost, ClientDies
    <3>2. Pending' = Pending
      BY <3>1 DEF Pending
    <3>3. CASE ReplyLost
      BY <3>1, <3>2, <3>3 DEF ReplyLost
    <3>4. CASE ResponseLost \/ ClientDies
      BY <3>1, <3>2, <3>4 DEF ResponseLost, ClientDies
    <3> QED BY <3>3, <3>4
  <2>4. client'.result = IF client.phase = "prompt" THEN client.result ELSE "lost"
    BY <2>1 DEF ReplyLost, ResponseLost, ClientDies, ClientType
  <2> QED BY <2>2, <2>3, <2>4
<1>2. CASE client.phase = "prompt"
  BY <1>1, <1>2, Unseen DEF Busy
<1>3. CASE client.phase # "prompt"
  <2>1. Abstract!End("lost")
    BY <1>1, <1>3, PutOver DEF Busy
  <2> QED BY <1>1, <2>1 DEF Abstract!Next, Abstract!EndLost
<1> QED BY <1>2, <1>3

\* The server takes lines and files from those pending, and adds none.
LEMMA ServerTakes ==
  ASSUME Typed, ServerStep \/ ServerDies
  PROVE  Pending' \subseteq Pending
<1>1. toServer \in Seq(ToServerType) /\ server \in ServerType
  BY DEF Typed, TypeOK
<1>2. CASE ReadCommand
  <2>1. /\ toServer # <<>> /\ toServer' = Tail(toServer) /\ Head(toServer).type = "put"
        /\ server'.file = Head(toServer).file
    BY <1>2, ReadCommandTyped DEF ReadCommand
  <2>2. Receiving' \subseteq {server'.file}
    BY DEF Receiving
  <2>3. 1 \in DOMAIN toServer /\ toServer[1] = Head(toServer)
    BY <1>1, <2>1
  <2>4. server'.file \in PutFiles(toServer)
    BY <2>1, <2>3 DEF PutFiles
  <2>5. PutFiles(toServer') \subseteq PutFiles(toServer)
    BY <1>1, <2>1, TailPutFiles
  <2> QED BY <2>2, <2>4, <2>5, PendingIs, PendingIsNext
<1>3. CASE ~ReadCommand
  <2>1. PutFiles(toServer') \subseteq PutFiles(toServer)
    <3>1. CASE SkipTransfer \/ ReadHeader \/ ReceiveLine
      <4>1. toServer # <<>> /\ toServer' = Tail(toServer)
        BY <3>1 DEF SkipTransfer, ReadHeader, ReceiveLine
      <4> QED BY <1>1, <4>1, TailPutFiles
    <3>2. CASE ReadGarbage
      <4>1. PICK k \in 1..Len(toServer) : toServer' = SubSeq(toServer, k + 1, Len(toServer))
        BY <3>2 DEF ReadGarbage
      <4> QED BY <1>1, <4>1, LaterPutFiles
    <3>3. CASE ReceiveMixed
      <4>1. PICK k \in 1..Len(toServer) :
              \/ toServer' = SubSeq(toServer, k + 1, Len(toServer))
              \/ toServer' = <<[type |-> "rest"]>> \o SubSeq(toServer, k + 1, Len(toServer))
        BY <3>3 DEF ReceiveMixed
      <4> QED BY <1>1, <4>1, LaterPutFiles
    <3>4. CASE TakeChunk \/ AwaitChunk \/ Store \/ ClearChunks \/ Refuse \/ LineLost \/ ServerDies
      <4>1. toServer' = toServer
        BY <3>4 DEF TakeChunk, AwaitChunk, Store, ClearChunks, Refuse, LineLost, ServerDies
      <4> QED BY <4>1
    <3> QED BY <1>3, <3>1, <3>2, <3>3, <3>4 DEF ServerStep
  <2>2. Receiving' \subseteq Receiving
    <3>1. server' = server \/ server'.file = server.file
      BY <1>3, SkipTransferTyped, ReadHeaderTyped, ChunksTyped, ReceiveLineTyped,
         ReceiveMixedTyped, EndTyped, LostTyped DEF ServerStep, ReadGarbage
    <3>2. server'.phase \in {"header", "chunks", "data", "store"} =>
            server.phase \in {"header", "chunks", "data", "store"}
      <4>1. CASE ReadGarbage
        BY <4>1 DEF ReadGarbage
      <4>2. CASE SkipTransfer \/ Store \/ ClearChunks \/ Refuse \/ LineLost \/ ReceiveMixed
        BY <1>1, <4>2 DEF SkipTransfer, Store, ClearChunks, Refuse, LineLost, ReceiveMixed,
           ServerType
      <4>3. CASE ReadHeader \/ TakeChunk \/ AwaitChunk \/ ReceiveLine
        BY <4>3 DEF ReadHeader, TakeChunk, AwaitChunk, ReceiveLine
      <4>4. CASE ServerDies
        BY <1>1, <4>4 DEF ServerDies, ServerType
      <4> QED BY <1>3, <4>1, <4>2, <4>3, <4>4 DEF ServerStep
    <3> QED BY <3>1, <3>2 DEF Receiving
  <2> QED BY <2>1, <2>2, PendingIs, PendingIsNext
<1> QED BY <1>2, <1>3

LEMMA ServerSeen ==
  ASSUME PutInv, ServerStep \/ ServerDies
  PROVE  Abstract!Next
<1>1. /\ Pending' \subseteq Pending /\ client' = client /\ intime' \in {intime, FALSE}
      /\ ~Store => stored' = stored
      /\ Store => intime' = intime
  <2>1. Pending' \subseteq Pending
    BY ServerTakes DEF PutInv, Inv
  <2>2. CASE LineLost
    BY <2>1, <2>2 DEF LineLost, Store
  <2>3. CASE ~LineLost
    BY <2>1, <2>3 DEF ServerStep, ReadCommand, ReadGarbage, SkipTransfer, ReadHeader, TakeChunk,
       AwaitChunk, ReceiveLine, ReceiveMixed, Store, ClearChunks, Refuse, ServerDies
  <2> QED BY <2>2, <2>3
<1>2. CASE stored' = stored
  <2>1. Abstract!Drop
    BY <1>1, <1>2 DEF Abstract!Drop, Busy
  <2> QED BY <2>1 DEF Abstract!Next
<1>3. CASE Store /\ stored' = stored \cup {server.file}
  <2>1. server.file \in Pending
    BY <1>3 DEF Store, Pending
  <2>2. Abstract!StoreFile
    BY <1>1, <1>3, <2>1 DEF Abstract!StoreFile, Busy
  <2> QED BY <2>2 DEF Abstract!Next
<1> QED BY <1>1, <1>2, <1>3 DEF Store

\* With all its datagrams, offsets, replies and timeouts a put is what FilePut
\* says, whatever the files, the sizes of lines and packets and the losses, if
\* no file ends with a full line; file_transfer asks for the acknowledgement of
\* such a line, which the other end has no reason to send (sockets.cpp).
THEOREM PutImplemented == NoFullLastLine => (Spec => ImplementsFilePut)
<1> SUFFICES ASSUME NoFullLastLine PROVE Spec => ImplementsFilePut
  OBVIOUS
<1>1. Init => Abstract!Init
  <2> SUFFICES ASSUME Init PROVE Abstract!Init
    OBVIOUS
  <2>1. Pending = {}
    BY NothingPending DEF Init
  <2>2. Before \subseteq Files
    BY TransferAssumption
  <2> QED BY <2>1, <2>2 DEF Init, Abstract!Init, Busy
<1>2. PutInv /\ [Next]_vars => [Abstract!Next]_(Abstract!vars)
  <2> SUFFICES ASSUME PutInv, [Next]_vars
               PROVE  Abstract!Next \/ UNCHANGED Abstract!vars
    OBVIOUS
  <2>1. CASE \E f \in Files : Put(f)
    BY <2>1, PutBegins DEF Abstract!Next
  <2>2. CASE ClientStep
    BY <2>2, PutGoesOn, PutResponds, PutLost DEF ClientStep
  <2>3. CASE ClientDies
    BY <2>3, PutLost
  <2>4. CASE ServerStep \/ ServerDies
    BY <2>4, ServerSeen
  <2>5. CASE (\E d \in dgrams : Deliver(d)) \/ UNCHANGED vars
    <3>1. UNCHANGED <<client, stored, intime, server, toServer>>
      BY <2>5 DEF Deliver, vars
    <3>2. Pending' = Pending
      BY <3>1 DEF Pending
    <3> QED BY <3>1, <3>2, Unseen DEF Busy
  <2> QED BY <2>1, <2>2, <2>3, <2>4, <2>5 DEF Next, Quiescent
<1> QED BY <1>1, <1>2, PutInvHolds, PTL DEF Spec, ImplementsFilePut, Abstract!Spec

=============================================================================
