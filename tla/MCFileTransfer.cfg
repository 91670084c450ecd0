SPECIFICATION Spec
CONSTANTS
  f1 = f1
  f2 = f2
  f3 = f3
  NoFile = NoFile
  Before = {f1}
  Files = {f1, f2, f3}
  TotalSize <- OffBoundary
  MaxSize = 5
  BufferSize = 6
  MaxUnencoded = 4
  PacketBytes = 3
  MinForUdp = 2
  MaxAppended = 1
  MaxChunks = 2
  MaxRetries = 2
  FewSkips = 1
  ManySkips = 2
  LocalHost = FALSE
  Streaming = TRUE
  MaxPuts = 2
INVARIANTS TypeOK InStep ReceivedIsFile
PROPERTIES PutEnds ImplementsFilePut
