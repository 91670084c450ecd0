SPECIFICATION Spec
CONSTANTS
  f1 = f1
  f2 = f2
  f3 = f3
  NoFile = NoFile
  Before = {f1}
  Files = {f1, f2, f3}
  TotalSize <- OnBoundary
  MaxSize = 7
  BufferSize = 8
  MaxUnencoded = 4
  PacketBytes = 2
  MinForUdp = 2
  MaxAppended = 1
  MaxChunks = 3
  MaxRetries = 2
  FewSkips = 1
  ManySkips = 2
  LocalHost = FALSE
  Streaming = TRUE
  MaxPuts = 1
INVARIANTS ReportsStored
