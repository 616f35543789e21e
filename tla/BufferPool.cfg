SPECIFICATION PoolSpec
CONSTANTS
  c1 = c1
  c2 = c2
  Clients = {c1, c2}
  NumFrames = 2
  FilePages = 3
  LastPage = 4
  ClientOps = {"read", "write", "invalidate", "flush_all"}
  FaultKinds = {"read", "stage", "write", "fsync"}
  MaxOps = 3
  MaxFaults = 1
  MaxSweeps = 2
  MaxStride = 1
INVARIANT FramesExclusive
INVARIANT NoLostWrite
PROPERTY OperationEnds
CHECK_DEADLOCK FALSE
