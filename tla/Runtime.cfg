SPECIFICATION RuntimeSpec
CONSTANTS
  Submitters = {s1, s2, s3}
  NoLeader = NoLeader
  Sizes <- MCSizes
  PerCommit = 2
  MaxGcFaults = 1
  IoCallers = {1, 2}
  LaneOf <- MCLaneOf
  IoWorkers = {v1, v2}
  LaneCapacity = 1
  MaxOpenFaults = 1
  BrCallers = {k1, k2}
  BrWorkers = {b1, b2}
  BrCapacity = 1
  MaxCalls = 1
  NoCaller = NoCaller
  w1 = w1
  w2 = w2
  r1 = r1
  o1 = o1
  i1 = i1
  d1 = d1
  Writers = {w1, w2}
  LatchedReaders = {r1}
  Optimists = {o1}
  Intenders = {i1}
  Defragmenters = {d1}
  Casts <- MCCasts
  TreePages = {1, 2}
  MaxLatchings = 1
  optimistic_retry = 1
  Clients = {l1, l2, l3}
  Limit = 2
  Sends = {"grpc", "other", "silent", "badtls"}
  MaxAcErrors = 1
  NoClient = NoClient
  MaxTx = 2
  MaxSvFaults = 1
  Workloads <- MCWorkloads
INVARIANT AckMeansDurable
INVARIANT LatchProtects
INVARIANT ServiceTruthful
PROPERTY EveryoneAnswered
PROPERTY NoLaneStarves
 
 
 
CHECK_DEADLOCK FALSE
