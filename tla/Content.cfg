SPECIFICATION ContentSpec
CONSTANTS
  BTKeys = {2, 3, 4, 8, 9, 13, 14, 15, 22, 24, 26}
  BTRewrites = {4}
  BTEnd = 27
  BTStarts <- MCStarts
  BTMaxOps = 4
  Group = 5
  RecLen = 25
  SlotLen = 1
  Usable = 100
  MinFill = 30
  Bytes = {0, 97, 255}
  MaxString = 2
  MAX_ENCODED_LEN = 5
  EntryGroups <- MCEntryGroups
  PropertyValues <- MCValues
  SlotRefs = {1, 2}
  MaxBatch = 2
  MaxBatches = 2
  PerPage = 2
  Labels <- MCLabels
  PropNames <- MCNames
  Looks <- MCLooks
  PhantomNode = 9
  PutIds = {4}
  Scripts <- MCScripts
  MaxSlots = 9
  AdjEdges = {a1, a2, a3, a4}
  NoSlot = NoSlot
  AdjSides = {"source"}
  Quads <- MCQuads
  NodeSized = {"b"}
  PageRoom = 4
  MaxRdfFaults = 1
  MaxDeletes = 2
  MaxReopens = 2
  Default = "default"
  MaxInt = 7
  Exact = 4
  MaxRange = 18
  CvCases <- MCCvCases
  CqScripts <- MCCqScripts
  CqGraphs <- MCCqGraphs
  PrCases <- MCPrCases
 
INVARIANT CodecFaithful
INVARIANT ReadersSeeGraph
INVARIANT CollectsLinked
 
INVARIANT InterpreterConsistent
INVARIANT BarriersSuffice
 
PROPERTY IndexesFollowBatches
 
CHECK_DEADLOCK FALSE
