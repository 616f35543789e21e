SPECIFICATION StorageSpec
CONSTANTS
  MaxVersion = 3
  MaxGeneration = 9
  PagesPerBitmap = 4
  CacheBatch = 2
  MaxPage = 8
  MaxOpens = 1
  Crashes = TRUE
  SPSize = 9
  SPLengths = {1, 2, 3}
  SPMaxOps = 7
  MaxAppends = 2
  MaxSegments = 4
  MaxWalFaults = 2
  DwPages = {1, 2, 4}
  MaxImage = 1
  MaxDwFaults = 2
  Handles = {h1, h2}
  NoHandle = NoHandle
  Names = {"Person", "Dog"}
  MaxRows = 2
  MaxDbFaults = 2
INVARIANT AckedSurvives
INVARIANT FirstSessionExclusive
INVARIANT SlotsReadBack
 
INVARIANT SessionsAgree
PROPERTY RecordsDiscoverable
 
CHECK_DEADLOCK FALSE
