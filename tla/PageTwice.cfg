SPECIFICATION PMSpec
CONSTANTS
  PagesPerBitmap = 8
  CacheBatch = 2
  MaxPage = 7
  MaxOpens = 1
  Crashes = FALSE
INVARIANTS
  NoDoubleHandOut
CHECK_DEADLOCK FALSE
