SPECIFICATION FairSpec
CONSTANTS
  Readers = {c1}
  RunIds = {1, 2}
  SummaryChanges = 1
  MaxMishaps = 1
  SummaryEntries = 1
  Keys = {k1, k2, k3}
  CacheEntries = 2
  Statuses = {failed, dead}
  Rows = {e1, e2}
  Flights = {1, 2, 3}
  MaxClicks = 3
INVARIANTS OneOwnRun LruKeepsRecent
PROPERTIES RefreshSeesItsRun ReadersCatchUp ShutdownEnds PanelCatchesUp
CHECK_DEADLOCK FALSE
