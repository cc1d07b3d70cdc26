SPECIFICATION PagesSpec
CONSTANTS
  MetricIDs = {"load", "heat"}
  Workers = {"w1", "w2", "w3"}
  Services = {"discovery", "request"}
  HistoryCapacity = 5
  Columns = 2
  StoreCapacity = 2
  Scopes <- MCScopes
INVARIANTS
  NewestIsShown
  HistoryIsNewest
  ChartKeepsSpikes
PROPERTIES
  CancelledIsDropped
  LeavingEnds
CHECK_DEADLOCK FALSE
