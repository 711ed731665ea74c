SPECIFICATION Spec
CONSTANTS
  Sessions = {"board"}
  Hosted = {"board"}
  RefreshOnStop = FALSE
  MaxStops <- MCMaxStops
  MaxLag = 2
  None = None
PROPERTIES ScheduledRefreshReads
CHECK_DEADLOCK FALSE
