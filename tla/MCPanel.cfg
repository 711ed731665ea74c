SPECIFICATION FairSpec
CONSTANTS
  Sessions = {"board"}
  Hosted = {"board"}
  RefreshOnStop = TRUE
  MaxStops <- MCMaxStops
  MaxLag = 2
  None = None
INVARIANT MapNotBehindSnapshot
PROPERTIES EndedIsQuiet CatchesUp
CHECK_DEADLOCK FALSE
