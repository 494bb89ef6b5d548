SPECIFICATION FairSpec
CONSTANTS
  Clients = {c1}
  None = None
  Startups <- FewStartups
  MaxEvents = 1
  MaxWritten = 0
  MaxDeaths = 0
  MaxSignals = 1
PROPERTIES SignalStops
CHECK_DEADLOCK FALSE
