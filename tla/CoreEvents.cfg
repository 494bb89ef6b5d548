SPECIFICATION FairSpec
CONSTANTS
  Clients = {c1}
  None = None
  Startups <- AllStartups
  MaxEvents = 3
  MaxWritten = 1
  MaxDeaths = 1
  MaxSignals = 1
INVARIANTS TypeOK StartsWithKeys CallsFollowPhone ThreadHasWhatLeft
PROPERTIES HangupHeard Reconnects
CHECK_DEADLOCK FALSE
