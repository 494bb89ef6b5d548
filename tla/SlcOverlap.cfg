SPECIFICATION Spec
CONSTANTS
  l1 = l1
  l2 = l2
  NoLink = NoLink
  Links = {l1, l2}
  Indicators <- OneName
  Layout <- OneOrder
  Refusable <- NoCommand
  Overlap = TRUE
  EagerUser = FALSE
  Fragmented = FALSE
  Crlf = {}
  MaxInFlight = 2
PROPERTY DisconnectedMeansLost
