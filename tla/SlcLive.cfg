SPECIFICATION FairSpec
CONSTANTS
  l1 = l1
  l2 = l2
  NoLink = NoLink
  Links = {l1, l2}
  Indicators <- OneName
  Layout <- OneOrder
  Refusable <- NoCommand
  Overlap = FALSE
  EagerUser = TRUE
  Fragmented = TRUE
  Crlf = {l2}
  MaxInFlight = 2
PROPERTIES NegotiationEnds LossReported
