SPECIFICATION Spec
CONSTANTS
  l1 = l1
  l2 = l2
  NoLink = NoLink
  Links = {l1, l2, l3}
  Indicators <- Names
  Layout <- Orders
  Refusable <- Negotiation
  Overlap = FALSE
  EagerUser = FALSE
  Fragmented = FALSE
  Crlf = {l3}
  MaxInFlight = 2
INVARIANTS TypeOK AnswersAwaited NamesOfThisPhone CallTold
PROPERTY ConnectedOnce
