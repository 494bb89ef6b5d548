SPECIFICATION AttendedSpec
CONSTANTS
  Conns = {c1, c2}
  Listener = listener
  Extras = {x1}
  None = None
  MaxCalls = 2
  MaxAnswers = 2
  MaxAttempts = 1
  MaxClosing = 2
  MaxFaults = 1
INVARIANTS
  TypeOK
  OneSession
  AnswersItsCaller
  
  DraftReleasable
PROPERTIES
  ServesTheLine
  ListenerReturns
  HeardAgain
  HangupCloses
  DraftAnswered
