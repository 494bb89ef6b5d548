SPECIFICATION AttendedSpec
CONSTANTS
  Conns = {c1, c2}
  Listener = listener
  Extras = {x1}
  None = None
  MaxCalls = 1
  MaxAnswers = 2
  MaxAttempts = 1
  MaxClosing = 2
  MaxFaults = 0
PROPERTIES
  AnswerOver
