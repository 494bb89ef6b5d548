SPECIFICATION Spec
CONSTANTS
  MinDurationMs = 60
  SilenceDurationMs = 60
  FrameDurationMs = 30
  Tasks = {t1, t2, t3}
  NoTask = NoTask
  MaxCalls = 2
  HangupReported = TRUE
  ModeSwitches = TRUE
  ApprovalTexts = {"draft"}
SYMMETRY TaskSymmetry
INVARIANTS
  TypeOK
  OneTurn
  AnswersItsCaller
  SpokenAfterApproval
  OwnHistory
PROPERTIES
  QuietAfterHangup
  TakesTurns
