SPECIFICATION Spec
CONSTANTS
  MinDurationMs = 30
  SilenceDurationMs = 30
  FrameDurationMs = 30
  Tasks = {t1, t2}
  NoTask = NoTask
  MaxCalls = 2
  HangupReported = FALSE
  ModeSwitches = FALSE
  ApprovalTexts = {"draft"}
PROPERTIES
  IdleUntilCall
