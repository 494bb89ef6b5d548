SPECIFICATION AttendedSpec
CONSTANTS
  MinDurationMs = 30
  SilenceDurationMs = 30
  FrameDurationMs = 30
  Tasks = {t1, t2}
  NoTask = NoTask
  MaxCalls = 2
  HangupReported = FALSE
  ModeSwitches = TRUE
  ApprovalTexts = {"draft"}
INVARIANTS
  OwnAudio
  NeverStranded
PROPERTIES
  HitlAnswered
  TurnsEnd
