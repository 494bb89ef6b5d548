SPECIFICATION Spec
CONSTANTS
  MinDurationMs = 75
  SilenceDurationMs = 90
  FrameDurationMs = 30
  MaxHeard = 8
INVARIANTS
  TypeOK
  InSpeechMeansOnset
  BoundaryMeansUtterance
  SegmentsAreSpeech
