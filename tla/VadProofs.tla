---------------------------- MODULE VadProofs ----------------------------
(***************************************************************************)
(* Facts about the step of the voice activity detector, for every setting  *)
(* of its durations.                                                       *)
(***************************************************************************)
EXTENDS Vad, TLAPS

\* Both thresholds of the detector are positive frame counts, whatever the
\* configured durations: max(1, int(...)).
LEMMA ThresholdsPositive ==
  MinSpeechFrames \in Nat \ {0} /\ SilenceFramesNeeded \in Nat \ {0}
<1>1. ASSUME NEW ms \in Int
      PROVE  FramesFor(ms) \in Nat \ {0}
  <2>1. ms \div FrameDurationMs \in Int
    BY VadAssumption
  <2> QED BY <2>1 DEF FramesFor
<1> QED BY <1>1, VadAssumption DEF MinSpeechFrames, SilenceFramesNeeded

\* The detector's counters never reach their thresholds and stay there: a
\* frame leads from a streaming state to a streaming state, as does reset().
LEMMA VadTyped ==
  /\ Quiet \in VadState
  /\ \A v \in VadState, f \in Frames : Process(v, f) \in VadState
<1>1. Quiet \in VadState
  BY ThresholdsPositive DEF Quiet, VadState
<1>2. ASSUME NEW v \in VadState
      PROVE  SpeechFrame(v) \in VadState
  BY ThresholdsPositive DEF SpeechFrame, VadState
<1>3. ASSUME NEW v \in VadState
      PROVE  SilentFrame(v) \in VadState
  BY <1>1, ThresholdsPositive DEF SilentFrame, VadState
<1>4. ASSUME NEW v \in VadState, NEW f \in Frames
      PROVE  Process(v, f) \in VadState
  BY <1>2, <1>3 DEF Process, Frames
<1> QED BY <1>1, <1>4
==========================================================================
