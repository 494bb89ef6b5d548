------------------------------- MODULE Vad -------------------------------
(***************************************************************************)
(* The streaming side of SimpleVAD (osm_core/audio/vad.py): the step that  *)
(* process() takes on one frame of caller audio, as operators on a record  *)
(* of the detector's three streaming fields.                               *)
(*                                                                         *)
(* A frame is abstracted to the outcome of the energy comparison: "speech" *)
(* (rms above the threshold), "silence", or "empty" (no sample at all).    *)
(***************************************************************************)
EXTENDS Integers

CONSTANTS
  MinDurationMs,       \* min_duration_ms: shorter bursts are clicks
  SilenceDurationMs,   \* silence_duration_ms: pause that ends an utterance
  FrameDurationMs      \* frame_duration_ms: audio carried by one frame

ASSUME VadAssumption ==
  /\ MinDurationMs \in Int
  /\ SilenceDurationMs \in Int
  /\ FrameDurationMs \in Nat \ {0}

Frames == {"speech", "silence", "empty"}

\* max(1, int(ms / frame_duration_ms))
FramesFor(ms) ==
  IF ms \div FrameDurationMs >= 1 THEN ms \div FrameDurationMs ELSE 1

MinSpeechFrames == FramesFor(MinDurationMs)

SilenceFramesNeeded == FramesFor(SilenceDurationMs)

\* reset(), and the fields __init__ sets.
Quiet == [inSpeech |-> FALSE, speech |-> 0, silence |-> 0]

\* _speech_frames is only ever compared with _min_speech_frames, so the
\* model stops counting there.
VadState ==
  [inSpeech : BOOLEAN,
   speech   : 0 .. MinSpeechFrames,
   silence  : 0 .. (SilenceFramesNeeded - 1)]

\* Mutants of the three definitions below: a pause counted one frame too
\* long, pauses added up across speech, clicks added up across silence, a
\* boundary never reported.
MutSilenceLate(v) ==
  IF ~v.inSpeech THEN [v EXCEPT !.speech = 0]
  ELSE IF v.silence + 1 > SilenceFramesNeeded THEN Quiet
  ELSE [v EXCEPT !.silence = @ + 1]

MutSpeechKeepsSilence(v) ==
  LET n == IF v.speech < MinSpeechFrames THEN v.speech + 1 ELSE v.speech
  IN  [inSpeech |-> v.inSpeech \/ n >= MinSpeechFrames,
       speech   |-> n,
       silence  |-> v.silence]

MutSilenceKeepsClicks(v) ==
  IF ~v.inSpeech THEN v
  ELSE IF v.silence + 1 >= SilenceFramesNeeded THEN Quiet
  ELSE [v EXCEPT !.silence = @ + 1]

\* The detector after a frame above the energy threshold.
SpeechFrame(v) ==
  LET n == IF v.speech < MinSpeechFrames THEN v.speech + 1 ELSE v.speech
  IN  [inSpeech |-> v.inSpeech \/ n >= MinSpeechFrames,
       speech   |-> n,
       silence  |-> 0]

\* The detector after a frame below the threshold.
SilentFrame(v) ==
  IF ~v.inSpeech THEN [v EXCEPT !.speech = 0]
  ELSE IF v.silence + 1 >= SilenceFramesNeeded THEN Quiet
  ELSE [v EXCEPT !.silence = @ + 1]

\* The end_of_speech half of what process() returns.
EndOfSpeech(v, f) ==
  /\ f = "silence"
  /\ v.inSpeech
  /\ v.silence + 1 >= SilenceFramesNeeded

\* The fields process() leaves behind; an empty frame returns early.
Process(v, f) ==
  CASE f = "speech"  -> SpeechFrame(v)
    [] f = "silence" -> SilentFrame(v)
    [] f = "empty"   -> v
==========================================================================
