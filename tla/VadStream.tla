---------------------------- MODULE VadStream ----------------------------
(***************************************************************************)
(* SimpleVAD run over an arbitrary stream of frames, next to the frames it *)
(* was given since the last reset or utterance boundary.  The properties   *)
(* say in terms of that recording alone what the detector must answer.     *)
(***************************************************************************)
EXTENDS Vad, Sequences

CONSTANT MaxHeard      \* longest recording explored between boundaries

ASSUME MaxHeardAssumption == MaxHeard \in Nat

VARIABLES
  vad,      \* the detector's streaming fields
  ended,    \* end_of_speech as returned by the last process()
  heard     \* frames since the last reset or boundary (history variable)

vars == <<vad, ended, heard>>

TypeOK ==
  /\ vad \in VadState
  /\ ended \in BOOLEAN
  /\ heard \in Seq(Frames)

Init ==
  /\ vad = Quiet
  /\ ended = FALSE
  /\ heard = <<>>

\* await vad.process(frame)
Hear(f) ==
  /\ ended \/ Len(heard) < MaxHeard
  /\ vad' = Process(vad, f)
  /\ ended' = EndOfSpeech(vad, f)
  /\ heard' = IF ended THEN <<f>> ELSE Append(heard, f)

\* vad.reset(), called when a call starts
Reset ==
  /\ vad' = Quiet
  /\ ended' = FALSE
  /\ heard' = <<>>

Next == Reset \/ \E f \in Frames : Hear(f)

Spec == Init /\ [][Next]_vars
--------------------------------------------------------------------------
(* The batch interface, get_speech_segments: frames numbered from 1, a     *)
(* segment by its first frame and its last; tail is the length in ms of    *)
(* what is left after the last whole frame.  Milliseconds are exact here,  *)
(* floats in the code.                                                     *)

NoSegment == 0

\* A segment is kept if it is long enough.
Kept(first, last, ms) ==
  IF ms >= MinDurationMs THEN {<<first, last>>} ELSE {}

\* The loop over frames: where the open segment began, and those closed.
Scan(s) ==
  LET scanned[i \in 0 .. Len(s)] ==
        IF i = 0 THEN [start |-> NoSegment, segments |-> {}]
        ELSE LET before == scanned[i - 1] IN
          CASE s[i] = "speech" /\ before.start = NoSegment ->
                 [before EXCEPT !.start = i]
            [] s[i] # "speech" /\ before.start # NoSegment ->
                 [start    |-> NoSegment,
                  segments |-> before.segments \cup
                    Kept(before.start, i - 1,
                         (i - before.start) * FrameDurationMs)]
            [] OTHER -> before
  IN  scanned[Len(s)]

\* Mutant of get_speech_segments: speech up to the end is forgotten.
MutSegments(s, tail) == Scan(s).segments

\* get_speech_segments, the segment still open at the end included.
Segments(s, tail) ==
  LET end == Scan(s)
  IN  IF end.start = NoSegment THEN end.segments
      ELSE end.segments \cup
             Kept(end.start, Len(s),
                  (Len(s) + 1 - end.start) * FrameDurationMs + tail)
--------------------------------------------------------------------------
(* The reference: what an utterance is, said of a recording.               *)

\* The frames that carry audio, in order.
Samples(s) ==
  LET kept[i \in 0 .. Len(s)] ==
        IF i = 0 THEN <<>>
        ELSE IF s[i] = "empty" THEN kept[i - 1]
        ELSE Append(kept[i - 1], s[i])
  IN  kept[Len(s)]

\* A run of MinSpeechFrames loud frames: more than a click.
HasOnset(s) ==
  \E i \in 1 .. (Len(s) - MinSpeechFrames + 1) :
    \A j \in i .. (i + MinSpeechFrames - 1) : s[j] = "speech"

\* The recording ends in SilenceFramesNeeded silent frames.
EndsInPause(s) ==
  /\ Len(s) >= SilenceFramesNeeded
  /\ \A j \in (Len(s) - SilenceFramesNeeded + 1) .. Len(s) : s[j] = "silence"

IsUtterance(s) == HasOnset(s) /\ EndsInPause(s)

\* The detector believes someone is talking exactly when the recording has
\* an onset and no boundary yet: clicks that never add up to
\* min_duration_ms in a row do not open an utterance.
InSpeechMeansOnset ==
  vad.inSpeech <=> HasOnset(Samples(heard)) /\ ~ended

\* end_of_speech is raised on the frame that completes a pause of
\* silence_duration_ms after an onset, and on no other: a pause inside a
\* sentence is not counted toward the one that ends it.
BoundaryMeansUtterance ==
  ended <=> /\ heard # <<>>
            /\ heard[Len(heard)] # "empty"
            /\ IsUtterance(Samples(heard))

\* Frames a to b of s are loud, and neither neighbour is.
IsLoudRun(s, a, b) ==
  /\ a <= b
  /\ \A j \in a .. b : s[j] = "speech"
  /\ a > 1 => s[a - 1] # "speech"
  /\ b < Len(s) => s[b + 1] # "speech"

LoudRuns(s) ==
  {r \in (1 .. Len(s)) \X (1 .. Len(s)) : IsLoudRun(s, r[1], r[2])}

\* Both interfaces tell speech from clicks: get_speech_segments returns the
\* loud stretches of min_duration_ms and more, up to the last sample, and a
\* recording with a segment has an onset for process(), which rounds the same
\* minimum down to whole frames and so may also open on shorter stretches.
SegmentsAreSpeech ==
  LET s == Samples(heard)
  IN  /\ \A tail \in {0, FrameDurationMs - 1} :
           Segments(s, tail) =
             {r \in LoudRuns(s) :
                (r[2] + 1 - r[1]) * FrameDurationMs
                  + (IF r[2] = Len(s) THEN tail ELSE 0) >= MinDurationMs}
      /\ Segments(s, 0) # {} => HasOnset(s)
==========================================================================
