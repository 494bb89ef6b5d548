------------------------- MODULE MCAudioPipeline -------------------------
(* Instances of AudioPipeline for TLC: a few utterances in a few calls.    *)
EXTENDS AudioPipeline, TLC

\* Task identities are interchangeable (used in the safety runs only).
TaskSymmetry == Permutations(Tasks)
==========================================================================
