---------------------------- MODULE VoiceCall ----------------------------
(***************************************************************************)
(* What the voice pipeline promises, as documented at the head of          *)
(* osm_core/audio/pipeline.py: one state machine per phone line that takes *)
(* turns with the caller.                                                  *)
(*                                                                         *)
(*   IDLE -> LISTENING -> PROCESSING -> SPEAKING -> LISTENING ...          *)
(*                                                                         *)
(* There are no tasks, engines, buffers or approval events here.  A turn   *)
(* is one utterance of the caller and the answer to it.                    *)
(***************************************************************************)
EXTENDS Naturals

CONSTANTS Turns, NoTurn

VARIABLES
  phase,    \* the documented state
  caller,   \* how many calls there have been: names the present caller
  turn,     \* the turn being answered, if any
  asked,    \* asked[t]: the caller who spoke in turn t, 0 if none yet
  said      \* <<turn, caller>> spoken to that caller

vars == <<phase, caller, turn, asked, said>>

Init ==
  /\ phase = "IDLE"
  /\ caller = 0
  /\ turn = NoTurn
  /\ asked = [t \in Turns |-> 0]
  /\ said = {}

\* IDLE -> LISTENING (call starts)
CallStarts ==
  /\ phase = "IDLE"
  /\ phase' = "LISTENING"
  /\ caller' = caller + 1
  /\ UNCHANGED <<turn, asked, said>>

\* LISTENING -> PROCESSING (speech ended)
SpeechEnds(t) ==
  /\ phase = "LISTENING"
  /\ asked[t] = 0
  /\ phase' = "PROCESSING"
  /\ turn' = t
  /\ asked' = [asked EXCEPT ![t] = caller]
  /\ UNCHANGED <<caller, said>>

\* PROCESSING -> SPEAKING (the reply is ready, and approved if need be)
ReplyReady ==
  /\ phase = "PROCESSING"
  /\ phase' = "SPEAKING"
  /\ UNCHANGED <<caller, turn, asked, said>>

\* A piece of the reply to the present turn reaches the present caller.
Say ==
  /\ phase = "SPEAKING"
  /\ asked[turn] = caller
  /\ said' = said \cup {<<turn, caller>>}
  /\ UNCHANGED <<phase, caller, turn, asked>>

\* SPEAKING -> LISTENING, or an answer given up after a failure
TurnOver ==
  /\ phase \in {"PROCESSING", "SPEAKING"}
  /\ phase' = "LISTENING"
  /\ turn' = NoTurn
  /\ UNCHANGED <<caller, asked, said>>

\* Any state -> IDLE (call ends)
CallEnds ==
  /\ phase' = "IDLE"
  /\ turn' = NoTurn
  /\ UNCHANGED <<caller, asked, said>>

Next ==
  \/ CallStarts
  \/ \E t \in Turns : SpeechEnds(t)
  \/ ReplyReady
  \/ Say
  \/ TurnOver
  \/ CallEnds

Spec == Init /\ [][Next]_vars
==========================================================================
