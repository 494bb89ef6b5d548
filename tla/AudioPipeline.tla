-------------------------- MODULE AudioPipeline --------------------------
(***************************************************************************)
(* AudioPipeline (osm_core/audio/pipeline.py): the voice-call loop          *)
(* SCO audio -> VAD -> STT -> LLM -> (approval) -> TTS -> SCO.              *)
(*                                                                         *)
(* Everything runs on one asyncio loop, so a handler is atomic between two *)
(* awaits.  The concurrency is between the handlers of Bluetooth events    *)
(* (start_call, end_call, feed_audio), those of frontend actions           *)
(* (approve_response, set_mode) and the tasks running _run_pipeline, which *)
(* suspend in the speech engines, on the approval event and in             *)
(* send_command.  A task is one answer to one utterance.                   *)
(*                                                                         *)
(* Abstraction: audio is the set of calls it was recorded in, a text is    *)
(* the task that produced it, an approval event is the number of the call  *)
(* whose start_call created it.                                            *)
(***************************************************************************)
EXTENDS Vad, Sequences

CONSTANTS
  Tasks,            \* identities for _run_pipeline tasks: bounds utterances
  NoTask,           \* "no task yet" / "no text yet"
  MaxCalls,         \* bound on the number of calls
  HangupReported,   \* every call_active is paired with a call_ended
  ModeSwitches,     \* the user may send set_voice_mode
  ApprovalTexts     \* what approve_response carries: the draft or an edit

ASSUME PipelineAssumption ==
  /\ NoTask \notin Tasks
  /\ MaxCalls \in Nat
  /\ HangupReported \in BOOLEAN
  /\ ModeSwitches \in BOOLEAN
  /\ ApprovalTexts \subseteq {"draft", "edited"}

VARIABLES
  phase,      \* self.state
  mode,       \* self.mode
  buffer,     \* self._current_audio_buffer: calls whose audio it holds
  history,    \* self._history
  pending,    \* self._pending_llm_response: the task whose reply it is
  eventSet,   \* self._approval_event.is_set()
  current,    \* self._process_task
  vad,        \* self.vad
  call,       \* start_call()s so far: names the contact and the event object
  onCall,     \* the phone has a call on the air (environment)
  pc,         \* where each task is suspended
  utterance,  \* audio_data each task was given
  waitsOn,    \* the event object each task awaited, 0 if it never did
  speaks,     \* the text each task passed to tts_engine.stream
  owner,      \* the call each task was created in (history variable)
  approved,   \* approval handled while the draft was waiting (history)
  injected    \* <<text, call>> put on the air (history)

pipeVars == <<phase, mode, buffer, history, pending, eventSet, current, vad>>
lineVars == <<call, onCall>>
taskVars == <<pc, utterance, waitsOn, speaks>>
ghostVars == <<owner, approved, injected>>
vars == <<pipeVars, lineVars, taskVars, ghostVars>>

Phases == {"IDLE", "LISTENING", "PROCESSING", "SPEAKING"}
Modes == {"autonomous", "hitl"}
Calls == 0 .. MaxCalls      \* 0: before the first call

\* A task past its engine calls is "approval" while it waits on the event,
\* "released" when the event was set and its next step is due, "cancelling"
\* when cancel() was called and the CancelledError is due.
Working == {"stt", "llm", "approval", "released", "tts"}
Pcs == Working \cup {"unused", "cancelling", "done"}

Entries == [role : {"user", "assistant"}, task : Tasks]

Live(t) == pc[t] \in Working

TypeOK ==
  /\ phase \in Phases
  /\ mode \in Modes
  /\ buffer \subseteq Calls
  /\ history \in Seq(Entries)
  /\ pending \in Tasks \cup {NoTask}
  /\ eventSet \in BOOLEAN
  /\ current \in Tasks \cup {NoTask}
  /\ vad \in VadState
  /\ call \in Calls
  /\ onCall \in BOOLEAN
  /\ pc \in [Tasks -> Pcs]
  /\ utterance \in [Tasks -> SUBSET Calls]
  /\ waitsOn \in [Tasks -> Calls]
  /\ speaks \in [Tasks -> Tasks \cup {NoTask}]
  /\ owner \in [Tasks -> Calls]
  /\ approved \in [Tasks -> {"no"} \cup ApprovalTexts]
  /\ injected \subseteq Tasks \X Calls

Init ==
  /\ phase = "IDLE"
  /\ mode \in Modes
  /\ buffer = {}
  /\ history = <<>>
  /\ pending = NoTask
  /\ eventSet = FALSE
  /\ current = NoTask
  /\ vad = Quiet
  /\ call = 0
  /\ onCall = FALSE
  /\ pc = [t \in Tasks |-> "unused"]
  /\ utterance = [t \in Tasks |-> {}]
  /\ waitsOn = [t \in Tasks |-> 0]
  /\ speaks = [t \in Tasks |-> NoTask]
  /\ owner = [t \in Tasks |-> 0]
  /\ approved = [t \in Tasks |-> "no"]
  /\ injected = {}
--------------------------------------------------------------------------
(* Handlers of Bluetooth events.                                           *)

\* Mutants of start_call: a buffer or a history that survives the call.
MutStartCallKeepsBuffer ==
  /\ call < MaxCalls
  /\ ~onCall
  /\ onCall' = TRUE
  /\ call' = call + 1
  /\ phase' = "LISTENING"
  /\ history' = <<>>
  /\ eventSet' = FALSE
  /\ vad' = Quiet
  /\ UNCHANGED <<mode, buffer, pending, current, taskVars, ghostVars>>

MutStartCallKeepsHistory ==
  /\ call < MaxCalls
  /\ ~onCall
  /\ onCall' = TRUE
  /\ call' = call + 1
  /\ phase' = "LISTENING"
  /\ buffer' = {}
  /\ eventSet' = FALSE
  /\ vad' = Quiet
  /\ UNCHANGED <<mode, history, pending, current, taskVars, ghostVars>>

\* call_active -> start_call(contact).
StartCall ==
  /\ call < MaxCalls
  /\ ~onCall
  /\ onCall' = TRUE
  /\ call' = call + 1
  /\ phase' = "LISTENING"
  /\ buffer' = {}
  /\ history' = <<>>
  /\ eventSet' = FALSE
  /\ vad' = Quiet
  /\ UNCHANGED <<mode, pending, current, taskVars, ghostVars>>

\* Mutant of end_call: the answer in progress is not cancelled.
MutEndCallNoCancel ==
  /\ onCall' = FALSE
  /\ phase' = "IDLE"
  /\ UNCHANGED <<mode, buffer, history, pending, eventSet, current, vad, call,
                 taskVars, ghostVars>>

\* call_ended -> end_call().  Also sent for a call that never became active.
EndCall ==
  /\ onCall' = FALSE
  /\ phase' = "IDLE"
  /\ pc' = [t \in Tasks |->
              IF t = current /\ Live(t) THEN "cancelling" ELSE pc[t]]
  /\ UNCHANGED <<mode, buffer, history, pending, eventSet, current, vad, call,
                 utterance, waitsOn, speaks, ghostVars>>

\* The link drops (hfp_disconnected, or osm-bt gone): the frontend is told,
\* the pipeline is not.
LinkLost ==
  /\ ~HangupReported
  /\ onCall
  /\ onCall' = FALSE
  /\ UNCHANGED <<pipeVars, call, taskVars, ghostVars>>

\* Mutant of feed_audio: frames are taken in every phase of a call.
MutFeedAudioAlways(f) ==
  /\ onCall
  /\ vad' = Process(vad, f)
  /\ \/ /\ ~EndOfSpeech(vad, f)
        /\ buffer' = buffer \cup {call}
        /\ UNCHANGED <<phase, current, pc, utterance, owner>>
     \/ /\ EndOfSpeech(vad, f)
        /\ phase' = "PROCESSING"
        /\ buffer' = {}
        /\ \E t \in Tasks :
             /\ pc[t] = "unused"
             /\ pc' = [pc EXCEPT ![t] = "stt"]
             /\ utterance' = [utterance EXCEPT ![t] = buffer \cup {call}]
             /\ owner' = [owner EXCEPT ![t] = call]
             /\ current' = t
  /\ UNCHANGED <<mode, history, pending, eventSet, lineVars, waitsOn, speaks,
                 approved, injected>>

\* sco_audio -> feed_audio(pcm).  Frames outside LISTENING are dropped.
FeedAudio(f) ==
  /\ onCall
  /\ phase = "LISTENING"
  /\ vad' = Process(vad, f)
  /\ \/ /\ ~EndOfSpeech(vad, f)
        /\ buffer' = buffer \cup {call}
        /\ UNCHANGED <<phase, current, pc, utterance, owner>>
     \/ /\ EndOfSpeech(vad, f)
        /\ phase' = "PROCESSING"
        /\ buffer' = {}
        /\ \E t \in Tasks :
             /\ pc[t] = "unused"
             /\ pc' = [pc EXCEPT ![t] = "stt"]
             /\ utterance' = [utterance EXCEPT ![t] = buffer \cup {call}]
             /\ owner' = [owner EXCEPT ![t] = call]
             /\ current' = t
  /\ UNCHANGED <<mode, history, pending, eventSet, lineVars, waitsOn, speaks,
                 approved, injected>>
--------------------------------------------------------------------------
(* Handlers of frontend actions.                                           *)

\* Mutant of approve_response: the state is checked against SPEAKING.
MutApproveResponseLate(text) ==
  /\ phase = "SPEAKING"
  /\ mode = "hitl"
  /\ eventSet' = TRUE
  /\ pc' = [t \in Tasks |->
              IF pc[t] = "approval" /\ waitsOn[t] = call
                THEN "released" ELSE pc[t]]
  /\ approved' = [t \in Tasks |->
                    IF pc[t] \in {"approval", "released"} THEN text
                                                          ELSE approved[t]]
  /\ UNCHANGED <<phase, mode, buffer, history, pending, current, vad, lineVars,
                 utterance, waitsOn, speaks, owner, injected>>

\* approve_response: release whoever awaits the current event.  The text
\* the user approved is in the message; the handler ignores it.
ApproveResponse(text) ==
  /\ phase = "PROCESSING"
  /\ mode = "hitl"
  /\ eventSet' = TRUE
  /\ pc' = [t \in Tasks |->
              IF pc[t] = "approval" /\ waitsOn[t] = call
                THEN "released" ELSE pc[t]]
  /\ approved' = [t \in Tasks |->
                    IF pc[t] \in {"approval", "released"} THEN text
                                                          ELSE approved[t]]
  /\ UNCHANGED <<phase, mode, buffer, history, pending, current, vad, lineVars,
                 utterance, waitsOn, speaks, owner, injected>>

\* set_voice_mode
SetMode(m) ==
  /\ ModeSwitches
  /\ m # mode
  /\ mode' = m
  /\ UNCHANGED <<phase, buffer, history, pending, eventSet, current, vad,
                 lineVars, taskVars, ghostVars>>
--------------------------------------------------------------------------
(* The steps of _run_pipeline, from one await to the next.                 *)

\* stt_engine.transcribe returned; the LLM is called on the history.
Transcribed(t) ==
  /\ pc[t] = "stt"
  /\ history' = Append(history, [role |-> "user", task |-> t])
  /\ pc' = [pc EXCEPT ![t] = "llm"]
  /\ UNCHANGED <<phase, mode, buffer, pending, eventSet, current, vad, lineVars,
                 utterance, waitsOn, speaks, ghostVars>>

\* llm_engine.generate returned in autonomous mode: on to TTS at once.
Generated(t) ==
  /\ pc[t] = "llm"
  /\ mode # "hitl"
  /\ pending' = t
  /\ history' = Append(history, [role |-> "assistant", task |-> t])
  /\ phase' = "SPEAKING"
  /\ speaks' = [speaks EXCEPT ![t] = t]
  /\ pc' = [pc EXCEPT ![t] = "tts"]
  /\ UNCHANGED <<mode, buffer, eventSet, current, vad, lineVars, utterance,
                 waitsOn, ghostVars>>

\* Mutant of the hitl branch: the event is not cleared, so wait() returns at
\* once when it is already set.
MutDraftedNoClear(t) ==
  /\ pc[t] = "llm"
  /\ mode = "hitl"
  /\ pending' = t
  /\ history' = Append(history, [role |-> "assistant", task |-> t])
  /\ waitsOn' = [waitsOn EXCEPT ![t] = call]
  /\ pc' = [pc EXCEPT ![t] = IF eventSet THEN "released" ELSE "approval"]
  /\ UNCHANGED <<phase, mode, buffer, eventSet, current, vad, lineVars,
                 utterance, speaks, ghostVars>>

\* llm_engine.generate returned in hitl mode: show the draft, clear the
\* event and wait on it.
Drafted(t) ==
  /\ pc[t] = "llm"
  /\ mode = "hitl"
  /\ pending' = t
  /\ history' = Append(history, [role |-> "assistant", task |-> t])
  /\ eventSet' = FALSE
  /\ waitsOn' = [waitsOn EXCEPT ![t] = call]
  /\ pc' = [pc EXCEPT ![t] = "approval"]
  /\ UNCHANGED <<phase, mode, buffer, current, vad, lineVars, utterance, speaks,
                 ghostVars>>

\* wait() returned: speak whatever reply is pending by now.
Resumed(t) ==
  /\ pc[t] = "released"
  /\ phase' = "SPEAKING"
  /\ speaks' = [speaks EXCEPT ![t] = pending]
  /\ pc' = [pc EXCEPT ![t] = "tts"]
  /\ UNCHANGED <<mode, buffer, history, pending, eventSet, current, vad,
                 lineVars, utterance, waitsOn, ghostVars>>

\* One chunk of synthesized audio goes out as inject_audio.
InjectChunk(t) ==
  /\ pc[t] = "tts"
  /\ injected' = injected \cup {<<speaks[t], call>>}
  /\ UNCHANGED <<pipeVars, lineVars, taskVars, owner, approved>>

\* Mutant of the last step: the pipeline is left SPEAKING.
MutSpokenKeepsPhase(t) ==
  /\ pc[t] = "tts"
  /\ pc' = [pc EXCEPT ![t] = "done"]
  /\ UNCHANGED <<pipeVars, lineVars, utterance, waitsOn, speaks, ghostVars>>

\* The TTS stream ended.
Spoken(t) ==
  /\ pc[t] = "tts"
  /\ phase' = "LISTENING"
  /\ pc' = [pc EXCEPT ![t] = "done"]
  /\ UNCHANGED <<mode, buffer, history, pending, eventSet, current, vad,
                 lineVars, utterance, waitsOn, speaks, ghostVars>>

\* Mutant of the except clause: the state is left as it was.
MutFailedKeepsPhase(t) ==
  /\ pc[t] \in {"stt", "llm", "tts"}
  /\ pc' = [pc EXCEPT ![t] = "done"]
  /\ UNCHANGED <<pipeVars, lineVars, utterance, waitsOn, speaks, ghostVars>>

\* An engine or send_command raised: the except clause.
Failed(t) ==
  /\ pc[t] \in {"stt", "llm", "tts"}
  /\ phase' = "LISTENING"
  /\ pc' = [pc EXCEPT ![t] = "done"]
  /\ UNCHANGED <<mode, buffer, history, pending, eventSet, current, vad,
                 lineVars, utterance, waitsOn, speaks, ghostVars>>

\* CancelledError reaches the task: it only logs.
Cancelled(t) ==
  /\ pc[t] = "cancelling"
  /\ pc' = [pc EXCEPT ![t] = "done"]
  /\ UNCHANGED <<pipeVars, lineVars, utterance, waitsOn, speaks, ghostVars>>
--------------------------------------------------------------------------
\* What a task does of itself; the engines answer, fail or are cancelled.
TaskStep(t) ==
  \/ Transcribed(t)
  \/ Generated(t)
  \/ Drafted(t)
  \/ Resumed(t)
  \/ InjectChunk(t)
  \/ Spoken(t)
  \/ Failed(t)
  \/ Cancelled(t)

Next ==
  \/ StartCall
  \/ EndCall
  \/ LinkLost
  \/ \E f \in {"speech", "silence"} : FeedAudio(f)
  \/ \E text \in ApprovalTexts : ApproveResponse(text)
  \/ \E m \in Modes : SetMode(m)
  \/ \E t \in Tasks : TaskStep(t)

Spec == Init /\ [][Next]_vars

\* The steps of a task that bring it nearer its end.  Fairness on them says
\* that every engine call returns or raises, that a TTS stream is finite and
\* that the event loop runs whatever is ready.
Progress(t) ==
  \/ Transcribed(t)
  \/ Generated(t)
  \/ Drafted(t)
  \/ Resumed(t)
  \/ Spoken(t)
  \/ Failed(t)
  \/ Cancelled(t)

\* Nothing is assumed of the caller or the phone.
FairSpec == Spec /\ \A t \in Tasks : WF_vars(Progress(t))

\* A draft that waits with approvals enabled: a user at the screen answers it.
Approvable ==
  /\ \E t \in Tasks : pc[t] = "approval" /\ waitsOn[t] = call
  /\ \E text \in ApprovalTexts : ApproveResponse(text)

AttendedSpec == FairSpec /\ WF_vars(Approvable)
--------------------------------------------------------------------------
(* Safety, for a phone that reports every hangup.                          *)

\* The phase says what the one live task is doing, and there is no other: no
\* task outlives its call, no utterance is taken up while one is answered.
OneTurn ==
  /\ \A t \in Tasks : Live(t) => t = current
  /\ phase = "PROCESSING" <=>
       \E t \in Tasks : pc[t] \in {"stt", "llm", "approval", "released"}
  /\ phase = "SPEAKING" <=> \E t \in Tasks : pc[t] = "tts"

\* What a caller hears answers what was said in the same call, however slow
\* the engines were and whatever calls ended meanwhile.
AnswersItsCaller ==
  \A p \in injected : owner[p[1]] = p[2]

\* A draft put before the user is spoken only if an approval was handled
\* after it was shown (UT-PY-001.9-05); one sent earlier does not count.
SpokenAfterApproval ==
  \A p \in injected : waitsOn[p[1]] # 0 => approved[p[1]] # "no"

\* STT never hears audio left in the buffer by an earlier call.
OwnAudio ==
  \A t \in Tasks : utterance[t] \subseteq {owner[t]}

\* The conversation the LLM is prompted with belongs to this call, every
\* reply in it follows the words it replies to, and the prompt of a running
\* LLM call ends with the utterance to answer.
OwnHistory ==
  /\ \A i \in DOMAIN history :
       /\ owner[history[i].task] = call
       /\ history[i].role = "assistant" =>
            /\ i > 1
            /\ history[i - 1] = [role |-> "user", task |-> history[i].task]
  /\ \A t \in Tasks :
       pc[t] = "llm" =>
         /\ history # <<>>
         /\ history[Len(history)] = [role |-> "user", task |-> t]

\* After a hangup the pipeline stays silent: nothing is spoken, recorded or
\* drafted, and only the next call ends the IDLE phase.
QuietAfterHangup ==
  [][phase = "IDLE" =>
       /\ phase' = "IDLE" => UNCHANGED <<history, pending, injected>>
       /\ phase' # "IDLE" => call' = call + 1]_vars

\* Even on a line that drops without a hangup, no phase is stranded: behind
\* PROCESSING there is a task that will leave it or a draft that an approval
\* can still release, behind SPEAKING one that is speaking.  (In autonomous mode
\* the approval is ignored until the mode is hitl again: see HitlAnswered.)
NeverStranded ==
  /\ phase = "PROCESSING" =>
       \E t \in Tasks :
         \/ pc[t] \in {"stt", "llm", "released"}
         \/ pc[t] = "approval" /\ waitsOn[t] = call
  /\ phase = "SPEAKING" => \E t \in Tasks : pc[t] = "tts"
--------------------------------------------------------------------------
(* The inductive invariant behind the safety properties above: what a       *)
(* task's position says about the shared fields it will use next.          *)

Answering == {"stt", "llm", "approval", "released"}

\* Which task is live, phase by phase.
TurnInv ==
  /\ \A t \in Tasks : Live(t) => t = current
  /\ phase = "PROCESSING" => current \in Tasks /\ pc[current] \in Answering
  /\ phase = "SPEAKING" => current \in Tasks /\ pc[current] = "tts"
  /\ phase \in {"IDLE", "LISTENING"} => \A t \in Tasks : ~Live(t)
  /\ onCall <=> phase # "IDLE"

\* A live task works for the present call; an unused one has left no trace.
OwnerInv ==
  /\ \A t \in Tasks : Live(t) => owner[t] = call
  /\ \A t \in Tasks : pc[t] = "unused" => owner[t] = 0 /\ utterance[t] = {}

\* The shared reply belongs to the task that is about to speak it.
ReplyInv ==
  \A t \in Tasks :
    /\ pc[t] \in {"approval", "released"} => pending = t
    /\ pc[t] = "tts" => speaks[t] = t

\* Whoever got past the approval wait was approved.
ApprovalInv ==
  \A t \in Tasks :
    /\ pc[t] \in {"unused", "stt", "llm"} => waitsOn[t] = 0
    /\ pc[t] = "approval" => waitsOn[t] = call
    /\ pc[t] = "released" => approved[t] # "no"
    /\ pc[t] = "tts" /\ waitsOn[t] # 0 => approved[t] # "no"

\* What was spoken came from a task that reached TTS.
SpokenInv ==
  \A p \in injected : pc[p[1]] \in {"tts", "cancelling", "done"}

\* The buffer holds the audio of the last call started only.
AudioInv == buffer \subseteq {call}

\* No entry of the history names a task yet to be created.
HistoryInv ==
  \A i \in DOMAIN history : pc[history[i].task] # "unused"

\* The part that types need on any line: a reply is stored before anyone
\* waits to speak it, and speaking starts from a stored reply.
ReplyStored ==
  \A t \in Tasks :
    /\ pc[t] \in {"approval", "released"} => pending \in Tasks
    /\ pc[t] = "tts" => speaks[t] \in Tasks

PairedInv ==
  /\ TypeOK
  /\ TurnInv
  /\ OwnerInv
  /\ ReplyInv
  /\ ApprovalInv
  /\ SpokenInv
  /\ AudioInv
  /\ HistoryInv
  /\ AnswersItsCaller
  /\ SpokenAfterApproval
  /\ OwnAudio
  /\ OwnHistory
--------------------------------------------------------------------------
\* The abstract turn: the task being answered, when one is.
TurnOf == IF phase \in {"PROCESSING", "SPEAKING"} THEN current ELSE NoTask

VC == INSTANCE VoiceCall WITH
        Turns <- Tasks, NoTurn <- NoTask,
        caller <- call, turn <- TurnOf, asked <- owner, said <- injected

\* Tasks, engines, cancellations and approvals together implement the turn
\* taking that the module's docstring describes.
TakesTurns == VC!Spec
--------------------------------------------------------------------------
(* Statements of the repository that the code does not keep.               *)

\* pipeline.py:6, "IDLE -> LISTENING (call starts)": only the start of a
\* call leaves IDLE.
IdleUntilCall ==
  [][phase = "IDLE" /\ phase' # "IDLE" => call' = call + 1]_vars
--------------------------------------------------------------------------
(* Liveness.                                                               *)

\* With a user who answers drafts, the pipeline does not stay in PROCESSING
\* while the mode stays hitl, though the mode was changed before and engines
\* may fail at any point.  While it is autonomous a draft waits.
HitlAnswered ==
  <>[](mode = "hitl") => []<>(phase # "PROCESSING")

\* With such a user, a phone that reports every hangup, and while the mode is
\* always autonomous or in the end always hitl, every utterance taken up is
\* answered, fails or is cancelled.
TurnsEnd ==
  /\ [](onCall <=> phase # "IDLE")
  /\ [](mode = "autonomous") \/ <>[](mode = "hitl")
  => \A t \in Tasks : pc[t] = "stt" ~> pc[t] = "done"
==========================================================================
