----------------------- MODULE AudioPipelineProofs -----------------------
(***************************************************************************)
(* Theorems about AudioPipeline, for every number of calls and utterances  *)
(* and every setting of the voice activity detector.                       *)
(***************************************************************************)
EXTENDS AudioPipeline, VadProofs, SequenceTheorems, TLAPS

--------------------------------------------------------------------------
(* Type correctness, on any line.                                          *)

\* A step keeps every variable in its type, provided a task that speaks has
\* something to speak.
LEMMA TypeStep == TypeOK /\ ReplyStored /\ [Next]_vars => TypeOK'
<1> SUFFICES ASSUME TypeOK, ReplyStored, [Next]_vars PROVE TypeOK'
  OBVIOUS
<1> USE DEF TypeOK, pipeVars, lineVars, taskVars, ghostVars
<1>1. CASE StartCall
  <2>1. call' \in Calls
    BY <1>1, PipelineAssumption DEF StartCall, Calls
  <2>2. vad' \in VadState
    BY <1>1, VadTyped DEF StartCall
  <2>3. history' \in Seq(Entries)
    BY <1>1, EmptySeq DEF StartCall
  <2>4. /\ phase' \in Phases
        /\ buffer' \subseteq Calls'
        /\ eventSet' \in BOOLEAN
        /\ onCall' \in BOOLEAN
    BY <1>1 DEF StartCall, Phases
  <2> QED BY <1>1, <2>1, <2>2, <2>3, <2>4 DEF StartCall
<1>2. CASE EndCall
  BY <1>2 DEF EndCall, Phases, Pcs
<1>3. CASE LinkLost
  BY <1>3 DEF LinkLost
<1>4. ASSUME NEW f \in {"speech", "silence"}, FeedAudio(f) PROVE TypeOK'
  <2>1. vad' \in VadState
    BY <1>4, VadTyped DEF FeedAudio, Frames
  <2>2. CASE EndOfSpeech(vad, f)
    <3>1. PICK t \in Tasks :
            /\ pc' = [pc EXCEPT ![t] = "stt"]
            /\ utterance' = [utterance EXCEPT ![t] = buffer \cup {call}]
            /\ owner' = [owner EXCEPT ![t] = call]
            /\ current' = t
      BY <1>4, <2>2 DEF FeedAudio
    <3>2. pc' \in [Tasks -> Pcs]
      BY <3>1 DEF Pcs, Working
    <3> QED BY <1>4, <2>1, <2>2, <3>1, <3>2 DEF FeedAudio, Phases
  <2>3. CASE ~EndOfSpeech(vad, f)
    BY <1>4, <2>1, <2>3 DEF FeedAudio
  <2> QED BY <2>2, <2>3
<1>5. ASSUME NEW text \in ApprovalTexts, ApproveResponse(text) PROVE TypeOK'
  BY <1>5 DEF ApproveResponse, Pcs, Working
<1>6. ASSUME NEW m \in Modes, SetMode(m) PROVE TypeOK'
  BY <1>6 DEF SetMode
<1>7. ASSUME NEW t \in Tasks, TaskStep(t) PROVE TypeOK'
  <2>1. CASE Transcribed(t)
    BY <2>1 DEF Transcribed, Entries, Pcs, Working
  <2>2. CASE Generated(t)
    <3>1. history' \in Seq(Entries)
      BY <2>2 DEF Generated, Entries
    <3>2. pc' \in [Tasks -> Pcs]
      BY <2>2 DEF Generated, Pcs, Working
    <3> QED BY <2>2, <3>1, <3>2 DEF Generated, Phases
  <2>3. CASE Drafted(t)
    <3>1. history' \in Seq(Entries)
      BY <2>3 DEF Drafted, Entries
    <3>2. pc' \in [Tasks -> Pcs]
      BY <2>3 DEF Drafted, Pcs, Working
    <3> QED BY <2>3, <3>1, <3>2 DEF Drafted
  <2>4. CASE Resumed(t)
    BY <2>4 DEF Resumed, Pcs, Working, Phases
  <2>5. CASE InjectChunk(t)
    BY <2>5 DEF InjectChunk, ReplyStored
  <2>6. CASE Spoken(t)
    BY <2>6 DEF Spoken, Pcs, Phases
  <2>7. CASE Failed(t)
    BY <2>7 DEF Failed, Pcs, Phases
  <2>8. CASE Cancelled(t)
    BY <2>8 DEF Cancelled, Pcs
  <2> QED
    BY <1>7, <2>1, <2>2, <2>3, <2>4, <2>5, <2>6, <2>7, <2>8 DEF TaskStep
<1>8. CASE UNCHANGED vars
  BY <1>8 DEF vars
<1> QED BY <1>1, <1>2, <1>3, <1>4, <1>5, <1>6, <1>7, <1>8 DEF Next

\* Only tasks that have something stored get to speak.
LEMMA ReplyStoredStep == TypeOK /\ ReplyStored /\ [Next]_vars => ReplyStored'
<1> SUFFICES ASSUME TypeOK, ReplyStored, [Next]_vars PROVE ReplyStored'
  OBVIOUS
<1> USE DEF ReplyStored, pipeVars, lineVars, taskVars, ghostVars
<1>0. pc \in [Tasks -> Pcs] /\ speaks \in [Tasks -> Tasks \cup {NoTask}]
  BY DEF TypeOK
<1>1. CASE StartCall
  BY <1>1 DEF StartCall
<1>2. CASE EndCall
  BY <1>0, <1>2 DEF EndCall
<1>3. CASE LinkLost
  BY <1>3 DEF LinkLost
<1>4. ASSUME NEW f \in {"speech", "silence"}, FeedAudio(f) PROVE ReplyStored'
  BY <1>0, <1>4 DEF FeedAudio
<1>5. ASSUME NEW text \in ApprovalTexts, ApproveResponse(text)
      PROVE  ReplyStored'
  BY <1>0, <1>5 DEF ApproveResponse
<1>6. ASSUME NEW m \in Modes, SetMode(m) PROVE ReplyStored'
  BY <1>6 DEF SetMode
<1>7. ASSUME NEW t \in Tasks, TaskStep(t) PROVE ReplyStored'
  BY <1>0, <1>7 DEF TaskStep, Transcribed, Generated, Drafted, Resumed,
                    InjectChunk, Spoken, Failed, Cancelled
<1>8. CASE UNCHANGED vars
  BY <1>8 DEF vars
<1> QED BY <1>1, <1>2, <1>3, <1>4, <1>5, <1>6, <1>7, <1>8 DEF Next

LEMMA TypeInit == Init => TypeOK
<1> SUFFICES ASSUME Init PROVE TypeOK
  OBVIOUS
<1>1. call \in Calls /\ history \in Seq(Entries) /\ vad \in VadState
  BY EmptySeq, VadTyped, PipelineAssumption DEF Init, Calls
<1>2. pc \in [Tasks -> Pcs]
  BY DEF Init, Pcs
<1>3. /\ utterance \in [Tasks -> SUBSET Calls]
      /\ waitsOn \in [Tasks -> Calls]
      /\ owner \in [Tasks -> Calls]
  BY <1>1 DEF Init
<1> QED BY <1>1, <1>2, <1>3 DEF Init, TypeOK, Phases

\* The variables keep their types on every line, lossy or not.
THEOREM TypeCorrect == Spec => []TypeOK
<1>1. Init => TypeOK /\ ReplyStored
  BY TypeInit DEF Init, ReplyStored
<1>2. TypeOK /\ ReplyStored /\ [Next]_vars => TypeOK' /\ ReplyStored'
  BY TypeStep, ReplyStoredStep
<1> QED BY <1>1, <1>2, PTL DEF Spec

--------------------------------------------------------------------------
(* A line that reports every hangup.                                       *)

\* Unchanged fields keep the whole invariant.
LEMMA PairedStutter == PairedInv /\ UNCHANGED vars => PairedInv'
BY DEF PairedInv, TypeOK, TurnInv, OwnerInv, ReplyInv, ApprovalInv, SpokenInv,
       AudioInv, HistoryInv, AnswersItsCaller, SpokenAfterApproval, OwnAudio,
       OwnHistory, Live, vars, pipeVars, lineVars, taskVars, ghostVars

\* One task at a time, and the phase tells what it does: a call starts only
\* from IDLE, a task only from LISTENING, and a hangup cancels the one there is.
LEMMA TurnStep ==
  ASSUME HangupReported, TypeOK, TurnInv, Next
  PROVE  TurnInv'
<1>0. /\ pc \in [Tasks -> Pcs]
      /\ phase \in Phases
      /\ NoTask \notin Tasks
  BY PipelineAssumption DEF TypeOK
<1> USE <1>0 DEF TurnInv, Live, Working, Answering, pipeVars, lineVars,
                 taskVars, ghostVars
<1>1. CASE StartCall
  BY <1>1 DEF StartCall
<1>2. CASE EndCall
  BY <1>2 DEF EndCall
<1>3. CASE LinkLost
  BY <1>3, HangupReported DEF LinkLost
<1>4. ASSUME NEW f \in {"speech", "silence"}, FeedAudio(f) PROVE TurnInv'
  BY <1>4 DEF FeedAudio
<1>5. ASSUME NEW text \in ApprovalTexts, ApproveResponse(text) PROVE TurnInv'
  BY <1>5 DEF ApproveResponse
<1>6. ASSUME NEW m \in Modes, SetMode(m) PROVE TurnInv'
  BY <1>6 DEF SetMode
<1>7. ASSUME NEW t \in Tasks, TaskStep(t) PROVE TurnInv'
  <2>1. CASE Transcribed(t)
    BY <2>1, <1>7 DEF Transcribed
  <2>2. CASE Generated(t)
    BY <2>2 DEF Generated
  <2>3. CASE Drafted(t)
    BY <2>3 DEF Drafted
  <2>4. CASE Resumed(t)
    BY <2>4 DEF Resumed
  <2>5. CASE InjectChunk(t)
    BY <2>5 DEF InjectChunk
  <2>6. CASE Spoken(t)
    BY <2>6 DEF Spoken
  <2>7. CASE Failed(t)
    BY <2>7 DEF Failed
  <2>8. CASE Cancelled(t)
    BY <2>8 DEF Cancelled
  <2> QED
    BY <1>7, <2>1, <2>2, <2>3, <2>4, <2>5, <2>6, <2>7, <2>8 DEF TaskStep
<1> QED BY <1>1, <1>2, <1>3, <1>4, <1>5, <1>6, <1>7 DEF Next

\* A task is created for the present call and no call starts while one lives.
LEMMA OwnerStep ==
  ASSUME TypeOK, TurnInv, OwnerInv, Next
  PROVE  OwnerInv'
<1>0. /\ pc \in [Tasks -> Pcs]
      /\ owner \in [Tasks -> Calls]
      /\ utterance \in [Tasks -> SUBSET Calls]
  BY DEF TypeOK
<1> USE <1>0 DEF OwnerInv, Live, Working, pipeVars, lineVars, taskVars,
                 ghostVars
<1>1. CASE StartCall
  BY <1>1 DEF StartCall, TurnInv
<1>2. CASE EndCall
  BY <1>2 DEF EndCall
<1>3. CASE LinkLost
  BY <1>3 DEF LinkLost
<1>4. ASSUME NEW f \in {"speech", "silence"}, FeedAudio(f) PROVE OwnerInv'
  BY <1>4 DEF FeedAudio
<1>5. ASSUME NEW text \in ApprovalTexts, ApproveResponse(text) PROVE OwnerInv'
  BY <1>5 DEF ApproveResponse
<1>6. ASSUME NEW m \in Modes, SetMode(m) PROVE OwnerInv'
  BY <1>6 DEF SetMode
<1>7. ASSUME NEW t \in Tasks, TaskStep(t) PROVE OwnerInv'
  BY <1>7 DEF TaskStep, Transcribed, Generated, Drafted, Resumed,
              InjectChunk, Spoken, Failed, Cancelled
<1> QED BY <1>1, <1>2, <1>3, <1>4, <1>5, <1>6, <1>7 DEF Next

\* Nobody overwrites the pending reply while its task waits to speak it: that
\* would take a second task in generate().
LEMMA ReplyStep ==
  ASSUME TypeOK, TurnInv, ReplyInv, Next
  PROVE  ReplyInv'
<1>0. /\ pc \in [Tasks -> Pcs]
      /\ speaks \in [Tasks -> Tasks \cup {NoTask}]
  BY DEF TypeOK
<1> USE <1>0 DEF ReplyInv, pipeVars, lineVars, taskVars, ghostVars
<1>1. CASE StartCall
  BY <1>1 DEF StartCall
<1>2. CASE EndCall
  BY <1>2 DEF EndCall
<1>3. CASE LinkLost
  BY <1>3 DEF LinkLost
<1>4. ASSUME NEW f \in {"speech", "silence"}, FeedAudio(f) PROVE ReplyInv'
  BY <1>4 DEF FeedAudio
<1>5. ASSUME NEW text \in ApprovalTexts, ApproveResponse(text) PROVE ReplyInv'
  BY <1>5 DEF ApproveResponse
<1>6. ASSUME NEW m \in Modes, SetMode(m) PROVE ReplyInv'
  BY <1>6 DEF SetMode
<1>7. ASSUME NEW t \in Tasks, TaskStep(t) PROVE ReplyInv'
  <2>1. pc[t] = "llm" => \A u \in Tasks \ {t} : ~Live(u)
    BY DEF TurnInv, Live, Working
  <2>2. CASE Generated(t) \/ Drafted(t)
    BY <2>1, <2>2 DEF Generated, Drafted, Live, Working
  <2>3. CASE ~(Generated(t) \/ Drafted(t))
    BY <1>7, <2>3 DEF TaskStep, Transcribed, Resumed, InjectChunk, Spoken,
                      Failed, Cancelled
  <2> QED BY <2>2, <2>3
<1> QED BY <1>1, <1>2, <1>3, <1>4, <1>5, <1>6, <1>7 DEF Next

\* Drafting clears the event, so only an approval handled while the draft
\* waits releases it; and a draft waits on the event of the present call.
LEMMA ApprovalStep ==
  ASSUME TypeOK, TurnInv, ApprovalInv, Next
  PROVE  ApprovalInv'
<1>0. /\ pc \in [Tasks -> Pcs]
      /\ waitsOn \in [Tasks -> Calls]
      /\ approved \in [Tasks -> {"no"} \cup ApprovalTexts]
      /\ "no" \notin ApprovalTexts
  BY PipelineAssumption DEF TypeOK
<1> USE <1>0 DEF ApprovalInv, pipeVars, lineVars, taskVars, ghostVars
<1>1. CASE StartCall
  BY <1>1 DEF StartCall, TurnInv, Live, Working
<1>2. CASE EndCall
  BY <1>2 DEF EndCall
<1>3. CASE LinkLost
  BY <1>3 DEF LinkLost
<1>4. ASSUME NEW f \in {"speech", "silence"}, FeedAudio(f) PROVE ApprovalInv'
  BY <1>4 DEF FeedAudio
<1>5. ASSUME NEW text \in ApprovalTexts, ApproveResponse(text)
      PROVE  ApprovalInv'
  BY <1>5 DEF ApproveResponse
<1>6. ASSUME NEW m \in Modes, SetMode(m) PROVE ApprovalInv'
  BY <1>6 DEF SetMode
<1>7. ASSUME NEW t \in Tasks, TaskStep(t) PROVE ApprovalInv'
  BY <1>7 DEF TaskStep, Transcribed, Generated, Drafted, Resumed,
              InjectChunk, Spoken, Failed, Cancelled
<1> QED BY <1>1, <1>2, <1>3, <1>4, <1>5, <1>6, <1>7 DEF Next

\* What goes on the air is the speaking task's own reply, to its own caller,
\* approved if it was drafted; and nothing later changes what is recorded of
\* a task that has spoken.
LEMMA InjectedStep ==
  ASSUME TypeOK, OwnerInv, ReplyInv, ApprovalInv, SpokenInv,
         AnswersItsCaller, SpokenAfterApproval, Next
  PROVE  SpokenInv' /\ AnswersItsCaller' /\ SpokenAfterApproval'
<1> DEFINE Goal == SpokenInv /\ AnswersItsCaller /\ SpokenAfterApproval
<1> SUFFICES Goal'
  OBVIOUS
<1>0. /\ pc \in [Tasks -> Pcs]
      /\ owner \in [Tasks -> Calls]
      /\ waitsOn \in [Tasks -> Calls]
      /\ approved \in [Tasks -> {"no"} \cup ApprovalTexts]
      /\ injected \subseteq Tasks \X Calls
      /\ "no" \notin ApprovalTexts
  BY PipelineAssumption DEF TypeOK
<1> USE <1>0 DEF SpokenInv, AnswersItsCaller, SpokenAfterApproval, pipeVars,
                 lineVars, taskVars, ghostVars
<1>1. CASE StartCall
  BY <1>1 DEF StartCall
<1>2. CASE EndCall
  BY <1>2 DEF EndCall, Live, Working
<1>3. CASE LinkLost
  BY <1>3 DEF LinkLost
<1>4. ASSUME NEW f \in {"speech", "silence"}, FeedAudio(f) PROVE Goal'
  BY <1>4 DEF FeedAudio
<1>5. ASSUME NEW text \in ApprovalTexts, ApproveResponse(text) PROVE Goal'
  BY <1>5 DEF ApproveResponse
<1>6. ASSUME NEW m \in Modes, SetMode(m) PROVE Goal'
  BY <1>6 DEF SetMode
<1>7. ASSUME NEW t \in Tasks, TaskStep(t) PROVE Goal'
  <2>1. CASE InjectChunk(t)
    <3>1. speaks[t] = t /\ owner[t] = call
      BY <2>1 DEF InjectChunk, ReplyInv, OwnerInv, Live, Working
    <3>2. waitsOn[t] # 0 => approved[t] # "no"
      BY <2>1 DEF InjectChunk, ApprovalInv
    <3> QED BY <2>1, <3>1, <3>2 DEF InjectChunk
  <2>2. CASE ~InjectChunk(t)
    BY <1>7, <2>2 DEF TaskStep, Transcribed, Generated, Drafted, Resumed,
                      Spoken, Failed, Cancelled
  <2> QED BY <2>1, <2>2
<1> QED BY <1>1, <1>2, <1>3, <1>4, <1>5, <1>6, <1>7 DEF Next

\* A call starts with an empty buffer and only its own frames get in,
\* whatever else the line and the tasks do.
LEMMA AudioStep ==
  ASSUME TypeOK, AudioInv, OwnAudio, Next
  PROVE  AudioInv' /\ OwnAudio'
<1> DEFINE Goal == AudioInv /\ OwnAudio
<1> SUFFICES Goal'
  OBVIOUS
<1>0. /\ owner \in [Tasks -> Calls]
      /\ utterance \in [Tasks -> SUBSET Calls]
  BY DEF TypeOK
<1> USE <1>0 DEF AudioInv, OwnAudio, pipeVars, lineVars, taskVars, ghostVars
<1>1. CASE StartCall
  BY <1>1 DEF StartCall
<1>2. CASE EndCall
  BY <1>2 DEF EndCall
<1>3. CASE LinkLost
  BY <1>3 DEF LinkLost
<1>4. ASSUME NEW f \in {"speech", "silence"}, FeedAudio(f) PROVE Goal'
  BY <1>4 DEF FeedAudio
<1>5. ASSUME NEW text \in ApprovalTexts, ApproveResponse(text) PROVE Goal'
  BY <1>5 DEF ApproveResponse
<1>6. ASSUME NEW m \in Modes, SetMode(m) PROVE Goal'
  BY <1>6 DEF SetMode
<1>7. ASSUME NEW t \in Tasks, TaskStep(t) PROVE Goal'
  BY <1>7 DEF TaskStep, Transcribed, Generated, Drafted, Resumed,
              InjectChunk, Spoken, Failed, Cancelled
<1> QED BY <1>1, <1>2, <1>3, <1>4, <1>5, <1>6, <1>7 DEF Next

\* The live task alone appends to the history: its words, then its reply.
LEMMA HistoryStep ==
  ASSUME TypeOK, TurnInv, OwnerInv, HistoryInv, OwnHistory, Next
  PROVE  HistoryInv' /\ OwnHistory'
<1> DEFINE Goal == HistoryInv /\ OwnHistory
<1> SUFFICES Goal'
  OBVIOUS
<1>0. /\ pc \in [Tasks -> Pcs]
      /\ owner \in [Tasks -> Calls]
      /\ history \in Seq(Entries)
  BY DEF TypeOK
<1>8. \A i \in DOMAIN history : history[i].task \in Tasks
  <2>1. \A i \in DOMAIN history : history[i] \in Entries
    BY <1>0, ElementOfSeq, LenProperties
  <2> QED BY <2>1 DEF Entries
<1> USE <1>0, <1>8 DEF HistoryInv, OwnHistory, pipeVars, lineVars, taskVars,
                 ghostVars
<1>1. CASE StartCall
  BY <1>1 DEF StartCall, TurnInv, Live, Working
<1>2. CASE EndCall
  BY <1>2 DEF EndCall
<1>3. CASE LinkLost
  BY <1>3 DEF LinkLost
<1>4. ASSUME NEW f \in {"speech", "silence"}, FeedAudio(f) PROVE Goal'
  BY <1>4 DEF FeedAudio
<1>5. ASSUME NEW text \in ApprovalTexts, ApproveResponse(text) PROVE Goal'
  BY <1>5 DEF ApproveResponse
<1>6. ASSUME NEW m \in Modes, SetMode(m) PROVE Goal'
  BY <1>6 DEF SetMode
<1>7. ASSUME NEW t \in Tasks, TaskStep(t) PROVE Goal'
  <2>0. Live(t) => owner[t] = call /\ \A u \in Tasks \ {t} : ~Live(u)
    BY DEF TurnInv, OwnerInv
  <2>1. CASE Transcribed(t)
    <3> DEFINE e == [role |-> "user", task |-> t]
    <3>1. /\ Len(history') = Len(history) + 1
          /\ history'[Len(history) + 1] = e
          /\ \A i \in 1 .. Len(history) : history'[i] = history[i]
          /\ DOMAIN history' = 1 .. (Len(history) + 1)
          /\ DOMAIN history = 1 .. Len(history)
          /\ Len(history) \in Nat
      BY <2>1, AppendProperties, LenProperties DEF Transcribed, Entries
    <3> HIDE DEF e
    <3>2. e.task = t /\ e.role = "user"
      BY DEF e
    <3>3. HistoryInv'
      BY <2>1, <3>1, <3>2 DEF Transcribed
    <3>4. \A i \in DOMAIN history' :
            /\ owner'[history'[i].task] = call'
            /\ history'[i].role = "assistant" =>
                 /\ i > 1
                 /\ history'[i - 1] = [role |-> "user",
                                       task |-> history'[i].task]
      BY <2>0, <2>1, <3>1, <3>2 DEF Transcribed, Live, Working
    <3>5. \A u \in Tasks : pc'[u] = "llm" => u = t
      BY <2>0, <2>1 DEF Transcribed, Live, Working
    <3> QED BY <3>1, <3>3, <3>4, <3>5 DEF e
  <2>2. CASE Generated(t) \/ Drafted(t)
    <3> DEFINE e == [role |-> "assistant", task |-> t]
    <3>0. e \in Entries /\ history' = Append(history, e)
      BY <2>2 DEF Generated, Drafted, Entries
    <3>1. /\ Len(history') = Len(history) + 1
          /\ history'[Len(history) + 1] = e
          /\ \A i \in 1 .. Len(history) : history'[i] = history[i]
          /\ DOMAIN history' = 1 .. (Len(history) + 1)
          /\ DOMAIN history = 1 .. Len(history)
          /\ Len(history) \in Nat
      BY <3>0, AppendProperties, LenProperties
    <3> HIDE DEF e
    <3>2. e.task = t
      BY DEF e
    <3>3. HistoryInv'
      BY <2>2, <3>1, <3>2 DEF Generated, Drafted
    <3>4. /\ Len(history) > 0
          /\ history[Len(history)] = [role |-> "user", task |-> t]
      BY <2>2, LenProperties, EmptySeq DEF Generated, Drafted
    <3>5. \A i \in DOMAIN history' :
            /\ owner'[history'[i].task] = call'
            /\ history'[i].role = "assistant" =>
                 /\ i > 1
                 /\ history'[i - 1] = [role |-> "user",
                                       task |-> history'[i].task]
      <4> SUFFICES ASSUME NEW i \in DOMAIN history'
                   PROVE  /\ owner'[history'[i].task] = call'
                          /\ history'[i].role = "assistant" =>
                               /\ i > 1
                               /\ history'[i - 1] =
                                    [role |-> "user",
                                     task |-> history'[i].task]
        OBVIOUS
      <4>1. owner' = owner /\ call' = call /\ owner[t] = call
        BY <2>0, <2>2 DEF Generated, Drafted, Live, Working
      <4>2. CASE i = Len(history) + 1
        BY <4>1, <4>2, <3>1, <3>2, <3>4
      <4>3. CASE i \in 1 .. Len(history)
        <5>1. history'[i] = history[i] /\ i \in DOMAIN history
          BY <4>3, <3>1
        <5>2. i > 1 => history'[i - 1] = history[i - 1]
          BY <4>3, <3>1
        <5> QED BY <4>1, <5>1, <5>2
      <4> QED BY <3>1, <4>2, <4>3
    <3>6. \A u \in Tasks : pc'[u] # "llm"
      BY <2>0, <2>2 DEF Generated, Drafted, Live, Working
    <3> QED BY <3>3, <3>5, <3>6
  <2>3. CASE ~(Transcribed(t) \/ Generated(t) \/ Drafted(t))
    BY <1>7, <2>3 DEF TaskStep, Resumed, InjectChunk, Spoken, Failed, Cancelled
  <2> QED BY <2>1, <2>2, <2>3
<1> QED BY <1>1, <1>2, <1>3, <1>4, <1>5, <1>6, <1>7 DEF Next

\* The invariant holds at the start, and every step keeps it.
LEMMA PairedInit == Init => PairedInv
<1> SUFFICES ASSUME Init PROVE PairedInv
  OBVIOUS
<1>1. TypeOK
  BY TypeInit
<1>2. /\ \A t \in Tasks : pc[t] = "unused"
      /\ phase = "IDLE" /\ history = <<>> /\ injected = {}
  BY DEF Init
<1>3. DOMAIN history = {}
  BY <1>2
<1>4. TurnInv /\ OwnerInv /\ ReplyInv /\ ApprovalInv
  BY <1>2 DEF Init, TurnInv, OwnerInv, ReplyInv, ApprovalInv, Live, Working
<1>5. /\ SpokenInv /\ AudioInv /\ HistoryInv
      /\ AnswersItsCaller /\ SpokenAfterApproval /\ OwnAudio
  BY <1>2, <1>3 DEF Init, SpokenInv, AudioInv, HistoryInv, AnswersItsCaller,
                    SpokenAfterApproval, OwnAudio
<1>6. OwnHistory
  BY <1>2, <1>3 DEF OwnHistory
<1> QED BY <1>1, <1>4, <1>5, <1>6 DEF PairedInv

LEMMA PairedStep ==
  ASSUME HangupReported
  PROVE  PairedInv /\ [Next]_vars => PairedInv'
<1>1. ASSUME PairedInv, Next PROVE PairedInv'
  <2> USE <1>1
  <2>1. TypeOK'
    <3>1. ReplyStored
      BY DEF PairedInv, ReplyInv, ReplyStored
    <3> QED BY <3>1, TypeStep DEF PairedInv
  <2>2. TurnInv'
    BY HangupReported, TurnStep DEF PairedInv
  <2>3. OwnerInv' /\ ReplyInv' /\ ApprovalInv'
    BY OwnerStep, ReplyStep, ApprovalStep DEF PairedInv
  <2>4. SpokenInv' /\ AnswersItsCaller' /\ SpokenAfterApproval'
    BY InjectedStep DEF PairedInv
  <2>5. AudioInv' /\ OwnAudio' /\ HistoryInv' /\ OwnHistory'
    BY AudioStep, HistoryStep DEF PairedInv
  <2> QED BY <2>1, <2>2, <2>3, <2>4, <2>5 DEF PairedInv
<1> QED BY <1>1, PairedStutter

\* The strengthened invariant, on a line that reports every hangup.
THEOREM PairedCorrect ==
  ASSUME HangupReported
  PROVE  Spec => []PairedInv
<1>1. PairedInv /\ [Next]_vars => PairedInv'
  BY HangupReported, PairedStep
<1> QED BY <1>1, PairedInit, PTL DEF Spec

\* One turn at a time: the phase says what the one live task does.
THEOREM OneTurnCorrect ==
  ASSUME HangupReported
  PROVE  Spec => []OneTurn
<1>1. PairedInv => OneTurn
  <2> SUFFICES ASSUME PairedInv PROVE OneTurn
    OBVIOUS
  <2>1. TypeOK /\ TurnInv
    BY DEF PairedInv
  <2> QED BY <2>1 DEF OneTurn, TypeOK, TurnInv, Live, Working, Answering, Phases
<1> QED BY <1>1, HangupReported, PairedCorrect, PTL

\* Every word spoken in a call answers something said in that call.
THEOREM AnswersItsCallerCorrect ==
  ASSUME HangupReported
  PROVE  Spec => []AnswersItsCaller
<1>1. PairedInv => AnswersItsCaller
  BY DEF PairedInv
<1> QED BY <1>1, HangupReported, PairedCorrect, PTL

\* No draft is spoken without an approval handled after it was shown.
THEOREM SpokenAfterApprovalCorrect ==
  ASSUME HangupReported
  PROVE  Spec => []SpokenAfterApproval
<1>1. PairedInv => SpokenAfterApproval
  BY DEF PairedInv
<1> QED BY <1>1, HangupReported, PairedCorrect, PTL

\* The language model sees this call's words only, in the order they were said
\* and answered.
THEOREM OwnHistoryCorrect ==
  ASSUME HangupReported
  PROVE  Spec => []OwnHistory
<1>1. PairedInv => OwnHistory
  BY DEF PairedInv
<1> QED BY <1>1, HangupReported, PairedCorrect, PTL

\* After a hangup the pipeline says and records nothing until the next call.
THEOREM QuietAfterHangupCorrect ==
  ASSUME HangupReported
  PROVE  Spec => QuietAfterHangup
<1> DEFINE Quieted ==
      phase = "IDLE" =>
        /\ phase' = "IDLE" => UNCHANGED <<history, pending, injected>>
        /\ phase' # "IDLE" => call' = call + 1
<1>1. ASSUME PairedInv, Next PROVE Quieted
  <2> SUFFICES ASSUME phase = "IDLE" PROVE Quieted
    BY DEF Quieted
  <2>0. \A t \in Tasks : ~Live(t)
    BY <1>1 DEF PairedInv, TurnInv
  <2> USE DEF pipeVars, lineVars, taskVars, ghostVars
  <2>1. CASE StartCall
    BY <2>1 DEF StartCall
  <2>2. CASE EndCall
    BY <2>2 DEF EndCall
  <2>3. CASE LinkLost
    BY <2>3, HangupReported DEF LinkLost
  <2>4. ASSUME NEW f \in {"speech", "silence"}, FeedAudio(f) PROVE Quieted
    BY <2>4 DEF FeedAudio
  <2>5. ASSUME NEW text \in ApprovalTexts, ApproveResponse(text) PROVE Quieted
    BY <2>5 DEF ApproveResponse
  <2>6. ASSUME NEW m \in Modes, SetMode(m) PROVE Quieted
    BY <2>6 DEF SetMode
  <2>7. ASSUME NEW t \in Tasks, TaskStep(t) PROVE Quieted
    <3>1. Cancelled(t)
      BY <2>0, <2>7 DEF Live, Working, TaskStep, Transcribed, Generated,
                        Drafted, Resumed, InjectChunk, Spoken, Failed
    <3> QED BY <3>1 DEF Cancelled
  <2> QED BY <1>1, <2>1, <2>2, <2>3, <2>4, <2>5, <2>6, <2>7 DEF Next
<1>2. PairedInv /\ [Next]_vars => [Quieted]_vars
  BY <1>1
<1> QED
  BY <1>2, HangupReported, PairedCorrect, PTL DEF Spec, QuietAfterHangup

\* Each step is the documented transition, or changes nothing the abstract
\* machine can see.
LEMMA DocumentedStep ==
  ASSUME HangupReported, PairedInv, Next
  PROVE  [VC!Next]_(VC!vars)
<1>0. /\ TypeOK /\ TurnInv /\ OwnerInv /\ ReplyInv
      /\ pc \in [Tasks -> Pcs]
      /\ phase \in Phases
  BY DEF PairedInv, TypeOK
<1> USE DEF TurnOf, pipeVars, lineVars, taskVars, ghostVars
<1>1. CASE StartCall
  <2>1. phase = "IDLE"
    BY <1>0, <1>1 DEF StartCall, TurnInv
  <2>2. VC!CallStarts
    BY <1>1, <2>1 DEF StartCall, VC!CallStarts
  <2> QED BY <2>2 DEF VC!Next
<1>2. CASE EndCall
  <2>1. VC!CallEnds
    BY <1>2 DEF EndCall, VC!CallEnds
  <2> QED BY <2>1 DEF VC!Next
<1>3. CASE LinkLost
  BY <1>3, HangupReported DEF LinkLost
<1>4. ASSUME NEW f \in {"speech", "silence"}, FeedAudio(f)
      PROVE  [VC!Next]_(VC!vars)
  <2>1. CASE EndOfSpeech(vad, f)
    <3>1. PICK t \in Tasks :
            /\ pc[t] = "unused"
            /\ owner' = [owner EXCEPT ![t] = call]
            /\ current' = t
      BY <1>4, <2>1 DEF FeedAudio
    <3>2. owner[t] = 0
      BY <1>0, <3>1 DEF OwnerInv
    <3>3. VC!SpeechEnds(t)
      BY <1>4, <2>1, <3>1, <3>2 DEF FeedAudio, VC!SpeechEnds
    <3> QED BY <3>3 DEF VC!Next
  <2>2. CASE ~EndOfSpeech(vad, f)
    BY <1>4, <2>2 DEF FeedAudio, VC!vars
  <2> QED BY <2>1, <2>2
<1>5. ASSUME NEW text \in ApprovalTexts, ApproveResponse(text)
      PROVE  [VC!Next]_(VC!vars)
  BY <1>5 DEF ApproveResponse, VC!vars
<1>6. ASSUME NEW m \in Modes, SetMode(m) PROVE [VC!Next]_(VC!vars)
  BY <1>6 DEF SetMode, VC!vars
<1>7. ASSUME NEW t \in Tasks, TaskStep(t) PROVE [VC!Next]_(VC!vars)
  <2>0. /\ pc[t] \in Answering => phase = "PROCESSING"
        /\ pc[t] = "tts" => phase = "SPEAKING" /\ current = t
                            /\ speaks[t] = t /\ owner[t] = call
    BY <1>0 DEF TurnInv, OwnerInv, ReplyInv, Live, Working, Answering, Phases
  <2> USE DEF Answering
  <2>1. CASE Generated(t) \/ Resumed(t)
    <3>1. VC!ReplyReady
      BY <2>0, <2>1 DEF Generated, Resumed, VC!ReplyReady
    <3> QED BY <3>1 DEF VC!Next
  <2>2. CASE InjectChunk(t)
    <3>1. VC!Say
      BY <2>0, <2>2 DEF InjectChunk, VC!Say
    <3> QED BY <3>1 DEF VC!Next
  <2>3. CASE Spoken(t) \/ Failed(t)
    <3>1. VC!TurnOver
      BY <2>0, <2>3 DEF Spoken, Failed, VC!TurnOver
    <3> QED BY <3>1 DEF VC!Next
  <2>4. CASE Transcribed(t) \/ Drafted(t) \/ Cancelled(t)
    BY <2>4 DEF Transcribed, Drafted, Cancelled, VC!vars
  <2> QED BY <1>7, <2>1, <2>2, <2>3, <2>4 DEF TaskStep
<1> QED BY <1>1, <1>2, <1>3, <1>4, <1>5, <1>6, <1>7 DEF Next

\* The pipeline implements the turn taking of its docstring.
THEOREM TakesTurnsCorrect ==
  ASSUME HangupReported
  PROVE  Spec => TakesTurns
<1>1. Init => VC!Init
  BY DEF Init, VC!Init, TurnOf
<1>2. UNCHANGED vars => UNCHANGED VC!vars
  BY DEF vars, pipeVars, lineVars, taskVars, ghostVars, VC!vars, TurnOf
<1>3. PairedInv /\ [Next]_vars => [VC!Next]_(VC!vars)
  BY <1>2, HangupReported, DocumentedStep
<1> QED
  BY <1>1, <1>3, HangupReported, PairedCorrect, PTL
  DEF Spec, TakesTurns, VC!Spec

\* What the interface promises, whichever pipeline is behind it.
VL == INSTANCE VoiceLine WITH
        Queries <- Tasks, inCall <- (phase # "IDLE"), caller <- call,
        asked <- owner, said <- injected

\* So the pipeline also keeps that promise, which says nothing of turns: a turn
\* is a query, and the phases between its end and its answer are not seen.
\* RealtimePipeline keeps the same one, so main.py may swap between the two.
THEOREM ServesTheLineCorrect ==
  ASSUME HangupReported
  PROVE  Spec => VL!Spec
<1>1. Init => VL!Init
  BY DEF Init, VL!Init
<1>2. ASSUME PairedInv, [VC!Next]_(VC!vars) PROVE [VL!Next]_(VL!vars)
  <2>1. phase = "SPEAKING" => TurnOf \in Tasks
    BY <1>2 DEF PairedInv, TurnInv, TurnOf
  <2>2. CASE VC!CallStarts
    <3>1. VL!CallStarts
      BY <2>2 DEF VC!CallStarts, VL!CallStarts
    <3> QED BY <3>1 DEF VL!Next
  <2>3. ASSUME NEW t \in Tasks, VC!SpeechEnds(t)
        PROVE  [VL!Next]_(VL!vars)
    <3>1. VL!Asks(t)
      BY <2>3 DEF VC!SpeechEnds, VL!Asks
    <3> QED BY <3>1 DEF VL!Next
  <2>4. CASE VC!Say
    <3>1. VL!Says(TurnOf)
      BY <2>4 DEF VC!Say, VL!Says
    <3> QED BY <2>1, <2>4, <3>1 DEF VC!Say, VL!Next
  <2>5. CASE VC!ReplyReady \/ VC!TurnOver
    BY <2>5 DEF VC!ReplyReady, VC!TurnOver, VL!vars
  <2>6. CASE VC!CallEnds
    <3>1. VL!CallEnds
      BY <2>6 DEF VC!CallEnds, VL!CallEnds
    <3> QED BY <3>1 DEF VL!Next
  <2>7. CASE UNCHANGED VC!vars
    BY <2>7 DEF VC!vars, VL!vars
  <2> QED
    BY <1>2, <2>2, <2>3, <2>4, <2>5, <2>6, <2>7 DEF VC!Next
<1>3. UNCHANGED vars => UNCHANGED VL!vars
  BY DEF vars, pipeVars, lineVars, ghostVars, VL!vars
<1>4. PairedInv /\ [Next]_vars => [VL!Next]_(VL!vars)
  BY <1>2, <1>3, HangupReported, DocumentedStep
<1> QED
  BY <1>1, <1>4, HangupReported, PairedCorrect, PTL DEF Spec, VL!Spec

--------------------------------------------------------------------------
(* Any line, dropped calls included.                                       *)

\* Whatever the line does, something is always at work behind PROCESSING and
\* SPEAKING, or a draft waits on the event that approvals set.
THEOREM NeverStrandedCorrect == Spec => []NeverStranded
<1>1. Init => NeverStranded
  BY DEF Init, NeverStranded
<1>2. ASSUME TypeOK, NeverStranded, Next PROVE NeverStranded'
  <2>0. /\ pc \in [Tasks -> Pcs]
        /\ waitsOn \in [Tasks -> Calls]
    BY <1>2 DEF TypeOK
  <2> USE <1>2, <2>0 DEF NeverStranded, pipeVars, lineVars, taskVars, ghostVars
  <2>1. CASE StartCall
    BY <2>1 DEF StartCall
  <2>2. CASE EndCall
    BY <2>2 DEF EndCall
  <2>3. CASE LinkLost
    BY <2>3 DEF LinkLost
  <2>4. ASSUME NEW f \in {"speech", "silence"}, FeedAudio(f)
        PROVE  NeverStranded'
    BY <2>4 DEF FeedAudio
  <2>5. ASSUME NEW text \in ApprovalTexts, ApproveResponse(text)
        PROVE  NeverStranded'
    BY <2>5 DEF ApproveResponse
  <2>6. ASSUME NEW m \in Modes, SetMode(m) PROVE NeverStranded'
    BY <2>6 DEF SetMode
  <2>7. ASSUME NEW t \in Tasks, TaskStep(t) PROVE NeverStranded'
    <3>1. CASE Transcribed(t)
      BY <3>1 DEF Transcribed
    <3>2. CASE Generated(t) \/ Resumed(t)
      BY <3>2 DEF Generated, Resumed
    <3>3. CASE Drafted(t)
      BY <3>3 DEF Drafted
    <3>4. CASE InjectChunk(t)
      BY <3>4 DEF InjectChunk
    <3>5. CASE Spoken(t) \/ Failed(t)
      BY <3>5 DEF Spoken, Failed
    <3>6. CASE Cancelled(t)
      BY <3>6 DEF Cancelled
    <3> QED BY <2>7, <3>1, <3>2, <3>3, <3>4, <3>5, <3>6 DEF TaskStep
  <2> QED BY <2>1, <2>2, <2>3, <2>4, <2>5, <2>6, <2>7 DEF Next
<1>3. TypeOK /\ NeverStranded /\ [Next]_vars => NeverStranded'
  <2>1. ASSUME NeverStranded, UNCHANGED vars PROVE NeverStranded'
    BY <2>1 DEF NeverStranded, vars, pipeVars, lineVars, taskVars
  <2> QED BY <1>2, <2>1
<1> QED BY <1>1, <1>3, TypeCorrect, PTL DEF Spec

\* Speech recognition is given the audio of the call it answers only, even
\* when calls are dropped without a hangup.
THEOREM OwnAudioCorrect == Spec => []OwnAudio
<1>1. Init => AudioInv /\ OwnAudio
  BY DEF Init, AudioInv, OwnAudio
<1>2. TypeOK /\ AudioInv /\ OwnAudio /\ [Next]_vars
        => AudioInv' /\ OwnAudio'
  <2>1. ASSUME AudioInv, OwnAudio, UNCHANGED vars
        PROVE  AudioInv' /\ OwnAudio'
    BY <2>1 DEF AudioInv, OwnAudio, vars, pipeVars, lineVars, taskVars,
                ghostVars
  <2> QED BY <2>1, AudioStep
<1> QED BY <1>1, <1>2, TypeCorrect, PTL DEF Spec
==========================================================================
