-------------------------- MODULE RealtimePipeline --------------------------
(***************************************************************************)
(* RealtimeAudioPipeline (osm_core/audio/realtime.py): a call is answered  *)
(* by a speech service behind one websocket.                               *)
(*                                                                         *)
(* The strands of execution are the Bluetooth listener, which awaits       *)
(* start_call, end_call and feed_audio one by one and so also reconnects   *)
(* in feed_audio when a send fails; one task per call running _connect;    *)
(* one receive loop per connection, named by it; receive loops started on  *)
(* a connection that is already read (Extras); and the tasks in            *)
(* _disconnect.  Code between two awaits is one step.                      *)
(*                                                                         *)
(* Abstraction: an answer of the service is a number, its audio deltas and *)
(* the transcript deltas that go with them are that number; audio sent is  *)
(* the call it came from; waiting 2^n seconds is a step that takes time.   *)
(*                                                                         *)
(* What goes wrong around the pipeline beyond connections that fail or     *)
(* drop is recorded in "faults", so that a property can say which of them  *)
(* it does not survive:                                                    *)
(*   mode    set_voice_mode during the call                                *)
(*   race    a send that notices a lost connection before the receive loop *)
(*   setup   connections refused right after they opened                   *)
(*   bye     the service closes the session normally                       *)
(*   bridge  osm-bt gone while approved audio is flushed                   *)
(*   late    a call begun before the last session is closed                *)
(***************************************************************************)
EXTENDS Naturals, FiniteSets

CONSTANTS
  Conns,        \* websocket connections: bounds how many are opened
  Listener,     \* the strand of BTBridge.listen
  Extras,       \* further receive loops on one connection: bounds their
                \* number, and how many refused setups are counted at once
  None,
  MaxCalls,     \* bound on the number of calls
  MaxAnswers,   \* bound on the answers of the service
  MaxAttempts,  \* self._max_reconnect_attempts
  MaxClosing,   \* bound on the _disconnect tasks that close one connection
  MaxFaults     \* bound on the kinds of faults in one behaviour

ASSUME RealtimeAssumption ==
  /\ MaxCalls \in Nat
  /\ MaxAnswers \in Nat
  /\ MaxAttempts \in Nat \ {0}
  /\ MaxClosing \in Nat \ {0}
  /\ MaxFaults \in Nat
  /\ IsFiniteSet(Extras)
  /\ None # Listener
  /\ {Listener, None} \cap (Conns \cup Extras) = {} /\ Conns \cap Extras = {}
  /\ ({Listener, None} \cup Conns \cup Extras) \cap Nat = {}

VARIABLES
  state,        \* self.state
  mode,         \* self.mode
  ws,           \* self._ws
  chunks,       \* self._pending_audio_chunks: answers with audio in it
  text,         \* self._pending_transcript: answers with text in it
  eventSet,     \* self._approval_event.is_set()
  attempts,     \* self._reconnect_attempts
  listenTask,   \* self._listen_task
  call,         \* start_call()s so far; self._connect_task is the task "call"
  onCall,       \* the phone has a call on the air (environment)
  conn,         \* each connection: unused, open, lost or closed
  heard,        \* the call whose audio a connection was sent last, 0 if none
  answer,       \* the answers a connection is delivering
  pc,           \* where each strand is
  waitsOn,      \* the call whose event object a waiting receive loop awaits
  closing,      \* each connection: how many _disconnect tasks are closing it
  owed,         \* each strand: how many calls of _connect around the present
                \* one were refused and have their receive loop yet to start
  asker,        \* the call an answer was asked in, 0 if not yet given (history)
  draft,        \* the draft shown and whether it was approved (history)
  spoken,       \* <<answer, call, how>> put on the air (history)
  faults        \* what went wrong so far (history)

lineVars == <<call, onCall>>
draftVars == <<chunks, text>>
serviceVars == <<heard, answer, asker>>
ghostVars == <<draft, spoken, faults>>
vars == <<state, mode, ws, draftVars, eventSet, attempts, listenTask, lineVars,
          conn, serviceVars, pc, waitsOn, closing, owed, ghostVars>>

States == {"IDLE", "LISTENING", "PROCESSING", "SPEAKING"}
Modes == {"autonomous", "hitl"}
Calls == 0 .. MaxCalls      \* 0: before the first call
Answers == 1 .. MaxAnswers
Strands == {Listener} \cup Extras \cup Conns \cup (Calls \ {0})

\* A receive loop is at "recv", or in _on_response_done waiting for approval,
\* released from it, or flushing; any strand may be in the back-off sleep or
\* in websockets.connect; the listener is otherwise ready for an event.
Attending == {"recv", "approval", "released", "flush"}
Dialling == {"backoff", "opening"}
Pcs == Attending \cup Dialling \cup {"ready", "unused", "done"}

Faults == {"mode", "race", "setup", "bye", "bridge", "late"}
Hows == {"live", "approved", "unseen"}

TypeOK ==
  /\ state \in States /\ mode \in Modes
  /\ ws \in Conns \cup {None}
  /\ chunks \subseteq Answers /\ text \subseteq Answers
  /\ eventSet \in BOOLEAN /\ attempts \in Nat
  /\ listenTask \in Conns \cup Extras \cup {None}
  /\ call \in Calls /\ onCall \in BOOLEAN
  /\ conn \in [Conns -> {"unused", "open", "lost", "closed"}]
  /\ heard \in [Conns -> Calls]
  /\ answer \in [Conns -> SUBSET Answers]
  /\ pc \in [Strands -> Pcs]
  /\ waitsOn \in [Conns -> Calls]
  /\ closing \in [Conns -> Nat]
  /\ owed \in [Strands -> Nat]
  /\ asker \in [Answers -> Calls]
  /\ draft \in [text : SUBSET Answers, approved : BOOLEAN]
  /\ spoken \subseteq Answers \X Calls \X Hows
  /\ faults \subseteq Faults

Init ==
  /\ state = "IDLE" /\ mode \in Modes
  /\ ws = None
  /\ chunks = {} /\ text = {}
  /\ eventSet = FALSE /\ attempts = 0
  /\ listenTask = None
  /\ call = 0 /\ onCall = FALSE
  /\ conn = [c \in Conns |-> "unused"]
  /\ heard = [c \in Conns |-> 0]
  /\ answer = [c \in Conns |-> {}]
  /\ pc = [s \in Strands |-> IF s = Listener THEN "ready" ELSE "unused"]
  /\ waitsOn = [c \in Conns |-> 0]
  /\ closing = [c \in Conns |-> 0]
  /\ owed = [s \in Strands |-> 0]
  /\ asker = [a \in Answers |-> 0]
  /\ draft = [text |-> {}, approved |-> FALSE]
  /\ spoken = {}
  /\ faults = {}

\* The connections some _disconnect task is closing.
Closing == {c \in Conns : closing[c] > 0}

\* A fault happens, within the bound on kinds.
Suffer(f) ==
  /\ faults' = faults \cup {f}
  /\ Cardinality(faults \cup {f}) <= MaxFaults
--------------------------------------------------------------------------
(* Websocket lifecycle, on any strand.                                     *)

\* Where a strand is when _handle_disconnect or _connect returns.
Rest(s) == IF s = Listener THEN "ready" ELSE "done"

\* Connections are named in the order they are opened.
Fresh(c) == conn[c] = "unused" /\ c = CHOOSE d \in Conns : conn[d] = "unused"

\* What _handle_disconnect does when the attempts made so far are n.
HandleDisconnectAfter(s, n) ==
  /\ ws' = None
  /\ \/ /\ state = "IDLE"
        /\ attempts' = n
        /\ pc' = [pc EXCEPT ![s] = Rest(s)]
        /\ UNCHANGED state
     \/ /\ state # "IDLE" /\ n >= MaxAttempts
        /\ attempts' = n + 1
        /\ pc' = [pc EXCEPT ![s] = Rest(s)]
        /\ state' = "IDLE"
     \/ /\ state # "IDLE" /\ n < MaxAttempts
        /\ attempts' = n + 1
        /\ pc' = [pc EXCEPT ![s] = "backoff"]
        /\ UNCHANGED state

\* Mutant: back off for ever.
MutHandleDisconnect(s) ==
  /\ ws' = None
  /\ attempts' = attempts
  /\ pc' = [pc EXCEPT ![s] = IF state = "IDLE" THEN Rest(s) ELSE "backoff"]
  /\ UNCHANGED state

HandleDisconnect(s) == HandleDisconnectAfter(s, attempts)

\* asyncio.sleep(delay) is over: _connect, whatever became of the call.
Redial(s) ==
  /\ pc[s] = "backoff"
  /\ pc' = [pc EXCEPT ![s] = "opening"]
  /\ UNCHANGED <<state, mode, ws, draftVars, eventSet, attempts, listenTask,
                 lineVars, conn, serviceVars, waitsOn, closing, owed, ghostVars>>

\* Mutant of _connect: the new receive loop is not remembered.
MutOpened(s) ==
  /\ pc[s] = "opening" /\ owed[s] = 0
  /\ \E c \in Conns :
       /\ Fresh(c)
       /\ conn' = [conn EXCEPT ![c] = "open"]
       /\ ws' = c
       /\ attempts' = 0
       /\ pc' = [pc EXCEPT ![c] = "recv", ![s] = Rest(s)]
  /\ UNCHANGED <<state, mode, draftVars, eventSet, listenTask, lineVars,
                 serviceVars, waitsOn, closing, owed, ghostVars>>

\* websockets.connect returned and session.update went out: a receive loop.
Opened(s) ==
  /\ pc[s] = "opening" /\ owed[s] = 0
  /\ \E c \in Conns :
       /\ Fresh(c)
       /\ conn' = [conn EXCEPT ![c] = "open"]
       /\ ws' = c
       /\ attempts' = 0
       /\ listenTask' = c
       /\ pc' = [pc EXCEPT ![c] = "recv", ![s] = Rest(s)]
  /\ UNCHANGED <<state, mode, draftVars, eventSet, lineVars, serviceVars,
                 waitsOn, closing, owed, ghostVars>>

\* How many of n tasks that call _handle_disconnect one after the other, the
\* first with no attempt made, get to reconnect.
Reconnecting(n) ==
  IF state = "IDLE" THEN 0 ELSE IF n <= MaxAttempts THEN n ELSE MaxAttempts

\* Connected at last, inside calls of _connect that were refused: each of them
\* starts a receive loop, too.  recv() of the first raises ConcurrencyError;
\* it takes that for a disconnection, so that the others find no connection.
OpenedWithin(s) ==
  /\ pc[s] = "opening" /\ owed[s] > 0
  /\ owed' = [owed EXCEPT ![s] = 0]
  /\ \E c \in Conns, loops \in SUBSET {e \in Extras : pc[e] \in {"unused", "done"}} :
       \E again \in SUBSET loops, last \in loops :
         /\ Fresh(c)
         /\ Cardinality(loops) = owed[s]
         /\ Cardinality(again) = Reconnecting(owed[s])
         /\ again # loops => last \notin again
         /\ conn' = [conn EXCEPT ![c] = "open"]
         /\ listenTask' = last
         /\ pc' = [t \in Strands |-> IF t = c THEN "recv"
                                     ELSE IF t = s THEN Rest(s)
                                     ELSE IF t \in again THEN "backoff"
                                     ELSE IF t \in loops THEN "done"
                                     ELSE pc[t]]
  /\ ws' = None
  /\ IF state # "IDLE" /\ owed[s] > MaxAttempts
     THEN state' = "IDLE" /\ attempts' = MaxAttempts + 1
     ELSE attempts' = Reconnecting(owed[s]) /\ UNCHANGED state
  /\ UNCHANGED <<mode, draftVars, eventSet, lineVars, serviceVars, waitsOn,
                 closing, ghostVars>>

\* _connect is back without a connection: the receive loops of the refused
\* calls around it find none and end at once.
Unwinds(s) ==
  IF pc'[s] = Rest(s)
  THEN /\ owed' = [owed EXCEPT ![s] = 0]
       /\ listenTask' = IF owed[s] = 0 THEN listenTask ELSE None
  ELSE UNCHANGED <<owed, listenTask>>

\* websockets.connect raised.
OpenFailed(s) ==
  /\ pc[s] = "opening"
  /\ HandleDisconnect(s)
  /\ Unwinds(s)
  /\ UNCHANGED <<mode, draftVars, eventSet, lineVars, conn, serviceVars, waitsOn,
                 closing, ghostVars>>

\* The connection was closed before session.update, again and again perhaps:
\* _send_event reconnects inside _connect, which still has its receive loop to
\* start.  No more of them are counted than there are Extras.
SetupRefused(s) ==
  /\ pc[s] = "opening"
  /\ Suffer("setup")
  /\ HandleDisconnectAfter(s, 0)
  /\ \/ /\ pc'[s] = "backoff"
        /\ owed' = [owed EXCEPT ![s] = IF @ < Cardinality(Extras) THEN @ + 1 ELSE @]
        /\ UNCHANGED listenTask
     \/ /\ pc'[s] = Rest(s)
        /\ owed' = [owed EXCEPT ![s] = 0]
        /\ listenTask' = None
  /\ UNCHANGED <<mode, draftVars, eventSet, lineVars, conn, serviceVars, waitsOn,
                 closing, draft, spoken>>

\* Nothing more comes over a connection that is lost or closed.
Silent(c) ==
  /\ heard' = [heard EXCEPT ![c] = 0]
  /\ answer' = [answer EXCEPT ![c] = {}]

\* Mutant of _disconnect: it closes although there is nothing to close.
MutDisconnected(c) ==
  /\ closing' = [closing EXCEPT ![c] = @ - 1]
  /\ conn' = [conn EXCEPT ![c] = "closed"]
  /\ Silent(c)
  /\ ws' = None
  /\ UNCHANGED <<state, mode, draftVars, eventSet, attempts, listenTask,
                 lineVars, asker, pc, waitsOn, owed, ghostVars>>

\* _disconnect: close() returned, and whatever _ws is by now is forgotten.
Disconnected(c) ==
  /\ c \in Closing
  /\ closing' = [closing EXCEPT ![c] = @ - 1]
  /\ conn' = [conn EXCEPT ![c] = "closed"]
  /\ Silent(c)
  /\ ws' = None
  /\ UNCHANGED <<state, mode, draftVars, eventSet, attempts, listenTask,
                 lineVars, asker, pc, waitsOn, owed, ghostVars>>
--------------------------------------------------------------------------
(* Handlers of Bluetooth events, on the listener.                          *)

\* Mutant of start_call: chunks of the last call stay in the buffer.
MutStartCall ==
  /\ pc[Listener] = "ready"
  /\ ~onCall /\ call < MaxCalls
  /\ IF Closing = {} THEN UNCHANGED faults ELSE Suffer("late")
  /\ onCall' = TRUE
  /\ call' = call + 1
  /\ state' = "LISTENING"
  /\ text' = {}
  /\ attempts' = 0
  /\ eventSet' = FALSE
  /\ pc' = [pc EXCEPT ![call + 1] = "opening"]
  /\ UNCHANGED <<mode, ws, chunks, listenTask, conn, serviceVars, waitsOn,
                 closing, owed, draft, spoken>>

\* call_active -> start_call(contact): _connect begins as a task.
StartCall ==
  /\ pc[Listener] = "ready"
  /\ ~onCall /\ call < MaxCalls
  /\ IF Closing = {} THEN UNCHANGED faults ELSE Suffer("late")
  /\ onCall' = TRUE
  /\ call' = call + 1
  /\ state' = "LISTENING"
  /\ chunks' = {} /\ text' = {}
  /\ attempts' = 0
  /\ eventSet' = FALSE
  /\ pc' = [pc EXCEPT ![call + 1] = "opening"]
  /\ UNCHANGED <<mode, ws, listenTask, conn, serviceVars, waitsOn, closing,
                 owed, draft, spoken>>

\* end_call when the tasks in S are cancelled; a cancelled task only logs.
EndCallCancelling(S) ==
  /\ pc[Listener] = "ready"
  /\ \A c \in Conns : c = ws => closing[c] < MaxClosing
  /\ onCall' = FALSE
  /\ state' = "IDLE"
  /\ pc' = [s \in Strands |->
              IF s \in S /\ pc[s] \in Attending \cup Dialling THEN "done"
                                                          ELSE pc[s]]
  /\ owed' = [s \in Strands |-> IF s \in S THEN 0 ELSE owed[s]]
  /\ closing' = [c \in Conns |-> IF c = ws THEN closing[c] + 1 ELSE closing[c]]
  /\ UNCHANGED <<mode, ws, draftVars, eventSet, attempts, listenTask, call,
                 conn, serviceVars, waitsOn, ghostVars>>

\* Mutants of end_call: one of the two tasks is forgotten.
MutEndCallKeepsLoop == EndCallCancelling({call})
MutEndCallKeepsConnect == EndCallCancelling({listenTask})

\* call_ended -> end_call(): the latest receive loop and connect task are
\* cancelled, a task is left to close the connection.
EndCall == EndCallCancelling({listenTask, call})

\* sco_audio is passed on, or dropped by the two returns of feed_audio.
Feeding ==
  /\ pc[Listener] = "ready"
  /\ onCall
  /\ state \in {"LISTENING", "PROCESSING"}
  /\ ws # None

\* sco_audio -> feed_audio(pcm): appended to the service's input buffer.
FeedAudio ==
  /\ Feeding
  /\ conn[ws] = "open"
  /\ heard' = [heard EXCEPT ![ws] = call]
  /\ UNCHANGED <<state, mode, ws, draftVars, eventSet, attempts, listenTask,
                 lineVars, conn, answer, asker, pc, waitsOn, closing, owed,
                 ghostVars>>

\* ConnectionClosed in _send_event: the listener itself reconnects.
FeedAudioFails ==
  /\ Feeding
  /\ conn[ws] \in {"lost", "closed"}
  /\ IF pc[ws] \in Attending THEN Suffer("race") ELSE UNCHANGED faults
  /\ HandleDisconnect(Listener)
  /\ UNCHANGED <<mode, draftVars, eventSet, listenTask, lineVars, conn,
                 serviceVars, waitsOn, closing, owed, draft, spoken>>
--------------------------------------------------------------------------
(* Handlers of frontend actions.                                           *)

\* Mutant of approve_response: only while PROCESSING, as in AudioPipeline.
MutApproveResponse ==
  /\ state = "PROCESSING"
  /\ mode = "hitl"
  /\ chunks # {}
  /\ eventSet' = TRUE
  /\ LET released == {c \in Conns : pc[c] = "approval" /\ waitsOn[c] = call}
     IN  /\ pc' = [s \in Strands |-> IF s \in released THEN "released"
                                                       ELSE pc[s]]
         /\ draft' = [draft EXCEPT !.approved = @ \/ released # {}]
         /\ waitsOn' = [c \in Conns |-> IF c \in released THEN 0 ELSE waitsOn[c]]
  /\ UNCHANGED <<state, mode, ws, draftVars, attempts, listenTask, lineVars,
                 conn, serviceVars, closing, owed, spoken, faults>>

\* approve_response: no look at the state, the draft or its text.
ApproveResponse ==
  /\ mode = "hitl"
  /\ chunks # {}
  /\ eventSet' = TRUE
  /\ LET released == {c \in Conns : pc[c] = "approval" /\ waitsOn[c] = call}
     IN  /\ pc' = [s \in Strands |-> IF s \in released THEN "released"
                                                       ELSE pc[s]]
         /\ draft' = [draft EXCEPT !.approved = @ \/ released # {}]
         /\ waitsOn' = [c \in Conns |-> IF c \in released THEN 0 ELSE waitsOn[c]]
  /\ UNCHANGED <<state, mode, ws, draftVars, attempts, listenTask, lineVars,
                 conn, serviceVars, closing, owed, spoken, faults>>

\* set_voice_mode; between calls it is no fault.
SetMode(m) ==
  /\ m # mode
  /\ mode' = m
  /\ IF state = "IDLE" /\ chunks = {} THEN UNCHANGED faults ELSE Suffer("mode")
  /\ UNCHANGED <<state, ws, draftVars, eventSet, attempts, listenTask, lineVars,
                 conn, serviceVars, pc, waitsOn, closing, owed, draft, spoken>>
--------------------------------------------------------------------------
(* The receive loop of connection c.                                       *)

\* The loop has taken a message off the connection, in a call.
Receives(c) ==
  /\ pc[c] = "recv" /\ conn[c] = "open"
  /\ state # "IDLE"
  /\ heard[c] # 0

\* Any message while IDLE ends the loop; the connection is left as it is.
BreaksWhenIdle(c) ==
  /\ pc[c] = "recv" /\ conn[c] = "open"
  /\ state = "IDLE"
  /\ pc' = [pc EXCEPT ![c] = "done"]
  /\ UNCHANGED <<state, mode, ws, draftVars, eventSet, attempts, listenTask,
                 lineVars, conn, serviceVars, waitsOn, closing, owed, ghostVars>>

\* ConnectionClosedError.
LoopSevered(c) ==
  /\ pc[c] = "recv" /\ conn[c] = "lost"
  /\ HandleDisconnect(c)
  /\ UNCHANGED <<mode, draftVars, eventSet, listenTask, lineVars, conn,
                 serviceVars, waitsOn, closing, owed, ghostVars>>

\* ConnectionClosedOK ends the iteration: no reconnection, _ws is kept.
LoopEnds(c) ==
  /\ pc[c] = "recv" /\ conn[c] = "closed"
  /\ pc' = [pc EXCEPT ![c] = "done"]
  /\ UNCHANGED <<state, mode, ws, draftVars, eventSet, attempts, listenTask,
                 lineVars, conn, serviceVars, waitsOn, closing, owed, ghostVars>>

OnSpeechStarted(c) ==
  /\ Receives(c)
  /\ state' = "LISTENING"
  /\ UNCHANGED <<mode, ws, draftVars, eventSet, attempts, listenTask, lineVars,
                 conn, serviceVars, pc, waitsOn, closing, owed, ghostVars>>

\* The service has heard an utterance out and begins the next answer, which
\* may be before the last one is delivered.
OnSpeechStopped(c) ==
  /\ Receives(c)
  /\ \E a \in Answers :
       /\ asker[a] = 0 /\ \A b \in Answers : asker[b] = 0 => a <= b
       /\ asker' = [asker EXCEPT ![a] = heard[c]]
       /\ answer' = [answer EXCEPT ![c] = @ \cup {a}]
  /\ state' = "PROCESSING"
  /\ UNCHANGED <<mode, ws, draftVars, eventSet, attempts, listenTask, lineVars,
                 conn, heard, pc, waitsOn, closing, owed, ghostVars>>

\* An audio delta and its transcript delta.  An error of send_command is
\* caught here, so that audio may be lost.
OnDelta(c) ==
  /\ Receives(c)
  /\ \E a \in answer[c] :
       /\ text' = text \cup {a}
       /\ \/ /\ mode = "autonomous"
             /\ state' = "SPEAKING"
             /\ spoken' \in {spoken, spoken \cup {<<a, call, "live">>}}
             /\ UNCHANGED chunks
          \/ /\ mode = "hitl"
             /\ chunks' = chunks \cup {a}
             /\ UNCHANGED <<state, spoken>>
  /\ UNCHANGED <<mode, ws, eventSet, attempts, listenTask, lineVars, conn,
                 serviceVars, pc, waitsOn, closing, owed, draft, faults>>

\* response.done takes an answer off those being delivered.
Delivered(c) == \E a \in answer[c] : answer' = [answer EXCEPT ![c] = @ \ {a}]

\* response.done in hitl mode with audio buffered: the draft is shown, the
\* event cleared, and the loop waits inside the handler.
OnResponseDrafted(c) ==
  /\ Receives(c) /\ Delivered(c)
  /\ mode = "hitl" /\ chunks # {}
  /\ draft' = [text |-> text, approved |-> FALSE]
  /\ eventSet' = FALSE
  /\ waitsOn' = [waitsOn EXCEPT ![c] = call]
  /\ pc' = [pc EXCEPT ![c] = "approval"]
  /\ UNCHANGED <<state, mode, ws, draftVars, attempts, listenTask, lineVars,
                 conn, heard, asker, closing, owed, spoken, faults>>

\* response.done otherwise; the buffer is not looked at.
OnResponseDone(c) ==
  /\ Receives(c) /\ Delivered(c)
  /\ mode # "hitl" \/ chunks = {}
  /\ text' = {}
  /\ state' = "LISTENING"
  /\ UNCHANGED <<mode, ws, chunks, eventSet, attempts, listenTask, lineVars,
                 conn, heard, asker, pc, waitsOn, closing, owed, ghostVars>>

\* wait() returned: SPEAKING, whatever happened since.
FlushBegins(c) ==
  /\ pc[c] = "released"
  /\ state' = "SPEAKING"
  /\ pc' = [pc EXCEPT ![c] = "flush"]
  /\ UNCHANGED <<mode, ws, draftVars, eventSet, attempts, listenTask, lineVars,
                 conn, serviceVars, waitsOn, closing, owed, ghostVars>>

\* One buffered chunk goes out, unless the state is no longer SPEAKING.
FlushChunk(c) ==
  /\ pc[c] = "flush" /\ state = "SPEAKING"
  /\ \E a \in chunks :
       LET how == IF a \in draft.text /\ draft.approved THEN "approved"
                                                       ELSE "unseen"
       IN  spoken' = spoken \cup {<<a, call, how>>}
  /\ UNCHANGED <<state, mode, ws, draftVars, eventSet, attempts, listenTask,
                 lineVars, conn, serviceVars, pc, waitsOn, closing, owed, draft,
                 faults>>

\* Mutant of _on_response_done: the buffer is not emptied.
MutFlushEnds(c) ==
  /\ pc[c] = "flush"
  /\ text' = {}
  /\ state' = "LISTENING"
  /\ pc' = [pc EXCEPT ![c] = "recv"]
  /\ UNCHANGED <<mode, ws, chunks, eventSet, attempts, listenTask, lineVars,
                 conn, serviceVars, waitsOn, closing, owed, ghostVars>>

\* The flush is over or broken off.
FlushEnds(c) ==
  /\ pc[c] = "flush"
  /\ chunks' = {} /\ text' = {}
  /\ state' = "LISTENING"
  /\ draft' = [text |-> {}, approved |-> FALSE]
  /\ pc' = [pc EXCEPT ![c] = "recv"]
  /\ UNCHANGED <<mode, ws, eventSet, attempts, listenTask, lineVars, conn,
                 serviceVars, waitsOn, closing, owed, spoken, faults>>

\* send_command raised: the loop takes that for a disconnection, too.
FlushFails(c) ==
  /\ pc[c] = "flush" /\ state = "SPEAKING"
  /\ Suffer("bridge")
  /\ HandleDisconnect(c)
  /\ UNCHANGED <<mode, draftVars, eventSet, listenTask, lineVars, conn,
                 serviceVars, waitsOn, closing, owed, draft, spoken>>
--------------------------------------------------------------------------
(* The connection ends at the other side.                                  *)

ConnectionLost(c) ==
  /\ conn[c] = "open"
  /\ conn' = [conn EXCEPT ![c] = "lost"]
  /\ Silent(c)
  /\ UNCHANGED <<state, mode, ws, draftVars, eventSet, attempts, listenTask,
                 lineVars, asker, pc, waitsOn, closing, owed, ghostVars>>

ServiceCloses(c) ==
  /\ conn[c] = "open" /\ c \notin Closing
  /\ Suffer("bye")
  /\ conn' = [conn EXCEPT ![c] = "closed"]
  /\ Silent(c)
  /\ UNCHANGED <<state, mode, ws, draftVars, eventSet, attempts, listenTask,
                 lineVars, asker, pc, waitsOn, closing, owed, draft,
                 spoken>>
--------------------------------------------------------------------------
Dial(s) ==
  \/ Redial(s)
  \/ Opened(s)
  \/ OpenedWithin(s)
  \/ OpenFailed(s)

\* A receive loop at work on what it has.
Loop(c) ==
  \/ LoopSevered(c)
  \/ LoopEnds(c)
  \/ FlushBegins(c)
  \/ FlushEnds(c)

\* The service delivers the end of an answer it began.
AnswerEnds(c) ==
  \/ OnResponseDrafted(c)
  \/ OnResponseDone(c)

Next ==
  \/ StartCall
  \/ EndCall
  \/ FeedAudio
  \/ FeedAudioFails
  \/ ApproveResponse
  \/ \E m \in Modes : SetMode(m)
  \/ \E s \in Strands : Dial(s) \/ SetupRefused(s)
  \/ \E c \in Conns :
       \/ Disconnected(c)
       \/ Loop(c)
       \/ AnswerEnds(c)
       \/ BreaksWhenIdle(c)
       \/ OnSpeechStarted(c)
       \/ OnSpeechStopped(c)
       \/ OnDelta(c)
       \/ FlushChunk(c)
       \/ FlushFails(c)
       \/ ConnectionLost(c)
       \/ ServiceCloses(c)

Spec == Init /\ [][Next]_vars

\* The event loop runs every strand: sleeps end, connections are opened or
\* refused, the service ends the answers it begins, close() returns.
Runs(s) ==
  \/ Dial(s)
  \/ s \in Conns /\ (Loop(s) \/ AnswerEnds(s))

FairSpec ==
  /\ Spec
  /\ \A s \in Strands : WF_vars(Runs(s))
  /\ \A c \in Conns : WF_vars(Disconnected(c))

\* A user at the screen answers a draft that waits, while answering helps.
Approvable ==
  /\ \E c \in Conns : pc[c] = "approval" /\ waitsOn[c] = call
  /\ ApproveResponse

\* And the phone keeps sending audio, so that a send fails where one must.
AttendedSpec == FairSpec /\ WF_vars(Approvable) /\ WF_vars(FeedAudioFails)
--------------------------------------------------------------------------
(* Properties.                                                             *)

\* No fault but those in F.
Only(F) == faults \subseteq F

\* One session at a time: only the connection in _ws is read, in a call, and
\* none is open but it and those being closed, unless a fault makes two tasks
\* reconnect or lets _disconnect forget the next call's connection.
OneSession ==
  Only({"mode", "bye"}) =>
    \A c \in Conns :
      /\ pc[c] \in Attending => ws = c /\ state # "IDLE"
      /\ conn[c] = "open" => ws = c \/ c \in Closing

\* What is spoken in a call answers what was said in that call: no connection,
\* receive loop or buffered chunk carries an answer over to the next caller.
AnswersItsCaller ==
  Only({"mode", "bye"}) => \A p \in spoken : asker[p[1]] = p[2]

\* Buffered audio goes on the air only if its transcript was in the draft on
\* the screen and that draft was approved, over reconnections and calls; a
\* switch of the mode in a call breaks this, as chunks stay in the buffer.
ShownBeforeSpoken ==
  Only({"bye"}) => \A p \in spoken : p[3] # "unseen"

\* A receive loop that waits for approval has audio buffered and awaits the
\* event of the present call, whatever reconnections and mode switches were in
\* between, so that approve_response in hitl mode releases it.  It does not
\* when the mode is autonomous: see DraftAnswered.
DraftReleasable ==
  Only({"mode", "bye"}) =>
    \A c \in Conns : pc[c] = "approval" => chunks # {} /\ waitsOn[c] = call

\* What the interface promises, whichever pipeline is behind it.
Said == {<<p[1], p[2]>> : p \in spoken}
VL == INSTANCE VoiceLine WITH
        Queries <- Answers, inCall <- (state # "IDLE"), caller <- call,
        asked <- asker, said <- Said

\* Connections, reconnections, buffers and receive loops together implement
\* VoiceLine: only start_call ends IDLE, once per call; in IDLE nothing is
\* asked or put on the air, by whatever late task of a call that was hung up
\* or given up; and what is put on the air was asked in this call.
ServesTheLine ==
  VL!Init /\ [][Only({"mode", "bye"})' => [VL!Next]_(VL!vars)]_vars

\* The Bluetooth listener comes back to its events, hangups among them, even
\* when feed_audio made it reconnect and whatever else fails, unless sessions
\* are refused for ever: a connection that opens sets the attempts back to 0
\* before its setup fails.
ListenerReturns ==
  \/ []<><<\E s \in Strands : SetupRefused(s)>>_vars
  \/ pc[Listener] # "ready" ~> pc[Listener] = "ready"

\* A draft that waits is answered in the end if the user comes back to hitl
\* mode for good; in autonomous mode approve_response ignores it and the
\* connection is not read, for as long as the call lasts.
DraftAnswered ==
  <>[](mode = "hitl") =>
    \A c \in Conns :
      pc[c] = "approval" /\ Only({"mode", "bye"})
        ~> pc[c] # "approval" \/ ~Only({"mode", "bye"})

\* The caller is heard: a connection is open and its receive loop is reading.
Hears == ws # None /\ conn[ws] = "open" /\ pc[ws] = "recv" /\ state # "SPEAKING"

\* In a hitl call a caller is heard again or the call is given up, after a
\* connection that fails or drops at any point and every draft.
HeardAgain ==
  onCall /\ Only({"bye"}) /\ mode = "hitl"
    ~> Hears \/ state = "IDLE" \/ ~Only({"bye"}) \/ mode # "hitl"

\* Once the call is over no connection to the service stays open.
HangupCloses ==
  state = "IDLE" /\ Only({"mode", "bye"})
    ~> \/ state # "IDLE" \/ ~Only({"mode", "bye"})
       \/ \A c \in Conns : conn[c] # "open"

\* Violated: the pipeline gets over a connection that drops while it speaks
\* (_handle_disconnect reconnects and leaves SPEAKING, in which feed_audio
\* drops everything the caller says).
AnswerOver == state = "SPEAKING" ~> state # "SPEAKING"
==========================================================================
