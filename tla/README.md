# A TLA+ model of osmPhone

osmPhone makes a Mac look like a Bluetooth headset to a phone and lets speech
and language engines answer calls and text messages. This directory holds TLA+
modules that model its core logic, TLC configurations that check them on small
instances, and TLAPS proofs of the properties that matter most.

    tlc -config PipelineSafety.cfg MCAudioPipeline.tla      # one run
    tlapm AudioPipelineProofs.tla                           # proofs; also of
                                # VadStream, RealtimePipeline, OsmCore, RfcommSlc

`PROJECT.json` lists components, runs, findings, hazards and theorems, and maps
each definition to the source lines it models.

## 1. Inventory

Two processes, joined by a Unix socket carrying one JSON object per line.

| component | source | state | operations |
|---|---|---|---|
| voice pipeline | `osm_core/audio/pipeline.py` | state, mode, audio buffer, history, pending reply, approval event, process task | start_call, end_call, feed_audio, approve_response, set_mode, `_run_pipeline` |
| VAD | `osm_core/audio/vad.py` | in-speech flag, speech and silence counters | process, reset; get_speech_segments offline |
| realtime pipeline | `osm_core/audio/realtime.py` | state, websocket, connect and listen tasks, pending chunks, attempts | the same interface plus connect, disconnect, receive loop, reconnect |
| settings | `config.py`, `create_engine` of `stt`, `llm`, `tts` | none | load_config, from_dict, apply_env, the choice of engines and their keys |
| core wiring | `osm_core/main.py`, `bt_bridge.py` | reader, writer, running flag, handlers | connect, listen, run, send_command, signal handling |
| frontend server | `osm_core/ws_server.py` | clients, action handlers | broadcast, broadcast_sync, client loop |
| SMS | `osm_core/sms/handler.py`, `conversation.py` | SQLite table of messages | handle_sms_event, add_message, get_history, approve_sms |
| IPC server | `OsmBT/SocketServer.swift` | one client socket, read buffer | accept, read, sendEvent, stop |
| RFCOMM controller | `OsmBT/RFCOMMHandsFreeController.swift` | channel, SLC state, AT buffer, indicators | connect, disconnect, SLC steps, CIEV, CLIP, keep-alive |
| IOBluetooth controller | `OsmBT/HandsFreeController.swift` | device, timers, attempts, intent flags | connect, disconnect, callbacks, scheduleReconnect |
| pairing | `OsmBT/BluetoothManager.swift` | current pairing | pair, confirm, callbacks, automatic confirmation |
| app | `OsmBT/main.swift`, `SMSController.swift` | the controllers above | command dispatch |
| resampler | `audio/resampler.py` | none | a pure function |

The React frontend is not in the repository. What the engines (`stt`, `llm`,
`tts`) do beyond choosing a service and a key, `Protocol.swift`,
`HCIDeviceClass.swift`, `SCOAudioBridge.swift` (a stub) and the scripts carry no
logic of their own.

**How they interact.** The Swift side turns callbacks of the Bluetooth stack
into events: `call_active`, `call_ended`, `sco_audio`, `hfp_disconnected`,
`sms_received`... The Python listener reads them in order and awaits the handlers
of each before it reads the next. Frontend actions arrive on one websocket task
per client. Both kinds of handler call into the pipeline, which also runs one
asyncio task per utterance. Everything in Python shares one event loop: code
between two awaits is atomic, and anything may happen across an await.

**Hard behaviours.** Answers outlive the moment they were asked for: STT, LLM,
approval and TTS take seconds, while calls end, links drop, modes change and
approvals arrive. Fields shared by all tasks (pending reply, history, approval
event, state) are written before an await and read after it. Only the latest
task is remembered for cancellation. On the Swift side, callbacks and timers of
an old connection meet the state of a new one. The list in `PROJECT.json` names
each hazard with its line.

**What makes each component correct.**
- *Pipeline*: one turn at a time; a caller hears answers to their own words only;
  a draft is spoken only after approval; after a hangup nothing happens; nobody
  is left waiting for ever.
- *VAD*: a boundary is reported exactly when a pause follows real speech.
- *Realtime*: one connection per call, none after it; an approved reply only.
- *Listener*: every event handled in order, none held up by another subsystem;
  a termination signal ends the process.
- *Frontend channel*: a client's picture of the call converges to the real one.
- *SMS*: what was sent is recorded; the prompt holds the message to answer.
- *IPC*: commands of a replaced client do nothing; no event to a dead socket.
- *SLC*: negotiation ends, one per channel; state belongs to the channel that is
  open.
- *Reconnect, pairing*: no attempt after the user disconnected; the user's
  answer wins.

## 2. Modules

### Vad
Operators on a record of SimpleVAD's three streaming fields. A frame is
"speech", "silence" or "empty", the outcome of the energy comparison; thresholds
are computed from milliseconds as `__init__` does. `_speech_frames` saturates at
the threshold, the only value it is compared with.

### VadStream
SimpleVAD over an arbitrary stream, with the frames heard since the last reset
or boundary as a history variable. The reference (`HasOnset`, `EndsInPause`,
`IsUtterance`) is a definition on recordings that knows nothing of counters.

### AudioPipeline
The voice pipeline. Handlers are one action each; `_run_pipeline` is cut at its
awaits, and `pc[t]` says in which one task `t` is suspended:

| action | code from await to await |
|---|---|
| `Transcribed` | `transcribe` returns, user text appended, `generate` called |
| `Generated` | `generate` returns in autonomous mode: stored, appended, SPEAKING, TTS started |
| `Drafted` | `generate` returns in hitl mode: stored, appended, draft shown, event cleared, waiting |
| `Resumed` | `wait()` returns: SPEAKING, TTS started on whatever reply is pending |
| `InjectChunk`, `Spoken` | a chunk goes out; the stream ends, LISTENING |
| `Failed` | an engine or `send_command` raises: LISTENING |
| `Cancelled` | CancelledError is delivered: logged only |

asyncio facts the cut relies on: a task that was cancelled gets CancelledError
at its next step, whatever it awaited and even if that had completed, so
"cancelling" allows nothing but `Cancelled`; `Event.set()` releases the tasks
waiting at that moment for good ("released"), and a later `clear()` does not
take it back; a task keeps waiting on the event object it found, so an event is
named by the call whose `start_call` created it; awaiting `vad.process` never
suspends, so `feed_audio` is atomic.

Texts are named by the task that produced them and audio by the call it was
recorded in. Broadcasts are output that nothing in the module reads, and are
left out. `owner`, `approved` and `injected` are history variables: no guard
reads them.

The environment is the phone. `HangupReported` says whether each `call_active`
is paired with a `call_ended`. It is not always: `rfcommChannelClosed` reports
`hfp_disconnected` only, which `main.py` forwards to the frontend and not to the
pipeline, and osm-bt may die. `LinkLost` is that case.

### VoiceCall
The state machine of pipeline.py's docstring as an abstract specification, with
the caller and the turn being answered and no tasks, engines or events.
`AudioPipeline` instantiates it as `VC`, with `turn` mapped to the current task
while PROCESSING or SPEAKING, and `TakesTurns` is `VC!Spec`.

### VoiceLine
What both pipelines promise, as realtime.py:14 says that main.py can swap between
them: one call at a time, and what is put on the air in a call answers something
asked in that call. It knows no turns, which the speech service need not take:
it may be asked again while it speaks. `RealtimePipeline` instantiates it as `VL`,
with a query for each answer of the service and a call as long as the state is
not IDLE; `ServesTheLine` says that every step is a step of `VL` or a stutter, up
to the first fault that breaks it. `AudioPipelineProofs` instantiates it with a
query for each task.

### RfcommSlc
The hands-free link of osm-bt. Callbacks, the keep-alive timer and commands of
osm-core all run on the main run loop, so each handler is one action;
`processATResponse` has one operator per state it switches on. The environment
is the Bluetooth stack (channels open, are rejected, get lost, and their close
callback comes later) and the phone (answers, refuses, rings, changes an
indicator).

| model | code |
|---|---|
| `rfcommChannel`, `slcState`, `indicatorNames`, `indicatorValues`, `atBuffer`, `keepAlive` | the properties of that name |
| `threeWay` | `agFeatures & 0x01`, the only bit that is read |
| `up`, `told` | the last of hfp_connected / hfp_disconnected, and the last call event since, sent to osm-core |
| `link`, `asked`, `wire`, `phone`, `reporting` | environment: channel life, commands and lines in flight, the phone's indicators and whether it reports them |

A line is its result code with the values it carries; `to`, the command it
answers, is read by properties only: nothing in an OK says what it answers, and
that is the point of several of them. A link that was closed may open again, so
two links stand for any number of successive connections and never more than two
at a time.

Text is cut into lines as the Swift code cuts it. A `String` is a sequence of
grapheme clusters and CR LF is one of them, equal to neither `"\r"` nor `"\n"`, so
a line is found only where a CR or an LF stands alone: bare breaks, or a packet
that ends between the two. The phones in `Crlf` send their line ends together:
their text only grows in the buffer (`ReceiveCRLF`), and is handled glued
together when a lone break of another connection arrives (`Glued`).

`disconnect` may come while a channel is still being opened; the completion that
follows is taken like any other and starts a negotiation, so such a link is
"abandoned" and may yet be adopted.

Constants name the regimes: `Overlap` (a channel may open before the previous
one was reported closed), `EagerUser` (call commands before hfp_connected, which
the frontend can send at any time), `Fragmented` (a packet may end before the
line does), `Crlf`, and `Refusable` (commands answered with ERROR). An *orderly*
session has none of the first three, whatever ends the lines of its phones.

### RealtimePipeline
The same call, answered by a speech service behind one websocket. The strands
of execution are what can be suspended at an await: the Bluetooth listener,
which awaits `start_call`, `end_call` and `feed_audio` one by one and so also
reconnects inside `feed_audio`; one task per call running `_connect`; one receive
loop per connection, named by it; the receive loops started on a connection that
has one (`Extras`); and the tasks in `_disconnect`, counted per connection as two of
them may close the same one (`closing`).

| model | code |
|---|---|
| `StartCall`, `EndCall`, `FeedAudio`, `FeedAudioFails`, `ApproveResponse`, `SetMode` | the handlers; `EndCall` cancels the latest receive loop and the connect task |
| `HandleDisconnectAfter`, `Redial` | `_handle_disconnect` up to its sleep, and after it |
| `Opened`, `OpenFailed`, `SetupRefused`, `OpenedWithin` | `_connect`: websockets.connect returns or raises; `session.update` fails and reconnects inside `_connect`, with the attempts set back to 0, so again and again; `owed` counts the calls of `_connect` around the present one, each of which starts a receive loop when it is back |
| `LoopSevered`, `LoopEnds`, `BreaksWhenIdle` | the three ways the receive loop ends |
| `OnSpeechStarted` ... `OnResponseDone` | one event of the service each; a delta and its transcript delta are one |
| `OnResponseDrafted`, `FlushBegins`, `FlushChunk`, `FlushEnds`, `FlushFails` | `_on_response_done` in hitl mode, cut at its awaits |
| `Disconnected` | `close()` returned: `_ws` is set to None whatever it is by now |

An answer of the service is a number, and so are the audio and text that belong
to it; a connection may deliver several, as the caller may speak again while an
answer is on its way. Connections that fail or drop at any time are part of every behaviour.
What else goes wrong is recorded in `faults`, so that a property can say which
faults it survives: a mode switch in a call, a send that notices a lost
connection before the receive loop does, refused setups, a normal close by the
service, osm-bt gone during a flush, and a call begun before the last
connection is closed. Here each `call_active` is followed by a `call_ended`; the
line that loses one is in AudioPipeline.

### Settings
`load_config` and the factories of the engines as operators on a configuration,
a function from field names to strings: which file is read, defaults under
file under environment, the key of the language model handed to `stt` and `tts`,
the errors, and the key each engine presents.

### OsmCore
osm-core around the pipeline: start-up with Settings, the listener with its
socket to osm-bt, the frontends, SMS replies and the conversation store,
termination signals. One main task reads one event and runs its handler to the
end: `core` is where it is, `"llm"` while an SMS waits for the language model,
`"telling"` while a broadcast waits for a client that does not drain
(`slow`, `awaiting`). `pipe` is what osm-bt sent and the listener has not read.
Of the pipeline only `inCall` is kept, of a prompt nothing. `unheard` is a history
variable: the newest call or hangup of the phone was lost, because osm-core had no
connection then or gave up the reader it was in. A text is its number and so is the reply
to it; 0 is a text the user wrote. `news` and `drafts` record what each client was
told. `Startups` are the files and environments `load_config` may find, the
environment being the user's; `BtDies` and `BtStarts` are osm-bt.

asyncio facts relied on: `listen` catches CancelledError, and as `_running` is
still set `run` goes on to its pause, so a signal ends the process only outside
`listen` (`Signal`); a send to a client waits for its buffer to drain, and the
keepalive of the library drops clients that never do; a reader that
is replaced takes what it held with it.

### MC modules and proofs
MCAudioPipeline, MCRfcommSlc, MCRealtime and MCOsmCore hold the symmetry set,
the indicator lists and the start-ups for TLC. VadStreamProofs,
AudioPipelineProofs, RealtimePipelineProofs, OsmCoreProofs and RfcommSlcProofs
hold the proofs, VadProofs the lemmas on the detector that two of them share.

## 3. Runs

| run | shows |
|---|---|
| `vad_stream` | the detector agrees with the reference: in speech exactly after an onset, a boundary exactly on the frame that completes a pause, none missed or early; get_speech_segments returns the loud stretches by definition, and both interfaces agree on clicks |
| `pipeline_safety` | with reported hangups: turns, caller, approval, history, silence after hangup, and refinement of VoiceCall |
| `pipeline_attended` | on a line that loses hangups: no stranded phase and no foreign audio, every utterance taken up ends, in hitl mode with a user who answers |
| `pipeline_link_loss` (violation) | an old answer takes the pipeline out of IDLE |
| `realtime_calls` | connections that fail or drop at any moment, and one further fault: one session, answers for the caller who asked, audio only of approved drafts, waits that await the present call's event, and refinement of VoiceLine, with silence after the hangup; the listener returns unless sessions are refused for ever, a waiting draft is answered once the mode is hitl for good, the caller is heard again, connections are closed |
| `realtime_reconnect` (violation) | a connection that drops while it speaks leaves SPEAKING for good |
| `core_events` | 480 combinations of file and environment, one death of osm-bt, one signal: keys; pipeline and frontends in step with the phone unless the newest news was lost; the conversation; hangups heard, osm-bt found again |
| `core_signal` (violation) | a signal to a listener that reads does not end the process |
| `slc_session` | orderly sessions with two phones that list indicators in different orders and refuse commands, and a third whose CR LF lines stay in the buffer: answers meet the state that waits for them, the list is this phone's, call events are true, one hfp_connected per connection |
| `slc_live` | one channel at a time, commands at any time, cut packets and one CR LF phone: a phone of bare breaks that accepts every command is negotiated with to the end; a stack that calls back makes the end of every connection be reported |
| `slc_overlap` (violation) | a late close ends the session of another channel |
| `slc_crlf` (violation) | lines that end in CR LF are never found |

**Bounds.** `Tasks` bounds utterances and `MaxCalls` calls. Three utterances in
two calls let one answer be pending, one be replaced and one be new, which is
what every shared field needs to be confused; properties relate at most two
tasks and two calls. The safety runs use two-frame thresholds (60 ms of 30 ms
frames) so that clicks and short pauses occur; the others use one frame. When
task identities run out a further utterance cannot end; the audio before it still
flows. `MaxHeard = 8` fits an onset, a false pause, more speech and the final
pause of a 2-frame/3-frame detector. Task identities are symmetric in the
safety runs; the liveness runs use no symmetry. In every reachable state a
mode switch or `call_ended` is possible, so deadlock checking is left on and is
not where stuck behaviour shows: `NeverStranded` and the liveness runs are.

For the speech service two connections in two calls let one be left over, or
two belong to one call; two answers let one be buffered while another is asked,
on one connection or on two. `MaxAttempts = 1` reaches the limit on reconnections
with the connections there are; `MaxFaults = 1` is one kind of fault at a time, any
number of times. Refused setups use up no connection and repeat without bound;
`Extras` bounds only how many of them are counted, that is, how many further
receive loops the connection gets that opens in the end: one is enough to have
two loops on it. `MaxClosing = 2` lets two `_disconnect` tasks close one
connection. Connections run out: an attempt that finds none left can only be
refused or fail, which the code takes in the same way. `ListenerReturns` is
therefore about the reconnections of two connections and any number of refusals.

In osm-core three events let two of one kind meet a third, as a call and its end
with a text between them, or a call, its lost end and the news that puts it
right. One client
suffices, as properties relate a client to the pipeline and not to another
client; one death and one signal put an interruption at every point. All
start-ups combine two ways to name the file, three sets of files, five contents,
an empty section or none and eight environments. The process may end, so
deadlock is not checked there.

For the link, two channels are enough to have one given up and one in use, and
closed ones are reused without limit; a third in `slc_session` is the phone whose
text is left in the buffer for either of them. `MaxInFlight` bounds what user, timer and
phone add to a channel that already has commands or lines on their way (answers
are not held back): two lets a report or a command meet an answer in either
order. Two indicators in two orders tell a
wrong list from a right one; where no property reads them there is one. The
system never stops: a closed channel may always open.

**Fairness.** AudioPipeline's `FairSpec` assumes weak fairness of each task's
progress: engine calls return or raise, TTS streams are finite, the loop runs
what is ready. The engines' clients have timeouts or run locally. Nothing is assumed of the phone,
the caller or the mode switch. `AttendedSpec` adds a user who answers a draft
that an approval can release. RealtimePipeline's `FairSpec` is weak fairness of each strand and of `close()`: sleeps end, connections
are opened or refused (the client has an opening timeout), the service ends the
answers it begins. Its `AttendedSpec` adds a user who approves and a phone that
keeps sending audio, which is what makes a send fail where one must. OsmCore's
assumes that the main task goes on (the model answers or its client times out),
that a stalled client drains or is dropped by the keepalive, and that osm-bt is
started again; not that anybody calls, writes or connects. RfcommSlc's `FairSpec` assumes that the stack
delivers callbacks and data and that the phone answers commands, and nothing of
the user, the timer or the radio.

## 4. Findings

Each has a run that ends in a counterexample.

1. **A lost link lets an answer outlive its call** (`IdleUntilCall`). The next
   `start_call` does not cancel the running task, `feed_audio` overwrites
   `_process_task`, `end_call` cancels the newer one only, and the older sets
   LISTENING or SPEAKING with no call. The same sequence breaks
   `AnswersItsCaller` and `SpokenAfterApproval`, which hold on paired lines.
2. **A drop while speaking deafens the call** (`AnswerOver`). `_handle_disconnect`
   reconnects but leaves `state` at SPEAKING. `response.done` of the lost answer
   never comes, `feed_audio` drops everything in SPEAKING, so the new session
   hears nothing and answers nothing until the call ends.
3. **A signal does not stop a listener that reads** (`SignalStops`).
   TEST_PLAN.md:348 expects a clean exit. `listen` swallows the cancellation,
   `run` sleeps and reconnects; only a second signal, in that pause, gets through.
4. **CR LF hides every line** (`HfpNegotiationEnds`). The loop in
   `rfcommChannelData` compares Characters with `"\r"` and `"\n"`; HFP result codes
   end in CR LF, which is one Character and neither. Unless a packet happens to
   end between the two, no answer is handled or even logged, which from outside
   is a phone that does not respond, as README.md:326 describes it.
5. **A late close ends the wrong session** (`DisconnectedMeansLost`).
   `rfcommChannelClosed` ignores which channel closed.

Further disagreements, read in the code while modelling it:

- A switch to autonomous strands a waiting draft, in either pipeline:
  `approve_response` requires `mode == "hitl"` and `set_mode` does not touch a waiting
  task; the realtime connection is not read meanwhile. The properties say what
  remains: `HitlAnswered` and `DraftAnswered`, that the draft is answered once the
  mode is hitl for good; `NeverStranded` and `DraftReleasable`, that the wait is for
  an event an approval in hitl mode sets. `TurnsEnd` and `HeardAgain` leave the
  switch out.
- A refused session is retried without end: `_connect` sets the attempts back to 0
  (realtime.py:170) before it sends `session.update`, so a service that accepts and
  closes is dialled for ever, inside `_connect` inside `_connect`, and the listener
  that began it in `feed_audio` does not come back. `ListenerReturns` says that
  this is the only way.
- A late `_disconnect` clears the next call's connection (realtime.py:189), which
  stays open and unread. `OneSession`, `ServesTheLine` and `HangupCloses` hold until
  the first one that is late.
- An automatic reply to an SMS is recorded before it is sent, and stays recorded
  when osm-bt is gone. `ThreadHasWhatLeft` allows this case and no other.
- An edited approval is spoken unedited: `approve_response` takes no text and only
  sets the event, so the reply is spoken as generated, though pipeline.py:12 says
  the user can edit it.
- `get_history` returns the oldest LIMIT messages, so beyond LIMIT the prompt no
  longer holds the text to answer, where UT-PY-001.11-01 (TEST_PLAN.md:203) expects the
  "LLM called with message + history".
- `call_active` is sent with `active: false` where ARCHITECTURE.md:146 has
  `{from, duration}`; UT-PY-001.1-03 expects a ValidationError that nothing
  raises; an empty section in the YAML file makes `load_config` raise
  (`LoadRaises`).
- The key of a language model of another provider is handed to `stt` and `tts`.
- Speech at 24 kHz is labelled 8000, and 8 kHz audio is given to recognition
  as 16000, the default of its parameter.
- A call that ends while osm-bt is down is never reported as ended, so the
  pipeline and the frontends stay in it until the next news: `CallsFollowPhone` and
  `HangupHeard` are stated but for news that was lost.
- With overlapping channels two negotiations share one state: when the phone opens
  a channel while our own open is in flight, both completions start one
  (lines 301-325, 561-575), and a late close clears the adopted channel, so that the
  open one is never negotiated. `NegotiationEnds` is for one channel at a time, and
  for phones that accept every command: an ERROR is ignored or logged and nothing
  times out. `disconnect` while a channel is being opened does not stop it: the
  completion negotiates on it (lines 259-268, 561-575).
- With `EagerUser` TRUE in `SlcSession.cfg`, `NamesOfThisPhone` fails: the OK of a
  call command sent before hfp_connected is taken for that of the pending
  command, and the list of names arrives a state too late and is parsed as
  values. With `Fragmented` TRUE, `CallTold` fails: `atBuffer` is not cleared
  between connections. And nothing reopens a lost link over RFCOMM: the fields
  for it (lines 66-68) are never read, though README.md:269 lists auto-reconnect
  as done.

## 5. Proofs

Every type invariant, safety invariant and action property of the passing runs
is stated by a theorem, and so are the refinements of VoiceCall and VoiceLine.

`VadStreamProofs` proves, for any thresholds and recordings of any length, that
the detector is the one the reference describes:

- `InSpeechMeansOnsetCorrect` and `BoundaryMeansUtteranceCorrect` from `DetectorInv`.
  The properties say what the flag means; the invariant says what each counter
  holds: out of speech, the length of the loud stretch the recording ends in;
  in speech, the length of the pause it ends in, and that no utterance has been
  completed. The lemmas on `Samples` (`SamplesAppend`, `LastRunAppend`, `OnsetAppend`)
  say how one more frame changes what the reference sees, `ProcessDetects` that
  one call of `process` keeps up with it.
- `SegmentsAreSpeechCorrect`: the loop of get_speech_segments returns exactly the
  loud stretches that are long enough. `ScanStep` is the loop's invariant (what
  is closed so far, and the stretch that is open), `ScanLoop` carries it to the
  end of the recording, `SegmentHasOnset` compares a segment's milliseconds with
  the detector's frames, past the integer division in the threshold.

Both folds run over data, where the induction theorems of the library cannot be
used. Their proofs take the least length at which the claim fails (`LeastElement`,
from well-foundedness of the naturals) and show the step before it: a fold is
replaced by the function of its partial results (`FoldExists`, `SamplesFold`,
`ScanFold`).

`AudioPipelineProofs` proves, for all values of the constants:

- `TypeCorrect`, `NeverStrandedCorrect` and `OwnAudioCorrect` on any line. Types need
  one fact beyond types, `ReplyStored`: whoever waits to speak has a reply stored.
  `NeverStranded` is inductive with types: a phase is left by the same step that
  takes away its last task. Audio needs no paired hangups: each way into a call
  empties the buffer (`AudioInv`), whoever is still alive from the last one.
- On a line that reports every hangup (`ASSUME HangupReported`): the inductive
  invariant `PairedInv`, and from it `OneTurn`, `AnswersItsCaller`,
  `SpokenAfterApproval`, `OwnHistory`, the action property
  `QuietAfterHangup`, and `TakesTurns`, the refinement of VoiceCall
  (`DocumentedStep`: one step, one transition or none). `ServesTheLineCorrect` takes
  it on to VoiceLine.

None of the safety properties is inductive. They talk of what was spoken, while
the danger is earlier, when a shared field is about to be used by the wrong
task. `TurnInv` is the root: at most the current task is live, and the phase
tells where it is. A call starts only from IDLE (hangups are paired), so with no
task live; an utterance is taken up only in LISTENING, again with none; a hangup
cancels the one there is. From it follow `OwnerInv` (a live task works for the
present call), `ReplyInv` (the pending reply is the waiting task's: nobody else is
in `generate`) and `ApprovalInv` (past the wait means approved, because drafting
clears the event). `SpokenInv` and `HistoryInv` keep what is recorded
of a task from changing later. There is one lemma per part, with one step per
action.

`RealtimePipelineProofs` proves, for any number of calls, answers, connections,
attempts and faults, `TypeCorrect` and all the safety properties of the run, each
in the regime it names:

- `OnlyOneSession` from `SessionInv`. "Only the connection
  in `_ws` is read" is not inductive: a task asleep in its back-off reads nothing
  yet and will open a connection later. The invariant therefore speaks of
  active strands, reading or dialling: there is at most one, it is one that
  `end_call` cancels or the listener itself, while it dials there is no
  connection, and in IDLE there is none. `DisconnectKeepsSession` is the lemma
  for every way into `_handle_disconnect`. A send racing the receive loop makes two
  strands dial, a refused setup starts two loops and a late `_disconnect`
  forgets a connection: these are the faults it excludes.
- `EveryAnswerHasItsCaller` from `CallerInv`: what a connection delivers and what
  is buffered was asked in the present call.
- `ServesTheLineCorrect`, the refinement of VoiceLine, from both. Out of a call no
  strand is active, so nothing is heard or said (`LineIdle`); in one, each step is a
  question of this caller, an answer to one, the end of the call or not seen
  (`LineInCall`). With AudioPipeline's theorem of that name this is the claim that
  either pipeline may stand behind the same handlers, on lines that report
  hangups and without the faults `Only` leaves out.
- `WaitsForThisCall` from `CallerInv` too, mode switches included: a loop that waits
  has something buffered, and awaits the event object of the present call.
- `EveryDraftIsShown` from `DraftInv`: whatever is buffered has its text beside it,
  and all of it was in the draft that a loop waits with, is released from or
  flushes.

`OsmCoreProofs` proves all invariants of `core_events`, for every number of
clients, events and interruptions, and for every file and environment in which no key is the placeholder the code itself puts in:

- `StartsWithTheKeys`, from lemmas on Settings for any configuration
  (`ApplyEnvKeys`, `ApplyEnvKeeps`).
- `CallsFollowThePhone` from `CallInv`. With events under way pipeline and phone
  differ; what is preserved is that, unless the newest was lost, the last news of a
  call in the pipe is how the phone is (`LastNews`), and with none there pipeline
  and phone agree (`NoNews`).
- `ConversationIsComplete` from `TextInv` and a lemma on counting messages.

`RfcommSlcProofs` proves, for any set of channels, lists and bounds:

- `TypeCorrect` and `SessionCorrect` in every regime: overlapping channels, cut
  packets and eager users included. `SessionInv` is no property of a run: it says
  what is left where two negotiations overlap, that a state has a channel and a
  connection its timer.
- `LineCorrect` and `ConnectedOnceCorrect` wherever channels do not overlap, eager
  users and cut packets included. `LineInv` says that there is one channel to look
  at and what a closed one leaves behind, `UpInv` that nobody was told of a
  connection while one is negotiated.
- For orderly sessions (`ASSUME Orderly`) the inductive invariant `OrderlyInv`, and
  from it `AnswersAwaited` and `NamesOfThisPhone`. That an OK
  answers the right command is not inductive: what keeps it so is that a channel
  holds one command or its one final result, never both and never two.
  `FlightInv` says this of the two queues together, `NamesInv` that the names precede
  the OK that ends their state. The lemmas on `Flight` and `NamesComing` say how a
  delivery, an answer and an unsolicited line change a queue; `ProcessShape`
  reduces the handling of a line to four outcomes.
- The phones of these sessions may end their lines in CR LF, and `atBuffer` is not
  cleared between connections, so a line of one phone can meet text another
  left. `BufferInv` says why that does no harm here: a phone of CR LF is never past
  the first state, so its text never begins with an OK, and the first break of
  another phone ends that text while the controller waits for +BRSF, where what is
  not an OK moves nothing. `OrderlyReceive` gives the ways a packet can arrive: a
  line handled at once, text that joins the buffer, a line that takes the place of
  what was left, and that line's own break. TLC found
  `OrderlyInv` and `ReportInv` to hold with no, one and two CR LF phones and with
  three channels before they were proved.

- `CallToldCorrect`, in the same sessions, from `OrderlyInv` and `ReportInv`. The
  property speaks of the moment when every report is delivered; what holds in
  between is that the last call report on the way gives the present value of the
  indicator and, with none on the way, what osm-core was told does
  (`TrueReports`). A report is read by the right list because the phone reports
  only after AT+CMER, which `FlightInv` puts after the names. And nothing that was
  told outlives its connection: a new channel begins with no call event.

The assumptions are those of `Vad`, `RfcommSlc`, `AudioPipeline`, `RealtimePipeline`
and `OsmCore` (positive frame duration and attempts, sentinels and strands that
differ from each other, approval texts are the draft or an edit, keys that are
not the placeholder), evaluated by TLC in every run. Liveness is only model-checked: fairness and
ENABLED are outside the prover.

## 6. What could follow

- The socket server of osm-bt with the bridge: replacement of a client, and
  commands of a replaced one.
- Pairing: the automatic confirmation timer against the user's answer.
- The order in which `broadcast_sync` and direct broadcasts reach a client.
- The link with cut packets, where `CallTold` fails: what it still promises.

## 7. Not modelled

- `HandsFreeController.swift`: main.swift:62 constructs it whatever `useRFCOMM` says,
  and with `useRFCOMM = true` `transfer_audio`, `send_dtmf`, SMSController and `stop()`
  still go through it. It is left out because it consists of calls into
  IOBluetoothHandsFreeDevice and its delegate callbacks, and neither the
  repository nor its tests say in which order the framework makes those; its
  reconnection attempts are therefore not checked.
- Pairing (`BluetoothManager.swift`) and the command dispatch of the Swift app:
  each handler is a call into the Bluetooth stack and one event back; their
  timers have hazards in the list and no property.
- `SocketServer.swift`: file descriptors and dispatch queues; OsmCore models the
  channel as the reader sees it.
- The resampler: its result depends on the rounding of floats.
- `SCOAudioBridge.swift`, a stub, and the scripts.
- Engine I/O over HTTP, sample values, message wording, logging, JSON encoding
  and the contents of audio. The length of an SCO packet: the detector counts
  frames of a nominal duration, whatever was fed. Segment bounds of
  get_speech_segments are exact here and floats in the code. The Bluetooth stack
  is an environment.
