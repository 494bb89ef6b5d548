------------------------------- MODULE OsmCore -------------------------------
(***************************************************************************)
(* osm-core around the voice pipeline: async_main, the Bluetooth listener  *)
(* (BTBridge), the frontend server (WSServer), SMS replies (SMSHandler)    *)
(* and the conversation store.                                             *)
(*                                                                         *)
(* One task runs BTBridge.run: it opens the socket of osm-bt, reads one    *)
(* event, runs its handler to the end, reads the next.  An SMS waits there *)
(* for the language model, a broadcast for the slowest frontend.  Actions  *)
(* of frontends run in tasks of their own.  SIGINT and SIGTERM cancel every*)
(* task; listen() takes the CancelledError for the end of the connection.  *)
(*                                                                         *)
(* Abstraction: one conversation; a text is its number, a reply to it has  *)
(* the same number, a text the user writes is 0; what the model is shown   *)
(* of the conversation is left out; of the pipeline only whether it is in  *)
(* a call, of what a frontend was told the last news of the call and the   *)
(* drafts.  Audio is left to the pipelines' modules.                       *)
(***************************************************************************)
EXTENDS Naturals, Sequences, FiniteSets, Settings

CONSTANTS
  Clients,     \* frontends
  None,
  Startups,    \* what load_config may find when the process starts
  MaxEvents,   \* bound on the events of the phone
  MaxWritten,  \* bound on the texts approved or written by users
  MaxDeaths,   \* bound on the ends of osm-bt
  MaxSignals   \* bound on SIGINT and SIGTERM

ASSUME CoreAssumption ==
  /\ None \notin Startups
  /\ MaxEvents \in Nat /\ MaxWritten \in Nat
  /\ MaxDeaths \in Nat /\ MaxSignals \in Nat
  /\ \A s \in Startups :   \* nobody configures the placeholder as a key
       /\ s.env \in [EnvNames -> STRING \ {Placeholder}]
       /\ \A f \in Fields \cap DOMAIN s.file.given :
            s.file.given[f] \in STRING \ {Placeholder}

VARIABLES
  core,        \* what the main task is at
  startup,     \* what load_config will find, None once it has run
  autonomous,  \* config.voice_mode.default = "autonomous"
  osmBt,       \* osm-bt runs (environment)
  link,        \* the socket to osm-bt: none yet, up, or its other end closed
  pipe,        \* events sent by osm-bt and not yet read
  hand,        \* the text being replied to, 0 if none
  thread,      \* ConversationStore: <<direction, text>> in order of insertion
  sent,        \* how often the reply to each text was handed to osm-bt
  inCall,      \* the pipeline was told of a call and not of its end
  clients,     \* self._clients
  slow,        \* clients that do not drain what they are sent
  awaiting,    \* clients the broadcast in progress still waits for
  news,        \* the last each client was told of a call (history)
  drafts,      \* the drafts each client was shown (history)
  onCall,      \* the phone has a call (environment)
  unheard,     \* the newest news of a call never got to the listener (history)
  events, texts, written, deaths, signals   \* counters for the bounds

phone == <<onCall, events, texts>>
sockets == <<osmBt, link, pipe, unheard>>
sms == <<hand, thread, sent>>
frontend == <<clients, slow, awaiting, news, drafts>>
counters == <<written, deaths, signals>>
vars == <<core, startup, autonomous, sockets, sms, inCall, frontend, phone,
          counters>>

Cores == {"boot", "failed", "opening", "retry", "read", "llm", "telling",
          "pause", "stopped"}
EventTypes == {"call_active", "call_ended", "sms_received", "forwarded"}
Event(type, n) == [type |-> type, n |-> n]
Texts == 0 .. MaxEvents

TypeOK ==
  /\ core \in Cores
  /\ startup \in Startups \cup {None} /\ autonomous \in BOOLEAN
  /\ osmBt \in BOOLEAN /\ link \in {"none", "up", "eof"}
  /\ pipe \in Seq([type : EventTypes, n : Texts])
  /\ hand \in Texts
  /\ thread \in Seq({"incoming", "outgoing"} \X Texts)
  /\ sent \in [Texts -> Nat]
  /\ inCall \in BOOLEAN /\ onCall \in BOOLEAN /\ unheard \in BOOLEAN
  /\ clients \subseteq Clients
  /\ slow \subseteq clients /\ awaiting \subseteq slow
  /\ news \in [Clients -> {"none", "active", "ended"}]
  /\ drafts \in [Clients -> SUBSET Texts]
  /\ events \in Texts /\ texts \in 0 .. events
  /\ written \in Nat /\ deaths \in Nat /\ signals \in Nat

Init ==
  /\ core = "boot" /\ startup \in Startups /\ autonomous = FALSE
  /\ osmBt \in BOOLEAN /\ link = "none" /\ pipe = <<>>
  /\ hand = 0 /\ thread = <<>>
  /\ sent = [n \in Texts |-> 0]
  /\ inCall = FALSE /\ onCall = FALSE /\ unheard = FALSE
  /\ clients = {} /\ slow = {} /\ awaiting = {}
  /\ news = [c \in Clients |-> "none"]
  /\ drafts = [c \in Clients |-> {}]
  /\ events = 0 /\ texts = 0 /\ written = 0 /\ deaths = 0 /\ signals = 0
--------------------------------------------------------------------------
(* Start-up.                                                               *)

Raises(s) == LoadRaises(s.explicit, s.present, s.file)
ConfigOf(s) == LoadConfig(s.explicit, s.present, s.file, s.env)

\* Settings, engines, wiring and the frontend server, or an exception.
Start ==
  /\ core = "boot"
  /\ IF Raises(startup) \/ EnginesRaise(ConfigOf(startup))
     THEN core' = "failed" /\ UNCHANGED autonomous
     ELSE /\ core' = "opening"
          /\ autonomous' = (ConfigOf(startup)["voice_mode.default"]
                              = "autonomous")
  /\ startup' = None
  /\ UNCHANGED <<sockets, sms, inCall, frontend, phone, counters>>
--------------------------------------------------------------------------
(* BTBridge.run: connect, listen, pause.                                   *)

CallEvents == {"call_active", "call_ended"}
CallNewsUnderWay == \E i \in 1 .. Len(pipe) : pipe[i].type \in CallEvents

\* The reader and what it holds are given up.
Discard == pipe' = <<>> /\ unheard' = (unheard \/ CallNewsUnderWay)

\* open_unix_connection: a new reader; what the old one held is gone.
Open ==
  /\ core = "opening"
  /\ IF osmBt THEN core' = "read" /\ link' = "up" /\ Discard
              ELSE core' = "retry" /\ UNCHANGED <<link, pipe, unheard>>
  /\ UNCHANGED <<startup, autonomous, osmBt, sms, inCall, frontend, phone,
                 counters>>

\* The sleep of connect, or that of run, is over.
SleepOver ==
  /\ core \in {"retry", "pause"}
  /\ core' = "opening"
  /\ UNCHANGED <<startup, autonomous, sockets, sms, inCall, frontend, phone,
                 counters>>

\* Mutant of listen: an empty line is skipped.
MutEof ==
  /\ core = "read" /\ link = "eof" /\ pipe = <<>>
  /\ UNCHANGED vars

\* readline returns no line.
Eof ==
  /\ core = "read" /\ link = "eof" /\ pipe = <<>>
  /\ core' = "pause"
  /\ UNCHANGED <<startup, autonomous, sockets, sms, inCall, frontend, phone,
                 counters>>

Reads(type) ==
  /\ core = "read" /\ pipe # <<>>
  /\ Head(pipe).type = type
  /\ pipe' = Tail(pipe)
  /\ UNCHANGED <<startup, autonomous, osmBt, link, unheard, phone, counters>>

\* A broadcast, which ends when the last client has taken it.
Broadcasting ==
  /\ awaiting' = clients \cap slow
  /\ core' = IF awaiting' = {} THEN "read" ELSE "telling"
  /\ UNCHANGED <<clients, slow>>

\* News of a call, directly and through broadcast_sync.
TellCall(what) ==
  /\ Broadcasting
  /\ news' = [c \in Clients |-> IF c \in clients THEN what ELSE news[c]]
  /\ UNCHANGED drafts

\* on_call_active: pipeline.start_call, then the frontends.
OnCallActive ==
  /\ Reads("call_active")
  /\ inCall' = TRUE
  /\ TellCall("active")
  /\ UNCHANGED sms

\* Mutant of on_call_ended: the frontends are told, the pipeline is not.
MutOnCallEnded ==
  /\ Reads("call_ended")
  /\ TellCall("ended")
  /\ UNCHANGED <<sms, inCall>>

\* on_call_ended: pipeline.end_call, then the frontends.
OnCallEnded ==
  /\ Reads("call_ended")
  /\ inCall' = FALSE
  /\ TellCall("ended")
  /\ UNCHANGED sms

\* FORWARD_EVENTS, incoming_call and sms_sent.
OnForwarded ==
  /\ Reads("forwarded")
  /\ Broadcasting
  /\ UNCHANGED <<sms, inCall, news, drafts>>

\* asyncio.gather is over, the clients that left among its results.
Told ==
  /\ core = "telling" /\ awaiting = {}
  /\ core' = "read"
  /\ UNCHANGED <<startup, autonomous, sockets, sms, inCall, frontend, phone,
                 counters>>
--------------------------------------------------------------------------
(* SMS replies.                                                            *)

\* handle_sms_event as far as llm_engine.generate.
OnSms ==
  /\ Reads("sms_received")
  /\ hand' = Head(pipe).n
  /\ thread' = Append(thread, <<"incoming", Head(pipe).n>>)
  /\ core' = "llm"
  /\ UNCHANGED <<sent, inCall, frontend>>

\* send_command: with no connection, or one that has ended, it raises.
Sendable == link = "up"

\* The model answered, autonomous: recorded, then sent, then announced.
AutoReply ==
  /\ core = "llm" /\ autonomous
  /\ thread' = Append(thread, <<"outgoing", hand>>)
  /\ hand' = 0
  /\ IF Sendable
     THEN Broadcasting /\ sent' = [sent EXCEPT ![hand] = @ + 1]
     ELSE core' = "read" /\ UNCHANGED <<sent, clients, slow, awaiting>>
  /\ UNCHANGED <<startup, autonomous, sockets, inCall, news, drafts, phone,
                 counters>>

\* The model answered, hitl: a draft for whoever is connected now.
DraftReply ==
  /\ core = "llm" /\ ~autonomous
  /\ hand' = 0
  /\ Broadcasting
  /\ drafts' = [c \in Clients |-> IF c \in clients THEN drafts[c] \cup {hand}
                                                   ELSE drafts[c]]
  /\ UNCHANGED <<startup, autonomous, sockets, thread, sent, inCall, news,
                 phone, counters>>

\* generate raised: logged, the text stays without a reply.
LlmFails ==
  /\ core = "llm"
  /\ core' = "read"
  /\ hand' = 0
  /\ UNCHANGED <<startup, autonomous, sockets, thread, sent, inCall, frontend,
                 phone, counters>>

\* Mutant of on_approve_sms and on_send_sms: recorded before it is sent.
MutUserText(n) ==
  /\ written < MaxWritten
  /\ written' = written + 1
  /\ thread' = Append(thread, <<"outgoing", n>>)
  /\ sent' = IF Sendable THEN [sent EXCEPT ![n] = @ + 1] ELSE sent
  /\ UNCHANGED <<core, startup, autonomous, sockets, hand, inCall,
                 frontend, phone, deaths, signals>>

\* on_approve_sms and on_send_sms: sent, then recorded; an error is logged.
UserText(n) ==
  /\ Sendable
  /\ written < MaxWritten
  /\ written' = written + 1
  /\ sent' = [sent EXCEPT ![n] = @ + 1]
  /\ thread' = Append(thread, <<"outgoing", n>>)
  /\ UNCHANGED <<core, startup, autonomous, sockets, hand, inCall,
                 frontend, phone, deaths, signals>>

\* approve_sms comes from a draft the client was shown, maybe once more.
ApproveSms(c, n) == c \in clients /\ n \in drafts[c] /\ UserText(n)

SendSms(c) == c \in clients /\ UserText(0)
--------------------------------------------------------------------------
(* Frontends.                                                              *)

Serving == core \notin {"boot", "failed", "stopped"}

Connect(c) ==
  /\ Serving /\ c \notin clients
  /\ clients' = clients \cup {c}
  /\ news' = [news EXCEPT ![c] = "none"]
  /\ drafts' = [drafts EXCEPT ![c] = {}]
  /\ UNCHANGED <<core, startup, autonomous, sockets, sms, inCall, slow,
                 awaiting, phone, counters>>

\* Mutant of _send_safe: the end of a client is not noticed.
MutLeave(c) ==
  /\ c \in clients
  /\ clients' = clients \ {c}
  /\ slow' = slow \ {c}
  /\ UNCHANGED <<core, startup, autonomous, sockets, sms, inCall, awaiting, news,
                 drafts, phone, counters>>

\* A client goes, or its keepalive pings are not answered.
Leave(c) ==
  /\ c \in clients
  /\ clients' = clients \ {c}
  /\ slow' = slow \ {c} /\ awaiting' = awaiting \ {c}
  /\ UNCHANGED <<core, startup, autonomous, sockets, sms, inCall, news, drafts,
                 phone, counters>>

Stall(c) ==
  /\ c \in clients \ slow
  /\ slow' = slow \cup {c}
  /\ UNCHANGED <<core, startup, autonomous, sockets, sms, inCall, clients,
                 awaiting, news, drafts, phone, counters>>

Drain(c) ==
  /\ c \in slow
  /\ slow' = slow \ {c} /\ awaiting' = awaiting \ {c}
  /\ UNCHANGED <<core, startup, autonomous, sockets, sms, inCall, clients, news,
                 drafts, phone, counters>>
--------------------------------------------------------------------------
(* osm-bt and the phone.                                                   *)

\* An event of the phone: osm-bt, if it runs, drops what it has no client for.
BtSends(type, n) ==
  /\ core # "boot"
  /\ events < MaxEvents
  /\ events' = events + 1
  /\ pipe' = IF link = "up" THEN Append(pipe, Event(type, n)) ELSE pipe
  /\ UNCHANGED <<core, startup, autonomous, osmBt, link, sms, inCall, frontend,
                 counters>>

PhoneCall ==
  /\ onCall' = ~onCall
  /\ BtSends(IF onCall THEN "call_ended" ELSE "call_active", 0)
  /\ unheard' = (link # "up")
  /\ UNCHANGED texts

PhoneText ==
  /\ texts' = texts + 1
  /\ BtSends("sms_received", texts + 1)
  /\ UNCHANGED <<onCall, unheard>>

PhoneOther ==
  /\ BtSends("forwarded", 0)
  /\ UNCHANGED <<onCall, unheard, texts>>

BtDies ==
  /\ osmBt /\ deaths < MaxDeaths
  /\ deaths' = deaths + 1
  /\ osmBt' = FALSE
  /\ link' = IF link = "up" THEN "eof" ELSE link
  /\ UNCHANGED <<core, startup, autonomous, pipe, unheard, sms, inCall, frontend,
                 phone, written, signals>>

BtStarts ==
  /\ ~osmBt
  /\ osmBt' = TRUE
  /\ UNCHANGED <<core, startup, autonomous, link, pipe, unheard, sms, inCall,
                 frontend, phone, counters>>
--------------------------------------------------------------------------
(* SIGINT and SIGTERM: every task is cancelled.                            *)

\* In run or connect the cancellation goes through, and async_main stops the
\* server and the bridge.  In listen, handlers included, it is swallowed, and
\* as _running is still set run goes on to its pause.
Signal ==
  /\ Serving
  /\ signals < MaxSignals
  /\ signals' = signals + 1
  /\ clients' = {} /\ slow' = {} /\ awaiting' = {}
  /\ hand' = 0
  /\ IF core \in {"opening", "retry", "pause"}
     THEN core' = "stopped" /\ link' = "none" /\ Discard
     ELSE core' = "pause" /\ UNCHANGED <<link, pipe, unheard>>
  /\ UNCHANGED <<startup, autonomous, osmBt, thread, sent, inCall, news, drafts,
                 phone, written, deaths>>
--------------------------------------------------------------------------
\* The main task, when it is its turn.
MainTask ==
  \/ Start
  \/ Open
  \/ SleepOver
  \/ Eof
  \/ OnCallActive
  \/ OnCallEnded
  \/ OnForwarded
  \/ OnSms
  \/ Told
  \/ AutoReply
  \/ DraftReply
  \/ LlmFails

Next ==
  \/ MainTask
  \/ \E c \in Clients :
       \/ Connect(c)
       \/ Leave(c)
       \/ Stall(c)
       \/ Drain(c)
       \/ SendSms(c)
       \/ \E n \in Texts : ApproveSms(c, n)
  \/ PhoneCall
  \/ PhoneText
  \/ PhoneOther
  \/ BtDies
  \/ BtStarts
  \/ Signal

Spec == Init /\ [][Next]_vars

\* The event loop runs the main task, the language model answers or its client
\* times out, a stalled client drains or its keepalive drops it, and osm-bt is
\* started again.
FairSpec ==
  /\ Spec
  /\ WF_vars(MainTask)
  /\ \A c \in Clients : WF_vars(Drain(c))
  /\ WF_vars(BtStarts)
--------------------------------------------------------------------------
(* Properties.                                                             *)

\* What the process starts with: one key serves all engines, and no key of an
\* engine's own is replaced, whatever file and environment it finds.
\* (A key made for another provider than the one selected counts as a key.)
StartsWithKeys ==
  startup # None /\ ~Raises(startup) =>
    /\ OneKeyServesAll(ConfigOf(startup))
    /\ PathOf(startup.explicit, startup.present) # NoFile =>
         OwnKeysKept(startup.file.given, startup.env, ConfigOf(startup))

\* The pipeline, the frontends and the phone agree on the call.  Unless the
\* newest news of it was lost for want of a connection or with one, or is still
\* on its way, the pipeline was told of a call exactly if the phone has one, and
\* so was every client that heard of a call since it connected.  An SMS that
\* waits for the model and a client that stalls delay the news and do not change
\* their order; after a loss the next call or hangup that is heard puts it right.
CallsFollowPhone ==
  ~unheard /\ ~CallNewsUnderWay
    => /\ inCall = onCall
       /\ \A c \in clients : news[c] # "none" => (news[c] = "active") = onCall

Recorded(n) == Cardinality({i \in DOMAIN thread : thread[i] = <<"outgoing", n>>})

\* The conversation, and with it what the model is told, has every text that
\* left, as often as it left; one that never left is in it only when osm-bt
\* went away before an automatic reply could be sent.
ThreadHasWhatLeft ==
  \A n \in Texts :
    /\ sent[n] <= Recorded(n)
    /\ Recorded(n) > sent[n] => autonomous /\ n # 0 /\ deaths > 0

\* A hangup reaches the pipeline, whatever text is at the model and whichever
\* client stalls, also when osm-bt dies or a signal comes meanwhile, unless the
\* news of it was lost.
HangupHeard == ~onCall ~> ~inCall \/ onCall \/ unheard

\* The core finds osm-bt again whenever that was gone, or has stopped
\* (TEST_PLAN.md, UT-PY-001.2-04).
Reconnects ==
  core # "boot" /\ link # "up" ~> link = "up" \/ core \in {"failed", "stopped"}

\* Violated: TEST_PLAN.md, IT-005.5, "All processes exit cleanly".
SignalStops == signals > 0 ~> core = "stopped"
=============================================================================
