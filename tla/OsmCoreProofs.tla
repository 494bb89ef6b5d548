--------------------------- MODULE OsmCoreProofs ---------------------------
(***************************************************************************)
(* Theorems about OsmCore, for every number of frontends, events, texts,   *)
(* deaths of osm-bt and signals, and for every file and environment the    *)
(* process may start with.                                                 *)
(***************************************************************************)
EXTENDS OsmCore, FiniteSetTheorems, SequenceTheorems, TLAPS

--------------------------------------------------------------------------
(* Settings.                                                               *)

\* The fields, spelled out.
LEMMA FieldNames ==
  /\ Fields = {"llm.provider", "llm.api_key", "llm.base_url", "stt.provider",
               "stt.api_key", "tts.provider", "tts.api_key",
               "tts.elevenlabs_api_key", "voice_mode.default"}
  /\ DOMAIN Override = {"llm.api_key", "tts.elevenlabs_api_key", "llm.base_url"}
  /\ \A f \in DOMAIN Override : Override[f] \in EnvNames
BY DEF Fields, Default, Override, EnvNames

\* Environment, file and defaults make a configuration without placeholder.
LEMMA ApplyEnvKeys ==
  ASSUME NEW c, NEW env,
         \A f \in Fields : c[f] # Placeholder,
         \A e \in EnvNames : env[e] # Placeholder
  PROVE  OneKeyServesAll(ApplyEnv(c, env))
<1> DEFINE o == Overridden(c, env)
           d == ApplyEnv(c, env)
<1>1. \A f \in Fields : o[f] # Placeholder
  BY FieldNames DEF Overridden
<1>2. /\ d["llm.api_key"] = o["llm.api_key"]
      /\ d["tts.provider"] = o["tts.provider"]
      /\ d["tts.elevenlabs_api_key"] = o["tts.elevenlabs_api_key"]
      /\ d["stt.api_key"] = Or(o["stt.api_key"], o["llm.api_key"])
      /\ d["tts.api_key"] = Or(o["tts.api_key"], o["llm.api_key"])
  BY FieldNames DEF ApplyEnv, Propagated, Or
<1> HIDE DEF d, o
<1>3. ASSUME LlmKey(d) # Placeholder
      PROVE  SttKey(d) # Placeholder /\ TtsKey(d) \notin {Placeholder, ""}
  <2>1. o["llm.api_key"] # ""
    BY <1>2, <1>3 DEF LlmKey, Or
  <2>2. d["stt.api_key"] \notin {Placeholder, ""}
    BY <2>1, <1>1, <1>2, FieldNames DEF Or
  <2>3. d["tts.api_key"] \notin {Placeholder, ""}
    BY <2>1, <1>1, <1>2, FieldNames DEF Or
  <2>4. d["tts.elevenlabs_api_key"] # Placeholder
    BY <1>1, <1>2, FieldNames
  <2> QED BY <2>2, <2>3, <2>4 DEF SttKey, TtsKey, Or
<1> QED BY <1>3 DEF OneKeyServesAll, d

\* Whatever the file gives and the environment says is kept.
LEMMA ApplyEnvKeeps ==
  ASSUME NEW given, NEW env
  PROVE  OwnKeysKept(given, env, ApplyEnv(FromDict(given), env))
BY FieldNames DEF OwnKeysKept, ApplyEnv, Propagated, Overridden, FromDict

\* The property of the start-up files and environments themselves.
LEMMA KeysOfStartup ==
  ASSUME NEW s \in Startups, ~Raises(s)
  PROVE  /\ OneKeyServesAll(ConfigOf(s))
         /\ PathOf(s.explicit, s.present) # NoFile =>
              OwnKeysKept(s.file.given, s.env, ConfigOf(s))
<1>1. \A e \in EnvNames : s.env[e] # Placeholder
  BY CoreAssumption
<1>2. \A f \in Fields : Default[f] # Placeholder
  BY FieldNames DEF Default, Placeholder
<1>3. \A f \in Fields : FromDict(s.file.given)[f] # Placeholder
  BY <1>2, CoreAssumption DEF FromDict
<1>4. CASE PathOf(s.explicit, s.present) = NoFile
  BY <1>1, <1>2, <1>4, ApplyEnvKeys DEF ConfigOf, LoadConfig
<1>5. CASE PathOf(s.explicit, s.present) # NoFile
  BY <1>1, <1>3, <1>5, ApplyEnvKeys, ApplyEnvKeeps DEF ConfigOf, LoadConfig
<1> QED BY <1>4, <1>5

--------------------------------------------------------------------------
(* Type correctness.                                                       *)

LEMMA TypeStep == TypeOK /\ [Next]_vars => TypeOK'
<1> SUFFICES ASSUME TypeOK, [Next]_vars PROVE TypeOK'
  OBVIOUS
<1> USE DEF TypeOK, sockets, sms, frontend, phone, counters
<1>0. 0 \in Texts
  BY CoreAssumption DEF Texts
<1>1. CASE Start
  BY <1>1 DEF Start, Cores
<1>2. CASE Open
  BY <1>2, EmptySeq DEF Open, Discard, Cores
<1>3. CASE SleepOver
  BY <1>3 DEF SleepOver, Cores
<1>4. CASE Eof
  BY <1>4 DEF Eof, Cores
<1>5. ASSUME NEW type, Reads(type)
      PROVE  pipe' \in Seq([type : EventTypes, n : Texts]) /\ Head(pipe).n \in Texts
  <2>1. pipe \in Seq([type : EventTypes, n : Texts]) /\ pipe # <<>>
    BY <1>5 DEF Reads
  <2>2. Head(pipe) \in [type : EventTypes, n : Texts]
        /\ Tail(pipe) \in Seq([type : EventTypes, n : Texts])
    BY <2>1, HeadTailProperties
  <2> QED BY <2>2, <1>5 DEF Reads
<1>6. ASSUME Broadcasting
      PROVE  awaiting' \subseteq slow' /\ slow' \subseteq clients'
             /\ clients' \subseteq Clients /\ core' \in Cores
  BY <1>6 DEF Broadcasting, Cores
<1>7. ASSUME NEW what \in {"active", "ended"}, TellCall(what)
      PROVE  news' \in [Clients -> {"none", "active", "ended"}]
  BY <1>7 DEF TellCall
<1>8. CASE OnCallActive
  <2>1. Broadcasting
    BY <1>8 DEF OnCallActive, TellCall
  <2> QED BY <2>1, <1>8, <1>5, <1>6, <1>7 DEF OnCallActive, TellCall, Reads
<1>9. CASE OnCallEnded
  <2>1. Broadcasting
    BY <1>9 DEF OnCallEnded, TellCall
  <2> QED BY <2>1, <1>9, <1>5, <1>6, <1>7 DEF OnCallEnded, TellCall, Reads
<1>10. CASE OnForwarded
  BY <1>10, <1>5, <1>6 DEF OnForwarded, Reads
<1>11. CASE OnSms
  <2>1. pipe' \in Seq([type : EventTypes, n : Texts]) /\ Head(pipe).n \in Texts
    BY <1>11, <1>5 DEF OnSms
  <2>2. thread' \in Seq({"incoming", "outgoing"} \X Texts)
    BY <2>1, <1>11, AppendProperties DEF OnSms
  <2> QED BY <2>1, <2>2, <1>11 DEF OnSms, Reads, Cores
<1>12. CASE Told
  BY <1>12 DEF Told, Cores
<1>13. CASE AutoReply
  <2>1. thread' \in Seq({"incoming", "outgoing"} \X Texts)
    BY <1>13, AppendProperties DEF AutoReply
  <2>2. CASE Sendable
    <3>1. Broadcasting /\ sent' = [sent EXCEPT ![hand] = @ + 1]
      BY <1>13, <2>2 DEF AutoReply
    <3>2. sent' \in [Texts -> Nat]
      BY <3>1
    <3> QED BY <2>1, <3>1, <3>2, <1>0, <1>6, <1>13 DEF AutoReply
  <2>3. CASE ~Sendable
    BY <2>1, <2>3, <1>0, <1>13 DEF AutoReply, Cores
  <2> QED BY <2>2, <2>3
<1>14. CASE DraftReply
  <2>1. drafts' \in [Clients -> SUBSET Texts]
    BY <1>14 DEF DraftReply
  <2> QED BY <2>1, <1>0, <1>6, <1>14 DEF DraftReply
<1>15. CASE LlmFails
  BY <1>15, <1>0 DEF LlmFails, Cores
<1>16. ASSUME NEW n \in Texts, UserText(n) PROVE TypeOK'
  <2>1. thread' \in Seq({"incoming", "outgoing"} \X Texts)
    BY <1>16, AppendProperties DEF UserText
  <2>2. sent' \in [Texts -> Nat]
    BY <1>16 DEF UserText
  <2> QED BY <2>1, <2>2, <1>16 DEF UserText
<1>17. ASSUME NEW c \in Clients, Connect(c) PROVE TypeOK'
  BY <1>17 DEF Connect
<1>18. ASSUME NEW c \in Clients, Leave(c) PROVE TypeOK'
  BY <1>18 DEF Leave
<1>19. ASSUME NEW c \in Clients, Stall(c) PROVE TypeOK'
  BY <1>19 DEF Stall
<1>20. ASSUME NEW c \in Clients, Drain(c) PROVE TypeOK'
  BY <1>20 DEF Drain
<1>21. ASSUME NEW type \in EventTypes, NEW n \in Texts, BtSends(type, n)
       PROVE  /\ pipe' \in Seq([type : EventTypes, n : Texts])
              /\ events' = events + 1 /\ events' \in Texts
  <2>1. Event(type, n) \in [type : EventTypes, n : Texts]
    BY DEF Event
  <2>2. pipe' \in Seq([type : EventTypes, n : Texts])
    BY <1>21, <2>1, AppendProperties DEF BtSends
  <2> QED BY <1>21, <2>2, CoreAssumption DEF BtSends, Texts
<1>22. CASE PhoneCall
  <2>1. PICK type \in {"call_active", "call_ended"} : BtSends(type, 0)
    BY <1>22 DEF PhoneCall
  <2>2. type \in EventTypes
    BY DEF EventTypes
  <2>3. /\ pipe' \in Seq([type : EventTypes, n : Texts])
        /\ events' \in Texts /\ events' = events + 1
    BY <2>1, <2>2, <1>0, <1>21
  <2>4. texts' \in 0 .. events' /\ onCall' \in BOOLEAN /\ unheard' \in BOOLEAN
    BY <2>3, <1>22 DEF PhoneCall, Texts
  <2> QED BY <2>1, <2>3, <2>4 DEF BtSends
<1>23. CASE PhoneText
  <2>1. BtSends("sms_received", texts + 1) /\ texts' = texts + 1
    BY <1>23 DEF PhoneText
  <2>2. texts + 1 \in Texts
    <3>1. events < MaxEvents
      BY <2>1 DEF BtSends
    <3> HIDE DEF TypeOK
    <3>2. events \in Nat /\ texts \in 0 .. events
      BY DEF TypeOK, Texts
    <3> QED BY <3>1, <3>2, CoreAssumption DEF Texts
  <2>3. "sms_received" \in EventTypes
    BY DEF EventTypes
  <2>4. /\ pipe' \in Seq([type : EventTypes, n : Texts])
        /\ events' \in Texts /\ events' = events + 1
    BY <2>1, <2>2, <2>3, <1>21
  <2>5. texts' \in 0 .. events'
    BY <2>1, <2>4 DEF Texts
  <2> QED BY <2>1, <2>4, <2>5, <1>23 DEF BtSends, PhoneText
<1>24. CASE PhoneOther
  <2>1. "forwarded" \in EventTypes
    BY DEF EventTypes
  <2>2. BtSends("forwarded", 0)
    BY <1>24 DEF PhoneOther
  <2>3. /\ pipe' \in Seq([type : EventTypes, n : Texts])
        /\ events' \in Texts /\ events' = events + 1
    BY <2>1, <2>2, <1>0, <1>21
  <2>4. texts' \in 0 .. events'
    BY <2>3, <1>24 DEF PhoneOther, Texts
  <2> QED BY <2>2, <2>3, <2>4, <1>24 DEF BtSends, PhoneOther
<1>25. CASE BtDies
  <2>1. deaths' = deaths + 1 /\ osmBt' = FALSE
    BY <1>25 DEF BtDies
  <2>2. link' \in {"none", "up", "eof"}
    BY <1>25 DEF BtDies
  <2>3. deaths' \in Nat
    BY <2>1
  <2>4. osmBt' \in BOOLEAN
    BY <2>1
  <2> QED BY <2>2, <2>3, <2>4, <1>25 DEF BtDies
<1>26. CASE BtStarts
  BY <1>26 DEF BtStarts
<1>27. CASE Signal
  <2>1. signals' \in Nat /\ link' \in {"none", "up", "eof"} /\ core' \in Cores
    BY <1>27 DEF Signal, Cores
  <2>2. pipe' \in Seq([type : EventTypes, n : Texts]) /\ unheard' \in BOOLEAN
    BY <1>27, EmptySeq DEF Signal, Discard
  <2>3. /\ clients' \subseteq Clients
        /\ slow' \subseteq clients' /\ awaiting' \subseteq slow'
        /\ hand' \in Texts
    BY <1>27, <1>0 DEF Signal
  <2> QED BY <2>1, <2>2, <2>3, <1>27 DEF Signal
<1>28. CASE UNCHANGED vars
  BY <1>28 DEF vars
<1> QED
  BY <1>1, <1>2, <1>3, <1>4, <1>8, <1>9, <1>10, <1>11, <1>12, <1>13, <1>14,
     <1>15, <1>16, <1>17, <1>18, <1>19, <1>20, <1>22, <1>23, <1>24, <1>25,
     <1>26, <1>27, <1>28, <1>0 DEF Next, MainTask, ApproveSms, SendSms

LEMMA TypeInit == Init => TypeOK
<1> SUFFICES ASSUME Init PROVE TypeOK
  OBVIOUS
<1>1. 0 \in Texts
  BY CoreAssumption DEF Texts
<1>2. /\ pipe \in Seq([type : EventTypes, n : Texts])
      /\ thread \in Seq({"incoming", "outgoing"} \X Texts)
  BY EmptySeq DEF Init
<1> QED BY <1>1, <1>2 DEF Init, TypeOK, Cores

\* Every variable keeps its type: each handler leaves the listener at one of
\* its places, only clients stall and only stalled ones are waited for.
THEOREM TypeCorrect == Spec => []TypeOK
BY TypeInit, TypeStep, PTL DEF Spec

--------------------------------------------------------------------------
(* Keys.                                                                   *)

\* Whatever file and environment the process finds, one key serves every
\* engine and no key of an engine's own is replaced.
THEOREM StartsWithTheKeys == Spec => []StartsWithKeys
<1>1. TypeOK => StartsWithKeys
  BY KeysOfStartup DEF TypeOK, StartsWithKeys
<1> QED BY <1>1, TypeCorrect, PTL

--------------------------------------------------------------------------
(* Calls.                                                                  *)

\* The last news of a call on its way is how the phone is, unless it was lost.
LastNews ==
  ~unheard =>
    \A i \in 1 .. Len(pipe) :
      /\ pipe[i].type \in CallEvents
      /\ \A j \in 1 .. Len(pipe) : j > i => pipe[j].type \notin CallEvents
      => (pipe[i].type = "call_active" <=> onCall)

\* With no such news on its way or lost, pipeline and phone agree.
NoNews == ~unheard /\ ~CallNewsUnderWay => (inCall <=> onCall)

\* Clients that heard of a call heard what the pipeline was told.
ClientsHeard ==
  \A c \in clients : news[c] # "none" => (news[c] = "active" <=> inCall)

CallInv == TypeOK /\ LastNews /\ NoNews /\ ClientsHeard

LEMMA ClientStep == CallInv /\ [Next]_vars => ClientsHeard'
<1> SUFFICES ASSUME CallInv, [Next]_vars PROVE ClientsHeard'
  OBVIOUS
<1>0. TypeOK /\ ClientsHeard
  BY DEF CallInv
<1>1. CASE clients' \subseteq clients /\ UNCHANGED <<news, inCall>>
  BY <1>0, <1>1 DEF ClientsHeard
<1>2. CASE Start \/ Open \/ SleepOver \/ Eof \/ Told \/ LlmFails
  BY <1>1, <1>2 DEF Start, Open, SleepOver, Eof, Told, LlmFails, frontend
<1>3. ASSUME NEW what, TellCall(what), inCall' = (what = "active")
      PROVE  ClientsHeard'
  BY <1>0, <1>3 DEF ClientsHeard, TellCall, Broadcasting, TypeOK
<1>4. CASE OnCallActive \/ OnCallEnded
  BY <1>3, <1>4 DEF OnCallActive, OnCallEnded
<1>5. CASE OnForwarded \/ OnSms \/ AutoReply \/ DraftReply
  BY <1>1, <1>5 DEF OnForwarded, OnSms, AutoReply, DraftReply, Broadcasting,
                    frontend
<1>6. ASSUME NEW n, UserText(n) PROVE ClientsHeard'
  BY <1>1, <1>6 DEF UserText, frontend
<1>7. ASSUME NEW c \in Clients, Connect(c) PROVE ClientsHeard'
  BY <1>0, <1>7 DEF Connect, ClientsHeard, TypeOK
<1>8. ASSUME NEW c \in Clients, Leave(c) \/ Stall(c) \/ Drain(c)
      PROVE  ClientsHeard'
  BY <1>1, <1>8 DEF Leave, Stall, Drain
<1>9. CASE PhoneCall \/ PhoneText \/ PhoneOther \/ BtDies \/ BtStarts \/ Signal
  BY <1>1, <1>9 DEF PhoneCall, PhoneText, PhoneOther, BtSends, BtDies, BtStarts,
                    Signal, frontend
<1>10. CASE UNCHANGED vars
  BY <1>1, <1>10 DEF vars, frontend
<1> QED
  BY <1>2, <1>4, <1>5, <1>6, <1>7, <1>8, <1>9, <1>10
     DEF Next, MainTask, ApproveSms, SendSms

\* Reading takes the first event off and leaves the others in their order.
LEMMA ReadShifts ==
  ASSUME TypeOK, NEW type, Reads(type)
  PROVE  /\ Len(pipe) \in Nat /\ Len(pipe') = Len(pipe) - 1 /\ 1 <= Len(pipe)
         /\ pipe[1].type = type
         /\ \A i \in 1 .. Len(pipe') : pipe'[i] = pipe[i + 1]
<1>1. /\ pipe \in Seq([type : EventTypes, n : Texts]) /\ pipe # <<>>
      /\ pipe' = Tail(pipe) /\ Head(pipe).type = type
  BY DEF TypeOK, Reads
<1>2. /\ Len(Tail(pipe)) = Len(pipe) - 1
      /\ \A i \in 1 .. Len(Tail(pipe)) : Tail(pipe)[i] = pipe[i + 1]
      /\ Head(pipe) = pipe[1]
  BY <1>1, HeadTailProperties
<1>3. Len(pipe) \in Nat /\ 1 <= Len(pipe)
  BY <1>1, LenProperties, EmptySeq
<1> QED BY <1>1, <1>2, <1>3

\* What osm-bt sends on an open connection comes last.
LEMMA SendAppends ==
  ASSUME TypeOK, NEW type \in EventTypes, NEW n \in Texts, link = "up",
         BtSends(type, n)
  PROVE  /\ Len(pipe) \in Nat /\ Len(pipe') = Len(pipe) + 1
         /\ pipe'[Len(pipe) + 1].type = type
         /\ \A i \in 1 .. Len(pipe) : pipe'[i] = pipe[i]
<1>1. /\ pipe \in Seq([type : EventTypes, n : Texts])
      /\ pipe' = Append(pipe, Event(type, n))
  BY DEF TypeOK, BtSends
<1>2. Event(type, n) \in [type : EventTypes, n : Texts] /\ Event(type, n).type = type
  BY DEF Event
<1>3. /\ Len(Append(pipe, Event(type, n))) = Len(pipe) + 1
      /\ Append(pipe, Event(type, n))[Len(pipe) + 1] = Event(type, n)
      /\ \A i \in 1 .. Len(pipe) : Append(pipe, Event(type, n))[i] = pipe[i]
  BY <1>1, <1>2, AppendProperties
<1>4. Len(pipe) \in Nat
  BY <1>1, LenProperties
<1> QED BY <1>1, <1>2, <1>3, <1>4

LEMMA NewsStep == CallInv /\ [Next]_vars => LastNews' /\ NoNews'
<1> SUFFICES ASSUME CallInv, [Next]_vars PROVE LastNews' /\ NoNews'
  OBVIOUS
<1>0. /\ TypeOK /\ LastNews /\ NoNews
      /\ onCall \in BOOLEAN /\ inCall \in BOOLEAN
  BY DEF CallInv, TypeOK
<1>1. CASE UNCHANGED <<pipe, unheard, inCall, onCall>>
  BY <1>0, <1>1 DEF LastNews, NoNews, CallNewsUnderWay
<1>2. ASSUME Discard, UNCHANGED <<inCall, onCall>> PROVE LastNews' /\ NoNews'
  <2>1. Len(pipe') = 0
    BY <1>2, EmptySeq DEF Discard
  <2>2. ~unheard' => ~unheard /\ ~CallNewsUnderWay
    BY <1>2 DEF Discard
  <2> QED BY <2>1, <2>2, <1>0, <1>2 DEF LastNews, NoNews
<1>3. ASSUME NEW type, Reads(type), UNCHANGED <<onCall, unheard>>,
             inCall' = (IF type \in CallEvents THEN type = "call_active"
                                               ELSE inCall)
      PROVE  LastNews' /\ NoNews'
  <2>1. LastNews'
    <3> SUFFICES ASSUME ~unheard', NEW i \in 1 .. Len(pipe'),
                        pipe'[i].type \in CallEvents,
                        \A j \in 1 .. Len(pipe') :
                          j > i => pipe'[j].type \notin CallEvents
                 PROVE  pipe'[i].type = "call_active" <=> onCall'
      BY DEF LastNews
    <3>1. /\ i + 1 \in 1 .. Len(pipe) /\ pipe[i + 1] = pipe'[i]
      BY <1>0, <1>3, ReadShifts
    <3>2. ASSUME NEW j \in 1 .. Len(pipe), j > i + 1
          PROVE  pipe[j].type \notin CallEvents
      <4>1. j - 1 \in 1 .. Len(pipe') /\ j - 1 > i /\ pipe'[j - 1] = pipe[j]
        BY <1>0, <1>3, <3>2, ReadShifts
      <4> QED BY <4>1
    <3> QED BY <3>1, <3>2, <1>0, <1>3 DEF LastNews
  <2>2. NoNews'
    <3> SUFFICES ASSUME ~unheard',
                        \A i \in 1 .. Len(pipe') : pipe'[i].type \notin CallEvents
                 PROVE  inCall' <=> onCall'
      BY DEF NoNews, CallNewsUnderWay
    <3>1. ASSUME NEW j \in 1 .. Len(pipe), j > 1
          PROVE  pipe[j].type \notin CallEvents
      <4>1. j - 1 \in 1 .. Len(pipe') /\ pipe'[j - 1] = pipe[j]
        BY <1>0, <1>3, <3>1, ReadShifts
      <4> QED BY <4>1
    <3>2. 1 \in 1 .. Len(pipe) /\ pipe[1].type = type
      BY <1>0, <1>3, ReadShifts
    <3>3. CASE type \in CallEvents
      <4>1. type = "call_active" <=> onCall
        BY <3>1, <3>2, <3>3, <1>0, <1>3 DEF LastNews
      <4> QED BY <4>1, <3>3, <1>3
    <3>4. CASE type \notin CallEvents
      <4>1. \A j \in 1 .. Len(pipe) : pipe[j].type \notin CallEvents
        <5>1. ASSUME NEW j \in 1 .. Len(pipe) PROVE j = 1 \/ j > 1
          OBVIOUS
        <5> QED BY <5>1, <3>1, <3>2, <3>4
      <4> QED BY <4>1, <3>4, <1>0, <1>3 DEF NoNews, CallNewsUnderWay
    <3> QED BY <3>3, <3>4
  <2> QED BY <2>1, <2>2
<1>4. CASE OnCallActive
  BY <1>3, <1>4 DEF OnCallActive, Reads, phone, CallEvents
<1>5. CASE OnCallEnded
  BY <1>3, <1>5 DEF OnCallEnded, Reads, phone, CallEvents
<1>6. CASE OnForwarded
  BY <1>3, <1>6 DEF OnForwarded, Reads, phone, CallEvents
<1>7. CASE OnSms
  BY <1>3, <1>7 DEF OnSms, Reads, phone, CallEvents
<1>8. CASE Start \/ SleepOver \/ Eof \/ Told \/ AutoReply \/ DraftReply \/ LlmFails
  BY <1>1, <1>8 DEF Start, SleepOver, Eof, Told, AutoReply, DraftReply,
                    LlmFails, sockets, phone
<1>9. ASSUME NEW c \in Clients, NEW n \in Texts,
             UserText(n) \/ Connect(c) \/ Leave(c) \/ Stall(c) \/ Drain(c)
      PROVE  LastNews' /\ NoNews'
  BY <1>1, <1>9 DEF UserText, Connect, Leave, Stall, Drain, sockets, phone
<1>10. ASSUME NEW type, NEW n, BtSends(type, n), link # "up",
              UNCHANGED <<onCall, unheard>>
       PROVE  LastNews' /\ NoNews'
  BY <1>1, <1>10 DEF BtSends
<1>11. ASSUME NEW type \in EventTypes \ CallEvents, NEW n \in Texts,
              BtSends(type, n), link = "up", UNCHANGED <<onCall, unheard>>
       PROVE  LastNews' /\ NoNews'
  <2>1. LastNews'
    <3> SUFFICES ASSUME ~unheard', NEW i \in 1 .. Len(pipe'),
                        pipe'[i].type \in CallEvents,
                        \A j \in 1 .. Len(pipe') :
                          j > i => pipe'[j].type \notin CallEvents
                 PROVE  pipe'[i].type = "call_active" <=> onCall'
      BY DEF LastNews
    <3>1. i \in 1 .. Len(pipe) /\ pipe[i] = pipe'[i]
      BY <1>0, <1>11, SendAppends
    <3>2. ASSUME NEW j \in 1 .. Len(pipe), j > i
          PROVE  pipe[j].type \notin CallEvents
      BY <1>0, <1>11, <3>2, SendAppends
    <3> QED BY <3>1, <3>2, <1>0, <1>11 DEF LastNews
  <2>2. NoNews'
    <3>1. /\ Len(pipe) \in Nat /\ Len(pipe') = Len(pipe) + 1
          /\ \A i \in 1 .. Len(pipe) : pipe'[i] = pipe[i]
      BY <1>0, <1>11, SendAppends
    <3>2. inCall' = inCall
      BY <1>11 DEF BtSends
    <3> QED BY <3>1, <3>2, <1>0, <1>11 DEF NoNews, CallNewsUnderWay
  <2> QED BY <2>1, <2>2
<1>12. CASE PhoneCall
  <2>1. CASE link # "up"
    BY <2>1, <1>12 DEF PhoneCall, LastNews, NoNews
  <2>2. CASE link = "up"
    <3>1. PICK type \in CallEvents : /\ BtSends(type, 0)
                                     /\ type = "call_active" <=> onCall'
      BY <1>0, <1>12 DEF PhoneCall, CallEvents
    <3>2. 0 \in Texts /\ type \in EventTypes
      BY CoreAssumption DEF Texts, EventTypes, CallEvents
    <3>3. /\ Len(pipe) \in Nat /\ Len(pipe') = Len(pipe) + 1
          /\ pipe'[Len(pipe) + 1].type = type
      BY <3>1, <3>2, <2>2, <1>0, SendAppends
    <3>4. Len(pipe) + 1 \in 1 .. Len(pipe')
      BY <3>3
    <3>5. LastNews'
      <4> SUFFICES ASSUME NEW i \in 1 .. Len(pipe'),
                          \A j \in 1 .. Len(pipe') :
                            j > i => pipe'[j].type \notin CallEvents
                   PROVE  pipe'[i].type = "call_active" <=> onCall'
        BY DEF LastNews
      <4>1. i = Len(pipe) + 1
        BY <3>1, <3>3, <3>4
      <4> QED BY <4>1, <3>1, <3>3
    <3>6. NoNews'
      BY <3>1, <3>3, <3>4 DEF NoNews, CallNewsUnderWay
    <3> QED BY <3>5, <3>6
  <2> QED BY <2>1, <2>2
<1>13. CASE PhoneText
  <2>1. BtSends("sms_received", texts + 1) /\ UNCHANGED <<onCall, unheard>>
    BY <1>13 DEF PhoneText
  <2>2. texts + 1 \in Texts
    <3>1. events < MaxEvents
      BY <2>1 DEF BtSends
    <3>2. events \in Nat /\ texts \in 0 .. events
      BY <1>0 DEF TypeOK, Texts
    <3> QED BY <3>1, <3>2, CoreAssumption DEF Texts
  <2>3. "sms_received" \in EventTypes \ CallEvents
    BY DEF EventTypes, CallEvents
  <2> QED BY <2>1, <2>2, <2>3, <1>10, <1>11
<1>14. CASE PhoneOther
  <2>1. BtSends("forwarded", 0) /\ UNCHANGED <<onCall, unheard>>
    BY <1>14 DEF PhoneOther
  <2>2. 0 \in Texts /\ "forwarded" \in EventTypes \ CallEvents
    BY CoreAssumption DEF Texts, EventTypes, CallEvents
  <2> QED BY <2>1, <2>2, <1>10, <1>11
<1>15. CASE Open \/ Signal
  <2>1. UNCHANGED <<inCall, onCall>> /\ (Discard \/ UNCHANGED <<pipe, unheard>>)
    BY <1>15 DEF Open, Signal, phone
  <2> QED BY <2>1, <1>1, <1>2
<1>16. CASE BtDies \/ BtStarts \/ UNCHANGED vars
  BY <1>1, <1>16 DEF BtDies, BtStarts, vars, sockets, phone
<1>17. 0 \in Texts
  BY CoreAssumption DEF Texts
<1> QED
  BY <1>4, <1>5, <1>6, <1>7, <1>8, <1>9, <1>12, <1>13, <1>14, <1>15, <1>16,
     <1>17 DEF Next, MainTask, ApproveSms, SendSms

\* Unless the newest news of a call was lost or is still on its way, the
\* pipeline is in a call exactly if the phone is, and every client that heard of
\* a call heard the same.
THEOREM CallsFollowThePhone == Spec => []CallsFollowPhone
<1>1. Init => CallInv
  <2> SUFFICES ASSUME Init PROVE CallInv
    OBVIOUS
  <2>1. TypeOK
    BY TypeInit
  <2> QED BY <2>1 DEF Init, CallInv, LastNews, NoNews, ClientsHeard
<1>2. CallInv /\ [Next]_vars => CallInv'
  BY TypeStep, NewsStep, ClientStep DEF CallInv
<1>3. CallInv => CallsFollowPhone
  BY DEF CallInv, NoNews, ClientsHeard, CallsFollowPhone, TypeOK
<1> QED BY <1>1, <1>2, <1>3, PTL DEF Spec

--------------------------------------------------------------------------
(* The conversation.                                                       *)

Count(t, e) == Cardinality({i \in DOMAIN t : t[i] = e})

\* A message more counts where it belongs, and nowhere else.
LEMMA CountAppend ==
  ASSUME NEW S, NEW t \in Seq(S), NEW e \in S, NEW d
  PROVE  /\ Count(t, d) \in Nat
         /\ Count(Append(t, e), d) = Count(t, d) + (IF e = d THEN 1 ELSE 0)
<1> DEFINE I == {i \in 1 .. Len(t) : t[i] = d}
           u == Append(t, e)
           J == {i \in 1 .. Len(u) : u[i] = d}
<1>1. /\ Len(t) \in Nat /\ DOMAIN t = 1 .. Len(t)
      /\ Len(u) = Len(t) + 1 /\ DOMAIN u = 1 .. Len(u)
      /\ \A i \in 1 .. Len(t) : u[i] = t[i]
      /\ u[Len(t) + 1] = e
  BY AppendProperties, LenProperties
<1>2. IsFiniteSet(I)
  <2>1. IsFiniteSet(1 .. Len(t))
    BY <1>1, FS_Interval
  <2> QED BY <2>1, FS_Subset
<1> HIDE DEF u
<1>3. J = IF e = d THEN I \cup {Len(t) + 1} ELSE I
  <2>1. \A i : i \in 1 .. Len(u) <=> i \in 1 .. Len(t) \/ i = Len(t) + 1
    BY <1>1
  <2>2. \A i \in 1 .. Len(t) : i # Len(t) + 1
    BY <1>1
  <2> QED BY <2>1, <2>2, <1>1
<1>4. Len(t) + 1 \notin I
  BY <1>1
<1> HIDE DEF I, J
<1>5. Cardinality(I) \in Nat
  BY <1>2, FS_CardinalityType
<1>6. Cardinality(J) = Cardinality(I) + (IF e = d THEN 1 ELSE 0)
  <2>1. Cardinality(I \cup {Len(t) + 1}) = Cardinality(I) + 1
    BY <1>2, <1>4, FS_AddElement
  <2>2. CASE e = d
    BY <2>1, <2>2, <1>3
  <2>3. CASE e # d
    BY <2>3, <1>3, <1>5
  <2> QED BY <2>2, <2>3
<1>7. Count(t, d) = Cardinality(I) /\ Count(u, d) = Cardinality(J)
  BY <1>1 DEF Count, I, J
<1> QED BY <1>5, <1>6, <1>7 DEF u

\* What is known of the text at the model, and of why a reply might not leave.
TextInv ==
  /\ \A i \in 1 .. Len(pipe) : pipe[i].type = "sms_received" => pipe[i].n # 0
  /\ core = "llm" => hand # 0
  /\ core \in {"read", "llm", "telling"} => link # "none"
  /\ link = "eof" => deaths > 0
  /\ core = "boot" => ~autonomous

LEMMA TextStep == TypeOK /\ TextInv /\ [Next]_vars => TextInv'
<1> SUFFICES ASSUME TypeOK, TextInv, [Next]_vars PROVE TextInv'
  OBVIOUS
<1>1. CASE UNCHANGED <<core, autonomous, link, pipe, hand, deaths>>
  BY <1>1 DEF TextInv
<1>2. CASE Start \/ SleepOver \/ Eof \/ Told \/ LlmFails
  BY <1>2 DEF TextInv, Start, SleepOver, Eof, Told, LlmFails, sockets, sms,
              counters
<1>3. CASE Open
  <2>1. pipe' = pipe \/ pipe' = <<>>
    BY <1>3 DEF Open, Discard
  <2>2. \A i \in 1 .. Len(pipe') : pipe'[i].type = "sms_received" => pipe'[i].n # 0
    BY <2>1 DEF TextInv
  <2> QED BY <2>2, <1>3 DEF TextInv, Open, sms, counters
<1>4. ASSUME NEW type, Reads(type)
      PROVE  /\ \A i \in 1 .. Len(pipe') :
                  pipe'[i].type = "sms_received" => pipe'[i].n # 0
             /\ UNCHANGED <<link, deaths, autonomous>> /\ link # "none"
             /\ type = "sms_received" => Head(pipe).n # 0
  <2>1. /\ Len(pipe) \in Nat /\ Len(pipe') = Len(pipe) - 1 /\ 1 <= Len(pipe)
        /\ pipe[1].type = type
        /\ \A i \in 1 .. Len(pipe') : pipe'[i] = pipe[i + 1]
    BY <1>4, ReadShifts
  <2>2. \A i \in 1 .. Len(pipe') : i + 1 \in 1 .. Len(pipe)
    BY <2>1
  <2>3. Head(pipe) = pipe[1] /\ 1 \in 1 .. Len(pipe)
    BY <2>1, <1>4, HeadTailProperties DEF Reads, TypeOK
  <2> QED BY <2>1, <2>2, <2>3, <1>4 DEF TextInv, Reads, counters
<1>5. CASE OnCallActive \/ OnCallEnded \/ OnForwarded
  BY <1>4, <1>5 DEF TextInv, OnCallActive, OnCallEnded, OnForwarded, TellCall,
                    Broadcasting, Reads
<1>6. CASE OnSms
  BY <1>4, <1>6 DEF TextInv, OnSms, Reads
<1>7. CASE AutoReply \/ DraftReply
  BY <1>7 DEF TextInv, AutoReply, DraftReply, Broadcasting, sockets, counters
<1>8. ASSUME NEW c \in Clients, NEW n \in Texts,
             UserText(n) \/ Connect(c) \/ Leave(c) \/ Stall(c) \/ Drain(c)
      PROVE  TextInv'
  BY <1>1, <1>8 DEF UserText, Connect, Leave, Stall, Drain, sockets, sms,
                    counters
<1>9. ASSUME NEW type \in EventTypes, NEW n \in Texts, BtSends(type, n),
             type = "sms_received" => n # 0
      PROVE  TextInv'
  <2>1. UNCHANGED <<core, autonomous, link, hand, deaths>>
    BY <1>9 DEF BtSends, sms, counters
  <2>2. CASE link = "up"
    <3>1. pipe' = Append(pipe, Event(type, n))
      BY <1>9, <2>2 DEF BtSends
    <3>2. /\ pipe \in Seq([type : EventTypes, n : Texts])
          /\ Event(type, n) \in [type : EventTypes, n : Texts]
          /\ Event(type, n).type = type /\ Event(type, n).n = n
      BY DEF TypeOK, Event
    <3>3. /\ Len(pipe) \in Nat /\ Len(pipe') = Len(pipe) + 1
          /\ pipe'[Len(pipe) + 1] = Event(type, n)
          /\ \A i \in 1 .. Len(pipe) : pipe'[i] = pipe[i]
      BY <3>1, <3>2, AppendProperties, LenProperties
    <3>4. \A i \in 1 .. Len(pipe') : i \in 1 .. Len(pipe) \/ i = Len(pipe) + 1
      BY <3>3
    <3> QED BY <2>1, <3>2, <3>3, <3>4, <1>9 DEF TextInv
  <2>3. CASE link # "up"
    BY <2>1, <2>3, <1>9, <1>1 DEF BtSends
  <2> QED BY <2>2, <2>3
<1>10. CASE PhoneCall
  <2>1. PICK type \in CallEvents : BtSends(type, 0)
    BY <1>10 DEF PhoneCall, CallEvents
  <2>2. 0 \in Texts /\ type \in EventTypes /\ type # "sms_received"
    BY CoreAssumption DEF Texts, EventTypes, CallEvents
  <2> QED BY <2>1, <2>2, <1>9
<1>11. CASE PhoneText
  <2>1. BtSends("sms_received", texts + 1)
    BY <1>11 DEF PhoneText
  <2>2. texts + 1 \in Texts /\ texts + 1 # 0
    <3>1. events < MaxEvents
      BY <2>1 DEF BtSends
    <3>2. events \in Nat /\ texts \in 0 .. events
      BY DEF TypeOK, Texts
    <3> QED BY <3>1, <3>2, CoreAssumption DEF Texts
  <2>3. "sms_received" \in EventTypes
    BY DEF EventTypes
  <2> QED BY <2>1, <2>2, <2>3, <1>9
<1>12. CASE PhoneOther
  <2>1. BtSends("forwarded", 0)
    BY <1>12 DEF PhoneOther
  <2>2. 0 \in Texts /\ "forwarded" \in EventTypes
    BY CoreAssumption DEF Texts, EventTypes
  <2> QED BY <2>1, <2>2, <1>9
<1>13. CASE BtDies
  <2>1. deaths' > 0
    BY <1>13 DEF BtDies, TypeOK
  <2>2. UNCHANGED <<core, autonomous, pipe, hand>> /\ (link' = "none" => link = "none")
    BY <1>13 DEF BtDies, sms
  <2> QED BY <2>1, <2>2 DEF TextInv
<1>14. CASE Signal
  <2>1. pipe' = pipe \/ pipe' = <<>>
    BY <1>14 DEF Signal, Discard
  <2>2. \A i \in 1 .. Len(pipe') : pipe'[i].type = "sms_received" => pipe'[i].n # 0
    BY <2>1 DEF TextInv
  <2> QED BY <2>2, <1>14 DEF TextInv, Signal
<1>15. CASE BtStarts \/ UNCHANGED vars
  BY <1>1, <1>15 DEF BtStarts, vars, sockets, sms, counters
<1>16. 0 \in Texts
  BY CoreAssumption DEF Texts
<1> QED
  BY <1>2, <1>3, <1>5, <1>6, <1>7, <1>8, <1>10, <1>11, <1>12, <1>13, <1>14,
     <1>15, <1>16 DEF Next, MainTask, ApproveSms, SendSms

LEMMA RecordStep ==
  TypeOK /\ TextInv /\ ThreadHasWhatLeft /\ [Next]_vars => ThreadHasWhatLeft'
<1> SUFFICES ASSUME TypeOK, TextInv, ThreadHasWhatLeft, [Next]_vars,
                    NEW n \in Texts
             PROVE  /\ sent'[n] <= Recorded(n)'
                    /\ Recorded(n)' > sent'[n] => autonomous' /\ n # 0 /\ deaths' > 0
  BY DEF ThreadHasWhatLeft
<1> DEFINE S == {"incoming", "outgoing"} \X Texts
           Out(k) == <<"outgoing", k>>
<1>1. /\ sent \in [Texts -> Nat] /\ thread \in Seq(S) /\ hand \in Texts
      /\ deaths \in Nat
      /\ sent[n] <= Count(thread, Out(n))
      /\ Count(thread, Out(n)) > sent[n] => autonomous /\ n # 0 /\ deaths > 0
      /\ Recorded(n)' = Count(thread', Out(n))
  BY DEF TypeOK, ThreadHasWhatLeft, Recorded, Count
<1>2. Count(thread, Out(n)) \in Nat /\ sent[n] \in Nat
  <2>1. Out(0) \in S
    BY CoreAssumption DEF Texts
  <2> QED BY <2>1, <1>1, CountAppend
<1>3. CASE UNCHANGED <<thread, sent, autonomous>> /\ deaths' \in {deaths, deaths + 1}
  BY <1>1, <1>2, <1>3
<1>4. CASE Start
  BY <1>1, <1>2, <1>4 DEF Start, TextInv, sms, counters
<1>5. CASE Open \/ SleepOver \/ Eof \/ Told \/ LlmFails \/ DraftReply
  BY <1>3, <1>5 DEF Open, SleepOver, Eof, Told, LlmFails, DraftReply, sms, counters
<1>6. CASE OnCallActive \/ OnCallEnded \/ OnForwarded
  BY <1>3, <1>6 DEF OnCallActive, OnCallEnded, OnForwarded, Reads, sms, counters
<1>7. CASE OnSms
  <2>1. /\ thread' = Append(thread, <<"incoming", Head(pipe).n>>)
        /\ UNCHANGED <<sent, autonomous, deaths>>
    BY <1>7 DEF OnSms, Reads, counters
  <2>2. <<"incoming", Head(pipe).n>> \in S
    <3>1. pipe # <<>>
      BY <1>7 DEF OnSms, Reads
    <3>2. Head(pipe) \in [type : EventTypes, n : Texts]
      BY <3>1, HeadTailProperties DEF TypeOK
    <3> QED BY <3>2
  <2>3. <<"incoming", Head(pipe).n>> # Out(n)
    OBVIOUS
  <2>4. Count(thread', Out(n)) = Count(thread, Out(n))
    <3> DEFINE in == <<"incoming", Head(pipe).n>>
    <3>1. thread \in Seq(S) /\ in \in S /\ Out(n) # in
      BY <2>2, <2>3, <1>1
    <3> HIDE DEF in, Out, S
    <3>2. Count(Append(thread, in), Out(n))
            = Count(thread, Out(n)) + IF in = Out(n) THEN 1 ELSE 0
      BY <3>1, CountAppend DEF S
    <3>3. Count(Append(thread, in), Out(n)) = Count(thread, Out(n))
      BY <3>1, <3>2, <1>2
    <3>4. thread' = Append(thread, in)
      BY <2>1 DEF in
    <3> QED BY <3>3, <3>4
  <2> QED BY <2>1, <2>4, <1>1
<1>8. ASSUME NEW k \in Texts, thread' = Append(thread, Out(k)),
             sent' = [sent EXCEPT ![k] = @ + 1], UNCHANGED <<autonomous, deaths>>
      PROVE  /\ sent'[n] <= Recorded(n)'
             /\ Recorded(n)' > sent'[n] => autonomous' /\ n # 0 /\ deaths' > 0
  <2>1. Out(k) \in S /\ (Out(k) = Out(n) <=> k = n)
    OBVIOUS
  <2>2. Count(thread', Out(n))
          = Count(thread, Out(n)) + IF Out(k) = Out(n) THEN 1 ELSE 0
    <3>1. thread \in Seq(S) /\ Out(k) \in S
      BY <2>1, <1>1
    <3>2. Count(Append(thread, Out(k)), Out(n))
            = Count(thread, Out(n)) + IF Out(k) = Out(n) THEN 1 ELSE 0
      BY <3>1, CountAppend
    <3> QED BY <3>2, <1>8
  <2>3. sent'[n] = sent[n] + IF k = n THEN 1 ELSE 0
    BY <1>8, <1>1, <1>2
  <2> QED BY <2>1, <2>2, <2>3, <1>1, <1>2, <1>8
<1>9. CASE AutoReply
  <2>1. thread' = Append(thread, Out(hand)) /\ UNCHANGED <<autonomous, deaths>>
    BY <1>9 DEF AutoReply, counters
  <2>2. CASE Sendable
    BY <2>1, <2>2, <1>1, <1>8, <1>9 DEF AutoReply
  <2>3. CASE ~Sendable
    <3>1. autonomous /\ hand # 0 /\ deaths > 0
      BY <1>9, <2>3 DEF AutoReply, TextInv, Sendable, TypeOK
    <3>2. sent' = sent
      BY <1>9, <2>3 DEF AutoReply
    <3>3. Out(hand) \in S /\ (Out(hand) = Out(n) <=> hand = n)
      BY <1>1
    <3>4. Count(thread', Out(n))
            = Count(thread, Out(n)) + IF Out(hand) = Out(n) THEN 1 ELSE 0
      BY <2>1, <3>3, <1>1, CountAppend
    <3> QED BY <2>1, <3>1, <3>2, <3>3, <3>4, <1>1, <1>2
  <2> QED BY <2>2, <2>3
<1>10. ASSUME NEW k \in Texts, UserText(k)
       PROVE  /\ sent'[n] <= Recorded(n)'
              /\ Recorded(n)' > sent'[n] => autonomous' /\ n # 0 /\ deaths' > 0
  BY <1>8, <1>10 DEF UserText
<1>11. ASSUME NEW c \in Clients, Connect(c) \/ Leave(c) \/ Stall(c) \/ Drain(c)
       PROVE  UNCHANGED <<thread, sent, autonomous, deaths>>
  BY <1>11 DEF Connect, Leave, Stall, Drain, sms, counters
<1>12. CASE \/ PhoneCall \/ PhoneText \/ PhoneOther \/ BtDies \/ BtStarts
            \/ Signal \/ UNCHANGED vars
  BY <1>3, <1>12 DEF PhoneCall, PhoneText, PhoneOther, BtSends, BtDies, BtStarts,
                     Signal, vars, sms, counters
<1>13. 0 \in Texts
  BY CoreAssumption DEF Texts
<1> QED
  BY <1>3, <1>4, <1>5, <1>6, <1>7, <1>9, <1>10, <1>11, <1>12, <1>13
     DEF Next, MainTask, ApproveSms, SendSms

\* Every text that left is in the conversation, as often as it left, and one
\* that did not leave only for an automatic reply osm-bt was not there for.
THEOREM ConversationIsComplete == Spec => []ThreadHasWhatLeft
<1>1. Init => TextInv
  BY DEF Init, TextInv
<1>2. Init => ThreadHasWhatLeft
  <2> SUFFICES ASSUME Init, NEW n \in Texts
               PROVE  sent[n] = 0 /\ Recorded(n) = 0
    BY DEF ThreadHasWhatLeft
  <2>1. DOMAIN thread = {}
    BY EmptySeq DEF Init
  <2>2. {i \in DOMAIN thread : thread[i] = <<"outgoing", n>>} = {}
    BY <2>1
  <2> QED BY <2>2, FS_EmptySet DEF Init, Recorded
<1> QED BY <1>1, <1>2, TextStep, RecordStep, TypeCorrect, PTL DEF Spec
=============================================================================
