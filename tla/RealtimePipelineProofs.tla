----------------------- MODULE RealtimePipelineProofs -----------------------
(***************************************************************************)
(* Theorems about RealtimePipeline, for every number of calls, answers,    *)
(* connections, reconnection attempts and faults.                          *)
(***************************************************************************)
EXTENDS RealtimePipeline, TLAPS

--------------------------------------------------------------------------
(* Type correctness.                                                       *)

LEMMA StrandKinds ==
  /\ Listener \in Strands /\ Extras \subseteq Strands /\ Conns \subseteq Strands
  /\ \A n \in Calls : n # 0 => n \in Strands
  /\ \A s \in Strands : Rest(s) \in {"ready", "done"}
  /\ Listener \notin Conns /\ Listener \notin Extras /\ Conns \cap Extras = {}
  /\ \A n \in Calls : n \notin Conns /\ n # Listener /\ n \notin Extras
BY RealtimeAssumption DEF Strands, Calls, Rest

\* What _handle_disconnect may change keeps its type, on any strand.
LEMMA DisconnectTyped ==
  ASSUME TypeOK, NEW s \in Strands, NEW n \in Nat, HandleDisconnectAfter(s, n)
  PROVE  /\ ws' = None /\ attempts' \in Nat /\ state' \in States
         /\ pc' \in [Strands -> Pcs]
<1>1. ws' = None /\ attempts' \in Nat /\ state' \in States
  BY DEF HandleDisconnectAfter, TypeOK, States
<1>2. PICK p \in Pcs : pc' = [pc EXCEPT ![s] = p]
  BY StrandKinds DEF HandleDisconnectAfter, Pcs, Dialling
<1> QED BY <1>1, <1>2 DEF TypeOK

LEMMA TypeStep == TypeOK /\ [Next]_vars => TypeOK'
<1> SUFFICES ASSUME TypeOK, [Next]_vars PROVE TypeOK'
  OBVIOUS
<1> USE DEF TypeOK, lineVars, draftVars, serviceVars, ghostVars
<1>1. ASSUME NEW f \in Faults, Suffer(f) PROVE faults' \subseteq Faults
  BY <1>1 DEF Suffer
<1>2. CASE StartCall
  <2>1. call' \in Calls /\ call' \in Strands /\ call' = call + 1
    BY <1>2, RealtimeAssumption DEF StartCall, Calls, Strands
  <2>2. faults' \subseteq Faults
    BY <1>1, <1>2 DEF StartCall, Faults
  <2>3. pc' \in [Strands -> Pcs]
    BY <2>1, <1>2 DEF StartCall, Pcs, Dialling
  <2> QED BY <2>1, <2>2, <2>3, <1>2 DEF StartCall, States
<1>3. CASE EndCall
  <2>1. pc' \in [Strands -> Pcs]
    BY <1>3 DEF EndCall, EndCallCancelling, Pcs
  <2>2. closing' \in [Conns -> Nat] /\ owed' \in [Strands -> Nat]
    BY <1>3 DEF EndCall, EndCallCancelling
  <2> QED BY <2>1, <2>2, <1>3 DEF EndCall, EndCallCancelling, States
<1>4. CASE FeedAudio
  BY <1>4 DEF FeedAudio, Feeding
<1>5. CASE FeedAudioFails
  <2>1. faults' \subseteq Faults
    BY <1>1, <1>5 DEF FeedAudioFails, Faults
  <2>2. /\ ws' = None /\ attempts' \in Nat /\ state' \in States
        /\ pc' \in [Strands -> Pcs]
    BY <1>5, StrandKinds, DisconnectTyped DEF FeedAudioFails, HandleDisconnect
  <2> QED BY <2>1, <2>2, <1>5 DEF FeedAudioFails
<1>6. CASE ApproveResponse
  <2>1. pc' \in [Strands -> Pcs]
    BY <1>6 DEF ApproveResponse, Pcs, Attending
  <2>2. draft' \in [text : SUBSET Answers, approved : BOOLEAN]
    BY <1>6 DEF ApproveResponse
  <2>3. waitsOn' \in [Conns -> Calls]
    <3>1. 0 \in Calls
      BY RealtimeAssumption DEF Calls
    <3> QED BY <3>1, <1>6 DEF ApproveResponse
  <2> QED BY <2>1, <2>2, <2>3, <1>6 DEF ApproveResponse
<1>7. ASSUME NEW m \in Modes, SetMode(m) PROVE TypeOK'
  BY <1>1, <1>7 DEF SetMode, Faults
<1>8. ASSUME NEW s \in Strands, Redial(s) PROVE TypeOK'
  BY <1>8 DEF Redial, Pcs, Dialling
<1>9. ASSUME NEW s \in Strands, Opened(s) PROVE TypeOK'
  <2>1. PICK c \in Conns :
          /\ conn' = [conn EXCEPT ![c] = "open"]
          /\ ws' = c /\ attempts' = 0 /\ listenTask' = c
          /\ pc' = [pc EXCEPT ![c] = "recv", ![s] = Rest(s)]
    BY <1>9 DEF Opened
  <2>2. pc' \in [Strands -> Pcs]
    BY <2>1, StrandKinds DEF Pcs, Attending
  <2> QED BY <2>1, <2>2, <1>9 DEF Opened
<1>10. ASSUME NEW s \in Strands, OpenedWithin(s) PROVE TypeOK'
  <2>1. PICK c \in Conns,
             loops \in SUBSET {e \in Extras : pc[e] \in {"unused", "done"}} :
          \E again \in SUBSET loops, last \in loops :
          /\ Fresh(c)
          /\ Cardinality(loops) = owed[s]
          /\ Cardinality(again) = Reconnecting(owed[s])
          /\ again # loops => last \notin again
          /\ conn' = [conn EXCEPT ![c] = "open"]
          /\ listenTask' = last
          /\ pc' = [t \in Strands |-> IF t = c THEN "recv"
                                      ELSE IF t = s THEN Rest(s)
                                      ELSE IF t \in again THEN "backoff"
                                      ELSE IF t \in loops THEN "done"
                                      ELSE pc[t]]
    BY <1>10 DEF OpenedWithin
  <2>2. pc' \in [Strands -> Pcs] /\ listenTask' \in Extras
    BY <2>1, StrandKinds DEF Pcs, Attending, Dialling
  <2>3. attempts' \in Nat /\ state' \in States
    BY <1>10, RealtimeAssumption DEF OpenedWithin, Reconnecting, States
  <2>4. owed' \in [Strands -> Nat]
    BY <1>10 DEF OpenedWithin
  <2> QED BY <2>1, <2>2, <2>3, <2>4, <1>10 DEF OpenedWithin
<1>11. ASSUME NEW s \in Strands, OpenFailed(s) PROVE TypeOK'
  <2>1. /\ ws' = None /\ attempts' \in Nat /\ state' \in States
        /\ pc' \in [Strands -> Pcs]
    BY <1>11, DisconnectTyped DEF OpenFailed, HandleDisconnect
  <2>2. owed' \in [Strands -> Nat] /\ listenTask' \in Conns \cup Extras \cup {None}
    BY <1>11 DEF OpenFailed, Unwinds
  <2> QED BY <2>1, <2>2, <1>11 DEF OpenFailed
<1>12. ASSUME NEW s \in Strands, SetupRefused(s) PROVE TypeOK'
  <2>1. /\ ws' = None /\ attempts' \in Nat /\ state' \in States
        /\ pc' \in [Strands -> Pcs]
    BY <1>12, DisconnectTyped DEF SetupRefused
  <2>2. faults' \subseteq Faults
    BY <1>1, <1>12 DEF SetupRefused, Faults
  <2>3. owed' \in [Strands -> Nat] /\ listenTask' \in Conns \cup Extras \cup {None}
    BY <1>12 DEF SetupRefused
  <2> QED BY <2>1, <2>2, <2>3, <1>12 DEF SetupRefused
<1>13. ASSUME NEW c \in Conns, Silent(c)
       PROVE  heard' \in [Conns -> Calls] /\ answer' \in [Conns -> SUBSET Answers]
  <2>1. 0 \in Calls
    BY RealtimeAssumption DEF Calls
  <2> QED BY <2>1, <1>13 DEF Silent
<1>27. ASSUME NEW c \in Conns, Disconnected(c) PROVE TypeOK'
  <2>1. closing' \in [Conns -> Nat]
    BY <1>27 DEF Disconnected, Closing
  <2> QED BY <2>1, <1>13, <1>27 DEF Disconnected
<1>14. ASSUME NEW c \in Conns, LoopSevered(c) PROVE TypeOK'
  <2>1. /\ ws' = None /\ attempts' \in Nat /\ state' \in States
        /\ pc' \in [Strands -> Pcs]
    BY <1>14, StrandKinds, DisconnectTyped DEF LoopSevered, HandleDisconnect
  <2> QED BY <2>1, <1>14 DEF LoopSevered
<1>15. ASSUME NEW c \in Conns, LoopEnds(c) \/ BreaksWhenIdle(c) PROVE TypeOK'
  <2>1. pc' \in [Strands -> Pcs]
    BY <1>15 DEF LoopEnds, BreaksWhenIdle, Pcs
  <2> QED BY <2>1, <1>15 DEF LoopEnds, BreaksWhenIdle
<1>16. ASSUME NEW c \in Conns, FlushBegins(c) \/ FlushEnds(c) PROVE TypeOK'
  <2>1. pc' \in [Strands -> Pcs] /\ state' \in States
    BY <1>16 DEF FlushBegins, FlushEnds, Pcs, Attending, States
  <2>2. draft' = draft \/ draft' = [text |-> {}, approved |-> FALSE]
    BY <1>16 DEF FlushBegins, FlushEnds
  <2>3. draft' \in [text : SUBSET Answers, approved : BOOLEAN]
    <3>1. [text |-> {}, approved |-> FALSE]
            \in [text : SUBSET Answers, approved : BOOLEAN]
      OBVIOUS
    <3>2. draft \in [text : SUBSET Answers, approved : BOOLEAN]
      OBVIOUS
    <3> QED BY <3>1, <3>2, <2>2, Zenon
  <2>4. chunks' \subseteq Answers /\ text' \subseteq Answers
    BY <1>16 DEF FlushBegins, FlushEnds
  <2>5. UNCHANGED <<mode, ws, eventSet, attempts, listenTask, lineVars, conn,
                    serviceVars, waitsOn, closing, owed, spoken, faults>>
    BY <1>16 DEF FlushBegins, FlushEnds
  <2> QED BY <2>1, <2>3, <2>4, <2>5
<1>17. ASSUME NEW c \in Conns, FlushChunk(c) PROVE TypeOK'
  <2>1. PICK a \in chunks, how \in {"approved", "unseen"} :
          spoken' = spoken \cup {<<a, call, how>>}
    BY <1>17 DEF FlushChunk
  <2>2. <<a, call, how>> \in Answers \X Calls \X Hows
    BY <2>1 DEF Hows
  <2> QED BY <2>1, <2>2, <1>17 DEF FlushChunk
<1>18. ASSUME NEW c \in Conns, FlushFails(c) PROVE TypeOK'
  <2>1. /\ ws' = None /\ attempts' \in Nat /\ state' \in States
        /\ pc' \in [Strands -> Pcs]
    BY <1>18, StrandKinds, DisconnectTyped DEF FlushFails, HandleDisconnect
  <2>2. faults' \subseteq Faults
    BY <1>1, <1>18 DEF FlushFails, Faults
  <2> QED BY <2>1, <2>2, <1>18 DEF FlushFails
<1>19. ASSUME NEW c \in Conns, OnSpeechStarted(c) PROVE TypeOK'
  BY <1>19 DEF OnSpeechStarted, States
<1>20. ASSUME NEW c \in Conns, OnSpeechStopped(c) PROVE TypeOK'
  <2>1. asker' \in [Answers -> Calls]
    BY <1>20 DEF OnSpeechStopped
  <2>2. answer' \in [Conns -> SUBSET Answers]
    BY <1>20 DEF OnSpeechStopped
  <2> QED BY <2>1, <2>2, <1>20 DEF OnSpeechStopped, States
<1>21. ASSUME NEW c \in Conns, OnDelta(c) PROVE TypeOK'
  <2>1. PICK a \in answer[c] :
          /\ text' = text \cup {a} /\ chunks' \subseteq chunks \cup {a}
          /\ spoken' \subseteq spoken \cup {<<a, call, "live">>}
          /\ state' \in {state, "SPEAKING"}
    BY <1>21 DEF OnDelta
  <2>2. a \in Answers /\ <<a, call, "live">> \in Answers \X Calls \X Hows
    BY <2>1 DEF Hows
  <2>3. spoken' \subseteq Answers \X Calls \X Hows
    BY <2>1, <2>2
  <2>4. chunks' \subseteq Answers /\ text' \subseteq Answers /\ state' \in States
    BY <2>1, <2>2 DEF States
  <2> QED BY <2>3, <2>4, <1>21 DEF OnDelta
<1>22. ASSUME NEW c \in Conns, OnResponseDrafted(c) PROVE TypeOK'
  <2>1. pc' \in [Strands -> Pcs]
    BY <1>22, StrandKinds DEF OnResponseDrafted, Pcs, Attending
  <2>2. /\ draft' \in [text : SUBSET Answers, approved : BOOLEAN]
        /\ answer' \in [Conns -> SUBSET Answers]
        /\ waitsOn' \in [Conns -> Calls]
    BY <1>22 DEF OnResponseDrafted, Delivered
  <2> QED BY <2>1, <2>2, <1>22 DEF OnResponseDrafted
<1>23. ASSUME NEW c \in Conns, OnResponseDone(c) PROVE TypeOK'
  BY <1>23 DEF OnResponseDone, Delivered, States
<1>24. ASSUME NEW c \in Conns, ConnectionLost(c) PROVE TypeOK'
  BY <1>13, <1>24 DEF ConnectionLost
<1>25. ASSUME NEW c \in Conns, ServiceCloses(c) PROVE TypeOK'
  BY <1>1, <1>13, <1>25 DEF ServiceCloses, Faults
<1>26. CASE UNCHANGED vars
  BY <1>26 DEF vars
<1> QED
  BY <1>2, <1>3, <1>4, <1>5, <1>6, <1>7, <1>8, <1>9, <1>10, <1>11, <1>12,
     <1>27, <1>14, <1>15, <1>16, <1>17, <1>18, <1>19, <1>20, <1>21, <1>22,
     <1>23, <1>24, <1>25, <1>26 DEF Next, Dial, Loop, AnswerEnds

LEMMA TypeInit == Init => TypeOK
<1> SUFFICES ASSUME Init PROVE TypeOK
  OBVIOUS
<1>1. 0 \in Calls
  BY RealtimeAssumption DEF Calls
<1>2. pc \in [Strands -> Pcs]
  BY DEF Init, Pcs
<1> QED BY <1>1, <1>2 DEF Init, TypeOK, States

\* Every variable keeps its type: each strand is at one of its places, and no
\* connection is closed by more tasks than were started to close it.
THEOREM TypeCorrect == Spec => []TypeOK
BY TypeInit, TypeStep, PTL DEF Spec

--------------------------------------------------------------------------
(* The inductive invariants, in three parts.                               *)

Active(s) == pc[s] \in Attending \cup Dialling

\* One strand at a time works for the call, and it is one that end_call
\* cancels or the listener itself; while it dials there is no connection,
\* while it reads it reads the one in _ws; nothing is left of a call that is
\* over but the connection being closed.
Session ==
  /\ \A s \in Strands : owed[s] = 0
  /\ \A c \in Conns : conn[c] = "unused" => pc[c] = "unused"
  /\ \A s, t \in Strands : Active(s) /\ Active(t) => s = t
  /\ \A s \in Strands :
       Active(s) => s \in {Listener, listenTask, call} /\ state # "IDLE"
  /\ \A s \in Strands : pc[s] \in Dialling => ws = None
  /\ \A s \in Strands : pc[s] \in Attending => s \in Conns /\ ws = s
  /\ \A c \in Conns : conn[c] = "open" => ws = c \/ c \in Closing
  /\ onCall => Closing = {} /\ call # 0
  /\ ~onCall => state = "IDLE" /\ (ws = None \/ ws \in Closing)

\* What a connection is delivering, and what is buffered, was asked in the
\* present call; what was spoken was asked in the call it was spoken in; and a
\* loop that waits awaits the event of this call, with something buffered.
Callers ==
  /\ \A c \in Conns : conn[c] = "unused" => heard[c] = 0 /\ answer[c] = {}
  /\ \A c \in Conns :
       pc[c] \in Attending =>
         /\ heard[c] \in {0, call}
         /\ \A a \in answer[c] : asker[a] = call
  /\ \A a \in chunks : asker[a] = call
  /\ \A p \in spoken : asker[p[1]] = p[2] /\ p[2] # 0
  /\ \A c \in Conns : pc[c] = "approval" => chunks # {} /\ waitsOn[c] = call

\* All that is buffered has its text beside it, and all of it was in the draft
\* a receive loop waits with, is released from or flushes.
Drafts ==
  /\ chunks \subseteq text
  /\ mode = "autonomous" => chunks = {}
  /\ \A c \in Conns :
       /\ pc[c] \in {"approval", "released", "flush"} => chunks \subseteq draft.text
       /\ pc[c] \in {"released", "flush"} => draft.approved
  /\ \A p \in spoken : p[3] # "unseen"

\* Each holds unless a fault that breaks it happened.
SessionInv == Only({"mode", "bye"}) => Session
CallerInv == Only({"mode", "bye"}) => Callers
DraftInv == Only({"bye"}) => Drafts

--------------------------------------------------------------------------
(* One session.                                                            *)

\* What went wrong stays on record.
LEMMA FaultsStay == [Next]_vars => \A F : Only(F)' => Only(F)
<1> SUFFICES ASSUME [Next]_vars PROVE faults \subseteq faults'
  BY DEF Only
<1> QED
  BY DEF Next, Dial, Loop, AnswerEnds, vars, ghostVars, Suffer, StartCall,
         EndCall, EndCallCancelling, FeedAudio, FeedAudioFails, ApproveResponse,
         SetMode, Redial, Opened, OpenedWithin, OpenFailed, SetupRefused,
         Disconnected, LoopSevered, LoopEnds, FlushBegins, FlushEnds,
         OnResponseDrafted, OnResponseDone, BreaksWhenIdle, OnSpeechStarted,
         OnSpeechStopped, OnDelta, FlushChunk, FlushFails, ConnectionLost,
         ServiceCloses

\* A strand that reconnects does so alone: whichever way it goes, it is the
\* one active strand and there is no connection.
LEMMA DisconnectKeepsSession ==
  ASSUME TypeOK, Session, NEW s \in Strands, NEW n \in Nat,
         HandleDisconnectAfter(s, n),
         \A t \in Strands : Active(t) => t = s,
         s \in {Listener, listenTask, call}, state # "IDLE", pc[s] # "unused",
         \A c \in Conns : conn[c] = "open" => c \in Closing,
         UNCHANGED <<owed, listenTask, lineVars, conn, closing>>
  PROVE  Session'
<1> USE DEF lineVars
<1>1. PICK p \in {Rest(s), "backoff"} :
        /\ pc' = [pc EXCEPT ![s] = p] /\ ws' = None
        /\ p = "backoff" => state' = state
        /\ state' \in {state, "IDLE"}
  <2>1. Rest(s) # "backoff"
    BY StrandKinds
  <2>2. \/ pc' = [pc EXCEPT ![s] = Rest(s)] /\ state' \in {state, "IDLE"}
        \/ pc' = [pc EXCEPT ![s] = "backoff"] /\ state' = state
    BY DEF HandleDisconnectAfter
  <2> QED BY <2>1, <2>2 DEF HandleDisconnectAfter
<1>2. \A t \in Strands : t # s => ~Active(t)'
  BY <1>1 DEF TypeOK, Active
<1>3. pc'[s] = p /\ p \notin Attending
  BY <1>1, StrandKinds DEF TypeOK, Attending
<1>4. p # "backoff" => ~Active(s)'
  BY <1>1, <1>3, StrandKinds DEF Active, Attending, Dialling
<1>5. \A t \in Strands : pc'[t] \notin Attending
  BY <1>2, <1>3 DEF Active
<1>6. \A t \in Strands : Active(t)' => t = s /\ state' # "IDLE"
  BY <1>1, <1>2, <1>4
<1>7. ~onCall' => state' = "IDLE"
  BY <1>1 DEF Session
<1> QED BY <1>1, <1>5, <1>6, <1>7 DEF Session, Closing

LEMMA SessionStep == TypeOK /\ SessionInv /\ [Next]_vars => SessionInv'
<1> SUFFICES ASSUME TypeOK, Session, [Next]_vars, Only({"mode", "bye"})'
             PROVE  Session'
  BY FaultsStay DEF SessionInv
<1> USE DEF lineVars
<1>0. \A f \in {"race", "setup", "bridge", "late"} : ~Suffer(f)
  BY DEF Suffer, Only
<1>1. CASE UNCHANGED <<state, ws, owed, listenTask, lineVars, conn, pc, closing>>
  BY <1>1 DEF Session, Active, Closing
<1>2. CASE StartCall
  <2>1. /\ Closing = {} /\ ~onCall /\ call + 1 \in Strands
        /\ call' = call + 1 /\ onCall' = TRUE /\ state' = "LISTENING"
        /\ pc' = [pc EXCEPT ![call + 1] = "opening"]
        /\ UNCHANGED <<owed, ws, listenTask, conn, closing>>
    BY <1>0, <1>2, RealtimeAssumption DEF StartCall, Strands, Calls, TypeOK
  <2>2. ws = None /\ \A s \in Strands : ~Active(s)
    BY <2>1 DEF Session
  <2>3. \A s \in Strands : s # call + 1 => ~Active(s)'
    BY <2>1, <2>2 DEF Active, TypeOK
  <2>4. pc'[call + 1] = "opening" /\ "opening" \notin Attending
    BY <2>1 DEF TypeOK, Attending
  <2>5. \A s \in Strands : pc'[s] \notin Attending
    BY <2>3, <2>4 DEF Active
  <2>6. call' # 0
    BY <2>1 DEF TypeOK, Calls
  <2>7. \A s \in Strands : pc'[s] \in Dialling => s = call'
    BY <2>1, <2>3 DEF Active
  <2>8. \A c \in Conns : conn'[c] = "unused" => pc'[c] = "unused"
    <3>1. \A c \in Conns : c # call + 1 /\ c \in Strands
      BY <2>1, StrandKinds, RealtimeAssumption DEF TypeOK, Calls
    <3> QED BY <3>1, <2>1 DEF Session, TypeOK
  <2> QED BY <2>1, <2>2, <2>3, <2>5, <2>6, <2>7, <2>8
         DEF Session, Closing
<1>3. CASE EndCall
  <2>1. /\ pc[Listener] = "ready" /\ onCall' = FALSE /\ state' = "IDLE"
        /\ pc' = [s \in Strands |->
                    IF /\ s \in {listenTask, call}
                       /\ pc[s] \in Attending \cup Dialling
                    THEN "done" ELSE pc[s]]
        /\ \A s \in Strands : owed[s] = 0 => owed'[s] = 0
        /\ closing' = [c \in Conns |-> IF c = ws THEN closing[c] + 1 ELSE closing[c]]
        /\ UNCHANGED <<ws, listenTask, call, conn>>
    BY <1>3 DEF EndCall, EndCallCancelling
  <2>7. Closing' = Closing \cup ({ws} \ {None})
    <3>1. \A c \in Conns : closing[c] \in Nat /\ c # None
      BY RealtimeAssumption DEF TypeOK
    <3> QED BY <2>1, <3>1 DEF Closing, TypeOK
  <2>2. \A s \in Strands : ~Active(s)'
    BY <2>1 DEF Session, Active, Attending, Dialling
  <2>3. \A s \in Strands : pc[s] = "unused" => pc'[s] = "unused"
    BY <2>1 DEF Attending, Dialling
  <2>4. \A c \in Conns : conn'[c] = "unused" => pc'[c] = "unused"
    BY <2>1, <2>3, StrandKinds DEF Session
  <2>5. ws' = None \/ ws' \in Closing'
    BY <2>1, <2>7
  <2>6. \A c \in Conns : conn'[c] = "open" => ws' = c \/ c \in Closing'
    BY <2>1, <2>7 DEF Session
  <2> QED BY <2>1, <2>2, <2>4, <2>5, <2>6 DEF Session, Active
<1>4. CASE FeedAudioFails
  <2>1. /\ ws # None /\ state # "IDLE" /\ HandleDisconnectAfter(Listener, attempts)
        /\ conn[ws] \in {"lost", "closed"} /\ pc[ws] \notin Attending
        /\ UNCHANGED <<owed, listenTask, lineVars, conn, closing>>
    BY <1>0, <1>4 DEF FeedAudioFails, Feeding, HandleDisconnect
  <2>2. \A s \in Strands : ~Active(s)
    BY <2>1 DEF Session, Active
  <2>3. \A c \in Conns : conn[c] = "open" => c \in Closing
    BY <2>1 DEF Session
  <2>4. Listener \in Strands /\ attempts \in Nat /\ pc[Listener] # "unused"
    BY <1>4, StrandKinds DEF TypeOK, FeedAudioFails, Feeding
  <2> QED BY <2>1, <2>2, <2>3, <2>4, DisconnectKeepsSession
<1>5. CASE ApproveResponse
  <2>1. PICK released \in SUBSET Conns :
          /\ \A c \in released : pc[c] = "approval"
          /\ pc' = [s \in Strands |-> IF s \in released THEN "released" ELSE pc[s]]
    <3>1. {c \in Conns : pc[c] = "approval" /\ waitsOn[c] = call} \in SUBSET Conns
      OBVIOUS
    <3> QED BY <3>1, <1>5 DEF ApproveResponse
  <2>2. \A s \in Strands : /\ Active(s)' <=> Active(s)
                           /\ pc'[s] \in Dialling <=> pc[s] \in Dialling
                           /\ pc'[s] \in Attending <=> pc[s] \in Attending
    BY <2>1 DEF Active, Attending, Dialling
  <2>3. \A c \in Conns : pc[c] = "unused" => pc'[c] = "unused"
    BY <2>1, StrandKinds
  <2> QED BY <2>2, <2>3, <1>5 DEF ApproveResponse, Session, Closing
<1>6. ASSUME NEW s \in Strands, Redial(s) PROVE Session'
  <2>1. /\ pc[s] = "backoff" /\ pc' = [pc EXCEPT ![s] = "opening"]
        /\ UNCHANGED <<state, ws, owed, listenTask, lineVars, conn, closing>>
    BY <1>6 DEF Redial
  <2>2. \A t \in Strands : /\ Active(t)' <=> Active(t)
                           /\ pc'[t] \in Dialling <=> pc[t] \in Dialling
                           /\ pc'[t] \in Attending <=> pc[t] \in Attending
    BY <2>1 DEF TypeOK, Active, Attending, Dialling
  <2> QED BY <2>1, <2>2 DEF Session, Closing
<1>7. ASSUME NEW s \in Strands, Opened(s) PROVE Session'
  <2>1. PICK c \in Conns :
          /\ conn[c] = "unused" /\ conn' = [conn EXCEPT ![c] = "open"]
          /\ ws' = c /\ listenTask' = c
          /\ pc' = [pc EXCEPT ![c] = "recv", ![s] = Rest(s)]
    BY <1>7 DEF Opened, Fresh
  <2>2. /\ pc[s] = "opening"
        /\ UNCHANGED <<state, owed, lineVars, closing>>
    BY <1>7 DEF Opened
  <2>3. /\ Active(s) /\ state # "IDLE" /\ ws = None /\ s # c
        /\ \A t \in Strands : Active(t) => t = s
    <3>1. Active(s) /\ ws = None
      BY <2>2 DEF Active, Dialling, Session
    <3>2. state # "IDLE" /\ \A t \in Strands : Active(t) => t = s
      BY <3>1 DEF Session
    <3>3. s # c
      BY <2>1, <2>2 DEF Session
    <3> QED BY <3>1, <3>2, <3>3
  <2>4. pc'[c] = "recv" /\ \A t \in Strands : t # c => ~Active(t)'
    <3>1. pc'[c] = "recv" /\ pc'[s] = Rest(s)
      BY <2>1, <2>3, StrandKinds DEF TypeOK
    <3>2. \A t \in Strands : t # c /\ t # s => pc'[t] = pc[t]
      BY <2>1 DEF TypeOK
    <3>3. Rest(s) \notin Attending \cup Dialling
      BY StrandKinds DEF Attending, Dialling
    <3> QED BY <3>1, <3>2, <3>3, <2>3 DEF Active
  <2>5. \A d \in Conns : conn[d] = "open" => d \in Closing
    BY <2>3, RealtimeAssumption DEF Session
  <2>6. "recv" \in Attending /\ "recv" \notin Dialling
    BY DEF Attending, Dialling
  <2>7. ASSUME NEW d \in Conns, conn'[d] = "unused" PROVE pc'[d] = "unused"
    <3>1. d # c /\ conn[d] = "unused"
      BY <2>1, <2>7 DEF TypeOK
    <3>2. d # s /\ pc[d] = "unused"
      BY <3>1, <2>2 DEF Session
    <3> QED BY <3>1, <3>2, <2>1, StrandKinds DEF TypeOK
  <2>8. \A t \in Strands : pc'[t] \in Attending \cup Dialling => t = c
    BY <2>4 DEF Active
  <2>9. \A d \in Conns : conn'[d] = "open" => d = c \/ d \in Closing
    BY <2>1, <2>5 DEF TypeOK
  <2> QED BY <2>1, <2>2, <2>3, <2>4, <2>6, <2>7, <2>8, <2>9
         DEF Session, Active, Closing
<1>8. ASSUME NEW s \in Strands, OpenedWithin(s) PROVE FALSE
  BY <1>8 DEF OpenedWithin, Session
<1>9. ASSUME NEW s \in Strands, OpenFailed(s) PROVE Session'
  <2>1. /\ pc[s] = "opening" /\ HandleDisconnectAfter(s, attempts)
        /\ UNCHANGED <<lineVars, conn, closing>>
    BY <1>9 DEF OpenFailed, HandleDisconnect
  <2>2. owed' = owed /\ listenTask' = listenTask
    <3>1. owed[s] = 0
      BY DEF Session
    <3>2. [owed EXCEPT ![s] = 0] = owed
      BY <3>1 DEF TypeOK
    <3> QED BY <3>1, <3>2, <1>9 DEF OpenFailed, Unwinds
  <2>3. Active(s) /\ ws = None
    BY <2>1 DEF Active, Dialling, Session
  <2>4. /\ state # "IDLE" /\ s \in {Listener, listenTask, call}
        /\ \A t \in Strands : Active(t) => t = s
    BY <2>3 DEF Session
  <2>5. \A c \in Conns : conn[c] = "open" => c \in Closing
    BY <2>3, RealtimeAssumption DEF Session
  <2>6. attempts \in Nat
    BY DEF TypeOK
  <2> QED BY <2>1, <2>2, <2>4, <2>5, <2>6, DisconnectKeepsSession
<1>10. ASSUME NEW s \in Strands, SetupRefused(s) PROVE FALSE
  BY <1>0, <1>10 DEF SetupRefused
<1>11. ASSUME NEW c \in Conns, Disconnected(c) PROVE Session'
  <2>1. /\ c \in Closing
        /\ conn' = [conn EXCEPT ![c] = "closed"] /\ ws' = None
        /\ UNCHANGED <<state, owed, listenTask, lineVars, pc>>
        /\ \A d \in Conns : d # c => closing'[d] = closing[d]
    BY <1>11 DEF Disconnected, TypeOK
  <2>2. ~onCall /\ state = "IDLE" /\ \A s \in Strands : ~Active(s)
    BY <2>1 DEF Session
  <2>3. \A d \in Conns : conn[d] = "open" => d \in Closing
    BY <2>2, RealtimeAssumption DEF Session
  <2>4. \A s \in Strands : pc'[s] \notin Attending \cup Dialling
    BY <2>1, <2>2 DEF Active
  <2>5. \A d \in Conns : conn'[d] = "unused" => pc'[d] = "unused"
    BY <2>1 DEF Session, TypeOK
  <2>6. \A d \in Conns : conn'[d] = "open" => d \in Closing'
    BY <2>1, <2>3 DEF TypeOK, Closing
  <2> QED BY <2>1, <2>2, <2>4, <2>5, <2>6 DEF Session, Active
<1>12. ASSUME NEW c \in Conns, LoopSevered(c) PROVE Session'
  <2>1. /\ pc[c] = "recv" /\ conn[c] = "lost" /\ HandleDisconnectAfter(c, attempts)
        /\ UNCHANGED <<owed, listenTask, lineVars, conn, closing>>
    BY <1>12 DEF LoopSevered, HandleDisconnect
  <2>2. c \in Strands /\ Active(c) /\ ws = c
    BY <2>1, StrandKinds DEF Active, Attending, Session
  <2>3. /\ state # "IDLE" /\ c \in {Listener, listenTask, call}
        /\ \A t \in Strands : Active(t) => t = c
    BY <2>2 DEF Session
  <2>4. \A d \in Conns : conn[d] = "open" => d \in Closing
    BY <2>1, <2>2 DEF Session
  <2>5. attempts \in Nat
    BY DEF TypeOK
  <2> QED BY <2>1, <2>2, <2>3, <2>4, <2>5, DisconnectKeepsSession
<1>13. ASSUME NEW c \in Conns, pc[c] \in Attending
       PROVE  c \in Strands /\ state # "IDLE" /\ onCall
  BY <1>13, StrandKinds DEF Session, Active, TypeOK
<1>14. ASSUME NEW c \in Conns, LoopEnds(c) PROVE Session'
  <2>1. /\ pc[c] = "recv" /\ conn[c] = "closed" /\ pc' = [pc EXCEPT ![c] = "done"]
        /\ UNCHANGED <<state, ws, owed, listenTask, lineVars, conn, closing>>
    BY <1>14 DEF LoopEnds
  <2>2. "done" \notin Attending \cup Dialling
    BY DEF Attending, Dialling
  <2>3. \A s \in Strands :
          pc'[s] \in Attending \cup Dialling => pc'[s] = pc[s]
    BY <2>1, <2>2 DEF TypeOK
  <2>4. \A d \in Conns : conn'[d] = "unused" => pc'[d] = "unused"
    BY <2>1 DEF Session, TypeOK
  <2> QED BY <2>1, <2>3, <2>4 DEF Session, Active, Closing
<1>15. ASSUME NEW c \in Conns, BreaksWhenIdle(c) PROVE FALSE
  BY <1>13, <1>15 DEF BreaksWhenIdle, Attending
<1>16. ASSUME NEW c \in Conns, NEW p \in Attending, pc[c] \in Attending,
              pc' = [pc EXCEPT ![c] = p], state' # "IDLE",
              UNCHANGED <<ws, owed, listenTask, lineVars, conn, closing>>
       PROVE  Session'
  <2>1. \A s \in Strands : /\ Active(s)' <=> Active(s)
                           /\ pc'[s] \in Dialling <=> pc[s] \in Dialling
                           /\ pc'[s] \in Attending <=> pc[s] \in Attending
    BY <1>16 DEF TypeOK, Active, Attending, Dialling
  <2>2. \A d \in Conns : conn'[d] = "unused" => pc'[d] = "unused"
    BY <1>16 DEF Session, TypeOK, Attending
  <2> QED BY <2>1, <2>2, <1>13, <1>16 DEF Session, Closing
<1>17. ASSUME NEW c \in Conns, FlushBegins(c) \/ FlushEnds(c) PROVE Session'
  BY <1>16, <1>17 DEF FlushBegins, FlushEnds, Attending
<1>18. ASSUME NEW c \in Conns, OnResponseDrafted(c) PROVE Session'
  BY <1>16, <1>18 DEF OnResponseDrafted, Receives, Attending
<1>19. ASSUME NEW c \in Conns, pc[c] \in Attending, state' # "IDLE",
              UNCHANGED <<ws, owed, listenTask, lineVars, conn, pc, closing>>
       PROVE  Session'
  BY <1>13, <1>19 DEF Session, Active, Closing
<1>20. ASSUME NEW c \in Conns,
              \/ OnSpeechStarted(c) \/ OnSpeechStopped(c)
              \/ OnDelta(c) \/ OnResponseDone(c)
       PROVE  Session'
  BY <1>19, <1>20 DEF OnSpeechStarted, OnSpeechStopped, OnDelta, OnResponseDone,
                      Receives, Attending
<1>21. ASSUME NEW c \in Conns, FlushFails(c) PROVE FALSE
  BY <1>0, <1>21 DEF FlushFails
<1>22. ASSUME NEW c \in Conns, ConnectionLost(c) \/ ServiceCloses(c)
       PROVE  Session'
  <2>1. PICK x \in {"lost", "closed"} : conn' = [conn EXCEPT ![c] = x]
    BY <1>22 DEF ConnectionLost, ServiceCloses
  <2>2. conn[c] = "open"
        /\ UNCHANGED <<state, ws, owed, listenTask, lineVars, pc, closing>>
    BY <1>22 DEF ConnectionLost, ServiceCloses
  <2>3. \A d \in Conns : /\ conn'[d] = "open" => conn[d] = "open"
                         /\ conn'[d] = "unused" => conn[d] = "unused"
    BY <2>1 DEF TypeOK
  <2> QED BY <2>2, <2>3 DEF Session, Active, Closing
<1>23. ASSUME NEW m \in Modes, SetMode(m) PROVE Session'
  BY <1>1, <1>23 DEF SetMode
<1>24. ASSUME NEW c \in Conns, FlushChunk(c) PROVE Session'
  BY <1>1, <1>24 DEF FlushChunk
<1>25. CASE FeedAudio \/ UNCHANGED vars
  BY <1>1, <1>25 DEF FeedAudio, vars
<1> QED
  BY <1>2, <1>3, <1>4, <1>5, <1>6, <1>7, <1>8, <1>9, <1>10, <1>11, <1>12,
     <1>14, <1>15, <1>17, <1>18, <1>20, <1>21, <1>22, <1>23, <1>24, <1>25
     DEF Next, Dial, Loop, AnswerEnds

\* Only start_call leaves IDLE, and nothing is spoken there.
LEMMA IdleIsQuiet ==
  ASSUME TypeOK, Session, [Next]_vars, Only({"mode", "bye"}), state = "IDLE"
  PROVE  spoken' = spoken /\ (state' # "IDLE" => call' = call + 1)
<1>1. \A s \in Strands : ~Active(s)
  BY DEF Session
<1>2. \A c \in Conns : pc[c] \notin {"recv", "approval", "released", "flush"}
  BY <1>1, StrandKinds DEF Active, Attending
<1>3. \A s \in Strands : pc[s] \notin {"backoff", "opening"}
  BY <1>1 DEF Active, Dialling
<1>4. CASE StartCall \/ EndCall \/ FeedAudio \/ FeedAudioFails \/ ApproveResponse
  BY <1>4 DEF StartCall, EndCall, EndCallCancelling, FeedAudio, FeedAudioFails,
              Feeding, ApproveResponse, ghostVars
<1>5. ASSUME NEW m \in Modes, SetMode(m)
      PROVE  spoken' = spoken /\ (state' # "IDLE" => call' = call + 1)
  BY <1>5 DEF SetMode
<1>6. ASSUME NEW s \in Strands, Dial(s) \/ SetupRefused(s)
      PROVE  FALSE
  BY <1>3, <1>6 DEF Dial, Redial, Opened, OpenedWithin, OpenFailed, SetupRefused
<1>7. ASSUME NEW c \in Conns,
             \/ Disconnected(c) \/ ConnectionLost(c) \/ ServiceCloses(c)
      PROVE  spoken' = spoken /\ (state' # "IDLE" => call' = call + 1)
  BY <1>7 DEF Disconnected, ConnectionLost, ServiceCloses, ghostVars
<1>8. ASSUME NEW c \in Conns,
             \/ Loop(c) \/ AnswerEnds(c) \/ BreaksWhenIdle(c)
             \/ OnSpeechStarted(c) \/ OnSpeechStopped(c) \/ OnDelta(c)
             \/ FlushChunk(c) \/ FlushFails(c)
      PROVE  FALSE
  BY <1>2, <1>8 DEF Loop, LoopSevered, LoopEnds, FlushBegins, FlushEnds,
       AnswerEnds, OnResponseDrafted, OnResponseDone, BreaksWhenIdle,
       OnSpeechStarted, OnSpeechStopped, OnDelta, FlushChunk, FlushFails, Receives
<1>9. CASE UNCHANGED vars
  BY <1>9 DEF vars, ghostVars
<1> QED BY <1>4, <1>5, <1>6, <1>7, <1>8, <1>9 DEF Next

LEMMA SessionInvariant == Spec => [](TypeOK /\ SessionInv)
<1>1. Init => SessionInv
  <2> SUFFICES ASSUME Init PROVE Session
    BY DEF SessionInv
  <2>1. \A s \in Strands : pc[s] \notin Attending \cup Dialling
    BY DEF Init, Attending, Dialling
  <2>2. \A c \in Conns : pc[c] = "unused"
    BY StrandKinds DEF Init
  <2> QED BY <2>1, <2>2 DEF Init, Session, Active
<1>2. TypeOK /\ SessionInv /\ [Next]_vars => (TypeOK /\ SessionInv)'
  BY TypeStep, SessionStep
<1> QED BY <1>1, <1>2, TypeInit, PTL DEF Spec

\* Whatever fails or drops, one connection is read at a time, in a call, and
\* no other is open but those being closed, as long as no two tasks reconnect
\* at once and _disconnect forgets no connection of a later call.
THEOREM OnlyOneSession == Spec => []OneSession
<1>1. TypeOK /\ SessionInv => OneSession
  BY StrandKinds DEF SessionInv, Session, Active, OneSession
<1> QED BY <1>1, SessionInvariant, PTL

--------------------------------------------------------------------------
(* What is spoken.                                                         *)

\* Nothing is asked, buffered or said, and no strand begins to read or to wait.
Quiet ==
  /\ UNCHANGED <<draftVars, asker, spoken, call>>
  /\ \A c \in Conns :
       /\ pc'[c] \in Attending => pc[c] \in Attending
       /\ pc'[c] = "approval" => pc[c] = "approval" /\ waitsOn'[c] = waitsOn[c]
       /\ conn'[c] = "unused" => conn[c] = "unused"
       /\ heard'[c] \in {0, heard[c]} /\ answer'[c] \subseteq answer[c]

\* These actions are quiet, and some of them do not happen in a session.
LEMMA QuietSteps ==
  ASSUME TypeOK, Session, [Next]_vars, Only({"mode", "bye"})',
         \/ EndCall \/ FeedAudioFails \/ ApproveResponse
         \/ \E m \in Modes : SetMode(m)
         \/ \E s \in Strands :
              Redial(s) \/ OpenedWithin(s) \/ OpenFailed(s) \/ SetupRefused(s)
         \/ \E c \in Conns :
              \/ Disconnected(c) \/ LoopSevered(c) \/ LoopEnds(c)
              \/ FlushBegins(c) \/ BreaksWhenIdle(c) \/ OnSpeechStarted(c)
              \/ FlushFails(c) \/ ConnectionLost(c) \/ ServiceCloses(c)
         \/ UNCHANGED vars
  PROVE  Quiet
<1> USE DEF lineVars, ghostVars, draftVars, serviceVars
<1>0. \A f \in {"race", "setup", "bridge", "late"} : ~Suffer(f)
  BY DEF Suffer, Only
<1>1. ASSUME UNCHANGED <<draftVars, serviceVars, spoken, call, conn, waitsOn>>,
             \A c \in Conns : pc'[c] \in Attending => pc'[c] = pc[c]
      PROVE  Quiet
  <2>1. "approval" \in Attending
    BY DEF Attending
  <2> QED BY <1>1, <2>1 DEF Quiet
<1>2. ASSUME NEW s \in Strands, NEW n, HandleDisconnectAfter(s, n)
      PROVE  \A c \in Conns : pc'[c] \in Attending => pc'[c] = pc[c]
  <2>1. Rest(s) \notin Attending /\ "backoff" \notin Attending
    BY StrandKinds DEF Attending
  <2>2. PICK p : p \notin Attending /\ pc' = [pc EXCEPT ![s] = p]
    BY <1>2, <2>1 DEF HandleDisconnectAfter
  <2> QED BY <2>2, StrandKinds DEF TypeOK
<1>3. CASE EndCall
  <2>1. \A c \in Conns : pc'[c] = pc[c] \/ pc'[c] = "done"
    BY <1>3, StrandKinds DEF EndCall, EndCallCancelling
  <2>2. "done" \notin Attending
    BY DEF Attending
  <2> QED BY <1>1, <2>1, <2>2, <1>3 DEF EndCall, EndCallCancelling
<1>4. CASE FeedAudioFails
  BY <1>1, <1>2, <1>4, StrandKinds DEF FeedAudioFails, HandleDisconnect
<1>5. CASE ApproveResponse
  <2> DEFINE released == {c \in Conns : pc[c] = "approval" /\ waitsOn[c] = call}
  <2>1. \A c \in Conns :
          IF c \in released
          THEN pc[c] = "approval" /\ pc'[c] = "released"
          ELSE pc'[c] = pc[c] /\ waitsOn'[c] = waitsOn[c]
    BY <1>5, StrandKinds DEF ApproveResponse
  <2>2. UNCHANGED <<draftVars, serviceVars, spoken, call, conn>>
    BY <1>5 DEF ApproveResponse
  <2> QED BY <2>1, <2>2 DEF Quiet, Attending
<1>6. ASSUME NEW m \in Modes, SetMode(m) PROVE Quiet
  BY <1>1, <1>6 DEF SetMode
<1>7. ASSUME NEW s \in Strands, Redial(s) PROVE Quiet
  <2>1. \A c \in Conns : pc'[c] \in Attending => pc'[c] = pc[c]
    BY <1>7, StrandKinds DEF Redial, TypeOK, Attending
  <2> QED BY <1>1, <2>1, <1>7 DEF Redial
<1>8. ASSUME NEW s \in Strands, OpenedWithin(s) \/ SetupRefused(s) PROVE FALSE
  BY <1>0, <1>8 DEF OpenedWithin, SetupRefused, Session
<1>9. ASSUME NEW s \in Strands, OpenFailed(s) PROVE Quiet
  BY <1>1, <1>2, <1>9 DEF OpenFailed, HandleDisconnect
<1>10. ASSUME NEW c \in Conns,
              Disconnected(c) \/ ConnectionLost(c) \/ ServiceCloses(c)
       PROVE  Quiet
  <2>1. PICK x \in {"lost", "closed"} : conn' = [conn EXCEPT ![c] = x]
    BY <1>10 DEF Disconnected, ConnectionLost, ServiceCloses
  <2>2. \A d \in Conns : conn'[d] = "unused" => conn[d] = "unused"
    BY <2>1 DEF TypeOK
  <2>3. \A d \in Conns : heard'[d] \in {0, heard[d]} /\ answer'[d] \subseteq answer[d]
    BY <1>10 DEF Disconnected, ConnectionLost, ServiceCloses, Silent, TypeOK
  <2>4. UNCHANGED <<draftVars, asker, spoken, call, pc, waitsOn>>
    BY <1>10 DEF Disconnected, ConnectionLost, ServiceCloses
  <2> QED BY <2>2, <2>3, <2>4 DEF Quiet
<1>11. ASSUME NEW c \in Conns, LoopSevered(c) PROVE Quiet
  BY <1>1, <1>2, <1>11, StrandKinds DEF LoopSevered, HandleDisconnect
<1>12. ASSUME NEW c \in Conns, LoopEnds(c) \/ BreaksWhenIdle(c) PROVE Quiet
  <2>1. "done" \notin Attending /\ pc' = [pc EXCEPT ![c] = "done"]
    BY <1>12 DEF LoopEnds, BreaksWhenIdle, Attending
  <2>2. \A d \in Conns : pc'[d] \in Attending => pc'[d] = pc[d]
    BY <2>1, StrandKinds DEF TypeOK
  <2> QED BY <1>1, <2>2, <1>12 DEF LoopEnds, BreaksWhenIdle
<1>13. ASSUME NEW c \in Conns, FlushBegins(c) PROVE Quiet
  <2>1. pc[c] = "released" /\ pc' = [pc EXCEPT ![c] = "flush"]
    BY <1>13 DEF FlushBegins
  <2>2. \A d \in Conns : pc'[d] = IF d = c THEN "flush" ELSE pc[d]
    BY <2>1, StrandKinds DEF TypeOK
  <2>3. UNCHANGED <<draftVars, serviceVars, spoken, call, conn, waitsOn>>
    BY <1>13 DEF FlushBegins
  <2> QED BY <2>1, <2>2, <2>3 DEF Quiet, Attending
<1>14. ASSUME NEW c \in Conns, OnSpeechStarted(c) PROVE Quiet
  BY <1>1, <1>14 DEF OnSpeechStarted
<1>15. ASSUME NEW c \in Conns, FlushFails(c) PROVE FALSE
  BY <1>0, <1>15 DEF FlushFails
<1>16. CASE UNCHANGED vars
  BY <1>1, <1>16 DEF vars
<1> QED
  BY <1>3, <1>4, <1>5, <1>6, <1>7, <1>8, <1>9, <1>10, <1>11, <1>12, <1>13,
     <1>14, <1>15, <1>16

LEMMA CallerStep ==
  TypeOK /\ SessionInv /\ CallerInv /\ [Next]_vars => CallerInv'
<1> SUFFICES ASSUME TypeOK, Session, Callers, [Next]_vars,
                    Only({"mode", "bye"})'
             PROVE  Callers'
  BY FaultsStay DEF SessionInv, CallerInv
<1> USE DEF lineVars, ghostVars, draftVars, serviceVars
<1>0. \A f \in {"race", "setup", "bridge", "late"} : ~Suffer(f)
  BY DEF Suffer, Only
<1>1. ASSUME Quiet PROVE Callers'
  <2>1. \A c \in Conns :
          conn'[c] = "unused" => heard'[c] = 0 /\ answer'[c] = {}
    BY <1>1 DEF Quiet, Callers
  <2>2. ASSUME NEW c \in Conns, pc'[c] \in Attending
        PROVE  /\ heard'[c] \in {0, call'}
               /\ \A a \in answer'[c] : asker'[a] = call'
    BY <1>1, <2>2 DEF Quiet, Callers
  <2>3. \A c \in Conns : pc'[c] = "approval" => chunks' # {} /\ waitsOn'[c] = call'
    BY <1>1 DEF Quiet, Callers
  <2> QED BY <1>1, <2>1, <2>2, <2>3 DEF Quiet, Callers
<1>11. "approval" \in Attending /\ "recv" \in Attending /\ "flush" \in Attending
  BY DEF Attending
<1>2. CASE StartCall
  <2>1. ~onCall /\ \A s \in Strands : ~Active(s)
    BY <1>2 DEF StartCall, Session
  <2>2. \A c \in Conns : pc'[c] \notin Attending
    BY <2>1, <1>2, StrandKinds DEF StartCall, TypeOK, Active, Attending
  <2>3. chunks' = {} /\ UNCHANGED <<conn, serviceVars, spoken>>
    BY <1>2 DEF StartCall
  <2> QED BY <2>2, <2>3, <1>11 DEF Callers
<1>3. CASE FeedAudio
  <2>1. /\ ws \in Conns /\ conn[ws] = "open"
        /\ heard' = [heard EXCEPT ![ws] = call]
        /\ UNCHANGED <<draftVars, answer, asker, spoken, call, conn, pc, waitsOn>>
    BY <1>3 DEF FeedAudio, Feeding, TypeOK
  <2>2. \A c \in Conns : heard'[c] = heard[c] \/ heard'[c] = call
    BY <2>1 DEF TypeOK
  <2>3. \A c \in Conns : conn[c] = "unused" => heard'[c] = heard[c]
    BY <2>1 DEF TypeOK
  <2> QED BY <2>1, <2>2, <2>3 DEF Callers
<1>4. ASSUME NEW s \in Strands, Opened(s) PROVE Callers'
  <2>1. PICK c \in Conns :
          /\ conn[c] = "unused" /\ conn' = [conn EXCEPT ![c] = "open"]
          /\ pc' = [pc EXCEPT ![c] = "recv", ![s] = Rest(s)]
    BY <1>4 DEF Opened, Fresh
  <2>2. \A d \in Conns :
          /\ d # c /\ pc'[d] \in Attending => pc[d] \in Attending
          /\ pc'[d] = "approval" => pc[d] = "approval"
          /\ conn'[d] = "unused" => conn[d] = "unused"
    BY <2>1, StrandKinds DEF TypeOK, Attending
  <2>3. heard[c] = 0 /\ answer[c] = {}
    BY <2>1 DEF Callers
  <2>4. UNCHANGED <<draftVars, serviceVars, spoken, call, waitsOn>>
    BY <1>4 DEF Opened
  <2> QED BY <2>2, <2>3, <2>4 DEF Callers
<1>5. ASSUME NEW c \in Conns, Receives(c)
      PROVE  /\ heard[c] = call /\ call # 0 /\ pc[c] \in Attending
             /\ \A a \in answer[c] : asker[a] = call
  BY <1>5, <1>11 DEF Receives, Callers
<1>6. ASSUME NEW c \in Conns, OnSpeechStopped(c) PROVE Callers'
  <2>1. PICK a \in Answers : /\ asker[a] = 0
                             /\ asker' = [asker EXCEPT ![a] = heard[c]]
                             /\ answer' = [answer EXCEPT ![c] = @ \cup {a}]
    BY <1>6 DEF OnSpeechStopped
  <2>2. /\ heard[c] = call /\ call # 0 /\ conn[c] = "open"
        /\ \A b \in answer[c] : asker[b] = call
    BY <1>5, <1>6 DEF OnSpeechStopped, Receives
  <2>3. \A b \in Answers : asker[b] = call => asker'[b] = call
    BY <2>1, <2>2 DEF TypeOK
  <2>4. \A b \in Answers : asker[b] # 0 => asker'[b] = asker[b]
    BY <2>1 DEF TypeOK
  <2>5. UNCHANGED <<chunks, heard, spoken, call, conn, pc, waitsOn>>
    BY <1>6 DEF OnSpeechStopped
  <2>6. ASSUME NEW d \in Conns, pc'[d] \in Attending
        PROVE  /\ heard'[d] \in {0, call'}
               /\ \A b \in answer'[d] : asker'[b] = call'
    <3>1. answer[d] \subseteq Answers
      BY DEF TypeOK
    <3>2. CASE d = c
      <4>1. answer'[c] = answer[c] \cup {a}
        BY <2>1 DEF TypeOK
      <4>2. asker'[a] = call
        BY <2>1, <2>2 DEF TypeOK
      <4> QED BY <3>1, <3>2, <4>1, <4>2, <2>2, <2>3, <2>5
    <3>3. CASE d # c
      <4>1. answer'[d] = answer[d]
        BY <3>3, <2>1 DEF TypeOK
      <4>2. heard[d] \in {0, call} /\ \A b \in answer[d] : asker[b] = call
        BY <2>5, <2>6 DEF Callers
      <4> QED BY <3>1, <4>1, <4>2, <2>3, <2>5
    <3> QED BY <3>2, <3>3
  <2>7. \A d \in Conns : conn'[d] = "unused" => heard'[d] = 0 /\ answer'[d] = {}
    <3>1. \A d \in Conns : d # c => answer'[d] = answer[d]
      BY <2>1 DEF TypeOK
    <3> QED BY <3>1, <2>2, <2>5 DEF Callers
  <2>8. \A b \in chunks' : asker'[b] = call'
    BY <2>3, <2>5 DEF Callers, TypeOK
  <2>9. \A p \in spoken' : asker'[p[1]] = p[2] /\ p[2] # 0
    <3>1. \A p \in spoken : p[1] \in Answers
      BY DEF TypeOK
    <3> QED BY <3>1, <2>4, <2>5 DEF Callers
  <2>10. \A d \in Conns : pc'[d] = "approval" => chunks' # {} /\ waitsOn'[d] = call'
    BY <2>5 DEF Callers
  <2> QED BY <2>6, <2>7, <2>8, <2>9, <2>10 DEF Callers
<1>7. ASSUME NEW c \in Conns, OnDelta(c) PROVE Callers'
  <2>1. PICK a \in answer[c] :
          /\ chunks \subseteq chunks' /\ chunks' \subseteq chunks \cup {a}
          /\ spoken' \subseteq spoken \cup {<<a, call, "live">>}
    BY <1>7 DEF OnDelta
  <2>2. asker[a] = call /\ call # 0
    BY <1>5, <1>7, <2>1 DEF OnDelta
  <2>3. \A b \in chunks' : asker[b] = call
    BY <2>1, <2>2 DEF Callers
  <2>4. \A p \in spoken' : asker[p[1]] = p[2] /\ p[2] # 0
    BY <2>1, <2>2 DEF Callers
  <2>5. UNCHANGED <<serviceVars, call, conn, pc, waitsOn>>
    BY <1>7 DEF OnDelta
  <2> QED BY <2>1, <2>3, <2>4, <2>5 DEF Callers
<1>8. ASSUME NEW c \in Conns, FlushChunk(c) PROVE Callers'
  <2>1. PICK a \in chunks, how \in Hows :
          spoken' = spoken \cup {<<a, call, how>>}
    BY <1>8 DEF FlushChunk, Hows
  <2>2. UNCHANGED <<draftVars, serviceVars, call, conn, pc, waitsOn>>
    BY <1>8 DEF FlushChunk
  <2>3. call # 0
    <3>1. Active(c) /\ c \in Strands
      BY <1>8, StrandKinds DEF FlushChunk, Active, Attending
    <3> QED BY <3>1 DEF Session, TypeOK
  <2>4. \A p \in spoken' : asker[p[1]] = p[2] /\ p[2] # 0
    BY <2>1, <2>3 DEF Callers
  <2> QED BY <2>2, <2>4 DEF Callers
<1>9. ASSUME NEW c \in Conns, OnResponseDrafted(c) \/ OnResponseDone(c)
      PROVE  Callers'
  <2>1. UNCHANGED <<chunks, heard, asker, spoken, call, conn>>
    BY <1>9 DEF OnResponseDrafted, OnResponseDone
  <2>2. \A d \in Conns : answer'[d] \subseteq answer[d]
    BY <1>9 DEF OnResponseDrafted, OnResponseDone, Delivered, TypeOK
  <2>3. pc[c] \in Attending
    BY <1>5, <1>9 DEF OnResponseDrafted, OnResponseDone
  <2>4. \/ pc' = pc /\ waitsOn' = waitsOn
        \/ /\ pc' = [pc EXCEPT ![c] = "approval"] /\ chunks # {}
           /\ waitsOn' = [waitsOn EXCEPT ![c] = call]
    BY <1>9 DEF OnResponseDrafted, OnResponseDone
  <2>5. \A d \in Conns : pc'[d] \in Attending => pc[d] \in Attending
    BY <2>3, <2>4, StrandKinds DEF TypeOK
  <2>6. \A d \in Conns : pc'[d] = "approval" => chunks' # {} /\ waitsOn'[d] = call'
    BY <2>1, <2>4, StrandKinds DEF TypeOK, Callers
  <2> QED BY <2>1, <2>2, <2>5, <2>6 DEF Callers
<1>10. ASSUME NEW c \in Conns, FlushEnds(c) PROVE Callers'
  <2>1. /\ chunks' = {} /\ pc[c] = "flush"
        /\ pc' = [pc EXCEPT ![c] = "recv"]
        /\ UNCHANGED <<serviceVars, spoken, call, conn>>
    BY <1>10 DEF FlushEnds
  <2>2. \A d \in Conns : d # c => pc[d] \notin Attending
    BY <2>1, <1>11, StrandKinds DEF Session, Active
  <2>3. \A d \in Conns : /\ pc'[d] \in Attending => pc[d] \in Attending
                         /\ pc'[d] # "approval"
    BY <2>1, <2>2, <1>11, StrandKinds DEF TypeOK
  <2> QED BY <2>1, <2>3 DEF Callers
<1> QED
  BY <1>1, <1>2, <1>3, <1>4, <1>6, <1>7, <1>8, <1>9, <1>10, QuietSteps
     DEF Next, Dial, Loop, AnswerEnds

LEMMA DraftStep ==
  TypeOK /\ SessionInv /\ DraftInv /\ [Next]_vars => DraftInv'
<1> SUFFICES ASSUME TypeOK, Session, Drafts, [Next]_vars, Only({"bye"})'
             PROVE  Drafts'
  BY FaultsStay DEF SessionInv, DraftInv, Only
<1> USE DEF lineVars, ghostVars, draftVars, serviceVars
<1> DEFINE Waiting == {"approval", "released", "flush"}
<1>0. ~Suffer("mode") /\ Only({"mode", "bye"})'
  BY DEF Suffer, Only
<1>1. ASSUME UNCHANGED <<draftVars, mode, draft, spoken>>,
             \A c \in Conns : pc'[c] \in Waiting => pc'[c] = pc[c]
      PROVE  Drafts'
  BY <1>1 DEF Drafts
<1>2. Waiting \subseteq Attending
  BY DEF Attending
<1>3. ASSUME NEW c \in Conns, pc[c] \in Attending
      PROVE  /\ state # "IDLE"
             /\ \A d \in Conns : d # c => pc[d] \notin Waiting
  BY <1>2, <1>3, StrandKinds DEF Session, Active
<1>4. ASSUME NEW s \in Strands, NEW n, HandleDisconnectAfter(s, n)
      PROVE  \A c \in Conns : pc'[c] \in Waiting => pc'[c] = pc[c]
  <2>1. PICK p : p \notin Waiting /\ pc' = [pc EXCEPT ![s] = p]
    BY <1>4, StrandKinds DEF HandleDisconnectAfter
  <2> QED BY <2>1, StrandKinds DEF TypeOK
<1>5. CASE StartCall
  <2>1. ~onCall /\ \A s \in Strands : ~Active(s)
    BY <1>5 DEF StartCall, Session
  <2>2. \A c \in Conns : pc'[c] \notin Waiting
    BY <2>1, <1>2, <1>5, StrandKinds DEF StartCall, TypeOK, Active
  <2>3. chunks' = {} /\ UNCHANGED <<mode, draft, spoken>>
    BY <1>5 DEF StartCall
  <2> QED BY <2>2, <2>3 DEF Drafts
<1>6. CASE EndCall
  <2>1. \A c \in Conns : pc'[c] = pc[c] \/ pc'[c] = "done"
    BY <1>6, StrandKinds DEF EndCall, EndCallCancelling
  <2> QED BY <2>1, <1>1, <1>6 DEF EndCall, EndCallCancelling
<1>7. CASE FeedAudioFails
  BY <1>1, <1>4, <1>7, StrandKinds DEF FeedAudioFails, HandleDisconnect
<1>8. CASE ApproveResponse
  <2> DEFINE released == {c \in Conns : pc[c] = "approval" /\ waitsOn[c] = call}
  <2>1. /\ \A c \in Conns : pc'[c] = IF c \in released THEN "released" ELSE pc[c]
        /\ draft' = [draft EXCEPT !.approved = @ \/ released # {}]
        /\ UNCHANGED <<draftVars, mode, spoken>>
    BY <1>8, StrandKinds DEF ApproveResponse
  <2>2. draft'.text = draft.text /\ (draft'.approved <=> draft.approved \/ released # {})
    BY <2>1 DEF TypeOK
  <2>3. ASSUME NEW c \in Conns
        PROVE  /\ pc'[c] \in Waiting => chunks' \subseteq draft'.text
               /\ pc'[c] \in {"released", "flush"} => draft'.approved
    <3>1. CASE c \in released
      BY <3>1, <2>1, <2>2 DEF Drafts
    <3>2. CASE c \notin released
      BY <3>2, <2>1, <2>2 DEF Drafts
    <3> QED BY <3>1, <3>2
  <2> QED BY <2>1, <2>3 DEF Drafts
<1>9. ASSUME NEW m \in Modes, SetMode(m) PROVE Drafts'
  <2>1. state = "IDLE" /\ chunks = {}
    BY <1>0, <1>9 DEF SetMode
  <2>2. \A c \in Conns : pc[c] \notin Waiting
    BY <2>1, <1>2, <1>3
  <2> QED BY <2>1, <2>2, <1>9 DEF SetMode, Drafts
<1>10. ASSUME NEW s \in Strands, Redial(s) \/ OpenFailed(s) PROVE Drafts'
  <2>1. ASSUME Redial(s)
        PROVE  \A c \in Conns : pc'[c] \in Waiting => pc'[c] = pc[c]
    BY <2>1, StrandKinds DEF Redial, TypeOK
  <2> QED BY <2>1, <1>1, <1>4, <1>10 DEF Redial, OpenFailed, HandleDisconnect
<1>11. ASSUME NEW s \in Strands, Opened(s) PROVE Drafts'
  <2>1. PICK c \in Conns : pc' = [pc EXCEPT ![c] = "recv", ![s] = Rest(s)]
    BY <1>11 DEF Opened
  <2>2. Rest(s) \notin Waiting
    BY StrandKinds
  <2>3. \A d \in Conns : pc'[d] \in Waiting => pc'[d] = pc[d]
    BY <2>1, <2>2, StrandKinds DEF TypeOK
  <2> QED BY <2>3, <1>1, <1>11 DEF Opened
<1>12. ASSUME NEW s \in Strands, OpenedWithin(s) \/ SetupRefused(s) PROVE Drafts'
  <2>1. ~Suffer("setup")
    BY DEF Suffer, Only
  <2> QED BY <2>1, <1>12 DEF OpenedWithin, SetupRefused, Session
<1>13. ASSUME NEW c \in Conns, LoopSevered(c) PROVE Drafts'
  BY <1>1, <1>4, <1>13, StrandKinds DEF LoopSevered, HandleDisconnect
<1>14. ASSUME NEW c \in Conns, LoopEnds(c) \/ BreaksWhenIdle(c) PROVE Drafts'
  <2>1. \A d \in Conns : pc'[d] \in Waiting => pc'[d] = pc[d]
    BY <1>14, StrandKinds DEF LoopEnds, BreaksWhenIdle, TypeOK
  <2> QED BY <2>1, <1>1, <1>14 DEF LoopEnds, BreaksWhenIdle
<1>15. ASSUME NEW c \in Conns, FlushBegins(c) PROVE Drafts'
  <2>1. /\ pc[c] = "released" /\ pc' = [pc EXCEPT ![c] = "flush"]
        /\ UNCHANGED <<draftVars, mode, draft, spoken>>
    BY <1>15 DEF FlushBegins
  <2>2. \A d \in Conns : pc'[d] = IF d = c THEN "flush" ELSE pc[d]
    BY <2>1, StrandKinds DEF TypeOK
  <2>3. chunks \subseteq draft.text /\ draft.approved
    BY <2>1 DEF Drafts
  <2> QED BY <2>1, <2>2, <2>3 DEF Drafts
<1>16. ASSUME NEW c \in Conns, FlushEnds(c) PROVE Drafts'
  <2>1. /\ pc[c] \in Attending /\ chunks' = {}
        /\ pc' = [pc EXCEPT ![c] = "recv"]
        /\ UNCHANGED <<mode, spoken>>
    BY <1>16 DEF FlushEnds, Attending
  <2>2. \A d \in Conns : pc'[d] \notin Waiting
    BY <2>1, <1>3, StrandKinds DEF TypeOK
  <2> QED BY <2>1, <2>2 DEF Drafts
<1>17. ASSUME NEW c \in Conns, FlushChunk(c) PROVE Drafts'
  <2>1. draft.approved /\ chunks \subseteq draft.text
    BY <1>17 DEF FlushChunk, Drafts
  <2>2. PICK a \in chunks : spoken' = spoken \cup {<<a, call, "approved">>}
    BY <2>1, <1>17 DEF FlushChunk
  <2>3. UNCHANGED <<draftVars, mode, draft, pc>>
    BY <1>17 DEF FlushChunk
  <2>4. \A p \in spoken' : p[3] # "unseen"
    BY <2>2 DEF Drafts
  <2> QED BY <2>3, <2>4 DEF Drafts
<1>18. ASSUME NEW c \in Conns, OnDelta(c) PROVE Drafts'
  <2>1. pc[c] = "recv" /\ pc' = pc /\ draft' = draft
    BY <1>18 DEF OnDelta, Receives
  <2>2. \A d \in Conns : pc[d] \notin Waiting
    <3>1. "recv" \in Attending /\ "recv" \notin Waiting
      BY DEF Attending
    <3> QED BY <3>1, <2>1, <1>3
  <2>3. chunks' \subseteq text' /\ (mode' = "autonomous" => chunks' = {})
    BY <1>18 DEF OnDelta, Drafts
  <2>4. \A p \in spoken' : p[3] # "unseen"
    BY <1>18 DEF OnDelta, Drafts
  <2> QED BY <2>1, <2>2, <2>3, <2>4 DEF Drafts
<1>19. ASSUME NEW c \in Conns, OnResponseDrafted(c) PROVE Drafts'
  <2>1. /\ pc[c] = "recv"
        /\ draft' = [text |-> text, approved |-> FALSE]
        /\ pc' = [pc EXCEPT ![c] = "approval"]
        /\ UNCHANGED <<draftVars, mode, spoken>>
    BY <1>19 DEF OnResponseDrafted, Receives
  <2>2. \A d \in Conns : d # c => pc'[d] \notin Waiting
    <3>1. "recv" \in Attending
      BY DEF Attending
    <3> QED BY <3>1, <2>1, <1>3, StrandKinds DEF TypeOK
  <2>3. pc'[c] = "approval"
    BY <2>1, StrandKinds DEF TypeOK
  <2> QED BY <2>1, <2>2, <2>3 DEF Drafts
<1>20. ASSUME NEW c \in Conns, OnResponseDone(c) PROVE Drafts'
  <2>1. chunks = {} /\ UNCHANGED <<chunks, mode, draft, spoken, pc>>
    <3>1. mode # "hitl" => chunks = {}
      BY DEF Drafts, TypeOK, Modes
    <3> QED BY <3>1, <1>20 DEF OnResponseDone
  <2> QED BY <2>1 DEF Drafts
<1>21. ASSUME NEW c \in Conns,
              \/ Disconnected(c) \/ ConnectionLost(c) \/ ServiceCloses(c)
              \/ OnSpeechStarted(c) \/ OnSpeechStopped(c)
       PROVE  Drafts'
  BY <1>1, <1>21 DEF Disconnected, ConnectionLost, ServiceCloses,
                     OnSpeechStarted, OnSpeechStopped
<1>22. ASSUME NEW c \in Conns, FlushFails(c) PROVE Drafts'
  BY <1>1, <1>4, <1>22, StrandKinds DEF FlushFails, HandleDisconnect
<1>23. CASE FeedAudio \/ UNCHANGED vars
  BY <1>1, <1>23 DEF FeedAudio, vars
<1> QED
  BY <1>5, <1>6, <1>7, <1>8, <1>9, <1>10, <1>11, <1>12, <1>13, <1>14, <1>15,
     <1>16, <1>17, <1>18, <1>19, <1>20, <1>21, <1>22, <1>23
     DEF Next, Dial, Loop, AnswerEnds

LEMMA SpeechInvariant == Spec => [](CallerInv /\ DraftInv)
<1>1. Init => CallerInv /\ DraftInv
  <2> SUFFICES ASSUME Init PROVE Callers /\ Drafts
    BY DEF CallerInv, DraftInv
  <2>1. \A c \in Conns : pc[c] = "unused"
    BY StrandKinds DEF Init
  <2> QED BY <2>1 DEF Init, Callers, Drafts, Attending
<1> QED BY <1>1, CallerStep, DraftStep, SessionInvariant, PTL DEF Spec

\* What is spoken in a call answers what was said in that call: neither a
\* connection nor a receive loop nor a buffered chunk survives into the next.
THEOREM EveryAnswerHasItsCaller == Spec => []AnswersItsCaller
<1>1. CallerInv => AnswersItsCaller
  BY DEF CallerInv, Callers, AnswersItsCaller
<1> QED BY <1>1, SpeechInvariant, PTL

\* Buffered audio goes on the air only with its text in an approved draft,
\* unless the mode is switched in the call or something else fails than the
\* connections to the service.
THEOREM EveryDraftIsShown == Spec => []ShownBeforeSpoken
<1>1. DraftInv => ShownBeforeSpoken
  BY DEF DraftInv, Drafts, ShownBeforeSpoken
<1> QED BY <1>1, SpeechInvariant, PTL

\* A receive loop that waits has audio buffered and awaits the event of the
\* present call, mode switches included: in hitl mode approve_response releases
\* it.  In autonomous mode it ignores the approval, and the loop goes on waiting.
THEOREM WaitsForThisCall == Spec => []DraftReleasable
<1>1. CallerInv => DraftReleasable
  BY DEF CallerInv, Callers, DraftReleasable
<1> QED BY <1>1, SpeechInvariant, PTL

--------------------------------------------------------------------------
(* The interface.                                                          *)

\* One more thing said is one more answer to its query.
LEMMA SaidGrows ==
  ASSUME NEW q, NEW c, NEW how, spoken' = spoken \cup {<<q, c, how>>}
  PROVE  Said' = Said \cup {<<q, c>>}
<1>1. ASSUME NEW x \in Said' PROVE x \in Said \cup {<<q, c>>}
  <2>1. PICK p \in spoken' : x = <<p[1], p[2]>>
    BY <1>1 DEF Said
  <2>2. CASE p \in spoken
    BY <2>1, <2>2 DEF Said
  <2>3. CASE p = <<q, c, how>>
    BY <2>1, <2>3
  <2> QED BY <2>1, <2>2, <2>3
<1>2. ASSUME NEW x \in Said PROVE x \in Said'
  BY <1>2 DEF Said
<1>3. <<q, c>> \in Said'
  <2>1. PICK p \in spoken' : p[1] = q /\ p[2] = c
    <3> WITNESS <<q, c, how>> \in spoken'
    <3> QED OBVIOUS
  <2> QED BY <2>1 DEF Said
<1> QED BY <1>1, <1>2, <1>3

\* Out of a call only start_call is seen.
LEMMA LineIdle ==
  ASSUME TypeOK, Session, Next, Only({"mode", "bye"})', state = "IDLE"
  PROVE  [VL!Next]_(VL!vars)
<1>1. spoken' = spoken /\ (state' # "IDLE" => call' = call + 1)
  BY FaultsStay, IdleIsQuiet
<1>2. Said' = Said
  BY <1>1 DEF Said
<1>3. asker' = asker /\ (call' # call => StartCall)
  BY DEF Next, Dial, Loop, AnswerEnds, vars, ghostVars, lineVars, serviceVars,
         EndCall, EndCallCancelling, FeedAudio, FeedAudioFails, ApproveResponse,
         SetMode, Redial, Opened, OpenedWithin, OpenFailed, SetupRefused,
         Disconnected, LoopSevered, LoopEnds, FlushBegins, FlushEnds,
         OnResponseDrafted, OnResponseDone, BreaksWhenIdle, OnSpeechStarted,
         OnSpeechStopped, OnDelta, FlushChunk, FlushFails, ConnectionLost,
         ServiceCloses, StartCall, Receives
<1>4. CASE StartCall
  <2>1. VL!CallStarts
    BY <1>2, <1>3, <1>4 DEF StartCall, VL!CallStarts
  <2> QED BY <2>1 DEF VL!Next
<1>5. CASE ~StartCall
  <2>1. call' = call /\ state' = "IDLE"
    BY <1>1, <1>3, <1>5 DEF TypeOK, Calls
  <2> QED BY <1>2, <1>3, <2>1 DEF VL!vars
<1> QED BY <1>4, <1>5

\* In a call the caller is heard out, answered, or the call ends.
LEMMA LineInCall ==
  ASSUME TypeOK, Session, Callers, Next, Only({"mode", "bye"})',
         state # "IDLE"
  PROVE  [VL!Next]_(VL!vars)
<1> USE DEF lineVars, ghostVars, draftVars, serviceVars
<1>1. ASSUME UNCHANGED <<asker, spoken, call>>
      PROVE  [VL!Next]_(VL!vars)
  <2>1. Said' = Said
    BY <1>1 DEF Said
  <2>2. CASE state' = "IDLE"
    <3>1. VL!CallEnds
      BY <1>1, <2>1, <2>2 DEF VL!CallEnds
    <3> QED BY <3>1 DEF VL!Next
  <2>3. CASE state' # "IDLE"
    BY <1>1, <2>1, <2>3 DEF VL!vars
  <2> QED BY <2>2, <2>3
<1>2. ASSUME NEW a \in Answers, NEW how, asker[a] = call,
             spoken' = spoken \cup {<<a, call, how>>},
             UNCHANGED <<asker, call>>, state' # "IDLE"
      PROVE  [VL!Next]_(VL!vars)
  <2>1. Said' = Said \cup {<<a, call>>}
    BY <1>2, SaidGrows
  <2>2. VL!Says(a)
    BY <1>2, <2>1 DEF VL!Says
  <2> QED BY <2>2 DEF VL!Next
<1>3. CASE StartCall
  BY <1>3 DEF StartCall, Session
<1>4. ASSUME NEW c \in Conns, OnSpeechStopped(c)
      PROVE  [VL!Next]_(VL!vars)
  <2>1. PICK a \in Answers :
          asker[a] = 0 /\ asker' = [asker EXCEPT ![a] = heard[c]]
    BY <1>4 DEF OnSpeechStopped
  <2>2. heard[c] = call
    BY <1>4 DEF OnSpeechStopped, Receives, Callers, Attending
  <2>3. Said' = Said /\ call' = call /\ state' # "IDLE"
    BY <1>4 DEF OnSpeechStopped, Said
  <2>4. VL!Asks(a)
    BY <2>1, <2>2, <2>3 DEF VL!Asks
  <2> QED BY <2>4 DEF VL!Next
<1>5. ASSUME NEW c \in Conns, OnDelta(c)
      PROVE  [VL!Next]_(VL!vars)
  <2>1. PICK a \in answer[c] :
          \/ spoken' = spoken
          \/ spoken' = spoken \cup {<<a, call, "live">>}
    BY <1>5 DEF OnDelta
  <2>2. a \in Answers /\ asker[a] = call
    BY <1>5 DEF OnDelta, Receives, Callers, Attending, TypeOK
  <2>3. UNCHANGED <<asker, call>> /\ state' # "IDLE"
    BY <1>5 DEF OnDelta
  <2> QED BY <1>1, <1>2, <2>1, <2>2, <2>3
<1>6. ASSUME NEW c \in Conns, FlushChunk(c)
      PROVE  [VL!Next]_(VL!vars)
  <2>1. PICK a \in chunks, how \in Hows :
          spoken' = spoken \cup {<<a, call, how>>}
    BY <1>6 DEF FlushChunk, Hows
  <2>2. a \in Answers /\ asker[a] = call
    BY <2>1 DEF TypeOK, Callers
  <2>3. UNCHANGED <<asker, call>> /\ state' # "IDLE"
    BY <1>6 DEF FlushChunk
  <2> QED BY <1>2, <2>1, <2>2, <2>3
<1>7. CASE \/ FeedAudio
           \/ \E s \in Strands : Opened(s)
           \/ \E c \in Conns : OnResponseDrafted(c) \/ OnResponseDone(c)
                               \/ FlushEnds(c)
  <2>1. UNCHANGED <<asker, spoken, call>>
    BY <1>7 DEF FeedAudio, Opened, OnResponseDrafted, OnResponseDone, FlushEnds
  <2> QED BY <1>1, <2>1
<1>8. CASE \/ EndCall \/ FeedAudioFails \/ ApproveResponse
           \/ \E m \in Modes : SetMode(m)
           \/ \E s \in Strands :
                Redial(s) \/ OpenedWithin(s) \/ OpenFailed(s) \/ SetupRefused(s)
           \/ \E c \in Conns :
                \/ Disconnected(c) \/ LoopSevered(c) \/ LoopEnds(c)
                \/ FlushBegins(c) \/ BreaksWhenIdle(c) \/ OnSpeechStarted(c)
                \/ FlushFails(c) \/ ConnectionLost(c) \/ ServiceCloses(c)
  <2>1. UNCHANGED <<asker, spoken, call>>
    BY <1>8, QuietSteps DEF Quiet
  <2> QED BY <1>1, <2>1
<1> QED
  BY <1>3, <1>4, <1>5, <1>6, <1>7, <1>8 DEF Next, Dial, Loop, AnswerEnds

\* With mode switches and connections that fail, drop or are closed, and none
\* of the other faults, the pipeline implements VoiceLine, as AudioPipeline
\* does: main.py may put either behind the same handlers.
THEOREM ServesTheLineCorrect == Spec => ServesTheLine
<1>1. Init => VL!Init
  <2> SUFFICES ASSUME Init PROVE VL!Init
    OBVIOUS
  <2>1. Said = {}
    BY DEF Init, Said
  <2> QED BY <2>1 DEF Init, VL!Init
<1>2. TypeOK /\ SessionInv /\ CallerInv /\ [Next]_vars =>
        [Only({"mode", "bye"})' => [VL!Next]_(VL!vars)]_vars
  <2> SUFFICES ASSUME TypeOK, SessionInv, CallerInv, Next,
                      Only({"mode", "bye"})'
               PROVE  [VL!Next]_(VL!vars)
    OBVIOUS
  <2>1. Session /\ Callers
    BY FaultsStay DEF SessionInv, CallerInv
  <2> QED BY <2>1, LineIdle, LineInCall
<1> QED
  BY <1>1, <1>2, SessionInvariant, SpeechInvariant, PTL DEF Spec, ServesTheLine
=============================================================================
